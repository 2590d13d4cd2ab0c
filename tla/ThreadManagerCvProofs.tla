------------------------ MODULE ThreadManagerCvProofs ------------------------
(***************************************************************************)
(* The condition variables of manager_worker/04: every mutex is unlocked by *)
(* the thread that holds it, no wakeup is lost, and RunWorker is only ever  *)
(* early after a spurious wakeup.                                           *)
(***************************************************************************)
EXTENDS ThreadManagerCv, TLAPS

(* Where the worker's thread stands tells its state; where it goes from     *)
(* there depends on flags nobody changes meanwhile.                         *)
WorkerOK ==
  /\ wpc \in {"init", "init_resp", "init_req", "init_check"} => state = "Initing"
  /\ wpc \in {"inited_req", "predicate", "blocked", "wake_req", "run_resp", "stop_req",
              "stop_notify", "quit_resp"} => state = "Inited"
  /\ wpc \in {"outer", "running", "deinit", "quit"} => state \in {"Initing", "Inited"}
  /\ wpc = "inner" => state # "Quit"
  /\ wpc \in {"run_notify", "run", "stop", "stop_resp"} => state = "Running"
  /\ wpc \in {"quit_notify", "ended"} => state = "Quit"
  /\ wpc = "outer" => to_run \/ to_quit
  /\ wpc = "inner" /\ state # "Running" => to_run
  /\ wpc \in {"inner", "running"} /\ state = "Initing" => ~to_quit
  /\ wpc \in {"deinit", "quit_resp", "quit", "quit_notify", "ended"} => to_quit

(* The manager acts on a state that does not change under it, and a quit it *)
(* has asked a worker that is inited for is one it waits for.               *)
ManagerOK ==
  /\ wpc = "none" => mpc = "idle"
  /\ deleting => mpc \in {"quit_resp", "quit_req", "quit_notify", "quit_wait", "quit_wake",
                          "join"}
  /\ mpc \in {"run_req", "run_notify"} => state = "Inited"
  /\ mpc \in {"quit_req", "quit_notify"} => state \in {"Inited", "Running"}
  /\ mpc \in {"stop_wait", "stop_wake"} => state # "Initing"
  /\ to_quit /\ state \in {"Inited", "Running"} =>
       mpc \in {"quit_notify", "quit_wait", "quit_wake"}

(* From RunWorker's request to its answer the worker is on its way from its  *)
(* wait to Running, and cannot be anywhere else.                            *)
RunOK ==
  /\ mpc = "run_notify" =>
       /\ to_run
       /\ wpc \in {"blocked", "wake_req", "predicate", "outer", "inner", "run_resp"}
  /\ mpc = "run_wait" =>
       /\ to_run
       /\ \/ /\ state = "Inited"
             /\ wpc \in {"wake_req", "predicate", "outer", "inner", "run_resp", "running"}
          \/ state = "Running" /\ wpc = "run_notify"
  /\ mpc = "run_wake" /\ ~spurious =>
       state = "Running" /\ to_run /\ wpc \in {"run", "inner"}

(* Until a wait of RunWorker wakes up by itself, no request to run is left    *)
(* over from an earlier state, nor one to stop.                             *)
ObeyOK ==
  ~spurious =>
    /\ to_run /\ state = "Inited" => mpc \in {"run_notify", "run_wait"}
    /\ ~to_run /\ state = "Running" =>
         mpc \in {"stop_wait", "stop_wake", "quit_req", "quit_notify", "quit_wait", "quit_wake"}
    /\ wpc \in {"stop", "stop_resp", "stop_req", "stop_notify"} => ~to_run
    /\ wpc \in {"run_resp", "running"} => to_run

IInv == TypeOK /\ OwnershipOK /\ NoLostWakeup /\ WorkerOK /\ ManagerOK /\ RunOK /\ ObeyOK

USE DEF States, Owners, WorkerLabels, ManagerLabels, flags, locks

LEMMA InitIInv == Init => IInv
BY ThreadManagerCvAssumption
   DEF Init, IInv, TypeOK, OwnershipOK, NoLostWakeup, WorkerOK, ManagerOK, RunOK, ObeyOK

(* The steps of the manager.                                                *)
LEMMA ManagerKeepsIInv ==
  ASSUME IInv, UNCHANGED spurious,
         \/ NewWorker \/ Call \/ DeleteWorker \/ ManagerStep \/ SpuriousManagerWakeup
  PROVE  IInv'
<1> USE DEF IInv, TypeOK, OwnershipOK, NoLostWakeup, WorkerOK, ManagerOK, RunOK,
            ObeyOK, Manager, Worker
<1>1. CASE NewWorker
  BY <1>1 DEF NewWorker
<1>2. CASE Call
  BY <1>2 DEF Call
<1>3. CASE DeleteWorker
  BY <1>3 DEF DeleteWorker
<1>4. CASE RunDecide
  <2>1. CASE state \in {"Running", "Quit"}
    BY <1>4, <2>1 DEF RunDecide
  <2>2. CASE state = "Initing"
    BY <1>4, <2>2 DEF RunDecide
  <2>3. CASE state = "Inited"
    BY <1>4, <2>3 DEF RunDecide
  <2> QED BY <2>1, <2>2, <2>3
<1>5. CASE StopDecide
  <2>1. CASE state \in {"Inited", "Quit"}
    BY <1>5, <2>1 DEF StopDecide
  <2>2. CASE state = "Initing"
    BY <1>5, <2>2 DEF StopDecide
  <2>3. CASE state = "Running"
    BY <1>5, <2>3 DEF StopDecide
  <2> QED BY <2>1, <2>2, <2>3
<1>6. CASE QuitDecide
  <2>1. CASE state = "Initing"
    BY <1>6, <2>1 DEF QuitDecide, QuitReturn
  <2>2. CASE state = "Quit"
    BY <1>6, <2>2 DEF QuitDecide, QuitReturn
  <2>3. CASE state = "Inited"
    BY <1>6, <2>3 DEF QuitDecide, QuitReturn
  <2>4. CASE state = "Running"
    BY <1>6, <2>4 DEF QuitDecide, QuitReturn
  <2> QED BY <2>1, <2>2, <2>3, <2>4
<1>7. CASE RaiseRequest
  <2>1. CASE mpc = "run_req"
    BY <1>7, <2>1 DEF RaiseRequest
  <2>2. CASE mpc = "quit_req"
    BY <1>7, <2>2 DEF RaiseRequest
  <2> QED BY <1>7, <2>1, <2>2 DEF RaiseRequest
<1>8. CASE NotifyWorker
  BY <1>8 DEF NotifyWorker
<1>9. CASE Resume
  BY <1>9 DEF Resume, QuitReturn
<1>10. CASE Join
  BY <1>10 DEF Join
<1>11. CASE SpuriousManagerWakeup
  BY <1>11 DEF SpuriousManagerWakeup, Woken
<1> QED BY <1>1, <1>2, <1>3, <1>4, <1>5, <1>6, <1>7, <1>8, <1>9, <1>10, <1>11
        DEF ManagerStep

(* The steps of the worker's thread.                                        *)
LEMMA WorkerKeepsIInv ==
  ASSUME IInv, UNCHANGED spurious,
         ThreadFunction \/ (SpuriousWorkerWakeup /\ UNCHANGED <<mpc, deleting>>)
  PROVE  IInv'
<1> USE DEF IInv, TypeOK, OwnershipOK, NoLostWakeup, WorkerOK, ManagerOK, RunOK,
            ObeyOK, Worker, Lock
<1>1. CASE NotifyManager
  BY <1>1 DEF NotifyManager, Woken
<1>2. CASE UNCHANGED <<mpc, deleting>>
  <2>1. CASE InitCallback \/ RunCallback \/ StopCallback \/ SpuriousWorkerWakeup
    BY <1>2, <2>1 DEF InitCallback, RunCallback, StopCallback, SpuriousWorkerWakeup
  <2>2. CASE LockResp
    BY <1>2, <2>2 DEF LockResp
  <2>3. CASE LockReq
    BY <1>2, <2>3 DEF LockReq
  <2>4. CASE InitCheck
    BY <1>2, <2>4 DEF InitCheck
  <2>5. CASE SwapLocks
    BY <1>2, <2>5 DEF SwapLocks
  <2>6. CASE Predicate
    BY <1>2, <2>6 DEF Predicate
  <2>7. CASE Outer
    BY <1>2, <2>7 DEF Outer
  <2>8. CASE Inner
    BY <1>2, <2>8 DEF Inner
  <2>9. CASE Running
    BY <1>2, <2>9 DEF Running
  <2>10. CASE Stopped
    BY <1>2, <2>10 DEF Stopped
  <2>11. CASE DeinitCallback
    BY <1>2, <2>11 DEF DeinitCallback
  <2>12. CASE QuitState
    BY <1>2, <2>12 DEF QuitState
  <2> QED BY <1>1, <2>1, <2>2, <2>3, <2>4, <2>5, <2>6, <2>7, <2>8, <2>9, <2>10, <2>11,
             <2>12 DEF ThreadFunction
<1> QED BY <1>1, <1>2 DEF ThreadFunction

LEMMA StepIInv == IInv /\ [Next]_vars => IInv'
<1>1. CASE UNCHANGED vars
  BY <1>1 DEF vars, IInv, TypeOK, OwnershipOK, NoLostWakeup, WorkerOK, ManagerOK, RunOK,
              ObeyOK
<1> QED BY <1>1, ManagerKeepsIInv, WorkerKeepsIInv DEF Next

(* The inductive invariant of 04.                                           *)
THEOREM Invariance == Spec => []IInv
BY InitIInv, StepIInv, PTL DEF Spec

(* ThreadFunction of 04 unlocks a mutex only where it holds it, on each of   *)
(* its paths.                                                               *)
THEOREM MutexesAreOwned == Spec => []OwnershipOK
<1>1. IInv => OwnershipOK
  BY DEF IInv
<1> QED BY <1>1, Invariance, PTL

(* Neither the worker of 04 nor its manager sleeps on what has happened.     *)
THEOREM NoWakeupIsLost == Spec => []NoLostWakeup
<1>1. IInv => NoLostWakeup
  BY DEF IInv
<1> QED BY <1>1, Invariance, PTL

(* Unless its wait wakes up by itself, RunWorker returns on a running worker. *)
THEOREM RunReturnsOnceRunning == Spec => RunIsSyncUnlessSpurious
<1>1. IInv /\ [Next]_vars => [~spurious => RunReturnsRunning]_vars
  <2> SUFFICES ASSUME IInv, Next, ~spurious, mpc = "run_wake", mpc' = "idle"
               PROVE  state = "Running"
    BY DEF RunReturnsRunning
  <2> QED BY DEF IInv, RunOK
<1> QED BY <1>1, Invariance, PTL DEF Spec, RunIsSyncUnlessSpurious
-----------------------------------------------------------------------------
(* ObedientWorkers, of one worker: what each of its steps takes of the       *)
(* functions of the instance.                                               *)
LEMMA OneWorker ==
  ASSUME NEW x, NEW y
  PROVE  [[w \in {"worker"} |-> x] EXCEPT !["worker"] = y] = [w \in {"worker"} |-> y]
OBVIOUS

LEMMA StutterStep ==
  ASSUME Life' = Life, Wish' = Wish, Waiting' = Waiting
  PROVE  UNCHANGED Obedient!vars
BY DEF Obedient!vars

LEMMA ObeyStep ==
  ASSUME Life # Wish, Wish' = Wish, Waiting' = Waiting,
         \/ Life' = Wish
         \/ Wish = "End" /\ Life = "Running" /\ Life' = "Inited"
  PROVE  Obedient!Next
<1>1. Obedient!Obey("worker")
  BY OneWorker DEF Obedient!Obey
<1> QED BY <1>1 DEF Obedient!Next

LEMMA RequestStep ==
  ASSUME NEW s \in {"New", "Inited", "Running", "End"},
         ~Waiting, Life \in Obedient!Before(s), Wish # "End", Life = "New" \/ Wish = Life,
         Wish' = s, Life' = Life, Waiting' \/ Life = "New"
  PROVE  Obedient!Next
<1>1. Obedient!Request({"worker"}, s)
  BY DEF Obedient!Request
<1> QED BY <1>1 DEF Obedient!Next

LEMMA ReturnStep ==
  ASSUME Waiting, ~Waiting', Life = Wish, Life' = Life, Wish' = Wish
  PROVE  Obedient!Next
<1>1. Obedient!Return("worker")
  BY DEF Obedient!Return
<1> QED BY <1>1 DEF Obedient!Next

LEMMA CreateStep ==
  ASSUME ~Waiting, ~Waiting', Life = "none", Life' = "New", Wish' = "Inited"
  PROVE  Obedient!Next
<1>1. Obedient!Create("worker")
  BY OneWorker DEF Obedient!Create
<1> QED BY <1>1 DEF Obedient!Next

LEMMA DeleteStep ==
  ASSUME ~Waiting, ~Waiting', Life = "End", Life' = "none", Wish' = "none"
  PROVE  Obedient!Next
<1>1. Obedient!Delete("worker")
  BY OneWorker DEF Obedient!Delete
<1> QED BY <1>1 DEF Obedient!Next

LEMMA ManagerObeys ==
  ASSUME IInv, ~spurious, UNCHANGED spurious,
         \/ NewWorker \/ Call \/ DeleteWorker \/ ManagerStep \/ SpuriousManagerWakeup
  PROVE  [Obedient!Next]_(Obedient!vars)
<1> USE DEF IInv, TypeOK, OwnershipOK, WorkerOK, ManagerOK, RunOK, ObeyOK, Manager, Worker,
            Life, Wish, Waiting
<1>1. CASE NewWorker
  BY <1>1, CreateStep DEF NewWorker
<1>2. CASE Call
  BY <1>2, StutterStep DEF Call
<1>3. CASE DeleteWorker
  BY <1>3, StutterStep DEF DeleteWorker
<1>4. CASE RunDecide
  <2>1. CASE state \in {"Running", "Quit"}
    BY <1>4, <2>1, StutterStep DEF RunDecide
  <2>2. CASE state = "Initing" /\ (to_run \/ to_quit)
    BY <1>4, <2>2, StutterStep DEF RunDecide
  <2>3. CASE state = "Initing" /\ ~to_run /\ ~to_quit
    BY <1>4, <2>3, RequestStep DEF RunDecide, Obedient!Before
  <2>4. CASE state = "Inited"
    BY <1>4, <2>4, RequestStep DEF RunDecide, Obedient!Before
  <2> QED BY <2>1, <2>2, <2>3, <2>4
<1>5. CASE StopDecide
  <2>1. CASE state \in {"Inited", "Quit"}
    BY <1>5, <2>1, StutterStep DEF StopDecide
  <2>2. CASE state = "Initing" /\ (~to_run \/ to_quit)
    BY <1>5, <2>2, StutterStep DEF StopDecide
  <2>3. CASE state = "Initing" /\ to_run /\ ~to_quit
    BY <1>5, <2>3, RequestStep DEF StopDecide, Obedient!Before
  <2>4. CASE state = "Running"
    BY <1>5, <2>4, RequestStep DEF StopDecide, Obedient!Before
  <2> QED BY <2>1, <2>2, <2>3, <2>4
<1>6. CASE QuitDecide
  <2>1. CASE state = "Initing" /\ to_quit
    BY <1>6, <2>1, StutterStep DEF QuitDecide, QuitReturn
  <2>2. CASE state = "Initing" /\ ~to_quit
    BY <1>6, <2>2, RequestStep DEF QuitDecide, QuitReturn, Obedient!Before
  <2>3. CASE state = "Quit"
    BY <1>6, <2>3, StutterStep DEF QuitDecide, QuitReturn
  <2>4. CASE state = "Inited"
    BY <1>6, <2>4, RequestStep DEF QuitDecide, QuitReturn, Obedient!Before
  <2>5. CASE state = "Running"
    BY <1>6, <2>5, RequestStep DEF QuitDecide, QuitReturn, Obedient!Before
  <2> QED BY <2>1, <2>2, <2>3, <2>4, <2>5
<1>7. CASE RaiseRequest
  BY <1>7, StutterStep DEF RaiseRequest
<1>8. CASE NotifyWorker
  BY <1>8, StutterStep DEF NotifyWorker
<1>9. CASE Resume
  <2>1. CASE mpc = "run_wake" \/ (mpc = "stop_wake" /\ state = "Inited")
             \/ (mpc = "quit_wake" /\ state = "Quit")
    BY <1>9, <2>1, ReturnStep DEF Resume, QuitReturn
  <2>2. CASE (mpc = "stop_wake" /\ state # "Inited") \/ (mpc = "quit_wake" /\ state # "Quit")
    BY <1>9, <2>2, StutterStep DEF Resume, QuitReturn
  <2> QED BY <1>9, <2>1, <2>2 DEF Resume, QuitReturn
<1>10. CASE Join
  BY <1>10, DeleteStep DEF Join
<1>11. CASE SpuriousManagerWakeup
  BY <1>11, StutterStep DEF SpuriousManagerWakeup, Woken
<1> QED BY <1>1, <1>2, <1>3, <1>4, <1>5, <1>6, <1>7, <1>8, <1>9, <1>10, <1>11
        DEF ManagerStep

LEMMA WorkerObeys ==
  ASSUME IInv, ~spurious, UNCHANGED spurious,
         ThreadFunction \/ (SpuriousWorkerWakeup /\ UNCHANGED <<mpc, deleting>>)
  PROVE  [Obedient!Next]_(Obedient!vars)
<1> USE DEF IInv, TypeOK, OwnershipOK, WorkerOK, ManagerOK, RunOK, ObeyOK, Worker, Lock,
            Life, Wish, Waiting
<1>1. CASE NotifyManager
  BY <1>1, StutterStep DEF NotifyManager, Woken
<1>2. CASE UNCHANGED <<mpc, deleting>>
  <2>1. CASE InitCallback \/ RunCallback \/ StopCallback \/ SpuriousWorkerWakeup
    BY <1>2, <2>1, StutterStep
       DEF InitCallback, RunCallback, StopCallback, SpuriousWorkerWakeup
  <2>2. CASE LockResp \/ LockReq \/ SwapLocks
    BY <1>2, <2>2, StutterStep DEF LockResp, LockReq, SwapLocks
  <2>3. CASE Predicate \/ Outer \/ Inner \/ DeinitCallback
    BY <1>2, <2>3, StutterStep DEF Predicate, Outer, Inner, DeinitCallback
  <2>4. CASE InitCheck
    <3>1. CASE to_run \/ to_quit
      BY <1>2, <2>4, <3>1, StutterStep DEF InitCheck
    <3>2. CASE ~to_run /\ ~to_quit
      BY <1>2, <2>4, <3>2, ObeyStep DEF InitCheck
    <3> QED BY <3>1, <3>2
  <2>5. CASE Running
    BY <1>2, <2>5, ObeyStep DEF Running
  <2>6. CASE Stopped
    BY <1>2, <2>6, ObeyStep DEF Stopped
  <2>7. CASE QuitState
    BY <1>2, <2>7, ObeyStep DEF QuitState
  <2> QED BY <1>1, <2>1, <2>2, <2>3, <2>4, <2>5, <2>6, <2>7 DEF ThreadFunction
<1> QED BY <1>1, <1>2 DEF ThreadFunction

(* ThreadManager of 04 keeps the promise of ObedientWorkers unless the wait   *)
(* of RunWorker wakes up by itself: the worker does what it was told last,   *)
(* and the calls that wait return when it has.                              *)
THEOREM WorkerIsObedient == Spec => ObeysUnlessSpurious
<1>1. Init => Obedient!Init
  BY OneWorker DEF Init, Obedient!Init, Life, Wish, Waiting
<1>2. IInv /\ [Next]_vars => [~spurious => Obedient!Next]_(Obedient!vars)
  <2>1. CASE UNCHANGED vars
    BY <2>1, StutterStep DEF vars, Life, Wish, Waiting
  <2>2. CASE Next
    BY <2>2, ManagerObeys, WorkerObeys DEF Next
  <2> QED BY <2>1, <2>2
<1> QED BY <1>1, <1>2, Invariance, PTL DEF Spec, ObeysUnlessSpurious
=============================================================================
