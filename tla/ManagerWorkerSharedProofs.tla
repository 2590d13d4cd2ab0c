---------------------- MODULE ManagerWorkerSharedProofs ----------------------
(***************************************************************************)
(* For any set of workers of manager_worker/02: the worker that answers is  *)
(* the one the manager waits for, and between calls the threads are joined. *)
(***************************************************************************)
EXTENDS ManagerWorkerShared, TLAPS

Waits == {"loop", "test", "blocking", "asleep"}
Restarts == {"loop", "test", "asleep", "chosen", "start_sync"}
Leaves == {"loop", "test", "blocking", "asleep", "chosen", "deinit", "deinit_sync"}
Breaks == {"run", "ran", "deinit", "deinit_sync"}

(* A worker no call is about: without a thread, waiting, or running.        *)
Resting(w) ==
  \/ thread[w] = "none" /\ ~is_init[w] /\ ~is_running[w]
  \/ thread[w] \in Waits /\ is_init[w] /\ ~is_running[w] /\ w \in named_workers
  \/ thread[w] = "run" /\ is_init[w] /\ is_running[w] /\ w \in named_workers

(* The worker a call is about, in each kind of call, by where the manager is.*)
Initing(w) ==
  /\ op = "init" /\ ~is_running[w]
  /\ \/ mpc = "init" /\ thread[w] = "none" /\ ~is_init[w]
     \/ mpc = "started" /\ thread[w] \in {"init", "init_sync"} /\ ~is_init[w]
     \/ mpc = "wait" /\ thread[w] \in {"init", "init_sync"} /\ is_init[w]
     \/ mpc = "waiting" /\ thread[w] \in {"init", "init_sync", "init_tell"} /\ is_init[w]
     \/ mpc = "awake" /\ thread[w] \in Waits /\ is_init[w]

Starting(w) ==
  /\ op = "start" /\ is_init[w]
  /\ \/ mpc = "start" /\ thread[w] \in Waits /\ ~is_running[w]
     \/ mpc \in {"notify", "wait"} /\ thread[w] \in Restarts /\ is_running[w]
     \/ mpc = "waiting" /\ thread[w] \in Restarts \cup {"start_tell"} /\ is_running[w]
     \/ mpc = "awake" /\ thread[w] = "run" /\ is_running[w]

Stopping(w) ==
  /\ op = "stop" /\ is_init[w]
  /\ \/ mpc = "stop" /\ thread[w] = "run" /\ is_running[w]
     \/ mpc = "wait" /\ thread[w] \in {"run", "ran", "stop_sync"} /\ ~is_running[w]
     \/ mpc = "waiting" /\ thread[w] \in {"run", "ran", "stop_sync", "stop_tell"}
                        /\ ~is_running[w]
     \/ mpc = "awake" /\ thread[w] \in Waits /\ ~is_running[w]

Deiniting(w) ==
  /\ op \in {"deinit", "detach"}
  /\ \/ mpc = op /\ is_init[w] /\ thread[w] \in Waits /\ ~is_running[w]
     \/ mpc = op /\ is_init[w] /\ thread[w] = "run" /\ is_running[w]
     \/ mpc = "clear" /\ ~is_init[w] /\ is_running[w] /\ thread[w] \in Breaks
     \/ /\ ~is_init[w] /\ ~is_running[w]
        /\ \/ mpc = "notify" /\ thread[w] \in Leaves
           \/ mpc = "wait" /\ thread[w] \in Leaves \cup Breaks
           \/ mpc = "waiting" /\ thread[w] \in Leaves \cup Breaks \cup {"deinit_tell"}
           \/ mpc \in {"awake", "join"} /\ thread[w] = "ended"

Called(w) == /\ w \in named_workers
             /\ Initing(w) \/ Starting(w) \/ Stopping(w) \/ Deiniting(w)

JointStates == /\ target = None <=> mpc = "idle"
               /\ \A w \in Workers : IF w = target THEN Called(w) ELSE Resting(w)

(* A worker between its test and its sleep holds the request mutex.         *)
MutexOK == \A w \in Workers : thread[w] = "blocking" => lock_req_ = w

IInv == TypeOK /\ MutexOK /\ JointStates

LEMMA InitIInv == Init => IInv
BY ManagerWorkerAssumption DEF Init, IInv, TypeOK, MutexOK, JointStates, Resting

LEMMA TypeInvariant == IInv /\ [Next]_vars => TypeOK'
<1> SUFFICES ASSUME IInv, [Next]_vars PROVE TypeOK'
  OBVIOUS
<1> USE DEF IInv, TypeOK, Manager, Go, flags, locks, call
<1>1. ASSUME NEW w \in Workers, attachWorker(w) PROVE TypeOK'
  BY <1>1 DEF attachWorker
<1>2. ASSUME NEW w \in Workers,
             initWorker(w) \/ startWorker(w) \/ stopWorker(w) \/ deinitWorker(w)
      PROVE  TypeOK'
  <2>1. PICK name \in {"init", "start", "stop", "deinit"} : Enter(name, w)
    BY <1>2 DEF initWorker, startWorker, stopWorker, deinitWorker
  <2> QED BY <2>1 DEF Enter
<1>3. ASSUME NEW w \in Workers, detachWorker(w) PROVE TypeOK'
  <2>1. CASE Enter("detach", w)
    BY <2>1 DEF Enter
  <2>2. CASE ~Enter("detach", w)
    BY <1>3, <2>2 DEF detachWorker
  <2> QED BY <2>1, <2>2
<1>4. CASE Request
  <2>1. is_init' \in [Workers -> BOOLEAN] /\ is_running' \in [Workers -> BOOLEAN]
    BY <1>4 DEF Request, SetInit, SetRunning
  <2>2. thread' = thread \/ thread' = [thread EXCEPT ![target] = "init"]
    BY <1>4 DEF Request
  <2> QED BY <1>4, <2>1, <2>2 DEF Request
<1>5. CASE Notify
  <2>1. thread' = thread \/ \E w \in Workers : thread' = [thread EXCEPT ![w] = "test"]
    BY <1>5 DEF Notify
  <2>2. missed' \in BOOLEAN
    BY <1>5 DEF Notify
  <2> QED BY <1>5, <2>1, <2>2 DEF Notify
<1>6. CASE Wait
  BY <1>6 DEF Wait
<1>7. CASE Return
  <2>1. thread' = thread \/ thread' = [thread EXCEPT ![target] = "none"]
    BY <1>7 DEF Return
  <2>2. named_workers' \subseteq Workers
    BY <1>7 DEF Return
  <2> QED BY <1>7, <2>1, <2>2 DEF Return
<1>8. CASE Answered
  BY <1>8 DEF Answered
<1>9. ASSUME NEW w \in Workers, Walk(w) PROVE TypeOK'
  BY <1>9 DEF Walk
<1>10. ASSUME NEW w \in Workers, Test(w) \/ Block(w) PROVE TypeOK'
  BY <1>10 DEF Test, Block
<1>11. ASSUME NEW w \in Workers, PassRespMutex(w) PROVE TypeOK'
  BY <1>11 DEF PassRespMutex
<1>12. ASSUME NEW w \in Workers, Tell(w) PROVE TypeOK'
  BY <1>12 DEF Tell
<1>13. ASSUME NEW w \in Workers, SpuriousWakeup(w) PROVE TypeOK'
  BY <1>13 DEF SpuriousWakeup
<1>14. CASE UNCHANGED vars
  BY <1>14 DEF vars
<1> QED BY <1>1, <1>2, <1>3, <1>4, <1>5, <1>6, <1>7, <1>8, <1>9, <1>10, <1>11, <1>12,
           <1>13, <1>14 DEF Next, newThread, ManagerStep
(* Nobody but the worker itself comes to stand between its test and sleep.  *)
LEMMA MutexInvariant == IInv /\ [Next]_vars => MutexOK'
<1> SUFFICES ASSUME IInv, [Next]_vars, NEW v \in Workers, thread'[v] = "blocking"
             PROVE  lock_req_' = v
  BY DEF MutexOK
<1> USE DEF IInv, TypeOK, MutexOK, Go, flags, locks
<1>1. ASSUME NEW w \in Workers,
             attachWorker(w) \/ detachWorker(w) \/ initWorker(w) \/ startWorker(w)
               \/ stopWorker(w) \/ deinitWorker(w)
      PROVE  UNCHANGED <<thread, lock_req_>>
  BY <1>1 DEF attachWorker, detachWorker, initWorker, startWorker, stopWorker, deinitWorker,
              Enter
<1>2. CASE ManagerStep
  <2>1. lock_req_' = lock_req_
    BY <1>2 DEF ManagerStep, Request, Notify, Wait, Return, Answered
  <2>2. thread' = thread \/ \E w \in Workers \cup {None}, l \in {"init", "test", "none"} :
                              thread' = [thread EXCEPT ![w] = l]
    BY <1>2 DEF ManagerStep, Request, Notify, Wait, Return, Answered
  <2> QED BY <2>1, <2>2
<1>3. ASSUME NEW w \in Workers, Walk(w) \/ PassRespMutex(w) \/ Tell(w) \/ SpuriousWakeup(w)
      PROVE  lock_req_' = v
  BY <1>3 DEF Walk, PassRespMutex, Tell, SpuriousWakeup
<1>4. ASSUME NEW w \in Workers, Test(w) \/ Block(w) PROVE lock_req_' = v
  BY <1>4, ManagerWorkerAssumption DEF Test, Block
<1>5. CASE UNCHANGED vars
  BY <1>5 DEF vars
<1> QED BY <1>1, <1>2, <1>3, <1>4, <1>5 DEF Next, newThread

(* A worker whose own variables stay as they are, and which no call is or   *)
(* comes to be about, goes on resting.                                      *)
LEMMA UntouchedRests ==
  ASSUME NEW w \in Workers, Resting(w),
         thread'[w] = thread[w], is_init'[w] = is_init[w], is_running'[w] = is_running[w],
         w \in named_workers => w \in named_workers'
  PROVE  Resting(w)'
BY DEF Resting
(* A call begins on a worker at rest.                                       *)
LEMMA EnterJoint ==
  ASSUME IInv, NEW w \in Workers, NEW name \in {"init", "start", "stop", "deinit", "detach"},
         Enter(name, w),
         name = "init" => ~is_init[w],
         name # "init" => is_init[w],
         name = "start" => ~is_running[w],
         name = "stop" => is_running[w]
  PROVE  JointStates'
<1> USE DEF IInv, TypeOK, JointStates, Enter, Manager, flags
<1>1. target' = w /\ mpc' = name /\ op' = name /\ w \in named_workers
  OBVIOUS
<1>2. \A v \in Workers : Resting(v)
  BY ManagerWorkerAssumption
<1>3. ASSUME NEW v \in Workers, v # w PROVE Resting(v)'
  BY <1>2, <1>3, UntouchedRests
<1>4. Called(w)'
  BY <1>1, <1>2 DEF Called, Initing, Starting, Stopping, Deiniting, Resting, Waits
<1> QED BY <1>1, <1>3, <1>4, ManagerWorkerAssumption

(* A step of the manager in a call, or of the worker it is about, touches   *)
(* no other worker.                                                         *)
LEMMA CalledJoint ==
  ASSUME IInv, target \in Workers, target' = target, mpc' # "idle",
         UNCHANGED named_workers, Called(target)',
         \A v \in Workers \ {target} : /\ thread'[v] = thread[v]
                                       /\ is_init'[v] = is_init[v]
                                       /\ is_running'[v] = is_running[v]
  PROVE  JointStates'
<1>1. ASSUME NEW v \in Workers, v # target PROVE Resting(v)'
  BY <1>1, UntouchedRests DEF IInv, JointStates
<1> QED BY <1>1, ManagerWorkerAssumption DEF JointStates
(* The steps of the manager inside a call.                                  *)
LEMMA ManagerJoint == IInv /\ ManagerStep => JointStates'
<1> SUFFICES ASSUME IInv, ManagerStep PROVE JointStates'
  OBVIOUS
<1>1. target \in Workers /\ mpc # "idle"
  BY DEF IInv, TypeOK, JointStates, ManagerStep, Request, Notify, Wait, Return, Answered,
         Manager
<1>2. Called(target) /\ \A v \in Workers \ {target} : Resting(v)
  BY <1>1 DEF IInv, JointStates
<1> USE DEF Manager, flags, locks, call, Waits, Restarts, Leaves, Breaks
<1>3. CASE Request
  <2>1. /\ target' = target /\ mpc' # "idle" /\ UNCHANGED <<named_workers, op>>
        /\ \A v \in Workers \ {target} : /\ thread'[v] = thread[v]
                                         /\ is_init'[v] = is_init[v]
                                         /\ is_running'[v] = is_running[v]
    BY <1>1, <1>3 DEF Request, SetInit, SetRunning, IInv, TypeOK
  <2>2. CASE mpc \in {"init", "started"}
    <3>1. Initing(target)'
      BY <1>1, <1>2, <1>3, <2>2
         DEF Request, SetInit, SetRunning, IInv, TypeOK, Called, Initing, Starting, Stopping,
             Deiniting
    <3> QED BY <1>1, <1>2, <2>1, <3>1, CalledJoint DEF Called
  <2>3. CASE mpc = "start"
    <3>1. thread[target] # "blocking"
      BY <1>1, <1>3, <2>3, ManagerWorkerAssumption DEF Request, IInv, MutexOK
    <3>2. Starting(target)'
      BY <1>1, <1>2, <1>3, <2>3, <3>1
         DEF Request, SetInit, SetRunning, IInv, TypeOK, Called, Initing, Starting, Stopping,
             Deiniting
    <3> QED BY <1>1, <1>2, <2>1, <3>2, CalledJoint DEF Called
  <2>4. CASE mpc = "stop"
    <3>1. Stopping(target)'
      BY <1>1, <1>2, <1>3, <2>4
         DEF Request, SetInit, SetRunning, IInv, TypeOK, Called, Initing, Starting, Stopping,
             Deiniting
    <3> QED BY <1>1, <1>2, <2>1, <3>1, CalledJoint DEF Called
  <2>5. CASE mpc \in {"deinit", "detach", "clear"}
    <3>1. Deiniting(target)'
      BY <1>1, <1>2, <1>3, <2>5
         DEF Request, SetInit, SetRunning, IInv, TypeOK, Called, Initing, Starting, Stopping,
             Deiniting
    <3> QED BY <1>1, <1>2, <2>1, <3>1, CalledJoint DEF Called
  <2> QED BY <1>3, <2>2, <2>3, <2>4, <2>5 DEF Request
<1>4. CASE Notify
  <2>1. Called(target)'
    BY <1>1, <1>2, <1>4
       DEF Notify, IInv, TypeOK, Called, Initing, Starting, Stopping, Deiniting
  <2>2. ASSUME NEW v \in Workers, v # target PROVE Resting(v)'
    BY <1>2, <1>4, <2>2 DEF Notify, Resting, IInv, TypeOK
  <2> QED BY <1>1, <1>4, <2>1, <2>2, ManagerWorkerAssumption DEF Notify, JointStates
<1>5. CASE Wait \/ Answered
  <2>1. Called(target)'
    BY <1>1, <1>2, <1>5
       DEF Wait, Answered, Called, Initing, Starting, Stopping, Deiniting
  <2> QED BY <1>1, <1>5, <2>1, CalledJoint DEF Wait, Answered
<1>6. CASE Return
  <2>1. target' = None /\ mpc' = "idle"
    BY <1>6 DEF Return
  <2>2. ASSUME NEW v \in Workers, v = target PROVE Resting(v)'
    BY <1>1, <1>2, <1>6, <2>2
       DEF Return, IInv, TypeOK, Called, Initing, Starting, Stopping, Deiniting, Resting
  <2>3. ASSUME NEW v \in Workers, v # target PROVE Resting(v)'
    <3>1. thread'[v] = thread[v] /\ (v \in named_workers => v \in named_workers')
      BY <1>6, <2>3 DEF Return, IInv, TypeOK
    <3> QED BY <1>2, <1>6, <2>3, <3>1, UntouchedRests DEF Return
  <2> QED BY <2>1, <2>2, <2>3, ManagerWorkerAssumption DEF JointStates
<1> QED BY <1>3, <1>4, <1>5, <1>6 DEF ManagerStep
(* The steps of a worker at rest.                                           *)
LEMMA RestingJoint ==
  ASSUME IInv, NEW w \in Workers, w # target, newThread(w) \/ SpuriousWakeup(w)
  PROVE  JointStates'
<1> USE DEF IInv, TypeOK, Go, flags, locks, call
<1>1. Resting(w)
  BY DEF JointStates
<1>2. Walk(w) \/ Test(w) \/ Block(w) \/ SpuriousWakeup(w)
  BY <1>1 DEF newThread, Resting, PassRespMutex, Tell, Waits
<1>3. Resting(w)' /\ UNCHANGED <<mpc, op, target, is_init, is_running, named_workers>>
  BY <1>1, <1>2 DEF Walk, Test, Block, SpuriousWakeup, Resting, Waits
<1>4. ASSUME NEW v \in Workers, v # w PROVE thread'[v] = thread[v]
  BY <1>2, <1>4 DEF Walk, Test, Block, SpuriousWakeup
<1>5. ASSUME NEW v \in Workers, v # w, v = target PROVE Called(v)'
  BY <1>3, <1>4, <1>5 DEF JointStates, Called, Initing, Starting, Stopping, Deiniting
<1>6. ASSUME NEW v \in Workers, v # w, v # target PROVE Resting(v)'
  BY <1>3, <1>4, <1>6, UntouchedRests DEF JointStates
<1> QED BY <1>3, <1>5, <1>6 DEF JointStates

(* The steps of the worker a call is about.                                 *)
LEMMA TargetJoint ==
  ASSUME IInv, target \in Workers, newThread(target) \/ SpuriousWakeup(target)
  PROVE  JointStates'
<1> USE DEF IInv, TypeOK, Go, flags, locks, call, Waits, Restarts, Leaves, Breaks
<1>1. mpc # "idle" /\ Called(target)
  BY ManagerWorkerAssumption DEF JointStates
<1>2. /\ UNCHANGED <<named_workers, op, target, is_init, is_running>>
      /\ \A v \in Workers \ {target} : thread'[v] = thread[v]
  BY DEF newThread, Walk, Test, Block, PassRespMutex, Tell, SpuriousWakeup
<1>3. mpc' # "idle"
  BY <1>1 DEF newThread, Walk, Test, Block, PassRespMutex, Tell, SpuriousWakeup
<1> SUFFICES Called(target)'
  BY <1>2, <1>3, CalledJoint
<1>4. CASE Walk(target)
  BY <1>1, <1>2, <1>4 DEF Walk, Called, Initing, Starting, Stopping, Deiniting
<1>5. CASE Test(target)
  BY <1>1, <1>2, <1>5 DEF Test, Called, Initing, Starting, Stopping, Deiniting
<1>6. CASE Block(target) \/ SpuriousWakeup(target)
  BY <1>1, <1>2, <1>6
     DEF Block, SpuriousWakeup, Called, Initing, Starting, Stopping, Deiniting
<1>7. CASE PassRespMutex(target)
  BY <1>1, <1>2, <1>7 DEF PassRespMutex, Called, Initing, Starting, Stopping, Deiniting
<1>8. CASE Tell(target)
  BY <1>1, <1>2, <1>8 DEF Tell, Called, Initing, Starting, Stopping, Deiniting
<1> QED BY <1>4, <1>5, <1>6, <1>7, <1>8 DEF newThread

LEMMA JointInvariant == IInv /\ [Next]_vars => JointStates'
<1> SUFFICES ASSUME IInv, [Next]_vars PROVE JointStates'
  OBVIOUS
<1> USE DEF Manager, flags, locks, call
<1>1. ASSUME NEW w \in Workers, attachWorker(w) PROVE JointStates'
  <2>1. UNCHANGED <<thread, mpc, op, target>> /\ target = None
    BY <1>1 DEF attachWorker, IInv, JointStates
  <2>2. ASSUME NEW v \in Workers PROVE Resting(v)'
    BY <1>1, <2>1, <2>2, ManagerWorkerAssumption
       DEF attachWorker, IInv, TypeOK, JointStates, Resting
  <2> QED BY <1>1, <2>1, <2>2, ManagerWorkerAssumption DEF attachWorker, JointStates
<1>2. ASSUME NEW w \in Workers,
             initWorker(w) \/ startWorker(w) \/ stopWorker(w) \/ deinitWorker(w)
      PROVE  JointStates'
  <2>1. w \in named_workers /\ target = None
    BY <1>2 DEF initWorker, startWorker, stopWorker, deinitWorker, Enter, IInv, JointStates
  <2>2. Resting(w)
    BY <2>1, ManagerWorkerAssumption DEF IInv, JointStates
  <2> QED BY <1>2, <2>2, EnterJoint
          DEF initWorker, startWorker, stopWorker, deinitWorker, Resting
<1>3. ASSUME NEW w \in Workers, detachWorker(w) PROVE JointStates'
  <2>1. CASE is_init[w] /\ Enter("detach", w)
    BY <2>1, EnterJoint
  <2>2. CASE ~is_init[w] /\ mpc = "idle" /\ named_workers' = named_workers \ {w}
               /\ UNCHANGED <<flags, locks, thread, mpc, call, missed>>
    <3>1. target = None
      BY <2>2 DEF IInv, JointStates
    <3>2. ASSUME NEW v \in Workers PROVE Resting(v)'
      BY <2>2, <3>1, ManagerWorkerAssumption DEF IInv, JointStates, Resting
    <3> QED BY <2>2, <3>1, <3>2, ManagerWorkerAssumption DEF JointStates
  <2> QED BY <1>3, <2>1, <2>2 DEF detachWorker
<1>4. ASSUME NEW w \in Workers, newThread(w) \/ SpuriousWakeup(w) PROVE JointStates'
  BY <1>4, RestingJoint, TargetJoint
<1>5. CASE UNCHANGED vars
  BY <1>5 DEF vars, IInv, JointStates, Resting, Called, Initing, Starting, Stopping, Deiniting
<1> QED BY <1>1, <1>2, <1>3, <1>4, <1>5, ManagerJoint DEF Next

(* The joint states of 02's manager and workers, whatever the workers.      *)
THEOREM Invariance == Spec => []IInv
<1>1. IInv /\ [Next]_vars => IInv'
  BY TypeInvariant, MutexInvariant, JointInvariant DEF IInv
<1> QED BY InitIInv, <1>1, PTL DEF Spec

(* A worker about to notify is the one the manager waits for, in the call it  *)
(* waits in: the manager always waits before the worker notifies.           *)
THEOREM AnswersAreAwaited == Spec => []AnswerIsAwaited
<1>1. IInv => AnswerIsAwaited
  BY DEF IInv, JointStates, AnswerIsAwaited, Answers, Called, Initing, Starting, Stopping,
         Deiniting, Resting, Waits, Restarts, Leaves, Breaks
<1> QED BY <1>1, Invariance, PTL

(* Between calls exactly the inited workers have a thread.                   *)
THEOREM ThreadsJoined == Spec => []ThreadsAreJoined
<1>1. IInv => ThreadsAreJoined
  BY ManagerWorkerAssumption DEF IInv, JointStates, ThreadsAreJoined, Resting, Waits
<1> QED BY <1>1, Invariance, PTL
-----------------------------------------------------------------------------
(* ObedientWorkers: what a step does to the one worker it concerns.          *)
View(v) == <<Life(v), Wish(v)>>

LEMMA StutterStep ==
  ASSUME Awaited' = Awaited, \A v \in Workers : View(v)' = View(v)
  PROVE  UNCHANGED Obedient!vars
<1>1. LifeOf' = LifeOf
  BY DEF LifeOf, View
<1>2. WishOf' = WishOf
  BY DEF WishOf, View
<1> QED BY <1>1, <1>2, Zenon DEF Obedient!vars

LEMMA OneChange ==
  ASSUME NEW w \in Workers, \A v \in Workers \ {w} : View(v)' = View(v)
  PROVE  /\ LifeOf' = [LifeOf EXCEPT ![w] = Life(w)']
         /\ WishOf' = [WishOf EXCEPT ![w] = Wish(w)']
         /\ LifeOf[w] = Life(w) /\ WishOf[w] = Wish(w)
<1>1. LifeOf' = [LifeOf EXCEPT ![w] = Life(w)']
  BY DEF LifeOf, View
<1>2. WishOf' = [WishOf EXCEPT ![w] = Wish(w)']
  BY DEF WishOf, View
<1> QED BY <1>1, <1>2 DEF LifeOf, WishOf

LEMMA CreateStep ==
  ASSUME NEW w \in Workers, \A v \in Workers \ {w} : View(v)' = View(v),
         Awaited = {}, Awaited' = {w}, Life(w) = "none", Life(w)' = "New", Wish(w)' = "Inited"
  PROVE  Obedient!Next
<1>1. Obedient!Create(w)
  BY OneChange DEF Obedient!Create
<1> QED BY <1>1 DEF Obedient!Next

LEMMA RequestStep ==
  ASSUME NEW w \in Workers, \A v \in Workers \ {w} : View(v)' = View(v),
         NEW s \in {"Inited", "Running", "End"},
         Awaited = {}, Awaited' = {w}, Life(w)' = Life(w), Wish(w) = Life(w), Wish(w)' = s,
         Life(w) \in Obedient!Before(s), Life(w) # "End"
  PROVE  Obedient!Next
<1>1. /\ LifeOf' = [LifeOf EXCEPT ![w] = Life(w)']
      /\ WishOf' = [WishOf EXCEPT ![w] = Wish(w)']
      /\ LifeOf[w] = Life(w) /\ WishOf[w] = Wish(w)
  BY OneChange
<1>2. LifeOf' = LifeOf
  BY <1>1 DEF LifeOf
<1>3. WishOf' = [v \in Workers |-> IF v \in {w} THEN s ELSE WishOf[v]]
  BY <1>1 DEF WishOf
<1>4. Obedient!Request({w}, s)
  BY <1>1, <1>2, <1>3 DEF Obedient!Request
<1> QED BY <1>4 DEF Obedient!Next

LEMMA ObeyStep ==
  ASSUME NEW w \in Workers, \A v \in Workers \ {w} : View(v)' = View(v),
         Awaited' = Awaited, Wish(w)' = Wish(w), Life(w) # Wish(w),
         \/ Life(w)' = Wish(w)
         \/ Wish(w) = "End" /\ Life(w) = "Running" /\ Life(w)' = "Inited"
  PROVE  Obedient!Next
<1>1. /\ LifeOf' = [LifeOf EXCEPT ![w] = Life(w)']
      /\ WishOf' = [WishOf EXCEPT ![w] = Wish(w)']
      /\ LifeOf[w] = Life(w) /\ WishOf[w] = Wish(w)
  BY OneChange
<1>2. WishOf' = WishOf
  BY <1>1 DEF WishOf
<1>3. Obedient!Obey(w)
  BY <1>1, <1>2 DEF Obedient!Obey
<1> QED BY <1>3 DEF Obedient!Next

LEMMA ReturnStep ==
  ASSUME NEW w \in Workers, \A v \in Workers : View(v)' = View(v),
         Awaited = {w}, Awaited' = {}, Life(w) = Wish(w)
  PROVE  Obedient!Next
<1>1. LifeOf' = LifeOf /\ WishOf' = WishOf
  BY DEF LifeOf, WishOf, View
<1>2. Obedient!Return(w)
  BY <1>1 DEF Obedient!Return, LifeOf, WishOf
<1> QED BY <1>2 DEF Obedient!Next

LEMMA DeleteStep ==
  ASSUME NEW w \in Workers, \A v \in Workers \ {w} : View(v)' = View(v),
         Awaited = {}, Awaited' = {}, Life(w) = "End", Life(w)' = "none", Wish(w)' = "none"
  PROVE  Obedient!Next
<1>1. Obedient!Delete(w)
  BY OneChange DEF Obedient!Delete
<1> QED BY <1>1 DEF Obedient!Next

(* A worker at rest is what it has been told, whether its thread wakes up     *)
(* and goes to sleep again or does nothing.                                 *)
RestView(v) == IF thread[v] = "none" THEN <<"none", "none">>
               ELSE IF is_running[v] THEN <<"Running", "Running">> ELSE <<"Inited", "Inited">>

LEMMA RestingView == ASSUME NEW v, Resting(v) PROVE View(v) = RestView(v)
BY DEF View, RestView, Resting, Life, Wish, Waits

LEMMA RestingViewNext == ASSUME NEW v, Resting(v)' PROVE View(v)' = RestView(v)'
BY DEF View, RestView, Resting, Life, Wish, Waits

LEMMA StillResting ==
  ASSUME NEW v, Resting(v), Resting(v)', is_running'[v] = is_running[v],
         thread'[v] = "none" <=> thread[v] = "none"
  PROVE  View(v)' = View(v)
BY RestingView, RestingViewNext DEF RestView

LEMMA SameView ==
  ASSUME NEW v, thread'[v] = thread[v], is_init'[v] = is_init[v], is_running'[v] = is_running[v],
         mpc' = "started" <=> mpc = "started"
  PROVE  View(v)' = View(v)
BY DEF View, Life, Wish

(* A step that leaves the flags alone and wakes up no more than a sleeper.   *)
LEMMA StillView ==
  ASSUME UNCHANGED flags, mpc # "started", mpc' # "started", Awaited' = Awaited,
         \A v \in Workers : thread'[v] = thread[v] \/ (thread[v] = "asleep" /\ thread'[v] = "test")
  PROVE  UNCHANGED Obedient!vars
<1>1. ASSUME NEW v \in Workers PROVE View(v)' = View(v)
  BY SameView DEF flags, View, Life, Wish
<1> QED BY <1>1, StutterStep

(* No call changes what a worker is or has been told before it raises a flag. *)
LEMMA CallsView ==
  ASSUME IInv, NEW w \in Workers,
         attachWorker(w) \/ detachWorker(w) \/ initWorker(w) \/ startWorker(w) \/ stopWorker(w)
           \/ deinitWorker(w)
  PROVE  UNCHANGED Obedient!vars
<1>1. CASE attachWorker(w)
  <2>1. mpc = "idle" /\ mpc' = "idle" /\ target = None /\ thread' = thread
    BY <1>1 DEF attachWorker, IInv, JointStates
  <2>2. thread[w] = "none"
    BY <1>1, <2>1, ManagerWorkerAssumption DEF attachWorker, IInv, JointStates, Resting
  <2>3. ASSUME NEW v \in Workers \ {w} PROVE View(v)' = View(v)
    <3>1. is_init'[v] = is_init[v] /\ is_running'[v] = is_running[v]
      BY <1>1 DEF attachWorker, IInv, TypeOK
    <3> QED BY <2>1, <3>1, SameView
  <2>4. View(w)' = View(w)
    BY <2>1, <2>2 DEF View, Life, Wish
  <2>5. Awaited' = Awaited
    BY <2>1 DEF Awaited
  <2> QED BY <2>3, <2>4, <2>5, StutterStep
<1>2. CASE ~attachWorker(w)
  <2>1. /\ mpc = "idle" /\ UNCHANGED <<flags, thread>>
        /\ mpc' \in {"idle", "init", "start", "stop", "deinit", "detach"}
    BY <1>2 DEF detachWorker, initWorker, startWorker, stopWorker, deinitWorker, Enter, Manager
  <2>2. Awaited' = Awaited
    BY <2>1 DEF Awaited
  <2> QED BY <2>1, <2>2, StillView
<1> QED BY <1>1, <1>2

(* Where the manager raises or lowers a flag, a request begins, but for the   *)
(* second flags of initWorker and deinitWorker.                             *)
LEMMA RequestObeys == IInv /\ Request => Obedient!Next \/ UNCHANGED Obedient!vars
<1> SUFFICES ASSUME IInv, Request PROVE Obedient!Next \/ UNCHANGED Obedient!vars
  OBVIOUS
<1>1. PICK w \in Workers : /\ target = w /\ target' = w
                            /\ Called(w) /\ TypeOK /\ \A v \in Workers \ {w} : Resting(v)
  BY DEF IInv, TypeOK, JointStates, Request, Manager, call
<1>2. ASSUME NEW v \in Workers \ {w} PROVE View(v)' = View(v)
  <2>1. Resting(v) /\ Resting(v)'
    BY <1>1, <1>2, ManagerJoint DEF ManagerStep, IInv, JointStates
  <2>2. is_running'[v] = is_running[v] /\ thread'[v] = thread[v]
    BY <1>1 DEF Request, SetInit, SetRunning, TypeOK, flags
  <2> QED BY <2>1, <2>2, StillResting
<1> USE DEF Manager, SetInit, SetRunning, flags
<1>3. CASE mpc = "init"
  <2>1. /\ mpc' = "started" /\ thread' = [thread EXCEPT ![w] = "init"] /\ UNCHANGED flags
        /\ thread[w] = "none" /\ ~is_running[w]
    BY <1>1, <1>3 DEF Request, Called, Initing, Starting, Stopping, Deiniting
  <2>2. Life(w) = "none" /\ Life(w)' = "New" /\ Wish(w)' = "Inited"
    BY <1>1, <2>1 DEF Life, Wish, TypeOK
  <2>3. Awaited = {} /\ Awaited' = {w}
    BY <1>1, <1>3, <2>1 DEF Awaited
  <2> QED BY <1>1, <1>2, <2>2, <2>3, CreateStep
<1>4. CASE mpc = "started"
  <2>1. /\ mpc' = "wait" /\ UNCHANGED <<is_running, thread>> /\ is_init'[w]
        /\ thread[w] \in {"init", "init_sync"} /\ ~is_running[w]
    BY <1>1, <1>4 DEF Request, TypeOK, Called, Initing, Starting, Stopping, Deiniting
  <2>2. View(w)' = View(w)
    BY <1>4, <2>1 DEF View, Life, Wish
  <2>3. Awaited' = Awaited
    BY <1>1, <1>4, <2>1 DEF Awaited
  <2> QED BY <1>2, <2>2, <2>3, StutterStep
<1>5. CASE mpc = "start"
  <2>1. /\ mpc' = "notify" /\ UNCHANGED <<is_init, thread>> /\ is_running'[w]
        /\ is_init[w] /\ ~is_running[w] /\ thread[w] \in Waits
    BY <1>1, <1>5 DEF Request, TypeOK, Called, Initing, Starting, Stopping, Deiniting
  <2>2. /\ Life(w) = "Inited" /\ Wish(w) = "Inited" /\ Life(w)' = "Inited"
        /\ Wish(w)' = "Running"
    BY <1>5, <2>1 DEF Waits, Life, Wish
  <2>3. Awaited = {} /\ Awaited' = {w}
    BY <1>1, <1>5, <2>1 DEF Awaited
  <2> QED BY <1>1, <1>2, <2>2, <2>3, RequestStep DEF Obedient!Before
<1>6. CASE mpc = "stop"
  <2>1. /\ mpc' = "wait" /\ UNCHANGED <<is_init, thread>> /\ ~is_running'[w]
        /\ is_init[w] /\ is_running[w] /\ thread[w] = "run"
    BY <1>1, <1>6 DEF Request, TypeOK, Called, Initing, Starting, Stopping, Deiniting
  <2>2. /\ Life(w) = "Running" /\ Wish(w) = "Running" /\ Life(w)' = "Running"
        /\ Wish(w)' = "Inited"
    BY <1>6, <2>1 DEF Life, Wish
  <2>3. Awaited = {} /\ Awaited' = {w}
    BY <1>1, <1>6, <2>1 DEF Awaited
  <2> QED BY <1>1, <1>2, <2>2, <2>3, RequestStep DEF Obedient!Before
<1>7. CASE mpc \in {"deinit", "detach"}
  <2>1. /\ mpc' \in {"clear", "notify"} /\ UNCHANGED <<is_running, thread>>
        /\ ~is_init'[w] /\ is_init[w]
        /\ \/ thread[w] \in Waits /\ ~is_running[w]
           \/ thread[w] = "run" /\ is_running[w]
    BY <1>1, <1>7 DEF Request, TypeOK, Called, Initing, Starting, Stopping, Deiniting
  <2>2. Life(w) \in {"Inited", "Running"} /\ Wish(w) = Life(w)
    BY <1>7, <2>1 DEF Waits, Life, Wish
  <2>3. Life(w)' = Life(w) /\ Wish(w)' = "End"
    BY <2>1 DEF Waits, Life, Wish
  <2>4. Awaited = {} /\ Awaited' = {w}
    BY <1>1, <1>7, <2>1 DEF Awaited
  <2> QED BY <1>1, <1>2, <2>2, <2>3, <2>4, RequestStep DEF Obedient!Before
<1>8. CASE mpc = "clear"
  <2>1. mpc' = "wait" /\ UNCHANGED <<is_init, thread>> /\ ~is_init[w]
    BY <1>1, <1>8 DEF Request, Called, Initing, Starting, Stopping, Deiniting
  <2>2. View(w)' = View(w)
    BY <1>8, <2>1 DEF View, Life, Wish
  <2>3. Awaited' = Awaited
    BY <1>1, <1>8, <2>1 DEF Awaited
  <2> QED BY <1>2, <2>2, <2>3, StutterStep
<1> QED BY <1>3, <1>4, <1>5, <1>6, <1>7, <1>8 DEF Request

(* In its other steps the manager changes neither; when it has joined, the    *)
(* worker's thread is gone.                                                 *)
LEMMA ManagerObeys == IInv /\ ManagerStep => Obedient!Next \/ UNCHANGED Obedient!vars
<1> SUFFICES ASSUME IInv, ManagerStep PROVE Obedient!Next \/ UNCHANGED Obedient!vars
  OBVIOUS
<1>1. PICK w \in Workers : target = w /\ TypeOK
  BY DEF IInv, TypeOK, JointStates, ManagerStep, Request, Notify, Wait, Return, Answered, Manager
<1> USE DEF Manager, flags, locks, call
<1>2. CASE Notify \/ Wait \/ Answered \/ (Return /\ mpc = "awake")
  <2>1. /\ UNCHANGED flags /\ mpc \in {"notify", "wait", "awake"}
        /\ mpc' = CASE mpc = "notify" -> "wait" [] mpc = "wait" -> "waiting" [] OTHER -> mpc'
        /\ mpc = "awake" => mpc' \in {"idle", "join"}
        /\ mpc # "awake" => target' = target
    BY <1>2 DEF Notify, Wait, Answered, Return
  <2>2. \A v \in Workers : \/ thread'[v] = thread[v]
                           \/ thread[v] = "asleep" /\ thread'[v] = "test"
    BY <1>1, <1>2 DEF Notify, Wait, Answered, Return, TypeOK
  <2>3. Awaited' = Awaited
    BY <2>1 DEF Awaited
  <2>4. mpc # "started" /\ mpc' # "started"
    BY <2>1
  <2> QED BY <2>1, <2>2, <2>3, <2>4, StillView
<1>3. CASE Return /\ mpc # "awake"
  <2>1. /\ mpc = "join" /\ mpc' = "idle" /\ thread[w] = "ended" /\ UNCHANGED flags
        /\ thread' = [thread EXCEPT ![w] = "none"]
    BY <1>1, <1>3 DEF Return
  <2>2. Life(w) = "End" /\ Life(w)' = "none" /\ Wish(w)' = "none"
    BY <1>1, <2>1 DEF Life, Wish, TypeOK
  <2>3. ASSUME NEW v \in Workers \ {w} PROVE View(v)' = View(v)
    BY <1>1, <2>1, SameView DEF TypeOK
  <2>4. Awaited = {} /\ Awaited' = {}
    BY <2>1 DEF Awaited
  <2> QED BY <1>1, <2>2, <2>3, <2>4, DeleteStep
<1> QED BY <1>2, <1>3, RequestObeys DEF ManagerStep

(* A thread changes no flag and, but for its answer, not the manager.        *)
LEMMA ThreadFrame ==
  ASSUME TypeOK, NEW w \in Workers, newThread(w) \/ SpuriousWakeup(w)
  PROVE  /\ UNCHANGED <<flags, target, op>>
         /\ \A v \in Workers \ {w} : thread'[v] = thread[v]
         /\ mpc' = mpc \/ Tell(w)
<1>1. \/ Walk(w) \/ Test(w) \/ Block(w) \/ PassRespMutex(w) \/ SpuriousWakeup(w)
      \/ Tell(w)
  BY DEF newThread
<1>2. UNCHANGED <<flags, target, op>>
  BY <1>1 DEF Walk, Test, Block, PassRespMutex, Tell, SpuriousWakeup, flags, call
<1>3. \A v \in Workers \ {w} : thread'[v] = thread[v]
  BY <1>1 DEF TypeOK, Walk, Test, Block, PassRespMutex, Tell, SpuriousWakeup, Go
<1>4. mpc' = mpc \/ Tell(w)
  BY <1>1 DEF Walk, Test, Block, PassRespMutex, SpuriousWakeup, call
<1> QED BY <1>2, <1>3, <1>4

(* A worker at rest stays what it is.                                       *)
LEMMA RestingObeys ==
  ASSUME IInv, NEW w \in Workers, w # target, newThread(w) \/ SpuriousWakeup(w)
  PROVE  UNCHANGED Obedient!vars
<1> USE DEF IInv, TypeOK, Go
<1>1. Resting(w)
  BY DEF JointStates
<1>2. Walk(w) \/ Test(w) \/ Block(w) \/ SpuriousWakeup(w)
  BY <1>1 DEF newThread, Resting, PassRespMutex, Tell, Waits
<1>3. Resting(w)' /\ mpc' = mpc /\ target' = target /\ UNCHANGED flags
  BY <1>1, <1>2 DEF Walk, Test, Block, SpuriousWakeup, Resting, Waits, flags, call
<1>4. View(w)' = View(w)
  <2>1. thread[w] # "none" /\ thread'[w] # "none"
    BY <1>2 DEF Walk, Test, Block, SpuriousWakeup
  <2> QED BY <1>1, <1>3, <2>1, StillResting DEF flags
<1>5. ASSUME NEW v \in Workers \ {w} PROVE View(v)' = View(v)
  <2>1. thread'[v] = thread[v]
    BY ThreadFrame
  <2> QED BY <1>3, <2>1, SameView DEF flags
<1>6. Awaited' = Awaited
  BY <1>3 DEF Awaited
<1> QED BY <1>4, <1>5, <1>6, StutterStep

(* The worker a call is about becomes what its flags say, and answers when    *)
(* it has.                                                                  *)
LEMMA TargetLife ==
  ASSUME TypeOK, NEW w \in Workers, Called(w), mpc' = mpc, UNCHANGED flags,
         Walk(w) \/ Test(w) \/ Block(w) \/ PassRespMutex(w) \/ SpuriousWakeup(w)
  PROVE  /\ Wish(w)' = Wish(w)
         /\ \/ Life(w)' = Life(w)
            \/ /\ Life(w) # Wish(w)
               /\ \/ Life(w)' = Wish(w)
                  \/ Wish(w) = "End" /\ Life(w) = "Running" /\ Life(w)' = "Inited"
<1> USE DEF TypeOK, Go, flags, Life, Wish
<1>1. thread[w] # "none" /\ thread'[w] # "none"
  BY DEF Walk, Test, Block, PassRespMutex, SpuriousWakeup
<1>2. Wish(w)' = Wish(w)
  BY <1>1
<1>3. CASE Test(w) \/ Block(w) \/ SpuriousWakeup(w)
  BY <1>2, <1>3 DEF Test, Block, SpuriousWakeup
<1>4. CASE Walk(w)
  <2> USE DEF Called, Initing, Starting, Stopping, Deiniting, Waits, Restarts, Leaves, Breaks
  <2>1. CASE thread[w] \in {"init", "ran", "deinit"}
    <3>1. CASE thread[w] = "init"
      <4>1. thread'[w] = "init_sync"
        BY <1>4, <3>1 DEF Walk
      <4>2. ~is_running[w] /\ (mpc = "started" \/ is_init[w])
        BY <3>1
      <4>3. Life(w) = "New" /\ Life(w)' = "Inited" /\ Wish(w) = "Inited"
        BY <3>1, <4>1, <4>2
      <4> QED BY <1>2, <4>3
    <3>2. CASE thread[w] = "ran" /\ is_init[w]
      <4>1. thread'[w] = "stop_sync"
        BY <1>4, <3>2 DEF Walk
      <4>2. ~is_running[w]
        BY <3>2
      <4>3. Life(w) = "Running" /\ Life(w)' = "Inited" /\ Wish(w) = "Inited"
        BY <3>2, <4>1, <4>2
      <4> QED BY <1>2, <4>3
    <3>3. CASE thread[w] = "ran" /\ ~is_init[w]
      <4>1. thread'[w] = "deinit"
        BY <1>4, <3>3 DEF Walk
      <4>2. mpc # "started"
        BY <3>3
      <4>3. Life(w) = "Running" /\ Life(w)' = "Inited" /\ Wish(w) = "End"
        BY <3>3, <4>1, <4>2
      <4> QED BY <1>2, <4>3
    <3>4. CASE thread[w] = "deinit"
      <4>1. thread'[w] = "deinit_sync"
        BY <1>4, <3>4 DEF Walk
      <4>2. ~is_init[w] /\ mpc # "started"
        BY <3>4
      <4>3. Life(w) = "Inited" /\ Life(w)' = "End" /\ Wish(w) = "End"
        BY <3>4, <4>1, <4>2
      <4> QED BY <1>2, <4>3
    <3> QED BY <2>1, <3>1, <3>2, <3>3, <3>4
  <2>2. CASE thread[w] \notin {"init", "ran", "deinit"}
    <3>1. Life(w)' = Life(w)
      BY <1>4, <2>2 DEF Walk
    <3> QED BY <1>2, <3>1
  <2> QED BY <2>1, <2>2
<1>5. CASE PassRespMutex(w)
  <2>1. CASE thread[w] = "start_sync"
    <3>1. thread'[w] = "start_tell"
      BY <1>5, <2>1 DEF PassRespMutex
    <3>2. is_init[w] /\ is_running[w]
      BY <2>1 DEF Called, Initing, Starting, Stopping, Deiniting, Waits, Restarts, Leaves, Breaks
    <3>3. Life(w) = "Inited" /\ Life(w)' = "Running" /\ Wish(w) = "Running"
      BY <2>1, <3>1, <3>2
    <3> QED BY <1>2, <3>3
  <2>2. CASE thread[w] # "start_sync"
    <3>1. Life(w)' = Life(w)
      BY <1>5, <2>2 DEF PassRespMutex
    <3> QED BY <1>2, <3>1
  <2> QED BY <2>1, <2>2
<1> QED BY <1>3, <1>4, <1>5

LEMMA TargetAnswers ==
  ASSUME TypeOK, NEW w \in Workers, Called(w), UNCHANGED flags, Tell(w)
  PROVE  /\ View(w)' = View(w) /\ Life(w) = Wish(w)
         /\ mpc = "waiting" /\ mpc' = "awake"
<1> USE DEF TypeOK, Go, flags
<1>1. mpc = "waiting" /\ mpc' = "awake"
  BY DEF Tell, Called, Initing, Starting, Stopping, Deiniting, Waits, Restarts, Leaves, Breaks
<1>2. PICK l \in {"init_tell", "start_tell", "stop_tell", "deinit_tell"} :
        /\ thread[w] = l
        /\ thread'[w] = CASE l = "start_tell" -> "run" [] l = "deinit_tell" -> "ended"
                          [] OTHER -> "loop"
  BY DEF Tell
<1>3. /\ l = "start_tell" => is_init[w] /\ is_running[w]
      /\ l \in {"init_tell", "stop_tell"} => is_init[w] /\ ~is_running[w]
      /\ l = "deinit_tell" => ~is_init[w]
  BY <1>1, <1>2 DEF Called, Initing, Starting, Stopping, Deiniting, Waits, Restarts, Leaves, Breaks
<1>4. Life(w)' = Life(w)
  BY <1>2 DEF Life
<1>5. Wish(w)' = Wish(w)
  BY <1>1, <1>2 DEF Wish
<1>6. Life(w) = Wish(w)
  BY <1>1, <1>2, <1>3 DEF Life, Wish
<1> QED BY <1>1, <1>4, <1>5, <1>6 DEF View

LEMMA TargetObeys ==
  ASSUME IInv, target \in Workers, newThread(target) \/ SpuriousWakeup(target)
  PROVE  Obedient!Next \/ UNCHANGED Obedient!vars
<1>1. PICK w \in Workers : target = w /\ Called(w) /\ TypeOK
  BY DEF IInv, JointStates
<1>2. /\ UNCHANGED flags /\ target' = w
      /\ \A v \in Workers \ {w} : thread'[v] = thread[v]
      /\ mpc' = mpc \/ Tell(w)
  BY <1>1, ThreadFrame
<1>3. ASSUME NEW v \in Workers \ {w} PROVE View(v)' = View(v)
  <2>1. Resting(v)
    BY <1>1, <1>3 DEF IInv, JointStates
  <2>2. mpc' = mpc \/ (mpc = "waiting" /\ mpc' = "awake")
    BY <1>1, <1>2, TargetAnswers
  <2> QED BY <1>2, <2>2, SameView DEF flags
<1>4. CASE Tell(w)
  <2>1. /\ View(w)' = View(w) /\ Life(w) = Wish(w)
        /\ mpc = "waiting" /\ mpc' = "awake"
    BY <1>1, <1>2, <1>4, TargetAnswers
  <2>2. Awaited = {w} /\ Awaited' = {}
    BY <1>1, <2>1 DEF Awaited
  <2>3. \A v \in Workers : View(v)' = View(v)
    BY <1>3, <2>1
  <2> QED BY <2>1, <2>2, <2>3, ReturnStep
<1>5. CASE ~Tell(w)
  <2>1. mpc' = mpc
    BY <1>2, <1>5
  <2>2. Walk(w) \/ Test(w) \/ Block(w) \/ PassRespMutex(w) \/ SpuriousWakeup(w)
    BY <1>1, <1>5 DEF newThread
  <2>3. Awaited' = Awaited
    BY <1>1, <1>2, <2>1 DEF Awaited
  <2>4. /\ Wish(w)' = Wish(w)
        /\ \/ Life(w)' = Life(w)
           \/ /\ Life(w) # Wish(w)
              /\ \/ Life(w)' = Wish(w)
                 \/ Wish(w) = "End" /\ Life(w) = "Running" /\ Life(w)' = "Inited"
    BY <1>1, <1>2, <2>1, <2>2, TargetLife
  <2>5. CASE Life(w)' = Life(w)
    <3>1. \A v \in Workers : View(v)' = View(v)
      BY <1>3, <2>4, <2>5 DEF View
    <3> QED BY <2>3, <3>1, StutterStep
  <2>6. CASE Life(w)' # Life(w)
    BY <1>3, <2>3, <2>4, <2>6, ObeyStep
  <2> QED BY <2>5, <2>6
<1> QED BY <1>4, <1>5

(* The promise of ObedientWorkers, which the manager of 02 keeps for any set   *)
(* of workers and whichever of them a notification wakes: what may go wrong  *)
(* in 02 is that a call does not return, never that it returns too early.    *)
THEOREM WorkersAreObedient == Spec => WorkersObey
<1>1. Init => Obedient!Init
  BY DEF Init, Obedient!Init, LifeOf, WishOf, Awaited, Life, Wish
<1>2. IInv /\ [Next]_vars => [Obedient!Next]_(Obedient!vars)
  <2> SUFFICES ASSUME IInv, [Next]_vars PROVE Obedient!Next \/ UNCHANGED Obedient!vars
    OBVIOUS
  <2>1. ASSUME NEW w \in Workers,
               attachWorker(w) \/ detachWorker(w) \/ initWorker(w) \/ startWorker(w)
                 \/ stopWorker(w) \/ deinitWorker(w)
        PROVE  UNCHANGED Obedient!vars
    BY <2>1, CallsView
  <2>2. ASSUME NEW w \in Workers, newThread(w) \/ SpuriousWakeup(w)
        PROVE  Obedient!Next \/ UNCHANGED Obedient!vars
    BY <2>2, RestingObeys, TargetObeys
  <2>3. CASE UNCHANGED vars
    BY <2>3 DEF vars, flags, call, Obedient!vars, LifeOf, WishOf, Awaited, Life, Wish
  <2> QED BY <2>1, <2>2, <2>3, ManagerObeys DEF Next
<1> QED BY <1>1, <1>2, Invariance, PTL DEF Spec, WorkersObey, Obedient!Spec
=============================================================================
