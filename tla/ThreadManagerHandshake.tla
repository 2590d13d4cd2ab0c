----------------------- MODULE ThreadManagerHandshake -----------------------
(***************************************************************************)
(* manager_worker/03_better_manager_worker: every call raises a flag of the *)
(* worker, notifies it and waits for its answer, both without a predicate.  *)
(* Passing through the other side's mutex is meant to guarantee that the    *)
(* other side already waits.  InitWorkers runs that protocol for several    *)
(* workers and then waits for each in turn.                                 *)
(*                                                                          *)
(* A lock that is dropped at once is a guard: the mutex was free.  Flags    *)
(* are read and written with no lock.  The callbacks change nothing the     *)
(* protocol looks at.  Calls the manager refuses are left out.              *)
(***************************************************************************)
EXTENDS Integers, Sequences, SequencesExt

CONSTANTS Workers,
          MaxSpurious   \* bound: how many waits return with no notification

ASSUME HandshakeAssumption == MaxSpurious \in Nat /\ IsFiniteSet(Workers)

VARIABLES to_quit, to_init, to_run, is_inited, is_running,   \* the worker objects
          req, resp,     \* their mutexes: "free", "manager" or "worker"
          thread,        \* where each worker's thread stands
          resume,        \* where it goes on after its wait
          mpc, op,       \* where the manager stands, and in which call
          todo, pending, \* the workers still to be notified, and to be waited for
          spurious       \* history: how many waits have returned with no notification

flags == <<to_quit, to_init, to_run>>
state == <<is_inited, is_running>>
locks == <<req, resp>>
worker == <<thread, resume>>
manager == <<mpc, op, todo, pending>>
vars == <<flags, state, locks, worker, manager, spurious>>

AllFalse == [w \in Workers |-> FALSE]
AllFree == [w \in Workers |-> "free"]

Init == /\ to_quit = AllFalse /\ to_init = AllFalse /\ to_run = AllFalse
        /\ is_inited = AllFalse /\ is_running = AllFalse
        /\ req = AllFree /\ resp = AllFree
        /\ thread = [w \in Workers |-> "none"]
        /\ resume = [w \in Workers |-> "outer"]
        /\ mpc = "idle" /\ op = "none" /\ todo = <<>> /\ pending = <<>>
        /\ spurious = 0
-----------------------------------------------------------------------------
(* NewWorker holds the response mutex until it waits: creating the thread    *)
(* and waiting for it are one step.                                         *)
NewWorker(w) ==
  /\ mpc = "idle" /\ thread[w] = "none"
  /\ to_quit' = [to_quit EXCEPT ![w] = FALSE]
  /\ to_init' = [to_init EXCEPT ![w] = FALSE]
  /\ to_run' = [to_run EXCEPT ![w] = FALSE]
  /\ thread' = [thread EXCEPT ![w] = "sync"]
  /\ resume' = [resume EXCEPT ![w] = "outer"]
  /\ mpc' = "waiting" /\ op' = "new" /\ pending' = <<w>>
  /\ UNCHANGED <<state, locks, todo>>

Call(name, names) == /\ mpc = "idle"
                     /\ mpc' = "raise" /\ op' = name /\ todo' = names
                     /\ UNCHANGED <<flags, state, locks, worker, pending>>

Exists(w) == thread[w] # "none"

DeleteWorker(w) == Exists(w) /\ Call("delete", <<w>>)
DeinitWorker(w) == Exists(w) /\ is_inited[w] /\ Call("deinit", <<w>>)
RunWorker(w)    == Exists(w) /\ is_inited[w] /\ ~is_running[w] /\ Call("run", <<w>>)
StopWorker(w)   == Exists(w) /\ is_running[w] /\ Call("stop", <<w>>)

(* InitWorker is InitWorkers of one.  A list that names a worker twice makes *)
(* the manager lock a mutex it holds, and is left out.                      *)
InitWorkers == \E names \in SetToAllKPermutations(Workers) :
                 /\ names # <<>>
                 /\ \A w \in ToSet(names) : Exists(w) /\ ~is_inited[w]
                 /\ Call("init", names)

Raise == LET w == Head(todo) IN
  /\ mpc = "raise"
  /\ to_quit' = [to_quit EXCEPT ![w] = @ \/ op = "delete"]
  /\ to_init' = [to_init EXCEPT ![w] = (@ \/ op = "init") /\ op # "deinit"]
  /\ to_run'  = [to_run  EXCEPT ![w] = (@ \/ op = "run") /\ op # "stop"]
  /\ mpc' = "sync"
  /\ UNCHANGED <<state, locks, worker, op, todo, pending>>

(* Seeded bug: the manager does not pass through the request mutex.         *)
PassReqMutexSkipped == /\ mpc = "sync"
                       /\ mpc' = "notify"
                       /\ UNCHANGED <<flags, state, locks, worker, op, todo, pending>>

PassReqMutex == /\ mpc = "sync" /\ req[Head(todo)] = "free"
                /\ mpc' = "notify"
                /\ UNCHANGED <<flags, state, locks, worker, op, todo, pending>>

(* Seeded bug: the manager notifies without holding the response mutex.     *)
NotifyWorkerUnlocked == LET w == Head(todo) IN
  /\ mpc = "notify" /\ resp[w] = "free"
  /\ thread' = [thread EXCEPT ![w] = IF @ = "asleep" THEN "awake" ELSE @]
  /\ todo' = Tail(todo) /\ pending' = Append(pending, w)
  /\ mpc' = IF Tail(todo) = <<>> THEN "wait" ELSE "raise"
  /\ UNCHANGED <<flags, state, locks, resume, op>>

NotifyWorker == LET w == Head(todo) IN
  /\ mpc = "notify" /\ resp[w] = "free"
  /\ resp' = [resp EXCEPT ![w] = "manager"]
  /\ thread' = [thread EXCEPT ![w] = IF @ = "asleep" THEN "awake" ELSE @]
  /\ todo' = Tail(todo) /\ pending' = Append(pending, w)
  /\ mpc' = IF Tail(todo) = <<>> THEN "wait" ELSE "raise"
  /\ UNCHANGED <<flags, state, req, resume, op>>

Wait == /\ mpc = "wait"
        /\ resp' = [resp EXCEPT ![Head(pending)] = "free"]
        /\ mpc' = "waiting"
        /\ UNCHANGED <<flags, state, req, worker, op, todo, pending>>

(* Awake: the response mutexes are held until the call returns.             *)
Awake == LET w == Head(pending) IN
  /\ mpc = "awake" /\ resp[w] = "free"
  /\ pending' = Tail(pending)
  /\ IF Tail(pending) # <<>>
     THEN /\ mpc' = "wait" /\ resp' = [resp EXCEPT ![w] = "manager"]
          /\ UNCHANGED <<op, todo>>
     ELSE /\ resp' = [v \in Workers |-> IF resp[v] = "manager" THEN "free" ELSE resp[v]]
          /\ IF op = "delete" THEN mpc' = "join" /\ todo' = <<w>> /\ UNCHANGED op
                              ELSE mpc' = "idle" /\ op' = "none" /\ UNCHANGED todo
  /\ UNCHANGED <<flags, state, req, worker>>

Join == /\ mpc = "join" /\ thread[Head(todo)] = "ended"
        /\ thread' = [thread EXCEPT ![Head(todo)] = "none"]
        /\ mpc' = "idle" /\ op' = "none" /\ todo' = <<>>
        /\ UNCHANGED <<flags, state, locks, resume, pending>>

ManagerStep == Raise \/ PassReqMutex \/ NotifyWorker \/ Wait \/ Awake \/ Join
-----------------------------------------------------------------------------
Go(w, before, after) == thread[w] = before /\ thread' = [thread EXCEPT ![w] = after]

(* After a change of state the worker passes the response mutex, takes the   *)
(* request mutex, notifies the manager, and waits.                          *)
Answer(w, before, next) == Go(w, before, "sync") /\ resume' = [resume EXCEPT ![w] = next]

PassRespMutex(w) == /\ resp[w] = "free"
                    /\ \/ Go(w, "sync", "tell") \/ Go(w, "run_sync", "run_tell")
                       \/ Go(w, "quit_sync", "quit_tell")
                    /\ UNCHANGED <<flags, state, locks, resume, manager>>

NotifyManager(w) ==
  mpc' = IF mpc = "waiting" /\ Head(pending) = w THEN "awake" ELSE mpc

Tell(w) == /\ \/ /\ Go(w, "tell", "blocking")
                 /\ req[w] = "free"
                 /\ req' = [req EXCEPT ![w] = "worker"]
              \/ Go(w, "run_tell", "run") /\ UNCHANGED req
              \/ Go(w, "quit_tell", "ended") /\ UNCHANGED req
           /\ NotifyManager(w)
           /\ UNCHANGED <<flags, state, resp, resume, op, todo, pending>>

Block(w) == /\ Go(w, "blocking", "asleep")
            /\ req' = [req EXCEPT ![w] = "free"]
            /\ UNCHANGED <<flags, state, resp, resume, manager>>

Resume(w) == /\ Go(w, "awake", resume[w])
             /\ req[w] = "free"
             /\ UNCHANGED <<flags, state, locks, resume, manager>>

(* The three nested loops.                                                  *)
Loop(w) == /\ \/ Go(w, "outer", IF to_quit[w] THEN "quit" ELSE "inner")
              \/ Go(w, "inner", IF ~to_init[w] \/ to_quit[w] THEN "deinit"
                                ELSE IF is_inited[w] THEN "run_loop" ELSE "init")
              \/ Go(w, "run_loop", IF ~to_run[w] \/ ~to_init[w] \/ to_quit[w] THEN "stop"
                                   ELSE IF is_running[w] THEN "run" ELSE "start")
              \/ Go(w, "run", "run_loop")
              \/ (to_run[w] \/ ~is_running[w]) /\ Go(w, "stop", "inner")
              \/ (to_init[w] \/ ~is_inited[w]) /\ Go(w, "deinit", "outer")
           /\ UNCHANGED <<flags, state, locks, resume, manager>>

(* Seeded bug: the answer precedes the change of state.                     *)
InitStateTooLate(w) == /\ Answer(w, "init", "run_loop")
                       /\ UNCHANGED <<flags, state, locks, manager>>

InitState(w) == /\ Answer(w, "init", "run_loop")
                /\ is_inited' = [is_inited EXCEPT ![w] = TRUE]
                /\ UNCHANGED <<flags, is_running, locks, manager>>

RunState(w) == /\ Go(w, "start", "run_sync")
               /\ is_running' = [is_running EXCEPT ![w] = TRUE]
               /\ UNCHANGED <<flags, is_inited, locks, resume, manager>>

StopState(w) == /\ ~to_run[w] /\ is_running[w]
                /\ Answer(w, "stop", "inner")
                /\ is_running' = [is_running EXCEPT ![w] = FALSE]
                /\ UNCHANGED <<flags, is_inited, locks, manager>>

DeinitState(w) == /\ ~to_init[w] /\ is_inited[w]
                  /\ Answer(w, "deinit", "outer")
                  /\ is_running' = [is_running EXCEPT ![w] = FALSE]
                  /\ is_inited' = [is_inited EXCEPT ![w] = FALSE]
                  /\ UNCHANGED <<flags, locks, manager>>

QuitState(w) == /\ Go(w, "quit", "quit_sync")
                /\ is_running' = [is_running EXCEPT ![w] = FALSE]
                /\ is_inited' = [is_inited EXCEPT ![w] = FALSE]
                /\ UNCHANGED <<flags, locks, resume, manager>>

ThreadFunction(w) == \/ PassRespMutex(w) \/ Tell(w) \/ Block(w) \/ Resume(w) \/ Loop(w)
                     \/ InitState(w) \/ RunState(w) \/ StopState(w) \/ DeinitState(w)
                     \/ QuitState(w)

SpuriousWakeup ==
  /\ spurious < MaxSpurious /\ spurious' = spurious + 1
  /\ \/ mpc = "waiting" /\ mpc' = "awake" /\ UNCHANGED thread
     \/ (\E w \in Workers : Go(w, "asleep", "awake")) /\ UNCHANGED mpc
  /\ UNCHANGED <<flags, state, locks, resume, op, todo, pending>>

Next == \/ /\ \/ InitWorkers \/ ManagerStep
              \/ \E w \in Workers : \/ NewWorker(w) \/ DeleteWorker(w) \/ DeinitWorker(w)
                                    \/ RunWorker(w) \/ StopWorker(w) \/ ThreadFunction(w)
           /\ UNCHANGED spurious
        \/ SpuriousWakeup

(* Every thread runs, and no mutex is kept from a thread that asks for it.   *)
Spec == /\ Init /\ [][Next]_vars /\ SF_vars(ManagerStep /\ UNCHANGED spurious)
        /\ \A w \in Workers : SF_vars(ThreadFunction(w) /\ UNCHANGED spurious)
-----------------------------------------------------------------------------
TypeOK ==
  /\ \A f \in {to_quit, to_init, to_run, is_inited, is_running} : f \in [Workers -> BOOLEAN]
  /\ \A f \in {req, resp} : f \in [Workers -> {"free", "manager", "worker"}]
  /\ thread \in [Workers -> {"none", "sync", "tell", "blocking", "asleep", "awake", "outer",
                             "inner", "init", "run_loop", "start", "run_sync", "run_tell",
                             "run", "stop", "deinit", "quit", "quit_sync", "quit_tell",
                             "ended"}]
  /\ resume \in [Workers -> {"outer", "inner", "run_loop"}]
  /\ mpc \in {"idle", "raise", "sync", "notify", "wait", "waiting", "awake", "join"}
  /\ op \in {"none", "new", "init", "run", "stop", "deinit", "delete"}
  /\ todo \in Seq(Workers) /\ pending \in Seq(Workers)
  /\ mpc = "idle" <=> op = "none"
  /\ mpc = "idle" => todo = <<>> /\ pending = <<>>
  /\ spurious \in 0..MaxSpurious

(* ThreadManager.cpp:143-148, the sequence InitWorkers follows, as all calls *)
(* do on a worker that waits: the worker waits when the manager notifies it, *)
(* and the manager when the worker answers, whichever workers it has         *)
(* notified or collected before, until some wait returns by itself.         *)
HandshakeHolds ==
  op \in {"new", "init", "run"} /\ spurious = 0 =>
    /\ mpc = "notify" => thread[Head(todo)] = "asleep"
    /\ \A w \in ToSet(pending) :
         thread[w] \in {"tell", "run_tell"} => mpc = "waiting" /\ Head(pending) = w

(* A call is answered when the worker it waits for has done what it asked,   *)
(* as in ThreadManager.cpp:111, 'Wait response "finish of init"'.  This is   *)
(* false: a spurious wakeup is taken for the answer.                        *)
Done(w) == CASE op = "init"   -> is_inited[w]
             [] op = "run"    -> is_running[w]
             [] op = "stop"   -> ~is_running[w]
             [] op = "deinit" -> ~is_inited[w]
             [] op = "delete" -> ~is_inited[w] /\ ~is_running[w]
             [] op = "new"    -> ~is_inited[w]

AnswerMeansDone == mpc = "awake" => Done(Head(pending))

(* No notification is taken for an answer it is not, and the worker changes  *)
(* its state before it answers: only a spurious wakeup deceives the manager.  *)
NotifiedMeansDone == spurious = 0 => AnswerMeansDone

(* What a worker is, what it has been told, and which workers the call still  *)
(* waits for, as ObedientWorkers sees it: the request of a call counts for   *)
(* all its workers from the call on.                                        *)
Listed(w)   == w \in ToSet(todo)
Notified(w) == w \in ToSet(pending)
InCall(w)   == Listed(w) \/ Notified(w)

Goal == CASE op \in {"new", "deinit"} -> "New"
          [] op \in {"init", "stop"}  -> "Inited"
          [] op = "run"               -> "Running"
          [] op = "delete"            -> "End"
Life(w) == CASE thread[w] = "none" -> "none"
             [] thread[w] \in {"quit_sync", "quit_tell", "ended"} -> "End"
             [] OTHER -> IF is_running[w] THEN "Running"
                         ELSE IF is_inited[w] THEN "Inited" ELSE "New"
Wish(w) == IF InCall(w) THEN Goal ELSE Life(w)

LifeOf == [w \in Workers |-> Life(w)]
WishOf == [w \in Workers |-> Wish(w)]
Outstanding(w) == InCall(w) /\ mpc # "join"
OutstandingSet == {w \in Workers : Outstanding(w)}

Obedient == INSTANCE ObedientWorkers WITH
  FirstWish <- "New", life <- LifeOf, wish <- WishOf, awaited <- OutstandingSet

(* Until some wait returns by itself, a call finds every worker where the     *)
(* call before left it, a worker changes only to what the call it is in has   *)
(* asked of it, and a call returns when all its workers have: InitWorkers     *)
(* included, whose workers obey in any order while it waits in its own.      *)
ObeysUntilSpurious ==
  Obedient!Init /\ [][spurious' = 0 => Obedient!Next]_(Obedient!vars)

(* Every call on a worker that does not run returns, without spurious wakeups. *)
QuietCallReturns ==
  \A w \in Workers :
    (mpc = "raise" /\ Head(todo) = w /\ ~is_running[w]) ~> (mpc = "idle" \/ spurious > 0)

(* ThreadManager.cpp:293, 'Wait response "finish of stop"', and the guarantee *)
(* of ThreadManager.cpp:146 that the manager waits before the worker notifies. *)
StopReturns == (op = "stop") ~> (op = "none")
=============================================================================
