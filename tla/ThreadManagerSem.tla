-------------------------- MODULE ThreadManagerSem --------------------------
(***************************************************************************)
(* manager_worker/05_cache_req_during_init_sem: one manager thread drives   *)
(* workers, each a thread of its own, over two flags and two semaphores per *)
(* worker and no lock.  The manager's calls (ThreadManager.cpp) are cut     *)
(* where the worker can see them; a call the manager refuses returns false  *)
(* and changes nothing, which is a stuttering step.  The worker's steps are *)
(* those of ThreadWorker::ThreadFunction; Init, Run, Stop and Deinit are    *)
(* the user's virtual functions, and return.                                *)
(*                                                                          *)
(* to_run_ and to_quit_ are plain bools.  The worker reads to_run_ between  *)
(* two calls of the virtual Run(), so the compiler has to reload it: a read *)
(* that races with the manager's ToStop() yields the old or the new value.  *)
(***************************************************************************)
EXTENDS Integers

CONSTANT Workers    \* the names the user gives to workers

VARIABLES req,        \* named_workers_: the last request, or "absent"
          to_run, to_quit, state,   \* the worker object
          sem_op, sem_stop,         \* the values of its two semaphores
          wpc,        \* where the worker's thread stands
          mpc,        \* where the manager's thread stands
          cur         \* the worker the manager's call is about

object == <<to_run, to_quit, state, sem_op, sem_stop>>
manager == <<req, mpc, cur>>
vars == <<object, wpc, manager>>

Requests == {"New", "Run", "Stop", "Quit"}
States == {"Initing", "Inited", "Running"}
WorkerLabels == {"none", "init", "op_wait", "outer", "inner", "run", "stop",
                 "stop_post", "deinit", "ended"}
ManagerLabels == {"idle", "run_post", "stop_wait", "quit_stop_wait",
                  "quit_raise", "quit_post", "delete_join"}

Init == /\ req = [w \in Workers |-> "absent"]
        /\ to_run = [w \in Workers |-> FALSE]
        /\ to_quit = [w \in Workers |-> FALSE]
        /\ state = [w \in Workers |-> "Initing"]
        /\ sem_op = [w \in Workers |-> 0]
        /\ sem_stop = [w \in Workers |-> 0]
        /\ wpc = [w \in Workers |-> "none"]
        /\ mpc = "idle"
        /\ cur \in Workers
-----------------------------------------------------------------------------
(* The manager.  It makes one call at a time.                               *)
Call(w, label) == mpc = "idle" /\ mpc' = label /\ cur' = w

At(label, after) == mpc = label /\ mpc' = after /\ UNCHANGED cur

(* NewWorker inserts the name, and starts a thread on the new object.       *)
NewWorker(w) ==
  /\ Call(w, "idle")
  /\ req[w] = "absent"
  /\ req' = [req EXCEPT ![w] = "New"]
  /\ to_run' = [to_run EXCEPT ![w] = FALSE]
  /\ to_quit' = [to_quit EXCEPT ![w] = FALSE]
  /\ state' = [state EXCEPT ![w] = "Initing"]
  /\ sem_op' = [sem_op EXCEPT ![w] = 0]
  /\ sem_stop' = [sem_stop EXCEPT ![w] = 0]
  /\ wpc' = [wpc EXCEPT ![w] = "init"]

(* Seeded bug: the last request is not looked at.                           *)
RunWorkerUnchecked(w) ==
  /\ Call(w, "run_post")
  /\ req[w] # "absent"
  /\ to_run' = [to_run EXCEPT ![w] = TRUE]
  /\ UNCHANGED <<req, to_quit, state, sem_op, sem_stop, wpc>>

(* RunWorker raises to_run_, posts the operation semaphore and only then    *)
(* records the request, which nobody else reads.                            *)
RunWorker(w) ==
  /\ Call(w, "run_post")
  /\ req[w] \in {"New", "Stop"}
  /\ to_run' = [to_run EXCEPT ![w] = TRUE]
  /\ UNCHANGED <<req, to_quit, state, sem_op, sem_stop, wpc>>

(* Seeded bug: the operation semaphore is not posted.                       *)
RunPostForgotten ==
  /\ At("run_post", "idle")
  /\ req' = [req EXCEPT ![cur] = "Run"]
  /\ UNCHANGED <<object, wpc>>

RunPost ==
  /\ At("run_post", "idle")
  /\ sem_op' = [sem_op EXCEPT ![cur] = @ + 1]
  /\ req' = [req EXCEPT ![cur] = "Run"]
  /\ UNCHANGED <<to_run, to_quit, state, sem_stop, wpc>>

(* StopWorker, called by the user or by QuitWorker: lower to_run_, wait for *)
(* the worker to post the stop semaphore, record the request.               *)
StopRequest(w, label) ==
  /\ Call(w, label)
  /\ req[w] = "Run"
  /\ to_run' = [to_run EXCEPT ![w] = FALSE]
  /\ UNCHANGED <<req, to_quit, state, sem_op, sem_stop, wpc>>

(* Seeded bug: StopWorker goes on without the worker's answer.              *)
StopWaitSkipped(label, after) ==
  /\ At(label, after)
  /\ req' = [req EXCEPT ![cur] = "Stop"]
  /\ UNCHANGED <<object, wpc>>

StopWait(label, after) ==
  /\ At(label, after)
  /\ sem_stop[cur] > 0
  /\ sem_stop' = [sem_stop EXCEPT ![cur] = @ - 1]
  /\ req' = [req EXCEPT ![cur] = "Stop"]
  /\ UNCHANGED <<to_run, to_quit, state, sem_op, wpc>>

StopWorker(w) == StopRequest(w, "stop_wait")
StopReturn    == StopWait("stop_wait", "idle")

(* QuitWorker stops a worker that has been asked to run, records the        *)
(* request, raises to_quit_ and posts the operation semaphore.              *)
QuitWorker(w) ==
  \/ /\ Call(w, "quit_raise")
     /\ req[w] \in {"New", "Stop"}
     /\ UNCHANGED <<object, req, wpc>>
  \/ StopRequest(w, "quit_stop_wait")

QuitStopReturn == StopWait("quit_stop_wait", "quit_raise")

QuitRaise ==
  /\ At("quit_raise", "quit_post")
  /\ req' = [req EXCEPT ![cur] = "Quit"]
  /\ to_quit' = [to_quit EXCEPT ![cur] = TRUE]
  /\ UNCHANGED <<to_run, state, sem_op, sem_stop, wpc>>

(* Seeded bug: a quitting worker is not woken.                              *)
QuitPostForgotten == At("quit_post", "idle") /\ UNCHANGED <<object, req, wpc>>

QuitPost ==
  /\ At("quit_post", "idle")
  /\ sem_op' = [sem_op EXCEPT ![cur] = @ + 1]
  /\ UNCHANGED <<req, to_run, to_quit, state, sem_stop, wpc>>

(* DeleteWorker joins the thread of a worker that has been asked to quit,   *)
(* then erases the entry and with it the worker object.                     *)
DeleteWorker(w) ==
  /\ Call(w, "delete_join")
  /\ req[w] = "Quit"
  /\ UNCHANGED <<object, req, wpc>>

DeleteErase ==
  /\ At("delete_join", "idle")
  /\ wpc[cur] = "ended"
  /\ req' = [req EXCEPT ![cur] = "absent"]
  /\ wpc' = [wpc EXCEPT ![cur] = "none"]
  /\ UNCHANGED object

ManagerCall == \E w \in Workers : \/ NewWorker(w) \/ RunWorker(w) \/ StopWorker(w)
                                  \/ QuitWorker(w) \/ DeleteWorker(w)

ManagerStep == \/ RunPost \/ StopReturn \/ QuitStopReturn
               \/ QuitRaise \/ QuitPost \/ DeleteErase
-----------------------------------------------------------------------------
(* The worker's thread.                                                     *)
Goto(w, before, after) == wpc[w] = before /\ wpc' = [wpc EXCEPT ![w] = after]

InitCallback(w) == Goto(w, "init", "op_wait") /\ UNCHANGED object

OpWait(w) == /\ Goto(w, "op_wait", "outer")
             /\ sem_op[w] > 0
             /\ sem_op' = [sem_op EXCEPT ![w] = @ - 1]
             /\ UNCHANGED <<to_run, to_quit, state, sem_stop>>

(* while (!to_quit_): leave the loop, or go round with the state Inited.    *)
Quitting(w) == /\ Goto(w, "outer", "deinit")
               /\ to_quit[w]
               /\ UNCHANGED object

Inited(w) == /\ Goto(w, "outer", "inner")
             /\ ~to_quit[w]
             /\ state' = [state EXCEPT ![w] = "Inited"]
             /\ UNCHANGED <<to_run, to_quit, sem_op, sem_stop>>

(* while (to_run_): call Run, or leave the loop, by way of Stop if Run has  *)
(* been called.                                                             *)
Running(w) == /\ Goto(w, "inner", "run")
              /\ to_run[w]
              /\ state' = [state EXCEPT ![w] = "Running"]
              /\ UNCHANGED <<to_run, to_quit, sem_op, sem_stop>>

RunCallback(w) == Goto(w, "run", "inner") /\ UNCHANGED object

(* Seeded bugs: the answer is posted before Stop has been called; a worker  *)
(* stopped before its first Run does not answer.                            *)
NotRunningEarlyPost(w) == /\ ~to_run[w] /\ Goto(w, "inner", "stop_post")
                          /\ UNCHANGED object

NotRunningSilent(w) == /\ ~to_run[w]
                       /\ Goto(w, "inner", IF state[w] = "Running" THEN "stop" ELSE "op_wait")
                       /\ UNCHANGED object

NotRunning(w) == /\ ~to_run[w]
                 /\ \/ Goto(w, "inner", "stop") /\ state[w] = "Running"
                    \/ Goto(w, "inner", "stop_post") /\ state[w] # "Running"
                 /\ UNCHANGED object

StopCallback(w) == /\ Goto(w, "stop", "stop_post")
                   /\ state' = [state EXCEPT ![w] = "Inited"]
                   /\ UNCHANGED <<to_run, to_quit, sem_op, sem_stop>>

StopPost(w) == /\ Goto(w, "stop_post", "op_wait")
               /\ sem_stop' = [sem_stop EXCEPT ![w] = @ + 1]
               /\ UNCHANGED <<to_run, to_quit, state, sem_op>>

DeinitCallback(w) == Goto(w, "deinit", "ended") /\ UNCHANGED object

ThreadFunction(w) ==
  /\ \/ InitCallback(w) \/ OpWait(w) \/ Quitting(w) \/ Inited(w)
     \/ Running(w) \/ RunCallback(w) \/ NotRunning(w)
     \/ StopCallback(w) \/ StopPost(w) \/ DeinitCallback(w)
  /\ UNCHANGED manager
-----------------------------------------------------------------------------
Next == ManagerCall \/ ManagerStep \/ \E w \in Workers : ThreadFunction(w)

(* Threads keep running: the manager inside a call, a worker that is not    *)
(* blocked.  Nothing obliges the user to make a call.                       *)
Fairness == /\ WF_vars(ManagerStep)
            /\ \A w \in Workers : WF_vars(ThreadFunction(w))

Spec == Init /\ [][Next]_vars /\ Fairness
-----------------------------------------------------------------------------
TypeOK == /\ req \in [Workers -> Requests \cup {"absent"}]
          /\ to_run \in [Workers -> BOOLEAN]
          /\ to_quit \in [Workers -> BOOLEAN]
          /\ state \in [Workers -> States]
          /\ sem_op \in [Workers -> Nat]
          /\ sem_stop \in [Workers -> Nat]
          /\ wpc \in [Workers -> WorkerLabels]
          /\ mpc \in ManagerLabels
          /\ cur \in Workers

(* Where the manager stands in a call about w.                              *)
Phase(w) == IF cur = w THEN mpc ELSE "idle"

Credits(w, op, stop) == sem_op[w] = op /\ sem_stop[w] = stop

(* No request is outstanding: the worker has reached, or is on its way to,  *)
(* an empty operation semaphore.                                            *)
Waiting(w) ==
  /\ \/ req[w] = "New" /\ state[w] = "Initing" /\ wpc[w] \in {"init", "op_wait"}
     \/ req[w] = "Stop" /\ state[w] = "Inited" /\ wpc[w] = "op_wait"
  /\ Credits(w, 0, 0) /\ ~to_quit[w]
  /\ Phase(w) \in {"idle", "run_post", "quit_raise"}
  /\ to_run[w] <=> Phase(w) = "run_post"

(* The worker has yet to take the credit of the last RunWorker, is in its   *)
(* loop, or has answered a stop the manager is waiting for.                 *)
Busy(w) ==
  /\ req[w] = "Run" /\ ~to_quit[w]
  /\ Phase(w) \in {"idle", "stop_wait", "quit_stop_wait"}
  /\ to_run[w] <=> Phase(w) = "idle"
  /\ \/ /\ wpc[w] = "init" /\ state[w] = "Initing" /\ Credits(w, 1, 0)
     \/ /\ wpc[w] = "op_wait" /\ state[w] # "Running" /\ Credits(w, 1, 0)
     \/ /\ wpc[w] = "outer" /\ state[w] # "Running" /\ Credits(w, 0, 0)
     \/ /\ wpc[w] = "inner" /\ state[w] # "Initing" /\ Credits(w, 0, 0)
     \/ /\ wpc[w] = "run" /\ state[w] = "Running" /\ Credits(w, 0, 0)
     \/ /\ ~to_run[w] /\ wpc[w] = "stop" /\ state[w] = "Running" /\ Credits(w, 0, 0)
     \/ /\ ~to_run[w] /\ wpc[w] = "stop_post" /\ state[w] = "Inited" /\ Credits(w, 0, 0)
     \/ /\ ~to_run[w] /\ wpc[w] = "op_wait" /\ state[w] = "Inited" /\ Credits(w, 0, 1)

(* The worker has been told to quit: nothing but its end is ahead of it.    *)
Leaving(w) ==
  /\ req[w] = "Quit" /\ to_quit[w] /\ ~to_run[w] /\ state[w] # "Running"
  /\ \/ /\ Phase(w) = "quit_post" /\ Credits(w, 0, 0)
        /\ wpc[w] \in {"init", "op_wait"}
     \/ /\ Phase(w) \in {"idle", "delete_join"} /\ Credits(w, 1, 0)
        /\ wpc[w] \in {"init", "op_wait"}
     \/ /\ Phase(w) \in {"idle", "delete_join"} /\ Credits(w, 0, 0)
        /\ wpc[w] \in {"outer", "deinit", "ended"}
  /\ wpc[w] = "init" => state[w] = "Initing"

NotCreated(w) ==
  req[w] = "absent" /\ wpc[w] = "none" /\ Phase(w) = "idle" /\ Credits(w, 0, 0)

(* Manager and worker only ever stand in these joint states, whatever the   *)
(* user calls: the flags and the two credits always agree on who has the    *)
(* next move.                                                               *)
JointState(w) == NotCreated(w) \/ Waiting(w) \/ Busy(w) \/ Leaving(w)
JointStates == \A w \in Workers : JointState(w)

(* A credit of the stop semaphore is always the answer to the StopWorker     *)
(* now waiting, never one left over from an earlier run that would let a     *)
(* later StopWorker return while the worker still runs.                      *)
NoStaleStopCredit ==
  \A w \in Workers :
    sem_stop[w] > 0 => sem_stop[w] = 1 /\ Phase(w) \in {"stop_wait", "quit_stop_wait"}

(* The two flags are plain bools: the manager raises either one only while   *)
(* the worker is short of its operation semaphore and reads neither.         *)
RaisesAreUnobserved ==
  [][\A w \in Workers :
       (~to_run[w] /\ to_run'[w]) \/ (~to_quit[w] /\ to_quit'[w])
         => wpc[w] \in {"none", "init", "op_wait"}]_vars

(* The workers go through the states of the README, and only on request: a  *)
(* stop is granted once the worker has left Running, a worker that has been  *)
(* told to quit never runs again, and no object dies before its thread.      *)
Life(w) == IF wpc[w] = "none" THEN "none"
           ELSE IF wpc[w] \in {"deinit", "ended"} THEN "END" ELSE state[w]
Asked(w) == IF req[w] = "absent" THEN "none" ELSE req[w]
LifeOf  == [w \in Workers |-> Life(w)]
AskedOf == [w \in Workers |-> Asked(w)]

Lifecycle == INSTANCE WorkerLifecycle WITH life <- LifeOf, asked <- AskedOf

ImplementsLifecycle == Lifecycle!Spec

(* Every call returns, the ones that wait for the worker included.           *)
CallsReturn == (mpc # "idle") ~> (mpc = "idle")

(* A worker asked to run does run, unless it is asked to stop first.         *)
RunTakesEffect ==
  \A w \in Workers : (req[w] = "Run" /\ to_run[w])
                       ~> (state[w] = "Running" \/ ~to_run[w])

(* A worker asked to quit ends, wherever the request found it.               *)
QuitTakesEffect ==
  \A w \in Workers : (req[w] = "Quit") ~> (wpc[w] \in {"ended", "none"})

(* README.md: "Only `StopWorker()` is sync, other APIs ... are all async":   *)
(* inside QuitWorker the manager never has to wait for the worker.           *)
QuitWorkerIsAsync == (mpc = "quit_stop_wait") => sem_stop[cur] > 0
=============================================================================
