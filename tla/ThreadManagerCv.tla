-------------------------- MODULE ThreadManagerCv --------------------------
(***************************************************************************)
(* manager_worker/04_cache_req_during_init_cv: the manager and a worker     *)
(* talk over two mutexes and two condition variables of the worker object.  *)
(* The response mutex protects the worker's state, the request mutex its    *)
(* waiting for a request; whoever takes both takes the response mutex       *)
(* first.  Requests made while the worker is still initing are only         *)
(* recorded.  Workers share nothing, so one worker is modelled, which is    *)
(* created anew after it has been deleted; the calls made under its name    *)
(* while it does not exist return false and are left out.                   *)
(*                                                                          *)
(* A step ends where a lock is taken, or the thread waits or has notified.  *)
(* The waits with a predicate wake up spuriously; whether the one without,  *)
(* RunWorker's, does so as well depends on the condition variables the      *)
(* program runs on, and is chosen in the initial state.                     *)
(***************************************************************************)
CONSTANT SpuriousRunWakeups   \* what is chosen from

ASSUME ThreadManagerCvAssumption == SpuriousRunWakeups \subseteq BOOLEAN

VARIABLES to_run, to_quit, state,   \* the worker object
          req, resp,    \* mutex_req_, mutex_resp_: "free", "manager" or "worker"
          wpc,          \* where the worker's thread stands
          mpc,          \* where the manager stands
          deleting,     \* whether QuitWorker has been called by DeleteWorker
          spurious      \* whether the wait of RunWorker may wake up by itself

flags == <<to_run, to_quit>>
locks == <<req, resp>>
vars == <<flags, state, locks, wpc, mpc, deleting, spurious>>

States == {"Initing", "Inited", "Running", "Quit"}
Owners == {"free", "manager", "worker"}
WorkerLabels ==
  {"none", "init", "init_resp", "init_req", "init_check", "inited_req", "predicate",
   "blocked", "wake_req", "outer", "inner", "run_resp", "running", "run_notify",
   "run", "stop", "stop_resp", "stop_req", "stop_notify", "deinit", "quit_resp",
   "quit", "quit_notify", "ended"}
ManagerLabels ==
  {"idle", "run_resp", "run_req", "run_notify", "run_wait", "run_wake",
   "stop_resp", "stop_wait", "stop_wake", "quit_resp", "quit_req", "quit_notify",
   "quit_wait", "quit_wake", "join"}

Init == /\ to_run = FALSE /\ to_quit = FALSE /\ state = "Initing"
        /\ req = "free" /\ resp = "free"
        /\ wpc = "none"
        /\ mpc = "idle" /\ deleting = FALSE
        /\ spurious \in SpuriousRunWakeups

Manager(before, after) == mpc = before /\ mpc' = after
Worker(before, after)  == wpc = before /\ wpc' = after

Lock(mutex, owner) == mutex = "free" /\ mutex' = owner
-----------------------------------------------------------------------------
(* The manager.                                                             *)
NewWorker == /\ Manager("idle", "idle")
             /\ Worker("none", "init")
             /\ to_run' = FALSE /\ to_quit' = FALSE /\ state' = "Initing"
             /\ UNCHANGED <<locks, deleting>>

(* RunWorker and StopWorker, and QuitWorker called by the user.             *)
Call == /\ wpc # "none"
        /\ \/ Manager("idle", "run_resp")
           \/ Manager("idle", "stop_resp")
           \/ Manager("idle", "quit_resp")
        /\ UNCHANGED <<flags, state, locks, wpc, deleting>>

(* DeleteWorker looks at the state without a lock.                          *)
DeleteWorker == /\ wpc # "none"
                /\ Manager("idle", IF state = "Quit" THEN "join" ELSE "quit_resp")
                /\ deleting' = TRUE
                /\ UNCHANGED <<flags, state, locks, wpc>>

(* RunWorker, once it holds the response mutex: refuse, record or request.  *)
RunDecide ==
  /\ resp = "free"
  /\ \/ /\ Manager("run_resp", "idle")
        /\ state \in {"Running", "Quit"}
        /\ UNCHANGED <<to_run, resp>>
     \/ /\ Manager("run_resp", "idle")
        /\ state = "Initing"
        /\ to_run' = TRUE
        /\ UNCHANGED resp
     \/ /\ Manager("run_resp", "run_req")
        /\ state = "Inited"
        /\ resp' = "manager"
        /\ UNCHANGED to_run
  /\ UNCHANGED <<to_quit, state, req, wpc, deleting>>

StopDecide ==
  /\ resp = "free"
  /\ \/ /\ Manager("stop_resp", "idle")
        /\ state \in {"Inited", "Quit"}
        /\ UNCHANGED to_run
     \/ /\ Manager("stop_resp", IF state = "Running" THEN "stop_wait" ELSE "idle")
        /\ state \in {"Initing", "Running"}
        /\ to_run' = FALSE
  /\ UNCHANGED <<to_quit, state, locks, wpc, deleting>>

QuitReturn(from) == Manager(from, IF deleting THEN "join" ELSE "idle")

(* QuitWorker stops a running worker, and means to wait until it is Inited:  *)
(* its predicate, the negation of IsInited, is true at once.                *)
QuitDecide ==
  /\ resp = "free"
  /\ \/ /\ QuitReturn("quit_resp")
        /\ state = "Initing"
        /\ to_quit' = TRUE
        /\ UNCHANGED <<to_run, resp>>
     \/ /\ QuitReturn("quit_resp")
        /\ state = "Quit"
        /\ UNCHANGED <<to_run, to_quit, resp>>
     \/ /\ Manager("quit_resp", "quit_req")
        /\ state \in {"Inited", "Running"}
        /\ to_run' = IF state = "Running" THEN FALSE ELSE to_run
        /\ resp' = "manager"
        /\ UNCHANGED to_quit
  /\ UNCHANGED <<state, req, wpc, deleting>>

(* The request is raised under the request mutex, so that the worker is     *)
(* either before its predicate or already waiting.                          *)
RaiseRequest ==
  /\ req = "free"
  /\ \/ Manager("run_req", "run_notify") /\ to_run' = TRUE /\ UNCHANGED to_quit
     \/ Manager("quit_req", "quit_notify") /\ to_quit' = TRUE /\ UNCHANGED to_run
  /\ UNCHANGED <<state, locks, wpc, deleting>>

(* Seeded bug: the worker is not notified.                                  *)
NotifyNobody ==
  /\ Manager("run_notify", "run_wait") \/ Manager("quit_notify", "quit_wait")
  /\ resp' = "free"
  /\ UNCHANGED <<flags, state, req, wpc, deleting>>

(* Notify the worker, and wait for it, which releases the response mutex.   *)
NotifyWorker ==
  /\ Manager("run_notify", "run_wait") \/ Manager("quit_notify", "quit_wait")
  /\ wpc' = IF wpc = "blocked" THEN "wake_req" ELSE wpc
  /\ resp' = "free"
  /\ UNCHANGED <<flags, state, req, deleting>>

Woken == CASE mpc = "run_wait"  -> "run_wake"
           [] mpc = "stop_wait" -> "stop_wake"
           [] mpc = "quit_wait" -> "quit_wake"
           [] OTHER             -> mpc

SpuriousManagerWakeup ==
  /\ mpc \in {"stop_wait", "quit_wait"} \/ (mpc = "run_wait" /\ spurious)
  /\ mpc' = Woken
  /\ UNCHANGED <<flags, state, locks, wpc, deleting>>

(* Awake with the response mutex again: RunWorker returns, StopWorker and   *)
(* QuitWorker look at the state first.                                      *)
Resume ==
  /\ resp = "free"
  /\ \/ Manager("run_wake", "idle")
     \/ Manager("stop_wake", IF state = "Inited" THEN "idle" ELSE "stop_wait")
     \/ state = "Quit" /\ QuitReturn("quit_wake")
     \/ state # "Quit" /\ Manager("quit_wake", "quit_wait")
  /\ UNCHANGED <<flags, state, locks, wpc, deleting>>

(* DeleteWorker joins the thread; erasing the entry deletes the object.     *)
Join == /\ Manager("join", "idle")
        /\ Worker("ended", "none")
        /\ deleting' = FALSE
        /\ UNCHANGED <<flags, state, locks>>

ManagerStep == \/ RunDecide \/ StopDecide \/ QuitDecide \/ RaiseRequest
               \/ NotifyWorker \/ Resume \/ Join
-----------------------------------------------------------------------------
(* The worker's thread.  First a step that takes a lock, or two of them.    *)
InitCallback == Worker("init", "init_resp") /\ UNCHANGED <<flags, state, locks>>

LockResp == /\ \/ Worker("init_resp", "init_req") \/ Worker("run_resp", "running")
               \/ Worker("quit_resp", "quit")
            /\ Lock(resp, "worker")
            /\ UNCHANGED <<flags, state, req>>

LockReq == /\ Worker("init_req", "init_check") \/ Worker("wake_req", "predicate")
           /\ Lock(req, "worker")
           /\ UNCHANGED <<flags, state, resp>>

(* No request came while initing: Initing -> Inited.                        *)
InitCheck == /\ \/ /\ Worker("init_check", "inited_req")
                   /\ ~to_run /\ ~to_quit
                   /\ state' = "Inited" /\ req' = "free"
                \/ /\ Worker("init_check", "outer")
                   /\ to_run \/ to_quit
                   /\ UNCHANGED <<state, req>>
             /\ UNCHANGED <<flags, resp>>

(* The request mutex is taken before the response mutex is given back, so   *)
(* that a manager that sees Inited cannot raise a request before the wait.  *)
SwapLocks == /\ \/ Worker("inited_req", "predicate")
                \/ Worker("stop_req", "stop_notify")
             /\ Lock(req, "worker")
             /\ resp' = "free"
             /\ UNCHANGED <<flags, state>>

Predicate == /\ \/ /\ Worker("predicate", "outer")
                   /\ to_run \/ to_quit
                   /\ UNCHANGED req
                \/ /\ Worker("predicate", "blocked")
                   /\ ~to_run /\ ~to_quit
                   /\ req' = "free"
             /\ UNCHANGED <<flags, state, resp>>

SpuriousWorkerWakeup == /\ Worker("blocked", "wake_req")
                        /\ UNCHANGED <<flags, state, locks>>

(* while (!to_quit_)                                                        *)
Outer == /\ \/ Worker("outer", "deinit") /\ to_quit /\ req' = "free"
            \/ Worker("outer", "inner") /\ ~to_quit /\ UNCHANGED req
         /\ UNCHANGED <<flags, state, resp>>

(* Seeded bug: the response mutex is locked again although held.            *)
InnerRelock == /\ \/ /\ to_run /\ state # "Running"
                     /\ Worker("inner", "run_resp")
                     /\ req' = "free"
                  \/ to_run /\ state = "Running" /\ Worker("inner", "run") /\ UNCHANGED req
                  \/ ~to_run /\ Worker("inner", "stop") /\ UNCHANGED req
               /\ UNCHANGED <<flags, state, resp>>

(* while (to_run_): the first round gives back the request mutex, and takes  *)
(* the response mutex unless it is held since initing.                      *)
Inner == /\ \/ /\ to_run /\ state # "Running"
               /\ Worker("inner", IF state = "Initing" THEN "running" ELSE "run_resp")
               /\ req' = "free"
            \/ to_run /\ state = "Running" /\ Worker("inner", "run") /\ UNCHANGED req
            \/ ~to_run /\ Worker("inner", "stop") /\ UNCHANGED req
         /\ UNCHANGED <<flags, state, resp>>

(* Seeded bug: the manager is notified before the state is changed.         *)
RunningTooLate == /\ Worker("running", "run_notify")
                  /\ resp' = "free"
                  /\ UNCHANGED <<flags, state, req>>

Running == /\ Worker("running", "run_notify")
           /\ state' = "Running" /\ resp' = "free"
           /\ UNCHANGED <<flags, req>>

RunCallback  == Worker("run", "inner") /\ UNCHANGED <<flags, state, locks>>
StopCallback == Worker("stop", "stop_resp") /\ UNCHANGED <<flags, state, locks>>

Stopped == /\ Worker("stop_resp", "stop_req")
           /\ Lock(resp, "worker")
           /\ state' = "Inited"
           /\ UNCHANGED <<flags, req>>

DeinitCallback ==
  /\ Worker("deinit", IF state = "Initing" THEN "quit" ELSE "quit_resp")
  /\ UNCHANGED <<flags, state, locks>>

QuitState == /\ Worker("quit", "quit_notify")
             /\ state' = "Quit" /\ resp' = "free"
             /\ UNCHANGED <<flags, req>>

(* Seeded bug: the manager is not notified.                                 *)
NotifyNoManager == /\ \/ Worker("run_notify", "run")
                      \/ Worker("stop_notify", "predicate")
                      \/ Worker("quit_notify", "ended")
                   /\ UNCHANGED <<mpc, flags, state, locks, deleting>>

NotifyManager == /\ \/ Worker("run_notify", "run")
                    \/ Worker("stop_notify", "predicate")
                    \/ Worker("quit_notify", "ended")
                 /\ mpc' = Woken
                 /\ UNCHANGED <<flags, state, locks, deleting>>

ThreadFunction ==
  \/ /\ \/ InitCallback \/ LockResp \/ LockReq \/ InitCheck \/ SwapLocks \/ Predicate
        \/ Outer \/ Inner \/ Running \/ RunCallback \/ StopCallback \/ Stopped
        \/ DeinitCallback \/ QuitState
     /\ UNCHANGED <<mpc, deleting>>
  \/ NotifyManager
-----------------------------------------------------------------------------
Next == /\ \/ NewWorker \/ Call \/ DeleteWorker \/ ManagerStep \/ SpuriousManagerWakeup
           \/ ThreadFunction
           \/ SpuriousWorkerWakeup /\ UNCHANGED <<mpc, deleting>>
        /\ UNCHANGED spurious

(* Both threads are scheduled, and one that finds a mutex free over and over *)
(* again gets it in the end, however often the other wakes up for nothing.   *)
Spec == Init /\ [][Next]_vars /\ SF_vars(ManagerStep /\ UNCHANGED spurious)
                           /\ SF_vars(ThreadFunction /\ UNCHANGED spurious)
-----------------------------------------------------------------------------
TypeOK == /\ to_run \in BOOLEAN /\ to_quit \in BOOLEAN
          /\ state \in States
          /\ req \in Owners /\ resp \in Owners
          /\ wpc \in WorkerLabels /\ mpc \in ManagerLabels
          /\ deleting \in BOOLEAN /\ (mpc = "idle" => ~deleting)
          /\ spurious \in BOOLEAN

(* The two unique_locks of ThreadFunction are handed from branch to branch   *)
(* with the state: locking one that is held, or unlocking one that is not,   *)
(* would throw.  These are the labels between a lock and its unlock, and a   *)
(* worker that comes to "outer" or "inner" holds the response mutex exactly  *)
(* when it has come straight from initing.                                   *)
OwnershipOK ==
  LET initing == wpc \in {"outer", "inner", "deinit"} /\ state = "Initing"
      first   == wpc = "inner" /\ state # "Running"
  IN  /\ resp = "worker" <=>
           \/ wpc \in {"init_req", "init_check", "inited_req", "running", "stop_req", "quit"}
           \/ initing
      /\ req = "worker" <=>
           \/ wpc \in {"init_check", "predicate", "outer", "stop_notify"} \/ first
      /\ wpc = "stop" => state = "Running"
      /\ resp = "manager" <=> mpc \in {"run_req", "run_notify", "quit_req", "quit_notify"}

(* A thread that waits has what it waits for ahead of it: the worker is      *)
(* never left blocked on a request already raised, nor the manager on a      *)
(* state already reached, unless the other is just about to notify.          *)
NoLostWakeup ==
  /\ wpc = "blocked" /\ (to_run \/ to_quit) => mpc \in {"run_notify", "quit_notify"}
  /\ mpc = "run_wait" /\ state = "Running" => wpc = "run_notify"
  /\ mpc = "stop_wait" /\ state = "Inited" => wpc \in {"stop_req", "stop_notify"}
  /\ mpc = "quit_wait" /\ state = "Quit" => wpc = "quit_notify"

(* ThreadManager.cpp:211, 'Wait response "finish of run"': RunWorker on an   *)
(* inited worker returns once the worker is running.  This is false: a       *)
(* spurious wakeup ends the wait.                                           *)
RunReturnsRunning == mpc = "run_wake" /\ mpc' = "idle" => state = "Running"
RunIsSync == [][RunReturnsRunning]_vars

(* Nothing but a spurious wakeup of that one wait does.                     *)
RunIsSyncUnlessSpurious == [][~spurious => RunReturnsRunning]_vars

(* What the worker is, what it has been told, and whether the manager waits   *)
(* for it, as ObedientWorkers sees it: a request counts from the decision    *)
(* under the response mutex on, and a call is over when it returns.         *)
Life == IF wpc = "none" THEN "none" ELSE
        CASE state = "Initing" -> "New"
          [] state = "Quit"    -> "End"
          [] OTHER             -> state
Wish == IF wpc = "none" THEN "none"
        ELSE IF to_quit \/ mpc = "quit_req" THEN "End"
        ELSE IF to_run \/ mpc = "run_req" THEN "Running" ELSE "Inited"
Waiting == mpc \in {"run_req", "run_notify", "run_wait", "run_wake", "stop_wait",
                    "stop_wake", "quit_req", "quit_notify", "quit_wait", "quit_wake"}

Obedient == INSTANCE ObedientWorkers WITH
  Workers <- {"worker"}, FirstWish <- "Inited",
  life <- [w \in {"worker"} |-> Life], wish <- [w \in {"worker"} |-> Wish],
  awaited <- IF Waiting THEN {"worker"} ELSE {}

(* Unless RunWorker's wait wakes up by itself, every request the manager     *)
(* makes finds the one before it done or the worker still initing, the       *)
(* worker follows the last one and no other, and a call that waits returns   *)
(* when that is done: no request is lost between the two mutexes, none is    *)
(* left behind for a later state.                                           *)
ObeysUnlessSpurious ==
  Obedient!Init /\ [][~spurious => Obedient!Next]_(Obedient!vars)

(* Every call returns, DeleteWorker's join included, if RunWorker's wait     *)
(* does not wake up by itself.                                              *)
CallsReturn == (mpc # "idle" /\ ~spurious) ~> (mpc = "idle")
=============================================================================
