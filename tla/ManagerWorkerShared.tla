------------------------ MODULE ManagerWorkerShared ------------------------
(***************************************************************************)
(* manager_worker/02_manager_worker_sync_ptr: the manager has one request   *)
(* mutex and condition variable and one response mutex and condition        *)
(* variable for all its workers.  Workers only ever pass through the        *)
(* response mutex, which for them is a guard; the manager holds it from the *)
(* start of a call until it waits for the answer.                           *)
(*                                                                          *)
(* Only the manager writes a worker's flags.  is_init is not written under  *)
(* the request mutex, under which the worker tests it before it waits, so   *)
(* that the test and the wait are two steps.  The manager's wait, which has *)
(* no predicate, is taken to return only when notified.                     *)
(***************************************************************************)
CONSTANTS Workers, None

ASSUME ManagerWorkerAssumption == None \notin Workers

VARIABLES named_workers,         \* the attached workers
          is_init, is_running,
          lock_req_,             \* None, or the worker that holds it
          lock_resp_,            \* whether the manager holds it
          thread,                \* where each worker's thread stands
          mpc, op, target,       \* where the manager stands, in which call
          missed                 \* history: its notification left the target asleep

flags == <<is_init, is_running>>
locks == <<lock_req_, lock_resp_>>
call == <<op, target>>
vars == <<named_workers, flags, locks, thread, mpc, call, missed>>

Init == /\ named_workers = {}
        /\ is_init = [w \in Workers |-> FALSE]
        /\ is_running = [w \in Workers |-> FALSE]
        /\ lock_req_ = None /\ lock_resp_ = FALSE
        /\ thread = [w \in Workers |-> "none"]
        /\ mpc = "idle" /\ op = "none" /\ target = None /\ missed = FALSE

Manager(before, after) == mpc = before /\ mpc' = after
-----------------------------------------------------------------------------
attachWorker(w) == /\ mpc = "idle" /\ w \notin named_workers
                   /\ named_workers' = named_workers \cup {w}
                   /\ is_init' = [is_init EXCEPT ![w] = FALSE]
                   /\ is_running' = [is_running EXCEPT ![w] = FALSE]
                   /\ UNCHANGED <<locks, thread, mpc, call, missed>>

(* Seeded bug: the call does not lock the response mutex.                   *)
EnterUnlocked(name, w) == /\ Manager("idle", name) /\ w \in named_workers
                          /\ op' = name /\ target' = w /\ missed' = FALSE
                          /\ UNCHANGED <<named_workers, flags, locks, thread>>

Enter(name, w) == /\ Manager("idle", name) /\ w \in named_workers
                  /\ op' = name /\ target' = w /\ missed' = FALSE
                  /\ lock_resp_' = TRUE
                  /\ UNCHANGED <<named_workers, flags, lock_req_, thread>>

initWorker(w)   == ~is_init[w] /\ Enter("init", w)
startWorker(w)  == is_init[w] /\ ~is_running[w] /\ Enter("start", w)
stopWorker(w)   == is_running[w] /\ Enter("stop", w)
deinitWorker(w) == is_init[w] /\ Enter("deinit", w)

(* An inited worker is deinited before it is erased.                        *)
detachWorker(w) == \/ is_init[w] /\ Enter("detach", w)
                   \/ /\ ~is_init[w] /\ w \in named_workers /\ mpc = "idle"
                      /\ named_workers' = named_workers \ {w}
                      /\ UNCHANGED <<flags, locks, thread, mpc, call, missed>>

SetInit(b) == is_init' = [is_init EXCEPT ![target] = b]
SetRunning(b) == is_running' = [is_running EXCEPT ![target] = b]

Request ==
  /\ \/ /\ Manager("init", "started")
        /\ thread' = [thread EXCEPT ![target] = "init"]
        /\ UNCHANGED flags
     \/ /\ Manager("started", "wait")
        /\ SetInit(TRUE)
        /\ UNCHANGED <<is_running, thread>>
     \/ /\ Manager("start", "notify") /\ lock_req_ = None
        /\ SetRunning(TRUE)
        /\ UNCHANGED <<is_init, thread>>
     \/ /\ Manager("stop", "wait")
        /\ SetRunning(FALSE)
        /\ UNCHANGED <<is_init, thread>>
     \/ /\ mpc \in {"deinit", "detach"}
        /\ mpc' = IF is_running[target] THEN "clear" ELSE "notify"
        /\ SetInit(FALSE)
        /\ UNCHANGED <<is_running, thread>>
     \/ /\ Manager("clear", "wait")
        /\ SetRunning(FALSE)
        /\ UNCHANGED <<is_init, thread>>
  /\ UNCHANGED <<named_workers, missed, locks, call>>

(* notify_one on the shared condition variable wakes any one that waits.    *)
Notify ==
  /\ Manager("notify", "wait")
  /\ \/ \E w \in Workers : /\ thread[w] = "asleep"
                           /\ thread' = [thread EXCEPT ![w] = "test"]
     \/ (\A w \in Workers : thread[w] # "asleep") /\ UNCHANGED thread
  /\ missed' = (thread'[target] \in {"asleep", "blocking"})
  /\ UNCHANGED <<named_workers, flags, locks, call>>

Wait == /\ Manager("wait", "waiting")
        /\ lock_resp_' = FALSE
        /\ UNCHANGED <<named_workers, missed, flags, lock_req_, thread, call>>

Return == /\ \/ Manager("awake", "idle") /\ op \in {"init", "start", "stop"}
             \/ Manager("join", "idle") /\ thread[target] = "ended"
          /\ thread' = IF mpc = "join" THEN [thread EXCEPT ![target] = "none"] ELSE thread
          /\ named_workers' = IF op = "detach" THEN named_workers \ {target}
                                               ELSE named_workers
          /\ op' = "none" /\ target' = None
          /\ UNCHANGED <<flags, locks, missed>>

(* Seeded bug: deinitWorker does not join.                                  *)
AnsweredUnjoined == /\ Manager("awake", "idle") /\ op \in {"deinit", "detach"}
                    /\ op' = "none" /\ target' = None
                    /\ UNCHANGED <<named_workers, missed, flags, locks, thread>>

Answered == /\ Manager("awake", "join") /\ op \in {"deinit", "detach"}
            /\ UNCHANGED <<named_workers, missed, flags, locks, thread, call>>

ManagerStep == Request \/ Notify \/ Wait \/ Return \/ Answered
-----------------------------------------------------------------------------
Go(w, before, after) == thread[w] = before /\ thread' = [thread EXCEPT ![w] = after]

(* The steps that only look at the flags, the callbacks included.           *)
Walk(w) == /\ \/ Go(w, "init", "init_sync")
              \/ Go(w, "loop", IF is_init[w] THEN "test" ELSE "deinit")
              \/ Go(w, "chosen", IF is_init[w] THEN "start_sync" ELSE "deinit")
              \/ ~(is_running[w] /\ is_init[w]) /\ Go(w, "run", "ran")
              \/ Go(w, "ran", IF is_init[w] THEN "stop_sync" ELSE "deinit")
              \/ Go(w, "deinit", "deinit_sync")
           /\ UNCHANGED <<named_workers, missed, flags, locks, mpc, call>>

Test(w) == /\ lock_req_ = None
           /\ \/ /\ is_running[w] \/ ~is_init[w]
                 /\ Go(w, "test", "chosen") /\ UNCHANGED lock_req_
              \/ /\ ~is_running[w] /\ is_init[w]
                 /\ Go(w, "test", "blocking") /\ lock_req_' = w
           /\ UNCHANGED <<named_workers, missed, flags, lock_resp_, mpc, call>>

Block(w) == /\ Go(w, "blocking", "asleep")
            /\ lock_req_' = None
            /\ UNCHANGED <<named_workers, missed, flags, lock_resp_, mpc, call>>

(* Seeded bug: the worker does not pass through the response mutex.         *)
PassRespMutexSkipped(w) ==
  /\ \/ Go(w, "init_sync", "init_tell") \/ Go(w, "start_sync", "start_tell")
     \/ Go(w, "stop_sync", "stop_tell") \/ Go(w, "deinit_sync", "deinit_tell")
  /\ UNCHANGED <<named_workers, missed, flags, locks, mpc, call>>

PassRespMutex(w) == /\ ~lock_resp_
                    /\ \/ Go(w, "init_sync", "init_tell") \/ Go(w, "start_sync", "start_tell")
                       \/ Go(w, "stop_sync", "stop_tell") \/ Go(w, "deinit_sync", "deinit_tell")
                    /\ UNCHANGED <<named_workers, missed, flags, locks, mpc, call>>

Tell(w) == /\ \/ Go(w, "init_tell", "loop") \/ Go(w, "start_tell", "run")
              \/ Go(w, "stop_tell", "loop") \/ Go(w, "deinit_tell", "ended")
           /\ mpc' = IF mpc = "waiting" THEN "awake" ELSE mpc
           /\ UNCHANGED <<named_workers, missed, flags, locks, call>>

newThread(w) == Walk(w) \/ Test(w) \/ Block(w) \/ PassRespMutex(w) \/ Tell(w)

SpuriousWakeup(w) == /\ Go(w, "asleep", "test")
                     /\ UNCHANGED <<named_workers, missed, flags, locks, mpc, call>>

Next == \/ \E w \in Workers : \/ attachWorker(w) \/ detachWorker(w) \/ initWorker(w)
                              \/ startWorker(w) \/ stopWorker(w) \/ deinitWorker(w)
                              \/ newThread(w) \/ SpuriousWakeup(w)
        \/ ManagerStep

(* Every thread runs, and no mutex is kept from a thread that asks for it.   *)
Spec == /\ Init /\ [][Next]_vars /\ SF_vars(ManagerStep)
        /\ \A w \in Workers : SF_vars(newThread(w))
-----------------------------------------------------------------------------
TypeOK ==
  /\ named_workers \subseteq Workers
  /\ is_init \in [Workers -> BOOLEAN] /\ is_running \in [Workers -> BOOLEAN]
  /\ lock_req_ \in Workers \cup {None} /\ lock_resp_ \in BOOLEAN
  /\ thread \in [Workers -> {"none", "init", "init_sync", "init_tell", "loop", "test",
                             "blocking", "asleep", "chosen", "start_sync", "start_tell",
                             "run", "ran", "stop_sync", "stop_tell", "deinit",
                             "deinit_sync", "deinit_tell", "ended"}]
  /\ mpc \in {"idle", "init", "started", "start", "stop", "deinit", "detach", "clear",
              "notify", "wait", "waiting", "awake", "join"}
  /\ op \in {"none", "init", "start", "stop", "deinit", "detach"}
  /\ target \in Workers \cup {None} /\ missed \in BOOLEAN
  /\ mpc = "idle" <=> op = "none"
  /\ lock_resp_ <=> mpc \notin {"idle", "waiting", "awake", "join"}

(* ManagerWorker.cpp:247-248, "this guarantees that manager always wait       *)
(* before worker notify": a worker that is about to notify is the one the    *)
(* manager waits for, about the call it is in.                              *)
Answers(name) == CASE name = "init"  -> {"init_tell"}
                   [] name = "start" -> {"start_tell"}
                   [] name = "stop"  -> {"stop_tell"}
                   [] OTHER          -> {"deinit_tell"}

AnswerIsAwaited ==
  \A w \in Workers :
    thread[w] \in {"init_tell", "start_tell", "stop_tell", "deinit_tell"} =>
      mpc = "waiting" /\ target = w /\ thread[w] \in Answers(op)

(* Between calls a worker has a thread exactly while it is inited, so that   *)
(* neither a second initWorker nor the destructor meets a joinable thread.   *)
ThreadsAreJoined ==
  mpc = "idle" => \A w \in Workers : (thread[w] # "none") <=> (is_init[w] /\ w \in named_workers)

(* What a worker is, what it has been told, and whom the manager waits for,   *)
(* as ObedientWorkers sees it: a worker without a thread is none, it becomes *)
(* what its callback has made of it, and it has been told what its flags say, *)
(* the flag initWorker sets after it has created the thread included.        *)
Life(w) == CASE thread[w] = "none" -> "none"
             [] thread[w] = "init" -> "New"
             [] thread[w] \in {"start_tell", "run", "ran"} -> "Running"
             [] thread[w] \in {"deinit_sync", "deinit_tell", "ended"} -> "End"
             [] OTHER -> "Inited"
Wish(w) == IF thread[w] = "none" THEN "none"
           ELSE IF ~is_init[w] /\ mpc # "started" THEN "End"
           ELSE IF is_running[w] THEN "Running" ELSE "Inited"

LifeOf == [w \in Workers |-> Life(w)]
WishOf == [w \in Workers |-> Wish(w)]
Awaited == IF mpc \in {"started", "clear", "notify", "wait", "waiting"} THEN {target} ELSE {}

Obedient == INSTANCE ObedientWorkers WITH
  FirstWish <- "Inited", life <- LifeOf, wish <- WishOf, awaited <- Awaited

(* Whichever worker a notification wakes, if any: a call finds its worker     *)
(* where the call before left it, a worker changes only to what it has been  *)
(* told, a call returns only when its worker has, and the thread of a        *)
(* deinited worker is joined before anything else happens to the worker.     *)
WorkersObey == Obedient!Spec

(* Every call returns, in every interleaving and however many workers there   *)
(* are, but for the two the next properties are about: its notification woke *)
(* another worker, or came between the target's test and its sleep.          *)
CallReturnsUnlessMissed == (op # "none") ~> (op = "none" \/ missed)

(* ManagerWorker.cpp:214-216, "it will block and wait for following two      *)
(* situation: 1. manager change worker to run": a start is answered.         *)
StartReturns == (op = "start") ~> (op = "none")

(* ManagerWorker.cpp:155, "For case 1, a notification will do nothing" and   *)
(* need not, when the worker is only going to wait: a deinit is answered.    *)
DeinitReturns == (op = "deinit") ~> (op = "none")
=============================================================================
