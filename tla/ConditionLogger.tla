--------------------------- MODULE ConditionLogger ---------------------------
(***************************************************************************)
(* 08_Thread/04_condition.cpp: workers queue an error code each and notify  *)
(* the logger, which takes the codes out and prints them until main, having *)
(* joined the workers, sets g_done.                                         *)
(*                                                                          *)
(* g_lockqueue is the mutex of the queue.  g_lockprint is always taken last *)
(* and held for one line only, so printing is a single step.  A worker's    *)
(* code is its name.  A step ends where a thread gives up or asks for the   *)
(* mutex, and where the logger reads g_done, which it does without it.      *)
(***************************************************************************)
EXTENDS Sequences, SequencesExt

CONSTANTS Workers, None

ASSUME ConditionLoggerAssumption == None \notin Workers \cup {"logger"} /\ "logger" \notin Workers

VARIABLES g_codes, g_notified, g_done,
          g_lockqueue,   \* the holder, or None
          worker,        \* where each worker stands
          logger,        \* where the logger stands
          main,          \* where main stands
          printed        \* what the logger has printed

vars == <<g_codes, g_notified, g_done, g_lockqueue, worker, logger, main, printed>>

Init == /\ g_codes = <<>> /\ g_notified = FALSE /\ g_done = FALSE
        /\ g_lockqueue = None
        /\ worker = [w \in Workers |-> "working"]
        /\ logger = "loop"
        /\ main = "join_workers"
        /\ printed = <<>>
-----------------------------------------------------------------------------
(* The error has been found, and printed; now it is to be logged.           *)
LockQueue(w) == /\ worker[w] = "working"
                /\ g_lockqueue = None
                /\ g_lockqueue' = w
                /\ worker' = [worker EXCEPT ![w] = "push"]
                /\ UNCHANGED <<g_codes, g_notified, g_done, logger, main, printed>>

NotifyLogger == logger' = IF logger = "wait" THEN "wake" ELSE logger

(* Seeded bugs: the flag is raised, but nobody notified; somebody is         *)
(* notified, but the flag not raised.                                       *)
Pushed(w) == /\ worker[w] = "push"
             /\ g_codes' = Append(g_codes, w)
             /\ g_lockqueue' = None
             /\ worker' = [worker EXCEPT ![w] = "ended"]
             /\ UNCHANGED <<g_done, main, printed>>

PushCodeUnnotified(w) == Pushed(w) /\ g_notified' = TRUE /\ UNCHANGED logger
PushCodeUnflagged(w) == Pushed(w) /\ NotifyLogger /\ UNCHANGED g_notified

PushCode(w) == /\ worker[w] = "push"
               /\ g_codes' = Append(g_codes, w)
               /\ g_notified' = TRUE
               /\ NotifyLogger
               /\ g_lockqueue' = None
               /\ worker' = [worker EXCEPT ![w] = "ended"]
               /\ UNCHANGED <<g_done, main, printed>>

workerfunc(w) == LockQueue(w) \/ PushCode(w)
-----------------------------------------------------------------------------
LoopTest == /\ logger = "loop"
            /\ logger' = IF g_done THEN "ended" ELSE "wake"
            /\ UNCHANGED <<g_codes, g_notified, g_done, g_lockqueue, worker, main, printed>>

(* Take the mutex, first or after a wakeup; wait again unless notified.     *)
Check == /\ logger = "wake"
         /\ g_lockqueue = None
         /\ \/ ~g_notified /\ logger' = "wait" /\ UNCHANGED g_lockqueue
            \/ g_notified /\ logger' = "drain" /\ g_lockqueue' = "logger"
         /\ UNCHANGED <<g_codes, g_notified, g_done, worker, main, printed>>

SpuriousWakeup ==
  /\ logger = "wait"
  /\ logger' = "wake"
  /\ UNCHANGED <<g_codes, g_notified, g_done, g_lockqueue, worker, main, printed>>

PrintCode == /\ logger = "drain" /\ g_codes # <<>>
             /\ printed' = Append(printed, Head(g_codes))
             /\ g_codes' = Tail(g_codes)
             /\ UNCHANGED <<g_notified, g_done, g_lockqueue, worker, logger, main>>

Drained == /\ logger = "drain" /\ g_codes = <<>>
           /\ g_notified' = FALSE
           /\ g_lockqueue' = None
           /\ logger' = "loop"
           /\ UNCHANGED <<g_codes, g_done, worker, main, printed>>

loggerfunc == LoopTest \/ Check \/ PrintCode \/ Drained
-----------------------------------------------------------------------------
(* The workers are joined, g_done is set with no lock and no notification.  *)
SetDone == /\ main = "join_workers"
           /\ \A w \in Workers : worker[w] = "ended"
           /\ g_done' = TRUE
           /\ main' = "join_logger"
           /\ UNCHANGED <<g_codes, g_notified, g_lockqueue, worker, logger, printed>>

JoinLogger == /\ main = "join_logger" /\ logger = "ended"
              /\ main' = "returned"
              /\ UNCHANGED <<g_codes, g_notified, g_done, g_lockqueue, worker, logger,
                             printed>>

Next == \/ \E w \in Workers : workerfunc(w)
        \/ loggerfunc \/ SpuriousWakeup
        \/ SetDone \/ JoinLogger

(* The threads run, and a thread that finds the mutex free again and again   *)
(* gets it.  Nothing makes a waiting thread wake up for no reason.           *)
Spec == /\ Init /\ [][Next]_vars
        /\ \A w \in Workers : SF_vars(workerfunc(w))
        /\ SF_vars(loggerfunc)
        /\ WF_vars(SetDone \/ JoinLogger)
-----------------------------------------------------------------------------
TypeOK == /\ g_codes \in Seq(Workers) /\ printed \in Seq(Workers)
          /\ g_notified \in BOOLEAN /\ g_done \in BOOLEAN
          /\ g_lockqueue \in Workers \cup {None, "logger"}
          /\ \A w \in Workers : worker[w] = "push" <=> g_lockqueue = w
          /\ worker \in [Workers -> {"working", "push", "ended"}]
          /\ logger \in {"loop", "wake", "wait", "drain", "ended"}
          /\ main \in {"join_workers", "join_logger", "returned"}

(* The logger does not sleep on a code: a queued code has been announced,    *)
(* and an announcement finds the logger awake.                               *)
NoSleepOnACode == /\ g_codes # <<>> => g_notified
                  /\ g_notified => logger # "wait"

(* 04_condition.cpp:39, "notify error to be logged": when the logger has     *)
(* ended every error has been printed.                                       *)
EveryErrorIsLogged == logger = "ended" => g_codes = <<>>

(* 04_condition.cpp:97, "notify the logger to finish and wait for it".       *)
LoggerFinishes == (main = "join_logger") ~> (main = "returned")

(* What holds instead: the program either ends or prints every error, each    *)
(* once; it may leave codes behind, or hang, but never both.                *)
EndsOrPrintsAll ==
  <>[](main = "returned" \/ (IsInjective(printed) /\ ToSet(printed) = Workers))
=============================================================================
