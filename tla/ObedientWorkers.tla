--------------------------- MODULE ObedientWorkers ---------------------------
(***************************************************************************)
(* What the managers of manager_worker/02 to 04 promise, whatever threads   *)
(* and messages they take for it.  A worker is told what to become when it   *)
(* has become what it was told before, or while it is still New; it becomes  *)
(* nothing else; and a call that waits for workers returns once each of     *)
(* them obeys.  New, Inited and Running are the states of ThreadWorker.h,    *)
(* or what the two flags of 02 say; End is that of a thread that is about    *)
(* to end, which can then be joined.                                        *)
(***************************************************************************)
CONSTANTS Workers,
          FirstWish   \* what a new worker is told: "New", or "Inited" at once

VARIABLES life,     \* life[w]: what w is
          wish,     \* wish[w]: what w has been told to become
          awaited   \* the workers the current call waits for

vars == <<life, wish, awaited>>

Init == /\ life = [w \in Workers |-> "none"]
        /\ wish = [w \in Workers |-> "none"]
        /\ awaited = {}

(* A worker is created, and the call may wait until its thread has started.  *)
Create(w) == /\ awaited = {}
             /\ life[w] = "none"
             /\ life' = [life EXCEPT ![w] = "New"]
             /\ wish' = [wish EXCEPT ![w] = FirstWish]
             /\ awaited' \in {{}, {w}}

(* From where a worker can be told to become s.                             *)
Before(s) == CASE s = "New"     -> {"Inited", "Running"}
               [] s = "Inited"  -> {"New", "Running"}
               [] s = "Running" -> {"New", "Inited"}
               [] s = "End"     -> {"New", "Inited", "Running"}

(* All workers of the call are told the same.  The call waits for all of     *)
(* them, unless they are new and will find the request later.               *)
Request(S, s) ==
  /\ awaited = {} /\ S # {}
  /\ \A w \in S : /\ life[w] \in Before(s)
                  /\ wish[w] # "End"
                  /\ life[w] = "New" \/ wish[w] = life[w]
  /\ wish' = [w \in Workers |-> IF w \in S THEN s ELSE wish[w]]
  /\ awaited' = S \/ (awaited' = {} /\ \A w \in S : life[w] = "New")
  /\ UNCHANGED life

(* A running worker that has to end may stop first.                         *)
Obey(w) == /\ life[w] # wish[w]
           /\ \/ life' = [life EXCEPT ![w] = wish[w]]
              \/ /\ wish[w] = "End" /\ life[w] = "Running"
                 /\ life' = [life EXCEPT ![w] = "Inited"]
           /\ UNCHANGED <<wish, awaited>>

Return(w) == /\ w \in awaited /\ life[w] = wish[w]
             /\ awaited' = awaited \ {w}
             /\ UNCHANGED <<life, wish>>

Delete(w) == /\ awaited = {}
             /\ life[w] = "End"
             /\ life' = [life EXCEPT ![w] = "none"]
             /\ wish' = [wish EXCEPT ![w] = "none"]
             /\ UNCHANGED awaited

Next == \/ \E w \in Workers : Create(w) \/ Obey(w) \/ Return(w) \/ Delete(w)
        \/ \E S \in SUBSET Workers, s \in {"New", "Inited", "Running", "End"} : Request(S, s)

Spec == Init /\ [][Next]_vars
=============================================================================
