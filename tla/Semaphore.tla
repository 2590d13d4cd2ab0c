----------------------------- MODULE Semaphore -----------------------------
(***************************************************************************)
(* What 08_Thread/semaphore/pub/IUnNamedSemaphore.h promises its callers,   *)
(* with no word on how it is done: a counter that every call reads and      *)
(* changes in one indivisible step, somewhere between the moment the call   *)
(* is made and the moment it returns.                                       *)
(***************************************************************************)
EXTENDS Integers

CONSTANTS Threads,    \* the threads that share the semaphore
          MaxValue,   \* its largest value
          InitValue   \* the value it is created with

VARIABLES value,      \* the value of the semaphore
          status      \* status[t]: the call t is in, or its outcome until t returns

vars == <<value, status>>

Operations == {"post", "wait", "trywait"}

Init == /\ value = InitValue
        /\ status = [t \in Threads |-> "none"]

Become(t, before, after) ==
  /\ status[t] = before
  /\ status' = [status EXCEPT ![t] = after]

Invoke(t) == \E op \in Operations : Become(t, "none", op) /\ UNCHANGED value

(* Post adds one, or returns -1 and leaves the value alone when it cannot.  *)
Post(t) == /\ value < MaxValue
           /\ Become(t, "post", "ok")
           /\ value' = value + 1

PostError(t) == /\ value = MaxValue
                /\ Become(t, "post", "error")
                /\ UNCHANGED value

(* Wait takes one as soon as there is one to take.                          *)
Wait(t) == /\ value > 0
           /\ Become(t, "wait", "ok")
           /\ value' = value - 1

(* TryWait never blocks: it takes one or returns -1.                        *)
TryWait(t) == /\ value > 0
              /\ Become(t, "trywait", "ok")
              /\ value' = value - 1

TryWaitError(t) == /\ value = 0
                   /\ Become(t, "trywait", "error")
                   /\ UNCHANGED value

Return(t) == /\ \E outcome \in {"ok", "error"} : Become(t, outcome, "none")
             /\ UNCHANGED value

Next == \E t \in Threads : \/ Invoke(t) \/ Return(t)
                           \/ Post(t) \/ PostError(t)
                           \/ Wait(t)
                           \/ TryWait(t) \/ TryWaitError(t)

Spec == Init /\ [][Next]_vars
=============================================================================
