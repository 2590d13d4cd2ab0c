---------------------------- MODULE CvSemaphore ----------------------------
(***************************************************************************)
(* 08_Thread/semaphore/src/CvSemaphore.cpp: a counting semaphore made of a  *)
(* mutex, a condition variable and a counter.  A thread's step ends where   *)
(* another thread can see what it did: at each lock, unlock, wait and       *)
(* notify.  Post notifies after it has unlocked, so a woken thread races    *)
(* with new callers for the mutex and may find the counter back at zero;    *)
(* the condition variable may also wake a thread that nobody notified.      *)
(***************************************************************************)
EXTENDS Integers, FiniteSets

CONSTANTS Threads, MaxValue, InitValue,
          NoThread   \* the holder of a free mutex

ASSUME CvSemaphoreAssumption ==
  /\ IsFiniteSet(Threads)
  /\ NoThread \notin Threads
  /\ MaxValue \in Nat \ {0}
  /\ InitValue \in 0..MaxValue   \* the constructor throws above the maximum

VARIABLES counter,   \* counter_
          mutex,     \* the holder of mutex_, or NoThread
          pc         \* pc[t]: where t stands in the method it has called

vars == <<counter, mutex, pc>>

Locking  == {"post_lock", "wait_lock", "try_lock"}
Critical == {"post", "wait", "try"}          \* mutex_ is held
PCs == {"idle", "notify", "blocked", "ok", "error"} \cup Locking \cup Critical

At(labels) == {t \in Threads : pc[t] \in labels}
Waiters == At({"blocked"})                   \* the threads inside cv_.wait

Init == /\ counter = InitValue
        /\ mutex = NoThread
        /\ pc = [t \in Threads |-> "idle"]

GoTo(t, before, after) ==
  /\ pc[t] = before
  /\ pc' = [pc EXCEPT ![t] = after]

Call(t) == /\ \E start \in Locking : GoTo(t, "idle", start)
           /\ UNCHANGED <<counter, mutex>>

Lock(t) == /\ mutex = NoThread
           /\ mutex' = t
           /\ \/ GoTo(t, "post_lock", "post")
              \/ GoTo(t, "wait_lock", "wait")
              \/ GoTo(t, "try_lock", "try")
           /\ UNCHANGED counter

Unlock(t) == mutex' = NoThread

(* Post, at the maximum: -1, and the counter stays.                         *)
PostFull(t) == /\ GoTo(t, "post", "error")
               /\ counter = MaxValue
               /\ Unlock(t)
               /\ UNCHANGED counter

(* Seeded bug: a notification only when the counter was zero.               *)
PostIncrementFromZero(t) == /\ GoTo(t, "post", IF counter = 0 THEN "notify" ELSE "ok")
                            /\ counter # MaxValue
                            /\ counter' = counter + 1
                            /\ Unlock(t)

PostIncrement(t) == /\ GoTo(t, "post", "notify")
                    /\ counter # MaxValue
                    /\ counter' = counter + 1
                    /\ Unlock(t)

(* Seeded bug: Post does not notify.                                        *)
NotifyNobody(t) == GoTo(t, "notify", "ok") /\ UNCHANGED <<counter, mutex>>

(* notify_one wakes some blocked thread, and is lost when there is none.  A *)
(* woken thread has to take the mutex again before it looks at the counter. *)
NotifyOne(t) ==
  /\ pc[t] = "notify"
  /\ IF Waiters = {}
       THEN pc' = [pc EXCEPT ![t] = "ok"]
       ELSE \E w \in Waiters :
              pc' = [pc EXCEPT ![t] = "ok", ![w] = "wait_lock"]
  /\ UNCHANGED <<counter, mutex>>

(* Seeded bug: an awakened thread does not test the counter again.          *)
WaitTakeUnchecked(t) == /\ GoTo(t, "wait", "ok")
                        /\ counter' = counter - 1
                        /\ Unlock(t)

(* The predicate loop of cv_.wait: leave it with the counter taken down, or *)
(* block, which releases the mutex in the same step.                        *)
WaitTake(t) == /\ GoTo(t, "wait", "ok")
               /\ counter # 0
               /\ counter' = counter - 1
               /\ Unlock(t)

WaitBlock(t) == /\ GoTo(t, "wait", "blocked")
                /\ counter = 0
                /\ Unlock(t)
                /\ UNCHANGED counter

SpuriousWakeup(t) == /\ GoTo(t, "blocked", "wait_lock")
                     /\ UNCHANGED <<counter, mutex>>

TryTake(t) == /\ GoTo(t, "try", "ok")
              /\ counter # 0
              /\ counter' = counter - 1
              /\ Unlock(t)

TryFail(t) == /\ GoTo(t, "try", "error")
              /\ counter = 0
              /\ Unlock(t)
              /\ UNCHANGED counter

Return(t) == /\ GoTo(t, "ok", "idle") \/ GoTo(t, "error", "idle")
             /\ UNCHANGED <<counter, mutex>>

Post(t)    == PostFull(t) \/ PostIncrement(t) \/ NotifyOne(t)
Wait(t)    == WaitTake(t) \/ WaitBlock(t)
TryWait(t) == TryTake(t) \/ TryFail(t)

(* What the scheduler keeps doing for a thread that is not blocked.         *)
Run(t) == Lock(t) \/ Post(t) \/ Wait(t) \/ TryWait(t) \/ Return(t)

Next == \E t \in Threads : Call(t) \/ Run(t) \/ SpuriousWakeup(t)

Spec == Init /\ [][Next]_vars

(* Threads run, and one that wants the mutex gets it if it is free again and *)
(* again.  Nobody has to call a method, and no spurious wakeup has to come.  *)
FairSpec == Spec /\ \A t \in Threads : WF_vars(Run(t)) /\ SF_vars(Lock(t))
-----------------------------------------------------------------------------
TypeOK == /\ counter \in 0..MaxValue
          /\ mutex \in Threads \cup {NoThread}
          /\ pc \in [Threads -> PCs]

(* The counter is only ever touched by the thread that holds mutex_.        *)
MutexOK == \A t \in Threads : pc[t] \in Critical <=> mutex = t

(* No wakeup is lost although Post notifies outside the lock, a TryWait or a *)
(* newly arrived Wait may take the value first, and a notification is not    *)
(* remembered: while some thread is blocked, every unit of the counter is    *)
(* matched by a thread that is about to notify or is on its way to look at   *)
(* the counter.                                                             *)
AwakeLabels == {"wait_lock", "wait"}
Awake == At(AwakeLabels)
NoLostWakeup ==
  Waiters # {} => counter <= Cardinality(At({"notify"})) + Cardinality(Awake)

(* A Wait is only kept waiting by the counter: it returns unless the counter *)
(* comes back to zero again and again, whoever overtakes it and whichever    *)
(* thread the notifications went to.                                        *)
WaitersAreServed ==
  \A t \in Threads :
    <>[](counter > 0) => []<>(pc[t] \notin AwakeLabels \cup {"blocked"})

(* What the header promises: every method takes effect in one step between  *)
(* its call and its return.  Post's effect is its increment, not its notify. *)
Status(label) ==
  CASE label = "idle" -> "none"
    [] label \in {"post_lock", "post"} -> "post"
    [] label \in {"wait_lock", "wait", "blocked"} -> "wait"
    [] label \in {"try_lock", "try"} -> "trywait"
    [] label \in {"notify", "ok"} -> "ok"
    [] label = "error" -> "error"

StatusOf == [t \in Threads |-> Status(pc[t])]

Abstract == INSTANCE Semaphore WITH value <- counter, status <- StatusOf

ImplementsSemaphore == Abstract!Spec
=============================================================================
