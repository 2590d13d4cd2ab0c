------------------------- MODULE CvSemaphoreProofs -------------------------
(***************************************************************************)
(* For any finite set of threads, any maximum and any initial value:        *)
(* CvSemaphore is type correct, keeps its mutex exclusive, loses no wakeup  *)
(* and implements Semaphore.                                                *)
(***************************************************************************)
EXTENDS CvSemaphore, FiniteSetTheorems, TLAPS

USE CvSemaphoreAssumption

(* TypeOK, MutexOK and NoLostWakeup are inductive together: NoLostWakeup    *)
(* needs the other two only for the range of pc and of the counter.         *)
IInv == TypeOK /\ MutexOK /\ NoLostWakeup

(* The threads at a set of labels, after one thread has moved.              *)
LEMMA AtAfterMove ==
  ASSUME TypeOK, NEW t \in Threads, NEW after, NEW labels,
         pc' = [pc EXCEPT ![t] = after]
  PROVE  At(labels)' = IF after \in labels THEN At(labels) \cup {t}
                                           ELSE At(labels) \ {t}
BY DEF At, TypeOK

(* The count of threads at some labels is a natural number, and a move adds *)
(* one, removes one or leaves it alone.                                     *)
LEMMA CardinalityAfterMove ==
  ASSUME TypeOK, NEW t \in Threads, NEW after, NEW labels,
         pc' = [pc EXCEPT ![t] = after]
  PROVE  /\ Cardinality(At(labels)) \in Nat
         /\ Cardinality(At(labels))' =
              Cardinality(At(labels))
                + (IF after \in labels THEN 1 ELSE 0)
                - (IF pc[t] \in labels THEN 1 ELSE 0)
<1>1. IsFiniteSet(At(labels))
  BY FS_Subset DEF At
<1>2. Cardinality(At(labels)) \in Nat
  BY <1>1, FS_CardinalityType
<1>3. t \in At(labels) <=> pc[t] \in labels
  BY DEF At
<1>4. Cardinality(At(labels) \cup {t}) =
        IF pc[t] \in labels THEN Cardinality(At(labels))
                            ELSE Cardinality(At(labels)) + 1
  BY <1>1, <1>3, FS_AddElement
<1>5. Cardinality(At(labels) \ {t}) =
        IF pc[t] \in labels THEN Cardinality(At(labels)) - 1
                            ELSE Cardinality(At(labels))
  BY <1>1, <1>3, FS_RemoveElement
<1>6. CASE after \in labels
  <2>1. Cardinality(At(labels))' = Cardinality(At(labels) \cup {t})
    BY <1>6, AtAfterMove
  <2> QED BY <1>2, <1>4, <1>6, <2>1
<1>7. CASE after \notin labels
  <2>1. Cardinality(At(labels))' = Cardinality(At(labels) \ {t})
    BY <1>7, AtAfterMove
  <2> QED BY <1>2, <1>5, <1>7, <2>1
<1> QED BY <1>6, <1>7

(* CvSemaphore keeps its variables in their types.                          *)
LEMMA TypeInvariant == IInv /\ [Next]_vars => TypeOK'
<1> SUFFICES ASSUME IInv, [Next]_vars PROVE TypeOK'
  OBVIOUS
<1> USE DEF IInv, TypeOK, GoTo, Unlock, PCs, Locking, Critical
<1>1. CASE UNCHANGED vars
  BY <1>1 DEF vars
<1>2. ASSUME NEW t \in Threads, Call(t) PROVE TypeOK'
  BY <1>2 DEF Call
<1>3. ASSUME NEW t \in Threads, Lock(t) PROVE TypeOK'
  BY <1>3 DEF Lock
<1>4. ASSUME NEW t \in Threads, PostFull(t) \/ PostIncrement(t) PROVE TypeOK'
  BY <1>4 DEF PostFull, PostIncrement
<1>5. ASSUME NEW t \in Threads, NotifyOne(t) PROVE TypeOK'
  BY <1>5 DEF NotifyOne, Waiters, At
<1>6. ASSUME NEW t \in Threads, Wait(t) \/ TryWait(t) PROVE TypeOK'
  BY <1>6 DEF Wait, WaitTake, WaitBlock, TryWait, TryTake, TryFail
<1>7. ASSUME NEW t \in Threads, Return(t) \/ SpuriousWakeup(t) PROVE TypeOK'
  BY <1>7 DEF Return, SpuriousWakeup
<1> QED BY <1>1, <1>2, <1>3, <1>4, <1>5, <1>6, <1>7 DEF Next, Run, Post

(* A thread between lock and unlock is the only one there.                  *)
LEMMA MutexInvariant == IInv /\ [Next]_vars => MutexOK'
<1> SUFFICES ASSUME IInv, [Next]_vars PROVE MutexOK'
  OBVIOUS
<1> USE DEF IInv, TypeOK, MutexOK, GoTo, Unlock, Locking, Critical
<1>1. CASE UNCHANGED vars
  BY <1>1 DEF vars
<1>2. ASSUME NEW t \in Threads, Call(t) PROVE MutexOK'
  BY <1>2 DEF Call
<1>3. ASSUME NEW t \in Threads, Lock(t) PROVE MutexOK'
  BY <1>3 DEF Lock
<1>4. ASSUME NEW t \in Threads, PostFull(t) \/ PostIncrement(t) PROVE MutexOK'
  BY <1>4 DEF PostFull, PostIncrement
<1>5. ASSUME NEW t \in Threads, NotifyOne(t) PROVE MutexOK'
  BY <1>5 DEF NotifyOne, Waiters, At
<1>6. ASSUME NEW t \in Threads, Wait(t) \/ TryWait(t) PROVE MutexOK'
  BY <1>6 DEF Wait, WaitTake, WaitBlock, TryWait, TryTake, TryFail
<1>7. ASSUME NEW t \in Threads, Return(t) \/ SpuriousWakeup(t) PROVE MutexOK'
  BY <1>7 DEF Return, SpuriousWakeup
<1> QED BY <1>1, <1>2, <1>3, <1>4, <1>5, <1>6, <1>7 DEF Next, Run, Post

Notifying == Cardinality(At({"notify"}))
Looking   == Cardinality(Awake)

(* What one thread's move does to the three sets NoLostWakeup relates.       *)
LEMMA CountsAfterMove ==
  ASSUME TypeOK, NEW t \in Threads, NEW before, NEW after, GoTo(t, before, after)
  PROVE  /\ Notifying \in Nat /\ Looking \in Nat /\ counter \in Nat
         /\ Notifying' = Notifying + (IF after = "notify" THEN 1 ELSE 0)
                                  - (IF before = "notify" THEN 1 ELSE 0)
         /\ Looking' = Looking + (IF after \in AwakeLabels THEN 1 ELSE 0)
                              - (IF before \in AwakeLabels THEN 1 ELSE 0)
         /\ Waiters' = IF after = "blocked" THEN Waiters \cup {t}
                                           ELSE Waiters \ {t}
<1>1. pc[t] = before /\ pc' = [pc EXCEPT ![t] = after]
  BY DEF GoTo
<1>2. \A labels :
        /\ Cardinality(At(labels)) \in Nat
        /\ Cardinality(At(labels))' =
             Cardinality(At(labels)) + (IF after \in labels THEN 1 ELSE 0)
                                     - (IF before \in labels THEN 1 ELSE 0)
  BY <1>1, CardinalityAfterMove
<1>3. /\ Looking \in Nat
      /\ Looking' = Looking + (IF after \in AwakeLabels THEN 1 ELSE 0)
                           - (IF before \in AwakeLabels THEN 1 ELSE 0)
  BY <1>2 DEF Looking, Awake
<1>4. /\ Notifying \in Nat
      /\ Notifying' = Notifying + (IF after = "notify" THEN 1 ELSE 0)
                               - (IF before = "notify" THEN 1 ELSE 0)
  <2>1. PICK labels : labels = {"notify"}
    OBVIOUS
  <2>2. /\ after \in labels <=> after = "notify"
        /\ before \in labels <=> before = "notify"
    BY <2>1
  <2>3. Notifying = Cardinality(At(labels)) /\ Notifying' = Cardinality(At(labels))'
    BY <2>1 DEF Notifying
  <2> QED BY <1>2, <2>2, <2>3
<1>5. Waiters' = IF after = "blocked" THEN Waiters \cup {t} ELSE Waiters \ {t}
  BY <1>1 DEF Waiters, At, TypeOK
<1> QED BY <1>3, <1>4, <1>5 DEF TypeOK

(* Every step keeps the wakeups due at least as many as the values left.    *)
LEMMA WakeupInvariant == IInv /\ [Next]_vars => NoLostWakeup'
<1> SUFFICES ASSUME TypeOK, NoLostWakeup, [Next]_vars PROVE NoLostWakeup'
  BY DEF IInv
<1>0. /\ NoLostWakeup <=> (Waiters # {} => counter <= Notifying + Looking)
      /\ NoLostWakeup' <=> (Waiters' # {} => counter' <= Notifying' + Looking')
  BY DEF NoLostWakeup, Notifying, Looking
<1>1. CASE UNCHANGED vars
  <2>1. /\ Notifying' = Notifying /\ Looking' = Looking
        /\ Waiters' = Waiters /\ counter' = counter
    BY <1>1 DEF vars, Notifying, Looking, Awake, Waiters, At
  <2> QED BY <2>1, <1>0
<1>2. ASSUME NEW t \in Threads, Call(t) PROVE NoLostWakeup'
  <2>1. PICK start \in Locking : GoTo(t, "idle", start) /\ counter' = counter
    BY <1>2 DEF Call
  <2> QED BY <2>1, CountsAfterMove, <1>0 DEF Locking, AwakeLabels
<1>3. ASSUME NEW t \in Threads, Lock(t) PROVE NoLostWakeup'
  <2>0. counter' = counter
    BY <1>3 DEF Lock
  <2>1. CASE GoTo(t, "post_lock", "post")
    BY <2>0, <2>1, CountsAfterMove, <1>0 DEF AwakeLabels
  <2>2. CASE GoTo(t, "wait_lock", "wait")
    BY <2>0, <2>2, CountsAfterMove, <1>0 DEF AwakeLabels
  <2>3. CASE GoTo(t, "try_lock", "try")
    BY <2>0, <2>3, CountsAfterMove, <1>0 DEF AwakeLabels
  <2> QED BY <1>3, <2>1, <2>2, <2>3 DEF Lock
<1>4. ASSUME NEW t \in Threads, PostFull(t) PROVE NoLostWakeup'
  BY <1>4, CountsAfterMove, <1>0 DEF PostFull, AwakeLabels
<1>5. ASSUME NEW t \in Threads, PostIncrement(t) PROVE NoLostWakeup'
  BY <1>5, CountsAfterMove, <1>0 DEF PostIncrement, AwakeLabels
<1>6. ASSUME NEW t \in Threads, NotifyOne(t) PROVE NoLostWakeup'
  <2>1. CASE Waiters = {}
    <3>1. GoTo(t, "notify", "ok")
      BY <1>6, <2>1 DEF NotifyOne, GoTo
    <3> QED BY <2>1, <3>1, CountsAfterMove, <1>0
  <2>2. CASE Waiters # {}
    <3>1. PICK w \in Waiters : pc' = [pc EXCEPT ![t] = "ok", ![w] = "wait_lock"]
      BY <1>6, <2>2 DEF NotifyOne
    <3>2. /\ w \in Threads /\ pc[w] = "blocked" /\ pc[t] = "notify"
          /\ counter' = counter
      BY <1>6 DEF NotifyOne, Waiters, At
    <3>3. /\ At({"notify"})' = At({"notify"}) \ {t}
          /\ Awake' = Awake \cup {w}
          /\ t \in At({"notify"})
          /\ w \notin Awake
      BY <3>1, <3>2 DEF At, Awake, AwakeLabels, TypeOK
    <3>4. IsFiniteSet(At({"notify"})) /\ IsFiniteSet(Awake)
      BY FS_Subset DEF At, Awake
    <3>5. Notifying \in Nat /\ Notifying' = Notifying - 1
      BY <3>3, <3>4, FS_CardinalityType, FS_RemoveElement DEF Notifying
    <3>6. Looking \in Nat /\ Looking' = Looking + 1
      BY <3>3, <3>4, FS_CardinalityType, FS_AddElement DEF Looking
    <3>7. counter \in Nat
      BY DEF TypeOK
    <3> QED BY <2>2, <3>2, <3>5, <3>6, <3>7, <1>0
  <2> QED BY <2>1, <2>2
<1>7. ASSUME NEW t \in Threads, WaitTake(t) PROVE NoLostWakeup'
  <2>1. counter' = counter - 1 /\ GoTo(t, "wait", "ok")
    BY <1>7 DEF WaitTake
  <2> QED BY <2>1, CountsAfterMove, <1>0 DEF AwakeLabels
<1>8. ASSUME NEW t \in Threads, WaitBlock(t) PROVE NoLostWakeup'
  <2>1. counter' = 0 /\ GoTo(t, "wait", "blocked")
    BY <1>8 DEF WaitBlock
  <2>2. Notifying' \in Nat /\ Looking' \in Nat
    <3>1. IsFiniteSet(At({"notify"})') /\ IsFiniteSet(Awake')
      BY FS_Subset DEF At, Awake
    <3> QED BY <3>1, FS_CardinalityType DEF Notifying, Looking
  <2>3. \A n, m \in Nat : 0 <= n + m
    OBVIOUS
  <2>4. counter' <= Notifying' + Looking'
    BY <2>1, <2>2, <2>3, Zenon
  <2> QED BY <2>4, <1>0
<1>9. ASSUME NEW t \in Threads, SpuriousWakeup(t) PROVE NoLostWakeup'
  <2>1. t \in Waiters /\ counter' = counter /\ GoTo(t, "blocked", "wait_lock")
    BY <1>9 DEF SpuriousWakeup, GoTo, Waiters, At
  <2> QED BY <2>1, CountsAfterMove, <1>0 DEF AwakeLabels
<1>10. ASSUME NEW t \in Threads, TryWait(t) PROVE NoLostWakeup'
  <2>1. CASE TryTake(t)
    BY <2>1, CountsAfterMove, <1>0 DEF TryTake, AwakeLabels
  <2>2. CASE TryFail(t)
    BY <2>2, CountsAfterMove, <1>0 DEF TryFail, AwakeLabels
  <2> QED BY <1>10, <2>1, <2>2 DEF TryWait
<1>11. ASSUME NEW t \in Threads, Return(t) PROVE NoLostWakeup'
  <2>1. CASE GoTo(t, "ok", "idle")
    BY <1>11, <2>1, CountsAfterMove, <1>0 DEF Return, AwakeLabels
  <2>2. CASE GoTo(t, "error", "idle")
    BY <1>11, <2>2, CountsAfterMove, <1>0 DEF Return, AwakeLabels
  <2> QED BY <1>11, <2>1, <2>2 DEF Return
<1> QED BY <1>1, <1>2, <1>3, <1>4, <1>5, <1>6, <1>7, <1>8, <1>9, <1>10, <1>11
        DEF Next, Run, Post, Wait

(* The three invariants hold in every reachable state of CvSemaphore.       *)
THEOREM Invariance == Spec => []IInv
<1>1. Init => IInv
  BY DEF Init, IInv, TypeOK, MutexOK, NoLostWakeup, Waiters, At, PCs, Critical
<1>2. IInv /\ [Next]_vars => IInv'
  BY TypeInvariant, MutexInvariant, WakeupInvariant DEF IInv
<1> QED BY <1>1, <1>2, PTL DEF Spec

(* No thread stays blocked on a positive counter unless another is already   *)
(* on its way: Post may notify outside the lock.                             *)
THEOREM NoWakeupIsLost == Spec => []NoLostWakeup
BY Invariance, PTL DEF IInv
-----------------------------------------------------------------------------
(* A move from one label to another is the same move between their statuses. *)
LEMMA StatusAfterMove ==
  ASSUME TypeOK, NEW t \in Threads, NEW before, NEW after, GoTo(t, before, after)
  PROVE  /\ StatusOf[t] = Status(before)
         /\ StatusOf' = [StatusOf EXCEPT ![t] = Status(after)]
BY DEF GoTo, StatusOf, TypeOK

LEMMA BecomeAfterMove ==
  ASSUME TypeOK, NEW t \in Threads, NEW before, NEW after, GoTo(t, before, after)
  PROVE  Abstract!Become(t, Status(before), Status(after))
BY StatusAfterMove DEF Abstract!Become

(* The status of every label.                                               *)
LEMMA Statuses ==
  /\ Status("idle") = "none"
  /\ Status("post_lock") = "post"    /\ Status("post") = "post"
  /\ Status("wait_lock") = "wait"    /\ Status("wait") = "wait"
  /\ Status("blocked") = "wait"
  /\ Status("try_lock") = "trywait"  /\ Status("try") = "trywait"
  /\ Status("notify") = "ok"         /\ Status("ok") = "ok"
  /\ Status("error") = "error"
BY DEF Status

(* A move between two labels of one status is invisible.                     *)
LEMMA StutterAfterMove ==
  ASSUME TypeOK, NEW t \in Threads, NEW before, NEW after, GoTo(t, before, after),
         Status(before) = Status(after)
  PROVE  StatusOf' = StatusOf
BY StatusAfterMove DEF StatusOf

(* Every step of CvSemaphore is a step of Semaphore or leaves it unchanged.  *)
LEMMA StepImplementsSemaphore ==
  TypeOK /\ [Next]_vars => [Abstract!Next]_(Abstract!vars)
<1> SUFFICES ASSUME TypeOK, [Next]_vars
             PROVE  [Abstract!Next]_(Abstract!vars)
  OBVIOUS
<1>1. CASE UNCHANGED vars
  BY <1>1 DEF vars, Abstract!vars, StatusOf
<1>2. ASSUME NEW t \in Threads, Call(t) PROVE Abstract!Next
  <2>1. PICK start \in Locking : GoTo(t, "idle", start) /\ counter' = counter
    BY <1>2 DEF Call
  <2>2. Abstract!Become(t, "none", Status(start))
    BY <2>1, BecomeAfterMove, Statuses
  <2>3. Status(start) \in Abstract!Operations
    BY Statuses DEF Locking, Abstract!Operations
  <2> QED BY <2>1, <2>2, <2>3 DEF Abstract!Next, Abstract!Invoke
<1>3. ASSUME NEW t \in Threads, Lock(t) \/ SpuriousWakeup(t)
      PROVE  UNCHANGED Abstract!vars
  <2>1. counter' = counter
    BY <1>3 DEF Lock, SpuriousWakeup
  <2>2. \E before, after : GoTo(t, before, after) /\ Status(before) = Status(after)
    BY <1>3, Statuses DEF Lock, SpuriousWakeup
  <2> QED BY <2>1, <2>2, StutterAfterMove DEF Abstract!vars
<1>4. ASSUME NEW t \in Threads, PostFull(t) PROVE Abstract!Next
  <2>1. Abstract!Become(t, "post", "error")
    BY <1>4, BecomeAfterMove, Statuses DEF PostFull
  <2> QED BY <1>4, <2>1 DEF PostFull, Abstract!Next, Abstract!PostError
<1>5. ASSUME NEW t \in Threads, PostIncrement(t) PROVE Abstract!Next
  <2>1. Abstract!Become(t, "post", "ok")
    BY <1>5, BecomeAfterMove, Statuses DEF PostIncrement
  <2>2. counter < MaxValue
    BY <1>5, CvSemaphoreAssumption DEF PostIncrement, TypeOK
  <2> QED BY <1>5, <2>1, <2>2 DEF PostIncrement, Abstract!Next, Abstract!Post
<1>6. ASSUME NEW t \in Threads, NotifyOne(t) PROVE UNCHANGED Abstract!vars
  <2>1. CASE Waiters = {}
    <3>1. GoTo(t, "notify", "ok")
      BY <1>6, <2>1 DEF NotifyOne, GoTo
    <3> QED BY <1>6, <3>1, StutterAfterMove, Statuses DEF NotifyOne, Abstract!vars
  <2>2. CASE Waiters # {}
    <3>1. PICK w \in Waiters : pc' = [pc EXCEPT ![t] = "ok", ![w] = "wait_lock"]
      BY <1>6, <2>2 DEF NotifyOne
    <3>2. \A u \in Threads : Status(pc'[u]) = Status(pc[u])
      BY <1>6, <3>1, Statuses DEF NotifyOne, Waiters, At, TypeOK
    <3> QED BY <1>6, <3>2 DEF NotifyOne, StatusOf, Abstract!vars
  <2> QED BY <2>1, <2>2
<1>7. ASSUME NEW t \in Threads, WaitTake(t) PROVE Abstract!Next
  <2>1. Abstract!Become(t, "wait", "ok")
    BY <1>7, BecomeAfterMove, Statuses DEF WaitTake
  <2>2. counter > 0
    BY <1>7 DEF WaitTake, TypeOK
  <2> QED BY <1>7, <2>1, <2>2 DEF WaitTake, Abstract!Next, Abstract!Wait
<1>8. ASSUME NEW t \in Threads, WaitBlock(t) PROVE UNCHANGED Abstract!vars
  BY <1>8, StutterAfterMove, Statuses DEF WaitBlock, Abstract!vars
<1>9. ASSUME NEW t \in Threads, TryTake(t) PROVE Abstract!Next
  <2>1. Abstract!Become(t, "trywait", "ok")
    BY <1>9, BecomeAfterMove, Statuses DEF TryTake
  <2>2. counter > 0
    BY <1>9 DEF TryTake, TypeOK
  <2> QED BY <1>9, <2>1, <2>2 DEF TryTake, Abstract!Next, Abstract!TryWait
<1>10. ASSUME NEW t \in Threads, TryFail(t) PROVE Abstract!Next
  <2>1. Abstract!Become(t, "trywait", "error")
    BY <1>10, BecomeAfterMove, Statuses DEF TryFail
  <2> QED BY <1>10, <2>1 DEF TryFail, Abstract!Next, Abstract!TryWaitError
<1>11. ASSUME NEW t \in Threads, Return(t) PROVE Abstract!Next
  <2>1. \E outcome \in {"ok", "error"} : Abstract!Become(t, outcome, "none")
    BY <1>11, BecomeAfterMove, Statuses DEF Return
  <2> QED BY <1>11, <2>1 DEF Return, Abstract!Next, Abstract!Return
<1> QED BY <1>1, <1>2, <1>3, <1>4, <1>5, <1>6, <1>7, <1>8, <1>9, <1>10, <1>11
        DEF Next, Run, Post, Wait, TryWait

(* A semaphore made of a mutex, a condition variable and a counter is a      *)
(* semaphore: each method of CvSemaphore.cpp takes effect in one step.       *)
THEOREM Refinement == Spec => ImplementsSemaphore
<1>1. Init => Abstract!Init
  BY Statuses DEF Init, Abstract!Init, StatusOf
<1>2. Spec => []TypeOK
  BY Invariance, PTL DEF IInv
<1> QED BY <1>1, <1>2, StepImplementsSemaphore, PTL
        DEF Spec, ImplementsSemaphore, Abstract!Spec
=============================================================================
