----------------------------- MODULE EventQueue -----------------------------
(***************************************************************************)
(* 13_EventQ/ProducerConsumer.cpp: producers and consumers that share one   *)
(* ring buffer under one mutex, with a condition variable for each side.    *)
(* Put and Get wait for room, or for data, under the mutex, ignore what     *)
(* RingBuffer::write and read return, and notify one thread of the other    *)
(* side after they have unlocked.                                           *)
(***************************************************************************)
EXTENDS RingBuffer, FiniteSets

CONSTANTS Producers, Consumers,
          Batch,      \* the count every call of Put and Get is made with
          Calls,      \* bound: how many calls each thread makes
          NoThread

Threads == Producers \cup Consumers

ASSUME EventQueueAssumption ==
  /\ IsFiniteSet(Threads) /\ NoThread \notin Threads
  /\ Producers \cap Consumers = {}
  /\ Batch \in 1..Size /\ Batch \in Counts
  /\ Calls \in Nat

VARIABLES mutex,    \* the holder of *mutex_, or NoThread
          pc,       \* pc[t]: where t stands in Put or Get
          left      \* left[t]: the calls t has still to make

queueVars == <<vars, mutex, pc, left>>

PCs == {"idle", "lock", "check", "blocked", "transfer", "notify"}

QueueInit == /\ Init
             /\ mutex = NoThread
             /\ pc = [t \in Threads |-> "idle"]
             /\ left = [t \in Threads |-> Calls]

GoTo(t, before, after) == pc[t] = before /\ pc' = [pc EXCEPT ![t] = after]

Call(t) == /\ GoTo(t, "idle", "lock")
           /\ left[t] > 0
           /\ left' = [left EXCEPT ![t] = @ - 1]
           /\ UNCHANGED <<vars, mutex>>

Lock(t) == /\ GoTo(t, "lock", "check")
           /\ mutex = NoThread
           /\ mutex' = t
           /\ UNCHANGED <<vars, left>>

(* The predicates of the two waits.                                         *)
Ready(t) == Batch <= IF t \in Producers THEN freeSpace ELSE busySpace

(* Seeded bug: an awakened thread does not test its predicate again.        *)
ProceedUnchecked(t) == GoTo(t, "check", "transfer") /\ UNCHANGED <<vars, mutex, left>>

Proceed(t) == /\ GoTo(t, "check", "transfer")
              /\ Ready(t)
              /\ UNCHANGED <<vars, mutex, left>>

Block(t) == /\ GoTo(t, "check", "blocked")
            /\ ~Ready(t)
            /\ mutex' = NoThread
            /\ UNCHANGED <<vars, left>>

SpuriousWakeup(t) == GoTo(t, "blocked", "lock") /\ UNCHANGED <<vars, mutex, left>>

(* A write or a read that is refused goes unnoticed.                        *)
PutWrite(t) == /\ t \in Producers
               /\ \/ \E inputs \in [1..Batch -> Values] : write(Batch, inputs)
                  \/ Batch > freeSpace /\ UNCHANGED vars

GetRead(t) == /\ t \in Consumers
              /\ read(Batch) \/ (Batch > busySpace /\ UNCHANGED vars)

Transfer(t) == /\ GoTo(t, "transfer", "notify")
               /\ PutWrite(t) \/ GetRead(t)
               /\ mutex' = NoThread
               /\ UNCHANGED left

Blocked(side) == {t \in side : pc[t] = "blocked"}
(* Seeded bug: the condition variables are swapped.                         *)
OwnSide(t) == IF t \in Producers THEN Producers ELSE Consumers

OtherSide(t) == IF t \in Producers THEN Consumers ELSE Producers

NotifyOne(t) ==
  /\ pc[t] = "notify"
  /\ IF Blocked(OtherSide(t)) = {}
       THEN pc' = [pc EXCEPT ![t] = "idle"]
       ELSE \E w \in Blocked(OtherSide(t)) :
              pc' = [pc EXCEPT ![t] = "idle", ![w] = "lock"]
  /\ UNCHANGED <<vars, mutex, left>>

Run(t) == Call(t) \/ Lock(t) \/ Proceed(t) \/ Block(t) \/ Transfer(t) \/ NotifyOne(t)

Finished == \A t \in Threads : pc[t] = "idle" /\ left[t] = 0
Done == Finished /\ UNCHANGED queueVars

QueueNext == (\E t \in Threads : Run(t) \/ SpuriousWakeup(t)) \/ Done

(* Threads run, and one that wants the mutex gets it if it is free again    *)
(* and again: calls are finitely many, and only an endless series of        *)
(* spurious wakeups could keep it taken.  Nothing relies on those wakeups.  *)
QueueSpec == /\ QueueInit /\ [][QueueNext]_queueVars
             /\ \A t \in Threads : WF_queueVars(Run(t)) /\ SF_queueVars(Lock(t))
-----------------------------------------------------------------------------
QueueTypeOK == /\ TypeOK
               /\ mutex \in Threads \cup {NoThread}
               /\ pc \in [Threads -> PCs]
               /\ left \in [Threads -> 0..Calls]

At(side, labels) == Cardinality({t \in side : pc[t] \in labels})
(* The calls the threads of a side have made: t's are those left no more.    *)
Made(side) == {call \in side \X (1..Calls) : call[2] > left[call[1]]}
Called(side) == Cardinality(Made(side))
Transferred(side) == Called(side) - At(side, {"lock", "check", "blocked", "transfer"})

(* The results of write and read may be ignored (ProducerConsumer.cpp:25 and *)
(* 49): no transfer is ever refused, so the queue holds what the Puts that    *)
(* have transferred put in, less what the Gets took out.                     *)
NothingLost ==
  busySpace = Batch * (Transferred(Producers) - Transferred(Consumers))

(* One notification per call is enough and never goes to the wrong side:    *)
(* while a consumer is blocked every batch of values has a producer about to *)
(* notify or a consumer awake for it, and what is left is less than a batch; *)
(* and while a producer is blocked the same holds of the free slots.        *)
NobodyStranded ==
  /\ Blocked(Consumers) # {} =>
       busySpace < Batch * (1 + (At(Producers, {"notify"})
                                   + At(Consumers, {"lock", "check", "transfer"})))
  /\ Blocked(Producers) # {} =>
       freeSpace < Batch * (1 + (At(Consumers, {"notify"})
                                   + At(Producers, {"lock", "check", "transfer"})))

(* Shared by threads, the ring buffer is still the bounded FIFO it is when   *)
(* one thread uses it: ImplementsFifo of RingBuffer.                         *)

(* As many values are got as put, so every call returns.                     *)
Termination == <>Finished
=============================================================================
