---------------------------- MODULE BoundedFifo ----------------------------
(***************************************************************************)
(* What 09_ringbuffer promises: a queue of at most Capacity values, written *)
(* and read several at a time, all or none.                                 *)
(***************************************************************************)
EXTENDS Integers, Sequences

CONSTANTS Capacity, Values,
          Counts   \* how many values a call may ask for

VARIABLES queue,
          out      \* the offset of the last reading call and the values it gave

vars == <<queue, out>>

Inputs == UNION {[1..n -> Values] : n \in Counts}

Init == queue = <<>> /\ out = [from |-> 0, values |-> <<>>]

Write(inputs) == /\ Len(queue) + Len(inputs) <= Capacity
                 /\ queue' = queue \o inputs
                 /\ UNCHANGED out

Take(n) == /\ n <= Len(queue)
           /\ queue' = SubSeq(queue, n + 1, Len(queue))

Read(n)    == Take(n) /\ out' = [from |-> 0, values |-> SubSeq(queue, 1, n)]
Discard(n) == Take(n) /\ UNCHANGED out

Peek(offset, n) == /\ offset < Len(queue)
                   /\ offset + n <= Len(queue)
                   /\ out' = [from |-> offset, values |-> SubSeq(queue, offset + 1, offset + n)]
                   /\ UNCHANGED queue

Next == \/ \E inputs \in Inputs : Write(inputs)
        \/ \E n \in Counts : Read(n) \/ Discard(n)
        \/ \E offset, n \in Counts : Peek(offset, n)

Spec == Init /\ [][Next]_vars
=============================================================================
