----------------------------- MODULE RingBuffer -----------------------------
(***************************************************************************)
(* 09_ringbuffer/RingBuffer.cpp: a vector, two indices that wrap around and *)
(* a count of the free space.  A call that is refused returns false and     *)
(* changes nothing, a stuttering step.  The loops over the values become    *)
(* one update of the window of slots they pass over.                        *)
(***************************************************************************)
EXTENDS Integers, Sequences

CONSTANTS Size,     \* count, the constructor's argument
          Values,   \* the values of type T; a write of nullptr writes Zero
          Zero,     \* T(0)
          Counts    \* the counts and offsets callers pass

ASSUME RingBufferAssumption == /\ Size \in Nat \ {0}
                               /\ Zero \in Values
                               /\ Counts \subseteq Nat

VARIABLES buf, read_idx, write_idx, free_space,
          out       \* the offset and the outputs of the last reading call

vars == <<buf, read_idx, write_idx, free_space, out>>

Slots == 0..(Size - 1)

Init == /\ buf = [i \in Slots |-> Zero]
        /\ read_idx = 0
        /\ write_idx = 0
        /\ free_space = Size
        /\ out = [from |-> 0, values |-> <<>>]

incIdx(index, stride) == (index + stride) % Size
freeSpace == free_space
busySpace == Size - free_space

(* The values in n slots from index on.                                     *)
Window(index, n) == [k \in 1..n |-> buf[incIdx(index, k - 1)]]

(* Seeded bugs: the index moves by one whatever the count; the values land   *)
(* one slot too far.                                                        *)
writeOneStep(count, inputs) ==
  /\ count <= free_space
  /\ buf' = [i \in Slots |->
               LET k == (i - write_idx) % Size
               IN  IF k < count THEN inputs[k + 1] ELSE buf[i]]
  /\ write_idx' = incIdx(write_idx, 1)
  /\ free_space' = free_space - count
  /\ UNCHANGED <<read_idx, out>>

writeTooFar(count, inputs) ==
  /\ count <= free_space
  /\ buf' = [i \in Slots |->
               LET k == (i - write_idx - 1) % Size
               IN  IF k < count THEN inputs[k + 1] ELSE buf[i]]
  /\ write_idx' = incIdx(write_idx, count)
  /\ free_space' = free_space - count
  /\ UNCHANGED <<read_idx, out>>

write(count, inputs) ==
  /\ count <= free_space
  /\ buf' = [i \in Slots |->
               LET k == (i - write_idx) % Size
               IN  IF k < count THEN inputs[k + 1] ELSE buf[i]]
  /\ write_idx' = incIdx(write_idx, count)
  /\ free_space' = free_space - count
  /\ UNCHANGED <<read_idx, out>>

pop(count) == /\ count <= busySpace
              /\ read_idx' = incIdx(read_idx, count)
              /\ free_space' = free_space + count
              /\ UNCHANGED <<buf, write_idx>>

read(count) == pop(count) /\ out' = [from |-> 0, values |-> Window(read_idx, count)]

(* read(count, nullptr) drops the values.                                   *)
skip(count) == pop(count) /\ UNCHANGED out

(* Seeded bug: the offset is tested but not added.                          *)
read_nopopNoOffset(offset, count) ==
  /\ offset <= busySpace - 1
  /\ count <= busySpace - offset
  /\ out' = [from |-> offset, values |-> Window(read_idx, count)]
  /\ UNCHANGED <<buf, read_idx, write_idx, free_space>>

read_nopop(offset, count) ==
  /\ offset <= busySpace - 1
  /\ count <= busySpace - offset
  /\ out' = [from |-> offset, values |-> Window(read_idx + offset, count)]
  /\ UNCHANGED <<buf, read_idx, write_idx, free_space>>

Inputs == UNION {[1..n -> Values] : n \in Counts}

Next == \/ \E inputs \in Inputs : write(Len(inputs), inputs)
        \/ \E count \in Counts : read(count) \/ skip(count)
        \/ \E offset, count \in Counts : read_nopop(offset, count)

Spec == Init /\ [][Next]_vars
-----------------------------------------------------------------------------
TypeOK == /\ buf \in [Slots -> Values]
          /\ read_idx \in Slots
          /\ write_idx \in Slots
          /\ free_space \in 0..Size
          /\ out \in [from : Nat, values : Seq(Values)]

(* The indices and the count never drift apart, round after round: the       *)
(* busy slots are exactly the ones from read_idx up to write_idx.  At equal  *)
(* indices only free_space tells a full buffer from an empty one.            *)
IndicesAgree == write_idx = incIdx(read_idx, busySpace)

(* The buffer is a bounded FIFO: what is read is what was written, in order, *)
(* across the wrap, and a peek at an offset sees what a read would give.     *)
Fifo == INSTANCE BoundedFifo
          WITH Capacity <- Size, queue <- Window(read_idx, busySpace)

ImplementsFifo == Fifo!Spec
=============================================================================
