--------------------------- MODULE EventQMainProofs ---------------------------
(***************************************************************************)
(* The event queue, from the ring buffer up.  For a ring buffer of any      *)
(* size, values and counts: its indices and its count of free space agree   *)
(* for ever, and it is a bounded FIFO.  For any numbers of producers and    *)
(* consumers that share it: it still is, nothing is lost and nobody is      *)
(* stranded.  Under the menu of main: no request is served twice.           *)
(***************************************************************************)
EXTENDS EventQMain, FiniteSetTheorems, SequenceTheorems, TLAPS

USE RingBufferAssumption

(* Stepping at most once round the buffer wraps at most once.               *)
LEMMA Wrap ==
  ASSUME NEW index \in Slots, NEW stride \in 0..(Size - 1)
  PROVE  /\ incIdx(index, stride) \in Slots
         /\ incIdx(index, stride) = IF index + stride < Size
                                      THEN index + stride
                                      ELSE index + stride - Size
<1>1. ASSUME NEW x \in 0..(Size - 1) PROVE x % Size = x
  BY SMT
<1>2. ASSUME NEW x \in Size..(2 * Size - 1) PROVE x % Size = x - Size
  BY SMT
<1> QED BY <1>1, <1>2 DEF incIdx, Slots

LEMMA WrapRound ==
  ASSUME NEW index \in Slots
  PROVE  incIdx(index, Size) = index
<1>1. ASSUME NEW x \in Size..(2 * Size - 1) PROVE x % Size = x - Size
  BY SMT
<1> QED BY <1>1 DEF incIdx, Slots

(* Two steps are one step of their sum, all the way round.                  *)
LEMMA StepTwice ==
  ASSUME NEW index \in Slots, NEW a \in 0..Size, NEW b \in 0..Size, a + b <= Size
  PROVE  /\ incIdx(incIdx(index, a), b) = incIdx(index, a + b)
         /\ incIdx(index + a, b) = incIdx(index, a + b)
<1>1. incIdx(index + a, b) = incIdx(index, a + b)
  BY DEF incIdx, Slots
<1>2. CASE a = Size
  <2>1. b = 0 /\ a + b = Size
    BY <1>2
  <2>2. incIdx(index, a) = index /\ incIdx(index, a + b) = index
    BY <1>2, <2>1, WrapRound
  <2>3. incIdx(index, b) = index
    BY <2>1, Wrap DEF Slots
  <2> QED BY <1>1, <2>2, <2>3
<1>3. CASE b = Size
  <2>1. a = 0 /\ a + b = Size
    BY <1>3
  <2>2. incIdx(index, a) = index
    BY <2>1, Wrap DEF Slots
  <2> QED BY <1>1, <1>3, <2>1, <2>2
<1>4. CASE a < Size /\ b < Size
  <2>1. PICK m \in Slots :
          m = incIdx(index, a) /\ m = IF index + a < Size THEN index + a
                                                        ELSE index + a - Size
    BY <1>4, Wrap
  <2>2. incIdx(m, b) = IF m + b < Size THEN m + b ELSE m + b - Size
    BY <1>4, <2>1, Wrap
  <2>3. CASE a + b < Size
    <3>1. PICK c \in 0..(Size - 1) : c = a + b
      BY <2>3
    <3>2. incIdx(index, c) = IF index + c < Size THEN index + c ELSE index + c - Size
      BY Wrap
    <3> QED BY <1>1, <2>1, <2>2, <3>1, <3>2 DEF Slots
  <2>4. CASE a + b = Size
    <3>1. incIdx(index, a + b) = index
      BY <2>4, WrapRound
    <3> QED BY <1>1, <2>1, <2>2, <2>4, <3>1 DEF Slots
  <2> QED BY <2>3, <2>4
<1> QED BY <1>2, <1>3, <1>4

(* How far slot index + a lies ahead of slot index + b, going round.        *)
LEMMA Distance ==
  ASSUME NEW index \in Slots, NEW a \in 0..(Size - 1), NEW b \in 0..Size
  PROVE  (incIdx(index, a) - incIdx(index, b)) % Size =
            IF a >= b THEN a - b ELSE a - b + Size
<1>1. ASSUME NEW x \in 0..(Size - 1) PROVE x % Size = x
  BY SMT
<1>2. ASSUME NEW x \in (-Size)..(-1) PROVE x % Size = x + Size
  BY SMT
<1>3. CASE b = Size
  <2>1. incIdx(index, b) = index
    BY <1>3, WrapRound
  <2> QED BY <1>1, <1>2, <1>3, <2>1, Wrap DEF Slots
<1>4. CASE b < Size
  <2>1. /\ incIdx(index, a) = IF index + a < Size THEN index + a ELSE index + a - Size
        /\ incIdx(index, b) = IF index + b < Size THEN index + b ELSE index + b - Size
    BY <1>4, Wrap
  <2> QED BY <1>1, <1>2, <1>4, <2>1 DEF Slots
<1> QED BY <1>3, <1>4

(* A window of the buffer holds values.                                     *)
LEMMA WindowType ==
  ASSUME TypeOK, NEW index \in Nat, NEW n \in Nat
  PROVE  Window(index, n) \in Seq(Values) /\ Len(Window(index, n)) = n
<1>1. \A k \in 1..n : incIdx(index, k - 1) \in Slots
  BY DEF incIdx, Slots
<1>2. Window(index, n) \in [1..n -> Values]
  BY <1>1 DEF Window, TypeOK
<1> QED BY <1>2 DEF Window
-----------------------------------------------------------------------------
IInv == TypeOK /\ IndicesAgree

LEMMA TypeInvariant == IInv /\ [Next]_vars => TypeOK'
<1> SUFFICES ASSUME IInv, [Next]_vars PROVE TypeOK'
  OBVIOUS
<1> USE DEF IInv
<1>0. \A index \in Slots, count \in Nat : incIdx(index, count) \in Slots
  BY DEF incIdx, Slots
<1>1. CASE UNCHANGED vars
  BY <1>1 DEF vars, TypeOK
<1>2. ASSUME NEW inputs \in Inputs, write(Len(inputs), inputs) PROVE TypeOK'
  <2>1. PICK n \in Counts : inputs \in [1..n -> Values]
    BY <1>2 DEF Inputs
  <2>2. n \in Nat /\ Len(inputs) = n
    BY <2>1
  <2>3. \A i \in Slots : (i - write_idx) % Size \in Nat
    BY DEF Slots, TypeOK
  <2>4. buf' \in [Slots -> Values]
    BY <1>2, <2>1, <2>2, <2>3 DEF write, TypeOK
  <2>5. write_idx' \in Slots
    BY <1>0, <1>2, <2>2 DEF write, TypeOK
  <2>6. free_space' \in 0..Size
    BY <1>2, <2>2 DEF write, TypeOK
  <2> QED BY <1>2, <2>4, <2>5, <2>6 DEF write, TypeOK
<1>3. ASSUME NEW count \in Counts, pop(count),
             out' \in [from : Nat, values : Seq(Values)]
      PROVE  TypeOK'
  <2>1. read_idx' \in Slots
    BY <1>0, <1>3 DEF pop, TypeOK
  <2> QED BY <1>3, <2>1 DEF pop, busySpace, TypeOK
<1>4. ASSUME NEW count \in Counts, read(count) PROVE TypeOK'
  <2>1. Window(read_idx, count) \in Seq(Values)
    <3>1. TypeOK /\ read_idx \in Nat /\ count \in Nat
      BY DEF TypeOK, Slots
    <3> HIDE DEF IInv
    <3> QED BY <3>1, WindowType
  <2>2. out' \in [from : Nat, values : Seq(Values)]
    BY <1>4, <2>1 DEF read
  <2> QED BY <1>3, <1>4, <2>2 DEF read
<1>5. ASSUME NEW count \in Counts, skip(count) PROVE TypeOK'
  BY <1>3, <1>5 DEF skip, TypeOK
<1>6. ASSUME NEW offset \in Counts, NEW count \in Counts, read_nopop(offset, count)
      PROVE  TypeOK'
  <2>1. out' \in [from : Nat, values : Seq(Values)]
    <3>1. read_idx + offset \in Nat
      BY DEF TypeOK, Slots
    <3>2. Window(read_idx + offset, count) \in Seq(Values)
      BY <3>1, WindowType
    <3> QED BY <1>6, <3>2 DEF read_nopop
  <2> QED BY <1>6, <2>1 DEF read_nopop, TypeOK
<1> QED BY <1>1, <1>2, <1>4, <1>5, <1>6 DEF Next

LEMMA IndicesInvariant == IInv /\ [Next]_vars => IndicesAgree'
<1> SUFFICES ASSUME IInv, [Next]_vars PROVE IndicesAgree'
  OBVIOUS
<1>0. /\ read_idx \in Slots /\ free_space \in 0..Size /\ busySpace \in 0..Size
      /\ write_idx = incIdx(read_idx, busySpace)
  BY DEF IInv, TypeOK, IndicesAgree, busySpace
<1>1. CASE UNCHANGED vars
  BY <1>0, <1>1 DEF vars, IndicesAgree, busySpace, incIdx
<1>2. ASSUME NEW inputs \in Inputs, write(Len(inputs), inputs) PROVE IndicesAgree'
  <2>1. Len(inputs) \in 0..free_space
    BY <1>2 DEF Inputs, write
  <2>2. busySpace' = busySpace + Len(inputs) /\ read_idx' = read_idx
    BY <1>0, <1>2, <2>1 DEF write, busySpace
  <2>3. write_idx' = incIdx(incIdx(read_idx, busySpace), Len(inputs))
    BY <1>0, <1>2 DEF write
  <2>4. write_idx' = incIdx(read_idx, busySpace + Len(inputs))
    BY <1>0, <2>1, <2>3, StepTwice DEF busySpace
  <2> QED BY <2>2, <2>4 DEF IndicesAgree, incIdx
<1>3. ASSUME NEW count \in Counts, pop(count) PROVE IndicesAgree'
  <2>1. count \in 0..busySpace
    BY <1>3 DEF pop
  <2>2. busySpace' = busySpace - count /\ read_idx' = incIdx(read_idx, count)
    BY <1>0, <1>3, <2>1 DEF pop, busySpace
  <2>3. incIdx(incIdx(read_idx, count), busySpace - count) = incIdx(read_idx, busySpace)
    BY <1>0, <2>1, StepTwice
  <2> QED BY <1>0, <1>3, <2>2, <2>3 DEF IndicesAgree, pop, incIdx
<1>4. ASSUME NEW offset \in Counts, NEW count \in Counts, read_nopop(offset, count)
      PROVE  IndicesAgree'
  BY <1>0, <1>4 DEF read_nopop, IndicesAgree, busySpace, incIdx
<1> QED BY <1>1, <1>2, <1>3, <1>4 DEF Next, read, skip

(* The types and the agreement of the indices hold in every reachable state. *)
THEOREM Invariance == Spec => []IInv
<1>1. Init => IInv
  <2>1. ASSUME Init PROVE IndicesAgree
    BY <2>1, Wrap DEF Init, IndicesAgree, busySpace, Slots
  <2> QED BY <2>1 DEF Init, IInv, TypeOK, Slots
<1>2. IInv /\ [Next]_vars => IInv'
  BY TypeInvariant, IndicesInvariant DEF IInv
<1> QED BY <1>1, <1>2, PTL DEF Spec

(* The busy slots are for ever the ones from read_idx up to write_idx.       *)
THEOREM IndicesAlwaysAgree == Spec => []IndicesAgree
BY Invariance, PTL DEF IInv
-----------------------------------------------------------------------------
Content == Window(read_idx, busySpace)    \* the queue of the refinement

LEMMA ContentType ==
  ASSUME IInv
  PROVE  /\ Content \in Seq(Values) /\ Len(Content) = busySpace
         /\ busySpace \in 0..Size
         /\ \A k \in 1..busySpace : Content[k] = buf[incIdx(read_idx, k - 1)]
<1>1. busySpace \in 0..Size /\ read_idx \in Nat
  BY DEF IInv, TypeOK, busySpace, Slots
<1>2. Content \in Seq(Values) /\ Len(Content) = busySpace
  BY <1>1, WindowType DEF Content, IInv
<1> QED BY <1>1, <1>2 DEF Content, Window

(* A write appends: it lands in the slots behind the busy ones and touches   *)
(* none of them.                                                            *)
LEMMA WriteAppends ==
  ASSUME IInv, IInv', NEW inputs \in Inputs, write(Len(inputs), inputs)
  PROVE  Fifo!Write(inputs)
<1>0. PICK n \in Counts : inputs \in [1..n -> Values]
  BY DEF Inputs
<1>1. n \in Nat /\ Len(inputs) = n /\ inputs \in Seq(Values)
  BY <1>0
<1>2. /\ n <= free_space /\ free_space' = free_space - n
      /\ read_idx' = read_idx /\ out' = out
      /\ free_space \in 0..Size /\ read_idx \in Slots
      /\ write_idx = incIdx(read_idx, busySpace)
      /\ busySpace \in 0..Size
      /\ busySpace' = busySpace + n
  BY <1>1 DEF write, IInv, TypeOK, IndicesAgree, busySpace
<1>3. ASSUME NEW k \in 1..(busySpace + n)
      PROVE  buf'[incIdx(read_idx, k - 1)] =
               IF k <= busySpace THEN Content[k] ELSE inputs[k - busySpace]
  <2>1. k - 1 \in 0..(Size - 1)
    BY <1>1, <1>2 DEF busySpace
  <2>2. incIdx(read_idx, k - 1) \in Slots
    BY <1>2, <2>1, Wrap
  <2>3. (incIdx(read_idx, k - 1) - write_idx) % Size =
          IF k - 1 >= busySpace THEN k - 1 - busySpace ELSE k - 1 - busySpace + Size
    BY <1>2, <2>1, Distance
  <2>4. buf'[incIdx(read_idx, k - 1)] =
          LET d == (incIdx(read_idx, k - 1) - write_idx) % Size
          IN  IF d < n THEN inputs[d + 1] ELSE buf[incIdx(read_idx, k - 1)]
    BY <1>1, <2>2 DEF write
  <2>5. CASE k <= busySpace
    <3>1. Content[k] = buf[incIdx(read_idx, k - 1)]
      BY <2>5, ContentType
    <3>2. ~(k - 1 - busySpace + Size < n) /\ ~(k - 1 >= busySpace)
      BY <1>1, <1>2, <2>5 DEF busySpace
    <3> QED BY <2>3, <2>4, <2>5, <3>1, <3>2
  <2>6. CASE k > busySpace
    <3>1. k - 1 >= busySpace /\ k - 1 - busySpace < n
          /\ k - 1 - busySpace + 1 = k - busySpace /\ ~(k <= busySpace)
      BY <1>1, <1>2, <2>6
    <3> QED BY <2>3, <2>4, <3>1
  <2> QED BY <1>2, <2>5, <2>6
<1>4. Content' = [k \in 1..(busySpace + n) |-> buf'[incIdx(read_idx, k - 1)]]
  BY <1>2 DEF Content, Window, incIdx
<1>5. /\ Content \in Seq(Values) /\ Len(Content) = busySpace
      /\ Content' \in Seq(Values) /\ Len(Content') = busySpace + n
  <2>1. \A k \in 1..(busySpace + n) : incIdx(read_idx, k - 1) \in Slots
    BY <1>2 DEF incIdx, Slots
  <2>2. Content' \in [1..(busySpace + n) -> Values]
    BY <1>4, <2>1 DEF IInv, TypeOK
  <2>3. busySpace + n \in Nat
    BY <1>1, <1>2
  <2>4. Content' \in Seq(Values) /\ Len(Content') = busySpace + n
    BY <2>2, <2>3
  <2> QED BY <2>4, ContentType
<1>6. Content' = Content \o inputs
  <2>1. /\ Content \o inputs \in Seq(Values)
        /\ Len(Content \o inputs) = busySpace + n
        /\ \A k \in 1..(busySpace + n) : (Content \o inputs)[k] =
              IF k <= busySpace THEN Content[k] ELSE inputs[k - busySpace]
    BY <1>1, <1>5, ConcatProperties
  <2>2. \A k \in 1..(busySpace + n) : Content'[k] = (Content \o inputs)[k]
    BY <1>3, <1>4, <2>1
  <2> QED BY <1>5, <2>1, <2>2, SeqEqual
<1>7. Len(Content) + Len(inputs) <= Size
  BY <1>1, <1>2, ContentType DEF busySpace
<1> QED BY <1>2, <1>6, <1>7 DEF Fifo!Write, Content

(* A window that starts inside the busy slots is a part of the queue.        *)
LEMMA WindowIsSubSeq ==
  ASSUME IInv, NEW offset \in Nat, NEW n \in Nat, offset + n <= busySpace
  PROVE  Window(read_idx + offset, n) = SubSeq(Content, offset + 1, offset + n)
<1>0. busySpace \in 0..Size /\ read_idx \in Slots
  BY DEF IInv, TypeOK, busySpace
<1>1. \A k \in 1..n : buf[incIdx(read_idx + offset, k - 1)] = Content[offset + k]
  <2> TAKE k \in 1..n
  <2>1. offset \in 0..Size /\ k - 1 \in 0..Size /\ offset + (k - 1) <= Size
    BY <1>0
  <2>2. incIdx(read_idx + offset, k - 1) = incIdx(read_idx, offset + (k - 1))
    BY <1>0, <2>1, StepTwice
  <2>3. Content[offset + k] = buf[incIdx(read_idx, (offset + k) - 1)]
    BY <1>0, ContentType
  <2>4. (offset + k) - 1 = offset + (k - 1)
    OBVIOUS
  <2> QED BY <2>2, <2>3, <2>4
<1>2. SubSeq(Content, offset + 1, offset + n) = [k \in 1..n |-> Content[offset + k]]
  <2>1. Content \in Seq(Values) /\ Len(Content) = busySpace
    BY ContentType
  <2>2. SubSeq(Content, offset + 1, offset + n) =
          [k \in 1..((offset + n) - (offset + 1) + 1) |-> Content[k + (offset + 1) - 1]]
    BY <2>1, <1>0
  <2> QED BY <2>2
<1>3. Window(read_idx + offset, n) =
        [k \in 1..n |-> buf[incIdx(read_idx + offset, k - 1)]]
  BY DEF Window
<1> QED BY <1>1, <1>2, <1>3

(* A pop drops the values it passes over and leaves the rest in order.       *)
LEMMA PopTakes ==
  ASSUME IInv, NEW count \in Counts, pop(count)
  PROVE  Fifo!Take(count)
<1>0. /\ count \in Nat /\ count <= busySpace /\ busySpace \in 0..Size
      /\ read_idx \in Slots /\ read_idx' = incIdx(read_idx, count) /\ buf' = buf
      /\ busySpace' = busySpace - count
  BY DEF IInv, TypeOK, pop, busySpace
<1>1. Content' = Window(read_idx + count, busySpace - count)
  <2>1. \A k \in 1..(busySpace - count) :
          incIdx(incIdx(read_idx, count), k - 1) = incIdx(read_idx + count, k - 1)
    <3> TAKE k \in 1..(busySpace - count)
    <3>1. count \in 0..Size /\ k - 1 \in 0..Size /\ count + (k - 1) <= Size
      BY <1>0
    <3> QED BY <1>0, <3>1, StepTwice
  <2>2. Content' = [k \in 1..(busySpace - count) |->
                      buf[incIdx(incIdx(read_idx, count), k - 1)]]
    BY <1>0 DEF Content, Window, incIdx
  <2> QED BY <2>1, <2>2 DEF Window
<1>2. Content' = SubSeq(Content, count + 1, count + (busySpace - count))
  BY <1>0, <1>1, WindowIsSubSeq
<1>3. count + (busySpace - count) = Len(Content) /\ count <= Len(Content)
  BY <1>0, ContentType
<1> QED BY <1>2, <1>3 DEF Fifo!Take, Content

(* A ring buffer is a bounded FIFO, whatever its size.                       *)
THEOREM Refinement == Spec => ImplementsFifo
<1>1. Init => Fifo!Init
  <2>1. ASSUME Init PROVE Window(read_idx, busySpace) = <<>>
    BY <2>1 DEF Init, Window, busySpace
  <2> QED BY <2>1 DEF Init, Fifo!Init
<1>2. IInv /\ IInv' /\ [Next]_vars => [Fifo!Next]_(Fifo!vars)
  <2> SUFFICES ASSUME IInv, IInv', [Next]_vars PROVE [Fifo!Next]_(Fifo!vars)
    OBVIOUS
  <2>1. CASE UNCHANGED vars
    BY <2>1 DEF vars, Fifo!vars, Window, incIdx, busySpace
  <2>2. ASSUME NEW inputs \in Inputs, write(Len(inputs), inputs) PROVE Fifo!Next
    BY <2>2, WriteAppends DEF Fifo!Next, Fifo!Inputs, Inputs
  <2>3. ASSUME NEW count \in Counts, read(count) PROVE Fifo!Next
    <3>1. Fifo!Take(count)
      BY <2>3, PopTakes DEF read
    <3>0. pop(count)
      BY <2>3 DEF read
    <3>2. read_idx + 0 = read_idx /\ count \in Nat /\ 0 + count <= busySpace
          /\ 0 + 1 = 1 /\ 0 + count = count
      BY <3>0 DEF pop, IInv, TypeOK, Slots
    <3>3. Window(read_idx, count) = SubSeq(Content, 1, count)
      BY <3>2, WindowIsSubSeq
    <3> QED BY <2>3, <3>1, <3>3 DEF read, Fifo!Read, Fifo!Next, Content
  <2>4. ASSUME NEW count \in Counts, skip(count) PROVE Fifo!Next
    BY <2>4, PopTakes DEF skip, Fifo!Discard, Fifo!Next
  <2>5. ASSUME NEW offset \in Counts, NEW count \in Counts, read_nopop(offset, count)
        PROVE  Fifo!Next
    <3>1. /\ offset \in Nat /\ count \in Nat /\ busySpace \in Int
          /\ offset <= busySpace - 1 /\ count <= busySpace - offset
      BY <2>5 DEF read_nopop, IInv, TypeOK, busySpace
    <3>2. offset < busySpace /\ offset + count <= busySpace
      BY <3>1
    <3>3. out' = [from |-> offset, values |-> SubSeq(Content, offset + 1, offset + count)]
      BY <2>5, <3>1, <3>2, WindowIsSubSeq DEF read_nopop
    <3>4. Window(read_idx, busySpace)' = Window(read_idx, busySpace)
      BY <2>5 DEF read_nopop, Window, incIdx, busySpace
    <3>5. Len(Content) = busySpace
      BY ContentType
    <3> QED BY <3>2, <3>3, <3>4, <3>5 DEF Fifo!Peek, Fifo!Next, Content
  <2> QED BY <2>1, <2>2, <2>3, <2>4, <2>5 DEF Next
<1> QED BY <1>1, <1>2, Invariance, PTL DEF Spec, ImplementsFifo, Fifo!Spec
-----------------------------------------------------------------------------
USE EventQueueAssumption

(* The two sides are each other's mirror: a Put takes from the free slots    *)
(* what it adds to the values, a Get the other way round.                    *)
Sides == {Producers, Consumers}
Other(side) == IF side = Producers THEN Consumers ELSE Producers
Stock(side) == IF side = Producers THEN freeSpace ELSE busySpace

(* A thread is on one side or on the other.                                 *)
LEMMA SidesAreFinite ==
  ASSUME NEW side \in Sides
  PROVE  /\ IsFiniteSet(side) /\ side \in SUBSET Threads
         /\ Other(side) \in Sides /\ \A t \in Threads : t \in side <=> t \notin Other(side)
<1>1. side \in SUBSET Threads
  BY DEF Sides, Threads
<1>2. IsFiniteSet(side)
  BY <1>1, FS_Subset
<1>3. CASE side = Producers
  BY <1>1, <1>2, <1>3 DEF Sides, Other, Threads
<1>4. CASE side # Producers
  BY <1>1, <1>2, <1>4 DEF Sides, Other, Threads
<1> QED BY <1>3, <1>4

LEMMA OneToCallsIsFinite == IsFiniteSet(1..Calls)
BY FS_Interval

(* Where one thread of a side moves, it joins a count, leaves it or neither. *)
LEMMA AtAfterMove ==
  ASSUME NEW side \in Sides, NEW labels, NEW t \in side,
         \A u \in side \ {t} : pc'[u] = pc[u]
  PROVE  /\ At(side, labels) \in Nat /\ At(side, labels)' \in Nat
         /\ At(side, labels)' = At(side, labels) + (IF pc'[t] \in labels THEN 1 ELSE 0)
                                                 - (IF pc[t] \in labels THEN 1 ELSE 0)
<1> DEFINE before == {u \in side : pc[u] \in labels}
           now == {u \in side : pc'[u] \in labels}
<1>0. IsFiniteSet(side) /\ before \in SUBSET side /\ now \in SUBSET side
  BY SidesAreFinite
<1> HIDE DEF before, now
<1>1. IsFiniteSet(before)
  BY <1>0, FS_Subset
<1>2. Cardinality(before) \in Nat
  BY <1>1, FS_CardinalityType
<1>3. Cardinality(before \cup {t}) = IF t \in before THEN Cardinality(before)
                                                     ELSE Cardinality(before) + 1
  BY <1>1, FS_AddElement
<1>4. Cardinality(before \ {t}) = IF t \in before THEN Cardinality(before) - 1
                                                  ELSE Cardinality(before)
  BY <1>1, FS_RemoveElement
<1>5. t \in before <=> pc[t] \in labels
  BY DEF before
<1>6. now = IF pc'[t] \in labels THEN before \cup {t} ELSE before \ {t}
  BY DEF before, now
<1>7. At(side, labels) = Cardinality(before) /\ At(side, labels)' = Cardinality(now)
  BY DEF At, before, now
<1>8. IsFiniteSet(now)
  BY <1>0, FS_Subset
<1>9. Cardinality(now) \in Nat
  BY <1>8, FS_CardinalityType
<1>10. CASE pc'[t] \in labels
  BY <1>2, <1>3, <1>5, <1>6, <1>7, <1>9, <1>10
<1>11. CASE pc'[t] \notin labels
  BY <1>2, <1>4, <1>5, <1>6, <1>7, <1>9, <1>11
<1> QED BY <1>10, <1>11
-----------------------------------------------------------------------------
InCall(side)    == At(side, {"lock", "check", "blocked", "transfer"})
Awake(side)     == At(side, {"lock", "check", "transfer"})
Notifying(side) == At(side, {"notify"})

(* What it does to the counts NothingLost and NobodyStranded are about.      *)
LEMMA CountsAfterMove ==
  ASSUME NEW side \in Sides, NEW t \in side, \A u \in side \ {t} : pc'[u] = pc[u]
  PROVE  /\ InCall(side) \in Nat /\ Awake(side) \in Nat /\ Notifying(side) \in Nat
         /\ Awake(side)' \in Nat /\ Notifying(side)' \in Nat
         /\ InCall(side)' = InCall(side)
              + (IF pc'[t] \in {"lock", "check", "blocked", "transfer"} THEN 1 ELSE 0)
              - (IF pc[t] \in {"lock", "check", "blocked", "transfer"} THEN 1 ELSE 0)
         /\ Awake(side)' = Awake(side)
              + (IF pc'[t] \in {"lock", "check", "transfer"} THEN 1 ELSE 0)
              - (IF pc[t] \in {"lock", "check", "transfer"} THEN 1 ELSE 0)
         /\ Notifying(side)' = Notifying(side) + (IF pc'[t] = "notify" THEN 1 ELSE 0)
                                               - (IF pc[t] = "notify" THEN 1 ELSE 0)
         /\ Blocked(side)' = IF pc'[t] = "blocked" THEN Blocked(side) \cup {t}
                                                   ELSE Blocked(side) \ {t}
<1>1. \A labels :
        /\ At(side, labels) \in Nat /\ At(side, labels)' \in Nat
        /\ At(side, labels)' = At(side, labels) + (IF pc'[t] \in labels THEN 1 ELSE 0)
                                                - (IF pc[t] \in labels THEN 1 ELSE 0)
  BY AtAfterMove
<1>2. /\ Notifying(side) \in Nat /\ Notifying(side)' \in Nat
      /\ Notifying(side)' = Notifying(side) + (IF pc'[t] = "notify" THEN 1 ELSE 0)
                                            - (IF pc[t] = "notify" THEN 1 ELSE 0)
  <2>1. PICK labels : labels = {"notify"}
    OBVIOUS
  <2>2. /\ pc'[t] \in labels <=> pc'[t] = "notify"
        /\ pc[t] \in labels <=> pc[t] = "notify"
    BY <2>1
  <2>3. Notifying(side) = At(side, labels) /\ Notifying(side)' = At(side, labels)'
    BY <2>1 DEF Notifying
  <2> QED BY <1>1, <2>2, <2>3
<1>3. Blocked(side)' = IF pc'[t] = "blocked" THEN Blocked(side) \cup {t}
                                             ELSE Blocked(side) \ {t}
  BY DEF Blocked
<1> QED BY <1>1, <1>2, <1>3 DEF InCall, Awake

(* A side none of whose threads moves keeps its counts.                      *)
LEMMA CountsKept ==
  ASSUME NEW side \in Sides, \A u \in side : pc'[u] = pc[u]
  PROVE  /\ InCall(side) \in Nat /\ Awake(side) \in Nat /\ Notifying(side) \in Nat
         /\ Awake(side)' \in Nat
         /\ InCall(side)' = InCall(side) /\ Awake(side)' = Awake(side)
         /\ Notifying(side)' = Notifying(side) /\ Blocked(side)' = Blocked(side)
<1>1. ASSUME NEW labels
      PROVE  At(side, labels) \in Nat /\ At(side, labels)' = At(side, labels)
  <2>1. {u \in side : pc'[u] \in labels} = {u \in side : pc[u] \in labels}
    OBVIOUS
  <2>2. IsFiniteSet({u \in side : pc[u] \in labels})
    BY SidesAreFinite, FS_Subset
  <2> QED BY <2>1, <2>2, FS_CardinalityType DEF At
<1>2. Blocked(side)' = Blocked(side)
  BY DEF Blocked
<1> QED BY <1>1, <1>2 DEF InCall, Awake, Notifying

LEMMA MadeIsFinite ==
  ASSUME NEW side \in Sides
  PROVE  IsFiniteSet(Made(side)) /\ Called(side) \in Nat
<1>1. IsFiniteSet(side \X (1..Calls))
  BY SidesAreFinite, OneToCallsIsFinite, FS_Product
<1>2. IsFiniteSet(Made(side))
  BY <1>1, FS_Subset DEF Made
<1> QED BY <1>2, FS_CardinalityType DEF Called

(* A call adds one to the calls its side has made.                          *)
LEMMA CallIsCounted ==
  ASSUME QueueTypeOK, NEW side \in Sides, NEW t \in side, Call(t)
  PROVE  Called(side) \in Nat /\ Called(side)' = Called(side) + 1
<1>1. /\ side \in SUBSET Threads /\ left \in [Threads -> 0..Calls] /\ left[t] > 0
      /\ left' = [left EXCEPT ![t] = @ - 1]
  BY SidesAreFinite DEF Call, QueueTypeOK
<1>5. <<t, left[t]>> \in side \X (1..Calls) /\ <<t, left[t]>> \notin Made(side)
  BY <1>1 DEF Made
<1>6. ASSUME NEW u \in side, NEW n \in 1..Calls
      PROVE  n > left'[u] <=> n > left[u] \/ (u = t /\ n = left[t])
  BY <1>1
<1>7. Made(side)' = Made(side) \cup {<<t, left[t]>>}
  BY <1>5, <1>6 DEF Made
<1> QED BY <1>5, <1>7, MadeIsFinite, FS_AddElement DEF Called

LEMMA CallsKept ==
  ASSUME NEW side \in Sides, \A u \in side : left'[u] = left[u]
  PROVE  Called(side) \in Nat /\ Called(side)' = Called(side)
<1>1. Made(side)' = Made(side)
  BY DEF Made
<1> QED BY <1>1, MadeIsFinite DEF Called
-----------------------------------------------------------------------------
(* The mutex is held from the test of the predicate to the end of the        *)
(* transfer, so that a thread transfers what it has found.                  *)
HeldWhileUsed == \A t \in Threads :
                   /\ pc[t] \in {"check", "transfer"} => mutex = t
                   /\ pc[t] = "transfer" => Ready(t)

QInv == /\ QueueTypeOK /\ IndicesAgree
        /\ HeldWhileUsed /\ NothingLost /\ NobodyStranded

(* Threads use the ring buffer through write and read alone.                *)
LEMMA QueueStepIsBufferStep == QueueTypeOK /\ [QueueNext]_queueVars => [Next]_vars
<1> SUFFICES ASSUME QueueTypeOK, QueueNext PROVE Next \/ UNCHANGED vars
  BY DEF queueVars, vars
<1>1. ASSUME NEW t \in Threads, Call(t) \/ Lock(t) \/ Proceed(t) \/ Block(t) \/ NotifyOne(t)
                                  \/ SpuriousWakeup(t)
      PROVE  UNCHANGED vars
  BY <1>1 DEF Call, Lock, Proceed, Block, NotifyOne, SpuriousWakeup
<1>2. ASSUME NEW t \in Threads, Transfer(t) PROVE Next \/ UNCHANGED vars
  <2>1. ASSUME NEW inputs \in [1..Batch -> Values], write(Batch, inputs) PROVE Next
    <3>1. inputs \in Inputs /\ Len(inputs) = Batch
      BY DEF Inputs
    <3> QED BY <2>1, <3>1 DEF Next
  <2>2. ASSUME read(Batch) PROVE Next
    BY <2>2 DEF Next
  <2> QED BY <1>2, <2>1, <2>2 DEF Transfer, PutWrite, GetRead
<1>3. ASSUME Done PROVE UNCHANGED vars
  BY <1>3 DEF Done, queueVars, vars
<1> QED BY <1>1, <1>2, <1>3 DEF QueueNext, Run

(* The types, and the indices under the threads' calls.                     *)
LEMMA QueueTypeInvariant == QInv /\ [QueueNext]_queueVars => QueueTypeOK' /\ IndicesAgree'
<1> SUFFICES ASSUME QInv, [QueueNext]_queueVars PROVE QueueTypeOK' /\ IndicesAgree'
  OBVIOUS
<1>1. TypeOK' /\ IndicesAgree'
  BY QueueStepIsBufferStep, TypeInvariant, IndicesInvariant DEF QInv, QueueTypeOK, IInv
<1> DEFINE Rest == /\ mutex \in Threads \cup {NoThread}
                   /\ pc \in [Threads -> PCs]
                   /\ left \in [Threads -> 0..Calls]
<1>2. Rest
  BY DEF QInv, QueueTypeOK
<1> USE DEF PCs, GoTo
<1>3. ASSUME NEW t \in Threads, Call(t) PROVE Rest'
  BY <1>2, <1>3 DEF Call
<1>4. ASSUME NEW t \in Threads, Lock(t) \/ Proceed(t) \/ Block(t) \/ SpuriousWakeup(t)
      PROVE  Rest'
  BY <1>2, <1>4 DEF Lock, Proceed, Block, SpuriousWakeup
<1>5. ASSUME NEW t \in Threads, Transfer(t) PROVE Rest'
  BY <1>2, <1>5 DEF Transfer
<1>6. ASSUME NEW t \in Threads, NotifyOne(t) PROVE Rest'
  BY <1>2, <1>6 DEF NotifyOne, Blocked
<1>7. ASSUME UNCHANGED queueVars PROVE Rest'
  BY <1>2, <1>7 DEF queueVars
<1>8. Rest'
  BY <1>3, <1>4, <1>5, <1>6, <1>7 DEF QueueNext, Run, Done
<1> QED BY <1>1, <1>8 DEF QueueTypeOK

(* A transfer takes a batch from the stock of its side, of free slots or of  *)
(* values, and adds it to the stock of the other.                           *)
LEMMA TransferMovesABatch ==
  ASSUME QInv, NEW side \in Sides, NEW t \in side, Transfer(t)
  PROVE  /\ Stock(side)' = Stock(side) - Batch
         /\ Stock(Other(side))' = Stock(Other(side)) + Batch
<1>1. t \in Threads
  BY SidesAreFinite
<1>2. Ready(t) /\ free_space \in 0..Size
  BY <1>1 DEF Transfer, GoTo, QInv, HeldWhileUsed, QueueTypeOK, TypeOK
<1>3. Batch \in Nat /\ Size \in Nat
  OBVIOUS
<1>4. CASE side = Producers
  <2>1. t \in Producers /\ t \notin Consumers /\ Producers # Consumers
    BY <1>4, SidesAreFinite
  <2>2. Batch <= free_space
    BY <1>2, <2>1 DEF Ready, freeSpace
  <2>3. free_space' = free_space - Batch
    BY <1>2, <1>3, <2>1, <2>2 DEF Transfer, PutWrite, GetRead, write, freeSpace
  <2>4. side = Producers /\ Other(side) = Consumers
    BY <1>4 DEF Other
  <2>5. /\ Stock(Producers) = free_space /\ Stock(Producers)' = free_space'
        /\ Stock(Consumers) = Size - free_space /\ Stock(Consumers)' = Size - free_space'
    BY <2>1 DEF Stock, freeSpace, busySpace
  <2> QED BY <1>2, <1>3, <2>3, <2>4, <2>5
<1>5. CASE side # Producers
  <2>1. t \in Consumers /\ t \notin Producers /\ side = Consumers
    BY <1>5, SidesAreFinite DEF Sides
  <2>2. Batch <= busySpace
    BY <1>2, <2>1 DEF Ready
  <2>3. pop(Batch)
    BY <1>2, <1>3, <2>1, <2>2 DEF Transfer, PutWrite, GetRead, read, busySpace
  <2>4. free_space' = free_space + Batch
    BY <2>3 DEF pop
  <2>5. side = Consumers /\ Other(side) = Producers
    BY <1>5, <2>1 DEF Other
  <2>6. /\ Stock(Producers) = free_space /\ Stock(Producers)' = free_space'
        /\ Stock(Consumers) = Size - free_space /\ Stock(Consumers)' = Size - free_space'
    BY <1>5, <2>1 DEF Stock, freeSpace, busySpace
  <2> QED BY <1>2, <1>3, <2>4, <2>5, <2>6
<1> QED BY <1>4, <1>5

(* Only a thread that has found its predicate true goes on to transfer, and   *)
(* only the holder of the mutex changes what the predicate is about.        *)
LEMMA HeldInvariant == QInv /\ [QueueNext]_queueVars => HeldWhileUsed'
<1> SUFFICES ASSUME QInv, [QueueNext]_queueVars PROVE HeldWhileUsed'
  OBVIOUS
<1>0. /\ mutex \in Threads \cup {NoThread} /\ pc \in [Threads -> PCs] /\ HeldWhileUsed
  BY DEF QInv, QueueTypeOK
<1> USE DEF PCs, GoTo, HeldWhileUsed, Ready, freeSpace, busySpace
<1>1. ASSUME NEW t \in Threads, Call(t) \/ Lock(t) \/ Proceed(t) \/ Block(t) \/ SpuriousWakeup(t)
      PROVE  HeldWhileUsed'
  BY <1>0, <1>1 DEF Call, Lock, Proceed, Block, SpuriousWakeup, vars
<1>2. ASSUME NEW t \in Threads, Transfer(t) PROVE HeldWhileUsed'
  BY <1>0, <1>2 DEF Transfer
<1>3. ASSUME NEW t \in Threads, NotifyOne(t) PROVE HeldWhileUsed'
  BY <1>0, <1>3 DEF NotifyOne, Blocked, vars
<1>4. ASSUME UNCHANGED queueVars PROVE HeldWhileUsed'
  BY <1>0, <1>4 DEF queueVars, vars
<1> QED BY <1>1, <1>2, <1>3, <1>4 DEF QueueNext, Run, Done
-----------------------------------------------------------------------------
(* A thread of one side that moves leaves the other side where it is.        *)
LEMMA GoToMovesOne ==
  ASSUME QueueTypeOK, NEW side \in Sides, NEW t \in Threads, NEW before, NEW after,
         GoTo(t, before, after)
  PROVE  /\ pc[t] = before /\ pc'[t] = after
         /\ t \in side => /\ \A u \in side \ {t} : pc'[u] = pc[u]
                          /\ \A u \in Other(side) : pc'[u] = pc[u]
         /\ t \notin side => \A u \in side : pc'[u] = pc[u]
<1>1. pc \in [Threads -> PCs] /\ side \in SUBSET Threads /\ Other(side) \in SUBSET Threads
      /\ (t \in side => t \notin Other(side))
  BY SidesAreFinite DEF QueueTypeOK
<1> QED BY <1>1 DEF GoTo

(* A notification takes one thread out of the call, and awakens one that is  *)
(* blocked on the other side if there is any.                               *)
LEMMA NotifyOneMoves ==
  ASSUME QueueTypeOK, NEW side \in Sides, NEW t \in side, NotifyOne(t)
  PROVE  /\ pc[t] = "notify" /\ pc'[t] = "idle" /\ \A u \in side \ {t} : pc'[u] = pc[u]
         /\ \/ Blocked(Other(side)) = {} /\ \A u \in Other(side) : pc'[u] = pc[u]
            \/ \E w \in Other(side) : /\ pc[w] = "blocked" /\ pc'[w] = "lock"
                                      /\ \A u \in Other(side) \ {w} : pc'[u] = pc[u]
<1>1. /\ pc \in [Threads -> PCs] /\ side \in SUBSET Threads /\ Other(side) \in SUBSET Threads
      /\ t \in Threads /\ t \notin Other(side)
      /\ \A w \in Other(side) : w \in Threads /\ w \notin side
  BY SidesAreFinite DEF QueueTypeOK
<1>2. OtherSide(t) = Other(side)
  BY <1>1, SidesAreFinite DEF OtherSide, Other, Sides
<1>3. CASE Blocked(Other(side)) = {}
  BY <1>1, <1>2, <1>3 DEF NotifyOne
<1>4. CASE Blocked(Other(side)) # {}
  <2>1. PICK w \in Blocked(Other(side)) : pc' = [pc EXCEPT ![t] = "idle", ![w] = "lock"]
    BY <1>2, <1>4 DEF NotifyOne
  <2>2. w \in Other(side) /\ pc[w] = "blocked" /\ w # t
    BY <1>1, <2>1 DEF Blocked
  <2>3. /\ pc'[t] = "idle" /\ pc'[w] = "lock"
        /\ \A u \in side \ {t} : pc'[u] = pc[u]
        /\ \A u \in Other(side) \ {w} : pc'[u] = pc[u]
    BY <1>1, <2>1, <2>2
  <2> QED BY <2>2, <2>3 DEF NotifyOne
<1> QED BY <1>3, <1>4

(* Nobody but a thread that calls changes how many calls are made.          *)
LEMMA CallsKeptByOthers ==
  ASSUME QueueTypeOK, NEW side \in Sides, NEW t \in Threads, t \notin side \/ ~Call(t),
         Run(t) \/ SpuriousWakeup(t)
  PROVE  Called(side) \in Nat /\ Called(side)' = Called(side)
<1>1. left \in [Threads -> 0..Calls] /\ side \in SUBSET Threads
  BY SidesAreFinite DEF QueueTypeOK
<1>2. \A u \in side : left'[u] = left[u]
  <2>1. CASE Call(t)
    BY <1>1, <2>1 DEF Call
  <2>2. CASE Lock(t) \/ Proceed(t) \/ Block(t) \/ Transfer(t) \/ NotifyOne(t) \/ SpuriousWakeup(t)
    BY <2>2 DEF Lock, Proceed, Block, Transfer, NotifyOne, SpuriousWakeup
  <2> QED BY <2>1, <2>2 DEF Run
<1> QED BY <1>2, CallsKept

(* Transferred counts the transfers.                                        *)
LEMMA TransferredAfterStep ==
  ASSUME QInv, NEW side \in Sides, NEW t \in Threads, Run(t) \/ SpuriousWakeup(t)
  PROVE  /\ Transferred(side) \in Int
         /\ Transferred(side)' =
              Transferred(side) + (IF t \in side /\ pc[t] = "transfer" THEN 1 ELSE 0)
<1>0. /\ QueueTypeOK /\ Transferred(side) = Called(side) - InCall(side)
      /\ Transferred(side)' = Called(side)' - InCall(side)'
  BY DEF Transferred, InCall, QInv
<1>1. CASE Call(t)
  <2>1. GoTo(t, "idle", "lock")
    BY <1>1 DEF Call
  <2>2. CASE t \in side
    <3>1. Called(side) \in Nat /\ Called(side)' = Called(side) + 1
      BY <1>0, <1>1, <2>2, CallIsCounted
    <3>2. InCall(side) \in Nat /\ InCall(side)' = InCall(side) + 1 /\ pc[t] = "idle"
      BY <1>0, <2>1, <2>2, GoToMovesOne, CountsAfterMove
    <3> QED BY <1>0, <3>1, <3>2
  <2>3. CASE t \notin side
    <3>1. Called(side) \in Nat /\ Called(side)' = Called(side)
      BY <1>0, <2>3, CallsKeptByOthers
    <3>2. InCall(side) \in Nat /\ InCall(side)' = InCall(side)
      BY <1>0, <2>1, <2>3, GoToMovesOne, CountsKept
    <3> QED BY <1>0, <2>3, <3>1, <3>2
  <2> QED BY <2>2, <2>3
<1>2. CASE ~Call(t)
  <2>1. Called(side) \in Nat /\ Called(side)' = Called(side)
    BY <1>0, <1>2, CallsKeptByOthers
  <2>2. ASSUME NEW before, NEW after, GoTo(t, before, after),
               \/ before = "transfer" /\ after = "notify"
               \/ /\ before \in {"lock", "check", "blocked"}
                  /\ after \in {"lock", "check", "blocked", "transfer"}
        PROVE  /\ InCall(side) \in Nat
               /\ InCall(side)' =
                    InCall(side) - (IF t \in side /\ pc[t] = "transfer" THEN 1 ELSE 0)
    <3>1. CASE t \in side
      BY <1>0, <2>2, <3>1, GoToMovesOne, CountsAfterMove
    <3>2. CASE t \notin side
      BY <1>0, <2>2, <3>2, GoToMovesOne, CountsKept
    <3> QED BY <3>1, <3>2
  <2>3. CASE Lock(t) \/ Proceed(t) \/ Block(t) \/ Transfer(t) \/ SpuriousWakeup(t)
    <3>1. /\ InCall(side) \in Nat
          /\ InCall(side)' = InCall(side) - (IF t \in side /\ pc[t] = "transfer" THEN 1 ELSE 0)
      BY <2>2, <2>3 DEF Lock, Proceed, Block, Transfer, SpuriousWakeup
    <3> QED BY <1>0, <2>1, <3>1
  <2>4. CASE NotifyOne(t)
    <3>1. CASE t \in side
      <4>1. /\ pc[t] = "notify" /\ pc'[t] = "idle" /\ \A u \in side \ {t} : pc'[u] = pc[u]
        BY <1>0, <2>4, <3>1, NotifyOneMoves
      <4>2. InCall(side) \in Nat /\ InCall(side)' = InCall(side)
        BY <3>1, <4>1, CountsAfterMove
      <4> QED BY <1>0, <2>1, <4>1, <4>2
    <3>2. CASE t \notin side
      <4>1. /\ Other(side) \in Sides /\ t \in Other(side) /\ Other(Other(side)) = side
        BY <3>2, SidesAreFinite DEF Sides, Other
      <4>2. \/ \A u \in side : pc'[u] = pc[u]
            \/ \E w \in side : /\ pc[w] = "blocked" /\ pc'[w] = "lock"
                               /\ \A u \in side \ {w} : pc'[u] = pc[u]
        BY <1>0, <2>4, <4>1, NotifyOneMoves
      <4>3. InCall(side) \in Nat /\ InCall(side)' = InCall(side)
        BY <4>2, CountsAfterMove, CountsKept
      <4> QED BY <1>0, <2>1, <3>2, <4>3
    <3> QED BY <3>1, <3>2
  <2> QED BY <1>2, <2>3, <2>4 DEF Run
<1> QED BY <1>1, <1>2
-----------------------------------------------------------------------------
(* Each transfer moves the batch it is counted for.                         *)
LEMMA LostInvariant == QInv /\ [QueueNext]_queueVars => NothingLost'
<1> SUFFICES ASSUME QInv, [QueueNext]_queueVars PROVE NothingLost'
  OBVIOUS
<1>0. /\ Producers \in Sides /\ Consumers \in Sides /\ Batch \in Nat
      /\ NothingLost /\ busySpace \in Int /\ QueueTypeOK
  BY DEF Sides, QInv, QueueTypeOK, TypeOK, busySpace
<1>1. ASSUME NEW t \in Threads, Run(t) \/ SpuriousWakeup(t) PROVE NothingLost'
  <2>1. /\ Transferred(Producers) \in Int /\ Transferred(Consumers) \in Int
        /\ Transferred(Producers)' = Transferred(Producers)
             + (IF t \in Producers /\ pc[t] = "transfer" THEN 1 ELSE 0)
        /\ Transferred(Consumers)' = Transferred(Consumers)
             + (IF t \in Consumers /\ pc[t] = "transfer" THEN 1 ELSE 0)
    BY <1>0, <1>1, TransferredAfterStep
  <2>2. t \in Producers <=> t \notin Consumers
    BY DEF Threads
  <2>3. CASE Transfer(t)
    <3>1. pc[t] = "transfer"
      BY <2>3 DEF Transfer, GoTo
    <3>2. CASE t \in Producers
      <4>1. busySpace' = busySpace + Batch
        <5>1. Stock(Consumers)' = Stock(Consumers) + Batch /\ Producers # Consumers
          BY <1>0, <2>2, <2>3, <3>2, TransferMovesABatch DEF Other
        <5> QED BY <5>1 DEF Stock, busySpace
      <4>2. Transferred(Producers)' - Transferred(Consumers)'
              = Transferred(Producers) - Transferred(Consumers) + 1
        BY <2>1, <2>2, <3>1, <3>2
      <4> QED BY <1>0, <2>1, <4>1, <4>2 DEF NothingLost
    <3>3. CASE t \in Consumers
      <4>1. busySpace' = busySpace - Batch
        <5>1. Stock(Consumers)' = Stock(Consumers) - Batch /\ Producers # Consumers
          BY <1>0, <2>2, <2>3, <3>3, TransferMovesABatch
        <5> QED BY <5>1 DEF Stock, busySpace
      <4>2. Transferred(Producers)' - Transferred(Consumers)'
              = Transferred(Producers) - Transferred(Consumers) - 1
        BY <2>1, <2>2, <3>1, <3>3
      <4> QED BY <1>0, <2>1, <4>1, <4>2 DEF NothingLost
    <3> QED BY <2>2, <3>2, <3>3
  <2>4. CASE ~Transfer(t)
    <3>1. pc[t] # "transfer" /\ UNCHANGED vars
      BY <1>1, <2>4 DEF Run, Call, Lock, Proceed, Block, NotifyOne, SpuriousWakeup, GoTo
    <3> QED BY <1>0, <2>1, <3>1 DEF NothingLost, vars, busySpace
  <2> QED BY <2>3, <2>4
<1>2. CASE UNCHANGED queueVars
  <2>1. ASSUME NEW side \in Sides PROVE Transferred(side)' = Transferred(side)
    <3>1. Called(side)' = Called(side) /\ InCall(side)' = InCall(side)
      BY <1>2, CallsKept, CountsKept DEF queueVars
    <3> QED BY <3>1 DEF Transferred, InCall
  <2> QED BY <1>0, <1>2, <2>1 DEF NothingLost, queueVars, vars, busySpace
<1> QED BY <1>1, <1>2 DEF QueueNext, Done

(* NobodyStranded of one side, whichever it is: the threads about to notify   *)
(* it and its own that are awake see to a batch each.                       *)
SeenTo(k) == Batch * (1 + k)
SideServed(side) ==
  Blocked(side) # {} => Stock(side) < SeenTo(Notifying(Other(side)) + Awake(side))

LEMMA SideServedNext ==
  ASSUME NEW side
  PROVE  SideServed(side)' <=>
           (Blocked(side)' # {} =>
              Stock(side)' < SeenTo(Notifying(Other(side))' + Awake(side)'))
BY DEF SideServed, SeenTo

LEMMA SeenToMoves ==
  ASSUME NEW k \in Nat, NEW l \in Nat
  PROVE  /\ SeenTo(k) \in Int /\ SeenTo(l) \in Int /\ Batch \in Int
         /\ Batch <= SeenTo(l)
         /\ k <= l => SeenTo(k) <= SeenTo(l)
         /\ l = k - 1 => SeenTo(l) = SeenTo(k) - Batch
         /\ l = k + 1 => SeenTo(l) = SeenTo(k) + Batch
<1>1. Batch \in Nat /\ Batch > 0
  BY EventQueueAssumption, RingBufferAssumption
<1>2. /\ Batch * (1 + k) = Batch + Batch * k /\ Batch * (1 + l) = Batch + Batch * l
      /\ Batch * k \in Nat /\ Batch * l \in Nat
  BY <1>1
<1>3. k <= l => Batch * k <= Batch * l
  BY <1>1
<1>4. l = k - 1 => Batch * l = Batch * k - Batch
  BY <1>1
<1>5. l = k + 1 => Batch * l = Batch * k + Batch
  BY <1>1
<1> QED BY <1>1, <1>2, <1>3, <1>4, <1>5 DEF SeenTo

LEMMA SidesServed == /\ NobodyStranded <=> \A side \in Sides : SideServed(side)
                     /\ NobodyStranded' <=> \A side \in Sides : SideServed(side)'
<1>1. CASE Producers = Consumers
  <2>1. Producers = {} /\ Consumers = {}
    BY <1>1
  <2> QED BY <2>1 DEF NobodyStranded, SideServed, Sides, Blocked
<1>2. CASE Producers # Consumers
  <2>1. /\ Other(Producers) = Consumers /\ Other(Consumers) = Producers
        /\ Stock(Producers) = freeSpace /\ Stock(Consumers) = busySpace
        /\ Stock(Producers)' = freeSpace' /\ Stock(Consumers)' = busySpace'
    BY <1>2 DEF Other, Stock
  <2> QED BY <2>1 DEF NobodyStranded, SideServed, SeenTo, Sides, Notifying, Awake
<1> QED BY <1>1, <1>2

(* What a step may do: to threads alone, as long as those that see to the     *)
(* stock do not get fewer; take a batch, or add one, with the thread that    *)
(* sees to it; or find less than a batch.                                   *)
LEMMA ServedAfter ==
  ASSUME NEW side \in Sides, SideServed(side), Stock(side) \in Int, Stock(side)' \in Int,
         NEW n \in Nat, NEW a \in Nat, NEW m \in Nat, NEW b \in Nat,
         n = Notifying(Other(side)), m = Notifying(Other(side))',
         a = Awake(side), b = Awake(side)',
         Blocked(side)' # {} => Blocked(side) # {} \/ Stock(side)' < Batch,
         \/ Stock(side)' = Stock(side) /\ n + a <= m + b
         \/ Stock(side)' = Stock(side) - Batch /\ m + b = n + a - 1
         \/ Stock(side)' = Stock(side) + Batch /\ m + b = n + a + 1
         \/ Stock(side)' < Batch
  PROVE  SideServed(side)'
<1>1. PICK k \in Nat, l \in Nat : k = n + a /\ l = m + b
  OBVIOUS
<1>2. /\ SeenTo(k) \in Int /\ SeenTo(l) \in Int /\ Batch \in Int
      /\ Batch <= SeenTo(l)
      /\ k <= l => SeenTo(k) <= SeenTo(l)
      /\ l = k - 1 => SeenTo(l) = SeenTo(k) - Batch
      /\ l = k + 1 => SeenTo(l) = SeenTo(k) + Batch
  BY SeenToMoves
<1>3. Blocked(side) # {} => Stock(side) < SeenTo(k)
  BY <1>1 DEF SideServed
<1>4. Blocked(side)' # {} => Stock(side)' < SeenTo(l)
  BY <1>1, <1>2, <1>3
<1> QED BY <1>1, <1>4, SideServedNext

(* The step of a thread of the side: it blocks where there is nothing for it, *)
(* and what it takes it was awake for.                                      *)
LEMMA OwnStepServes ==
  ASSUME QInv, NEW side \in Sides, NEW t \in side, Run(t) \/ SpuriousWakeup(t),
         SideServed(side)
  PROVE  SideServed(side)'
<1>0. /\ t \in Threads /\ QueueTypeOK /\ Other(side) \in Sides /\ Batch \in Nat
      /\ Other(side)' = Other(side)
      /\ Stock(side) \in Int /\ (UNCHANGED vars => Stock(side)' = Stock(side))
  BY SidesAreFinite DEF QInv, QueueTypeOK, TypeOK, Stock, Other, freeSpace, busySpace, vars
<1>1. ASSUME NEW before, NEW after, GoTo(t, before, after)
      PROVE  /\ pc[t] = before /\ pc'[t] = after
             /\ \A u \in side \ {t} : pc'[u] = pc[u]
             /\ Notifying(Other(side)) \in Nat
             /\ Notifying(Other(side))' = Notifying(Other(side))
  BY <1>0, <1>1, GoToMovesOne, CountsKept
<1>2. ASSUME NEW before, NEW after, GoTo(t, before, after), UNCHANGED vars,
             after \in {"lock", "check", "transfer"}
      PROVE  SideServed(side)'
  <2>1. /\ Awake(side) \in Nat /\ Awake(side)' \in Nat /\ Awake(side)' >= Awake(side)
        /\ Blocked(side)' = Blocked(side) \ {t}
    BY <1>1, <1>2, CountsAfterMove
  <2> QED BY <1>0, <1>1, <1>2, <2>1, ServedAfter
<1>3. CASE Call(t) \/ Lock(t) \/ Proceed(t) \/ SpuriousWakeup(t)
  BY <1>2, <1>3 DEF Call, Lock, Proceed, SpuriousWakeup
<1>4. CASE Block(t)
  <2>1. Stock(side) < Batch
    <3>1. t \in Producers <=> side = Producers
      BY DEF Sides
    <3> QED BY <1>0, <1>4, <3>1 DEF Block, Ready, Stock
  <2>2. GoTo(t, "check", "blocked") /\ UNCHANGED vars
    BY <1>4 DEF Block
  <2>3. Awake(side) \in Nat /\ Awake(side)' \in Nat
    BY <1>1, <2>2, CountsAfterMove
  <2> QED BY <1>0, <1>1, <2>1, <2>2, <2>3, ServedAfter
<1>5. CASE Transfer(t)
  <2>1. GoTo(t, "transfer", "notify") /\ Stock(side)' = Stock(side) - Batch
    BY <1>5, TransferMovesABatch DEF Transfer
  <2>2. /\ Awake(side) \in Nat /\ Awake(side)' \in Nat /\ Awake(side)' = Awake(side) - 1
        /\ Blocked(side)' = Blocked(side) \ {t}
    BY <1>1, <2>1, CountsAfterMove
  <2> QED BY <1>0, <1>1, <2>1, <2>2, ServedAfter
<1>6. CASE NotifyOne(t)
  <2>1. /\ Awake(side) \in Nat /\ Awake(side)' = Awake(side)
        /\ Blocked(side)' = Blocked(side) \ {t}
    BY <1>0, <1>6, NotifyOneMoves, CountsAfterMove
  <2>2. Notifying(Other(side)) \in Nat /\ Notifying(Other(side))' = Notifying(Other(side))
    <3>1. CASE \A u \in Other(side) : pc'[u] = pc[u]
      BY <1>0, <3>1, CountsKept
    <3>2. CASE \E w \in Other(side) : /\ pc[w] = "blocked" /\ pc'[w] = "lock"
                                      /\ \A u \in Other(side) \ {w} : pc'[u] = pc[u]
      BY <1>0, <3>2, CountsAfterMove
    <3> QED BY <1>0, <1>6, <3>1, <3>2, NotifyOneMoves
  <2>3. UNCHANGED vars
    BY <1>6 DEF NotifyOne
  <2> QED BY <1>0, <2>1, <2>2, <2>3, ServedAfter
<1> QED BY <1>3, <1>4, <1>5, <1>6 DEF Run

(* The step of a thread of the other side: what it adds it notifies of.      *)
LEMMA OtherStepServes ==
  ASSUME QInv, NEW side \in Sides, NEW t \in Other(side), Run(t) \/ SpuriousWakeup(t),
         SideServed(side)
  PROVE  SideServed(side)'
<1>0. /\ t \in Threads /\ QueueTypeOK /\ Other(side) \in Sides /\ Batch \in Nat
      /\ t \notin side /\ Other(Other(side)) = side
      /\ Other(side)' = Other(side)
      /\ Stock(side) \in Int /\ (UNCHANGED vars => Stock(side)' = Stock(side))
  <2>1. Other(side) \in Sides /\ t \in Threads /\ t \notin side /\ QueueTypeOK
    BY SidesAreFinite DEF QInv
  <2> QED BY <2>1 DEF QueueTypeOK, TypeOK, Stock, Other, freeSpace, busySpace, vars, Sides
<1>1. ASSUME NEW before, NEW after, GoTo(t, before, after)
      PROVE  /\ pc[t] = before /\ pc'[t] = after
             /\ \A u \in Other(side) \ {t} : pc'[u] = pc[u]
             /\ Awake(side) \in Nat
             /\ Awake(side)' = Awake(side) /\ Blocked(side)' = Blocked(side)
  BY <1>0, <1>1, GoToMovesOne, CountsKept
<1>2. ASSUME NEW before, NEW after, GoTo(t, before, after), UNCHANGED vars,
             before # "notify" /\ after # "notify"
      PROVE  SideServed(side)'
  <2>1. Notifying(Other(side)) \in Nat /\ Notifying(Other(side))' = Notifying(Other(side))
    BY <1>0, <1>1, <1>2, CountsAfterMove
  <2> QED BY <1>0, <1>1, <1>2, <2>1, ServedAfter
<1>3. CASE Call(t) \/ Lock(t) \/ Proceed(t) \/ Block(t) \/ SpuriousWakeup(t)
  BY <1>2, <1>3 DEF Call, Lock, Proceed, Block, SpuriousWakeup
<1>4. CASE Transfer(t)
  <2>1. GoTo(t, "transfer", "notify") /\ Stock(side)' = Stock(side) + Batch
    BY <1>0, <1>4, TransferMovesABatch DEF Transfer
  <2>2. Notifying(Other(side)) \in Nat /\ Notifying(Other(side))' = Notifying(Other(side)) + 1
    BY <1>0, <1>1, <2>1, CountsAfterMove
  <2> QED BY <1>0, <1>1, <2>1, <2>2, ServedAfter
<1>5. CASE NotifyOne(t)
  <2>1. /\ Notifying(Other(side)) \in Nat /\ Notifying(Other(side))' \in Nat
        /\ Notifying(Other(side))' = Notifying(Other(side)) - 1
    BY <1>0, <1>5, NotifyOneMoves, CountsAfterMove
  <2>2. CASE Blocked(side) = {} /\ \A u \in side : pc'[u] = pc[u]
    BY <1>0, <2>2, CountsKept DEF SideServed
  <2>3. CASE \E w \in side : /\ pc[w] = "blocked" /\ pc'[w] = "lock"
                             /\ \A u \in side \ {w} : pc'[u] = pc[u]
    <3>1. PICK w \in side : /\ pc[w] = "blocked" /\ pc'[w] = "lock"
                            /\ \A u \in side \ {w} : pc'[u] = pc[u]
      BY <2>3
    <3>2. /\ Awake(side) \in Nat /\ Awake(side)' = Awake(side) + 1
          /\ w \in Blocked(side)
      BY <3>1, CountsAfterMove DEF Blocked
    <3>3. UNCHANGED vars
      BY <1>5 DEF NotifyOne
    <3> QED BY <1>0, <2>1, <3>2, <3>3, ServedAfter
  <2> QED BY <1>0, <1>5, <2>2, <2>3, NotifyOneMoves
<1> QED BY <1>3, <1>4, <1>5 DEF Run

LEMMA ServedInvariant == QInv /\ [QueueNext]_queueVars => NobodyStranded'
<1> SUFFICES ASSUME QInv, [QueueNext]_queueVars PROVE NobodyStranded'
  OBVIOUS
<1>1. ASSUME NEW side \in Sides PROVE SideServed(side)'
  <2>1. SideServed(side)
    BY SidesServed DEF QInv
  <2>2. ASSUME NEW t \in Threads, Run(t) \/ SpuriousWakeup(t) PROVE SideServed(side)'
    BY <2>1, <2>2, OwnStepServes, OtherStepServes, SidesAreFinite
  <2>3. CASE UNCHANGED queueVars
    <3>1. /\ Awake(side)' = Awake(side) /\ Blocked(side)' = Blocked(side)
          /\ Notifying(Other(side))' = Notifying(Other(side))
      BY <2>3, CountsKept, SidesAreFinite DEF queueVars
    <3> QED BY <2>1, <2>3, <3>1 DEF SideServed, Stock, Other, queueVars, vars, freeSpace, busySpace
  <2> QED BY <2>2, <2>3 DEF QueueNext, Done
<1> QED BY <1>1, SidesServed

LEMMA QueueInitQInv == QueueInit => QInv
<1> SUFFICES ASSUME QueueInit PROVE QInv
  OBVIOUS
<1>1. IInv
  <2>1. IndicesAgree
    BY Wrap DEF QueueInit, Init, IndicesAgree, busySpace, Slots
  <2> QED BY <2>1 DEF QueueInit, Init, IInv, TypeOK, Slots
<1>2. QueueTypeOK /\ HeldWhileUsed
  BY <1>1 DEF QueueInit, IInv, QueueTypeOK, PCs, HeldWhileUsed
<1>3. ASSUME NEW side \in Sides PROVE Transferred(side) = 0
  <2>1. side \in SUBSET Threads
    BY SidesAreFinite
  <2>2. Made(side) = {}
    BY <2>1 DEF QueueInit, Made
  <2>3. {t \in side : pc[t] \in {"lock", "check", "blocked", "transfer"}} = {}
    BY <2>1 DEF QueueInit
  <2>4. Called(side) = 0 /\ At(side, {"lock", "check", "blocked", "transfer"}) = 0
    BY <2>2, <2>3, FS_EmptySet DEF Called, At
  <2> QED BY <2>4 DEF Transferred
<1>4. NothingLost
  BY <1>3 DEF NothingLost, QueueInit, Init, busySpace, Sides
<1>5. NobodyStranded
  BY DEF NobodyStranded, Blocked, QueueInit, Threads
<1> QED BY <1>1, <1>2, <1>4, <1>5 DEF QInv, IInv

LEMMA QueueStepQInv == QInv /\ [QueueNext]_queueVars => QInv'
BY QueueTypeInvariant, HeldInvariant, LostInvariant, ServedInvariant DEF QInv

(* However many producers and consumers share the queue and however often    *)
(* they call it: no transfer is refused or lost, and nobody stays blocked     *)
(* for whom there is something and whom nobody is about to notify.          *)
THEOREM QueueInvariance ==
  QueueSpec => [](QueueTypeOK /\ NothingLost /\ NobodyStranded)
<1>1. QInv => QueueTypeOK /\ NothingLost /\ NobodyStranded
  BY DEF QInv
<1> QED BY <1>1, QueueInitQInv, QueueStepQInv, PTL DEF QueueSpec

(* One notification per call is enough: whoever sleeps in Put or Get sleeps   *)
(* for want of room or of data, or somebody is on the way to wake it.        *)
THEOREM QueueStrandsNobody == QueueSpec => []NobodyStranded
BY QueueInvariance, PTL

(* Shared by any number of threads the ring buffer is still a bounded FIFO.  *)
THEOREM QueueRefinement == QueueSpec => ImplementsFifo
<1>1. QueueInit => Init
  BY DEF QueueInit
<1>2. QInv => QueueTypeOK
  BY DEF QInv
<1>3. QueueSpec => Spec
  BY <1>1, <1>2, QueueInitQInv, QueueStepQInv, QueueStepIsBufferStep, PTL DEF QueueSpec, Spec
<1> QED BY <1>3, Refinement, PTL
-----------------------------------------------------------------------------
(* The threads of main use the queue through Call and Run alone.            *)
LEMMA MainStepIsQueueStep == [MainNext]_allVars => [QueueNext]_queueVars
<1> SUFFICES ASSUME [MainNext]_allVars PROVE QueueNext \/ UNCHANGED queueVars
  OBVIOUS
<1>1. ASSUME NEW t \in Threads, Loop(t) \/ TakeRequest(t) \/ Sleep(t) \/ Leave(t) \/ Return(t)
                                  \/ WakeUnasked(t)
      PROVE  UNCHANGED queueVars
  BY <1>1 DEF Loop, TakeRequest, Sleep, Leave, Return, WakeUnasked
<1>2. ASSUME NEW t \in Threads, Depart(t) \/ InTransfer(t) \/ SpuriousWakeup(t) PROVE QueueNext
  BY <1>2 DEF Depart, InTransfer, QueueNext, Run
<1>3. ASSUME NEW kind \in Kinds, Choose(kind) \/ Notify(kind) PROVE UNCHANGED queueVars
  BY <1>3 DEF Choose, Notify
<1>4. CASE Quit \/ NotifyAll \/ Terminated \/ UNCHANGED allVars
  BY <1>4 DEF Quit, NotifyAll, Terminated, allVars
<1> QED BY <1>1, <1>2, <1>3, <1>4 DEF MainNext, Process, Thread

(* Under the menu, whatever the user chooses, it is one too.                 *)
THEOREM MainRefinement == MainSpec => ImplementsFifo
<1>1. MainInit => QInv /\ Init
  BY QueueInitQInv DEF MainInit, QueueInit
<1>2. QInv /\ [MainNext]_allVars => QInv' /\ [Next]_vars
  BY MainStepIsQueueStep, QueueStepQInv, QueueStepIsBufferStep DEF QInv
<1>3. MainSpec => Spec
  BY <1>1, <1>2, PTL DEF MainSpec, Spec
<1> QED BY <1>3, Refinement, PTL
-----------------------------------------------------------------------------

(* The threads on their way from the flag to a transfer.                    *)
Leaving == {t \in Threads : at[t] = "exit?" /\ ~to_exit}
Raised == IF new_request THEN 1 ELSE 0

MInv == QInv /\ MainTypeOK /\ ServedOnce

LEMMA MainTypeInvariant == MInv /\ [MainNext]_allVars => MainTypeOK'
<1> SUFFICES ASSUME MInv, [MainNext]_allVars PROVE MainTypeOK'
  OBVIOUS
<1> DEFINE Rest == /\ new_request \in BOOLEAN /\ to_exit \in BOOLEAN
                   /\ at \in [Threads -> Places]
                   /\ menu \in Kinds \cup {"choose", "quit", "returned"}
                   /\ chosen \in [Kinds -> 0..Calls]
<1>0. Rest
  BY DEF MInv, MainTypeOK
<1> USE DEF Move, Places
<1>1. ASSUME NEW t \in Threads, Loop(t) \/ TakeRequest(t) \/ Sleep(t) \/ Leave(t) \/ Return(t)
                                  \/ WakeUnasked(t)
      PROVE  Rest'
  BY <1>0, <1>1 DEF Loop, TakeRequest, Sleep, Leave, Return, WakeUnasked
<1>2. ASSUME NEW t \in Threads, \/ Depart(t) \/ InTransfer(t)
                                \/ SpuriousWakeup(t) /\ UNCHANGED mainVars
      PROVE  Rest'
  BY <1>0, <1>2 DEF Depart, InTransfer, mainVars
<1>3. ASSUME NEW kind \in Kinds, Choose(kind) PROVE Rest'
  <2>1. chosen'[kind] \in 0..Calls
    BY <1>0, <1>3 DEF Choose, Kinds
  <2> QED BY <1>0, <1>3, <2>1 DEF Choose
<1>4. ASSUME NEW kind \in Kinds, Notify(kind) PROVE Rest'
  BY <1>0, <1>4 DEF Notify, Asleep
<1>5. ASSUME Quit \/ NotifyAll PROVE Rest'
  BY <1>0, <1>5 DEF Quit, NotifyAll
<1>6. ASSUME UNCHANGED allVars PROVE Rest'
  <2>1. UNCHANGED <<new_request, to_exit, at, menu, chosen>>
    BY <1>6 DEF allVars, mainVars
  <2> QED BY <1>0, <2>1
<1> HIDE DEF Rest
<1>7. Rest'
  BY <1>1, <1>2, <1>3, <1>4, <1>5, <1>6 DEF MainNext, Process, Thread, Terminated
<1>8. QueueTypeOK'
  BY MainStepIsQueueStep, QueueStepQInv DEF MInv, QInv
<1> QED BY <1>7, <1>8 DEF Rest, MainTypeOK

LEMMA LeavingIsFinite == ASSUME NEW S \in SUBSET Threads
                         PROVE  IsFiniteSet(S) /\ Cardinality(S) \in Nat
BY FS_Subset, FS_CardinalityType

(* Each request is on exactly one account at a time: chosen, raised, taken   *)
(* by a thread on its way, or served; a step moves it along or drops it.     *)
LEMMA ServedInvariantOfMain == MInv /\ [MainNext]_allVars => ServedOnce'
<1> SUFFICES ASSUME MInv, [MainNext]_allVars PROVE ServedOnce'
  OBVIOUS
<1> DEFINE Requests == chosen["put"] + chosen["get"]
           Calling == Called(Producers) + Called(Consumers)
<1>0. /\ QueueTypeOK /\ new_request \in BOOLEAN /\ to_exit \in BOOLEAN
      /\ at \in [Threads -> Places] /\ chosen \in [Kinds -> 0..Calls]
      /\ chosen["put"] \in Nat /\ chosen["get"] \in Nat
      /\ Producers \in Sides /\ Consumers \in Sides
  BY DEF MInv, MainTypeOK, QueueTypeOK, Kinds, Sides
<1>1. /\ ServedOnce <=> Calling + Raised + Cardinality(Leaving) <= Requests
      /\ ServedOnce' <=> Calling' + Raised' + Cardinality(Leaving') <= Requests'
  BY DEF ServedOnce, Served, Side, Leaving, Raised
<1>2. /\ Called(Producers) \in Nat /\ Called(Consumers) \in Nat
      /\ Calling \in Nat /\ Requests \in Nat
      /\ Calling + Raised + Cardinality(Leaving) <= Requests
  BY <1>0, <1>1, MadeIsFinite DEF MInv
<1>3. /\ IsFiniteSet(Leaving) /\ Cardinality(Leaving) \in Nat
      /\ Leaving' \in SUBSET Threads /\ Cardinality(Leaving') \in Nat
      /\ Raised \in 0..1
  BY LeavingIsFinite DEF Leaving, Raised
<1>4. ASSUME left' = left PROVE Calling' = Calling
  BY <1>0, <1>4, CallsKept
<1> HIDE DEF Calling, Requests
<1>5. ASSUME NEW t \in Threads, Loop(t) \/ Sleep(t) \/ Leave(t) \/ Return(t) \/ WakeUnasked(t)
      PROVE  ServedOnce'
  <2>1. Leaving' = Leaving
    BY <1>0, <1>5 DEF Loop, Sleep, Leave, Return, WakeUnasked, Move, Leaving
  <2>2. left' = left /\ Raised' = Raised /\ Requests' = Requests
    BY <1>5 DEF Loop, Sleep, Leave, Return, WakeUnasked, queueVars, Raised, Requests
  <2> QED BY <1>1, <1>2, <1>4, <2>1, <2>2
<1>6. ASSUME NEW t \in Threads, TakeRequest(t) PROVE ServedOnce'
  <2>1. left' = left /\ Raised' = 0 /\ Requests' = Requests
    BY <1>6 DEF TakeRequest, queueVars, Raised, Requests
  <2>2. CASE to_exit
    <3>1. Leaving' = Leaving
      BY <1>6, <2>2 DEF TakeRequest, Leaving
    <3> QED BY <1>1, <1>2, <1>3, <1>4, <2>1, <3>1
  <2>3. CASE ~to_exit
    <3>1. Raised = 1 /\ Leaving' = Leaving \cup {t} /\ t \notin Leaving
      BY <1>0, <1>6, <2>3 DEF TakeRequest, Move, Leaving, Raised
    <3>2. Cardinality(Leaving') = Cardinality(Leaving) + 1
      BY <1>3, <3>1, FS_AddElement
    <3> QED BY <1>1, <1>2, <1>3, <1>4, <2>1, <3>1, <3>2
  <2> QED BY <1>0, <2>2, <2>3
<1>7. ASSUME NEW t \in Threads, Depart(t) PROVE ServedOnce'
  <2>1. t \in Leaving /\ Leaving' = Leaving \ {t}
    BY <1>0, <1>7 DEF Depart, Move, Leaving
  <2>2. Cardinality(Leaving') = Cardinality(Leaving) - 1
    BY <1>3, <2>1, FS_RemoveElement
  <2>3. Calling' = Calling + 1
    <3>1. Call(t) /\ (t \in Producers <=> t \notin Consumers)
      BY <1>7 DEF Depart, Threads
    <3>2. CASE t \in Producers
      BY <1>0, <1>2, <3>1, <3>2, CallIsCounted, CallsKeptByOthers DEF Calling, Run
    <3>3. CASE t \in Consumers
      BY <1>0, <1>2, <3>1, <3>3, CallIsCounted, CallsKeptByOthers DEF Calling, Run
    <3> QED BY <3>1, <3>2, <3>3 DEF Threads
  <2>4. Raised' = Raised /\ Requests' = Requests
    BY <1>7 DEF Depart, Raised, Requests
  <2> QED BY <1>1, <1>2, <1>3, <2>2, <2>3, <2>4
<1>8. ASSUME NEW t \in Threads, InTransfer(t) \/ (SpuriousWakeup(t) /\ UNCHANGED mainVars)
      PROVE  ServedOnce'
  <2>1. (Run(t) \/ SpuriousWakeup(t)) /\ ~Call(t) /\ UNCHANGED mainVars
    BY <1>8 DEF InTransfer, SpuriousWakeup, Call, GoTo
  <2>2. Calling' = Calling
    BY <1>0, <2>1, CallsKeptByOthers DEF Calling
  <2>3. Leaving' = Leaving /\ Raised' = Raised /\ Requests' = Requests
    BY <2>1 DEF mainVars, Leaving, Raised, Requests
  <2> QED BY <1>1, <1>2, <2>2, <2>3
<1>9. ASSUME NEW kind \in Kinds, Choose(kind) PROVE ServedOnce'
  <2>1. Leaving' = Leaving /\ left' = left /\ Raised' = 1
    BY <1>9 DEF Choose, Leaving, queueVars, Raised
  <2>2. Requests' = Requests + 1
    BY <1>0, <1>9 DEF Choose, Requests, Kinds
  <2> QED BY <1>1, <1>2, <1>3, <1>4, <2>1, <2>2
<1>10. ASSUME NEW kind \in Kinds, Notify(kind) PROVE ServedOnce'
  <2>1. Leaving' = Leaving
    BY <1>0, <1>10 DEF Notify, Asleep, Leaving
  <2>2. left' = left /\ Raised' = Raised /\ Requests' = Requests
    BY <1>10 DEF Notify, queueVars, Raised, Requests
  <2> QED BY <1>1, <1>2, <1>4, <2>1, <2>2
<1>11. ASSUME Quit PROVE ServedOnce'
  <2>1. Leaving' = {} /\ left' = left /\ Raised' = Raised /\ Requests' = Requests
    BY <1>11 DEF Quit, Leaving, queueVars, Raised, Requests
  <2>2. Cardinality(Leaving') = 0
    BY <2>1, FS_EmptySet
  <2> QED BY <1>1, <1>2, <1>3, <1>4, <2>1, <2>2
<1>12. ASSUME NotifyAll \/ UNCHANGED allVars PROVE ServedOnce'
  <2>1. Leaving' = Leaving
    BY <1>0, <1>12 DEF NotifyAll, Leaving, allVars, mainVars
  <2>2. left' = left /\ Raised' = Raised /\ Requests' = Requests
    BY <1>12 DEF NotifyAll, allVars, queueVars, mainVars, Raised, Requests
  <2> QED BY <1>1, <1>2, <1>4, <2>1, <2>2
<1> QED BY <1>5, <1>6, <1>7, <1>8, <1>9, <1>10, <1>11, <1>12
        DEF MainNext, Process, Thread, Terminated

LEMMA MainInitMInv == MainInit => MInv
<1> SUFFICES ASSUME MainInit PROVE MInv
  OBVIOUS
<1>1. QInv
  BY QueueInitQInv DEF MainInit
<1>2. MainTypeOK
  <2>1. chosen \in [Kinds -> 0..Calls] /\ at \in [Threads -> Places]
    BY DEF MainInit, Places
  <2> QED BY <1>1, <2>1 DEF QInv, MainInit, MainTypeOK
<1>3. ASSUME NEW side \in Sides PROVE Called(side) = 0
  <2>1. Made(side) = {}
    BY SidesAreFinite DEF MainInit, QueueInit, Made
  <2> QED BY <2>1, FS_EmptySet DEF Called
<1>4. {t \in Threads : at[t] = "exit?" /\ ~to_exit} = {}
  BY DEF MainInit
<1>5. ServedOnce
  BY <1>3, <1>4, FS_EmptySet DEF MainInit, ServedOnce, Served, Side, Sides, Kinds
<1> QED BY <1>1, <1>2, <1>5 DEF MInv

(* Whatever the user chooses, the types hold, no request is served twice,    *)
(* and the queue under the menu loses nothing and strands nobody.           *)
THEOREM MainInvariance ==
  MainSpec => [](MainTypeOK /\ ServedOnce /\ NothingLost /\ NobodyStranded)
<1>1. MInv /\ [MainNext]_allVars => MInv'
  BY MainStepIsQueueStep, QueueStepQInv, MainTypeInvariant, ServedInvariantOfMain DEF MInv
<1>2. MInv => MainTypeOK /\ ServedOnce /\ NothingLost /\ NobodyStranded
  BY DEF MInv, QInv
<1> QED BY <1>1, <1>2, MainInitMInv, PTL DEF MainSpec
=============================================================================
