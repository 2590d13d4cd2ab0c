------------------------------ MODULE BitLoops ------------------------------
(***************************************************************************)
(* verify_bitcounts of 05_bit_counting/reference.cpp: the functions that     *)
(* loop, iteration by iteration, the ones that look the ones of a part of    *)
(* the word up in a table, and the comparison of all eight.  An unsigned int *)
(* is the set of the positions of its ones, in any Width (32 in the code):   *)
(* its shifts, masks and decrements are then operations on sets.  The three  *)
(* that calculate with the word as a number are in BitCounting; here         *)
(* `arithmetic' stands for whatever they return.                            *)
(***************************************************************************)
EXTENDS Integers, FiniteSets, FiniteSetsExt

CONSTANTS Width,       \* an unsigned int has so many bits
          Arguments,   \* the words verify_bitcounts is called with
          arithmetic   \* arithmetic[w].f: what f of the three returns for w

Bits == 0..(Width - 1)

ASSUME BitLoopsAssumption == /\ Width \in Nat \ {0} /\ Width % 4 = 0
                             /\ Arguments \subseteq SUBSET Bits

VARIABLES argument,  \* x of verify_bitcounts
          pc,        \* the loop that runs, or "compare", "passed", "error"
          word,      \* n of that loop
          ones,      \* count of that loop
          returned   \* returned[f]: what the loop f returned, or -1
bitVars == <<argument, pc, word, ones, returned>>

Loops == {"iterated", "sparse", "dense"}

invert(w)    == Bits \ w                                \* n ^ (unsigned) -1
shift(w)     == {b - 1 : b \in w \ {0}}                 \* n >> 1
decrement(w) == (w \ {Min(w)}) \cup 0..(Min(w) - 1)     \* n - 1, for a positive n

\* The k-th of the parts of `size' bits, moved down to the first; and the tables
\* for all values of a part, which iterated_bitcount fills.
part(w, k, size) == {b - k * size : b \in w \cap (k * size)..(k * size + size - 1)}
compute_bits(size) == [chunk \in SUBSET (0..(size - 1)) |-> Cardinality(chunk)]
bits_in_char   == compute_bits(Width \div 4)
bits_in_16bits == compute_bits(Width \div 2)

precomputed_bitcount(w) == LET chunk(k) == part(w, k, Width \div 4)
                           IN  bits_in_char[chunk(0)] + bits_in_char[chunk(1)]
                                 + bits_in_char[chunk(2)] + bits_in_char[chunk(3)]
precomputed16_bitcount(w) == LET chunk(k) == part(w, k, Width \div 2)
                             IN  bits_in_16bits[chunk(0)] + bits_in_16bits[chunk(1)]

StartLoop(loop, w) == IF loop = "dense" THEN word' = invert(w) /\ ones' = Width
                                        ELSE word' = w /\ ones' = 0

BitsInit == /\ argument \in Arguments
            /\ pc = "iterated" /\ word = argument /\ ones = 0
            /\ returned = [loop \in Loops |-> -1]

\* Seeded bug: n is a signed int, whose shift copies the sign.
iterated_bitcountSigned == /\ pc = "iterated" /\ word # {}
                           /\ ones' = ones + (IF 0 \in word THEN 1 ELSE 0)
                           /\ word' = shift(word) \cup (word \cap {Width - 1})
                           /\ UNCHANGED <<argument, pc, returned>>

iterated_bitcount == /\ pc = "iterated" /\ word # {}
                     /\ ones' = ones + (IF 0 \in word THEN 1 ELSE 0)
                     /\ word' = shift(word)
                     /\ UNCHANGED <<argument, pc, returned>>

sparse_ones_bitcount == /\ pc = "sparse" /\ word # {}
                        /\ ones' = ones + 1
                        /\ word' = word \cap decrement(word)
                        /\ UNCHANGED <<argument, pc, returned>>

dense_ones_bitcount == /\ pc = "dense" /\ word # {}
                       /\ ones' = ones - 1
                       /\ word' = word \cap decrement(word)
                       /\ UNCHANGED <<argument, pc, returned>>

After == [iterated |-> "sparse", sparse |-> "dense", dense |-> "compare"]

\* A loop ends and verify_bitcounts calls the next function.
ReturnOnes == /\ pc \in Loops /\ word = {}
              /\ returned' = [returned EXCEPT ![pc] = ones]
              /\ pc' = After[pc]
              /\ IF pc' \in Loops THEN StartLoop(pc', argument) ELSE UNCHANGED <<word, ones>>
              /\ UNCHANGED argument

Agree == LET count == returned["iterated"]
             other == arithmetic[argument]
         IN  /\ count = returned["sparse"] /\ count = returned["dense"]
             /\ count = precomputed_bitcount(argument)
             /\ count = precomputed16_bitcount(argument)
             /\ count = other.parallel /\ count = other.nifty
             /\ other.mit = other.nifty

verify_bitcounts == /\ pc = "compare"
                    /\ pc' = IF Agree THEN "passed" ELSE "error"
                    /\ UNCHANGED <<argument, word, ones, returned>>

Verified == pc \in {"passed", "error"} /\ UNCHANGED bitVars

BitsNext == \/ iterated_bitcount \/ sparse_ones_bitcount \/ dense_ones_bitcount
            \/ ReturnOnes \/ verify_bitcounts \/ Verified

BitsSpec == BitsInit /\ [][BitsNext]_bitVars

BitsTypeOK == /\ argument \in Arguments /\ word \in SUBSET Bits /\ ones \in 0..Width
              /\ pc \in Loops \cup {"compare", "passed", "error"}
              /\ returned \in [Loops -> -1..Width]

\* No call of verify_bitcounts prints an ERROR: the eight functions agree, and what they
\* agree on is the number of ones.
AllAgree == /\ pc # "error"
            /\ pc = "passed" => returned["iterated"] = Cardinality(argument)

\* v is a smaller number than w: the highest bit in which they differ is one of w's.
Below(v, w) == \E b \in w \ v : \A c \in Bits : c > b => (c \in v <=> c \in w)

\* Every iteration leaves a smaller n, whatever the loop: `while (n)' ends for every
\* argument, those with the highest bit set included.
LoopsDescend == [][(pc \in Loops /\ pc' = pc) => Below(word', word)]_bitVars
=============================================================================
