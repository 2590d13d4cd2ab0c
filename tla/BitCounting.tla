----------------------------- MODULE BitCounting -----------------------------
(***************************************************************************)
(* 05_bit_counting/reference.cpp with the three functions that calculate     *)
(* with the word as a number: its masks and constants, which say 32 in the   *)
(* code, are functions of Width here (TLC's own integers cannot hold 32      *)
(* bits).  BitLoops has the other five and the comparison.                  *)
(***************************************************************************)
EXTENDS BitLoops, Bitwise

CONSTANT LogWidth   \* the rounds of parallel_bitcount: Width is 2^LogWidth

UINT_MAX == 2^Width - 1

Value(w) == MapThenSumSet(LAMBDA b : 2^b, w)
WordOf(v) == {b \in Bits : (v \div 2^b) % 2 = 1}

\* Sets are words: on the sets, the operations of BitLoops do what those of C do.
ASSUME BitCountingAssumption ==
  /\ Width = 2^LogWidth /\ LogWidth \in 3..4
  /\ \A w \in Arguments :
       LET v == Value(w)
       IN  /\ WordOf(v) = w
           /\ Value(invert(w)) = v ^^ UINT_MAX
           /\ Value(shift(w)) = shiftR(v, 1)
           /\ w # {} => Value(decrement(w)) = v - 1
           /\ \A k \in 0..3 : Value(part(w, k, Width \div 4))
                                = shiftR(v, k * (Width \div 4)) % 2^(Width \div 4)

MASK(c) == UINT_MAX \div (2^(2^c) + 1)
COUNT(v, c) == ((v & MASK(c)) + (shiftR(v, 2^c) & MASK(c))) % 2^Width

\* rounds[k]: v after COUNT(v, 0), ..., COUNT(v, k - 1)
Rounds(v) == LET rounds[k \in 0..LogWidth] == IF k = 0 THEN v ELSE COUNT(rounds[k - 1], k - 1)
             IN  rounds
parallel_bitcount(v) == Rounds(v)[LogWidth]
nifty_bitcount(v) == Rounds(v)[3] % 255

Octal(first, base) ==   \* the constant whose digits in the base are all `first'
  (((base^((Width \div (IF base = 8 THEN 3 ELSE 6)) + 1) - 1) \div (base - 1)) * first) % 2^Width

\* Seeded bug: the remainder of the base instead of the base minus one.
mit_bitcountBase(v) ==
  LET tmp == v - (shiftR(v, 1) & Octal(3, 8)) - (shiftR(v, 2) & Octal(1, 8))
  IN  ((tmp + shiftR(tmp, 3)) & Octal(7, 64)) % 64

mit_bitcount(v) ==
  LET tmp == v - (shiftR(v, 1) & Octal(3, 8)) - (shiftR(v, 2) & Octal(1, 8))
  IN  ((tmp + shiftR(tmp, 3)) & Octal(7, 64)) % 63

arithmeticOf == [w \in Arguments |-> LET v == Value(w)
                                     IN  [parallel |-> parallel_bitcount(v),
                                          nifty |-> nifty_bitcount(v),
                                          mit |-> mit_bitcount(v)]]
=============================================================================
