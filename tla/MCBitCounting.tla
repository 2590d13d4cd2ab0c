---------------------------- MODULE MCBitCounting ----------------------------
(* The arguments of the run: main's two fixed ones, every byte, every power  *)
(* of two and its neighbours, and every SampleStep-th word.                  *)
EXTENDS BitCounting

SampleStep == 101
SampleArguments == {WordOf(v) : v \in
  {UINT_MAX} \cup 0..255
    \cup UNION {{2^b - 1, 2^b, UINT_MAX - 2^b} : b \in Bits}
    \cup {v \in 0..UINT_MAX : v % SampleStep = 0}}
=============================================================================
