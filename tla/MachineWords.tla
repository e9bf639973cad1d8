---------------------------- MODULE MachineWords ----------------------------
(***************************************************************************)
(* The arithmetic of std::uint64_t, in which rule functions and their      *)
(* helpers count, index and compare: a sum and a difference wrap around.   *)
(***************************************************************************)
EXTENDS Naturals

CONSTANT WordSize  \* 2^64

ASSUME WordAssumption == WordSize \in Nat \ {0, 1}

Words == 0 .. WordSize - 1

Plus(a, b) == (a + b) % WordSize
Minus(a, b) == IF b <= a THEN a - b ELSE (a + WordSize) - b
=============================================================================
