------------------------------- MODULE Uint16 -------------------------------
(* Go's uint16 arithmetic, which wraps; the largest value is a constant.   *)
EXTENDS Naturals

CONSTANT MaxUint16      \* 65535

ASSUME Uint16Assumption == MaxUint16 \in Nat \ {0, 1}

Uint16(n) == n % (MaxUint16 + 1)

Inc(n) == IF n = MaxUint16 THEN 0 ELSE n + 1

Dec(n) == IF n = 0 THEN MaxUint16 ELSE n - 1
=============================================================================
