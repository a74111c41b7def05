-------------------------------- MODULE Dec --------------------------------
(***************************************************************************)
(* The sdk.Dec fixed-point numbers of the Cosmos SDK, as x/orderbook and   *)
(* x/orders use them: a decimal is the integer it is stored as, its value  *)
(* times Precision (10^18 in the SDK, a parameter here).  External code.   *)
(***************************************************************************)
EXTENDS Integers

CONSTANT Precision

ASSUME PrecisionAssumption == Precision \in Nat \ {0}

\* x / y rounded to the nearest integer, a tie to the even neighbour.
RoundHalfEven(x, y) ==
    LET q == x \div y
        r == 2 * (x % y)
    IN  IF r > y \/ (r = y /\ q % 2 = 1) THEN q + 1 ELSE q

NewDec(n) == n * Precision

Mul(a, b) == RoundHalfEven(a * b, Precision)

Quo(a, b) == RoundHalfEven(a * Precision, b)

RoundInt(a) == RoundHalfEven(a, Precision)

Ceil(a) == NewDec((a + Precision - 1) \div Precision)
============================================================================
