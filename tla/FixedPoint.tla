----------------------------- MODULE FixedPoint -----------------------------
(***************************************************************************)
(* The engine's Python floats, modelled as fixed-point numbers: the value  *)
(* v is the integer v * Unit.  Products and quotients are rounded toward   *)
(* zero, so a rounded magnitude never exceeds the exact one.  Sums and     *)
(* comparisons are exact.                                                  *)
(***************************************************************************)
LOCAL INSTANCE Integers

CONSTANT Unit   \* the resolution of a float: 1 / Unit
ASSUME Unit \in Nat \ {0}

AbsInt(a) == IF a < 0 THEN -a ELSE a

(* a / b for integers, rounded toward zero. *)
TruncDiv(a, b) ==
  LET q == AbsInt(a) \div AbsInt(b)
  IN  IF (a < 0) = (b < 0) THEN q ELSE -q

FromInt(n) == n * Unit
FMul(a, b) == TruncDiv(a * b, Unit)
FDiv(a, b) == TruncDiv(a * Unit, b)
=============================================================================
