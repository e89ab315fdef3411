----------------------------- MODULE MachineInt -----------------------------
(***************************************************************************)
(* The integers of the code, which are the durations as well.              *)
(***************************************************************************)
EXTENDS Integers

CONSTANT MaxInt   \* the largest one

ASSUME MaxIntAssumption == MaxInt \in Nat \ {0}

\* Sums and products wrap around.
Wrapped(n) == ((n + MaxInt + 1) % (2 * (MaxInt + 1))) - (MaxInt + 1)

Least(a, b) == IF a <= b THEN a ELSE b
Greatest(a, b) == IF a <= b THEN b ELSE a

=============================================================================
