-------------------------------- MODULE Tally --------------------------------
(***************************************************************************)
(* Sums of natural-valued functions.  The sum of f is counted, not folded: *)
(* f[x] units <<x, 1>>, ..., <<x, f[x]>> stand for the value at x, and the *)
(* sum is the number of units.  Written this way a sum is a cardinality,   *)
(* and what it does when f changes at one point follows from the laws of   *)
(* finite sets alone.                                                      *)
(***************************************************************************)
EXTENDS Integers, FiniteSets

Units(f) == UNION {{x} \X (1..f[x]) : x \in DOMAIN f}

TotalOf(f) == Cardinality(Units(f))
=============================================================================
