---------------------------- MODULE FloatDivision ----------------------------
(***************************************************************************)
(* int((bps * stake) / 10000): a slash amount is a quotient of integers    *)
(* taken in floating point and then cut off.  The stakes are amounts of    *)
(* wei, far above the integers a float holds exactly, so the amount is not *)
(* the exact share; and nothing asks that the stake is not negative.       *)
(*                                                                         *)
(* The floats between two powers of two are evenly spaced.  A float is     *)
(* written here as an integer number of parts, each 1/Significands; below  *)
(* the power u the spacing is u parts.  Python's quotient of two integers  *)
(* is the float nearest the exact one, the even one of two as near; it     *)
(* raises OverflowError when there is no float as large.                   *)
(***************************************************************************)
EXTENDS SlashMath

CONSTANTS
  Significands,  \* the floats between 0 and a power of two evenly spaced by
                 \* the last of them: 2^53 in Python
  Powers         \* the powers of two: 1, 2, ..., 2^1024 in Python

ASSUME FloatAssumption ==
  /\ Significands \in Nat \ {0}
  /\ Significands % 2 = 0
  /\ Powers \subseteq Nat \ {0}
  /\ 1 \in Powers
  /\ \A u \in Powers : u = 1 \/ u % 2 = 0
  /\ \A u, v \in Powers : u < v => 2 * u <= v

NonNegative(x) == IF x < 0 THEN 0 ELSE x

Magnitude(x) == IF x < 0 THEN -x ELSE x

\* n / FullBps is below u, and not below half of u unless u is 1.
Bracket(n, u) ==
  /\ n < FullBps * u
  /\ u = 1 \/ FullBps * (u \div 2) <= n

\* The quotient has a float near it (the last half-spacing below the largest
\* power, where Python raises as well, is not told apart).
Divisible(n) == \E u \in Powers : Bracket(Magnitude(n), u)

Spacing(n) == CHOOSE u \in Powers : Bracket(n, u)

\* The integer nearest p / d, the even one of two as near.
Nearest(p, d) ==
  LET q == p \div d
      r == p % d
  IN  IF 2 * r > d \/ (2 * r = d /\ q % 2 = 1) THEN q + 1 ELSE q

\* The float nearest n / FullBps, in parts.
Rounded(n) == Nearest(n * Significands, FullBps * Spacing(n)) * Spacing(n)

\* int() of the float nearest n / FullBps: cut off towards zero.
Quotient(n) ==
  LET whole == Rounded(Magnitude(n)) \div Significands
  IN  IF n < 0 THEN -whole ELSE whole

\* What a reduction on appeal stores.
SlashAmount(bps, stake) == Quotient(bps * stake)

\* What a recommendation stores: the same held at zero.
RecommendedAmount(bps, stake) == NonNegative(SlashAmount(bps, stake))
=============================================================================
