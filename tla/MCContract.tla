----------------------------- MODULE MCContract -----------------------------
(***************************************************************************)
(* Small instances of SlashSureContract for TLC.  Each configuration turns *)
(* one side of the contract up and the others down.                        *)
(***************************************************************************)
EXTENDS SlashSureContract, TLC

CONSTANTS a1, a2, c1, c2, k1, k2, p1, p2, p3

\* Answers of the language model in range and out of it.
MCRawBps     == {-1, 800, 20000}
MCRawAmounts == {-1, 1, 2, 9}

\* Stakes at risk: a negative one; one whose share is rounded; and one whose
\* share is at times too large for a float.
MCStakes == {-30, 170, 300}

SlashingSymmetry == Permutations({a1, a2}) \cup Permutations({c1, c2})
AddressSymmetry  == Permutations({a1, a2})
ClaimsSymmetry   == Permutations({p1, p2, p3})
=============================================================================
