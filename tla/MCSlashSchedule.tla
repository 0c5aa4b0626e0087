--------------------------- MODULE MCSlashSchedule ---------------------------
(***************************************************************************)
(* A walk over the scores of a verdict.  Each step raises one score by one *)
(* point, so that what a worse verdict does to the slash is an action      *)
(* property, over all 101 x 101 pairs of scores.  The stakes at risk are   *)
(* read off the same walk.                                                 *)
(***************************************************************************)
EXTENDS FloatDivision

CONSTANTS Confidences, Reputations, Caps, Stakes

ASSUME ScheduleAssumption ==
  /\ Confidences \subseteq Int
  /\ Reputations \subseteq Int
  /\ Caps \subseteq 0..FullBps
  /\ Stakes \subseteq Int

\* Stakes for TLC: a negative one, whose amount would be; small ones; and one
\* far above what the small significand of the instance holds exactly.
MCStakes == {-50, 1, 7, 99, 20000}

VARIABLES fp, sv, cf, reputation, cap

inputs == <<fp, sv, cf, reputation, cap>>

WalkInit ==
  /\ fp = 0
  /\ sv = 0
  /\ cf \in Confidences
  /\ reputation \in Reputations
  /\ cap \in Caps

RaiseFault ==
  /\ fp < 100
  /\ fp' = fp + 1
  /\ UNCHANGED <<sv, cf, reputation, cap>>

RaiseSeverity ==
  /\ sv < 100
  /\ sv' = sv + 1
  /\ UNCHANGED <<fp, cf, reputation, cap>>

WalkNext == RaiseFault \/ RaiseSeverity

WalkSpec == WalkInit /\ [][WalkNext]_inputs

bps    == SlashBps(fp, cf, reputation, cap)
action == RecommendedAction(fp, sv)

Rank(a) == CASE a = "dismiss"      -> 0
             [] a = "monitor"      -> 1
             [] a = "slash_low"    -> 2
             [] a = "slash_medium" -> 3
             [] a = "slash_high"   -> 4
             [] OTHER              -> 5

\* A recommendation can compute the amount of the stake: the division does not
\* raise.
Computable(stake) == Divisible(bps * stake)

\* A higher fault probability never earns a smaller slash: the pieces of
\* generate_slash_recommendation's schedule join upwards, before and after
\* the discount is rounded, and the rounding of the quotient, coarser for the
\* larger amount, does not turn them over.
ScheduleMonotone ==
  [][/\ bps' >= bps
     /\ \A stake \in Stakes :
          Computable(stake) /\ Computable(stake)' =>
            RecommendedAmount(bps', stake) >= RecommendedAmount(bps, stake)]_inputs

\* A verdict that is worse in one score never gets a milder action: the
\* if/elif ladder of analyze_fault has no step down.
LadderMonotone == [][Rank(action') >= Rank(action)]_inputs

\* Taken in floating point, the amount is not the exact share and may be above
\* it; it is off by one part in Significands at most, besides what int() cuts
\* off, and never above the stake.  A negative stake, which nothing rejects,
\* is slashed by nothing.  The discount for a good reputation is a quarter at
\* most.
AmountNearShare ==
  /\ \A stake \in Stakes : Computable(stake) =>
       LET amount == RecommendedAmount(bps, stake)
       IN  /\ stake <= 0 => amount = 0
           /\ stake >= 0 =>
                /\ amount \in 0..stake
                /\ amount * (FullBps * Significands)
                     <= (bps * stake) * (Significands + 1) + FullBps
                /\ (bps * stake) * (Significands - 1)
                     < (amount + 1) * (FullBps * Significands)
  /\ 4 * (bps + 1) > 3 * SlashBps(fp, cf, 0, cap)
=============================================================================
