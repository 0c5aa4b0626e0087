------------------------------ MODULE SlashMath ------------------------------
(***************************************************************************)
(* The arithmetic of the SlashSure contract that takes no decision of its  *)
(* own: how a fault verdict becomes a recommended action and a number of   *)
(* basis points, and what a slash costs in reputation.                     *)
(* Scores are integers in 0..100; a slash is expressed in basis points of  *)
(* the stake at risk (10000 bps = the whole stake).                        *)
(***************************************************************************)
EXTENDS Integers

Score   == 0..100
FullBps == 10000

\* SlashSureContract._clamp, and the max(lo, min(hi, v)) idiom around it.
Clamp(v, lo, hi) == IF v < lo THEN lo ELSE IF v > hi THEN hi ELSE v

\* int(bps * 0.75): three quarters, rounded down.
Discounted(bps) == (3 * bps) \div 4

\* A slip: the offset of one piece pasted into the next.
RawBpsWrongOffset(fp, cf) ==
  CASE cf < 60 -> 0
    [] cf >= 60 /\ fp < 40 -> IF 4 * fp < 50 THEN 50 ELSE 4 * fp
    [] cf >= 60 /\ fp \in 40..65 -> 200 + (fp - 40) * 15
    [] cf >= 60 /\ fp \in 66..84 -> 600 + (fp - 40) * 47
    [] OTHER -> 1500 + (fp - 85) * 56

(***************************************************************************)
(* The piecewise-linear schedule of generate_slash_recommendation.  The    *)
(* source calls it a function of the fault probability and the severity;   *)
(* it reads the fault probability and the confidence.                      *)
(***************************************************************************)
RawBps(fp, cf) ==
  CASE cf < 60 -> 0
    [] cf >= 60 /\ fp < 40 -> IF 4 * fp < 50 THEN 50 ELSE 4 * fp
    [] cf >= 60 /\ fp \in 40..65 -> 200 + (fp - 40) * 15
    [] cf >= 60 /\ fp \in 66..84 -> 600 + (fp - 66) * 47
    [] OTHER -> 1500 + (fp - 85) * 56

\* The schedule after the reputation discount and the governed cap.
SlashBps(fp, cf, reputation, cap) ==
  LET raw == RawBps(fp, cf)
  IN  Clamp(IF reputation > 85 THEN Discounted(raw) ELSE raw, 0, cap)

\* A slip: the last comparison reversed.
RecommendedActionReversed(fp, sv) ==
  CASE fp < 25 -> "dismiss"
    [] fp \in 25..39 -> "monitor"
    [] fp >= 40 /\ (fp < 55 \/ sv < 40) -> "slash_low"
    [] fp \in 55..69 /\ sv \in 40..69 -> "slash_medium"
    [] fp >= 85 /\ sv \in 40..84 -> "slash_critical"
    [] OTHER -> "slash_high"

\* The action analyze_fault derives from the two scores of a verdict.
RecommendedAction(fp, sv) ==
  CASE fp < 25 -> "dismiss"
    [] fp \in 25..39 -> "monitor"
    [] fp >= 40 /\ (fp < 55 \/ sv < 40) -> "slash_low"
    [] fp \in 55..69 /\ sv \in 40..69 -> "slash_medium"
    [] fp >= 85 /\ sv >= 85 -> "slash_critical"
    [] OTHER -> "slash_high"

\* execute_slashing's reputation penalty; count includes the present slash.
ReputationAfterSlash(reputation, count) ==
  Clamp(reputation - (15 + count * 5), 0, 100)
=============================================================================
