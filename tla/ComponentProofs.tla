--------------------------- MODULE ComponentProofs ---------------------------
(***************************************************************************)
(* Proofs about the components that stand alone: risk prediction, the      *)
(* schedule of slashes, the pool of database connections, accounts and the *)
(* event feed.  They share no state, and what is proved about one is said  *)
(* of its own specification.                                               *)
(***************************************************************************)
EXTENDS RiskEngine, MCSlashSchedule, DbPool, Accounts, EventFeed,
        ArithmeticProofs, SequenceTheorems

-----------------------------------------------------------------------------
(***************************************************************************)
(* Risk prediction.                                                        *)
(***************************************************************************)
LEMMA NumberOfOne == ASSUME NEW n PROVE Number({n}) = n
BY DEF Number

\* The leader reads two scores that bound each other, and the second reading
\* finds them as the leader left them.
LEMMA ReadTwice ==
  ASSUME NEW a \in ModelAnswer, Readable(a)
  PROVE  LET raw == Leader(a)
             p   == SecondReading(raw)
         IN  /\ p \in Prediction
             /\ p.sp <= p.fp
             /\ raw.fp = {p.fp} /\ raw.sp = {p.sp} /\ raw.trend = p.trend
<1>1. PICK m \in Int, n \in Int : a.fp = {m} /\ a.sp = {n}
  BY RiskAssumption DEF ModelAnswer, Readable
<1>2. PICK fpScore : fpScore = Clamp(m, 0, 100)
  OBVIOUS
<1>3. PICK spScore : spScore = Clamp(n, 0, fpScore)
  OBVIOUS
<1>4. fpScore \in 0..100 /\ spScore \in 0..fpScore /\ spScore \in 0..100
  BY <1>2, <1>3 DEF Clamp
<1>5. PICK trend : trend = KnownTrend(a.trend)
  OBVIOUS
<1>6. trend \in Trends /\ KnownTrend(trend) = trend
  BY <1>5 DEF KnownTrend, Trends
<1>7. PICK raw : raw = Leader(a)
  OBVIOUS
<1>8. raw = [fp |-> {fpScore}, sp |-> {spScore}, trend |-> trend]
  BY <1>1, <1>2, <1>3, <1>5, <1>7, NumberOfOne DEF Leader, Bounded
<1>9. raw.fp = {fpScore} /\ raw.sp = {spScore} /\ raw.trend = trend
  BY <1>8
<1>10. SafeInt(raw.fp, 20) = fpScore /\ SafeInt(raw.sp, 5) = spScore
  <2>1. raw.fp # {} /\ raw.sp # {} /\ Number(raw.fp) = fpScore /\ Number(raw.sp) = spScore
    BY <1>9, NumberOfOne
  <2> QED BY <1>4, <2>1 DEF SafeInt, Clamp
<1>11. Clamp(spScore, 0, fpScore) = spScore
  BY <1>4 DEF Clamp
<1>12. PICK p : p = SecondReading(raw)
  OBVIOUS
<1>13. p = [exists |-> TRUE, fp |-> fpScore, trend |-> trend, sp |-> spScore]
  BY <1>6, <1>9, <1>10, <1>11, <1>12 DEF SecondReading
<1>14. p \in Prediction /\ p.sp <= p.fp /\ p.fp = fpScore /\ p.sp = spScore /\ p.trend = trend
  BY <1>4, <1>6, <1>13 DEF Prediction, Score
<1> QED BY <1>7, <1>9, <1>12, <1>14

RiskInv == RiskTypeOK /\ PredictionsAgree

LEMMA RiskStarts == RiskInit => RiskInv
<1> SUFFICES ASSUME RiskInit PROVE RiskInv
  OBVIOUS
<1>1. RiskTypeOK
  <2>1. 0 \in Score
    BY DEF Score
  <2> QED BY <2>1 DEF RiskInit, RiskTypeOK
<1>2. PredictionsAgree
  BY DEF RiskInit, PredictionsAgree, NoPrediction
<1> QED BY <1>1, <1>2 DEF RiskInv

LEMMA RiskGoesOn ==
  ASSUME RiskInv, [RiskNext]_riskVars
  PROVE  RiskInv'
<1> USE DEF RiskInv, RiskTypeOK
<1>1. ASSUME NEW o \in Addresses, RegisterOperator(o) PROVE RiskInv'
  BY <1>1 DEF RegisterOperator, PredictionsAgree
<1>2. ASSUME NEW o \in Addresses, NEW n \in Numbers, ComputeReputation(o, n)
      PROVE  RiskInv'
  <2>1. PICK risk \in Score : risk = Clamp(n, 0, 100)
    BY RiskAssumption DEF Score, Clamp
  <2>2. operator' = [operator EXCEPT ![o] = [operator[o] EXCEPT !.risk = risk]]
    BY <1>2, <2>1 DEF ComputeReputation, Scored
  <2> QED BY <1>2, <2>1, <2>2 DEF ComputeReputation, PredictionsAgree
<1>3. ASSUME NEW o \in Addresses, NEW a \in ModelAnswer, PredictRisk(o, a)
      PROVE  RiskInv'
  <2>1. PICK p : p = SecondReading(Leader(a))
    OBVIOUS
  <2>2. /\ prediction' = [prediction EXCEPT ![o] = p]
        /\ operator' = [operator EXCEPT ![o].predicted = p.sp]
        /\ UNCHANGED paused /\ Readable(a)
    BY <1>3, <2>1 DEF PredictRisk
  <2>3. p \in Prediction /\ p.sp <= p.fp
    BY <2>1, <2>2, ReadTwice
  <2>4. p.exists /\ p.sp \in Score
    BY <2>3 DEF Prediction
  <2> QED BY <2>2, <2>3, <2>4 DEF PredictionsAgree
<1>4. ASSUME NEW pause \in BOOLEAN, SetPause(pause) PROVE RiskInv'
  BY <1>4 DEF SetPause, PredictionsAgree
<1>5. CASE UNCHANGED riskVars
  BY <1>5 DEF riskVars, PredictionsAgree
<1> QED BY <1>1, <1>2, <1>3, <1>4, <1>5 DEF RiskNext

\* The operator's record repeats the prediction beside it, whatever the model has
\* answered to whichever of the two calls (slash_sure.py:1352, 1418-1422).
THEOREM PredictionsKept == RiskSpec => []PredictionsAgree
<1>1. RiskInit => RiskInv
  BY RiskStarts
<1>2. RiskInv /\ [RiskNext]_riskVars => RiskInv'
  BY RiskGoesOn
<1>3. RiskInv => PredictionsAgree
  BY DEF RiskInv
<1> QED BY <1>1, <1>2, <1>3, PTL DEF RiskSpec

\* What is stored is what the leader returned and the validators compared: the
\* second reading changes nothing, and its defaults are never used
\* (slash_sure.py:1369-1382, 1390-1400).
THEOREM StoredUnchanged == RiskSpec => StoredAsCompared
<1>1. RiskInv /\ [RiskNext]_riskVars =>
        [\A o \in Addresses : prediction'[o] # prediction[o] =>
           \A a \in ModelAnswer : PredictRisk(o, a) =>
             LET raw == Leader(a)
                 p   == prediction'[o]
             IN  raw.fp = {p.fp} /\ raw.sp = {p.sp} /\ raw.trend = p.trend]_riskVars
  <2> SUFFICES ASSUME RiskInv, NEW o \in Addresses, NEW a \in ModelAnswer,
                      PredictRisk(o, a)
               PROVE  LET raw == Leader(a)
                          p   == prediction'[o]
                      IN  raw.fp = {p.fp} /\ raw.sp = {p.sp} /\ raw.trend = p.trend
    OBVIOUS
  <2>1. prediction'[o] = SecondReading(Leader(a)) /\ Readable(a)
    BY DEF PredictRisk, RiskInv, RiskTypeOK
  <2> QED BY <2>1, ReadTwice
<1>2. RiskInit => RiskInv
  BY RiskStarts
<1>3. RiskInv /\ [RiskNext]_riskVars => RiskInv'
  BY RiskGoesOn
<1> QED BY <1>1, <1>2, <1>3, PTL DEF RiskSpec, StoredAsCompared

-----------------------------------------------------------------------------
(***************************************************************************)
(* The schedule of slashes.                                                *)
(***************************************************************************)
\* Named, so that a lemma about them is found by their names.
Percent     == 0..100
BasisPoints == {n \in Nat : n <= 10000}

LEMMA CapsAreBps == Caps \subseteq BasisPoints
<1> SUFFICES ASSUME NEW c \in Caps PROVE c \in BasisPoints
  OBVIOUS
<1>1. FullBps \in Int
  BY DEF FullBps
<1>2. c \in Int /\ 0 <= c /\ c <= FullBps
  BY <1>1, ScheduleAssumption
<1> QED BY <1>2 DEF BasisPoints, FullBps

WalkInv == /\ fp \in 0..100 /\ sv \in 0..100
           /\ cf \in Int /\ reputation \in Int /\ cap \in BasisPoints

\* The pieces of the schedule join upwards.
LEMMA RawBpsRises ==
  ASSUME NEW low, NEW high, NEW c,
         low \in 0..100, high \in 0..100, c \in Int,
         low <= high
  PROVE  /\ RawBps(low, c) \in Nat
         /\ RawBps(high, c) \in Nat
         /\ RawBps(low, c) <= RawBps(high, c)
BY DEF RawBps

LEMMA DiscountBounds ==
  ASSUME NEW raw,
         raw \in Nat
  PROVE  /\ Discounted(raw) \in 0..raw
         /\ 4 * (Discounted(raw) + 1) > 3 * raw
BY DEF Discounted

LEMMA DiscountRises ==
  ASSUME NEW low, NEW high,
         low \in Nat, high \in Nat,
         low <= high
  PROVE  Discounted(low) <= Discounted(high)
BY DEF Discounted

\* So does the cap.
LEMMA ClampRises ==
  ASSUME NEW x \in Nat, NEW y \in Nat, NEW top \in Int,
         0 <= top, top <= 10000, x <= y
  PROVE  /\ Clamp(x, 0, top) \in Nat /\ Clamp(x, 0, top) <= 10000
         /\ Clamp(y, 0, top) \in Nat /\ Clamp(y, 0, top) <= 10000
         /\ Clamp(x, 0, top) <= Clamp(y, 0, top)
<1>1. Clamp(x, 0, top) = IF x > top THEN top ELSE x
  BY DEF Clamp
<1>2. Clamp(y, 0, top) = IF y > top THEN top ELSE y
  BY DEF Clamp
<1> QED BY <1>1, <1>2

\* So do they after the discount and under the cap.
LEMMA SlashBpsRises ==
  ASSUME NEW low, NEW high, NEW c, NEW rep, NEW top,
         low \in Percent, high \in Percent, c \in Int, rep \in Int, top \in BasisPoints,
         low <= high
  PROVE  /\ SlashBps(low, c, rep, top) \in BasisPoints
         /\ SlashBps(high, c, rep, top) \in BasisPoints
         /\ SlashBps(low, c, rep, top) <= SlashBps(high, c, rep, top)
<1>1. PICK a \in Nat, b \in Nat :
        a = RawBps(low, c) /\ b = RawBps(high, c) /\ a <= b
  BY RawBpsRises DEF Percent
<1>2. PICK d : d = Discounted(a)
  OBVIOUS
<1>3. PICK e : e = Discounted(b)
  OBVIOUS
<1>4. d \in Nat /\ e \in Nat /\ d <= e
  BY <1>1, <1>2, <1>3, DiscountBounds, DiscountRises
<1>5. PICK x : x = IF rep > 85 THEN d ELSE a
  OBVIOUS
<1>6. PICK y : y = IF rep > 85 THEN e ELSE b
  OBVIOUS
<1>7. x \in Nat /\ y \in Nat /\ x <= y
  BY <1>1, <1>4, <1>5, <1>6
<1>8. /\ SlashBps(low, c, rep, top) = Clamp(x, 0, top)
      /\ SlashBps(high, c, rep, top) = Clamp(y, 0, top)
  BY <1>1, <1>2, <1>3, <1>5, <1>6, Zenon DEF SlashBps
<1>9. /\ Clamp(x, 0, top) \in BasisPoints
      /\ Clamp(y, 0, top) \in BasisPoints
      /\ Clamp(x, 0, top) <= Clamp(y, 0, top)
  <2>1. top \in Int /\ 0 <= top /\ top <= 10000
    BY DEF BasisPoints
  <2> QED BY <1>7, <2>1, ClampRises DEF BasisPoints
<1> QED BY <1>8, <1>9

\* The discount costs a quarter at most.
LEMMA DiscountLimited ==
  ASSUME NEW f, NEW c, NEW rep, NEW top,
         f \in Percent, c \in Int, rep \in Int, top \in BasisPoints
  PROVE  4 * (SlashBps(f, c, rep, top) + 1) > 3 * SlashBps(f, c, 0, top)
<1>1. PICK a \in Nat : a = RawBps(f, c)
  <2>1. f <= f
    BY DEF Percent
  <2> QED BY <2>1, RawBpsRises DEF Percent
<1>2. PICK d : d = Discounted(a)
  OBVIOUS
<1>3. d \in Nat /\ d <= a /\ 4 * (d + 1) > 3 * a
  BY <1>1, <1>2, DiscountBounds
<1> QED BY <1>1, <1>2, <1>3 DEF SlashBps, Clamp, BasisPoints

\* The schedule ends at 2340 basis points.
LEMMA SlashBpsLimited ==
  ASSUME NEW f \in Percent, NEW c \in Int, NEW rep \in Int, NEW top \in BasisPoints
  PROVE  SlashBps(f, c, rep, top) \in Nat /\ SlashBps(f, c, rep, top) <= 2340
<1>1. PICK a : a = RawBps(f, c)
  OBVIOUS
<1>2. a \in Nat /\ a <= 2340
  BY <1>1 DEF RawBps, Percent
<1>3. PICK d : d = Discounted(a)
  OBVIOUS
<1>4. d \in Nat /\ d <= a
  BY <1>2, <1>3, DiscountBounds
<1>5. PICK x : x = IF rep > 85 THEN d ELSE a
  OBVIOUS
<1>6. x \in Nat /\ x <= 2340
  BY <1>2, <1>4, <1>5
<1>7. SlashBps(f, c, rep, top) = Clamp(x, 0, top)
  BY <1>1, <1>3, <1>5, Zenon DEF SlashBps
<1> QED BY <1>6, <1>7 DEF Clamp, BasisPoints

\* So the amount is within the stake, although the quotient may be rounded up.
LEMMA AmountWithinStake ==
  ASSUME NEW b \in Nat, b <= 2340, NEW stake \in Nat, Divisible(b * stake)
  PROVE  SlashAmount(b, stake) \in 0..stake
<1>1. PICK amount \in Nat : amount = SlashAmount(b, stake)
  BY AmountNear
<1>2. PICK s \in Nat : s = Significands /\ s >= 2
  BY FloatAssumption
<1>3. amount * (10000 * s) <= (b * stake) * (s + 1) + 10000
  BY <1>1, <1>2, AmountNear DEF FullBps
<1>4. b * stake \in Nat /\ b * stake <= 2340 * stake
  BY TimesMonotone
<1>5. (b * stake) * (s + 1) <= (2340 * stake) * (s + 1)
  BY <1>2, <1>4, TimesMonotone
<1>6. amount * (10000 * s) <= (2340 * stake) * (s + 1) + 10000
  BY <1>2, <1>3, <1>4, <1>5
<1>7. amount <= stake
  <2> SUFFICES ASSUME stake + 1 <= amount PROVE FALSE
    BY <1>1
  <2>1. (stake + 1) * (10000 * s) <= amount * (10000 * s)
    BY <1>2, TimesMonotone
  <2>2. PICK x \in Nat : x = stake * s
    BY <1>2
  <2>3. /\ (stake + 1) * (10000 * s) = 10000 * x + 10000 * s
        /\ (2340 * stake) * (s + 1) = 2340 * x + 2340 * stake
    BY <1>2, <2>2
  <2>4. 2 * stake <= x
    BY <1>2, <2>2, TimesMonotone
  <2> QED BY <1>2, <1>6, <2>1, <2>2, <2>3, <2>4
<1> QED BY <1>1, <1>7

LEMMA LadderRises ==
  ASSUME NEW f, NEW g, NEW s, NEW t,
         f \in 0..100, g \in 0..100, s \in 0..100, t \in 0..100,
         f <= g, s <= t
  PROVE  Rank(RecommendedAction(f, s)) <= Rank(RecommendedAction(g, t))
BY DEF Rank, RecommendedAction

LEMMA WalkStep ==
  ASSUME WalkInv, [WalkNext]_inputs
  PROVE  /\ WalkInv'
         /\ fp <= fp' /\ sv <= sv' /\ UNCHANGED <<cf, reputation, cap>>
<1>1. CASE RaiseFault
  BY <1>1 DEF WalkInv, RaiseFault
<1>2. CASE RaiseSeverity
  BY <1>2 DEF WalkInv, RaiseSeverity
<1>3. CASE UNCHANGED inputs
  BY <1>3 DEF WalkInv, inputs
<1> QED BY <1>1, <1>2, <1>3 DEF WalkNext

LEMMA WalkInductive == WalkSpec => []WalkInv
<1>1. WalkInit => WalkInv
  BY CapsAreBps, ScheduleAssumption DEF WalkInit, WalkInv
<1>2. WalkInv /\ [WalkNext]_inputs => WalkInv'
  BY WalkStep
<1> QED BY <1>1, <1>2, PTL DEF WalkSpec

\* Whatever confidences, reputations, caps and stakes there are, and however coarse
\* the floats: a recommended amount is the share the basis points stand for but for
\* one part in Significands, never above the stake and never negative, and the
\* discount is at most a quarter (slash_sure.py:721-736).
THEOREM AmountsNearShares == WalkSpec => []AmountNearShare
<1>1. WalkInv => AmountNearShare
  <2> SUFFICES ASSUME WalkInv PROVE AmountNearShare
    OBVIOUS
  <2>1. /\ fp \in Percent /\ cf \in Int /\ reputation \in Int /\ cap \in BasisPoints
    BY DEF WalkInv, Percent, BasisPoints
  <2>2. PICK b : b = bps
    OBVIOUS
  <2>3. b \in Nat /\ b <= 2340
    BY <2>1, <2>2, SlashBpsLimited DEF bps
  <2>4. 4 * (b + 1) > 3 * SlashBps(fp, cf, 0, cap)
    BY <2>1, <2>2, DiscountLimited DEF bps
  <2>5. ASSUME NEW stake \in Stakes, Divisible(b * stake)
        PROVE  LET amount == RecommendedAmount(b, stake)
               IN  /\ stake <= 0 => amount = 0
                   /\ stake >= 0 =>
                        /\ amount \in 0..stake
                        /\ amount * (FullBps * Significands)
                             <= (b * stake) * (Significands + 1) + FullBps
                        /\ (b * stake) * (Significands - 1)
                             < (amount + 1) * (FullBps * Significands)
    <3>1. stake \in Int
      BY ScheduleAssumption
    <3>2. stake <= 0 => RecommendedAmount(b, stake) = 0
      BY <2>3, <2>5, <3>1, AmountType
    <3>3. ASSUME stake >= 0
          PROVE  /\ stake \in Nat /\ RecommendedAmount(b, stake) = SlashAmount(b, stake)
                 /\ SlashAmount(b, stake) \in 0..stake
      BY <2>3, <2>5, <3>1, <3>3, AmountType, AmountWithinStake
    <3> QED BY <2>3, <2>5, <3>2, <3>3, AmountNear
  <2> QED BY <2>2, <2>4, <2>5 DEF AmountNearShare, Computable
<1> QED BY <1>1, WalkInductive, PTL

\* A higher fault probability never earns a smaller slash, in basis points or, of the
\* same stake, in the amount as it is rounded (slash_sure.py:721-736).
THEOREM ScheduleRises == WalkSpec => ScheduleMonotone
<1>1. WalkInv /\ [WalkNext]_inputs =>
        [/\ bps' >= bps
         /\ \A stake \in Stakes :
              Computable(stake) /\ Computable(stake)' =>
                RecommendedAmount(bps', stake) >= RecommendedAmount(bps, stake)]_inputs
  <2> SUFFICES ASSUME WalkInv, [WalkNext]_inputs
               PROVE  /\ bps' >= bps
                      /\ \A stake \in Stakes :
                           Computable(stake) /\ Computable(stake)' =>
                             RecommendedAmount(bps', stake) >= RecommendedAmount(bps, stake)
    OBVIOUS
  <2>1. /\ fp \in Percent /\ fp' \in Percent /\ fp <= fp' /\ cf \in Int /\ reputation \in Int
        /\ cap \in BasisPoints /\ cf' = cf /\ reputation' = reputation /\ cap' = cap
    BY WalkStep DEF WalkInv, Percent, BasisPoints
  <2>2. /\ SlashBps(fp, cf, reputation, cap) \in BasisPoints
        /\ SlashBps(fp', cf, reputation, cap) \in BasisPoints
        /\ SlashBps(fp, cf, reputation, cap) <= SlashBps(fp', cf, reputation, cap)
    BY ONLY <2>1, SlashBpsRises
  <2>3. bps \in Nat /\ bps' \in Nat /\ bps <= bps'
    BY <2>1, <2>2 DEF bps, BasisPoints
  <2>4. ASSUME NEW stake \in Stakes, Computable(stake), Computable(stake)'
        PROVE  RecommendedAmount(bps', stake) >= RecommendedAmount(bps, stake)
    <3>1. stake \in Int /\ Divisible(bps * stake) /\ Divisible(bps' * stake)
      BY <2>4, ScheduleAssumption DEF Computable
    <3>2. /\ RecommendedAmount(bps, stake) <= RecommendedAmount(bps', stake)
          /\ RecommendedAmount(bps, stake) \in Nat /\ RecommendedAmount(bps', stake) \in Nat
      BY <2>3, <3>1, AmountMonotone, AmountType
    <3> QED BY <3>2
  <2> QED BY <2>3, <2>4
<1> QED BY <1>1, WalkInductive, PTL DEF WalkSpec, ScheduleMonotone

\* A verdict that is worse in one score never gets a milder action
\* (slash_sure.py:628-639).
THEOREM LadderClimbs == WalkSpec => LadderMonotone
<1>1. WalkInv /\ [WalkNext]_inputs =>
        [Rank(action') >= Rank(action)]_inputs
  <2> SUFFICES ASSUME WalkInv, [WalkNext]_inputs
               PROVE  Rank(action') >= Rank(action)
    OBVIOUS
  <2>1. Rank(RecommendedAction(fp, sv)) <= Rank(RecommendedAction(fp', sv'))
    <3>1. /\ fp \in 0..100 /\ sv \in 0..100 /\ fp' \in 0..100 /\ sv' \in 0..100
          /\ fp <= fp' /\ sv <= sv'
      BY WalkStep DEF WalkInv
    <3> QED BY <3>1, LadderRises
  <2> QED BY <2>1 DEF action, Rank
<1> QED BY <1>1, WalkInductive, PTL DEF WalkSpec, LadderMonotone

-----------------------------------------------------------------------------
(***************************************************************************)
(* The pool of database connections.                                       *)
(***************************************************************************)
\* Where a handler can be: what is left of its plan, and what it holds there.
Taking(p, h) ==
  \/ p = <<"take", "commit">> /\ h = 0
  \/ p = <<"take", "commit", "take", "take", "close", "chain", "commit">> /\ h = 0
  \/ p = <<"take", "take", "close", "chain", "commit">> /\ h = 0
  \/ p = <<"take", "close", "chain", "commit">> /\ h = 1
  \/ p = <<"take", "chain", "commit", "take", "commit">> /\ h = 0
  \/ p = <<"take", "chain", "close">> /\ h = 0
  \/ p = <<"take", "close", "chain", "take", "commit">> /\ h = 0

Giving(p, h) ==
  \/ p = <<"commit">> /\ h = 1
  \/ p = <<"close">> /\ h = 1
  \/ p = <<"commit", "take", "take", "close", "chain", "commit">> /\ h = 1
  \/ p = <<"close", "chain", "commit">> /\ h = 2
  \/ p = <<"close", "chain", "take", "commit">> /\ h = 1
  \/ p = <<"commit", "take", "commit">> /\ h = 1

Waiting(p, h) ==
  \/ p = <<"chain", "commit">> /\ h = 1
  \/ p = <<"chain", "close">> /\ h = 1
  \/ p = <<"chain", "take", "commit">> /\ h = 0
  \/ p = <<"chain", "commit", "take", "commit">> /\ h = 1

Place(p, h) == Taking(p, h) \/ Giving(p, h) \/ Waiting(p, h) \/ (p = <<>> /\ h = 0)

\* Every plan starts with nothing held, and a step of a plan ends where the plan
\* can be: nothing is given back that was not taken.
LEMMA PlansStart == \A steps \in Plans : Place(steps, 0)
BY DEF Plans, QueryPlan, CreatePlan, StakePlan, EvidencePlan,
       PredictPlan, ReputationPlan, Place, Taking

LEMMA PlanWords == Plans \subseteq Seq({"take", "commit", "close", "chain"})
<1> DEFINE Words == {"take", "commit", "close", "chain"}
<1>1. QueryPlan \in Seq(Words)
  BY DEF QueryPlan
<1>2. CreatePlan \in Seq(Words)
  BY DEF CreatePlan
<1>3. StakePlan \in Seq(Words)
  BY DEF StakePlan
<1>4. EvidencePlan \in Seq(Words)
  BY DEF EvidencePlan
<1>5. PredictPlan \in Seq(Words)
  BY DEF PredictPlan
<1>6. ReputationPlan \in Seq(Words)
  BY DEF ReputationPlan
<1> QED BY <1>1, <1>2, <1>3, <1>4, <1>5, <1>6 DEF Plans

LEMMA TakingStep ==
  ASSUME NEW p, NEW h, Taking(p, h)
  PROVE  /\ p # <<>> /\ Head(p) = "take" /\ h \in 0..1
         /\ Giving(Tail(p), h + 1) \/ Taking(Tail(p), h + 1) \/ Waiting(Tail(p), h + 1)
<1>1. CASE p = <<"take", "commit">> /\ h = 0
  BY <1>1 DEF Giving
<1>2. CASE p = <<"take", "commit", "take", "take", "close", "chain", "commit">> /\ h = 0
  BY <1>2 DEF Giving
<1>3. CASE p = <<"take", "take", "close", "chain", "commit">> /\ h = 0
  BY <1>3 DEF Taking
<1>4. CASE p = <<"take", "close", "chain", "commit">> /\ h = 1
  BY <1>4 DEF Giving
<1>5. CASE p = <<"take", "chain", "commit", "take", "commit">> /\ h = 0
  BY <1>5 DEF Waiting
<1>6. CASE p = <<"take", "chain", "close">> /\ h = 0
  BY <1>6 DEF Waiting
<1>7. CASE p = <<"take", "close", "chain", "take", "commit">> /\ h = 0
  BY <1>7 DEF Giving
<1> QED BY <1>1, <1>2, <1>3, <1>4, <1>5, <1>6, <1>7 DEF Taking

LEMMA GivingStep ==
  ASSUME NEW p, NEW h, Giving(p, h)
  PROVE  /\ p # <<>> /\ Head(p) \in {"commit", "close"} /\ h \in 1..2
         /\ Place(Tail(p), h - 1)
<1>1. CASE p = <<"commit">> /\ h = 1
  BY <1>1 DEF Place
<1>2. CASE p = <<"close">> /\ h = 1
  BY <1>2 DEF Place
<1>3. CASE p = <<"commit", "take", "take", "close", "chain", "commit">> /\ h = 1
  BY <1>3 DEF Place, Taking
<1>4. CASE p = <<"close", "chain", "commit">> /\ h = 2
  BY <1>4 DEF Place, Waiting
<1>5. CASE p = <<"close", "chain", "take", "commit">> /\ h = 1
  BY <1>5 DEF Place, Waiting
<1>6. CASE p = <<"commit", "take", "commit">> /\ h = 1
  BY <1>6 DEF Place, Taking
<1> QED BY <1>1, <1>2, <1>3, <1>4, <1>5, <1>6 DEF Giving

LEMMA WaitingStep ==
  ASSUME NEW p, NEW h, Waiting(p, h)
  PROVE  /\ p # <<>> /\ Head(p) = "chain" /\ h \in 0..1
         /\ Place(Tail(p), h)
<1>1. CASE p = <<"chain", "commit">> /\ h = 1
  BY <1>1 DEF Place, Giving
<1>2. CASE p = <<"chain", "close">> /\ h = 1
  BY <1>2 DEF Place, Giving
<1>3. CASE p = <<"chain", "take", "commit">> /\ h = 0
  BY <1>3 DEF Place, Taking
<1>4. CASE p = <<"chain", "commit", "take", "commit">> /\ h = 1
  BY <1>4 DEF Place, Giving
<1> QED BY <1>1, <1>2, <1>3, <1>4 DEF Waiting

\* So a step is of the kind its first word names.
LEMMA PlaceStep ==
  ASSUME NEW p, NEW h, Place(p, h)
  PROVE  /\ h \in 0..2
         /\ p = <<>> => h = 0
         /\ p # <<>> /\ Head(p) = "take" => Place(Tail(p), h + 1)
         /\ p # <<>> /\ Head(p) \in {"commit", "close"} => h > 0 /\ Place(Tail(p), h - 1)
         /\ p # <<>> /\ Head(p) = "chain" => Place(Tail(p), h)
<1>1. CASE Taking(p, h)
  <2>1. Place(Tail(p), h + 1)
    BY <1>1, TakingStep DEF Place
  <2>2. p # <<>> /\ Head(p) = "take" /\ h \in 0..1
    BY <1>1, TakingStep
  <2> QED BY <2>1, <2>2
<1>2. CASE Giving(p, h)
  BY <1>2, GivingStep
<1>3. CASE Waiting(p, h)
  BY <1>3, WaitingStep
<1>4. CASE p = <<>> /\ h = 0
  BY <1>4
<1> QED BY <1>1, <1>2, <1>3, <1>4 DEF Place

PoolInv ==
  /\ PoolTypeOK
  /\ free + TotalOf(held) = PoolSize
  /\ \A r \in Handlers : Place(plan[r], held[r])
  /\ \A r \in Handlers : answer[r] # "none" => held[r] = 0

LEMMA PoolStarts == PoolInit => PoolInv
<1> SUFFICES ASSUME PoolInit PROVE PoolInv
  OBVIOUS
<1>1. PoolTypeOK
  BY PoolAssumption DEF PoolInit, PoolTypeOK
<1>2. TotalOf(held) = 0
  BY TotalZero DEF PoolInit
<1>3. \A r \in Handlers : Place(plan[r], held[r]) /\ held[r] = 0
  BY DEF PoolInit, Place
<1> QED BY PoolAssumption, <1>1, <1>2, <1>3 DEF PoolInv, PoolInit

\* One request changes what it holds, and the pool by as much: the rest of the
\* invariant is about that request alone.
LEMMA PoolChange ==
  ASSUME PoolInv, NEW r \in Handlers, NEW p, NEW h, NEW a,
         p \in Seq({"take", "commit", "close", "chain"}), Place(p, h),
         a \in {"new", "none", "done", "error"}, a # "none" => h = 0,
         plan' = [plan EXCEPT ![r] = p],
         held' = [held EXCEPT ![r] = h],
         answer' = [answer EXCEPT ![r] = a],
         free' = free + held[r] - h, free' >= 0
  PROVE  PoolInv'
<1>1. /\ plan \in [Handlers -> Seq({"take", "commit", "close", "chain"})]
      /\ held \in [Handlers -> 0..2]
      /\ answer \in [Handlers -> {"new", "none", "done", "error"}]
      /\ free \in 0..PoolSize /\ PoolSize \in Nat /\ IsFiniteSet(Handlers)
  BY PoolAssumption DEF PoolInv, PoolTypeOK
<1>2. h \in 0..2 /\ h \in Nat
  <2>1. h \in 0..2
    BY PlaceStep
  <2> QED BY ONLY <2>1
<1>3. held' \in [Handlers -> 0..2] /\ held'[r] = h
  BY <1>1, <1>2
<1>4. held \in [Handlers -> Nat] /\ held' \in [Handlers -> Nat]
  <2>1. 0..2 \subseteq Nat
    OBVIOUS
  <2> QED BY ONLY <1>1, <1>3, <2>1
<1>5. TotalOf(held') = TotalOf(held) - held[r] + h
  <2>1. \A q \in Handlers \ {r} : held'[q] = held[q]
    BY ONLY <1>4, held' = [held EXCEPT ![r] = h]
  <2>2. PICK f : f = held
    OBVIOUS
  <2>3. PICK g : g = held'
    OBVIOUS
  <2>4. TotalOf(g) = TotalOf(f) - f[r] + g[r]
    <3>1. /\ f \in [Handlers -> Nat] /\ g \in [Handlers -> Nat]
          /\ \A q \in Handlers \ {r} : g[q] = f[q]
      BY <1>4, <2>1, <2>2, <2>3
    <3> QED BY ONLY <3>1, PoolAssumption, TotalUpdate, r \in Handlers
  <2> QED BY <1>3, <2>2, <2>3, <2>4
<1>6. TotalOf(held) \in Nat /\ TotalOf(held') \in Nat
  BY <1>1, <1>4, TotalBounds
<1>7. free + TotalOf(held) = PoolSize
  BY DEF PoolInv
<1>8. free' + TotalOf(held') = PoolSize /\ free' \in 0..PoolSize
  <2>1. held[r] \in Nat /\ h \in Nat /\ free \in Nat /\ PoolSize \in Nat
    BY ONLY <1>1, <1>2, <1>4, r \in Handlers
  <2> QED BY <1>5, <1>6, <1>7, <2>1
<1>9. PoolTypeOK'
  BY <1>1, <1>3, <1>8 DEF PoolTypeOK
<1>10. \A q \in Handlers : Place(plan'[q], held'[q])
  BY <1>1 DEF PoolInv
<1>11. \A q \in Handlers : answer'[q] # "none" => held'[q] = 0
  BY <1>1 DEF PoolInv
<1> QED BY <1>8, <1>9, <1>10, <1>11 DEF PoolInv

LEMMA PoolGoesOn ==
  ASSUME PoolInv, [PoolNext]_poolVars
  PROVE  PoolInv'
<1> DEFINE Words == {"take", "commit", "close", "chain"}
<1>0. /\ plan \in [Handlers -> Seq(Words)] /\ held \in [Handlers -> 0..2]
      /\ answer \in [Handlers -> {"new", "none", "done", "error"}]
      /\ free \in Nat
      /\ \A r \in Handlers : Place(plan[r], held[r])
      /\ \A r \in Handlers : answer[r] # "none" => held[r] = 0
  BY PoolAssumption DEF PoolInv, PoolTypeOK
<1>1. ASSUME NEW r \in Handlers, NEW steps \in Plans, Enter(r, steps)
      PROVE  PoolInv'
  <2>1. steps \in Seq(Words)
    BY PlanWords
  <2>2. Place(steps, 0) /\ held[r] = 0
    BY <1>0, <1>1, PlansStart DEF Enter
  <2>3. /\ plan' = [plan EXCEPT ![r] = steps] /\ held' = [held EXCEPT ![r] = 0]
        /\ answer' = [answer EXCEPT ![r] = "none"] /\ free' = free + held[r] - 0
        /\ free' >= 0
    BY <1>0, <1>1, <2>2 DEF Enter
  <2> QED BY <1>0, <2>1, <2>2, <2>3, PoolChange
<1>2. ASSUME NEW r \in Handlers, TakeConnection(r)
      PROVE  PoolInv'
  <2>0. answer[r] = "none" /\ UNCHANGED answer
    BY <1>2 DEF TakeConnection, At, Advance, Available
  <2>1. /\ plan' = [plan EXCEPT ![r] = Tail(plan[r])]
        /\ held' = [held EXCEPT ![r] = held[r] + 1]
        /\ answer' = [answer EXCEPT ![r] = "none"]
        /\ free' = free + held[r] - (held[r] + 1) /\ free' >= 0
    <3>1. plan' = [plan EXCEPT ![r] = Tail(plan[r])]
      BY <1>2 DEF TakeConnection, At, Advance, Available
    <3>2. held' = [held EXCEPT ![r] = held[r] + 1]
      BY <1>0, <1>2 DEF TakeConnection, At, Advance, Available
    <3>3. answer' = [answer EXCEPT ![r] = "none"]
      BY <1>0, <2>0
    <3>4. free' = free + held[r] - (held[r] + 1) /\ free' >= 0
      <4>1. free \in Nat /\ held[r] \in Int
        BY <1>0
      <4> QED BY <4>1, <1>2 DEF TakeConnection, At, Advance, Available
    <3> QED BY <3>1, <3>2, <3>3, <3>4
  <2>2. plan[r] # <<>> /\ Head(plan[r]) = "take" /\ Tail(plan[r]) \in Seq(Words)
    BY <1>0, <1>2 DEF TakeConnection, At
  <2>3. Place(Tail(plan[r]), held[r] + 1)
    BY <1>0, <2>2, PlaceStep
  <2> QED BY <2>1, <2>2, <2>3, PoolChange
<1>3. ASSUME NEW r \in Handlers, Commit(r) \/ Close(r)
      PROVE  PoolInv'
  <2>0. answer[r] = "none" /\ UNCHANGED answer
    BY <1>3 DEF Commit, Close, At, Advance, GiveBack
  <2>1. /\ plan' = [plan EXCEPT ![r] = Tail(plan[r])]
        /\ held' = [held EXCEPT ![r] = held[r] - 1]
        /\ answer' = [answer EXCEPT ![r] = "none"]
        /\ free' = free + held[r] - (held[r] - 1) /\ free' >= 0
    <3>1. plan' = [plan EXCEPT ![r] = Tail(plan[r])]
      BY <1>3 DEF Commit, Close, At, Advance, GiveBack
    <3>2. held' = [held EXCEPT ![r] = held[r] - 1]
      BY <1>0, <1>3 DEF Commit, Close, At, Advance, GiveBack
    <3>3. answer' = [answer EXCEPT ![r] = "none"]
      BY <1>0, <2>0
    <3>4. free' = free + held[r] - (held[r] - 1) /\ free' >= 0
      <4>1. free \in Nat /\ held[r] \in Int
        BY <1>0
      <4> QED BY <4>1, <1>3 DEF Commit, Close, At, Advance, GiveBack
    <3> QED BY <3>1, <3>2, <3>3, <3>4
  <2>2. plan[r] # <<>> /\ Head(plan[r]) \in {"commit", "close"} /\ Tail(plan[r]) \in Seq(Words)
    BY <1>0, <1>3 DEF Commit, Close, At
  <2>3. Place(Tail(plan[r]), held[r] - 1)
    BY <1>0, <2>2, PlaceStep
  <2> QED BY <2>1, <2>2, <2>3, PoolChange
<1>4. ASSUME NEW r \in Handlers, Chain(r)
      PROVE  PoolInv'
  <2>0. answer[r] = "none" /\ UNCHANGED answer
    BY <1>4 DEF Chain, At, Advance
  <2>1. /\ plan' = [plan EXCEPT ![r] = Tail(plan[r])]
        /\ held' = [held EXCEPT ![r] = held[r]]
        /\ answer' = [answer EXCEPT ![r] = "none"]
        /\ free' = free + held[r] - held[r] /\ free' >= 0
    <3>1. plan' = [plan EXCEPT ![r] = Tail(plan[r])]
      BY <1>4 DEF Chain, At, Advance
    <3>2. held' = [held EXCEPT ![r] = held[r]]
      BY <1>0, <1>4 DEF Chain, At, Advance
    <3>3. answer' = [answer EXCEPT ![r] = "none"]
      BY <1>0, <2>0
    <3>4. free' = free + held[r] - held[r] /\ free' >= 0
      <4>1. free \in Nat /\ held[r] \in Int
        BY <1>0
      <4> QED BY <4>1, <1>4 DEF Chain, At, Advance
    <3> QED BY <3>1, <3>2, <3>3, <3>4
  <2>2. plan[r] # <<>> /\ Head(plan[r]) = "chain" /\ Tail(plan[r]) \in Seq(Words)
    BY <1>0, <1>4 DEF Chain, At
  <2>3. Place(Tail(plan[r]), held[r])
    BY <1>0, <2>2, PlaceStep
  <2> QED BY <2>1, <2>2, <2>3, PoolChange
<1>5. ASSUME NEW r \in Handlers, Finish(r)
      PROVE  PoolInv'
  <2>1. plan[r] = <<>> /\ held[r] = 0 /\ Place(<<>>, 0) /\ <<>> \in Seq(Words)
    BY <1>0, <1>5, PlaceStep DEF Finish, Place
  <2>2. /\ plan' = [plan EXCEPT ![r] = <<>>]
        /\ held' = [held EXCEPT ![r] = 0]
        /\ answer' = [answer EXCEPT ![r] = "done"]
        /\ free' = free + held[r] - 0 /\ free' >= 0
    BY <1>0, <1>5, <2>1 DEF Finish
  <2> QED BY <2>1, <2>2, PoolChange
<1>6. ASSUME NEW r \in Handlers, Raise(r)
      PROVE  PoolInv'
  <2>1. Place(<<>>, 0) /\ <<>> \in Seq(Words)
    BY DEF Place
  <2>2. /\ plan' = [plan EXCEPT ![r] = <<>>]
        /\ held' = [held EXCEPT ![r] = 0]
        /\ answer' = [answer EXCEPT ![r] = "error"]
        /\ free' = free + held[r] - 0 /\ free' >= 0
    BY <1>0, <1>6 DEF Raise, CloseAll
  <2> QED BY <2>1, <2>2, PoolChange
<1>7. CASE UNCHANGED poolVars
  BY <1>7 DEF PoolInv, PoolTypeOK, poolVars
<1> QED BY <1>1, <1>2, <1>3, <1>4, <1>5, <1>6, <1>7
        DEF PoolNext, Step, TimeOut, Break

\* Connections are neither lost nor given back twice, whichever handlers run and
\* wherever they raise or run out of time, and who has its answer holds none
\* (base.py:28-37).
THEOREM PoolBalanced == PoolSpec => []Balanced
<1>1. PoolInit => PoolInv
  BY PoolStarts
<1>2. PoolInv /\ [PoolNext]_poolVars => PoolInv'
  BY PoolGoesOn
<1>3. PoolInv => Balanced
  BY DEF PoolInv, Balanced
<1> QED BY <1>1, <1>2, <1>3, PTL DEF PoolSpec

-----------------------------------------------------------------------------
(***************************************************************************)
(* Accounts.                                                               *)
(***************************************************************************)
Columns == {"exists", "password", "verified", "verifyToken", "resetToken",
            "keyPassword", "master", "member"}

\* A row is known by its columns.
LEMMA AccountColumns ==
  ASSUME NEW a \in Account
  PROVE  /\ DOMAIN a = Columns
         /\ a.exists = TRUE /\ a.password \in Passwords /\ a.verified \in BOOLEAN
         /\ a.verifyToken \in Tokens /\ a.resetToken \in Tokens
         /\ a.keyPassword \in Passwords /\ a.master \in BOOLEAN /\ a.member \in BOOLEAN
BY DEF Account, Columns

\* What a handler writes: its own value where it has assigned one, and what is
\* in the table elsewhere.
LEMMA WrittenBack ==
  ASSUME NEW now \in Account, NEW read \in Account, NEW row \in Account,
         NEW fresh \in SUBSET {"password"},
         NEW w, w = [column \in DOMAIN now |->
                       IF row[column] = read[column] /\ column \notin fresh
                       THEN now[column] ELSE row[column]]
  PROVE  /\ w \in Account
         /\ w.password \in {now.password, row.password}
         /\ row.password = read.password /\ fresh = {} => w.password = now.password
         /\ w.verified = IF row.verified = read.verified THEN now.verified ELSE row.verified
         /\ w.verifyToken = IF row.verifyToken = read.verifyToken
                            THEN now.verifyToken ELSE row.verifyToken
         /\ w.resetToken = IF row.resetToken = read.resetToken
                           THEN now.resetToken ELSE row.resetToken
         /\ w.master = IF row.master = read.master THEN now.master ELSE row.master
         /\ w.member = IF row.member = read.member THEN now.member ELSE row.member
<1>1. DOMAIN now = Columns
  BY AccountColumns
<1>2. \A column \in Columns :
        w[column] = IF row[column] = read[column] /\ column \notin fresh
                    THEN now[column] ELSE row[column]
  BY <1>1
<1>3. /\ w.exists = TRUE
      /\ w.password \in Passwords /\ w.verified \in BOOLEAN
      /\ w.verifyToken \in Tokens /\ w.resetToken \in Tokens
      /\ w.keyPassword \in Passwords /\ w.master \in BOOLEAN /\ w.member \in BOOLEAN
  BY <1>2, AccountColumns DEF Columns
<1>4. w = [exists |-> w.exists, password |-> w.password, verified |-> w.verified,
           verifyToken |-> w.verifyToken, resetToken |-> w.resetToken,
           keyPassword |-> w.keyPassword, master |-> w.master, member |-> w.member]
  BY <1>1 DEF Columns
<1>5. w \in Account
  BY <1>3, <1>4 DEF Account
<1> QED BY <1>2, <1>5 DEF Columns

-----------------------------------------------------------------------------
\* What a handler knows between reading and writing: it has read the row of an
\* account, which is there as long as the handler runs.
RequestFits(r) ==
  request[r] # NoRequest =>
    /\ request[r].pc = "write" /\ request[r].kind # "register" =>
         request[r].row \in Account /\ Exists(request[r].email)
    /\ request[r].pc = "write" /\ request[r].kind \in {"register", "reset"} =>
         request[r].password \in Passwords
    /\ request[r].pc = "mail" => request[r].token # 0

AccountInv ==
  /\ AccountTypeOK
  /\ AccountsUsable
  /\ \A r \in Requests : RequestFits(r)

LEMMA NoAccountIsNone ==
  ASSUME NEW e \in Emails, account[e] \in Account \cup {NoAccount}
  PROVE  Exists(e) <=> account[e] \in Account
<1>1. CASE account[e] \in Account
  BY <1>1, AccountColumns DEF Exists
<1>2. CASE account[e] = NoAccount
  <2>1. ~account[e].exists
    BY <1>2 DEF NoAccount
  <2>2. account[e] \notin Account
    BY <2>1, AccountColumns
  <2> QED BY <2>1, <2>2 DEF Exists
<1> QED BY <1>1, <1>2

LEMMA NoRequestIsNone == \A q \in Request : q # NoRequest
<1> SUFFICES ASSUME NEW q \in Request PROVE q # NoRequest
  OBVIOUS
<1>1. q.pc # NoRequest.pc
  BY DEF Request, NoRequest
<1> QED BY <1>1

LEMMA AccountStarts == AccountInit => AccountInv
<1> SUFFICES ASSUME AccountInit PROVE AccountInv
  OBVIOUS
<1>1. 0 \in Tokens
  BY AccountAssumption DEF Tokens
<1>2. \A p \in Passwords : Earlier(p) \in Account /\ Earlier(p).member /\ Earlier(p).verified
  BY <1>1 DEF Earlier, Account
<1>3. account \in [Emails -> Account \cup {NoAccount}]
  BY <1>2 DEF AccountInit
<1>4. AccountTypeOK
  BY <1>1, <1>3 DEF AccountTypeOK, AccountInit
<1>5. AccountsUsable
  BY <1>2 DEF AccountInit, AccountsUsable, Exists, NoAccount
<1>6. \A r \in Requests : RequestFits(r)
  BY DEF AccountInit, RequestFits
<1> QED BY <1>4, <1>5, <1>6 DEF AccountInv

\* The tables and the other requests stay; one request begins.
LEMMA BeginKeeps ==
  ASSUME AccountInv, NEW r \in Requests, NEW kind \in Kinds, NEW e \in Emails,
         NEW p \in Passwords \cup {"none"}, NEW t \in Tokens,
         NEW a \in {"none", "ok", "refused", "error"},
         a = "none" /\ kind # "register" => Exists(e),
         kind \in {"register", "reset"} => p \in Passwords,
         Begin(r, kind, e, p, t, a)
  PROVE  AccountInv' /\ UNCHANGED <<account, mailed, tokens>>
<1>1. /\ UNCHANGED <<account, mailed, tokens>>
      /\ request \in [Requests -> Request \cup {NoRequest}]
      /\ account \in [Emails -> Account \cup {NoAccount}]
  BY DEF Begin, AccountInv, AccountTypeOK
<1>2. PICK pc : pc = IF a = "none" THEN "write" ELSE "ended"
  OBVIOUS
<1>3. pc \in {"write", "mail", "ended"} /\ pc # "mail" /\ (pc = "write" => a = "none")
  BY <1>2
<1>4. PICK q : q = [pc |-> pc, kind |-> kind, email |-> e, password |-> p, token |-> t,
                    row |-> account[e], answer |-> a]
  OBVIOUS
<1>5. request' = [request EXCEPT ![r] = q]
  BY <1>2, <1>4 DEF Begin
<1>6. q \in Request
  BY <1>1, <1>3, <1>4 DEF Request
<1>7. AccountTypeOK'
  BY <1>1, <1>5, <1>6 DEF AccountInv, AccountTypeOK
<1>8. AccountsUsable'
  BY <1>1 DEF AccountInv, AccountsUsable, Exists
<1>9. RequestFits(r)'
  <2>1. q.pc = pc /\ q.kind = kind /\ q.email = e /\ q.password = p /\ q.row = account[e]
    BY <1>4
  <2>2. Exists(e) => account[e] \in Account
    BY <1>1, NoAccountIsNone
  <2>3. request'[r] = q /\ Exists(e)' = Exists(e)
    BY <1>1, <1>5 DEF Exists
  <2> QED BY <1>3, <2>1, <2>2, <2>3 DEF RequestFits, Exists
<1>10. ASSUME NEW o \in Requests, o # r PROVE RequestFits(o)'
  <2>1. request'[o] = request[o]
    BY <1>1, <1>5, <1>10
  <2>2. RequestFits(o)
    BY DEF AccountInv
  <2> QED BY <1>1, <2>1, <2>2 DEF RequestFits, Exists
<1> QED BY <1>1, <1>7, <1>8, <1>9, <1>10 DEF AccountInv

\* Who has not begun or is through no longer counts: the handler that ends keeps
\* nothing, and the one that goes on to mail has a token to send.
LEMMA EndKeeps ==
  ASSUME AccountInv, NEW r \in Requests, request[r] # NoRequest,
         NEW a \in {"none", "ok", "refused", "error"}, Answer(r, a),
         AccountTypeOK', AccountsUsable',
         \A e \in Emails : Exists(e) => Exists(e)'
  PROVE  AccountInv'
<1>1. request \in [Requests -> Request \cup {NoRequest}]
  BY DEF AccountInv, AccountTypeOK
<1>2. request'[r].pc = "ended"
  BY <1>1 DEF Answer, Request
<1>3. RequestFits(r)'
  BY <1>2 DEF RequestFits
<1>4. ASSUME NEW o \in Requests, o # r PROVE RequestFits(o)'
  <2>1. request'[o] = request[o]
    BY <1>1, <1>4 DEF Answer
  <2>2. RequestFits(o) /\ (request[o] # NoRequest => request[o].email \in Emails)
    BY <1>1 DEF AccountInv, Request
  <2> QED BY <2>1, <2>2 DEF RequestFits
<1> QED BY <1>3, <1>4 DEF AccountInv

\* What answers and mailings do to a request.
LEMMA AnswerType ==
  ASSUME AccountTypeOK, NEW r \in Requests, request[r] # NoRequest,
         NEW a \in {"none", "ok", "refused", "error"}, Answer(r, a)
  PROVE  request' \in [Requests -> Request \cup {NoRequest}]
<1>1. request[r] \in Request
  BY DEF AccountTypeOK
<1>2. PICK q : q = [request[r] EXCEPT !.pc = "ended", !.answer = a]
  OBVIOUS
<1>3. q \in Request
  BY <1>1, <1>2 DEF Request
<1>4. request' = [request EXCEPT ![r] = q]
  BY <1>2 DEF Answer, AccountTypeOK
<1> QED BY <1>3, <1>4 DEF AccountTypeOK

LEMMA MailingKeeps ==
  ASSUME AccountInv, NEW r \in Requests, request[r] # NoRequest,
         NewToken, Mailing(r), UNCHANGED mailed,
         account' \in [Emails -> Account \cup {NoAccount}], AccountsUsable',
         \A e \in Emails : Exists(e) => Exists(e)'
  PROVE  AccountInv'
<1>1. request \in [Requests -> Request \cup {NoRequest}] /\ request[r] \in Request
  BY DEF AccountInv, AccountTypeOK
<1>2. tokens' \in Tokens /\ tokens' # 0
  BY AccountAssumption DEF NewToken, Tokens, AccountInv, AccountTypeOK
<1>3. PICK q : q = [request[r] EXCEPT !.pc = "mail", !.token = tokens']
  OBVIOUS
<1>4. q \in Request /\ q.pc = "mail" /\ q.token = tokens'
  BY <1>1, <1>2, <1>3 DEF Request
<1>5. request' = [request EXCEPT ![r] = q]
  BY <1>1, <1>3 DEF Mailing
<1>6. AccountTypeOK'
  BY <1>1, <1>2, <1>4, <1>5 DEF AccountInv, AccountTypeOK
<1>7. RequestFits(r)'
  <2>1. request'[r] = q
    BY <1>1, <1>5
  <2> QED BY <1>2, <1>4, <2>1 DEF RequestFits
<1>8. ASSUME NEW o \in Requests, o # r PROVE RequestFits(o)'
  <2>1. request'[o] = request[o]
    BY <1>1, <1>5, <1>8
  <2>2. RequestFits(o) /\ (request[o] # NoRequest => request[o].email \in Emails)
    BY <1>1 DEF AccountInv, Request
  <2> QED BY <2>1, <2>2 DEF RequestFits
<1> QED BY <1>6, <1>7, <1>8 DEF AccountInv

\* What a step may do to accounts that are there.
StepKeeps ==
  \A e \in Emails : Exists(e) =>
    /\ Exists(e)'
    /\ account[e].verified => account'[e].verified
    /\ account[e].master => account'[e].master
    /\ \A t \in 1..tokens :
         /\ account[e].verifyToken # t => account'[e].verifyToken # t
         /\ account[e].resetToken # t => account'[e].resetToken # t

\* A handler that assigns only to make an account more usable than it has read it
\* leaves it no less usable than others have made it in between.
LEMMA WriteKeeps ==
  ASSUME AccountInv, NEW r \in Requests, request[r] # NoRequest,
         request[r].pc = "write", request[r].kind # "register",
         NEW row \in Account, NEW fresh \in SUBSET {"password"}, WriteBack(r, row, fresh),
         row.member = request[r].row.member,
         row.verified = request[r].row.verified \/ row.verified,
         row.master = request[r].row.master \/ row.master,
         \/ row.verifyToken = request[r].row.verifyToken
         \/ row.verifyToken # 0
         \/ row.verified /\ ~request[r].row.verified,
         row.verifyToken \in {request[r].row.verifyToken, 0, tokens + 1},
         row.resetToken \in {request[r].row.resetToken, 0, tokens + 1}
  PROVE  /\ account' \in [Emails -> Account \cup {NoAccount}]
         /\ AccountsUsable'
         /\ StepKeeps
         /\ \A e \in Emails : account'[e].password # account[e].password =>
              /\ e = Email(r) /\ (row.password # request[r].row.password \/ fresh # {})
              /\ account'[e].password = row.password
<1>1. /\ account \in [Emails -> Account \cup {NoAccount}]
      /\ request[r] \in Request
  BY DEF AccountInv, AccountTypeOK
<1>2. PICK e0 \in Emails : e0 = Email(r)
  BY <1>1 DEF Request, Email
<1>3. PICK read \in Account : read = request[r].row
  BY DEF AccountInv, RequestFits
<1>4. PICK now \in Account : now = account[e0]
  BY <1>1, <1>2, NoAccountIsNone DEF AccountInv, RequestFits, Email
<1>5. PICK w : w = [column \in DOMAIN now |->
                      IF row[column] = read[column] /\ column \notin fresh
                      THEN now[column] ELSE row[column]]
  OBVIOUS
<1>6. account' = [account EXCEPT ![e0] = w]
  BY <1>2, <1>3, <1>4, <1>5 DEF WriteBack
<1>6a. now \in Account /\ read \in Account /\ row \in Account /\ fresh \in SUBSET {"password"}
  OBVIOUS
<1>7. /\ w \in Account
      /\ w.password \in {now.password, row.password}
      /\ row.password = read.password /\ fresh = {} => w.password = now.password
      /\ w.verified = IF row.verified = read.verified THEN now.verified ELSE row.verified
      /\ w.verifyToken = IF row.verifyToken = read.verifyToken
                         THEN now.verifyToken ELSE row.verifyToken
      /\ w.resetToken = IF row.resetToken = read.resetToken
                        THEN now.resetToken ELSE row.resetToken
      /\ w.master = IF row.master = read.master THEN now.master ELSE row.master
      /\ w.member = IF row.member = read.member THEN now.member ELSE row.member
  BY ONLY <1>5, <1>6a, WrittenBack
<1>8. account' \in [Emails -> Account \cup {NoAccount}] /\ account'[e0] = w
      /\ \A e \in Emails : e # e0 => account'[e] = account[e]
  BY <1>1, <1>6, <1>7
<1>9. now.member /\ (now.verified \/ now.verifyToken # 0)
  BY <1>1, <1>4, NoAccountIsNone DEF AccountInv, AccountsUsable
<1>10. w.member /\ (w.verified \/ w.verifyToken # 0)
  BY <1>3, <1>7, <1>9, AccountColumns
<1>11. (now.verified => w.verified) /\ (now.master => w.master) /\ w.exists
  BY <1>3, <1>7, AccountColumns
<1>12. AccountsUsable'
  <2> SUFFICES ASSUME NEW e \in Emails, account'[e].exists
               PROVE  account'[e].member /\ (account'[e].verified \/ account'[e].verifyToken # 0)
    BY DEF AccountsUsable, Exists
  <2>1. CASE e = e0
    BY <1>8, <1>10, <2>1
  <2>2. CASE e # e0
    BY <1>8, <2>2 DEF AccountInv, AccountsUsable, Exists
  <2> QED BY <2>1, <2>2
<1>13. \A t \in 1..tokens : /\ now.verifyToken # t => w.verifyToken # t
                            /\ now.resetToken # t => w.resetToken # t
  <2>1. tokens \in Nat
    BY AccountAssumption DEF AccountInv, AccountTypeOK, Tokens
  <2>2. /\ w.verifyToken \in {now.verifyToken, 0, tokens + 1}
        /\ w.resetToken \in {now.resetToken, 0, tokens + 1}
    BY <1>3, <1>7
  <2> QED BY <2>1, <2>2
<1>14. StepKeeps
  BY <1>4, <1>8, <1>11, <1>13 DEF StepKeeps, Exists
<1>15. \A e \in Emails : account'[e].password # account[e].password =>
         /\ e = Email(r) /\ (row.password # request[r].row.password \/ fresh # {})
         /\ account'[e].password = row.password
  BY <1>2, <1>3, <1>4, <1>7, <1>8
<1> QED BY <1>8, <1>12, <1>14, <1>15

\* What NothingRevived says of a step.
NothingRevivedStep ==
  \A e \in Emails : Exists(e) =>
    /\ account[e].verified => account'[e].verified
    /\ account[e].master => account'[e].master
    /\ \A t \in 1..tokens :
         /\ account[e].verifyToken # t => account'[e].verifyToken # t
         /\ account[e].resetToken # t => account'[e].resetToken # t
    /\ account'[e].password # account[e].password =>
         \E r \in Requests :
           /\ Reset(r)
           /\ Email(r) = e
           /\ account'[e].password = request[r].password

\* A handler that writes, answers and leaves the password.
LEMMA WriterStep ==
  ASSUME AccountInv, NEW r \in Requests, NEW kind, Writing(r, kind), kind # "register",
         NEW row \in Account, NEW fresh \in SUBSET {"password"}, WriteBack(r, row, fresh),
         row.member = request[r].row.member,
         row.verified = request[r].row.verified \/ row.verified,
         row.master = request[r].row.master \/ row.master,
         \/ row.verifyToken = request[r].row.verifyToken
         \/ row.verifyToken # 0
         \/ row.verified /\ ~request[r].row.verified,
         row.verifyToken \in {request[r].row.verifyToken, 0, tokens + 1},
         row.resetToken \in {request[r].row.resetToken, 0, tokens + 1},
         \/ row.password = request[r].row.password /\ fresh = {}
         \/ Reset(r) /\ row.password = request[r].password,
         \/ Answer(r, "ok") /\ UNCHANGED <<mailed, tokens>>
         \/ NewToken /\ Mailing(r) /\ UNCHANGED mailed
  PROVE  AccountInv' /\ NothingRevivedStep
<1>1. request[r] # NoRequest /\ request[r].pc = "write" /\ request[r].kind # "register"
  BY DEF Writing
<1>2. /\ account' \in [Emails -> Account \cup {NoAccount}]
      /\ AccountsUsable'
      /\ StepKeeps
      /\ \A e \in Emails : account'[e].password # account[e].password =>
           /\ e = Email(r) /\ (row.password # request[r].row.password \/ fresh # {})
           /\ account'[e].password = row.password
  BY <1>1, WriteKeeps
<1>3. \A e \in Emails : Exists(e) => Exists(e)'
  BY <1>2 DEF StepKeeps
<1>4. AccountInv'
  <2>1. CASE Answer(r, "ok") /\ UNCHANGED <<mailed, tokens>>
    <3>1. request' \in [Requests -> Request \cup {NoRequest}]
      BY <1>1, <2>1, AnswerType DEF AccountInv
    <3>2. AccountTypeOK'
      BY <1>2, <2>1, <3>1 DEF AccountInv, AccountTypeOK
    <3> QED BY <1>1, <1>2, <1>3, <2>1, <3>2, EndKeeps
  <2>2. CASE NewToken /\ Mailing(r) /\ UNCHANGED mailed
    BY <1>1, <1>2, <1>3, <2>2, MailingKeeps
  <2> QED BY <2>1, <2>2
<1>5. NothingRevivedStep
  <2> SUFFICES ASSUME NEW e \in Emails, Exists(e)
               PROVE  /\ account[e].verified => account'[e].verified
                      /\ account[e].master => account'[e].master
                      /\ \A t \in 1..tokens :
                           /\ account[e].verifyToken # t => account'[e].verifyToken # t
                           /\ account[e].resetToken # t => account'[e].resetToken # t
                      /\ account'[e].password # account[e].password =>
                           \E o \in Requests :
                             /\ Reset(o)
                             /\ Email(o) = e
                             /\ account'[e].password = request[o].password
    BY DEF NothingRevivedStep
  <2>1. /\ account[e].verified => account'[e].verified
        /\ account[e].master => account'[e].master
        /\ \A t \in 1..tokens :
             /\ account[e].verifyToken # t => account'[e].verifyToken # t
             /\ account[e].resetToken # t => account'[e].resetToken # t
    BY <1>2 DEF StepKeeps
  <2>2. account'[e].password # account[e].password =>
          Reset(r) /\ Email(r) = e /\ account'[e].password = request[r].password
    BY <1>2
  <2> QED BY <2>1, <2>2
<1> QED BY <1>4, <1>5

LEMMA UnchangedAccounts == UNCHANGED account => NothingRevivedStep
BY DEF NothingRevivedStep

LEMMA AccountGoesOn ==
  ASSUME AccountInv, [AccountNext]_accountVars
  PROVE  AccountInv' /\ NothingRevivedStep
<1>0. /\ account \in [Emails -> Account \cup {NoAccount}]
      /\ request \in [Requests -> Request \cup {NoRequest}]
      /\ tokens \in Tokens
  BY DEF AccountInv, AccountTypeOK
<1>1. ASSUME NEW r \in Requests, NEW e \in Emails,
             BeginResend(r, e) \/ BeginForgot(r, e) \/ BeginProfile(r, e)
      PROVE  AccountInv' /\ UNCHANGED account
  <2>1. 0 \in Tokens
    BY AccountAssumption DEF Tokens
  <2>2. PICK kind \in {"resend", "forgot", "profile"}, a \in {"none", "ok"} :
          (a = "none" => Exists(e)) /\ Begin(r, kind, e, "none", 0, a)
    BY <1>1 DEF BeginResend, BeginForgot, BeginProfile
  <2>3. kind \in Kinds /\ kind \notin {"register", "reset"}
    BY <2>2 DEF Kinds
  <2> QED BY <2>1, <2>2, <2>3, BeginKeeps
<1>2. ASSUME NEW r \in Requests, NEW e \in Emails, NEW p \in Passwords,
             BeginRegister(r, e, p) \/ BeginLogin(r, e, p) \/ BeginExport(r, e, p)
      PROVE  AccountInv' /\ UNCHANGED account
  <2>1. 0 \in Tokens
    BY AccountAssumption DEF Tokens
  <2>2. PICK kind \in {"register", "login", "export"}, a \in {"none", "ok", "refused", "error"} :
          (a = "none" /\ kind # "register" => Exists(e)) /\ Begin(r, kind, e, p, 0, a)
    BY <1>2 DEF BeginRegister, BeginLogin, BeginExport
  <2>3. kind \in Kinds
    BY <2>2 DEF Kinds
  <2> QED BY <2>1, <2>2, <2>3, BeginKeeps
<1>3. ASSUME NEW r \in Requests, NEW e \in Emails, NEW t \in Tokens, BeginVerify(r, e, t)
      PROVE  AccountInv' /\ UNCHANGED account
  <2>1. PICK a \in {"none", "refused"} :
          (a = "none" => Exists(e)) /\ Begin(r, "verify", e, "none", t, a)
    BY <1>3 DEF BeginVerify
  <2>2. "verify" \in Kinds /\ "verify" \notin {"register", "reset"}
    BY DEF Kinds
  <2> QED BY <2>1, <2>2, BeginKeeps
<1>4. ASSUME NEW r \in Requests, NEW e \in Emails, NEW t \in Tokens, NEW p \in Passwords,
             BeginReset(r, e, t, p)
      PROVE  AccountInv' /\ UNCHANGED account
  <2>1. PICK a \in {"none", "refused"} :
          (a = "none" => Exists(e)) /\ Begin(r, "reset", e, p, t, a)
    BY <1>4 DEF BeginReset
  <2>2. "reset" \in Kinds
    BY DEF Kinds
  <2> QED BY <2>1, <2>2, BeginKeeps
<1>5. ASSUME NEW r \in Requests, Register(r)
      PROVE  AccountInv' /\ NothingRevivedStep
  <2>1. request[r] # NoRequest /\ request[r].pc = "write" /\ request[r].kind = "register"
    BY <1>5 DEF Register, Writing
  <2>2. request[r].password \in Passwords /\ Email(r) \in Emails
    BY <1>0, <2>1 DEF AccountInv, RequestFits, Request, Email
  <2>3. CASE Exists(Email(r))
    <3>1. Answer(r, "error") /\ UNCHANGED <<account, tokens, mailed>>
      BY <1>5, <2>3 DEF Register
    <3>2. request' \in [Requests -> Request \cup {NoRequest}]
      BY <2>1, <3>1, AnswerType DEF AccountInv
    <3>3. AccountTypeOK' /\ AccountsUsable'
      BY <3>1, <3>2 DEF AccountInv, AccountTypeOK, AccountsUsable, Exists
    <3>4. \A e \in Emails : Exists(e) => Exists(e)'
      BY <3>1 DEF Exists
    <3> QED BY <2>1, <3>1, <3>3, <3>4, EndKeeps, UnchangedAccounts
  <2>4. CASE ~Exists(Email(r))
    <3>1. NewToken /\ Mailing(r) /\ UNCHANGED mailed
      BY <1>5, <2>4 DEF Register
    <3>2. tokens' \in Tokens /\ tokens' # 0 /\ 0 \in Tokens
      BY <1>0, <3>1, AccountAssumption DEF NewToken, Tokens
    <3>3. PICK new \in NewAccount(request[r].password, tokens') :
            account' = [account EXCEPT ![Email(r)] = new]
      BY <1>5, <2>4 DEF Register
    <3>4. new \in Account /\ new.member /\ new.verifyToken # 0
      <4>1. PICK p \in Passwords, t \in Tokens : p = request[r].password /\ t = tokens'
        BY <2>2, <3>2
      <4>2. new = [exists |-> TRUE, password |-> p, verified |-> FALSE, verifyToken |-> t,
                   resetToken |-> 0, keyPassword |-> p, master |-> TRUE, member |-> TRUE]
        BY <3>3, <4>1 DEF NewAccount
      <4>3. new \in Account
        BY <3>2, <4>2 DEF Account
      <4> QED BY <3>2, <4>1, <4>2, <4>3
    <3>5. account' \in [Emails -> Account \cup {NoAccount}]
      BY <1>0, <2>2, <3>3, <3>4
    <3>6. AccountsUsable'
      BY <1>0, <2>2, <3>3, <3>4 DEF AccountInv, AccountsUsable, Exists
    <3>7. \A e \in Emails : Exists(e) => account'[e] = account[e]
      BY <1>0, <2>4, <3>3
    <3>8. NothingRevivedStep /\ \A e \in Emails : Exists(e) => Exists(e)'
      BY <3>7 DEF NothingRevivedStep, Exists
    <3> QED BY <2>1, <3>1, <3>5, <3>6, <3>8, MailingKeeps
  <2> QED BY <2>3, <2>4
<1>6. ASSUME NEW r \in Requests, NEW kind, Writing(r, kind), kind # "register"
      PROVE  request[r].row \in Account
  BY <1>6 DEF Writing, AccountInv, RequestFits
<1>7. ASSUME NEW r \in Requests, Verify(r)
      PROVE  AccountInv' /\ NothingRevivedStep
  <2>1. PICK row : row = IF request[r].row.verified THEN request[r].row ELSE Verified(request[r].row)
    OBVIOUS
  <2>2. Writing(r, "verify") /\ request[r].row \in Account /\ 0 \in Tokens
    BY <1>6, <1>7, AccountAssumption DEF Verify, Tokens
  <2>3. /\ row \in Account
        /\ row.member = request[r].row.member /\ row.master = request[r].row.master
        /\ row.password = request[r].row.password
        /\ row.verified
        /\ request[r].row.verified => row = request[r].row
        /\ row.verifyToken \in {request[r].row.verifyToken, 0}
        /\ row.resetToken = request[r].row.resetToken
    BY <2>1, <2>2 DEF Verified, Account
  <2>4. WriteBack(r, row, {}) /\ Answer(r, "ok") /\ UNCHANGED <<mailed, tokens>>
    BY <1>7, <2>1 DEF Verify
  <2> QED BY <2>2, <2>3, <2>4, WriterStep
<1>8. ASSUME NEW r \in Requests, Resend(r)
      PROVE  AccountInv' /\ NothingRevivedStep
  <2>1. PICK row : row = [request[r].row EXCEPT !.verifyToken = tokens']
    OBVIOUS
  <2>2. /\ Writing(r, "resend") /\ request[r].row \in Account
        /\ NewToken /\ Mailing(r) /\ UNCHANGED mailed /\ WriteBack(r, row, {})
    BY <1>6, <1>8, <2>1 DEF Resend
  <2>3. tokens' \in Tokens /\ tokens' # 0
    BY <1>0, <2>2, AccountAssumption DEF NewToken, Tokens
  <2>4. /\ row \in Account
        /\ row.member = request[r].row.member /\ row.master = request[r].row.master
        /\ row.password = request[r].row.password
        /\ row.verified = request[r].row.verified
        /\ row.verifyToken # 0 /\ row.verifyToken = tokens + 1
        /\ row.resetToken = request[r].row.resetToken
    BY <2>1, <2>2, <2>3 DEF Account, NewToken
  <2> QED BY <2>2, <2>4, WriterStep
<1>9. ASSUME NEW r \in Requests, Login(r)
      PROVE  AccountInv' /\ NothingRevivedStep
  <2>1. PICK row : row = Backfilled(r)
    OBVIOUS
  <2>2. /\ Writing(r, "login") /\ request[r].row \in Account
        /\ Answer(r, "ok") /\ UNCHANGED <<mailed, tokens>> /\ WriteBack(r, row, {})
    BY <1>6, <1>9, <2>1 DEF Login
  <2>3. /\ row \in Account
        /\ row.member = request[r].row.member
        /\ row.password = request[r].row.password
        /\ row.verified = request[r].row.verified
        /\ row.verifyToken = request[r].row.verifyToken
        /\ row.resetToken = request[r].row.resetToken
        /\ row.master = request[r].row.master \/ row.master
    BY <2>1, <2>2 DEF Backfilled, Account
  <2> QED BY <2>2, <2>3, WriterStep
<1>10. ASSUME NEW r \in Requests, Forgot(r)
       PROVE  AccountInv' /\ NothingRevivedStep
  <2>1. PICK row : row = [request[r].row EXCEPT !.resetToken = tokens']
    OBVIOUS
  <2>2. /\ Writing(r, "forgot") /\ request[r].row \in Account
        /\ NewToken /\ Mailing(r) /\ UNCHANGED mailed /\ WriteBack(r, row, {})
    BY <1>6, <1>10, <2>1 DEF Forgot
  <2>3. tokens' \in Tokens
    BY <1>0, <2>2, AccountAssumption DEF NewToken, Tokens
  <2>4. /\ row \in Account
        /\ row.member = request[r].row.member /\ row.master = request[r].row.master
        /\ row.password = request[r].row.password
        /\ row.verified = request[r].row.verified
        /\ row.verifyToken = request[r].row.verifyToken
        /\ row.resetToken = tokens + 1
    BY <2>1, <2>2, <2>3 DEF Account, NewToken
  <2> QED BY <2>2, <2>4, WriterStep
<1>11. ASSUME NEW r \in Requests, Reset(r)
       PROVE  AccountInv' /\ NothingRevivedStep
  <2>1. PICK row : row = [request[r].row EXCEPT !.password = request[r].password, !.resetToken = 0]
    OBVIOUS
  <2>2. /\ Writing(r, "reset") /\ request[r].row \in Account
        /\ Answer(r, "ok") /\ UNCHANGED <<mailed, tokens>>
        /\ WriteBack(r, row, {"password"})
    BY <1>6, <1>11, <2>1 DEF Reset
  <2>3. request[r].password \in Passwords /\ 0 \in Tokens
    BY <2>2, AccountAssumption DEF Writing, AccountInv, RequestFits, Tokens
  <2>4. /\ row \in Account
        /\ row.member = request[r].row.member /\ row.master = request[r].row.master
        /\ row.password = request[r].password
        /\ row.verified = request[r].row.verified
        /\ row.verifyToken = request[r].row.verifyToken
        /\ row.resetToken = 0
    BY <2>1, <2>2, <2>3 DEF Account
  <2> QED BY <1>11, <2>2, <2>4, WriterStep
<1>12. ASSUME NEW r \in Requests, Profile(r)
       PROVE  AccountInv' /\ NothingRevivedStep
  <2>1. /\ Writing(r, "profile") /\ request[r].row \in Account
        /\ Answer(r, "ok") /\ UNCHANGED <<mailed, tokens>> /\ WriteBack(r, request[r].row, {})
    BY <1>6, <1>12 DEF Profile
  <2> QED BY <2>1, WriterStep
<1>13. ASSUME NEW r \in Requests, Mail(r)
       PROVE  AccountInv' /\ UNCHANGED account
  <2>1. /\ request[r] # NoRequest /\ request[r].pc = "mail"
        /\ Answer(r, "ok") /\ UNCHANGED <<account, tokens>>
    BY <1>13 DEF Mail
  <2>2. request' \in [Requests -> Request \cup {NoRequest}]
    BY <2>1, AnswerType DEF AccountInv
  <2>3. PICK kind \in {"reset", "verify"} :
          \/ mailed' = mailed \cup {[email |-> Email(r), kind |-> kind, token |-> request[r].token]}
          \/ mailed' = mailed
    BY <1>13 DEF Mail
  <2>4. Email(r) \in Emails /\ request[r].token \in Tokens \ {0}
    BY <1>0, <2>1 DEF Email, Request, AccountInv, RequestFits
  <2>5. mailed' \in SUBSET [email : Emails, kind : {"verify", "reset"}, token : Tokens \ {0}]
    BY <2>3, <2>4 DEF AccountInv, AccountTypeOK
  <2>6. AccountTypeOK' /\ AccountsUsable'
    BY <2>1, <2>2, <2>5 DEF AccountInv, AccountTypeOK, AccountsUsable, Exists
  <2>7. \A e \in Emails : Exists(e) => Exists(e)'
    BY <2>1 DEF Exists
  <2> QED BY <2>1, <2>6, <2>7, EndKeeps
<1>14. ASSUME NEW r \in Requests, Fail(r)
       PROVE  AccountInv' /\ UNCHANGED account
  <2>1. request[r] # NoRequest /\ Answer(r, "error") /\ UNCHANGED <<account, mailed, tokens>>
    BY <1>14 DEF Fail
  <2>2. request' \in [Requests -> Request \cup {NoRequest}]
    BY <2>1, AnswerType DEF AccountInv
  <2>3. AccountTypeOK' /\ AccountsUsable'
    BY <2>1, <2>2 DEF AccountInv, AccountTypeOK, AccountsUsable, Exists
  <2>4. \A e \in Emails : Exists(e) => Exists(e)'
    BY <2>1 DEF Exists
  <2> QED BY <2>1, <2>3, <2>4, EndKeeps
<1>15. CASE UNCHANGED accountVars
  BY <1>15, UnchangedAccounts
     DEF accountVars, AccountInv, AccountTypeOK, AccountsUsable, RequestFits, Exists
<1> QED BY <1>1, <1>2, <1>3, <1>4, <1>5, <1>7, <1>8, <1>9, <1>10, <1>11, <1>12, <1>13,
           <1>14, <1>15, UnchangedAccounts DEF AccountNext

\* An account is there with wallet and organization or not at all, and can be
\* verified, for any addresses, requests and tokens and wherever a handler stops
\* (auth.py:74-113, 137-180).
THEOREM AccountsStayUsable == AccountSpec => []AccountsUsable
<1>1. AccountInit => AccountInv
  BY AccountStarts
<1>2. AccountInv /\ [AccountNext]_accountVars => AccountInv'
  BY AccountGoesOn
<1>3. AccountInv => AccountsUsable
  BY DEF AccountInv
<1> QED BY <1>1, <1>2, <1>3, PTL DEF AccountSpec

\* No handler brings back what it has read and another has replaced since: it writes
\* the columns it has assigned, and none of the others (auth.py:149, 199, 274-276).
\* What a stale handler does assign stands: a reset may clear a token made since.
THEOREM NothingComesBack == AccountSpec => NothingRevived
<1>1. AccountInit => AccountInv
  BY AccountStarts
<1>2. AccountInv /\ [AccountNext]_accountVars => AccountInv' /\ [NothingRevivedStep]_accountVars
  BY AccountGoesOn
<1>3. AccountSpec => [][NothingRevivedStep]_accountVars
  BY <1>1, <1>2, PTL DEF AccountSpec
<1> QED BY <1>3 DEF NothingRevived, NothingRevivedStep

-----------------------------------------------------------------------------
(***************************************************************************)
(* The event feed.                                                         *)
(***************************************************************************)
\* A connection is added at the end of a list and taken out of it.
LEMMA Appended ==
  ASSUME NEW S, NEW s \in Seq(S), IsInjective(s), NEW e \in S, e \notin Range(s)
  PROVE  /\ Append(s, e) \in Seq(S)
         /\ IsInjective(Append(s, e))
         /\ Range(Append(s, e)) = Range(s) \cup {e}
<1>1. PICK t : t = Append(s, e)
  OBVIOUS
<1>2. /\ t \in Seq(S) /\ Len(t) = Len(s) + 1 /\ Len(s) \in Nat
      /\ DOMAIN t = 1..Len(t) /\ DOMAIN s = 1..Len(s)
      /\ \A i \in 1..Len(s) : t[i] = s[i]
      /\ t[Len(s) + 1] = e
  BY <1>1
<1>3. IsInjective(t)
  <2> SUFFICES ASSUME NEW i \in 1..Len(t), NEW j \in 1..Len(t), t[i] = t[j]
               PROVE  i = j
    BY <1>2 DEF IsInjective
  <2>1. CASE i \in 1..Len(s) /\ j \in 1..Len(s)
    BY <1>2, <2>1 DEF IsInjective
  <2>2. CASE i = Len(s) + 1 /\ j \in 1..Len(s)
    BY <1>2, <2>2 DEF Range
  <2>3. CASE i \in 1..Len(s) /\ j = Len(s) + 1
    BY <1>2, <2>3 DEF Range
  <2>4. CASE i = Len(s) + 1 /\ j = Len(s) + 1
    BY <2>4
  <2> QED BY <1>2, <2>1, <2>2, <2>3, <2>4
<1>4. Range(t) = Range(s) \cup {e}
  <2>1. ASSUME NEW x \in Range(t) PROVE x \in Range(s) \cup {e}
    <3>1. PICK i \in 1..Len(t) : t[i] = x
      BY <1>2 DEF Range
    <3>2. i \in 1..Len(s) \/ i = Len(s) + 1
      BY <1>2
    <3> QED BY <1>2, <3>1, <3>2 DEF Range
  <2>2. ASSUME NEW x \in Range(s) PROVE x \in Range(t)
    <3>1. PICK i \in 1..Len(s) : s[i] = x
      BY <1>2 DEF Range
    <3>2. i \in 1..Len(t)
      BY <1>2
    <3> QED BY <1>2, <3>1, <3>2 DEF Range
  <2>3. e \in Range(t)
    <3>1. Len(s) + 1 \in 1..Len(t)
      BY <1>2
    <3> QED BY <1>2, <3>1 DEF Range
  <2> QED BY <2>1, <2>2, <2>3
<1> QED BY <1>1, <1>2, <1>3, <1>4

LEMMA Removed ==
  ASSUME NEW S, NEW s \in Seq(S), IsInjective(s), NEW e
  PROVE  /\ RemoveFirst(s, e) \in Seq(S)
         /\ IsInjective(RemoveFirst(s, e))
         /\ Range(RemoveFirst(s, e)) = Range(s) \ {e}
<1>0. Len(s) \in Nat /\ DOMAIN s = 1..Len(s) /\ \A i \in 1..Len(s) : s[i] \in S
  OBVIOUS
<1>1. CASE \A i \in 1..Len(s) : s[i] # e
  <2>1. RemoveFirst(s, e) = s
    BY <1>1 DEF RemoveFirst
  <2>2. e \notin Range(s)
    BY <1>0, <1>1 DEF Range
  <2> QED BY <2>1, <2>2
<1>2. ASSUME NEW k \in 1..Len(s), s[k] = e
      PROVE  /\ RemoveFirst(s, e) \in Seq(S)
             /\ IsInjective(RemoveFirst(s, e))
             /\ Range(RemoveFirst(s, e)) = Range(s) \ {e}
  <2>1. {i \in 1..Len(s) : s[i] = e} = {k}
    BY <1>0, <1>2 DEF IsInjective
  <2>2. Min({k}) = k
    <3>1. \E x \in {k} : \A y \in {k} : x <= y
      BY <1>0
    <3> QED BY <3>1 DEF Min
  <2>3. SelectInSeq(s, LAMBDA v : v = e) = k
    BY <2>1, <2>2 DEF SelectInSeq
  <2>4. RemoveFirst(s, e) = SubSeq(s, 1, k - 1) \o SubSeq(s, k + 1, Len(s))
    BY <1>2, <2>3 DEF RemoveFirst, RemoveAt
  <2>5. PICK a : a = SubSeq(s, 1, k - 1)
    OBVIOUS
  <2>6. PICK b : b = SubSeq(s, k + 1, Len(s))
    OBVIOUS
  <2>7. /\ a \in Seq(S) /\ Len(a) = k - 1
        /\ \A i \in 1..k - 1 : a[i] = s[i]
    BY <1>0, <2>5
  <2>8. /\ b \in Seq(S) /\ Len(b) = Len(s) - k
        /\ \A i \in 1..Len(s) - k : b[i] = s[k + i]
    <3>1. /\ k + 1 \in Int /\ Len(s) \in Int
          /\ \A i \in k + 1..Len(s) : s[i] \in S
      BY <1>0
    <3>2. /\ b \in Seq(S) /\ Len(b) = IF k + 1 <= Len(s) THEN Len(s) - (k + 1) + 1 ELSE 0
          /\ \A i \in 1..Len(s) - (k + 1) + 1 : b[i] = s[(k + 1) + i - 1]
      BY ONLY <2>6, <3>1, SubSeqProperties
    <3>3. Len(b) = Len(s) - k
      <4>1. PICK n \in Nat : n = Len(s)
        BY <1>0
      <4>2. k \in 1..n
        BY <4>1
      <4>3. (IF k + 1 <= n THEN n - (k + 1) + 1 ELSE 0) = n - k
        BY ONLY <4>1, <4>2
      <4> QED BY <3>2, <4>1, <4>3
    <3>4. ASSUME NEW i \in 1..Len(s) - k PROVE b[i] = s[k + i]
      <4>1. i \in 1..Len(s) - (k + 1) + 1 /\ (k + 1) + i - 1 = k + i
        BY <1>0
      <4> QED BY <3>2, <4>1
    <3> QED BY <3>2, <3>3, <3>4
  <2>9. PICK t : t = a \o b
    OBVIOUS
  <2>10. /\ t \in Seq(S) /\ Len(t) = Len(s) - 1 /\ DOMAIN t = 1..Len(s) - 1
         /\ \A i \in 1..Len(s) - 1 : t[i] = IF i < k THEN s[i] ELSE s[i + 1]
    <3>1. t \in Seq(S) /\ Len(t) = Len(a) + Len(b)
      BY ONLY <2>7, <2>8, <2>9, ConcatProperties
    <3>2. Len(t) = Len(s) - 1 /\ DOMAIN t = 1..Len(s) - 1
      BY <1>0, <2>7, <2>8, <3>1
    <3>3. ASSUME NEW i \in 1..Len(s) - 1
          PROVE  t[i] = IF i < k THEN s[i] ELSE s[i + 1]
      <4>1. CASE i < k
        BY <1>0, <2>7, <2>8, <2>9, <4>1
      <4>2. CASE i >= k
        <5>1. t[i] = b[i - (k - 1)]
          BY <1>0, <2>7, <2>8, <2>9, <4>2
        <5>2. i - (k - 1) \in 1..Len(s) - k /\ k + (i - (k - 1)) = i + 1
          BY <1>0, <4>2
        <5>3. b[i - (k - 1)] = s[k + (i - (k - 1))]
          BY <2>8, <5>2
        <5> QED BY <4>2, <5>1, <5>2, <5>3
      <4> QED BY <1>0, <4>1, <4>2
    <3> QED BY <3>1, <3>2, <3>3
  <2>11. IsInjective(t)
    <3> SUFFICES ASSUME NEW i \in 1..Len(s) - 1, NEW j \in 1..Len(s) - 1, t[i] = t[j]
                 PROVE  i = j
      BY <2>10 DEF IsInjective
    <3>1. PICK i1 \in 1..Len(s), j1 \in 1..Len(s) :
            /\ i1 = IF i < k THEN i ELSE i + 1
            /\ j1 = IF j < k THEN j ELSE j + 1
      BY <1>0
    <3>2. s[i1] = s[j1]
      BY <2>10, <3>1
    <3>3. i1 = j1
      BY <1>0, <3>2 DEF IsInjective
    <3> QED BY <1>0, <3>1, <3>3
  <2>12. Range(t) = Range(s) \ {e}
    <3>1. ASSUME NEW i \in 1..Len(s) - 1 PROVE t[i] \in Range(s) \ {e}
      <4>1. PICK i1 \in 1..Len(s) : i1 = IF i < k THEN i ELSE i + 1
        BY <1>0
      <4>2. t[i] = s[i1] /\ i1 # k
        BY <1>0, <2>10, <4>1
      <4>3. s[i1] # e
        BY <1>0, <1>2, <4>2 DEF IsInjective
      <4> QED BY <1>0, <4>2, <4>3 DEF Range
    <3>2. ASSUME NEW i \in 1..Len(s), s[i] # e PROVE s[i] \in Range(t)
      <4>1. i # k
        BY <1>2, <3>2
      <4>2. PICK j \in 1..Len(s) - 1 : j = IF i < k THEN i ELSE i - 1
        BY <1>0, <4>1
      <4>3. t[j] = s[i]
        BY <1>0, <2>10, <4>1, <4>2
      <4> QED BY <2>10, <4>3 DEF Range
    <3> QED BY <1>0, <2>10, <3>1, <3>2 DEF Range
  <2>13. RemoveFirst(s, e) = t
    BY <2>4, <2>5, <2>6, <2>9
  <2> QED BY <2>10, <2>11, <2>12, <2>13
<1> QED BY <1>1, <1>2

Running(c) == endpoint[c] \in {"greeting", "sleeping"}

\* The registry on its own: who is listed is listed once, under its user, and
\* has an endpoint that will clean up.
ListsFit ==
  /\ user \in [Connections -> Users]
  /\ list \in [Users -> Seq(Connections)]
  /\ \A u \in Users : IsInjective(list[u])
  /\ \A u \in Users : \A c \in Range(list[u]) : user[c] = u /\ Running(c)

SubscribersFit ==
  \A c \in Connections :
    subscriber[c].pc \in {"subscribing", "listening"} => Running(c)

\* A connection that has not been made has no endpoint.
NewHasNone == \A c \in Connections : socket[c] = "new" => endpoint[c] = "none"

\* Who still has connections to send to has an event for them.
EventAtHand ==
  \A c \in Connections : subscriber[c].rest # <<>> => subscriber[c].event \in Events

FeedInv == FeedTypeOK /\ ListsFit /\ SubscribersFit /\ NewHasNone /\ EventAtHand

LEMMA ListedAreConnections ==
  ASSUME ListsFit, NEW u \in Users
  PROVE  Range(list[u]) \subseteq Connections
BY DEF ListsFit, Range

\* The parts of the type that a step of a subscriber or a publisher is about.
RestTypeOK ==
  /\ socket \in [Connections -> {"new", "open", "gone"}]
  /\ endpoint \in [Connections -> {"none", "greeting", "sleeping", "ended"}]
  /\ subscriber \in [Connections -> Subscriber]
  /\ publisher \in [Events -> Publisher]
  /\ got \in [Connections -> [Events -> Nat]]

LEMMA FeedTypeSplit == ListsFit => (FeedTypeOK <=> RestTypeOK)
BY DEF ListsFit, FeedTypeOK, RestTypeOK

LEMMA FeedStarts == FeedInit => FeedInv
<1> SUFFICES ASSUME FeedInit PROVE FeedInv
  OBVIOUS
<1>1. Range(<<>>) = {} /\ IsInjective(<<>>)
  BY DEF Range, IsInjective
<1>2. ListsFit
  BY <1>1, FeedAssumption DEF FeedInit, ListsFit
<1>3. Idle("none") \in Subscriber /\ Idle("none").pc = "none" /\ Idle("none").rest = <<>>
  BY DEF Idle, Subscriber
<1>4. [pc |-> "none", users |-> {}, rest |-> <<>>] \in Publisher
  BY DEF Publisher
<1>5. RestTypeOK
  BY <1>3, <1>4, FeedAssumption DEF FeedInit, RestTypeOK
<1>6. SubscribersFit /\ NewHasNone /\ EventAtHand
  BY <1>3 DEF FeedInit, SubscribersFit, NewHasNone, EventAtHand
<1> QED BY <1>2, <1>5, <1>6, FeedTypeSplit DEF FeedInv

\* Taking an entry out of one list leaves the lists in order.
LEMMA RemovedFits ==
  ASSUME ListsFit, NEW w \in Connections,
         UNCHANGED <<user, endpoint>>,
         list' = [list EXCEPT ![user[w]] = RemoveFirst(@, w)]
  PROVE  ListsFit'
<1>1. PICK v \in Users : v = user[w]
  BY DEF ListsFit
<1>2. PICK s : s = RemoveFirst(list[v], w)
  OBVIOUS
<1>3. list' = [list EXCEPT ![v] = s]
  BY <1>1, <1>2
<1>4. s \in Seq(Connections) /\ IsInjective(s) /\ Range(s) = Range(list[v]) \ {w}
  <2>1. list[v] \in Seq(Connections) /\ IsInjective(list[v])
    BY DEF ListsFit
  <2> QED BY ONLY <1>2, <2>1, Removed
<1>5. /\ list \in [Users -> Seq(Connections)] /\ list'[v] = s
      /\ \A u \in Users : u # v => list'[u] = list[u]
  BY <1>3 DEF ListsFit
<1>6. list' \in [Users -> Seq(Connections)]
  BY <1>3, <1>4, <1>5
<1>7. \A u \in Users : IsInjective(list'[u])
  BY <1>4, <1>5 DEF ListsFit
<1>8. \A u \in Users : Range(list'[u]) \subseteq Range(list[u])
  BY <1>4, <1>5
<1>9. \A u \in Users : \A c \in Range(list'[u]) : user'[c] = u /\ Running(c)'
  BY <1>8 DEF ListsFit, Running
<1> QED BY <1>6, <1>7, <1>9 DEF ListsFit

\* Sending, whoever sends: the lists stay in order and the counts are counts.
LEMMA SendFits ==
  ASSUME FeedInv, NEW w \in Connections, NEW e \in Events, Send(w, e),
         UNCHANGED <<socket, user, endpoint>>
  PROVE  ListsFit' /\ got' \in [Connections -> [Events -> Nat]]
<1>1. ListsFit'
  <2>1. CASE Removes(w)
    BY <2>1, RemovedFits DEF FeedInv, Send
  <2>2. CASE ~Removes(w)
    BY <2>2 DEF FeedInv, Send, ListsFit, Running
  <2> QED BY <2>1, <2>2
<1>2. got' \in [Connections -> [Events -> Nat]]
  <2>1. got \in [Connections -> [Events -> Nat]]
    BY DEF FeedInv, FeedTypeOK
  <2>2. PICK row : row = [got[w] EXCEPT ![e] = @ + 1]
    OBVIOUS
  <2>3. row \in [Events -> Nat]
    BY <2>1, <2>2
  <2>4. got' = got \/ got' = [got EXCEPT ![w] = row]
    BY <2>2 DEF Send
  <2> QED BY <2>1, <2>3, <2>4
<1> QED BY <1>1, <1>2

LEMMA IdleFits ==
  ASSUME NEW pc \in {"none", "subscribing", "listening", "ended"}
  PROVE  Idle(pc) \in Subscriber /\ Idle(pc).pc = pc /\ Idle(pc).rest = <<>>
BY DEF Idle, Subscriber

\* An endpoint that registers its connection, which nobody has seen before.
LEMMA ConnectFits ==
  ASSUME FeedInv, NEW c \in Connections, NEW u \in Users, Connect(c, u)
  PROVE  FeedInv'
<1>1. /\ socket[c] = "new" /\ endpoint[c] = "none"
      /\ socket' = [socket EXCEPT ![c] = "open"]
      /\ user' = [user EXCEPT ![c] = u]
      /\ list' = [list EXCEPT ![u] = Append(list[u], c)]
      /\ endpoint' = [endpoint EXCEPT ![c] = "greeting"]
      /\ subscriber' = [subscriber EXCEPT ![c] = Idle("subscribing")]
      /\ UNCHANGED <<publisher, got>>
  BY DEF Connect, Listed, FeedInv, NewHasNone
<1>2. \A v \in Users : c \notin Range(list[v])
  BY <1>1 DEF FeedInv, ListsFit, Running
<1>3. PICK s : s = Append(list[u], c)
  OBVIOUS
<1>4. s \in Seq(Connections) /\ IsInjective(s) /\ Range(s) = Range(list[u]) \cup {c}
  <2>1. list[u] \in Seq(Connections) /\ IsInjective(list[u]) /\ c \notin Range(list[u])
    BY <1>2 DEF FeedInv, ListsFit
  <2> QED BY ONLY <1>3, <2>1, Appended, c \in Connections
<1>5. /\ list \in [Users -> Seq(Connections)] /\ list' = [list EXCEPT ![u] = s]
      /\ user \in [Connections -> Users]
      /\ endpoint \in [Connections -> {"none", "greeting", "sleeping", "ended"}]
  BY <1>1, <1>3 DEF FeedInv, FeedTypeOK
<1>6. list' \in [Users -> Seq(Connections)] /\ user' \in [Connections -> Users]
  BY <1>1, <1>4, <1>5
<1>7. \A v \in Users : IsInjective(list'[v])
  BY <1>4, <1>5 DEF FeedInv, ListsFit
<1>8. ASSUME NEW v \in Users, NEW d \in Range(list'[v])
      PROVE  user'[d] = v /\ Running(d)'
  <2>1. CASE d = c
    <3>1. v = u
      BY <1>2, <1>5, <2>1
    <3> QED BY <1>1, <1>5, <2>1, <3>1 DEF Running
  <2>2. CASE d # c
    <3>1. d \in Range(list[v])
      BY <1>4, <1>5, <2>2
    <3>2. d \in Connections /\ user[d] = v /\ Running(d)
      BY <3>1, ListedAreConnections DEF FeedInv, ListsFit
    <3> QED BY <1>1, <1>5, <2>2, <3>2 DEF Running
  <2> QED BY <2>1, <2>2
<1>9. ListsFit'
  BY <1>6, <1>7, <1>8 DEF ListsFit
<1>10. RestTypeOK'
  BY <1>1, IdleFits DEF FeedInv, FeedTypeOK, RestTypeOK
<1>11. SubscribersFit'
  BY <1>1, <1>5, IdleFits DEF FeedInv, FeedTypeOK, SubscribersFit, Running
<1>12. NewHasNone'
  BY <1>1 DEF FeedInv, FeedTypeOK, NewHasNone
<1>13. EventAtHand'
  BY <1>1, IdleFits DEF FeedInv, FeedTypeOK, EventAtHand
<1>14. FeedTypeOK'
  BY <1>9, <1>10 DEF ListsFit, FeedTypeOK, RestTypeOK
<1> QED BY <1>9, <1>11, <1>12, <1>13, <1>14 DEF FeedInv

\* An endpoint that cleans up: its entry and its subscriber go with it, whether
\* the entry was still there or had been taken out by another.
LEMMA DisconnectFits ==
  ASSUME FeedInv, NEW c \in Connections, Disconnect(c)
  PROVE  FeedInv'
<1>1. /\ endpoint' = [endpoint EXCEPT ![c] = "ended"] /\ socket[c] = "gone"
      /\ subscriber' = [subscriber EXCEPT ![c] = Idle("ended")]
      /\ list' = [list EXCEPT ![user[c]] = RemoveFirst(@, c)]
      /\ UNCHANGED <<socket, user, publisher, got>>
  BY DEF Disconnect, CleanUp, SendFails
<1>2. PICK v \in Users : v = user[c]
  BY DEF FeedInv, ListsFit
<1>3. PICK s : s = RemoveFirst(list[v], c)
  OBVIOUS
<1>4. s \in Seq(Connections) /\ IsInjective(s) /\ Range(s) = Range(list[v]) \ {c}
  <2>1. list[v] \in Seq(Connections) /\ IsInjective(list[v])
    BY DEF FeedInv, ListsFit
  <2> QED BY ONLY <1>3, <2>1, Removed
<1>5. /\ list \in [Users -> Seq(Connections)] /\ list' = [list EXCEPT ![v] = s]
      /\ endpoint \in [Connections -> {"none", "greeting", "sleeping", "ended"}]
  BY <1>1, <1>2, <1>3 DEF FeedInv, FeedTypeOK
<1>6. list' \in [Users -> Seq(Connections)]
  BY <1>4, <1>5
<1>7. \A u \in Users : IsInjective(list'[u])
  BY <1>4, <1>5 DEF FeedInv, ListsFit
<1>8. ASSUME NEW u \in Users, NEW d \in Range(list'[u])
      PROVE  user'[d] = u /\ Running(d)'
  <2>1. d \in Range(list[u]) /\ (u = v => d # c)
    BY <1>4, <1>5
  <2>2. d \in Connections /\ user[d] = u /\ Running(d)
    BY <2>1, ListedAreConnections DEF FeedInv, ListsFit
  <2>3. d # c
    BY <1>2, <2>1, <2>2
  <2> QED BY <1>1, <1>5, <2>2, <2>3 DEF Running
<1>9. ListsFit'
  BY <1>1, <1>6, <1>7, <1>8 DEF ListsFit, FeedInv
<1>10. RestTypeOK'
  BY <1>1, IdleFits DEF FeedInv, FeedTypeOK, RestTypeOK
<1>11. SubscribersFit'
  BY <1>1, <1>5, IdleFits DEF FeedInv, FeedTypeOK, SubscribersFit, Running
<1>12. NewHasNone'
  BY <1>1 DEF FeedInv, FeedTypeOK, NewHasNone
<1>13. EventAtHand'
  BY <1>1, IdleFits DEF FeedInv, FeedTypeOK, EventAtHand
<1>14. FeedTypeOK'
  BY <1>9, <1>10 DEF ListsFit, FeedTypeOK, RestTypeOK
<1> QED BY <1>9, <1>11, <1>12, <1>13, <1>14 DEF FeedInv

\* One subscriber changes, and is active only if it was.
LEMMA SubscriberFits ==
  ASSUME FeedInv, NEW c \in Connections, NEW q \in Subscriber,
         subscriber' = [subscriber EXCEPT ![c] = q],
         q.pc \in {"subscribing", "listening"} =>
           subscriber[c].pc \in {"subscribing", "listening"},
         q.rest # <<>> => q.event \in Events,
         UNCHANGED <<socket, user, endpoint, publisher>>,
         ListsFit', got' \in [Connections -> [Events -> Nat]]
  PROVE  FeedInv'
<1>1. RestTypeOK'
  BY DEF FeedInv, FeedTypeOK, RestTypeOK
<1>2. FeedTypeOK'
  BY <1>1 DEF ListsFit, FeedTypeOK, RestTypeOK
<1>3. SubscribersFit'
  BY DEF FeedInv, FeedTypeOK, SubscribersFit, Running
<1>4. NewHasNone'
  BY DEF FeedInv, NewHasNone
<1>5. EventAtHand'
  BY DEF FeedInv, FeedTypeOK, EventAtHand
<1> QED BY <1>2, <1>3, <1>4, <1>5 DEF FeedInv

\* One publisher changes; subscribers change in nothing but what they have received.
LEMMA PublisherFits ==
  ASSUME FeedInv, NEW e \in Events, NEW q \in Publisher,
         publisher' = [publisher EXCEPT ![e] = q],
         subscriber' \in [Connections -> Subscriber],
         \A c \in Connections :
           /\ subscriber'[c].pc = subscriber[c].pc
           /\ subscriber'[c].rest = subscriber[c].rest
           /\ subscriber'[c].event = subscriber[c].event,
         UNCHANGED <<socket, user, endpoint>>,
         ListsFit', got' \in [Connections -> [Events -> Nat]]
  PROVE  FeedInv'
<1>1. RestTypeOK'
  BY DEF FeedInv, FeedTypeOK, RestTypeOK
<1>2. FeedTypeOK'
  BY <1>1 DEF ListsFit, FeedTypeOK, RestTypeOK
<1>3. SubscribersFit'
  BY DEF FeedInv, SubscribersFit, Running
<1>4. NewHasNone'
  BY DEF FeedInv, NewHasNone
<1>5. EventAtHand'
  BY DEF FeedInv, EventAtHand
<1> QED BY <1>2, <1>3, <1>4, <1>5 DEF FeedInv

LEMMA ReceivedFits ==
  ASSUME FeedInv, NEW e \in Events, Received(e) \/ UNCHANGED subscriber
  PROVE  /\ subscriber' \in [Connections -> Subscriber]
         /\ \A c \in Connections :
              /\ subscriber'[c].pc = subscriber[c].pc
              /\ subscriber'[c].rest = subscriber[c].rest
              /\ subscriber'[c].event = subscriber[c].event
<1>1. subscriber \in [Connections -> Subscriber]
  BY DEF FeedInv, FeedTypeOK
<1>2. CASE Received(e)
  <2>1. ASSUME NEW c \in Connections
        PROVE  /\ subscriber'[c] \in Subscriber
               /\ subscriber'[c].pc = subscriber[c].pc
               /\ subscriber'[c].rest = subscriber[c].rest
               /\ subscriber'[c].event = subscriber[c].event
    <3>1. CASE subscriber[c].pc = "listening"
      <4>1. PICK q : q = [subscriber[c] EXCEPT !.inbox = Append(@, e)]
        OBVIOUS
      <4>2. subscriber'[c] = q
        BY <1>2, <3>1, <4>1 DEF Received
      <4>3. subscriber[c] \in Subscriber
        BY <1>1
      <4>4. Append(subscriber[c].inbox, e) \in Seq(Events)
        BY <4>3 DEF Subscriber
      <4>5. q \in Subscriber /\ q.pc = subscriber[c].pc /\ q.rest = subscriber[c].rest
            /\ q.event = subscriber[c].event
        BY <4>1, <4>3, <4>4 DEF Subscriber
      <4> QED BY <4>2, <4>5
    <3>2. CASE subscriber[c].pc # "listening"
      BY <1>1, <1>2, <3>2 DEF Received
    <3> QED BY <3>1, <3>2
  <2>2. subscriber' = [c \in Connections |-> subscriber'[c]]
    BY <1>2 DEF Received
  <2> QED BY <2>1, <2>2
<1>3. CASE UNCHANGED subscriber
  BY <1>1, <1>3
<1> QED BY <1>2, <1>3

\* A round that a failed send ends has nobody left.
LEMMA NothingLeft ==
  ASSUME NEW S, NEW t \in Seq(S), NEW broken \in BOOLEAN
  PROVE  \E r \in Seq(S) : r = IF broken THEN <<>> ELSE t
<1>1. <<>> \in Seq(S)
  OBVIOUS
<1>2. CASE broken
  BY <1>1, <1>2
<1>3. CASE ~broken
  BY <1>3
<1> QED BY <1>2, <1>3

LEMMA FeedGoesOn ==
  ASSUME FeedInv, [FeedNext]_feedVars
  PROVE  FeedInv'
<1>0. /\ subscriber \in [Connections -> Subscriber]
      /\ publisher \in [Events -> Publisher]
      /\ list \in [Users -> Seq(Connections)]
      /\ user \in [Connections -> Users]
      /\ got \in [Connections -> [Events -> Nat]]
          /\ endpoint \in [Connections -> {"none", "greeting", "sleeping", "ended"}]
      /\ socket \in [Connections -> {"new", "open", "gone"}]
  BY DEF FeedInv, FeedTypeOK
<1>00. UNCHANGED <<user, list, endpoint>> => ListsFit'
  BY DEF FeedInv, ListsFit, Running
<1>1. ASSUME NEW c \in Connections, Leave(c)
      PROVE  FeedInv'
  BY <1>0, <1>1 DEF Leave, FeedInv, FeedTypeOK, ListsFit, Running, SubscribersFit, NewHasNone,
     EventAtHand
<1>2. ASSUME NEW c \in Connections, Greet(c)
      PROVE  FeedInv'
  <2>1. \A d \in Connections : (Running(d) => Running(d)') /\ (d = c => Running(d))
    BY <1>0, <1>2 DEF Greet, Running
  <2>2. ListsFit'
    BY <1>2, <2>1, ListedAreConnections DEF Greet, FeedInv, ListsFit
  <2>3. RestTypeOK'
    BY <1>0, <1>2 DEF Greet, RestTypeOK
  <2>4. FeedTypeOK'
    BY <2>2, <2>3 DEF ListsFit, FeedTypeOK, RestTypeOK
  <2>5. SubscribersFit' /\ NewHasNone' /\ EventAtHand'
    BY <1>0, <1>2, <2>1 DEF Greet, FeedInv, SubscribersFit, NewHasNone, EventAtHand
  <2> QED BY <2>2, <2>4, <2>5 DEF FeedInv
<1>3. ASSUME NEW c \in Connections, Subscribe(c)
      PROVE  FeedInv'
  <2>1. PICK q : q = [subscriber[c] EXCEPT !.pc = "listening"]
    OBVIOUS
  <2>2. /\ q \in Subscriber /\ q.rest = subscriber[c].rest /\ q.event = subscriber[c].event
        /\ subscriber[c].pc = "subscribing"
    BY <1>0, <1>3, <2>1 DEF Subscribe, Subscriber
  <2>3. /\ subscriber' = [subscriber EXCEPT ![c] = q]
        /\ UNCHANGED <<socket, user, list, endpoint, publisher, got>>
    BY <1>3, <2>1 DEF Subscribe
  <2>4. q.rest # <<>> => q.event \in Events
    BY <2>2 DEF FeedInv, EventAtHand
  <2> QED BY <1>0, <1>00, <2>2, <2>3, <2>4, SubscriberFits
<1>4. ASSUME NEW c \in Connections, SubscriberFails(c)
      PROVE  FeedInv'
  <2>1. PICK q : q = Idle("ended")
    OBVIOUS
  <2>2. q \in Subscriber /\ q.pc = "ended" /\ q.rest = <<>>
    BY <2>1, IdleFits
  <2>3. /\ subscriber' = [subscriber EXCEPT ![c] = q]
        /\ UNCHANGED <<socket, user, list, endpoint, publisher, got>>
    BY <1>4, <2>1 DEF SubscriberFails
  <2> QED BY <1>0, <1>00, <2>2, <2>3, SubscriberFits
<1>5. ASSUME NEW c \in Connections, TakeEvent(c)
      PROVE  FeedInv'
  <2>1. PICK q : q = [subscriber[c] EXCEPT !.event = Head(subscriber[c].inbox),
                                           !.inbox = Tail(subscriber[c].inbox),
                                           !.rest = list[user[c]]]
    OBVIOUS
  <2>2. /\ subscriber[c] \in Subscriber /\ subscriber[c].inbox \in Seq(Events)
        /\ subscriber[c].inbox # <<>> /\ subscriber[c].pc = "listening"
    BY <1>0, <1>5 DEF TakeEvent, Subscriber
  <2>3. /\ Head(subscriber[c].inbox) \in Events /\ Tail(subscriber[c].inbox) \in Seq(Events)
        /\ list[user[c]] \in Seq(Connections)
    BY <1>0, <2>2
  <2>4. q \in Subscriber /\ q.event \in Events
    BY <2>1, <2>2, <2>3 DEF Subscriber
  <2>5. /\ subscriber' = [subscriber EXCEPT ![c] = q]
        /\ UNCHANGED <<socket, user, list, endpoint, publisher, got>>
    BY <1>0, <1>5, <2>1 DEF TakeEvent, Audience
  <2> QED BY <1>0, <1>00, <2>2, <2>4, <2>5, SubscriberFits
<1>6. ASSUME NEW c \in Connections, Forward(c)
      PROVE  FeedInv'
  <2>1. PICK rest : rest = subscriber[c].rest
    OBVIOUS
  <2>2. subscriber[c] \in Subscriber /\ rest \in Seq(Connections) /\ rest # <<>>
    BY <1>0, <1>6, <2>1 DEF Forward, Subscriber
  <2>3. Head(rest) \in Connections /\ Tail(rest) \in Seq(Connections)
    BY <2>2
  <2>4. subscriber[c].event \in Events
    BY <2>1, <2>2 DEF FeedInv, EventAtHand
  <2>5. /\ Send(Head(rest), subscriber[c].event)
        /\ UNCHANGED <<socket, user, endpoint, publisher>>
    BY <1>6, <2>1 DEF Forward
  <2>6. ListsFit' /\ got' \in [Connections -> [Events -> Nat]]
    BY <2>3, <2>4, <2>5, SendFits
  <2>7. PICK left \in Seq(Connections) :
          left = IF Raises(Head(rest)) THEN <<>> ELSE Tail(rest)
    BY ONLY <2>3, NothingLeft
  <2>8. PICK q : q = [subscriber[c] EXCEPT !.rest = left]
    OBVIOUS
  <2>9. q \in Subscriber /\ q.pc = subscriber[c].pc /\ q.event = subscriber[c].event
    BY <2>2, <2>8 DEF Subscriber
  <2>10. subscriber' = [subscriber EXCEPT ![c] = q]
    BY <1>6, <2>1, <2>7, <2>8 DEF Forward
  <2> QED BY <1>0, <2>4, <2>5, <2>6, <2>9, <2>10, SubscriberFits
<1>7. ASSUME NEW c \in Connections, RoundEnds(c)
      PROVE  FeedInv'
  <2>1. PICK q : q = [subscriber[c] EXCEPT !.event = "none"]
    OBVIOUS
  <2>2. q \in Subscriber /\ q.rest = <<>> /\ q.pc = subscriber[c].pc
    BY <1>0, <1>7, <2>1 DEF RoundEnds, Subscriber
  <2>3. /\ subscriber' = [subscriber EXCEPT ![c] = q]
        /\ UNCHANGED <<socket, user, list, endpoint, publisher, got>>
    BY <1>7, <2>1 DEF RoundEnds
  <2> QED BY <1>0, <1>00, <2>2, <2>3, SubscriberFits
<1>8. ASSUME NEW e \in Events, Publish(e) \/ PublishFails(e)
      PROVE  FeedInv'
  <2>1. Received(e) \/ UNCHANGED subscriber
    BY <1>8 DEF Publish, PublishFails
  <2>2. publisher[e] \in Publisher /\ ListedUsers \in SUBSET Users
    BY <1>0 DEF ListedUsers
  <2>3. PICK q \in Publisher : publisher' = [publisher EXCEPT ![e] = q]
    <3>1. CASE Publish(e)
      <4>1. PICK q : q = [publisher[e] EXCEPT !.pc = "ended"]
        OBVIOUS
      <4>2. q \in Publisher
        BY <2>2, <4>1 DEF Publisher
      <4> QED BY <3>1, <4>1, <4>2 DEF Publish
    <3>2. CASE PublishFails(e)
      <4>1. PICK q : q = [publisher[e] EXCEPT !.pc = "broadcast", !.users = ListedUsers]
        OBVIOUS
      <4>2. q \in Publisher
        BY <2>2, <4>1 DEF Publisher
      <4>3. publisher' = [publisher EXCEPT ![e] = q]
        BY <1>0, <3>2, <4>1 DEF PublishFails
      <4> QED BY <4>2, <4>3
    <3> QED BY <1>8, <3>1, <3>2
  <2>4. UNCHANGED <<socket, user, list, endpoint, got>>
    BY <1>8 DEF Publish, PublishFails
  <2> QED BY <1>0, <1>00, <2>1, <2>3, <2>4, ReceivedFits, PublisherFits
<1>9. ASSUME NEW e \in Events, NEW u \in Users, NextUser(e, u)
      PROVE  FeedInv'
  <2>1. PICK q : q = [publisher[e] EXCEPT !.users = publisher[e].users \ {u}, !.rest = list[u]]
    OBVIOUS
  <2>2. q \in Publisher
    BY <1>0, <2>1 DEF Publisher
  <2>3. /\ publisher' = [publisher EXCEPT ![e] = q]
        /\ UNCHANGED <<socket, user, list, endpoint, subscriber, got>>
    BY <1>0, <1>9, <2>1 DEF NextUser, ConnectionsOf
  <2> QED BY <1>0, <1>00, <2>2, <2>3, PublisherFits
<1>10. ASSUME NEW e \in Events, Broadcast(e)
       PROVE  FeedInv'
  <2>1. PICK rest : rest = publisher[e].rest
    OBVIOUS
  <2>2. publisher[e] \in Publisher /\ rest \in Seq(Connections) /\ rest # <<>>
    BY <1>0, <1>10, <2>1 DEF Broadcast, Publisher
  <2>3. Head(rest) \in Connections /\ Tail(rest) \in Seq(Connections)
    BY <2>2
  <2>4. /\ Send(Head(rest), e)
        /\ UNCHANGED <<socket, user, endpoint, subscriber>>
    BY <1>10, <2>1 DEF Broadcast
  <2>5. ListsFit' /\ got' \in [Connections -> [Events -> Nat]]
    BY <2>3, <2>4, SendFits
  <2>6. PICK left \in Seq(Connections) :
          left = IF Raises(Head(rest)) THEN <<>> ELSE Tail(rest)
    BY ONLY <2>3, NothingLeft
  <2>7. PICK turns \in SUBSET Users :
          turns = IF Raises(Head(rest)) THEN {} ELSE publisher[e].users
    BY <2>2 DEF Publisher
  <2>8. PICK q : q = [publisher[e] EXCEPT !.rest = left, !.users = turns]
    OBVIOUS
  <2>9. q \in Publisher
    BY <2>2, <2>8 DEF Publisher
  <2>10. publisher' = [publisher EXCEPT ![e] = q]
    BY <1>0, <1>10, <2>1, <2>6, <2>7, <2>8 DEF Broadcast
  <2> QED BY <1>0, <2>4, <2>5, <2>9, <2>10, PublisherFits
<1>11. ASSUME NEW e \in Events, BroadcastEnds(e)
       PROVE  FeedInv'
  <2>1. PICK q : q = [publisher[e] EXCEPT !.pc = "ended"]
    OBVIOUS
  <2>2. q \in Publisher
    BY <1>0, <2>1 DEF Publisher
  <2>3. /\ publisher' = [publisher EXCEPT ![e] = q]
        /\ UNCHANGED <<socket, user, list, endpoint, subscriber, got>>
    BY <1>11, <2>1 DEF BroadcastEnds
  <2> QED BY <1>0, <1>00, <2>2, <2>3, PublisherFits
<1>12. CASE UNCHANGED feedVars
  BY <1>12 DEF feedVars, FeedInv, FeedTypeOK, ListsFit, Running, SubscribersFit, NewHasNone,
     EventAtHand
<1> QED BY <1>1, <1>2, <1>3, <1>4, <1>5, <1>6, <1>7, <1>8, <1>9, <1>10, <1>11, <1>12,
           ConnectFits, DisconnectFits
        DEF FeedNext, EndpointStep, SubscriberStep, PublisherStep

\* The registry and the tasks are those of the endpoints that run, for any
\* connections, users and events: removals by endpoints, subscribers and
\* publishers, in any order, neither lose an entry that is needed nor leave one
\* that is not (events.py:73-92).
THEOREM NothingIsLeft == FeedSpec => []NothingLeaks
<1>1. FeedInit => FeedInv
  BY FeedStarts
<1>2. FeedInv /\ [FeedNext]_feedVars => FeedInv'
  BY FeedGoesOn
<1>3. FeedInv => NothingLeaks
  BY DEF FeedInv, ListsFit, SubscribersFit, Running, NothingLeaks
<1> QED BY <1>1, <1>2, <1>3, PTL DEF FeedSpec
=============================================================================
