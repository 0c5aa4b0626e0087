------------------------------ MODULE RiskEngine ------------------------------
(***************************************************************************)
(* Risk prediction in the contract.  The language model's answer is read   *)
(* twice: by the leader, who refuses what it cannot read and bounds the    *)
(* rest, and again, with defaults, from what the leader returned.  The     *)
(* prediction is kept beside the operator's record, which repeats one of   *)
(* its numbers and which compute_reputation writes as well.                *)
(***************************************************************************)
EXTENDS SlashMath

CONSTANTS
  Addresses,
  Numbers      \* what the language model may answer with

ASSUME RiskAssumption == Numbers \subseteq Int

VARIABLES
  paused,
  operator,    \* the scores in self.operators that the prediction has to do with
  prediction   \* self.risk_predictions

riskVars == <<paused, operator, prediction>>

Trends == {"improving", "stable", "degrading"}

\* A field that is missing or is no number is empty.
ModelAnswer ==
  [fp : {{}} \cup {{n} : n \in Numbers}, sp : {{}} \cup {{n} : n \in Numbers},
   trend : Trends \cup {"other"}]

Prediction == [exists : {TRUE}, fp : Score, sp : Score, trend : Trends]

NoPrediction == [exists |-> FALSE]

RiskTypeOK ==
  /\ paused \in BOOLEAN
  /\ operator \in [Addresses -> [registered : BOOLEAN, risk : Score, predicted : Score]]
  /\ prediction \in [Addresses -> Prediction \cup {NoPrediction}]

RiskInit ==
  /\ paused = FALSE
  /\ operator = [o \in Addresses |-> [registered |-> FALSE, risk |-> 0, predicted |-> 0]]
  /\ prediction = [o \in Addresses |-> NoPrediction]

-----------------------------------------------------------------------------
Number(field) == CHOOSE n \in field : TRUE

KnownTrend(trend) == IF trend \in Trends THEN trend ELSE "stable"

Readable(a) == a.fp # {} /\ a.sp # {}

\* A slip: the leader bounds the slash probability as the other scores.
BoundedAlike(sp, fp) == Clamp(sp, 0, 100)

Bounded(sp, fp) == Clamp(sp, 0, fp)

Leader(a) ==
  LET fp == Clamp(Number(a.fp), 0, 100)
  IN  [fp |-> {fp}, sp |-> {Bounded(Number(a.sp), fp)}, trend |-> KnownTrend(a.trend)]

SafeInt(field, default) ==
  Clamp(IF field = {} THEN default ELSE Number(field), 0, 100)

SecondReading(raw) ==
  [exists |-> TRUE, fp |-> SafeInt(raw.fp, 20), trend |-> KnownTrend(raw.trend),
   sp |-> Clamp(SafeInt(raw.sp, 5), 0, SafeInt(raw.fp, 20))]

-----------------------------------------------------------------------------
RegisterOperator(o) ==
  /\ ~paused
  /\ ~operator[o].registered
  /\ operator' = [operator EXCEPT ![o].registered = TRUE]
  /\ UNCHANGED <<paused, prediction>>

\* A slip: the record is made anew from the scores.
Rescored(o, risk) == [registered |-> TRUE, risk |-> risk, predicted |-> 0]

Scored(o, risk) == [operator[o] EXCEPT !.risk = risk]

ComputeReputation(o, risk) ==
  /\ ~paused
  /\ operator[o].registered
  /\ operator' = [operator EXCEPT ![o] = Scored(o, Clamp(risk, 0, 100))]
  /\ UNCHANGED <<paused, prediction>>

\* An answer the leader cannot read ends the call.
PredictRisk(o, a) ==
  /\ ~paused
  /\ operator[o].registered
  /\ Readable(a)
  /\ LET p == SecondReading(Leader(a))
     IN  /\ prediction' = [prediction EXCEPT ![o] = p]
         /\ operator' = [operator EXCEPT ![o].predicted = p.sp]
  /\ UNCHANGED paused

SetPause(pause) ==
  /\ paused' = pause
  /\ UNCHANGED <<operator, prediction>>

RiskNext ==
  \/ \E o \in Addresses :
       \/ RegisterOperator(o)
       \/ \E n \in Numbers : ComputeReputation(o, n)
       \/ \E a \in ModelAnswer : PredictRisk(o, a)
  \/ \E pause \in BOOLEAN : SetPause(pause)

RiskSpec == RiskInit /\ [][RiskNext]_riskVars

-----------------------------------------------------------------------------
\* The operator's record and the prediction beside it tell the same, whichever
\* of the two calls came last, and a slash is never likelier than a failure,
\* whatever the model answers (slash_sure.py:1352, 1418-1422).
PredictionsAgree ==
  \A o \in Addresses :
    /\ prediction[o].exists =>
         operator[o].predicted = prediction[o].sp /\ prediction[o].sp <= prediction[o].fp
    /\ ~prediction[o].exists => operator[o].predicted = 0

\* What is stored is what the leader returned and the validators compared: the
\* second reading changes nothing and its defaults are never used
\* (slash_sure.py:1369-1382, 1390-1400).
StoredAsCompared ==
  [][\A o \in Addresses : prediction'[o] # prediction[o] =>
         \A a \in ModelAnswer : PredictRisk(o, a) =>
           LET raw == Leader(a)
               p   == prediction'[o]
           IN  raw.fp = {p.fp} /\ raw.sp = {p.sp} /\ raw.trend = p.trend]_riskVars
=============================================================================
