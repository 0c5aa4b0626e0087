------------------------------ MODULE Slashing ------------------------------
(***************************************************************************)
(* Evidence, fault verdicts and slashing cases of the SlashSure contract.  *)
(* A case runs ai_analysis -> recommended -> approved -> executed, with    *)
(* rejection by the owner, and appeal and review while it is approved.     *)
(* generate_slash_recommendation asks for no stage: it reopens any case.   *)
(***************************************************************************)
EXTENDS OperatorRegistry, FloatDivision

CONSTANTS
  RawScores,       \* the scores the language model may answer with
  Stakes,          \* the stakes at risk a case may be opened with: any integers
  Reputations,     \* the reputations a recommendation may be asked with
  RawBpsAnswers,   \* the revised basis points a review may answer with
  MaxSubmissions   \* bound of the model: evidence packages submitted

ASSUME SlashingAssumption ==
  /\ RawScores \subseteq Int
  /\ Stakes \subseteq Int
  /\ Reputations \subseteq Int
  /\ RawBpsAnswers \subseteq Int
  /\ MaxSubmissions \in Nat

VARIABLES
  evidence,        \* self.evidence_packages: the operator and the root
  totalIncidents,  \* self.total_incidents
  verdicts,        \* self.ai_verdicts
  cases,           \* self.slashing_cases
  totalCases       \* self.total_cases

evidenceVars == <<evidence, totalIncidents>>
caseVars     == <<verdicts, cases, totalCases>>
slashingVars == <<evidence, totalIncidents, verdicts, cases, totalCases>>

VerdictRecord == [analyzed : BOOLEAN, fp : Score, sv : Score, cf : Score]
NoVerdict     == [analyzed |-> FALSE, fp |-> 0, sv |-> 0, cf |-> 0]

Stage == {"none", "ai_analysis", "recommended", "approved", "appealed",
          "rejected", "executed"}

CaseRecord ==
  [stage : Stage, operator : Addresses \cup {Nobody}, stake : Int, fp : Score, cf : Score,
   bps : 0..FullBps, amount : Int, executed : Nat]

\* The key of a case nobody has created.
NoCase ==
  [stage |-> "none", operator |-> Nobody, stake |-> 0,
   fp |-> 0, cf |-> 0, bps |-> 0, amount |-> 0, executed |-> 0]

NoEvidence     == [operator |-> Nobody, root |-> "none"]
EvidenceRecord == [operator : Addresses \cup {Nobody},
                   root : {"none", "merkle", "page"}]

CaseExists(c) == cases[c].stage # "none"

SlashingTypeOK ==
  /\ evidence \in [Incidents -> EvidenceRecord]
  /\ totalIncidents \in Nat
  /\ verdicts \in [Incidents -> VerdictRecord]
  /\ cases \in [CaseIds -> CaseRecord]
  /\ totalCases \in Nat

SlashingInit ==
  /\ evidence = [i \in Incidents |-> NoEvidence]
  /\ totalIncidents = 0
  /\ verdicts = [i \in Incidents |-> NoVerdict]
  /\ cases = [c \in CaseIds |-> NoCase]
  /\ totalCases = 0

\* A slip: only the packages about registered operators are indexed.
StoreEvidenceUnindexed(i, a, root) ==
  /\ NotPaused
  /\ totalIncidents < MaxSubmissions
  /\ evidence' = [evidence EXCEPT ![i] = [operator |-> a, root |-> root]]
  /\ totalIncidents' = totalIncidents + 1
  /\ operatorIncidents' = IF IsRegistered(a) THEN AppendIndex(operatorIncidents, a, i)
                          ELSE operatorIncidents
  /\ UNCHANGED <<baseVars, operators, totalOperators, operatorCases,
                 operatorClaims, caseVars>>

(***************************************************************************)
(* Evidence.  The operator need not be registered, and a second submission *)
(* for an incident replaces the package and is counted again.              *)
(***************************************************************************)
StoreEvidence(i, a, root) ==
  /\ NotPaused
  /\ totalIncidents < MaxSubmissions
  /\ evidence' = [evidence EXCEPT ![i] = [operator |-> a, root |-> root]]
  /\ totalIncidents' = totalIncidents + 1
  /\ operatorIncidents' = AppendIndex(operatorIncidents, a, i)
  /\ UNCHANGED <<baseVars, operators, totalOperators, operatorCases,
                 operatorClaims, caseVars>>

SubmitEvidence(i, a) == StoreEvidence(i, a, "merkle")

\* The hash of the fetched page takes the place of the Merkle root; a fetch
\* that fails raises.
FetchAndSubmitEvidence(i, a) == StoreEvidence(i, a, "page")

\* The scores come from the language model; the last verdict wins.
AnalyzeFault(i, fp, sv, cf) ==
  /\ NotPaused
  /\ verdicts' = [verdicts EXCEPT ![i] =
       [analyzed |-> TRUE, fp |-> Clamp(fp, 0, 100), sv |-> Clamp(sv, 0, 100),
        cf |-> Clamp(cf, 0, 100)]]
  /\ UNCHANGED <<baseVars, registryVars, evidenceVars, cases, totalCases>>

\* A slip: nobody asks whether the operator is registered.
CreateSlashingCaseAnyOperator(c, a, i, stake) ==
  /\ NotPaused
  /\ ~CaseExists(c)
  /\ verdicts[i].analyzed
  /\ cases' = [cases EXCEPT ![c] =
       [stage |-> "ai_analysis", operator |-> a, stake |-> stake,
        fp |-> verdicts[i].fp, cf |-> verdicts[i].cf,
        bps |-> 0, amount |-> 0, executed |-> 0]]
  /\ totalCases' = totalCases + 1
  /\ operatorCases' = AppendIndex(operatorCases, a, c)
  /\ UNCHANGED <<baseVars, operators, totalOperators, operatorIncidents,
                 operatorClaims, evidenceVars, verdicts>>

\* The case copies the scores of the verdict of the day.  The stake at risk
\* is whatever the caller says: it need not be the operator's, nor positive.
CreateSlashingCase(c, a, i, stake) ==
  /\ NotPaused
  /\ IsRegistered(a)
  /\ ~CaseExists(c)
  /\ verdicts[i].analyzed
  /\ cases' = [cases EXCEPT ![c] =
       [stage |-> "ai_analysis", operator |-> a, stake |-> stake,
        fp |-> verdicts[i].fp, cf |-> verdicts[i].cf,
        bps |-> 0, amount |-> 0, executed |-> 0]]
  /\ totalCases' = totalCases + 1
  /\ operatorCases' = AppendIndex(operatorCases, a, c)
  /\ UNCHANGED <<baseVars, operators, totalOperators, operatorIncidents,
                 operatorClaims, evidenceVars, verdicts>>

\* No stage is asked for.  The confidence the next recommendation will read
\* is replaced by the model's confidence in this one.  A stake too large for
\* a float makes the division raise.
GenerateSlashRecommendation(c, reputation, confidence) ==
  LET bps == SlashBps(cases[c].fp, cases[c].cf, reputation, maxSlashBps)
  IN  /\ NotPaused
      /\ CaseExists(c)
      /\ Divisible(bps * cases[c].stake)
      /\ cases' = [cases EXCEPT ![c].bps = bps,
                                ![c].amount = RecommendedAmount(bps, cases[c].stake),
                                ![c].cf = Clamp(confidence, 0, 100),
                                ![c].stage = "recommended"]
      /\ UNCHANGED <<baseVars, registryVars, evidenceVars, verdicts, totalCases>>

ApproveSlashing(sender, c) ==
  /\ NotPaused
  /\ OnlyOwner(sender)
  /\ cases[c].stage = "recommended"
  /\ IsRegistered(cases[c].operator)
  /\ cases' = [cases EXCEPT ![c].stage = "approved"]
  /\ operators' = [operators EXCEPT ![cases[c].operator].status = "jailed"]
  /\ UNCHANGED <<baseVars, totalOperators, operatorIncidents, operatorCases,
                 operatorClaims, evidenceVars, verdicts, totalCases>>

RejectSlashing(sender, c) ==
  /\ NotPaused
  /\ OnlyOwner(sender)
  /\ cases[c].stage \in {"recommended", "ai_analysis"}
  /\ cases' = [cases EXCEPT ![c].stage = "rejected"]
  /\ UNCHANGED <<baseVars, registryVars, evidenceVars, verdicts, totalCases>>

\* A slip: the whole pot is asked for cover, not the operator's stake.
TotalCovers(a, amount) == amount <= totalStaked

\* The operator's own stake covers the slash.
StakeCovers(a, amount) == amount <= operators[a].staked

\* A slip: the slashes of an operator are not added up.
SlashedOverwritten(op, amount) ==
  [op EXCEPT !.reputation = ReputationAfterSlash(@, op.slashCount + 1),
             !.staked = @ - amount, !.slashed = amount,
             !.status = "slashed", !.slashCount = @ + 1]

\* A slip: the slash is not counted.
SlashUncounted(op, amount) ==
  [op EXCEPT !.reputation = ReputationAfterSlash(@, op.slashCount + 1),
             !.staked = @ - amount, !.slashed = @ + amount, !.status = "slashed"]

\* The operator record after a slash.
Slashed(op, amount) ==
  [op EXCEPT !.reputation = ReputationAfterSlash(@, op.slashCount + 1),
             !.staked = @ - amount, !.slashed = @ + amount,
             !.status = "slashed", !.slashCount = @ + 1]

\* The amount is the owner's: it is held against the operator's stake, not
\* against the amount that was recommended.
ExecuteSlashing(sender, c, amount) ==
  LET a == cases[c].operator
  IN  /\ NotPaused
      /\ OnlyOwner(sender)
      /\ cases[c].stage = "approved"
      /\ amount > 0
      /\ IsRegistered(a)
      /\ StakeCovers(a, amount)
      /\ cases' = [cases EXCEPT ![c].executed = amount, ![c].stage = "executed"]
      /\ operators' = [operators EXCEPT ![a] = Slashed(@, amount)]
      /\ totalStaked' = totalStaked - amount
      /\ totalSlashed' = totalSlashed + amount
      /\ Send(amount)
      /\ UNCHANGED <<authVars, claimPool, totalPayouts, totalOperators,
                     operatorIncidents, operatorCases, operatorClaims,
                     evidenceVars, verdicts, totalCases>>

\* A slip: an executed case may be appealed as well.
AppealSlashingLate(c) ==
  /\ NotPaused
  /\ cases[c].stage \in {"approved", "executed"}
  /\ cases' = [cases EXCEPT ![c].stage = "appealed"]
  /\ UNCHANGED <<baseVars, registryVars, evidenceVars, verdicts, totalCases>>

\* Anyone may appeal, as often as a review puts the case back to approved.
AppealSlashing(c) ==
  /\ NotPaused
  /\ cases[c].stage = "approved"
  /\ cases' = [cases EXCEPT ![c].stage = "appealed"]
  /\ UNCHANGED <<baseVars, registryVars, evidenceVars, verdicts, totalCases>>

\* A slip: an overturned case keeps its amount.
OverturnKeepsAmount(c, confidence) ==
  /\ IsRegistered(cases[c].operator)
  /\ cases' = [cases EXCEPT ![c].stage = "rejected", ![c].bps = 0,
                            ![c].cf = Clamp(confidence, 0, 100)]
  /\ operators' = [operators EXCEPT ![cases[c].operator].status = "active"]

\* A slip: the answer is not held to the original basis points.
ReduceUnbounded(c, revised, confidence) ==
  LET bps == Clamp(revised, 0, FullBps)
  IN  /\ Divisible(bps * cases[c].stake)
      /\ cases' = [cases EXCEPT ![c].stage = "approved", ![c].bps = bps,
                                ![c].amount = SlashAmount(bps, cases[c].stake),
                                ![c].cf = Clamp(confidence, 0, 100)]
      /\ UNCHANGED operators

\* The three outcomes of ai_review_appeal.
Overturn(c, confidence) ==
  /\ IsRegistered(cases[c].operator)
  /\ cases' = [cases EXCEPT ![c].stage = "rejected", ![c].bps = 0,
                            ![c].amount = 0,
                            ![c].cf = Clamp(confidence, 0, 100)]
  /\ operators' = [operators EXCEPT ![cases[c].operator].status = "active"]

\* Unlike the recommendation, a reduction does not hold the amount at zero.
Reduce(c, revised, confidence) ==
  LET bps == Clamp(revised, 0, cases[c].bps)
  IN  /\ Divisible(bps * cases[c].stake)
      /\ cases' = [cases EXCEPT ![c].stage = "approved", ![c].bps = bps,
                                ![c].amount = SlashAmount(bps, cases[c].stake),
                                ![c].cf = Clamp(confidence, 0, 100)]
      /\ UNCHANGED operators

Uphold(c, confidence) ==
  /\ cases' = [cases EXCEPT ![c].stage = "approved",
                            ![c].cf = Clamp(confidence, 0, 100)]
  /\ UNCHANGED operators

AIReviewAppeal(c, confidence) ==
  /\ NotPaused
  /\ cases[c].stage = "appealed"
  /\ \/ Overturn(c, confidence)
     \/ \E revised \in RawBpsAnswers : Reduce(c, revised, confidence)
     \/ Uphold(c, confidence)
  /\ UNCHANGED <<baseVars, totalOperators, operatorIncidents, operatorCases,
                 operatorClaims, evidenceVars, verdicts, totalCases>>
=============================================================================
