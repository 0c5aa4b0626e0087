-------------------------- MODULE ContractPromises --------------------------
(***************************************************************************)
(* Proofs about what the steps of SlashSureContract do, for every choice   *)
(* of its constants: that the contract implements TreasuryPromise, that a  *)
(* paused contract is frozen, and that an appeal never raises a slash; and *)
(* that its books agree: ballots with their voters, claims with their      *)
(* receipts, the indexes and counters with what is on file, and the        *)
(* slashes of the registry with the cases they were executed for.  Each of *)
(* the books rests on IInv and on an inductive invariant of its own.       *)
(***************************************************************************)
EXTENDS ContractProofs

\* The case and the claim files as the promise sees them.
Warrants == [c \in CaseIds |-> WarrantOf(c)]
Vouchers == [k \in ClaimIds |-> VoucherOf(k)]

\* What a stage is worth as a warrant, and a record as a voucher.
WarrantIn(stage) == CASE stage = "approved" -> "standing"
                      [] stage = "appealed" -> "suspended"
                      [] OTHER              -> "none"
VoucherIn(claim) ==
  IF claim.status \in {"approved", "partial"} THEN claim.available ELSE 0

-----------------------------------------------------------------------------
(***************************************************************************)
(* The contract implements TreasuryPromise.                                *)
(***************************************************************************)

\* The promise's variables, by their names in this module.
LEMMA PromiseVars ==
  ASSUME UNCHANGED <<balance, StakeOf, claimPool, Warrants, Vouchers>>
  PROVE  [Promise!Next]_Promise!vars
BY DEF Promise!vars, Warrants, Vouchers

LEMMA WarrantsStable ==
  ASSUME UNCHANGED cases
  PROVE  UNCHANGED Warrants
BY DEF Warrants, WarrantOf

LEMMA VouchersStable ==
  ASSUME UNCHANGED claims
  PROVE  UNCHANGED Vouchers
BY DEF Vouchers, VoucherOf

LEMMA StakesStable ==
  ASSUME UNCHANGED operators
  PROVE  UNCHANGED StakeOf
BY DEF StakeOf

\* A case file that is replaced moves its own warrant and no other.
LEMMA WarrantMoved ==
  ASSUME IInv, NEW c \in CaseIds, NEW d, cases' = [cases EXCEPT ![c] = d]
  PROVE  /\ Warrants' = [Warrants EXCEPT ![c] = WarrantIn(d.stage)]
         /\ Warrants[c] = WarrantIn(cases[c].stage)
<1>1. cases \in [CaseIds -> CaseRecord]
  BY DEF IInv, TypeOK, SlashingTypeOK
<1>2. \A b \in CaseIds : cases'[b] = IF b = c THEN d ELSE cases[b]
  BY <1>1
<1> QED BY <1>2 DEF Warrants, WarrantOf, WarrantIn

LEMMA VoucherMoved ==
  ASSUME IInv, NEW k \in ClaimIds, NEW d, claims' = [claims EXCEPT ![k] = d]
  PROVE  /\ Vouchers' = [Vouchers EXCEPT ![k] = VoucherIn(d)]
         /\ Vouchers[k] = VoucherIn(claims[k])
<1>1. claims \in [ClaimIds -> ClaimRecord]
  BY DEF IInv, TypeOK, ClaimsTypeOK
<1>2. \A b \in ClaimIds : claims'[b] = IF b = k THEN d ELSE claims[b]
  BY <1>1
<1>3. /\ Vouchers = [b \in ClaimIds |-> VoucherIn(claims[b])]
      /\ Vouchers' = [b \in ClaimIds |-> VoucherIn(claims'[b])]
  BY DEF Vouchers, VoucherOf, VoucherIn
<1> QED BY <1>2, <1>3

\* An operator record that is replaced moves the stake of its address.
LEMMA StakeMoved ==
  ASSUME IInv, NEW a \in Addresses, NEW r, operators' = [operators EXCEPT ![a] = r]
  PROVE  StakeOf' = [StakeOf EXCEPT ![a] = r.staked]
<1>1. operators \in [Addresses -> OperatorRecord]
  BY DEF IInv, TypeOK, RegistryTypeOK
<1>2. \A b \in Addresses : operators'[b] = IF b = a THEN r ELSE operators[b]
  BY <1>1
<1>3. /\ DOMAIN StakeOf = Addresses /\ DOMAIN StakeOf' = Addresses
      /\ \A b \in Addresses : StakeOf'[b] = IF b = a THEN r.staked ELSE StakeOf[b]
  BY <1>2 DEF StakeOf
<1>4. StakeOf = [b \in Addresses |-> StakeOf[b]] /\ StakeOf' = [b \in Addresses |-> StakeOf'[b]]
  BY DEF StakeOf
<1> QED BY <1>3, <1>4

\* With the same stake in it, it moves none.
LEMMA StakeKept ==
  ASSUME IInv, NEW a \in Addresses, NEW r, operators' = [operators EXCEPT ![a] = r],
         r.staked = operators[a].staked
  PROVE  UNCHANGED StakeOf
<1>1. StakeOf' = [StakeOf EXCEPT ![a] = StakeOf[a]]
  BY StakeMoved DEF StakeOf
<1> QED BY <1>1 DEF StakeOf

-----------------------------------------------------------------------------
(* Steps that leave the treasury alone.                                    *)

\* What moves neither coins nor stake, warrants or vouchers is a stutter.
LEMMA Stutters ==
  ASSUME UNCHANGED baseVars, UNCHANGED StakeOf, UNCHANGED Warrants, UNCHANGED claims
  PROVE  [Promise!Next]_Promise!vars
BY PromiseVars, VouchersStable DEF baseVars

LEMMA AdminKeeps == AdminNext => [Promise!Next]_Promise!vars
<1> SUFFICES ASSUME AdminNext PROVE [Promise!Next]_Promise!vars
  OBVIOUS
<1>1. UNCHANGED moneyVars /\ UNCHANGED besideBase
  BY DEF AdminNext, Pause, Unpause, TransferOwnership, UpdateParams
<1>2. UNCHANGED <<balance, claimPool, operators, cases, claims>>
  BY <1>1 DEF moneyVars, besideBase, registryVars, slashingVars, claimVars
<1> QED BY <1>2, WarrantsStable, VouchersStable, StakesStable, PromiseVars

LEMMA EvidenceKeeps == EvidenceNext => [Promise!Next]_Promise!vars
<1> SUFFICES ASSUME EvidenceNext PROVE [Promise!Next]_Promise!vars
  OBVIOUS
<1>1. UNCHANGED <<baseVars, operators, cases>> /\ UNCHANGED besideSlashing
  BY DEF EvidenceNext, SubmitEvidence, FetchAndSubmitEvidence, StoreEvidence, AnalyzeFault,
         caseVars, registryVars
<1> QED BY <1>1, WarrantsStable, StakesStable, Stutters DEF besideSlashing, claimVars

LEMMA GovernanceKeeps == GovernanceNext => [Promise!Next]_Promise!vars
<1> SUFFICES ASSUME GovernanceNext PROVE [Promise!Next]_Promise!vars
  OBVIOUS
<1>1. UNCHANGED baseVars /\ UNCHANGED besideGovernance
  BY DEF GovernanceNext, CreateProposal, Vote, FinalizeProposal
<1>2. UNCHANGED <<operators, cases, claims>>
  BY <1>1 DEF besideGovernance, registryVars, slashingVars, claimVars
<1> QED BY <1>1, <1>2, WarrantsStable, StakesStable, Stutters

-----------------------------------------------------------------------------
(* Stakes.                                                                 *)

\* Coins that come in as the stake of an address are a deposit.
LEMMA Deposits ==
  ASSUME IInv, NEW a \in Addresses, NEW value \in Amounts, value > 0,
         NEW r, r.staked = operators[a].staked + value,
         operators' = [operators EXCEPT ![a] = r],
         balance' = balance + value, UNCHANGED <<claimPool, cases, claims>>
  PROVE  [Promise!Next]_Promise!vars
<1>1. StakeOf' = [StakeOf EXCEPT ![a] = StakeOf[a] + value]
  BY StakeMoved DEF StakeOf
<1>2. Promise!Deposit(a, value)
  BY <1>1, WarrantsStable, VouchersStable DEF Promise!Deposit, Warrants, Vouchers
<1> QED BY <1>2 DEF Promise!Next

LEMMA RegisterKeeps ==
  ASSUME IInv, NEW a \in Addresses, NEW stake \in Amounts, NEW value \in Amounts,
         RegisterOperator(a, stake, value), UNCHANGED besideRegistry
  PROVE  [Promise!Next]_Promise!vars
<1> DEFINE r == [status |-> "active", staked |-> value, slashed |-> 0, slashCount |-> 0,
                 reputation |-> 100, whitelisted |-> FALSE]
<1>1. /\ ~IsRegistered(a) /\ stake > 0 /\ value = stake /\ UNCHANGED claimPool
      /\ balance' = balance + value /\ operators' = [operators EXCEPT ![a] = r]
  BY DEF RegisterOperator, Receive
<1>2. operators[a].staked = 0 /\ value \in Nat
  BY <1>1, BaseAssumption DEF IInv, UnregisteredEmpty
<1>3. r.staked = operators[a].staked + value
  BY <1>2
<1> HIDE DEF r
<1> QED BY <1>1, <1>3, Deposits DEF besideRegistry, slashingVars, claimVars

LEMMA StakeKeeps ==
  ASSUME IInv, NEW a \in Addresses, NEW stake \in Amounts, NEW value \in Amounts,
         UpdateOperatorStake(a, stake, value), UNCHANGED besideRegistry
  PROVE  [Promise!Next]_Promise!vars
<1> DEFINE r == [operators[a] EXCEPT !.staked = @ + value]
<1>1. /\ stake > 0 /\ value = stake /\ UNCHANGED claimPool
      /\ balance' = balance + value /\ operators' = [operators EXCEPT ![a] = r]
  BY DEF UpdateOperatorStake, Receive
<1>2. operators[a] \in OperatorRecord
  BY DEF IInv, TypeOK, RegistryTypeOK
<1>3. r.staked = operators[a].staked + value
  BY <1>2 DEF OperatorRecord
<1> HIDE DEF r
<1> QED BY <1>1, <1>3, Deposits DEF besideRegistry, slashingVars, claimVars

LEMMA RegistryKeeps == IInv /\ RegistryNext => [Promise!Next]_Promise!vars
<1> SUFFICES ASSUME IInv, NEW a \in Addresses, UNCHANGED besideRegistry,
               \/ \E sender \in Accounts, status \in StatusChoices :
                    UpdateOperatorStatus(sender, a, status)
               \/ \E sender \in Accounts : WhitelistOperator(sender, a)
               \/ \E overall \in OverallScores : ComputeReputation(a, overall)
             PROVE  [Promise!Next]_Promise!vars
  BY RegisterKeeps, StakeKeeps DEF RegistryNext
<1>1. operators[a] \in OperatorRecord
  BY DEF IInv, TypeOK, RegistryTypeOK
<1>2. PICK r : operators' = [operators EXCEPT ![a] = r] /\ r.staked = operators[a].staked
  BY <1>1 DEF UpdateOperatorStatus, WhitelistOperator, ComputeReputation, OperatorRecord
<1>3. UNCHANGED StakeOf
  BY <1>2, StakeKept
<1>4. UNCHANGED baseVars
  BY DEF UpdateOperatorStatus, WhitelistOperator, ComputeReputation
<1> QED BY <1>3, <1>4, WarrantsStable, Stutters DEF besideRegistry, slashingVars, claimVars

-----------------------------------------------------------------------------
(* Warrants.                                                               *)

\* A case file that is replaced, with no coins moved: its warrant is granted,
\* suspended, reinstated or withdrawn, or stays as it is.
LEMMA WarrantSteps ==
  ASSUME IInv, NEW c \in CaseIds, NEW d, cases' = [cases EXCEPT ![c] = d],
         UNCHANGED baseVars, UNCHANGED StakeOf, UNCHANGED claims,
         \/ WarrantIn(d.stage) = WarrantIn(cases[c].stage)
         \/ WarrantIn(d.stage) = "none"
         \/ WarrantIn(cases[c].stage) = "none" /\ WarrantIn(d.stage) = "standing"
         \/ WarrantIn(cases[c].stage) = "standing" /\ WarrantIn(d.stage) = "suspended"
         \/ WarrantIn(cases[c].stage) = "suspended" /\ WarrantIn(d.stage) = "standing"
  PROVE  [Promise!Next]_Promise!vars
<1> DEFINE old == WarrantIn(cases[c].stage)
           new == WarrantIn(d.stage)
<1>1. /\ Warrants' = [Warrants EXCEPT ![c] = new]
      /\ Warrants[c] = old
  BY WarrantMoved
<1>2. old \in {"none", "standing", "suspended"}
  BY DEF WarrantIn
<1>3. UNCHANGED <<balance, StakeOf, claimPool, Vouchers>>
  BY VouchersStable DEF baseVars
<1> HIDE DEF old, new
<1>4. CASE new = old
  <2>1. Warrants' = Warrants
    BY <1>1, <1>4 DEF Warrants
  <2> QED BY <1>3, <2>1, PromiseVars
<1>5. CASE new # old
  <2>1. Promise!MoveWarrant(c, old, new)
    BY <1>1, <1>3 DEF Promise!MoveWarrant, Warrants, Vouchers
  <2>2. \/ Promise!Grant(c) \/ Promise!Suspend(c) \/ Promise!Reinstate(c)
        \/ Promise!Withdraw(c)
    BY <1>2, <1>5, <2>1
       DEF Promise!Grant, Promise!Suspend, Promise!Reinstate, Promise!Withdraw, old, new
  <2> QED BY <2>2 DEF Promise!Next
<1> QED BY <1>4, <1>5

\* What IInv says of the files.
LEMMA Files ==
  ASSUME IInv, NEW c \in CaseIds
  PROVE  /\ cases \in [CaseIds -> CaseRecord] /\ cases[c] \in CaseRecord
         /\ operators \in [Addresses -> OperatorRecord]
         /\ CaseExists(c) => cases[c].operator \in Addresses
BY DEF IInv, TypeOK, SlashingTypeOK, RegistryTypeOK, CaseOperators

\* A status given to a case's operator moves no stake.
LEMMA StatusKeepsStake ==
  ASSUME IInv, NEW c \in CaseIds, CaseExists(c), NEW status,
         operators' = [operators EXCEPT ![cases[c].operator].status = status]
  PROVE  UNCHANGED StakeOf
<1> DEFINE a == cases[c].operator
           r == [operators[a] EXCEPT !.status = status]
<1>1. a \in Addresses /\ operators[a] \in OperatorRecord
  BY Files
<1>2. operators' = [operators EXCEPT ![a] = r] /\ r.staked = operators[a].staked
  BY <1>1 DEF OperatorRecord
<1> HIDE DEF a, r
<1> QED BY <1>1, <1>2, StakeKept

\* Opening a case, recommending and rejecting leave no warrant behind.
LEMMA DraftKeeps ==
  ASSUME IInv, NEW c \in CaseIds, UNCHANGED besideSlashing,
         \/ \E a \in Addresses, i \in Incidents, stake \in Stakes :
              CreateSlashingCase(c, a, i, stake)
         \/ \E reputation \in Reputations, confidence \in RawScores :
              GenerateSlashRecommendation(c, reputation, confidence)
         \/ \E sender \in Accounts : RejectSlashing(sender, c)
  PROVE  [Promise!Next]_Promise!vars
<1>1. cases \in [CaseIds -> CaseRecord] /\ cases[c] \in CaseRecord
  BY Files
<1>2. PICK d : /\ cases' = [cases EXCEPT ![c] = d]
               /\ d.stage \in {"ai_analysis", "recommended", "rejected"}
  <2> DEFINE rewritten == /\ cases' = [cases EXCEPT ![c] = cases'[c]]
                          /\ cases'[c].stage \in {"ai_analysis", "recommended", "rejected"}
  <2>1. ASSUME NEW a \in Addresses, NEW i \in Incidents, NEW stake \in Stakes,
               CreateSlashingCase(c, a, i, stake)
        PROVE  rewritten
    BY <1>1, <2>1 DEF CreateSlashingCase
  <2>2. ASSUME NEW reputation \in Reputations, NEW confidence \in RawScores,
               GenerateSlashRecommendation(c, reputation, confidence)
        PROVE  rewritten
    BY <1>1, <2>2 DEF GenerateSlashRecommendation, CaseRecord
  <2>3. ASSUME NEW sender \in Accounts, RejectSlashing(sender, c)
        PROVE  rewritten
    BY <1>1, <2>3 DEF RejectSlashing, CaseRecord
  <2> QED BY <2>1, <2>2, <2>3
<1>3. WarrantIn(d.stage) = "none"
  BY <1>2 DEF WarrantIn
<1>4. UNCHANGED <<baseVars, operators>>
  BY DEF CreateSlashingCase, GenerateSlashRecommendation, RejectSlashing, registryVars
<1> QED BY <1>2, <1>3, <1>4, StakesStable, WarrantSteps DEF besideSlashing, claimVars

LEMMA ApproveKeeps ==
  ASSUME IInv, NEW c \in CaseIds, NEW sender, ApproveSlashing(sender, c),
         UNCHANGED besideSlashing
  PROVE  [Promise!Next]_Promise!vars
<1> DEFINE d == [cases[c] EXCEPT !.stage = "approved"]
<1>1. cases' = [cases EXCEPT ![c] = d] /\ cases[c].stage = "recommended"
  BY DEF ApproveSlashing
<1>2. d.stage = "approved"
  BY Files DEF CaseRecord
<1> HIDE DEF d
<1>3. WarrantIn(cases[c].stage) = "none" /\ WarrantIn(d.stage) = "standing"
  BY <1>1, <1>2 DEF WarrantIn
<1>4. UNCHANGED StakeOf
  BY <1>1, StatusKeepsStake DEF ApproveSlashing, CaseExists
<1> QED BY <1>1, <1>3, <1>4, WarrantSteps DEF ApproveSlashing, besideSlashing, claimVars

LEMMA AppealKeeps ==
  ASSUME IInv, NEW c \in CaseIds, AppealSlashing(c), UNCHANGED besideSlashing
  PROVE  [Promise!Next]_Promise!vars
<1> DEFINE d == [cases[c] EXCEPT !.stage = "appealed"]
<1>1. cases' = [cases EXCEPT ![c] = d] /\ cases[c].stage = "approved"
  BY DEF AppealSlashing
<1>2. d.stage = "appealed"
  BY Files DEF CaseRecord
<1> HIDE DEF d
<1>3. WarrantIn(cases[c].stage) = "standing" /\ WarrantIn(d.stage) = "suspended"
  BY <1>1, <1>2 DEF WarrantIn
<1>4. UNCHANGED <<baseVars, StakeOf, claims>>
  BY StakesStable DEF AppealSlashing, registryVars, besideSlashing, claimVars
<1> QED BY <1>1, <1>3, <1>4, WarrantSteps

LEMMA ReviewKeeps ==
  ASSUME IInv, NEW c \in CaseIds, NEW confidence \in RawScores,
         AIReviewAppeal(c, confidence), UNCHANGED besideSlashing
  PROVE  [Promise!Next]_Promise!vars
<1>1. cases[c].stage = "appealed" /\ cases[c] \in CaseRecord /\ UNCHANGED <<baseVars, claims>>
  BY Files DEF AIReviewAppeal, besideSlashing, claimVars
<1>2. WarrantIn(cases[c].stage) = "suspended"
  BY <1>1 DEF WarrantIn
<1>3. CASE Overturn(c, confidence)
  <2>1. PICK d : cases' = [cases EXCEPT ![c] = d] /\ d.stage = "rejected"
    <3>1. /\ cases' = [cases EXCEPT ![c] = cases'[c]]
          /\ cases'[c].stage = "rejected"
      BY <1>3, Files DEF Overturn, CaseRecord
    <3> QED BY <3>1
  <2>2. WarrantIn(d.stage) = "none"
    BY <2>1 DEF WarrantIn
  <2>3. UNCHANGED StakeOf
    BY <1>1, <1>3, StatusKeepsStake DEF Overturn, CaseExists
  <2> QED BY <1>1, <2>1, <2>2, <2>3, WarrantSteps
<1>4. CASE Uphold(c, confidence) \/ \E revised \in RawBpsAnswers : Reduce(c, revised, confidence)
  <2>1. PICK d : cases' = [cases EXCEPT ![c] = d] /\ d.stage = "approved"
    <3>1. CASE Uphold(c, confidence)
      <4>1. cases' = [cases EXCEPT ![c] = cases'[c]] /\ cases'[c].stage = "approved"
        BY <3>1, Files DEF Uphold, CaseRecord
      <4> QED BY <4>1
    <3>2. ASSUME NEW revised \in RawBpsAnswers, Reduce(c, revised, confidence)
          PROVE  \E d : cases' = [cases EXCEPT ![c] = d] /\ d.stage = "approved"
      <4>1. cases' = [cases EXCEPT ![c] = cases'[c]] /\ cases'[c].stage = "approved"
        BY <3>2, Files DEF Reduce, CaseRecord
      <4> QED BY <4>1
    <3> QED BY <1>4, <3>1, <3>2
  <2>2. WarrantIn(d.stage) = "standing"
    BY <2>1 DEF WarrantIn
  <2>3. UNCHANGED StakeOf
    BY <1>4, StakesStable DEF Uphold, Reduce
  <2> QED BY <1>1, <1>2, <2>1, <2>2, <2>3, WarrantSteps
<1> QED BY <1>3, <1>4 DEF AIReviewAppeal

\* A slash uses up the warrant of its case and stake of the case's operator.
LEMMA ExecuteKeeps ==
  ASSUME IInv, NEW c \in CaseIds, NEW sender, NEW amount \in Amounts,
         ExecuteSlashing(sender, c, amount), UNCHANGED besideSlashing
  PROVE  [Promise!Next]_Promise!vars
<1> DEFINE a == cases[c].operator
           r == Slashed(operators[a], amount)
           d == [cases[c] EXCEPT !.executed = amount, !.stage = "executed"]
<1>1. /\ cases[c].stage = "approved" /\ amount > 0 /\ StakeCovers(a, amount)
      /\ operators' = [operators EXCEPT ![a] = r] /\ cases' = [cases EXCEPT ![c] = d]
      /\ balance' = balance - amount /\ UNCHANGED <<claimPool, claims>>
  BY DEF ExecuteSlashing, Send, besideSlashing, claimVars
<1>2. a \in Addresses /\ operators[a] \in OperatorRecord /\ cases[c] \in CaseRecord
  BY <1>1, Files DEF CaseExists
<1>3. d.stage = "executed"
  BY <1>2 DEF CaseRecord
<1>4. r.staked = operators[a].staked - amount /\ amount <= operators[a].staked
  BY <1>1, <1>2, BaseAssumption, SlashedRecord DEF StakeCovers
<1> HIDE DEF a, r, d
<1>5. /\ StakeOf' = [StakeOf EXCEPT ![a] = StakeOf[a] - amount]
      /\ amount <= StakeOf[a]
  BY <1>1, <1>2, <1>4, StakeMoved DEF StakeOf
<1>6. /\ Warrants' = [Warrants EXCEPT ![c] = "none"]
      /\ Warrants[c] = "standing"
  BY <1>1, <1>3, WarrantMoved DEF WarrantIn
<1>7. Promise!Slash(c, a, amount)
  BY <1>1, <1>5, <1>6, VouchersStable DEF Promise!Slash, Warrants, Vouchers
<1> QED BY <1>2, <1>7 DEF Promise!Next

LEMMA CaseKeeps == IInv /\ CaseNext => [Promise!Next]_Promise!vars
BY DraftKeeps, ApproveKeeps, ExecuteKeeps, AppealKeeps, ReviewKeeps DEF CaseNext

-----------------------------------------------------------------------------
(* Vouchers.                                                               *)

LEMMA FundKeeps ==
  ASSUME NEW value \in Amounts, FundClaimPool(value), UNCHANGED besideClaims
  PROVE  [Promise!Next]_Promise!vars
<1>1. /\ value > 0 /\ balance' = balance + value /\ claimPool' = claimPool + value
      /\ UNCHANGED <<operators, cases, claims>>
  BY DEF FundClaimPool, Receive, registryVars, claimVars, besideClaims, slashingVars
<1>2. Promise!Cover(value)
  BY <1>1, StakesStable, WarrantsStable, VouchersStable DEF Promise!Cover, Warrants, Vouchers
<1> QED BY <1>2 DEF Promise!Next

\* A claim file that is replaced, with no coins moved, is an assessment.
LEMMA Assesses ==
  ASSUME IInv, NEW k \in ClaimIds, NEW d, VoucherIn(d) \in Nat,
         claims' = [claims EXCEPT ![k] = d], UNCHANGED <<baseVars, operators, cases>>
  PROVE  [Promise!Next]_Promise!vars
<1>1. Vouchers' = [Vouchers EXCEPT ![k] = VoucherIn(d)]
  BY VoucherMoved
<1>2. Vouchers'[k] = VoucherIn(d)
  BY <1>1 DEF Vouchers
<1>3. Promise!Assess(k)
  BY <1>1, <1>2, StakesStable, WarrantsStable DEF Promise!Assess, Warrants, Vouchers, baseVars
<1> QED BY <1>3 DEF Promise!Next

LEMMA SubmitKeeps ==
  ASSUME IInv, NEW k \in ClaimIds, NEW a \in Addresses,
         NEW coverage \in Amounts, NEW claimed \in Amounts,
         SubmitClaim(k, a, coverage, claimed), UNCHANGED besideClaims
  PROVE  [Promise!Next]_Promise!vars
<1> DEFINE d == [status |-> "submitted", claimant |-> a, claimed |-> claimed,
                 approved |-> 0, available |-> 0]
<1>1. claims' = [claims EXCEPT ![k] = d] /\ UNCHANGED <<baseVars, operators, cases>>
  BY DEF SubmitClaim, besideClaims, slashingVars
<1>2. VoucherIn(d) \in Nat
  BY DEF VoucherIn
<1> HIDE DEF d
<1> QED BY <1>1, <1>2, Assesses

LEMMA AdjudicateKeeps ==
  ASSUME IInv, NEW k \in ClaimIds, NEW rawAssessed \in RawAmounts, NEW rawApproved \in RawAmounts,
         AdjudicateClaim(k, rawAssessed, rawApproved), UNCHANGED besideClaims
  PROVE  [Promise!Next]_Promise!vars
<1> DEFINE assessed == Clamp(rawAssessed, 0, claims[k].claimed)
           approved == Clamp(rawApproved, 0, assessed)
           d == Decided(claims[k], assessed, approved)
<1>1. claims' = [claims EXCEPT ![k] = d] /\ UNCHANGED <<baseVars, operators, cases>>
  BY DEF AdjudicateClaim, registryVars, besideClaims, slashingVars
<1>2. claims[k] \in ClaimRecord
  BY DEF IInv, TypeOK, ClaimsTypeOK
<1>3. assessed \in Nat
  BY <1>2, ClaimsAssumption DEF Clamp, ClaimRecord
<1> HIDE DEF assessed
<1>4. approved \in Nat
  BY <1>3, ClaimsAssumption DEF Clamp
<1> HIDE DEF approved
<1>5. d.available = approved
  BY <1>2 DEF Decided, ClaimRecord
<1>6. VoucherIn(d) \in Nat
  BY <1>4, <1>5 DEF VoucherIn
<1> HIDE DEF d
<1> QED BY <1>1, <1>6, Assesses

\* A payment is within the voucher and uses all of it up.
LEMMA PayoutKeeps ==
  ASSUME IInv, NEW sender, NEW k \in ClaimIds, NEW p \in PayoutIds, NEW amount \in Amounts,
         AuthorizePayout(sender, k, p, amount), UNCHANGED besideClaims
  PROVE  [Promise!Next]_Promise!vars
<1> DEFINE d == [claims[k] EXCEPT !.available = @ - amount, !.status = "paid"]
<1>1. /\ Payable(k) /\ amount > 0 /\ amount <= claims[k].available /\ amount <= claimPool
      /\ claims' = [claims EXCEPT ![k] = d]
      /\ balance' = balance - amount /\ claimPool' = claimPool - amount
      /\ UNCHANGED <<operators, cases>>
  BY DEF AuthorizePayout, Send, registryVars, besideClaims, slashingVars
<1>2. d.status = "paid"
  BY DEF IInv, TypeOK, ClaimsTypeOK, ClaimRecord
<1> HIDE DEF d
<1>3. /\ Vouchers' = [Vouchers EXCEPT ![k] = 0]
      /\ Vouchers[k] = claims[k].available
  BY <1>1, <1>2, VoucherMoved DEF VoucherIn, Payable
<1>4. Promise!Pay(k, amount)
  BY <1>1, <1>3, StakesStable, WarrantsStable DEF Promise!Pay, Warrants, Vouchers
<1> QED BY <1>4 DEF Promise!Next

LEMMA CompleteKeeps ==
  ASSUME NEW sender, NEW p \in PayoutIds, CompletePayout(sender, p), UNCHANGED besideClaims
  PROVE  [Promise!Next]_Promise!vars
<1>1. UNCHANGED baseVars /\ UNCHANGED <<operators, cases, claims>>
  BY DEF CompletePayout, registryVars, claimVars, besideClaims, slashingVars
<1> QED BY <1>1, StakesStable, WarrantsStable, Stutters

LEMMA ClaimKeeps == IInv /\ ClaimNext => [Promise!Next]_Promise!vars
BY FundKeeps, SubmitKeeps, AdjudicateKeeps, PayoutKeeps, CompleteKeeps DEF ClaimNext

LEMMA StartsPromise == Init => Promise!Init
BY DEF Init, BaseInit, RegistryInit, SlashingInit, ClaimsInit, Promise!Init,
       StakeOf, Unregistered, WarrantOf, NoCase, VoucherOf, NoClaim

\* In any order of calls, by anyone, with cases reopened and appeals reviewed as
\* often as they like: coins leave the contract only as a slash that uses up an
\* approval in force, out of that operator's stake, or as a payment that uses up
\* what a claim was given (slash_sure.py:811-849, 1105-1153).
THEOREM Refinement == Spec => KeepsPromise
<1>1. IInv /\ [Next]_vars => [Promise!Next]_Promise!vars
  <2> SUFFICES ASSUME IInv, [Next]_vars PROVE [Promise!Next]_Promise!vars
    OBVIOUS
  <2>1. CASE Next
    BY <2>1, AdminKeeps, RegistryKeeps, EvidenceKeeps, CaseKeeps, ClaimKeeps, GovernanceKeeps
       DEF Next
  <2>2. CASE UNCHANGED vars
    BY <2>2, StakesStable, WarrantsStable, Stutters
       DEF vars, registryVars, slashingVars, claimVars, baseVars
  <2> QED BY <2>1, <2>2
<1> QED BY <1>1, StartsPromise, Inductive, PTL DEF Spec, KeepsPromise, Promise!Spec

-----------------------------------------------------------------------------
(***************************************************************************)
(* The pause.                                                              *)
(***************************************************************************)

\* What a paused contract may not do.
Frozen ==
  /\ UNCHANGED <<moneyVars, slashingVars, claimVars, governanceVars>>
  /\ \A a \in Addresses : operators'[a].status = operators[a].status

LEMMA PausedAdmin == AdminNext => Frozen
BY DEF AdminNext, Pause, Unpause, TransferOwnership, UpdateParams, Frozen, besideBase,
       registryVars

LEMMA PausedRegistry == IInv /\ paused /\ RegistryNext => Frozen
<1> SUFFICES ASSUME IInv, paused, NEW a \in Addresses, UNCHANGED besideRegistry,
                    NEW sender \in Accounts, WhitelistOperator(sender, a)
             PROVE  Frozen
  BY DEF RegistryNext, RegisterOperator, UpdateOperatorStake, UpdateOperatorStatus,
         ComputeReputation, NotPaused
<1>1. operators \in [Addresses -> OperatorRecord]
  BY DEF IInv, TypeOK, RegistryTypeOK
<1>2. \A b \in Addresses : operators'[b].status = operators[b].status
  BY <1>1 DEF WhitelistOperator, OperatorRecord
<1> QED BY <1>2 DEF Frozen, WhitelistOperator, besideRegistry, baseVars, moneyVars

\* Of the other parts, only completing a payout is not gated, and it changes nothing.
LEMMA PausedRest ==
  ASSUME paused, EvidenceNext \/ CaseNext \/ ClaimNext \/ GovernanceNext
  PROVE  Frozen
<1>1. ~EvidenceNext
  BY DEF EvidenceNext, SubmitEvidence, FetchAndSubmitEvidence, StoreEvidence, AnalyzeFault,
         NotPaused
<1>2. ~CaseNext
  BY DEF CaseNext, CreateSlashingCase, GenerateSlashRecommendation, ApproveSlashing,
         RejectSlashing, ExecuteSlashing, AppealSlashing, AIReviewAppeal, NotPaused
<1>3. ~GovernanceNext
  BY DEF GovernanceNext, CreateProposal, Vote, FinalizeProposal, NotPaused
<1>4. PICK sender \in Accounts, p \in PayoutIds :
        CompletePayout(sender, p) /\ UNCHANGED besideClaims
  BY <1>1, <1>2, <1>3
     DEF ClaimNext, FundClaimPool, SubmitClaim, AdjudicateClaim, AuthorizePayout, NotPaused
<1> QED BY <1>4 DEF Frozen, CompletePayout, besideClaims, baseVars, moneyVars, registryVars

\* Once paused, the contract moves no money and no case, verdict, claim, payout,
\* proposal or operator status until it is unpaused (slash_sure.py:159-160).
THEOREM Freezing == Spec => PausedFreezes
<1>1. IInv /\ [Next]_vars => [paused => Frozen]_vars
  <2> SUFFICES ASSUME IInv, Next, paused PROVE Frozen
    OBVIOUS
  <2> QED BY PausedAdmin, PausedRegistry, PausedRest DEF Next
<1>2. [paused => Frozen]_vars =>
      [paused => /\ UNCHANGED <<moneyVars, slashingVars, claimVars, governanceVars>>
                 /\ \A a \in Addresses : operators'[a].status = operators[a].status]_vars
  BY DEF Frozen
<1> QED BY <1>1, <1>2, Inductive, PTL DEF Spec, PausedFreezes

-----------------------------------------------------------------------------
(***************************************************************************)
(* Appeals.                                                                *)
(***************************************************************************)

\* What becomes of a case file: its operator and its stake at risk are written
\* once, and no step raises the basis points of a slash that has been approved.
Revises(old, new) ==
  /\ old.stage # "none" => new.stake = old.stake /\ new.operator = old.operator
  /\ old.stage \in {"approved", "appealed"} /\ new.stage # "recommended" => new.bps <= old.bps

\* A step that gives case c the file d.
Rewrites(c, d) == cases' = [cases EXCEPT ![c] = d] /\ Revises(cases[c], d)

\* The three outcomes of a review.
LEMMA ReviewRevises ==
  ASSUME IInv, NEW c \in CaseIds, NEW confidence \in RawScores, AIReviewAppeal(c, confidence)
  PROVE  \E d : Rewrites(c, d)
<1> DEFINE cf == Clamp(confidence, 0, 100)
<1>1. cases[c] \in CaseRecord /\ cases[c].bps \in Nat
  BY Files, CaseFacts, BpsNatural
<1>2. CASE Overturn(c, confidence)
  <2> DEFINE d == [cases[c] EXCEPT !.stage = "rejected", !.bps = 0, !.amount = 0, !.cf = cf]
  <2>1. cases' = [cases EXCEPT ![c] = d]
    BY <1>2 DEF Overturn
  <2> HIDE DEF cf
  <2>2. Revises(cases[c], d)
    BY <1>1 DEF Revises, CaseRecord
  <2> QED BY <2>1, <2>2 DEF Rewrites
<1>3. ASSUME NEW revised \in RawBpsAnswers, Reduce(c, revised, confidence)
      PROVE  \E d : Rewrites(c, d)
  <2> DEFINE bps == Clamp(revised, 0, cases[c].bps)
             amount == SlashAmount(bps, cases[c].stake)
             d == [cases[c] EXCEPT !.stage = "approved", !.bps = bps, !.amount = amount,
                                   !.cf = cf]
  <2>1. bps <= cases[c].bps
    BY <1>1, SlashingAssumption DEF Clamp
  <2>2. cases' = [cases EXCEPT ![c] = d]
    BY <1>3 DEF Reduce
  <2> HIDE DEF bps, amount, cf
  <2>3. Revises(cases[c], d)
    BY <1>1, <2>1 DEF Revises, CaseRecord
  <2> QED BY <2>2, <2>3 DEF Rewrites
<1>4. CASE Uphold(c, confidence)
  <2> DEFINE d == [cases[c] EXCEPT !.stage = "approved", !.cf = cf]
  <2>1. cases' = [cases EXCEPT ![c] = d]
    BY <1>4 DEF Uphold
  <2> HIDE DEF cf
  <2>2. Revises(cases[c], d)
    BY <1>1 DEF Revises, CaseRecord
  <2> QED BY <2>1, <2>2 DEF Rewrites
<1> QED BY <1>2, <1>3, <1>4 DEF AIReviewAppeal

\* A new stage, and nothing else of what Revises asks for.
LEMMA MoveRevises ==
  ASSUME IInv, NEW c \in CaseIds, NEW stage, cases' = [cases EXCEPT ![c].stage = stage]
  PROVE  \E d : Rewrites(c, d)
<1> DEFINE d == [cases[c] EXCEPT !.stage = stage]
<1>1. cases[c] \in CaseRecord /\ cases[c].bps \in Nat
  BY Files, CaseFacts, BpsNatural
<1>2. Revises(cases[c], d)
  BY <1>1 DEF Revises, CaseRecord
<1> QED BY <1>2 DEF Rewrites

LEMMA RecommendRevises ==
  ASSUME IInv, NEW c \in CaseIds, NEW reputation, NEW confidence,
         GenerateSlashRecommendation(c, reputation, confidence)
  PROVE  \E d : Rewrites(c, d)
<1> DEFINE bps == SlashBps(cases[c].fp, cases[c].cf, reputation, maxSlashBps)
           amount == RecommendedAmount(bps, cases[c].stake)
           cf == Clamp(confidence, 0, 100)
           d == [cases[c] EXCEPT !.bps = bps, !.amount = amount, !.cf = cf,
                                 !.stage = "recommended"]
<1>1. cases[c] \in CaseRecord
  BY Files
<1>2. cases' = [cases EXCEPT ![c] = d]
  BY DEF GenerateSlashRecommendation
<1> HIDE DEF bps, amount, cf
<1>3. Revises(cases[c], d)
  BY <1>1 DEF Revises, CaseRecord
<1> QED BY <1>2, <1>3 DEF Rewrites

LEMMA ExecuteRevises ==
  ASSUME IInv, NEW c \in CaseIds, NEW sender, NEW amount, ExecuteSlashing(sender, c, amount)
  PROVE  \E d : Rewrites(c, d)
<1> DEFINE d == [cases[c] EXCEPT !.executed = amount, !.stage = "executed"]
<1>1. cases[c] \in CaseRecord /\ cases[c].bps \in Nat
  BY Files, CaseFacts, BpsNatural
<1>2. cases' = [cases EXCEPT ![c] = d]
  BY DEF ExecuteSlashing
<1>3. Revises(cases[c], d)
  BY <1>1 DEF Revises, CaseRecord
<1> QED BY <1>2, <1>3 DEF Rewrites

LEMMA CreateRevises ==
  ASSUME NEW c \in CaseIds, NEW a, NEW i, NEW stake, CreateSlashingCase(c, a, i, stake)
  PROVE  \E d : Rewrites(c, d)
<1>1. cases[c].stage = "none" /\ \E d : cases' = [cases EXCEPT ![c] = d]
  BY DEF CreateSlashingCase, CaseExists
<1> QED BY <1>1 DEF Rewrites, Revises

\* Every call about a case rewrites that case alone.
LEMMA CaseRevises ==
  ASSUME IInv, CaseNext
  PROVE  \E c \in CaseIds : \E d : Rewrites(c, d)
<1>1. ASSUME NEW c \in CaseIds, NEW sender \in Accounts,
             \/ ApproveSlashing(sender, c) \/ RejectSlashing(sender, c) \/ AppealSlashing(c)
      PROVE  \E d : Rewrites(c, d)
  BY <1>1, MoveRevises DEF ApproveSlashing, RejectSlashing, AppealSlashing
<1> QED BY <1>1, BaseAssumption, CreateRevises, RecommendRevises, ExecuteRevises, ReviewRevises
        DEF CaseNext

\* Only the calls about cases write a case.
LEMMA CasesElsewhere ==
  ASSUME [Next]_vars
  PROVE  CaseNext \/ UNCHANGED cases
BY DEF Next, vars, AdminNext, RegistryNext, EvidenceNext, ClaimNext, GovernanceNext,
       besideBase, besideRegistry, besideClaims, besideGovernance, slashingVars,
       SubmitEvidence, FetchAndSubmitEvidence, StoreEvidence, AnalyzeFault, caseVars

\* Of a stake at risk that never changes, fewer basis points stand for no higher
\* amount: a negative one, which only a reduction stores, is below them all.
LEMMA StandsForLess ==
  ASSUME NEW stake \in Int, NEW low \in Nat, NEW high \in Nat, low <= high,
         NEW old, StandsFor(old, high, stake), NEW new, StandsFor(new, low, stake)
  PROVE  new <= NonNegative(old)
<1>1. Divisible(low * stake) /\ Divisible(high * stake)
  BY DEF StandsFor
<1>2. /\ SlashAmount(low, stake) \in Int /\ SlashAmount(high, stake) \in Int
      /\ RecommendedAmount(low, stake) \in Nat /\ RecommendedAmount(high, stake) \in Nat
  BY <1>1, AmountType
<1>3. new <= RecommendedAmount(high, stake) /\ new \in Int
  BY <1>1, <1>2, AmountMonotone DEF StandsFor
<1>4. RecommendedAmount(high, stake) = NonNegative(old)
  BY <1>2 DEF StandsFor, RecommendedAmount, NonNegative
<1> QED BY <1>3, <1>4

\* The basis points are not raised, and the amount is one they stand for.
LEMMA StepNeverRaises ==
  ASSUME IInv, IInv', [Next]_vars, NEW b \in CaseIds,
         cases[b].stage \in {"approved", "appealed"}, cases'[b].stage # "recommended"
  PROVE  cases'[b].bps <= cases[b].bps /\ cases'[b].amount <= NonNegative(cases[b].amount)
<1>1. /\ cases[b].bps \in Nat /\ cases[b].stake \in Int
      /\ StandsFor(cases[b].amount, cases[b].bps, cases[b].stake)
  BY CaseFacts, BpsNatural
<1>2. cases'[b] \in CaseRecord /\ AmountFollowsBps'
  BY DEF IInv, TypeOK, SlashingTypeOK
<1>3. /\ cases'[b].bps \in Nat
      /\ StandsFor(cases'[b].amount, cases'[b].bps, cases'[b].stake)
  <2>1. cases'[b].bps \in 0..FullBps
    BY <1>2 DEF CaseRecord
  <2>2. cases'[b].bps \in Nat
    BY <2>1, BpsNatural
  <2> QED BY <1>2, <2>2 DEF AmountFollowsBps, StandsFor
<1>4. Revises(cases[b], cases'[b])
  <2>1. CASE UNCHANGED cases
    BY <1>1, <2>1 DEF Revises
  <2>2. CASE CaseNext
    <3>0. PICK c \in CaseIds : \E d : Rewrites(c, d)
      BY <2>2, CaseRevises
    <3>1. PICK d : Rewrites(c, d)
      BY <3>0
    <3>2. cases'[b] = IF b = c THEN d ELSE cases[b]
      BY <3>1, Files DEF Rewrites
    <3> QED BY <1>1, <3>1, <3>2 DEF Rewrites, Revises
  <2> QED BY <2>1, <2>2, CasesElsewhere
<1>5. cases'[b].bps <= cases[b].bps /\ cases'[b].stake = cases[b].stake
  BY <1>4 DEF Revises
<1> QED BY <1>1, <1>3, <1>5, StandsForLess

\* From approval to execution, through any number of appeals and reviews, a slash
\* is lowered or stays, above zero; raising it takes a fresh recommendation, and
\* with it the approval (slash_sure.py:851-990).
THEOREM Appeals == Spec => AppealNeverRaises
<1>1. IInv /\ IInv' /\ [Next]_vars =>
      [\A c \in CaseIds :
         /\ cases[c].stage \in {"approved", "appealed"}
         /\ cases'[c].stage # "recommended"
         => /\ cases'[c].bps <= cases[c].bps
            /\ cases'[c].amount <= NonNegative(cases[c].amount)]_vars
  BY StepNeverRaises
<1> QED BY <1>1, Inductive, PTL DEF Spec, AppealNeverRaises

-----------------------------------------------------------------------------
(***************************************************************************)
(* Ballots.                                                                *)
(***************************************************************************)

BallotInv ==
  /\ TallyMatchesVoters
  /\ \A p \in ProposalIds : IsFiniteSet(proposalVoters[p])

LEMMA GovernanceElsewhere ==
  ASSUME [Next]_vars
  PROVE  GovernanceNext \/ UNCHANGED governanceVars
BY DEF Next, vars, AdminNext, RegistryNext, EvidenceNext, CaseNext, ClaimNext,
       besideBase, besideRegistry, besideSlashing, besideClaims

\* What IInv says of the ballots.
LEMMA BallotTypes ==
  ASSUME IInv
  PROVE  /\ proposals \in [ProposalIds -> ProposalRecord]
         /\ proposalVoters \in [ProposalIds -> SUBSET Accounts]
BY DEF IInv, TypeOK, GovernanceTypeOK

\* A ballot that is replaced by one that agrees with its voters.
LEMMA BallotReplaced ==
  ASSUME IInv, BallotInv, NEW p \in ProposalIds, NEW r, NEW voters,
         proposals' = [proposals EXCEPT ![p] = r],
         proposalVoters' = [proposalVoters EXCEPT ![p] = voters],
         IsFiniteSet(voters),
         r.votesFor + r.votesAgainst = Cardinality(voters),
         r.status = "passed" => r.votesFor > r.votesAgainst,
         r.status = "failed" => r.votesFor <= r.votesAgainst
  PROVE  BallotInv'
<1>1. \A q \in ProposalIds :
        /\ proposals'[q] = IF q = p THEN r ELSE proposals[q]
        /\ proposalVoters'[q] = IF q = p THEN voters ELSE proposalVoters[q]
  BY BallotTypes
<1> QED BY <1>1 DEF BallotInv, TallyMatchesVoters

LEMMA CreateProposalBallot ==
  ASSUME IInv, BallotInv, NEW sender \in Accounts, NEW topic \in Topics,
         CreateProposal(sender, topic)
  PROVE  BallotInv'
<1> DEFINE p == <<sender, topic>>
           r == [NoProposal EXCEPT !.status = "active"]
<1>1. /\ r.status = "active" /\ r.votesFor = 0 /\ r.votesAgainst = 0
      /\ IsFiniteSet({}) /\ Cardinality({}) = 0
  BY FS_EmptySet DEF NoProposal
<1>2. /\ proposals' = [proposals EXCEPT ![p] = r]
      /\ proposalVoters' = [proposalVoters EXCEPT ![p] = {}]
      /\ p \in ProposalIds
  BY DEF CreateProposal, ProposalIds
<1> HIDE DEF p, r
<1>3. /\ r.votesFor + r.votesAgainst = Cardinality({})
      /\ r.status # "passed" /\ r.status # "failed"
  BY <1>1
<1> DEFINE voters == {}
<1>4. voters = {}
  OBVIOUS
<1> HIDE DEF voters
<1> QED BY <1>1, <1>2, <1>3, <1>4, BallotReplaced

LEMMA VoteBallot ==
  ASSUME IInv, BallotInv, NEW p \in ProposalIds, NEW sender \in Accounts,
         NEW voteFor \in BOOLEAN, Vote(sender, p, voteFor)
  PROVE  BallotInv'
<1>1. /\ proposals[p] \in ProposalRecord /\ proposals[p].status = "active"
      /\ sender \notin proposalVoters[p] /\ IsFiniteSet(proposalVoters[p])
      /\ proposals[p].votesFor + proposals[p].votesAgainst = Cardinality(proposalVoters[p])
  BY BallotTypes DEF Vote, Open, BallotInv, TallyMatchesVoters
<1> DEFINE voters == proposalVoters[p] \cup {sender}
<1>2. IsFiniteSet(voters) /\ Cardinality(voters) = Cardinality(proposalVoters[p]) + 1
  BY <1>1, FS_AddElement
<1>3. proposalVoters' = [proposalVoters EXCEPT ![p] = voters]
  BY DEF Vote
<1>4. PICK r : /\ proposals' = [proposals EXCEPT ![p] = r]
               /\ r.status = "active"
               /\ r.votesFor + r.votesAgainst
                    = proposals[p].votesFor + proposals[p].votesAgainst + 1
  <2> DEFINE yes == [proposals[p] EXCEPT !.votesFor = @ + 1]
             no  == [proposals[p] EXCEPT !.votesAgainst = @ + 1]
  <2>1. \/ proposals' = [proposals EXCEPT ![p] = yes]
        \/ proposals' = [proposals EXCEPT ![p] = no]
    BY Zenon DEF Vote
  <2>2. /\ yes.status = "active"
        /\ yes.votesFor + yes.votesAgainst
             = proposals[p].votesFor + proposals[p].votesAgainst + 1
    BY <1>1 DEF ProposalRecord
  <2>3. /\ no.status = "active"
        /\ no.votesFor + no.votesAgainst
             = proposals[p].votesFor + proposals[p].votesAgainst + 1
    BY <1>1 DEF ProposalRecord
  <2> HIDE DEF yes, no
  <2> QED BY <2>1, <2>2, <2>3
<1> HIDE DEF voters
<1> QED BY <1>1, <1>2, <1>3, <1>4, BallotReplaced

LEMMA FinalizeBallot ==
  ASSUME IInv, BallotInv, NEW p \in ProposalIds, FinalizeProposal(p)
  PROVE  BallotInv'
<1> DEFINE outcome == Outcome(proposals[p].votesFor, proposals[p].votesAgainst)
           r == [proposals[p] EXCEPT !.status = outcome]
<1>1. proposals[p] \in ProposalRecord /\ proposalVoters \in [ProposalIds -> SUBSET Accounts]
  BY BallotTypes
<1>2. /\ proposals' = [proposals EXCEPT ![p] = r]
      /\ proposalVoters' = [proposalVoters EXCEPT ![p] = proposalVoters[p]]
  BY <1>1 DEF FinalizeProposal
<1>3. /\ outcome = "passed" => proposals[p].votesFor > proposals[p].votesAgainst
      /\ outcome = "failed" => proposals[p].votesFor <= proposals[p].votesAgainst
  BY <1>1 DEF Outcome, ProposalRecord
<1> HIDE DEF outcome
<1>4. /\ r.status = outcome /\ r.votesFor = proposals[p].votesFor
      /\ r.votesAgainst = proposals[p].votesAgainst
  BY <1>1 DEF ProposalRecord
<1>5. /\ IsFiniteSet(proposalVoters[p])
      /\ proposals[p].votesFor + proposals[p].votesAgainst = Cardinality(proposalVoters[p])
  BY DEF BallotInv, TallyMatchesVoters
<1> HIDE DEF r
<1> QED BY <1>2, <1>3, <1>4, <1>5, BallotReplaced

\* Whoever votes, on whatever and in whatever order, is counted once, and the
\* outcome of a closed proposal is that of its tally (slash_sure.py:1475-1530).
THEOREM Ballots == Spec => []TallyMatchesVoters
<1>1. Init => BallotInv
  BY FS_EmptySet DEF Init, GovernanceInit, BallotInv, TallyMatchesVoters, NoProposal
<1>2. IInv /\ BallotInv /\ [Next]_vars => BallotInv'
  <2> SUFFICES ASSUME IInv, BallotInv, [Next]_vars PROVE BallotInv'
    OBVIOUS
  <2>1. CASE UNCHANGED governanceVars
    BY <2>1 DEF BallotInv, TallyMatchesVoters, governanceVars
  <2>2. CASE GovernanceNext
    BY <2>2, CreateProposalBallot, VoteBallot, FinalizeBallot DEF GovernanceNext
  <2> QED BY <2>1, <2>2, GovernanceElsewhere
<1>3. BallotInv => TallyMatchesVoters
  BY DEF BallotInv
<1> QED BY <1>1, <1>2, <1>3, Inductive, PTL DEF Spec

\* A closed proposal keeps its outcome and its tally, whatever is called after
\* (slash_sure.py:1475-1530).
THEOREM Closing == Spec => ClosedIsFinal
<1>1. IInv /\ [Next]_vars =>
      [\A p \in ProposalIds :
         proposals[p].status \in {"passed", "failed"} => proposals'[p] = proposals[p]]_vars
  <2> SUFFICES ASSUME IInv, Next, NEW q \in ProposalIds,
                      proposals[q].status \in {"passed", "failed"}
               PROVE  proposals'[q] = proposals[q]
    OBVIOUS
  <2>1. CASE UNCHANGED governanceVars
    BY <2>1 DEF governanceVars
  <2>2. ASSUME NEW sender \in Accounts, NEW topic \in Topics, CreateProposal(sender, topic)
        PROVE  proposals'[q] = proposals[q]
    BY <2>2, BallotTypes DEF CreateProposal
  <2>3. ASSUME NEW p \in ProposalIds, NEW sender \in Accounts, NEW voteFor \in BOOLEAN,
               Vote(sender, p, voteFor)
        PROVE  proposals'[q] = proposals[q]
    <3>1. p # q
      BY <2>3 DEF Vote, Open
    <3>2. PICK r : proposals' = [proposals EXCEPT ![p] = r]
      <4>1. \/ proposals' = [proposals EXCEPT ![p] = [proposals[p] EXCEPT !.votesFor = @ + 1]]
            \/ proposals' = [proposals EXCEPT ![p] = [proposals[p] EXCEPT !.votesAgainst = @ + 1]]
        BY <2>3, Zenon DEF Vote
      <4> QED BY <4>1
    <3> QED BY <3>1, <3>2, BallotTypes
  <2>4. ASSUME NEW p \in ProposalIds, FinalizeProposal(p)
        PROVE  proposals'[q] = proposals[q]
    BY <2>4, BallotTypes DEF FinalizeProposal, Open
  <2> QED BY <2>1, <2>2, <2>3, <2>4, GovernanceElsewhere DEF GovernanceNext
<1> QED BY <1>1, Inductive, PTL DEF Spec, ClosedIsFinal

-----------------------------------------------------------------------------
(***************************************************************************)
(* Claims and receipts.                                                    *)
(***************************************************************************)

\* What PaidMatchesReceipt says of one claim file, beside its receipt.
WithinClaim(r) ==
  r.available <= r.approved /\ r.approved <= r.claimed

LEMMA ClaimsElsewhere ==
  ASSUME [Next]_vars
  PROVE  ClaimNext \/ UNCHANGED <<claimVars, totalPayouts>>
<1>1. CASE AdminNext
  BY <1>1 DEF AdminNext, Pause, Unpause, TransferOwnership, UpdateParams, besideBase, moneyVars
<1>2. CASE RegistryNext
  BY <1>2 DEF RegistryNext, RegisterOperator, UpdateOperatorStake, UpdateOperatorStatus,
              WhitelistOperator, ComputeReputation, besideRegistry, baseVars
<1>3. CASE EvidenceNext
  BY <1>3 DEF EvidenceNext, SubmitEvidence, FetchAndSubmitEvidence, StoreEvidence,
              AnalyzeFault, besideSlashing, baseVars
<1>4. CASE CaseNext
  <2>1. ASSUME NEW c \in CaseIds, NEW a, NEW i, NEW stake, NEW reputation, NEW confidence,
               NEW sender, NEW amount,
               \/ CreateSlashingCase(c, a, i, stake)
               \/ GenerateSlashRecommendation(c, reputation, confidence)
               \/ ApproveSlashing(sender, c) \/ RejectSlashing(sender, c)
               \/ ExecuteSlashing(sender, c, amount) \/ AppealSlashing(c)
               \/ AIReviewAppeal(c, confidence)
        PROVE  UNCHANGED totalPayouts
    <3>1. UNCHANGED baseVars \/ UNCHANGED totalPayouts
      BY <2>1, Zenon
         DEF CreateSlashingCase, GenerateSlashRecommendation, ApproveSlashing,
             RejectSlashing, ExecuteSlashing, AppealSlashing, AIReviewAppeal
    <3> QED BY <3>1 DEF baseVars
  <2> QED BY <1>4, <2>1 DEF CaseNext, besideSlashing
<1>5. CASE GovernanceNext
  BY <1>5 DEF GovernanceNext, CreateProposal, Vote, FinalizeProposal, besideGovernance, baseVars
<1>6. CASE UNCHANGED vars
  BY <1>6 DEF vars, baseVars
<1> QED BY <1>1, <1>2, <1>3, <1>4, <1>5, <1>6 DEF Next

\* What IInv says of the claims.
LEMMA ClaimTypes ==
  ASSUME IInv
  PROVE  /\ claims \in [ClaimIds -> ClaimRecord]
         /\ payouts \in [PayoutIds -> PayoutRecord]
         /\ totalPayouts \in Nat
BY DEF IInv, TypeOK, ClaimsTypeOK, BaseTypeOK

\* A claim file that is replaced by one that is not paid leaves the receipts as
\* they are.
LEMMA UnpaidReplaced ==
  ASSUME IInv, PaidMatchesReceipt, NEW k \in ClaimIds, NEW r,
         claims' = [claims EXCEPT ![k] = r], UNCHANGED payouts,
         WithinClaim(r), r.status # "paid", r.available = r.approved
  PROVE  PaidMatchesReceipt'
<1>1. \A j \in ClaimIds : claims'[j] = IF j = k THEN r ELSE claims[j]
  BY ClaimTypes
<1> QED BY <1>1 DEF PaidMatchesReceipt, WithinClaim

LEMMA SubmitPaid ==
  ASSUME IInv, PaidMatchesReceipt, NEW k \in ClaimIds, NEW a \in Addresses,
         NEW coverage \in Amounts, NEW claimed \in Amounts,
         SubmitClaim(k, a, coverage, claimed)
  PROVE  PaidMatchesReceipt'
<1> DEFINE r == [status |-> "submitted", claimant |-> a, claimed |-> claimed,
                 approved |-> 0, available |-> 0]
<1>1. claimed \in Nat
  BY BaseAssumption
<1>2. WithinClaim(r) /\ r.status # "paid" /\ r.available = r.approved
  BY <1>1 DEF WithinClaim
<1>3. claims' = [claims EXCEPT ![k] = r] /\ UNCHANGED payouts
  BY DEF SubmitClaim
<1> HIDE DEF r
<1> QED BY <1>2, <1>3, UnpaidReplaced

\* A new decision, on a paid claim too, starts the claim's account anew.
LEMMA AdjudicatePaid ==
  ASSUME IInv, PaidMatchesReceipt, NEW k \in ClaimIds,
         NEW rawAssessed \in RawAmounts, NEW rawApproved \in RawAmounts,
         AdjudicateClaim(k, rawAssessed, rawApproved)
  PROVE  PaidMatchesReceipt'
<1> DEFINE assessed == Clamp(rawAssessed, 0, claims[k].claimed)
           approved == Clamp(rawApproved, 0, assessed)
           status == AdjudicatedStatus(assessed, approved)
           r == Decided(claims[k], assessed, approved)
<1>1. claims' = [claims EXCEPT ![k] = r] /\ UNCHANGED payouts
  BY DEF AdjudicateClaim
<1>2. claims[k] \in ClaimRecord /\ claims[k].claimed \in Nat
  BY ClaimTypes DEF ClaimRecord
<1>3. assessed \in Nat /\ assessed <= claims[k].claimed
  BY <1>2, ClaimsAssumption DEF Clamp
<1> HIDE DEF assessed
<1>4. approved \in Nat /\ approved <= assessed
  <2>1. rawApproved \in Int
    BY ClaimsAssumption
  <2> QED BY <1>3, <2>1 DEF Clamp
<1> HIDE DEF approved
<1>5. status \in {"approved", "partial", "rejected"}
  BY DEF AdjudicatedStatus
<1>6. r = [claims[k] EXCEPT !.status = status, !.approved = approved, !.available = approved]
  BY DEF Decided
<1> HIDE DEF status, r
<1>7. /\ r.status = status /\ r.approved = approved /\ r.available = approved
      /\ r.claimed = claims[k].claimed
  BY <1>2, <1>6 DEF ClaimRecord
<1>8. WithinClaim(r) /\ r.status # "paid" /\ r.available = r.approved
  BY <1>2, <1>3, <1>4, <1>5, <1>7 DEF WithinClaim
<1> QED BY <1>1, <1>8, UnpaidReplaced

\* A payment writes the receipt of its own claim and no other.
LEMMA PayoutPaid ==
  ASSUME IInv, PaidMatchesReceipt, NEW sender, NEW k \in ClaimIds, NEW p \in PayoutIds,
         NEW amount \in Amounts, AuthorizePayout(sender, k, p, amount)
  PROVE  PaidMatchesReceipt'
<1> DEFINE r == [claims[k] EXCEPT !.available = @ - amount, !.status = "paid"]
           receipt == [claim |-> k, amount |-> amount]
<1>1. /\ Payable(k) /\ ~PayoutExists(p) /\ amount <= claims[k].available
      /\ claims' = [claims EXCEPT ![k] = r] /\ payouts' = [payouts EXCEPT ![p] = receipt]
  BY DEF AuthorizePayout
<1>2. claims[k] \in ClaimRecord /\ amount \in Nat
  BY ClaimTypes, BaseAssumption
<1>3. /\ r.status = "paid" /\ r.available = claims[k].available - amount
      /\ r.approved = claims[k].approved /\ r.claimed = claims[k].claimed
      /\ claims[k].available \in Nat /\ claims[k].approved \in Nat /\ claims[k].claimed \in Nat
  BY <1>2 DEF ClaimRecord
<1> HIDE DEF r, receipt
<1>4. /\ claims[k].available = claims[k].approved /\ claims[k].approved <= claims[k].claimed
  BY <1>1 DEF Payable, PaidMatchesReceipt
<1>5. /\ WithinClaim(r) /\ r.approved - r.available = amount
  BY <1>1, <1>2, <1>3, <1>4 DEF WithinClaim
<1>6. \A j \in ClaimIds : claims'[j] = IF j = k THEN r ELSE claims[j]
  BY <1>1, ClaimTypes
<1>7. \A q \in PayoutIds : payouts'[q] = IF q = p THEN receipt ELSE payouts[q]
  BY <1>1, ClaimTypes
<1>8. \A j \in ClaimIds : \A n : payouts[p] # [claim |-> j, amount |-> n]
  <2> SUFFICES ASSUME NEW j \in ClaimIds, NEW n, payouts[p] = [claim |-> j, amount |-> n]
               PROVE  FALSE
    OBVIOUS
  <2>1. [claim |-> j, amount |-> n] = [amount |-> 0]
    BY <1>1 DEF PayoutExists, NoPayout
  <2>2. DOMAIN [claim |-> j, amount |-> n] = {"claim", "amount"}
    OBVIOUS
  <2>3. DOMAIN [amount |-> 0] = {"amount"}
    OBVIOUS
  <2> QED BY <2>1, <2>2, <2>3
<1> SUFFICES ASSUME NEW j \in ClaimIds
             PROVE  /\ WithinClaim(claims'[j])
                    /\ IF claims'[j].status = "paid"
                       THEN \E q \in PayoutIds :
                              payouts'[q] = [claim  |-> j,
                                             amount |-> claims'[j].approved - claims'[j].available]
                       ELSE claims'[j].available = claims'[j].approved
  BY DEF PaidMatchesReceipt, WithinClaim
<1>9. CASE j = k
  <2>1. claims'[j] = r /\ payouts'[p] = [claim |-> j, amount |-> r.approved - r.available]
    BY <1>5, <1>6, <1>7, <1>9 DEF receipt
  <2> QED BY <1>3, <1>5, <2>1
<1>10. CASE j # k
  <2>1. claims'[j] = claims[j]
    BY <1>6, <1>10
  <2>2. WithinClaim(claims[j]) /\ (claims[j].status # "paid" => claims[j].available = claims[j].approved)
    BY DEF PaidMatchesReceipt, WithinClaim
  <2>3. ASSUME claims[j].status = "paid"
        PROVE  \E q \in PayoutIds :
                 payouts'[q] = [claim  |-> j, amount |-> claims[j].approved - claims[j].available]
    <3>1. PICK q \in PayoutIds :
            payouts[q] = [claim  |-> j, amount |-> claims[j].approved - claims[j].available]
      BY <2>3 DEF PaidMatchesReceipt
    <3>2. payouts'[q] = payouts[q]
      BY <1>7, <1>8, <3>1
    <3> QED BY <3>1, <3>2
  <2> QED BY <2>1, <2>2, <2>3
<1> QED BY <1>9, <1>10

\* A claim that is paid has a receipt for exactly what is gone of its approved
\* amount, and any other has all of it, whatever is decided anew in between
\* (slash_sure.py:1012-1153).
THEOREM Paid == Spec => []PaidMatchesReceipt
<1>1. Init => PaidMatchesReceipt
  BY DEF Init, ClaimsInit, PaidMatchesReceipt, NoClaim
<1>2. IInv /\ PaidMatchesReceipt /\ [Next]_vars => PaidMatchesReceipt'
  <2> SUFFICES ASSUME IInv, PaidMatchesReceipt, [Next]_vars PROVE PaidMatchesReceipt'
    OBVIOUS
  <2>1. ASSUME UNCHANGED <<claims, payouts>>
        PROVE  PaidMatchesReceipt'
    BY <2>1 DEF PaidMatchesReceipt
  <2>2. ASSUME NEW value \in Amounts, FundClaimPool(value)
        PROVE  PaidMatchesReceipt'
    BY <2>1, <2>2 DEF FundClaimPool, claimVars
  <2>3. ASSUME NEW sender \in Accounts, NEW p \in PayoutIds, CompletePayout(sender, p)
        PROVE  PaidMatchesReceipt'
    BY <2>1, <2>3 DEF CompletePayout, claimVars
  <2>4. CASE ClaimNext
    BY <2>2, <2>3, <2>4, SubmitPaid, AdjudicatePaid, PayoutPaid DEF ClaimNext
  <2> QED BY <2>1, <2>4, ClaimsElsewhere DEF claimVars
<1> QED BY <1>1, <1>2, Inductive, PTL DEF Spec

\* The payout counter moves by the receipt that is written.
LEMMA PayoutReceipt ==
  ASSUME IInv, LedgerMatchesReceipts, NEW sender, NEW k \in ClaimIds, NEW p \in PayoutIds,
         NEW amount \in Amounts, AuthorizePayout(sender, k, p, amount)
  PROVE  LedgerMatchesReceipts'
<1> DEFINE g == [q \in PayoutIds |-> IF q = p THEN amount ELSE payouts[q].amount]
           f == [q \in PayoutIds |-> payouts[q].amount]
<1>1. amount \in Nat
  BY BaseAssumption
<1>2. \A q \in PayoutIds : payouts[q].amount \in Nat
  BY ClaimTypes DEF PayoutRecord
<1>3. payouts[p].amount = 0
  BY DEF AuthorizePayout, PayoutExists, NoPayout
<1>4. [q \in PayoutIds |-> payouts'[q].amount] = g
  BY ClaimTypes DEF AuthorizePayout
<1>5. f \in [PayoutIds -> Nat] /\ g \in [PayoutIds -> Nat]
  BY <1>1, <1>2
<1>6. \A q \in PayoutIds \ {p} : g[q] = f[q]
  OBVIOUS
<1>7. f[p] = 0 /\ g[p] = amount
  BY <1>3
<1>8. TotalOf(f) = totalPayouts
  BY DEF LedgerMatchesReceipts
<1>9. LedgerMatchesReceipts' <=> totalPayouts' = TotalOf(g)
  BY <1>4 DEF LedgerMatchesReceipts, TotalOf, Units
<1> HIDE DEF f, g
<1>10. TotalOf(g) = TotalOf(f) - f[p] + g[p]
  BY <1>5, <1>6, ClaimsAssumption, TotalUpdate
<1> QED BY <1>1, <1>7, <1>8, <1>9, <1>10, ClaimTypes DEF AuthorizePayout

\* The payout counter is the sum of the receipts (slash_sure.py:1105-1153).
THEOREM ReceiptsAddUp == Spec => []LedgerMatchesReceipts
<1>1. Init => LedgerMatchesReceipts
  <2> SUFFICES ASSUME Init PROVE LedgerMatchesReceipts
    OBVIOUS
  <2>1. [p \in PayoutIds |-> payouts[p].amount] = [p \in PayoutIds |-> 0]
    BY DEF Init, ClaimsInit, NoPayout
  <2>2. totalPayouts = 0
    BY DEF Init, BaseInit
  <2> QED BY <2>1, <2>2, TotalZero DEF LedgerMatchesReceipts
<1>2. IInv /\ LedgerMatchesReceipts /\ [Next]_vars => LedgerMatchesReceipts'
  <2> SUFFICES ASSUME IInv, LedgerMatchesReceipts, [Next]_vars PROVE LedgerMatchesReceipts'
    OBVIOUS
  <2>1. ASSUME UNCHANGED <<payouts, totalPayouts>>
        PROVE  LedgerMatchesReceipts'
    BY <2>1 DEF LedgerMatchesReceipts, TotalOf, Units
  <2>2. CASE ClaimNext
    <3>1. \/ UNCHANGED <<payouts, totalPayouts>>
          \/ \E sender \in Accounts, k \in ClaimIds, p \in PayoutIds, amount \in Amounts :
               AuthorizePayout(sender, k, p, amount)
      BY <2>2 DEF ClaimNext, FundClaimPool, SubmitClaim, AdjudicateClaim, CompletePayout,
                  claimVars, baseVars
    <3> QED BY <2>1, <3>1, PayoutReceipt
  <2> QED BY <2>1, <2>2, ClaimsElsewhere DEF claimVars
<1> QED BY <1>1, <1>2, Inductive, PTL DEF Spec

-----------------------------------------------------------------------------
(***************************************************************************)
(* What a step does to the registry and to the case files, as far as the   *)
(* indexes, the counters and the slashes are concerned.                    *)
(***************************************************************************)

\* Nobody joins the registry and nothing is slashed.
Quiet ==
  /\ UNCHANGED totalOperators
  /\ \A a \in Addresses :
       /\ operators'[a].slashed = operators[a].slashed
       /\ operators'[a].slashCount = operators[a].slashCount
       /\ operators'[a].status = "unregistered" <=> operators[a].status = "unregistered"

\* Case c stays on file, against the same operator and with what was executed.
Refiled(c) ==
  /\ CaseExists(c)
  /\ UNCHANGED <<operatorCases, totalCases>>
  /\ \E d : /\ cases' = [cases EXCEPT ![c] = d]
            /\ d.stage # "none"
            /\ d.operator = cases[c].operator
            /\ d.executed = cases[c].executed

CasesKept == UNCHANGED <<cases, operatorCases, totalCases>>

LEMMA QuietStable ==
  ASSUME UNCHANGED <<operators, totalOperators>>
  PROVE  Quiet
BY DEF Quiet

\* A registered operator's record replaced by one that is registered too.
LEMMA QuietReplaced ==
  ASSUME IInv, NEW a \in Addresses, NEW r, operators' = [operators EXCEPT ![a] = r],
         IsRegistered(a), r.status # "unregistered",
         r.slashed = operators[a].slashed, r.slashCount = operators[a].slashCount,
         UNCHANGED totalOperators
  PROVE  Quiet
<1>1. operators \in [Addresses -> OperatorRecord]
  BY DEF IInv, TypeOK, RegistryTypeOK
<1> QED BY <1>1 DEF Quiet, IsRegistered

\* In particular by one with another status.
LEMMA QuietStatus ==
  ASSUME IInv, NEW a \in Addresses, NEW status, operators' = [operators EXCEPT ![a].status = status],
         IsRegistered(a), status # "unregistered", UNCHANGED totalOperators
  PROVE  Quiet
<1> DEFINE r == [operators[a] EXCEPT !.status = status]
<1>1. operators[a] \in OperatorRecord
  BY DEF IInv, TypeOK, RegistryTypeOK
<1>2. /\ r.status = status /\ r.slashed = operators[a].slashed
      /\ r.slashCount = operators[a].slashCount
  BY <1>1 DEF OperatorRecord
<1>3. operators' = [operators EXCEPT ![a] = r]
  OBVIOUS
<1> HIDE DEF r
<1> QED BY <1>2, <1>3, QuietReplaced

LEMMA RegistryQuiet ==
  ASSUME IInv, NEW a \in Addresses,
         \/ \E stake, value \in Amounts : UpdateOperatorStake(a, stake, value)
         \/ \E sender \in Accounts, status \in StatusChoices :
              UpdateOperatorStatus(sender, a, status)
         \/ \E sender \in Accounts : WhitelistOperator(sender, a)
         \/ \E overall \in OverallScores : ComputeReputation(a, overall)
  PROVE  Quiet /\ UNCHANGED operatorCases
<1>1. operators[a] \in OperatorRecord
  BY DEF IInv, TypeOK, RegistryTypeOK
<1>2. ASSUME NEW stake \in Amounts, NEW value \in Amounts, UpdateOperatorStake(a, stake, value)
      PROVE  Quiet
  <2> DEFINE r == [operators[a] EXCEPT !.staked = @ + value]
  <2>1. /\ r.status = operators[a].status /\ r.slashed = operators[a].slashed
        /\ r.slashCount = operators[a].slashCount
    BY <1>1 DEF OperatorRecord
  <2>2. operators' = [operators EXCEPT ![a] = r] /\ IsRegistered(a) /\ UNCHANGED totalOperators
    BY <1>2 DEF UpdateOperatorStake
  <2> HIDE DEF r
  <2> QED BY <2>1, <2>2, QuietReplaced DEF IsRegistered
<1>3. ASSUME NEW sender \in Accounts, NEW status \in StatusChoices,
             UpdateOperatorStatus(sender, a, status)
      PROVE  Quiet
  <2>1. status # "unregistered"
    BY RegistryAssumption DEF SettableStatus
  <2> QED BY <1>3, <2>1, QuietStatus DEF UpdateOperatorStatus
<1>4. ASSUME NEW sender \in Accounts, WhitelistOperator(sender, a)
      PROVE  Quiet
  <2> DEFINE r == [operators[a] EXCEPT !.whitelisted = TRUE]
  <2>1. /\ r.status = operators[a].status /\ r.slashed = operators[a].slashed
        /\ r.slashCount = operators[a].slashCount
    BY <1>1 DEF OperatorRecord
  <2>2. operators' = [operators EXCEPT ![a] = r] /\ IsRegistered(a) /\ UNCHANGED totalOperators
    BY <1>4 DEF WhitelistOperator
  <2> HIDE DEF r
  <2> QED BY <2>1, <2>2, QuietReplaced DEF IsRegistered
<1>5. ASSUME NEW overall \in OverallScores, ComputeReputation(a, overall)
      PROVE  Quiet
  <2> DEFINE score == Clamp(overall, 0, 100)
             r == [operators[a] EXCEPT !.reputation = score]
  <2>1. operators' = [operators EXCEPT ![a] = r] /\ IsRegistered(a) /\ UNCHANGED totalOperators
    BY <1>5 DEF ComputeReputation
  <2> HIDE DEF score
  <2>2. /\ r.status = operators[a].status /\ r.slashed = operators[a].slashed
        /\ r.slashCount = operators[a].slashCount
    BY <1>1 DEF OperatorRecord
  <2> HIDE DEF r
  <2> QED BY <2>1, <2>2, QuietReplaced DEF IsRegistered
<1>6. UNCHANGED operatorCases
  BY DEF UpdateOperatorStake, UpdateOperatorStatus, WhitelistOperator, ComputeReputation
<1> QED BY <1>2, <1>3, <1>4, <1>5, <1>6

\* A new stage is given to a case that is on file.
LEMMA RefiledMove ==
  ASSUME IInv, NEW c \in CaseIds, CaseExists(c), NEW stage, stage # "none",
         cases' = [cases EXCEPT ![c].stage = stage], UNCHANGED <<operatorCases, totalCases>>
  PROVE  Refiled(c)
<1> DEFINE d == [cases[c] EXCEPT !.stage = stage]
<1>1. cases[c] \in CaseRecord
  BY Files
<1>2. d.stage = stage /\ d.operator = cases[c].operator /\ d.executed = cases[c].executed
  BY <1>1 DEF CaseRecord
<1>3. cases' = [cases EXCEPT ![c] = d]
  OBVIOUS
<1> HIDE DEF d
<1> QED BY <1>2, <1>3 DEF Refiled

\* And a new stage with a new decision.
LEMMA RefiledDecision ==
  ASSUME IInv, NEW c \in CaseIds, CaseExists(c), NEW stage, stage # "none",
         NEW bps, NEW amount, NEW cf,
         cases' = [cases EXCEPT ![c].stage = stage, ![c].bps = bps, ![c].amount = amount,
                                ![c].cf = cf],
         UNCHANGED <<operatorCases, totalCases>>
  PROVE  Refiled(c)
<1> DEFINE d == [cases[c] EXCEPT !.stage = stage, !.bps = bps, !.amount = amount, !.cf = cf]
<1>1. cases[c] \in CaseRecord
  BY Files
<1>2. d.stage = stage /\ d.operator = cases[c].operator /\ d.executed = cases[c].executed
  BY <1>1 DEF CaseRecord
<1>3. cases' = [cases EXCEPT ![c] = d]
  OBVIOUS
<1> HIDE DEF d
<1> QED BY <1>2, <1>3 DEF Refiled

LEMMA CreateQuiet ==
  ASSUME NEW c, NEW a, NEW i, NEW stake, CreateSlashingCase(c, a, i, stake)
  PROVE  Quiet
BY QuietStable DEF CreateSlashingCase

LEMMA RecommendRefiles ==
  ASSUME IInv, NEW c \in CaseIds, NEW reputation, NEW confidence,
         GenerateSlashRecommendation(c, reputation, confidence)
  PROVE  Quiet /\ Refiled(c)
<1> DEFINE bps == SlashBps(cases[c].fp, cases[c].cf, reputation, maxSlashBps)
           amount == RecommendedAmount(bps, cases[c].stake)
           cf == Clamp(confidence, 0, 100)
<1>1. CaseExists(c) /\ UNCHANGED <<operators, totalOperators, operatorCases, totalCases>>
  BY DEF GenerateSlashRecommendation, registryVars
<1>2. cases' = [cases EXCEPT ![c].bps = bps, ![c].amount = amount, ![c].cf = cf,
                             ![c].stage = "recommended"]
  BY DEF GenerateSlashRecommendation
<1> HIDE DEF bps, amount, cf
<1>3. cases' = [cases EXCEPT ![c].stage = "recommended", ![c].bps = bps,
                             ![c].amount = amount, ![c].cf = cf]
  BY <1>2
<1> QED BY <1>1, <1>3, QuietStable, RefiledDecision

LEMMA ApproveRefiles ==
  ASSUME IInv, NEW c \in CaseIds, NEW sender, ApproveSlashing(sender, c)
  PROVE  Quiet /\ Refiled(c)
<1>1. CaseExists(c) /\ UNCHANGED <<totalOperators, operatorCases, totalCases>>
  BY DEF ApproveSlashing, CaseExists
<1>2. cases[c].operator \in Addresses /\ IsRegistered(cases[c].operator)
  BY <1>1, Files DEF ApproveSlashing
<1>3. Quiet
  BY <1>1, <1>2, QuietStatus DEF ApproveSlashing
<1>4. Refiled(c)
  BY <1>1, RefiledMove DEF ApproveSlashing
<1> QED BY <1>3, <1>4

LEMMA RejectRefiles ==
  ASSUME IInv, NEW c \in CaseIds, NEW sender, RejectSlashing(sender, c) \/ AppealSlashing(c)
  PROVE  Quiet /\ Refiled(c)
<1>1. CaseExists(c) /\ UNCHANGED <<operators, totalOperators, operatorCases, totalCases>>
  BY DEF RejectSlashing, AppealSlashing, CaseExists, registryVars
<1>2. Refiled(c)
  BY <1>1, RefiledMove DEF RejectSlashing, AppealSlashing
<1> QED BY <1>1, <1>2, QuietStable

LEMMA ReviewRefiles ==
  ASSUME IInv, NEW c \in CaseIds, NEW confidence \in RawScores, AIReviewAppeal(c, confidence)
  PROVE  Quiet /\ Refiled(c)
<1> DEFINE cf == Clamp(confidence, 0, 100)
<1>1. CaseExists(c) /\ UNCHANGED <<totalOperators, operatorCases, totalCases>>
  BY DEF AIReviewAppeal, CaseExists
<1>2. CASE Overturn(c, confidence)
  <2>1. cases' = [cases EXCEPT ![c].stage = "rejected", ![c].bps = 0, ![c].amount = 0, ![c].cf = cf]
    BY <1>2 DEF Overturn
  <2> HIDE DEF cf
  <2>2. Refiled(c)
    BY <1>1, <2>1, RefiledDecision
  <2>3. cases[c].operator \in Addresses /\ IsRegistered(cases[c].operator)
    BY <1>1, <1>2, Files DEF Overturn
  <2>4. Quiet
    BY <1>1, <1>2, <2>3, QuietStatus DEF Overturn
  <2> QED BY <2>2, <2>4
<1>3. ASSUME NEW revised \in RawBpsAnswers, Reduce(c, revised, confidence)
      PROVE  Quiet /\ Refiled(c)
  <2> DEFINE bps == Clamp(revised, 0, cases[c].bps)
             amount == SlashAmount(bps, cases[c].stake)
  <2>1. cases' = [cases EXCEPT ![c].stage = "approved", ![c].bps = bps,
                               ![c].amount = amount, ![c].cf = cf]
    BY <1>3 DEF Reduce
  <2> HIDE DEF bps, amount, cf
  <2>2. Refiled(c)
    BY <1>1, <2>1, RefiledDecision
  <2> QED BY <1>1, <1>3, <2>2, QuietStable DEF Reduce
<1>4. CASE Uphold(c, confidence)
  <2> DEFINE d == [cases[c] EXCEPT !.stage = "approved", !.cf = cf]
  <2>1. cases' = [cases EXCEPT ![c] = d]
    BY <1>4 DEF Uphold
  <2> HIDE DEF cf
  <2>2. d.stage # "none" /\ d.operator = cases[c].operator /\ d.executed = cases[c].executed
    BY Files DEF CaseRecord
  <2> HIDE DEF d
  <2>3. Refiled(c)
    BY <1>1, <2>1, <2>2 DEF Refiled
  <2> QED BY <1>1, <1>4, <2>3, QuietStable DEF Uphold
<1> QED BY <1>2, <1>3, <1>4 DEF AIReviewAppeal

\* What a step is, to the indexes, the counters and the slashes.
Joins == \E a \in Addresses, stake, value \in Amounts :
           RegisterOperator(a, stake, value) /\ UNCHANGED besideRegistry
Opens == \E c \in CaseIds, a \in Addresses, i \in Incidents, stake \in Stakes :
           CreateSlashingCase(c, a, i, stake)
Slashes == \E c \in CaseIds, sender \in Accounts, amount \in Amounts :
             ExecuteSlashing(sender, c, amount)

LEMMA StepKinds ==
  ASSUME IInv, [Next]_vars
  PROVE  \/ Quiet /\ CasesKept
         \/ Joins
         \/ Opens
         \/ Slashes
         \/ Quiet /\ \E c \in CaseIds : Refiled(c)
<1>1. CASE AdminNext
  BY <1>1, QuietStable DEF AdminNext, besideBase, registryVars, slashingVars, CasesKept
<1>2. CASE RegistryNext
  <2>1. PICK a \in Addresses :
          /\ UNCHANGED besideRegistry
          /\ \/ Joins
             \/ \E stake, value \in Amounts : UpdateOperatorStake(a, stake, value)
             \/ \E sender \in Accounts, status \in StatusChoices :
                  UpdateOperatorStatus(sender, a, status)
             \/ \E sender \in Accounts : WhitelistOperator(sender, a)
             \/ \E overall \in OverallScores : ComputeReputation(a, overall)
    BY <1>2 DEF RegistryNext, Joins
  <2> QED BY <2>1, RegistryQuiet DEF CasesKept, besideRegistry, slashingVars
<1>3. CASE EvidenceNext
  <2>1. UNCHANGED <<operators, totalOperators>> /\ CasesKept
    BY <1>3 DEF EvidenceNext, SubmitEvidence, FetchAndSubmitEvidence, StoreEvidence,
                AnalyzeFault, caseVars, registryVars, CasesKept
  <2> QED BY <2>1, QuietStable
<1>4. CASE CaseNext
  BY <1>4, RecommendRefiles, ApproveRefiles, RejectRefiles, ReviewRefiles
     DEF CaseNext, Opens, Slashes
<1>5. CASE ClaimNext
  <2>1. UNCHANGED <<operators, totalOperators, operatorCases>>
    BY <1>5 DEF ClaimNext, FundClaimPool, SubmitClaim, AdjudicateClaim, AuthorizePayout,
                CompletePayout, registryVars
  <2>2. UNCHANGED <<cases, totalCases>>
    BY <1>5 DEF ClaimNext, besideClaims, slashingVars
  <2> QED BY <2>1, <2>2, QuietStable DEF CasesKept
<1>6. CASE GovernanceNext
  BY <1>6, QuietStable DEF GovernanceNext, besideGovernance, registryVars, slashingVars, CasesKept
<1>7. CASE UNCHANGED vars
  BY <1>7, QuietStable DEF vars, registryVars, slashingVars, CasesKept
<1> QED BY <1>1, <1>2, <1>3, <1>4, <1>5, <1>6, <1>7 DEF Next

-----------------------------------------------------------------------------
(***************************************************************************)
(* Indexes and counters.                                                   *)
(***************************************************************************)

OnFile       == {c \in CaseIds : CaseExists(c)}
CasesOf(a)   == {c \in CaseIds : CaseExists(c) /\ cases[c].operator = a}
ClaimsOnFile == {k \in ClaimIds : ClaimExists(k)}

\* Registration empties an index that is empty already: a case is opened only
\* against an operator that is registered, and none ever leaves the registry.
CasesRegistered ==
  \A c \in CaseIds : CaseExists(c) => IsRegistered(cases[c].operator)

IndexInv ==
  /\ \A a \in Addresses : operatorCases[a] = CasesOf(a)
  /\ totalCases = Cardinality(OnFile)
  /\ totalOperators = Cardinality(Registered)
  /\ CasesRegistered

LEMMA RegistryTypes ==
  ASSUME IInv
  PROVE  /\ operators \in [Addresses -> OperatorRecord]
         /\ operatorCases \in [Addresses -> SUBSET CaseIds]
         /\ cases \in [CaseIds -> CaseRecord]
         /\ totalOperators \in Nat /\ totalCases \in Nat
         /\ \A c \in CaseIds : CaseExists(c) => cases[c].operator \in Addresses
BY DEF IInv, TypeOK, RegistryTypeOK, SlashingTypeOK, CaseOperators

LEMMA QuietRegistered ==
  ASSUME Quiet
  PROVE  /\ Registered' = Registered /\ UNCHANGED totalOperators
         /\ \A a \in Addresses : IsRegistered(a)' <=> IsRegistered(a)
BY DEF Quiet, Registered, IsRegistered

LEMMA KeptIndex ==
  ASSUME IInv, IndexInv, Quiet, CasesKept
  PROVE  IndexInv'
<1>1. OnFile' = OnFile /\ \A a \in Addresses : CasesOf(a)' = CasesOf(a)
  BY DEF OnFile, CasesOf, CaseExists, CasesKept
<1>2. CasesRegistered'
  BY QuietRegistered, RegistryTypes DEF CasesRegistered, CaseExists, CasesKept, IndexInv
<1> QED BY <1>1, <1>2, QuietRegistered DEF IndexInv, CasesKept

LEMMA RefiledIndex ==
  ASSUME IInv, IndexInv, Quiet, NEW c \in CaseIds, Refiled(c)
  PROVE  IndexInv'
<1>1. PICK d : /\ cases' = [cases EXCEPT ![c] = d] /\ CaseExists(c)
               /\ d.stage # "none" /\ d.operator = cases[c].operator
  BY DEF Refiled
<1>2. \A b \in CaseIds : /\ CaseExists(b)' <=> CaseExists(b)
                         /\ cases'[b].operator = cases[b].operator
  BY <1>1, RegistryTypes DEF CaseExists
<1>3. OnFile' = OnFile /\ \A a \in Addresses : CasesOf(a)' = CasesOf(a)
  BY <1>2 DEF OnFile, CasesOf
<1>4. CasesRegistered'
  BY <1>2, QuietRegistered, RegistryTypes DEF CasesRegistered, IndexInv
<1> QED BY <1>3, <1>4, QuietRegistered DEF IndexInv, Refiled

LEMMA JoinIndex ==
  ASSUME IInv, IndexInv, Joins
  PROVE  IndexInv'
<1>1. PICK a \in Addresses, stake \in Amounts, value \in Amounts :
        RegisterOperator(a, stake, value) /\ UNCHANGED besideRegistry
  BY DEF Joins
<1> DEFINE r == [status |-> "active", staked |-> value, slashed |-> 0, slashCount |-> 0,
                 reputation |-> 100, whitelisted |-> FALSE]
<1>2. /\ ~IsRegistered(a) /\ operators' = [operators EXCEPT ![a] = r]
      /\ operatorCases' = [operatorCases EXCEPT ![a] = {}]
      /\ totalOperators' = totalOperators + 1 /\ UNCHANGED <<cases, totalCases>>
  BY <1>1 DEF RegisterOperator, besideRegistry, slashingVars
<1>3. \A b \in Addresses : IsRegistered(b)' <=> b = a \/ IsRegistered(b)
  BY <1>2, RegistryTypes DEF IsRegistered
<1>4. Registered' = Registered \cup {a} /\ a \notin Registered /\ IsFiniteSet(Registered)
  <2>1. IsFiniteSet(Registered)
    BY RegistryAssumption, FS_Subset DEF Registered
  <2> QED BY <1>2, <1>3, <2>1 DEF Registered
<1>5. totalOperators' = Cardinality(Registered')
  BY <1>2, <1>4, FS_AddElement DEF IndexInv
<1>6. CasesOf(a) = {}
  BY <1>2, RegistryTypes DEF IndexInv, CasesRegistered, CasesOf
<1>7. OnFile' = OnFile /\ \A b \in Addresses : CasesOf(b)' = CasesOf(b)
  BY <1>2 DEF OnFile, CasesOf, CaseExists
<1>8. CasesRegistered'
  BY <1>2, <1>3, RegistryTypes DEF CasesRegistered, CaseExists, IndexInv
<1>9. \A b \in Addresses : operatorCases'[b] = CasesOf(b)'
  BY <1>2, <1>6, <1>7, RegistryTypes DEF IndexInv
<1> QED BY <1>2, <1>5, <1>7, <1>8, <1>9 DEF IndexInv

LEMMA OpenIndex ==
  ASSUME IInv, IndexInv, Opens
  PROVE  IndexInv'
<1>1. PICK c \in CaseIds, a \in Addresses, i \in Incidents, stake \in Stakes :
        CreateSlashingCase(c, a, i, stake)
  BY DEF Opens
<1>2. PICK d : cases' = [cases EXCEPT ![c] = d] /\ d.stage = "ai_analysis" /\ d.operator = a
  <2> DEFINE opened == [stage |-> "ai_analysis", operator |-> a, stake |-> stake,
                        fp |-> verdicts[i].fp, cf |-> verdicts[i].cf,
                        bps |-> 0, amount |-> 0, executed |-> 0]
  <2>1. cases' = [cases EXCEPT ![c] = opened]
    BY <1>1 DEF CreateSlashingCase
  <2>2. opened.stage = "ai_analysis" /\ opened.operator = a
    OBVIOUS
  <2> HIDE DEF opened
  <2> QED BY <2>1, <2>2
<1>3. /\ ~CaseExists(c) /\ IsRegistered(a) /\ totalCases' = totalCases + 1
      /\ operatorCases' = [operatorCases EXCEPT ![a] = operatorCases[a] \cup {c}]
  BY <1>1 DEF CreateSlashingCase, AppendIndex
<1>4. Quiet
  BY <1>1, CreateQuiet
<1>5. \A b \in CaseIds : /\ CaseExists(b)' <=> b = c \/ CaseExists(b)
                         /\ cases'[b].operator = IF b = c THEN a ELSE cases[b].operator
  BY <1>2, RegistryTypes DEF CaseExists
<1>6. OnFile' = OnFile \cup {c} /\ c \notin OnFile /\ IsFiniteSet(OnFile)
  <2>1. IsFiniteSet(OnFile)
    BY RegistryAssumption, FS_Subset DEF OnFile
  <2> QED BY <1>3, <1>5, <2>1 DEF OnFile
<1>7. totalCases' = Cardinality(OnFile')
  BY <1>3, <1>6, FS_AddElement DEF IndexInv
<1>8. \A b \in Addresses : CasesOf(b)' = IF b = a THEN CasesOf(a) \cup {c} ELSE CasesOf(b)
  BY <1>3, <1>5 DEF CasesOf
<1>9. \A b \in Addresses : operatorCases'[b] = CasesOf(b)'
  BY <1>3, <1>8, RegistryTypes DEF IndexInv
<1>10. CasesRegistered'
  BY <1>3, <1>4, <1>5, QuietRegistered, RegistryTypes DEF CasesRegistered, IndexInv
<1> QED BY <1>4, <1>7, <1>9, <1>10, QuietRegistered DEF IndexInv

\* A slash neither opens a case nor takes its operator off the registry.
LEMMA SlashIndex ==
  ASSUME IInv, IndexInv, Slashes
  PROVE  IndexInv'
<1>1. PICK c \in CaseIds, sender \in Accounts, amount \in Amounts :
        ExecuteSlashing(sender, c, amount)
  BY DEF Slashes
<1> DEFINE a == cases[c].operator
           r == Slashed(operators[a], amount)
           d == [cases[c] EXCEPT !.executed = amount, !.stage = "executed"]
<1>2. /\ CaseExists(c) /\ IsRegistered(a)
      /\ operators' = [operators EXCEPT ![a] = r] /\ cases' = [cases EXCEPT ![c] = d]
      /\ UNCHANGED <<totalOperators, operatorCases, totalCases>>
  BY <1>1 DEF ExecuteSlashing, CaseExists
<1>3. a \in Addresses /\ operators[a] \in OperatorRecord
  BY <1>2, RegistryTypes
<1>4. r.status # "unregistered"
  BY <1>3 DEF Slashed, OperatorRecord
<1>5. d.stage # "none" /\ d.operator = a
  BY RegistryTypes DEF CaseRecord
<1> HIDE DEF r, d
<1>6. \A b \in Addresses : IsRegistered(b)' <=> IsRegistered(b)
  BY <1>2, <1>3, <1>4, RegistryTypes DEF IsRegistered
<1>7. \A b \in CaseIds : /\ CaseExists(b)' <=> CaseExists(b)
                         /\ cases'[b].operator = cases[b].operator
  BY <1>2, <1>5, RegistryTypes DEF CaseExists
<1>8. /\ OnFile' = OnFile /\ Registered' = Registered
      /\ \A b \in Addresses : CasesOf(b)' = CasesOf(b)
  BY <1>6, <1>7 DEF OnFile, CasesOf, Registered
<1>9. CasesRegistered'
  BY <1>6, <1>7, RegistryTypes DEF CasesRegistered, IndexInv
<1> QED BY <1>2, <1>8, <1>9 DEF IndexInv

THEOREM IndexInductive == Spec => []IndexInv
<1>1. Init => IndexInv
  <2> SUFFICES ASSUME Init PROVE IndexInv
    OBVIOUS
  <2>1. OnFile = {} /\ Registered = {} /\ \A a \in Addresses : CasesOf(a) = {}
    BY DEF Init, SlashingInit, RegistryInit, OnFile, CasesOf, CaseExists, NoCase,
           Registered, IsRegistered, Unregistered
  <2>2. CasesRegistered
    BY <2>1 DEF CasesRegistered, OnFile
  <2>3. Cardinality({}) = 0
    BY FS_EmptySet
  <2> QED BY <2>1, <2>2, <2>3 DEF Init, SlashingInit, RegistryInit, IndexInv
<1>2. IInv /\ IndexInv /\ [Next]_vars => IndexInv'
  BY StepKinds, KeptIndex, JoinIndex, OpenIndex, SlashIndex, RefiledIndex
<1> QED BY <1>1, <1>2, Inductive, PTL DEF Spec

\* A claim file that is replaced is on file already, or is counted.
ClaimsCounted == totalClaims = Cardinality(ClaimsOnFile)

LEMMA ClaimRefiled ==
  ASSUME IInv, ClaimsCounted, NEW k \in ClaimIds, ClaimExists(k), NEW r, r.status # "none",
         claims' = [claims EXCEPT ![k] = r], UNCHANGED totalClaims
  PROVE  ClaimsCounted'
<1>1. \A j \in ClaimIds : ClaimExists(j)' <=> ClaimExists(j)
  BY ClaimTypes DEF ClaimExists
<1>2. ClaimsOnFile' = ClaimsOnFile
  BY <1>1 DEF ClaimsOnFile
<1> QED BY <1>2 DEF ClaimsCounted

LEMMA SubmitCounted ==
  ASSUME IInv, ClaimsCounted, NEW k \in ClaimIds, NEW a, NEW coverage, NEW claimed,
         SubmitClaim(k, a, coverage, claimed)
  PROVE  ClaimsCounted'
<1> DEFINE r == [status |-> "submitted", claimant |-> a, claimed |-> claimed,
                 approved |-> 0, available |-> 0]
<1>1. ~ClaimExists(k) /\ claims' = [claims EXCEPT ![k] = r] /\ totalClaims' = totalClaims + 1
  BY DEF SubmitClaim
<1>2. \A j \in ClaimIds : ClaimExists(j)' <=> j = k \/ ClaimExists(j)
  BY <1>1, ClaimTypes DEF ClaimExists
<1>3. ClaimsOnFile' = ClaimsOnFile \cup {k} /\ k \notin ClaimsOnFile /\ IsFiniteSet(ClaimsOnFile)
  <2>1. IsFiniteSet(ClaimsOnFile)
    BY RegistryAssumption, FS_Subset DEF ClaimsOnFile
  <2> QED BY <1>1, <1>2, <2>1 DEF ClaimsOnFile
<1> QED BY <1>1, <1>3, FS_AddElement DEF ClaimsCounted

LEMMA AdjudicateCounted ==
  ASSUME IInv, ClaimsCounted, NEW k \in ClaimIds, NEW rawAssessed, NEW rawApproved,
         AdjudicateClaim(k, rawAssessed, rawApproved)
  PROVE  ClaimsCounted'
<1> DEFINE assessed == Clamp(rawAssessed, 0, claims[k].claimed)
           approved == Clamp(rawApproved, 0, assessed)
           status == AdjudicatedStatus(assessed, approved)
           r == Decided(claims[k], assessed, approved)
<1>1. claims' = [claims EXCEPT ![k] = r] /\ ClaimExists(k) /\ UNCHANGED totalClaims
  BY DEF AdjudicateClaim
<1> HIDE DEF assessed, approved
<1>2. status \in {"approved", "partial", "rejected"}
  BY DEF AdjudicatedStatus
<1>3. r = [claims[k] EXCEPT !.status = status, !.approved = approved, !.available = approved]
  BY DEF Decided
<1> HIDE DEF status, r
<1>4. r.status # "none"
  BY <1>2, <1>3, ClaimTypes DEF ClaimRecord
<1> QED BY <1>1, <1>4, ClaimRefiled

LEMMA PayoutCounted ==
  ASSUME IInv, ClaimsCounted, NEW sender, NEW k \in ClaimIds, NEW p, NEW amount,
         AuthorizePayout(sender, k, p, amount)
  PROVE  ClaimsCounted'
<1> DEFINE r == [claims[k] EXCEPT !.available = @ - amount, !.status = "paid"]
<1>1. claims' = [claims EXCEPT ![k] = r] /\ ClaimExists(k) /\ UNCHANGED totalClaims
  BY DEF AuthorizePayout, Payable, ClaimExists
<1>2. r.status # "none"
  BY ClaimTypes DEF ClaimRecord
<1> HIDE DEF r
<1> QED BY <1>1, <1>2, ClaimRefiled

\* The indexes of evidence and of claims, and what is on file.
FiledInv ==
  /\ \A a \in Addresses :
       /\ operatorIncidents[a] \subseteq EvidenceOnFile
       /\ operatorClaims[a] \subseteq ClaimsOf(a)
       /\ ~IsRegistered(a) => /\ EvidenceAbout(a) \subseteq operatorIncidents[a]
                              /\ ClaimsOf(a) \subseteq operatorClaims[a]
  /\ Cardinality(EvidenceOnFile) <= totalIncidents

\* What a step is to them: most leave the files and the indexes as they are.
FilesKept ==
  /\ UNCHANGED <<evidence, totalIncidents, operatorIncidents, operatorClaims>>
  /\ \A k \in ClaimIds : /\ ClaimExists(k)' <=> ClaimExists(k)
                         /\ claims'[k].claimant = claims[k].claimant
Stores == \E i \in Incidents, a \in Addresses, root \in {"merkle", "page"} :
            StoreEvidence(i, a, root) /\ UNCHANGED besideSlashing
Submits == \E k \in ClaimIds, a \in Addresses, coverage, claimed \in Amounts :
             SubmitClaim(k, a, coverage, claimed) /\ UNCHANGED besideClaims

LEMMA FiledTypes ==
  ASSUME IInv
  PROVE  /\ operatorIncidents \in [Addresses -> SUBSET Incidents]
         /\ operatorClaims \in [Addresses -> SUBSET ClaimIds]
         /\ evidence \in [Incidents -> EvidenceRecord] /\ totalIncidents \in Nat
BY DEF IInv, TypeOK, RegistryTypeOK, SlashingTypeOK

\* A claim that is decided or paid stays on file, and its claimant's.
LEMMA ClaimKept ==
  ASSUME IInv, NEW k \in ClaimIds, ClaimExists(k), NEW r, r.status # "none",
         r.claimant = claims[k].claimant, claims' = [claims EXCEPT ![k] = r],
         UNCHANGED <<evidence, totalIncidents, operatorIncidents, operatorClaims>>
  PROVE  FilesKept
BY ClaimTypes DEF FilesKept, ClaimExists

LEMMA AdjudicateKeepsFiles ==
  ASSUME IInv, NEW k \in ClaimIds, NEW rawAssessed, NEW rawApproved,
         AdjudicateClaim(k, rawAssessed, rawApproved), UNCHANGED besideClaims
  PROVE  FilesKept
<1> DEFINE assessed == Clamp(rawAssessed, 0, claims[k].claimed)
           approved == Clamp(rawApproved, 0, assessed)
           status == AdjudicatedStatus(assessed, approved)
           r == Decided(claims[k], assessed, approved)
<1>1. /\ claims' = [claims EXCEPT ![k] = r] /\ ClaimExists(k)
      /\ UNCHANGED <<evidence, totalIncidents, operatorIncidents, operatorClaims>>
  BY DEF AdjudicateClaim, registryVars, besideClaims, slashingVars
<1> HIDE DEF assessed, approved
<1>2. status \in {"approved", "partial", "rejected"}
  BY DEF AdjudicatedStatus
<1>3. r = [claims[k] EXCEPT !.status = status, !.approved = approved, !.available = approved]
  BY DEF Decided
<1> HIDE DEF status, r
<1>4. r.status # "none" /\ r.claimant = claims[k].claimant
  BY <1>2, <1>3, ClaimTypes DEF ClaimRecord
<1> QED BY <1>1, <1>4, ClaimKept

LEMMA PayoutKeepsFiles ==
  ASSUME IInv, NEW sender, NEW k \in ClaimIds, NEW p, NEW amount,
         AuthorizePayout(sender, k, p, amount), UNCHANGED besideClaims
  PROVE  FilesKept
<1> DEFINE r == [claims[k] EXCEPT !.available = @ - amount, !.status = "paid"]
<1>1. /\ claims' = [claims EXCEPT ![k] = r] /\ ClaimExists(k)
      /\ UNCHANGED <<evidence, totalIncidents, operatorIncidents, operatorClaims>>
  BY DEF AuthorizePayout, Payable, ClaimExists, registryVars, besideClaims, slashingVars
<1>2. r.status # "none" /\ r.claimant = claims[k].claimant
  BY ClaimTypes DEF ClaimRecord
<1> HIDE DEF r
<1> QED BY <1>1, <1>2, ClaimKept

LEMMA FiledKinds ==
  ASSUME IInv, [Next]_vars
  PROVE  FilesKept \/ Joins \/ Stores \/ Submits
<1>1. ASSUME UNCHANGED <<evidenceVars, claimVars, operatorIncidents, operatorClaims>>
      PROVE  FilesKept
  BY <1>1 DEF FilesKept, ClaimExists, evidenceVars, claimVars
<1>2. CASE AdminNext
  BY <1>1, <1>2 DEF AdminNext, besideBase, registryVars, slashingVars, evidenceVars
<1>3. CASE RegistryNext
  BY <1>1, <1>3 DEF RegistryNext, Joins, UpdateOperatorStake, UpdateOperatorStatus,
     WhitelistOperator, ComputeReputation, besideRegistry, slashingVars, evidenceVars
<1>4. CASE EvidenceNext
  BY <1>1, <1>4 DEF EvidenceNext, Stores, SubmitEvidence, FetchAndSubmitEvidence,
     AnalyzeFault, besideSlashing, registryVars, evidenceVars
<1>5. CASE CaseNext
  <2> DEFINE kept == UNCHANGED <<evidenceVars, operatorIncidents, operatorClaims>>
  <2>1. ASSUME NEW c, NEW a, NEW i, NEW stake, CreateSlashingCase(c, a, i, stake)
        PROVE  kept
    BY <2>1 DEF CreateSlashingCase, evidenceVars
  <2>2. ASSUME NEW c, NEW reputation, NEW confidence,
               GenerateSlashRecommendation(c, reputation, confidence)
        PROVE  kept
    BY <2>2 DEF GenerateSlashRecommendation, registryVars, evidenceVars
  <2>3. ASSUME NEW c, NEW sender, ApproveSlashing(sender, c)
        PROVE  kept
    BY <2>3 DEF ApproveSlashing, evidenceVars
  <2>4. ASSUME NEW c, NEW sender, RejectSlashing(sender, c) \/ AppealSlashing(c)
        PROVE  kept
    BY <2>4 DEF RejectSlashing, AppealSlashing, registryVars, evidenceVars
  <2>5. ASSUME NEW c, NEW sender, NEW amount, ExecuteSlashing(sender, c, amount)
        PROVE  kept
    BY <2>5 DEF ExecuteSlashing, evidenceVars
  <2>6. ASSUME NEW c, NEW confidence, AIReviewAppeal(c, confidence)
        PROVE  kept
    BY <2>6 DEF AIReviewAppeal, evidenceVars
  <2>7. kept /\ UNCHANGED besideSlashing
    <3> HIDE DEF kept
    <3> QED BY <1>5, BaseAssumption, <2>1, <2>2, <2>3, <2>4, <2>5, <2>6 DEF CaseNext
  <2> QED BY <1>1, <2>7 DEF besideSlashing
<1>6. CASE ClaimNext
  <2>1. ASSUME NEW value, NEW sender, NEW p, UNCHANGED besideClaims,
               FundClaimPool(value) \/ CompletePayout(sender, p)
        PROVE  FilesKept
    BY <1>1, <2>1 DEF FundClaimPool, CompletePayout, registryVars, besideClaims, slashingVars,
       evidenceVars
  <2> QED BY <1>6, <2>1, AdjudicateKeepsFiles, PayoutKeepsFiles DEF ClaimNext, Submits
<1>7. CASE GovernanceNext \/ UNCHANGED vars
  <2>1. UNCHANGED besideGovernance
    BY <1>7 DEF GovernanceNext, vars, besideGovernance
  <2> QED BY <1>1, <2>1 DEF besideGovernance, registryVars, slashingVars, evidenceVars
<1> QED BY <1>2, <1>3, <1>4, <1>5, <1>6, <1>7 DEF Next

\* What each kind of step does to an address's index, to the evidence about it and
\* to its claims.
LEMMA StoreFiles ==
  ASSUME IInv, NEW i \in Incidents, NEW a \in Addresses, NEW root \in {"merkle", "page"},
         StoreEvidence(i, a, root), UNCHANGED besideSlashing
  PROVE  /\ EvidenceOnFile' = EvidenceOnFile \cup {i} /\ totalIncidents' = totalIncidents + 1
         /\ \A b \in Addresses :
              /\ operatorIncidents'[b]
                   = IF b = a THEN operatorIncidents[b] \cup {i} ELSE operatorIncidents[b]
              /\ EvidenceAbout(b)' \subseteq IF b = a THEN EvidenceAbout(b) \cup {i}
                                             ELSE EvidenceAbout(b)
              /\ ClaimsOf(b)' = ClaimsOf(b)
         /\ UNCHANGED <<operators, operatorClaims>>
<1> DEFINE e == [operator |-> a, root |-> root]
<1>1. /\ evidence' = [evidence EXCEPT ![i] = e] /\ totalIncidents' = totalIncidents + 1
      /\ operatorIncidents' = [operatorIncidents EXCEPT ![a] = operatorIncidents[a] \cup {i}]
      /\ UNCHANGED <<operators, operatorClaims, claims>>
  BY DEF StoreEvidence, AppendIndex, besideSlashing, claimVars
<1>2. e.operator = a /\ e.root # "none"
  OBVIOUS
<1> HIDE DEF e
<1>3. \A j \in Incidents : evidence'[j] = IF j = i THEN e ELSE evidence[j]
  BY <1>1, FiledTypes
<1>4. EvidenceOnFile' = EvidenceOnFile \cup {i}
  BY <1>2, <1>3 DEF EvidenceOnFile
<1>5. \A b \in Addresses : EvidenceAbout(b)' \subseteq IF b = a THEN EvidenceAbout(b) \cup {i}
                                                       ELSE EvidenceAbout(b)
  BY <1>2, <1>3 DEF EvidenceAbout, EvidenceOnFile
<1>6. \A b \in Addresses :
        operatorIncidents'[b]
          = IF b = a THEN operatorIncidents[b] \cup {i} ELSE operatorIncidents[b]
  BY <1>1, FiledTypes
<1>7. \A b \in Addresses : ClaimsOf(b)' = ClaimsOf(b)
  BY <1>1 DEF ClaimsOf, ClaimExists
<1> QED BY <1>1, <1>4, <1>5, <1>6, <1>7

LEMMA SubmitFiles ==
  ASSUME IInv, NEW k \in ClaimIds, NEW a \in Addresses, NEW coverage, NEW claimed,
         SubmitClaim(k, a, coverage, claimed), UNCHANGED besideClaims
  PROVE  /\ \A b \in Addresses :
              /\ operatorClaims'[b]
                   = IF b = a THEN operatorClaims[b] \cup {k} ELSE operatorClaims[b]
              /\ ClaimsOf(b)' = IF b = a THEN ClaimsOf(b) \cup {k} ELSE ClaimsOf(b)
              /\ EvidenceAbout(b)' = EvidenceAbout(b)
         /\ EvidenceOnFile' = EvidenceOnFile
         /\ UNCHANGED <<operators, operatorIncidents, totalIncidents>>
<1> DEFINE r == [status |-> "submitted", claimant |-> a, claimed |-> claimed,
                 approved |-> 0, available |-> 0]
<1>1. /\ ~ClaimExists(k) /\ claims' = [claims EXCEPT ![k] = r]
      /\ operatorClaims' = [operatorClaims EXCEPT ![a] = operatorClaims[a] \cup {k}]
      /\ UNCHANGED <<operators, operatorIncidents, evidence, totalIncidents>>
  BY DEF SubmitClaim, AppendIndex, besideClaims, slashingVars
<1>2. r.claimant = a /\ r.status # "none"
  OBVIOUS
<1> HIDE DEF r
<1>3. \A j \in ClaimIds : claims'[j] = IF j = k THEN r ELSE claims[j]
  BY <1>1, ClaimTypes
<1>4. \A b \in Addresses : ClaimsOf(b)' = IF b = a THEN ClaimsOf(b) \cup {k} ELSE ClaimsOf(b)
  BY <1>1, <1>2, <1>3 DEF ClaimsOf, ClaimExists
<1>5. \A b \in Addresses :
        operatorClaims'[b] = IF b = a THEN operatorClaims[b] \cup {k} ELSE operatorClaims[b]
  BY <1>1, FiledTypes
<1>6. EvidenceOnFile' = EvidenceOnFile /\ \A b \in Addresses : EvidenceAbout(b)' = EvidenceAbout(b)
  BY <1>1 DEF EvidenceOnFile, EvidenceAbout
<1> QED BY <1>1, <1>4, <1>5, <1>6

LEMMA JoinFiles ==
  ASSUME IInv, Joins
  PROVE  \E a \in Addresses :
           /\ ~IsRegistered(a)
           /\ \A b \in Addresses :
                /\ IsRegistered(b)' <=> b = a \/ IsRegistered(b)
                /\ operatorIncidents'[b] = IF b = a THEN {} ELSE operatorIncidents[b]
                /\ operatorClaims'[b] = IF b = a THEN {} ELSE operatorClaims[b]
                /\ EvidenceAbout(b)' = EvidenceAbout(b) /\ ClaimsOf(b)' = ClaimsOf(b)
           /\ EvidenceOnFile' = EvidenceOnFile /\ UNCHANGED totalIncidents
<1>1. PICK a \in Addresses, stake \in Amounts, value \in Amounts :
        RegisterOperator(a, stake, value) /\ UNCHANGED besideRegistry
  BY DEF Joins
<1> DEFINE r == [status |-> "active", staked |-> value, slashed |-> 0, slashCount |-> 0,
                 reputation |-> 100, whitelisted |-> FALSE]
<1>2. /\ ~IsRegistered(a) /\ operators' = [operators EXCEPT ![a] = r]
      /\ operatorIncidents' = [operatorIncidents EXCEPT ![a] = {}]
      /\ operatorClaims' = [operatorClaims EXCEPT ![a] = {}]
      /\ UNCHANGED <<evidence, totalIncidents, claims>>
  BY <1>1 DEF RegisterOperator, besideRegistry, slashingVars, claimVars
<1>3. \A b \in Addresses : IsRegistered(b)' <=> b = a \/ IsRegistered(b)
  BY <1>2, RegistryTypes DEF IsRegistered
<1>4. \A b \in Addresses :
        /\ operatorIncidents'[b] = IF b = a THEN {} ELSE operatorIncidents[b]
        /\ operatorClaims'[b] = IF b = a THEN {} ELSE operatorClaims[b]
  BY <1>2, FiledTypes
<1>5. /\ EvidenceOnFile' = EvidenceOnFile
      /\ \A b \in Addresses : EvidenceAbout(b)' = EvidenceAbout(b) /\ ClaimsOf(b)' = ClaimsOf(b)
  BY <1>2 DEF EvidenceOnFile, EvidenceAbout, ClaimsOf, ClaimExists
<1> QED BY <1>2, <1>3, <1>4, <1>5

LEMMA KeptFiles ==
  ASSUME FilesKept
  PROVE  /\ EvidenceOnFile' = EvidenceOnFile
         /\ \A a \in Addresses : EvidenceAbout(a)' = EvidenceAbout(a) /\ ClaimsOf(a)' = ClaimsOf(a)
BY DEF FilesKept, EvidenceOnFile, EvidenceAbout, ClaimsOf

\* Nobody leaves the registry.
LEMMA StaysRegistered ==
  ASSUME IInv, [Next]_vars, NEW a \in Addresses, IsRegistered(a)
  PROVE  IsRegistered(a)'
<1>1. CASE Quiet
  BY <1>1, QuietRegistered
<1>2. CASE Joins
  BY <1>2, JoinFiles
<1>3. CASE Opens
  BY <1>3, CreateQuiet, QuietRegistered DEF Opens
<1>4. CASE Slashes
  <2>1. PICK c \in CaseIds, sender \in Accounts, amount \in Amounts :
          ExecuteSlashing(sender, c, amount)
    BY <1>4 DEF Slashes
  <2> DEFINE b == cases[c].operator
             r == Slashed(operators[b], amount)
  <2>2. CaseExists(c) /\ operators' = [operators EXCEPT ![b] = r]
    BY <2>1 DEF ExecuteSlashing, CaseExists
  <2>3. b \in Addresses /\ operators[b] \in OperatorRecord
    BY <2>2, RegistryTypes
  <2>4. r.status # "unregistered"
    BY <2>3 DEF Slashed, OperatorRecord
  <2> HIDE DEF r
  <2> QED BY <2>2, <2>3, <2>4, RegistryTypes DEF IsRegistered
<1> QED BY <1>1, <1>2, <1>3, <1>4, StepKinds

LEMMA FiledStep ==
  ASSUME IInv, FiledInv, [Next]_vars
  PROVE  FiledInv'
<1>1. CASE FilesKept
  BY <1>1, KeptFiles, StaysRegistered DEF FilesKept, FiledInv
<1>2. CASE Joins
  BY <1>2, JoinFiles DEF FiledInv
<1>3. CASE Stores
  <2>1. PICK i \in Incidents, a \in Addresses, root \in {"merkle", "page"} :
          StoreEvidence(i, a, root) /\ UNCHANGED besideSlashing
    BY <1>3 DEF Stores
  <2>2. /\ EvidenceOnFile' = EvidenceOnFile \cup {i} /\ totalIncidents' = totalIncidents + 1
        /\ \A b \in Addresses :
             /\ operatorIncidents'[b]
                  = IF b = a THEN operatorIncidents[b] \cup {i} ELSE operatorIncidents[b]
             /\ EvidenceAbout(b)' \subseteq IF b = a THEN EvidenceAbout(b) \cup {i}
                                            ELSE EvidenceAbout(b)
             /\ ClaimsOf(b)' = ClaimsOf(b)
        /\ UNCHANGED <<operators, operatorClaims>>
    BY <2>1, StoreFiles
  <2>3. IsFiniteSet(EvidenceOnFile)
    BY RegistryAssumption, FS_Subset DEF EvidenceOnFile
  <2>4. /\ Cardinality(EvidenceOnFile) \in Nat
        /\ \/ Cardinality(EvidenceOnFile \cup {i}) = Cardinality(EvidenceOnFile)
           \/ Cardinality(EvidenceOnFile \cup {i}) = Cardinality(EvidenceOnFile) + 1
    BY <2>3, FS_AddElement, FS_CardinalityType
  <2>5. Cardinality(EvidenceOnFile') <= totalIncidents'
    BY <2>2, <2>4, FiledTypes DEF FiledInv
  <2>6. \A b \in Addresses : IsRegistered(b)' <=> IsRegistered(b)
    BY <2>2 DEF IsRegistered
  <2>7. \A b \in Addresses :
          /\ operatorIncidents'[b] \subseteq EvidenceOnFile'
          /\ operatorClaims'[b] \subseteq ClaimsOf(b)'
          /\ ~IsRegistered(b)' => /\ EvidenceAbout(b)' \subseteq operatorIncidents'[b]
                                  /\ ClaimsOf(b)' \subseteq operatorClaims'[b]
    <3> TAKE b \in Addresses
    <3>1. /\ operatorIncidents[b] \subseteq EvidenceOnFile
          /\ operatorClaims[b] \subseteq ClaimsOf(b)
          /\ ~IsRegistered(b) => /\ EvidenceAbout(b) \subseteq operatorIncidents[b]
                                 /\ ClaimsOf(b) \subseteq operatorClaims[b]
      BY DEF FiledInv
    <3> QED BY <2>2, <2>6, <3>1
  <2> QED BY <2>5, <2>7 DEF FiledInv
<1>4. CASE Submits
  <2>1. PICK k \in ClaimIds, a \in Addresses, coverage \in Amounts, claimed \in Amounts :
          SubmitClaim(k, a, coverage, claimed) /\ UNCHANGED besideClaims
    BY <1>4 DEF Submits
  <2>2. /\ \A b \in Addresses :
             /\ operatorClaims'[b]
                  = IF b = a THEN operatorClaims[b] \cup {k} ELSE operatorClaims[b]
             /\ ClaimsOf(b)' = IF b = a THEN ClaimsOf(b) \cup {k} ELSE ClaimsOf(b)
             /\ EvidenceAbout(b)' = EvidenceAbout(b)
        /\ EvidenceOnFile' = EvidenceOnFile
        /\ UNCHANGED <<operators, operatorIncidents, totalIncidents>>
    BY <2>1, SubmitFiles
  <2>3. \A b \in Addresses : IsRegistered(b)' <=> IsRegistered(b)
    BY <2>2 DEF IsRegistered
  <2> QED BY <2>2, <2>3 DEF FiledInv
<1> QED BY <1>1, <1>2, <1>3, <1>4, FiledKinds

\* An operator's case index lists exactly the cases against it.  Registration empties
\* the indexes of an address that may have evidence and claims (slash_sure.py:402-452):
\* what the indexes of a registered address may lack, those of an unregistered one do
\* not, and no index lists what is not on file.  The global counters count what the
\* maps hold, and each evidence package at least once.
THEOREM Indexes == Spec => []IndexAndCounters
<1>1. Init => ClaimsCounted
  <2> SUFFICES ASSUME Init PROVE ClaimsCounted
    OBVIOUS
  <2>1. ClaimsOnFile = {} /\ totalClaims = 0
    BY DEF Init, ClaimsInit, ClaimsOnFile, ClaimExists, NoClaim
  <2> QED BY <2>1, FS_EmptySet DEF ClaimsCounted
<1>2. IInv /\ ClaimsCounted /\ [Next]_vars => ClaimsCounted'
  <2> SUFFICES ASSUME IInv, ClaimsCounted, [Next]_vars PROVE ClaimsCounted'
    OBVIOUS
  <2>1. ASSUME UNCHANGED <<claims, totalClaims>>
        PROVE  ClaimsCounted'
    BY <2>1 DEF ClaimsCounted, ClaimsOnFile, ClaimExists
  <2>2. CASE ClaimNext
    <3>1. ASSUME NEW value, NEW sender, NEW p,
                 FundClaimPool(value) \/ CompletePayout(sender, p)
          PROVE  ClaimsCounted'
      BY <2>1, <3>1 DEF FundClaimPool, CompletePayout, claimVars
    <3> QED BY <2>2, <3>1, SubmitCounted, AdjudicateCounted, PayoutCounted DEF ClaimNext
  <2> QED BY <2>1, <2>2, ClaimsElsewhere DEF claimVars
<1>3. Init => FiledInv
  <2> SUFFICES ASSUME Init PROVE FiledInv
    OBVIOUS
  <2>1. /\ EvidenceOnFile = {} /\ totalIncidents = 0
        /\ \A a \in Addresses : /\ EvidenceAbout(a) = {} /\ ClaimsOf(a) = {}
                                /\ operatorIncidents[a] = {} /\ operatorClaims[a] = {}
    BY DEF Init, SlashingInit, RegistryInit, ClaimsInit, EvidenceOnFile, EvidenceAbout,
           NoEvidence, ClaimsOf, ClaimExists, NoClaim
  <2> QED BY <2>1, FS_EmptySet DEF FiledInv
<1>4. IInv /\ FiledInv /\ [Next]_vars => FiledInv'
  BY FiledStep
<1>5. IndexInv /\ ClaimsCounted /\ FiledInv => IndexAndCounters
  BY DEF IndexInv, ClaimsCounted, FiledInv, IndexAndCounters, OnFile, CasesOf, ClaimsOnFile
<1> QED BY <1>1, <1>2, <1>3, <1>4, <1>5, Inductive, IndexInductive, PTL DEF Spec

\* An address's indexes are emptied by its registration and by nothing else, and what
\* is filed, registered or not, is indexed by the call that files it.
THEOREM IndexesGrow == Spec => IndexesFollow
<1>1. ASSUME IInv, [Next]_vars, NEW a \in Addresses
      PROVE  /\ \/ /\ operatorIncidents[a] \subseteq operatorIncidents'[a]
                   /\ operatorClaims[a] \subseteq operatorClaims'[a]
                \/ ~IsRegistered(a) /\ IsRegistered(a)'
             /\ EvidenceAbout(a)' \subseteq EvidenceAbout(a) \cup operatorIncidents'[a]
             /\ ClaimsOf(a)' \subseteq ClaimsOf(a) \cup operatorClaims'[a]
  <2>1. CASE FilesKept
    BY <2>1, KeptFiles DEF FilesKept
  <2>2. CASE Joins
    BY <1>1, <2>2, JoinFiles
  <2>3. CASE Stores
    BY <1>1, <2>3, StoreFiles DEF Stores
  <2>4. CASE Submits
    BY <1>1, <2>4, SubmitFiles DEF Submits
  <2> QED BY <1>1, <2>1, <2>2, <2>3, <2>4, FiledKinds
<1>2. IInv /\ [Next]_vars =>
      [/\ \A a \in Addresses :
            \/ /\ operatorIncidents[a] \subseteq operatorIncidents'[a]
               /\ operatorClaims[a] \subseteq operatorClaims'[a]
            \/ ~IsRegistered(a) /\ IsRegistered(a)'
       /\ \A a \in Addresses :
            /\ EvidenceAbout(a)' \subseteq EvidenceAbout(a) \cup operatorIncidents'[a]
            /\ ClaimsOf(a)' \subseteq ClaimsOf(a) \cup operatorClaims'[a]]_vars
  BY <1>1
<1> QED BY <1>2, Inductive, PTL DEF Spec, IndexesFollow

-----------------------------------------------------------------------------
(***************************************************************************)
(* Slashes.                                                                *)
(***************************************************************************)

\* What was executed, case by case, against one operator.
ExecutedOn(a)  == {c \in CaseIds : cases[c].operator = a /\ cases[c].executed > 0}
ExecutedFor(a) == [c \in CaseIds |-> IF cases[c].operator = a THEN cases[c].executed ELSE 0]

SlashInv ==
  /\ \A a \in Addresses :
       /\ TotalOf(ExecutedFor(a)) <= operators[a].slashed
       /\ Cardinality(ExecutedOn(a)) <= operators[a].slashCount
       /\ operators[a].slashCount <= operators[a].slashed
  /\ \A c \in CaseIds : ~CaseExists(c) => cases[c].executed = 0

\* The sum over the executed cases is the sum over all.
LEMMA ExecutedUnits ==
  ASSUME IInv, NEW a \in Addresses
  PROVE  TotalOf([c \in ExecutedOn(a) |-> cases[c].executed]) = TotalOf(ExecutedFor(a))
<1>1. \A c \in CaseIds : cases[c].executed \in Nat
  BY RegistryTypes DEF CaseRecord
<1>2. \A c \in CaseIds : c \notin ExecutedOn(a) => 1..ExecutedFor(a)[c] = {}
  BY <1>1 DEF ExecutedOn, ExecutedFor
<1>3. \A c \in ExecutedOn(a) : c \in CaseIds /\ ExecutedFor(a)[c] = cases[c].executed
  BY DEF ExecutedOn, ExecutedFor
<1>4. Units([c \in ExecutedOn(a) |-> cases[c].executed])
        = UNION {{c} \X (1..ExecutedFor(a)[c]) : c \in ExecutedOn(a)}
  BY <1>3 DEF Units
<1>5. Units(ExecutedFor(a)) = UNION {{c} \X (1..ExecutedFor(a)[c]) : c \in CaseIds}
  BY DEF Units, ExecutedFor
<1>6. \A c \in CaseIds : c \notin ExecutedOn(a) => {c} \X (1..ExecutedFor(a)[c]) = {}
  BY <1>2
<1>7. UNION {{c} \X (1..ExecutedFor(a)[c]) : c \in CaseIds}
        = UNION {{c} \X (1..ExecutedFor(a)[c]) : c \in ExecutedOn(a)}
  BY <1>3, <1>6
<1> QED BY <1>4, <1>5, <1>7 DEF TotalOf

\* Cases that keep operator and execution, and operators that keep their slashes.
LEMMA SlashStable ==
  ASSUME IInv, SlashInv, Quiet,
         \A c \in CaseIds : /\ \/ cases'[c].executed = 0 /\ cases[c].executed = 0
                               \/ /\ cases'[c].operator = cases[c].operator
                                  /\ cases'[c].executed = cases[c].executed
                            /\ CaseExists(c) => CaseExists(c)'
  PROVE  SlashInv'
<1>1. \A a \in Addresses : ExecutedOn(a)' = ExecutedOn(a) /\ ExecutedFor(a)' = ExecutedFor(a)
  BY DEF ExecutedOn, ExecutedFor
<1>2. \A a \in Addresses : TotalOf(ExecutedFor(a))' = TotalOf(ExecutedFor(a))
  <2>1. \A a \in Addresses : TotalOf(ExecutedFor(a))' = TotalOf(ExecutedFor(a)')
    BY DEF TotalOf, Units, ExecutedFor
  <2> QED BY <1>1, <2>1
<1> QED BY <1>1, <1>2 DEF SlashInv, Quiet

\* A new operator starts with no slashes, and no case was executed against it.
LEMMA JoinSlashes ==
  ASSUME IInv, IndexInv, SlashInv, Joins
  PROVE  SlashInv'
<1>1. PICK a \in Addresses, stake \in Amounts, value \in Amounts :
        RegisterOperator(a, stake, value) /\ UNCHANGED besideRegistry
  BY DEF Joins
<1> DEFINE r == [status |-> "active", staked |-> value, slashed |-> 0, slashCount |-> 0,
                 reputation |-> 100, whitelisted |-> FALSE]
<1>2. ~IsRegistered(a) /\ operators' = [operators EXCEPT ![a] = r] /\ UNCHANGED cases
  BY <1>1 DEF RegisterOperator, besideRegistry, slashingVars
<1>3. \A b \in Addresses : operators'[b] = IF b = a THEN r ELSE operators[b]
  BY <1>2, RegistryTypes
<1>4. \A c \in CaseIds : cases[c].operator = a => cases[c].executed = 0
  BY <1>2 DEF IndexInv, CasesRegistered, SlashInv
<1>5. ExecutedOn(a) = {} /\ ExecutedFor(a) = [c \in CaseIds |-> 0]
  BY <1>4 DEF ExecutedOn, ExecutedFor
<1>6. Cardinality(ExecutedOn(a)) = 0 /\ TotalOf(ExecutedFor(a)) = 0
  BY <1>5, FS_EmptySet, TotalZero
<1>7. \A b \in Addresses : /\ ExecutedOn(b)' = ExecutedOn(b)
                           /\ TotalOf(ExecutedFor(b))' = TotalOf(ExecutedFor(b))
  BY <1>2 DEF ExecutedOn, ExecutedFor, TotalOf, Units
<1>8. \A c \in CaseIds : ~CaseExists(c)' => cases'[c].executed = 0
  BY <1>2 DEF SlashInv, CaseExists
<1> QED BY <1>3, <1>6, <1>7, <1>8 DEF SlashInv

LEMMA OpenSlashes ==
  ASSUME IInv, SlashInv, Opens
  PROVE  SlashInv'
<1>1. PICK c \in CaseIds, a \in Addresses, i \in Incidents, stake \in Stakes :
        CreateSlashingCase(c, a, i, stake)
  BY DEF Opens
<1>2. PICK d : cases' = [cases EXCEPT ![c] = d] /\ d.stage = "ai_analysis" /\ d.executed = 0
  <2> DEFINE opened == [stage |-> "ai_analysis", operator |-> a, stake |-> stake,
                        fp |-> verdicts[i].fp, cf |-> verdicts[i].cf,
                        bps |-> 0, amount |-> 0, executed |-> 0]
  <2>1. cases' = [cases EXCEPT ![c] = opened]
    BY <1>1 DEF CreateSlashingCase
  <2>2. opened.stage = "ai_analysis" /\ opened.executed = 0
    OBVIOUS
  <2> HIDE DEF opened
  <2> QED BY <2>1, <2>2
<1>3. cases[c].executed = 0
  BY <1>1 DEF CreateSlashingCase, SlashInv
<1>4. \A b \in CaseIds : cases'[b] = IF b = c THEN d ELSE cases[b]
  BY <1>2, RegistryTypes
<1>5. Quiet
  BY <1>1, CreateQuiet
<1> QED BY <1>2, <1>3, <1>4, <1>5, SlashStable DEF CaseExists

LEMMA RefiledSlashes ==
  ASSUME IInv, SlashInv, Quiet, CasesKept \/ \E c \in CaseIds : Refiled(c)
  PROVE  SlashInv'
<1>1. CASE CasesKept
  BY <1>1, SlashStable DEF CasesKept, CaseExists
<1>2. ASSUME NEW c \in CaseIds, Refiled(c)
      PROVE  SlashInv'
  <2>1. PICK d : /\ cases' = [cases EXCEPT ![c] = d] /\ d.stage # "none"
                 /\ d.operator = cases[c].operator /\ d.executed = cases[c].executed
    BY <1>2 DEF Refiled
  <2>2. \A b \in CaseIds : cases'[b] = IF b = c THEN d ELSE cases[b]
    BY <2>1, RegistryTypes
  <2> QED BY <2>1, <2>2, SlashStable DEF CaseExists
<1> QED BY <1>1, <1>2

\* A slash is counted for its operator, and its case, executed before or not, is
\* counted once and with its last amount.
LEMMA ExecuteSlashes ==
  ASSUME IInv, SlashInv, Slashes
  PROVE  SlashInv'
<1>1. PICK c \in CaseIds, sender \in Accounts, amount \in Amounts :
        ExecuteSlashing(sender, c, amount)
  BY DEF Slashes
<1>0. CaseExists(c) /\ cases[c].operator \in Addresses
  BY <1>1, RegistryTypes DEF ExecuteSlashing, CaseExists
<1> PICK a \in Addresses : a = cases[c].operator
  BY <1>0
<1> DEFINE r == Slashed(operators[a], amount)
           d == [cases[c] EXCEPT !.executed = amount, !.stage = "executed"]
<1>2. /\ CaseExists(c) /\ StakeCovers(a, amount) /\ amount > 0 /\ amount \in Nat
      /\ operators' = [operators EXCEPT ![a] = r] /\ cases' = [cases EXCEPT ![c] = d]
  BY <1>1, BaseAssumption DEF ExecuteSlashing, CaseExists
<1>3. a \in Addresses /\ operators[a] \in OperatorRecord /\ cases[c] \in CaseRecord
  BY <1>2, RegistryTypes
<1>4. r.slashed = operators[a].slashed + amount /\ r.slashCount = operators[a].slashCount + 1
  <2> DEFINE rep == ReputationAfterSlash(operators[a].reputation, operators[a].slashCount + 1)
  <2>1. r = [operators[a] EXCEPT !.reputation = rep, !.staked = @ - amount,
                                 !.slashed = @ + amount, !.status = "slashed",
                                 !.slashCount = @ + 1]
    BY DEF Slashed
  <2> HIDE DEF r, rep
  <2> QED BY <1>3, <2>1 DEF OperatorRecord
<1>5. d.stage = "executed" /\ d.operator = a /\ d.executed = amount
  BY <1>3 DEF CaseRecord
<1>6. /\ operators[a].slashed \in Nat /\ operators[a].slashCount \in Nat
      /\ cases[c].executed \in Nat
  BY <1>3 DEF OperatorRecord, CaseRecord
<1>7. cases[c].operator = a
  OBVIOUS
<1> HIDE DEF r, d
<1>8. \A b \in CaseIds : cases'[b] = IF b = c THEN d ELSE cases[b]
  BY <1>2, RegistryTypes
<1>9. \A b \in Addresses : operators'[b] = IF b = a THEN r ELSE operators[b]
  BY <1>2, RegistryTypes
<1>10. \A b \in CaseIds : ~CaseExists(b)' => cases'[b].executed = 0
  BY <1>5, <1>8 DEF SlashInv, CaseExists
<1>11. ASSUME NEW b \in Addresses, b # a
       PROVE  /\ ExecutedOn(b)' = ExecutedOn(b)
              /\ TotalOf(ExecutedFor(b))' = TotalOf(ExecutedFor(b))
  <2>1. ExecutedOn(b)' = ExecutedOn(b) /\ ExecutedFor(b)' = ExecutedFor(b)
    BY <1>5, <1>7, <1>8, <1>11 DEF ExecutedOn, ExecutedFor
  <2>2. TotalOf(ExecutedFor(b))' = TotalOf(ExecutedFor(b)')
    BY DEF TotalOf, Units, ExecutedFor
  <2> QED BY <2>1, <2>2
<1>12. TotalOf(ExecutedFor(a))' <= operators'[a].slashed
  <2> DEFINE f == [b \in CaseIds |-> IF cases[b].operator = a THEN cases[b].executed ELSE 0]
             g == [b \in CaseIds |-> IF cases'[b].operator = a THEN cases'[b].executed ELSE 0]
  <2>1. \A b \in CaseIds : cases[b].executed \in Nat /\ cases'[b].executed \in Nat
    BY <1>2, <1>5, <1>8, RegistryTypes DEF CaseRecord
  <2>2. f \in [CaseIds -> Nat] /\ g \in [CaseIds -> Nat]
    BY <2>1
  <2>3. \A b \in CaseIds \ {c} : g[b] = f[b]
    BY <1>8
  <2>4. f[c] = cases[c].executed /\ g[c] = amount
    BY <1>5, <1>7, <1>8
  <2>5. f = ExecutedFor(a)
    BY DEF ExecutedFor
  <2>6. TotalOf(ExecutedFor(a))' <= operators'[a].slashed <=> TotalOf(g) <= operators'[a].slashed
    BY <1>3 DEF ExecutedFor, TotalOf, Units
  <2> HIDE DEF f, g
  <2>7. TotalOf(g) = TotalOf(f) - f[c] + g[c] /\ TotalOf(f) \in Nat
    BY <2>2, <2>3, RegistryAssumption, TotalUpdate, TotalBounds
  <2>8. TotalOf(f) <= operators[a].slashed
    BY <1>3, <2>5 DEF SlashInv
  <2>9. operators'[a].slashed = operators[a].slashed + amount
    BY <1>3, <1>4, <1>9
  <2> QED BY <1>2, <1>6, <2>4, <2>6, <2>7, <2>8, <2>9
<1>13. Cardinality(ExecutedOn(a))' <= operators'[a].slashCount
  <2>1. ExecutedOn(a)' = ExecutedOn(a) \cup {c}
    BY <1>2, <1>5, <1>7, <1>8 DEF ExecutedOn
  <2>2. IsFiniteSet(ExecutedOn(a))
    BY RegistryAssumption, FS_Subset DEF ExecutedOn
  <2>3. Cardinality(ExecutedOn(a) \cup {c}) <= Cardinality(ExecutedOn(a)) + 1
    <3>1. Cardinality(ExecutedOn(a)) \in Nat
      BY <2>2, FS_CardinalityType
    <3>2. CASE c \in ExecutedOn(a)
      <4>1. ExecutedOn(a) \cup {c} = ExecutedOn(a)
        BY <3>2
      <4>2. Cardinality(ExecutedOn(a) \cup {c}) = Cardinality(ExecutedOn(a))
        BY <4>1, Zenon
      <4> QED BY <3>1, <4>2
    <3>3. CASE c \notin ExecutedOn(a)
      <4>1. Cardinality(ExecutedOn(a) \cup {c}) = Cardinality(ExecutedOn(a)) + 1
        BY <2>2, <3>3, FS_AddElement
      <4> QED BY <3>1, <4>1
    <3> QED BY <3>2, <3>3
  <2>4. Cardinality(ExecutedOn(a)) <= operators[a].slashCount
    BY <1>3 DEF SlashInv
  <2>5. operators'[a].slashCount = operators[a].slashCount + 1
    BY <1>3, <1>4, <1>9
  <2>6. Cardinality(ExecutedOn(a)) \in Nat /\ Cardinality(ExecutedOn(a) \cup {c}) \in Nat
    <3>1. IsFiniteSet(ExecutedOn(a) \cup {c})
      BY <2>2, FS_AddElement
    <3> QED BY <2>2, <3>1, FS_CardinalityType
  <2> QED BY <1>6, <2>1, <2>3, <2>4, <2>5, <2>6
<1>14. operators'[a].slashCount <= operators'[a].slashed
  BY <1>2, <1>3, <1>4, <1>6, <1>9 DEF SlashInv
<1>15. ASSUME NEW b \in Addresses
       PROVE  /\ TotalOf(ExecutedFor(b))' <= operators'[b].slashed
              /\ Cardinality(ExecutedOn(b))' <= operators'[b].slashCount
              /\ operators'[b].slashCount <= operators'[b].slashed
  <2>1. CASE b = a
    BY <1>12, <1>13, <1>14, <2>1
  <2>2. CASE b # a
    BY <1>9, <1>11, <2>2 DEF SlashInv
  <2> QED BY <2>1, <2>2
<1> QED BY <1>10, <1>15 DEF SlashInv

\* Whatever is reopened, recommended anew and executed again, the case files of an
\* operator never show more than the registry says was taken, nor more executed
\* cases than slashes (slash_sure.py:704-760, 811-849).
THEOREM SlashesCovered == Spec => []SlashedCoversCases
<1>1. Init => SlashInv
  <2> SUFFICES ASSUME Init PROVE SlashInv
    OBVIOUS
  <2>1. \A c \in CaseIds : cases[c].executed = 0
    BY DEF Init, SlashingInit, NoCase
  <2>2. \A a \in Addresses : operators[a].slashed = 0 /\ operators[a].slashCount = 0
    BY DEF Init, RegistryInit, Unregistered
  <2>3. \A a \in Addresses : ExecutedOn(a) = {} /\ ExecutedFor(a) = [c \in CaseIds |-> 0]
    BY <2>1 DEF ExecutedOn, ExecutedFor
  <2>4. \A a \in Addresses : TotalOf(ExecutedFor(a)) = 0 /\ Cardinality(ExecutedOn(a)) = 0
    BY <2>3, FS_EmptySet, TotalZero
  <2> QED BY <2>1, <2>2, <2>4 DEF SlashInv
<1>2. IInv /\ IndexInv /\ SlashInv /\ [Next]_vars => SlashInv'
  BY StepKinds, RefiledSlashes, JoinSlashes, OpenSlashes, ExecuteSlashes
<1>3. IInv /\ SlashInv => SlashedCoversCases
  BY ExecutedUnits DEF SlashInv, SlashedCoversCases, ExecutedOn
<1> QED BY <1>1, <1>2, <1>3, Inductive, IndexInductive, PTL DEF Spec
=============================================================================
