-------------------------- MODULE SlashSureContract --------------------------
(***************************************************************************)
(* The SlashSure intelligent contract: its parts composed over the state   *)
(* they share, and what must be true of the whole.  Calls of the contract  *)
(* are executed one at a time, in any order, by anyone.                    *)
(***************************************************************************)
EXTENDS Slashing, Claims, Governance

vars == <<baseVars, registryVars, slashingVars, claimVars, governanceVars>>

Init ==
  /\ BaseInit
  /\ RegistryInit
  /\ SlashingInit
  /\ ClaimsInit
  /\ GovernanceInit

\* A call of one part leaves the variables of the others alone.
besideBase       == <<registryVars, slashingVars, claimVars, governanceVars>>
besideRegistry   == <<slashingVars, claimVars, governanceVars>>
besideSlashing   == <<claimVars, governanceVars>>
besideClaims     == <<slashingVars, governanceVars>>
besideGovernance == <<registryVars, slashingVars, claimVars>>

AdminNext ==
  \E sender \in Accounts :
    \/ Pause(sender) /\ UNCHANGED besideBase
    \/ Unpause(sender) /\ UNCHANGED besideBase
    \/ \E newOwner \in Accounts \cup {StrayAddress} :
         TransferOwnership(sender, newOwner) /\ UNCHANGED besideBase
    \/ \E cap \in ParamChoices : UpdateParams(sender, cap) /\ UNCHANGED besideBase

RegistryNext ==
  \E a \in Addresses :
    \/ \E stake, value \in Amounts :
         RegisterOperator(a, stake, value) /\ UNCHANGED besideRegistry
    \/ \E stake, value \in Amounts :
         UpdateOperatorStake(a, stake, value) /\ UNCHANGED besideRegistry
    \/ \E sender \in Accounts, status \in StatusChoices :
         UpdateOperatorStatus(sender, a, status) /\ UNCHANGED besideRegistry
    \/ \E sender \in Accounts :
         WhitelistOperator(sender, a) /\ UNCHANGED besideRegistry
    \/ \E overall \in OverallScores :
         ComputeReputation(a, overall) /\ UNCHANGED besideRegistry

EvidenceNext ==
  \E i \in Incidents :
    \/ \E a \in Addresses : SubmitEvidence(i, a) /\ UNCHANGED besideSlashing
    \/ \E a \in Addresses : FetchAndSubmitEvidence(i, a) /\ UNCHANGED besideSlashing
    \/ \E fp, sv, cf \in RawScores :
         AnalyzeFault(i, fp, sv, cf) /\ UNCHANGED besideSlashing

CaseNext ==
  \E c \in CaseIds :
    \/ \E a \in Addresses, i \in Incidents, stake \in Stakes :
         CreateSlashingCase(c, a, i, stake) /\ UNCHANGED besideSlashing
    \/ \E reputation \in Reputations, confidence \in RawScores :
         GenerateSlashRecommendation(c, reputation, confidence)
           /\ UNCHANGED besideSlashing
    \/ \E sender \in Accounts : ApproveSlashing(sender, c) /\ UNCHANGED besideSlashing
    \/ \E sender \in Accounts : RejectSlashing(sender, c) /\ UNCHANGED besideSlashing
    \/ \E sender \in Accounts, amount \in Amounts :
         ExecuteSlashing(sender, c, amount) /\ UNCHANGED besideSlashing
    \/ AppealSlashing(c) /\ UNCHANGED besideSlashing
    \/ \E confidence \in RawScores :
         AIReviewAppeal(c, confidence) /\ UNCHANGED besideSlashing

ClaimNext ==
  \/ \E value \in Amounts : FundClaimPool(value) /\ UNCHANGED besideClaims
  \/ \E k \in ClaimIds, a \in Addresses, coverage, claimed \in Amounts :
       SubmitClaim(k, a, coverage, claimed) /\ UNCHANGED besideClaims
  \/ \E k \in ClaimIds, assessed, approved \in RawAmounts :
       AdjudicateClaim(k, assessed, approved) /\ UNCHANGED besideClaims
  \/ \E sender \in Accounts, k \in ClaimIds, p \in PayoutIds, amount \in Amounts :
       AuthorizePayout(sender, k, p, amount) /\ UNCHANGED besideClaims
  \/ \E sender \in Accounts, p \in PayoutIds :
       CompletePayout(sender, p) /\ UNCHANGED besideClaims

GovernanceNext ==
  \/ \E sender \in Accounts, topic \in Topics :
       CreateProposal(sender, topic) /\ UNCHANGED besideGovernance
  \/ \E p \in ProposalIds, sender \in Accounts, voteFor \in BOOLEAN :
       Vote(sender, p, voteFor) /\ UNCHANGED besideGovernance
  \/ \E p \in ProposalIds : FinalizeProposal(p) /\ UNCHANGED besideGovernance

Next ==
  \/ AdminNext
  \/ RegistryNext
  \/ EvidenceNext
  \/ CaseNext
  \/ ClaimNext
  \/ GovernanceNext

Spec == Init /\ [][Next]_vars

-----------------------------------------------------------------------------
\* Every variable has its type (storage layout of the contract).
TypeOK ==
  /\ BaseTypeOK
  /\ RegistryTypeOK
  /\ SlashingTypeOK
  /\ ClaimsTypeOK
  /\ GovernanceTypeOK

(***************************************************************************)
(* Money                                                                   *)
(***************************************************************************)

\* The coins the contract holds are the stakes and the claim pool: no slash,
\* payout or top-up, in any order, leaves it short of what it owes or with
\* coins nobody can claim.
Solvent == balance = totalStaked + claimPool

\* The global stake and slash counters are the sums over the registry, so the
\* unsigned subtraction in execute_slashing can never go below zero.
LedgerMatchesRegistry ==
  /\ totalStaked = TotalOf(StakeOf)
  /\ totalSlashed = TotalOf(SlashedOf)

\* The payout counter is the sum of the receipts.
LedgerMatchesReceipts ==
  totalPayouts = TotalOf([p \in PayoutIds |-> payouts[p].amount])

\* What the case files say was executed against an operator is never more
\* than what the registry says was taken, although a case can be reopened and
\* executed again, which overwrites its file; nor are there more executed
\* cases than slashes, or more slashes than coins.
SlashedCoversCases ==
  \A a \in Addresses :
    LET executedOn == {c \in CaseIds : cases[c].operator = a /\ cases[c].executed > 0}
    IN  /\ TotalOf([c \in executedOn |-> cases[c].executed]) <= operators[a].slashed
        /\ Cardinality(executedOn) <= operators[a].slashCount
        /\ operators[a].slashCount <= operators[a].slashed

(***************************************************************************)
(* Slashing cases                                                          *)
(***************************************************************************)

\* The amount as a recommendation stores it, or as a reduction does: for a
\* negative stake, which the contract accepts, the two differ.
StandsFor(amount, bps, stake) ==
  /\ Divisible(bps * stake)
  /\ amount \in {SlashAmount(bps, stake), RecommendedAmount(bps, stake)}

\* In every stage the amount on file is one the basis points on file stand for,
\* after reductions, reversals and renewed recommendations too.
AmountFollowsBps ==
  \A c \in CaseIds : StandsFor(cases[c].amount, cases[c].bps, cases[c].stake)

\* What is on file, and whose it is.
EvidenceOnFile   == {i \in Incidents : evidence[i].root # "none"}
EvidenceAbout(a) == {i \in EvidenceOnFile : evidence[i].operator = a}
ClaimsOf(a)      == {k \in ClaimIds : ClaimExists(k) /\ claims[k].claimant = a}

\* Indexes and counters.  An operator's case index lists exactly the cases
\* against it.  Evidence and claims ask for no registration, and registration
\* empties the indexes: a registered address may have evidence and claims its
\* indexes do not list, an address that is not registered has none, and no
\* index lists an incident without evidence or somebody else's claim.  The
\* global counters count what the maps hold; a package that replaces another
\* is counted again.
IndexAndCounters ==
  /\ \A a \in Addresses :
       /\ operatorCases[a] = {c \in CaseIds : CaseExists(c) /\ cases[c].operator = a}
       /\ operatorIncidents[a] \subseteq EvidenceOnFile
       /\ operatorClaims[a] \subseteq ClaimsOf(a)
       /\ ~IsRegistered(a) => /\ EvidenceAbout(a) \subseteq operatorIncidents[a]
                              /\ ClaimsOf(a) \subseteq operatorClaims[a]
  /\ totalCases = Cardinality({c \in CaseIds : CaseExists(c)})
  /\ totalOperators = Cardinality(Registered)
  /\ totalClaims = Cardinality({k \in ClaimIds : ClaimExists(k)})
  /\ Cardinality(EvidenceOnFile) <= totalIncidents

\* An address's indexes lose an entry only when it is registered, and what is
\* filed is in the index of the address it is about when the call returns.
IndexesFollow ==
  [][/\ \A a \in Addresses :
          \/ /\ operatorIncidents[a] \subseteq operatorIncidents'[a]
             /\ operatorClaims[a] \subseteq operatorClaims'[a]
          \/ ~IsRegistered(a) /\ IsRegistered(a)'
     /\ \A a \in Addresses :
          /\ EvidenceAbout(a)' \subseteq EvidenceAbout(a) \cup operatorIncidents'[a]
          /\ ClaimsOf(a)' \subseteq ClaimsOf(a) \cup operatorClaims'[a]]_vars

\* An approved slash never grows: from approval to execution, through any
\* number of appeals and reviews, only a fresh recommendation, which takes
\* the approval away, can raise the basis points, or the amount above what
\* it was (above zero, where a negative stake had made it negative).
AppealNeverRaises ==
  [][\A c \in CaseIds :
       /\ cases[c].stage \in {"approved", "appealed"}
       /\ cases'[c].stage # "recommended"
       => /\ cases'[c].bps <= cases[c].bps
          /\ cases'[c].amount <= NonNegative(cases[c].amount)]_vars

\* While the contract is paused no money moves and no case, verdict, claim,
\* payout, proposal or operator status changes.
PausedFreezes ==
  [][paused => /\ UNCHANGED <<moneyVars, slashingVars, claimVars, governanceVars>>
               /\ \A a \in Addresses : operators'[a].status = operators[a].status]_vars

(***************************************************************************)
(* Claims and proposals                                                    *)
(***************************************************************************)

\* A decided claim stays within what was claimed; a paid claim has a receipt
\* for exactly the part of its approved amount that is gone, and any other
\* claim has its whole approved amount available.
PaidMatchesReceipt ==
  \A k \in ClaimIds :
    /\ claims[k].available <= claims[k].approved
    /\ claims[k].approved <= claims[k].claimed
    /\ IF claims[k].status = "paid"
       THEN \E p \in PayoutIds :
              payouts[p] = [claim  |-> k,
                            amount |-> claims[k].approved - claims[k].available]
       ELSE claims[k].available = claims[k].approved

\* The tally counts each voter once, and a proposal is passed exactly when it
\* is closed with more votes for it than against it.
TallyMatchesVoters ==
  \A p \in ProposalIds :
    /\ proposals[p].votesFor + proposals[p].votesAgainst
         = Cardinality(proposalVoters[p])
    /\ proposals[p].status = "passed" => proposals[p].votesFor > proposals[p].votesAgainst
    /\ proposals[p].status = "failed" => proposals[p].votesFor <= proposals[p].votesAgainst

\* A closed proposal keeps its outcome and its tally.
ClosedIsFinal ==
  [][\A p \in ProposalIds :
       proposals[p].status \in {"passed", "failed"} => proposals'[p] = proposals[p]]_vars

(***************************************************************************)
(* Refinement: the contract keeps the promise of TreasuryPromise.  The     *)
(* approval of a case is the warrant, suspended while an appeal is open;   *)
(* the undisbursed part of an approved claim is the voucher.               *)
(***************************************************************************)
WarrantOf(c) == CASE cases[c].stage = "approved" -> "standing"
                  [] cases[c].stage = "appealed" -> "suspended"
                  [] OTHER                       -> "none"

VoucherOf(k) ==
  IF claims[k].status \in {"approved", "partial"} THEN claims[k].available ELSE 0

Promise == INSTANCE TreasuryPromise WITH
  Quantities <- Amounts,
  held    <- balance,
  stake   <- StakeOf,
  pool    <- claimPool,
  warrant <- [c \in CaseIds |-> WarrantOf(c)],
  voucher <- [k \in ClaimIds |-> VoucherOf(k)]

\* Every step of the contract is a step of the promise, or leaves the
\* treasury alone.
KeepsPromise == Promise!Spec

(***************************************************************************)
(* What the sources say of the contract and the contract does not do.      *)
(***************************************************************************)

\* "Compute slash_bps deterministically from fault_probability and
\* severity_score" (slash_sure.py:721): asking again for the recommendation
\* of a case whose scores stand cannot turn no slash into a slash, or back.
RecommendationDeterministic ==
  [][\A c \in CaseIds :
       cases[c].stage = "recommended" /\ cases'[c].stage = "recommended"
       => (cases[c].bps = 0 <=> cases'[c].bps = 0)]_vars
=============================================================================
