----------------------------- MODULE Governance -----------------------------
(***************************************************************************)
(* Governance proposals of the SlashSure contract.  The id of a proposal   *)
(* is the hash of its sender, target and type, so those three name it; it  *)
(* has no deadline, anyone may close it, and closing it changes nothing    *)
(* but its own status.                                                     *)
(***************************************************************************)
EXTENDS ContractBase

CONSTANT Topics   \* the (target, type) pairs that are proposed

VARIABLES
  proposals,      \* self.governance_proposals
  proposalVoters  \* self.proposal_voters

governanceVars == <<proposals, proposalVoters>>

ProposalIds == Accounts \X Topics

ProposalRecord ==
  [status : {"none", "active", "passed", "failed"},
   votesFor : Nat, votesAgainst : Nat]

NoProposal == [status |-> "none", votesFor |-> 0, votesAgainst |-> 0]

GovernanceTypeOK ==
  /\ proposals \in [ProposalIds -> ProposalRecord]
  /\ proposalVoters \in [ProposalIds -> SUBSET Accounts]

GovernanceInit ==
  /\ proposals = [p \in ProposalIds |-> NoProposal]
  /\ proposalVoters = [p \in ProposalIds |-> {}]

\* A slip: a closed proposal still takes votes and can be closed again.
Created(p) == proposals[p].status # "none"
Open(p)    == proposals[p].status = "active"

CreateProposal(sender, topic) ==
  LET p == <<sender, topic>>
  IN  /\ NotPaused
      /\ proposals[p].status = "none"
      /\ proposals' = [proposals EXCEPT ![p] = [NoProposal EXCEPT !.status = "active"]]
      /\ proposalVoters' = [proposalVoters EXCEPT ![p] = {}]
      /\ UNCHANGED baseVars

Vote(sender, p, voteFor) ==
  /\ NotPaused
  /\ Open(p)
  /\ sender \notin proposalVoters[p]
  /\ proposalVoters' = [proposalVoters EXCEPT ![p] = @ \cup {sender}]
  /\ proposals' = IF voteFor
                  THEN [proposals EXCEPT ![p].votesFor = @ + 1]
                  ELSE [proposals EXCEPT ![p].votesAgainst = @ + 1]
  /\ UNCHANGED baseVars

\* A slip: a tie passes.
OutcomeTie(votesFor, votesAgainst) ==
  IF votesFor >= votesAgainst THEN "passed" ELSE "failed"

Outcome(votesFor, votesAgainst) ==
  IF votesFor > votesAgainst THEN "passed" ELSE "failed"

\* A tie and an empty ballot both fail.
FinalizeProposal(p) ==
  /\ NotPaused
  /\ Open(p)
  /\ proposals' = [proposals EXCEPT ![p].status =
       Outcome(proposals[p].votesFor, proposals[p].votesAgainst)]
  /\ UNCHANGED <<baseVars, proposalVoters>>
=============================================================================
