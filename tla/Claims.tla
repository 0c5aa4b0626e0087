------------------------------- MODULE Claims -------------------------------
(***************************************************************************)
(* The insurance side of the SlashSure contract: the pool, claims, their   *)
(* adjudication by the language model and the payouts.                     *)
(* adjudicate_claim asks for no status: it reopens any claim.              *)
(***************************************************************************)
EXTENDS OperatorRegistry

CONSTANTS
  PayoutIds,
  RawAmounts   \* the amounts an adjudication may answer with

ASSUME ClaimsAssumption ==
  /\ IsFiniteSet(PayoutIds)
  /\ RawAmounts \subseteq Int

VARIABLES
  claims,       \* self.insurance_claims
  payouts,      \* self.payouts
  totalClaims   \* self.total_claims

claimVars == <<claims, payouts, totalClaims>>

\* incident, organization and coverage_amount play no part after submission.
\* "available" is approved_deposited, "approved" is approved_amount.
ClaimRecord ==
  [status : {"none", "submitted", "approved", "partial", "rejected", "paid"},
   claimant : Addresses \cup {Nobody}, claimed : Nat, approved : Nat, available : Nat]

NoClaim ==
  [status |-> "none", claimant |-> Nobody,
   claimed |-> 0, approved |-> 0, available |-> 0]

PayoutRecord == [claim : ClaimIds, amount : Nat] \cup {[amount |-> 0]}
NoPayout     == [amount |-> 0]

ClaimExists(k)  == claims[k].status # "none"

\* A slip: the duplicate check on payout ids is gone.
NoPayoutExists(p) == FALSE
PayoutExists(p)   == payouts[p] # NoPayout

ClaimsTypeOK ==
  /\ claims \in [ClaimIds -> ClaimRecord]
  /\ payouts \in [PayoutIds -> PayoutRecord]
  /\ totalClaims \in Nat

ClaimsInit ==
  /\ claims = [k \in ClaimIds |-> NoClaim]
  /\ payouts = [p \in PayoutIds |-> NoPayout]
  /\ totalClaims = 0

\* A slip: the pool takes coins while the contract is paused.
FundClaimPoolPaused(value) ==
  /\ value > 0
  /\ Receive(value)
  /\ claimPool' = claimPool + value
  /\ UNCHANGED <<authVars, totalStaked, totalSlashed, totalPayouts,
                 registryVars, claimVars>>

FundClaimPool(value) ==
  /\ NotPaused
  /\ value > 0
  /\ Receive(value)
  /\ claimPool' = claimPool + value
  /\ UNCHANGED <<authVars, totalStaked, totalSlashed, totalPayouts,
                 registryVars, claimVars>>

SubmitClaim(k, a, coverage, claimed) ==
  /\ NotPaused
  /\ ~ClaimExists(k)
  /\ claimed <= coverage
  /\ claimed > 0
  /\ claims' = [claims EXCEPT ![k] =
       [status |-> "submitted", claimant |-> a, claimed |-> claimed,
        approved |-> 0, available |-> 0]]
  /\ totalClaims' = totalClaims + 1
  /\ operatorClaims' = AppendIndex(operatorClaims, a, k)
  /\ UNCHANGED <<baseVars, operators, totalOperators, operatorIncidents,
                 operatorCases, payouts>>

\* The status a pair of clamped amounts stands for.
AdjudicatedStatus(assessed, approved) ==
  CASE approved >= assessed /\ assessed > 0 -> "approved"
    [] approved < assessed /\ approved > 0  -> "partial"
    [] OTHER                                -> "rejected"

\* A slip: the balance of the previous decision stays.
DecidedStale(claim, assessed, approved) ==
  [claim EXCEPT !.status = AdjudicatedStatus(assessed, approved),
                !.approved = approved]

\* The claim record with its decision.
Decided(claim, assessed, approved) ==
  [claim EXCEPT !.status = AdjudicatedStatus(assessed, approved),
                !.approved = approved, !.available = approved]

\* Any claim, a paid one included, gets a new decision and a new balance.
AdjudicateClaim(k, rawAssessed, rawApproved) ==
  LET assessed == Clamp(rawAssessed, 0, claims[k].claimed)
      approved == Clamp(rawApproved, 0, assessed)
  IN  /\ NotPaused
      /\ ClaimExists(k)
      /\ claims' = [claims EXCEPT ![k] = Decided(@, assessed, approved)]
      /\ UNCHANGED <<baseVars, registryVars, payouts, totalClaims>>

\* A slip: what is left of a paid claim may be paid out too.
PayableTwice(k) == claims[k].status \in {"approved", "partial", "paid"}
Payable(k)      == claims[k].status \in {"approved", "partial"}

AuthorizePayout(sender, k, p, amount) ==
  /\ NotPaused
  /\ OnlyOwner(sender)
  /\ Payable(k)
  /\ ~PayoutExists(p)
  /\ amount <= claims[k].approved
  /\ amount > 0
  /\ amount <= claims[k].available
  /\ amount <= claimPool
  /\ claims' = [claims EXCEPT ![k].available = @ - amount, ![k].status = "paid"]
  /\ claimPool' = claimPool - amount
  /\ totalPayouts' = totalPayouts + amount
  /\ payouts' = [payouts EXCEPT ![p] = [claim |-> k, amount |-> amount]]
  /\ Send(amount)
  /\ UNCHANGED <<authVars, totalStaked, totalSlashed, registryVars, totalClaims>>

\* A payout is completed from the start: the call writes back the status it
\* finds.  Not gated by the pause.
CompletePayout(sender, p) ==
  /\ OnlyOwner(sender)
  /\ PayoutExists(p)
  /\ UNCHANGED <<baseVars, registryVars, claimVars>>
=============================================================================
