---------------------------- MODULE ContractBase ----------------------------
(***************************************************************************)
(* The state every part of the SlashSure contract shares: who owns it,     *)
(* whether it is paused, the governed parameters, the coins it holds and   *)
(* the global ledger counters; and the administrative operations.          *)
(*                                                                         *)
(* A contract call is one atomic step: a call whose guard fails raises and *)
(* leaves the state alone, so an action is written for the calls that      *)
(* succeed.  The audit trail (a log that nothing reads back) is left out.  *)
(***************************************************************************)
EXTENDS Integers, FiniteSets

CONSTANTS
  Accounts,      \* accounts that can sign a call
  Deployer,      \* the account that deployed the contract
  StrayAddress,  \* a non-empty string that is no account's canonical address
  Amounts,       \* the amounts of wei a caller names or attaches to a call
  MaxDeposits,   \* bound of the model: all the wei ever attached to calls
  ParamChoices   \* the parameter settings the owner may choose

ASSUME BaseAssumption ==
  /\ Deployer \in Accounts
  /\ StrayAddress \notin Accounts
  /\ Amounts \subseteq Nat
  /\ MaxDeposits \in Nat
  /\ ParamChoices \subseteq Nat

VARIABLES
  owner,         \* self.owner
  paused,        \* self.contract_paused
  maxSlashBps,   \* self.max_slash_bps, the one parameter the code reads
  balance,       \* the coins the contract account holds on the chain
  totalStaked,   \* self.total_staked_wei
  totalSlashed,  \* self.total_slashed_wei
  claimPool,     \* self.claim_pool_wei
  totalPayouts   \* self.total_payouts_amount

authVars  == <<owner, paused, maxSlashBps>>
moneyVars == <<balance, totalStaked, totalSlashed, claimPool, totalPayouts>>
baseVars  == <<owner, paused, maxSlashBps, balance, totalStaked, totalSlashed,
               claimPool, totalPayouts>>

BaseTypeOK ==
  /\ owner \in Accounts \cup {StrayAddress}
  /\ paused \in BOOLEAN
  /\ maxSlashBps \in 1..10000
  /\ balance \in Nat
  /\ totalStaked \in Nat
  /\ totalSlashed \in Nat
  /\ claimPool \in Nat
  /\ totalPayouts \in Nat

BaseInit ==
  /\ owner = Deployer
  /\ paused = FALSE
  /\ maxSlashBps = 10000
  /\ balance = 0
  /\ totalStaked = 0
  /\ totalSlashed = 0
  /\ claimPool = 0
  /\ totalPayouts = 0

\* All the wei callers have ever sent: still held, slashed away or paid out.
Deposited == balance + totalSlashed + totalPayouts

OnlyOwner(sender) == sender = owner
NotPaused         == ~paused

\* A payable call that accepts exactly the coins attached to it.
Receive(value) ==
  /\ Deposited + value <= MaxDeposits
  /\ balance' = balance + value

\* A slip: the ledger is updated and the transfer forgotten.
SendForgotten(amount) ==
  /\ amount > 0
  /\ UNCHANGED balance

\* _send_gen: coins leave the contract.
Send(amount) ==
  /\ amount > 0
  /\ balance' = balance - amount

Pause(sender) ==
  /\ OnlyOwner(sender)
  /\ paused' = TRUE
  /\ UNCHANGED <<owner, maxSlashBps, moneyVars>>

Unpause(sender) ==
  /\ OnlyOwner(sender)
  /\ paused' = FALSE
  /\ UNCHANGED <<owner, maxSlashBps, moneyVars>>

\* The new owner is any non-empty string, checked against nothing.
TransferOwnership(sender, newOwner) ==
  /\ OnlyOwner(sender)
  /\ owner' = newOwner
  /\ UNCHANGED <<paused, maxSlashBps, moneyVars>>

\* The two confidence thresholds and the appeal window are stored and never
\* read by the code; only the cap has an effect.
UpdateParams(sender, cap) ==
  /\ OnlyOwner(sender)
  /\ cap \in 1..10000
  /\ maxSlashBps' = cap
  /\ UNCHANGED <<owner, paused, moneyVars>>
=============================================================================
