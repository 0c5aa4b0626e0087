--------------------------- MODULE TreasuryPromise ---------------------------
(***************************************************************************)
(* What the contract promises about the money it holds, whatever else it   *)
(* does.  Coins come in as the stake of one address or as cover for the    *)
(* claim pool, and there are two ways out:                                 *)
(*   - a slash takes stake of one address, and uses up a warrant, which    *)
(*     somebody granted and nobody has suspended or withdrawn since;       *)
(*   - a payment takes coins of the pool, within the voucher a claim was   *)
(*     given, and uses that voucher up.                                    *)
(* No warrant and no voucher pays twice.                                   *)
(***************************************************************************)
EXTENDS Integers, Tally

CONSTANTS Addresses, CaseIds, ClaimIds, Quantities

VARIABLES
  held,      \* the coins the treasury holds
  stake,     \* those that are the stake of each address
  pool,      \* those that cover claims
  warrant,   \* for each case: none, standing or suspended
  voucher    \* for each claim: what it may still be paid

vars == <<held, stake, pool, warrant, voucher>>

TypeOK ==
  /\ held \in Nat
  /\ stake \in [Addresses -> Nat]
  /\ pool \in Nat
  /\ warrant \in [CaseIds -> {"none", "standing", "suspended"}]
  /\ voucher \in [ClaimIds -> Nat]

Init ==
  /\ held = 0
  /\ stake = [a \in Addresses |-> 0]
  /\ pool = 0
  /\ warrant = [c \in CaseIds |-> "none"]
  /\ voucher = [k \in ClaimIds |-> 0]

Deposit(a, n) ==
  /\ n > 0
  /\ held' = held + n
  /\ stake' = [stake EXCEPT ![a] = @ + n]
  /\ UNCHANGED <<pool, warrant, voucher>>

Cover(n) ==
  /\ n > 0
  /\ held' = held + n
  /\ pool' = pool + n
  /\ UNCHANGED <<stake, warrant, voucher>>

MoveWarrant(c, from, to) ==
  /\ warrant[c] = from
  /\ warrant' = [warrant EXCEPT ![c] = to]
  /\ UNCHANGED <<held, stake, pool, voucher>>

Grant(c)     == MoveWarrant(c, "none", "standing")
Suspend(c)   == MoveWarrant(c, "standing", "suspended")
Reinstate(c) == MoveWarrant(c, "suspended", "standing")
Withdraw(c)  == \E from \in {"standing", "suspended"} : MoveWarrant(c, from, "none")

Slash(c, a, n) ==
  /\ warrant[c] = "standing"
  /\ n > 0
  /\ n <= stake[a]
  /\ held' = held - n
  /\ stake' = [stake EXCEPT ![a] = @ - n]
  /\ warrant' = [warrant EXCEPT ![c] = "none"]
  /\ UNCHANGED <<pool, voucher>>

\* A claim is assessed, possibly anew, at whatever it comes to.
Assess(k) ==
  /\ voucher'[k] \in Nat
  /\ voucher' = [voucher EXCEPT ![k] = voucher'[k]]
  /\ UNCHANGED <<held, stake, pool, warrant>>

Pay(k, n) ==
  /\ n > 0
  /\ n <= voucher[k]
  /\ n <= pool
  /\ held' = held - n
  /\ pool' = pool - n
  /\ voucher' = [voucher EXCEPT ![k] = 0]
  /\ UNCHANGED <<stake, warrant>>

Next ==
  \/ \E n \in Quantities : Cover(n) \/ \E a \in Addresses : Deposit(a, n)
  \/ \E c \in CaseIds : Grant(c) \/ Suspend(c) \/ Reinstate(c) \/ Withdraw(c)
  \/ \E c \in CaseIds, a \in Addresses, n \in Quantities : Slash(c, a, n)
  \/ \E k \in ClaimIds : Assess(k) \/ \E n \in Quantities : Pay(k, n)

Spec == Init /\ [][Next]_vars
=============================================================================
