-------------------------- MODULE OperatorRegistry --------------------------
(***************************************************************************)
(* The operator registry of the SlashSure contract: operators and their    *)
(* deposited stake, and the three address indexes that registration        *)
(* (re)initialises.                                                        *)
(*                                                                         *)
(* A storage map is a function over all the keys of the model; a key that  *)
(* is not in the map holds the record whose status says so.  total_stake   *)
(* is written together with staked_wei, always with the same value, and    *)
(* is not kept twice; an index is the set of the ids in its string.        *)
(***************************************************************************)
EXTENDS ContractBase, SlashMath, Tally

CONSTANTS
  Addresses,      \* addresses of operators and of claimants
  Incidents, CaseIds, ClaimIds,
  StatusChoices,  \* the statuses the owner may set
  OverallScores   \* the overall scores the language model may answer with

\* The statuses update_operator_status accepts.
SettableStatus == {"active", "inactive", "jailed", "slashed", "suspended"}

\* A history speaks of finitely many keys.
ASSUME RegistryAssumption ==
  /\ IsFiniteSet(Addresses)
  /\ IsFiniteSet(Incidents)
  /\ IsFiniteSet(CaseIds)
  /\ IsFiniteSet(ClaimIds)
  /\ StatusChoices \subseteq SettableStatus
  /\ OverallScores \subseteq Int

VARIABLES
  operators,          \* self.operators
  totalOperators,     \* self.total_operators
  operatorIncidents,  \* self.operator_incidents
  operatorCases,      \* self.operator_cases
  operatorClaims      \* self.operator_claims (keyed by claimant)

registryVars == <<operators, totalOperators, operatorIncidents,
                  operatorCases, operatorClaims>>

OperatorRecord ==
  [status : SettableStatus \cup {"unregistered"}, staked : Nat, slashed : Nat,
   slashCount : Nat, reputation : Score, whitelisted : BOOLEAN]

Unregistered ==
  [status |-> "unregistered", staked |-> 0, slashed |-> 0, slashCount |-> 0,
   reputation |-> 0, whitelisted |-> FALSE]

\* The operator of what names no operator yet.
Nobody == "nobody"

IsRegistered(a) == operators[a].status # "unregistered"
Registered      == {a \in Addresses : IsRegistered(a)}

StakeOf   == [a \in Addresses |-> operators[a].staked]
SlashedOf == [a \in Addresses |-> operators[a].slashed]

RegistryTypeOK ==
  /\ operators \in [Addresses -> OperatorRecord]
  /\ totalOperators \in Nat
  /\ operatorIncidents \in [Addresses -> SUBSET Incidents]
  /\ operatorCases \in [Addresses -> SUBSET CaseIds]
  /\ operatorClaims \in [Addresses -> SUBSET ClaimIds]

RegistryInit ==
  /\ operators = [a \in Addresses |-> Unregistered]
  /\ totalOperators = 0
  /\ operatorIncidents = [a \in Addresses |-> {}]
  /\ operatorCases = [a \in Addresses |-> {}]
  /\ operatorClaims = [a \in Addresses |-> {}]

\* _append_index: add a value once.
AppendIndex(index, key, value) == [index EXCEPT ![key] = @ \cup {value}]

\* Anyone may register an address; its three index entries are emptied.
RegisterOperator(a, stake, value) ==
  /\ NotPaused
  /\ ~IsRegistered(a)
  /\ stake > 0
  /\ value = stake
  /\ Receive(value)
  /\ operators' = [operators EXCEPT ![a] =
       [status |-> "active", staked |-> value, slashed |-> 0, slashCount |-> 0,
        reputation |-> 100, whitelisted |-> FALSE]]
  /\ operatorIncidents' = [operatorIncidents EXCEPT ![a] = {}]
  /\ operatorCases' = [operatorCases EXCEPT ![a] = {}]
  /\ operatorClaims' = [operatorClaims EXCEPT ![a] = {}]
  /\ totalOperators' = totalOperators + 1
  /\ totalStaked' = totalStaked + value
  /\ UNCHANGED <<authVars, totalSlashed, claimPool, totalPayouts>>

\* "new_stake" is added to the stake, by whoever sends it.
UpdateOperatorStake(a, newStake, value) ==
  /\ NotPaused
  /\ IsRegistered(a)
  /\ newStake > 0
  /\ value = newStake
  /\ Receive(value)
  /\ operators' = [operators EXCEPT ![a].staked = @ + value]
  /\ totalStaked' = totalStaked + value
  /\ UNCHANGED <<authVars, totalSlashed, claimPool, totalPayouts,
                 totalOperators, operatorIncidents, operatorCases,
                 operatorClaims>>

UpdateOperatorStatus(sender, a, status) ==
  /\ NotPaused
  /\ OnlyOwner(sender)
  /\ IsRegistered(a)
  /\ operators' = [operators EXCEPT ![a].status = status]
  /\ UNCHANGED <<baseVars, totalOperators, operatorIncidents, operatorCases,
                 operatorClaims>>

\* Not gated by the pause.
WhitelistOperator(sender, a) ==
  /\ OnlyOwner(sender)
  /\ IsRegistered(a)
  /\ operators' = [operators EXCEPT ![a].whitelisted = TRUE]
  /\ UNCHANGED <<baseVars, totalOperators, operatorIncidents, operatorCases,
                 operatorClaims>>

\* The overall score replaces the reputation, penalties included; the four
\* other scores it stores are read by nothing but views and prompts.
ComputeReputation(a, overall) ==
  /\ NotPaused
  /\ IsRegistered(a)
  /\ operators' = [operators EXCEPT ![a].reputation = Clamp(overall, 0, 100)]
  /\ UNCHANGED <<baseVars, totalOperators, operatorIncidents, operatorCases,
                 operatorClaims>>
=============================================================================
