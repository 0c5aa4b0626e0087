--------------------------- MODULE ContractProofs ---------------------------
(***************************************************************************)
(* Proofs about SlashSureContract for every choice of its constants: its   *)
(* type invariant, that its books balance, and that the amount on a case   *)
(* file follows its basis points.                                          *)
(*                                                                         *)
(* The invariants lean on each other.  That execute_slashing's unsigned    *)
(* subtractions stay natural needs more than types: the operator's stake   *)
(* is part of totalStaked (LedgerMatchesRegistry), and totalStaked is part *)
(* of the balance (Solvent).  They are therefore proved together, as IInv. *)
(***************************************************************************)
EXTENDS SlashSureContract, ArithmeticProofs

\* A case on file names an address of the registry.
CaseOperators ==
  \A c \in CaseIds : CaseExists(c) => cases[c].operator \in Addresses

\* An address nobody registered has neither stake nor slashes: registration
\* starts a record, it does not take one over.
UnregisteredEmpty ==
  \A a \in Addresses :
    ~IsRegistered(a) => operators[a].staked = 0 /\ operators[a].slashed = 0

IInv ==
  /\ TypeOK
  /\ UnregisteredEmpty
  /\ CaseOperators
  /\ AmountFollowsBps
  /\ Solvent
  /\ LedgerMatchesRegistry

-----------------------------------------------------------------------------
(* The operators of the model.                                             *)

\* A value clamped to a governed cap is a number of basis points.
LEMMA ClampToCap ==
  ASSUME NEW v \in Int, NEW cap \in Int, 0 <= cap, cap <= 10000
  PROVE  Clamp(v, 0, cap) \in 0..FullBps
BY DEF Clamp, FullBps

\* A recommended slash is a number of basis points, whatever the scores.
LEMMA SlashBpsType ==
  ASSUME NEW fp \in Score, NEW cf \in Score, NEW reputation \in Int,
         NEW cap \in Int, 0 <= cap, cap <= 10000
  PROVE  SlashBps(fp, cf, reputation, cap) \in 0..FullBps
<1> DEFINE asked == IF reputation > 85 THEN Discounted(RawBps(fp, cf)) ELSE RawBps(fp, cf)
<1>1. RawBps(fp, cf) \in Int
  BY DEF RawBps, Score
<1>2. asked \in Int
  BY <1>1 DEF Discounted
<1> HIDE DEF asked
<1>3. Clamp(asked, 0, cap) \in 0..FullBps
  BY <1>2, ClampToCap
<1> QED BY <1>3 DEF SlashBps, asked

\* A slash leaves a reputation in the range of scores.
LEMMA ReputationType ==
  ASSUME NEW reputation \in Score, NEW count \in Nat
  PROVE  ReputationAfterSlash(reputation, count) \in Score
BY DEF ReputationAfterSlash, Score, Clamp

\* What the basis points of a stake stand for is an integer.
LEMMA StandsForType ==
  ASSUME NEW amount, NEW bps \in Nat, NEW stake \in Int, StandsFor(amount, bps, stake)
  PROVE  amount \in Int
BY AmountType DEF StandsFor

\* No basis points stand for no amount.
LEMMA StandsForNothing ==
  ASSUME NEW stake \in Int
  PROVE  StandsFor(0, 0, stake)
BY AmountZero DEF StandsFor

\* A slash leaves a well-formed operator record with its stake moved.
LEMMA SlashedRecord ==
  ASSUME NEW op \in OperatorRecord, NEW amount \in Nat, amount <= op.staked
  PROVE  /\ Slashed(op, amount) \in OperatorRecord
         /\ Slashed(op, amount).staked = op.staked - amount
         /\ Slashed(op, amount).slashed = op.slashed + amount
<1> DEFINE rep == ReputationAfterSlash(op.reputation, op.slashCount + 1)
<1>1. /\ op.reputation \in Score
      /\ op.slashCount + 1 \in Nat
      /\ op.staked - amount \in Nat
      /\ op.slashed + amount \in Nat
      /\ "slashed" \in SettableStatus
  BY DEF OperatorRecord, SettableStatus
<1>2. rep \in Score
  BY <1>1, ReputationType
<1> HIDE DEF rep
<1>3. Slashed(op, amount) = [op EXCEPT !.reputation = rep,
                                       !.staked = @ - amount, !.slashed = @ + amount,
                                       !.status = "slashed", !.slashCount = @ + 1]
  BY DEF Slashed, rep
<1> QED BY <1>1, <1>2, <1>3 DEF OperatorRecord

\* When the record of one operator is replaced, the two sums over the
\* registry move by the change in that record.
LEMMA RegistrySums ==
  ASSUME operators \in [Addresses -> OperatorRecord],
         NEW a \in Addresses, NEW r \in OperatorRecord,
         operators' = [operators EXCEPT ![a] = r]
  PROVE  /\ TotalOf(StakeOf)' = TotalOf(StakeOf) - operators[a].staked + r.staked
         /\ TotalOf(SlashedOf)' = TotalOf(SlashedOf) - operators[a].slashed + r.slashed
<1>1. IsFiniteSet(Addresses)
  BY RegistryAssumption
<1>2. /\ StakeOf \in [Addresses -> Nat]
      /\ SlashedOf \in [Addresses -> Nat]
  BY DEF StakeOf, SlashedOf, OperatorRecord
<1>3. operators' \in [Addresses -> OperatorRecord]
  OBVIOUS
<1>4. /\ StakeOf' \in [Addresses -> Nat]
      /\ SlashedOf' \in [Addresses -> Nat]
  BY <1>3 DEF StakeOf, SlashedOf, OperatorRecord
<1>5. /\ \A b \in Addresses \ {a} : StakeOf'[b] = StakeOf[b]
      /\ \A b \in Addresses \ {a} : SlashedOf'[b] = SlashedOf[b]
      /\ StakeOf[a] = operators[a].staked /\ StakeOf'[a] = r.staked
      /\ SlashedOf[a] = operators[a].slashed /\ SlashedOf'[a] = r.slashed
  BY DEF StakeOf, SlashedOf
<1>6. TotalOf(StakeOf') = TotalOf(StakeOf) - StakeOf[a] + StakeOf'[a]
  <2>1. PICK f \in [Addresses -> Nat], g \in [Addresses -> Nat] :
               f = StakeOf /\ g = StakeOf'
    BY <1>2, <1>4
  <2>2. \A b \in Addresses \ {a} : g[b] = f[b]
    BY <1>5, <2>1
  <2>3. TotalOf(g) = TotalOf(f) - f[a] + g[a]
    BY <1>1, <2>2, TotalUpdate
  <2> QED BY <2>1, <2>3
<1>7. TotalOf(SlashedOf') = TotalOf(SlashedOf) - SlashedOf[a] + SlashedOf'[a]
  <2>1. PICK f \in [Addresses -> Nat], g \in [Addresses -> Nat] :
               f = SlashedOf /\ g = SlashedOf'
    BY <1>2, <1>4
  <2>2. \A b \in Addresses \ {a} : g[b] = f[b]
    BY <1>5, <2>1
  <2>3. TotalOf(g) = TotalOf(f) - f[a] + g[a]
    BY <1>1, <2>2, TotalUpdate
  <2> QED BY <2>1, <2>3
<1>8. /\ TotalOf(StakeOf)' = TotalOf(StakeOf')
      /\ TotalOf(SlashedOf)' = TotalOf(SlashedOf')
  BY DEF TotalOf, Units, StakeOf, SlashedOf
<1> QED BY <1>5, <1>6, <1>7, <1>8

\* The sums over the registry are natural, and no operator's part exceeds
\* them.
LEMMA SumsAreNatural ==
  ASSUME operators \in [Addresses -> OperatorRecord]
  PROVE  /\ TotalOf(StakeOf) \in Nat
         /\ TotalOf(SlashedOf) \in Nat
         /\ \A a \in Addresses : operators[a].staked <= TotalOf(StakeOf)
<1>1. PICK f \in [Addresses -> Nat], g \in [Addresses -> Nat] :
             f = StakeOf /\ g = SlashedOf
  BY DEF StakeOf, SlashedOf, OperatorRecord
<1>2. /\ TotalOf(f) \in Nat /\ TotalOf(g) \in Nat
      /\ \A a \in Addresses : f[a] <= TotalOf(f)
  BY RegistryAssumption, TotalBounds
<1>3. \A a \in Addresses : f[a] = operators[a].staked
  BY <1>1 DEF StakeOf
<1> QED BY <1>1, <1>2, <1>3

\* Calls that leave the registry alone leave its sums alone.
LEMMA SumsStable ==
  ASSUME UNCHANGED operators
  PROVE  /\ TotalOf(StakeOf)' = TotalOf(StakeOf)
         /\ TotalOf(SlashedOf)' = TotalOf(SlashedOf)
BY DEF TotalOf, Units, StakeOf, SlashedOf

-----------------------------------------------------------------------------
(* What each part of the contract leaves alone.                            *)

\* The parts of IInv that speak of one part of the contract each.
RegistryInv == RegistryTypeOK /\ UnregisteredEmpty
CaseInv     == SlashingTypeOK /\ CaseOperators /\ AmountFollowsBps
MoneyInv    == Solvent /\ LedgerMatchesRegistry

LEMMA BaseStable ==
  ASSUME BaseTypeOK, UNCHANGED baseVars
  PROVE  BaseTypeOK'
BY DEF BaseTypeOK, baseVars

LEMMA RegistryStable ==
  ASSUME RegistryInv, UNCHANGED registryVars
  PROVE  RegistryInv'
BY DEF RegistryInv, RegistryTypeOK, UnregisteredEmpty, IsRegistered, registryVars

LEMMA SlashingStable ==
  ASSUME CaseInv, UNCHANGED slashingVars
  PROVE  CaseInv'
BY DEF CaseInv, SlashingTypeOK, CaseOperators, CaseExists, AmountFollowsBps, slashingVars

LEMMA ClaimsStable ==
  ASSUME ClaimsTypeOK, UNCHANGED claimVars
  PROVE  ClaimsTypeOK'
BY DEF ClaimsTypeOK, claimVars

LEMMA GovernanceStable ==
  ASSUME GovernanceTypeOK, UNCHANGED governanceVars
  PROVE  GovernanceTypeOK'
BY DEF GovernanceTypeOK, governanceVars

LEMMA MoneyStable ==
  ASSUME MoneyInv, UNCHANGED <<moneyVars, operators>>
  PROVE  MoneyInv'
BY SumsStable DEF MoneyInv, Solvent, LedgerMatchesRegistry, moneyVars

\* IInv taken apart, and put together again.
LEMMA Parts ==
  IInv <=> /\ BaseTypeOK /\ RegistryInv /\ CaseInv /\ ClaimsTypeOK
           /\ GovernanceTypeOK /\ MoneyInv
BY DEF IInv, TypeOK, RegistryInv, CaseInv, MoneyInv

LEMMA PartsNext ==
  IInv' <=> /\ BaseTypeOK' /\ RegistryInv' /\ CaseInv' /\ ClaimsTypeOK'
            /\ GovernanceTypeOK' /\ MoneyInv'
BY Parts, PTL

-----------------------------------------------------------------------------
(* The initial states.                                                     *)

LEMMA InitInv == Init => IInv
<1> SUFFICES ASSUME Init
             PROVE  IInv
  OBVIOUS
<1> USE DEF Init
<1>1. BaseTypeOK
  <2>1. owner \in Accounts \cup {StrayAddress}
    BY BaseAssumption DEF BaseInit
  <2>2. maxSlashBps \in 1..10000
    BY DEF BaseInit
  <2>3. paused \in BOOLEAN
    <3>1. ~paused /\ paused = FALSE
      BY DEF BaseInit
    <3> QED BY <3>1, Zenon
  <2>4. /\ balance \in Nat /\ totalStaked \in Nat /\ totalSlashed \in Nat
        /\ claimPool \in Nat /\ totalPayouts \in Nat
    BY DEF BaseInit
  <2> HIDE DEF Init
  <2> QED BY <2>1, <2>2, <2>3, <2>4 DEF BaseTypeOK
<1>2. RegistryInv
  <2>1. Unregistered \in OperatorRecord
    BY DEF Unregistered, OperatorRecord, Score
  <2>2. RegistryTypeOK
    BY <2>1 DEF RegistryInit, RegistryTypeOK
  <2>3. UnregisteredEmpty
    BY DEF RegistryInit, UnregisteredEmpty, Unregistered
  <2> QED BY <2>2, <2>3 DEF RegistryInv
<1>3. SlashingTypeOK
  <2>1. NoCase \in CaseRecord
    BY DEF NoCase, CaseRecord, Stage, Score, FullBps
  <2>2. NoVerdict \in VerdictRecord
    BY DEF NoVerdict, VerdictRecord, Score
  <2>3. NoEvidence \in EvidenceRecord
    BY DEF NoEvidence, EvidenceRecord
  <2> QED BY <2>1, <2>2, <2>3 DEF SlashingInit, SlashingTypeOK
<1>4. CaseInv
  BY <1>3, StandsForNothing DEF SlashingInit, CaseInv, CaseOperators, CaseExists,
                         AmountFollowsBps, NoCase
<1>5. ClaimsTypeOK
  <2>1. NoClaim \in ClaimRecord
    BY DEF NoClaim, ClaimRecord
  <2>2. NoPayout \in PayoutRecord
    BY DEF NoPayout, PayoutRecord
  <2> QED BY <2>1, <2>2 DEF ClaimsInit, ClaimsTypeOK
<1>6. GovernanceTypeOK
  <2>1. NoProposal \in ProposalRecord
    BY DEF NoProposal, ProposalRecord
  <2> QED BY <2>1 DEF GovernanceInit, GovernanceTypeOK
<1>7. MoneyInv
  <2>1. StakeOf = [a \in Addresses |-> 0] /\ SlashedOf = [a \in Addresses |-> 0]
    BY DEF RegistryInit, StakeOf, SlashedOf, Unregistered
  <2>2. TotalOf(StakeOf) = 0 /\ TotalOf(SlashedOf) = 0
    BY <2>1, TotalZero
  <2> QED BY <2>2 DEF BaseInit, MoneyInv, Solvent, LedgerMatchesRegistry
<1> QED BY <1>1, <1>2, <1>3, <1>4, <1>5, <1>6, <1>7, Parts

-----------------------------------------------------------------------------
(* Administration.                                                         *)

LEMMA AdminInv == IInv /\ AdminNext => IInv'
<1> SUFFICES ASSUME IInv, NEW sender \in Accounts,
                    \/ Pause(sender)
                    \/ Unpause(sender)
                    \/ \E newOwner \in Accounts \cup {StrayAddress} :
                         TransferOwnership(sender, newOwner)
                    \/ \E cap \in ParamChoices : UpdateParams(sender, cap),
                    UNCHANGED besideBase
             PROVE  IInv'
  BY DEF AdminNext
<1>1. RegistryInv' /\ CaseInv' /\ ClaimsTypeOK' /\ GovernanceTypeOK'
  BY Parts, RegistryStable, SlashingStable, ClaimsStable, GovernanceStable DEF besideBase
<1>2. UNCHANGED moneyVars
  BY DEF Pause, Unpause, TransferOwnership, UpdateParams
<1>3. MoneyInv'
  BY <1>2, Parts, MoneyStable DEF besideBase, registryVars
<1>4. owner' \in Accounts \cup {StrayAddress}
  BY Parts DEF BaseTypeOK, Pause, Unpause, TransferOwnership, UpdateParams
<1>5. paused' \in BOOLEAN
  <2>1. paused \in BOOLEAN
    BY Parts DEF BaseTypeOK
  <2>2. CASE Pause(sender)
    BY <2>2, Zenon DEF Pause
  <2>3. CASE Unpause(sender)
    BY <2>3, Zenon DEF Unpause
  <2>4. CASE paused' = paused
    BY <2>1, <2>4, Zenon
  <2> QED BY <2>2, <2>3, <2>4 DEF TransferOwnership, UpdateParams
<1>6. maxSlashBps' \in 1..10000
  BY Parts DEF BaseTypeOK, Pause, Unpause, TransferOwnership, UpdateParams
<1>7. BaseTypeOK'
  BY <1>2, <1>4, <1>5, <1>6, Parts DEF BaseTypeOK, moneyVars
<1> QED BY <1>1, <1>3, <1>7, PartsNext

-----------------------------------------------------------------------------
(* The registry.                                                           *)

\* The record of one operator replaced.
LEMMA RecordReplaced ==
  ASSUME RegistryInv,
         NEW a \in Addresses, NEW r \in OperatorRecord, r.status # "unregistered",
         operators' = [operators EXCEPT ![a] = r],
         UNCHANGED <<totalOperators, operatorIncidents, operatorCases, operatorClaims>>
  PROVE  RegistryInv'
<1>1. RegistryTypeOK'
  BY DEF RegistryInv, RegistryTypeOK
<1>2. UnregisteredEmpty'
  BY DEF RegistryInv, RegistryTypeOK, UnregisteredEmpty, IsRegistered
<1> QED BY <1>1, <1>2 DEF RegistryInv

\* A record replaced without touching stake or slashes leaves the books as
\* they are.
LEMMA BooksUntouched ==
  ASSUME RegistryInv, MoneyInv, UNCHANGED moneyVars,
         NEW a \in Addresses, NEW r \in OperatorRecord,
         operators' = [operators EXCEPT ![a] = r],
         r.staked = operators[a].staked, r.slashed = operators[a].slashed
  PROVE  MoneyInv'
<1>1. /\ TotalOf(StakeOf)' = TotalOf(StakeOf) - operators[a].staked + r.staked
      /\ TotalOf(SlashedOf)' = TotalOf(SlashedOf) - operators[a].slashed + r.slashed
  BY RegistrySums DEF RegistryInv, RegistryTypeOK
<1>2. /\ TotalOf(StakeOf) \in Nat /\ TotalOf(SlashedOf) \in Nat
      /\ operators[a].staked \in Nat /\ operators[a].slashed \in Nat
  BY SumsAreNatural DEF RegistryInv, RegistryTypeOK, OperatorRecord
<1> QED BY <1>1, <1>2 DEF MoneyInv, Solvent, LedgerMatchesRegistry, moneyVars

\* Stake that comes in is booked three times: in the balance, in the counter
\* and in the record of one operator.
LEMMA StakeReceived ==
  ASSUME RegistryInv, BaseTypeOK, MoneyInv,
         NEW a \in Addresses, NEW r \in OperatorRecord, NEW value \in Nat,
         operators' = [operators EXCEPT ![a] = r],
         r.staked = operators[a].staked + value, r.slashed = operators[a].slashed,
         balance' = balance + value, totalStaked' = totalStaked + value,
         UNCHANGED <<authVars, totalSlashed, claimPool, totalPayouts>>
  PROVE  BaseTypeOK' /\ MoneyInv'
<1>1. /\ TotalOf(StakeOf)' = TotalOf(StakeOf) - operators[a].staked + r.staked
      /\ TotalOf(SlashedOf)' = TotalOf(SlashedOf) - operators[a].slashed + r.slashed
  BY RegistrySums DEF RegistryInv, RegistryTypeOK
<1>2. /\ TotalOf(StakeOf) \in Nat /\ TotalOf(SlashedOf) \in Nat
      /\ operators[a].staked \in Nat /\ operators[a].slashed \in Nat
  BY SumsAreNatural DEF RegistryInv, RegistryTypeOK, OperatorRecord
<1>3. /\ balance \in Nat /\ totalStaked \in Nat /\ claimPool \in Nat
      /\ totalSlashed \in Nat /\ totalPayouts \in Nat
  BY DEF BaseTypeOK
<1>4. MoneyInv'
  BY <1>1, <1>2, <1>3 DEF MoneyInv, Solvent, LedgerMatchesRegistry
<1>5. BaseTypeOK'
  BY <1>3 DEF BaseTypeOK, authVars
<1> QED BY <1>4, <1>5

\* What the calls of the registry leave alone, they leave alone.
LEMMA BesideRegistryInv ==
  ASSUME IInv, UNCHANGED besideRegistry
  PROVE  CaseInv' /\ ClaimsTypeOK' /\ GovernanceTypeOK'
BY Parts, SlashingStable, ClaimsStable, GovernanceStable DEF besideRegistry

LEMMA RegisterInv ==
  ASSUME IInv, NEW a \in Addresses, NEW stake \in Amounts, NEW value \in Amounts,
         RegisterOperator(a, stake, value), UNCHANGED besideRegistry
  PROVE  IInv'
<1> DEFINE r == [status |-> "active", staked |-> value, slashed |-> 0,
                 slashCount |-> 0, reputation |-> 100, whitelisted |-> FALSE]
<1>1. value \in Nat
  BY BaseAssumption
<1>2. r \in OperatorRecord
  BY <1>1 DEF OperatorRecord, Score, SettableStatus
<1>3. operators' = [operators EXCEPT ![a] = r]
  BY DEF RegisterOperator
<1>4. r.staked = value /\ r.slashed = 0 /\ r.status = "active"
  OBVIOUS
<1> HIDE DEF r
<1>5. RegistryInv'
  <2>1. RegistryTypeOK
    BY Parts DEF RegistryInv
  <2>2. operators' \in [Addresses -> OperatorRecord]
    BY <1>2, <1>3, <2>1 DEF RegistryTypeOK
  <2>3. totalOperators' \in Nat
    BY <2>1 DEF RegistryTypeOK, RegisterOperator
  <2>4. /\ operatorIncidents' \in [Addresses -> SUBSET Incidents]
        /\ operatorCases' \in [Addresses -> SUBSET CaseIds]
        /\ operatorClaims' \in [Addresses -> SUBSET ClaimIds]
    BY <2>1 DEF RegistryTypeOK, RegisterOperator
  <2>5. UnregisteredEmpty'
    BY <1>2, <1>3, <1>4, <2>1, Parts
       DEF RegistryInv, RegistryTypeOK, UnregisteredEmpty, IsRegistered
  <2> QED BY <2>2, <2>3, <2>4, <2>5 DEF RegistryInv, RegistryTypeOK
<1>6. operators[a].staked = 0 /\ operators[a].slashed = 0
  BY Parts DEF RegistryInv, UnregisteredEmpty, RegisterOperator
<1>7. BaseTypeOK' /\ MoneyInv'
  <2>1. r.staked = operators[a].staked + value /\ r.slashed = operators[a].slashed
    BY <1>1, <1>4, <1>6
  <2>2. /\ balance' = balance + value
        /\ totalStaked' = totalStaked + value
        /\ UNCHANGED <<authVars, totalSlashed, claimPool, totalPayouts>>
    BY DEF RegisterOperator, Receive
  <2> QED BY <1>1, <1>2, <1>3, <2>1, <2>2, Parts, StakeReceived
<1> QED BY <1>5, <1>7, BesideRegistryInv, PartsNext

LEMMA StakeInv ==
  ASSUME IInv, NEW a \in Addresses, NEW stake \in Amounts, NEW value \in Amounts,
         UpdateOperatorStake(a, stake, value), UNCHANGED besideRegistry
  PROVE  IInv'
<1> DEFINE r == [operators[a] EXCEPT !.staked = @ + value]
<1>1. value \in Nat /\ operators[a] \in OperatorRecord
  BY BaseAssumption, Parts DEF RegistryInv, RegistryTypeOK
<1>2. /\ r \in OperatorRecord
      /\ r.staked = operators[a].staked + value
      /\ r.slashed = operators[a].slashed
      /\ r.status = operators[a].status
  BY <1>1 DEF OperatorRecord
<1>3. operators' = [operators EXCEPT ![a] = r]
  BY DEF UpdateOperatorStake
<1>4. operators[a].status # "unregistered"
  BY DEF UpdateOperatorStake, IsRegistered
<1> HIDE DEF r
<1>5. RegistryInv'
  BY <1>2, <1>3, <1>4, Parts, RecordReplaced DEF UpdateOperatorStake
<1>6. BaseTypeOK' /\ MoneyInv'
  <2>1. /\ balance' = balance + value
        /\ totalStaked' = totalStaked + value
        /\ UNCHANGED <<authVars, totalSlashed, claimPool, totalPayouts>>
    BY DEF UpdateOperatorStake, Receive
  <2> QED BY <1>1, <1>2, <1>3, <2>1, Parts, StakeReceived
<1> QED BY <1>5, <1>6, BesideRegistryInv, PartsNext

\* The calls that change a record and no money.
LEMMA RecordInv ==
  ASSUME IInv, NEW a \in Addresses, IsRegistered(a),
         NEW r \in OperatorRecord, r.status # "unregistered",
         r.staked = operators[a].staked, r.slashed = operators[a].slashed,
         operators' = [operators EXCEPT ![a] = r],
         UNCHANGED <<baseVars, totalOperators, operatorIncidents, operatorCases,
                     operatorClaims>>
  PROVE  BaseTypeOK' /\ RegistryInv' /\ MoneyInv'
<1>1. BaseTypeOK'
  BY Parts, BaseStable
<1>2. RegistryInv'
  BY Parts, RecordReplaced
<1>3. MoneyInv'
  BY Parts, BooksUntouched DEF baseVars, moneyVars
<1> QED BY <1>1, <1>2, <1>3

LEMMA StatusInv ==
  ASSUME IInv, NEW a \in Addresses, NEW sender, NEW status \in StatusChoices,
         UpdateOperatorStatus(sender, a, status), UNCHANGED besideRegistry
  PROVE  IInv'
<1> DEFINE r == [operators[a] EXCEPT !.status = status]
<1>1. /\ status \in SettableStatus
      /\ operators[a] \in OperatorRecord
  BY RegistryAssumption, Parts DEF RegistryInv, RegistryTypeOK
<1>2. /\ r \in OperatorRecord
      /\ r.staked = operators[a].staked /\ r.slashed = operators[a].slashed
      /\ r.status = status
  BY <1>1 DEF OperatorRecord
<1>3. status # "unregistered"
  BY <1>1 DEF SettableStatus
<1>4. operators' = [operators EXCEPT ![a] = r]
  BY DEF UpdateOperatorStatus
<1> HIDE DEF r
<1>5. BaseTypeOK' /\ RegistryInv' /\ MoneyInv'
  BY <1>2, <1>3, <1>4, RecordInv DEF UpdateOperatorStatus
<1> QED BY <1>5, BesideRegistryInv, PartsNext

LEMMA WhitelistInv ==
  ASSUME IInv, NEW a \in Addresses, NEW sender,
         WhitelistOperator(sender, a), UNCHANGED besideRegistry
  PROVE  IInv'
<1> DEFINE r == [operators[a] EXCEPT !.whitelisted = TRUE]
<1>1. operators[a] \in OperatorRecord
  BY Parts DEF RegistryInv, RegistryTypeOK
<1>2. /\ r \in OperatorRecord
      /\ r.staked = operators[a].staked /\ r.slashed = operators[a].slashed
      /\ r.status = operators[a].status
  BY <1>1 DEF OperatorRecord
<1>3. operators' = [operators EXCEPT ![a] = r]
  BY DEF WhitelistOperator
<1> HIDE DEF r
<1>4. BaseTypeOK' /\ RegistryInv' /\ MoneyInv'
  BY <1>2, <1>3, RecordInv DEF WhitelistOperator, IsRegistered
<1> QED BY <1>4, BesideRegistryInv, PartsNext

LEMMA ReputationInv ==
  ASSUME IInv, NEW a \in Addresses, NEW overall \in OverallScores,
         ComputeReputation(a, overall), UNCHANGED besideRegistry
  PROVE  IInv'
<1> DEFINE score == Clamp(overall, 0, 100)
           r     == [operators[a] EXCEPT !.reputation = score]
<1>1. operators[a] \in OperatorRecord
  BY Parts DEF RegistryInv, RegistryTypeOK
<1>2. score \in Score
  BY RegistryAssumption DEF Clamp, Score
<1>3. operators' = [operators EXCEPT ![a] = r]
  BY DEF ComputeReputation
<1> HIDE DEF score
<1>4. /\ r \in OperatorRecord
      /\ r.staked = operators[a].staked /\ r.slashed = operators[a].slashed
      /\ r.status = operators[a].status
  BY <1>1, <1>2 DEF OperatorRecord
<1> HIDE DEF r
<1>5. BaseTypeOK' /\ RegistryInv' /\ MoneyInv'
  BY <1>3, <1>4, RecordInv DEF ComputeReputation, IsRegistered
<1> QED BY <1>5, BesideRegistryInv, PartsNext

LEMMA RegistryNextInv == IInv /\ RegistryNext => IInv'
BY RegisterInv, StakeInv, StatusInv, WhitelistInv, ReputationInv DEF RegistryNext

-----------------------------------------------------------------------------
(* Evidence and verdicts.                                                  *)

\* What the calls of the slashing part leave alone, they leave alone.
LEMMA BesideSlashingInv ==
  ASSUME IInv, UNCHANGED besideSlashing
  PROVE  ClaimsTypeOK' /\ GovernanceTypeOK'
BY Parts, ClaimsStable, GovernanceStable DEF besideSlashing

\* An entry added to one index of the registry.
LEMMA AppendType ==
  ASSUME NEW Values, NEW index \in [Addresses -> SUBSET Values],
         NEW a \in Addresses, NEW v \in Values
  PROVE  AppendIndex(index, a, v) \in [Addresses -> SUBSET Values]
BY DEF AppendIndex

LEMMA EvidenceInv ==
  ASSUME IInv, NEW i \in Incidents, NEW a \in Addresses, NEW root \in {"merkle", "page"},
         StoreEvidence(i, a, root), UNCHANGED besideSlashing
  PROVE  IInv'
<1>1. /\ UNCHANGED baseVars
      /\ UNCHANGED <<operators, totalOperators, operatorCases, operatorClaims>>
      /\ UNCHANGED caseVars
  BY DEF StoreEvidence
<1>2. BaseTypeOK' /\ MoneyInv'
  BY <1>1, Parts, BaseStable, MoneyStable DEF baseVars, moneyVars
<1>3. RegistryInv'
  <2>1. RegistryTypeOK /\ UnregisteredEmpty
    BY Parts DEF RegistryInv
  <2>2. operatorIncidents' \in [Addresses -> SUBSET Incidents]
    BY <2>1, AppendType DEF RegistryTypeOK, StoreEvidence
  <2>3. RegistryTypeOK'
    BY <1>1, <2>1, <2>2 DEF RegistryTypeOK
  <2>4. UnregisteredEmpty'
    BY <1>1, <2>1 DEF UnregisteredEmpty, IsRegistered
  <2> QED BY <2>3, <2>4 DEF RegistryInv
<1>4. CaseInv'
  <2>1. SlashingTypeOK /\ CaseOperators /\ AmountFollowsBps
    BY Parts DEF CaseInv
  <2>2. [operator |-> a, root |-> root] \in EvidenceRecord
    BY DEF EvidenceRecord
  <2>3. evidence' \in [Incidents -> EvidenceRecord]
    BY <2>1, <2>2 DEF SlashingTypeOK, StoreEvidence
  <2>4. totalIncidents' \in Nat
    BY <2>1 DEF SlashingTypeOK, StoreEvidence
  <2>5. SlashingTypeOK'
    BY <1>1, <2>1, <2>3, <2>4 DEF SlashingTypeOK, caseVars
  <2>6. CaseOperators' /\ AmountFollowsBps'
    BY <1>1, <2>1 DEF CaseOperators, CaseExists, AmountFollowsBps, caseVars
  <2> QED BY <2>5, <2>6 DEF CaseInv
<1> QED BY <1>2, <1>3, <1>4, BesideSlashingInv, PartsNext

LEMMA VerdictInv ==
  ASSUME IInv, NEW i \in Incidents,
         NEW fp \in RawScores, NEW sv \in RawScores, NEW cf \in RawScores,
         AnalyzeFault(i, fp, sv, cf), UNCHANGED besideSlashing
  PROVE  IInv'
<1>1. /\ UNCHANGED baseVars
      /\ UNCHANGED registryVars
      /\ UNCHANGED <<evidence, totalIncidents, cases, totalCases>>
  BY DEF AnalyzeFault, evidenceVars
<1>2. BaseTypeOK' /\ RegistryInv' /\ MoneyInv'
  BY <1>1, Parts, BaseStable, RegistryStable, MoneyStable
     DEF baseVars, moneyVars, registryVars
<1>3. CaseInv'
  <2>1. SlashingTypeOK /\ CaseOperators /\ AmountFollowsBps
    BY Parts DEF CaseInv
  <2>2. /\ Clamp(fp, 0, 100) \in Score
        /\ Clamp(sv, 0, 100) \in Score
        /\ Clamp(cf, 0, 100) \in Score
    BY SlashingAssumption DEF Clamp, Score
  <2>3. [analyzed |-> TRUE, fp |-> Clamp(fp, 0, 100), sv |-> Clamp(sv, 0, 100),
         cf |-> Clamp(cf, 0, 100)] \in VerdictRecord
    BY <2>2 DEF VerdictRecord
  <2>4. verdicts' \in [Incidents -> VerdictRecord]
    BY <2>1, <2>3 DEF SlashingTypeOK, AnalyzeFault
  <2>5. SlashingTypeOK'
    BY <1>1, <2>1, <2>4 DEF SlashingTypeOK
  <2>6. CaseOperators' /\ AmountFollowsBps'
    BY <1>1, <2>1 DEF CaseOperators, CaseExists, AmountFollowsBps
  <2> QED BY <2>5, <2>6 DEF CaseInv
<1> QED BY <1>2, <1>3, BesideSlashingInv, PartsNext

LEMMA EvidenceNextInv == IInv /\ EvidenceNext => IInv'
BY EvidenceInv, VerdictInv DEF EvidenceNext, SubmitEvidence, FetchAndSubmitEvidence

-----------------------------------------------------------------------------
(* Slashing cases.                                                         *)

\* The file of one case replaced by one whose amount follows its basis points.
LEMMA CaseReplaced ==
  ASSUME CaseInv, NEW c \in CaseIds, NEW r \in CaseRecord, r.operator \in Addresses,
         StandsFor(r.amount, r.bps, r.stake),
         cases' = [cases EXCEPT ![c] = r],
         totalCases' \in Nat, UNCHANGED <<evidence, totalIncidents, verdicts>>
  PROVE  CaseInv'
<1>1. SlashingTypeOK /\ CaseOperators /\ AmountFollowsBps
  BY DEF CaseInv
<1>2. cases' \in [CaseIds -> CaseRecord]
  BY <1>1 DEF SlashingTypeOK
<1>3. \A d \in CaseIds : cases'[d] = IF d = c THEN r ELSE cases[d]
  BY <1>1 DEF SlashingTypeOK
<1>4. SlashingTypeOK'
  BY <1>1, <1>2 DEF SlashingTypeOK
<1>5. CaseOperators'
  BY <1>1, <1>3 DEF CaseOperators, CaseExists
<1>6. AmountFollowsBps'
  BY <1>1, <1>3 DEF AmountFollowsBps
<1> QED BY <1>4, <1>5, <1>6 DEF CaseInv

\* The calls that change a case and nothing beside it.
LEMMA OnlyCaseInv ==
  ASSUME IInv, CaseInv', UNCHANGED <<baseVars, registryVars>>, UNCHANGED besideSlashing
  PROVE  IInv'
BY Parts, BaseStable, RegistryStable, MoneyStable, BesideSlashingInv, PartsNext
   DEF baseVars, moneyVars, registryVars

LEMMA BpsNatural ==
  ASSUME NEW bps \in 0..FullBps
  PROVE  bps \in Nat /\ 0 <= bps /\ bps <= 10000
BY DEF FullBps

\* A reduction stays a number of basis points.
LEMMA ClampToBps ==
  ASSUME NEW v \in Int, NEW bps \in 0..FullBps
  PROVE  Clamp(v, 0, bps) \in 0..FullBps
<1>1. bps \in Int /\ 0 <= bps /\ bps <= 10000
  BY BpsNatural
<1> QED BY <1>1, ClampToCap

\* What IInv says of one case.
LEMMA CaseFacts ==
  ASSUME IInv, NEW c \in CaseIds
  PROVE  /\ CaseInv /\ cases[c] \in CaseRecord /\ totalCases \in Nat
         /\ CaseExists(c) => cases[c].operator \in Addresses
         /\ StandsFor(cases[c].amount, cases[c].bps, cases[c].stake)
         /\ cases[c].fp \in Score /\ cases[c].cf \in Score
         /\ cases[c].stake \in Int /\ cases[c].bps \in 0..FullBps
         /\ maxSlashBps \in Int /\ 0 <= maxSlashBps /\ maxSlashBps <= 10000
<1>1. CaseInv /\ BaseTypeOK
  BY Parts
<1>2. SlashingTypeOK /\ CaseOperators /\ AmountFollowsBps
  BY <1>1 DEF CaseInv
<1>3. cases[c] \in CaseRecord /\ totalCases \in Nat
  BY <1>2 DEF SlashingTypeOK
<1>4. /\ cases[c].fp \in Score /\ cases[c].cf \in Score
      /\ cases[c].stake \in Int /\ cases[c].bps \in 0..FullBps
  BY <1>3 DEF CaseRecord
<1>5. maxSlashBps \in Int /\ 0 <= maxSlashBps /\ maxSlashBps <= 10000
  BY <1>1 DEF BaseTypeOK
<1> QED BY <1>1, <1>2, <1>3, <1>4, <1>5 DEF CaseOperators, AmountFollowsBps

LEMMA CreateInv ==
  ASSUME IInv, NEW c \in CaseIds, NEW a \in Addresses, NEW i \in Incidents,
         NEW stake \in Stakes,
         CreateSlashingCase(c, a, i, stake), UNCHANGED besideSlashing
  PROVE  IInv'
<1> DEFINE r == [stage |-> "ai_analysis", operator |-> a, stake |-> stake,
                 fp |-> verdicts[i].fp, cf |-> verdicts[i].cf,
                 bps |-> 0, amount |-> 0, executed |-> 0]
<1>1. /\ UNCHANGED <<baseVars, operators, totalOperators, operatorIncidents,
                     operatorClaims, evidenceVars, verdicts>>
      /\ totalCases' = totalCases + 1
      /\ operatorCases' = AppendIndex(operatorCases, a, c)
      /\ cases' = [cases EXCEPT ![c] = r]
  BY DEF CreateSlashingCase
<1>2. BaseTypeOK' /\ MoneyInv'
  BY <1>1, Parts, BaseStable, MoneyStable DEF baseVars, moneyVars
<1>3. RegistryInv'
  <2>1. RegistryTypeOK /\ UnregisteredEmpty
    BY Parts DEF RegistryInv
  <2>2. operatorCases' \in [Addresses -> SUBSET CaseIds]
    BY <1>1, <2>1, AppendType DEF RegistryTypeOK
  <2>3. RegistryTypeOK'
    BY <1>1, <2>1, <2>2 DEF RegistryTypeOK
  <2>4. UnregisteredEmpty'
    BY <1>1, <2>1 DEF UnregisteredEmpty, IsRegistered
  <2> QED BY <2>3, <2>4 DEF RegistryInv
<1>4. CaseInv'
  <2>1. stake \in Int /\ verdicts[i].fp \in Score /\ verdicts[i].cf \in Score
    BY SlashingAssumption, Parts DEF CaseInv, SlashingTypeOK, VerdictRecord
  <2>2. /\ r \in CaseRecord
        /\ r.operator = a /\ r.amount = 0 /\ r.bps = 0 /\ r.stake = stake
    BY <2>1 DEF CaseRecord, Stage, FullBps
  <2> HIDE DEF r
  <2>3. StandsFor(r.amount, r.bps, r.stake)
    BY <2>1, <2>2, StandsForNothing
  <2>4. CaseInv /\ totalCases' \in Nat
    BY <1>1, CaseFacts
  <2>5. UNCHANGED <<evidence, totalIncidents, verdicts>>
    BY <1>1 DEF evidenceVars
  <2>6. cases' = [cases EXCEPT ![c] = r] /\ r.operator \in Addresses
    BY <1>1, <2>2
  <2> QED BY <2>2, <2>3, <2>4, <2>5, <2>6, CaseReplaced
<1> QED BY <1>2, <1>3, <1>4, BesideSlashingInv, PartsNext

\* A case file given new basis points, the amount they stand for, a new
\* confidence and a new stage.
LEMMA CaseRevised ==
  ASSUME IInv, NEW c \in CaseIds, CaseExists(c),
         NEW stage \in Stage, NEW bps \in 0..FullBps, NEW amount, NEW cf \in Score,
         StandsFor(amount, bps, cases[c].stake),
         cases' = [cases EXCEPT ![c].stage = stage, ![c].bps = bps,
                                ![c].amount = amount, ![c].cf = cf],
         UNCHANGED <<evidenceVars, verdicts, totalCases>>
  PROVE  CaseInv'
<1> DEFINE r == [cases[c] EXCEPT !.stage = stage, !.bps = bps, !.amount = amount, !.cf = cf]
<1>1. cases' = [cases EXCEPT ![c] = r]
  OBVIOUS
<1>2. amount \in Int
  BY CaseFacts, BpsNatural, StandsForType
<1>3. cases[c] \in CaseRecord /\ cases[c].operator \in Addresses
  BY CaseFacts
<1>4. r \in CaseRecord
  BY <1>2, <1>3 DEF CaseRecord
<1>5. /\ r.operator = cases[c].operator /\ r.amount = amount
      /\ r.bps = bps /\ r.stake = cases[c].stake
  BY <1>3 DEF CaseRecord
<1> HIDE DEF r
<1>6. r.operator \in Addresses /\ StandsFor(r.amount, r.bps, r.stake)
  BY <1>3, <1>5
<1>7. CaseInv /\ totalCases' \in Nat
  BY CaseFacts
<1>8. UNCHANGED <<evidence, totalIncidents, verdicts>>
  BY DEF evidenceVars
<1> QED BY <1>1, <1>4, <1>6, <1>7, <1>8, CaseReplaced

LEMMA RecommendInv ==
  ASSUME IInv, NEW c \in CaseIds, NEW reputation \in Reputations, NEW confidence \in RawScores,
         GenerateSlashRecommendation(c, reputation, confidence), UNCHANGED besideSlashing
  PROVE  IInv'
<1> DEFINE bps == SlashBps(cases[c].fp, cases[c].cf, reputation, maxSlashBps)
           cf  == Clamp(confidence, 0, 100)
<1>1. bps \in 0..FullBps
  BY SlashingAssumption, CaseFacts, SlashBpsType
<1>2. cf \in Score
  BY SlashingAssumption DEF Clamp, Score
<1>3. "recommended" \in Stage
  BY DEF Stage
<1>4. CaseInv'
  <2>1. cases' = [cases EXCEPT ![c].bps = bps,
                               ![c].amount = RecommendedAmount(bps, cases[c].stake),
                               ![c].cf = cf, ![c].stage = "recommended"]
    BY DEF GenerateSlashRecommendation
  <2> HIDE DEF bps, cf
  <2>2. cases' = [cases EXCEPT ![c].stage = "recommended", ![c].bps = bps,
                               ![c].amount = RecommendedAmount(bps, cases[c].stake),
                               ![c].cf = cf]
    BY <2>1
  <2>3. CaseExists(c) /\ UNCHANGED <<evidenceVars, verdicts, totalCases>>
    BY DEF GenerateSlashRecommendation
  <2>4. StandsFor(RecommendedAmount(bps, cases[c].stake), bps, cases[c].stake)
    BY DEF GenerateSlashRecommendation, StandsFor, bps
  <2> QED BY <1>1, <1>2, <1>3, <2>2, <2>3, <2>4, CaseRevised
<1> QED BY <1>4, OnlyCaseInv DEF GenerateSlashRecommendation

\* A case file given a new stage.
LEMMA CaseMoved ==
  ASSUME IInv, NEW c \in CaseIds, CaseExists(c), NEW stage \in Stage,
         cases' = [cases EXCEPT ![c].stage = stage],
         UNCHANGED <<evidenceVars, verdicts, totalCases>>
  PROVE  CaseInv'
<1> DEFINE r == [cases[c] EXCEPT !.stage = stage]
<1>1. cases' = [cases EXCEPT ![c] = r]
  OBVIOUS
<1>2. cases[c] \in CaseRecord /\ cases[c].operator \in Addresses
  BY CaseFacts
<1>3. /\ r \in CaseRecord
      /\ r.operator = cases[c].operator /\ r.amount = cases[c].amount
      /\ r.bps = cases[c].bps /\ r.stake = cases[c].stake
  BY <1>2 DEF CaseRecord
<1> HIDE DEF r
<1>4. r.operator \in Addresses /\ StandsFor(r.amount, r.bps, r.stake)
  BY <1>2, <1>3, CaseFacts
<1>5. CaseInv /\ totalCases' \in Nat
  BY CaseFacts
<1>6. UNCHANGED <<evidence, totalIncidents, verdicts>>
  BY DEF evidenceVars
<1> QED BY <1>1, <1>3, <1>4, <1>5, <1>6, CaseReplaced

\* A settable status given to an operator.
LEMMA StatusSet ==
  ASSUME IInv, NEW a \in Addresses, IsRegistered(a), NEW status \in SettableStatus,
         operators' = [operators EXCEPT ![a].status = status],
         UNCHANGED <<baseVars, totalOperators, operatorIncidents, operatorCases,
                     operatorClaims>>
  PROVE  BaseTypeOK' /\ RegistryInv' /\ MoneyInv'
<1> DEFINE r == [operators[a] EXCEPT !.status = status]
<1>1. operators[a] \in OperatorRecord
  BY Parts DEF RegistryInv, RegistryTypeOK
<1>2. /\ r \in OperatorRecord
      /\ r.staked = operators[a].staked /\ r.slashed = operators[a].slashed
      /\ r.status = status
  BY <1>1 DEF OperatorRecord
<1>3. status # "unregistered"
  BY DEF SettableStatus
<1>4. operators' = [operators EXCEPT ![a] = r]
  OBVIOUS
<1> HIDE DEF r
<1> QED BY <1>2, <1>3, <1>4, RecordInv

LEMMA ApproveInv ==
  ASSUME IInv, NEW c \in CaseIds, NEW sender,
         ApproveSlashing(sender, c), UNCHANGED besideSlashing
  PROVE  IInv'
<1>1. CaseExists(c) /\ "approved" \in Stage /\ "jailed" \in SettableStatus
  BY DEF ApproveSlashing, CaseExists, Stage, SettableStatus
<1>2. CaseInv'
  BY <1>1, CaseMoved DEF ApproveSlashing
<1>3. cases[c].operator \in Addresses
  BY <1>1, CaseFacts
<1>4. BaseTypeOK' /\ RegistryInv' /\ MoneyInv'
  BY <1>1, <1>3, StatusSet DEF ApproveSlashing
<1> QED BY <1>2, <1>4, BesideSlashingInv, PartsNext

LEMMA RejectInv ==
  ASSUME IInv, NEW c \in CaseIds, NEW sender,
         RejectSlashing(sender, c), UNCHANGED besideSlashing
  PROVE  IInv'
<1>1. CaseExists(c) /\ "rejected" \in Stage
  BY DEF RejectSlashing, CaseExists, Stage
<1>2. CaseInv'
  BY <1>1, CaseMoved DEF RejectSlashing
<1> QED BY <1>2, OnlyCaseInv DEF RejectSlashing

LEMMA AppealInv ==
  ASSUME IInv, NEW c \in CaseIds, AppealSlashing(c), UNCHANGED besideSlashing
  PROVE  IInv'
<1>1. CaseExists(c) /\ "appealed" \in Stage
  BY DEF AppealSlashing, CaseExists, Stage
<1>2. CaseInv'
  BY <1>1, CaseMoved DEF AppealSlashing
<1> QED BY <1>2, OnlyCaseInv DEF AppealSlashing

\* The slash is booked three times: the stake of one operator, the counter
\* and the balance go down by the amount, and none of them below zero.
LEMMA ExecuteInv ==
  ASSUME IInv, NEW c \in CaseIds, NEW sender, NEW amount \in Amounts,
         ExecuteSlashing(sender, c, amount), UNCHANGED besideSlashing
  PROVE  IInv'
<1> DEFINE a == cases[c].operator
           r == Slashed(operators[a], amount)
<1>1. CaseExists(c)
  BY DEF ExecuteSlashing, CaseExists
<1>2. a \in Addresses
  BY <1>1, CaseFacts
<1>3. amount \in Nat /\ operators[a] \in OperatorRecord
  BY <1>2, BaseAssumption, Parts DEF RegistryInv, RegistryTypeOK
<1>4. amount <= operators[a].staked
  BY DEF ExecuteSlashing, StakeCovers
<1>5. /\ r \in OperatorRecord
      /\ r.staked = operators[a].staked - amount
      /\ r.slashed = operators[a].slashed + amount
  BY <1>3, <1>4, SlashedRecord
<1>6. r.status # "unregistered"
  BY <1>3 DEF Slashed, OperatorRecord
<1>7. /\ operators' = [operators EXCEPT ![a] = r]
      /\ totalStaked' = totalStaked - amount
      /\ totalSlashed' = totalSlashed + amount
      /\ balance' = balance - amount
      /\ UNCHANGED <<authVars, claimPool, totalPayouts>>
      /\ UNCHANGED <<totalOperators, operatorIncidents, operatorCases, operatorClaims>>
      /\ UNCHANGED <<evidenceVars, verdicts, totalCases>>
  BY DEF ExecuteSlashing, Send
<1>8. CaseInv'
  <2> DEFINE d == [cases[c] EXCEPT !.executed = amount, !.stage = "executed"]
  <2>1. cases' = [cases EXCEPT ![c] = d]
    BY DEF ExecuteSlashing
  <2>2. cases[c] \in CaseRecord /\ "executed" \in Stage
    BY CaseFacts DEF Stage
  <2>3. /\ d \in CaseRecord
        /\ d.operator = a /\ d.amount = cases[c].amount
        /\ d.bps = cases[c].bps /\ d.stake = cases[c].stake
    BY <1>3, <2>2 DEF CaseRecord
  <2> HIDE DEF d
  <2>4. d.operator \in Addresses /\ StandsFor(d.amount, d.bps, d.stake)
    BY <1>2, <2>3, CaseFacts
  <2>5. CaseInv /\ totalCases' \in Nat
    BY <1>7, CaseFacts
  <2>6. UNCHANGED <<evidence, totalIncidents, verdicts>>
    BY <1>7 DEF evidenceVars
  <2> QED BY <2>1, <2>3, <2>4, <2>5, <2>6, CaseReplaced
<1> HIDE DEF r, a
<1>9. RegistryInv'
  BY <1>2, <1>5, <1>6, <1>7, Parts, RecordReplaced
<1>10. BaseTypeOK' /\ MoneyInv'
  <2>1. /\ TotalOf(StakeOf)' = TotalOf(StakeOf) - operators[a].staked + r.staked
        /\ TotalOf(SlashedOf)' = TotalOf(SlashedOf) - operators[a].slashed + r.slashed
    BY <1>2, <1>5, <1>7, Parts, RegistrySums DEF RegistryInv, RegistryTypeOK
  <2>2. /\ TotalOf(StakeOf) \in Nat /\ TotalOf(SlashedOf) \in Nat
        /\ operators[a].staked \in Nat /\ operators[a].slashed \in Nat
        /\ operators[a].staked <= TotalOf(StakeOf)
    BY <1>2, <1>3, Parts, SumsAreNatural DEF RegistryInv, RegistryTypeOK, OperatorRecord
  <2>3. /\ balance \in Nat /\ totalStaked \in Nat /\ claimPool \in Nat
        /\ totalSlashed \in Nat /\ totalPayouts \in Nat
    BY Parts DEF BaseTypeOK
  <2>4. /\ balance = totalStaked + claimPool
        /\ totalStaked = TotalOf(StakeOf) /\ totalSlashed = TotalOf(SlashedOf)
    BY Parts DEF MoneyInv, Solvent, LedgerMatchesRegistry
  <2>5. balance' \in Nat /\ totalStaked' \in Nat /\ totalSlashed' \in Nat
    BY <1>3, <1>4, <1>7, <2>2, <2>3, <2>4
  <2>6. BaseTypeOK'
    BY <1>7, <2>5, Parts DEF BaseTypeOK, authVars
  <2>7. Solvent'
    BY <1>3, <1>7, <2>3, <2>4 DEF Solvent
  <2>8. LedgerMatchesRegistry'
    BY <1>3, <1>5, <1>7, <2>1, <2>2, <2>4 DEF LedgerMatchesRegistry
  <2> QED BY <2>6, <2>7, <2>8 DEF MoneyInv
<1> QED BY <1>8, <1>9, <1>10, BesideSlashingInv, PartsNext

LEMMA ReviewInv ==
  ASSUME IInv, NEW c \in CaseIds, NEW confidence \in RawScores,
         AIReviewAppeal(c, confidence), UNCHANGED besideSlashing
  PROVE  IInv'
<1> DEFINE cf == Clamp(confidence, 0, 100)
<1>1. cf \in Score
  BY SlashingAssumption DEF Clamp, Score
<1>2. /\ CaseExists(c)
      /\ {"approved", "rejected"} \subseteq Stage
      /\ "active" \in SettableStatus
  BY DEF AIReviewAppeal, CaseExists, Stage, SettableStatus
<1>3. cases[c].operator \in Addresses
  BY <1>2, CaseFacts
<1>4. /\ UNCHANGED <<baseVars, totalOperators, operatorIncidents, operatorCases,
                     operatorClaims>>
      /\ UNCHANGED <<evidenceVars, verdicts, totalCases>>
  BY DEF AIReviewAppeal
<1>5. CASE Overturn(c, confidence)
  <2>1. cases' = [cases EXCEPT ![c].stage = "rejected", ![c].bps = 0,
                               ![c].amount = 0, ![c].cf = cf]
    BY <1>5 DEF Overturn
  <2> HIDE DEF cf
  <2>2. 0 \in 0..FullBps /\ StandsFor(0, 0, cases[c].stake)
    <3>1. 0 \in 0..FullBps
      BY DEF FullBps
    <3> QED BY <3>1, CaseFacts, StandsForNothing
  <2>3. CaseInv'
    BY <1>1, <1>2, <1>4, <2>1, <2>2, CaseRevised
  <2>4. BaseTypeOK' /\ RegistryInv' /\ MoneyInv'
    BY <1>2, <1>3, <1>4, <1>5, StatusSet DEF Overturn
  <2> QED BY <2>3, <2>4, BesideSlashingInv, PartsNext
<1>6. ASSUME NEW revised \in RawBpsAnswers, Reduce(c, revised, confidence)
      PROVE  IInv'
  <2> DEFINE bps == Clamp(revised, 0, cases[c].bps)
  <2>1. bps \in 0..FullBps
    <3>1. revised \in Int
      BY SlashingAssumption
    <3>2. cases[c].bps \in 0..FullBps
      BY CaseFacts
    <3> QED BY <3>1, <3>2, ClampToBps
  <2>2. cases' = [cases EXCEPT ![c].stage = "approved", ![c].bps = bps,
                               ![c].amount = SlashAmount(bps, cases[c].stake),
                               ![c].cf = cf]
    BY <1>6 DEF Reduce
  <2>5. StandsFor(SlashAmount(bps, cases[c].stake), bps, cases[c].stake)
    BY <1>6 DEF Reduce, StandsFor
  <2> HIDE DEF cf, bps
  <2>3. CaseInv'
    BY <1>1, <1>2, <1>4, <2>1, <2>2, <2>5, CaseRevised
  <2>4. UNCHANGED <<baseVars, registryVars>>
    BY <1>4, <1>6 DEF Reduce, registryVars
  <2> QED BY <2>3, <2>4, OnlyCaseInv
<1>7. CASE Uphold(c, confidence)
  <2> DEFINE r == [cases[c] EXCEPT !.stage = "approved", !.cf = cf]
  <2>1. cases' = [cases EXCEPT ![c] = r]
    BY <1>7 DEF Uphold
  <2> HIDE DEF cf
  <2>2. cases[c] \in CaseRecord
    BY CaseFacts
  <2>3. /\ r \in CaseRecord
        /\ r.operator = cases[c].operator /\ r.amount = cases[c].amount
        /\ r.bps = cases[c].bps /\ r.stake = cases[c].stake
    BY <1>1, <1>2, <2>2 DEF CaseRecord
  <2> HIDE DEF r
  <2>4. r.operator \in Addresses /\ StandsFor(r.amount, r.bps, r.stake)
    BY <1>3, <2>3, CaseFacts
  <2>5. CaseInv /\ totalCases' \in Nat
    BY <1>4, CaseFacts
  <2>6. UNCHANGED <<evidence, totalIncidents, verdicts>>
    BY <1>4 DEF evidenceVars
  <2>7. CaseInv'
    BY <2>1, <2>3, <2>4, <2>5, <2>6, CaseReplaced
  <2>8. UNCHANGED <<baseVars, registryVars>>
    BY <1>4, <1>7 DEF Uphold, registryVars
  <2> QED BY <2>7, <2>8, OnlyCaseInv
<1> QED BY <1>5, <1>6, <1>7 DEF AIReviewAppeal

LEMMA CaseNextInv == IInv /\ CaseNext => IInv'
BY CreateInv, RecommendInv, ApproveInv, RejectInv, ExecuteInv, AppealInv, ReviewInv
   DEF CaseNext

-----------------------------------------------------------------------------
(* Claims.                                                                 *)

\* What the calls of the insurance part leave alone, they leave alone.
LEMMA BesideClaimsInv ==
  ASSUME IInv, UNCHANGED besideClaims
  PROVE  CaseInv' /\ GovernanceTypeOK'
BY Parts, SlashingStable, GovernanceStable DEF besideClaims

\* Coins move between the outside and the claim pool.
LEMMA PoolMoved ==
  ASSUME IInv, balance' - claimPool' = balance - claimPool,
         balance' \in Nat, claimPool' \in Nat, totalPayouts' \in Nat,
         UNCHANGED <<authVars, totalStaked, totalSlashed>>, UNCHANGED registryVars
  PROVE  BaseTypeOK' /\ RegistryInv' /\ MoneyInv'
<1>1. BaseTypeOK'
  BY Parts DEF BaseTypeOK, authVars
<1>2. RegistryInv'
  BY Parts, RegistryStable
<1>3. /\ TotalOf(StakeOf)' = TotalOf(StakeOf)
      /\ TotalOf(SlashedOf)' = TotalOf(SlashedOf)
  BY SumsStable DEF registryVars
<1>4. balance \in Nat /\ totalStaked \in Nat /\ claimPool \in Nat
  BY Parts DEF BaseTypeOK
<1>5. MoneyInv'
  BY <1>3, <1>4, Parts DEF MoneyInv, Solvent, LedgerMatchesRegistry
<1> QED BY <1>1, <1>2, <1>5

LEMMA FundInv ==
  ASSUME IInv, NEW value \in Amounts, FundClaimPool(value), UNCHANGED besideClaims
  PROVE  IInv'
<1>1. value \in Nat
  BY BaseAssumption
<1>2. balance \in Nat /\ claimPool \in Nat /\ totalPayouts \in Nat
  BY Parts DEF BaseTypeOK
<1>3. /\ balance' = balance + value /\ claimPool' = claimPool + value
      /\ UNCHANGED <<authVars, totalStaked, totalSlashed, totalPayouts, registryVars>>
      /\ UNCHANGED claimVars
  BY DEF FundClaimPool, Receive
<1>4. BaseTypeOK' /\ RegistryInv' /\ MoneyInv'
  BY <1>1, <1>2, <1>3, PoolMoved
<1> QED BY <1>3, <1>4, Parts, ClaimsStable, BesideClaimsInv, PartsNext

LEMMA SubmitClaimInv ==
  ASSUME IInv, NEW k \in ClaimIds, NEW a \in Addresses,
         NEW coverage \in Amounts, NEW claimed \in Amounts,
         SubmitClaim(k, a, coverage, claimed), UNCHANGED besideClaims
  PROVE  IInv'
<1>1. /\ UNCHANGED <<baseVars, operators, totalOperators, operatorIncidents,
                     operatorCases, payouts>>
      /\ operatorClaims' = AppendIndex(operatorClaims, a, k)
  BY DEF SubmitClaim
<1>2. BaseTypeOK' /\ MoneyInv'
  BY <1>1, Parts, BaseStable, MoneyStable DEF baseVars, moneyVars
<1>3. RegistryInv'
  <2>1. RegistryTypeOK /\ UnregisteredEmpty
    BY Parts DEF RegistryInv
  <2>2. operatorClaims' \in [Addresses -> SUBSET ClaimIds]
    BY <1>1, <2>1, AppendType DEF RegistryTypeOK
  <2>3. RegistryTypeOK'
    BY <1>1, <2>1, <2>2 DEF RegistryTypeOK
  <2>4. UnregisteredEmpty'
    BY <1>1, <2>1 DEF UnregisteredEmpty, IsRegistered
  <2> QED BY <2>3, <2>4 DEF RegistryInv
<1>4. ClaimsTypeOK'
  <2>1. claimed \in Nat /\ ClaimsTypeOK
    BY BaseAssumption, Parts
  <2>2. [status |-> "submitted", claimant |-> a, claimed |-> claimed,
         approved |-> 0, available |-> 0] \in ClaimRecord
    BY <2>1 DEF ClaimRecord
  <2>3. claims' \in [ClaimIds -> ClaimRecord] /\ totalClaims' \in Nat
    BY <2>1, <2>2 DEF ClaimsTypeOK, SubmitClaim
  <2> QED BY <1>1, <2>1, <2>3 DEF ClaimsTypeOK
<1> QED BY <1>2, <1>3, <1>4, BesideClaimsInv, PartsNext

LEMMA AdjudicateInv ==
  ASSUME IInv, NEW k \in ClaimIds,
         NEW rawAssessed \in RawAmounts, NEW rawApproved \in RawAmounts,
         AdjudicateClaim(k, rawAssessed, rawApproved), UNCHANGED besideClaims
  PROVE  IInv'
<1> DEFINE assessed == Clamp(rawAssessed, 0, claims[k].claimed)
           approved == Clamp(rawApproved, 0, assessed)
<1>1. /\ UNCHANGED <<baseVars, registryVars, payouts, totalClaims>>
      /\ claims' = [claims EXCEPT ![k] = Decided(claims[k], assessed, approved)]
  BY DEF AdjudicateClaim
<1>2. ClaimsTypeOK /\ claims[k] \in ClaimRecord
  BY Parts DEF ClaimsTypeOK
<1>3. assessed \in Nat
  BY <1>2, ClaimsAssumption DEF ClaimRecord, Clamp
<1> HIDE DEF assessed
<1>4. approved \in Nat
  BY <1>3, ClaimsAssumption DEF Clamp
<1> HIDE DEF approved
<1>5. AdjudicatedStatus(assessed, approved) \in {"approved", "partial", "rejected"}
  BY <1>3, <1>4 DEF AdjudicatedStatus
<1>6. Decided(claims[k], assessed, approved) \in ClaimRecord
  BY <1>2, <1>4, <1>5 DEF Decided, ClaimRecord
<1>7. ClaimsTypeOK'
  BY <1>1, <1>2, <1>6 DEF ClaimsTypeOK
<1>8. BaseTypeOK' /\ RegistryInv' /\ MoneyInv'
  BY <1>1, Parts, BaseStable, RegistryStable, MoneyStable
     DEF baseVars, moneyVars, registryVars
<1> QED BY <1>7, <1>8, BesideClaimsInv, PartsNext

\* A payout is booked in the balance, the pool and the payout counter; the
\* guard on the pool keeps all three natural.
LEMMA PayoutInv ==
  ASSUME IInv, NEW sender, NEW k \in ClaimIds, NEW p \in PayoutIds, NEW amount \in Amounts,
         AuthorizePayout(sender, k, p, amount), UNCHANGED besideClaims
  PROVE  IInv'
<1>1. amount \in Nat
  BY BaseAssumption
<1>2. /\ balance \in Nat /\ claimPool \in Nat /\ totalPayouts \in Nat
      /\ totalStaked \in Nat /\ balance = totalStaked + claimPool
  BY Parts DEF BaseTypeOK, MoneyInv, Solvent
<1>3. /\ balance' = balance - amount /\ claimPool' = claimPool - amount
      /\ totalPayouts' = totalPayouts + amount
      /\ amount <= claimPool /\ amount <= claims[k].available
      /\ UNCHANGED <<authVars, totalStaked, totalSlashed, registryVars>>
  BY DEF AuthorizePayout, Send
<1>4. BaseTypeOK' /\ RegistryInv' /\ MoneyInv'
  <2>1. balance' \in Nat /\ claimPool' \in Nat /\ totalPayouts' \in Nat
    BY <1>1, <1>2, <1>3
  <2>2. balance' - claimPool' = balance - claimPool
    BY <1>1, <1>2, <1>3
  <2> QED BY <1>3, <2>1, <2>2, PoolMoved
<1>5. ClaimsTypeOK'
  <2> DEFINE r == [claims[k] EXCEPT !.available = @ - amount, !.status = "paid"]
  <2>1. ClaimsTypeOK /\ claims[k] \in ClaimRecord
    BY Parts DEF ClaimsTypeOK
  <2>2. claims[k].available - amount \in Nat
    BY <1>1, <1>3, <2>1 DEF ClaimRecord
  <2>3. r \in ClaimRecord
    BY <2>1, <2>2 DEF ClaimRecord
  <2>4. [claim |-> k, amount |-> amount] \in PayoutRecord
    BY <1>1 DEF PayoutRecord
  <2>5. /\ claims' = [claims EXCEPT ![k] = r]
        /\ payouts' = [payouts EXCEPT ![p] = [claim |-> k, amount |-> amount]]
        /\ UNCHANGED totalClaims
    BY DEF AuthorizePayout
  <2> HIDE DEF r
  <2> QED BY <2>1, <2>3, <2>4, <2>5 DEF ClaimsTypeOK
<1> QED BY <1>4, <1>5, BesideClaimsInv, PartsNext

LEMMA CompleteInv ==
  ASSUME IInv, NEW sender, NEW p \in PayoutIds,
         CompletePayout(sender, p), UNCHANGED besideClaims
  PROVE  IInv'
BY Parts, BaseStable, RegistryStable, MoneyStable, ClaimsStable, BesideClaimsInv, PartsNext
   DEF CompletePayout, baseVars, moneyVars, registryVars

LEMMA ClaimNextInv == IInv /\ ClaimNext => IInv'
BY FundInv, SubmitClaimInv, AdjudicateInv, PayoutInv, CompleteInv DEF ClaimNext

-----------------------------------------------------------------------------
(* Proposals.                                                              *)

\* The calls of the governance part change nothing beside it.
LEMMA BesideGovernanceInv ==
  ASSUME IInv, UNCHANGED baseVars, UNCHANGED besideGovernance, GovernanceTypeOK'
  PROVE  IInv'
BY Parts, BaseStable, RegistryStable, SlashingStable, ClaimsStable, MoneyStable, PartsNext
   DEF besideGovernance, baseVars, moneyVars, registryVars

LEMMA CreateProposalInv ==
  ASSUME IInv, NEW sender \in Accounts, NEW topic \in Topics,
         CreateProposal(sender, topic), UNCHANGED besideGovernance
  PROVE  IInv'
<1> DEFINE p == <<sender, topic>>
           r == [NoProposal EXCEPT !.status = "active"]
<1>1. GovernanceTypeOK
  BY Parts
<1>2. r \in ProposalRecord
  BY DEF NoProposal, ProposalRecord
<1>3. p \in ProposalIds
  BY DEF ProposalIds
<1>4. /\ proposals' = [proposals EXCEPT ![p] = r]
      /\ proposalVoters' = [proposalVoters EXCEPT ![p] = {}]
      /\ UNCHANGED baseVars
  BY DEF CreateProposal
<1> HIDE DEF p, r
<1>5. GovernanceTypeOK'
  BY <1>1, <1>2, <1>3, <1>4 DEF GovernanceTypeOK
<1> QED BY <1>4, <1>5, BesideGovernanceInv

LEMMA VoteInv ==
  ASSUME IInv, NEW p \in ProposalIds, NEW sender \in Accounts, NEW voteFor \in BOOLEAN,
         Vote(sender, p, voteFor), UNCHANGED besideGovernance
  PROVE  IInv'
<1>1. GovernanceTypeOK /\ proposals[p] \in ProposalRecord
  BY Parts DEF GovernanceTypeOK
<1>2. /\ [proposals[p] EXCEPT !.votesFor = @ + 1] \in ProposalRecord
      /\ [proposals[p] EXCEPT !.votesAgainst = @ + 1] \in ProposalRecord
  BY <1>1 DEF ProposalRecord
<1>3. \/ proposals' = [proposals EXCEPT ![p].votesFor = @ + 1]
      \/ proposals' = [proposals EXCEPT ![p].votesAgainst = @ + 1]
  BY Zenon DEF Vote
<1>4. proposals' \in [ProposalIds -> ProposalRecord]
  BY <1>1, <1>2, <1>3 DEF GovernanceTypeOK
<1>5. proposalVoters' \in [ProposalIds -> SUBSET Accounts]
  BY <1>1 DEF GovernanceTypeOK, Vote
<1>6. UNCHANGED baseVars
  BY DEF Vote
<1> QED BY <1>4, <1>5, <1>6, BesideGovernanceInv DEF GovernanceTypeOK

LEMMA FinalizeInv ==
  ASSUME IInv, NEW p \in ProposalIds, FinalizeProposal(p), UNCHANGED besideGovernance
  PROVE  IInv'
<1>1. GovernanceTypeOK /\ proposals[p] \in ProposalRecord
  BY Parts DEF GovernanceTypeOK
<1> DEFINE outcome == Outcome(proposals[p].votesFor, proposals[p].votesAgainst)
<1>2. outcome \in {"passed", "failed"}
  BY DEF Outcome
<1>3. /\ proposals' = [proposals EXCEPT ![p].status = outcome]
      /\ UNCHANGED proposalVoters
      /\ UNCHANGED baseVars
  BY DEF FinalizeProposal
<1> HIDE DEF outcome
<1>4. [proposals[p] EXCEPT !.status = outcome] \in ProposalRecord
  BY <1>1, <1>2 DEF ProposalRecord
<1>5. GovernanceTypeOK'
  BY <1>1, <1>3, <1>4 DEF GovernanceTypeOK
<1> QED BY <1>3, <1>5, BesideGovernanceInv

LEMMA GovernanceNextInv == IInv /\ GovernanceNext => IInv'
BY CreateProposalInv, VoteInv, FinalizeInv DEF GovernanceNext

-----------------------------------------------------------------------------
(* The theorems.                                                           *)

\* A step that changes no variable keeps the invariant.
LEMMA StutterInv == IInv /\ UNCHANGED vars => IInv'
BY Parts, BaseStable, RegistryStable, SlashingStable, ClaimsStable, GovernanceStable,
   MoneyStable, PartsNext
   DEF vars, baseVars, moneyVars, registryVars

\* The invariant is inductive: no call of the contract breaks it.
THEOREM Inductive == Spec => []IInv
<1>1. IInv /\ Next => IInv'
  BY AdminInv, RegistryNextInv, EvidenceNextInv, CaseNextInv, ClaimNextInv,
     GovernanceNextInv DEF Next
<1>2. IInv /\ [Next]_vars => IInv'
  BY <1>1, StutterInv
<1> QED BY <1>2, InitInv, PTL DEF Spec

\* Every variable of the contract keeps its type, for stakes at risk of either
\* sign; in particular no unsigned counter of the code goes below zero.
THEOREM TypeCorrect == Spec => []TypeOK
<1>1. IInv => TypeOK
  BY DEF IInv
<1> QED BY <1>1, Inductive, PTL

\* The contract always holds exactly the stakes and the claim pool.
THEOREM Solvency == Spec => []Solvent
<1>1. IInv => Solvent
  BY DEF IInv
<1> QED BY <1>1, Inductive, PTL

\* The global counters are the sums over the registry.
THEOREM Ledger == Spec => []LedgerMatchesRegistry
<1>1. IInv => LedgerMatchesRegistry
  BY DEF IInv
<1> QED BY <1>1, Inductive, PTL

\* In every stage the amount of a case is one its basis points stand for, in the
\* arithmetic of floats and for stakes of either sign.
THEOREM Amounting == Spec => []AmountFollowsBps
<1>1. IInv => AmountFollowsBps
  BY DEF IInv
<1> QED BY <1>1, Inductive, PTL
=============================================================================
