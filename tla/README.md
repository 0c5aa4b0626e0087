# SlashSure, specified

SlashSure is a slashing and insurance protocol for node operators. An *intelligent
contract* on GenLayer (`intelligent-contracts/slash_sure.py`, Python executed by
validators, with language-model answers as part of a call) keeps the registry, the
stakes, the cases and the insurance pool. A FastAPI *backend* (`backend/app/`) keeps a
database beside it, signs and submits transactions for its users, polls for their
outcome, watches other networks for slashing events and feeds browsers over WebSockets. A
Next.js *frontend* shows it. Paths below are relative to the repository.

This directory holds TLA+ modules of the contract and of the backend's transaction client,
background tasks, operator routes, monitoring worker, event feed, accounts and connection
pool, TLC configurations that check them, and TLAPS proofs that every safety property the
runs check of the code holds for all sizes.

## 1. Inventory

### The contract

Calls are executed one at a time; a failed assertion aborts the call and leaves the state
alone. So the hard part is not interleaving *inside* a call but the order of calls: nearly
every operation can be called by anyone at any moment, the language model may answer
anything, and several operations ask for no particular stage. Storage is a set of maps from
string keys to JSON records; a missing key makes a call abort.

| part | state | operations | correct when |
|---|---|---|---|
| administration | owner, pause flag, four parameters, coins held, counters | pause, unpause, transfer_ownership, update_params | the coins held equal what is owed; a paused contract moves nothing |
| operator registry | operator records, three address indexes | register_operator, update_operator_stake, update_operator_status, whitelist_operator, compute_reputation | counters are the sums over the records; indexes are complete |
| evidence and verdicts | packages, verdicts | submit_evidence, fetch_and_submit_evidence, analyze_fault | scores in range; derived action follows the rules |
| slashing cases | case records | create_slashing_case, generate_slash_recommendation, approve_slashing, reject_slashing, execute_slashing, appeal_slashing, ai_review_appeal | coins leave only against a standing approval, once; an appeal never raises a slash; the amount follows the basis points |
| insurance | pool, claims, payouts | fund_claim_pool, submit_claim, adjudicate_claim, authorize_payout, complete_payout | a decision pays at most once, within the pool, against a receipt |
| governance | proposals, voters | create_proposal, vote, finalize_proposal | one vote each; a closed proposal is final |
| risk prediction | one prediction per operator, one number of it repeated in the operator's record | predict_risk | prediction and record agree; what is stored is what validators compared |
| pure helpers | none | verify_merkle_root, _fetch_text | (not modelled) |

The parts interact through shared state: cases read verdicts and change operators
(jailed, slashed, active again); slashes and payouts move the same coin balance; registration
resets indexes that evidence, cases and claims append to; every part obeys the same pause
flag and owner.

### The backend

| part | state | hard behaviour | correct when |
|---|---|---|---|
| GenLayer client (`services/genlayer/client.py`) | transactions in flight | polls up to ten minutes, resubmits a transaction that is not final, wrapped by callers in retries of their own; FINALIZED taken for success; `send_and_wait` accepts no `value` although three callers pass one | one intended call has one effect |
| slashing routes (`api/v1/routes/slashing.py`) | database case status | a background task creates, recommends and then writes its status, while an approval route commits its own and starts another task | the status on file is one the chain has or will have |
| insurance routes (`routes/insurance.py`) | database claims and payouts | the same pattern; a payout row is stored whatever the transaction did; the claim is never marked paid | no claim is paid twice |
| incident routes (`routes/incidents.py`) | incidents, evidence, verdicts | evidence and analysis in sequence in the background | analysis only after final evidence |
| operator and risk routes (`routes/operators.py`, `routes/risk.py`) | database operators | database first, chain afterwards with a 30 s limit; stake replaced here and added there | database and chain converge |
| monitoring worker (`workers/monitoring_worker.py`) | incidents, alerts, events | polls networks, deduplicates, commits, then publishes | every slash seen is reported once |
| event feed (`api/v1/ws/events.py`) | connections, subscriber tasks | each connection subscribes and broadcasts to all connections of its user; sockets removed after an await | every client gets each event once |
| accounts and wallets (`routes/auth.py`, `core/security.py`) | users, wallet keys | wallet key encrypted under the password; reset changes only the hash | the wallet of an account stays usable |
| sessions (`db/base.py`, `main.py`) | connection pool of 20 + 10 | connections held across minutes of polling | requests are eventually served |
| models, schemas, audit middleware, e-mail, proxies | tables | none of its own | not modelled |

The frontend renders the REST interface and is not modelled. `PROJECT.json` lists each part
with its status, and every hazard at its line with the properties that cover it.

## 2. Modules

| module | models | uses |
|---|---|---|
| `SlashMath` | clamping, the action ladder, the basis-point schedule, reputation penalty | |
| `FloatDivision` | slash amounts: Python's floating-point quotient of two integers, cut off | SlashMath |
| `Tally` | sums of functions, as the number of units | |
| `ContractBase` | owner, pause, cap, coins and counters; administration; `Receive` and `Send` of coins | |
| `OperatorRegistry` | operators, their stakes, the address indexes | ContractBase, SlashMath, Tally |
| `Slashing` | evidence, verdicts, cases | OperatorRegistry, FloatDivision |
| `Claims` | pool, claims, payouts | OperatorRegistry |
| `Governance` | proposals and votes | ContractBase |
| `SlashSureContract` | the composition, its properties, its refinement mapping | all of the above |
| `TreasuryPromise` | abstract: stake, pool, warrants, vouchers | Tally |
| `MCContract` | small instances for TLC | SlashSureContract |
| `MCSlashSchedule` | a walk over all scores of a verdict, and the amounts of several stakes | FloatDivision |
| `RiskEngine`, `MCRiskEngine` | predict_risk and what it shares with compute_reputation | SlashMath |
| `GenLayerClient` | transactions on the chain, and callers submitting, polling, retrying | |
| `Pipelines` | the background tasks of cases, claims and incidents, reviews, payouts, crashes | GenLayerClient, TaskPromise |
| `TaskPromise` | abstract: an object passes milestones in order and keeps them | |
| `OperatorTasks` | registration, stake update and reputation of an operator, database beside chain | GenLayerClient |
| `MonitoringWorker` | the loop, its polls, their transactions and announcements | |
| `MonitoringPromise` | abstract: a trouble is filed once, announced at most once | |
| `EventFeed` | endpoints, subscribers, publishers and the registry of connections | |
| `Accounts`, `MCAccounts` | accounts and wallets, with handlers between reading and writing | |
| `DbPool` | connections taken, held and given back by each kind of handler | |
| `ArithmeticProofs` | lemmas about sums and about the floating-point quotient | Tally, FloatDivision, TLAPS |
| `ContractProofs` | the contract's inductive invariant and its consequences | SlashSureContract, ArithmeticProofs |
| `ContractPromises` | the contract's steps: its promise, the pause, appeals; its books: ballots, receipts, indexes and slashes agree with the files | ContractProofs |
| `ClientProofs` | lemmas about callers inside the client | GenLayerClient, TLAPS |
| `PipelineProofs` | the tasks' inductive invariant and its consequences | Pipelines, ClientProofs |
| `OperatorProofs` | the same for operators, their rows and requests | OperatorTasks, ClientProofs |
| `MonitoringProofs` | the worker's inductive invariant, and that it keeps its promise | MonitoringWorker, TLAPS |
| `ComponentProofs` | the components that stand alone: predictions, the schedule, the pool, accounts, the feed | RiskEngine, MCSlashSchedule, DbPool, Accounts, EventFeed, ArithmeticProofs |

The five components that stand alone are extended together by `ComponentProofs`; their
specifications carry the component in the name (`RiskSpec`, `WalkSpec`, `PoolSpec`,
`AccountSpec`, `FeedSpec`). Elsewhere the specification is called `Spec`.

**State.** A storage map is a function over all keys of the model; a key that is absent
holds a record that says so (`Unregistered`, `NoCase`, `NoClaim`, ...). Fields nothing reads
back (names, networks, hashes, block numbers that are always 0, the audit trail) are left
out. `staked_wei` and `total_stake` are written together with one value and kept once; an
index string is the set of its ids. `balance` is the coin balance of the contract account,
which the chain keeps and the source only moves.

**Actions.** One per write method, with the method's name, written for the calls that
succeed: guards from its assertions and raises, primes from its writes. Who signs the call is
the parameter `sender`. Answers of the language model are parameters drawn from a small set
of integers, in range and out of it, clamped as the code clamps them; non-numeric answers end
in the code's defaults, which are among them. A caller's argument that only the code's
assertions restrict comes from `Amounts`, zero included.

*Amounts.* `create_slashing_case` takes any integer as stake at risk (lines 671, 685), so
`Stakes` are integers of either sign. A slash amount is `int((bps * stake) / 10000)`: a
quotient in floating point, rounded to the nearest float and cut off. `FloatDivision` models
that: floats between two powers of two are evenly spaced, `Spacing` finds the two, `Nearest`
rounds half to even, and a quotient too large for a float makes the call abort (`Divisible`,
Python's OverflowError). With `Significands` = 2^53 and the powers up to 2^1024 this is Python's
division; comparing the two on 200,000 random quotients of all sizes found no difference. Left
out are quotients in the last half-spacing below 2^1024, where Python raises and the model does
not. A recommendation holds the amount at zero (line 736, `RecommendedAmount`); a reduction on
appeal does not (line 938, `SlashAmount`), so that a negative stake ends with a negative amount
on file.

**The backend's modules.** A coroutine is a program counter and the locals it still
needs; a step runs from one await to the next, and everything may happen in between. `txs` is
the chain's list of transactions, `client` where each caller is inside `send_transaction`
(`Submit`, `SubmitRaises`, `PollSucceeds`, `PollGivesUp`). `task`, `row`, `request` are the
background task, the database row and the HTTP request; `chain` is the stage of the object in
the contract, abstracted from the modules above to what the tasks can tell apart: a call that
is final either has its effect or was refused by the contract (`Effects`). The three tasks are
the same two calls in the same loops (`FirstCall`, `SecondCall`), so they are one set of
actions. The routes commit their row before the task starts: dependencies are closed before
background tasks run in the FastAPI the project requires. The registration step before the
loops has no effect: it passes a `value` that `send_and_wait` does not take, and the error is
caught (slashing.py:149-160).

*Operators.* A request of `OperatorTasks` is a registration (insert, then a view and a call
that is abandoned after 30 seconds while its thread goes on: `Abandon`, `LateSubmit`), a stake
update (a call that carries no value, then the row) or a reputation task (a registration
without stake if the view shows none, rounds of compute_reputation, then the row). `chain`
holds what the contract would: an address registers once, and only with a stake. One score
stands for all of them; `Or` is Python's `or`, for which a score of 0 is no score.

*Worker.* `Round` starts the polls that are due and waits for all of them. A poll goes
through its entries (`left`); the rows of the open transaction are `flushed`, and a `Commit`
adds them to `stored`. `PollFails` is whatever raises, a commit that raises after it was
done included; `Crash` is a restart. The four polls are one set of actions: EigenLayer alone
saves an event, Babylon and Cosmos alone skip entries that are not jailed. A deployment's
networks answer with the same entries again and again: `feed` only grows, but for validators
that leave jail.

*Feed.* `list` is `_connections`. A subscriber (or the publisher's fallback) copies the list
and sends to one connection per step, since each send is an await; a failed send removes the
connection from the list, and raises when it is not there (`Raises`), which ends the round.
Redis is reached over sockets with a time limit of ten seconds (core/redis.py:19), and it holds
for the subscriber as well: a channel on which nothing is published for ten seconds ends the
subscriber, and nothing starts it again while its connection stays open. `SubscriberFails` is
therefore an ordinary step that may happen to any subscriber between two events, any number of
times, and not a fault with a bound.

*Accounts.* A request reads the account when it begins, answers at once or keeps the row it
read, and writes later. The ORM writes back only the columns the handler has assigned:
`WriteBack` compares with what was read. A reset always writes the password, since its hash
is salted anew (`"password"` is among the columns it names `fresh`). A wallet's key is kept
under the password of the day it was made (`keyPassword`) and, when `master` holds, under
the server's key.

*Pool.* A plan is the sequence of takes, commits, closes and waits for the chain a handler
goes through, read off the handler's statements; a plan may raise at every step. A stake update
takes a connection a second time, to read the row again after its commit (operators.py:344),
and gives it back when the session ends.

*Risk prediction.* A field of the model's answer is a set, empty when it is missing or
unreadable. `Leader` is the first reading, `SecondReading` what the contract makes of the
leader's result. Two of the five scores are modelled; the others are bounded alike.

**Slips.** Definitions commented "A slip: ..." are the plausible mistakes the properties were
tried against (`"mutants"` in `PROJECT.json`); the specifications do not use them.

**Bounds.** `MaxDeposits` (all wei ever attached to calls) and `MaxSubmissions` (evidence
packages) bound two counters that callers can raise for ever; they appear in the guards of
`Receive` and `StoreEvidence` and nowhere else. The model's amounts are small wei numbers,
and `Significands` and `Powers` are small with them, so that in TLC's instances too
quotients are rounded and some are too large. In the backend `MaxAttempts` and `MaxRounds`
are the code's own limits (three each there), `MaxTxs` bounds the transactions ever received
(a call at the bound can only raise) and `MaxRows` the rows created. `MaxReports` (entries
of all sources), `MaxFaults` (failures and crashes of the worker) and `MaxTokens` (links
made) appear in one guard each.

## 3. Properties

*Money.*
`Solvent`: the coins held are the stakes plus the pool.
`LedgerMatchesRegistry`: the global stake and slash counters are the sums over the registry,
so the unsigned subtractions are safe.
`LedgerMatchesReceipts`: the payout counter is the sum of the receipts.
`SlashedCoversCases`: case files never claim more than the registry recorded, although a case
can be reopened and executed again.
`PaidMatchesReceipt`: a paid claim has a receipt for exactly what is gone of its balance.

*Cases.*
`AmountFollowsBps`: in every stage the amount on file is one the code computes from the basis
points and the stake on file, with the zero of a recommendation or without it.
`AppealNeverRaises`: from approval on, only a fresh recommendation can raise the basis points, or
the amount above what it was. A reduction that follows another on a negative stake brings a
negative amount up again, to zero at most; the property allows that and no more.

*Indexes.*
`IndexAndCounters`: a case index lists exactly the cases against its operator. Evidence and claims
ask for no registration, and registration empties the three indexes of its address (lines
378-380): an index then lists only part of the evidence and of the claims, but nothing that
is not there, and that of an address not registered lists everything. The four global counters
count what is on file, `total_incidents` counting a package that replaces another once more.
`IndexesFollow`: only registration takes an entry out, and what is filed is in the index of its
address when the call returns.

*Whole contract.*
`PausedFreezes`: while paused no money moves and no case, claim, verdict, proposal or
operator status changes. (`whitelist_operator`, `complete_payout` and the administration are
not gated by the pause, and do none of these.)
`TallyMatchesVoters`, `ClosedIsFinal`: governance.
`KeepsPromise`: every step of the contract is a step of `TreasuryPromise`. There an approved
case is a *warrant*, suspended by an appeal, used up by one slash; the undisbursed part of an
approved claim is a *voucher*, used up by one payment. The abstract specification knows
nothing of verdicts, roles, pauses or indexes.

*Backend tasks.*
`StepOrder`: the second call is never sent before the first is final.
`RowNamesFinalResult`: the transaction a task notes is a second call that is final.
`DecidedRowHasDecision`: a claim whose row shows a decision has one in the contract, although
its submission may have been sent many times.
`PayoutFollowsDecision`: a payout is sent only for a claim the contract has decided.
`KeepsPromise`: every step is a step of `TaskPromise`. There an object only has *milestones*: its
row, the two calls sent and final, created, decided, noted, shown, a payout sent. Each rests on
others that were passed before or are passed with it, and none is ever lost: a decision that is
made stays, what a row shows stays, and a payout is sent after the row has shown a decision that
was made before that. Cases have the milestones up to their second final call: what is decided
about them and noted in their rows is for reviews to change as well. This one is proved and in no
run (section 6).
`TasksEnd`: every task ends, whatever the chain does.

*Operators.*
`StakeOfTheRow`: an operator on the chain has a row, and the stake the request behind that row
asked for, with second, abandoned, late and repeated requests.
`ScoreIsFinal`: a score is copied only by a task whose own computation is final.
`RequestsEnd`: requests are answered and tasks end.

*Worker.*
`FiledTogether`: incident, alert and event are on file together or not at all.
`KeepsPromise`: every step is a step of `MonitoringPromise`: nothing is filed twice, nothing is
announced that is not on file, nothing goes out twice.
`NetworkReported`: a slash leads to an incident on its network unless an entry ends every poll.
`PolledForever`: every network is polled again and again.

*Feed.*
`NothingLeaks`: a connection is listed once, under its user, while its endpoint runs, and no
subscriber outlives its endpoint.
`GoneIsForgotten`: a connection that is gone is noticed and taken off the list.
`SubscriberDelivers`, `FallbackDelivers`: events arrive as long as no connection of the user
(of anyone) is lost; the exceptions are part of the properties because the code has them.

*Accounts.*
`AccountsUsable`: an account is there with wallet and organization, and can be verified.
`NothingRevived`: no handler brings back what it read and another has replaced since:
verification and master copy stay, a link that was used or replaced never opens the account
again, and a password changes only when a reset commits, to that reset's. It does not say that
what is committed lasts: a reset that read the row earlier clears a reset token made since
(auth.py:275), and of two resets with one link both succeed and the later password stands.

*Pool.*
`Balanced`: connections are neither lost nor given back twice, and an answered request holds
none.
No liveness is claimed of the pool. Hold-and-wait is modelled, and that it resolves is
SQLAlchemy's time limit (`TimeOut`); how long a statement or a wait for the chain may last is set
nowhere in the code.

*Risk prediction.*
`PredictionsAgree`: record and prediction agree, and a slash is never likelier than a failure.
`StoredAsCompared`: the second reading changes nothing the validators have compared.

*Arithmetic.*
`ScheduleMonotone`, `LadderMonotone`: a worse verdict never earns less.
`AmountNearShare`: the amount, taken in floating point, is off the share of the stake by one part
in `Significands` at most besides what is cut off, never above the stake and zero for a negative
one, and the reputation discount is at most a quarter.

## 4. Runs

| run | instance | shows |
|---|---|---|
| `slashing` | 2 operators, 2 cases, deposits up to 2 wei, one verdict past the thresholds, cap 10000 or 1000, review answers below, inside and above the range, stakes at risk -30, 170 (rounded) and 300 (at times too large to divide) | the money and case properties and the refinement |
| `claims` | 2 claims, 3 payout ids, deposits up to 4, answers -1..9 | the insurance properties, the refinement and the pause |
| `governance` | 2 accounts, 1 topic, 2 addresses, evidence filed twice, a verdict, a case and a claim, registration at any moment | the governance and the index properties |
| `schedule` | all 101 x 101 scores, thresholds of confidence and reputation, two caps, stakes -50, 1, 7, 99 and 20000 with 16 significands | the arithmetic |
| `recommend` | 1 case | the disagreement of section 5 |
| `tasks` | a case, a claim or an incident, 2 attempts in each of 2 rounds, 1 review or payout, 4 transactions | the task properties, with liveness |
| `monitoring` | 2 networks of either kind, 1 operator, 2 entries, 2 faults | the worker's properties and its refinement, with liveness |
| `feed` | 2 connections, 2 users, 1 event, subscribers ending at any moment | the feed's properties, with liveness |
| `accounts` | 1 address, new or from before the master copies, 4 requests of any kind, 2 passwords, 3 tokens | the account properties |
| `operators` | 1 operator, 2 requests, stakes 0 to 2, 2 attempts, 2 rounds, 3 transactions | the operator properties, with liveness |
| `pool` | 3 requests of any of 6 plans, 2 connections | the accounting of connections |
| `risk` | 2 operators, answers below, inside and above the range, missing or unreadable | the prediction properties |

Why these bounds are enough. The properties relate at most two operators, two cases or two
claims to the shared counters: two of each let one be in every stage while the other moves,
and three payout ids let a claim be paid, decided anew and paid again while a third payout
competes for the pool. Two wei allow a stake to be topped up, or slashed in part and slashed
again, by one wei each, and four a pool to be smaller than the claims on it. In `governance`
one incident can have its evidence replaced, by a package about the other address too, and
each of the two addresses can register before or after evidence, case and claim name it.
Only one account signs in
`slashing` and `claims`: roles matter only as owner or not, and the former owner after
`transfer_ownership` plays the stranger; `governance` has two voters, so every tie and
majority occurs. Symmetry is used between addresses, cases, payouts and requests, which no
definition tells apart, and only with safety properties. `schedule` has 16 significands
instead of 2^53, so that the amount of a stake of 20000 is rounded as that of wei is in a
float; in `slashing`, with 4 of them and powers up to 32, the largest amounts cannot be
computed at all. The proofs hold for any even number of significands.

In `tasks` two attempts and two rounds are the least that have a first, a last and a
repetition of each, and four transactions let both calls be sent twice, or one of them and a
request; tasks of different objects share nothing but the chain's list, so one object at a
time is enough. `monitoring` has one network that saves events and one that skips entries,
and an entry that is met again in every poll; what several operators do to each other is
covered by the proofs of section 6, which hold for any number. `feed` has a connection that
is lost beside one that is not, of the same user or of another, and three senders (two
subscribers and the fallback). Four requests let an account be registered, asked about twice
and changed while the second link is under way. Two requests of `operators` race in every pair
of kinds. With a pool of two and three requests a request that holds one connection can wait
for a second that only a third request can free. The safety properties are proved for all
sizes (section 6), so these bounds carry the liveness properties alone.

Deadlock is not checked: a contract that is paused and whose owner is a string no account
signs with can do nothing more (`transfer_ownership` accepts any non-empty string), and the
walk of `schedule` ends at the worst verdict.

Backend runs stop when their tasks and requests have ended, so deadlock is not checked there
either; `monitoring` never stops, and is checked.

Fairness. No liveness is claimed of the contract: it acts only when called, and nothing
obliges anyone to call it. `Pipelines` assumes weak fairness of each task's steps and of
nothing else: the chain may never settle a transaction, a request may never come. A task
waits only for a sleep, for a poll with a limit of 15 seconds (a hundred of them at most),
for a database pool with a limit of its own, and for the SDK to return or raise, which is
assumed. `Crash` ends a task, which counts as its end. The other backend modules follow the
same rule: weak fairness of a coroutine's own steps, each of which waits for something with
a time limit (httpx at most 30 seconds, pool 30 seconds, sleeps; a send of the feed returns
or raises), none of clients, sources, failures, the chain or Redis. In `MonitoringWorker`
intervals end and the loop goes on (`IntervalEnds`, `Round`). No liveness is claimed of
accounts, the pool or predictions.

## 5. Disagreements between the code and what it says

Checked by a run:

* `recommend` / `RecommendationDeterministic`: slash_sure.py:721 calls the basis points a
  deterministic function of fault probability and severity. The code reads the *confidence*
  (line 722), never the severity, and then overwrites that confidence with the model's
  confidence in its rationale (line 768). Asked twice, the same case goes from a slash to
  none, or back.

Met while modelling, part of the models, and stated by no run:

* README.md:37 ends the claim life cycle with "paid"; `adjudicate_claim` asks for no status
  (line 1022) and decides a paid claim again (`AdjudicateClaim`). `claims` shows what holds
  then: each decision pays at most once.
* slash_sure.py:99 calls the map an index of an operator's incidents; `register_operator`
  empties it (lines 378-380), although evidence may name an address first (`IndexAndCounters` says
what is left).
* The prompt of analyze_fault (lines 591-597) and the ladder (628-639) differ: at fault
  probability 85 and low severity the prompt says slash_critical, the ladder slash_high.
* README.md:113 lets each transaction reach FINALIZED before the next is sent; a submission
  that raised after it was received, or whose polling ended without an answer, is sent again at
  once (client.py:158-173; `TryAgain`). `tasks` shows what holds: the *second* call waits for a
  final first one, and a late duplicate takes no decision back.
* operators.py:228 answers a second registration with a conflict, but looks the configured
  contract address up in lower case and stores it as it is: with mixed case, as in `operators`,
  the unique constraint answers instead, with a 500 (`Known`, `Insert`).
* operators.py:55 refuses a stake that is not positive, after the row is committed (`Insert`).
* The frontend reports a stake update as "submitted and finalized on-chain"
  (operators/page.tsx:255); the call carries no value and the chain's stake stays (`Value`,
  `Write`).
* risk.py:234 gives the chain precedence over the database, and a score of 0 on the chain gives
  way (`Or`).
* monitoring_worker.py:100 skips "identical" incidents; the query knows type and network only,
  so the next operator's slash is skipped too (`Filed`).
* events.py:96 forwards messages to the user's connections; a removal that raises ends the
  round, and connections behind it go without (`Raises`).
* auth.py:198 makes the master copy at login so that signing works; after a reset the password
  no longer opens the key, and no copy is made (`Backfilled`).

Modelled, and promised by no source: a task ends by writing `ai_analysis` over a review made
meanwhile (slashing.py:206), a review is on file before the chain knows of it, a row left
by a crash is never taken up again. README.md:108-109 names contract methods and a formula for
`slash_bps` that the contract does not have; `SlashMath` models the code.

## 6. Proofs

`ContractProofs` proves, for every value of the constants allowed by the named assumptions
(`BaseAssumption`, `RegistryAssumption`, `SlashingAssumption`, `ClaimsAssumption`,
`FloatAssumption`: finite sets of addresses, incidents, case, claim and payout ids, since a
history speaks of finitely many; natural deposits, integer answers, integer stakes at risk of
either sign; and of floats that their precision is even and that powers at least double):

* `TypeCorrect`: `Spec => []TypeOK`
* `Solvency`: `Spec => []Solvent`
* `Ledger`: `Spec => []LedgerMatchesRegistry`
* `Amounting`: `Spec => []AmountFollowsBps`

None of these is inductive alone. That `totalStaked` stays natural needs the sums: a slash
subtracts from the counter what only the operator's own stake is held against, and an
operator's stake is at most the sum. That the sums stay equal needs the types (every record
natural), and that registration adds exactly the new stake needs that an address not in the
registry has no stake (`UnregisteredEmpty`). That a reopened or executed case concerns a
registered operator needs `CaseOperators`. The inductive invariant `IInv` conjoins them:

    TypeOK, UnregisteredEmpty, CaseOperators, AmountFollowsBps, Solvent, LedgerMatchesRegistry

`Inductive` proves it with one lemma per action, grouped as `Next` is grouped. Actions that
change only one operator record without touching its stake, or only one case, share the
lemmas `RecordInv`, `CaseMoved` and `CaseRevised`; money steps rest on
`ArithmeticProofs!TotalUpdate`, which says what a sum does when one summand changes. A sum is
defined as the cardinality of a set of units, not as a fold, so this lemma follows from the
library's theorems on finite sets without induction.

`ContractPromises` proves what steps do and that the books agree:

* `Refinement`: `Spec => KeepsPromise`
* `Freezing`: `Spec => PausedFreezes`
* `Appeals`: `Spec => AppealNeverRaises`
* `Ballots`: `Spec => []TallyMatchesVoters`, `Closing`: `Spec => ClosedIsFinal`
* `Paid`: `Spec => []PaidMatchesReceipt`, `ReceiptsAddUp`: `Spec => []LedgerMatchesReceipts`
* `Indexes`: `Spec => []IndexAndCounters`, `IndexesGrow`: `Spec => IndexesFollow`
* `SlashesCovered`: `Spec => []SlashedCoversCases`

For the refinement every action is a step of `TreasuryPromise` or a stutter; two lemmas
(`WarrantMoved`, `VoucherMoved`) say how the mapped functions change when one case or claim
does, so each action needs only its own record. `Appeals` rests on the quotient in
floating point being monotone (`QuotientMonotone`), although the spacing of floats changes
between the two amounts compared; for a negative stake a smaller share is the larger amount,
which is why the property allows amounts up to zero there.
The books need invariants of their own beside `IInv`. A ballot's voters are finitely many
(`BallotInv`). Counting cases needs that every case on file is in the index of a registered
operator (`IndexInv`), because registration empties an index: a case could be lost from it if
one could be opened before its operator registers. And that slashes cover cases needs that a
case not on file has executed nothing (`SlashInv`), because creation writes a fresh record.
`StepKinds` sorts the steps by what they do to the case files (a registration, a new case, a
case filed anew, an execution, or none), and both invariants are carried over these few kinds
rather than over every action. The indexes of evidence and claims have an invariant of their own
(`FiledInv`), with the actions sorted by what they file (`FiledKinds`): registration, evidence
stored, a claim submitted, or none; that an address stays registered (`StaysRegistered`) keeps
what registration has lost from being asked for again.

`MonitoringProofs` proves, for any networks, operators and bounds (`WorkerAssumption`):

* `TypeCorrect`: `Spec => []TypeOK`
* `Together`: `Spec => []FiledTogether`
* `Refinement`: `Spec => KeepsPromise`

That a commit files a trouble for the first time does not follow from what is on file: it
holds because nothing was on file for the *network* when the poll looked, several steps
earlier, and only this poll files for it. `IInv` says so for each poll by the step it is at
(`Fits`), together with what the open transaction holds and that what is about to be announced
is on file and was not announced. One lemma per action; `PollMoves` serves the steps that store
nothing, `StoreInv` commits and failed commits alike. For the refinement a commit is `File`, a
publication `Announce` or a stutter, and every other step a stutter.

`ClientProofs` says what a caller inside the client knows, for any callers, attempts and
transactions (`ClientAssumption`: objects and requests have different names): the transaction
it holds is its own, about the object and with the call of its session (`SessionFits`), and
every step of a caller or of the chain keeps that, adds transactions only at the end and never
takes back one that is final (`Grows`). `StepOfSession` sums up a step of a session, so that the
two modules above it never look inside the client again.

`PipelineProofs` proves, for any cases, claims, incidents and requests
(`PipelineAssumption`: the three kinds of object are apart):

* `TypeCorrect`: `Spec => []TypeOK`
* `Order`: `Spec => []StepOrder`
* `FinalResults`: `Spec => []RowNamesFinalResult`
* `DecisionsStand`: `Spec => []DecidedRowHasDecision`
* `PayoutsFollow`: `Spec => []PayoutFollowsDecision`
* `Refinement`: `Spec => KeepsPromise`

None shows in rows and transactions alone: the order holds because the task has *seen* a final
first call, attempts and rounds before it sends the second. `IInv` says of each task what its
session is about and what it has seen, by the step it is at (`TaskFits`); of each request and
each transaction that a payout among them is for a claim decided in the contract (`RequestFits`,
`TxFits`); and of each row what it shows (`RowFits`). A decision stands because the late
duplicates among the calls about a claim can only decide it anew or pay it. What a row shows
stands because its only task writes once, at its end: before that the row shows nothing.

For the refinement a step concerns one object at most (`Same` says that nothing happened to the
others). What a call sent may rest on comes from the session of its caller (`SendPasses`), what a
final call may decide from the kind of call (`FinalizePasses`), and that the first call is final
when a late second one has its effect from the order of the transactions (`FirstAbout`). No run
checks this refinement: to find the milestones before and after each of the two million steps of
`tasks` takes longer than the rest of the run. With `MaxAttempts = 1` and `KeepsPromise` as its
only property that instance takes TLC a minute and a half, and it agrees.

`OperatorProofs` proves, for any addresses, requests and stakes (`OperatorAssumption`):

* `TypeCorrect`: `Spec => []TypeOK`
* `StakeStands`: `Spec => []StakeOfTheRow`
* `ScoresFinal`: `Spec => ScoreIsFinal`

A registration can be sent long after its request was answered, when others have come and gone.
It is still the row's own: only the request that inserted the row gets as far as sending one,
and a row never changes hands. `IInv` carries this from the insertion (`OwnRow`) through the
session (`RequestFits`) to transactions under way (`TxFits`) and the chain (`ChainFits`). The
registrations of the reputation task carry no stake, so the contract refuses them.

`ComponentProofs` proves, of each component's own specification:

* `PredictionsKept`: `RiskSpec => []PredictionsAgree`, `StoredUnchanged`: `RiskSpec => StoredAsCompared`
* `AmountsNearShares`: `WalkSpec => []AmountNearShare`, `ScheduleRises`: `WalkSpec =>
  ScheduleMonotone`, `LadderClimbs`: `WalkSpec => LadderMonotone`
* `PoolBalanced`: `PoolSpec => []Balanced`
* `AccountsStayUsable`: `AccountSpec => []AccountsUsable`, `NothingComesBack`: `AccountSpec =>
  NothingRevived`
* `NothingIsLeft`: `FeedSpec => []NothingLeaks`

*Risk prediction.* Any addresses and any integers as answers (`RiskAssumption`). The leader
leaves two scores in range of which one bounds the other; a second reading of such a pair
changes nothing (`ReadTwice`), so what is stored is what was compared, and the defaults of the
second reading are never used. Record and prediction are written in one call.

*The schedule.* Any caps up to 10000, any confidences and reputations, integer stakes
(`ScheduleAssumption`) and any floats (`FloatAssumption`). The discount loses at most a quarter by
rounding as it does (`SlashBpsLimited`), and the cap and the discount keep the order
(`SlashBpsRises`). The rest is arithmetic of the quotient: the nearest float is off by half a
spacing, and a spacing is at most two parts in `Significands` of the quotient (`AmountNear`); and
rounding keeps the order within a bracket and from one bracket to the next (`RoundedMonotone`).

*The pool.* Any number of handlers and connections (`PoolAssumption`). That a connection is not
given back twice needs to know what a handler holds at every statement: `Place(plan, held)`
lists the rests of plans a handler can be at with what it then holds, and `PoolInv` says that
each handler is at one of them and that free and held connections add up to the pool. A step
changes one summand (`PoolChange`, over `ArithmeticProofs!TotalUpdate`). `Place` depends on the six
plans: another handler that takes a second connection has to find its place there.

*Accounts.* Any addresses, requests, passwords and tokens (`AccountAssumption`). A handler that
writes late has read a row that was there, and rows are never deleted (`RequestFits`);
`WriteKeeps` then says what `WriteBack` leaves of the row as it is now, whatever the row was
when it was read. Nothing is revived because no handler assigns FALSE to a column that only
grows, a token column is assigned only a token never made before or none, and only a reset
assigns the password.

*The feed.* Any connections, users and events (`FeedAssumption`). `NothingLeaks` needs that a
listed connection is under its own user (`ListsFit`): an endpoint cleans up only there. That
a new connection is not listed twice needs that it has no endpoint yet (`NewHasNone`), and what
is sent must be an event (`EventAtHand`). Lists change by `Append` and `RemoveFirst`; that the
latter takes the only entry out of a list without repetitions is `Removed`, proved from its
definition.

With these every invariant and every action property the passing runs check is a theorem.
Model-checked only is liveness (`TasksEnd`, `RequestsEnd`, `NetworkReported`, `PolledForever`,
`GoneIsForgotten`, `SubscriberDelivers`, `FallbackDelivers`): it rests on
fairness, hence on `ENABLED`, which is out of the prover's reach. The type invariants
(`TypeOK`, and `RiskTypeOK`, `PoolTypeOK`, `AccountTypeOK`, `FeedTypeOK`) are proved as parts of
the inductive invariants, and only those of the contract and the tasks are in a run as well.

## 7. Not modelled

* `verify_merkle_root`, `compute_merkle_root` and the text extraction of fetched pages: pure
  functions over strings and hashes that take part in no protocol; nothing compares the leaves
  of two roots.
* Table definitions, schemas, migrations, the audit middleware, e-mail templates, the
  dashboards and proxies of views: data and wording, with no protocol of their own.
* Pool funding through the backend (insurance.py:328): the call raises before anything is sent.
* The rows of evidence added to an incident later: nothing reads them. The route itself is one
  of the plans of `DbPool`.
* Signed tokens (JWT): they carry no state of the server.
* Startup and shutdown, but for the stop and restart of the worker.
* The frontend.

## 8. Plan

The composition of worker and feed: `Publish` of the one is `Publish` of the other, and what the
worker announces reaches the connections of the operator's users. `SubscriberDelivers` states the
feed's half of it.
