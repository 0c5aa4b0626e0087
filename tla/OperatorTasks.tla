----------------------------- MODULE OperatorTasks -----------------------------
(***************************************************************************)
(* The backend's operators: a request registers an operator, in the        *)
(* database first and then on the chain, or changes its stake, and a       *)
(* background task has its reputation computed and copies the scores.      *)
(* Requests and tasks are callers of the client; each polls for itself.    *)
(* One score stands for all; it starts at 0 as slashing_risk_score does.   *)
(***************************************************************************)
EXTENDS GenLayerClient

CONSTANTS
  LowerCase,   \* whether the configured contract address is in lower case
  Stakes,      \* what users type in
  Scores,      \* what a computation may come to; 0 is a score
  MaxRounds    \* range(3) around compute_reputation

ASSUME OperatorAssumption ==
  /\ LowerCase \in BOOLEAN
  /\ Stakes \subseteq Nat
  /\ Scores \subseteq Nat
  /\ MaxRounds \in Nat \ {0}

VARIABLES
  row,      \* the operators table, per address
  chain,    \* the contract's operators
  request

vars == <<txs, client, row, chain, request>>

NoRow == [exists |-> FALSE]

Row == [exists : {TRUE}, by : Requests, stake : Nat, score : Nat]

Kinds == {"create", "stake", "reputation"}

Pc == {"insert", "key", "view", "calling", "polling", "read", "write", "ended"}

NoRequest == [pc |-> "new"]

\* "answer" is an HTTP status.
Request ==
  [pc : Pc, kind : Kinds, on : Objects, stake : Nat, round : 1..MaxRounds,
   seen : Nat, answer : {0, 200, 400, 409, 500}]

TypeOK ==
  /\ ClientTypeOK
  /\ row \in [Objects -> Row \cup {NoRow}]
  /\ chain \in [Objects -> [registered : BOOLEAN, stake : Nat, score : Nat]]
  /\ request \in [Requests -> Request \cup {NoRequest}]

Init ==
  /\ ClientInit
  /\ row = [a \in Objects |-> NoRow]
  /\ chain = [a \in Objects |-> [registered |-> FALSE, stake |-> 0, score |-> 0]]
  /\ request = [r \in Requests |-> NoRequest]

-----------------------------------------------------------------------------
(***************************************************************************)
(* The chain.  The contract may refuse any call.  A registration carries   *)
(* the stake of its request, that of the reputation task nothing, and      *)
(* update_operator_stake is sent without the value it must carry.          *)
(***************************************************************************)
Value(t) ==
  LET r == request[txs[t].by]
  IN  IF txs[t].call = "register_operator" /\ r.kind = "create" THEN r.stake ELSE 0

Registered(t) ==
  IF txs[t].call = "register_operator" /\ ~chain[txs[t].on].registered /\ Value(t) > 0
  THEN {[registered |-> TRUE, stake |-> Value(t), score |-> 0]} ELSE {}

Rescored(t) ==
  IF txs[t].call = "compute_reputation" /\ chain[txs[t].on].registered
  THEN {[chain[txs[t].on] EXCEPT !.score = score] : score \in Scores} ELSE {}

Effects(t) == {chain[txs[t].on]} \cup Registered(t) \cup Rescored(t)

Finalize(t) ==
  /\ Settles(t, "finalized")
  /\ \E op \in Effects(t) : chain' = [chain EXCEPT ![txs[t].on] = op]
  /\ UNCHANGED <<row, request>>

Fail(t) == Settles(t, "failed") /\ UNCHANGED <<row, chain, request>>

-----------------------------------------------------------------------------
Active(r, pc) == request[r] # NoRequest /\ request[r].pc = pc

Is(r, kind) == request[r].kind = kind

Goto(r, pc) == request' = [request EXCEPT ![r].pc = pc]

Answer(r, status) == request' = [request EXCEPT ![r].pc = "ended", ![r].answer = status]

Call(r, call) ==
  /\ Goto(r, "calling")
  /\ client' = [client EXCEPT ![r] = NewSession(request[r].on, call)]
  /\ UNCHANGED txs

Begin(r, kind, a, stake, pc, status) ==
  /\ request[r] = NoRequest
  /\ request' = [request EXCEPT ![r] =
       [pc |-> pc, kind |-> kind, on |-> a, stake |-> stake, round |-> 1,
        seen |-> 0, answer |-> status]]
  /\ UNCHANGED <<clientVars, row, chain>>

\* The address is stored as configured and looked for in lower case.
Known(a) == LowerCase /\ row[a].exists

BeginCreate(r, a, stake) ==
  IF Known(a) THEN Begin(r, "create", a, stake, "ended", 409)
  ELSE Begin(r, "create", a, stake, "insert", 0)

BeginStake(r, a, stake) ==
  /\ row[a].exists
  /\ IF stake = 0 THEN Begin(r, "stake", a, stake, "ended", 400)
     ELSE Begin(r, "stake", a, stake, "key", 0)

\* The task is queued and the request answered.
BeginReputation(r, a) == row[a].exists /\ Begin(r, "reputation", a, 0, "key", 200)

\* The website does not answer, the database fails or raises; what follows the
\* view is caught by the registration.
Error(r) ==
  /\ request[r] # NoRequest
  /\ request[r].pc \in {"insert", "key", "read", "write"}
  /\ request' = [request EXCEPT ![r].pc = "ended", ![r].answer = IF @ = 0 THEN 500 ELSE @]
  /\ UNCHANGED <<clientVars, row, chain>>

\* A slip: an operator that is there is written again.
Upsert(r) ==
  row' = [row EXCEPT ![request[r].on] =
            [exists |-> TRUE, by |-> r, stake |-> request[r].stake, score |-> 0]]

InsertRow(r) ==
  /\ ~row[request[r].on].exists
  /\ row' = [row EXCEPT ![request[r].on] =
               [exists |-> TRUE, by |-> r, stake |-> request[r].stake, score |-> 0]]

\* Address and contract are unique together.  The stake is converted when the
\* row is committed, and refused if it is not positive.
Insert(r) ==
  /\ Active(r, "insert")
  /\ \/ /\ InsertRow(r)
        /\ IF request[r].stake = 0 THEN Answer(r, 400) ELSE Goto(r, "key")
     \/ /\ row[request[r].on].exists
        /\ Answer(r, 500)
        /\ UNCHANGED row
  /\ UNCHANGED <<clientVars, chain>>

\* The signer's key is read, by a second session or by that of the request.
Key(r) ==
  /\ Active(r, "key")
  /\ IF Is(r, "stake") THEN Call(r, "update_operator_stake")
     ELSE Goto(r, "view") /\ UNCHANGED clientVars
  /\ UNCHANGED <<row, chain>>

\* A view that fails shows nothing, as for an operator that is not there.
View(r) ==
  /\ Active(r, "view")
  /\ \/ Call(r, "register_operator")
     \/ /\ chain[request[r].on].registered
        /\ IF Is(r, "create") THEN Answer(r, 200) /\ UNCHANGED clientVars
           ELSE Call(r, "compute_reputation")
  /\ UNCHANGED <<row, chain>>

InClient(r) == Active(r, "calling") /\ ClientStep(r) /\ UNCHANGED <<row, chain, request>>

\* After thirty seconds a registration is abandoned.  The thread that submits it
\* is not.
Abandon(r) ==
  /\ Active(r, "calling")
  /\ Is(r, "create")
  /\ client[r].pc = "submit"
  /\ Answer(r, 200)
  /\ UNCHANGED <<clientVars, row, chain>>

LateSubmit(r) ==
  /\ Active(r, "ended")
  /\ client[r] # NoSession
  /\ client[r].pc = "submit"
  /\ Received(r) \/ UNCHANGED txs
  /\ client' = [client EXCEPT ![r] = NoSession]
  /\ UNCHANGED <<row, chain, request>>

\* What comes after a call without a transaction.
NothingSent(r) ==
  /\ Active(r, "calling")
  /\ client[r].pc = "returned"
  /\ client[r].tx = 0
  /\ CASE client[r].call = "update_operator_stake" -> Goto(r, "write") /\ UNCHANGED clientVars
       [] Is(r, "create") -> Answer(r, 200) /\ UNCHANGED clientVars
       [] Is(r, "reputation") /\ client[r].call = "register_operator" ->
            Call(r, "compute_reputation")
       [] OTHER -> Answer(r, 200) /\ UNCHANGED clientVars
  /\ UNCHANGED <<row, chain>>

Sent(r) ==
  /\ Active(r, "calling")
  /\ client[r].pc = "returned"
  /\ client[r].tx # 0
  /\ Goto(r, "polling")
  /\ UNCHANGED <<clientVars, row, chain>>

\* A slip: the poll has no limit.
PollEndsWhenSettled(r) == Active(r, "polling") /\ txs[client[r].tx].status # "pending"

\* A hundred times at most.
PollEnds(r) == Active(r, "polling")

\* The outcome of the poll matters to the computation alone.
Polled(r) ==
  /\ PollEnds(r)
  /\ CASE Is(r, "create") -> Answer(r, 200) /\ UNCHANGED clientVars
       [] Is(r, "stake") -> Goto(r, "write") /\ UNCHANGED clientVars
       [] OTHER -> client[r].call = "register_operator" /\ Call(r, "compute_reputation")
  /\ UNCHANGED <<row, chain>>

Computed(r) ==
  /\ Active(r, "polling")
  /\ client[r].call = "compute_reputation"
  /\ IsFinal(client[r].tx)
  /\ Goto(r, "read")
  /\ UNCHANGED <<clientVars, row, chain>>

\* A slip: after the last round the scores are read all the same.
ReadAnyway(r) == Goto(r, "read")

GiveUp(r) == Answer(r, 200)

Undetermined(r) ==
  /\ PollEnds(r)
  /\ client[r].call = "compute_reputation"
  /\ IF request[r].round < MaxRounds
     THEN /\ client' = [client EXCEPT ![r] = NewSession(request[r].on, "compute_reputation")]
          /\ request' = [request EXCEPT ![r].pc = "calling", ![r].round = @ + 1]
     ELSE GiveUp(r) /\ UNCHANGED client
  /\ UNCHANGED <<txs, row, chain>>

\* The view may fail, and then there is nothing to copy.
Read(r) ==
  /\ Active(r, "read")
  /\ \E seen \in {chain[request[r].on].score, 0} :
       request' = [request EXCEPT ![r].pc = "write", ![r].seen = seen]
  /\ UNCHANGED <<clientVars, row, chain>>

\* A score of 0 leaves the one in the row.
Or(score, other) == IF score # 0 THEN score ELSE other

Write(r) ==
  LET a == request[r].on
  IN  /\ Active(r, "write")
      /\ row' = IF Is(r, "stake") THEN [row EXCEPT ![a].stake = request[r].stake]
                ELSE [row EXCEPT ![a].score = Or(request[r].seen, @)]
      /\ Answer(r, 200)
      /\ UNCHANGED <<clientVars, chain>>

RequestStep(r) ==
  \/ Insert(r) \/ Key(r) \/ View(r) \/ InClient(r) \/ NothingSent(r) \/ Sent(r)
  \/ Polled(r) \/ Computed(r) \/ Undetermined(r) \/ Read(r) \/ Write(r)

Next ==
  \/ \E t \in DOMAIN txs : Finalize(t) \/ Fail(t)
  \/ \E r \in Requests :
       \/ \E a \in Objects : BeginReputation(r, a)
       \/ \E a \in Objects, stake \in Stakes : BeginCreate(r, a, stake) \/ BeginStake(r, a, stake)
       \/ RequestStep(r) \/ Error(r) \/ Abandon(r) \/ LateSubmit(r)

\* Sessions, views, submissions and polls have time limits.
Spec == Init /\ [][Next]_vars /\ \A r \in Requests : WF_vars(RequestStep(r))

-----------------------------------------------------------------------------
\* The operator on the chain is the one of the row, with the stake its own
\* request asked for: a second request for the same address, in flight at the
\* same time, abandoned, late or retried, and the registrations of the
\* reputation task do not get in between (operators.py:196-207, 221-249).
StakeOfTheRow ==
  \A a \in Objects : chain[a].registered =>
    row[a].exists /\ chain[a].stake = request[row[a].by].stake

\* A score is copied to the row only by a task whose own last computation is
\* final, whatever rounds and retries came before (risk.py:112-150).
ScoreIsFinal ==
  [][\A a \in Objects : row[a].exists /\ row'[a].score # row[a].score =>
       \E r \in Requests :
         /\ Write(r)
         /\ IsFinal(client[r].tx)
         /\ txs[client[r].tx].call = "compute_reputation"]_vars

\* Requests are answered and tasks end, whatever the chain does (operators.py:196,
\* client.py:70, risk.py:112).
RequestsEnd ==
  \A r \in Requests : request[r] # NoRequest ~> Active(r, "ended")
=============================================================================
