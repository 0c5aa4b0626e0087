---------------------------- MODULE OperatorProofs ----------------------------
(***************************************************************************)
(* Proofs about OperatorTasks for any addresses, requests, stakes and      *)
(* bounds: the stake on the chain is that of the request behind the row,   *)
(* and scores are copied only from a computation that is final.            *)
(*                                                                         *)
(* A registration that is abandoned or late is sent all the same, long     *)
(* after its request was answered.  It cannot be another's, because it is  *)
(* sent only by the request that inserted the row, and a row never changes *)
(* hands; IInv says so of sessions and of transactions under way.          *)
(***************************************************************************)
EXTENDS OperatorTasks, ClientProofs

CallsOf(kind) == CASE kind = "create" -> {"register_operator"}
                   [] kind = "stake"  -> {"update_operator_stake"}
                   [] OTHER           -> {"register_operator", "compute_reputation"}

OwnRow(r) == row[request[r].on].exists /\ row[request[r].on].by = r

\* Where a request is says what its session is about and whose row it acts on.
RequestFits(r) ==
  LET q == request[r]
      s == client[r]
  IN  IF q = NoRequest THEN s = NoSession
      ELSE /\ s # NoSession => s.on = q.on /\ s.call \in CallsOf(q.kind)
           /\ q.kind = "create" /\ (q.pc \in {"key", "view"} \/ s # NoSession) => OwnRow(r)
           /\ q.kind # "create" => row[q.on].exists
           /\ q.pc = "insert" => q.kind = "create"
           /\ q.pc = "view" => q.kind # "stake"
           /\ q.pc \in {"read", "write"} => q.kind # "create"
           /\ q.pc \in {"insert", "key", "view"} => s = NoSession
           /\ q.pc \in {"calling", "polling"} => s # NoSession
           /\ q.pc = "polling" => s.tx # 0
           /\ q.pc \in {"read", "write"} /\ q.kind = "reputation" =>
                s # NoSession /\ s.call = "compute_reputation" /\ IsFinal(s.tx)

TxFits(t) ==
  LET r == txs[t].by
  IN  /\ r \in Requests /\ request[r] # NoRequest /\ txs[t].on = request[r].on
      /\ txs[t].call = "register_operator" /\ request[r].kind = "create" => OwnRow(r)

\* A row is that of a request there has been.
RowFits(a) == row[a].exists => row[a].by \in Requests /\ request[row[a].by] # NoRequest

ChainFits(a) ==
  chain[a].registered => row[a].exists /\ chain[a].stake = request[row[a].by].stake

IInv ==
  /\ ClientInv
  /\ TypeOK
  /\ \A a \in Objects : client[a] = NoSession
  /\ \A r \in Requests : RequestFits(r)
  /\ \A t \in DOMAIN txs : TxFits(t)
  /\ \A a \in Objects : RowFits(a)
  /\ \A a \in Objects : ChainFits(a)

-----------------------------------------------------------------------------
(***************************************************************************)
(* What steps keep.                                                        *)
(***************************************************************************)

\* A row stays, and stays with its request.
RowsKeep ==
  \A a \in Objects : row[a].exists => row'[a].exists /\ row'[a].by = row[a].by

\* A request stays what it asks for.
RequestsKeep ==
  \A r \in Requests : request[r] # NoRequest =>
    /\ request'[r] # NoRequest
    /\ request'[r].kind = request[r].kind
    /\ request'[r].on = request[r].on
    /\ request'[r].stake = request[r].stake

LEMMA Apart == /\ \A a \in Objects : a \in Callers /\ a \notin Requests
               /\ \A r \in Requests : r \in Callers /\ r \notin Objects
BY ClientAssumption DEF Callers

LEMMA Types ==
  ASSUME IInv
  PROVE  /\ row \in [Objects -> Row \cup {NoRow}]
         /\ chain \in [Objects -> [registered : BOOLEAN, stake : Nat, score : Nat]]
         /\ request \in [Requests -> Request \cup {NoRequest}]
         /\ client \in [Callers -> Session \cup {NoSession}]
         /\ txs \in Seq(Tx) /\ DOMAIN txs = 1..Len(txs) /\ Len(txs) \in 0..MaxTxs
BY LenProperties, ClientAssumption DEF IInv, ClientInv, ClientTypeOK, TypeOK

LEMMA RequestType ==
  ASSUME IInv, NEW r \in Requests, request[r] # NoRequest
  PROVE  request[r] \in Request /\ request[r].on \in Objects
BY Types DEF Request

LEMMA FinalStable ==
  ASSUME ClientInv, Grows, NEW tx \in 0..Len(txs), IsFinal(tx)
  PROVE  IsFinal(tx)'
BY LenProperties DEF Grows, IsFinal, ClientInv, ClientTypeOK

LEMMA OwnRowStable ==
  ASSUME IInv, RowsKeep, RequestsKeep, NEW r \in Requests, request[r] # NoRequest, OwnRow(r)
  PROVE  OwnRow(r)'
BY RequestType DEF RowsKeep, RequestsKeep, OwnRow

\* A request that does nothing still fits.
LEMMA RequestStable ==
  ASSUME IInv, Grows, RowsKeep, RequestsKeep, NEW r \in Requests,
         request'[r] = request[r], client'[r] = client[r]
  PROVE  RequestFits(r)'
<1>1. SessionFits(r) /\ RequestFits(r) /\ ClientInv
  BY Apart DEF IInv, ClientInv
<1>2. CASE request[r] = NoRequest
  BY <1>1, <1>2 DEF RequestFits
<1>3. CASE request[r] # NoRequest
  <2>1. request[r].on \in Objects /\ (OwnRow(r) => OwnRow(r)')
    BY <1>3, RequestType, OwnRowStable
  <2>2. client[r] # NoSession /\ IsFinal(client[r].tx) => IsFinal(client[r].tx)'
    BY <1>1, FinalStable DEF SessionFits
  <2> QED BY <1>1, <1>3, <2>1, <2>2 DEF RequestFits, RowsKeep
<1> QED BY <1>2, <1>3

LEMMA RowStable ==
  ASSUME RequestsKeep, NEW a \in Objects, RowFits(a), row'[a] = row[a]
  PROVE  RowFits(a)'
BY DEF RowFits, RequestsKeep

LEMMA ChainStable ==
  ASSUME RowsKeep, RequestsKeep, NEW a \in Objects, RowFits(a), ChainFits(a), chain'[a] = chain[a]
  PROVE  ChainFits(a)'
BY DEF RowFits, ChainFits, RowsKeep, RequestsKeep

LEMMA TxStable ==
  ASSUME IInv, Grows, RowsKeep, RequestsKeep, NEW t \in DOMAIN txs
  PROVE  TxFits(t)'
<1>1. TxFits(t) /\ txs'[t].by = txs[t].by /\ txs'[t].on = txs[t].on /\ txs'[t].call = txs[t].call
  BY DEF IInv, Grows
<1>2. PICK r \in Requests : r = txs[t].by
  BY <1>1 DEF TxFits
<1>3. request[r] # NoRequest
  BY <1>1, <1>2 DEF TxFits
<1>4. /\ request'[r] # NoRequest /\ request'[r].kind = request[r].kind
      /\ request'[r].on = request[r].on
  BY <1>3 DEF RequestsKeep
<1>5. OwnRow(r) => OwnRow(r)'
  BY <1>3, OwnRowStable
<1> QED BY <1>1, <1>2, <1>4, <1>5 DEF TxFits

\* What a request sends fits.
LEMMA SentFits ==
  ASSUME IInv, Grows, RowsKeep, RequestsKeep, NEW r \in Requests, client[r] # NoSession, Sends(r),
         NEW n, n = Len(txs')
  PROVE  TxFits(n)'
<1>1. RequestFits(r) /\ request[r] # NoRequest
  BY DEF IInv, RequestFits
<1>2. /\ request'[r] # NoRequest /\ request'[r].kind = request[r].kind
      /\ request'[r].on = request[r].on
  BY <1>1 DEF RequestsKeep
<1>3. request[r].kind = "create" => OwnRow(r)'
  BY <1>1, OwnRowStable DEF RequestFits
<1> QED BY <1>1, <1>2, <1>3 DEF TxFits, Sends, RequestFits

LEMMA TxsStable ==
  ASSUME IInv, ClientInv', Grows, RowsKeep, RequestsKeep,
         \/ Len(txs') = Len(txs)
         \/ \E r \in Requests : client[r] # NoSession /\ Sends(r)
  PROVE  \A t \in DOMAIN txs' : TxFits(t)'
<1>1. PICK n \in Nat : n = Len(txs')
  BY LenProperties DEF ClientInv, ClientTypeOK
<1>2. PICK m \in Nat : m = Len(txs)
  BY LenProperties, Types
<1>3. DOMAIN txs = 1..m /\ DOMAIN txs' = 1..n
  BY <1>1, <1>2, LenProperties, Types DEF ClientInv, ClientTypeOK
<1>4. CASE n = m
  BY <1>3, <1>4, TxStable
<1>5. CASE \E r \in Requests : client[r] # NoSession /\ Sends(r)
  <2>1. n = m + 1
    BY <1>1, <1>2, <1>5 DEF Sends
  <2>2. TxFits(n)'
    BY <1>1, <1>5, SentFits
  <2>3. \A t \in 1..n : t \in 1..m \/ t = n
    BY <2>1
  <2> QED BY <1>3, <2>2, <2>3, TxStable
<1> QED BY <1>1, <1>2, <1>4, <1>5

\* The invariant is kept when everything that changes fits.
LEMMA Assembled ==
  ASSUME IInv, ClientInv', TypeOK', Grows, RowsKeep, RequestsKeep,
         \A a \in Objects : client'[a] = NoSession,
         \A r \in Requests :
           RequestFits(r)' \/ (request'[r] = request[r] /\ client'[r] = client[r]),
         \/ Len(txs') = Len(txs)
         \/ \E r \in Requests : client[r] # NoSession /\ Sends(r),
         \A a \in Objects : RowFits(a)' \/ row'[a] = row[a],
         \A a \in Objects : ChainFits(a)' \/ chain'[a] = chain[a]
  PROVE  IInv'
<1>1. \A r \in Requests : RequestFits(r)'
  BY RequestStable
<1>2. \A a \in Objects : RowFits(a)' /\ ChainFits(a)'
  BY RowStable, ChainStable DEF IInv
<1> QED BY <1>1, <1>2, TxsStable DEF IInv

-----------------------------------------------------------------------------
(***************************************************************************)
(* The steps.                                                              *)
(***************************************************************************)
LEMMA InitInv == Init => IInv
<1> SUFFICES ASSUME Init PROVE IInv
  OBVIOUS
<1>1. txs = <<>> /\ Len(txs) = 0 /\ txs \in Seq(Tx) /\ DOMAIN txs = {}
  BY DEF Init, ClientInit
<1>2. ClientTypeOK
  BY <1>1 DEF Init, ClientInit, ClientTypeOK
<1>3. ClientInv
  BY <1>1, <1>2, ClientAssumption DEF Init, ClientInit, ClientInv, SessionFits
<1>4. TypeOK
  BY <1>2 DEF Init, TypeOK
<1>5. (\A a \in Objects : client[a] = NoSession) /\ \A r \in Requests : RequestFits(r)
  BY Apart DEF Init, ClientInit, RequestFits
<1>6. \A a \in Objects : RowFits(a) /\ ChainFits(a)
  BY DEF Init, RowFits, ChainFits, NoRow
<1> QED BY <1>1, <1>3, <1>4, <1>5, <1>6 DEF IInv

\* A request moves, and may write its row; nothing is sent.
LEMMA RequestMoves ==
  ASSUME IInv, NEW r \in Requests, UNCHANGED <<txs, chain>>,
         NEW q \in Request, request' = [request EXCEPT ![r] = q],
         request[r] # NoRequest =>
           q.kind = request[r].kind /\ q.on = request[r].on /\ q.stake = request[r].stake,
         NEW s \in Session \cup {NoSession}, client' = [client EXCEPT ![r] = s],
         s = client[r] \/ (s.tx = 0 /\ s.pc = "submit") \/ s = NoSession,
         row' \in [Objects -> Row \cup {NoRow}], RowsKeep, RequestFits(r)',
         \A a \in Objects : RowFits(a)' \/ row'[a] = row[a]
  PROVE  IInv'
<1>1. r \in Callers /\ r \notin Objects
  BY Apart
<1>2. /\ client' \in [Callers -> Session \cup {NoSession}] /\ client'[r] = s
      /\ \A c \in Callers : c # r => client'[c] = client[c]
  BY <1>1, Types
<1>3. ClientInv' /\ Grows
  BY <1>2, SessionsInv DEF IInv
<1>4. request' \in [Requests -> Request \cup {NoRequest}]
  BY Types
<1>5. TypeOK'
  BY <1>3, <1>4 DEF IInv, ClientInv, TypeOK
<1>6. q # NoRequest
  BY DEF Request, NoRequest, Pc
<1>7. request'[r] = q /\ \A p \in Requests : p # r => request'[p] = request[p]
  BY Types
<1>8. RequestsKeep
  BY <1>6, <1>7 DEF RequestsKeep
<1>9. \A a \in Objects : client'[a] = NoSession
  BY <1>1, <1>2, Apart DEF IInv
<1>10. \A p \in Requests : p # r => request'[p] = request[p] /\ client'[p] = client[p]
  BY <1>2, <1>7, Apart
<1> QED BY <1>3, <1>5, <1>8, <1>9, <1>10, Assembled

\* What a request may be answered with.
Codes == {0, 200, 400, 409, 500}

\* A request that keeps its session and its row.
LEMMA StepsOn ==
  ASSUME IInv, NEW r \in Requests, NEW q \in Request, request' = [request EXCEPT ![r] = q],
         request[r] # NoRequest =>
           q.kind = request[r].kind /\ q.on = request[r].on /\ q.stake = request[r].stake,
         UNCHANGED <<clientVars, row, chain>>, RequestFits(r)'
  PROVE  IInv'
<1>1. /\ client[r] \in Session \cup {NoSession} /\ client' = [client EXCEPT ![r] = client[r]]
      /\ row' \in [Objects -> Row \cup {NoRow}] /\ RowsKeep
  BY Types, Apart DEF clientVars, RowsKeep
<1> QED BY <1>1, RequestMoves DEF clientVars

LEMMA Statuses ==
  ASSUME NEW q \in Request, NEW pc \in Pc
  PROVE  LET p == [q EXCEPT !.pc = pc]
         IN  /\ p \in Request /\ p.pc = pc /\ p.kind = q.kind /\ p.on = q.on /\ p.stake = q.stake
BY DEF Request

LEMMA Answers ==
  ASSUME IInv, NEW r \in Requests, request[r] # NoRequest,
         NEW status \in Codes, Answer(r, status)
  PROVE  \E q \in Request :
           /\ request' = [request EXCEPT ![r] = q]
           /\ q.pc = "ended" /\ q.kind = request[r].kind /\ q.on = request[r].on
           /\ q.stake = request[r].stake
<1>1. request \in [Requests -> Request \cup {NoRequest}] /\ request[r] \in Request
  BY Types, RequestType
<1>2. PICK p : p = [request[r] EXCEPT !.pc = "ended", !.answer = status]
  OBVIOUS
<1>3. p = [pc |-> "ended", kind |-> request[r].kind, on |-> request[r].on,
           stake |-> request[r].stake, round |-> request[r].round,
           seen |-> request[r].seen, answer |-> status]
  BY <1>1, <1>2 DEF Request
<1>4. p \in Request
  <2>1. "ended" \in Pc
    BY DEF Pc
  <2> QED BY <1>1, <1>3, <2>1 DEF Request, Codes
<1>5. [request EXCEPT ![r].pc = "ended", ![r].answer = status]
        = [request EXCEPT ![r] = [request[r] EXCEPT !.pc = "ended", !.answer = status]]
  BY <1>1
<1>6. request' = [request EXCEPT ![r] = p]
  BY <1>2, <1>5 DEF Answer
<1>7. /\ p.pc = "ended" /\ p.kind = request[r].kind /\ p.on = request[r].on
      /\ p.stake = request[r].stake
  BY <1>3
<1> QED BY <1>4, <1>6, <1>7

LEMMA AnswerInv ==
  ASSUME IInv, NEW r \in Requests, request[r] # NoRequest,
         NEW status \in Codes, Answer(r, status),
         UNCHANGED <<clientVars, row, chain>>
  PROVE  IInv'
<1>1. RequestFits(r)
  BY DEF IInv
<1>2. PICK q \in Request :
        /\ request' = [request EXCEPT ![r] = q]
        /\ q.pc = "ended" /\ q.kind = request[r].kind /\ q.on = request[r].on
        /\ q.stake = request[r].stake
  BY Answers
<1>3. request'[r] = q
  BY <1>2, Types
<1>4. RequestFits(r)'
  BY <1>1, <1>2, <1>3 DEF RequestFits, OwnRow, clientVars, NoRequest
<1> QED BY <1>2, <1>4, StepsOn

\* A request enters the client with a fresh session.
LEMMA CallInv ==
  ASSUME IInv, NEW r \in Requests, request[r] # NoRequest,
         NEW call \in CallsOf(request[r].kind), Call(r, call),
         request[r].kind = "create" => OwnRow(r), UNCHANGED <<row, chain>>
  PROVE  IInv'
<1> DEFINE q == [request[r] EXCEPT !.pc = "calling"]
           s == NewSession(request[r].on, call)
<1>1. RequestFits(r) /\ request[r] \in Request /\ request[r].on \in Objects
  BY RequestType DEF IInv
<1>2. /\ q \in Request /\ q.pc = "calling" /\ q.kind = request[r].kind /\ q.on = request[r].on
      /\ q.stake = request[r].stake
  BY <1>1, Statuses DEF Pc
<1>3. call \in Calls
  BY DEF CallsOf, Calls
<1>4. s \in Session /\ s.on = request[r].on /\ s.call = call /\ s.tx = 0 /\ s.pc = "submit"
  BY <1>1, <1>3, NewSessionType
<1>5. request' = [request EXCEPT ![r] = q] /\ client' = [client EXCEPT ![r] = s] /\ UNCHANGED txs
  BY DEF Call, Goto
<1> HIDE DEF q, s
<1>6. request'[r] = q /\ client'[r] = s /\ s # NoSession
  BY <1>4, <1>5, Types, Apart, NoSessionIsNone
<1>7. RequestFits(r)'
  BY <1>1, <1>2, <1>4, <1>6 DEF RequestFits, OwnRow, NoRequest
<1>8. row' \in [Objects -> Row \cup {NoRow}] /\ RowsKeep
  BY Types DEF RowsKeep
<1> QED BY <1>2, <1>4, <1>5, <1>7, <1>8, RequestMoves

LEMMA BeginInv ==
  ASSUME IInv, NEW r \in Requests, NEW kind \in Kinds, NEW a \in Objects, NEW stake \in Nat,
         NEW pc \in Pc, NEW status \in Codes, Begin(r, kind, a, stake, pc, status),
         kind = "create" => pc \in {"insert", "ended"},
         kind # "create" => row[a].exists /\ pc \in {"key", "ended"}
  PROVE  IInv'
<1> DEFINE q == [pc |-> pc, kind |-> kind, on |-> a, stake |-> stake, round |-> 1,
                 seen |-> 0, answer |-> status]
<1>1. q \in Request /\ q.pc = pc /\ q.kind = kind /\ q.on = a
  BY OperatorAssumption DEF Request, Codes
<1>2. /\ request[r] = NoRequest /\ request' = [request EXCEPT ![r] = q]
      /\ UNCHANGED <<clientVars, row, chain>>
  BY DEF Begin
<1> HIDE DEF q
<1>3. request'[r] = q /\ RequestFits(r)
  BY <1>2, Types DEF IInv
<1>4. RequestFits(r)'
  BY <1>1, <1>2, <1>3 DEF RequestFits, clientVars
<1> QED BY <1>1, <1>2, <1>4, StepsOn

LEMMA Begins ==
  ASSUME IInv, NEW r \in Requests, NEW a \in Objects,
         \/ BeginReputation(r, a)
         \/ \E stake \in Stakes : BeginCreate(r, a, stake) \/ BeginStake(r, a, stake)
  PROVE  IInv'
<1> USE DEF Kinds, Pc, Codes
<1>1. CASE BeginReputation(r, a)
  BY <1>1, BeginInv DEF BeginReputation
<1>2. ASSUME NEW stake \in Stakes, BeginCreate(r, a, stake) PROVE IInv'
  BY <1>2, OperatorAssumption, BeginInv DEF BeginCreate
<1>3. ASSUME NEW stake \in Stakes, BeginStake(r, a, stake) PROVE IInv'
  BY <1>3, OperatorAssumption, BeginInv DEF BeginStake
<1> QED BY <1>1, <1>2, <1>3

LEMMA ErrorInv == ASSUME IInv, NEW r \in Requests, Error(r) PROVE IInv'
<1>1. request[r] # NoRequest /\ UNCHANGED <<clientVars, row, chain>>
  BY DEF Error
<1>2. PICK status : status = IF request[r].answer = 0 THEN 500 ELSE request[r].answer
  OBVIOUS
<1>3. status \in Codes
  BY <1>1, <1>2, RequestType DEF Request, Codes
<1>4. Answer(r, status)
  BY <1>2 DEF Error, Answer
<1> QED BY <1>1, <1>3, <1>4, AnswerInv

\* A request goes on with the session it has.
LEMMA GotoInv ==
  ASSUME IInv, NEW r \in Requests, request[r] # NoRequest,
         NEW pc \in {"view", "polling", "write", "read"}, Goto(r, pc),
         UNCHANGED <<clientVars, row, chain>>,
         pc = "view" => request[r].pc = "key" /\ request[r].kind # "stake",
         pc = "polling" => client[r] # NoSession /\ client[r].tx # 0,
         pc = "write" => request[r].kind = "stake",
         pc = "read" => /\ client[r] # NoSession /\ client[r].call = "compute_reputation"
                        /\ IsFinal(client[r].tx)
  PROVE  IInv'
<1> DEFINE q == [request[r] EXCEPT !.pc = pc]
<1>1. RequestFits(r) /\ request[r] \in Request
  BY RequestType DEF IInv
<1>0. pc \in Pc
  BY DEF Pc
<1>2. /\ q \in Request /\ q.pc = pc /\ q.kind = request[r].kind /\ q.on = request[r].on
      /\ q.stake = request[r].stake
  BY <1>0, <1>1, Statuses
<1>3. request' = [request EXCEPT ![r] = q]
  BY DEF Goto
<1> HIDE DEF q
<1>4. request'[r] = q
  BY <1>3, Types
<1>5. RequestFits(r)'
  BY <1>1, <1>2, <1>4 DEF RequestFits, OwnRow, clientVars, NoRequest, CallsOf, IsFinal
<1> QED BY <1>2, <1>3, <1>5, StepsOn

\* The row is inserted by the request that will register the operator.
LEMMA InsertInv == ASSUME IInv, NEW r \in Requests, Insert(r) PROVE IInv'
<1>1. /\ request[r] # NoRequest /\ request[r].pc = "insert" /\ RequestFits(r)
      /\ request[r] \in Request /\ request[r].on \in Objects
      /\ UNCHANGED <<clientVars, chain>>
  BY RequestType DEF Insert, Active, IInv
<1>2. CASE row[request[r].on].exists /\ Answer(r, 500) /\ UNCHANGED row
  BY <1>1, <1>2, AnswerInv DEF Codes
<1>3. CASE /\ InsertRow(r)
           /\ IF request[r].stake = 0 THEN Answer(r, 400) ELSE Goto(r, "key")
  <2>1. PICK q \in Request :
          /\ request' = [request EXCEPT ![r] = q]
          /\ q.kind = request[r].kind /\ q.on = request[r].on /\ q.stake = request[r].stake
          /\ q.pc \in {"ended", "key"}
    <3>1. CASE Answer(r, 400)
      <4>1. 400 \in Codes
        BY DEF Codes
      <4> QED BY <1>1, <3>1, <4>1, Answers
    <3>2. CASE Goto(r, "key")
      <4>1. "key" \in Pc
        BY DEF Pc
      <4> QED BY <1>1, <3>2, <4>1, Statuses DEF Goto
    <3> QED BY <1>3, <3>1, <3>2
  <2>2. PICK a \in Objects : a = request[r].on
    BY <1>1
  <2>3. PICK w : w = [exists |-> TRUE, by |-> r, stake |-> request[r].stake, score |-> 0]
    OBVIOUS
  <2>4. w \in Row /\ w.exists /\ w.by = r
    BY <1>1, <2>3 DEF Row, Request
  <2>5. row' = [row EXCEPT ![a] = w] /\ ~row[a].exists
    BY <1>3, <2>2, <2>3 DEF InsertRow
  <2>6. /\ row' \in [Objects -> Row \cup {NoRow}] /\ row'[a] = w
        /\ \A b \in Objects : b # a => row'[b] = row[b]
    BY <2>4, <2>5, Types
  <2>7. RowsKeep
    BY <2>5, <2>6 DEF RowsKeep
  <2>8. request'[r] = q /\ q # NoRequest
    BY <2>1, Types DEF NoRequest
  <2>9. RowFits(a)'
    BY <2>4, <2>6, <2>8 DEF RowFits
  <2>10. RequestFits(r)'
    BY <1>1, <2>1, <2>2, <2>4, <2>6, <2>8 DEF RequestFits, OwnRow, clientVars
  <2>11. client[r] \in Session \cup {NoSession} /\ client' = [client EXCEPT ![r] = client[r]]
    BY <1>1, Types, Apart DEF clientVars
  <2> QED BY <1>1, <2>1, <2>6, <2>7, <2>9, <2>10, <2>11, RequestMoves DEF clientVars
<1> QED BY <1>2, <1>3 DEF Insert

LEMMA KeyInv == ASSUME IInv, NEW r \in Requests, Key(r) PROVE IInv'
<1>1. /\ request[r] # NoRequest /\ request[r].pc = "key" /\ UNCHANGED <<row, chain>>
      /\ RequestFits(r)
  BY DEF Key, Active, IInv
<1>2. CASE Is(r, "stake") /\ Call(r, "update_operator_stake")
  BY <1>1, <1>2, CallInv DEF Is, CallsOf
<1>3. CASE ~Is(r, "stake") /\ Goto(r, "view") /\ UNCHANGED clientVars
  BY <1>1, <1>3, GotoInv DEF Is
<1> QED BY <1>2, <1>3 DEF Key

LEMMA Kind ==
  ASSUME IInv, NEW r \in Requests, request[r] # NoRequest
  PROVE  request[r].kind \in {"create", "stake", "reputation"}
BY RequestType DEF Request, Kinds

LEMMA ViewInv == ASSUME IInv, NEW r \in Requests, View(r) PROVE IInv'
<1>1. /\ request[r] # NoRequest /\ request[r].pc = "view" /\ UNCHANGED <<row, chain>>
      /\ RequestFits(r)
  BY DEF View, Active, IInv
<1>2. /\ request[r].kind \in {"create", "reputation"}
      /\ request[r].kind = "create" => OwnRow(r)
  BY <1>1, Kind DEF RequestFits
<1>3. CASE Call(r, "register_operator")
  BY <1>1, <1>2, <1>3, CallInv DEF CallsOf
<1>4. CASE Is(r, "create") /\ Answer(r, 200) /\ UNCHANGED clientVars
  BY <1>1, <1>4, AnswerInv DEF Codes
<1>5. CASE ~Is(r, "create") /\ Call(r, "compute_reputation")
  BY <1>1, <1>2, <1>5, CallInv DEF CallsOf, Is
<1> QED BY <1>3, <1>4, <1>5 DEF View

LEMMA InClientInv == ASSUME IInv, NEW r \in Requests, InClient(r) PROVE IInv'
<1>1. /\ UNCHANGED <<row, chain, request>> /\ ClientStep(r)
      /\ request[r] # NoRequest /\ request[r].pc = "calling"
      /\ r \in Callers /\ RequestFits(r)
  BY Apart DEF InClient, Active, IInv
<1>2. PICK s \in Session : Continues(r, s)
  BY <1>1, StepOfSession DEF IInv
<1>3. client' = [client EXCEPT ![r] = s] /\ s.on = client[r].on /\ s.call = client[r].call
  BY <1>2 DEF Continues
<1>4. /\ client'[r] = s /\ s # NoSession
      /\ \A b \in Callers : b # r => client'[b] = client[b]
  BY <1>1, <1>3, Types, NoSessionIsNone
<1>5. ClientInv' /\ Grows /\ client[r] \in Session /\ (UNCHANGED txs \/ Sends(r))
  BY <1>1, ClientStepInv, StepOfSession DEF IInv
<1>6. RowsKeep /\ RequestsKeep
  BY <1>1 DEF RowsKeep, RequestsKeep
<1>7. TypeOK'
  BY <1>1, <1>5 DEF IInv, TypeOK, ClientInv
<1>8. RequestFits(r)'
  BY <1>1, <1>3, <1>4 DEF RequestFits, OwnRow
<1>9. client[r] # NoSession
  BY <1>5, NoSessionIsNone
<1>10. \A a \in Objects : client'[a] = NoSession
  BY <1>4, Apart DEF IInv
<1>11. \A p \in Requests : p # r => request'[p] = request[p] /\ client'[p] = client[p]
  BY <1>1, <1>4, Apart
<1> QED BY <1>1, <1>5, <1>6, <1>7, <1>8, <1>9, <1>10, <1>11, Assembled

LEMMA AbandonInv == ASSUME IInv, NEW r \in Requests, Abandon(r) PROVE IInv'
BY AnswerInv DEF Abandon, Active, Codes

\* The thread that was left behind sends what it has, and ends.
LEMMA LateSubmitInv == ASSUME IInv, NEW r \in Requests, LateSubmit(r) PROVE IInv'
<1>1. /\ UNCHANGED <<row, chain, request>>
      /\ request[r] # NoRequest /\ request[r].pc = "ended" /\ client[r] # NoSession
      /\ r \in Callers /\ RequestFits(r)
      /\ client' = [client EXCEPT ![r] = NoSession]
      /\ Received(r) \/ UNCHANGED txs
  BY Apart DEF LateSubmit, Active, IInv
<1>2. /\ client' \in [Callers -> Session \cup {NoSession}] /\ client'[r] = NoSession
      /\ \A c \in Callers : c # r => client'[c] = client[c]
  BY <1>1, Types
<1>3. /\ txs' \in Seq(Tx) /\ Len(txs') <= MaxTxs /\ Grows
      /\ UNCHANGED txs \/ Sends(r)
  <2>1. CASE Received(r)
    <3>1. client[r] \in Session
      BY <1>1, Types
    <3> QED BY <1>1, <2>1, <3>1, ReceivedGrows, ClientAssumption DEF IInv, ClientInv
  <2>2. CASE UNCHANGED txs
    BY <2>2, StillGrows, Types, ClientAssumption DEF IInv, ClientInv
  <2> QED BY <1>1, <2>1, <2>2
<1>4. \A c \in Callers : SessionFits(c)'
  <2>1. SessionFits(r)'
    BY <1>2 DEF SessionFits
  <2> QED BY <1>2, <1>3, <2>1, SessionStable DEF IInv, ClientInv
<1>5. ClientInv' /\ TypeOK'
  BY <1>1, <1>2, <1>3, <1>4 DEF IInv, ClientInv, ClientTypeOK, TypeOK
<1>6. RowsKeep /\ RequestsKeep
  BY <1>1 DEF RowsKeep, RequestsKeep
<1>7. RequestFits(r)'
  BY <1>1, <1>2 DEF RequestFits, OwnRow
<1>8. \A a \in Objects : client'[a] = NoSession
  BY <1>2, Apart DEF IInv
<1>9. \A p \in Requests : p # r => request'[p] = request[p] /\ client'[p] = client[p]
  BY <1>1, <1>2, Apart
<1> QED BY <1>1, <1>3, <1>5, <1>6, <1>7, <1>8, <1>9, Assembled

LEMMA NothingSentInv == ASSUME IInv, NEW r \in Requests, NothingSent(r) PROVE IInv'
<1>1. /\ request[r] # NoRequest /\ request[r].pc = "calling" /\ UNCHANGED <<row, chain>>
      /\ RequestFits(r)
  BY DEF NothingSent, Active, IInv
<1>2. /\ client[r] # NoSession /\ client[r].call \in CallsOf(request[r].kind)
      /\ request[r].kind = "create" => OwnRow(r)
      /\ request[r].kind \in {"create", "stake", "reputation"}
  BY <1>1, Kind DEF RequestFits
<1>3. CASE client[r].call = "update_operator_stake" /\ Goto(r, "write") /\ UNCHANGED clientVars
  <2>1. request[r].kind = "stake"
    BY <1>2, <1>3 DEF CallsOf
  <2> QED BY <1>1, <1>3, <2>1, GotoInv
<1>4. CASE Answer(r, 200) /\ UNCHANGED clientVars
  BY <1>1, <1>4, AnswerInv DEF Codes
<1>5. CASE Is(r, "reputation") /\ Call(r, "compute_reputation")
  BY <1>1, <1>2, <1>5, CallInv DEF CallsOf, Is
<1> QED BY <1>3, <1>4, <1>5 DEF NothingSent

LEMMA SentInv == ASSUME IInv, NEW r \in Requests, Sent(r) PROVE IInv'
<1>1. client[r] # NoSession
  BY DEF Sent, NoSession
<1> QED BY <1>1, GotoInv DEF Sent, Active

LEMMA PolledInv == ASSUME IInv, NEW r \in Requests, Polled(r) PROVE IInv'
<1>1. /\ request[r] # NoRequest /\ request[r].pc = "polling" /\ UNCHANGED <<row, chain>>
      /\ RequestFits(r)
  BY DEF Polled, PollEnds, Active, IInv
<1>2. request[r].kind \in {"create", "stake", "reputation"}
  BY <1>1, Kind
<1>3. CASE Answer(r, 200) /\ UNCHANGED clientVars
  BY <1>1, <1>3, AnswerInv DEF Codes
<1>4. CASE Is(r, "stake") /\ Goto(r, "write") /\ UNCHANGED clientVars
  BY <1>1, <1>4, GotoInv DEF Is
<1>5. CASE ~Is(r, "create") /\ ~Is(r, "stake") /\ Call(r, "compute_reputation")
  BY <1>1, <1>2, <1>5, CallInv DEF CallsOf, Is
<1> QED BY <1>3, <1>4, <1>5 DEF Polled

LEMMA ComputedInv == ASSUME IInv, NEW r \in Requests, Computed(r) PROVE IInv'
<1>1. /\ request[r] # NoRequest /\ request[r].pc = "polling" /\ RequestFits(r)
  BY DEF Computed, Active, IInv
<1>2. client[r] # NoSession
  BY <1>1 DEF RequestFits
<1> QED BY <1>1, <1>2, GotoInv DEF Computed

LEMMA UndeterminedInv == ASSUME IInv, NEW r \in Requests, Undetermined(r) PROVE IInv'
<1>1. /\ request[r] # NoRequest /\ request[r].pc = "polling" /\ RequestFits(r)
      /\ client[r].call = "compute_reputation" /\ UNCHANGED <<txs, row, chain>>
  BY DEF Undetermined, PollEnds, Active, IInv
<1>2. client[r] # NoSession /\ client[r].call \in CallsOf(request[r].kind)
  BY <1>1 DEF RequestFits
<1>3. request[r].kind = "reputation"
  BY <1>1, <1>2, Kind DEF CallsOf
<1>4. CASE GiveUp(r) /\ UNCHANGED client
  BY <1>1, <1>4, AnswerInv DEF GiveUp, clientVars, Codes
<1>5. CASE /\ request[r].round < MaxRounds
           /\ client' = [client EXCEPT ![r] = NewSession(request[r].on, "compute_reputation")]
           /\ request' = [request EXCEPT ![r].pc = "calling", ![r].round = @ + 1]
  <2>1. request[r] \in Request /\ request[r].on \in Objects
    BY <1>1, RequestType
  <2>2. PICK n : n = request[r].round + 1
    OBVIOUS
  <2>3. n \in 1..MaxRounds
    BY <1>5, <2>1, <2>2, OperatorAssumption DEF Request
  <2>4. PICK q : q = [request[r] EXCEPT !.pc = "calling", !.round = n]
    OBVIOUS
  <2>5. q = [pc |-> "calling", kind |-> request[r].kind, on |-> request[r].on,
             stake |-> request[r].stake, round |-> n, seen |-> request[r].seen,
             answer |-> request[r].answer]
    BY <2>1, <2>4 DEF Request
  <2>6. q \in Request
    <3>1. "calling" \in Pc
      BY DEF Pc
    <3> QED BY <2>1, <2>3, <2>5, <3>1 DEF Request
  <2>7. /\ q.pc = "calling" /\ q.kind = request[r].kind /\ q.on = request[r].on
        /\ q.stake = request[r].stake /\ q # NoRequest
    BY <2>5 DEF NoRequest
  <2>8. request' = [request EXCEPT ![r] = q]
    BY <1>5, <2>1, <2>2, <2>4, Types
  <2>9. PICK s : s = NewSession(request[r].on, "compute_reputation")
    OBVIOUS
  <2>10. /\ s \in Session /\ s.on = request[r].on /\ s.call = "compute_reputation"
         /\ s.tx = 0 /\ s.pc = "submit" /\ s # NoSession
    BY <2>1, <2>9, NewSessionType, NoSessionIsNone DEF Calls
  <2>11. client' = [client EXCEPT ![r] = s]
    BY <1>5, <2>9
  <2>12. request'[r] = q /\ client'[r] = s
    BY <2>8, <2>11, Types, Apart
  <2>13. RequestFits(r)'
    BY <1>1, <1>3, <2>7, <2>10, <2>12 DEF RequestFits, CallsOf, OwnRow
  <2>14. row' \in [Objects -> Row \cup {NoRow}] /\ RowsKeep
    BY <1>1, Types DEF RowsKeep
  <2> QED BY <1>1, <2>6, <2>7, <2>8, <2>10, <2>11, <2>13, <2>14, RequestMoves
<1> QED BY <1>4, <1>5 DEF Undetermined

LEMMA ReadInv == ASSUME IInv, NEW r \in Requests, Read(r) PROVE IInv'
<1>1. /\ request[r] # NoRequest /\ request[r].pc = "read" /\ RequestFits(r)
      /\ request[r] \in Request /\ request[r].on \in Objects
      /\ UNCHANGED <<clientVars, row, chain>>
  BY RequestType DEF Read, Active, IInv
<1>2. PICK seen \in {chain[request[r].on].score, 0} :
        request' = [request EXCEPT ![r].pc = "write", ![r].seen = seen]
  BY DEF Read
<1>3. seen \in Nat
  BY <1>1, <1>2, Types
<1>4. PICK v : v = seen
  OBVIOUS
<1>5. PICK q : q = [request[r] EXCEPT !.pc = "write", !.seen = v]
  OBVIOUS
<1>6. q = [pc |-> "write", kind |-> request[r].kind, on |-> request[r].on,
           stake |-> request[r].stake, round |-> request[r].round, seen |-> v,
           answer |-> request[r].answer]
  BY <1>1, <1>5 DEF Request
<1>7. q \in Request
  <2>1. "write" \in Pc /\ v \in Nat
    BY <1>3, <1>4 DEF Pc
  <2> QED BY <1>1, <1>6, <2>1 DEF Request
<1>8. /\ q.pc = "write" /\ q.kind = request[r].kind /\ q.on = request[r].on
      /\ q.stake = request[r].stake /\ q # NoRequest
  BY <1>6 DEF NoRequest
<1>9. request' = [request EXCEPT ![r] = q]
  BY <1>1, <1>2, <1>4, <1>5, Types
<1>10. request'[r] = q
  BY <1>9, Types
<1>11. RequestFits(r)'
  BY <1>1, <1>8, <1>10 DEF RequestFits, OwnRow, clientVars, IsFinal
<1> QED BY <1>1, <1>7, <1>8, <1>9, <1>11, StepsOn

LEMMA WriteInv == ASSUME IInv, NEW r \in Requests, Write(r) PROVE IInv'
<1>1. /\ request[r] # NoRequest /\ request[r].pc = "write" /\ RequestFits(r)
      /\ request[r] \in Request /\ UNCHANGED <<clientVars, chain>> /\ Answer(r, 200)
  BY RequestType DEF Write, Active, IInv
<1>2. PICK a \in Objects : a = request[r].on
  BY <1>1, RequestType
<1>3. row[a].exists /\ row[a] \in Row
  BY <1>1, <1>2, Types DEF RequestFits, NoRow
<1>4. PICK q \in Request :
        /\ request' = [request EXCEPT ![r] = q]
        /\ q.pc = "ended" /\ q.kind = request[r].kind /\ q.on = request[r].on
        /\ q.stake = request[r].stake
  <2>1. 200 \in Codes
    BY DEF Codes
  <2> QED BY <1>1, <2>1, Answers
<1>5. PICK w \in Row : row' = [row EXCEPT ![a] = w] /\ w.by = row[a].by /\ w.exists
  <2>1. CASE Is(r, "stake")
    <3>1. row' = [row EXCEPT ![a] = [row[a] EXCEPT !.stake = request[r].stake]]
      BY <1>2, <2>1 DEF Write
    <3>2. PICK v : v = request[r].stake
      OBVIOUS
    <3>3. v \in Nat
      BY <1>1, <3>2 DEF Request
    <3>4. PICK w : w = [row[a] EXCEPT !.stake = v]
      OBVIOUS
    <3>5. w = [exists |-> row[a].exists, by |-> row[a].by, stake |-> v, score |-> row[a].score]
      BY <1>3, <3>4 DEF Row
    <3>6. w \in Row /\ w.by = row[a].by /\ w.exists
      BY <1>3, <3>3, <3>5 DEF Row
    <3>7. row' = [row EXCEPT ![a] = w]
      BY <3>1, <3>2, <3>4
    <3> QED BY <3>6, <3>7
  <2>2. CASE ~Is(r, "stake")
    <3>1. row' = [row EXCEPT ![a] = [row[a] EXCEPT !.score = Or(request[r].seen, row[a].score)]]
      BY <1>2, <2>2 DEF Write
    <3>2. PICK v : v = Or(request[r].seen, row[a].score)
      OBVIOUS
    <3>3. v \in Nat
      BY <1>1, <1>3, <3>2 DEF Or, Request, Row
    <3>4. PICK w : w = [row[a] EXCEPT !.score = v]
      OBVIOUS
    <3>5. w = [exists |-> row[a].exists, by |-> row[a].by, stake |-> row[a].stake, score |-> v]
      BY <1>3, <3>4 DEF Row
    <3>6. w \in Row /\ w.by = row[a].by /\ w.exists
      BY <1>3, <3>3, <3>5 DEF Row
    <3>7. row' = [row EXCEPT ![a] = w]
      BY <3>1, <3>2, <3>4
    <3> QED BY <3>6, <3>7
  <2> QED BY <2>1, <2>2
<1>6. /\ row' \in [Objects -> Row \cup {NoRow}] /\ row'[a] = w
      /\ \A b \in Objects : b # a => row'[b] = row[b]
  BY <1>5, Types
<1>7. RowsKeep
  BY <1>5, <1>6 DEF RowsKeep
<1>8. request'[r] = q /\ q # NoRequest /\ \A p \in Requests : p # r => request'[p] = request[p]
  BY <1>4, Types DEF NoRequest
<1>9. RowFits(a)'
  BY <1>3, <1>5, <1>6, <1>8 DEF RowFits, IInv
<1>10. RequestFits(r)'
  BY <1>1, <1>2, <1>4, <1>5, <1>6, <1>8 DEF RequestFits, OwnRow, clientVars
<1>11. client[r] \in Session \cup {NoSession} /\ client' = [client EXCEPT ![r] = client[r]]
  BY <1>1, Types, Apart DEF clientVars
<1> QED BY <1>1, <1>4, <1>6, <1>7, <1>9, <1>10, <1>11, RequestMoves DEF clientVars

-----------------------------------------------------------------------------
(***************************************************************************)
(* The chain settles transactions.                                         *)
(***************************************************************************)
ChainEntry == [registered : BOOLEAN, stake : Nat, score : Nat]

\* What a transaction may make of its operator fits the row.
LEMMA EffectFits ==
  ASSUME IInv, NEW t \in DOMAIN txs, NEW op \in Effects(t)
  PROVE  LET a == txs[t].on
         IN  /\ a \in Objects /\ op \in ChainEntry
             /\ op.registered => row[a].exists /\ op.stake = request[row[a].by].stake
<1>1. PICK a : a = txs[t].on
  OBVIOUS
<1>2. PICK r : r = txs[t].by
  OBVIOUS
<1>3. /\ TxFits(t) /\ r \in Requests /\ request[r] # NoRequest /\ a = request[r].on
      /\ txs[t].call = "register_operator" /\ request[r].kind = "create" => OwnRow(r)
  BY <1>1, <1>2 DEF IInv, TxFits
<1>4. a \in Objects /\ request[r] \in Request
  BY <1>3, RequestType
<1>5. /\ chain[a] \in ChainEntry
      /\ chain[a].registered => row[a].exists /\ chain[a].stake = request[row[a].by].stake
  BY <1>4, Types DEF ChainEntry, IInv, ChainFits
<1>6. CASE op = chain[a]
  BY <1>1, <1>4, <1>5, <1>6
<1>7. CASE op \in Registered(t)
  <2>1. op = [registered |-> TRUE, stake |-> Value(t), score |-> 0] /\ Value(t) > 0
        /\ txs[t].call = "register_operator"
    BY <1>7 DEF Registered
  <2>2. request[r].kind = "create" /\ Value(t) = request[r].stake
    BY <1>2, <2>1 DEF Value
  <2>3. row[a].exists /\ row[a].by = r
    BY <1>3, <2>1, <2>2 DEF OwnRow
  <2>4. Value(t) \in Nat
    BY <1>4, <2>2 DEF Request
  <2>5. op \in ChainEntry /\ op.stake = request[r].stake
    BY <2>1, <2>2, <2>4 DEF ChainEntry
  <2> QED BY <1>1, <1>4, <2>3, <2>5
<1>8. CASE op \in Rescored(t)
  <2>1. PICK score \in Scores : op = [chain[a] EXCEPT !.score = score]
    BY <1>1, <1>8 DEF Rescored
  <2>2. PICK v : v = score
    OBVIOUS
  <2>3. op = [registered |-> chain[a].registered, stake |-> chain[a].stake, score |-> v]
    BY <1>5, <2>1, <2>2 DEF ChainEntry
  <2>4. v \in Nat
    BY <2>2, OperatorAssumption
  <2>5. op \in ChainEntry /\ op.registered = chain[a].registered /\ op.stake = chain[a].stake
    BY <1>5, <2>3, <2>4 DEF ChainEntry
  <2> QED BY <1>1, <1>4, <1>5, <2>5
<1> QED BY <1>1, <1>6, <1>7, <1>8 DEF Effects

LEMMA SettledInv ==
  ASSUME IInv, NEW t \in DOMAIN txs, NEW status \in {"finalized", "failed"},
         Settles(t, status), UNCHANGED <<row, request>>,
         chain' \in [Objects -> ChainEntry],
         \A a \in Objects : ChainFits(a)' \/ chain'[a] = chain[a]
  PROVE  IInv'
<1>1. ClientInv' /\ Grows /\ UNCHANGED client
  BY SettlesInv DEF IInv
<1>2. Len(txs') = Len(txs)
  BY SettlesGrows DEF IInv, ClientInv
<1>3. TypeOK'
  BY <1>1 DEF IInv, ClientInv, TypeOK, ChainEntry
<1>4. RowsKeep /\ RequestsKeep
  BY DEF RowsKeep, RequestsKeep
<1>5. /\ \A a \in Objects : client'[a] = NoSession /\ row'[a] = row[a]
      /\ \A r \in Requests : request'[r] = request[r] /\ client'[r] = client[r]
  BY <1>1 DEF IInv
<1> QED BY <1>1, <1>2, <1>3, <1>4, <1>5, Assembled

LEMMA FinalizeInv == ASSUME IInv, NEW t \in DOMAIN txs, Finalize(t) PROVE IInv'
<1>1. /\ Settles(t, "finalized") /\ UNCHANGED <<row, request>>
      /\ \E op \in Effects(t) : chain' = [chain EXCEPT ![txs[t].on] = op]
  BY DEF Finalize
<1>2. PICK op \in Effects(t) : chain' = [chain EXCEPT ![txs[t].on] = op]
  BY <1>1
<1>3. PICK a : a = txs[t].on
  OBVIOUS
<1>4. /\ a \in Objects /\ op \in ChainEntry
      /\ op.registered => row[a].exists /\ op.stake = request[row[a].by].stake
  BY <1>3, EffectFits
<1>5. /\ chain' \in [Objects -> ChainEntry] /\ chain'[a] = op
      /\ \A b \in Objects : b # a => chain'[b] = chain[b]
  BY <1>2, <1>3, <1>4, Types DEF ChainEntry
<1>6. ChainFits(a)'
  BY <1>1, <1>4, <1>5 DEF ChainFits
<1> QED BY <1>1, <1>5, <1>6, SettledInv

LEMMA FailInv == ASSUME IInv, NEW t \in DOMAIN txs, Fail(t) PROVE IInv'
BY SettledInv, Types DEF Fail, ChainEntry

LEMMA RequestStepInv == ASSUME IInv, NEW r \in Requests, RequestStep(r) PROVE IInv'
BY InsertInv, KeyInv, ViewInv, InClientInv, NothingSentInv, SentInv, PolledInv, ComputedInv,
   UndeterminedInv, ReadInv, WriteInv DEF RequestStep

LEMMA StutterInv == ASSUME IInv, UNCHANGED vars PROVE IInv'
BY DEF vars, IInv, ClientInv, ClientTypeOK, SessionFits, TypeOK, RequestFits, OwnRow, IsFinal,
       TxFits, RowFits, ChainFits

LEMMA NextInv == ASSUME IInv, [Next]_vars PROVE IInv'
<1>1. CASE \E t \in DOMAIN txs : Finalize(t) \/ Fail(t)
  BY <1>1, FinalizeInv, FailInv
<1>2. ASSUME NEW r \in Requests, NEW a \in Objects, BeginReputation(r, a) PROVE IInv'
  BY <1>2, Begins
<1>3. ASSUME NEW r \in Requests, NEW a \in Objects, NEW stake \in Stakes,
             BeginCreate(r, a, stake) \/ BeginStake(r, a, stake)
      PROVE  IInv'
  BY <1>3, Begins
<1>4. ASSUME NEW r \in Requests, RequestStep(r) \/ Error(r) \/ Abandon(r) \/ LateSubmit(r)
      PROVE  IInv'
  BY <1>4, RequestStepInv, ErrorInv, AbandonInv, LateSubmitInv
<1>5. CASE UNCHANGED vars
  BY <1>5, StutterInv
<1> QED BY <1>1, <1>2, <1>3, <1>4, <1>5 DEF Next

-----------------------------------------------------------------------------
(***************************************************************************)
(* The theorems.                                                           *)
(***************************************************************************)

\* Requests, their sessions, the transactions they have sent, the rows they have
\* inserted and the chain fit together whenever the process stands still.
THEOREM Inductive == Spec => []IInv
BY InitInv, NextInv, PTL DEF Spec

\* Whatever the client, the database and the chain do, every variable keeps its type.
THEOREM TypeCorrect == Spec => []TypeOK
<1>1. IInv => TypeOK
  BY DEF IInv
<1> QED BY <1>1, Inductive, PTL

\* An operator on the chain has the stake its row's own request asked for, however
\* many requests for the address were abandoned, late or retried
\* (operators.py:196-207, 221-249).
THEOREM StakeStands == Spec => []StakeOfTheRow
<1>1. IInv => StakeOfTheRow
  BY DEF IInv, ChainFits, StakeOfTheRow
<1> QED BY <1>1, Inductive, PTL

LEMMA ScoreStep ==
  ASSUME IInv, [Next]_vars, NEW a \in Objects, row[a].exists, row'[a].score # row[a].score
  PROVE  \E r \in Requests :
           /\ Write(r)
           /\ IsFinal(client[r].tx)
           /\ txs[client[r].tx].call = "compute_reputation"
<1>1. \E r \in Requests : Insert(r) \/ Write(r)
  <2>1. row' # row
    OBVIOUS
  <2>2. ASSUME NEW t \in DOMAIN txs, Finalize(t) \/ Fail(t) PROVE FALSE
    BY <2>1, <2>2 DEF Finalize, Fail
  <2>3. ASSUME NEW r, NEW kind, NEW b, NEW stake, NEW pc, NEW status,
               Begin(r, kind, b, stake, pc, status)
        PROVE  FALSE
    BY <2>1, <2>3 DEF Begin
  <2>4. ASSUME NEW r \in Requests, NEW b \in Objects, BeginReputation(r, b) PROVE FALSE
    BY <2>3, <2>4 DEF BeginReputation
  <2>5. ASSUME NEW r \in Requests, NEW b \in Objects, NEW stake \in Stakes,
               BeginCreate(r, b, stake) \/ BeginStake(r, b, stake)
        PROVE  FALSE
    BY <2>3, <2>5 DEF BeginCreate, BeginStake
  <2>6. ASSUME NEW r \in Requests, Error(r) \/ Abandon(r) \/ LateSubmit(r) PROVE FALSE
    BY <2>1, <2>6 DEF Error, Abandon, LateSubmit
  <2>7. ASSUME NEW r \in Requests,
               \/ Key(r) \/ View(r) \/ InClient(r) \/ NothingSent(r) \/ Sent(r)
               \/ Polled(r) \/ Computed(r) \/ Undetermined(r) \/ Read(r)
        PROVE  FALSE
    BY <2>1, <2>7 DEF Key, View, InClient, NothingSent, Sent, Polled, Computed, Undetermined, Read
  <2>8. Next
    BY <2>1 DEF vars
  <2> QED BY <2>2, <2>4, <2>5, <2>6, <2>7, <2>8 DEF Next, RequestStep
<1>2. PICK r \in Requests : Insert(r) \/ Write(r)
  BY <1>1
<1>3. /\ request[r] # NoRequest /\ RequestFits(r) /\ SessionFits(r)
      /\ request[r].on \in Objects
  BY <1>2, RequestType, Apart DEF Insert, Write, Active, IInv, ClientInv
<1>4. row[a] \in Row /\ row \in [Objects -> Row \cup {NoRow}]
  BY Types DEF NoRow
<1>5. ~Insert(r)
  <2> SUFFICES ASSUME Insert(r) PROVE FALSE
    OBVIOUS
  <2>1. PICK b \in Objects : b = request[r].on
    BY <1>3
  <2>2. \/ UNCHANGED row
        \/ /\ ~row[b].exists
           /\ \E w : row' = [row EXCEPT ![b] = w]
    BY <2>1 DEF Insert, InsertRow
  <2> QED BY <2>2, <1>4
<1>6. Write(r) /\ request[r].pc = "write"
  BY <1>2, <1>5 DEF Write, Active
<1>7. ~Is(r, "stake")
  <2> SUFFICES ASSUME Is(r, "stake") PROVE FALSE
    OBVIOUS
  <2>1. PICK b \in Objects : b = request[r].on
    BY <1>3
  <2>2. PICK v : v = request[r].stake
    OBVIOUS
  <2>3. row' = [row EXCEPT ![b] = [row[b] EXCEPT !.stake = v]]
    BY <1>6, <2>1, <2>2 DEF Write
  <2>4. a = b
    BY <1>4, <2>3
  <2>5. row'[a] = [row[a] EXCEPT !.stake = v]
    BY <1>4, <2>3, <2>4
  <2> QED BY <1>4, <2>5 DEF Row
<1>8. request[r].kind = "reputation"
  BY <1>3, <1>6, <1>7, Kind DEF RequestFits, Is
<1>9. client[r] # NoSession /\ client[r].call = "compute_reputation" /\ IsFinal(client[r].tx)
  BY <1>3, <1>6, <1>8 DEF RequestFits
<1>10. txs[client[r].tx].call = "compute_reputation"
  BY <1>3, <1>9 DEF SessionFits, IsFinal
<1> QED BY <1>6, <1>9, <1>10

\* The score of an operator that is there changes only by a task whose own last
\* computation of the reputation is final (risk.py:112-150).
THEOREM ScoresFinal == Spec => ScoreIsFinal
<1>1. IInv /\ [Next]_vars =>
        [\A a \in Objects : row[a].exists /\ row'[a].score # row[a].score =>
           \E r \in Requests :
             /\ Write(r)
             /\ IsFinal(client[r].tx)
             /\ txs[client[r].tx].call = "compute_reputation"]_vars
  BY ScoreStep
<1> QED BY <1>1, Inductive, PTL DEF Spec, ScoreIsFinal
=============================================================================
