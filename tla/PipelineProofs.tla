---------------------------- MODULE PipelineProofs ----------------------------
(***************************************************************************)
(* Proofs about Pipelines for any cases, claims, incidents, requests and   *)
(* bounds: the order of a task's calls, what its row tells, and that       *)
(* payouts follow decisions.                                               *)
(*                                                                         *)
(* None of it shows in rows and transactions alone.  A second call follows *)
(* a final first one because the task has seen that one final, rounds and  *)
(* attempts earlier; a row shows a decision because the task read it, some *)
(* steps ago, and no call that is still under way takes a decision back.   *)
(* IInv says so for each task, request and transaction by where it is.     *)
(***************************************************************************)
EXTENDS Pipelines, ClientProofs

Settled == Decisions \cup {"paid"}

FirstDone(o) == \E u \in Of(o, FirstCall(o)) : txs[u].status = "finalized"

\* What the row of a claim shows.
Shown(o) == o \in Claims /\ row[o].status \in Decisions

\* Tasks send their two calls about their own object, requests reviews of cases
\* and payouts of claims, and a payout is about a claim whose row shows a decision.
Suits(c, o, call) ==
  /\ c \in Objects => o = c /\ call \in {FirstCall(o), SecondCall(o)}
  /\ c \in Requests => \/ o \in Cases /\ call \in ReviewCalls
                       \/ Shown(o) /\ call = "authorize_payout"

InCall == {"first", "second", "read", "write"}

\* Where a task is says what its session is about and what it has seen.
TaskFits(o) ==
  LET pc == task[o].pc
      s  == client[o]
  IN  /\ pc # "none" => row[o].status # "none"
      /\ pc \notin InCall => s = NoSession
      /\ pc \in InCall => s \in Session /\ s.on = o
      /\ pc = "first" => s.call = FirstCall(o)
      /\ pc \in InCall \ {"first"} => s.call = SecondCall(o) /\ FirstDone(o)
      /\ pc \in {"read", "write"} => s.pc = "returned" /\ IsFinal(s.tx)
      /\ o \in Claims /\ task[o].seen \in Settled => chain[o] \in Settled
      /\ pc # "ended" => ~Shown(o)

RequestFits(r) ==
  LET s == client[r]
  IN  /\ request[r].pc # "sent" => s = NoSession
      /\ request[r].pc = "sent" =>
           /\ s \in Session /\ s.on = request[r].on
           /\ Suits(r, s.on, s.call)

RowFits(o) ==
  /\ row[o].tx \in 0..Len(txs)
  /\ row[o].tx # 0 =>
       LET tx == txs[row[o].tx]
       IN  tx.on = o /\ (tx.by = o => tx.call = SecondCall(o) /\ tx.status = "finalized")
  /\ o \in Claims /\ row[o].status \in Decisions => chain[o] \in Settled

TxFits(t) == Suits(txs[t].by, txs[t].on, txs[t].call)

IInv ==
  /\ ClientInv
  /\ TypeOK
  /\ \A o \in Objects : TaskFits(o)
  /\ \A r \in Requests : RequestFits(r)
  /\ \A o \in Objects : RowFits(o)
  /\ \A t \in DOMAIN txs : TxFits(t)
  /\ StepOrder

-----------------------------------------------------------------------------
(***************************************************************************)
(* What steps keep.                                                        *)
(***************************************************************************)
LEMMA Callings ==
  ASSUME NEW o \in Objects
  PROVE  /\ FirstCall(o) \in Calls /\ SecondCall(o) \in Calls
         /\ FirstCall(o) # SecondCall(o)
         /\ Suits(o, o, FirstCall(o)) /\ Suits(o, o, SecondCall(o))
BY ClientAssumption, PipelineAssumption DEF FirstCall, SecondCall, Calls, Suits

\* A decision on a claim is never taken back.
ChainKeeps == \A o \in Claims : chain[o] \in Settled => chain'[o] \in Settled

\* Nor is a row, or what the row of a claim shows.
RowsStay == /\ \A o \in Objects : row[o].status # "none" => row'[o].status # "none"
            /\ \A o \in Claims : row[o].status \in Decisions => row'[o].status \in Decisions

LEMMA SuitsStable ==
  ASSUME RowsStay, NEW c, NEW o, NEW call, Suits(c, o, call)
  PROVE  Suits(c, o, call)'
BY DEF RowsStay, Suits, Shown

LEMMA FirstDoneStable ==
  ASSUME Grows, NEW o, FirstDone(o)
  PROVE  FirstDone(o)'
BY DEF Grows, FirstDone, Of

LEMMA FinalStable ==
  ASSUME ClientInv, Grows, NEW tx \in 0..Len(txs), IsFinal(tx)
  PROVE  IsFinal(tx)'
BY LenProperties DEF Grows, IsFinal, ClientInv, ClientTypeOK

\* A task that does nothing still fits.
LEMMA TaskStable ==
  ASSUME ClientInv, Grows, ChainKeeps, RowsStay, NEW o \in Objects, TaskFits(o),
         task'[o] = task[o], client'[o] = client[o], Shown(o)' => Shown(o)
  PROVE  TaskFits(o)'
<1>1. o \in Callers /\ SessionFits(o)
  BY DEF ClientInv, Callers
<1>2. client[o] \in Session => client[o].tx \in 0..Len(txs)
  BY <1>1, NoSessionIsNone DEF SessionFits
<1> QED BY <1>2, FinalStable, FirstDoneStable DEF TaskFits, InCall, ChainKeeps, RowsStay

LEMMA ShownStays ==
  ASSUME NEW o, o \in Claims => row'[o] = row[o]
  PROVE  Shown(o)' <=> Shown(o)
BY DEF Shown

LEMMA RequestStable ==
  ASSUME RowsStay, NEW r \in Requests, RequestFits(r),
         request'[r] = request[r], client'[r] = client[r]
  PROVE  RequestFits(r)'
BY SuitsStable DEF RequestFits

LEMMA RowStable ==
  ASSUME ClientInv, Grows, ChainKeeps, NEW o \in Objects, RowFits(o), row'[o] = row[o]
  PROVE  RowFits(o)'
<1>1. Len(txs) \in Nat /\ DOMAIN txs = 1..Len(txs) /\ Len(txs) <= Len(txs')
  BY LenProperties DEF ClientInv, ClientTypeOK, Grows
<1>2. row[o].tx \in 0..Len(txs)
  BY DEF RowFits
<1>3. (row[o].tx \in 0..Len(txs))'
  BY <1>1, <1>2, LenProperties
<1> QED BY <1>1, <1>2, <1>3 DEF RowFits, Grows, ChainKeeps

\* A transaction more fits if it suits and comes in order.
Orderly(c) ==
  /\ Sends(c)
  /\ Suits(c, client[c].on, client[c].call)
  /\ c \in Objects /\ client[c].call = SecondCall(c) => FirstDone(c)

LEMMA TxsStable ==
  ASSUME IInv, ClientInv', Grows, RowsStay,
         Len(txs') = Len(txs) \/ \E c \in Callers : Orderly(c)
  PROVE  /\ \A t \in DOMAIN txs' : TxFits(t)'
         /\ StepOrder'
<1>1. /\ DOMAIN txs = 1..Len(txs) /\ Len(txs) \in Nat
      /\ DOMAIN txs' = 1..Len(txs') /\ Len(txs') \in Nat
  BY LenProperties DEF IInv, ClientInv, ClientTypeOK
<1>2. ASSUME NEW t \in DOMAIN txs
      PROVE  /\ TxFits(t)'
             /\ \A o \in Objects : t \in Of(o, SecondCall(o))' =>
                  \E u \in Of(o, FirstCall(o))' : u < t /\ txs'[u].status = "finalized"
  <2>1. TxFits(t)'
    BY <1>2, SuitsStable DEF TxFits, IInv, Grows
  <2>2. ASSUME NEW o \in Objects, t \in Of(o, SecondCall(o))'
        PROVE  \E u \in Of(o, FirstCall(o))' : u < t /\ txs'[u].status = "finalized"
    <3>1. t \in Of(o, SecondCall(o))
      BY <1>2, <2>2 DEF Of, Grows
    <3>2. PICK u \in Of(o, FirstCall(o)) : u < t /\ txs[u].status = "finalized"
      BY <3>1 DEF IInv, StepOrder
    <3> QED BY <3>2 DEF Of, Grows
  <2> QED BY <2>1, <2>2
<1>3. CASE Len(txs') = Len(txs)
  BY <1>1, <1>2, <1>3 DEF StepOrder, Of
<1>4. ASSUME NEW c \in Callers, Orderly(c)
      PROVE  /\ \A t \in DOMAIN txs' : TxFits(t)'
             /\ StepOrder'
  <2>0. PICK n : n = Len(txs')
    OBVIOUS
  <2>1. n = Len(txs) + 1 /\ n = Len(txs') /\ txs'[n].by = c /\ txs'[n].on = client[c].on
        /\ txs'[n].call = client[c].call
    BY <1>4, <2>0 DEF Orderly, Sends
  <2>2. TxFits(n)'
    BY <1>4, <2>1, SuitsStable DEF TxFits, Orderly
  <2>3. ASSUME NEW o \in Objects, n \in Of(o, SecondCall(o))'
        PROVE  \E u \in Of(o, FirstCall(o))' : u < n /\ txs'[u].status = "finalized"
    <3>1. FirstDone(o)
      BY <1>4, <2>1, <2>3 DEF Orderly, Of
    <3>2. PICK u \in Of(o, FirstCall(o)) : txs[u].status = "finalized"
      BY <3>1 DEF FirstDone
    <3>3. u \in Of(o, FirstCall(o))' /\ txs'[u].status = "finalized"
      BY <3>2 DEF Of, Grows
    <3>4. u \in 1..Len(txs)
      BY <1>1, <3>2 DEF Of
    <3>5. u < n
      <4>1. PICK m \in Nat : m = Len(txs)
        BY <1>1
      <4> QED BY <2>1, <3>4, <4>1
    <3> QED BY <3>3, <3>5
  <2>4. ASSUME NEW t \in DOMAIN txs' PROVE t \in DOMAIN txs \/ t = n
    <3>1. PICK m \in Nat : m = Len(txs)
      BY <1>1
    <3>2. t \in 1..(m + 1) /\ n = m + 1 /\ DOMAIN txs = 1..m
      BY <1>1, <2>1, <3>1
    <3> QED BY <3>2
  <2>5. StepOrder'
    <3> SUFFICES ASSUME NEW o \in Objects, NEW t \in Of(o, SecondCall(o))'
                 PROVE  \E u \in Of(o, FirstCall(o))' : u < t /\ txs'[u].status = "finalized"
      BY DEF StepOrder
    <3>1. t \in DOMAIN txs'
      BY DEF Of
    <3> QED BY <1>2, <2>3, <2>4, <3>1
  <2> QED BY <1>2, <2>2, <2>4, <2>5
<1> QED BY <1>3, <1>4

\* The invariant is kept when everything that changes fits.
LEMMA Assembled ==
  ASSUME IInv, ClientInv', TypeOK', Grows, ChainKeeps, RowsStay,
         \A o \in Objects :
           \/ TaskFits(o)'
           \/ task'[o] = task[o] /\ client'[o] = client[o] /\ (Shown(o)' => Shown(o)),
         \A r \in Requests :
           RequestFits(r)' \/ (request'[r] = request[r] /\ client'[r] = client[r]),
         \A o \in Objects : RowFits(o)' \/ row'[o] = row[o],
         Len(txs') = Len(txs) \/ \E c \in Callers : Orderly(c)
  PROVE  IInv'
<1>1. \A o \in Objects : TaskFits(o)'
  BY TaskStable DEF IInv
<1>2. \A r \in Requests : RequestFits(r)'
  BY RequestStable DEF IInv
<1>3. \A o \in Objects : RowFits(o)'
  BY RowStable DEF IInv
<1> QED BY <1>1, <1>2, <1>3, TxsStable DEF IInv

TaskRecord == [pc : TaskPc, round : 1..MaxRounds, seen : Stages \cup {"unknown"}]

RowRecord == [status : RowStatus, tx : 0..MaxTxs]

RequestRecord ==
  [pc : {"none", "sent", "ended"}, on : Objects \cup {"none"}, tx : 0..MaxTxs]

LEMMA Apart == /\ \A o \in Objects : o \in Callers /\ o \notin Requests
               /\ \A r \in Requests : r \in Callers /\ r \notin Objects
BY ClientAssumption DEF Callers

-----------------------------------------------------------------------------
(***************************************************************************)
(* The steps.                                                              *)
(***************************************************************************)
LEMMA InitInv == Init => IInv
<1> SUFFICES ASSUME Init PROVE IInv
  OBVIOUS
<1>1. txs = <<>> /\ Len(txs) = 0 /\ txs \in Seq(Tx) /\ DOMAIN txs = {}
  BY DEF Init, ClientInit
<1>2. ClientTypeOK
  BY <1>1 DEF Init, ClientInit, ClientTypeOK
<1>3. ClientInv
  BY <1>1, <1>2, ClientAssumption DEF Init, ClientInit, ClientInv, SessionFits
<1>4. TypeOK
  BY <1>2, ClientAssumption, PipelineAssumption
     DEF Init, TypeOK, NoTask, NoRequest, Stages, RowStatus, TaskPc
<1>5. \A o \in Objects : TaskFits(o)
  BY Apart DEF Init, ClientInit, TaskFits, NoTask, InCall, Settled, Decisions, Shown
<1>6. \A r \in Requests : RequestFits(r)
  BY Apart DEF Init, ClientInit, RequestFits, NoRequest
<1>7. ASSUME NEW o \in Objects PROVE RowFits(o)
  <2>1. row[o] = [status |-> "none", tx |-> 0]
    BY DEF Init
  <2>2. row[o].status = "none" /\ row[o].tx = 0
    BY <2>1
  <2>3. row[o].status \notin Decisions
    BY <2>2 DEF Decisions
  <2> QED BY <1>1, <2>2, <2>3 DEF RowFits
<1>8. (\A t \in DOMAIN txs : TxFits(t)) /\ StepOrder
  BY <1>1 DEF StepOrder, Of
<1> QED BY <1>3, <1>4, <1>5, <1>6, <1>7, <1>8 DEF IInv

\* A task goes on, and may write its row; nothing is sent.
LEMMA TaskMoves ==
  ASSUME IInv, NEW o \in Objects, UNCHANGED <<txs, chain, request>>,
         NEW d \in TaskRecord, task' = [task EXCEPT ![o] = d],
         NEW s \in Session \cup {NoSession}, client' = [client EXCEPT ![o] = s],
         s = client[o] \/ s = NoSession \/ (s.tx = 0 /\ s.pc = "submit"),
         TaskFits(o)',
         NEW w \in RowRecord, row' = [row EXCEPT ![o] = w], RowFits(o)',
         w.status # "none" \/ row[o].status = "none", Shown(o) => w.status \in Decisions
  PROVE  IInv'
<1>1. o \in Callers /\ o \notin Requests /\ client \in [Callers -> Session \cup {NoSession}]
      /\ task \in [Objects -> TaskRecord] /\ row \in [Objects -> RowRecord]
  BY Apart DEF IInv, ClientInv, ClientTypeOK, TypeOK, TaskRecord, RowRecord
<1>2. /\ client' \in [Callers -> Session \cup {NoSession}] /\ client'[o] = s
      /\ \A c \in Callers : c # o => client'[c] = client[c]
  BY <1>1
<1>3. ClientInv' /\ Grows
  BY <1>2, SessionsInv DEF IInv
<1>4. task' \in [Objects -> TaskRecord] /\ row' \in [Objects -> RowRecord]
  BY <1>1
<1>5. TypeOK'
  BY <1>3, <1>4 DEF IInv, ClientInv, TypeOK, TaskRecord, RowRecord
<1>6. ChainKeeps /\ RowsStay
  BY <1>1, PipelineAssumption DEF ChainKeeps, RowsStay, Shown
<1>7. \A p \in Objects : p # o => task'[p] = task[p] /\ client'[p] = client[p] /\ row'[p] = row[p]
  BY <1>1, <1>2, Apart
<1>8. \A r \in Requests : request'[r] = request[r] /\ client'[r] = client[r]
  BY <1>1, <1>2, Apart
<1>9. \A p \in Objects : p # o => (Shown(p)' => Shown(p))
  BY <1>7 DEF Shown
<1> QED BY <1>9, <1>3, <1>5, <1>6, <1>7, <1>8, Assembled

LEMMA Types ==
  ASSUME IInv
  PROVE  /\ task \in [Objects -> TaskRecord] /\ row \in [Objects -> RowRecord]
         /\ request \in [Requests -> RequestRecord]
         /\ client \in [Callers -> Session \cup {NoSession}]
         /\ chain \in [Objects -> Stages]
         /\ txs \in Seq(Tx) /\ DOMAIN txs = 1..Len(txs) /\ Len(txs) \in 0..MaxTxs
BY LenProperties, ClientAssumption
   DEF IInv, ClientInv, ClientTypeOK, TypeOK, TaskRecord, RowRecord, RequestRecord

LEMMA CreateInv ==
  ASSUME IInv, NEW o \in Objects, Create(o)
  PROVE  IInv'
<1> DEFINE d == [task[o] EXCEPT !.pc = "queued"]
           w == [row[o] EXCEPT !.status = InitialStatus(o)]
<1>1. /\ task[o] \in TaskRecord /\ row[o] \in RowRecord /\ client[o] \in Session \cup {NoSession}
  BY Types, Apart
<1>2. /\ InitialStatus(o) \in {"pending", "submitted", "open"}
  BY PipelineAssumption DEF InitialStatus
<1>3. d \in TaskRecord /\ d.pc = "queued" /\ d.seen = task[o].seen
  BY <1>1 DEF TaskRecord, TaskPc
<1>4. w \in RowRecord /\ w.status # "none" /\ w.tx = row[o].tx /\ w.status \notin Decisions
  BY <1>1, <1>2 DEF RowRecord, RowStatus, Decisions
<1>5. /\ task' = [task EXCEPT ![o] = d] /\ row' = [row EXCEPT ![o] = w]
      /\ UNCHANGED <<txs, client, chain, request>> /\ row[o].status = "none"
  BY DEF Create, clientVars
<1> HIDE DEF d, w
<1>6. task'[o] = d /\ row'[o] = w /\ client' = [client EXCEPT ![o] = client[o]]
  BY <1>5, Types, Apart
<1>7. TaskFits(o)'
  BY <1>3, <1>4, <1>5, <1>6 DEF IInv, TaskFits, InCall, Shown
<1>8. RowFits(o)'
  BY <1>4, <1>5, <1>6 DEF IInv, RowFits
<1>9. ~Shown(o)
  BY <1>5 DEF Shown, Decisions
<1> QED BY <1>9, <1>1, <1>3, <1>4, <1>5, <1>6, <1>7, <1>8, TaskMoves

\* A task enters a call with a fresh session.
LEMMA EnterInv ==
  ASSUME IInv, NEW o \in Objects, NEW pc \in {"first", "second"}, Enter(o, pc),
         row[o].status # "none", ~Shown(o), pc = "second" => FirstDone(o)
  PROVE  IInv'
<1> DEFINE d == [task[o] EXCEPT !.pc = pc, !.round = 1]
           s == NewSession(o, CallOf(o, pc))
<1>1. task[o] \in TaskRecord /\ row[o] \in RowRecord /\ TaskFits(o) /\ RowFits(o)
  BY Types DEF IInv
<1>2. d \in TaskRecord /\ d.pc = pc /\ d.seen = task[o].seen
  <2>1. 1 \in 1..MaxRounds /\ pc \in TaskPc
    BY PipelineAssumption DEF TaskPc
  <2> QED BY <1>1, <2>1 DEF TaskRecord
<1>3. /\ s \in Session /\ s.on = o /\ s.tx = 0 /\ s.pc = "submit"
      /\ s.call = IF pc = "first" THEN FirstCall(o) ELSE SecondCall(o)
  BY Callings, NewSessionType DEF CallOf
<1>4. /\ task' = [task EXCEPT ![o] = d] /\ client' = [client EXCEPT ![o] = s]
      /\ UNCHANGED <<txs, chain, row, request>>
  BY DEF Enter
<1> HIDE DEF d, s
<1>5. task'[o] = d /\ client'[o] = s /\ row' = [row EXCEPT ![o] = row[o]]
  BY <1>4, Types, Apart
<1>6. TaskFits(o)'
  BY <1>1, <1>2, <1>3, <1>4, <1>5 DEF TaskFits, InCall, FirstDone, Of, Shown
<1>7. RowFits(o)'
  BY <1>1, <1>4 DEF RowFits
<1>8. Shown(o) => row[o].status \in Decisions
  BY DEF Shown
<1> QED BY <1>8, <1>1, <1>2, <1>3, <1>4, <1>5, <1>6, <1>7, TaskMoves

\* A task ends, and may have written its row.
LEMMA EndInv ==
  ASSUME IInv, NEW o \in Objects, End(o), row[o].status # "none",
         NEW w \in RowRecord, row' = [row EXCEPT ![o] = w], RowFits(o)', w.status # "none",
         Shown(o) => w.status \in Decisions
  PROVE  IInv'
<1> DEFINE d == [task[o] EXCEPT !.pc = "ended"]
<1>1. task[o] \in TaskRecord /\ TaskFits(o)
  BY Types DEF IInv
<1>2. d \in TaskRecord /\ d.pc = "ended" /\ d.seen = task[o].seen
  BY <1>1 DEF TaskRecord, TaskPc
<1>3. /\ task' = [task EXCEPT ![o] = d] /\ client' = [client EXCEPT ![o] = NoSession]
      /\ UNCHANGED <<txs, chain, request>>
  BY DEF End
<1> HIDE DEF d
<1>4. task'[o] = d /\ client'[o] = NoSession /\ row'[o] = w
  BY <1>3, Types, Apart
<1>5. TaskFits(o)'
  BY <1>1, <1>2, <1>3, <1>4 DEF TaskFits, InCall
<1> QED BY <1>2, <1>3, <1>5, TaskMoves

\* The same, with the row left alone.
LEMMA EndsInv ==
  ASSUME IInv, NEW o \in Objects, End(o), row[o].status # "none", UNCHANGED row
  PROVE  IInv'
<1>1. row[o] \in RowRecord /\ row' = [row EXCEPT ![o] = row[o]]
  BY Types
<1>2. UNCHANGED <<txs, chain>>
  BY DEF End
<1>3. RowFits(o)'
  BY <1>2 DEF IInv, RowFits
<1> QED BY <1>1, <1>3, EndInv DEF Shown

LEMMA BeginInv == ASSUME IInv, NEW o \in Objects, Begin(o) PROVE IInv'
<1>1. row[o].status # "none" /\ ~Shown(o)
  BY DEF Begin, IInv, TaskFits
<1> QED BY <1>1, EnterInv, EndsInv DEF Begin

LEMMA NothingSentInv == ASSUME IInv, NEW o \in Objects, NothingSent(o) PROVE IInv'
<1>1. row[o].status # "none"
  BY DEF NothingSent, Returned, IInv, TaskFits
<1> QED BY <1>1, EndsInv DEF NothingSent

\* What a task holds is final, and is the call it is at.
LEMMA ConfirmedCall ==
  ASSUME IInv, NEW o \in Objects, Returned(o), IsFinal(client[o].tx)
  PROVE  task[o].pc = "first" => FirstDone(o)
<1>1. SessionFits(o) /\ TaskFits(o) /\ client[o] # NoSession
  BY Apart DEF IInv, ClientInv, Returned, NoSession
<1>2. client[o].tx \in DOMAIN txs
  BY <1>1, Types DEF SessionFits, IsFinal
<1> QED BY <1>1, <1>2 DEF SessionFits, TaskFits, IsFinal, FirstDone, Of

\* A task that keeps its session and its row.
LEMMA TaskStepsOn ==
  ASSUME IInv, NEW o \in Objects, NEW d \in TaskRecord, task' = [task EXCEPT ![o] = d],
         UNCHANGED <<clientVars, chain, row, request>>, TaskFits(o)'
  PROVE  IInv'
<1>1. /\ client[o] \in Session \cup {NoSession} /\ row[o] \in RowRecord
      /\ client' = [client EXCEPT ![o] = client[o]] /\ row' = [row EXCEPT ![o] = row[o]]
  BY Types, Apart DEF clientVars
<1>2. RowFits(o)'
  BY DEF IInv, RowFits, clientVars
<1> QED BY <1>1, <1>2, TaskMoves DEF clientVars, Shown

LEMMA ConfirmedInv == ASSUME IInv, NEW o \in Objects, Confirmed(o) PROVE IInv'
<1>1. /\ Returned(o) /\ IsFinal(client[o].tx) /\ task[o] \in TaskRecord /\ TaskFits(o)
  BY Types DEF Confirmed, IInv
<1>2. CASE task[o].pc = "first"
  BY <1>1, <1>2, ConfirmedCall, EnterInv DEF Confirmed, TaskFits
<1>3. CASE task[o].pc = "second"
  <2> DEFINE d == [task[o] EXCEPT !.pc = "read"]
  <2>1. d \in TaskRecord /\ d.pc = "read" /\ d.seen = task[o].seen
    BY <1>1 DEF TaskRecord, TaskPc
  <2>2. task' = [task EXCEPT ![o] = d] /\ UNCHANGED <<clientVars, chain, row, request>>
    BY <1>3 DEF Confirmed
  <2> HIDE DEF d
  <2>3. task'[o] = d
    BY <2>2, Types
  <2>4. TaskFits(o)'
    BY <1>1, <1>3, <2>1, <2>2, <2>3
       DEF TaskFits, InCall, Returned, IsFinal, FirstDone, Of, clientVars, Shown
  <2> QED BY <2>1, <2>2, <2>4, TaskStepsOn
<1> QED BY <1>1, <1>2, <1>3 DEF Returned

LEMMA UnconfirmedInv == ASSUME IInv, NEW o \in Objects, Unconfirmed(o) PROVE IInv'
<1>1. Returned(o) /\ task[o] \in TaskRecord /\ TaskFits(o) /\ RowFits(o) /\ row[o] \in RowRecord
  BY Types DEF Unconfirmed, IInv
<1>2. row[o].status # "none"
  BY <1>1 DEF TaskFits, Returned
<1>3. CASE LastRound(o)
  BY <1>2, <1>3, EndsInv DEF LastRound
<1>4. CASE NewRound(o)
  <2> DEFINE d == [task[o] EXCEPT !.round = @ + 1]
             s == NewSession(o, CallOf(o, task[o].pc))
  <2>1. d \in TaskRecord /\ d.pc = task[o].pc /\ d.seen = task[o].seen
    <3>1. task[o].round + 1 \in 1..MaxRounds
      BY <1>1, <1>4, PipelineAssumption DEF NewRound, TaskRecord
    <3>2. PICK n : n = task[o].round + 1
      OBVIOUS
    <3>3. d = [task[o] EXCEPT !.round = n]
      BY <3>2
    <3> QED BY <1>1, <3>1, <3>2, <3>3 DEF TaskRecord
  <2>2. /\ s \in Session /\ s.on = o /\ s.tx = 0 /\ s.pc = "submit"
        /\ s.call = IF task[o].pc = "first" THEN FirstCall(o) ELSE SecondCall(o)
    BY Callings, NewSessionType DEF CallOf
  <2>3. /\ task' = [task EXCEPT ![o] = d] /\ client' = [client EXCEPT ![o] = s]
        /\ UNCHANGED <<txs, chain, row, request>>
    BY <1>4 DEF NewRound
  <2> HIDE DEF d, s
  <2>4. task'[o] = d /\ client'[o] = s /\ row' = [row EXCEPT ![o] = row[o]]
    BY <2>3, Types, Apart
  <2>5. TaskFits(o)'
    BY <1>1, <2>1, <2>2, <2>3, <2>4 DEF TaskFits, InCall, FirstDone, Of, Returned, Shown
  <2>6. RowFits(o)'
    BY <1>1, <2>3 DEF RowFits
  <2> QED BY <1>1, <1>2, <2>1, <2>2, <2>3, <2>4, <2>5, <2>6, TaskMoves DEF Shown
<1> QED BY <1>3, <1>4 DEF Unconfirmed

LEMMA ReadInv == ASSUME IInv, NEW o \in Objects, Read(o) PROVE IInv'
<1>1. PICK seen \in {chain[o], "unknown"} :
        task' = [task EXCEPT ![o] = [task[o] EXCEPT !.pc = "write", !.seen = seen]]
  BY DEF Read
<1>2. PICK d : d = [task[o] EXCEPT !.pc = "write", !.seen = seen]
  OBVIOUS
<1>3. task[o] \in TaskRecord /\ chain[o] \in Stages /\ TaskFits(o) /\ task[o].pc = "read"
  BY Types DEF IInv, Read
<1>4. d \in TaskRecord /\ d.pc = "write" /\ d.seen = seen
  BY <1>2, <1>3 DEF TaskRecord, TaskPc
<1>5. UNCHANGED <<clientVars, chain, row, request>> /\ task' = [task EXCEPT ![o] = d]
  BY <1>1, <1>2 DEF Read
<1>6. task'[o] = d
  BY <1>5, Types
<1>7. seen \in Settled => chain[o] \in Settled
  BY <1>1 DEF Settled, Decisions
<1>8. TaskFits(o)'
  BY <1>3, <1>4, <1>5, <1>6, <1>7 DEF TaskFits, InCall, IsFinal, FirstDone, Of, clientVars, Shown
<1> QED BY <1>4, <1>5, <1>8, TaskStepsOn

LEMMA WriteInv == ASSUME IInv, NEW o \in Objects, Write(o) PROVE IInv'
<1>1. /\ task[o] \in TaskRecord /\ TaskFits(o) /\ RowFits(o) /\ task[o].pc = "write" /\ End(o)
      /\ row[o].status # "none"
  BY Types DEF IInv, Write, TaskFits
<1>2. CASE UNCHANGED row
  BY <1>1, <1>2, EndsInv
<1>3. CASE row' = [row EXCEPT ![o] = [status |-> SyncedStatus(o, task[o].seen),
                                      tx |-> client[o].tx]]
  <2> DEFINE w == [status |-> SyncedStatus(o, task[o].seen), tx |-> client[o].tx]
  <2>1. w.status = SyncedStatus(o, task[o].seen) /\ w.tx = client[o].tx
    OBVIOUS
  <2>2. /\ SyncedStatus(o, task[o].seen) \in RowStatus \ {"none"}
        /\ o \in Claims /\ SyncedStatus(o, task[o].seen) \in Decisions => chain[o] \in Settled
    BY <1>1, PipelineAssumption DEF SyncedStatus, RowStatus, TaskFits, Settled, Decisions
  <2>3. /\ client[o] \in Session /\ client[o].tx \in 0..Len(txs) /\ client[o].tx # 0
        /\ LET tx == txs[client[o].tx]
           IN  tx.by = o /\ tx.on = o /\ tx.call = SecondCall(o) /\ tx.status = "finalized"
    <3>1. SessionFits(o) /\ client[o] \in Session
      BY <1>1, Apart DEF IInv, ClientInv, TaskFits, InCall
    <3> QED BY <1>1, <3>1, NoSessionIsNone DEF SessionFits, TaskFits, InCall, IsFinal
  <2>4. w \in RowRecord
    BY <2>2, <2>3, Types, ClientAssumption DEF RowRecord, Session
  <2>5. row' = [row EXCEPT ![o] = w]
    BY <1>3
  <2> HIDE DEF w
  <2>6. row'[o] = w /\ UNCHANGED <<txs, chain>>
    BY <1>1, <2>5, Types DEF End
  <2>7. RowFits(o)'
    BY <2>1, <2>2, <2>3, <2>6 DEF RowFits
  <2>8. ~Shown(o)
    BY <1>1 DEF TaskFits
  <2> QED BY <2>8, <1>1, <2>1, <2>2, <2>4, <2>5, <2>7, EndInv
<1> QED BY <1>2, <1>3 DEF Write

\* A caller goes on inside the client.
LEMMA InClientInv ==
  ASSUME IInv, NEW c \in Callers, InClient(c), c \in Objects => task[c].pc \in {"first", "second"},
         c \in Requests => request[c].pc = "sent"
  PROVE  IInv'
<1>1. UNCHANGED <<chain, row, task, request>> /\ ClientStep(c)
  BY DEF InClient
<1>2. PICK s \in Session : Continues(c, s)
  BY <1>1, StepOfSession DEF IInv
<1>3. client' = [client EXCEPT ![c] = s] /\ s.on = client[c].on /\ s.call = client[c].call
  BY <1>2 DEF Continues
<1>4. /\ client'[c] = s
      /\ \A b \in Callers : b # c => client'[b] = client[b]
  BY <1>3, Types
<1>5. /\ ClientInv' /\ Grows /\ client[c] \in Session
      /\ UNCHANGED txs \/ Sends(c)
  BY <1>1, ClientStepInv, StepOfSession DEF IInv
<1>6. ChainKeeps /\ RowsStay
  BY <1>1 DEF ChainKeeps, RowsStay
<1>7. TypeOK'
  BY <1>1, <1>5 DEF IInv, TypeOK, ClientInv
<1>8. ASSUME c \in Objects PROVE TaskFits(c)' /\ Suits(c, client[c].on, client[c].call)
  <2>1. TaskFits(c) /\ task[c].pc \in {"first", "second"}
    BY <1>8 DEF IInv
  <2>2. TaskFits(c)'
    BY <1>1, <1>3, <1>4, <1>5, <2>1, FirstDoneStable, ShownStays DEF TaskFits, InCall
  <2> QED BY <1>8, <2>1, <2>2, Callings DEF TaskFits, InCall
<1>9. ASSUME c \in Requests PROVE RequestFits(c)' /\ Suits(c, client[c].on, client[c].call)
  <2>1. RequestFits(c) /\ request[c].pc = "sent"
    BY <1>9 DEF IInv
  <2> QED BY <1>1, <1>3, <1>4, <1>6, <2>1, SuitsStable DEF RequestFits
<1>10. Len(txs') = Len(txs) \/ Orderly(c)
  <2>1. Suits(c, client[c].on, client[c].call)
    BY <1>8, <1>9 DEF Callers
  <2>2. c \in Objects /\ client[c].call = SecondCall(c) => FirstDone(c)
    BY Callings DEF IInv, TaskFits, InCall
  <2> QED BY <1>5, <2>1, <2>2 DEF Orderly
<1>11. \A o \in Objects : TaskFits(o)' \/ (task'[o] = task[o] /\ client'[o] = client[o])
  BY <1>1, <1>4, <1>8, Apart
<1>12. \A r \in Requests :
         RequestFits(r)' \/ (request'[r] = request[r] /\ client'[r] = client[r])
  BY <1>1, <1>4, <1>9, Apart
<1>13. \A o \in Objects : row'[o] = row[o] /\ (Shown(o)' => Shown(o))
  BY <1>1, ShownStays
<1> QED BY <1>5, <1>6, <1>7, <1>10, <1>11, <1>12, <1>13, Assembled

LEMMA TaskStepInv == ASSUME IInv, NEW o \in Objects, TaskStep(o) PROVE IInv'
<1>1. CASE InClient(o)
  <2>1. client[o] # NoSession /\ client[o].pc # "returned"
    BY <1>1 DEF InClient, ClientStep, Submit, SubmitRaises, PollSucceeds, PollGivesUp, NoSession
  <2>2. task[o].pc \in {"first", "second"}
    BY <2>1 DEF IInv, TaskFits, InCall
  <2> QED BY <1>1, <2>2, Apart, InClientInv
<1> QED BY <1>1, BeginInv, NothingSentInv, ConfirmedInv, UnconfirmedInv, ReadInv, WriteInv
        DEF TaskStep

\* A request moves, and may write a row.
LEMMA RequestMoves ==
  ASSUME IInv, NEW r \in Requests, UNCHANGED <<txs, chain, task>>,
         NEW q \in RequestRecord, request' = [request EXCEPT ![r] = q],
         NEW s \in Session \cup {NoSession}, client' = [client EXCEPT ![r] = s],
         s = NoSession \/ (s.tx = 0 /\ s.pc = "submit"),
         RequestFits(r)',
         row' \in [Objects -> RowRecord], RowsStay, \A o \in Claims : row'[o] = row[o],
         \A o \in Objects : RowFits(o)' \/ row'[o] = row[o]
  PROVE  IInv'
<1>1. r \in Callers /\ r \notin Objects
  BY Apart
<1>2. /\ client' \in [Callers -> Session \cup {NoSession}] /\ client'[r] = s
      /\ \A c \in Callers : c # r => client'[c] = client[c]
  BY <1>1, Types
<1>3. ClientInv' /\ Grows
  BY <1>2, SessionsInv DEF IInv
<1>4. request' \in [Requests -> RequestRecord]
  BY Types
<1>5. TypeOK'
  BY <1>3, <1>4 DEF IInv, ClientInv, TypeOK, RowRecord, RequestRecord
<1>6. ChainKeeps
  BY DEF ChainKeeps
<1>7. \A o \in Objects :
        task'[o] = task[o] /\ client'[o] = client[o] /\ (Shown(o)' => Shown(o))
  BY <1>1, <1>2, Apart, ShownStays
<1>8. \A p \in Requests : p # r => request'[p] = request[p] /\ client'[p] = client[p]
  BY <1>2, Types, Apart
<1> QED BY <1>3, <1>5, <1>6, <1>7, <1>8, Assembled

\* A request is sent about an object.
LEMMA RequestSent ==
  ASSUME IInv, NEW r \in Requests, NEW o \in Objects,
         NEW call \in ReviewCalls \cup {"authorize_payout"}, Suits(r, o, call),
         UNCHANGED <<txs, chain, task>>,
         request' = [request EXCEPT ![r].pc = "sent", ![r].on = o],
         client' = [client EXCEPT ![r] = NewSession(o, call)],
         row' \in [Objects -> RowRecord], RowsStay, \A b \in Claims : row'[b] = row[b],
         \A b \in Objects : RowFits(b)' \/ row'[b] = row[b]
  PROVE  IInv'
<1> DEFINE q == [request[r] EXCEPT !.pc = "sent", !.on = o]
           s == NewSession(o, call)
<1>1. q \in RequestRecord /\ q.pc = "sent" /\ q.on = o
  BY Types DEF RequestRecord
<1>2. s \in Session /\ s.on = o /\ s.call = call /\ s.tx = 0 /\ s.pc = "submit"
  BY NewSessionType DEF Calls, ReviewCalls
<1>3. request' = [request EXCEPT ![r] = q] /\ client' = [client EXCEPT ![r] = s]
  BY Types
<1> HIDE DEF q, s
<1>4. request'[r] = q /\ client'[r] = s
  BY <1>3, Types, Apart
<1>5. Suits(r, o, call)'
  BY SuitsStable
<1>6. RequestFits(r)'
  BY <1>1, <1>2, <1>4, <1>5 DEF RequestFits
<1> QED BY <1>1, <1>2, <1>3, <1>6, RequestMoves

LEMMA ReviewInv ==
  ASSUME IInv, NEW r \in Requests, NEW o \in Cases, NEW call \in ReviewCalls, Review(r, o, call)
  PROVE  IInv'
<1> DEFINE status == IF call = "approve_slashing" THEN "approved" ELSE "rejected"
           w == [row[o] EXCEPT !.status = status]
<1>1. o \in Objects /\ o \notin Claims
  BY PipelineAssumption
<1>2. w \in RowRecord /\ w.tx = row[o].tx /\ w.status # "none"
  BY <1>1, Types DEF RowRecord, RowStatus, Decisions
<1>3. row' = [row EXCEPT ![o] = w] /\ UNCHANGED <<txs, chain, task>>
  BY DEF Review
<1> HIDE DEF w
<1>4. row' \in [Objects -> RowRecord] /\ row'[o] = w /\ \A b \in Objects : b # o => row'[b] = row[b]
  BY <1>1, <1>2, <1>3, Types
<1>5. RowFits(o)' /\ \A b \in Claims : row'[b] = row[b]
  BY <1>1, <1>2, <1>3, <1>4, PipelineAssumption DEF IInv, RowFits
<1>6. RowsStay
  BY <1>2, <1>4, <1>5 DEF RowsStay
<1>7. Suits(r, o, call)
  BY Apart DEF Suits
<1> QED BY <1>1, <1>3, <1>4, <1>5, <1>6, <1>7, RequestSent DEF Review

LEMMA PayoutInv ==
  ASSUME IInv, NEW r \in Requests, NEW o \in Claims, Payout(r, o)
  PROVE  IInv'
<1>1. o \in Objects
  BY PipelineAssumption
<1>2. Shown(o)
  BY DEF Payout, PayableRow, Shown, Decisions
<1>3. Suits(r, o, "authorize_payout")
  BY <1>2, Apart DEF Suits
<1>4. /\ RowsStay /\ row' \in [Objects -> RowRecord] /\ \A b \in Objects : row'[b] = row[b]
      /\ \A b \in Claims : row'[b] = row[b]
  BY Types DEF RowsStay, Payout
<1>5. "authorize_payout" \in ReviewCalls \cup {"authorize_payout"}
  OBVIOUS
<1> QED BY <1>1, <1>3, <1>4, <1>5, RequestSent DEF Payout

LEMMA AnswerInv == ASSUME IInv, NEW r \in Requests, Answer(r) PROVE IInv'
<1>1. PICK o : o = request[r].on
  OBVIOUS
<1>2. PICK tx : tx = client[r].tx
  OBVIOUS
<1>3. /\ request[r].pc = "sent" /\ UNCHANGED <<txs, chain, task>>
      /\ client' = [client EXCEPT ![r] = NoSession]
      /\ request' = [request EXCEPT ![r].pc = "ended", ![r].tx = tx]
      /\ row' = IF o \in Cases /\ tx # 0 THEN [row EXCEPT ![o].tx = tx] ELSE row
  BY <1>1, <1>2 DEF Answer
<1>4. client[r] \in Session /\ client[r].on = o /\ SessionFits(r) /\ o \in Objects
  BY <1>1, <1>3, Apart DEF IInv, ClientInv, RequestFits, Session
<1>5. /\ tx \in 0..Len(txs) /\ tx \in 0..MaxTxs
      /\ tx # 0 => txs[tx].by = r /\ txs[tx].on = o
  BY <1>2, <1>4, NoSessionIsNone DEF SessionFits, Session
<1> DEFINE q == [request[r] EXCEPT !.pc = "ended", !.tx = tx]
           w == [row[o] EXCEPT !.tx = tx]
<1>6. q \in RequestRecord /\ q.pc = "ended"
  BY <1>5, Types DEF RequestRecord
<1>7. w \in RowRecord /\ w.tx = tx /\ w.status = row[o].status
  BY <1>4, <1>5, Types DEF RowRecord
<1>8. request' = [request EXCEPT ![r] = q]
  BY <1>3, Types
<1>9. UNCHANGED row \/ (row' = [row EXCEPT ![o] = w] /\ o \in Cases /\ tx # 0)
  BY <1>3
<1> HIDE DEF q, w
<1>10. request'[r] = q /\ client'[r] = NoSession
  BY <1>3, <1>8, Types, Apart
<1>11. RequestFits(r)'
  BY <1>6, <1>10 DEF RequestFits
<1>12. /\ row' \in [Objects -> RowRecord] /\ RowsStay /\ \A b \in Claims : row'[b] = row[b]
       /\ \A b \in Objects : RowFits(b)' \/ row'[b] = row[b]
  <2>1. CASE UNCHANGED row
    BY <2>1, Types DEF RowsStay
  <2>2. CASE row' = [row EXCEPT ![o] = w] /\ o \in Cases /\ tx # 0
    <3>1. row' \in [Objects -> RowRecord] /\ row'[o] = w
          /\ \A b \in Objects : b # o => row'[b] = row[b]
      BY <1>4, <1>7, <2>2, Types
    <3>2. o \notin Claims /\ r # o
      BY <1>4, <2>2, PipelineAssumption, Apart
    <3>3. RowFits(o)'
      BY <1>3, <1>5, <1>7, <3>1, <3>2 DEF RowFits
    <3>4. \A b \in Claims : row'[b] = row[b]
      BY <3>1, <3>2, PipelineAssumption
    <3> QED BY <1>7, <3>1, <3>3, <3>4 DEF RowsStay
  <2> QED BY <1>9, <2>1, <2>2
<1> QED BY <1>3, <1>6, <1>8, <1>11, <1>12, RequestMoves

LEMMA RequestStepInv == ASSUME IInv, NEW r \in Requests, RequestStep(r) PROVE IInv'
<1>1. CASE InClient(r)
  <2>1. client[r] # NoSession
    BY <1>1 DEF InClient, ClientStep, Submit, SubmitRaises, PollSucceeds, PollGivesUp, NoSession
  <2>2. request[r].pc = "sent"
    BY <2>1 DEF IInv, RequestFits
  <2> QED BY <1>1, <2>2, Apart, InClientInv
<1> QED BY <1>1, AnswerInv DEF RequestStep

\* The chain.
LEMMA FinalizeInv == ASSUME IInv, NEW t \in DOMAIN txs, Finalize(t) PROVE IInv'
<1>1. PICK stage \in Effects(txs[t].call, chain[txs[t].on]) :
        chain' = [chain EXCEPT ![txs[t].on] = stage]
  BY DEF Finalize
<1>2. UNCHANGED <<row, task, request>> /\ Settles(t, "finalized")
  BY DEF Finalize
<1>3. ClientInv' /\ Grows /\ UNCHANGED client /\ Len(txs') = Len(txs)
  BY <1>2, SettlesInv, SettlesGrows DEF IInv, ClientInv
<1>4. txs[t] \in Tx /\ txs[t].on \in Objects
  <2>1. txs[t] \in Tx
    BY Types, ElementOfSeq
  <2> QED BY <2>1 DEF Tx
<1>5. stage \in Stages
  BY <1>1, <1>4, Types DEF Effects, Decided, Reviewed, Created, Stages, Decisions
<1>6. chain' \in [Objects -> Stages] /\ \A o \in Objects :
        chain'[o] = IF o = txs[t].on THEN stage ELSE chain[o]
  BY <1>1, <1>4, <1>5, Types
<1>7. TypeOK'
  BY <1>2, <1>3, <1>6 DEF IInv, TypeOK, ClientInv
<1>8. ChainKeeps
  <2> SUFFICES ASSUME NEW o \in Claims, o = txs[t].on, chain[o] \in Settled
               PROVE  stage \in Settled
    BY <1>6, PipelineAssumption DEF ChainKeeps
  <2>1. txs[t].call \in {"submit_claim", "adjudicate_claim", "authorize_payout"}
    <3>1. TxFits(t) /\ txs[t].by \in Callers
      BY <1>4 DEF IInv, Tx
    <3>2. o \notin Cases
      BY PipelineAssumption
    <3>3. o = txs[t].by => FirstCall(o) = "submit_claim" /\ SecondCall(o) = "adjudicate_claim"
      BY PipelineAssumption DEF FirstCall, SecondCall
    <3> QED BY <3>1, <3>2, <3>3 DEF TxFits, Suits, Callers
  <2> QED BY <1>1, <2>1 DEF Effects, Decided, Reviewed, Created, Settled, Decisions
<1>9. RowsStay
  BY <1>2 DEF RowsStay
<1> QED BY <1>2, <1>3, <1>7, <1>8, <1>9, Assembled, ShownStays

LEMMA FailInv == ASSUME IInv, NEW t \in DOMAIN txs, Fail(t) PROVE IInv'
<1>1. UNCHANGED <<chain, row, task, request>> /\ Settles(t, "failed")
  BY DEF Fail
<1>2. ClientInv' /\ Grows /\ UNCHANGED client /\ Len(txs') = Len(txs)
  BY <1>1, SettlesInv, SettlesGrows DEF IInv, ClientInv
<1>3. TypeOK' /\ ChainKeeps /\ RowsStay
  BY <1>1, <1>2 DEF IInv, TypeOK, ClientInv, ChainKeeps, RowsStay
<1> QED BY <1>1, <1>2, <1>3, Assembled, ShownStays

\* What a crash leaves fits: nothing is in the client.
LEMMA CrashInv == ASSUME IInv, Crash PROVE IInv'
<1>1. /\ \A c \in Callers : client'[c] = NoSession
      /\ client' \in [Callers -> Session \cup {NoSession}]
      /\ UNCHANGED <<txs, chain, row>>
  BY DEF Crash
<1>2. ClientInv' /\ Grows
  BY <1>1, SessionsInv DEF IInv
<1>3. ASSUME NEW o \in Objects
      PROVE  task'[o] \in TaskRecord /\ TaskFits(o)'
  <2>1. task[o] \in TaskRecord /\ TaskFits(o) /\ client'[o] = NoSession
    BY <1>1, Types, Apart DEF IInv
  <2>2. /\ task'[o] \in TaskRecord /\ task'[o].seen = task[o].seen
        /\ task'[o].pc \in {"none", "ended"} /\ (task'[o].pc = "none" <=> task[o].pc = "none")
    <3>1. CASE task[o].pc = "none"
      BY <2>1, <3>1 DEF Crash
    <3>2. CASE task[o].pc # "none"
      <4>1. task'[o] = [task[o] EXCEPT !.pc = "ended"]
        BY <3>2 DEF Crash
      <4> QED BY <2>1, <3>2, <4>1 DEF TaskRecord, TaskPc
    <3> QED BY <3>1, <3>2
  <2> QED BY <1>1, <2>1, <2>2, ShownStays DEF TaskFits, InCall
<1>4. ASSUME NEW r \in Requests
      PROVE  request'[r] \in RequestRecord /\ RequestFits(r)'
  <2>1. request[r] \in RequestRecord /\ client'[r] = NoSession
    BY <1>1, Types, Apart
  <2>2. request'[r] \in RequestRecord /\ request'[r].pc # "sent"
    <3>1. CASE request[r].pc = "none"
      BY <2>1, <3>1 DEF Crash
    <3>2. CASE request[r].pc # "none"
      <4>1. request'[r] = [request[r] EXCEPT !.pc = "ended"]
        BY <3>2 DEF Crash
      <4> QED BY <2>1, <4>1 DEF RequestRecord
    <3> QED BY <3>1, <3>2
  <2> QED BY <2>1, <2>2 DEF RequestFits
<1>5. task' \in [Objects -> TaskRecord] /\ request' \in [Requests -> RequestRecord]
  BY <1>3, <1>4 DEF Crash
<1>6. TypeOK'
  BY <1>1, <1>2, <1>5 DEF IInv, TypeOK, ClientInv, TaskRecord, RequestRecord
<1>7. ChainKeeps /\ RowsStay
  BY <1>1 DEF ChainKeeps, RowsStay
<1> QED BY <1>1, <1>2, <1>3, <1>4, <1>6, <1>7, Assembled

\* The inductive invariant, of every step of Next.
THEOREM Inductive == Spec => []IInv
<1>1. IInv /\ [Next]_vars => IInv'
  <2> SUFFICES ASSUME IInv, [Next]_vars PROVE IInv'
    OBVIOUS
  <2>1. CASE UNCHANGED vars
    <3>1. ClientInv' /\ Grows
      BY <2>1, SessionsInv, Types DEF IInv, vars
    <3>2. TypeOK' /\ ChainKeeps /\ RowsStay
      BY <2>1, <3>1 DEF IInv, TypeOK, ClientInv, ChainKeeps, RowsStay, vars
    <3> QED BY <2>1, <3>1, <3>2, Assembled, ShownStays DEF vars
  <2>2. CASE Next
    BY <2>2, FinalizeInv, FailInv, CreateInv, TaskStepInv, ReviewInv, PayoutInv,
       RequestStepInv, CrashInv DEF Next
  <2> QED BY <2>1, <2>2
<1> QED BY <1>1, InitInv, PTL DEF Spec

-----------------------------------------------------------------------------
(***************************************************************************)
(* What follows from it.                                                   *)
(***************************************************************************)

\* The types of tasks, rows and requests (slashing.py:85-216).
THEOREM TypeCorrect == Spec => []TypeOK
<1>1. IInv => TypeOK
  BY DEF IInv
<1> QED BY <1>1, Inductive, PTL

\* The second call of a task is not sent before its first call is final, with any
\* rounds and attempts (the loops of slashing.py:162, insurance.py:164,
\* incidents.py:263).
THEOREM Order == Spec => []StepOrder
<1>1. IInv => StepOrder
  BY DEF IInv
<1> QED BY <1>1, Inductive, PTL

\* A transaction that a task notes in its row is a second call that is final
\* (slashing.py:200-210).
THEOREM FinalResults == Spec => []RowNamesFinalResult
<1>1. IInv => RowNamesFinalResult
  BY DEF IInv, RowFits, RowNamesFinalResult
<1> QED BY <1>1, Inductive, PTL

\* A claim whose row shows a decision has one in the contract, however late
\* duplicates of its calls arrive (insurance.py:208).
THEOREM DecisionsStand == Spec => []DecidedRowHasDecision
<1>1. IInv => DecidedRowHasDecision
  BY PipelineAssumption DEF IInv, RowFits, DecidedRowHasDecision, Settled
<1> QED BY <1>1, Inductive, PTL

\* A payout is sent to the chain only for a claim the contract has decided
\* (insurance.py:286).
THEOREM PayoutsFollow == Spec => []PayoutFollowsDecision
<1>1. IInv => PayoutFollowsDecision
  BY PipelineAssumption
     DEF IInv, TxFits, Suits, Shown, RowFits, ReviewCalls, PayoutFollowsDecision, Settled, Of
<1> QED BY <1>1, Inductive, PTL

-----------------------------------------------------------------------------
(***************************************************************************)
(* The promise.  A step changes what has become of one object at most, and *)
(* what is new about it rests on what is there: on what the task has seen  *)
(* (TaskFits), the request has found in the row (RequestFits) or the       *)
(* chain's list of transactions shows (StepOrder).                         *)
(***************************************************************************)
Milestones == {"row", "firstSent", "firstFinal", "created", "secondSent", "secondFinal",
               "decided", "noted", "shown", "payoutSent"}

Concluded(o) == \/ o \in Claims /\ chain[o] \in Settled
                \/ o \in Incidents /\ chain[o] = "analyzed"

Means(o) ==
  /\ Passed(o) \subseteq Milestones
  /\ "row" \in Passed(o) <=> row[o].status # "none"
  /\ "firstSent" \in Passed(o) <=> SentAbout(o, FirstCall(o))
  /\ "firstFinal" \in Passed(o) <=> FinalAbout(o, FirstCall(o))
  /\ "created" \in Passed(o) <=> chain[o] # "none"
  /\ "secondSent" \in Passed(o) <=> SentAbout(o, SecondCall(o))
  /\ "secondFinal" \in Passed(o) <=> FinalAbout(o, SecondCall(o))
  /\ "decided" \in Passed(o) <=> Concluded(o)
  /\ "noted" \in Passed(o) <=> o \notin Cases /\ row[o].tx # 0
  /\ "shown" \in Passed(o) <=> Shown(o)
  /\ "payoutSent" \in Passed(o) <=> SentAbout(o, "authorize_payout")

LEMMA PassedMeans == ASSUME NEW o PROVE Means(o) /\ Means(o)'
BY DEF Means, Passed, Milestones, Concluded, Shown, Settled

\* Nothing has happened to an object.
Same(o) ==
  /\ row'[o] = row[o] /\ chain'[o] = chain[o]
  /\ \A call \in Calls : /\ SentAbout(o, call)' <=> SentAbout(o, call)
                         /\ FinalAbout(o, call)' <=> FinalAbout(o, call)

LEMMA SamePassed ==
  ASSUME NEW o \in Objects, Same(o)
  PROVE  Passed(o)' = Passed(o)
<1>1. Means(o) /\ Means(o)'
  BY PassedMeans
<1>2. FirstCall(o) \in Calls /\ SecondCall(o) \in Calls /\ "authorize_payout" \in Calls
  BY Callings DEF Calls
<1>3. \A m \in Milestones : m \in Passed(o)' <=> m \in Passed(o)
  BY <1>1, <1>2 DEF Same, Means, Milestones, Concluded, Shown
<1> QED BY <1>1, <1>3 DEF Means

LEMMA NothingPasses ==
  ASSUME \A o \in Objects : Same(o)
  PROVE  [Promise!Next]_Promise!vars
<1>1. [o \in Objects |-> Passed(o)]' = [o \in Objects |-> Passed(o)]
  BY SamePassed
<1> QED BY <1>1 DEF Promise!vars

\* One object passes milestones.
LEMMA Passes ==
  ASSUME NEW o \in Objects, \A p \in Objects : p # o => Same(p),
         NEW event \in Promise!Events,
         Passed(o) \subseteq Passed(o)', Passed(o)' \ Passed(o) \subseteq event,
         \A m \in Passed(o)' \ Passed(o) :
           Promise!Before(m) \subseteq Passed(o) /\ Promise!With(m) \subseteq Passed(o)'
  PROVE  [Promise!Next]_Promise!vars
<1> DEFINE passed == [p \in Objects |-> Passed(p)]
           passes == [p \in Objects |-> Passed(p)']
           new    == passes[o] \ passed[o]
<1>1. \A p \in Objects : p # o => Passed(p)' = Passed(p)
  BY SamePassed
<1>2. passes = [passed EXCEPT ![o] = @ \cup new]
  BY <1>1
<1>3. \A m \in new : /\ Promise!Before(m) \subseteq passed[o]
                     /\ Promise!With(m) \subseteq passed[o] \cup new
  OBVIOUS
<1>4. Promise!Pass(o)
  BY <1>2, <1>3 DEF Promise!Pass
<1> QED BY <1>4 DEF Promise!Next

\* What a step makes of the transactions about an object.
LEMMA SendingAbout ==
  ASSUME IInv, ClientInv', Grows, NEW c \in Callers, Sends(c), NEW o, NEW call
  PROVE  /\ FinalAbout(o, call)' <=> FinalAbout(o, call)
         /\ SentAbout(o, call) => SentAbout(o, call)'
         /\ SentAbout(o, call)' =>
              SentAbout(o, call) \/ (o = client[c].on /\ call = client[c].call)
<1>1. PICK n : n = Len(txs')
  OBVIOUS
<1>2. DOMAIN txs' = DOMAIN txs \cup {n} /\ n \notin DOMAIN txs
  <2>1. PICK m \in Nat : m = Len(txs) /\ DOMAIN txs = 1..m
    BY LenProperties DEF IInv, ClientInv, ClientTypeOK
  <2>2. n = m + 1 /\ DOMAIN txs' = 1..n
    BY <1>1, <2>1, LenProperties DEF Sends, ClientInv, ClientTypeOK
  <2> QED BY <2>1, <2>2
<1>3. /\ txs'[n].on = client[c].on /\ txs'[n].call = client[c].call
      /\ txs'[n].status = "pending"
      /\ \A t \in DOMAIN txs : txs'[t] = txs[t]
  BY <1>1 DEF Sends
<1> QED BY <1>2, <1>3 DEF FinalAbout, SentAbout, About

LEMMA SettlingAbout ==
  ASSUME IInv, ClientInv', Grows, NEW t \in DOMAIN txs, NEW status \in {"finalized", "failed"},
         Settles(t, status), NEW o, NEW call
  PROVE  /\ SentAbout(o, call)' <=> SentAbout(o, call)
         /\ FinalAbout(o, call) => FinalAbout(o, call)'
         /\ FinalAbout(o, call)' =>
              \/ FinalAbout(o, call)
              \/ status = "finalized" /\ o = txs[t].on /\ call = txs[t].call
<1>1. txs' = [txs EXCEPT ![t] = [txs[t] EXCEPT !.status = status]]
  BY DEF Settles
<1>2. /\ DOMAIN txs' = DOMAIN txs
      /\ \A u \in DOMAIN txs : u # t => txs'[u] = txs[u]
  BY <1>1
<1>3. txs[t].status = "pending"
  BY DEF Settles
<1>4. txs'[t].on = txs[t].on /\ txs'[t].call = txs[t].call /\ txs'[t].status = status
  <2>1. txs[t] \in Tx
    BY Types, ElementOfSeq
  <2>2. txs'[t] = [txs[t] EXCEPT !.status = status]
    BY <1>1
  <2> QED BY <2>1, <2>2 DEF Tx
<1> QED BY <1>2, <1>3, <1>4 DEF FinalAbout, SentAbout, About

\* What was sent first is final before anything else is.
LEMMA FirstAbout ==
  ASSUME IInv, NEW o \in Objects, SentAbout(o, SecondCall(o))
  PROVE  FinalAbout(o, FirstCall(o))
<1>1. PICK t \in DOMAIN txs : txs[t].on = o /\ txs[t].call = SecondCall(o)
  BY DEF SentAbout, About
<1>2. txs[t].by \in Callers /\ TxFits(t)
  <2>1. txs[t] \in Tx
    BY Types, ElementOfSeq
  <2> QED BY <2>1 DEF Tx, IInv
<1>3. txs[t].by = o
  BY <1>1, <1>2, PipelineAssumption DEF TxFits, Suits, SecondCall, ReviewCalls, Callers
<1>4. t \in Of(o, SecondCall(o))
  BY <1>1, <1>3 DEF Of
<1>5. PICK u \in Of(o, FirstCall(o)) : txs[u].status = "finalized"
  BY <1>4 DEF IInv, StepOrder
<1>6. txs[u].on = o
  <2>1. txs[u] \in Tx /\ TxFits(u) /\ txs[u].by = o
    BY <1>5, Types, ElementOfSeq DEF IInv, Of
  <2> QED BY <2>1, Apart DEF TxFits, Suits
<1> QED BY <1>5, <1>6 DEF Of, FinalAbout, About

LEMMA CallsApart ==
  ASSUME NEW o \in Objects
  PROVE  /\ FirstCall(o) # SecondCall(o)
         /\ FirstCall(o) \notin ReviewCalls \cup {"authorize_payout"}
         /\ SecondCall(o) \notin ReviewCalls \cup {"authorize_payout"}
         /\ "authorize_payout" \notin ReviewCalls
BY PipelineAssumption DEF FirstCall, SecondCall, ReviewCalls

\* The row is created.
LEMMA CreatePasses ==
  ASSUME IInv, NEW o \in Objects, Create(o)
  PROVE  [Promise!Next]_Promise!vars
<1>1. /\ row[o].status = "none" /\ UNCHANGED <<txs, chain>>
      /\ row' = [row EXCEPT ![o] = [row[o] EXCEPT !.status = InitialStatus(o)]]
  BY DEF Create, clientVars
<1>2. InitialStatus(o) \in {"pending", "submitted", "open"}
  BY PipelineAssumption DEF InitialStatus
<1>3. row'[o].status = InitialStatus(o) /\ row'[o].tx = row[o].tx
  BY <1>1, Types DEF RowRecord
<1>4. \A p \in Objects : p # o => Same(p)
  BY <1>1, Types DEF Same, SentAbout, FinalAbout, About
<1>5. Means(o) /\ Means(o)'
  BY PassedMeans
<1>6. Passed(o) \subseteq Passed(o)' /\ Passed(o)' \ Passed(o) \subseteq {"row"}
  BY <1>1, <1>2, <1>3, <1>5
     DEF Means, Milestones, Shown, Concluded, Decisions, SentAbout, FinalAbout, About
<1>7. {"row"} \in Promise!Events /\ Promise!Before("row") = {} /\ Promise!With("row") = {}
  BY DEF Promise!Events, Promise!Before, Promise!With
<1> QED BY <1>4, <1>6, <1>7, Passes

\* A call is sent.
LEMMA SendPasses ==
  ASSUME IInv, ClientInv', Grows, UNCHANGED <<chain, row>>, NEW c \in Callers, Orderly(c),
         client[c].on \in Objects, c \in Objects => row[c].status # "none"
  PROVE  [Promise!Next]_Promise!vars
<1>1. PICK o \in Objects : o = client[c].on
  OBVIOUS
<1>2. PICK call : call = client[c].call
  OBVIOUS
<1>3. Sends(c) /\ Suits(c, o, call) /\ (c \in Objects /\ call = SecondCall(c) => FirstDone(c))
  BY <1>1, <1>2 DEF Orderly
<1>4. \A p : \A k : /\ FinalAbout(p, k)' <=> FinalAbout(p, k)
                    /\ SentAbout(p, k) => SentAbout(p, k)'
                    /\ SentAbout(p, k)' => SentAbout(p, k) \/ (p = o /\ k = call)
  BY <1>1, <1>2, <1>3, SendingAbout
<1>5. \A p \in Objects : p # o => Same(p)
  BY <1>4 DEF Same
<1>6. Means(o) /\ Means(o)'
  BY PassedMeans
<1>7. Passed(o) \subseteq Passed(o)'
  BY <1>4, <1>6 DEF Means, Milestones, Shown, Concluded
<1>8. CASE call = FirstCall(o)
  <2>1. Passed(o)' \ Passed(o) \subseteq {"firstSent"}
    BY <1>4, <1>6, <1>8, CallsApart DEF Means, Milestones, Shown, Concluded
  <2>2. "row" \in Passed(o)
    <3>1. c = o
      BY <1>3, <1>8, CallsApart DEF Suits, Callers
    <3> QED BY <1>6, <3>1 DEF Means
  <2>3. /\ {"firstSent"} \in Promise!Events
        /\ Promise!Before("firstSent") = {"row"} /\ Promise!With("firstSent") = {}
    BY DEF Promise!Events, Promise!Before, Promise!With
  <2> QED BY <1>5, <1>7, <2>1, <2>2, <2>3, Passes
<1>9. CASE call = SecondCall(o)
  <2>1. Passed(o)' \ Passed(o) \subseteq {"secondSent"}
    BY <1>4, <1>6, <1>9, CallsApart DEF Means, Milestones, Shown, Concluded
  <2>2. "firstFinal" \in Passed(o)
    <3>1. c = o /\ FirstDone(o)
      BY <1>3, <1>9, CallsApart DEF Suits, Callers
    <3>2. PICK u \in Of(o, FirstCall(o)) : txs[u].status = "finalized"
      BY <3>1 DEF FirstDone
    <3>3. txs[u].on = o
      BY <3>2, Apart DEF IInv, TxFits, Suits, Of
    <3> QED BY <1>6, <3>2, <3>3 DEF Means, FinalAbout, About, Of
  <2>3. /\ {"secondSent"} \in Promise!Events
        /\ Promise!Before("secondSent") = {"firstFinal"} /\ Promise!With("secondSent") = {}
    BY DEF Promise!Events, Promise!Before, Promise!With
  <2> QED BY <1>5, <1>7, <2>1, <2>2, <2>3, Passes
<1>10. CASE call \in ReviewCalls
  <2>1. Same(o) \/ Passed(o)' = Passed(o)
    BY <1>4, <1>6, <1>10, CallsApart DEF Means, Milestones, Shown, Concluded
  <2>2. Passed(o)' \ Passed(o) = {}
    BY <2>1, SamePassed
  <2>3. {"row"} \in Promise!Events
    BY DEF Promise!Events
  <2> QED BY <1>5, <1>7, <2>2, <2>3, Passes
<1>11. CASE call = "authorize_payout"
  <2>1. Passed(o)' \ Passed(o) \subseteq {"payoutSent"}
    BY <1>4, <1>6, <1>11, CallsApart DEF Means, Milestones, Shown, Concluded
  <2>2. "shown" \in Passed(o)
    <3>1. Shown(o)
      BY <1>3, <1>11, CallsApart DEF Suits, Callers
    <3> QED BY <1>6, <3>1 DEF Means
  <2>3. /\ {"payoutSent"} \in Promise!Events
        /\ Promise!Before("payoutSent") = {"shown"} /\ Promise!With("payoutSent") = {}
    BY DEF Promise!Events, Promise!Before, Promise!With
  <2> QED BY <1>5, <1>7, <2>1, <2>2, <2>3, Passes
<1> QED BY <1>3, <1>8, <1>9, <1>10, <1>11 DEF Suits, Callers

\* A call is final, and may have its effect.
LEMMA FinalizePasses ==
  ASSUME IInv, ClientInv', Grows, NEW t \in DOMAIN txs, Finalize(t)
  PROVE  [Promise!Next]_Promise!vars
<1>1. PICK o : o = txs[t].on
  OBVIOUS
<1>2. PICK call : call = txs[t].call
  OBVIOUS
<1>3. PICK stage \in Effects(call, chain[o]) : chain' = [chain EXCEPT ![o] = stage]
  BY <1>1, <1>2 DEF Finalize
<1>4. UNCHANGED row /\ Settles(t, "finalized")
  BY DEF Finalize
<1>5. txs[t] \in Tx /\ o \in Objects /\ txs[t].by \in Callers /\ Suits(txs[t].by, o, call)
  <2>1. txs[t] \in Tx
    BY Types, ElementOfSeq
  <2> QED BY <1>1, <1>2, <2>1 DEF Tx, IInv, TxFits
<1>6. \A p : \A k : /\ SentAbout(p, k)' <=> SentAbout(p, k)
                    /\ FinalAbout(p, k) => FinalAbout(p, k)'
                    /\ FinalAbout(p, k)' => FinalAbout(p, k) \/ (p = o /\ k = call)
  BY <1>1, <1>2, <1>4, SettlingAbout
<1>7. chain'[o] = stage /\ \A p \in Objects : p # o => chain'[p] = chain[p]
  BY <1>3, <1>5, Types
<1>8. \A p \in Objects : p # o => Same(p)
  BY <1>4, <1>6, <1>7 DEF Same
<1>9. /\ Means(o) /\ Means(o)'
      /\ Shown(o)' <=> Shown(o)
      /\ \A k : /\ SentAbout(o, k)' <=> SentAbout(o, k)
                /\ FinalAbout(o, k) => FinalAbout(o, k)'
                /\ FinalAbout(o, k)' => FinalAbout(o, k) \/ k = call
  BY <1>4, <1>6, PassedMeans, ShownStays
<1>10. SentAbout(o, call) /\ row'[o] = row[o]
  BY <1>1, <1>2, <1>4 DEF SentAbout, About
<1>11. FinalAbout(o, call)'
  <2>1. t \in DOMAIN txs' /\ txs'[t].on = o /\ txs'[t].call = call
    BY <1>1, <1>2 DEF Grows
  <2>2. txs'[t].status = "finalized"
    BY <1>4, <1>5, Types DEF Settles, Tx
  <2> QED BY <2>1, <2>2 DEF FinalAbout, About
<1>12. CASE call = FirstCall(o)
  <2>1. stage # "none" \/ chain[o] = "none"
    BY <1>3, <1>12, PipelineAssumption
       DEF Effects, Decided, Reviewed, Created, FirstCall, Decisions
  <2>2. Concluded(o)' <=> Concluded(o)
    BY <1>3, <1>7, <1>12, PipelineAssumption
       DEF Effects, Decided, Reviewed, Created, FirstCall, Concluded, Settled, Decisions
  <2>3. Passed(o) \subseteq Passed(o)' /\ Passed(o)' \ Passed(o) \subseteq {"firstFinal", "created"}
    BY <1>7, <1>9, <1>10, <1>12, <2>1, <2>2, CallsApart, <1>5 DEF Means, Milestones
  <2>4. "firstSent" \in Passed(o) /\ "firstFinal" \in Passed(o)'
    BY <1>9, <1>10, <1>11, <1>12 DEF Means
  <2>5. /\ {"firstFinal", "created"} \in Promise!Events
        /\ Promise!Before("firstFinal") = {"firstSent"} /\ Promise!With("firstFinal") = {}
        /\ Promise!Before("created") = {} /\ Promise!With("created") = {"firstFinal"}
    BY DEF Promise!Events, Promise!Before, Promise!With
  <2> QED BY <1>5, <1>8, <2>3, <2>4, <2>5, Passes
<1>13. CASE call = SecondCall(o)
  <2>1. /\ stage # "none" \/ chain[o] = "none"
        /\ Concluded(o) => Concluded(o)'
        /\ Concluded(o)' => chain'[o] # "none"
    BY <1>3, <1>7, <1>13, PipelineAssumption
       DEF Effects, Decided, Reviewed, Created, SecondCall, FirstCall, Concluded, Settled, Decisions
  <2>2. /\ Passed(o) \subseteq Passed(o)'
        /\ Passed(o)' \ Passed(o) \subseteq {"secondFinal", "created", "decided"}
    BY <1>7, <1>9, <1>10, <1>13, <2>1, CallsApart, <1>5 DEF Means, Milestones
  <2>3. /\ "secondSent" \in Passed(o) /\ "firstFinal" \in Passed(o)
        /\ "secondFinal" \in Passed(o)'
        /\ "decided" \in Passed(o)' => "created" \in Passed(o)'
    BY <1>5, <1>9, <1>10, <1>11, <1>13, <2>1, FirstAbout DEF Means
  <2>4. /\ {"secondFinal", "created", "decided"} \in Promise!Events
        /\ Promise!Before("secondFinal") = {"secondSent"} /\ Promise!With("secondFinal") = {}
        /\ Promise!Before("created") = {} /\ Promise!With("created") = {"firstFinal"}
        /\ Promise!Before("decided") = {}
        /\ Promise!With("decided") = {"secondFinal", "created"}
    BY DEF Promise!Events, Promise!Before, Promise!With
  <2> QED BY <1>5, <1>8, <2>2, <2>3, <2>4, Passes
<1>14. CASE \/ o \in Cases /\ call \in ReviewCalls
            \/ Shown(o) /\ call = "authorize_payout"
  <2>1. /\ stage # "none" <=> chain[o] # "none"
        /\ Concluded(o)' <=> Concluded(o)
    <3>1. CASE o \in Cases /\ call \in ReviewCalls
      BY <1>3, <1>7, <3>1, PipelineAssumption
         DEF Effects, Decided, Reviewed, Created, FirstCall, ReviewCalls, Concluded
    <3>2. CASE Shown(o) /\ call = "authorize_payout"
      <4>1. chain[o] \in Settled
        BY <1>5, <3>2 DEF IInv, RowFits, Shown
      <4> QED BY <1>3, <1>7, <3>2, <4>1, PipelineAssumption
              DEF Effects, Decided, Reviewed, Created, FirstCall, Concluded, Shown, Settled, Decisions
    <3> QED BY <1>14, <3>1, <3>2
  <2>2. Passed(o)' \ Passed(o) = {} /\ Passed(o) \subseteq Passed(o)'
    BY <1>5, <1>6, <1>7, <1>9, <1>10, <1>14, <2>1, CallsApart DEF Means, Milestones, Shown
  <2>3. {"row"} \in Promise!Events
    BY DEF Promise!Events
  <2> QED BY <1>5, <1>8, <2>2, <2>3, Passes
<1>15. \/ call \in {FirstCall(o), SecondCall(o)}
       \/ o \in Cases /\ call \in ReviewCalls
       \/ Shown(o) /\ call = "authorize_payout"
  BY <1>5 DEF Suits, Callers
<1> QED BY <1>12, <1>13, <1>14, <1>15

LEMMA FailPasses ==
  ASSUME IInv, ClientInv', Grows, NEW t \in DOMAIN txs, Fail(t)
  PROVE  [Promise!Next]_Promise!vars
<1>1. UNCHANGED <<chain, row>> /\ Settles(t, "failed")
  BY DEF Fail
<1>2. \A o \in Objects : Same(o)
  BY <1>1, SettlingAbout DEF Same
<1> QED BY <1>2, NothingPasses

\* A task writes its row.
LEMMA WritePasses ==
  ASSUME IInv, NEW o \in Objects, Write(o)
  PROVE  [Promise!Next]_Promise!vars
<1>1. UNCHANGED <<txs, chain>> /\ TaskFits(o) /\ task[o].pc = "write"
  BY DEF Write, End, IInv
<1>2. CASE UNCHANGED row
  BY <1>1, <1>2, NothingPasses DEF Same, SentAbout, FinalAbout, About
<1>3. CASE row' = [row EXCEPT ![o] = [status |-> SyncedStatus(o, task[o].seen),
                                      tx |-> client[o].tx]]
  <2>1. row'[o].status = SyncedStatus(o, task[o].seen) /\ row'[o].tx = client[o].tx
    BY <1>3, Types
  <2>2. /\ row'[o].status # "none" /\ row[o].status # "none"
        /\ row'[o].status \in Decisions /\ o \in Claims => chain[o] \in Settled
    BY <1>1, <2>1, PipelineAssumption DEF SyncedStatus, TaskFits, Settled, Decisions
  <2>3. ~Shown(o) /\ client[o].tx # 0
    BY <1>1 DEF TaskFits, IsFinal
  <2>4. FinalAbout(o, SecondCall(o))
    <3>1. /\ client[o] \in Session /\ SessionFits(o) /\ client[o].on = o
          /\ client[o].call = SecondCall(o) /\ IsFinal(client[o].tx)
      BY <1>1, Apart DEF TaskFits, InCall, IInv, ClientInv
    <3>2. client[o].tx \in DOMAIN txs
      BY <2>3, <3>1, Types, NoSessionIsNone DEF SessionFits
    <3> QED BY <2>3, <3>1, <3>2, NoSessionIsNone DEF SessionFits, IsFinal, FinalAbout, About
  <2>5. \A p \in Objects : p # o => Same(p)
    BY <1>1, <1>3, Types DEF Same, SentAbout, FinalAbout, About
  <2>6. Means(o) /\ Means(o)'
    BY PassedMeans
  <2>7. /\ Concluded(o)' <=> Concluded(o)
        /\ \A k : /\ SentAbout(o, k)' <=> SentAbout(o, k)
                  /\ FinalAbout(o, k)' <=> FinalAbout(o, k)
        /\ chain'[o] = chain[o]
    BY <1>1 DEF Concluded, SentAbout, FinalAbout, About
  <2>8. Passed(o) \subseteq Passed(o)' /\ Passed(o)' \ Passed(o) \subseteq {"noted", "shown"}
    BY <2>1, <2>2, <2>3, <2>6, <2>7 DEF Means, Milestones
  <2>9. /\ "secondFinal" \in Passed(o)
        /\ "shown" \in Passed(o)' => "decided" \in Passed(o) /\ "noted" \in Passed(o)'
    BY <2>1, <2>2, <2>3, <2>4, <2>6, PipelineAssumption DEF Means, Shown, Concluded
  <2>10. /\ {"noted", "shown"} \in Promise!Events
         /\ Promise!Before("noted") = {"secondFinal"} /\ Promise!With("noted") = {}
         /\ Promise!Before("shown") = {"decided"} /\ Promise!With("shown") = {"noted"}
    BY DEF Promise!Events, Promise!Before, Promise!With
  <2> QED BY <2>5, <2>8, <2>9, <2>10, Passes
<1> QED BY <1>2, <1>3 DEF Write

\* What reviews write is in rows of cases, of which the promise knows only that
\* they are there.
LEMMA CaseRowPasses ==
  ASSUME IInv, UNCHANGED <<txs, chain>>, NEW o \in Cases,
         row'[o].status = "none" <=> row[o].status = "none",
         \A p \in Objects : p # o => row'[p] = row[p]
  PROVE  [Promise!Next]_Promise!vars
<1>1. o \in Objects /\ o \notin Claims
  BY PipelineAssumption
<1>2. \A p \in Objects : p # o => Same(p)
  BY DEF Same, SentAbout, FinalAbout, About
<1>3. Means(o) /\ Means(o)'
  BY PassedMeans
<1>4. /\ Concluded(o)' <=> Concluded(o)
      /\ \A k : /\ SentAbout(o, k)' <=> SentAbout(o, k)
                /\ FinalAbout(o, k)' <=> FinalAbout(o, k)
      /\ chain'[o] = chain[o]
  BY <1>1 DEF Concluded, SentAbout, FinalAbout, About
<1>5. Passed(o) \subseteq Passed(o)' /\ Passed(o)' \ Passed(o) = {}
  BY <1>1, <1>3, <1>4 DEF Means, Milestones, Shown
<1>6. {"row"} \in Promise!Events
  BY DEF Promise!Events
<1> QED BY <1>1, <1>2, <1>5, <1>6, Passes

LEMMA ReviewPasses ==
  ASSUME IInv, NEW r \in Requests, NEW o \in Cases, NEW call \in ReviewCalls, Review(r, o, call)
  PROVE  [Promise!Next]_Promise!vars
<1>1. o \in Objects /\ o \notin Claims
  BY PipelineAssumption
<1>2. PICK status \in {"approved", "rejected"} :
        row' = [row EXCEPT ![o] = [row[o] EXCEPT !.status = status]]
  BY DEF Review
<1>3. row'[o].status = status /\ \A p \in Objects : p # o => row'[p] = row[p]
  BY <1>1, <1>2, Types DEF RowRecord
<1>4. UNCHANGED <<txs, chain>> /\ row[o].status # "none"
  BY DEF Review
<1> QED BY <1>3, <1>4, CaseRowPasses

LEMMA AnswerPasses ==
  ASSUME IInv, NEW r \in Requests, Answer(r)
  PROVE  [Promise!Next]_Promise!vars
<1>1. PICK o : o = request[r].on
  OBVIOUS
<1>2. PICK tx : tx = client[r].tx
  OBVIOUS
<1>3. /\ UNCHANGED <<txs, chain>>
      /\ UNCHANGED row \/ (o \in Cases /\ row' = [row EXCEPT ![o] = [row[o] EXCEPT !.tx = tx]])
  BY <1>1, <1>2 DEF Answer
<1>4. CASE UNCHANGED row
  BY <1>3, <1>4, NothingPasses DEF Same, SentAbout, FinalAbout, About
<1>5. CASE o \in Cases /\ row' = [row EXCEPT ![o] = [row[o] EXCEPT !.tx = tx]]
  <2>1. o \in Objects /\ o \notin Claims
    BY <1>5, PipelineAssumption
  <2>2. row'[o].status = row[o].status /\ \A p \in Objects : p # o => row'[p] = row[p]
    BY <1>5, <2>1, Types DEF RowRecord
  <2> QED BY <1>3, <1>5, <2>2, CaseRowPasses
<1> QED BY <1>3, <1>4, <1>5

LEMMA StartsPromise == Init => Promise!Init
<1> SUFFICES ASSUME Init PROVE Promise!Init
  OBVIOUS
<1>1. DOMAIN txs = {}
  BY DEF Init, ClientInit
<1>2. ASSUME NEW o \in Objects PROVE Passed(o) = {}
  <2>1. Means(o)
    BY PassedMeans
  <2>2. row[o].status = "none" /\ row[o].tx = 0 /\ chain[o] = "none"
    BY DEF Init
  <2>3. \A call : ~SentAbout(o, call) /\ ~FinalAbout(o, call)
    BY <1>1 DEF SentAbout, FinalAbout, About
  <2> QED BY <2>1, <2>2, <2>3 DEF Means, Milestones, Shown, Concluded, Settled, Decisions
<1> QED BY <1>2 DEF Promise!Init

\* A caller inside the client sends a call of its own, or nothing.
LEMMA InClientPasses ==
  ASSUME IInv, IInv', NEW c \in Callers, InClient(c)
  PROVE  [Promise!Next]_Promise!vars
<1>1. ClientStep(c) /\ UNCHANGED <<chain, row>>
  BY DEF InClient
<1>2. client[c] \in Session /\ Grows /\ (UNCHANGED txs \/ Sends(c))
  BY <1>1, StepOfSession DEF IInv
<1>3. client[c] # NoSession /\ client[c].pc # "returned"
  BY <1>1, <1>2, NoSessionIsNone
     DEF ClientStep, Submit, SubmitRaises, PollSucceeds, PollGivesUp
<1>4. CASE UNCHANGED txs
  BY <1>1, <1>4, NothingPasses DEF Same, SentAbout, FinalAbout, About
<1>5. CASE Sends(c)
  <2>1. /\ client[c].on \in Objects /\ Suits(c, client[c].on, client[c].call)
        /\ c \in Objects /\ client[c].call = SecondCall(c) => FirstDone(c)
        /\ c \in Objects => row[c].status # "none"
    <3>1. client[c].on \in Objects
      BY <1>2 DEF Session
    <3>2. CASE c \in Objects
      <4>1. TaskFits(c) /\ task[c].pc \in {"first", "second"}
        BY <1>3, <3>2 DEF IInv, TaskFits, InCall
      <4> QED BY <3>1, <3>2, <4>1, Callings DEF TaskFits, InCall
    <3>3. CASE c \in Requests
      BY <1>3, <3>1, <3>3, Apart DEF IInv, RequestFits
    <3> QED BY <3>2, <3>3 DEF Callers
  <2>2. Orderly(c)
    BY <1>5, <2>1 DEF Orderly
  <2>3. ClientInv'
    BY DEF IInv
  <2> QED BY <1>1, <1>2, <2>1, <2>2, <2>3, SendPasses
<1> QED BY <1>2, <1>4, <1>5

\* Steps of a task outside the client and before its last leave the rows alone.
LEMMA RestPasses ==
  ASSUME IInv, UNCHANGED <<txs, chain, row>>
  PROVE  [Promise!Next]_Promise!vars
BY NothingPasses DEF Same, SentAbout, FinalAbout, About

LEMMA StepsKeepPromise ==
  ASSUME IInv, IInv', [Next]_vars
  PROVE  [Promise!Next]_Promise!vars
<1>1. ASSUME NEW t \in DOMAIN txs, Finalize(t) \/ Fail(t)
      PROVE  [Promise!Next]_Promise!vars
  <2>1. \E status \in {"finalized", "failed"} : Settles(t, status)
    BY <1>1 DEF Finalize, Fail
  <2>2. ClientInv' /\ Grows
    BY <2>1, SettlesInv DEF IInv
  <2> QED BY <1>1, <2>2, FinalizePasses, FailPasses
<1>2. ASSUME NEW o \in Objects, Create(o) \/ TaskStep(o)
      PROVE  [Promise!Next]_Promise!vars
  <2>1. CASE Create(o)
    BY <2>1, CreatePasses
  <2>2. CASE InClient(o)
    BY <2>2, InClientPasses, Apart
  <2>3. CASE Write(o)
    BY <2>3, WritePasses
  <2>4. CASE Begin(o) \/ NothingSent(o) \/ Confirmed(o) \/ Unconfirmed(o) \/ Read(o)
    <3>1. UNCHANGED <<txs, chain, row>>
      BY <2>4 DEF Begin, NothingSent, Confirmed, Unconfirmed, Read, Enter, End, NewRound,
                  LastRound, clientVars
    <3> QED BY <3>1, RestPasses
  <2> QED BY <1>2, <2>1, <2>2, <2>3, <2>4 DEF TaskStep
<1>3. ASSUME NEW r \in Requests, NEW o \in Cases, NEW call \in ReviewCalls, Review(r, o, call)
      PROVE  [Promise!Next]_Promise!vars
  BY <1>3, ReviewPasses
<1>4. ASSUME NEW r \in Requests, RequestStep(r)
      PROVE  [Promise!Next]_Promise!vars
  BY <1>4, InClientPasses, AnswerPasses, Apart DEF RequestStep
<1>5. CASE Crash \/ UNCHANGED vars \/ \E r \in Requests, o \in Claims : Payout(r, o)
  <2>1. UNCHANGED <<txs, chain, row>>
    BY <1>5 DEF Crash, vars, Payout
  <2> QED BY <2>1, RestPasses
<1> QED BY <1>1, <1>2, <1>3, <1>4, <1>5 DEF Next

\* With duplicates that arrive late, retries in retries, crashes and refusals,
\* nothing happens to an object before what it rests on, nothing decided or shown
\* is taken back, and a payout follows what the row has shown
\* (slashing.py:162-210, insurance.py:164-215, 286, incidents.py:263-300).
THEOREM Refinement == Spec => KeepsPromise
<1>1. Init => Promise!Init
  BY StartsPromise
<1>2. IInv /\ IInv' /\ [Next]_vars => [Promise!Next]_Promise!vars
  BY StepsKeepPromise
<1> QED BY <1>1, <1>2, Inductive, PTL DEF Spec, KeepsPromise, Promise!Spec
=============================================================================
