------------------------------ MODULE Pipelines ------------------------------
(***************************************************************************)
(* The backend's background tasks.  A slashing case, an insurance claim    *)
(* and an incident each get a database row and a task that makes two       *)
(* contract calls, the second only after the first is final, and copies    *)
(* the result into the row:                                                *)
(*                                                                         *)
(*   case      create_slashing_case  generate_slash_recommendation         *)
(*   claim     submit_claim          adjudicate_claim                      *)
(*   incident  submit_evidence       analyze_fault                         *)
(*                                                                         *)
(* Each call is retried in rounds around the retries of the client.        *)
(* Meanwhile requests come in: a case is approved or rejected, a payout is *)
(* authorized.  A crash of the process loses tasks and requests; nothing   *)
(* picks them up again.                                                    *)
(***************************************************************************)
EXTENDS GenLayerClient, FiniteSets

CONSTANTS
  Cases, Claims, Incidents,
  MaxRounds,    \* range(3) around each call
  MaxRows       \* rows created, a bound of the instance

ASSUME PipelineAssumption ==
  /\ Objects = Cases \cup Claims \cup Incidents
  /\ Cases \cap Claims = {} /\ Cases \cap Incidents = {} /\ Claims \cap Incidents = {}
  /\ MaxRounds \in Nat \ {0}
  /\ MaxRows \in Nat

FirstCall(o) == CASE o \in Cases     -> "create_slashing_case"
                  [] o \in Claims    -> "submit_claim"
                  [] o \in Incidents -> "submit_evidence"

SecondCall(o) == CASE o \in Cases     -> "generate_slash_recommendation"
                   [] o \in Claims    -> "adjudicate_claim"
                   [] o \in Incidents -> "analyze_fault"

ReviewCalls == {"approve_slashing", "reject_slashing"}

VARIABLES
  chain,    \* the stage of each object in the contract
  row,      \* its row in the database: status and transaction
  task,     \* its background task
  request

vars == <<txs, client, chain, row, task, request>>

Decisions == {"approved", "partial", "rejected"}

Stages == {"none", "ai_analysis", "recommended", "submitted", "evidence",
           "analyzed", "paid"} \cup Decisions

RowStatus == {"none", "pending", "submitted", "open", "ai_analysis",
              "ai_adjudication", "ai_review", "paid"} \cup Decisions

TaskPc == {"none", "queued", "first", "second", "read", "write", "ended"}

TypeOK ==
  /\ ClientTypeOK
  /\ chain \in [Objects -> Stages]
  /\ row \in [Objects -> [status : RowStatus, tx : 0..MaxTxs]]
  /\ task \in [Objects -> [pc : TaskPc, round : 1..MaxRounds,
                           seen : Stages \cup {"unknown"}]]
  /\ request \in [Requests -> [pc : {"none", "sent", "ended"},
                               on : Objects \cup {"none"}, tx : 0..MaxTxs]]

NoTask    == [pc |-> "none", round |-> 1, seen |-> "unknown"]
NoRequest == [pc |-> "none", on |-> "none", tx |-> 0]

Init ==
  /\ ClientInit
  /\ chain = [o \in Objects |-> "none"]
  /\ row = [o \in Objects |-> [status |-> "none", tx |-> 0]]
  /\ task = [o \in Objects |-> NoTask]
  /\ request = [r \in Requests |-> NoRequest]

-----------------------------------------------------------------------------
(***************************************************************************)
(* The chain.  What a final call does to the stage of its object; a call   *)
(* the contract refuses (it is paused, the sender is not the owner, what   *)
(* it needs is not there) is final and does nothing.                       *)
(***************************************************************************)

\* A slip: the contract stores what it is sent, known or not.
CreatedAnew(call, stage) ==
  {CASE call = "create_slashing_case" -> "ai_analysis"
     [] call = "submit_claim"         -> "submitted"
     [] OTHER                         -> "evidence"}

\* Evidence is stored again; the stage of what is known stays.
Created(call, stage) ==
  IF stage # "none" THEN {}
  ELSE {CASE call = "create_slashing_case" -> "ai_analysis"
          [] call = "submit_claim"         -> "submitted"
          [] OTHER                         -> "evidence"}

Decided(call, stage) ==
  CASE call = "generate_slash_recommendation" /\ stage # "none" -> {"recommended"}
    [] call = "adjudicate_claim" /\ stage # "none" -> Decisions
    [] call = "analyze_fault" -> {"analyzed"}
    [] OTHER -> {}

Reviewed(call, stage) ==
  CASE call = "approve_slashing" /\ stage = "recommended" -> {"approved"}
    [] call = "reject_slashing" /\ stage \in {"recommended", "ai_analysis"} -> {"rejected"}
    [] call = "authorize_payout" /\ stage \in {"approved", "partial"} -> {"paid"}
    [] OTHER -> {}

Effects(call, stage) ==
  {stage} \cup Decided(call, stage) \cup Reviewed(call, stage)
    \cup (IF call \in {FirstCall(o) : o \in Objects} THEN Created(call, stage) ELSE {})

Finalize(t) ==
  /\ Settles(t, "finalized")
  /\ \E stage \in Effects(txs[t].call, chain[txs[t].on]) :
       chain' = [chain EXCEPT ![txs[t].on] = stage]
  /\ UNCHANGED <<row, task, request>>

Fail(t) == Settles(t, "failed") /\ UNCHANGED <<chain, row, task, request>>

-----------------------------------------------------------------------------
(***************************************************************************)
(* The task.                                                               *)
(***************************************************************************)

InitialStatus(o) == CASE o \in Cases     -> "pending"
                      [] o \in Claims    -> "submitted"
                      [] o \in Incidents -> "open"

\* The route commits the row and leaves the task to the event loop.
Create(o) ==
  /\ row[o].status = "none"
  /\ Cardinality({p \in Objects : row[p].status # "none"}) < MaxRows
  /\ row' = [row EXCEPT ![o].status = InitialStatus(o)]
  /\ task' = [task EXCEPT ![o].pc = "queued"]
  /\ UNCHANGED <<clientVars, chain, request>>

CallOf(o, pc) == IF pc = "first" THEN FirstCall(o) ELSE SecondCall(o)

\* The first round of a call.
Enter(o, pc) ==
  /\ task' = [task EXCEPT ![o].pc = pc, ![o].round = 1]
  /\ client' = [client EXCEPT ![o] = NewSession(o, CallOf(o, pc))]
  /\ UNCHANGED <<txs, chain, row, request>>

End(o) ==
  /\ task' = [task EXCEPT ![o].pc = "ended"]
  /\ client' = [client EXCEPT ![o] = NoSession]
  /\ UNCHANGED <<txs, chain, request>>

\* The signer's key is read from the database, which may fail.  The step after
\* that, to make sure that the operator is registered, has no effect:
\* send_and_wait takes no value, and the error is caught.
Begin(o) ==
  /\ task[o].pc = "queued"
  /\ Enter(o, "first") \/ (End(o) /\ UNCHANGED row)

\* The client has returned to the task.
Returned(o) == task[o].pc \in {"first", "second"} /\ client[o].pc = "returned"

NothingSent(o) == Returned(o) /\ client[o].tx = 0 /\ End(o) /\ UNCHANGED row

\* The task polls once more by itself, whatever the client has seen.
Confirmed(o) ==
  /\ Returned(o)
  /\ IsFinal(client[o].tx)
  /\ IF task[o].pc = "first"
     THEN Enter(o, "second")
     ELSE /\ task' = [task EXCEPT ![o].pc = "read"]
          /\ UNCHANGED <<clientVars, chain, row, request>>

NewRound(o) ==
  /\ task[o].round < MaxRounds
  /\ task' = [task EXCEPT ![o].round = @ + 1]
  /\ client' = [client EXCEPT ![o] = NewSession(o, CallOf(o, task[o].pc))]
  /\ UNCHANGED <<txs, chain, row, request>>

\* A slip: out of rounds, the row is brought up to date all the same.
LastRoundGoesOn(o) ==
  /\ task[o].round = MaxRounds
  /\ task' = [task EXCEPT ![o].pc = "read"]
  /\ UNCHANGED <<clientVars, chain, row, request>>

LastRound(o) == task[o].round = MaxRounds /\ End(o) /\ UNCHANGED row

Unconfirmed(o) ==
  /\ Returned(o)
  /\ client[o].tx # 0
  /\ NewRound(o) \/ LastRound(o)

\* The view may fail, and then shows nothing.
Read(o) ==
  /\ task[o].pc = "read"
  /\ \E seen \in {chain[o], "unknown"} :
       task' = [task EXCEPT ![o].pc = "write", ![o].seen = seen]
  /\ UNCHANGED <<clientVars, chain, row, request>>

\* A slip: a claim of which the view shows nothing counts as rejected.
RejectedIfUnknown(o, seen) ==
  CASE o \in Cases     -> "ai_analysis"
    [] o \in Incidents -> "ai_review"
    [] o \in Claims    -> IF seen \in Decisions \cup {"paid"} THEN seen ELSE "rejected"

SyncedStatus(o, seen) ==
  CASE o \in Cases     -> "ai_analysis"
    [] o \in Incidents -> "ai_review"
    [] o \in Claims    -> IF seen \in Decisions \cup {"paid"} THEN seen
                          ELSE "ai_adjudication"

\* The row is overwritten with what was read, or the database refuses.
Write(o) ==
  /\ task[o].pc = "write"
  /\ End(o)
  /\ \/ row' = [row EXCEPT ![o] = [status |-> SyncedStatus(o, task[o].seen),
                                   tx |-> client[o].tx]]
     \/ UNCHANGED row

InClient(c) == ClientStep(c) /\ UNCHANGED <<chain, row, task, request>>

TaskStep(o) ==
  \/ Begin(o) \/ InClient(o) \/ NothingSent(o) \/ Confirmed(o) \/ Unconfirmed(o)
  \/ Read(o) \/ Write(o)

-----------------------------------------------------------------------------
(***************************************************************************)
(* Requests.                                                               *)
(***************************************************************************)

\* The review is committed first and sent to the chain by a task of its own.
Review(r, o, call) ==
  /\ request[r].pc = "none"
  /\ row[o].status # "none"
  /\ row' = [row EXCEPT ![o].status =
               IF call = "approve_slashing" THEN "approved" ELSE "rejected"]
  /\ request' = [request EXCEPT ![r].pc = "sent", ![r].on = o]
  /\ client' = [client EXCEPT ![r] = NewSession(o, call)]
  /\ UNCHANGED <<txs, chain, task>>

\* A slip: a payout of a claim in any state.
AnyRow(o) == row[o].status # "none"

PayableRow(o) == row[o].status \in {"approved", "partial"}

\* The claim's row is not changed by its payout.
Payout(r, o) ==
  /\ request[r].pc = "none"
  /\ PayableRow(o)
  /\ request' = [request EXCEPT ![r].pc = "sent", ![r].on = o]
  /\ client' = [client EXCEPT ![r] = NewSession(o, "authorize_payout")]
  /\ UNCHANGED <<txs, chain, row, task>>

\* The transaction is noted, in the row of a case when there is one, in the
\* new payout in any event.
Answer(r) ==
  LET o  == request[r].on
      tx == client[r].tx
  IN  /\ request[r].pc = "sent"
      /\ client[r].pc = "returned"
      /\ request' = [request EXCEPT ![r].pc = "ended", ![r].tx = tx]
      /\ row' = IF o \in Cases /\ tx # 0 THEN [row EXCEPT ![o].tx = tx] ELSE row
      /\ client' = [client EXCEPT ![r] = NoSession]
      /\ UNCHANGED <<txs, chain, task>>

RequestStep(r) == InClient(r) \/ Answer(r)

\* The process stops: what ran in memory is gone, rows and chain remain.
Crash ==
  /\ client' = [c \in Callers |-> NoSession]
  /\ task' = [o \in Objects |->
       IF task[o].pc = "none" THEN task[o] ELSE [task[o] EXCEPT !.pc = "ended"]]
  /\ request' = [r \in Requests |->
       IF request[r].pc = "none" THEN request[r] ELSE [request[r] EXCEPT !.pc = "ended"]]
  /\ UNCHANGED <<txs, chain, row>>

Next ==
  \/ \E t \in DOMAIN txs : Finalize(t) \/ Fail(t)
  \/ \E o \in Objects : Create(o) \/ TaskStep(o)
  \/ \E r \in Requests, o \in Cases, call \in ReviewCalls : Review(r, o, call)
  \/ \E r \in Requests, o \in Claims : Payout(r, o)
  \/ \E r \in Requests : RequestStep(r)
  \/ Crash

\* A task's waits are sleeps, polls with a time limit and a pool with one, and
\* the SDK's own calls are taken to return or raise: a task goes on while it can.
Spec == Init /\ [][Next]_vars /\ \A o \in Objects : WF_vars(TaskStep(o))

-----------------------------------------------------------------------------
Of(c, call) == {t \in DOMAIN txs : txs[t].by = c /\ txs[t].call = call}

\* The second call of a task is not sent before its first call is final, with
\* retries inside retries and answers that come late or never (the loops of
\* slashing.py:162, insurance.py:164, incidents.py:263).
StepOrder ==
  \A o \in Objects : \A t \in Of(o, SecondCall(o)) :
    \E u \in Of(o, FirstCall(o)) : u < t /\ txs[u].status = "finalized"

\* A transaction that a task notes in its row is a second call that is final:
\* no round, answer or late duplicate puts another one there.  What else is
\* noted there comes from a review (slashing.py:299).
RowNamesFinalResult ==
  \A o \in Objects :
    row[o].tx # 0 =>
      LET tx == txs[row[o].tx]
      IN  /\ tx.on = o
          /\ tx.by = o => tx.call = SecondCall(o) /\ tx.status = "finalized"

\* A claim whose row shows a decision has one in the contract: a submission
\* that was sent twice and arrives late does not take it back (the status is
\* read off the chain, insurance.py:208).
DecidedRowHasDecision ==
  \A o \in Claims :
    row[o].status \in Decisions => chain[o] \in Decisions \cup {"paid"}

\* A payout is sent to the chain only for a claim the contract has decided,
\* although the route looks at the row alone (insurance.py:286).
PayoutFollowsDecision ==
  \A r \in Requests : \A t \in Of(r, "authorize_payout") :
    chain[txs[t].on] \in Decisions \cup {"paid"}

\* Every task ends, if only by giving up, whatever the chain does: the limits of
\* polls, attempts and rounds add up (client.py:70, client.py:136, slashing.py:162).
TasksEnd ==
  \A o \in Objects : task[o].pc = "queued" ~> task[o].pc = "ended"
About(o, call) == {t \in DOMAIN txs : txs[t].on = o /\ txs[t].call = call}

SentAbout(o, call) == About(o, call) # {}

FinalAbout(o, call) == \E t \in About(o, call) : txs[t].status = "finalized"

\* What has become of an object.  The row of a case is for the reviews as well,
\* and so is what the contract decides about it.
Passed(o) ==
  LET is == [row         |-> row[o].status # "none",
             firstSent   |-> SentAbout(o, FirstCall(o)),
             firstFinal  |-> FinalAbout(o, FirstCall(o)),
             created     |-> chain[o] # "none",
             secondSent  |-> SentAbout(o, SecondCall(o)),
             secondFinal |-> FinalAbout(o, SecondCall(o)),
             decided     |-> \/ o \in Claims /\ chain[o] \in Decisions \cup {"paid"}
                             \/ o \in Incidents /\ chain[o] = "analyzed",
             noted       |-> o \notin Cases /\ row[o].tx # 0,
             shown       |-> o \in Claims /\ row[o].status \in Decisions,
             payoutSent  |-> SentAbout(o, "authorize_payout")]
  IN  {m \in DOMAIN is : is[m]}

\* The backend keeps its promise to those who read the rows: with duplicates that
\* arrive late, retries in retries, crashes and refusals of the contract nothing
\* happens to an object before what it rests on, nothing that is decided or shown
\* is taken back, and a payout is sent after the claim's row has shown the
\* decision (slashing.py:162-210, insurance.py:164-215, 286, incidents.py:263-300).
Promise == INSTANCE TaskPromise WITH passed <- [o \in Objects |-> Passed(o)]

KeepsPromise == Promise!Spec
=============================================================================
