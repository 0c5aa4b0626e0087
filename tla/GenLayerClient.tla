--------------------------- MODULE GenLayerClient ---------------------------
(***************************************************************************)
(* The backend's client of the GenLayer chain: a caller (a coroutine)      *)
(* submits a transaction, polls for its outcome, and submits it again when *)
(* it does not learn that it is final.  The chain settles transactions in  *)
(* its own time and order; the client learns of it late or never.          *)
(*                                                                         *)
(* The background task of an object (a case, a claim, an incident) is      *)
(* inside send_and_wait; a request about one is inside send_transaction,   *)
(* which returns as soon as a transaction is in.                           *)
(***************************************************************************)
EXTENDS Integers, Sequences

CONSTANTS
  Objects,      \* what transactions are about, each with a task of its name
  Requests,     \* the other callers
  MaxAttempts,  \* 1 + retries of send_transaction
  MaxTxs        \* bound of the model: transactions ever submitted

ASSUME ClientAssumption ==
  /\ Objects \cap Requests = {}
  /\ MaxAttempts \in Nat \ {0}
  /\ MaxTxs \in Nat

Callers == Objects \cup Requests

\* The contract methods the tasks and requests call.
Calls == {"create_slashing_case", "submit_claim", "submit_evidence",
          "generate_slash_recommendation", "adjudicate_claim", "analyze_fault",
          "approve_slashing", "reject_slashing", "authorize_payout",
          "register_operator", "update_operator_stake", "compute_reputation"}

VARIABLES
  txs,     \* the transactions the chain has received, oldest first
  client   \* where each caller is in the client

clientVars == <<txs, client>>

Tx == [by : Callers, on : Objects, call : Calls,
       status : {"pending", "finalized", "failed"}]

\* "tx" is the index of the last transaction submitted, 0 for a tx_hash that
\* is None.
Session ==
  [pc : {"submit", "poll", "returned"}, on : Objects, call : Calls,
   attempt : 1..MaxAttempts, tx : 0..MaxTxs]

NoSession == [pc |-> "idle"]

ClientTypeOK ==
  /\ txs \in Seq(Tx)
  /\ client \in [Callers -> Session \cup {NoSession}]

ClientInit ==
  /\ txs = <<>>
  /\ client = [c \in Callers |-> NoSession]

\* A fresh call of the client.
NewSession(on, call) ==
  [pc |-> "submit", on |-> on, call |-> call, attempt |-> 1, tx |-> 0]

Received(c) ==
  /\ Len(txs) < MaxTxs
  /\ txs' = Append(txs, [by |-> c, on |-> client[c].on, call |-> client[c].call,
                         status |-> "pending"])

\* A slip: one attempt too many.
TryAgainOnceMore(c, tx) ==
  LET s == client[c]
  IN  client' = [client EXCEPT ![c] =
        IF s.attempt <= MaxAttempts
        THEN [s EXCEPT !.pc = "submit", !.attempt = s.attempt + 1]
        ELSE [s EXCEPT !.pc = "returned", !.tx = tx]]

\* What is left of the attempts is used; otherwise the call returns "tx".
TryAgain(c, tx) ==
  LET s == client[c]
  IN  client' = [client EXCEPT ![c] =
        IF s.attempt < MaxAttempts
        THEN [s EXCEPT !.pc = "submit", !.attempt = s.attempt + 1]
        ELSE [s EXCEPT !.pc = "returned", !.tx = tx]]

Submit(c) ==
  /\ client[c].pc = "submit"
  /\ Received(c)
  /\ client' = [client EXCEPT ![c].tx = Len(txs'),
                              ![c].pc = IF c \in Objects THEN "poll" ELSE "returned"]

\* The SDK raises, before or after the chain has received the transaction.
\* A call that ends this way has no transaction to show for it.
SubmitRaises(c) ==
  /\ client[c].pc = "submit"
  /\ Received(c) \/ UNCHANGED txs
  /\ TryAgain(c, 0)

\* A slip: a transaction that is only accepted is taken for final.
IsSent(tx) == tx # 0

IsFinal(tx) == tx # 0 /\ txs[tx].status = "finalized"

PollSucceeds(c) ==
  /\ client[c].pc = "poll"
  /\ IsFinal(client[c].tx)
  /\ client' = [client EXCEPT ![c].pc = "returned"]
  /\ UNCHANGED txs

\* A slip: polling goes on until the chain has an answer.
PollFails(c) ==
  /\ client[c].pc = "poll"
  /\ txs[client[c].tx].status = "failed"
  /\ TryAgain(c, client[c].tx)
  /\ UNCHANGED txs

\* A failed status, or a hundred polls without an answer to go by, whatever
\* has become of the transaction.
PollGivesUp(c) ==
  /\ client[c].pc = "poll"
  /\ TryAgain(c, client[c].tx)
  /\ UNCHANGED txs

\* A step of the coroutine inside the client.
ClientStep(c) == Submit(c) \/ SubmitRaises(c) \/ PollSucceeds(c) \/ PollGivesUp(c)

\* The chain settles a transaction: consensus is reached on its outcome (an
\* aborted call is final as well), or is given up.
Settles(t, status) ==
  /\ txs[t].status = "pending"
  /\ txs' = [txs EXCEPT ![t].status = status]
  /\ UNCHANGED client
=============================================================================
