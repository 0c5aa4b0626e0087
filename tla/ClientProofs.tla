----------------------------- MODULE ClientProofs -----------------------------
(***************************************************************************)
(* Lemmas about GenLayerClient, for any callers and bounds: what a caller  *)
(* inside the client knows of the transaction it has sent, and that a step *)
(* of a caller or of the chain loses none of it.                           *)
(***************************************************************************)
EXTENDS GenLayerClient, SequenceTheorems, TLAPS

\* The transaction a caller holds is its own, about the object and with the
\* call of its session.
SessionFits(c) ==
  client[c] # NoSession =>
    /\ client[c].tx \in 0..Len(txs)
    /\ client[c].pc = "poll" => client[c].tx # 0
    /\ client[c].tx # 0 =>
         /\ txs[client[c].tx].by = c
         /\ txs[client[c].tx].on = client[c].on
         /\ txs[client[c].tx].call = client[c].call

ClientInv ==
  /\ ClientTypeOK
  /\ Len(txs) <= MaxTxs
  /\ \A c \in Callers : SessionFits(c)

\* Transactions stay what they are, and what is final stays final.
Grows ==
  /\ Len(txs) <= Len(txs')
  /\ \A t \in DOMAIN txs :
       /\ t \in DOMAIN txs'
       /\ txs'[t].by = txs[t].by
       /\ txs'[t].on = txs[t].on
       /\ txs'[t].call = txs[t].call
       /\ txs[t].status = "finalized" => txs'[t].status = "finalized"

\* One transaction more, sent by "c" in its session.
Sends(c) ==
  /\ Len(txs') = Len(txs) + 1
  /\ txs'[Len(txs')].by = c
  /\ txs'[Len(txs')].on = client[c].on
  /\ txs'[Len(txs')].call = client[c].call
  /\ txs'[Len(txs')].status = "pending"
  /\ \A t \in DOMAIN txs : txs'[t] = txs[t]

LEMMA NoSessionIsNone == NoSession \notin Session
BY DEF NoSession, Session

LEMMA NewSessionType ==
  ASSUME NEW on \in Objects, NEW call \in Calls
  PROVE  /\ NewSession(on, call) \in Session
         /\ NewSession(on, call).on = on
         /\ NewSession(on, call).call = call
         /\ NewSession(on, call).tx = 0
         /\ NewSession(on, call).pc = "submit"
BY ClientAssumption DEF NewSession, Session

\* A transaction is received in full.
LEMMA ReceivedGrows ==
  ASSUME ClientTypeOK, NEW c \in Callers, client[c] \in Session, Received(c)
  PROVE  txs' \in Seq(Tx) /\ Len(txs') \in 0..MaxTxs /\ Grows /\ Sends(c)
<1> DEFINE new == [by |-> c, on |-> client[c].on, call |-> client[c].call,
                   status |-> "pending"]
<1>1. txs \in Seq(Tx) /\ new \in Tx
  BY DEF ClientTypeOK, Session, Tx
<1>2. txs' = Append(txs, new) /\ Len(txs) < MaxTxs
  BY DEF Received
<1>3. /\ new.by = c /\ new.on = client[c].on /\ new.call = client[c].call
      /\ new.status = "pending"
  OBVIOUS
<1> HIDE DEF new
<1>4. /\ txs' \in Seq(Tx) /\ Len(txs') = Len(txs) + 1 /\ Len(txs) \in Nat
      /\ \A t \in 1..Len(txs) : txs'[t] = txs[t]
      /\ txs'[Len(txs) + 1] = new
  BY <1>1, <1>2, AppendProperties, LenProperties
<1>5. DOMAIN txs = 1..Len(txs) /\ DOMAIN txs' = 1..Len(txs')
  BY <1>1, <1>4, LenProperties
<1> QED BY <1>2, <1>3, <1>4, <1>5, ClientAssumption DEF Grows, Sends

\* The chain settles one transaction.
LEMMA SettlesGrows ==
  ASSUME ClientTypeOK, NEW t \in DOMAIN txs, NEW status \in {"finalized", "failed"},
         Settles(t, status)
  PROVE  txs' \in Seq(Tx) /\ Len(txs') = Len(txs) /\ Grows
<1>1. txs \in Seq(Tx) /\ txs[t].status = "pending"
  BY DEF ClientTypeOK, Settles
<1>2. txs[t] \in Tx
  BY <1>1, ElementOfSeq, LenProperties
<1> DEFINE settled == [txs[t] EXCEPT !.status = status]
<1>3. settled \in Tx /\ settled.by = txs[t].by /\ settled.on = txs[t].on
      /\ settled.call = txs[t].call
  BY <1>2 DEF Tx
<1>4. txs' = [txs EXCEPT ![t] = settled]
  BY DEF Settles
<1> HIDE DEF settled
<1>5. txs' \in Seq(Tx) /\ Len(txs') = Len(txs)
      /\ \A u \in DOMAIN txs : txs'[u] = IF u = t THEN settled ELSE txs[u]
  BY <1>1, <1>3, <1>4, ExceptSeq, LenProperties
<1> QED BY <1>1, <1>3, <1>5, LenProperties DEF Grows

LEMMA StillGrows == ASSUME ClientTypeOK, UNCHANGED txs PROVE Grows
<1>1. Len(txs) \in Nat
  BY LenProperties DEF ClientTypeOK
<1> QED BY <1>1 DEF Grows

\* A caller that does nothing keeps what it knows.
LEMMA SessionStable ==
  ASSUME ClientTypeOK, txs' \in Seq(Tx), Grows, NEW c \in Callers, client'[c] = client[c],
         SessionFits(c)
  PROVE  SessionFits(c)'
<1>1. /\ DOMAIN txs = 1..Len(txs) /\ Len(txs) \in Nat
      /\ DOMAIN txs' = 1..Len(txs') /\ Len(txs') \in Nat
  BY LenProperties DEF ClientTypeOK
<1> QED BY <1>1 DEF SessionFits, Grows, ClientTypeOK, Session

\* What a step of the client makes of its session: the transaction is the one it
\* had, one it has sent just now, or none.
Continues(c, s) ==
  /\ client' = [client EXCEPT ![c] = s]
  /\ s \in Session
  /\ s.on = client[c].on /\ s.call = client[c].call
  /\ \/ s.tx = client[c].tx \/ s.tx = 0
     \/ Sends(c) /\ s.tx = Len(txs')
  /\ s.pc = "poll" => s.tx # 0

LEMMA ContinuesFits ==
  ASSUME ClientInv, NEW c \in Callers, client[c] \in Session, NEW s, Continues(c, s),
         txs' \in Seq(Tx), Grows
  PROVE  SessionFits(c)'
<1>1. /\ DOMAIN txs = 1..Len(txs) /\ Len(txs) \in Nat
      /\ DOMAIN txs' = 1..Len(txs') /\ Len(txs') \in Nat
  BY LenProperties DEF ClientInv, ClientTypeOK
<1>2. client'[c] = s /\ SessionFits(c)
  BY DEF Continues, ClientInv, ClientTypeOK
<1>3. client[c] # NoSession /\ client[c].tx \in 0..Len(txs)
  BY <1>2, NoSessionIsNone DEF SessionFits
<1>4. CASE s.tx = 0
  BY <1>1, <1>2, <1>4 DEF SessionFits, Continues
<1>5. CASE s.tx # 0 /\ s.tx = client[c].tx
  <2>1. s.tx \in DOMAIN txs /\ s.tx \in 0..Len(txs')
    BY <1>1, <1>3, <1>5 DEF Grows
  <2>2. txs[s.tx].by = c /\ txs[s.tx].on = s.on /\ txs[s.tx].call = s.call
    BY <1>2, <1>3, <1>5 DEF SessionFits, Continues
  <2>3. txs'[s.tx].by = c /\ txs'[s.tx].on = s.on /\ txs'[s.tx].call = s.call
    BY <2>1, <2>2 DEF Grows
  <2> QED BY <1>2, <1>5, <2>1, <2>3 DEF SessionFits
<1>6. CASE Sends(c) /\ s.tx = Len(txs')
  <2>1. txs'[s.tx].by = c /\ txs'[s.tx].on = s.on /\ txs'[s.tx].call = s.call
    BY <1>6 DEF Sends, Continues
  <2>2. s.tx \in 0..Len(txs') /\ s.tx # 0
    BY <1>1, <1>6 DEF Sends
  <2> QED BY <1>2, <2>1, <2>2 DEF SessionFits
<1> QED BY <1>4, <1>5, <1>6 DEF Continues

LEMMA SessionAgain ==
  ASSUME NEW s \in Session, s.attempt < MaxAttempts
  PROVE  LET again == [s EXCEPT !.pc = "submit", !.attempt = s.attempt + 1]
         IN  /\ again \in Session
             /\ again.on = s.on /\ again.call = s.call /\ again.tx = s.tx
             /\ again.pc = "submit"
<1>1. s.attempt + 1 \in 1..MaxAttempts
  BY ClientAssumption DEF Session
<1>2. PICK n : n = s.attempt + 1
  OBVIOUS
<1>3. [s EXCEPT !.pc = "submit", !.attempt = n] \in Session
  BY <1>1, <1>2 DEF Session
<1> QED BY <1>2, <1>3 DEF Session

LEMMA SessionBack ==
  ASSUME NEW s \in Session, NEW tx \in {0, s.tx}
  PROVE  LET back == [s EXCEPT !.pc = "returned", !.tx = tx]
         IN  /\ back \in Session
             /\ back.on = s.on /\ back.call = s.call /\ back.tx = tx
             /\ back.pc = "returned"
<1>1. tx \in 0..MaxTxs
  BY ClientAssumption DEF Session
<1>2. [s EXCEPT !.pc = "returned", !.tx = tx] \in Session
  BY <1>1 DEF Session
<1> QED BY <1>2 DEF Session

LEMMA TryAgainContinues ==
  ASSUME ClientTypeOK, NEW c \in Callers, client[c] \in Session,
         NEW tx \in {0, client[c].tx}, TryAgain(c, tx)
  PROVE  \E s \in Session : Continues(c, s)
<1>1. CASE client[c].attempt < MaxAttempts
  <2>1. client' = [client EXCEPT ![c] =
            [client[c] EXCEPT !.pc = "submit", !.attempt = client[c].attempt + 1]]
    BY <1>1 DEF TryAgain
  <2> QED BY <1>1, <2>1, SessionAgain DEF Continues
<1>2. CASE ~(client[c].attempt < MaxAttempts)
  <2>1. client' = [client EXCEPT ![c] = [client[c] EXCEPT !.pc = "returned", !.tx = tx]]
    BY <1>2 DEF TryAgain
  <2> QED BY <2>1, SessionBack DEF Continues
<1> QED BY <1>1, <1>2

LEMMA SubmitContinues ==
  ASSUME ClientInv, NEW c \in Callers, client[c] \in Session, Submit(c)
  PROVE  \E s \in Session : Continues(c, s)
<1> DEFINE pc == IF c \in Objects THEN "poll" ELSE "returned"
           s  == [client[c] EXCEPT !.tx = Len(txs'), !.pc = pc]
<1>1. Sends(c) /\ Len(txs') \in 0..MaxTxs /\ Len(txs) \in Nat
  BY ReceivedGrows, LenProperties DEF Submit, ClientInv, ClientTypeOK
<1>2. s \in Session /\ s.on = client[c].on /\ s.call = client[c].call /\ s.tx = Len(txs')
  BY <1>1 DEF Session
<1>3. client' = [client EXCEPT ![c] = s]
  BY DEF Submit
<1>4. s.tx # 0
  BY <1>1, <1>2 DEF Sends
<1> HIDE DEF s
<1> QED BY <1>1, <1>2, <1>3, <1>4 DEF Continues

\* A step of a caller in the client is one of its own session.
LEMMA StepOfSession ==
  ASSUME ClientInv, NEW c \in Callers, ClientStep(c)
  PROVE  /\ client[c] \in Session
         /\ \E s \in Session : Continues(c, s)
         /\ txs' \in Seq(Tx) /\ Len(txs') \in 0..MaxTxs
         /\ Grows
         /\ UNCHANGED txs \/ Sends(c)
<1>1. client[c] \in Session
  BY DEF ClientInv, ClientTypeOK, ClientStep, Submit, SubmitRaises, PollSucceeds, PollGivesUp,
         NoSession
<1>2. ClientTypeOK /\ SessionFits(c) /\ Len(txs) \in 0..MaxTxs
  BY LenProperties, ClientAssumption DEF ClientInv, ClientTypeOK
<1>3. CASE Submit(c)
  BY <1>1, <1>2, <1>3, SubmitContinues, ReceivedGrows DEF Submit
<1>4. CASE SubmitRaises(c)
  BY <1>1, <1>2, <1>4, TryAgainContinues, ReceivedGrows, StillGrows
     DEF SubmitRaises, ClientTypeOK
<1>5. CASE PollSucceeds(c)
  <2> DEFINE s == [client[c] EXCEPT !.pc = "returned"]
  <2>1. s \in Session /\ s.on = client[c].on /\ s.call = client[c].call
        /\ s.tx = client[c].tx /\ s.pc = "returned"
    BY <1>1 DEF Session
  <2>2. client' = [client EXCEPT ![c] = s] /\ UNCHANGED txs
    BY <1>5 DEF PollSucceeds
  <2> HIDE DEF s
  <2> QED BY <1>1, <1>2, <2>1, <2>2, StillGrows DEF Continues, ClientTypeOK
<1>6. CASE PollGivesUp(c)
  BY <1>1, <1>2, <1>6, TryAgainContinues, StillGrows DEF PollGivesUp, ClientTypeOK
<1> QED BY <1>3, <1>4, <1>5, <1>6 DEF ClientStep

\* So the client's invariant is kept by its steps,
LEMMA ClientStepInv ==
  ASSUME ClientInv, NEW c \in Callers, ClientStep(c)
  PROVE  ClientInv'
<1>1. PICK s \in Session : Continues(c, s)
  BY StepOfSession
<1>2. client' = [client EXCEPT ![c] = s]
  BY <1>1 DEF Continues
<1>3. ClientTypeOK' /\ Len(txs)' <= MaxTxs
  BY <1>2, StepOfSession, ClientAssumption DEF ClientInv, ClientTypeOK
<1>4. SessionFits(c)'
  BY <1>1, StepOfSession, ContinuesFits
<1>5. ASSUME NEW b \in Callers, b # c PROVE SessionFits(b)'
  <2>1. client'[b] = client[b]
    BY <1>2, <1>5 DEF ClientInv, ClientTypeOK
  <2> QED BY <2>1, StepOfSession, SessionStable DEF ClientInv
<1> QED BY <1>3, <1>4, <1>5 DEF ClientInv

\* by a settled transaction,
LEMMA SettlesInv ==
  ASSUME ClientInv, NEW t \in DOMAIN txs, NEW status \in {"finalized", "failed"},
         Settles(t, status)
  PROVE  ClientInv' /\ Grows /\ UNCHANGED client
<1>1. txs' \in Seq(Tx) /\ Len(txs') = Len(txs) /\ Grows /\ UNCHANGED client
  BY SettlesGrows DEF ClientInv, Settles
<1> QED BY <1>1, SessionStable DEF ClientInv, ClientTypeOK

\* and by callers that enter or leave the client.
LEMMA SessionsInv ==
  ASSUME ClientInv, UNCHANGED txs, client' \in [Callers -> Session \cup {NoSession}],
         \A c \in Callers :
           \/ client'[c] = client[c] \/ client'[c] = NoSession
           \/ client'[c].tx = 0 /\ client'[c].pc = "submit"
  PROVE  ClientInv' /\ Grows
<1>1. ClientTypeOK' /\ Grows /\ txs' \in Seq(Tx) /\ Len(txs) \in Nat
  BY StillGrows, LenProperties DEF ClientInv, ClientTypeOK
<1>2. ASSUME NEW c \in Callers PROVE SessionFits(c)'
  <2>1. CASE client'[c] = client[c]
    BY <1>1, <2>1, SessionStable DEF ClientInv
  <2>2. CASE client'[c] # client[c]
    BY <1>1, <2>2 DEF SessionFits
  <2> QED BY <2>1, <2>2
<1> QED BY <1>1, <1>2 DEF ClientInv
=============================================================================
