--------------------------- MODULE MonitoringProofs ---------------------------
(***************************************************************************)
(* Proofs about MonitoringWorker for any networks, operators and bounds:   *)
(* its types, that incident, alert and event are on file together, and     *)
(* that the worker implements MonitoringPromise.                           *)
(*                                                                         *)
(* What is on file says too little by itself.  A commit files a trouble    *)
(* for the first time only because nothing was on file for its network     *)
(* when the poll looked, and nobody else files for that network; and what  *)
(* it stores is complete only because of the steps before it.  IInv        *)
(* remembers both, step by step of a poll.                                 *)
(***************************************************************************)
EXTENDS MonitoringWorker, SequenceTheorems, TLAPS

PollRecord == [pc : PollPc, left : Seq(Entry), flushed : Flushed]

OnFile(n, o) == stored[n][o]["incident"]

Whole(n) == IF n = "eigenlayer" THEN Tables ELSE {"incident", "alert"}

Filing == {"lookup", "alert", "event", "commit"}

\* A poll that is at an entry has one at hand, the open transaction holds what
\* the steps before have added, nothing is on file for the network while
\* something is about to be, and what is to be announced is on file and has not
\* been announced.
Fits(n, p) ==
  /\ p.pc \in Filing \cup {"publish"} => p.left # <<>>
  /\ p.pc = "alert" => p.flushed = {"incident"}
  /\ p.pc = "event" => p.flushed = {"incident", "alert"} /\ n = "eigenlayer"
  /\ p.pc = "commit" => p.flushed = Whole(n)
  /\ p.pc \in Filing => \A o \in Operators : OnFile(n, o) = 0
  /\ p.pc = "publish" => /\ OnFile(n, Head(p.left).operator) = 1
                         /\ announced[n][Head(p.left).operator] = 0

PollsFit == \A n \in Networks : Fits(n, poll[n])

\* Nothing is on file twice or announced more often than it is on file.
AnnouncedOnFile ==
  \A n \in Networks, o \in Operators :
    OnFile(n, o) <= 1 /\ announced[n][o] <= OnFile(n, o)

IInv == TypeOK /\ PollsFit /\ AnnouncedOnFile /\ FiledTogether

-----------------------------------------------------------------------------
(***************************************************************************)
(* The invariant holds at the start and is kept by every step.             *)
(***************************************************************************)

LEMMA NoPollFits ==
  /\ NoPoll \in PollRecord
  /\ \A n \in Networks : Fits(n, NoPoll)
BY DEF NoPoll, PollRecord, PollPc, Flushed, Fits, Filing

LEMMA InitInv == Init => IInv
<1> SUFFICES ASSUME Init PROVE IInv
  OBVIOUS
<1> USE DEF Init
<1>1. TypeOK
  BY NoPollFits, WorkerAssumption DEF TypeOK, PollRecord
<1>2. PollsFit
  BY NoPollFits DEF PollsFit
<1>3. AnnouncedOnFile
  BY DEF AnnouncedOnFile, OnFile, Tables
<1>4. FiledTogether
  BY DEF FiledTogether, Tables
<1>5. QED BY <1>1, <1>2, <1>3, <1>4 DEF IInv

\* A step that changes what a poll is at, and nothing on file.
LEMMA PollMoves ==
  ASSUME IInv, NEW n \in Networks, NEW p \in PollRecord, Fits(n, p),
         poll' = [poll EXCEPT ![n] = p],
         UNCHANGED <<env, stored, announced, due>>, faults' \in 0..MaxFaults
  PROVE  IInv'
<1>1. TypeOK'
  BY DEF IInv, TypeOK, PollRecord, env
<1>2. PollsFit'
  <2> SUFFICES ASSUME NEW m \in Networks PROVE Fits(m, poll[m])'
    BY DEF PollsFit
  <2>1. poll'[m] = IF m = n THEN p ELSE poll[m]
    BY DEF IInv, TypeOK
  <2>2. CASE m = n
    BY <2>1, <2>2 DEF Fits, OnFile
  <2>3. CASE m # n
    BY <2>1, <2>3 DEF IInv, PollsFit, Fits, OnFile
  <2>4. QED BY <2>2, <2>3
<1>3. AnnouncedOnFile'
  BY DEF IInv, AnnouncedOnFile, OnFile
<1>4. FiledTogether'
  BY DEF IInv, FiledTogether
<1>5. QED BY <1>1, <1>2, <1>3, <1>4 DEF IInv

\* Steps around the worker leave it alone.
LEMMA EnvSteps ==
  ASSUME IInv, UNCHANGED <<stored, announced, poll, faults>>,
         feed' \in [Networks -> Seq(Entry)], rows' \in [Operators -> 0..2],
         manual' \in SUBSET Networks, due' \in SUBSET Networks
  PROVE  IInv'
BY DEF IInv, TypeOK, PollsFit, Fits, AnnouncedOnFile, OnFile, FiledTogether

LEMMA ReportInv ==
  ASSUME IInv, NEW n \in Networks, NEW e \in Entry, Report(n, e)
  PROVE  IInv'
<1>1. feed[n] \in Seq(Entry) /\ <<e>> \in Seq(Entry)
  BY DEF IInv, TypeOK
<1>2. <<e>> \o feed[n] \in Seq(Entry)
  BY <1>1, ConcatProperties
<1>3. feed' \in [Networks -> Seq(Entry)]
  BY <1>2 DEF IInv, TypeOK, Report
<1>4. UNCHANGED <<rows, manual, stored, announced, due, poll, faults>>
  BY DEF Report
<1>5. QED BY <1>3, <1>4, EnvSteps DEF IInv, TypeOK

LEMMA UnjailInv ==
  ASSUME IInv, NEW n \in Networks, NEW i \in DOMAIN feed[n], Unjail(n, i)
  PROVE  IInv'
<1>1. feed[n] \in Seq(Entry) /\ i \in 1..Len(feed[n])
  BY DEF IInv, TypeOK
<1>2. [feed[n][i] EXCEPT !.kind = "free"] \in Entry
  <2>1. feed[n][i] \in Entry
    BY <1>1, ElementOfSeq
  <2>2. QED BY <2>1 DEF Entry
<1>3. [feed[n] EXCEPT ![i] = [feed[n][i] EXCEPT !.kind = "free"]] \in Seq(Entry)
  BY <1>1, <1>2, ExceptSeq
<1>4. feed' = [feed EXCEPT ![n] = [feed[n] EXCEPT ![i] = [feed[n][i] EXCEPT !.kind = "free"]]]
  BY DEF Unjail
<1>5. feed' \in [Networks -> Seq(Entry)]
  BY <1>3, <1>4 DEF IInv, TypeOK
<1>6. QED BY <1>5, EnvSteps DEF IInv, TypeOK, Unjail

LEMMA AroundInv ==
  ASSUME IInv,
         \/ \E o \in Operators : AddOperator(o)
         \/ \E n \in Networks : FileByHand(n) \/ IntervalEnds(n)
  PROVE  IInv'
<1>1. ASSUME NEW o \in Operators, AddOperator(o) PROVE IInv'
  <2>1. rows \in [Operators -> 0..2]
    BY DEF IInv, TypeOK
  <2>2. rows' \in [Operators -> 0..2]
    BY <1>1, <2>1 DEF AddOperator
  <2>3. UNCHANGED <<feed, manual, stored, announced, due, poll, faults>>
    BY <1>1 DEF AddOperator
  <2>4. QED BY <2>2, <2>3, EnvSteps DEF IInv, TypeOK
<1>2. ASSUME NEW n \in Networks, FileByHand(n) PROVE IInv'
  BY <1>2, EnvSteps DEF IInv, TypeOK, FileByHand
<1>3. ASSUME NEW n \in Networks, IntervalEnds(n) PROVE IInv'
  BY <1>3, EnvSteps DEF IInv, TypeOK, IntervalEnds, env
<1>4. QED BY <1>1, <1>2, <1>3

LEMMA FaultInRange == ASSUME IInv, Fault PROVE faults' \in 0..MaxFaults
<1>1. faults \in 0..MaxFaults
  BY DEF IInv, TypeOK
<1>2. QED BY <1>1, WorkerAssumption DEF Fault

\* Polls that start or are cut off are at no entry.
LEMMA AllPollsFresh ==
  ASSUME IInv, UNCHANGED <<env, stored, announced>>,
         due' = {}, faults' \in 0..MaxFaults,
         NEW f \in [Networks -> PollRecord], poll' = f,
         \A n \in Networks : f[n] = poll[n] \/ f[n].pc \in {"idle", "fetch"}
  PROVE  IInv'
<1>1. TypeOK'
  BY DEF IInv, TypeOK, env, PollRecord
<1>2. PollsFit'
  <2> SUFFICES ASSUME NEW m \in Networks PROVE Fits(m, poll[m])'
    BY DEF PollsFit
  <2>1. CASE f[m] = poll[m]
    BY <2>1 DEF IInv, PollsFit, Fits, OnFile
  <2>2. CASE f[m].pc \in {"idle", "fetch"}
    BY <2>2 DEF Fits, Filing
  <2>3. QED BY <2>1, <2>2
<1>3. AnnouncedOnFile' /\ FiledTogether'
  BY DEF IInv, AnnouncedOnFile, OnFile, FiledTogether
<1>4. QED BY <1>1, <1>2, <1>3 DEF IInv

LEMMA RoundInv == ASSUME IInv, Round PROVE IInv'
<1> DEFINE f == [n \in Networks |-> IF n \in due THEN [NoPoll EXCEPT !.pc = "fetch"] ELSE poll[n]]
<1>1. PICK g : g = f
  OBVIOUS
<1>2. [NoPoll EXCEPT !.pc = "fetch"] \in PollRecord
  BY NoPollFits DEF PollRecord, PollPc
<1>3. poll \in [Networks -> PollRecord]
  BY DEF IInv, TypeOK, PollRecord
<1>4. g \in [Networks -> PollRecord]
  BY <1>1, <1>2, <1>3
<1>5. [NoPoll EXCEPT !.pc = "fetch"].pc = "fetch"
  BY DEF NoPoll
<1>6. \A n \in Networks : g[n] = poll[n] \/ g[n].pc \in {"idle", "fetch"}
  BY <1>1, <1>5
<1>7. QED BY <1>1, <1>4, <1>6, AllPollsFresh DEF IInv, TypeOK, Round

LEMMA CrashInv == ASSUME IInv, Crash PROVE IInv'
<1>1. faults' \in 0..MaxFaults
  BY FaultInRange DEF Crash
<1>2. NoPoll.pc = "idle"
  BY DEF NoPoll
<1>3. QED BY <1>1, <1>2, NoPollFits, AllPollsFresh DEF Crash

-----------------------------------------------------------------------------
(***************************************************************************)
(* The steps of a poll.                                                    *)
(***************************************************************************)

\* A poll that ends, having stored nothing.
LEMMA AbortInv ==
  ASSUME IInv, NEW n \in Networks, Abort(n),
         UNCHANGED <<env, stored, announced, due>>, faults' \in 0..MaxFaults
  PROVE  IInv'
BY NoPollFits, PollMoves DEF Abort

LEMMA NextEntryFits ==
  ASSUME IInv, NEW n \in Networks, poll[n].left # <<>>
  PROVE  [poll[n] EXCEPT !.pc = "next", !.left = Tail(@), !.flushed = {}] \in PollRecord
<1>1. Tail(poll[n].left) \in Seq(Entry)
  BY HeadTailProperties DEF IInv, TypeOK
<1>2. QED BY <1>1 DEF IInv, TypeOK, PollRecord, PollPc, Flushed

LEMMA NextEntryInv ==
  ASSUME IInv, NEW n \in Networks, poll[n].left # <<>>, NextEntry(n),
         UNCHANGED <<env, stored, announced, due, faults>>
  PROVE  IInv'
<1>1. PICK p : p = [poll[n] EXCEPT !.pc = "next", !.left = Tail(@), !.flushed = {}]
  OBVIOUS
<1>2. p \in PollRecord
  BY <1>1, NextEntryFits
<1>3. Fits(n, p)
  BY <1>1 DEF IInv, TypeOK, Fits, Filing
<1>4. poll' = [poll EXCEPT ![n] = p]
  BY <1>1 DEF NextEntry
<1>5. QED BY <1>2, <1>3, <1>4, PollMoves DEF IInv, TypeOK

LEMMA FetchInv == ASSUME IInv, NEW n \in Networks, Fetch(n) PROVE IInv'
<1>1. PICK p : p = [poll[n] EXCEPT !.pc = "next", !.left = feed[n]]
  OBVIOUS
<1>2. p \in PollRecord
  BY <1>1 DEF IInv, TypeOK, PollRecord, PollPc
<1>3. Fits(n, p)
  BY <1>1 DEF IInv, TypeOK, Fits, Filing
<1>4. poll' = [poll EXCEPT ![n] = p]
  BY <1>1 DEF Fetch
<1>5. QED BY <1>2, <1>3, <1>4, PollMoves DEF IInv, TypeOK, Fetch

\* Nothing is on file when the poll goes on to file something.
LEMMA NotFiledInv == ASSUME IInv, NEW n \in Networks, NotFiled(n) PROVE IInv'
<1>1. PICK p : p = [poll[n] EXCEPT !.pc = "lookup"]
  OBVIOUS
<1>2. p \in PollRecord
  BY <1>1 DEF IInv, TypeOK, PollRecord, PollPc
<1>3. \A o \in Operators : OnFile(n, o) = 0
  BY DEF IInv, TypeOK, NotFiled, Filed, OnFile, Tables
<1>4. Fits(n, p)
  BY <1>1, <1>3 DEF IInv, TypeOK, Fits, Filing, NotFiled, HasEntry, At
<1>5. poll' = [poll EXCEPT ![n] = p]
  BY <1>1 DEF NotFiled, Goto
<1>6. QED BY <1>2, <1>4, <1>5, PollMoves DEF IInv, TypeOK, NotFiled

LEMMA LookupInv == ASSUME IInv, NEW n \in Networks, Lookup(n) PROVE IInv'
<1>1. CASE rows[Current(n).operator] > 1
  BY <1>1, AbortInv DEF IInv, TypeOK, Lookup
<1>2. CASE ~(rows[Current(n).operator] > 1)
  <2>1. PICK p : p = [poll[n] EXCEPT !.pc = "alert", !.flushed = {"incident"}]
    OBVIOUS
  <2>2. p \in PollRecord
    BY <2>1 DEF IInv, TypeOK, PollRecord, PollPc, Flushed
  <2>3. Fits(n, p)
    BY <2>1 DEF IInv, TypeOK, PollsFit, Fits, Filing, Lookup, At
  <2>4. poll' = [poll EXCEPT ![n] = p]
    BY <1>2, <2>1 DEF Lookup, Added
  <2>5. QED BY <2>2, <2>3, <2>4, PollMoves DEF IInv, TypeOK, Lookup
<1>3. QED BY <1>1, <1>2

LEMMA SaveAlertInv == ASSUME IInv, NEW n \in Networks, SaveAlert(n) PROVE IInv'
<1>1. PICK p : p = [poll[n] EXCEPT !.pc = IF n = "eigenlayer" THEN "event" ELSE "commit",
                                   !.flushed = {"incident", "alert"}]
  OBVIOUS
<1>2. p \in PollRecord
  BY <1>1 DEF IInv, TypeOK, PollRecord, PollPc, Flushed
<1>3. poll[n].flushed = {"incident"}
  BY DEF IInv, PollsFit, Fits, SaveAlert, At
<1>4. Fits(n, p)
  BY <1>1 DEF IInv, TypeOK, PollsFit, Fits, Filing, SaveAlert, At, Whole
<1>5. poll' = [poll EXCEPT ![n] = p]
  BY <1>1, <1>3 DEF SaveAlert
<1>6. QED BY <1>2, <1>4, <1>5, PollMoves DEF IInv, TypeOK, SaveAlert

LEMMA SaveEventInv == ASSUME IInv, NEW n \in Networks, SaveEvent(n) PROVE IInv'
<1>1. PICK p : p = [poll[n] EXCEPT !.pc = "commit", !.flushed = Tables]
  OBVIOUS
<1>2. p \in PollRecord
  BY <1>1 DEF IInv, TypeOK, PollRecord, PollPc, Flushed
<1>3. poll[n].flushed \cup {"event"} = Tables /\ n = "eigenlayer"
  BY DEF IInv, PollsFit, Fits, SaveEvent, At, Tables
<1>4. Fits(n, p)
  BY <1>1, <1>3 DEF IInv, TypeOK, PollsFit, Fits, Filing, SaveEvent, At, Whole
<1>5. poll' = [poll EXCEPT ![n] = p]
  BY <1>1, <1>3 DEF SaveEvent
<1>6. QED BY <1>2, <1>4, <1>5, PollMoves DEF IInv, TypeOK, SaveEvent
\* What a commit puts on file: every table of the entry's trouble once.
LEMMA StoreStep ==
  ASSUME IInv, NEW n \in Networks, At(n, "commit"), Store(n)
  PROVE  /\ Current(n).operator \in Operators
         /\ stored' \in [Networks -> [Operators -> [Tables -> Nat]]]
         /\ \A m \in Networks, o \in Operators : \A t \in Tables :
              stored'[m][o][t] = IF m = n /\ o = Current(n).operator /\ t \in Whole(n)
                                 THEN 1 ELSE stored[m][o][t]
<1> DEFINE op == Current(n).operator
<1>1. op \in Operators
  <2>1. poll[n].left \in Seq(Entry) /\ poll[n].left # <<>>
    BY DEF IInv, TypeOK, PollsFit, Fits, Filing, At
  <2>2. Head(poll[n].left) \in Entry
    BY <2>1, HeadTailProperties
  <2>3. QED BY <2>2 DEF Current, Entry
<1>2. stored \in [Networks -> [Operators -> [Tables -> Nat]]]
  BY DEF IInv, TypeOK
<1>3. poll[n].flushed = Whole(n)
  BY DEF IInv, PollsFit, Fits, At
<1>4. \A t \in Tables : stored[n][op][t] \in Nat
  BY <1>1, <1>2
<1>5. \A t \in Whole(n) : t \in Tables /\ stored[n][op][t] = 0
  BY <1>1 DEF IInv, PollsFit, Fits, Filing, At, OnFile, FiledTogether, Whole, Tables
<1> DEFINE filed == [t \in Tables |-> stored[n][op][t] + (IF t \in Whole(n) THEN 1 ELSE 0)]
<1>6. filed \in [Tables -> Nat]
  BY <1>4
<1>7. stored' = [stored EXCEPT ![n] = [stored[n] EXCEPT ![op] = filed]]
  BY <1>3 DEF Store
<1>8. [stored[n] EXCEPT ![op] = filed] \in [Operators -> [Tables -> Nat]]
  BY <1>2, <1>6
<1>9. stored' \in [Networks -> [Operators -> [Tables -> Nat]]]
  BY <1>2, <1>7, <1>8
<1>10. ASSUME NEW m \in Networks, NEW o \in Operators, NEW t \in Tables
       PROVE  stored'[m][o][t] = IF m = n /\ o = op /\ t \in Whole(n)
                                 THEN 1 ELSE stored[m][o][t]
  <2>1. CASE m = n /\ o = op
    <3>1. stored'[m][o] = filed
      BY <1>1, <1>2, <1>7, <2>1
    <3>2. QED BY <1>4, <1>5, <2>1, <3>1
  <2>2. CASE ~(m = n /\ o = op)
    BY <1>2, <1>7, <2>2
  <2>3. QED BY <2>1, <2>2
<1>11. QED BY <1>1, <1>9, <1>10
\* After a commit, done for good or in a transaction whose answer was lost.
LEMMA StoreInv ==
  ASSUME IInv, NEW n \in Networks, At(n, "commit"), Store(n),
         NEW p \in PollRecord, poll' = [poll EXCEPT ![n] = p],
         p = NoPoll \/ p = [poll[n] EXCEPT !.pc = "publish"],
         UNCHANGED <<env, announced, due>>, faults' \in 0..MaxFaults
  PROVE  IInv'
<1> DEFINE op == Current(n).operator
<1>1. /\ op \in Operators
      /\ \A m \in Networks, o \in Operators : \A t \in Tables :
           stored'[m][o][t] = IF m = n /\ o = op /\ t \in Whole(n) THEN 1 ELSE stored[m][o][t]
  BY StoreStep
<1>2. TypeOK'
  BY StoreStep DEF IInv, TypeOK, PollRecord, env
<1>3. \A o \in Operators : OnFile(n, o) = 0 /\ announced[n][o] = 0
  BY DEF IInv, TypeOK, PollsFit, Fits, Filing, At, AnnouncedOnFile, OnFile
<1>4. \A m \in Networks, o \in Operators :
        OnFile(m, o)' = IF m = n /\ o = op THEN 1 ELSE OnFile(m, o)
  BY <1>1 DEF OnFile, Whole, Tables
<1>5. PollsFit'
  <2> SUFFICES ASSUME NEW m \in Networks PROVE Fits(m, poll[m])'
    BY DEF PollsFit
  <2>1. CASE m # n
    <3>1. poll'[m] = poll[m] /\ Fits(m, poll[m])
      BY <2>1 DEF IInv, TypeOK, PollsFit
    <3>2. poll[m].pc = "publish" => Head(poll[m].left).operator \in Operators
      <4>1. CASE poll[m].pc = "publish"
        <5>1. poll[m].left \in Seq(Entry) /\ poll[m].left # <<>>
          BY <3>1, <4>1 DEF IInv, TypeOK, Fits
        <5>2. Head(poll[m].left) \in Entry
          BY <5>1, HeadTailProperties
        <5>3. QED BY <5>2 DEF Entry
      <4>2. QED BY <4>1
    <3>3. \A o \in Operators : OnFile(m, o)' = OnFile(m, o)
      BY <1>4, <2>1
    <3>4. QED BY <3>1, <3>2, <3>3 DEF Fits
  <2>2. CASE m = n
    <3>1. poll'[m] = p
      BY <2>2 DEF IInv, TypeOK
    <3>2. CASE p = NoPoll
      BY <3>1, <3>2 DEF NoPoll, Fits, Filing
    <3>3. CASE p = [poll[n] EXCEPT !.pc = "publish"]
      <4>1. p.pc = "publish" /\ p.left = poll[n].left /\ p.left # <<>>
        BY <3>3 DEF IInv, TypeOK, PollsFit, Fits, Filing, At
      <4>2. stored'[n][op]["incident"] = 1
        BY <1>1 DEF Whole, Tables
      <4>3. announced'[n][op] = 0
        BY <1>1, <1>3
      <4>4. QED BY <2>2, <3>1, <4>1, <4>2, <4>3 DEF Fits, Filing, Current, OnFile
    <3>4. QED BY <3>2, <3>3
  <2>3. QED BY <2>1, <2>2
<1>6. AnnouncedOnFile'
  BY <1>3, <1>4 DEF IInv, AnnouncedOnFile
<1>7. FiledTogether'
  <2> SUFFICES ASSUME NEW m \in Networks, NEW o \in Operators
      PROVE /\ stored'[m][o]["alert"] = stored'[m][o]["incident"]
            /\ stored'[m][o]["event"] = IF m = "eigenlayer" THEN stored'[m][o]["incident"] ELSE 0
    BY DEF FiledTogether
  <2>1. /\ stored[m][o]["alert"] = stored[m][o]["incident"]
        /\ stored[m][o]["event"] = IF m = "eigenlayer" THEN stored[m][o]["incident"] ELSE 0
    BY DEF IInv, FiledTogether
  <2>2. QED BY <1>1, <2>1 DEF Whole, Tables
<1>8. QED BY <1>2, <1>5, <1>6, <1>7 DEF IInv

LEMMA CommitInv == ASSUME IInv, NEW n \in Networks, Commit(n) PROVE IInv'
<1>1. PICK p : p = [poll[n] EXCEPT !.pc = "publish"]
  OBVIOUS
<1>2. p \in PollRecord
  BY <1>1 DEF IInv, TypeOK, PollRecord, PollPc
<1>3. poll' = [poll EXCEPT ![n] = p]
  BY <1>1 DEF Commit, Goto
<1>4. faults' \in 0..MaxFaults
  BY DEF IInv, TypeOK, Commit
<1>5. QED BY <1>1, <1>2, <1>3, <1>4, StoreInv DEF Commit

LEMMA PollFailsInv == ASSUME IInv, NEW n \in Networks, PollFails(n) PROVE IInv'
<1>1. faults' \in 0..MaxFaults
  BY FaultInRange DEF PollFails
<1>2. CASE UNCHANGED stored
  BY <1>1, <1>2, AbortInv DEF PollFails
<1>3. CASE At(n, "commit") /\ Store(n)
  BY <1>1, <1>3, NoPollFits, StoreInv DEF PollFails, Abort
<1>4. QED BY <1>2, <1>3 DEF PollFails

\* An announcement counts once, for an entry that is on file.
LEMMA PublishStep ==
  ASSUME IInv, NEW n \in Networks, Publish(n)
  PROVE  /\ Current(n).operator \in Operators
         /\ OnFile(n, Current(n).operator) = 1
         /\ announced[n][Current(n).operator] = 0
         /\ \/ announced' = announced
            \/ announced' = [announced EXCEPT ![n] =
                              [announced[n] EXCEPT ![Current(n).operator] = 1]]
<1>1. poll[n].left \in Seq(Entry) /\ poll[n].left # <<>>
  BY DEF IInv, TypeOK, PollsFit, Fits, Publish, At
<1>2. Head(poll[n].left) \in Entry
  BY <1>1, HeadTailProperties
<1>3. Current(n).operator \in Operators
  BY <1>2 DEF Current, Entry
<1>4. OnFile(n, Current(n).operator) = 1 /\ announced[n][Current(n).operator] = 0
  BY DEF IInv, PollsFit, Fits, Publish, At, Current
<1>5. announced[n][Current(n).operator] + 1 = 1
  BY <1>4
<1>6. QED BY <1>3, <1>4, <1>5 DEF Publish
LEMMA PublishInv == ASSUME IInv, NEW n \in Networks, Publish(n) PROVE IInv'
<1> DEFINE op == Current(n).operator
<1>1. PICK p : p = [poll[n] EXCEPT !.pc = "next", !.left = Tail(@), !.flushed = {}]
  OBVIOUS
<1>2. poll[n].left # <<>>
  BY DEF IInv, PollsFit, Fits, Publish, At
<1>3. p \in PollRecord /\ p.pc = "next"
  BY <1>1, <1>2, NextEntryFits DEF IInv, TypeOK
<1>4. poll' = [poll EXCEPT ![n] = p]
  BY <1>1 DEF Publish, NextEntry
<1>5. PICK a : a = announced'
  OBVIOUS
<1>6. announced \in [Networks -> [Operators -> Nat]]
  BY DEF IInv, TypeOK
<1>7. a \in [Networks -> [Operators -> Nat]]
  BY <1>5, <1>6, PublishStep
<1>8. \A m \in Networks, o \in Operators :
        a[m][o] = announced[m][o] \/ (a[m][o] = 1 /\ OnFile(m, o) = 1)
  BY <1>5, <1>6, PublishStep
<1>9. \A m \in Networks, o \in Operators : m # n => a[m][o] = announced[m][o]
  BY <1>5, <1>6, PublishStep
<1>10. TypeOK'
  BY <1>3, <1>4, <1>5, <1>7 DEF IInv, TypeOK, Publish, PollRecord, env
<1>11. PollsFit'
  <2> SUFFICES ASSUME NEW m \in Networks PROVE Fits(m, poll[m])'
    BY DEF PollsFit
  <2>1. stored' = stored
    BY DEF Publish
  <2>2. CASE m = n
    <3>1. poll'[m] = p
      BY <1>4, <2>2 DEF IInv, TypeOK
    <3>2. QED BY <1>3, <3>1 DEF Fits, Filing
  <2>3. CASE m # n
    <3>1. poll'[m] = poll[m] /\ Fits(m, poll[m])
      BY <1>4, <2>3 DEF IInv, TypeOK, PollsFit
    <3>2. announced'[m] = announced[m]
      BY <1>6, <2>3, PublishStep
    <3>3. QED BY <2>1, <3>1, <3>2 DEF Fits, OnFile
  <2>4. QED BY <2>2, <2>3
<1>12. AnnouncedOnFile'
  BY <1>5, <1>8 DEF IInv, AnnouncedOnFile, OnFile, Publish
<1>13. FiledTogether'
  BY DEF IInv, FiledTogether, Publish
<1>14. QED BY <1>10, <1>11, <1>12, <1>13 DEF IInv

LEMMA PollStepInv == ASSUME IInv, NEW n \in Networks, PollStep(n) PROVE IInv'
<1>1. faults \in 0..MaxFaults
  BY DEF IInv, TypeOK
<1>2. CASE Fetch(n)
  BY <1>2, FetchInv
<1>3. CASE Finish(n)
  BY <1>1, <1>3, AbortInv DEF Finish
<1>4. CASE SkipFree(n)
  BY <1>4, NextEntryInv DEF SkipFree, HasEntry
<1>5. CASE BadEntry(n)
  BY <1>1, <1>5, AbortInv DEF BadEntry
<1>6. CASE Duplicate(n)
  BY <1>6, NextEntryInv DEF Duplicate, HasEntry
<1>7. CASE NotFiled(n)
  BY <1>7, NotFiledInv
<1>8. CASE Lookup(n)
  BY <1>8, LookupInv
<1>9. CASE SaveAlert(n)
  BY <1>9, SaveAlertInv
<1>10. CASE SaveEvent(n)
  BY <1>10, SaveEventInv
<1>11. CASE Commit(n)
  BY <1>11, CommitInv
<1>12. CASE Publish(n)
  BY <1>12, PublishInv
<1>13. QED BY <1>2, <1>3, <1>4, <1>5, <1>6, <1>7, <1>8, <1>9, <1>10, <1>11, <1>12 DEF PollStep

LEMMA NextInv == IInv /\ [Next]_vars => IInv'
<1> SUFFICES ASSUME IInv, [Next]_vars PROVE IInv'
  OBVIOUS
<1>1. CASE UNCHANGED vars
  BY <1>1, EnvSteps DEF vars, IInv, TypeOK
<1>2. ASSUME NEW n \in Networks, NEW e \in Entry, Report(n, e) PROVE IInv'
  BY <1>2, ReportInv
<1>3. ASSUME NEW n \in Networks, NEW i \in DOMAIN feed[n], Unjail(n, i) PROVE IInv'
  BY <1>3, UnjailInv
<1>4. CASE \/ \E o \in Operators : AddOperator(o)
           \/ \E n \in Networks : FileByHand(n) \/ IntervalEnds(n)
  BY <1>4, AroundInv
<1>5. ASSUME NEW n \in Networks, PollStep(n) \/ PollFails(n) PROVE IInv'
  BY <1>5, PollStepInv, PollFailsInv
<1>6. CASE Round
  BY <1>6, RoundInv
<1>7. CASE Crash
  BY <1>7, CrashInv
<1>8. QED BY <1>1, <1>2, <1>3, <1>4, <1>5, <1>6, <1>7 DEF Next

\* The inductive invariant holds in every reachable state.
THEOREM Inductive == Spec => []IInv
<1>1. QED BY InitInv, NextInv, PTL DEF Spec

\* Whatever the networks report, the worker's state keeps its types.
THEOREM TypeCorrect == Spec => []TypeOK
<1>1. IInv => TypeOK
  BY DEF IInv
<1>2. QED BY <1>1, Inductive, PTL

\* Incident, alert and event are on file together or not at all, however many
\* networks and operators there are (monitoring_worker.py:206, 258, 307, 357).
THEOREM Together == Spec => []FiledTogether
<1>1. IInv => FiledTogether
  BY DEF IInv
<1>2. QED BY <1>1, Inductive, PTL
-----------------------------------------------------------------------------
(***************************************************************************)
(* The worker implements MonitoringPromise.                                *)
(***************************************************************************)

LEMMA StartsPromise == Init => Promise!Init
BY DEF Init, Promise!Init, Tables

\* A commit files the trouble of the entry at hand.
LEMMA StoreFiles ==
  ASSUME IInv, NEW n \in Networks, At(n, "commit"), Store(n), UNCHANGED announced
  PROVE  Promise!Next
<1>1. PICK k : k = <<n, Current(n).operator>>
  OBVIOUS
<1>2. k \in Networks \X Operators /\ k[1] = n /\ k[2] = Current(n).operator
  BY <1>1, StoreStep
<1>3. stored[n][k[2]]["incident"] = 0
  BY <1>2 DEF IInv, PollsFit, Fits, Filing, At, OnFile
<1>4. \A j \in Networks \X Operators :
        /\ stored'[j[1]][j[2]]["incident"] = IF j = k THEN 1 ELSE stored[j[1]][j[2]]["incident"]
        /\ stored'[j[1]][j[2]]["alert"] = IF j = k THEN 1 ELSE stored[j[1]][j[2]]["alert"]
  <2> SUFFICES ASSUME NEW j \in Networks \X Operators
      PROVE /\ stored'[j[1]][j[2]]["incident"] = IF j = k THEN 1 ELSE stored[j[1]][j[2]]["incident"]
            /\ stored'[j[1]][j[2]]["alert"] = IF j = k THEN 1 ELSE stored[j[1]][j[2]]["alert"]
    OBVIOUS
  <2>1. j[1] \in Networks /\ j[2] \in Operators /\ (j = k <=> j[1] = k[1] /\ j[2] = k[2])
    BY <1>2
  <2>2. "incident" \in Tables \cap Whole(n) /\ "alert" \in Tables \cap Whole(n)
    BY DEF Tables, Whole
  <2>3. QED BY <1>2, <2>1, <2>2, StoreStep
<1>5. Promise!File(k)
  BY <1>2, <1>3, <1>4 DEF Promise!File
<1>6. QED BY <1>2, <1>5 DEF Promise!Next

\* A publication announces it, or is lost.
LEMMA PublishAnnounces ==
  ASSUME IInv, NEW n \in Networks, Publish(n)
  PROVE  [Promise!Next]_Promise!vars
<1>1. PICK k : k = <<n, Current(n).operator>>
  OBVIOUS
<1>2. k \in Networks \X Operators /\ k[1] = n /\ k[2] = Current(n).operator
  BY <1>1, PublishStep
<1>3. stored' = stored
  BY DEF Publish
<1>4. CASE announced' = announced
  BY <1>3, <1>4 DEF Promise!vars
<1>5. CASE announced' = [announced EXCEPT ![n] = [announced[n] EXCEPT ![k[2]] = 1]]
  <2>1. announced \in [Networks -> [Operators -> Nat]]
    BY DEF IInv, TypeOK
  <2>2. \A j \in Networks \X Operators :
          announced'[j[1]][j[2]] = IF j = k THEN 1 ELSE announced[j[1]][j[2]]
    <3> SUFFICES ASSUME NEW j \in Networks \X Operators
        PROVE announced'[j[1]][j[2]] = IF j = k THEN 1 ELSE announced[j[1]][j[2]]
      OBVIOUS
    <3>1. j[1] \in Networks /\ j[2] \in Operators /\ (j = k <=> j[1] = k[1] /\ j[2] = k[2])
      BY <1>2
    <3>2. QED BY <1>2, <1>5, <2>1, <3>1
  <2>3. stored[n][k[2]]["incident"] = 1 /\ announced[n][k[2]] = 0
    BY <1>2, PublishStep DEF OnFile
  <2>4. Promise!Announce(k)
    BY <1>2, <1>3, <2>2, <2>3 DEF Promise!Announce
  <2>5. QED BY <1>2, <2>4 DEF Promise!Next
<1>6. QED BY <1>2, <1>4, <1>5, PublishStep

LEMMA StepsKeepPromise ==
  ASSUME IInv, [Next]_vars
  PROVE  [Promise!Next]_Promise!vars
<1>1. CASE UNCHANGED <<stored, announced>>
  BY <1>1 DEF Promise!vars
<1>2. ASSUME NEW n \in Networks, Publish(n) PROVE [Promise!Next]_Promise!vars
  BY <1>2, PublishAnnounces
<1>3. ASSUME NEW n \in Networks, At(n, "commit"), Store(n), UNCHANGED announced
      PROVE  [Promise!Next]_Promise!vars
  BY <1>3, StoreFiles
<1>4. \/ UNCHANGED <<stored, announced>>
      \/ \E n \in Networks : Publish(n)
      \/ \E n \in Networks : At(n, "commit") /\ Store(n) /\ UNCHANGED announced
  BY DEF Next, vars, Report, Unjail, AddOperator, FileByHand, IntervalEnds, Round, Crash,
         PollStep, Fetch, Finish, SkipFree, BadEntry, Duplicate, NotFiled, Lookup,
         SaveAlert, SaveEvent, Commit, PollFails
<1>5. QED BY <1>1, <1>2, <1>3, <1>4

\* Polls, restarts, failed commits and entries that stay in a source for ever
\* put no trouble on file twice, alert and incident appear together, and what
\* is announced is on file and goes out once (monitoring_worker.py:89-131).
THEOREM Refinement == Spec => KeepsPromise
<1>1. Init => Promise!Init
  BY StartsPromise
<1>2. IInv /\ [Next]_vars => [Promise!Next]_Promise!vars
  BY StepsKeepPromise
<1>3. QED BY <1>1, <1>2, Inductive, PTL DEF Spec, KeepsPromise, Promise!Spec
=============================================================================
