--------------------------- MODULE MonitoringWorker ---------------------------
(***************************************************************************)
(* The background worker of the API process.  A loop starts the polls that *)
(* are due, one coroutine per network, and waits for all of them.  A poll  *)
(* reads the network's source and goes through its entries: a new trouble  *)
(* becomes an incident and an alert (with an event on EigenLayer) in one   *)
(* transaction, and is announced after the commit.  Whatever raises ends   *)
(* the poll; what was not committed is rolled back.                        *)
(***************************************************************************)
EXTENDS Integers, Sequences, FiniteSets

CONSTANTS
  Networks,    \* the networks polled
  Operators,   \* addresses on them
  MaxReports,  \* bound of the model: entries of all sources
  MaxFaults    \* bound of the model: failed requests and crashes

JailNetworks == {"babylon", "cosmos"}

ASSUME WorkerAssumption ==
  /\ Networks \subseteq {"eigenlayer", "symbiotic"} \cup JailNetworks
  /\ MaxReports \in Nat
  /\ MaxFaults \in Nat

VARIABLES
  feed,       \* what each source would answer, the latest entry first
  rows,       \* rows of the operators table per address; 2 is more than one
  manual,     \* networks with an incident of the same type filed by a user
  stored,     \* the worker's committed rows
  announced,
  due,        \* the networks whose interval is over
  poll,       \* each network's poll
  faults

vars == <<feed, rows, manual, stored, announced, due, poll, faults>>

env == <<feed, rows, manual>>

Tables == {"incident", "alert", "event"}

\* A slash or a jailed validator, a validator that is free, or an entry with a
\* field that does not convert.
Entry == [operator : Operators, kind : {"trouble", "free", "bad"}]

\* "left" are the entries to go through, the first at hand; "flushed" are the
\* rows of the open transaction.
Flushed == {{}, {"incident"}, {"incident", "alert"}, Tables}

PollPc == {"idle", "fetch", "next", "lookup", "alert", "event", "commit", "publish"}

TypeOK ==
  /\ feed \in [Networks -> Seq(Entry)]
  /\ rows \in [Operators -> 0..2]
  /\ manual \in SUBSET Networks
  /\ stored \in [Networks -> [Operators -> [Tables -> Nat]]]
  /\ announced \in [Networks -> [Operators -> Nat]]
  /\ due \in SUBSET Networks
  /\ poll \in [Networks -> [pc : PollPc, left : Seq(Entry), flushed : Flushed]]
  /\ faults \in 0..MaxFaults

NoPoll == [pc |-> "idle", left |-> <<>>, flushed |-> {}]

Init ==
  /\ feed = [n \in Networks |-> <<>>]
  /\ rows = [o \in Operators |-> 0]
  /\ manual = {}
  /\ stored = [n \in Networks |-> [o \in Operators |-> [t \in Tables |-> 0]]]
  /\ announced = [n \in Networks |-> [o \in Operators |-> 0]]
  /\ due = {}
  /\ poll = [n \in Networks |-> NoPoll]
  /\ faults = 0

-----------------------------------------------------------------------------
(***************************************************************************)
(* Around the worker: sources, operators registered and incidents filed    *)
(* through the API.                                                        *)
(***************************************************************************)
Report(n, e) ==
  /\ Cardinality(UNION {{m} \X DOMAIN feed[m] : m \in Networks}) < MaxReports
  /\ e.kind = "free" => n \in JailNetworks
  /\ feed' = [feed EXCEPT ![n] = <<e>> \o @]
  /\ UNCHANGED <<rows, manual, stored, announced, due, poll, faults>>

Unjail(n, i) ==
  /\ n \in JailNetworks
  /\ feed[n][i].kind = "trouble"
  /\ feed' = [feed EXCEPT ![n][i].kind = "free"]
  /\ UNCHANGED <<rows, manual, stored, announced, due, poll, faults>>

\* An address may be registered once per contract.
AddOperator(o) ==
  /\ rows[o] < 2
  /\ rows' = [rows EXCEPT ![o] = @ + 1]
  /\ UNCHANGED <<feed, manual, stored, announced, due, poll, faults>>

FileByHand(n) ==
  /\ n \notin manual
  /\ manual' = manual \cup {n}
  /\ UNCHANGED <<feed, rows, stored, announced, due, poll, faults>>

-----------------------------------------------------------------------------
(***************************************************************************)
(* The loop.                                                               *)
(***************************************************************************)
IntervalEnds(n) ==
  /\ n \notin due
  /\ due' = due \cup {n}
  /\ UNCHANGED <<env, stored, announced, poll, faults>>

Round ==
  /\ due # {}
  /\ \A n \in Networks : poll[n].pc = "idle"
  /\ due' = {}
  /\ poll' = [n \in Networks |-> IF n \in due THEN [NoPoll EXCEPT !.pc = "fetch"] ELSE poll[n]]
  /\ UNCHANGED <<env, stored, announced, faults>>

-----------------------------------------------------------------------------
(***************************************************************************)
(* A poll.                                                                 *)
(***************************************************************************)
At(n, pc) == poll[n].pc = pc

Goto(n, pc) == poll' = [poll EXCEPT ![n].pc = pc]

Current(n) == Head(poll[n].left)

Fault == faults < MaxFaults /\ faults' = faults + 1

\* A slip: the exception is not caught and the loop waits for the poll for ever.
AbortUncaught(n) == poll' = [poll EXCEPT ![n].pc = "next", ![n].flushed = {}]

\* The exception is caught, the session is closed.
Abort(n) == poll' = [poll EXCEPT ![n] = NoPoll]

Fetch(n) ==
  /\ At(n, "fetch")
  /\ poll' = [poll EXCEPT ![n].pc = "next", ![n].left = feed[n]]
  /\ UNCHANGED <<env, stored, announced, due, faults>>

Finish(n) ==
  /\ At(n, "next")
  /\ poll[n].left = <<>>
  /\ Abort(n)
  /\ UNCHANGED <<env, stored, announced, due, faults>>

HasEntry(n, kind) ==
  At(n, "next") /\ poll[n].left # <<>> /\ Current(n).kind = kind

NextEntry(n) == poll' = [poll EXCEPT ![n].pc = "next", ![n].left = Tail(@), ![n].flushed = {}]

SkipFree(n) ==
  /\ HasEntry(n, "free")
  /\ NextEntry(n)
  /\ UNCHANGED <<env, stored, announced, due, faults>>

BadEntry(n) ==
  /\ HasEntry(n, "bad")
  /\ Abort(n)
  /\ UNCHANGED <<env, stored, announced, due, faults>>

\* A slip: incidents are matched by the operator's row, which is null for an
\* address without one.
FiledForRow(n) ==
  n \in manual \/ (rows[Current(n).operator] > 0 /\ stored[n][Current(n).operator]["incident"] > 0)

\* Whatever its operator: the query has the type and the network only, and no
\* incident is ever resolved.
Filed(n) == n \in manual \/ \E o \in Operators : stored[n][o]["incident"] > 0

Duplicate(n) ==
  /\ HasEntry(n, "trouble")
  /\ Filed(n)
  /\ NextEntry(n)
  /\ UNCHANGED <<env, stored, announced, due, faults>>

NotFiled(n) ==
  /\ HasEntry(n, "trouble")
  /\ ~Filed(n)
  /\ Goto(n, "lookup")
  /\ UNCHANGED <<env, stored, announced, due, faults>>

\* The address may have no row.
Added(n) == {"incident"}

\* The operator's row is looked up by its address alone, and more than one is
\* an error.
Lookup(n) ==
  /\ At(n, "lookup")
  /\ IF rows[Current(n).operator] > 1
     THEN Abort(n)
     ELSE poll' = [poll EXCEPT ![n].pc = "alert", ![n].flushed = Added(n)]
  /\ UNCHANGED <<env, stored, announced, due, faults>>

SaveAlert(n) ==
  /\ At(n, "alert")
  /\ poll' = [poll EXCEPT ![n].pc = IF n = "eigenlayer" THEN "event" ELSE "commit",
                          ![n].flushed = @ \cup {"alert"}]
  /\ UNCHANGED <<env, stored, announced, due, faults>>

SaveEvent(n) ==
  /\ At(n, "event")
  /\ poll' = [poll EXCEPT ![n].pc = "commit", ![n].flushed = @ \cup {"event"}]
  /\ UNCHANGED <<env, stored, announced, due, faults>>

\* A slip: each row is committed as it is added.
StoreOneByOne(n) ==
  \E tables \in SUBSET poll[n].flushed :
    stored' = [stored EXCEPT ![n][Current(n).operator] =
                 [t \in Tables |-> @[t] + (IF t \in tables THEN 1 ELSE 0)]]

Store(n) ==
  stored' = [stored EXCEPT ![n][Current(n).operator] =
               [t \in Tables |-> @[t] + (IF t \in poll[n].flushed THEN 1 ELSE 0)]]

Commit(n) ==
  /\ At(n, "commit")
  /\ Store(n)
  /\ Goto(n, "publish")
  /\ UNCHANGED <<env, announced, due, faults>>

\* What the feed cannot take is logged and lost.
Publish(n) ==
  /\ At(n, "publish")
  /\ announced' = [announced EXCEPT ![n][Current(n).operator] = @ + 1] \/ UNCHANGED announced
  /\ NextEntry(n)
  /\ UNCHANGED <<env, stored, due, faults>>

\* The source or the database fails; a commit that raises may have been done.
PollFails(n) ==
  /\ Fault
  /\ poll[n].pc \notin {"idle", "publish"}
  /\ Abort(n)
  /\ UNCHANGED stored \/ (At(n, "commit") /\ Store(n))
  /\ UNCHANGED <<env, announced, due>>

PollStep(n) ==
  \/ Fetch(n) \/ Finish(n) \/ SkipFree(n) \/ BadEntry(n) \/ Duplicate(n)
  \/ NotFiled(n) \/ Lookup(n) \/ SaveAlert(n) \/ SaveEvent(n) \/ Commit(n) \/ Publish(n)

\* The process stops and starts again.
Crash ==
  /\ Fault
  /\ poll' = [n \in Networks |-> NoPoll]
  /\ due' = {}
  /\ UNCHANGED <<env, stored, announced>>

Next ==
  \/ \E n \in Networks, e \in Entry : Report(n, e)
  \/ \E n \in Networks : \E i \in DOMAIN feed[n] : Unjail(n, i)
  \/ \E o \in Operators : AddOperator(o)
  \/ \E n \in Networks : FileByHand(n) \/ IntervalEnds(n) \/ PollStep(n) \/ PollFails(n)
  \/ Round
  \/ Crash

\* Requests to sources and to the database end by their time limits, the loop
\* sleeps 15 seconds at a time and intervals end.
Spec ==
  /\ Init /\ [][Next]_vars
  /\ WF_vars(Round)
  /\ \A n \in Networks : WF_vars(IntervalEnds(n)) /\ WF_vars(PollStep(n))

-----------------------------------------------------------------------------
\* Incident, alert and event are on file together or not at all, with a poll
\* cut off at any step (commits at monitoring_worker.py:206, 258, 307, 357).
FiledTogether ==
  \A n \in Networks, o \in Operators :
    LET s == stored[n][o]
    IN  /\ s["alert"] = s["incident"]
        /\ s["event"] = IF n = "eigenlayer" THEN s["incident"] ELSE 0

\* The worker keeps its promise: polls, restarts, failed commits and entries
\* that stay in the source for ever put nothing on file twice, and what goes
\* out is on file (monitoring_worker.py:89-131, 206-213).
Promise == INSTANCE MonitoringPromise WITH
  Troubles  <- Networks \X Operators,
  incidents <- [k \in Networks \X Operators |-> stored[k[1]][k[2]]["incident"]],
  alerts    <- [k \in Networks \X Operators |-> stored[k[1]][k[2]]["alert"]],
  announced <- [k \in Networks \X Operators |-> announced[k[1]][k[2]]]

KeepsPromise == Promise!Spec

\* No failure ends the loop, and no network's trouble keeps another from being
\* polled (monitoring_worker.py:396-402).
PolledForever == \A n \in Networks : []<>At(n, "fetch")

\* An entry that ends every poll that comes to it.
Poisoned(n) ==
  \E i \in DOMAIN feed[n] : feed[n][i].kind = "bad" \/ rows[feed[n][i].operator] > 1

\* A slash that a source reports leads to an incident on its network, through
\* failures and restarts, unless an entry stands in the way
\* (monitoring_worker.py:136-216).
NetworkReported ==
  \A n \in Networks \ JailNetworks :
    feed[n] # <<>> ~> (Filed(n) \/ Poisoned(n))
=============================================================================
