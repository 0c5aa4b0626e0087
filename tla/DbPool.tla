--------------------------------- MODULE DbPool ---------------------------------
(***************************************************************************)
(* The pool of database connections.  A session takes a connection with    *)
(* its first statement and gives it back with a commit, a rollback or when *)
(* it is closed.  Some handlers open a second session while they hold the  *)
(* first, some hold one while they wait for the chain.  Who waits for a    *)
(* connection too long gets an exception, and its sessions are closed.     *)
(***************************************************************************)
EXTENDS Sequences, Tally

CONSTANTS
  Handlers,
  PoolSize     \* pool_size + max_overflow

ASSUME PoolAssumption ==
  /\ IsFiniteSet(Handlers)
  /\ PoolSize \in Nat \ {0}

\* What a handler does with the pool, in order: it takes a connection, commits
\* and gives it back, closes a session, or waits for the chain.
QueryPlan == <<"take", "commit">>

CreatePlan == <<"take", "commit", "take", "take", "close", "chain", "commit">>

\* The row is read again after the commit, and given back by the session's end.
StakePlan == <<"take", "chain", "commit", "take", "commit">>

EvidencePlan == <<"take", "take", "close", "chain", "commit">>

PredictPlan == <<"take", "chain", "close">>

ReputationPlan == <<"take", "close", "chain", "take", "commit">>

Plans == {QueryPlan, CreatePlan, StakePlan, EvidencePlan, PredictPlan, ReputationPlan}

VARIABLES
  plan,     \* what is left of the plan of each request
  held,     \* how many connections it holds
  answer,
  free

poolVars == <<plan, held, answer, free>>

PoolTypeOK ==
  /\ plan \in [Handlers -> Seq({"take", "commit", "close", "chain"})]
  /\ held \in [Handlers -> 0..2]
  /\ answer \in [Handlers -> {"new", "none", "done", "error"}]
  /\ free \in 0..PoolSize

PoolInit ==
  /\ plan = [r \in Handlers |-> <<>>]
  /\ held = [r \in Handlers |-> 0]
  /\ answer = [r \in Handlers |-> "new"]
  /\ free = PoolSize

Enter(r, steps) ==
  /\ answer[r] = "new"
  /\ plan' = [plan EXCEPT ![r] = steps]
  /\ answer' = [answer EXCEPT ![r] = "none"]
  /\ UNCHANGED <<held, free>>

At(r, step) == answer[r] = "none" /\ plan[r] # <<>> /\ Head(plan[r]) = step

Advance(r) == plan' = [plan EXCEPT ![r] = Tail(@)]

Available == free > 0

TakeConnection(r) ==
  /\ At(r, "take")
  /\ Available
  /\ Advance(r)
  /\ held' = [held EXCEPT ![r] = @ + 1]
  /\ free' = free - 1
  /\ UNCHANGED answer

GiveBack(r) ==
  /\ held' = [held EXCEPT ![r] = @ - 1]
  /\ free' = free + 1

Commit(r) ==
  /\ At(r, "commit")
  /\ Advance(r)
  /\ GiveBack(r)
  /\ UNCHANGED answer

Close(r) == At(r, "close") /\ Advance(r) /\ GiveBack(r) /\ UNCHANGED answer

\* Submissions and polls end.
Chain(r) == At(r, "chain") /\ Advance(r) /\ UNCHANGED <<held, answer, free>>

Finish(r) ==
  /\ answer[r] = "none"
  /\ plan[r] = <<>>
  /\ answer' = [answer EXCEPT ![r] = "done"]
  /\ UNCHANGED <<plan, held, free>>

\* A slip: the session that waited is closed, and the other one is not.
CloseOne(r) ==
  /\ held' = [held EXCEPT ![r] = 0]
  /\ free' = free

\* The sessions are rolled back and closed on the way out.
CloseAll(r) ==
  /\ held' = [held EXCEPT ![r] = 0]
  /\ free' = free + held[r]

Raise(r) ==
  /\ plan' = [plan EXCEPT ![r] = <<>>]
  /\ answer' = [answer EXCEPT ![r] = "error"]
  /\ CloseAll(r)

WaitsTooLong(r) == At(r, "take") /\ free = 0

TimeOut(r) == WaitsTooLong(r) /\ Raise(r)

\* The website, the database or the client raises.
Break(r) == answer[r] = "none" /\ plan[r] # <<>> /\ Raise(r)

Step(r) == TakeConnection(r) \/ Commit(r) \/ Close(r) \/ Chain(r) \/ Finish(r) \/ TimeOut(r)

PoolNext ==
  \E r \in Handlers :
    (\E steps \in Plans : Enter(r, steps)) \/ Step(r) \/ Break(r)

PoolSpec == PoolInit /\ [][PoolNext]_poolVars

-----------------------------------------------------------------------------
\* Connections are neither lost nor given back twice, with handlers that commit,
\* take two sessions, raise and time out at any step, and a request that has its
\* answer holds none (base.py:28-37).
Balanced ==
  /\ free + TotalOf(held) = PoolSize
  /\ \A r \in Handlers : answer[r] \in {"done", "error"} => held[r] = 0
=============================================================================
