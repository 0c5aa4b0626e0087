\* A case, a claim or an incident, with retries in retries, and a request.
CONSTANTS
  Objects = {"c1", "k1", "i1"}
  Cases = {"c1"}
  Claims = {"k1"}
  Incidents = {"i1"}
  Requests = {"r1"}
  MaxAttempts = 2
  MaxRounds = 2
  MaxRows = 1
  MaxTxs = 4
SPECIFICATION Spec
INVARIANTS TypeOK StepOrder RowNamesFinalResult DecidedRowHasDecision PayoutFollowsDecision
PROPERTIES TasksEnd
\* When every task and request has ended nothing is left to do.
CHECK_DEADLOCK FALSE
