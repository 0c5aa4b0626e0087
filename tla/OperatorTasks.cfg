\* Two requests, for one operator.
CONSTANTS
  Objects = {"o1"}
  Requests = {"r1", "r2"}
  MaxAttempts = 2
  MaxRounds = 2
  MaxTxs = 3
  LowerCase = FALSE
  Stakes = {0, 1, 2}
  Scores = {0, 1}
SPECIFICATION Spec
INVARIANTS StakeOfTheRow
PROPERTIES ScoreIsFinal RequestsEnd
\* When every request is answered nothing is left to do.
CHECK_DEADLOCK FALSE
