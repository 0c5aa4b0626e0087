\* One address, an account that is new or from before the master copies, and
\* four requests at a time.
CONSTANTS
  Emails = {e1}
  Passwords = {p1, p2}
  Requests = {r1, r2, r3, r4}
  MaxTokens = 3
SPECIFICATION AccountSpec
SYMMETRY Symmetry
INVARIANTS AccountsUsable
PROPERTIES NothingRevived
\* When every request is answered nothing is left to do.
CHECK_DEADLOCK FALSE
