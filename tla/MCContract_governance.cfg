\* Proposals of two accounts; evidence and claims about two addresses that may
\* be registered at any time; one case.
CONSTANTS
  a1 = a1  a2 = a2  c1 = c1  c2 = c2
  k1 = k1  k2 = k2  p1 = p1  p2 = p2  p3 = p3
  Accounts = {"deployer", "user"}
  Deployer = "deployer"
  StrayAddress = "stray"
  Amounts = {1}
  MaxDeposits = 1
  ParamChoices = {}
  Addresses = {a1, a2}
  Incidents = {"i1"}
  CaseIds = {c1}
  ClaimIds = {k1}
  StatusChoices = {}
  OverallScores = {}
  RawScores = {90}
  Stakes = {50}
  Reputations = {}
  RawBpsAnswers = {}
  MaxSubmissions = 2
  PayoutIds = {}
  RawAmounts = {}
  Topics = {"t1"}
  Significands = 4
  Powers = {1, 2, 4, 8, 16, 32}
SPECIFICATION Spec
INVARIANTS TallyMatchesVoters IndexAndCounters
PROPERTIES ClosedIsFinal IndexesFollow
SYMMETRY AddressSymmetry
\* A paused contract whose owner is a string no account has stops for good.
CHECK_DEADLOCK FALSE
