\* One case whose recommendation is asked for twice.
CONSTANTS
  a1 = a1  a2 = a2  c1 = c1  c2 = c2
  k1 = k1  k2 = k2  p1 = p1  p2 = p2  p3 = p3
  Accounts = {"deployer"}
  Deployer = "deployer"
  StrayAddress = "stray"
  Amounts = {1}
  MaxDeposits = 1
  ParamChoices = {}
  Addresses = {a1}
  Incidents = {"i1"}
  CaseIds = {c1}
  ClaimIds = {}
  StatusChoices = {}
  OverallScores = {}
  RawScores = {40, 80}
  Stakes = {50}
  Reputations = {50}
  RawBpsAnswers <- MCRawBps
  MaxSubmissions = 0
  PayoutIds = {}
  RawAmounts = {}
  Topics = {}
  Significands = 4
  Powers = {1, 2, 4, 8, 16, 32}
SPECIFICATION Spec
PROPERTY RecommendationDeterministic
\* A paused contract whose owner is a string no account has stops for good.
CHECK_DEADLOCK FALSE
