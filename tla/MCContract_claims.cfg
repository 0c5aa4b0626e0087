\* Two claims, three payouts and an operator who may also be a claimant.
CONSTANTS
  a1 = a1  a2 = a2  c1 = c1  c2 = c2
  k1 = k1  k2 = k2  p1 = p1  p2 = p2  p3 = p3
  Accounts = {"deployer"}
  Deployer = "deployer"
  StrayAddress = "stray"
  Amounts = {0, 1, 2}
  MaxDeposits = 4
  ParamChoices = {}
  Addresses = {a1}
  Incidents = {}
  CaseIds = {}
  ClaimIds = {k1, k2}
  StatusChoices = {"suspended"}
  OverallScores = {101}
  RawScores = {}
  Stakes = {}
  Reputations = {}
  RawBpsAnswers = {}
  MaxSubmissions = 0
  PayoutIds = {p1, p2, p3}
  RawAmounts <- MCRawAmounts
  Topics = {}
  Significands = 4
  Powers = {1, 2, 4, 8, 16, 32}
SPECIFICATION Spec
INVARIANTS Solvent LedgerMatchesReceipts PaidMatchesReceipt
PROPERTIES KeepsPromise PausedFreezes
SYMMETRY ClaimsSymmetry
\* A paused contract whose owner is a string no account has stops for good.
CHECK_DEADLOCK FALSE
