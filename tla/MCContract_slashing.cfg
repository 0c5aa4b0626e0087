\* Two operators, two cases, no claims and no proposals.
CONSTANTS
  a1 = a1  a2 = a2  c1 = c1  c2 = c2
  k1 = k1  k2 = k2  p1 = p1  p2 = p2  p3 = p3
  Accounts = {"deployer"}
  Deployer = "deployer"
  StrayAddress = "stray"
  Amounts = {0, 1, 2}
  MaxDeposits = 2
  ParamChoices = {1000}
  Addresses = {a1, a2}
  Incidents = {"i1"}
  CaseIds = {c1, c2}
  ClaimIds = {}
  StatusChoices = {}
  OverallScores = {}
  RawScores = {90}
  Stakes <- MCStakes
  Reputations = {90}
  RawBpsAnswers <- MCRawBps
  MaxSubmissions = 0
  PayoutIds = {}
  RawAmounts = {}
  Topics = {}
  Significands = 4
  Powers = {1, 2, 4, 8, 16, 32}
SPECIFICATION Spec
INVARIANTS TypeOK LedgerMatchesRegistry SlashedCoversCases AmountFollowsBps
PROPERTIES AppealNeverRaises KeepsPromise
SYMMETRY SlashingSymmetry
\* A paused contract whose owner is a string no account has stops for good.
CHECK_DEADLOCK FALSE
