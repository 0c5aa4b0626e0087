\* Two operators, and numbers below, inside and above the range of a score.
CONSTANTS
  Addresses = {"o1", "o2"}
  Numbers <- MCNumbers
SPECIFICATION RiskSpec
INVARIANTS PredictionsAgree
PROPERTIES StoredAsCompared
