\* Two networks, one of each kind, in one loop, with two entries between them.
CONSTANTS
  Networks = {"eigenlayer", "cosmos"}
  Operators = {"o1"}
  MaxReports = 2
  MaxFaults = 2
SPECIFICATION Spec
INVARIANTS FiledTogether
PROPERTIES KeepsPromise NetworkReported PolledForever
