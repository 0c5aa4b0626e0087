\* A pool of two and three requests of any kind.
CONSTANTS
  Handlers = {"r1", "r2", "r3"}
  PoolSize = 2
SPECIFICATION PoolSpec
INVARIANTS Balanced
\* When every request is answered nothing is left to do.
CHECK_DEADLOCK FALSE
