\* Starts that fail at each point, and shutdowns at any moment.
SPECIFICATION LiveSpec
CONSTANTS
  Informers = {n1, n2}
  Keys = {k1}
  MaxGen = 3
  MaxCursor = 1
INVARIANT NothingRunsAfterWait
INVARIANT AddNeverFromZero
INVARIANT LastFlushHoldsAll
INVARIANT OneStreamPerContainer
PROPERTY ShutdownReturns
\* A receiver that was shut down is over.
CHECK_DEADLOCK FALSE
