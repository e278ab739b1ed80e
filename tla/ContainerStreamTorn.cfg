\* A connection breaks in the middle of a line.
CONSTANTS
  MaxBatch = 2
  SinceSeconds = 1
  TicksPerSecond = 2
  InitialInterval = 1
  MaxInterval = 2
  MaxElapsedTime = 0
  HasLifetime = FALSE
  Poison = {}
  Env = {"tear"}
  MaxLines = 2
  MaxTime = 3
SPECIFICATION Spec
INVARIANTS NoTornLines
CHECK_DEADLOCK FALSE
