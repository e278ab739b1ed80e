\* The pipeline is busy while a container ends.
CONSTANTS
  MaxBatch = 2
  SinceSeconds = 1
  TicksPerSecond = 2
  InitialInterval = 1
  MaxInterval = 2
  MaxElapsedTime = 0
  HasLifetime = FALSE
  Poison = {}
  Env = {"exit", "refuse"}
  MaxLines = 2
  MaxTime = 3
SPECIFICATION Spec
INVARIANTS DrainedComplete
CHECK_DEADLOCK FALSE
