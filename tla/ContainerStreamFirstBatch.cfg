\* The first batch of a container is refused.
CONSTANTS
  MaxBatch = 2
  SinceSeconds = 0
  TicksPerSecond = 2
  InitialInterval = 1
  MaxInterval = 2
  MaxElapsedTime = 0
  HasLifetime = FALSE
  Poison = {}
  Env = {"refuse"}
  MaxLines = 3
  MaxTime = 4
SPECIFICATION Spec
INVARIANTS NothingSkippedSinceFirstRead
CHECK_DEADLOCK FALSE
