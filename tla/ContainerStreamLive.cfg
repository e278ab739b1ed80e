\* Liveness through broken, mute and refused connections, a poison record and
\* the container's end.
CONSTANTS
  MaxBatch = 2
  SinceSeconds <- NoBound
  TicksPerSecond = 2
  InitialInterval = 1
  MaxInterval = 2
  MaxElapsedTime = 1
  HasLifetime = TRUE
  Poison = {2}
  Env = {"exit", "break", "mute", "openfail", "refuse", "cancel"}
  MaxLines = 3
  MaxTime = 3
SPECIFICATION LiveSpec
PROPERTIES EveryLineHanded StopsWhenCancelled TerminalIsDrained
CHECK_DEADLOCK FALSE
