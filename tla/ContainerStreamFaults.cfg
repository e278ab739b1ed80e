\* Everything that can go wrong at once: splits, crashes, rotation, breaks,
\* torn lines, recycles, failed connects, refusals, shutdown.
CONSTANTS
  MaxBatch = 2
  SinceSeconds = 0
  TicksPerSecond = 2
  InitialInterval = 1
  MaxInterval = 2
  MaxElapsedTime = 1
  HasLifetime = TRUE
  Poison = {2}
  Env = {"chunk", "crash", "exit", "rotate", "break", "drainbreak", "tear", "openfail", "refuse", "cancel"}
  MaxLines = 3
  MaxTime = 4
SPECIFICATION Spec
INVARIANTS TypeOK NoGap NoDuplicates ResumeIsStored CleanEndIsComplete DrainedIsReadOut
PROPERTIES Delivers
CHECK_DEADLOCK FALSE
