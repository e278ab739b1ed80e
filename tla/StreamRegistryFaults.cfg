\* Every environment event: two incarnations of one pod, a stream and its replacement.
SPECIFICATION Spec
CONSTANTS
  Pods = {u1, u2}
  NoPod = NoPod
  Containers = {c1}
  HasTelemetry = FALSE
  Env = {"delete", "recreate", "watch", "stalelist", "giveup", "prune"}
  MaxGen = 2
  MaxRecords = 1
  MaxQueue = 1
INVARIANT TypeOK
INVARIANT EveryStreamTracked
INVARIANT ActiveIsRunning
INVARIANT NoResurrection
INVARIANT DrainedIsOver
SYMMETRY Symmetry
CHECK_DEADLOCK FALSE
