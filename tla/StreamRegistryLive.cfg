\* A pod that comes and goes behind a watch that breaks, and its streams, stopped and restarted.
SPECIFICATION LiveSpec
CONSTANTS
  Pods = {u1}
  NoPod = NoPod
  Containers = {c1}
  HasTelemetry = TRUE
  Env = {"delete", "watch", "stalelist", "giveup"}
  MaxGen = 3
  MaxRecords = 0
  MaxQueue = 1
INVARIANT StoppedWhenDeleted
PROPERTY EveryContainerStreamed
PROPERTY GaugeRecovers
CHECK_DEADLOCK FALSE
