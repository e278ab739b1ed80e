\* A pod is replaced under its own name while the watch is down.
SPECIFICATION Spec
CONSTANTS
  Pods = {u1, u2}
  NoPod = NoPod
  Containers = {c1}
  HasTelemetry = FALSE
  Env = {"delete", "recreate", "watch"}
  MaxGen = 2
  MaxRecords = 0
  MaxQueue = 1
INVARIANT StoppedWhenDeleted
CHECK_DEADLOCK FALSE
