\* Kills, restarts, stops and storage failures around two pods.
SPECIFICATION LiveSpec
CONSTANTS
  Keys = {u1, u2}
  Persists = TRUE
  StaleAfter = 2
  ResyncPeriod = 1
  Env = {"delete", "vanish", "stop", "kill", "unreadable", "storefail"}
  MaxRecords = 2
INVARIANT NothingSkipped
INVARIANT StopSavesEverything
INVARIANT CachedPodIsRemembered
PROPERTY ReportedCursorsExpire
