----------------------------- MODULE CursorStore -----------------------------
(***************************************************************************)
(* cursor.Store (internal/cursor/store.go) over the life of a collector:   *)
(* Load at Start, Get and Advance by the streams, MarkPodSeen and Forget   *)
(* by the event handler, the pruner's and the flusher's loops, the last    *)
(* Flush and Close in Shutdown, kills and restarts.                        *)
(*                                                                         *)
(* Every pod has one container, so a key is its pod's UID. A cursor is a   *)
(* number of records, 0 for none. Who may write a cursor when several      *)
(* streams compete for a key is StreamRegistry's subject.                  *)
(***************************************************************************)
EXTENDS Naturals

CONSTANTS
  Keys,          \* pods, each with its container
  Persists,      \* a storage extension is configured
  StaleAfter,    \* in ticks
  ResyncPeriod,  \* in ticks, 0: no resync
  Env,           \* the environment events of this instance, see EnvEvents
  MaxRecords     \* bound on the records of a container

EnvEvents ==
  {"delete",     \* a pod is deleted and the informer is told
   "vanish",     \* a pod is deleted behind a broken watch
   "stop",       \* the collector shuts down
   "kill",       \* the collector is killed
   "unreadable", \* the stored value cannot be read or decoded
   "storefail"}  \* a write to the storage extension fails

ASSUME PersistAssumption == Persists \in BOOLEAN
ASSUME TimeAssumption == StaleAfter \in Nat \ {0} /\ ResyncPeriod \in Nat
ASSUME EnvAssumption == Env \subseteq EnvEvents
ASSUME BoundAssumption == MaxRecords \in Nat

Positions == 0..MaxRecords

\* How long ago a pod was last seen; beyond StaleAfter the age is not counted.
Ages == 0..(StaleAfter + 1)
Unseen == StaleAfter + 2

VARIABLES
  \* The cluster, the informer's cache, and the UIDs used so far (external).
  existing, cached, used,
  \* Where the collector is, and how long ago the last resync was.
  mode, sinceResync,
  \* The store. lastSeenPods holds ages, Unseen for a pod without an entry.
  cursors, lastSeenPods,
  \* The streams, their positions, and which have yet to publish theirs.
  reading, pos, unpublished,
  \* Flush between its snapshot and client.Set: one snapshot, or none.
  snapshot,
  \* The stored value (external).
  disk,
  \* History: records the pipeline was handed, and, after a stop whose write
  \* succeeded, how far its streams had come.
  handed, saved

clusterVars == <<existing, cached, used>>
storeVars == <<cursors, lastSeenPods>>
streamVars == <<reading, pos, unpublished>>
historyVars == <<handed, saved>>
vars == <<clusterVars, mode, sinceResync, storeVars, streamVars, snapshot, disk, historyVars>>

Sets == [Keys -> Positions]
Empty == [k \in Keys |-> 0]

TypeOK ==
  /\ existing \subseteq Keys /\ cached \subseteq Keys /\ used \subseteq Keys
  /\ mode \in {"down", "up", "stopping", "closing"}
  /\ sinceResync \in 0..ResyncPeriod
  /\ cursors \in Sets /\ lastSeenPods \in [Keys -> Ages \cup {Unseen}]
  /\ reading \subseteq Keys /\ unpublished \subseteq reading /\ pos \in Sets
  /\ snapshot \subseteq Sets
  /\ disk \in Sets /\ handed \in Sets
  /\ saved \subseteq Sets

Init ==
  /\ existing = {} /\ cached = {} /\ used = {}
  /\ mode = "down" /\ sinceResync = 0
  /\ cursors = Empty /\ lastSeenPods = [k \in Keys |-> Unseen]
  /\ reading = {} /\ unpublished = {} /\ pos = Empty
  /\ snapshot = {} /\ disk = Empty
  /\ handed = Empty /\ saved = {}

-----------------------------------------------------------------------------
(* Start, and the end of the process                                       *)

\* NewStore and Load: the stored set, or none after any failure. Then Start
\* begins to watch and to flush; it does not wait for the first listing.
Load ==
  /\ mode = "down"
  /\ \/ cursors' = IF Persists THEN disk ELSE Empty
     \/ "unreadable" \in Env /\ cursors' = Empty
  /\ lastSeenPods' = [k \in Keys |-> Unseen]
  /\ mode' = "up"
  /\ saved' = {}
  /\ UNCHANGED <<clusterVars, sinceResync, streamVars, snapshot, disk, handed>>

\* MarkPodSeen for the pods ks.
Seen(ks) == [k \in Keys |-> IF k \in ks THEN 0 ELSE lastSeenPods[k]]

\* Nothing in memory survives.
Gone ==
  /\ mode' = "down"
  /\ cached' = {} /\ sinceResync' = 0
  /\ cursors' = Empty /\ lastSeenPods' = [k \in Keys |-> Unseen]
  /\ reading' = {} /\ unpublished' = {} /\ pos' = Empty
  /\ snapshot' = {}
  /\ UNCHANGED <<existing, used, handed>>

Kill ==
  /\ "kill" \in Env /\ mode # "down"
  /\ Gone
  /\ saved' = {}
  /\ UNCHANGED disk

\* Shutdown cancels the run context.
Shutdown ==
  /\ "stop" \in Env /\ mode = "up"
  /\ mode' = "stopping"
  /\ UNCHANGED <<clusterVars, sinceResync, storeVars, streamVars, snapshot, disk, historyVars>>

-----------------------------------------------------------------------------
(* Pods                                                                    *)

CreatePod(k) ==
  /\ k \notin used
  /\ existing' = existing \cup {k} /\ used' = used \cup {k}
  /\ UNCHANGED <<cached, mode, sinceResync, storeVars, streamVars, snapshot, disk, historyVars>>

\* OnAdd, from the first listing or the watch.
Report(k) ==
  /\ mode = "up" /\ k \in existing \ cached
  /\ cached' = cached \cup {k}
  /\ lastSeenPods' = Seen({k})
  /\ UNCHANGED <<existing, used, mode, sinceResync, cursors, streamVars, snapshot, disk, historyVars>>

\* A pod goes. A delete the informer was told of forgets the cursor; one it
\* inferred keeps it; one that nobody was there to see, or of a pod that was not
\* reported yet, does nothing.
DeletePod(k) ==
  /\ k \in existing
  /\ existing' = existing \ {k}
  /\ \/ /\ mode \in {"up", "stopping"} /\ k \in cached
        /\ cached' = cached \ {k}
        /\ reading' = reading \ {k} /\ unpublished' = unpublished \ {k}
        /\ \/ "delete" \in Env /\ cursors' = [cursors EXCEPT ![k] = 0]
           \/ "vanish" \in Env /\ UNCHANGED cursors
     \/ /\ mode # "up" \/ k \notin cached
        /\ UNCHANGED <<cached, reading, unpublished, cursors>>
  /\ UNCHANGED <<used, mode, sinceResync, lastSeenPods, pos, snapshot, disk, historyVars>>

\* Mutant of Resync: an update does not count as having seen the pod.
Resync_NotSeen ==
  /\ mode = "up" /\ ResyncPeriod > 0
  /\ sinceResync' = 0
  /\ UNCHANGED <<clusterVars, mode, storeVars, streamVars, snapshot, disk, historyVars>>

\* OnUpdate for every cached pod.
Resync ==
  /\ mode = "up" /\ ResyncPeriod > 0
  /\ lastSeenPods' = Seen(cached)
  /\ sinceResync' = 0
  /\ UNCHANGED <<clusterVars, mode, cursors, streamVars, snapshot, disk, historyVars>>

\* Time passes, but never beyond the moment a resync is due.
Tick ==
  /\ mode = "up"
  /\ ResyncPeriod > 0 => sinceResync < ResyncPeriod
  /\ sinceResync' = IF ResyncPeriod > 0 THEN sinceResync + 1 ELSE 0
  /\ lastSeenPods' = [k \in Keys |-> IF lastSeenPods[k] \in 0..StaleAfter
                                       THEN lastSeenPods[k] + 1 ELSE lastSeenPods[k]]
  /\ UNCHANGED <<clusterVars, mode, cursors, streamVars, snapshot, disk, historyVars>>

\* lastSeen.Before(now - StaleAfter).
Expired(k) == lastSeenPods[k] = StaleAfter + 1

\* Mutant of Prune: only the pod's entry is dropped.
Prune_KeepsCursors ==
  /\ mode = "up"
  /\ \E k \in Keys : Expired(k)
  /\ lastSeenPods' = [k \in Keys |-> IF Expired(k) THEN Unseen ELSE lastSeenPods[k]]
  /\ UNCHANGED <<clusterVars, mode, sinceResync, cursors, streamVars, snapshot, disk, historyVars>>

Prune ==
  /\ mode = "up"
  /\ \E k \in Keys : Expired(k)
  /\ cursors' = [k \in Keys |-> IF Expired(k) THEN 0 ELSE cursors[k]]
  /\ lastSeenPods' = [k \in Keys |-> IF Expired(k) THEN Unseen ELSE lastSeenPods[k]]
  /\ UNCHANGED <<clusterVars, mode, sinceResync, streamVars, snapshot, disk, historyVars>>

-----------------------------------------------------------------------------
(* Streams                                                                 *)

\* A stream of a reported pod reads its cursor with Get.
StartStream(k) ==
  /\ mode = "up" /\ k \in cached \ reading
  /\ reading' = reading \cup {k}
  /\ pos' = [pos EXCEPT ![k] = cursors[k]]
  /\ UNCHANGED <<unpublished, clusterVars, mode, sinceResync, storeVars, snapshot, disk, historyVars>>

\* The pipeline takes a record; a stopping stream may still hand over its last.
Deliver(k) ==
  /\ mode \in {"up", "stopping"} /\ k \in reading \ unpublished
  /\ pos[k] < MaxRecords
  /\ pos' = [pos EXCEPT ![k] = @ + 1]
  /\ unpublished' = unpublished \cup {k}
  /\ handed' = [handed EXCEPT ![k] = IF pos'[k] > @ THEN pos'[k] ELSE @]
  /\ UNCHANGED <<clusterVars, mode, sinceResync, storeVars, reading, snapshot, disk, saved>>

\* Mutant of Advance: the record about to be delivered is counted as well.
Advance_TooFar(k) ==
  /\ k \in unpublished
  /\ unpublished' = unpublished \ {k}
  /\ cursors' = [cursors EXCEPT ![k] = pos[k] + 1]
  /\ UNCHANGED <<clusterVars, mode, sinceResync, lastSeenPods, reading, pos, snapshot, disk, historyVars>>

\* onDelivered, and Store.Advance: only ever forward.
Advance(k) ==
  /\ k \in unpublished
  /\ unpublished' = unpublished \ {k}
  /\ cursors' = [cursors EXCEPT ![k] = IF pos[k] > @ THEN pos[k] ELSE @]
  /\ UNCHANGED <<clusterVars, mode, sinceResync, lastSeenPods, reading, pos, snapshot, disk, historyVars>>

\* A stream ends only after what it delivered was published.
StopStream(k) ==
  /\ mode = "stopping" /\ k \in reading \ unpublished
  /\ reading' = reading \ {k}
  /\ UNCHANGED <<clusterVars, mode, sinceResync, storeVars, pos, unpublished, snapshot, disk, historyVars>>

-----------------------------------------------------------------------------
(* Flush                                                                   *)

\* RunFlushLoop's tick: the copy is made under the lock ...
FlushSnapshot ==
  /\ mode = "up" /\ Persists /\ snapshot = {}
  /\ snapshot' = {cursors}
  /\ UNCHANGED <<clusterVars, mode, sinceResync, storeVars, streamVars, disk, historyVars>>

\* ... and written after it; a failed write is only logged.
FlushWrite ==
  /\ mode \in {"up", "stopping"}
  /\ \E s \in snapshot :
       disk' \in {s} \cup (IF "storefail" \in Env THEN {disk} ELSE {})
  /\ snapshot' = {}
  /\ UNCHANGED <<clusterVars, mode, sinceResync, storeVars, streamVars, historyVars>>

\* Mutant of LastFlush: the streams are not waited for.
LastFlush_NoWait ==
  /\ mode = "stopping" /\ snapshot = {}
  /\ mode' = "closing"
  /\ snapshot' = IF Persists THEN {cursors} ELSE {}
  /\ UNCHANGED <<clusterVars, sinceResync, storeVars, streamVars, disk, historyVars>>

\* Shutdown after wg.Wait: no stream and no flusher is left.
LastFlush ==
  /\ mode = "stopping"
  /\ reading = {} /\ snapshot = {}
  /\ mode' = "closing"
  /\ snapshot' = IF Persists THEN {cursors} ELSE {}
  /\ UNCHANGED <<clusterVars, sinceResync, storeVars, streamVars, disk, historyVars>>

\* Its write, and Close.
Close ==
  /\ mode = "closing"
  /\ \/ \E s \in snapshot : disk' = s /\ saved' = {pos}
     \/ (Persists => "storefail" \in Env) /\ UNCHANGED disk /\ saved' = {}
  /\ Gone

-----------------------------------------------------------------------------
Cluster == \E k \in Keys : CreatePod(k) \/ Report(k) \/ DeletePod(k)

Process == Load \/ Kill \/ Shutdown \/ LastFlush \/ Close

Upkeep == Resync \/ Tick \/ Prune \/ FlushSnapshot \/ FlushWrite

Stream(k) == StartStream(k) \/ Deliver(k) \/ Advance(k) \/ StopStream(k)

Next == Cluster \/ Process \/ Upkeep \/ \E k \in Keys : Stream(k)

Spec == Init /\ [][Next]_vars

\* The collector is started, its tickers tick and its streams stop when told.
LiveSpec ==
  /\ Spec
  /\ WF_vars(Load) /\ WF_vars(LastFlush) /\ WF_vars(Close)
  /\ WF_vars(Tick \/ Resync) /\ SF_vars(Tick) /\ WF_vars(Prune) /\ WF_vars(FlushWrite)
  /\ \A k \in Keys : WF_vars(Advance(k)) /\ WF_vars(StopStream(k))

-----------------------------------------------------------------------------
(* Properties                                                              *)

\* Neither memory nor storage claims a record the pipeline was not handed: a
\* kill at any point costs a re-read, never a gap.
NothingSkipped == \A k \in Keys : cursors[k] <= handed[k] /\ disk[k] <= handed[k]

\* A stop whose last write succeeded has saved each container's final
\* delivered record, whatever was still being delivered when it began.
StopSavesEverything == \A p \in saved : \A k \in existing : disk[k] >= p[k]

\* The stored cursor of a pod that exists never goes back, over any number of
\* kills, stops and failed writes, although Flush writes outside the lock what
\* it copied under it. After an unreadable load it does: the store begins empty
\* and the next Flush overwrites what could not be read.
StorageMovesForward == [][\A k \in existing \cap existing' : disk[k] <= disk'[k]]_vars

\* A pod the informer holds is refreshed before it expires.
CachedPodIsRemembered ==
  mode = "up" => \A k \in cached : lastSeenPods[k] # Unseen

\* A pod this process was told of at least once loses its cursor after it is
\* gone, also when nobody saw it go. A restored cursor whose pod is never
\* reported has no entry in lastSeenPods, and stays.
ReportedCursorsExpire ==
  \A k \in Keys :
    (k \in used \ existing /\ mode = "up" /\ lastSeenPods[k] # Unseen) ~>
      (cursors[k] = 0 \/ mode # "up")
=============================================================================
