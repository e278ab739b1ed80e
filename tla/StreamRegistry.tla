--------------------------- MODULE StreamRegistry ---------------------------
(***************************************************************************)
(* logsReceiver's bookkeeping (receiver.go): which stream owns a container,*)
(* what is known to have ended, and the cursors, shared by the informer's  *)
(* event handler, the stream goroutines and the pruner. One action is one  *)
(* section under r.mu (or under the cursor store's own lock).              *)
(*                                                                         *)
(* Pods are the incarnations, one UID each, of a single pod name: the      *)
(* informer's cache is keyed by name, the registry by UID. A cursor is a   *)
(* number of records, 0 for none; ContainerStream has the real one.        *)
(***************************************************************************)
EXTENDS Naturals, Sequences, FiniteSets

CONSTANTS
  Pods,        \* UIDs
  NoPod,
  Containers,  \* the containers of a pod
  HasTelemetry,  \* r.telemetry is set
  Env,         \* the environment events of this instance, see EnvEvents
  MaxGen,      \* bound on nextStreamGen
  MaxRecords,  \* bound on the records of a container
  MaxQueue     \* bound on the events the informer holds back

EnvEvents ==
  {"delete",     \* pods are deleted
   "recreate",   \* a pod of the same name replaces a deleted one
   "watch",      \* the informer's watch breaks and it lists again
   "stalelist",  \* a listing misses a pod that exists
   "giveup",     \* a stream ends by itself (MaxElapsedTime)
   "prune"}      \* two hours pass

ASSUME PodAssumption == NoPod \notin Pods /\ IsFiniteSet(Pods) /\ IsFiniteSet(Containers)
ASSUME TelemetryAssumption == HasTelemetry \in BOOLEAN
ASSUME EnvAssumption == Env \subseteq EnvEvents
ASSUME BoundAssumption == MaxGen \in Nat /\ MaxRecords \in Nat /\ MaxQueue \in Nat

streamKey(p, c) == <<p, c>>
Keys == Pods \X Containers
podUIDFromStreamKey(k) == k[1]
podContainers(p) == {k \in Keys : podUIDFromStreamKey(k) = p}

NoGen == 0
Gens == 1..MaxGen

VARIABLES
  \* The cluster (external): the pod that exists, the UIDs used so far, and
  \* what its containers are doing.
  live, used, status,
  \* The informer (external): its cached pod and that pod's containers, its
  \* watch, the events it has not delivered yet.
  cache, cacheStatus, watching, queue,
  \* The event handler: where it is, the event it handles, the containers
  \* ensureStreams has left, the count recordActiveStreams read.
  hpc, event, todo, hcount,
  \* logsReceiver and cursor.Store.
  activeStreams, nextStreamGen, terminatedContainers, drainedContainers, restartCounts,
  cursors, lastSeenPods,
  \* Stream goroutines, by generation.
  skey, spc, cancelled, spos, scount,
  \* The pruner between its two sections.
  pruned,
  \* The last value recorded for active_log_streams.
  gauge,
  \* History: pods whose real delete was the last thing handled for them.
  gone

clusterVars == <<live, used, status>>
informerVars == <<cache, cacheStatus, watching, queue>>
handlerVars == <<hpc, event, todo, hcount>>
marksVars == <<terminatedContainers, drainedContainers, restartCounts>>
registryVars == <<activeStreams, nextStreamGen, marksVars>>
storeVars == <<cursors, lastSeenPods>>
streamVars == <<skey, spc, cancelled, spos, scount>>
vars == <<clusterVars, informerVars, handlerVars, registryVars, storeVars, streamVars, pruned, gauge, gone>>

Statuses == {"waiting", "running", "ended"}
Events == [kind : {"upsert", "delete", "tombstone"}, pod : Pods, status : [Keys -> Statuses]]

TypeOK ==
  /\ live \in Pods \cup {NoPod} /\ used \subseteq Pods /\ status \in [Keys -> Statuses]
  /\ cache \in Pods \cup {NoPod} /\ cacheStatus \in [Keys -> Statuses] /\ watching \in BOOLEAN /\ queue \in Seq(Events)
  /\ hpc \in {"idle", "mark", "ensure", "delete", "count", "gauge"}
  /\ event \in Events \cup {<<>>} /\ todo \subseteq Keys /\ hcount \in Nat
  /\ activeStreams \in [Keys -> Gens \cup {NoGen}] /\ nextStreamGen \in Nat
  /\ terminatedContainers \subseteq Keys /\ drainedContainers \subseteq Keys /\ restartCounts \subseteq Keys
  /\ cursors \in [Keys -> Nat] /\ lastSeenPods \subseteq Pods
  /\ skey \in [Gens -> Keys \cup {<<>>}]
  /\ spc \in [Gens -> {"unused", "starting", "running", "publish", "releasing", "count", "gauge", "over"}]
  /\ cancelled \in [Gens -> BOOLEAN] /\ spos \in [Gens -> Nat] /\ scount \in [Gens -> Nat]
  /\ pruned \subseteq Keys
  /\ gauge \in Nat
  /\ gone \subseteq Pods

Init ==
  /\ live = NoPod /\ used = {} /\ status = [k \in Keys |-> "waiting"]
  /\ cache = NoPod /\ cacheStatus = status /\ watching = TRUE /\ queue = <<>>
  /\ hpc = "idle" /\ event = <<>> /\ todo = {} /\ hcount = 0
  /\ activeStreams = [k \in Keys |-> NoGen] /\ nextStreamGen = 0
  /\ terminatedContainers = {} /\ drainedContainers = {} /\ restartCounts = {}
  /\ cursors = [k \in Keys |-> 0] /\ lastSeenPods = {}
  /\ skey = [g \in Gens |-> <<>>] /\ spc = [g \in Gens |-> "unused"]
  /\ cancelled = [g \in Gens |-> FALSE] /\ spos = [g \in Gens |-> 0] /\ scount = [g \in Gens |-> 0]
  /\ pruned = {} /\ gauge = 0 /\ gone = {}

-----------------------------------------------------------------------------
(* The cluster and the informer (external)                                 *)

receiverVars == <<handlerVars, registryVars, storeVars, streamVars, pruned, gauge, gone>>

Notify(kind, p, st) ==
  /\ Len(queue) < MaxQueue
  /\ queue' = Append(queue, [kind |-> kind, pod |-> p, status |-> st])

\* A change of pod p reaches a connected watch at once and a broken one never.
Watched(kind, p) ==
  /\ \/ /\ watching
        /\ Notify(kind, p, status')
        /\ cache' = IF kind = "delete" THEN NoPod ELSE p
        /\ cacheStatus' = status'
     \/ ~watching /\ UNCHANGED <<queue, cache, cacheStatus>>
  /\ UNCHANGED <<watching, receiverVars>>

CreatePod ==
  /\ live = NoPod
  /\ used = {} \/ "recreate" \in Env
  /\ \E p \in Pods \ used :
       /\ live' = p /\ used' = used \cup {p}
       /\ UNCHANGED status
       /\ Watched("upsert", p)

ContainerMoves(k) ==
  /\ podUIDFromStreamKey(k) = live
  /\ status[k] # "ended"
  /\ status' = [status EXCEPT ![k] = IF status[k] = "waiting" THEN "running" ELSE "ended"]
  /\ UNCHANGED <<live, used>>
  /\ Watched("upsert", live)

DeletePod ==
  /\ "delete" \in Env
  /\ live # NoPod
  /\ live' = NoPod
  /\ status' = [k \in Keys |-> "waiting"]
  /\ UNCHANGED used
  /\ Watched("delete", live)

BreakWatch ==
  /\ "watch" \in Env /\ watching
  /\ watching' = FALSE
  /\ UNCHANGED <<clusterVars, cache, cacheStatus, queue, receiverVars>>

\* The informer lists again and compares by name with what it had cached: a
\* pod that vanished becomes a tombstone, one with another UID an update.
Relist ==
  /\ ~watching
  /\ \E seen \in {live} \cup (IF "stalelist" \in Env THEN {NoPod} ELSE {}) :
       /\ \/ seen # NoPod /\ Notify("upsert", seen, status)
          \/ seen = NoPod /\ cache # NoPod /\ Notify("tombstone", cache, cacheStatus)
          \/ seen = NoPod /\ cache = NoPod /\ UNCHANGED queue
       /\ cache' = seen
       /\ watching' = (seen = live)
  /\ cacheStatus' = status
  /\ UNCHANGED <<clusterVars, receiverVars>>

\* The periodic resync re-delivers the cached pod, unless news of it is
\* already on the way.
Resync ==
  /\ cache # NoPod /\ queue = <<>>
  /\ Notify("upsert", cache, cacheStatus)
  /\ UNCHANGED <<clusterVars, cache, cacheStatus, watching, receiverVars>>

-----------------------------------------------------------------------------
(* The event handler: OnAdd, OnUpdate and OnDelete, one event at a time    *)

\* The informer calls the handler. OnAdd and OnUpdate begin alike, with
\* recordPodUIDSeen (a section under the store's own lock).
TakeEvent ==
  /\ hpc = "idle" /\ queue # <<>>
  /\ event' = Head(queue) /\ queue' = Tail(queue)
  /\ \/ /\ event'.kind = "upsert"
        /\ lastSeenPods' = lastSeenPods \cup {event'.pod}
        /\ gone' = gone \ {event'.pod}
        /\ hpc' = "mark"
     \/ /\ event'.kind # "upsert"
        /\ hpc' = "delete"
        /\ UNCHANGED <<lastSeenPods, gone>>
  /\ UNCHANGED <<clusterVars, cache, cacheStatus, watching, todo, hcount,
                 registryVars, cursors, streamVars, pruned, gauge>>

\* Mutant of markContainerStates: the terminal state is kept per pod.
markContainerStates_ByPod ==
  /\ hpc = "mark"
  /\ restartCounts' = restartCounts \cup podContainers(event.pod)
  /\ terminatedContainers' =
       terminatedContainers \cup {p \in {event.pod} : \E k \in podContainers(p) : event.status[k] = "ended"}
  /\ todo' = podContainers(event.pod)
  /\ hpc' = "ensure"
  /\ UNCHANGED <<clusterVars, informerVars, event, hcount, activeStreams, nextStreamGen,
                 drainedContainers, storeVars, streamVars, pruned, gauge, gone>>

\* The terminal state is only ever added here.
markContainerStates ==
  /\ hpc = "mark"
  /\ restartCounts' = restartCounts \cup podContainers(event.pod)
  /\ terminatedContainers' =
       terminatedContainers \cup {k \in podContainers(event.pod) : event.status[k] = "ended"}
  /\ todo' = podContainers(event.pod)
  /\ hpc' = "ensure"
  /\ UNCHANGED <<clusterVars, informerVars, event, hcount, activeStreams, nextStreamGen,
                 drainedContainers, storeVars, streamVars, pruned, gauge, gone>>

\* Mutant of containerHasStarted: a container that ended counts as not started.
containerHasStarted_Running(k) == event.status[k] = "running"

containerHasStarted(k) == event.status[k] # "waiting"

NeedsStream(k) ==
  containerHasStarted(k) /\ activeStreams[k] = NoGen /\ k \notin drainedContainers

\* One iteration of ensureStreams: a stream that is missing is started ...
StartStream(k) ==
  /\ hpc = "ensure" /\ k \in todo
  /\ NeedsStream(k)
  /\ nextStreamGen < MaxGen
  /\ nextStreamGen' = nextStreamGen + 1
  /\ activeStreams' = [activeStreams EXCEPT ![k] = nextStreamGen']
  /\ skey' = [skey EXCEPT ![nextStreamGen'] = k]
  /\ spc' = [spc EXCEPT ![nextStreamGen'] = "starting"]
  /\ todo' = todo \ {k}
  /\ UNCHANGED <<clusterVars, informerVars, hpc, event, hcount, marksVars,
                 storeVars, cancelled, spos, scount, pruned, gauge, gone>>

\* ... and any other container is passed over.
SkipContainer(k) ==
  /\ hpc = "ensure" /\ k \in todo
  /\ ~NeedsStream(k)
  /\ todo' = todo \ {k}
  /\ UNCHANGED <<clusterVars, informerVars, hpc, event, hcount, registryVars,
                 storeVars, streamVars, pruned, gauge, gone>>

\* Mutant of onPodDeleted: the streams are cancelled but keep their entries.
onPodDeleted_KeepsEntries ==
  LET ks == podContainers(event.pod)
      real == event.kind = "delete"
  IN
  /\ hpc = "delete"
  /\ cancelled' = [g \in Gens |-> cancelled[g] \/ \E k \in ks : activeStreams[k] = g]
  /\ terminatedContainers' = terminatedContainers \ ks
  /\ drainedContainers' = drainedContainers \ ks
  /\ cursors' = IF real THEN [k \in Keys |-> IF k \in ks THEN 0 ELSE cursors[k]] ELSE cursors
  /\ gone' = IF real THEN gone \cup {event.pod} ELSE gone
  /\ hpc' = "count"
  /\ UNCHANGED <<clusterVars, informerVars, event, todo, hcount, activeStreams, nextStreamGen,
                 restartCounts, lastSeenPods, skey, spc, spos, scount, pruned, gauge>>

\* Mutant of onPodDeleted: a delete the informer only inferred is ignored.
onPodDeleted_OnlyReal ==
  LET ks == IF event.kind = "delete" THEN podContainers(event.pod) ELSE {} IN
  /\ hpc = "delete"
  /\ cancelled' = [g \in Gens |-> cancelled[g] \/ \E k \in ks : activeStreams[k] = g]
  /\ activeStreams' = [k \in Keys |-> IF k \in ks THEN NoGen ELSE activeStreams[k]]
  /\ terminatedContainers' = terminatedContainers \ ks
  /\ drainedContainers' = drainedContainers \ ks
  /\ cursors' = [k \in Keys |-> IF k \in ks THEN 0 ELSE cursors[k]]
  /\ gone' = IF ks # {} THEN gone \cup {event.pod} ELSE gone
  /\ hpc' = "count"
  /\ UNCHANGED <<clusterVars, informerVars, event, todo, hcount, nextStreamGen, restartCounts,
                 lastSeenPods, skey, spc, spos, scount, pruned, gauge>>

\* onPodDeleted: one section, Store.Forget inside it unless inferred.
onPodDeleted ==
  LET ks == podContainers(event.pod)
      real == event.kind = "delete"
  IN
  /\ hpc = "delete"
  /\ cancelled' = [g \in Gens |-> cancelled[g] \/ \E k \in ks : activeStreams[k] = g]
  /\ activeStreams' = [k \in Keys |-> IF k \in ks THEN NoGen ELSE activeStreams[k]]
  /\ terminatedContainers' = terminatedContainers \ ks
  /\ drainedContainers' = drainedContainers \ ks
  /\ cursors' = IF real THEN [k \in Keys |-> IF k \in ks THEN 0 ELSE cursors[k]] ELSE cursors
  /\ gone' = IF real THEN gone \cup {event.pod} ELSE gone
  /\ hpc' = "count"
  /\ UNCHANGED <<clusterVars, informerVars, event, todo, hcount, nextStreamGen, restartCounts,
                 lastSeenPods, skey, spc, spos, scount, pruned, gauge>>

activeCount == Cardinality({k \in Keys : activeStreams[k] # NoGen})

\* Mutant of CountStreams: only a delete updates the gauge.
CountStreams_OnDelete ==
  /\ hpc = "count" \/ (hpc = "ensure" /\ todo = {})
  /\ \/ HasTelemetry /\ hpc = "count" /\ hcount' = activeCount /\ hpc' = "gauge" /\ UNCHANGED event
     \/ hpc = "ensure" /\ hpc' = "idle" /\ event' = <<>> /\ UNCHANGED hcount
  /\ UNCHANGED <<clusterVars, informerVars, todo, registryVars,
                 storeVars, streamVars, pruned, gauge, gone>>

\* recordActiveStreams: the count is taken under the lock, if there is
\* telemetry to tell it to ...
CountStreams ==
  /\ hpc = "count" \/ (hpc = "ensure" /\ todo = {})
  /\ \/ HasTelemetry /\ hcount' = activeCount /\ hpc' = "gauge" /\ UNCHANGED event
     \/ ~HasTelemetry /\ hpc' = "idle" /\ event' = <<>> /\ UNCHANGED hcount
  /\ UNCHANGED <<clusterVars, informerVars, todo, registryVars,
                 storeVars, streamVars, pruned, gauge, gone>>

\* ... and recorded after it.
RecordGauge ==
  /\ hpc = "gauge"
  /\ gauge' = hcount
  /\ hcount' = 0 /\ event' = <<>>
  /\ hpc' = "idle"
  /\ UNCHANGED <<clusterVars, informerVars, todo, registryVars, storeVars, streamVars, pruned, gone>>

-----------------------------------------------------------------------------
(* A stream goroutine, generation g: streamContainerLogs                   *)

Holds(g) == activeStreams[skey[g]] = g

\* newContainerStream reads the cursor on the new goroutine.
StreamBegins(g) ==
  /\ spc[g] = "starting"
  /\ spos' = [spos EXCEPT ![g] = cursors[skey[g]]]
  /\ spc' = [spc EXCEPT ![g] = "running"]
  /\ UNCHANGED <<clusterVars, informerVars, handlerVars, registryVars, storeVars,
                 skey, cancelled, scount, pruned, gauge, gone>>

\* The pipeline takes a batch; onDelivered has not been called yet.
Deliver(g) ==
  /\ spc[g] = "running" /\ spos[g] < MaxRecords
  /\ spos' = [spos EXCEPT ![g] = @ + 1]
  /\ spc' = [spc EXCEPT ![g] = "publish"]
  /\ UNCHANGED <<clusterVars, informerVars, handlerVars, registryVars, storeVars,
                 skey, cancelled, scount, pruned, gauge, gone>>

\* Mutant of advanceCursor: the generation fence is missing.
advanceCursor_Unfenced(g) ==
  /\ spc[g] = "publish"
  /\ cursors' = IF spos[g] > cursors[skey[g]] THEN [cursors EXCEPT ![skey[g]] = spos[g]] ELSE cursors
  /\ spc' = [spc EXCEPT ![g] = "running"]
  /\ UNCHANGED <<clusterVars, informerVars, handlerVars, registryVars, lastSeenPods,
                 skey, cancelled, spos, scount, pruned, gauge, gone>>

advanceCursor(g) ==
  /\ spc[g] = "publish"
  /\ cursors' = IF Holds(g) /\ spos[g] > cursors[skey[g]]
                  THEN [cursors EXCEPT ![skey[g]] = spos[g]] ELSE cursors
  /\ spc' = [spc EXCEPT ![g] = "running"]
  /\ UNCHANGED <<clusterVars, informerVars, handlerVars, registryVars, lastSeenPods,
                 skey, cancelled, spos, scount, pruned, gauge, gone>>

\* run returns: it was cancelled, its container is known to have ended
\* (isContainerTerminal), or it ran out of MaxElapsedTime.
StreamStops(g) ==
  /\ spc[g] = "running"
  /\ cancelled[g] \/ skey[g] \in terminatedContainers \/ "giveup" \in Env
  /\ spc' = [spc EXCEPT ![g] = "releasing"]
  /\ UNCHANGED <<clusterVars, informerVars, handlerVars, registryVars, storeVars,
                 skey, cancelled, spos, scount, pruned, gauge, gone>>

\* Mutant of releaseStream: the entry is removed whoever owns it.
releaseStream_AnyGen(g) ==
  /\ spc[g] = "releasing"
  /\ activeStreams' = [activeStreams EXCEPT ![skey[g]] = NoGen]
  /\ drainedContainers' = drainedContainers \cup ({skey[g]} \cap terminatedContainers)
  /\ spc' = [spc EXCEPT ![g] = "count"]
  /\ UNCHANGED <<clusterVars, informerVars, handlerVars, nextStreamGen, terminatedContainers,
                 restartCounts, storeVars, skey, cancelled, spos, scount, pruned, gauge, gone>>

\* releaseStream, when the entry is still this stream's ...
releaseStream(g) ==
  /\ spc[g] = "releasing" /\ Holds(g)
  /\ activeStreams' = [activeStreams EXCEPT ![skey[g]] = NoGen]
  /\ drainedContainers' = drainedContainers \cup ({skey[g]} \cap terminatedContainers)
  /\ spc' = [spc EXCEPT ![g] = "count"]
  /\ UNCHANGED <<clusterVars, informerVars, handlerVars, nextStreamGen, terminatedContainers,
                 restartCounts, storeVars, skey, cancelled, spos, scount, pruned, gauge, gone>>

\* ... and when it is not.
ReleaseNothing(g) ==
  /\ spc[g] = "releasing" /\ ~Holds(g)
  /\ spc' = [spc EXCEPT ![g] = "over"]
  /\ UNCHANGED <<clusterVars, informerVars, handlerVars, registryVars, storeVars,
                 skey, cancelled, spos, scount, pruned, gauge, gone>>

StreamCounts(g) ==
  /\ spc[g] = "count"
  /\ \/ HasTelemetry /\ scount' = [scount EXCEPT ![g] = activeCount] /\ spc' = [spc EXCEPT ![g] = "gauge"]
     \/ ~HasTelemetry /\ spc' = [spc EXCEPT ![g] = "over"] /\ UNCHANGED scount
  /\ UNCHANGED <<clusterVars, informerVars, handlerVars, registryVars, storeVars,
                 skey, cancelled, spos, pruned, gauge, gone>>

StreamRecordsGauge(g) ==
  /\ spc[g] = "gauge"
  /\ gauge' = scount[g]
  /\ scount' = [scount EXCEPT ![g] = 0]
  /\ spc' = [spc EXCEPT ![g] = "over"]
  /\ UNCHANGED <<clusterVars, informerVars, handlerVars, registryVars, storeVars,
                 skey, cancelled, spos, pruned, gone>>

-----------------------------------------------------------------------------
(* pruneStaleCursors: Store.Prune, then the receiver's own marks           *)

\* Pods that went unreported for StaleAfter. With pod_resync_period 0 that may
\* be the cached pod itself, which no event has touched for that long.
PruneStore ==
  /\ "prune" \in Env /\ pruned = {}
  /\ \E stale \in SUBSET lastSeenPods :
       /\ stale # {}
       /\ lastSeenPods' = lastSeenPods \ stale
       /\ pruned' = {k \in Keys : podUIDFromStreamKey(k) \in stale /\ cursors[k] > 0}
  /\ cursors' = [k \in Keys |-> IF k \in pruned' THEN 0 ELSE cursors[k]]
  /\ UNCHANGED <<clusterVars, informerVars, handlerVars, registryVars, streamVars, gauge, gone>>

\* Mutant of PruneMarks: the drained mark is left behind.
PruneMarks_KeepsDrained ==
  /\ pruned # {}
  /\ restartCounts' = restartCounts \ pruned
  /\ terminatedContainers' = terminatedContainers \ pruned
  /\ pruned' = {}
  /\ UNCHANGED <<clusterVars, informerVars, handlerVars, activeStreams, nextStreamGen,
                 drainedContainers, storeVars, streamVars, gauge, gone>>

PruneMarks ==
  /\ pruned # {}
  /\ restartCounts' = restartCounts \ pruned
  /\ terminatedContainers' = terminatedContainers \ pruned
  /\ drainedContainers' = drainedContainers \ pruned
  /\ pruned' = {}
  /\ UNCHANGED <<clusterVars, informerVars, handlerVars, activeStreams, nextStreamGen,
                 storeVars, streamVars, gauge, gone>>

-----------------------------------------------------------------------------
Cluster == CreatePod \/ DeletePod \/ \E k \in Keys : ContainerMoves(k)

Informer == BreakWatch \/ Relist \/ Resync

Ensure(k) == StartStream(k) \/ SkipContainer(k)

Handler ==
  \/ TakeEvent \/ markContainerStates \/ onPodDeleted \/ CountStreams \/ RecordGauge
  \/ \E k \in Keys : Ensure(k)

Stream(g) ==
  \/ StreamBegins(g) \/ Deliver(g) \/ advanceCursor(g) \/ StreamStops(g)
  \/ releaseStream(g) \/ ReleaseNothing(g) \/ StreamCounts(g) \/ StreamRecordsGauge(g)

Pruner == PruneStore \/ PruneMarks

Next == Cluster \/ Informer \/ Handler \/ Pruner \/ \E g \in Gens : Stream(g)

Spec == Init /\ [][Next]_vars

\* The informer, the handler and the streams' goroutines keep running, a
\* listing is not stale for ever, and a cancelled context or the end of its
\* container ends a stream. Nothing makes a stream give up.
Fairness ==
  /\ SF_vars(Relist /\ watching') /\ WF_vars(Resync) /\ WF_vars(Handler) /\ WF_vars(PruneMarks)
  /\ \A g \in Gens :
       /\ WF_vars(Stream(g) /\ spc[g] # "running")
       /\ WF_vars((cancelled[g] \/ skey[g] \in terminatedContainers) /\ StreamStops(g))

LiveSpec == Spec /\ Fairness

-----------------------------------------------------------------------------
(* Properties                                                              *)

\* A stream that was not cancelled owns its container's entry until it is
\* released, so a delete of the pod reaches it. The generation check in
\* releaseStream is what keeps a predecessor from evicting it.
EveryStreamTracked ==
  \A g \in Gens : spc[g] \in {"starting", "running", "publish", "releasing"} /\ ~cancelled[g] => Holds(g)

\* An entry names a goroutine that is still there, for that container, and
\* that nobody cancelled: otherwise no resync would ever restart the stream.
ActiveIsRunning ==
  \A k \in Keys : activeStreams[k] # NoGen =>
    LET g == activeStreams[k] IN
    /\ skey[g] = k /\ ~cancelled[g]
    /\ spc[g] \in {"starting", "running", "publish", "releasing"}

\* A pod that was really deleted has no cursor, however late its streams'
\* last batches are published.
NoResurrection == \A k \in Keys : podUIDFromStreamKey(k) \in gone => cursors[k] = 0

\* Only an ended container is given up on: the drained mark never outlives
\* the terminal one it was derived from, and no stream runs under it.
DrainedIsOver ==
  \A k \in drainedContainers : k \in terminatedContainers /\ activeStreams[k] = NoGen

\* Everyone has caught up with the cluster.
Quiet ==
  /\ watching /\ queue = <<>> /\ hpc = "idle"
  /\ \A g \in Gens : spc[g] \notin {"count", "gauge"}

\* Once the delete of a pod was handled none of its streams is kept ("a
\* container's stream is always stopped when the pod is deleted").
StoppedWhenDeleted ==
  Quiet => \A k \in Keys : activeStreams[k] # NoGen => podUIDFromStreamKey(k) = live

\* A container that has started ends up streamed, or read to its end, or its
\* pod is gone: also after a stream that gave up by itself.
EveryContainerStreamed ==
  \A k \in Keys :
    (live = podUIDFromStreamKey(k) /\ status[k] # "waiting") ~>
      \/ activeStreams[k] # NoGen \/ k \in drainedContainers
      \/ live # podUIDFromStreamKey(k) \/ nextStreamGen = MaxGen

\* A count recorded late (it is read under the lock and recorded outside it)
\* does not stick: the next resync puts the gauge right, as long as there is
\* a pod to resync.
GaugeRecovers ==
  cache # NoPod ~> (gauge = activeCount \/ cache = NoPod \/ nextStreamGen = MaxGen)
=============================================================================
