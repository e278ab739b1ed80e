----------------------- MODULE StreamRegistryProofs -----------------------
(***************************************************************************)
(* No stream escapes the registry, no entry outlives its stream and no     *)
(* cursor outlives its pod, for any number of pods, containers and         *)
(* streams and every interleaving of handler, streams and pruner.          *)
(***************************************************************************)
EXTENDS StreamRegistry, FiniteSetTheorems, TLAPS

\* A generation that was not handed out yet was never used.
GensFresh == \A g \in Gens : g > nextStreamGen => spc[g] = "unused" /\ ~cancelled[g]

\* Every goroutine knows its container.
KeysKnown == \A g \in Gens : spc[g] # "unused" => skey[g] \in Keys

\* The handler starts streams only for the pod of its event, and that event
\* says the pod exists.
HandlerOK ==
  /\ hpc # "idle" => event \in Events
  /\ hpc \in {"mark", "ensure"} => event.pod \notin gone
  /\ hpc = "ensure" => todo \subseteq podContainers(event.pod)

\* A really deleted pod has no stream that could still publish a cursor.
GoneIsInactive == \A k \in Keys : podUIDFromStreamKey(k) \in gone => activeStreams[k] = NoGen

StreamsOK == GensFresh /\ KeysKnown /\ EveryStreamTracked /\ ActiveIsRunning

GoneOK == GoneIsInactive /\ NoResurrection

IInv == TypeOK /\ StreamsOK /\ HandlerOK /\ GoneOK /\ DrainedIsOver

-----------------------------------------------------------------------------
(* What each part of the invariant reads                                   *)

\* Steps that touch neither entries nor goroutines keep them matched.
LEMMA StreamsFrame ==
  ASSUME StreamsOK, UNCHANGED <<activeStreams, nextStreamGen, skey, spc, cancelled>>
  PROVE  StreamsOK'
BY DEF StreamsOK, GensFresh, KeysKnown, EveryStreamTracked, ActiveIsRunning, Holds

\* Steps of others do not disturb the handler.
LEMMA HandlerFrame ==
  ASSUME HandlerOK, UNCHANGED <<hpc, event, todo, gone>>
  PROVE  HandlerOK'
BY DEF HandlerOK

\* Steps that touch neither entries nor cursors keep deleted pods clean.
LEMMA GoneFrame ==
  ASSUME GoneOK, UNCHANGED <<gone, activeStreams, cursors>>
  PROVE  GoneOK'
BY DEF GoneOK, GoneIsInactive, NoResurrection

\* Steps that touch neither marks nor entries keep the marks consistent.
LEMMA DrainedFrame ==
  ASSUME DrainedIsOver, UNCHANGED <<drainedContainers, terminatedContainers, activeStreams>>
  PROVE  DrainedIsOver'
BY DEF DrainedIsOver

\* A step that leaves the receiver alone preserves the invariant.
LEMMA Elsewhere ==
  ASSUME IInv, TypeOK', UNCHANGED receiverVars
  PROVE  IInv'
BY StreamsFrame, HandlerFrame, GoneFrame, DrainedFrame
DEF IInv, receiverVars, handlerVars, registryVars, marksVars, storeVars, streamVars

\* An event put into the queue is an event.
LEMMA NotifyType ==
  ASSUME NEW kind \in {"upsert", "delete", "tombstone"}, NEW p \in Pods,
         NEW st \in [Keys -> Statuses], queue \in Seq(Events), Notify(kind, p, st)
  PROVE  queue' \in Seq(Events)
<1>1. [kind |-> kind, pod |-> p, status |-> st] \in Events
  BY DEF Events
<1> QED BY <1>1 DEF Notify

\* The number of active streams is a number.
LEMMA CountType == activeCount \in Nat
<1>1. IsFiniteSet(Keys)
  BY PodAssumption, FS_Product DEF Keys
<1>2. IsFiniteSet({k \in Keys : activeStreams[k] # NoGen})
  BY <1>1, FS_Subset
<1> QED BY <1>2, FS_CardinalityType DEF activeCount

\* The initial state satisfies the invariant.
LEMMA InitInv == Init => IInv
<1> SUFFICES ASSUME Init PROVE IInv
  OBVIOUS
<1>1. TypeOK
  BY PodAssumption, BoundAssumption DEF Init, TypeOK, Gens, NoGen, Statuses
<1> QED
  BY <1>1 DEF Init, IInv, StreamsOK, GensFresh, KeysKnown, EveryStreamTracked, ActiveIsRunning,
              HandlerOK, GoneOK, GoneIsInactive, NoResurrection, DrainedIsOver

-----------------------------------------------------------------------------
(* The cluster and the informer                                            *)

\* A change of the cluster leaves its variables and the informer's typed.
LEMMA WatchedInv ==
  ASSUME IInv, NEW kind \in {"upsert", "delete"}, NEW p \in Pods, Watched(kind, p),
         live' \in Pods \cup {NoPod}, used' \subseteq Pods, status' \in [Keys -> Statuses]
  PROVE  IInv'
<1>1. TypeOK /\ UNCHANGED receiverVars /\ UNCHANGED watching
  BY DEF IInv, Watched
<1>2. queue' \in Seq(Events)
  BY <1>1, NotifyType DEF Watched, TypeOK
<1>3. cache' \in Pods \cup {NoPod} /\ cacheStatus' \in [Keys -> Statuses]
  BY <1>1 DEF Watched, TypeOK
<1>4. TypeOK'
  BY <1>1, <1>2, <1>3 DEF TypeOK, receiverVars, handlerVars, registryVars, marksVars, storeVars, streamVars
<1> QED BY <1>1, <1>4, Elsewhere

\* Every step of the cluster preserves the invariant.
LEMMA ClusterInv == ASSUME IInv, Cluster PROVE IInv'
<1>1. TypeOK
  BY DEF IInv
<1>2. CASE CreatePod
  <2>1. PICK p \in Pods \ used : live' = p /\ used' = used \cup {p} /\ status' = status /\ Watched("upsert", p)
    BY <1>2 DEF CreatePod
  <2>2. live' \in Pods \cup {NoPod} /\ used' \subseteq Pods /\ status' \in [Keys -> Statuses]
    BY <1>1, <2>1 DEF TypeOK
  <2> QED BY <2>1, <2>2, WatchedInv
<1>3. CASE DeletePod
  <2>1. live \in Pods /\ live' = NoPod /\ used' = used /\ status' = [k \in Keys |-> "waiting"] /\ Watched("delete", live)
    BY <1>1, <1>3 DEF DeletePod, TypeOK
  <2>2. live' \in Pods \cup {NoPod} /\ used' \subseteq Pods /\ status' \in [Keys -> Statuses]
    BY <1>1, <2>1 DEF TypeOK, Statuses
  <2> QED BY <2>1, <2>2, WatchedInv
<1>4. ASSUME NEW k \in Keys, ContainerMoves(k) PROVE IInv'
  <2>1. live \in Pods
    BY <1>4 DEF ContainerMoves, Keys, podUIDFromStreamKey
  <2>2. live' \in Pods \cup {NoPod} /\ used' \subseteq Pods /\ Watched("upsert", live)
    BY <1>1, <1>4 DEF ContainerMoves, TypeOK
  <2>3. status' \in [Keys -> Statuses]
    BY <1>1, <1>4 DEF ContainerMoves, TypeOK, Statuses
  <2> QED BY <2>1, <2>2, <2>3, WatchedInv
<1> QED BY <1>2, <1>3, <1>4 DEF Cluster

\* Every step of the informer preserves the invariant.
LEMMA InformerInv == ASSUME IInv, Informer PROVE IInv'
<1>1. TypeOK
  BY DEF IInv
<1>2. CASE BreakWatch
  <2>1. UNCHANGED receiverVars
    BY <1>2 DEF BreakWatch
  <2>2. TypeOK'
    BY <1>1, <1>2 DEF BreakWatch, TypeOK, clusterVars, receiverVars, handlerVars, registryVars, marksVars, storeVars, streamVars
  <2> QED BY <2>1, <2>2, Elsewhere
<1>3. CASE Relist
  <2>1. UNCHANGED receiverVars /\ UNCHANGED clusterVars
    BY <1>3 DEF Relist
  <2>2. PICK seen \in {live, NoPod} :
          /\ \/ seen # NoPod /\ Notify("upsert", seen, status)
             \/ seen = NoPod /\ cache # NoPod /\ Notify("tombstone", cache, cacheStatus)
             \/ seen = NoPod /\ cache = NoPod /\ UNCHANGED queue
          /\ cache' = seen
          /\ watching' = (seen = live)
    BY <1>3 DEF Relist
  <2>3. seen \in Pods \cup {NoPod} /\ cacheStatus' \in [Keys -> Statuses]
    BY <1>1, <1>3, <2>2 DEF Relist, TypeOK
  <2>4. queue' \in Seq(Events)
    BY <1>1, <2>2, <2>3, NotifyType DEF TypeOK
  <2>5. watching' \in BOOLEAN
    BY <2>2
  <2>6. TypeOK'
    BY <1>1, <2>1, <2>2, <2>3, <2>4, <2>5
    DEF TypeOK, clusterVars, receiverVars, handlerVars, registryVars, marksVars, storeVars, streamVars
  <2> QED BY <2>1, <2>6, Elsewhere
<1>4. CASE Resync
  <2>1. UNCHANGED receiverVars /\ UNCHANGED clusterVars /\ UNCHANGED <<cache, cacheStatus, watching>>
    BY <1>4 DEF Resync
  <2>2. queue' \in Seq(Events)
    BY <1>1, <1>4, NotifyType DEF Resync, TypeOK
  <2>3. TypeOK'
    BY <1>1, <2>1, <2>2 DEF TypeOK, clusterVars, receiverVars, handlerVars, registryVars, marksVars, storeVars, streamVars
  <2> QED BY <2>1, <2>3, Elsewhere
<1> QED BY <1>2, <1>3, <1>4 DEF Informer

-----------------------------------------------------------------------------
(* The event handler                                                       *)

\* The handler takes an event; a pod it reports again is not gone.
LEMMA TakeEventInv == ASSUME IInv, TakeEvent PROVE IInv'
<1>1. TypeOK /\ StreamsOK /\ HandlerOK /\ GoneOK /\ DrainedIsOver
  BY DEF IInv
<1>2. event' \in Events /\ queue' \in Seq(Events)
  BY <1>1 DEF TakeEvent, TypeOK
<1>3. lastSeenPods' \subseteq Pods /\ gone' \subseteq Pods /\ hpc' \in {"mark", "delete"}
  BY <1>1, <1>2 DEF TakeEvent, TypeOK, Events
<1>4. TypeOK'
  BY <1>1, <1>2, <1>3 DEF TakeEvent, TypeOK, clusterVars, registryVars, streamVars, marksVars
<1>5. HandlerOK'
  BY <1>1, <1>2, <1>3 DEF TakeEvent, HandlerOK, TypeOK, clusterVars, registryVars, streamVars,
      marksVars
<1>6. GoneOK'
  BY <1>1, <1>2, <1>3 DEF TakeEvent, GoneOK, GoneIsInactive, NoResurrection, clusterVars,
      registryVars, streamVars, marksVars
<1>7. StreamsOK' /\ DrainedIsOver'
  BY <1>1, StreamsFrame, DrainedFrame DEF TakeEvent, clusterVars, registryVars, streamVars,
      marksVars
<1> QED BY <1>4, <1>5, <1>6, <1>7 DEF IInv

\* markContainerStates only adds terminal marks.
LEMMA MarkInv == ASSUME IInv, markContainerStates PROVE IInv'
<1>1. TypeOK /\ StreamsOK /\ HandlerOK /\ GoneOK /\ DrainedIsOver
  BY DEF IInv
<1>2. TypeOK'
  BY <1>1 DEF markContainerStates, TypeOK, podContainers, clusterVars, informerVars, storeVars,
      streamVars
<1>3. HandlerOK'
  BY <1>1 DEF markContainerStates, HandlerOK, clusterVars, informerVars, storeVars, streamVars
<1>4. DrainedIsOver'
  BY <1>1 DEF markContainerStates, DrainedIsOver, TypeOK, clusterVars, informerVars, storeVars,
      streamVars
<1>5. StreamsOK' /\ GoneOK'
  BY <1>1, StreamsFrame, GoneFrame DEF markContainerStates, clusterVars, informerVars, storeVars,
      streamVars
<1> QED BY <1>2, <1>3, <1>4, <1>5 DEF IInv

\* ensureStreams starts a stream under a generation of its own, and only for a
\* pod that is not gone and a container that is not drained.
LEMMA StartStreamInv == ASSUME IInv, NEW k \in Keys, StartStream(k) PROVE IInv'
<1>1. TypeOK /\ StreamsOK /\ HandlerOK /\ GoneOK /\ DrainedIsOver
  BY DEF IInv
<1>2. nextStreamGen' \in Gens /\ nextStreamGen \in Nat /\ MaxGen \in Nat
  BY <1>1, BoundAssumption DEF StartStream, TypeOK, Gens
<1>3. TypeOK'
  BY <1>1, <1>2 DEF StartStream, TypeOK, Gens, clusterVars, informerVars, marksVars, storeVars
<1>4. StreamsOK'
  BY <1>1, <1>2 DEF StartStream, StreamsOK, GensFresh, KeysKnown, EveryStreamTracked,
      ActiveIsRunning, Holds, TypeOK, NeedsStream, Gens, NoGen, clusterVars, informerVars,
      marksVars, storeVars
<1>5. HandlerOK'
  BY <1>1, <1>2 DEF StartStream, HandlerOK, clusterVars, informerVars, marksVars, storeVars
<1>6. GoneOK'
  BY <1>1, <1>2 DEF StartStream, GoneOK, GoneIsInactive, NoResurrection, TypeOK, HandlerOK,
      podContainers, podUIDFromStreamKey, clusterVars, informerVars, marksVars, storeVars
<1>7. DrainedIsOver'
  BY <1>1, <1>2 DEF StartStream, DrainedIsOver, TypeOK, NeedsStream, clusterVars, informerVars,
      marksVars, storeVars
<1> QED BY <1>3, <1>4, <1>5, <1>6, <1>7 DEF IInv

\* ensureStreams passes a container over.
LEMMA SkipInv == ASSUME IInv, NEW k \in Keys, SkipContainer(k) PROVE IInv'
<1>1. TypeOK /\ StreamsOK /\ HandlerOK /\ GoneOK /\ DrainedIsOver
  BY DEF IInv
<1>2. TypeOK'
  BY <1>1 DEF SkipContainer, TypeOK, clusterVars, informerVars, registryVars, storeVars, streamVars,
      marksVars
<1>3. HandlerOK'
  BY <1>1 DEF SkipContainer, HandlerOK, clusterVars, informerVars, registryVars, storeVars,
      streamVars, marksVars
<1>4. StreamsOK' /\ GoneOK' /\ DrainedIsOver'
  BY <1>1, StreamsFrame, GoneFrame, DrainedFrame DEF SkipContainer, clusterVars, informerVars,
      registryVars, storeVars, streamVars, marksVars
<1> QED BY <1>2, <1>3, <1>4 DEF IInv

\* onPodDeleted takes every stream of the pod out of the registry and cancels it.
LEMMA DeletedInv == ASSUME IInv, onPodDeleted PROVE IInv'
<1>1. TypeOK /\ StreamsOK /\ HandlerOK /\ GoneOK /\ DrainedIsOver
  BY DEF IInv
<1> DEFINE ks == podContainers(event.pod)
<1>2. cancelled' = [g \in Gens |-> cancelled[g] \/ \E k \in ks : activeStreams[k] = g]
  BY DEF onPodDeleted
<1>3. cancelled' \in [Gens -> BOOLEAN]
  BY <1>2, Zenon
<1>4. \A g \in Gens : cancelled'[g] <=> cancelled[g] \/ \E k \in ks : activeStreams[k] = g
  BY <1>2, Zenon
<1>5. activeStreams' = [k \in Keys |-> IF k \in ks THEN NoGen ELSE activeStreams[k]] /\ ks \subseteq Keys
  BY DEF onPodDeleted, podContainers
<1>6. UNCHANGED <<skey, spc, nextStreamGen>>
  BY DEF onPodDeleted
<1>7. event \in Events
  BY <1>1 DEF onPodDeleted, HandlerOK
<1>8. gone' \subseteq Pods /\ cursors' \in [Keys -> Nat]
  BY <1>1, <1>7 DEF onPodDeleted, TypeOK, Events
<1>9. activeStreams' \in [Keys -> Gens \cup {NoGen}]
  BY <1>1, <1>5 DEF TypeOK
<1>10. terminatedContainers' \subseteq Keys /\ drainedContainers' \subseteq Keys /\ hpc' = "count"
  BY <1>1 DEF onPodDeleted, TypeOK
<1>11. TypeOK'
  <2>1. UNCHANGED <<clusterVars, informerVars, event, todo, hcount, nextStreamGen, restartCounts,
                    lastSeenPods, skey, spc, spos, scount, pruned, gauge>>
    BY DEF onPodDeleted
  <2> QED BY <1>1, <1>3, <1>8, <1>9, <1>10, <2>1 DEF TypeOK, clusterVars, informerVars
<1>12. StreamsOK'
  <2>1. GensFresh' /\ KeysKnown'
    <3>1. ASSUME NEW g \in Gens, g > nextStreamGen, NEW k \in ks, activeStreams[k] = g PROVE FALSE
      <4>1. g # NoGen /\ k \in Keys
        BY <1>5, BoundAssumption DEF Gens, NoGen
      <4> QED BY <1>1, <3>1, <4>1 DEF StreamsOK, GensFresh, ActiveIsRunning
    <3> QED BY <1>1, <1>4, <1>6, <3>1 DEF StreamsOK, GensFresh, KeysKnown
  <2>2. EveryStreamTracked'
    <3> SUFFICES ASSUME NEW g \in Gens, spc[g] \in {"starting", "running", "publish", "releasing"}, ~cancelled'[g]
                 PROVE  activeStreams'[skey[g]] = g
      BY <1>6 DEF EveryStreamTracked, Holds
    <3>1. activeStreams[skey[g]] = g /\ skey[g] \in Keys
      BY <1>1, <1>4 DEF StreamsOK, EveryStreamTracked, KeysKnown, Holds
    <3>2. skey[g] \notin ks
      BY <1>4, <3>1
    <3> QED BY <1>5, <3>1, <3>2
  <2>3. ActiveIsRunning'
    <3> SUFFICES ASSUME NEW k \in Keys, activeStreams'[k] # NoGen
                 PROVE  LET g == activeStreams'[k] IN
                        /\ skey[g] = k /\ ~cancelled'[g]
                        /\ spc[g] \in {"starting", "running", "publish", "releasing"}
      BY <1>6 DEF ActiveIsRunning
    <3> DEFINE g == activeStreams[k]
    <3>1. k \notin ks /\ activeStreams'[k] = g
      BY <1>5
    <3>2. skey[g] = k /\ ~cancelled[g] /\ spc[g] \in {"starting", "running", "publish", "releasing"}
      BY <1>1, <3>1 DEF StreamsOK, ActiveIsRunning
    <3>3. g \in Gens
      BY <1>1, <3>1 DEF TypeOK
    <3>4. ASSUME NEW j \in ks, activeStreams[j] = g PROVE FALSE
      <4>1. skey[g] = j
        BY <1>1, <1>5, <3>1, <3>4 DEF StreamsOK, ActiveIsRunning
      <4> QED BY <4>1, <3>1, <3>2
    <3>5. ~cancelled'[g]
      BY <1>4, <3>2, <3>3, <3>4
    <3> QED BY <3>1, <3>2, <3>5
  <2> QED BY <2>1, <2>2, <2>3 DEF StreamsOK
<1>13. HandlerOK'
  BY <1>1, <1>10 DEF onPodDeleted, HandlerOK
<1>14. GoneOK'
  BY <1>1, <1>7 DEF onPodDeleted, GoneOK, GoneIsInactive, NoResurrection, TypeOK, podContainers,
      podUIDFromStreamKey
<1>15. DrainedIsOver'
  BY <1>1 DEF onPodDeleted, DrainedIsOver, TypeOK
<1> QED BY <1>11, <1>12, <1>13, <1>14, <1>15 DEF IInv

\* The handler counts the active streams.
LEMMA CountInv == ASSUME IInv, CountStreams PROVE IInv'
<1>1. TypeOK /\ StreamsOK /\ HandlerOK /\ GoneOK /\ DrainedIsOver
  BY DEF IInv
<1>2. TypeOK'
  BY <1>1, CountType DEF CountStreams, TypeOK, clusterVars, informerVars, registryVars, storeVars,
      streamVars, marksVars
<1>3. HandlerOK'
  BY <1>1 DEF CountStreams, HandlerOK, clusterVars, informerVars, registryVars, storeVars,
      streamVars, marksVars
<1>4. StreamsOK' /\ GoneOK' /\ DrainedIsOver'
  BY <1>1, StreamsFrame, GoneFrame, DrainedFrame DEF CountStreams, clusterVars, informerVars,
      registryVars, storeVars, streamVars, marksVars
<1> QED BY <1>2, <1>3, <1>4 DEF IInv

\* The handler records the gauge.
LEMMA GaugeInv == ASSUME IInv, RecordGauge PROVE IInv'
<1>1. TypeOK /\ StreamsOK /\ HandlerOK /\ GoneOK /\ DrainedIsOver
  BY DEF IInv
<1>2. TypeOK'
  BY <1>1 DEF RecordGauge, TypeOK, clusterVars, informerVars, registryVars, storeVars, streamVars,
      marksVars
<1>3. HandlerOK'
  BY <1>1 DEF RecordGauge, HandlerOK, clusterVars, informerVars, registryVars, storeVars,
      streamVars, marksVars
<1>4. StreamsOK' /\ GoneOK' /\ DrainedIsOver'
  BY <1>1, StreamsFrame, GoneFrame, DrainedFrame DEF RecordGauge, clusterVars, informerVars,
      registryVars, storeVars, streamVars, marksVars
<1> QED BY <1>2, <1>3, <1>4 DEF IInv

-----------------------------------------------------------------------------
(* The streams                                                             *)

\* A stream reads its cursor.
LEMMA BeginsInv == ASSUME IInv, NEW g \in Gens, StreamBegins(g) PROVE IInv'
<1>1. TypeOK /\ StreamsOK /\ HandlerOK /\ GoneOK /\ DrainedIsOver
  BY DEF IInv
<1>2. skey[g] \in Keys
  BY <1>1 DEF StreamBegins, StreamsOK, KeysKnown
<1>3. TypeOK'
  BY <1>1, <1>2 DEF StreamBegins, TypeOK, clusterVars, informerVars, handlerVars, registryVars,
      storeVars, marksVars
<1>4. StreamsOK'
  BY <1>1, <1>2 DEF StreamBegins, StreamsOK, GensFresh, KeysKnown, EveryStreamTracked,
      ActiveIsRunning, Holds, TypeOK, clusterVars, informerVars, handlerVars, registryVars,
      storeVars, marksVars
<1>5. HandlerOK' /\ GoneOK' /\ DrainedIsOver'
  BY <1>1, HandlerFrame, GoneFrame, DrainedFrame DEF StreamBegins, clusterVars, informerVars,
      handlerVars, registryVars, storeVars, marksVars
<1> QED BY <1>3, <1>4, <1>5 DEF IInv

\* A batch is delivered.
LEMMA DeliverInv == ASSUME IInv, NEW g \in Gens, Deliver(g) PROVE IInv'
<1>1. TypeOK /\ StreamsOK /\ HandlerOK /\ GoneOK /\ DrainedIsOver
  BY DEF IInv
<1>2. TypeOK'
  BY <1>1 DEF Deliver, TypeOK, clusterVars, informerVars, handlerVars, registryVars, storeVars,
      marksVars
<1>3. StreamsOK'
  BY <1>1 DEF Deliver, StreamsOK, GensFresh, KeysKnown, EveryStreamTracked, ActiveIsRunning, Holds,
      TypeOK, clusterVars, informerVars, handlerVars, registryVars, storeVars, marksVars
<1>4. HandlerOK' /\ GoneOK' /\ DrainedIsOver'
  BY <1>1, HandlerFrame, GoneFrame, DrainedFrame DEF Deliver, clusterVars, informerVars,
      handlerVars, registryVars, storeVars, marksVars
<1> QED BY <1>2, <1>3, <1>4 DEF IInv

\* A cursor is published, or held back by the fence: a stream that still owns its
\* key belongs to a pod that is not gone.
LEMMA AdvanceInv == ASSUME IInv, NEW g \in Gens, advanceCursor(g) PROVE IInv'
<1>1. TypeOK /\ StreamsOK /\ HandlerOK /\ GoneOK /\ DrainedIsOver
  BY DEF IInv
<1>2. skey[g] \in Keys
  BY <1>1 DEF advanceCursor, StreamsOK, KeysKnown
<1>3. g # NoGen
  BY BoundAssumption DEF Gens, NoGen
<1>4. TypeOK'
  BY <1>1, <1>2, <1>3 DEF advanceCursor, TypeOK, clusterVars, informerVars, handlerVars,
      registryVars, marksVars
<1>5. StreamsOK'
  BY <1>1, <1>2, <1>3 DEF advanceCursor, StreamsOK, GensFresh, KeysKnown, EveryStreamTracked,
      ActiveIsRunning, Holds, TypeOK, clusterVars, informerVars, handlerVars, registryVars,
      marksVars
<1>6. GoneOK'
  BY <1>1, <1>2, <1>3 DEF advanceCursor, GoneOK, GoneIsInactive, NoResurrection, TypeOK, Holds,
      clusterVars, informerVars, handlerVars, registryVars, marksVars
<1>7. HandlerOK' /\ DrainedIsOver'
  BY <1>1, HandlerFrame, DrainedFrame DEF advanceCursor, clusterVars, informerVars, handlerVars,
      registryVars, marksVars
<1> QED BY <1>4, <1>5, <1>6, <1>7 DEF IInv

\* A stream's loop ends.
LEMMA StopsInv == ASSUME IInv, NEW g \in Gens, StreamStops(g) PROVE IInv'
<1>1. TypeOK /\ StreamsOK /\ HandlerOK /\ GoneOK /\ DrainedIsOver
  BY DEF IInv
<1>2. TypeOK'
  BY <1>1 DEF StreamStops, TypeOK, clusterVars, informerVars, handlerVars, registryVars, storeVars,
      marksVars
<1>3. StreamsOK'
  BY <1>1 DEF StreamStops, StreamsOK, GensFresh, KeysKnown, EveryStreamTracked, ActiveIsRunning,
      Holds, TypeOK, clusterVars, informerVars, handlerVars, registryVars, storeVars, marksVars
<1>4. HandlerOK' /\ GoneOK' /\ DrainedIsOver'
  BY <1>1, HandlerFrame, GoneFrame, DrainedFrame DEF StreamStops, clusterVars, informerVars,
      handlerVars, registryVars, storeVars, marksVars
<1> QED BY <1>2, <1>3, <1>4 DEF IInv

\* A stream gives back an entry that is its own.
LEMMA ReleaseInv == ASSUME IInv, NEW g \in Gens, releaseStream(g) PROVE IInv'
<1>1. TypeOK /\ StreamsOK /\ HandlerOK /\ GoneOK /\ DrainedIsOver
  BY DEF IInv
<1>2. skey[g] \in Keys /\ g # NoGen
  BY <1>1, BoundAssumption DEF releaseStream, StreamsOK, KeysKnown, Gens, NoGen
<1>3. TypeOK'
  BY <1>1, <1>2 DEF releaseStream, TypeOK, NoGen, clusterVars, informerVars, handlerVars, storeVars
<1>4. StreamsOK'
  BY <1>1, <1>2 DEF releaseStream, StreamsOK, GensFresh, KeysKnown, EveryStreamTracked,
      ActiveIsRunning, Holds, TypeOK, NoGen, clusterVars, informerVars, handlerVars, storeVars
<1>5. GoneOK'
  BY <1>1, <1>2 DEF releaseStream, GoneOK, GoneIsInactive, NoResurrection, TypeOK, clusterVars,
      informerVars, handlerVars, storeVars
<1>6. DrainedIsOver'
  BY <1>1, <1>2 DEF releaseStream, DrainedIsOver, TypeOK, clusterVars, informerVars, handlerVars,
      storeVars
<1>7. HandlerOK'
  BY <1>1, HandlerFrame DEF releaseStream, clusterVars, informerVars, handlerVars, storeVars
<1> QED BY <1>3, <1>4, <1>5, <1>6, <1>7 DEF IInv

\* A stream that finds another one's entry leaves it; it can only have been
\* cancelled.
LEMMA ReleaseNothingInv == ASSUME IInv, NEW g \in Gens, ReleaseNothing(g) PROVE IInv'
<1>1. TypeOK /\ StreamsOK /\ HandlerOK /\ GoneOK /\ DrainedIsOver
  BY DEF IInv
<1>2. TypeOK'
  BY <1>1 DEF ReleaseNothing, TypeOK, clusterVars, informerVars, handlerVars, registryVars,
      storeVars, marksVars
<1>3. StreamsOK'
  BY <1>1 DEF ReleaseNothing, StreamsOK, GensFresh, KeysKnown, EveryStreamTracked, ActiveIsRunning,
      Holds, TypeOK, clusterVars, informerVars, handlerVars, registryVars, storeVars, marksVars
<1>4. HandlerOK' /\ GoneOK' /\ DrainedIsOver'
  BY <1>1, HandlerFrame, GoneFrame, DrainedFrame DEF ReleaseNothing, clusterVars, informerVars,
      handlerVars, registryVars, storeVars, marksVars
<1> QED BY <1>2, <1>3, <1>4 DEF IInv

\* A released stream counts the others.
LEMMA StreamCountInv == ASSUME IInv, NEW g \in Gens, StreamCounts(g) PROVE IInv'
<1>1. TypeOK /\ StreamsOK /\ HandlerOK /\ GoneOK /\ DrainedIsOver
  BY DEF IInv
<1>2. TypeOK'
  BY <1>1, CountType DEF StreamCounts, TypeOK, clusterVars, informerVars, handlerVars, registryVars,
      storeVars, marksVars
<1>3. StreamsOK'
  BY <1>1 DEF StreamCounts, StreamsOK, GensFresh, KeysKnown, EveryStreamTracked, ActiveIsRunning,
      Holds, TypeOK, clusterVars, informerVars, handlerVars, registryVars, storeVars, marksVars
<1>4. HandlerOK' /\ GoneOK' /\ DrainedIsOver'
  BY <1>1, HandlerFrame, GoneFrame, DrainedFrame DEF StreamCounts, clusterVars, informerVars,
      handlerVars, registryVars, storeVars, marksVars
<1> QED BY <1>2, <1>3, <1>4 DEF IInv

\* A released stream records the gauge.
LEMMA StreamGaugeInv == ASSUME IInv, NEW g \in Gens, StreamRecordsGauge(g) PROVE IInv'
<1>1. TypeOK /\ StreamsOK /\ HandlerOK /\ GoneOK /\ DrainedIsOver
  BY DEF IInv
<1>2. TypeOK'
  BY <1>1 DEF StreamRecordsGauge, TypeOK, clusterVars, informerVars, handlerVars, registryVars,
      storeVars, marksVars
<1>3. StreamsOK'
  BY <1>1 DEF StreamRecordsGauge, StreamsOK, GensFresh, KeysKnown, EveryStreamTracked,
      ActiveIsRunning, Holds, TypeOK, clusterVars, informerVars, handlerVars, registryVars,
      storeVars, marksVars
<1>4. HandlerOK' /\ GoneOK' /\ DrainedIsOver'
  BY <1>1, HandlerFrame, GoneFrame, DrainedFrame DEF StreamRecordsGauge, clusterVars, informerVars,
      handlerVars, registryVars, storeVars, marksVars
<1> QED BY <1>2, <1>3, <1>4 DEF IInv

-----------------------------------------------------------------------------
(* The pruner                                                              *)

\* Store.Prune drops cursors.
LEMMA PruneStoreInv == ASSUME IInv, PruneStore PROVE IInv'
<1>1. TypeOK /\ StreamsOK /\ HandlerOK /\ GoneOK /\ DrainedIsOver
  BY DEF IInv
<1>2. TypeOK'
  BY <1>1 DEF PruneStore, TypeOK, clusterVars, informerVars, handlerVars, registryVars, streamVars,
      marksVars
<1>3. GoneOK'
  BY <1>1 DEF PruneStore, GoneOK, GoneIsInactive, NoResurrection, TypeOK, clusterVars, informerVars,
      handlerVars, registryVars, streamVars, marksVars
<1>4. StreamsOK' /\ HandlerOK' /\ DrainedIsOver'
  BY <1>1, StreamsFrame, HandlerFrame, DrainedFrame DEF PruneStore, clusterVars, informerVars,
      handlerVars, registryVars, streamVars, marksVars
<1> QED BY <1>2, <1>3, <1>4 DEF IInv

\* The receiver drops its marks for the same keys, both marks together.
LEMMA PruneMarksInv == ASSUME IInv, PruneMarks PROVE IInv'
<1>1. TypeOK /\ StreamsOK /\ HandlerOK /\ GoneOK /\ DrainedIsOver
  BY DEF IInv
<1>2. TypeOK'
  BY <1>1 DEF PruneMarks, TypeOK, clusterVars, informerVars, handlerVars, storeVars, streamVars
<1>3. DrainedIsOver'
  BY <1>1 DEF PruneMarks, DrainedIsOver, clusterVars, informerVars, handlerVars, storeVars,
      streamVars
<1>4. StreamsOK' /\ HandlerOK' /\ GoneOK'
  BY <1>1, StreamsFrame, HandlerFrame, GoneFrame DEF PruneMarks, clusterVars, informerVars,
      handlerVars, storeVars, streamVars
<1> QED BY <1>2, <1>3, <1>4 DEF IInv

-----------------------------------------------------------------------------
\* Every step preserves the invariant.
LEMMA StepInv == IInv /\ [Next]_vars => IInv'
<1> SUFFICES ASSUME IInv, [Next]_vars PROVE IInv'
  OBVIOUS
<1>1. CASE Cluster \/ Informer
  BY <1>1, ClusterInv, InformerInv
<1>2. CASE Handler
  BY <1>2, TakeEventInv, MarkInv, StartStreamInv, SkipInv, DeletedInv, CountInv, GaugeInv DEF Handler, Ensure
<1>3. CASE Pruner
  BY <1>3, PruneStoreInv, PruneMarksInv DEF Pruner
<1>4. ASSUME NEW g \in Gens, Stream(g) PROVE IInv'
  BY <1>4, BeginsInv, DeliverInv, AdvanceInv, StopsInv, ReleaseInv, ReleaseNothingInv, StreamCountInv,
     StreamGaugeInv DEF Stream
<1>5. CASE UNCHANGED vars
  <2>1. UNCHANGED receiverVars
    BY <1>5 DEF vars, receiverVars
  <2>2. TypeOK'
    BY <1>5 DEF IInv, TypeOK, vars, clusterVars, informerVars, handlerVars, registryVars, marksVars,
       storeVars, streamVars
  <2> QED BY <2>1, <2>2, Elsewhere
<1> QED BY <1>1, <1>2, <1>3, <1>4, <1>5 DEF Next

\* The invariant holds in every reachable state.
THEOREM Inductive == Spec => []IInv
<1>1. Init => IInv
  BY InitInv
<1>2. IInv /\ [Next]_vars => IInv'
  BY StepInv
<1> QED BY <1>1, <1>2, PTL DEF Spec

\* Every variable of the receiver's bookkeeping keeps its type.
THEOREM TypeCorrect == Spec => []TypeOK
<1>1. IInv => TypeOK
  BY DEF IInv
<1> QED BY <1>1, Inductive, PTL

\* A running stream that was not cancelled owns its entry: the delete of its
\* pod reaches it, and no second stream is started beside it.
THEOREM NoStreamEscapes == Spec => []EveryStreamTracked
<1>1. IInv => EveryStreamTracked
  BY DEF IInv, StreamsOK
<1> QED BY <1>1, Inductive, PTL

\* No entry is left behind by a stream that is over, so a resync can always
\* restart it.
THEOREM NoEntryIsOrphaned == Spec => []ActiveIsRunning
<1>1. IInv => ActiveIsRunning
  BY DEF IInv, StreamsOK
<1> QED BY <1>1, Inductive, PTL

\* A late batch of a deleted pod's stream brings no cursor back.
THEOREM DeletedStaysForgotten == Spec => []NoResurrection
<1>1. IInv => NoResurrection
  BY DEF IInv, GoneOK
<1> QED BY <1>1, Inductive, PTL

\* A container is given up on only while it is known to have ended.
THEOREM DrainedContainersEnded == Spec => []DrainedIsOver
<1>1. IInv => DrainedIsOver
  BY DEF IInv
<1> QED BY <1>1, Inductive, PTL

-----------------------------------------------------------------------------
(* The delete of a pod reaches its streams                                 *)

\* An event that deletes p is queued behind position i.
DeletedAfter(p, i) == \E j \in (i + 1)..Len(queue) : queue[j].kind # "upsert" /\ queue[j].pod = p

\* A delete of p is still to come after whatever may start or keep a stream of
\* p: a queued event, the event in hand, the stream itself.
Followed(p) ==
  /\ \A i \in 1..Len(queue) : queue[i].kind = "upsert" /\ queue[i].pod = p => DeletedAfter(p, i)
  /\ hpc \in {"mark", "ensure"} /\ event.pod = p => DeletedAfter(p, 0)
  /\ \A k \in podContainers(p) :
       activeStreams[k] # NoGen => DeletedAfter(p, 0) \/ (hpc = "delete" /\ event.pod = p)

\* The informer's cache against the cluster: exact while it watches, and
\* without a recreated pod there is one UID to know.
CacheOK ==
  /\ watching => cache = live
  /\ "watch" \notin Env => watching
  /\ "recreate" \notin Env => /\ \A p, q \in used : p = q
                              /\ live \in used \cup {NoPod} /\ cache \in used \cup {NoPod}

StopInv == CacheOK /\ \A p \in Pods : p # cache => Followed(p)

\* A queued event is typed, an appended one comes last.
LEMMA QueueAppend ==
  ASSUME queue \in Seq(Events), NEW e \in Events, queue' = Append(queue, e)
  PROVE  /\ Len(queue) \in Nat /\ Len(queue') = Len(queue) + 1
         /\ queue'[Len(queue) + 1] = e
         /\ \A i \in 1..Len(queue) : queue'[i] = queue[i]
OBVIOUS

\* A delete that is queued stays queued behind what it follows.
LEMMA DeletedAppend ==
  ASSUME queue \in Seq(Events), NEW e \in Events, queue' = Append(queue, e),
         NEW p \in Pods, NEW i \in Nat, DeletedAfter(p, i)
  PROVE  DeletedAfter(p, i)'
<1>1. PICK j \in (i + 1)..Len(queue) : queue[j].kind # "upsert" /\ queue[j].pod = p
  BY DEF DeletedAfter
<1>2. j \in (i + 1)..Len(queue') /\ queue'[j] = queue[j]
  BY QueueAppend
<1> QED BY <1>1, <1>2 DEF DeletedAfter

\* News of another pod, or a delete, leaves p followed by its delete.
LEMMA FollowedNews ==
  ASSUME queue \in Seq(Events), NEW e \in Events, queue' = Append(queue, e), UNCHANGED receiverVars,
         NEW p \in Pods, Followed(p), e.kind = "upsert" => e.pod # p
  PROVE  Followed(p)'
<1> USE DEF receiverVars, handlerVars, registryVars
<1>1. \A i \in Nat : DeletedAfter(p, i) => DeletedAfter(p, i)'
  BY DeletedAppend
<1>2. ASSUME NEW i \in 1..Len(queue'), queue'[i].kind = "upsert", queue'[i].pod = p
      PROVE  DeletedAfter(p, i)'
  <2>1. i \in 1..Len(queue) /\ queue[i] = queue'[i]
    BY <1>2, QueueAppend
  <2> QED BY <1>1, <1>2, <2>1 DEF Followed
<1>3. UNCHANGED <<hpc, event, activeStreams>>
  OBVIOUS
<1> QED BY <1>1, <1>2, <1>3 DEF Followed

\* The delete of p, put into the queue, follows everything there was of p.
LEMMA FollowedDelete ==
  ASSUME queue \in Seq(Events), NEW e \in Events, queue' = Append(queue, e),
         NEW p \in Pods, e.kind # "upsert", e.pod = p
  PROVE  Followed(p)'
<1>1. ASSUME NEW i \in 0..Len(queue) PROVE DeletedAfter(p, i)'
  <2>1. Len(queue) + 1 \in (i + 1)..Len(queue') /\ queue'[Len(queue) + 1] = e
    BY QueueAppend
  <2> QED BY <2>1 DEF DeletedAfter
<1>2. ASSUME NEW i \in 1..Len(queue'), queue'[i].kind = "upsert" PROVE i \in 0..Len(queue)
  BY <1>2, QueueAppend
<1>3. 0 \in 0..Len(queue)
  OBVIOUS
<1> QED BY <1>1, <1>2, <1>3 DEF Followed

\* What Notify appends.
LEMMA NotifyEvent ==
  ASSUME NEW kind \in {"upsert", "delete", "tombstone"}, NEW p \in Pods, NEW st \in [Keys -> Statuses],
         Notify(kind, p, st)
  PROVE  \E e \in Events : e.kind = kind /\ e.pod = p /\ queue' = Append(queue, e)
<1>1. [kind |-> kind, pod |-> p, status |-> st] \in Events
  BY DEF Events
<1> QED BY <1>1 DEF Notify

\* Steps that change neither queue nor handler, and start no stream.
LEMMA FollowedFrame ==
  ASSUME StopInv, UNCHANGED <<clusterVars, informerVars>>,
         \A p \in Pods : Followed(p) => Followed(p)'
  PROVE  StopInv'
BY DEF StopInv, CacheOK, clusterVars, informerVars

\* The initial state satisfies it.
LEMMA InitStop == Init => StopInv
<1> SUFFICES ASSUME Init PROVE StopInv
  OBVIOUS
<1>1. queue = <<>> /\ hpc = "idle" /\ activeStreams = [k \in Keys |-> NoGen]
  BY DEF Init
<1>2. \A p \in Pods : Followed(p)
  BY <1>1 DEF Followed, podContainers
<1> QED BY <1>2 DEF Init, StopInv, CacheOK

\* A change the informer watched: the pod it caches no more gets a delete.
LEMMA WatchedStop ==
  ASSUME IInv, StopInv, CacheOK', NEW kind \in {"upsert", "delete"}, NEW p \in Pods, Watched(kind, p),
         status' \in [Keys -> Statuses], watching => cache \in {NoPod, p}
  PROVE  StopInv'
<1>1. queue \in Seq(Events) /\ UNCHANGED receiverVars
  BY DEF IInv, TypeOK, Watched
<1> SUFFICES ASSUME NEW q \in Pods, q # cache' PROVE Followed(q)'
  BY DEF StopInv
<1>2. CASE ~watching
  <2>1. UNCHANGED <<queue, cache>>
    BY <1>2 DEF Watched
  <2> QED BY <1>1, <2>1 DEF StopInv, Followed, DeletedAfter, receiverVars, handlerVars, registryVars
<1>3. CASE watching
  <2>1. Notify(kind, p, status') /\ cache' = IF kind = "delete" THEN NoPod ELSE p
    BY <1>3 DEF Watched
  <2>2. PICK e \in Events : e.kind = kind /\ e.pod = p /\ queue' = Append(queue, e)
    BY <2>1, NotifyEvent
  <2>3. CASE q = p
    <3>1. kind = "delete"
      BY <2>1, <2>3
    <3> QED BY <1>1, <2>2, <2>3, <3>1, FollowedDelete
  <2>4. CASE q # p
    <3>1. q # cache
      BY <1>3, <2>4, PodAssumption
    <3>2. Followed(q)
      BY <3>1 DEF StopInv
    <3> QED BY <1>1, <2>2, <2>4, <3>2, FollowedNews
  <2> QED BY <2>3, <2>4
<1> QED BY <1>2, <1>3

\* Every step of the cluster preserves it.
LEMMA ClusterStop == ASSUME IInv, StopInv, Cluster PROVE StopInv'
<1>1. TypeOK /\ CacheOK
  BY DEF IInv, StopInv
<1>2. CASE CreatePod
  <2>1. PICK p \in Pods \ used : live' = p /\ used' = used \cup {p} /\ status' = status /\ Watched("upsert", p)
    BY <1>2 DEF CreatePod
  <2>2. live = NoPod /\ (used = {} \/ "recreate" \in Env)
    BY <1>2 DEF CreatePod
  <2>3. CacheOK'
    BY <1>1, <2>1, <2>2 DEF CacheOK, Watched
  <2>4. (watching => cache \in {NoPod, p}) /\ status' \in [Keys -> Statuses]
    BY <1>1, <2>1, <2>2 DEF CacheOK, TypeOK
  <2> QED BY <2>1, <2>3, <2>4, WatchedStop
<1>3. CASE DeletePod
  <2>1. live \in Pods /\ live' = NoPod /\ used' = used /\ status' = [k \in Keys |-> "waiting"] /\ Watched("delete", live)
    BY <1>1, <1>3 DEF DeletePod, TypeOK
  <2>2. CacheOK'
    BY <1>1, <2>1 DEF CacheOK, Watched
  <2>3. (watching => cache \in {NoPod, live}) /\ status' \in [Keys -> Statuses]
    BY <1>1, <2>1 DEF CacheOK, Statuses
  <2> QED BY <2>1, <2>2, <2>3, WatchedStop
<1>4. ASSUME NEW k \in Keys, ContainerMoves(k) PROVE StopInv'
  <2>1. live \in Pods /\ live' = live /\ used' = used /\ Watched("upsert", live)
    BY <1>4 DEF ContainerMoves, Keys, podUIDFromStreamKey
  <2>2. CacheOK'
    BY <1>1, <2>1 DEF CacheOK, Watched
  <2>3. status' \in [Keys -> Statuses]
    BY <1>1, <1>4 DEF ContainerMoves, TypeOK, Statuses
  <2>4. watching => cache \in {NoPod, live}
    BY <1>1 DEF CacheOK
  <2> QED BY <2>1, <2>2, <2>3, <2>4, WatchedStop
<1> QED BY <1>2, <1>3, <1>4 DEF Cluster

\* A listing shows the cached pod, or none, unless another pod took its name
\* while nobody watched.
LEMMA RelistStop ==
  ASSUME "recreate" \notin Env \/ "watch" \notin Env, IInv, StopInv, Relist
  PROVE  StopInv'
<1>1. TypeOK /\ CacheOK /\ queue \in Seq(Events) /\ UNCHANGED receiverVars /\ UNCHANGED clusterVars
  BY DEF IInv, StopInv, TypeOK, Relist
<1>2. ~watching /\ "recreate" \notin Env
  BY <1>1 DEF Relist, CacheOK
<1>3. PICK seen \in {live, NoPod} :
        /\ \/ seen # NoPod /\ Notify("upsert", seen, status)
           \/ seen = NoPod /\ cache # NoPod /\ Notify("tombstone", cache, cacheStatus)
           \/ seen = NoPod /\ cache = NoPod /\ UNCHANGED queue
        /\ cache' = seen
        /\ watching' = (seen = live)
  BY DEF Relist
<1>4. CacheOK'
  BY <1>1, <1>2, <1>3 DEF CacheOK, clusterVars
<1>5. ASSUME NEW q \in Pods, q # cache' PROVE Followed(q)'
  <2>1. CASE seen # NoPod
    <3>1. seen \in Pods /\ status \in [Keys -> Statuses] /\ Notify("upsert", seen, status)
      BY <1>1, <1>3, <2>1 DEF TypeOK
    <3>2. PICK e \in Events : e.kind = "upsert" /\ e.pod = seen /\ queue' = Append(queue, e)
      BY <3>1, NotifyEvent
    <3>3. cache \in {NoPod, seen} /\ q # seen
      BY <1>1, <1>2, <1>3, <1>5, <2>1 DEF CacheOK
    <3>4. Followed(q)
      BY <3>3, PodAssumption DEF StopInv
    <3> QED BY <1>1, <3>2, <3>3, <3>4, FollowedNews
  <2>2. CASE seen = NoPod /\ cache # NoPod
    <3>1. cache \in Pods /\ cacheStatus \in [Keys -> Statuses] /\ Notify("tombstone", cache, cacheStatus)
      BY <1>1, <1>3, <2>2 DEF TypeOK
    <3>2. PICK e \in Events : e.kind = "tombstone" /\ e.pod = cache /\ queue' = Append(queue, e)
      BY <3>1, NotifyEvent
    <3>3. CASE q = cache
      BY <1>1, <3>1, <3>2, <3>3, FollowedDelete
    <3>4. CASE q # cache
      <4>1. Followed(q)
        BY <3>4 DEF StopInv
      <4> QED BY <1>1, <3>2, <4>1, FollowedNews
    <3> QED BY <3>3, <3>4
  <2>3. CASE seen = NoPod /\ cache = NoPod
    <3>1. queue' = queue /\ Followed(q)
      BY <1>3, <1>5, <2>3 DEF StopInv
    <3> QED BY <1>1, <3>1 DEF Followed, DeletedAfter, receiverVars, handlerVars, registryVars
  <2> QED BY <2>1, <2>2, <2>3
<1> QED BY <1>4, <1>5 DEF StopInv

\* Every other step of the informer preserves it.
LEMMA InformerStop == ASSUME IInv, StopInv, BreakWatch \/ Resync PROVE StopInv'
<1>1. TypeOK /\ CacheOK /\ queue \in Seq(Events)
  BY DEF IInv, StopInv, TypeOK
<1>2. CASE BreakWatch
  <2>1. /\ UNCHANGED <<clusterVars, receiverVars, queue, cache>> /\ watching' = FALSE /\ "watch" \in Env
    BY <1>2 DEF BreakWatch
  <2>2. CacheOK'
    BY <1>1, <2>1 DEF CacheOK, clusterVars
  <2> QED BY <2>1, <2>2 DEF StopInv, Followed, DeletedAfter, receiverVars, handlerVars, registryVars
<1>3. CASE Resync
  <2>1. /\ UNCHANGED <<clusterVars, receiverVars, watching, cache>>
        /\ cache \in Pods /\ cacheStatus \in [Keys -> Statuses] /\ Notify("upsert", cache, cacheStatus)
    BY <1>1, <1>3 DEF Resync, TypeOK
  <2>2. CacheOK'
    BY <1>1, <2>1 DEF CacheOK, clusterVars
  <2>3. PICK e \in Events : e.kind = "upsert" /\ e.pod = cache /\ queue' = Append(queue, e)
    BY <2>1, NotifyEvent
  <2>4. ASSUME NEW q \in Pods, q # cache' PROVE Followed(q)'
    BY <1>1, <2>1, <2>3, <2>4, FollowedNews DEF StopInv
  <2> QED BY <2>2, <2>4 DEF StopInv
<1> QED BY <1>2, <1>3

\* The handler takes an event: it is the delete that was awaited, or one is
\* still queued behind it.
LEMMA TakeEventStop == ASSUME IInv, StopInv, TakeEvent PROVE StopInv'
<1>1. queue \in Seq(Events) /\ queue # <<>> /\ event' = Head(queue) /\ queue' = Tail(queue)
  BY DEF IInv, TypeOK, TakeEvent
<1>2. /\ Len(queue) \in Nat \ {0} /\ Len(queue') = Len(queue) - 1 /\ event' = queue[1]
      /\ \A i \in 1..Len(queue') : queue'[i] = queue[i + 1]
  BY <1>1
<1>3. UNCHANGED <<clusterVars, cache, watching, activeStreams>> /\ hpc = "idle"
  BY DEF TakeEvent, registryVars
<1>4. CacheOK'
  BY <1>3 DEF StopInv, CacheOK, clusterVars
<1>5. hpc' = IF event'.kind = "upsert" THEN "mark" ELSE "delete"
  BY DEF TakeEvent
<1> SUFFICES ASSUME NEW p \in Pods, Followed(p) PROVE Followed(p)'
  BY <1>3, <1>4 DEF StopInv
<1>6. ASSUME NEW i \in Nat \ {0}, DeletedAfter(p, i) PROVE DeletedAfter(p, i - 1)'
  <2>1. PICK j \in (i + 1)..Len(queue) : queue[j].kind # "upsert" /\ queue[j].pod = p
    BY <1>6 DEF DeletedAfter
  <2>2. j - 1 \in (i - 1 + 1)..Len(queue') /\ queue'[j - 1] = queue[j]
    BY <1>2
  <2> QED BY <2>1, <2>2 DEF DeletedAfter
<1>7. ASSUME DeletedAfter(p, 0) PROVE DeletedAfter(p, 0)' \/ (hpc' = "delete" /\ event'.pod = p)
  <2>1. PICK j \in 1..Len(queue) : queue[j].kind # "upsert" /\ queue[j].pod = p
    BY <1>7 DEF DeletedAfter
  <2>2. CASE j = 1
    BY <1>2, <1>5, <2>1, <2>2
  <2>3. CASE j > 1
    <3>1. DeletedAfter(p, 1)
      BY <2>1, <2>3 DEF DeletedAfter
    <3> QED BY <1>6, <3>1
  <2> QED BY <2>2, <2>3
<1>8. ASSUME NEW i \in 1..Len(queue'), queue'[i].kind = "upsert", queue'[i].pod = p PROVE DeletedAfter(p, i)'
  <2>1. i + 1 \in 1..Len(queue) /\ queue[i + 1] = queue'[i]
    BY <1>2
  <2>2. DeletedAfter(p, i + 1)
    BY <1>8, <2>1 DEF Followed
  <2> QED BY <1>6, <2>2
<1>9. ASSUME hpc' = "mark", event'.pod = p PROVE DeletedAfter(p, 0)'
  <2>1. DeletedAfter(p, 1)
    BY <1>2, <1>5, <1>9 DEF Followed
  <2> QED BY <1>6, <2>1
<1>10. \A k \in podContainers(p) :
         activeStreams'[k] # NoGen => DeletedAfter(p, 0)' \/ (hpc' = "delete" /\ event'.pod = p)
  BY <1>3, <1>7 DEF Followed
<1> QED BY <1>5, <1>8, <1>9, <1>10 DEF Followed

\* Every other step of the handler preserves it: a stream is started only for
\* the pod of the event in hand, and a delete ends all of its pod's.
LEMMA HandlerStop ==
  ASSUME IInv, StopInv,
         markContainerStates \/ onPodDeleted \/ CountStreams \/ RecordGauge \/ \E k \in Keys : Ensure(k)
  PROVE  StopInv'
<1>1. TypeOK /\ HandlerOK
  BY DEF IInv
<1>2. UNCHANGED <<clusterVars, informerVars>>
  BY DEF markContainerStates, onPodDeleted, CountStreams, RecordGauge, Ensure, StartStream, SkipContainer
<1> SUFFICES ASSUME NEW p \in Pods, Followed(p) PROVE Followed(p)'
  BY <1>2, FollowedFrame
<1>3. \A i : DeletedAfter(p, i)' <=> DeletedAfter(p, i)
  BY <1>2 DEF DeletedAfter, informerVars
<1>4. queue' = queue
  BY <1>2 DEF informerVars
<1>5. CASE markContainerStates
  <2>1. hpc = "mark" /\ hpc' = "ensure" /\ UNCHANGED <<event, activeStreams>>
    BY <1>5 DEF markContainerStates
  <2> QED BY <1>3, <1>4, <2>1 DEF Followed
<1>6. CASE onPodDeleted
  <2>1. /\ hpc = "delete" /\ hpc' = "count" /\ event' = event
        /\ \A k \in Keys : activeStreams'[k] = IF k \in podContainers(event.pod) THEN NoGen ELSE activeStreams[k]
    BY <1>6 DEF onPodDeleted
  <2>2. ASSUME NEW k \in podContainers(p), activeStreams'[k] # NoGen PROVE DeletedAfter(p, 0)
    <3>1. k \in Keys /\ k \notin podContainers(event.pod) /\ activeStreams[k] # NoGen
      BY <2>1, <2>2 DEF podContainers
    <3>2. p # event.pod
      BY <2>2, <3>1
    <3> QED BY <2>2, <3>1, <3>2 DEF Followed
  <2> QED BY <1>3, <1>4, <2>1, <2>2 DEF Followed
<1>7. CASE CountStreams \/ RecordGauge
  <2>1. hpc \notin {"delete", "mark"} /\ hpc' \in {"gauge", "idle"} /\ activeStreams' = activeStreams
    BY <1>7 DEF CountStreams, RecordGauge, registryVars
  <2> QED BY <1>3, <1>4, <2>1 DEF Followed
<1>8. ASSUME NEW k \in Keys, Ensure(k) PROVE Followed(p)'
  <2>1. /\ hpc = "ensure" /\ UNCHANGED <<hpc, event>> /\ k \in podContainers(event.pod)
        /\ \A j \in Keys : j # k => activeStreams'[j] = activeStreams[j]
    BY <1>1, <1>8 DEF Ensure, StartStream, SkipContainer, HandlerOK, TypeOK, registryVars
  <2>2. ASSUME NEW j \in podContainers(p), activeStreams'[j] # NoGen PROVE DeletedAfter(p, 0)
    <3>1. CASE j = k
      <4>1. event.pod = p
        BY <2>1, <2>2, <3>1 DEF podContainers
      <4> QED BY <2>1, <4>1 DEF Followed
    <3>2. CASE j # k
      BY <2>1, <2>2, <3>2 DEF Followed, podContainers
    <3> QED BY <3>1, <3>2
  <2> QED BY <1>3, <1>4, <2>1, <2>2 DEF Followed
<1> QED BY <1>5, <1>6, <1>7, <1>8

\* Streams and pruner take entries out at most.
LEMMA OtherStop ==
  ASSUME IInv, StopInv, Pruner \/ (\E g \in Gens : Stream(g)) \/ UNCHANGED vars
  PROVE  StopInv'
<1>1. TypeOK
  BY DEF IInv
<1>2. UNCHANGED <<clusterVars, informerVars, handlerVars>>
  BY DEF Pruner, PruneStore, PruneMarks, Stream, StreamBegins, Deliver, advanceCursor, StreamStops,
     releaseStream, ReleaseNothing, StreamCounts, StreamRecordsGauge, vars
<1>3. \A k \in Keys : activeStreams'[k] \in {NoGen, activeStreams[k]}
  BY <1>1 DEF Pruner, PruneStore, PruneMarks, Stream, StreamBegins, Deliver, advanceCursor, StreamStops,
     releaseStream, ReleaseNothing, StreamCounts, StreamRecordsGauge, vars, registryVars, TypeOK
<1>4. ASSUME NEW p \in Pods, Followed(p) PROVE Followed(p)'
  <2>1. queue' = queue /\ UNCHANGED <<hpc, event>>
    BY <1>2 DEF informerVars, handlerVars
  <2>2. \A k \in podContainers(p) : activeStreams'[k] # NoGen => activeStreams[k] # NoGen
    BY <1>3 DEF podContainers
  <2> QED BY <1>4, <2>1, <2>2 DEF Followed, DeletedAfter
<1> QED BY <1>2, <1>4, FollowedFrame

\* Unless a pod can be replaced under its name while the watch is down, no
\* stream outlives the handling of its pod's delete, however many events the
\* informer holds back and whether the delete was seen or only inferred.
THEOREM DeletedPodsStopped ==
  ASSUME "recreate" \notin Env \/ "watch" \notin Env
  PROVE  Spec => []StoppedWhenDeleted
<1>1. Init => StopInv
  BY InitStop
<1>2. IInv /\ StopInv /\ [Next]_vars => StopInv'
  BY ClusterStop, RelistStop, InformerStop, TakeEventStop, HandlerStop, OtherStop DEF Next, Informer, Handler
<1>3. StopInv => StoppedWhenDeleted
  <2> SUFFICES ASSUME StopInv, Quiet, NEW k \in Keys, activeStreams[k] # NoGen
               PROVE  podUIDFromStreamKey(k) = live
    BY DEF StoppedWhenDeleted
  <2>1. cache = live /\ queue = <<>> /\ hpc = "idle"
    BY DEF StopInv, CacheOK, Quiet
  <2>2. k[1] \in Pods /\ k \in podContainers(k[1])
    BY DEF Keys, podContainers, podUIDFromStreamKey
  <2>3. ~DeletedAfter(k[1], 0)
    BY <2>1 DEF DeletedAfter
  <2>4. ~Followed(k[1])
    BY <2>1, <2>2, <2>3 DEF Followed
  <2> QED BY <2>1, <2>2, <2>4 DEF StopInv, podUIDFromStreamKey
<1> QED BY <1>1, <1>2, <1>3, Inductive, PTL DEF Spec
=============================================================================
