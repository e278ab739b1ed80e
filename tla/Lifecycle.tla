------------------------------ MODULE Lifecycle ------------------------------
(***************************************************************************)
(* logsReceiver.Start and Shutdown, and poddiscovery.Discovery.Start: the  *)
(* goroutines they start, the WaitGroup that tracks them, the run context  *)
(* and the storage client. What the goroutines do is cut down to what      *)
(* Shutdown waits for: handlers register streams, streams publish cursors, *)
(* the flusher writes them. StreamRegistry, ContainerStream and CursorStore*)
(* have the rest.                                                          *)
(***************************************************************************)
EXTENDS Integers, FiniteSets

CONSTANTS
  Informers,  \* one per configured namespace; two may be of the same one
  Keys,       \* the containers the informers report
  MaxGen,     \* bound on the streams
  MaxCursor   \* bound on the cursors published

ASSUME LifecycleAssumption ==
  /\ IsFiniteSet(Informers)
  /\ MaxGen \in Nat /\ MaxCursor \in Nat

Gens == 1..MaxGen
NoGen == 0

\* Goroutines: an informer, the reporter of the first listing, the pruner, the
\* flusher, a stream.
Informer(i) == <<"informer", i>>
Stream(g) == <<"stream", g>>
Reporter == <<"reporter", 0>>
Pruner == <<"pruner", 0>>
Flusher == <<"flusher", 0>>
Goroutines ==
  {Informer(i) : i \in Informers} \cup {Stream(g) : g \in Gens} \cup {Reporter, Pruner, Flusher}

VARIABLES
  phase,    \* where Start and Shutdown are, see Phases
  wg,       \* the WaitGroup's counter
  running,  \* the goroutines that have not called wg.Done
  persists, \* a storage extension is configured
  runCtx,   \* the run context: "none", "live" or "cancelled"
  storage,  \* the storage client: "none", "open" or "closed"
  hpc,      \* each informer's handler: "idle" or "add"
  hgen,     \* the stream it has registered and not started yet
  activeStreams,  \* generation by key
  nextStreamGen,
  skey,       \* the key of each generation
  cancelled,  \* generations whose own context was cancelled
  released,   \* generations that have run releaseStream
  cursors,    \* the store's set, as a version number
  snapshot,   \* the flusher's copy on its way to storage, or none
  disk        \* what is stored

Phases ==
  {"new", "open", "loaded", "building", "starting", "discovered", "started", "failed",
   "wait", "flush", "close", "stopped"}

startVars == <<persists, runCtx, storage>>
groupVars == <<wg, running>>
handlerVars == <<hpc, hgen>>
streamVars == <<activeStreams, nextStreamGen, skey, cancelled, released>>
storeVars == <<cursors, snapshot, disk>>
vars == <<phase, startVars, groupVars, handlerVars, streamVars, storeVars>>

TypeOK ==
  /\ phase \in Phases
  /\ wg \in Nat /\ running \subseteq Goroutines
  /\ persists \in BOOLEAN /\ runCtx \in {"none", "live", "cancelled"} /\ storage \in {"none", "open", "closed"}
  /\ hpc \in [Informers -> {"idle", "add"}] /\ hgen \in [Informers -> Gens \cup {NoGen}]
  /\ activeStreams \in [Keys -> Gens \cup {NoGen}] /\ nextStreamGen \in 0..MaxGen
  /\ skey \in [Gens -> Keys \cup {<<>>}]
  /\ cancelled \subseteq Gens /\ released \subseteq Gens
  /\ cursors \in 0..MaxCursor /\ disk \in 0..MaxCursor /\ snapshot \subseteq 0..MaxCursor

Init ==
  /\ phase = "new" /\ wg = 0 /\ running = {}
  /\ persists \in BOOLEAN /\ runCtx = "none" /\ storage = "none"
  /\ hpc = [i \in Informers |-> "idle"] /\ hgen = [i \in Informers |-> NoGen]
  /\ activeStreams = [k \in Keys |-> NoGen] /\ nextStreamGen = 0
  /\ skey = [g \in Gens |-> <<>>] /\ cancelled = {} /\ released = {}
  /\ cursors = 0 /\ snapshot = {} /\ disk = 0

-----------------------------------------------------------------------------
(* The WaitGroup                                                           *)

\* wg.Add(Cardinality(G)), and the go statements that follow.
Go(G) == wg' = wg + Cardinality(G) /\ running' = running \cup G

\* A goroutine's deferred wg.Done.
Done(g) == wg' = wg - 1 /\ running' = running \ {g}

-----------------------------------------------------------------------------
(* Start                                                                   *)

OpenStorage ==
  /\ phase = "new"
  /\ phase' = "open"
  /\ storage' = IF persists THEN "open" ELSE "none"
  /\ UNCHANGED <<persists, runCtx, groupVars, handlerVars, streamVars, storeVars>>

\* NewStore and Load; then the clients are configured.
LoadCursors ==
  /\ phase = "open"
  /\ phase' = "loaded" /\ cursors' = disk
  /\ UNCHANGED <<startVars, groupVars, handlerVars, streamVars, snapshot, disk>>

\* No storage, or no client: Start returns the error.
StartFails ==
  /\ phase \in {"new", "loaded"}
  /\ phase = "new" => persists
  /\ phase' = "failed"
  /\ UNCHANGED <<startVars, groupVars, handlerVars, streamVars, storeVars>>

NewRunContext ==
  /\ phase = "loaded"
  /\ phase' = "building" /\ runCtx' = "live"
  /\ UNCHANGED <<persists, storage, groupVars, handlerVars, streamVars, storeVars>>

\* newInformer fails for some namespace, before any informer runs.
DiscoveryFails ==
  /\ phase = "building"
  /\ phase' = "failed" /\ runCtx' = "cancelled"
  /\ UNCHANGED <<persists, storage, groupVars, handlerVars, streamVars, storeVars>>

\* One turn of the loop that starts the informers: the ones started before it
\* may already be handing pods to their handlers.
StartInformer(i) ==
  /\ phase \in {"building", "starting"} /\ Informer(i) \notin running
  /\ phase' = "starting"
  /\ Go({Informer(i)})
  /\ UNCHANGED <<startVars, handlerVars, streamVars, storeVars>>

\* The loop is over: the goroutine that waits for their sync.
StartReporter ==
  /\ phase = "starting" /\ \A i \in Informers : Informer(i) \in running
  /\ phase' = "discovered"
  /\ Go({Reporter})
  /\ UNCHANGED <<startVars, handlerVars, streamVars, storeVars>>

\* The pruner, and the flusher if there is something to flush to.
StartUpkeep ==
  /\ phase = "discovered"
  /\ phase' = "started"
  /\ Go({Pruner} \cup (IF persists THEN {Flusher} ELSE {}))
  /\ UNCHANGED <<startVars, handlerVars, streamVars, storeVars>>

-----------------------------------------------------------------------------
(* Shutdown                                                                *)

\* The collector shuts a receiver down after Start has returned, or without
\* having started it (external). r.cancel may be unset.
Cancel ==
  /\ phase \in {"new", "failed", "started"}
  /\ phase' = "wait"
  /\ runCtx' = IF runCtx = "none" THEN "none" ELSE "cancelled"
  /\ UNCHANGED <<persists, storage, groupVars, handlerVars, streamVars, storeVars>>

Wait ==
  /\ phase = "wait" /\ wg = 0
  /\ phase' = "flush"
  /\ UNCHANGED <<startVars, groupVars, handlerVars, streamVars, storeVars>>

\* cursors.Flush; CursorStore has the writes that fail.
LastFlush ==
  /\ phase = "flush"
  /\ phase' = "close"
  /\ disk' = IF storage = "open" THEN cursors ELSE disk
  /\ UNCHANGED <<startVars, groupVars, handlerVars, streamVars, cursors, snapshot>>

CloseStorage ==
  /\ phase = "close"
  /\ phase' = "stopped"
  /\ storage' = IF storage = "open" THEN "closed" ELSE storage
  /\ UNCHANGED <<persists, runCtx, groupVars, handlerVars, streamVars, storeVars>>

-----------------------------------------------------------------------------
(* Informers and their handlers                                            *)

\* Mutant of Register: an active stream is not looked up.
Register_Again(i, k) ==
  /\ Informer(i) \in running /\ hpc[i] = "idle"
  /\ nextStreamGen < MaxGen
  /\ nextStreamGen' = nextStreamGen + 1
  /\ activeStreams' = [activeStreams EXCEPT ![k] = nextStreamGen']
  /\ skey' = [skey EXCEPT ![nextStreamGen'] = k]
  /\ hpc' = [hpc EXCEPT ![i] = "add"] /\ hgen' = [hgen EXCEPT ![i] = nextStreamGen']
  /\ UNCHANGED <<phase, startVars, groupVars, cancelled, released, storeVars>>

\* ensureStreams up to the unlock. The handler may be running, and even begin
\* to run, after the context is cancelled.
Register(i, k) ==
  /\ Informer(i) \in running /\ hpc[i] = "idle"
  /\ activeStreams[k] = NoGen /\ nextStreamGen < MaxGen
  /\ nextStreamGen' = nextStreamGen + 1
  /\ activeStreams' = [activeStreams EXCEPT ![k] = nextStreamGen']
  /\ skey' = [skey EXCEPT ![nextStreamGen'] = k]
  /\ hpc' = [hpc EXCEPT ![i] = "add"] /\ hgen' = [hgen EXCEPT ![i] = nextStreamGen']
  /\ UNCHANGED <<phase, startVars, groupVars, cancelled, released, storeVars>>

\* ... and after it: wg.Add(1) and go.
Launch(i) ==
  /\ hpc[i] = "add"
  /\ Go({Stream(hgen[i])})
  /\ hpc' = [hpc EXCEPT ![i] = "idle"] /\ hgen' = [hgen EXCEPT ![i] = NoGen]
  /\ UNCHANGED <<phase, startVars, streamVars, storeVars>>

\* onPodDeleted, by any informer.
Delete(i, k) ==
  /\ Informer(i) \in running /\ hpc[i] = "idle"
  /\ activeStreams[k] # NoGen
  /\ cancelled' = cancelled \cup {activeStreams[k]}
  /\ activeStreams' = [activeStreams EXCEPT ![k] = NoGen]
  /\ UNCHANGED <<phase, startVars, groupVars, handlerVars, nextStreamGen, skey, released, storeVars>>

\* Mutant of InformerEnds: RunWithContext does not wait for its handler.
InformerEnds_Early(i) ==
  /\ Informer(i) \in running /\ runCtx = "cancelled"
  /\ Done(Informer(i))
  /\ UNCHANGED <<phase, startVars, handlerVars, streamVars, storeVars>>

\* RunWithContext returns when the context is done and its handler with it
\* (external).
InformerEnds(i) ==
  /\ Informer(i) \in running /\ runCtx = "cancelled" /\ hpc[i] = "idle"
  /\ Done(Informer(i))
  /\ UNCHANGED <<phase, startVars, handlerVars, streamVars, storeVars>>

-----------------------------------------------------------------------------
(* The other goroutines                                                    *)

\* advanceCursor, fenced by the generation.
Publish(g) ==
  /\ Stream(g) \in running /\ g \notin released
  /\ activeStreams[skey[g]] = g /\ cursors < MaxCursor
  /\ cursors' = cursors + 1
  /\ UNCHANGED <<phase, startVars, groupVars, handlerVars, streamVars, snapshot, disk>>

\* The stream's run returns, by itself or since it was cancelled.
Release(g) ==
  /\ Stream(g) \in running /\ g \notin released
  /\ released' = released \cup {g}
  /\ activeStreams' = [k \in Keys |-> IF k = skey[g] /\ activeStreams[k] = g THEN NoGen ELSE activeStreams[k]]
  /\ UNCHANGED <<phase, startVars, groupVars, handlerVars, nextStreamGen, skey, cancelled, storeVars>>

\* Mutant of StreamEnds: Done is called before releaseStream.
StreamEnds_DoneFirst(g) ==
  /\ Stream(g) \in running
  /\ g \in cancelled \/ runCtx = "cancelled"
  /\ Done(Stream(g))
  /\ UNCHANGED <<phase, startVars, handlerVars, streamVars, storeVars>>

StreamEnds(g) ==
  /\ Stream(g) \in running /\ g \in released
  /\ Done(Stream(g))
  /\ UNCHANGED <<phase, startVars, handlerVars, streamVars, storeVars>>

\* The flusher's tick copies the cursors and then writes the copy, or fails to.
FlushTick ==
  /\ Flusher \in running /\ snapshot = {}
  /\ snapshot' = {cursors}
  /\ UNCHANGED <<phase, startVars, groupVars, handlerVars, streamVars, cursors, disk>>

FlushWrite ==
  /\ snapshot # {}
  /\ disk' \in snapshot \cup {disk}
  /\ snapshot' = {}
  /\ UNCHANGED <<phase, startVars, groupVars, handlerVars, streamVars, cursors>>

\* Mutant of FlusherEnds: the tick's write is not waited for.
FlusherEnds_Early ==
  /\ Flusher \in running /\ runCtx = "cancelled"
  /\ Done(Flusher)
  /\ UNCHANGED <<phase, startVars, handlerVars, streamVars, storeVars>>

FlusherEnds ==
  /\ Flusher \in running /\ runCtx = "cancelled" /\ snapshot = {}
  /\ Done(Flusher)
  /\ UNCHANGED <<phase, startVars, handlerVars, streamVars, storeVars>>

\* Mutant of PrunerEnds: the pruner does not look at the context.
PrunerEnds_Deaf == FALSE

\* Pruning is atomic here, see StreamRegistry.
PrunerEnds ==
  /\ Pruner \in running /\ runCtx = "cancelled"
  /\ Done(Pruner)
  /\ UNCHANGED <<phase, startVars, handlerVars, streamVars, storeVars>>

\* WaitForCacheSync returns: synced, or the context is done.
ReporterEnds ==
  /\ Reporter \in running
  /\ Done(Reporter)
  /\ UNCHANGED <<phase, startVars, handlerVars, streamVars, storeVars>>

-----------------------------------------------------------------------------
Start ==
  \/ OpenStorage \/ LoadCursors \/ StartFails \/ NewRunContext \/ DiscoveryFails
  \/ (\E i \in Informers : StartInformer(i)) \/ StartReporter \/ StartUpkeep

Shutdown == Cancel \/ Wait \/ LastFlush \/ CloseStorage

Handle(i) == Launch(i) \/ \E k \in Keys : Register(i, k) \/ Delete(i, k)

StreamStep(g) == Publish(g) \/ Release(g) \/ StreamEnds(g)

Upkeep == FlushTick \/ FlushWrite \/ FlusherEnds \/ PrunerEnds \/ ReporterEnds

Next ==
  \/ Start \/ Shutdown \/ Upkeep
  \/ \E i \in Informers : Handle(i) \/ InformerEnds(i)
  \/ \E g \in Gens : StreamStep(g)

Spec == Init /\ [][Next]_vars

\* Goroutines run, and those that are to stop do: a cancelled stream stops,
\* which is ContainerStream's StopsWhenCancelled; an informer whose context is
\* done hands out no further events; the flusher's select does not prefer its
\* ticker for ever.
Fairness ==
  /\ WF_vars(Wait) /\ WF_vars(LastFlush) /\ WF_vars(CloseStorage)
  /\ \A i \in Informers : WF_vars(Launch(i)) /\ WF_vars(InformerEnds(i))
  /\ \A g \in Gens : WF_vars((runCtx = "cancelled" \/ g \in cancelled) /\ Release(g)) /\ WF_vars(StreamEnds(g))
  /\ WF_vars(FlushWrite) /\ SF_vars(FlusherEnds)
  /\ WF_vars(PrunerEnds) /\ WF_vars(runCtx = "cancelled" /\ ReporterEnds)

LiveSpec == Spec /\ Fairness

-----------------------------------------------------------------------------
(* Properties                                                              *)

Waited == {"flush", "close", "stopped"}

\* Once wg.Wait has returned nothing of the receiver runs any more: no handler
\* that could start a stream, no stream, no write on its way to storage, and
\* every stream has given its entry back.
NothingRunsAfterWait ==
  phase \in Waited =>
    /\ running = {} /\ snapshot = {}
    /\ \A i \in Informers : hpc[i] = "idle"
    /\ \A k \in Keys : activeStreams[k] = NoGen

\* A handler that adds a stream to the WaitGroup never finds it at zero, which
\* while Shutdown waits would be a misuse: its informer is still counted.
AddNeverFromZero == \A i \in Informers : hpc[i] = "add" => wg > 0

\* What is stored when Shutdown returns is the last cursor published, and the
\* storage client was given back, also after a Start that failed half way.
LastFlushHoldsAll ==
  phase = "stopped" => storage # "open" /\ (storage = "closed" => disk = cursors)

\* A Start that fails leaves nothing running, however many informers it had
\* built, and no context alive.
FailedStartRunsNothing == phase = "failed" => running = {} /\ runCtx # "live"

\* Handlers of several informers that report the same container start one
\* stream for it: at most one is not told to stop.
OneStreamPerContainer ==
  \A g, h \in Gens :
    /\ Stream(g) \in running /\ Stream(h) \in running
    /\ skey[g] = skey[h] /\ {g, h} \cap (cancelled \cup released) = {}
    => g = h

\* Shutdown returns.
ShutdownReturns == phase = "wait" ~> phase = "stopped"
=============================================================================
