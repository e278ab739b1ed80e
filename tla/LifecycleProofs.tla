--------------------------- MODULE LifecycleProofs ---------------------------
(***************************************************************************)
(* Proofs about Lifecycle. The WaitGroup's counter is the number of        *)
(* running goroutines (Counted); everything a handler, a stream or the     *)
(* flusher has under way belongs to a running goroutine; so a counter of   *)
(* zero means that nothing is under way, and nothing can begin.            *)
(***************************************************************************)
EXTENDS Lifecycle, FiniteSetTheorems, TLAPS

Starting == {"new", "open", "loaded", "building", "failed"}

Counted == IsFiniteSet(running) /\ wg = Cardinality(running)

\* A registered stream that is not started yet is its handler's, and that
\* handler's informer runs.
HandlersOwn ==
  \A i \in Informers : hpc[i] = "add" =>
    /\ Informer(i) \in running
    /\ hgen[i] \in 1..nextStreamGen
    /\ Stream(hgen[i]) \notin running
    /\ hgen[i] \notin released
    /\ \A j \in Informers : hpc[j] = "add" /\ hgen[j] = hgen[i] => j = i

\* Generations beyond the counter are unused; the others own their key until
\* they are cancelled or released.
GensKnown ==
  \A g \in Gens :
    /\ g > nextStreamGen => Stream(g) \notin running /\ g \notin released /\ g \notin cancelled
    /\ g <= nextStreamGen => skey[g] \in Keys
    /\ g <= nextStreamGen /\ g \notin cancelled /\ g \notin released => activeStreams[skey[g]] = g

\* An entry belongs to a stream that runs, or is about to.
EntriesOwned ==
  \A k \in Keys : activeStreams[k] # NoGen =>
    /\ activeStreams[k] \in 1..nextStreamGen
    /\ skey[activeStreams[k]] = k
    /\ activeStreams[k] \notin released
    /\ \/ Stream(activeStreams[k]) \in running
       \/ \E i \in Informers : hpc[i] = "add" /\ hgen[i] = activeStreams[k]

WritesOwned == snapshot # {} => Flusher \in running

PhasesHold ==
  /\ phase \in Starting => running = {}
  /\ phase = "starting" => Reporter \notin running
  /\ phase \in {"starting", "discovered"} => Pruner \notin running /\ Flusher \notin running
  /\ phase \in {"new", "open", "loaded"} => runCtx = "none"
  /\ phase = "failed" => runCtx # "live"
  /\ phase \in Waited => running = {}
  /\ storage = "closed" => phase = "stopped"
  /\ phase = "stopped" => storage # "open"
  /\ phase \in {"close", "stopped"} /\ storage # "none" => disk = cursors

LInv ==
  /\ TypeOK /\ Counted /\ HandlersOwn /\ GensKnown /\ EntriesOwned /\ WritesOwned /\ PhasesHold

-----------------------------------------------------------------------------
(* The counter                                                             *)

\* One more goroutine.
LEMMA CountOne ==
  ASSUME NEW g, Counted, g \notin running, Go({g})
  PROVE  Counted'
<1>1. Cardinality({g}) = 1
  BY FS_Singleton
<1>2. IsFiniteSet(running \cup {g}) /\ Cardinality(running \cup {g}) = Cardinality(running) + 1
  BY FS_AddElement DEF Counted
<1> QED
  BY <1>1, <1>2 DEF Counted, Go

\* Several at once, where none is running.
LEMMA CountMany ==
  ASSUME NEW G, IsFiniteSet(G), Counted, running \cap G = {}, Go(G)
  PROVE  Counted'
<1>1. /\ IsFiniteSet(running \cup G)
      /\ Cardinality(running \cup G) = Cardinality(running) + Cardinality(G) - Cardinality(running \cap G)
  BY FS_Union DEF Counted
<1>2. Cardinality(running \cap G) = 0
  BY FS_EmptySet
<1>3. Cardinality(running) \in Nat /\ Cardinality(G) \in Nat
  BY FS_CardinalityType DEF Counted
<1> QED
  BY <1>1, <1>2, <1>3 DEF Counted, Go

\* One less.
LEMMA CountDone ==
  ASSUME NEW g \in running, Counted, Done(g)
  PROVE  Counted'
<1>1. IsFiniteSet(running \ {g}) /\ Cardinality(running \ {g}) = Cardinality(running) - 1
  BY FS_RemoveElement DEF Counted
<1> QED
  BY <1>1 DEF Counted, Done

\* The number of running goroutines is a number.
LEMMA CountIsNat ==
  ASSUME Counted
  PROVE  wg \in Nat /\ (wg = 0 <=> running = {})
BY FS_CardinalityType, FS_EmptySet DEF Counted

\* The counter agrees as long as neither it nor the goroutines change.
LEMMA CountKept ==
  ASSUME Counted, UNCHANGED groupVars
  PROVE  Counted'
BY DEF Counted, groupVars

-----------------------------------------------------------------------------
\* A receiver that was not started satisfies the invariant.
LEMMA InitHolds == Init => LInv
<1> SUFFICES ASSUME Init PROVE LInv
  OBVIOUS
<1> USE DEF Init
<1>1. TypeOK
  BY LifecycleAssumption DEF TypeOK, Phases, Gens, NoGen
<1>2. Counted
  BY FS_EmptySet DEF Counted
<1>3. HandlersOwn
  BY DEF HandlersOwn
<1>4. GensKnown
  BY DEF GensKnown, Gens
<1>5. EntriesOwned
  BY DEF EntriesOwned
<1>6. WritesOwned
  BY DEF WritesOwned
<1>7. PhasesHold
  BY DEF PhasesHold, Starting, Waited
<1> QED
  BY <1>1, <1>2, <1>3, <1>4, <1>5, <1>6, <1>7 DEF LInv

-----------------------------------------------------------------------------
(* Start and Shutdown                                                      *)

\* What a step of Start or Shutdown leaves alone.
Quiet == UNCHANGED <<groupVars, handlerVars, streamVars, snapshot>>

\* A step that changes neither entries nor goroutines keeps what is said of them.
LEMMA QuietKeeps ==
  ASSUME LInv, Quiet
  PROVE  Counted' /\ HandlersOwn' /\ GensKnown' /\ EntriesOwned' /\ WritesOwned'
<1>1. Counted'
  BY CountKept DEF LInv, Quiet
<1>2. HandlersOwn'
  BY DEF LInv, Quiet, groupVars, handlerVars, streamVars, HandlersOwn
<1>3. GensKnown'
  BY DEF LInv, Quiet, groupVars, handlerVars, streamVars, GensKnown
<1>4. EntriesOwned'
  BY DEF LInv, Quiet, groupVars, handlerVars, streamVars, EntriesOwned
<1>5. WritesOwned'
  BY DEF LInv, Quiet, groupVars, WritesOwned
<1> QED
  BY <1>1, <1>2, <1>3, <1>4, <1>5


\* The steps of Start and Shutdown that start and end no goroutine.
LEMMA QuietSteps ==
  ASSUME LInv,
         OpenStorage \/ LoadCursors \/ StartFails \/ NewRunContext \/ DiscoveryFails
           \/ Cancel \/ Wait \/ LastFlush \/ CloseStorage
  PROVE  LInv'
<1> USE DEF startVars, groupVars, handlerVars, streamVars, storeVars
<1>1. CASE OpenStorage
  <2>1. Quiet
    BY <1>1 DEF OpenStorage, Quiet
  <2>2. TypeOK'
    BY <1>1 DEF LInv, TypeOK, OpenStorage, Phases
  <2>3. PhasesHold'
    BY <1>1 DEF LInv, TypeOK, OpenStorage, PhasesHold, Starting, Waited
  <2> QED
    BY <2>1, <2>2, <2>3, QuietKeeps DEF LInv
<1>2. CASE LoadCursors
  <2>1. Quiet
    BY <1>2 DEF LoadCursors, Quiet
  <2>2. TypeOK'
    BY <1>2 DEF LInv, TypeOK, LoadCursors, Phases
  <2>3. PhasesHold'
    BY <1>2 DEF LInv, TypeOK, LoadCursors, PhasesHold, Starting, Waited
  <2> QED
    BY <2>1, <2>2, <2>3, QuietKeeps DEF LInv
<1>3. CASE StartFails
  <2>1. Quiet
    BY <1>3 DEF StartFails, Quiet
  <2>2. TypeOK'
    BY <1>3 DEF LInv, TypeOK, StartFails, Phases
  <2>3. PhasesHold'
    BY <1>3 DEF LInv, TypeOK, StartFails, PhasesHold, Starting, Waited
  <2> QED
    BY <2>1, <2>2, <2>3, QuietKeeps DEF LInv
<1>4. CASE NewRunContext
  <2>1. Quiet
    BY <1>4 DEF NewRunContext, Quiet
  <2>2. TypeOK'
    BY <1>4 DEF LInv, TypeOK, NewRunContext, Phases
  <2>3. PhasesHold'
    BY <1>4 DEF LInv, TypeOK, NewRunContext, PhasesHold, Starting, Waited
  <2> QED
    BY <2>1, <2>2, <2>3, QuietKeeps DEF LInv
<1>5. CASE DiscoveryFails
  <2>1. Quiet
    BY <1>5 DEF DiscoveryFails, Quiet
  <2>2. TypeOK'
    BY <1>5 DEF LInv, TypeOK, DiscoveryFails, Phases
  <2>3. PhasesHold'
    BY <1>5 DEF LInv, TypeOK, DiscoveryFails, PhasesHold, Starting, Waited
  <2> QED
    BY <2>1, <2>2, <2>3, QuietKeeps DEF LInv
<1>6. CASE Cancel
  <2>1. Quiet
    BY <1>6 DEF Cancel, Quiet
  <2>2. TypeOK'
    BY <1>6 DEF LInv, TypeOK, Cancel, Phases
  <2>3. PhasesHold'
    BY <1>6 DEF LInv, TypeOK, Cancel, PhasesHold, Starting, Waited
  <2> QED
    BY <2>1, <2>2, <2>3, QuietKeeps DEF LInv
<1>7. CASE Wait
  <2>1. Quiet
    BY <1>7 DEF Wait, Quiet
  <2>2. TypeOK'
    BY <1>7 DEF LInv, TypeOK, Wait, Phases
  <2>3. PhasesHold'
    BY <1>7, CountIsNat DEF LInv, TypeOK, Wait, PhasesHold, Starting, Waited
  <2> QED
    BY <2>1, <2>2, <2>3, QuietKeeps DEF LInv
<1>8. CASE LastFlush
  <2>1. Quiet
    BY <1>8 DEF LastFlush, Quiet
  <2>2. TypeOK'
    BY <1>8 DEF LInv, TypeOK, LastFlush, Phases
  <2>3. PhasesHold'
    BY <1>8 DEF LInv, TypeOK, LastFlush, PhasesHold, Starting, Waited
  <2> QED
    BY <2>1, <2>2, <2>3, QuietKeeps DEF LInv
<1>9. CASE CloseStorage
  <2>1. Quiet
    BY <1>9 DEF CloseStorage, Quiet
  <2>2. TypeOK'
    BY <1>9 DEF LInv, TypeOK, CloseStorage, Phases
  <2>3. PhasesHold'
    BY <1>9 DEF LInv, TypeOK, CloseStorage, PhasesHold, Starting, Waited
  <2> QED
    BY <2>1, <2>2, <2>3, QuietKeeps DEF LInv
<1> QED
  BY <1>1, <1>2, <1>3, <1>4, <1>5, <1>6, <1>7, <1>8, <1>9

\* More goroutines only help, as long as no stream is among them.
LEMMA MoreRunning ==
  ASSUME LInv, NEW G, running' = running \cup G, \A g \in Gens : Stream(g) \notin G,
         UNCHANGED <<handlerVars, streamVars, snapshot>>
  PROVE  HandlersOwn' /\ GensKnown' /\ EntriesOwned' /\ WritesOwned'
<1> USE DEF handlerVars, streamVars
<1>1. HandlersOwn'
  <2> SUFFICES ASSUME NEW i \in Informers, hpc[i] = "add"
               PROVE  /\ Informer(i) \in running'
                      /\ hgen[i] \in 1..nextStreamGen
                      /\ Stream(hgen[i]) \notin running'
                      /\ hgen[i] \notin released
                      /\ \A j \in Informers : hpc[j] = "add" /\ hgen[j] = hgen[i] => j = i
    BY DEF HandlersOwn
  <2>1. hgen[i] \in Gens
    BY LifecycleAssumption DEF LInv, TypeOK, HandlersOwn, Gens
  <2> QED
    BY <2>1 DEF LInv, HandlersOwn
<1>2. GensKnown'
  BY DEF LInv, GensKnown
<1>3. EntriesOwned'
  BY DEF LInv, EntriesOwned
<1>4. WritesOwned'
  BY DEF LInv, WritesOwned
<1> QED
  BY <1>1, <1>2, <1>3, <1>4

\* An informer is counted before it runs.
LEMMA StartInformerKeeps ==
  ASSUME LInv, NEW i \in Informers, StartInformer(i)
  PROVE  LInv'
<1> DEFINE G == {Informer(i)}
<1>0. /\ phase \in {"building", "starting"} /\ phase' = "starting"
      /\ Informer(i) \notin running /\ Go(G) /\ running' = running \cup G
  BY DEF StartInformer, Go
<1>1. Counted'
  BY <1>0, CountOne DEF LInv
<1>2. G \subseteq Goroutines /\ \A g \in Gens : Stream(g) \notin G
  BY DEF Goroutines, Informer, Stream
<1>3. HandlersOwn' /\ GensKnown' /\ EntriesOwned' /\ WritesOwned'
  BY <1>0, <1>2, MoreRunning DEF StartInformer, storeVars
<1>4. wg' \in Nat
  BY <1>1, FS_CardinalityType DEF Counted
<1>5. TypeOK'
  BY <1>0, <1>2, <1>4
     DEF LInv, TypeOK, StartInformer, Phases, startVars, handlerVars, streamVars, storeVars
<1>6. Reporter \notin running' /\ Pruner \notin running' /\ Flusher \notin running'
  BY <1>0 DEF LInv, PhasesHold, Starting, Reporter, Pruner, Flusher, Informer
<1>7. PhasesHold'
  BY <1>0, <1>6 DEF LInv, PhasesHold, StartInformer, Starting, Waited, startVars, storeVars
<1> QED
  BY <1>1, <1>3, <1>5, <1>7 DEF LInv

\* So is the goroutine that waits for the first listing.
LEMMA StartReporterKeeps ==
  ASSUME LInv, StartReporter
  PROVE  LInv'
<1> DEFINE G == {Reporter}
<1>0. /\ phase = "starting" /\ phase' = "discovered"
      /\ Reporter \notin running /\ Go(G) /\ running' = running \cup G
  BY DEF StartReporter, Go, LInv, PhasesHold
<1>1. Counted'
  BY <1>0, CountOne DEF LInv
<1>2. G \subseteq Goroutines /\ \A g \in Gens : Stream(g) \notin G
  BY DEF Goroutines, Reporter, Stream
<1>3. HandlersOwn' /\ GensKnown' /\ EntriesOwned' /\ WritesOwned'
  BY <1>0, <1>2, MoreRunning DEF StartReporter, storeVars
<1>4. wg' \in Nat
  BY <1>1, FS_CardinalityType DEF Counted
<1>5. TypeOK'
  BY <1>0, <1>2, <1>4
     DEF LInv, TypeOK, StartReporter, Phases, startVars, handlerVars, streamVars, storeVars
<1>6. Pruner \notin running' /\ Flusher \notin running'
  BY <1>0 DEF LInv, PhasesHold, Reporter, Pruner, Flusher
<1>7. PhasesHold'
  BY <1>0, <1>6 DEF LInv, PhasesHold, StartReporter, Starting, Waited, startVars, storeVars
<1> QED
  BY <1>1, <1>3, <1>5, <1>7 DEF LInv

\* The pruner and the flusher are counted before they run.
LEMMA StartUpkeepKeeps ==
  ASSUME LInv, StartUpkeep
  PROVE  LInv'
<1> DEFINE G == {Pruner} \cup (IF persists THEN {Flusher} ELSE {})
<1>0. phase = "discovered" /\ Go(G) /\ phase' = "started" /\ running' = running \cup G
  BY DEF StartUpkeep, Go
<1>1. IsFiniteSet(G) /\ running \cap G = {}
  <2>1. IsFiniteSet({Pruner}) /\ IsFiniteSet({Pruner} \cup {Flusher})
    BY FS_Singleton, FS_AddElement
  <2> QED
    BY <1>0, <2>1 DEF LInv, PhasesHold
<1>2. Counted'
  BY <1>0, <1>1, CountMany DEF LInv
<1>3. G \subseteq Goroutines /\ \A g \in Gens : Stream(g) \notin G
  BY DEF Goroutines, Pruner, Flusher, Stream
<1>4. HandlersOwn' /\ GensKnown' /\ EntriesOwned' /\ WritesOwned'
  BY <1>0, <1>3, MoreRunning DEF StartUpkeep, storeVars
<1>5. wg' \in Nat
  BY <1>2, FS_CardinalityType DEF Counted
<1>6. TypeOK'
  BY <1>0, <1>3, <1>5
     DEF LInv, TypeOK, StartUpkeep, Phases, startVars, handlerVars, streamVars, storeVars
<1>7. PhasesHold'
  BY <1>0 DEF LInv, TypeOK, PhasesHold, StartUpkeep, Starting, Waited, startVars, storeVars
<1> QED
  BY <1>2, <1>4, <1>6, <1>7 DEF LInv

-----------------------------------------------------------------------------
(* Handlers                                                                *)

\* Nothing can run before the start of the informers and after the wait.
LEMMA RunningMeansUp ==
  ASSUME LInv, NEW g \in running
  PROVE  phase \in {"starting", "discovered", "started", "wait"}
BY DEF LInv, TypeOK, PhasesHold, Phases, Starting, Waited

\* A registration is under way in an informer that is running.
LEMMA RegisterKeeps ==
  ASSUME LInv, NEW i \in Informers, NEW k \in Keys, Register(i, k)
  PROVE  LInv'
<1> DEFINE n == nextStreamGen + 1
<1>0. n \in Gens /\ nextStreamGen' = n /\ n \in 1..nextStreamGen' /\ n # NoGen
  BY LifecycleAssumption DEF LInv, TypeOK, Register, Gens, NoGen
<1>1. TypeOK'
  BY <1>0 DEF LInv, TypeOK, Register, startVars, groupVars, storeVars, Gens
<1>2. Counted'
  BY CountKept DEF LInv, Register
<1>3. /\ hpc' = [hpc EXCEPT ![i] = "add"] /\ hgen' = [hgen EXCEPT ![i] = n]
      /\ hpc[i] = "idle" /\ Informer(i) \in running /\ UNCHANGED <<running, released, cancelled>>
      /\ activeStreams[k] = NoGen
      /\ activeStreams' = [activeStreams EXCEPT ![k] = n] /\ skey' = [skey EXCEPT ![n] = k]
  BY <1>0 DEF Register, groupVars
<1>4. Stream(n) \notin running /\ n \notin released /\ n \notin cancelled
  BY <1>0 DEF LInv, TypeOK, GensKnown
<1>5. HandlersOwn'
  <2> SUFFICES ASSUME NEW j \in Informers, hpc'[j] = "add"
               PROVE  /\ Informer(j) \in running
                      /\ hgen'[j] \in 1..nextStreamGen'
                      /\ Stream(hgen'[j]) \notin running
                      /\ hgen'[j] \notin released
                      /\ \A h \in Informers : hpc'[h] = "add" /\ hgen'[h] = hgen'[j] => h = j
    BY <1>3 DEF HandlersOwn
  <2>1. \A h \in Informers \ {i} : hpc'[h] = hpc[h] /\ hgen'[h] = hgen[h]
    BY <1>3 DEF LInv, TypeOK
  <2>2. hpc'[i] = "add" /\ hgen'[i] = n
    BY <1>3 DEF LInv, TypeOK
  <2>3. \A h \in Informers \ {i} : hpc[h] = "add" => hgen[h] \in 1..nextStreamGen /\ hgen[h] # n
    BY <1>0 DEF LInv, TypeOK, HandlersOwn
  <2>4. CASE j = i
    BY <1>0, <1>3, <1>4, <2>1, <2>2, <2>3, <2>4
  <2>5. CASE j # i
    <3>1. hpc[j] = "add" /\ hgen'[j] = hgen[j] /\ hgen[j] # n /\ hgen[j] \in 1..nextStreamGen
      BY <2>1, <2>3, <2>5
    <3>2. hgen[j] \in 1..nextStreamGen'
      BY <3>1, <1>0 DEF LInv, TypeOK
    <3>3. \A h \in Informers : hpc'[h] = "add" /\ hgen'[h] = hgen'[j] => h = j
      BY <2>1, <2>2, <3>1 DEF LInv, HandlersOwn
    <3> QED
      BY <3>1, <3>2, <3>3 DEF LInv, HandlersOwn
  <2> QED
    BY <2>4, <2>5
<1>6. GensKnown'
  <2> SUFFICES ASSUME NEW g \in Gens
               PROVE  /\ g > n => Stream(g) \notin running /\ g \notin released /\ g \notin cancelled
                      /\ g <= n => skey'[g] \in Keys
                      /\ g <= n /\ g \notin cancelled /\ g \notin released => activeStreams'[skey'[g]] = g
    BY <1>0, <1>3 DEF GensKnown
  <2>1. CASE g = n
    BY <1>3, <1>4, <2>1 DEF LInv, TypeOK
  <2>2. CASE g > n
    BY <2>2, <1>0 DEF LInv, TypeOK, GensKnown, Gens
  <2>3. CASE g < n
    <3>1. g <= nextStreamGen /\ skey'[g] = skey[g] /\ skey[g] \in Keys
      BY <2>3, <1>0, <1>3 DEF LInv, TypeOK, GensKnown, Gens
    <3>2. g \notin cancelled /\ g \notin released => activeStreams[skey[g]] = g /\ skey[g] # k
      BY <3>1, <1>3 DEF LInv, GensKnown, NoGen, Gens
    <3> QED
      BY <2>3, <3>1, <3>2, <1>3 DEF LInv, TypeOK, Gens
  <2> QED
    BY <2>1, <2>2, <2>3, <1>0 DEF Gens
<1>7. EntriesOwned'
  <2> SUFFICES ASSUME NEW l \in Keys, activeStreams'[l] # NoGen
               PROVE  /\ activeStreams'[l] \in 1..nextStreamGen'
                      /\ skey'[activeStreams'[l]] = l
                      /\ activeStreams'[l] \notin released
                      /\ \/ Stream(activeStreams'[l]) \in running
                         \/ \E h \in Informers : hpc'[h] = "add" /\ hgen'[h] = activeStreams'[l]
    BY <1>3 DEF EntriesOwned
  <2>1. CASE l = k
    <3>1. activeStreams'[l] = n /\ hpc'[i] = "add" /\ hgen'[i] = n /\ skey'[n] = l
      BY <1>0, <1>3, <2>1 DEF LInv, TypeOK
    <3> QED
      BY <3>1, <1>0, <1>4
  <2>2. CASE l # k
    <3>1. activeStreams'[l] = activeStreams[l] /\ activeStreams[l] # NoGen
      BY <1>3, <2>2 DEF LInv, TypeOK
    <3>2. \A h \in Informers : hpc[h] = "add" => hpc'[h] = "add" /\ hgen'[h] = hgen[h]
      BY <1>3 DEF LInv, TypeOK
    <3>3. activeStreams[l] \in 1..nextStreamGen' /\ activeStreams[l] # n
      BY <3>1, <1>0 DEF LInv, TypeOK, EntriesOwned
    <3>4. skey'[activeStreams[l]] = l
      BY <3>1, <3>3, <1>3 DEF LInv, TypeOK, EntriesOwned
    <3> QED
      BY <3>1, <3>2, <3>3, <3>4 DEF LInv, EntriesOwned
  <2> QED
    BY <2>1, <2>2
<1>8. WritesOwned' /\ PhasesHold'
  BY DEF LInv, WritesOwned, PhasesHold, Register, startVars, groupVars, storeVars
<1> QED
  BY <1>1, <1>2, <1>5, <1>6, <1>7, <1>8 DEF LInv

\* A launched stream is counted while its handler still is.
LEMMA LaunchKeeps ==
  ASSUME LInv, NEW i \in Informers, Launch(i)
  PROVE  LInv'
<1> DEFINE n == hgen[i]
<1>0. /\ Informer(i) \in running /\ n \in 1..nextStreamGen /\ Stream(n) \notin running /\ n \notin released
      /\ \A j \in Informers : hpc[j] = "add" /\ hgen[j] = n => j = i
  BY DEF LInv, HandlersOwn, Launch
<1>1. n \in Gens
  BY <1>0, LifecycleAssumption DEF LInv, TypeOK, Gens
<1>2. Counted' /\ running' = running \cup {Stream(n)}
  BY <1>0, CountOne DEF LInv, Launch, Go
<1>3. /\ hpc' = [hpc EXCEPT ![i] = "idle"] /\ hgen' = [hgen EXCEPT ![i] = NoGen]
      /\ UNCHANGED <<activeStreams, nextStreamGen, skey, cancelled, released, snapshot>>
  BY DEF Launch, streamVars, storeVars
<1>4. Stream(n) \in Goroutines /\ wg' \in Nat
  BY <1>1, <1>2, FS_CardinalityType DEF Goroutines, Counted
<1>5. TypeOK'
  BY <1>2, <1>3, <1>4 DEF LInv, TypeOK, Launch, startVars, storeVars
<1>6. \A j \in Informers : hpc'[j] = "add" => j # i /\ hpc[j] = "add" /\ hgen'[j] = hgen[j] /\ hgen[j] # n
  BY <1>0, <1>3 DEF LInv, TypeOK
<1>7. HandlersOwn'
  <2> SUFFICES ASSUME NEW j \in Informers, hpc'[j] = "add"
               PROVE  /\ Informer(j) \in running'
                      /\ hgen[j] \in 1..nextStreamGen
                      /\ Stream(hgen[j]) \notin running'
                      /\ hgen[j] \notin released
                      /\ \A h \in Informers : hpc'[h] = "add" /\ hgen[h] = hgen[j] => h = j
    BY <1>3, <1>6 DEF HandlersOwn
  <2>1. Stream(hgen[j]) # Stream(n)
    BY <1>6 DEF Stream
  <2> QED
    BY <2>1, <1>2, <1>6 DEF LInv, HandlersOwn
<1>8. GensKnown'
  <2>1. \A g \in Gens : g > nextStreamGen => Stream(g) # Stream(n)
    BY <1>0 DEF Stream, Gens, LInv, TypeOK
  <2> QED
    BY <2>1, <1>2, <1>3 DEF LInv, GensKnown
<1>9. EntriesOwned'
  <2> SUFFICES ASSUME NEW l \in Keys, activeStreams[l] # NoGen
               PROVE  /\ activeStreams[l] \in 1..nextStreamGen
                      /\ skey[activeStreams[l]] = l
                      /\ activeStreams[l] \notin released
                      /\ \/ Stream(activeStreams[l]) \in running'
                         \/ \E h \in Informers : hpc'[h] = "add" /\ hgen'[h] = activeStreams[l]
    BY <1>3 DEF EntriesOwned
  <2>1. \A h \in Informers : hpc[h] = "add" /\ h # i => hpc'[h] = "add" /\ hgen'[h] = hgen[h]
    BY <1>3 DEF LInv, TypeOK
  <2> QED
    BY <2>1, <1>2 DEF LInv, EntriesOwned
<1>10. WritesOwned'
  BY <1>2, <1>3 DEF LInv, WritesOwned
<1>11. PhasesHold'
  <2>1. phase \in {"starting", "discovered", "started", "wait"} /\ phase' = phase
    BY <1>0, RunningMeansUp DEF Launch
  <2>2. Pruner # Stream(n) /\ Flusher # Stream(n) /\ Reporter # Stream(n)
    BY DEF Pruner, Flusher, Reporter, Stream
  <2> QED
    BY <2>1, <2>2, <1>2 DEF LInv, PhasesHold, Launch, Starting, Waited, startVars, storeVars
<1> QED
  BY <1>2, <1>5, <1>7, <1>8, <1>9, <1>10, <1>11 DEF LInv

\* A delete takes out an entry and cancels its stream.
LEMMA DeleteKeeps ==
  ASSUME LInv, NEW i \in Informers, NEW k \in Keys, Delete(i, k)
  PROVE  LInv'
<1>0. /\ activeStreams[k] # NoGen /\ activeStreams[k] \in 1..nextStreamGen /\ activeStreams[k] \in Gens
      /\ cancelled' = cancelled \cup {activeStreams[k]}
      /\ activeStreams' = [activeStreams EXCEPT ![k] = NoGen]
      /\ UNCHANGED <<running, hpc, hgen, nextStreamGen, skey, released, snapshot>>
  BY DEF Delete, LInv, TypeOK, EntriesOwned, groupVars, handlerVars, storeVars
<1>1. TypeOK'
  BY <1>0 DEF LInv, TypeOK, Delete, startVars, groupVars, handlerVars, storeVars
<1>2. Counted'
  BY CountKept DEF LInv, Delete
<1>3. HandlersOwn' /\ WritesOwned'
  BY <1>0 DEF LInv, HandlersOwn, WritesOwned
<1>4. GensKnown'
  <2> SUFFICES ASSUME NEW g \in Gens
               PROVE  /\ g > nextStreamGen => Stream(g) \notin running /\ g \notin released /\ g \notin cancelled'
                      /\ g <= nextStreamGen => skey[g] \in Keys
                      /\ g <= nextStreamGen /\ g \notin cancelled' /\ g \notin released => activeStreams'[skey[g]] = g
    BY <1>0 DEF GensKnown
  <2>1. g > nextStreamGen => g # activeStreams[k]
    BY <1>0 DEF LInv, TypeOK, Gens
  <2>2. g <= nextStreamGen /\ g \notin cancelled' /\ g \notin released => skey[g] \in Keys /\ skey[g] # k /\ activeStreams[skey[g]] = g
    BY <1>0 DEF LInv, GensKnown
  <2>3. g <= nextStreamGen /\ g \notin cancelled' /\ g \notin released => activeStreams'[skey[g]] = g
    BY <1>0, <2>2 DEF LInv, TypeOK
  <2> QED
    BY <1>0, <2>1, <2>3 DEF LInv, GensKnown
<1>5. EntriesOwned'
  <2>1. \A l \in Keys : activeStreams'[l] # NoGen => activeStreams'[l] = activeStreams[l]
    BY <1>0 DEF LInv, TypeOK
  <2> QED
    BY <2>1, <1>0 DEF LInv, EntriesOwned
<1>6. PhasesHold'
  BY DEF LInv, PhasesHold, Delete, startVars, groupVars, storeVars
<1> QED
  BY <1>1, <1>2, <1>3, <1>4, <1>5, <1>6 DEF LInv

-----------------------------------------------------------------------------
(* Goroutines that end                                                     *)

\* A goroutine may call Done when nothing that is under way is its own.
LEMMA DoneKeeps ==
  ASSUME LInv, NEW d \in running, Done(d),
         UNCHANGED <<phase, startVars, handlerVars, streamVars, storeVars>>,
         \A i \in Informers : d = Informer(i) => hpc[i] # "add",
         \A g \in Gens : d = Stream(g) => g \in released,
         d = Flusher => snapshot = {}
  PROVE  LInv'
<1> USE DEF startVars, handlerVars, streamVars, storeVars
<1>1. Counted' /\ running' = running \ {d}
  BY CountDone DEF LInv, Done
<1>2. wg' \in Nat
  BY <1>1, FS_CardinalityType DEF Counted
<1>3. TypeOK'
  BY <1>1, <1>2 DEF LInv, TypeOK
<1>4. HandlersOwn'
  BY <1>1 DEF LInv, HandlersOwn
<1>5. GensKnown'
  BY <1>1 DEF LInv, GensKnown
<1>6. EntriesOwned'
  <2>1. \A k \in Keys : activeStreams[k] # NoGen => activeStreams[k] \in Gens /\ Stream(activeStreams[k]) # d
    BY DEF LInv, TypeOK, EntriesOwned
  <2> QED
    BY <1>1, <2>1 DEF LInv, EntriesOwned
<1>7. WritesOwned'
  BY <1>1 DEF LInv, WritesOwned
<1>8. PhasesHold'
  BY <1>1 DEF LInv, PhasesHold
<1> QED
  BY <1>1, <1>3, <1>4, <1>5, <1>6, <1>7, <1>8 DEF LInv

\* A goroutine that ends takes its count along.
LEMMA EndsKeep ==
  ASSUME LInv,
         \/ \E i \in Informers : InformerEnds(i)
         \/ \E g \in Gens : StreamEnds(g)
         \/ FlusherEnds \/ PrunerEnds \/ ReporterEnds
  PROVE  LInv'
<1> USE DEF Informer, Stream, Flusher, Pruner, Reporter
<1>1. ASSUME NEW i \in Informers, InformerEnds(i) PROVE LInv'
  BY <1>1, DoneKeeps DEF InformerEnds
<1>2. ASSUME NEW g \in Gens, StreamEnds(g) PROVE LInv'
  BY <1>2, DoneKeeps DEF StreamEnds
<1>3. CASE FlusherEnds
  BY <1>3, DoneKeeps DEF FlusherEnds
<1>4. CASE PrunerEnds
  BY <1>4, DoneKeeps DEF PrunerEnds
<1>5. CASE ReporterEnds
  BY <1>5, DoneKeeps DEF ReporterEnds
<1> QED
  BY <1>1, <1>2, <1>3, <1>4, <1>5

-----------------------------------------------------------------------------
(* Streams and the flusher at work                                         *)

\* A stream leaves with its own entry or with none.
LEMMA ReleaseKeeps ==
  ASSUME LInv, NEW g \in Gens, Release(g)
  PROVE  LInv'
<1>0. /\ Stream(g) \in running /\ released' = released \cup {g}
      /\ activeStreams' = [k \in Keys |-> IF k = skey[g] /\ activeStreams[k] = g THEN NoGen ELSE activeStreams[k]]
      /\ UNCHANGED <<running, hpc, hgen, nextStreamGen, skey, cancelled, snapshot>>
  BY DEF Release, groupVars, handlerVars, storeVars
<1>1. TypeOK'
  BY <1>0 DEF LInv, TypeOK, Release, startVars, groupVars, handlerVars, storeVars
<1>2. Counted'
  BY CountKept DEF LInv, Release
<1>3. HandlersOwn' /\ WritesOwned'
  BY <1>0 DEF LInv, HandlersOwn, WritesOwned
<1>4. GensKnown'
  <2> SUFFICES ASSUME NEW h \in Gens
               PROVE  /\ h > nextStreamGen => Stream(h) \notin running /\ h \notin released' /\ h \notin cancelled
                      /\ h <= nextStreamGen => skey[h] \in Keys
                      /\ h <= nextStreamGen /\ h \notin cancelled /\ h \notin released' => activeStreams'[skey[h]] = h
    BY <1>0 DEF GensKnown
  <2>1. h > nextStreamGen => h # g
    BY <1>0 DEF LInv, GensKnown
  <2>2. h <= nextStreamGen /\ h \notin cancelled /\ h \notin released' =>
          h # g /\ skey[h] \in Keys /\ activeStreams[skey[h]] = h
    BY <1>0 DEF LInv, GensKnown
  <2> QED
    BY <1>0, <2>1, <2>2 DEF LInv, GensKnown
<1>5. EntriesOwned'
  <2> SUFFICES ASSUME NEW k \in Keys, activeStreams'[k] # NoGen
               PROVE  /\ activeStreams'[k] \in 1..nextStreamGen
                      /\ skey[activeStreams'[k]] = k
                      /\ activeStreams'[k] \notin released'
                      /\ \/ Stream(activeStreams'[k]) \in running
                         \/ \E i \in Informers : hpc[i] = "add" /\ hgen[i] = activeStreams'[k]
    BY <1>0 DEF EntriesOwned
  <2>1. activeStreams'[k] = activeStreams[k] /\ activeStreams[k] # NoGen
    BY <1>0
  <2>2. activeStreams[k] # g
    BY <1>0, <2>1 DEF LInv, EntriesOwned
  <2> QED
    BY <1>0, <2>1, <2>2 DEF LInv, EntriesOwned
<1>6. PhasesHold'
  BY DEF LInv, PhasesHold, Release, startVars, groupVars, storeVars
<1> QED
  BY <1>1, <1>2, <1>3, <1>4, <1>5, <1>6 DEF LInv

\* A cursor is published by a running stream.
LEMMA PublishKeeps ==
  ASSUME LInv, NEW g \in Gens, Publish(g)
  PROVE  LInv'
<1>1. phase \in {"starting", "discovered", "started", "wait"} /\ phase' = phase
  BY RunningMeansUp DEF Publish
<1>2. Counted' /\ HandlersOwn' /\ GensKnown' /\ EntriesOwned' /\ WritesOwned'
  BY QuietKeeps DEF Publish, Quiet
<1>3. TypeOK'
  BY LifecycleAssumption DEF LInv, TypeOK, Publish, startVars, groupVars, handlerVars, streamVars
<1>4. PhasesHold'
  BY <1>1 DEF LInv, PhasesHold, Publish, Starting, Waited, startVars, groupVars
<1> QED
  BY <1>2, <1>3, <1>4 DEF LInv

\* A snapshot is the running flusher's.
LEMMA FlushKeeps ==
  ASSUME LInv, FlushTick \/ FlushWrite
  PROVE  LInv'
<1>0. /\ UNCHANGED <<phase, cursors, persists, runCtx, storage, wg, running, hpc, hgen,
                     activeStreams, nextStreamGen, skey, cancelled, released>>
      /\ disk' \in {disk} \cup snapshot /\ snapshot' \in {{}, {cursors}}
      /\ Flusher \in running
  BY DEF LInv, WritesOwned, FlushTick, FlushWrite, startVars, groupVars, handlerVars, streamVars
<1>1. phase \in {"starting", "discovered", "started", "wait"}
  BY <1>0, RunningMeansUp
<1>2. TypeOK'
  BY <1>0 DEF LInv, TypeOK
<1>3. Counted'
  BY <1>0, CountKept DEF LInv, groupVars
<1>4. HandlersOwn' /\ GensKnown' /\ EntriesOwned' /\ WritesOwned'
  BY <1>0 DEF LInv, HandlersOwn, GensKnown, EntriesOwned, WritesOwned
<1>5. PhasesHold'
  BY <1>0, <1>1 DEF LInv, PhasesHold, Starting, Waited
<1> QED
  BY <1>2, <1>3, <1>4, <1>5 DEF LInv

-----------------------------------------------------------------------------
(* Theorems                                                                *)

\* Every step keeps the invariant.
LEMMA StepKeeps == LInv /\ [Next]_vars => LInv'
<1> SUFFICES ASSUME LInv, [Next]_vars PROVE LInv'
  OBVIOUS
<1>1. CASE Start
  BY <1>1, QuietSteps, StartInformerKeeps, StartReporterKeeps, StartUpkeepKeeps DEF Start
<1>2. CASE Shutdown
  BY <1>2, QuietSteps DEF Shutdown
<1>3. CASE Upkeep
  BY <1>3, FlushKeeps, EndsKeep DEF Upkeep
<1>4. ASSUME NEW i \in Informers, Handle(i) \/ InformerEnds(i) PROVE LInv'
  BY <1>4, LaunchKeeps, RegisterKeeps, DeleteKeeps, EndsKeep DEF Handle
<1>5. ASSUME NEW g \in Gens, StreamStep(g) PROVE LInv'
  BY <1>5, PublishKeeps, ReleaseKeeps, EndsKeep DEF StreamStep
<1>6. CASE UNCHANGED vars
  <2>1. Counted' /\ HandlersOwn' /\ GensKnown' /\ EntriesOwned' /\ WritesOwned'
    BY <1>6, QuietKeeps DEF vars, Quiet, storeVars
  <2>2. TypeOK' /\ PhasesHold'
    BY <1>6 DEF LInv, TypeOK, PhasesHold, vars, startVars, groupVars, handlerVars, streamVars, storeVars
  <2> QED
    BY <2>1, <2>2 DEF LInv
<1> QED
  BY <1>1, <1>2, <1>3, <1>4, <1>5, <1>6 DEF Next

\* The invariant holds in every reachable state.
LEMMA LInvHolds == Spec => []LInv
BY InitHolds, StepKeeps, PTL DEF Spec

\* The type invariant; with it, the WaitGroup's counter is never negative.
THEOREM TypeCorrect == Spec => []TypeOK
<1>1. LInv => TypeOK
  BY DEF LInv
<1> QED
  BY <1>1, LInvHolds, PTL

\* Once wg.Wait has returned, no goroutine of the receiver is left and none of
\* their work is under way, for any number of informers, containers and streams.
THEOREM WaitIsEnough == Spec => []NothingRunsAfterWait
<1>1. LInv => NothingRunsAfterWait
  <2> SUFFICES ASSUME LInv, phase \in Waited
               PROVE  /\ running = {} /\ snapshot = {}
                      /\ \A i \in Informers : hpc[i] = "idle"
                      /\ \A k \in Keys : activeStreams[k] = NoGen
    BY DEF NothingRunsAfterWait
  <2>1. running = {}
    BY DEF LInv, PhasesHold
  <2>2. snapshot = {}
    BY <2>1 DEF LInv, WritesOwned
  <2>3. \A i \in Informers : hpc[i] = "idle"
    BY <2>1 DEF LInv, TypeOK, HandlersOwn
  <2>4. \A k \in Keys : activeStreams[k] = NoGen
    BY <2>1, <2>3 DEF LInv, EntriesOwned
  <2> QED
    BY <2>1, <2>2, <2>3, <2>4
<1> QED
  BY <1>1, LInvHolds, PTL

\* A handler never adds to a WaitGroup at zero.
THEOREM AddsAreCounted == Spec => []AddNeverFromZero
<1>1. LInv => AddNeverFromZero
  BY CountIsNat DEF LInv, HandlersOwn, AddNeverFromZero
<1> QED
  BY <1>1, LInvHolds, PTL

\* The stored set is the last one published when Shutdown returns.
THEOREM LastFlushIsLast == Spec => []LastFlushHoldsAll
<1>1. LInv => LastFlushHoldsAll
  BY DEF LInv, PhasesHold, LastFlushHoldsAll
<1> QED
  BY <1>1, LInvHolds, PTL

\* A failed Start leaves nothing behind that runs.
THEOREM FailedStartIsClean == Spec => []FailedStartRunsNothing
<1>1. LInv => FailedStartRunsNothing
  BY DEF LInv, PhasesHold, Starting, FailedStartRunsNothing
<1> QED
  BY <1>1, LInvHolds, PTL

\* However many informers report a container, it has one stream.
THEOREM StreamsAreUnique == Spec => []OneStreamPerContainer
<1>1. LInv => OneStreamPerContainer
  <2> SUFFICES ASSUME LInv, NEW g \in Gens, NEW h \in Gens,
                      Stream(g) \in running, Stream(h) \in running, skey[g] = skey[h],
                      {g, h} \cap (cancelled \cup released) = {}
               PROVE  g = h
    BY DEF OneStreamPerContainer
  <2>1. g <= nextStreamGen /\ h <= nextStreamGen
    BY DEF LInv, TypeOK, GensKnown, Gens
  <2> QED
    BY <2>1 DEF LInv, GensKnown
<1> QED
  BY <1>1, LInvHolds, PTL
=============================================================================
