-------------------------- MODULE CursorStoreProofs --------------------------
(***************************************************************************)
(* What is stored is never ahead of what was delivered, and a clean stop   *)
(* saves all of it, for any number of containers and records and any       *)
(* sequence of kills, restarts and storage failures.                       *)
(***************************************************************************)
EXTENDS CursorStore, TLAPS

\* Every position anyone holds was handed to the pipeline.
Behind ==
  \A k \in Keys :
    /\ cursors[k] <= handed[k] /\ disk[k] <= handed[k] /\ pos[k] <= handed[k]
    /\ \A s \in snapshot : s[k] <= handed[k]

IInv == TypeOK /\ Behind

\* Nothing is known of a UID that was not used, and nothing is running while
\* the process is down.
Fresh ==
  /\ existing \subseteq used /\ cached \subseteq used /\ reading \subseteq used
  /\ \A k \in Keys \ used : lastSeenPods[k] = Unseen /\ pos[k] = 0 /\ \A p \in saved : p[k] = 0
  /\ mode = "down" => cached = {} /\ reading = {} /\ pos = Empty
  /\ mode # "down" => saved = {}

\* A cached pod was seen at the last resync at the latest, and a pod that exists
\* and is not cached yet was not seen by this process.
Refreshed ==
  mode = "up" =>
    /\ \A k \in cached : lastSeenPods[k] <= sinceResync
    /\ \A k \in existing \ cached : lastSeenPods[k] = Unseen

\* An existing container's cursor is behind its stream only until the stream
\* publishes, and the last snapshot is taken when all have.
Published ==
  /\ \A k \in existing \ unpublished : pos[k] <= cursors[k]
  /\ mode = "closing" =>
       unpublished = {} /\ \A s \in snapshot : \A k \in existing : pos[k] <= s[k]

StopInv == TypeOK /\ Fresh /\ Refreshed /\ Published /\ StopSavesEverything

-----------------------------------------------------------------------------
(* Safety of a re-read                                                     *)

\* Every step keeps every variable in its type.
LEMMA StepType == ASSUME TypeOK, Next PROVE TypeOK'
<1> USE PersistAssumption, TimeAssumption, BoundAssumption
<1>1. CASE Load
  BY <1>1 DEF Load, clusterVars, streamVars, TypeOK, Sets, Positions, Ages, Unseen, Empty
<1>2. ASSUME NEW k \in Keys, Report(k) PROVE TypeOK'
  BY <1>2 DEF Report, Seen, streamVars, historyVars, TypeOK, Sets, Positions, Ages, Unseen,
      Empty
<1>3. CASE Kill
  BY <1>3 DEF Kill, Gone, TypeOK, Sets, Positions, Ages, Unseen, Empty
<1>4. CASE Shutdown
  BY <1>4 DEF Shutdown, clusterVars, storeVars, streamVars, historyVars, TypeOK, Sets, Positions,
      Ages, Unseen, Empty
<1>5. ASSUME NEW k \in Keys, CreatePod(k) PROVE TypeOK'
  BY <1>5 DEF CreatePod, storeVars, streamVars, historyVars, TypeOK, Sets, Positions, Ages, Unseen, Empty
<1>6. ASSUME NEW k \in Keys, DeletePod(k) PROVE TypeOK'
  BY <1>6 DEF DeletePod, historyVars, TypeOK, Sets, Positions, Ages, Unseen, Empty
<1>7. CASE Resync
  BY <1>7 DEF Resync, Seen, clusterVars, streamVars, historyVars, TypeOK, Sets, Positions, Ages,
      Unseen, Empty
<1>8. CASE Tick
  BY <1>8 DEF Tick, clusterVars, streamVars, historyVars, TypeOK, Sets, Positions, Ages, Unseen,
      Empty
<1>9. CASE Prune
  BY <1>9 DEF Prune, Expired, clusterVars, streamVars, historyVars, TypeOK, Sets, Positions, Ages,
      Unseen, Empty
<1>10. ASSUME NEW k \in Keys, StartStream(k) PROVE TypeOK'
  BY <1>10 DEF StartStream, clusterVars, storeVars, historyVars, TypeOK, Sets, Positions, Ages,
      Unseen, Empty
<1>11. ASSUME NEW k \in Keys, Deliver(k) PROVE TypeOK'
  BY <1>11 DEF Deliver, clusterVars, storeVars, TypeOK, Sets, Positions, Ages, Unseen, Empty
<1>12. ASSUME NEW k \in Keys, Advance(k) PROVE TypeOK'
  BY <1>12 DEF Advance, clusterVars, historyVars, TypeOK, Sets, Positions, Ages, Unseen, Empty
<1>13. ASSUME NEW k \in Keys, StopStream(k) PROVE TypeOK'
  BY <1>13 DEF StopStream, clusterVars, storeVars, historyVars, TypeOK, Sets, Positions, Ages,
      Unseen, Empty
<1>14. CASE FlushSnapshot
  BY <1>14 DEF FlushSnapshot, clusterVars, storeVars, streamVars, historyVars, TypeOK, Sets,
      Positions, Ages, Unseen, Empty
<1>15. CASE FlushWrite
  BY <1>15 DEF FlushWrite, clusterVars, storeVars, streamVars, historyVars, TypeOK, Sets, Positions,
      Ages, Unseen, Empty
<1>16. CASE LastFlush
  BY <1>16 DEF LastFlush, clusterVars, storeVars, streamVars, historyVars, TypeOK, Sets, Positions,
      Ages, Unseen, Empty
<1>17. CASE Close
  BY <1>17 DEF Close, Gone, TypeOK, Sets, Positions, Ages, Unseen, Empty
<1> QED BY <1>1, <1>2, <1>3, <1>4, <1>5, <1>6, <1>7, <1>8, <1>9, <1>10, <1>11, <1>12, <1>13, <1>14,
      <1>15, <1>16, <1>17 DEF Next, Cluster, Process, Upkeep, Stream

\* Every step keeps every held position behind what was handed over.
LEMMA StepBehind == ASSUME TypeOK, Behind, Next PROVE Behind'
<1>1. CASE Load
  BY <1>1, BoundAssumption DEF Load, clusterVars, streamVars, Behind, TypeOK, Sets, Positions, Empty
<1>2. ASSUME NEW k \in Keys, Report(k) PROVE Behind'
  BY <1>2, BoundAssumption DEF Report, Seen, streamVars, historyVars, Behind, TypeOK, Sets,
      Positions, Empty
<1>3. CASE Kill
  BY <1>3, BoundAssumption DEF Kill, Gone, Behind, TypeOK, Sets, Positions, Empty
<1>4. CASE Shutdown
  BY <1>4, BoundAssumption DEF Shutdown, clusterVars, storeVars, streamVars, historyVars, Behind,
      TypeOK, Sets, Positions, Empty
<1>5. ASSUME NEW k \in Keys, CreatePod(k) PROVE Behind'
  BY <1>5, BoundAssumption DEF CreatePod, storeVars, streamVars, historyVars, Behind, TypeOK, Sets,
      Positions, Empty
<1>6. ASSUME NEW k \in Keys, DeletePod(k) PROVE Behind'
  BY <1>6, BoundAssumption DEF DeletePod, historyVars, Behind, TypeOK, Sets, Positions, Empty
<1>7. CASE Resync
  BY <1>7, BoundAssumption DEF Resync, Seen, clusterVars, streamVars, historyVars, Behind, TypeOK,
      Sets, Positions, Empty
<1>8. CASE Tick
  BY <1>8, BoundAssumption DEF Tick, clusterVars, streamVars, historyVars, Behind, TypeOK, Sets,
      Positions, Empty
<1>9. CASE Prune
  BY <1>9, BoundAssumption DEF Prune, Expired, clusterVars, streamVars, historyVars, Behind, TypeOK,
      Sets, Positions, Empty
<1>10. ASSUME NEW k \in Keys, StartStream(k) PROVE Behind'
  BY <1>10, BoundAssumption DEF StartStream, clusterVars, storeVars, historyVars, Behind, TypeOK,
      Sets, Positions, Empty
<1>11. ASSUME NEW k \in Keys, Deliver(k) PROVE Behind'
  BY <1>11, BoundAssumption DEF Deliver, clusterVars, storeVars, Behind, TypeOK, Sets, Positions,
      Empty
<1>12. ASSUME NEW k \in Keys, Advance(k) PROVE Behind'
  BY <1>12, BoundAssumption DEF Advance, clusterVars, historyVars, Behind, TypeOK, Sets, Positions,
      Empty
<1>13. ASSUME NEW k \in Keys, StopStream(k) PROVE Behind'
  BY <1>13, BoundAssumption DEF StopStream, clusterVars, storeVars, historyVars, Behind, TypeOK,
      Sets, Positions, Empty
<1>14. CASE FlushSnapshot
  BY <1>14, BoundAssumption DEF FlushSnapshot, clusterVars, storeVars, streamVars, historyVars,
      Behind, TypeOK, Sets, Positions, Empty
<1>15. CASE FlushWrite
  BY <1>15, BoundAssumption DEF FlushWrite, clusterVars, storeVars, streamVars, historyVars, Behind,
      TypeOK, Sets, Positions, Empty
<1>16. CASE LastFlush
  BY <1>16, BoundAssumption DEF LastFlush, clusterVars, storeVars, streamVars, historyVars, Behind,
      TypeOK, Sets, Positions, Empty
<1>17. CASE Close
  BY <1>17, BoundAssumption DEF Close, Gone, Behind, TypeOK, Sets, Positions, Empty
<1> QED BY <1>1, <1>2, <1>3, <1>4, <1>5, <1>6, <1>7, <1>8, <1>9, <1>10, <1>11, <1>12, <1>13, <1>14,
      <1>15, <1>16, <1>17 DEF Next, Cluster, Process, Upkeep, Stream

\* The invariant holds in every reachable state.
THEOREM Inductive == Spec => []IInv
<1>1. Init => IInv
  BY PersistAssumption, TimeAssumption, BoundAssumption
  DEF Init, IInv, Behind, TypeOK, Sets, Positions, Ages, Unseen, Empty
<1>2. IInv /\ [Next]_vars => IInv'
  <2> SUFFICES ASSUME IInv, [Next]_vars PROVE IInv'
    OBVIOUS
  <2>1. CASE Next
    BY <2>1, StepType, StepBehind DEF IInv
  <2>2. CASE UNCHANGED vars
    BY <2>2 DEF IInv, Behind, TypeOK, vars, clusterVars, storeVars, streamVars, historyVars
  <2> QED BY <2>1, <2>2
<1> QED BY <1>1, <1>2, PTL DEF Spec

\* Every variable of the store and of the collector around it keeps its type.
THEOREM TypeCorrect == Spec => []TypeOK
<1>1. IInv => TypeOK
  BY DEF IInv
<1> QED BY <1>1, Inductive, PTL

\* A restart from storage, or a stream started from memory, skips nothing.
THEOREM RestartSkipsNothing == Spec => []NothingSkipped
<1>1. IInv => NothingSkipped
  BY DEF IInv, Behind, NothingSkipped
<1> QED BY <1>1, Inductive, PTL

-----------------------------------------------------------------------------
(* A clean stop                                                            *)

\* Every step leaves unused UIDs unknown.
LEMMA StepFresh == ASSUME TypeOK, Fresh, Next PROVE Fresh'
<1>1. CASE Load
  BY <1>1, BoundAssumption DEF Load, clusterVars, streamVars, Fresh, TypeOK, Sets, Positions, Empty
<1>2. ASSUME NEW k \in Keys, Report(k) PROVE Fresh'
  BY <1>2, BoundAssumption DEF Report, Seen, streamVars, historyVars, Fresh, TypeOK, Sets,
      Positions, Empty
<1>3. CASE Kill
  BY <1>3, BoundAssumption DEF Kill, Gone, Fresh, TypeOK, Sets, Positions, Empty
<1>4. CASE Shutdown
  BY <1>4, BoundAssumption DEF Shutdown, clusterVars, storeVars, streamVars, historyVars, Fresh,
      TypeOK, Sets, Positions, Empty
<1>5. ASSUME NEW k \in Keys, CreatePod(k) PROVE Fresh'
  BY <1>5, BoundAssumption DEF CreatePod, storeVars, streamVars, historyVars, Fresh, TypeOK, Sets,
      Positions, Empty
<1>6. ASSUME NEW k \in Keys, DeletePod(k) PROVE Fresh'
  BY <1>6, BoundAssumption DEF DeletePod, historyVars, Fresh, TypeOK, Sets, Positions, Empty
<1>7. CASE Resync
  BY <1>7, BoundAssumption DEF Resync, Seen, clusterVars, streamVars, historyVars, Fresh, TypeOK,
      Sets, Positions, Empty
<1>8. CASE Tick
  BY <1>8, BoundAssumption, TimeAssumption DEF Tick, clusterVars, streamVars, historyVars, Fresh, TypeOK, Sets,
      Positions, Empty, Ages, Unseen
<1>9. CASE Prune
  BY <1>9, BoundAssumption DEF Prune, Expired, clusterVars, streamVars, historyVars, Fresh, TypeOK,
      Sets, Positions, Empty
<1>10. ASSUME NEW k \in Keys, StartStream(k) PROVE Fresh'
  BY <1>10, BoundAssumption DEF StartStream, clusterVars, storeVars, historyVars, Fresh, TypeOK,
      Sets, Positions, Empty
<1>11. ASSUME NEW k \in Keys, Deliver(k) PROVE Fresh'
  BY <1>11, BoundAssumption DEF Deliver, clusterVars, storeVars, Fresh, TypeOK, Sets, Positions,
      Empty
<1>12. ASSUME NEW k \in Keys, Advance(k) PROVE Fresh'
  BY <1>12, BoundAssumption DEF Advance, clusterVars, historyVars, Fresh, TypeOK, Sets, Positions,
      Empty
<1>13. ASSUME NEW k \in Keys, StopStream(k) PROVE Fresh'
  BY <1>13, BoundAssumption DEF StopStream, clusterVars, storeVars, historyVars, Fresh, TypeOK,
      Sets, Positions, Empty
<1>14. CASE FlushSnapshot
  BY <1>14, BoundAssumption DEF FlushSnapshot, clusterVars, storeVars, streamVars, historyVars,
      Fresh, TypeOK, Sets, Positions, Empty
<1>15. CASE FlushWrite
  BY <1>15, BoundAssumption DEF FlushWrite, clusterVars, storeVars, streamVars, historyVars, Fresh,
      TypeOK, Sets, Positions, Empty
<1>16. CASE LastFlush
  BY <1>16, BoundAssumption DEF LastFlush, clusterVars, storeVars, streamVars, historyVars, Fresh,
      TypeOK, Sets, Positions, Empty
<1>17. CASE Close
  BY <1>17, BoundAssumption DEF Close, Gone, Fresh, TypeOK, Sets, Positions, Empty
<1> QED BY <1>1, <1>2, <1>3, <1>4, <1>5, <1>6, <1>7, <1>8, <1>9, <1>10, <1>11, <1>12, <1>13, <1>14,
      <1>15, <1>16, <1>17 DEF Next, Cluster, Process, Upkeep, Stream

\* With resyncs at least every StaleAfter, every step keeps cached pods fresh.
LEMMA StepRefreshed == ASSUME ResyncPeriod \in 1..StaleAfter, TypeOK, Fresh, Refreshed, Next PROVE Refreshed'
<1>1. CASE Load
  BY <1>1, BoundAssumption, TimeAssumption DEF Load, clusterVars, streamVars, Refreshed, Fresh, TypeOK,
      Ages, Unseen
<1>2. ASSUME NEW k \in Keys, Report(k) PROVE Refreshed'
  BY <1>2, BoundAssumption, TimeAssumption DEF Report, Seen, streamVars, historyVars,
      Refreshed, Fresh, TypeOK, Ages, Unseen
<1>3. CASE Kill
  BY <1>3, BoundAssumption, TimeAssumption DEF Kill, Gone, Refreshed, Fresh, TypeOK, Ages, Unseen
<1>4. CASE Shutdown
  BY <1>4, BoundAssumption, TimeAssumption DEF Shutdown, clusterVars, storeVars, streamVars,
      historyVars, Refreshed, Fresh, TypeOK, Ages, Unseen
<1>5. ASSUME NEW k \in Keys, CreatePod(k) PROVE Refreshed'
  BY <1>5, BoundAssumption, TimeAssumption DEF CreatePod, storeVars, streamVars, historyVars, Refreshed, Fresh,
      TypeOK, Ages, Unseen
<1>6. ASSUME NEW k \in Keys, DeletePod(k) PROVE Refreshed'
  BY <1>6, BoundAssumption, TimeAssumption DEF DeletePod, historyVars, Refreshed, Fresh, TypeOK, Ages,
      Unseen
<1>7. CASE Resync
  BY <1>7, BoundAssumption, TimeAssumption DEF Resync, Seen, clusterVars, streamVars, historyVars,
      Refreshed, Fresh, TypeOK, Ages, Unseen
<1>8. CASE Tick
  BY <1>8, BoundAssumption, TimeAssumption DEF Tick, clusterVars, streamVars, historyVars,
      Refreshed, Fresh, TypeOK, Ages, Unseen
<1>9. CASE Prune
  BY <1>9, BoundAssumption, TimeAssumption DEF Prune, Expired, clusterVars, streamVars, historyVars,
      Refreshed, Fresh, TypeOK, Ages, Unseen
<1>10. ASSUME NEW k \in Keys, StartStream(k) PROVE Refreshed'
  BY <1>10, BoundAssumption, TimeAssumption DEF StartStream, clusterVars, storeVars, historyVars,
      Refreshed, Fresh, TypeOK, Ages, Unseen
<1>11. ASSUME NEW k \in Keys, Deliver(k) PROVE Refreshed'
  BY <1>11, BoundAssumption, TimeAssumption DEF Deliver, clusterVars, storeVars, Refreshed, Fresh, TypeOK,
      Ages, Unseen
<1>12. ASSUME NEW k \in Keys, Advance(k) PROVE Refreshed'
  BY <1>12, BoundAssumption, TimeAssumption DEF Advance, clusterVars, historyVars, Refreshed, Fresh,
      TypeOK, Ages, Unseen
<1>13. ASSUME NEW k \in Keys, StopStream(k) PROVE Refreshed'
  BY <1>13, BoundAssumption, TimeAssumption DEF StopStream, clusterVars, storeVars, historyVars,
      Refreshed, Fresh, TypeOK, Ages, Unseen
<1>14. CASE FlushSnapshot
  BY <1>14, BoundAssumption, TimeAssumption DEF FlushSnapshot, clusterVars, storeVars, streamVars,
      historyVars, Refreshed, Fresh, TypeOK, Ages, Unseen
<1>15. CASE FlushWrite
  BY <1>15, BoundAssumption, TimeAssumption DEF FlushWrite, clusterVars, storeVars, streamVars,
      historyVars, Refreshed, Fresh, TypeOK, Ages, Unseen
<1>16. CASE LastFlush
  BY <1>16, BoundAssumption, TimeAssumption DEF LastFlush, clusterVars, storeVars, streamVars,
      historyVars, Refreshed, Fresh, TypeOK, Ages, Unseen
<1>17. CASE Close
  BY <1>17, BoundAssumption, TimeAssumption DEF Close, Gone, Refreshed, Fresh, TypeOK, Ages, Unseen
<1> QED BY <1>1, <1>2, <1>3, <1>4, <1>5, <1>6, <1>7, <1>8, <1>9, <1>10, <1>11, <1>12, <1>13, <1>14,
      <1>15, <1>16, <1>17 DEF Next, Cluster, Process, Upkeep, Stream

\* Every step keeps published positions in the store: what expires is not there.
LEMMA StepPublished == ASSUME ResyncPeriod \in 1..StaleAfter, TypeOK, Fresh, Refreshed, Published, Next PROVE Published'
<1>1. CASE Load
  BY <1>1, BoundAssumption, TimeAssumption DEF Load, clusterVars, streamVars, Published, Fresh,
      Refreshed, TypeOK, Sets, Positions, Empty
<1>2. ASSUME NEW k \in Keys, Report(k) PROVE Published'
  BY <1>2, BoundAssumption, TimeAssumption DEF Report, Seen, streamVars, historyVars,
      Published, Fresh, Refreshed, TypeOK, Sets, Positions, Empty
<1>3. CASE Kill
  BY <1>3, BoundAssumption, TimeAssumption DEF Kill, Gone, Published, Fresh, Refreshed, TypeOK,
      Sets, Positions, Empty
<1>4. CASE Shutdown
  BY <1>4, BoundAssumption, TimeAssumption DEF Shutdown, clusterVars, storeVars, streamVars,
      historyVars, Published, Fresh, Refreshed, TypeOK, Sets, Positions, Empty
<1>5. ASSUME NEW k \in Keys, CreatePod(k) PROVE Published'
  BY <1>5, BoundAssumption, TimeAssumption DEF CreatePod, storeVars, streamVars, historyVars, Published,
      Fresh, Refreshed, TypeOK, Sets, Positions, Empty
<1>6. ASSUME NEW k \in Keys, DeletePod(k) PROVE Published'
  BY <1>6, BoundAssumption, TimeAssumption DEF DeletePod, historyVars, Published, Fresh, Refreshed,
      TypeOK, Sets, Positions, Empty
<1>7. CASE Resync
  BY <1>7, BoundAssumption, TimeAssumption DEF Resync, Seen, clusterVars, streamVars, historyVars,
      Published, Fresh, Refreshed, TypeOK, Sets, Positions, Empty
<1>8. CASE Tick
  BY <1>8, BoundAssumption, TimeAssumption DEF Tick, clusterVars, streamVars, historyVars,
      Published, Fresh, Refreshed, TypeOK, Sets, Positions, Empty
<1>9. CASE Prune
  BY <1>9, BoundAssumption, TimeAssumption DEF Prune, Expired, clusterVars, streamVars, historyVars,
      Published, Fresh, Refreshed, TypeOK, Sets, Positions, Empty, Ages, Unseen
<1>10. ASSUME NEW k \in Keys, StartStream(k) PROVE Published'
  BY <1>10, BoundAssumption, TimeAssumption DEF StartStream, clusterVars, storeVars, historyVars,
      Published, Fresh, Refreshed, TypeOK, Sets, Positions, Empty
<1>11. ASSUME NEW k \in Keys, Deliver(k) PROVE Published'
  BY <1>11, BoundAssumption, TimeAssumption DEF Deliver, clusterVars, storeVars, Published, Fresh,
      Refreshed, TypeOK, Sets, Positions, Empty
<1>12. ASSUME NEW k \in Keys, Advance(k) PROVE Published'
  BY <1>12, BoundAssumption, TimeAssumption DEF Advance, clusterVars, historyVars, Published, Fresh,
      Refreshed, TypeOK, Sets, Positions, Empty
<1>13. ASSUME NEW k \in Keys, StopStream(k) PROVE Published'
  BY <1>13, BoundAssumption, TimeAssumption DEF StopStream, clusterVars, storeVars, historyVars,
      Published, Fresh, Refreshed, TypeOK, Sets, Positions, Empty
<1>14. CASE FlushSnapshot
  BY <1>14, BoundAssumption, TimeAssumption DEF FlushSnapshot, clusterVars, storeVars, streamVars,
      historyVars, Published, Fresh, Refreshed, TypeOK, Sets, Positions, Empty
<1>15. CASE FlushWrite
  BY <1>15, BoundAssumption, TimeAssumption DEF FlushWrite, clusterVars, storeVars, streamVars,
      historyVars, Published, Fresh, Refreshed, TypeOK, Sets, Positions, Empty
<1>16. CASE LastFlush
  BY <1>16, BoundAssumption, TimeAssumption DEF LastFlush, clusterVars, storeVars, streamVars,
      historyVars, Published, Fresh, Refreshed, TypeOK, Sets, Positions, Empty
<1>17. CASE Close
  BY <1>17, BoundAssumption, TimeAssumption DEF Close, Gone, Published, Fresh, Refreshed, TypeOK,
      Sets, Positions, Empty
<1> QED BY <1>1, <1>2, <1>3, <1>4, <1>5, <1>6, <1>7, <1>8, <1>9, <1>10, <1>11, <1>12, <1>13, <1>14,
      <1>15, <1>16, <1>17 DEF Next, Cluster, Process, Upkeep, Stream

\* Only the last flush of a stop writes what counts as saved.
LEMMA StepSaved == ASSUME TypeOK, Fresh, Published, StopSavesEverything, Next PROVE StopSavesEverything'
<1>1. CASE Load
  BY <1>1, BoundAssumption DEF Load, clusterVars, streamVars, StopSavesEverything, Published, Fresh,
      TypeOK, Sets, Positions, Empty
<1>2. ASSUME NEW k \in Keys, Report(k) PROVE StopSavesEverything'
  BY <1>2, BoundAssumption DEF Report, Seen, streamVars, historyVars, StopSavesEverything,
      Published, Fresh, TypeOK, Sets, Positions, Empty
<1>3. CASE Kill
  BY <1>3, BoundAssumption DEF Kill, Gone, StopSavesEverything, Published, Fresh, TypeOK, Sets,
      Positions, Empty
<1>4. CASE Shutdown
  BY <1>4, BoundAssumption DEF Shutdown, clusterVars, storeVars, streamVars, historyVars,
      StopSavesEverything, Published, Fresh, TypeOK, Sets, Positions, Empty
<1>5. ASSUME NEW k \in Keys, CreatePod(k) PROVE StopSavesEverything'
  BY <1>5, BoundAssumption DEF CreatePod, storeVars, streamVars, historyVars, StopSavesEverything,
      Published, Fresh, TypeOK, Sets, Positions, Empty
<1>6. ASSUME NEW k \in Keys, DeletePod(k) PROVE StopSavesEverything'
  BY <1>6, BoundAssumption DEF DeletePod, historyVars, StopSavesEverything, Published, Fresh,
      TypeOK, Sets, Positions, Empty
<1>7. CASE Resync
  BY <1>7, BoundAssumption DEF Resync, Seen, clusterVars, streamVars, historyVars,
      StopSavesEverything, Published, Fresh, TypeOK, Sets, Positions, Empty
<1>8. CASE Tick
  BY <1>8, BoundAssumption DEF Tick, clusterVars, streamVars, historyVars, StopSavesEverything,
      Published, Fresh, TypeOK, Sets, Positions, Empty
<1>9. CASE Prune
  BY <1>9, BoundAssumption DEF Prune, Expired, clusterVars, streamVars, historyVars,
      StopSavesEverything, Published, Fresh, TypeOK, Sets, Positions, Empty
<1>10. ASSUME NEW k \in Keys, StartStream(k) PROVE StopSavesEverything'
  BY <1>10, BoundAssumption DEF StartStream, clusterVars, storeVars, historyVars,
      StopSavesEverything, Published, Fresh, TypeOK, Sets, Positions, Empty
<1>11. ASSUME NEW k \in Keys, Deliver(k) PROVE StopSavesEverything'
  BY <1>11, BoundAssumption DEF Deliver, clusterVars, storeVars, StopSavesEverything, Published,
      Fresh, TypeOK, Sets, Positions, Empty
<1>12. ASSUME NEW k \in Keys, Advance(k) PROVE StopSavesEverything'
  BY <1>12, BoundAssumption DEF Advance, clusterVars, historyVars, StopSavesEverything, Published,
      Fresh, TypeOK, Sets, Positions, Empty
<1>13. ASSUME NEW k \in Keys, StopStream(k) PROVE StopSavesEverything'
  BY <1>13, BoundAssumption DEF StopStream, clusterVars, storeVars, historyVars,
      StopSavesEverything, Published, Fresh, TypeOK, Sets, Positions, Empty
<1>14. CASE FlushSnapshot
  BY <1>14, BoundAssumption DEF FlushSnapshot, clusterVars, storeVars, streamVars, historyVars,
      StopSavesEverything, Published, Fresh, TypeOK, Sets, Positions, Empty
<1>15. CASE FlushWrite
  BY <1>15, BoundAssumption DEF FlushWrite, clusterVars, storeVars, streamVars, historyVars,
      StopSavesEverything, Published, Fresh, TypeOK, Sets, Positions, Empty
<1>16. CASE LastFlush
  BY <1>16, BoundAssumption DEF LastFlush, clusterVars, storeVars, streamVars, historyVars,
      StopSavesEverything, Published, Fresh, TypeOK, Sets, Positions, Empty
<1>17. CASE Close
  BY <1>17, BoundAssumption DEF Close, Gone, StopSavesEverything, Published, Fresh, TypeOK, Sets,
      Positions, Empty
<1> QED BY <1>1, <1>2, <1>3, <1>4, <1>5, <1>6, <1>7, <1>8, <1>9, <1>10, <1>11, <1>12, <1>13, <1>14,
      <1>15, <1>16, <1>17 DEF Next, Cluster, Process, Upkeep, Stream

\* With resyncs at least every StaleAfter, the invariant of a clean stop holds
\* in every reachable state.
THEOREM StopInductive == ASSUME ResyncPeriod \in 1..StaleAfter PROVE Spec => []StopInv
<1>1. Init => StopInv
  BY PersistAssumption, TimeAssumption, BoundAssumption
  DEF Init, StopInv, Fresh, Refreshed, Published, StopSavesEverything,
      TypeOK, Sets, Positions, Ages, Unseen, Empty
<1>2. StopInv /\ [Next]_vars => StopInv'
  <2> SUFFICES ASSUME StopInv, [Next]_vars PROVE StopInv'
    OBVIOUS
  <2>1. CASE Next
    BY <2>1, StepType, StepFresh, StepRefreshed, StepPublished, StepSaved DEF StopInv
  <2>2. CASE UNCHANGED vars
    BY <2>2 DEF StopInv, Fresh, Refreshed, Published, StopSavesEverything, TypeOK,
                vars, clusterVars, storeVars, streamVars, historyVars
  <2> QED BY <2>1, <2>2
<1> QED BY <1>1, <1>2, PTL DEF Spec

\* A stop whose last write succeeds has saved every stream's final position.
THEOREM StopSaves == ASSUME ResyncPeriod \in 1..StaleAfter PROVE Spec => []StopSavesEverything
<1>1. StopInv => StopSavesEverything
  BY DEF StopInv
<1> QED BY <1>1, StopInductive, PTL

\* No pod in the informer's cache loses its cursors to expiry.
THEOREM CachedPodsAreKept == ASSUME ResyncPeriod \in 1..StaleAfter PROVE Spec => []CachedPodIsRemembered
<1>1. StopInv => CachedPodIsRemembered
  BY TimeAssumption DEF StopInv, Refreshed, CachedPodIsRemembered, TypeOK, Ages, Unseen
<1> QED BY <1>1, StopInductive, PTL

-----------------------------------------------------------------------------
(* The order of the writes                                                 *)

\* For a pod that exists, what is stored is behind a snapshot in flight and
\* that behind memory; a UID not used yet has no record anywhere.
Forward ==
  /\ \A k \in existing :
       /\ mode # "down" => disk[k] <= cursors[k]
       /\ \A s \in snapshot : disk[k] <= s[k] /\ s[k] <= cursors[k]
  /\ \A k \in Keys \ used :
       disk[k] = 0 /\ cursors[k] = 0 /\ \A s \in snapshot : s[k] = 0
  /\ mode = "down" => snapshot = {}
  /\ ~Persists => disk = Empty /\ snapshot = {}

ForwardInv == StopInv /\ Forward

\* While the stored value can be read, every step keeps storage, the snapshot
\* in flight and memory in this order.
LEMMA StepForward ==
  ASSUME ResyncPeriod \in 1..StaleAfter, "unreadable" \notin Env,
         TypeOK, Fresh, Refreshed, Forward, Next
  PROVE  Forward'
<1>1. CASE Load
  BY <1>1, PersistAssumption, BoundAssumption, TimeAssumption
  DEF Load, clusterVars, streamVars, Forward, Fresh,
      Refreshed, TypeOK, Sets, Positions, Empty
<1>2. ASSUME NEW k \in Keys, Report(k) PROVE Forward'
  BY <1>2, PersistAssumption, BoundAssumption, TimeAssumption
  DEF Report, Seen, streamVars, historyVars,
      Forward, Fresh, Refreshed, TypeOK, Sets, Positions, Empty
<1>3. CASE Kill
  BY <1>3, PersistAssumption, BoundAssumption, TimeAssumption
  DEF Kill, Gone, Forward, Fresh, Refreshed, TypeOK,
      Sets, Positions, Empty
<1>4. CASE Shutdown
  BY <1>4, PersistAssumption, BoundAssumption, TimeAssumption
  DEF Shutdown, clusterVars, storeVars, streamVars,
      historyVars, Forward, Fresh, Refreshed, TypeOK, Sets, Positions, Empty
<1>5. ASSUME NEW k \in Keys, CreatePod(k) PROVE Forward'
  BY <1>5, PersistAssumption, BoundAssumption, TimeAssumption
  DEF CreatePod, storeVars, streamVars, historyVars, Forward,
      Fresh, Refreshed, TypeOK, Sets, Positions, Empty
<1>6. ASSUME NEW k \in Keys, DeletePod(k) PROVE Forward'
  BY <1>6, PersistAssumption, BoundAssumption, TimeAssumption
  DEF DeletePod, historyVars, Forward, Fresh, Refreshed,
      TypeOK, Sets, Positions, Empty
<1>7. CASE Resync
  BY <1>7, PersistAssumption, BoundAssumption, TimeAssumption
  DEF Resync, Seen, clusterVars, streamVars, historyVars,
      Forward, Fresh, Refreshed, TypeOK, Sets, Positions, Empty
<1>8. CASE Tick
  BY <1>8, PersistAssumption, BoundAssumption, TimeAssumption
  DEF Tick, clusterVars, streamVars, historyVars,
      Forward, Fresh, Refreshed, TypeOK, Sets, Positions, Empty
<1>9. CASE Prune
  BY <1>9, PersistAssumption, BoundAssumption, TimeAssumption
  DEF Prune, Expired, clusterVars, streamVars, historyVars,
      Forward, Fresh, Refreshed, TypeOK, Sets, Positions, Empty, Ages, Unseen
<1>10. ASSUME NEW k \in Keys, StartStream(k) PROVE Forward'
  BY <1>10, PersistAssumption, BoundAssumption, TimeAssumption
  DEF StartStream, clusterVars, storeVars, historyVars,
      Forward, Fresh, Refreshed, TypeOK, Sets, Positions, Empty
<1>11. ASSUME NEW k \in Keys, Deliver(k) PROVE Forward'
  BY <1>11, PersistAssumption, BoundAssumption, TimeAssumption
  DEF Deliver, clusterVars, storeVars, Forward, Fresh,
      Refreshed, TypeOK, Sets, Positions, Empty
<1>12. ASSUME NEW k \in Keys, Advance(k) PROVE Forward'
  BY <1>12, PersistAssumption, BoundAssumption, TimeAssumption
  DEF Advance, clusterVars, historyVars, Forward, Fresh,
      Refreshed, TypeOK, Sets, Positions, Empty
<1>13. ASSUME NEW k \in Keys, StopStream(k) PROVE Forward'
  BY <1>13, PersistAssumption, BoundAssumption, TimeAssumption
  DEF StopStream, clusterVars, storeVars, historyVars,
      Forward, Fresh, Refreshed, TypeOK, Sets, Positions, Empty
<1>14. CASE FlushSnapshot
  BY <1>14, PersistAssumption, BoundAssumption, TimeAssumption
  DEF FlushSnapshot, clusterVars, storeVars, streamVars,
      historyVars, Forward, Fresh, Refreshed, TypeOK, Sets, Positions, Empty
<1>15. CASE FlushWrite
  BY <1>15, PersistAssumption, BoundAssumption, TimeAssumption
  DEF FlushWrite, clusterVars, storeVars, streamVars,
      historyVars, Forward, Fresh, Refreshed, TypeOK, Sets, Positions, Empty
<1>16. CASE LastFlush
  BY <1>16, PersistAssumption, BoundAssumption, TimeAssumption
  DEF LastFlush, clusterVars, storeVars, streamVars,
      historyVars, Forward, Fresh, Refreshed, TypeOK, Sets, Positions, Empty
<1>17. CASE Close
  BY <1>17, PersistAssumption, BoundAssumption, TimeAssumption
  DEF Close, Gone, Forward, Fresh, Refreshed, TypeOK,
      Sets, Positions, Empty
<1> QED BY <1>1, <1>2, <1>3, <1>4, <1>5, <1>6, <1>7, <1>8, <1>9, <1>10, <1>11, <1>12, <1>13, <1>14,
      <1>15, <1>16, <1>17 DEF Next, Cluster, Process, Upkeep, Stream

\* The order holds in every reachable state.
THEOREM ForwardInductive ==
  ASSUME ResyncPeriod \in 1..StaleAfter, "unreadable" \notin Env
  PROVE  Spec => []ForwardInv
<1>1. Init => Forward
  BY BoundAssumption DEF Init, Forward, Empty
<1>2. StopInv /\ Forward /\ [Next]_vars => Forward'
  <2> SUFFICES ASSUME StopInv, Forward, [Next]_vars PROVE Forward'
    OBVIOUS
  <2>1. CASE Next
    BY <2>1, StepForward DEF StopInv
  <2>2. CASE UNCHANGED vars
    BY <2>2 DEF Forward, vars, clusterVars, storeVars, streamVars, historyVars
  <2> QED BY <2>1, <2>2
<1> QED BY <1>1, <1>2, StopInductive, PTL DEF Spec, ForwardInv

\* A step from a state of the invariant never takes an existing pod's stored
\* cursor back: only FlushWrite and Close write, and they write the snapshot.
LEMMA StepWrites ==
  ASSUME TypeOK, Forward, Next, NEW k \in existing \cap existing'
  PROVE  disk[k] <= disk'[k]
<1>1. disk[k] \in Nat /\ k \in existing
  BY BoundAssumption DEF TypeOK, Sets, Positions
<1>2. disk' \in {disk} \cup snapshot
  <2>1. CASE FlushWrite
    BY <2>1 DEF FlushWrite
  <2>2. CASE Close
    BY <2>2 DEF Close
  <2>3. CASE ~FlushWrite /\ ~Close
    BY <2>3 DEF Next, Cluster, CreatePod, Report, DeletePod, Process, Load, Kill, Shutdown,
       LastFlush, Upkeep, Resync, Tick, Prune, FlushSnapshot, Stream, StartStream, Deliver,
       Advance, StopStream
  <2> QED BY <2>1, <2>2, <2>3
<1> QED BY <1>1, <1>2 DEF Forward

\* With a readable storage, the stored cursor of an existing pod only advances.
THEOREM StorageNeverGoesBack ==
  ASSUME ResyncPeriod \in 1..StaleAfter, "unreadable" \notin Env
  PROVE  Spec => StorageMovesForward
<1>1. ForwardInv /\ [Next]_vars => [\A k \in existing \cap existing' : disk[k] <= disk'[k]]_vars
  BY StepWrites DEF ForwardInv, StopInv
<1> QED BY <1>1, ForwardInductive, PTL DEF Spec, StorageMovesForward
=============================================================================
