--------------------------- MODULE ContainerStream ---------------------------
(***************************************************************************)
(* The log-follow loop of one container: containerStream (stream.go) with  *)
(* the connection it consumes (logsReceiver.streamConnection) and the      *)
(* registry entries it shares with the receiver (receiver.go), against the *)
(* kubelet that serves the container's log and the pipeline that takes or  *)
(* refuses batches.                                                        *)
(*                                                                         *)
(* A record is the index of its line in log. The reader goroutine and its  *)
(* channel are folded into Receive: every line the scanner produced is     *)
(* consumed, in order, before the connection's end is seen.                *)
(***************************************************************************)
EXTENDS Integers, Sequences, FiniteSets, Cursor

CONSTANTS
  MaxBatch,         \* Config.MaxBatchSize
  SinceSeconds,     \* Config.SinceSeconds, NoBound for nil
  TicksPerSecond,   \* clock ticks in the whole second PodLogOptions can carry
  InitialInterval,  \* ReconnectBackoff, in rungs of the ladder
  MaxInterval,
  MaxElapsedTime,   \* 0: retry for ever
  HasLifetime,      \* MaxStreamLifetime > 0
  Poison,           \* lines the pipeline refuses permanently
  Env,              \* the environment events of this instance, see EnvEvents
  MaxLines,         \* bound on the lines a container writes
  MaxTime           \* bound on the clock

NoBound == -1
NoLimit == -1

EnvEvents ==
  {"chunk",     \* a line is longer than max_log_size and is split
   "crash",     \* an instance dies and the kubelet starts another
   "exit",      \* the container ends for good
   "rotate",    \* the kubelet discards old lines
   "break",     \* a connection that follows the log breaks
   "drainbreak",  \* the final read of a terminal container breaks
   "tear",      \* a connection breaks in the middle of a line
   "mute",      \* a connection stays open and delivers nothing
   "openfail",  \* a connect attempt fails
   "refuse",    \* the pipeline refuses a batch for now
   "cancel"}    \* the receiver shuts down

ASSUME BatchAssumption == MaxBatch \in Nat \ {0}
ASSUME SinceAssumption == SinceSeconds \in Nat \cup {NoBound}
ASSUME TicksAssumption == TicksPerSecond \in Nat \ {0}
ASSUME BackoffAssumption ==
  InitialInterval \in Nat /\ MaxInterval \in Nat /\ MaxElapsedTime \in Nat
ASSUME LifetimeAssumption == HasLifetime \in BOOLEAN
ASSUME EnvAssumption == Env \subseteq EnvEvents /\ Poison \subseteq Nat
ASSUME BoundAssumption == MaxLines \in Nat /\ MaxTime \in Nat

VARIABLES
  \* The kubelet (external).
  log,      \* every line ever written, all instances in order
  base,     \* index of the first line it still serves
  phase,    \* "running", "waiting" between two instances, "exited"
  now,      \* the clock
  \* The receiver's entries for this container.
  terminal,   \* key \in terminatedContainers
  drained,    \* key \in drainedContainers
  stored,     \* the cursor in cursor.Store
  cancelled,  \* the stream's parent context is done
  \* containerStream.
  pc, resume, backoff, retryingSince,
  abandoned,  \* history: why it stopped before the end of the log, see Reasons
  \* One connection: its request, then streamConnection's locals.
  start, limit, mute, expired, draining,
  rd, filter, pending, batch, cut, advanced, delivered, err,
  \* History.
  handed,   \* lines the pipeline accepted, or refused for good
  torn,     \* lines of which it was handed only the beginning
  origin,   \* where the last connection without a cursor began
  firstAsk  \* where the very first connection began, 0 before it

\* "no"; it gave up connecting; its final read failed; or it took the end of an
\* earlier instance's log for the end of the last one's.
Reasons == {"no", "gaveup", "drain", "instance"}

kubeletVars == <<log, base, phase, now>>
registryVars == <<terminal, drained, stored, cancelled>>
loopVars == <<resume, backoff, retryingSince, abandoned>>
streamVars == <<pc, loopVars>>
requestVars == <<start, limit, mute, expired, draining>>
readVars == <<rd, filter, pending, batch, cut, advanced, delivered, err>>
connVars == <<requestVars, readVars>>
historyVars == <<handed, torn, origin, firstAsk>>
vars == <<kubeletVars, registryVars, streamVars, connVars, historyVars>>

-----------------------------------------------------------------------------
(* The log                                                                 *)

\* ts: the kubelet's stamp; rank: which of the stamp's lines this is; chunk:
\* 0 for the stamped head of a line, k for its k-th unstamped continuation.
LineType == [ts : Nat, rank : Nat, chunk : Nat]

\* What ParseLeadingTimestamp finds in front of the record.
Stamp(l) == IF l.chunk = 0 THEN l.ts ELSE NoTime

IsHead(l) == l.chunk = 0

\* The cursor c claims that line l needs no further delivery. A continuation
\* is claimed only by a cursor beyond its own line.
Covered(l, c) ==
  \/ l.ts < c.ts
  \/ l.ts = c.ts /\ IF IsHead(l) THEN l.rank <= c.delivered ELSE l.rank < c.delivered

Second(t) == (t \div TicksPerSecond) * TicksPerSecond

\* Serving from time t onwards begins at line s.
ServesFrom(s, t) ==
  /\ \A i \in base..(s - 1) : log[i].ts < t
  /\ s <= Len(log) => log[s].ts >= t

-----------------------------------------------------------------------------
TypeOK ==
  /\ log \in Seq(LineType)
  /\ base \in Nat \ {0}
  /\ phase \in {"running", "waiting", "exited"}
  /\ now \in Nat \ {0}
  /\ terminal \in BOOLEAN /\ drained \in BOOLEAN /\ cancelled \in BOOLEAN
  /\ stored \in CursorType /\ resume \in CursorType
  /\ pc \in {"idle", "connect", "connectWait", "reading", "flushing", "ended",
             "drainOpen", "sleeping", "done"}
  /\ backoff \in Nat
  /\ retryingSince \in Nat /\ abandoned \in Reasons
  /\ start \in Nat /\ rd \in Nat
  /\ limit \in Nat \cup {NoLimit}
  /\ mute \in BOOLEAN /\ expired \in BOOLEAN /\ draining \in BOOLEAN
  /\ filter \in FilterType
  /\ pending \in CursorType /\ delivered \in CursorType
  /\ batch \subseteq Nat /\ cut \subseteq Nat
  /\ advanced \in BOOLEAN
  /\ err \in {"none", "eof", "broken", "refused"}
  /\ handed \subseteq Nat /\ torn \subseteq Nat
  /\ origin \in Nat /\ firstAsk \in Nat

Init ==
  /\ log = <<>> /\ base = 1 /\ phase = "running" /\ now = 1
  /\ terminal = FALSE /\ drained = FALSE /\ cancelled = FALSE
  /\ stored = ZeroCursor
  /\ pc = "idle" /\ resume = ZeroCursor
  /\ backoff = InitialInterval /\ retryingSince = NoTime /\ abandoned = "no"
  /\ start = 0 /\ limit = NoLimit /\ rd = 0
  /\ mute = FALSE /\ expired = FALSE /\ draining = FALSE
  /\ filter = NewFilter(ZeroCursor) /\ pending = ZeroCursor /\ delivered = ZeroCursor
  /\ batch = {} /\ cut = {} /\ advanced = FALSE /\ err = "none"
  /\ handed = {} /\ torn = {} /\ origin = 0 /\ firstAsk = 0

-----------------------------------------------------------------------------
(* The container and its kubelet (external)                                *)

NextRank ==
  IF Len(log) > 0 /\ log[Len(log)].ts = now THEN log[Len(log)].rank + 1 ELSE 1

Write ==
  /\ phase = "running" /\ Len(log) < MaxLines
  /\ log' = Append(log, [ts |-> now, rank |-> NextRank, chunk |-> 0])
  /\ UNCHANGED <<base, phase, now, registryVars, streamVars, connVars, historyVars>>

WriteChunk ==
  /\ "chunk" \in Env
  /\ phase = "running" /\ Len(log) \in 1..(MaxLines - 1) /\ log[Len(log)].ts = now
  /\ log' = Append(log, [log[Len(log)] EXCEPT !.chunk = @ + 1])
  /\ UNCHANGED <<base, phase, now, registryVars, streamVars, connVars, historyVars>>

Tick ==
  /\ now < MaxTime
  /\ now' = now + 1
  /\ UNCHANGED <<log, base, phase, registryVars, streamVars, connVars, historyVars>>

\* An instance ends: a connection that follows it is served its log to the
\* end and then closed.
InstanceEnds(p) ==
  /\ phase = "running"
  /\ phase' = p
  /\ limit' = IF pc \in {"reading", "flushing"} /\ limit = NoLimit THEN Len(log) ELSE limit
  /\ UNCHANGED <<log, base, now, start, mute, expired, draining,
                 registryVars, streamVars, readVars, historyVars>>

Crash == "crash" \in Env /\ InstanceEnds("waiting")

Exit == "exit" \in Env /\ InstanceEnds("exited")

\* The next instance has a log of its own; the previous one is not served.
StartInstance ==
  /\ phase = "waiting"
  /\ Len(log) > 0 => log[Len(log)].ts < now
  /\ phase' = "running"
  /\ base' = Len(log) + 1
  /\ UNCHANGED <<log, now, registryVars, streamVars, connVars, historyVars>>

\* Rotation discards whole instants: lines that share one stamp are taken to
\* be kept or discarded together.
Rotate ==
  /\ "rotate" \in Env
  /\ \E b \in (base + 1)..Len(log) :
       /\ log[b].ts > log[b - 1].ts
       /\ base' = b
  /\ UNCHANGED <<log, phase, now, registryVars, streamVars, connVars, historyVars>>

-----------------------------------------------------------------------------
(* The receiver around the stream                                          *)

\* markContainerStates on an event that reports the terminal state.
MarkTerminal ==
  /\ phase = "exited" /\ ~terminal /\ ~cancelled
  /\ terminal' = TRUE
  /\ UNCHANGED <<drained, stored, cancelled, kubeletVars, streamVars, connVars, historyVars>>

\* Shutdown cancels the context every stream derives from.
Cancel ==
  /\ "cancel" \in Env
  /\ ~cancelled
  /\ cancelled' = TRUE
  /\ UNCHANGED <<terminal, drained, stored, kubeletVars, streamVars, connVars, historyVars>>

\* ensureStreams on a pod event or resync, and newContainerStream.
StartStream ==
  /\ pc = "idle" /\ ~drained /\ ~cancelled
  /\ pc' = "connect"
  /\ resume' = stored
  /\ backoff' = InitialInterval
  /\ retryingSince' = NoTime /\ abandoned' = "no"
  /\ UNCHANGED <<kubeletVars, registryVars, connVars, historyVars>>

\* Mutant of ReleaseStream: the container is not recorded as drained.
ReleaseStream_NotDrained ==
  /\ pc = "done"
  /\ pc' = "idle"
  /\ UNCHANGED <<loopVars, registryVars, kubeletVars, connVars, historyVars>>

\* releaseStream, deferred by streamContainerLogs.
ReleaseStream ==
  /\ pc = "done"
  /\ pc' = "idle"
  /\ drained' = (drained \/ terminal)
  /\ UNCHANGED <<loopVars, terminal, stored, cancelled,
                 kubeletVars, connVars, historyVars>>

-----------------------------------------------------------------------------
(* containerStream.run: connecting                                         *)

NextBackoff(b) == IF b * 2 > MaxInterval THEN MaxInterval ELSE b * 2

\* streamStartPoint, as the time from which the kubelet serves. SinceTime is
\* cut to whole seconds on the wire; SinceSeconds counts back from now.
StartPoint(from) ==
  CASE ~IsZero(from) -> Second(from.ts)
    [] IsZero(from) /\ SinceSeconds = 0 -> Second(now)
    [] IsZero(from) /\ SinceSeconds = NoBound -> NoTime
    [] OTHER -> now - SinceSeconds * TicksPerSecond

\* drainTerminalLogs builds its own request: no bound without a cursor.
DrainStartPoint(from) == IF IsZero(from) THEN NoTime ELSE Second(from.ts)

\* The kubelet answers with the log from line s, and streamConnection sets up
\* its filter and its counters. A follow request stays open while the
\* instance lives; any other ends after the lines there are.
Serve(s, follow) ==
  /\ start' = s /\ rd' = s
  /\ limit' = IF follow /\ phase = "running" THEN NoLimit ELSE Len(log)
  /\ mute' = FALSE /\ expired' = FALSE /\ draining' = ~follow
  /\ filter' = NewFilter(resume)
  /\ pending' = resume /\ delivered' = ZeroCursor
  /\ batch' = {} /\ cut' = {} /\ advanced' = FALSE
  /\ err' = "none"
  /\ origin' = IF IsZero(resume) THEN s ELSE origin
  /\ firstAsk' = IF firstAsk = 0 THEN s ELSE firstAsk
  /\ pc' = "reading"
  /\ UNCHANGED <<kubeletVars, registryVars, resume, backoff, abandoned, handed, torn>>

Open ==
  /\ pc = "connect" /\ ~cancelled
  /\ retryingSince' = NoTime
  /\ \E s \in base..(Len(log) + 1) :
       ServesFrom(s, StartPoint(resume)) /\ Serve(s, TRUE)

\* A failed connect: retryAfterConnectError up to its sleep. An attempt cut
\* off by its own lifetime is repeated at once and changes nothing.
OpenFails ==
  /\ pc = "connect"
  /\ "openfail" \in Env
  /\ retryingSince' = IF retryingSince = NoTime THEN now ELSE retryingSince
  /\ pc' = IF MaxElapsedTime > 0 /\ now - retryingSince' > MaxElapsedTime
             THEN "done" ELSE "connectWait"
  /\ abandoned' = IF pc' = "done" THEN "gaveup" ELSE abandoned
  /\ UNCHANGED <<resume, backoff, kubeletVars, registryVars, connVars, historyVars>>

\* Its SleepOrDone.
RetryConnect ==
  /\ pc = "connectWait"
  /\ \/ cancelled /\ pc' = "done" /\ UNCHANGED backoff
     \/ ~cancelled /\ pc' = "connect" /\ backoff' = NextBackoff(backoff)
  /\ UNCHANGED <<resume, retryingSince, abandoned, kubeletVars, registryVars, connVars, historyVars>>

\* Mutant of StopOnCancel: the sleep between two connections is not interrupted.
StopOnCancel_NotAsleep ==
  /\ pc = "connect" /\ cancelled
  /\ pc' = "done"
  /\ UNCHANGED <<loopVars, kubeletVars, registryVars, connVars, historyVars>>

\* The loop's own check, and SleepOrDone between two connections.
StopOnCancel ==
  /\ pc \in {"connect", "sleeping"} /\ cancelled
  /\ pc' = "done"
  /\ UNCHANGED <<loopVars, kubeletVars, registryVars, connVars, historyVars>>

WakeUp ==
  /\ pc = "sleeping" /\ ~cancelled
  /\ pc' = "connect"
  /\ UNCHANGED <<loopVars, kubeletVars, registryVars, connVars, historyVars>>

-----------------------------------------------------------------------------
(* logsReceiver.streamConnection                                           *)

\* connectionContext's deadline passes, at the latest before lifetimeReached
\* looks at it. The drain runs under the stream's own context, which has none.
Expire ==
  /\ HasLifetime /\ ~draining /\ ~expired
  /\ pc \in {"reading", "flushing", "ended"}
  /\ expired' = TRUE
  /\ UNCHANGED <<start, limit, mute, draining, kubeletVars, registryVars, streamVars, readVars, historyVars>>

GoMute ==
  /\ "mute" \in Env
  /\ pc = "reading" /\ ~mute /\ ~draining
  /\ mute' = TRUE
  /\ UNCHANGED <<start, limit, expired, draining, kubeletVars, registryVars, streamVars, readVars, historyVars>>

\* The line at rd reaches the loop's select: the filter drops it or the batch
\* takes it (appendLine). whole is FALSE for a fragment.
Take(whole) ==
  LET ts == Stamp(log[rd]) IN
  /\ filter' = AfterKeep(filter, ts)
  /\ rd' = rd + 1
  /\ \/ /\ Keep(filter, ts)
        /\ batch' = batch \cup {rd}
        /\ cut' = IF whole THEN cut ELSE cut \cup {rd}
        /\ pending' = Record(pending, ts)
        /\ advanced' = (advanced \/ Moves(pending, ts))
     \/ /\ ~Keep(filter, ts)
        /\ UNCHANGED <<batch, cut, pending, advanced>>
  /\ UNCHANGED <<delivered, loopVars,
                 kubeletVars, registryVars, requestVars, historyVars>>

Readable ==
  /\ pc = "reading"
  /\ rd <= Len(log) /\ (limit # NoLimit => rd <= limit)

Receive ==
  /\ Readable /\ ~mute
  /\ Take(TRUE)
  /\ pc' = IF Cardinality(batch') >= MaxBatch THEN "flushing" ELSE "reading"
  /\ UNCHANGED err

FlushTick ==
  /\ pc = "reading" /\ batch # {}
  /\ pc' = "flushing"
  /\ UNCHANGED <<loopVars, kubeletVars, registryVars, connVars, historyVars>>

\* Mutant of StreamEnds: what the batch holds when lineCh is closed is dropped.
StreamEnds_NoFlush(e) ==
  /\ pc = "reading"
  /\ err' = e
  /\ pc' = "ended"
  /\ batch' = {} /\ cut' = {}
  /\ UNCHANGED <<rd, filter, pending, advanced, delivered,
                 loopVars, kubeletVars, registryVars, requestVars, historyVars>>

\* lineCh is closed, for reason e; what the batch holds is still flushed.
StreamEnds(e) ==
  /\ pc = "reading"
  /\ err' = e
  /\ pc' = IF batch = {} THEN "ended" ELSE "flushing"
  /\ UNCHANGED <<rd, filter, pending, batch, cut, advanced, delivered,
                 loopVars, kubeletVars, registryVars, requestVars, historyVars>>

Eof == limit # NoLimit /\ rd > limit /\ ~mute /\ StreamEnds("eof")

\* A break in the middle of a timestamp leaves a record without a stamp, which
\* stands for no line and moves no cursor.
Broken ==
  /\ \/ "tear" \in Env /\ Readable
     \/ draining /\ "drainbreak" \in Env
     \/ ~draining /\ "break" \in Env
     \/ expired \/ cancelled
  /\ StreamEnds("broken")

\* bufio.Scanner calls the split function once more, with atEOF, on any read
\* error: the beginning of an unfinished line becomes a record of its own, here
\* with its timestamp (Broken has the shorter ones).
Tears ==
  /\ "tear" \in Env
  /\ Readable /\ ~mute
  /\ Take(FALSE)
  /\ err' = "broken"
  /\ pc' = IF batch' = {} THEN "ended" ELSE "flushing"

\* flush after consumeBatch answered batchDelivered or batchDropped: the
\* cursor moves past the batch and is published through advanceCursor.
Flushed ==
  /\ pc = "flushing"
  /\ handed' = handed \cup (batch \ cut)
  /\ torn' = torn \cup cut
  /\ delivered' = IF advanced THEN pending ELSE delivered
  /\ stored' = IF advanced THEN Advance(stored, pending) ELSE stored
  /\ batch' = {} /\ cut' = {} /\ advanced' = FALSE
  /\ pc' = IF err = "none" THEN "reading" ELSE "ended"
  /\ UNCHANGED <<rd, filter, pending, err, terminal, drained, cancelled, loopVars,
                 kubeletVars, requestVars, origin, firstAsk>>

FlushDelivered == batch \cap Poison = {} /\ Flushed

\* Mutant of FlushDropped: a permanent refusal is handled like a temporary one.
FlushDropped_Retries ==
  /\ pc = "flushing" /\ batch \cap Poison # {}
  /\ batch' = {} /\ cut' = {} /\ advanced' = FALSE
  /\ err' = "refused"
  /\ pc' = "ended"
  /\ UNCHANGED <<rd, filter, pending, delivered, loopVars,
                 kubeletVars, registryVars, requestVars, historyVars>>

FlushDropped == batch \cap Poison # {} /\ Flushed

\* Mutant of FlushRefused: the cursor of the refused batch is published.
FlushRefused_Publishes ==
  /\ pc = "flushing"
  /\ "refuse" \in Env \/ expired \/ cancelled
  /\ batch' = {} /\ cut' = {} /\ advanced' = FALSE
  /\ stored' = Advance(stored, pending)
  /\ err' = "refused"
  /\ pc' = "ended"
  /\ UNCHANGED <<rd, filter, pending, delivered, loopVars, terminal, drained, cancelled,
                 kubeletVars, requestVars, historyVars>>

\* batchRefused: a recoverable error, or the context ended while ConsumeLogs
\* was retrying. The batch is gone and the connection is given up.
FlushRefused ==
  /\ pc = "flushing"
  /\ "refuse" \in Env \/ expired \/ cancelled
  /\ batch' = {} /\ cut' = {} /\ advanced' = FALSE
  /\ err' = "refused"
  /\ pc' = "ended"
  /\ UNCHANGED <<rd, filter, pending, delivered, loopVars,
                 kubeletVars, registryVars, requestVars, historyVars>>

-----------------------------------------------------------------------------
(* containerStream.follow after consume, and the rest of run's iteration   *)

Recycled == expired /\ ~cancelled

\* Mutant of Settle: a connection's progress is stored but the loop resumes
\* from where that connection had begun.
Settle_KeepsResume ==
  /\ stored' = Advance(stored, delivered)
  /\ start' = 0 /\ limit' = NoLimit /\ rd' = 0
  /\ mute' = FALSE /\ expired' = FALSE /\ draining' = FALSE
  /\ filter' = NewFilter(ZeroCursor) /\ pending' = ZeroCursor /\ delivered' = ZeroCursor
  /\ batch' = {} /\ cut' = {} /\ advanced' = FALSE /\ err' = "none"
  /\ UNCHANGED <<resume, terminal, drained, cancelled, retryingSince, kubeletVars, historyVars>>

\* What follow makes of consume's result; the connection is closed.
Settle ==
  /\ resume' = IF IsZero(delivered) THEN resume ELSE delivered
  /\ stored' = Advance(stored, delivered)
  /\ start' = 0 /\ limit' = NoLimit /\ rd' = 0
  /\ mute' = FALSE /\ expired' = FALSE /\ draining' = FALSE
  /\ filter' = NewFilter(ZeroCursor) /\ pending' = ZeroCursor /\ delivered' = ZeroCursor
  /\ batch' = {} /\ cut' = {} /\ advanced' = FALSE /\ err' = "none"
  /\ UNCHANGED <<terminal, drained, cancelled, retryingSince, kubeletVars, historyVars>>

\* The container is not terminal: reconnect, at once after a recycle.
EndedReconnect ==
  /\ pc = "ended" /\ ~draining /\ ~terminal
  /\ Settle
  /\ backoff' = CASE After(resume', resume) -> InitialInterval
                  [] ~After(resume', resume) /\ ~Recycled -> NextBackoff(backoff)
                  [] OTHER -> backoff
  /\ pc' = IF Recycled THEN "connect" ELSE "sleeping"
  /\ UNCHANGED abandoned

\* Mutant of EndedTerminal: a broken connection to an ended container is the end.
EndedTerminal_NoDrain ==
  /\ pc = "ended" /\ ~draining /\ terminal
  /\ Settle
  /\ pc' = "done"
  /\ UNCHANGED <<backoff, abandoned>>

\* Terminal, and the connection ended in an error: one more read, without
\* follow. After a clean end of file nothing more is read, even if the file was
\* that of an earlier instance than the one that ended.
EndedTerminal ==
  /\ pc = "ended" /\ ~draining /\ terminal
  /\ Settle
  /\ pc' = IF err = "eof" THEN "done" ELSE "drainOpen"
  /\ abandoned' = IF err = "eof" /\ limit < Len(log) THEN "instance" ELSE abandoned
  /\ UNCHANGED backoff

DrainOpen ==
  /\ pc = "drainOpen" /\ ~cancelled
  /\ \E s \in base..(Len(log) + 1) :
       ServesFrom(s, DrainStartPoint(resume)) /\ Serve(s, FALSE)
  /\ UNCHANGED retryingSince

DrainOpenFails ==
  /\ pc = "drainOpen"
  /\ "openfail" \in Env \/ cancelled
  /\ pc' = "done" /\ abandoned' = "drain"
  /\ UNCHANGED <<resume, backoff, retryingSince, kubeletVars, registryVars, connVars, historyVars>>

\* drainTerminalLogs ignores how its read ended.
EndedDrain ==
  /\ pc = "ended" /\ draining
  /\ Settle
  /\ pc' = "done"
  /\ abandoned' = IF err = "eof" THEN abandoned ELSE "drain"
  /\ UNCHANGED backoff

-----------------------------------------------------------------------------
Container == Write \/ WriteChunk \/ Tick \/ Crash \/ Exit \/ StartInstance \/ Rotate

Receiver == MarkTerminal \/ Cancel \/ StartStream \/ ReleaseStream

Connect == Open \/ OpenFails \/ RetryConnect \/ StopOnCancel \/ WakeUp \/ DrainOpen \/ DrainOpenFails

Read == Expire \/ GoMute \/ Receive \/ FlushTick \/ Eof \/ Broken \/ Tears

Finish ==
  FlushDelivered \/ FlushDropped \/ FlushRefused \/ EndedReconnect \/ EndedTerminal \/ EndedDrain

Next == Container \/ Receiver \/ Connect \/ Read \/ Finish

Spec == Init /\ [][Next]_vars

\* The stream's goroutine keeps running, its timers fire, resyncs keep
\* coming and the kubelet reports a container's end; connects, the read of
\* any one line and the pipeline do not fail for ever.
Fairness ==
  /\ WF_vars(Tick) /\ WF_vars(StartInstance) /\ WF_vars(MarkTerminal)
  /\ WF_vars(StartStream) /\ WF_vars(ReleaseStream)
  /\ WF_vars(RetryConnect) /\ WF_vars(StopOnCancel) /\ WF_vars(WakeUp)
  /\ SF_vars(Open) /\ WF_vars(DrainOpen \/ DrainOpenFails)
  /\ WF_vars(Expire)
  /\ \A i \in 1..MaxLines : SF_vars(rd = i /\ Receive)
  /\ WF_vars(FlushTick) /\ WF_vars(Eof)
  /\ WF_vars((expired \/ cancelled) /\ Broken)
  /\ SF_vars(FlushDelivered \/ FlushDropped)
  /\ WF_vars(EndedReconnect \/ EndedTerminal \/ EndedDrain)

LiveSpec == Spec /\ Fairness

-----------------------------------------------------------------------------
(* Properties                                                              *)

\* A line the kubelet still serves and since_seconds did not exclude.
Wanted(i) == i \in base..Len(log) /\ i >= origin

\* Whatever the stored cursor claims has reached the pipeline: resuming from
\* it, in this process or after a restart, skips nothing. This is what lets
\* Filter.Keep drop the overlap a reconnect is re-served.
NoGap ==
  \A i \in 1..Len(log) : Wanted(i) /\ Covered(log[i], stored) => i \in handed \cup torn

\* Stated on the unflushed batch: no stamped record waits to be delivered a
\* second time, however connections broke, were refused or were recycled
\* ("A healthy reconnect therefore delivers no duplicates at all").
NoDuplicates == \A i \in batch : IsHead(log[i]) => i \notin handed

\* While no connection is open, the cursor a replacement stream would resume
\* from is the one this stream would resume from, the final drain included.
ResumeIsStored ==
  pc \in {"connect", "connectWait", "sleeping", "drainOpen", "done"} => resume = stored

\* Once a connection's end of file has been handled, every line there was when
\* the kubelet closed it has reached the pipeline: follow treats such an end of
\* a terminal container as the end of its log and reads no more.
CleanEndIsComplete ==
  pc = "ended" /\ err = "eof" => \A i \in 1..limit : Wanted(i) => i \in handed \cup torn

\* A container recorded in drainedContainers is never read again, so by then
\* every line it still has must have been read.
DrainedComplete ==
  drained /\ ~cancelled => \A i \in 1..Len(log) : Wanted(i) => i \in handed \cup torn

\* So they have, through every break, refusal and recycle of the connections
\* that follow the log, unless the stream stopped for one of the Reasons: it gave
\* up connecting, the one read of drainTerminalLogs failed, or the end of file
\* was an earlier instance's. Even then the lines it leaves are none that the
\* cursor claims, so a restart that finds the container again still reads them.
DrainedIsReadOut ==
  drained /\ ~cancelled =>
    \A i \in 1..Len(log) :
      Wanted(i) => \/ i \in handed \cup torn
                   \/ abandoned # "no" /\ ~Covered(log[i], stored)

\* A reconnect re-reads what was not delivered: from the first request on, no
\* line is skipped while the cursor passes it.
NothingSkippedSinceFirstRead ==
  \A i \in 1..Len(log) :
    i >= base /\ firstAsk > 0 /\ i >= firstAsk /\ Covered(log[i], stored) => i \in handed \cup torn

\* A line reaches the pipeline whole before the cursor moves past it.
NoTornLines ==
  \A i \in 1..Len(log) : Wanted(i) /\ Covered(log[i], stored) => i \in handed

\* The stream as Delivery sees it: the cursor is the set of lines it claims.
Abstract ==
  INSTANCE Delivery WITH
    written <- Len(log),
    stamped <- {i \in 1..Len(log) : IsHead(log[i])},
    lost <- 1..(base - 1),
    excluded <- 1..(origin - 1),
    offer <- batch,
    got <- handed \cup torn,
    claimed <- {i \in 1..Len(log) : Covered(log[i], stored)}

\* The stream implements the abstract delivery: every step of the loop, the
\* kubelet and the pipeline is one of its steps or changes nothing it sees.
Delivers == Abstract!Spec

\* Every line that stays readable long enough is handed over, through broken,
\* mute, refused and permanently refused deliveries and attempts that were given
\* up, unless the container ends and its stream stopped for one of the Reasons.
EveryLineHanded ==
  \A i \in 1..MaxLines :
    (i \in 1..Len(log) /\ Wanted(i) /\ firstAsk > 0) ~> ((i \in handed \cup torn) \/ i < base \/ (drained /\ abandoned # "no") \/ cancelled)

\* Shutdown ends the stream's goroutine, wherever it is.
StopsWhenCancelled == cancelled ~> (pc = "idle")

\* The stream of a container that ended for good comes to rest and is not opened
\* again, also after attempts that were given up; what it read by then is
\* DrainedIsReadOut's.
TerminalIsDrained == terminal ~> ((drained /\ pc = "idle") \/ cancelled)
=============================================================================
