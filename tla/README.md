# Verification of k8spodlogreceiver

TLA+ models of the receiver that follows the logs of Kubernetes pods through the
API server, TLC configurations that check them on small instances, and TLAPS
proofs of the main safety properties for every instance.

## 1. The system

The receiver watches pods through informers, runs one goroutine per container
that follows the container's log, turns lines into log records, hands them in
batches to the next consumer of the pipeline, and remembers in a *cursor* how
far each container was delivered, so that a reconnect or a restart resumes
without gaps and, where it can, without duplicates.

| component | source | state | operations |
|---|---|---|---|
| cursor arithmetic | `internal/cursor/cursor.go`, `filter.go` | a timestamp and a count of records at it; a filter's remaining skip | `Record`, `After`, `NewFilter`, `Keep` |
| container stream | `stream.go`, `internal/retry` | resume cursor, backoff, start of the failing period | `run`, `open`, `streamStartPoint`, `retryAfterConnectError`, `follow`, `drainTerminalLogs` |
| connection | `receiver.go` `streamConnection`, `consumeBatch` | reader goroutine, `lineCh`, `done`, filter, batch, pending and delivered cursors | scan, send, receive, tick, flush, the three batch outcomes, close |
| stream registry | `receiver.go` | `activeStreams`, `terminatedContainers`, `drainedContainers`, `restartCounts` under `r.mu` | `onPodAdded`, `OnUpdate`, `onPodDeleted`, `markContainerStates`, `ensureStreams`, `advanceCursor`, `releaseStream`, `pruneStaleCursors` |
| cursor store | `internal/cursor/store.go` | `cursors`, `lastSeenPods`, the stored value | `Load`, `Get`, `Advance`, `Forget`, `MarkPodSeen`, `Prune`, `Flush`, `Close` |
| life cycle | `receiver.go` `Start`, `Shutdown` | the run context, the wait group and the goroutines it counts, the storage client | open, load, build, start and its failures, cancel, wait, last flush, close |
| pod discovery | `internal/poddiscovery` | informers and their caches | `Start`; add, update, delete and tombstone callbacks, resync |
| line scanner | `internal/logline` | scanner buffer, `skipping` | `SplitFunc`, `Scan`, `Line` |
| pipeline retry | `internal/consumerretry` | the batch, the elapsed time | `ConsumeLogs` with backoff |
| configuration, client, generated telemetry | `config.go`, `factory.go`, `internal/k8sconfig`, `internal/metadata` | none | not modelled: plain values and I/O |

How they interact. Informer callbacks run one at a time and call into the
registry; `ensureStreams` starts a stream goroutine with a fresh *generation*;
the goroutine reads its cursor from the store, opens connections, and after
every delivered batch publishes its cursor through `advanceCursor`, which is
fenced by the generation; when it ends, a deferred `releaseStream` takes its
entry out, if it is still its own. A pruner goroutine expires cursors of pods
nobody reported for two hours, first in the store and then, under `r.mu`, in the
registry. Within a connection a reader goroutine scans lines into a channel while
the loop batches them and calls the pipeline, which may block in retries. A flusher goroutine writes the set of cursors every interval;
`Shutdown` cancels, waits for everyone and writes once more.

What is hard here: a stream that unwinds while its container already has a
replacement; a delete that races a last batch; an end of file that may or may
not be the container's end; resuming inside a second, and inside an instant,
with nothing but timestamps; recycled, mute, broken and refused connections in
the middle of a batch; a kill between delivering and saving; time-based expiry
against resync. `PROJECT.json` lists these hazards line by line.

## 2. The modules

| module | models | proofs |
|---|---|---|
| `Cursor` | `Cursor`, `Filter`, `Store.Advance` on one entry, as operators | used by the next |
| `ContainerStream` | one container's stream with its connection, the kubelet that serves the log and the pipeline | `ContainerStreamProofs` |
| `Delivery` | the abstract promise of a container's stream; `ContainerStream` and `Connection` implement it | `DeliveryProofs`, `ConnectionProofs` |
| `ConsumerRetry` | one call of `ConsumeLogs`, composed into the next | with the next |
| `Connection` | `streamConnection` goroutine by goroutine, over many connections | `ConnectionProofs` |
| `Scanner` | `SplitFunc` under `bufio.Scanner` | `ScannerProofs`, `ScannerRecordProofs` |
| `StreamRegistry` (`MCStreamRegistry` for TLC) | the registry under `r.mu`, the event handler, stream goroutines by generation, the pruner, the informer of one pod name | `StreamRegistryProofs` |
| `CursorStore` | the store over starts, kills, stops and restarts of the collector | `CursorStoreProofs` |
| `Lifecycle` | `Start`, `Discovery.Start`, `Shutdown`, the wait group | `LifecycleProofs` |

The modules overlap on purpose: each keeps one aspect whole and reduces the
others to what that aspect depends on. `Connection` has the goroutines that
`ContainerStream` folds into `Receive`, and a cursor that is just a number, where
`ContainerStream` has the real one; `Lifecycle` has the wait group around the
handlers and streams whose bookkeeping is in `StreamRegistry`.

### ContainerStream

`pc` follows `containerStream.run`: `connect`, `connectWait`
(`retryAfterConnectError`'s sleep), `reading` and `flushing` inside
`streamConnection`, `ended` (consume returned), `drainOpen` (the final read of a
terminal container, whose own read is `reading` with `draining`), `sleeping`,
`done`, and `idle` when `releaseStream` has run and the next pod event may start
it again. `resume`, `backoff`, `retryingSince` are the loop's variables; `filter`,
`pending`, `batch`, `advanced`, `delivered` are `streamConnection`'s. A record is
the index of its line in `log`; a line has the kubelet's stamp, its `rank` among
the lines of that stamp and a `chunk` number, because a line longer than
`max_log_size` is split and only its head carries a timestamp. What the cursor
claims about a line is `Covered`.

* `Second` is the truncation of `SinceTime` to whole seconds on the wire: this is
  what makes the kubelet re-serve lines and the filter necessary.
* The reader goroutine and `lineCh` are folded into `Receive`: everything scanned
  is consumed, in order, before the end of the connection is seen, which is what
  `Connection` shows (`CleanEndIsComplete` there). `Expire` is
  the per-connection deadline, `Cancel` the parent context; either may break the
  read or turn a flush into a refusal. A deadline that passes after `consume`
  returned still counts as the connection's lifetime (`lifetimeReached`).
* `Tears` is `bufio.Scanner`'s last call of the split function with `atEOF` after
  any read error, which makes a record of an unfinished line. A fragment cut inside
  its timestamp has no stamp: the record is delivered, but the cursor does not move
  and the line is read again whole; that is the second way for `Broken` to end a read.
* `FlushDropped` is a permanent error of the pipeline (a batch that contains a
  `Poison` line), `FlushRefused` every other one; `Connection` has the retries
  behind them.
* `abandoned` records why a stream stopped before the end of the log (`Reasons`): it
  gave up connecting, its one final read failed, or it took the end of file of an
  earlier instance for that of the last; no action reads it.
* The backoff ladder is counted in rungs. Jitter is nondeterminism in when a
  timer fires.

Assumptions about the outside: the clock does not go back, so stamps do not
decrease; rotation keeps or discards the lines of one stamp together; an
instance's successor writes with later stamps. The first two are limits of what
the theorems say, see section 5.

### Delivery

Lines are written, may be lost to rotation, are offered in order, and are taken
or refused; `claimed` is what the position to resume from declares done. The
promise is in the actions: a claim never covers a line that is neither `got` nor
`lost` nor `excluded`, never shrinks, and a stamped line that got through is not
offered again. Where delivery begins may only be decided while nothing is
claimed. `ContainerStream` implements it under the mapping of `Abstract`, in which
the stored cursor becomes the set of lines it covers. `Connection` implements it
too, with a log that was written before: there `got` is `settled`, what a call that
succeeded took or one that ended in a permanent error refused, so that the part
taken by a call that failed in the end is no delivery and may come again.

### Connection and ConsumerRetry

`reader` is the goroutine, `sent` and `taken` are the two ends of `lineCh`, `loop`
is `streamConnection`'s select. `Send` needs room in the channel, `SendAborted` is
its `done` branch; a `Read` that gets no data ends only when the peer ends it, the
stream is closed or its context is done (`ScanEnds`), all of which may overlap.
`PeerEnds("eof")` chooses the line after which the kubelet closes. `call` is
`ConsumeLogs` under `flush`: an attempt is taken, refused for good, refused for
now, or taken in part with the rest in a `consumererror.Logs`; `BackOff` and the
two ends of the wait follow the code. With `retry_on_failure` disabled every
recoverable error is final. A pipeline that takes part of a batch *without* saying
so in its error is left out: nothing in the receiver could see it. A delay is at
least one unit, so a limited retry ends. When timer and context are both ready the
select chooses at random; the model lets the timer win only before the context is
done, which is the same as far as anything else can tell. The model opens the next
connection after the last reader has gone: readers share nothing, and `ReaderExits`
shows they go. They are not in the wait group, so `Shutdown` does not wait for them.

### Scanner

`Split` is one round of `Scan`: it offers the buffer to the split function, emits
the token or reads on, and after an error it is over as soon as there is no token.
`Read` delivers any number of bytes that fit, and possibly an error with them.
A byte is ordinary, a carriage return, a newline, or a `Stamp`, which stands for
the kubelet's whole timestamp and the space after it; a `max_log_size` smaller than
a timestamp is therefore not covered. `Starts` and `RecordAt` say which records a
text has without mentioning buffers, reads or state.

### Lifecycle

`phase` follows `Start` and then `Shutdown`, which the collector calls after `Start`
returned, with or without an error, or without having called it. `running` is the
set of goroutines that have not called `wg.Done`, `wg` the counter. The informers
are started one by one, and the first may report pods before the last runs
(`StartInformer`, `StartReporter`). A handler
registers a stream under the lock (`Register`) and adds it to the wait group after
the unlock (`Launch`), with anything in between. Handlers run, and even begin,
after the context is cancelled; an informer's `RunWithContext` returns only when its
handler has (client-go waits for its processor). Several informers may report the
same pods (a namespace listed twice). A write that fails is in `CursorStore`, except for the periodic one.

### StreamRegistry

One action is one section under `r.mu` (or under the store's lock): whatever the
code does between an unlock and the next lock may be interleaved with everyone
else. `Pods` are the UIDs that one pod *name* goes through, because informers
cache by name and the registry keys by UID. The informer is external: a queue of
undelivered events, a cache, a watch that may break, a re-listing that turns a
missing pod into a tombstone and a changed UID into an update, and that may be
stale. The event handler is `hpc`, the goroutine of generation `g` is `spc[g]`;
`publish` is the gap between a delivery and `advanceCursor`, `releasing` the gap
before the deferred `releaseStream`. `recordActiveStreams` takes two actions, as
it counts under the lock and records outside it. A cursor is a number of records
here; `ContainerStream` has the real one. A container is waiting, running or ended
(`Statuses`): how `containerIsTerminal` reads that out of the restart policy, the
exit code and the kind of container is not translated, *ended* is what it answers
true for. `PruneStore` may expire any pod, the cached one too, which
`pod_resync_period: 0` allows.

### CursorStore

One container per pod, so a key is a UID. `lastSeenPods` holds ages instead of
times. Pods are reported one at a time (`Report`), and the process flushes, expires and
may stop or be killed before the first listing is complete, as `Start` does not wait
for it. `Load` yields the stored set, or nothing after any failure
(`"unreadable"`); a write that fails is `"storefail"`. The periodic
`Flush` takes a snapshot under the lock and writes it later; the last one follows
`wg.Wait`, so no stream is reading and no periodic flush is under way. The
storage extension's `Set` is taken to be atomic. `Kill` may happen at any point.
`handed` is the history of what the pipeline got.

## 3. The runs

Runs that pass:

| run | checks | shows |
|---|---|---|
| `stream_faults` | `TypeOK`, `NoGap`, `NoDuplicates`, `ResumeIsStored`, `CleanEndIsComplete`, `DrainedIsReadOut`, `Delivers` | splits, crashes, rotation, breaks, torn lines, recycles, failed connects, attempts that are given up, refusals, a poison record, shutdown, all at once: what the stored cursor claims was handed over, no stamped record is in a batch a second time, the published cursor is where the stream would resume, a clean end leaves nothing behind; a container recorded as drained was read to its last line, or its stream stopped for one of the `Reasons` and what it left is not claimed by the cursor; together, the stream implements `Delivery` |
| `stream_live` | `EveryLineHanded`, `StopsWhenCancelled`, `TerminalIsDrained` | a readable line is handed over in the end, past broken and mute connections, attempts that were given up, refusals and a poison record; the stream of an ended container comes to rest; shutdown ends the stream |
| `connection_faults` | `AnswerIsTrue`, `NothingSentTwice`, `CursorIsHonest`, `DuplicatesAreOwed`, `CleanEndIsComplete`, `Delivers`, `ReaderExits`, `CancelReturns`, `FlushReturns` | the cursor claims only what the pipeline took or refused for good, through partly accepted batches; what is offered twice was taken by a call that failed in the end; an end is reported after everything in `lineCh` and the batch; readers, flushes and cancelled connections end; together, the connections implement `Delivery` |
| `scanner_streams` | `RecordsAsDefined`, `RecordsFit`, `NeverTooLong`, `OneStampPerLine` | records are what the text defines, however the bytes arrive, but for a bounded tail in truncate mode; no record is too long or spans lines; `bufio.ErrTooLong` cannot happen; one stamped record per line, which is what the cursor counts, and one per piece that looks like a line |
| `registry_faults` | `TypeOK`, `EveryStreamTracked`, `ActiveIsRunning`, `NoResurrection`, `DrainedIsOver` | generations do their work: no stream loses its entry to a predecessor, no entry outlives its stream, no deleted pod gets its cursor back, only ended containers are given up on |
| `registry_live` | `StoppedWhenDeleted`, `EveryContainerStreamed`, `GaugeRecovers` | deletes, told or inferred, leave no stream; a started container is streamed, also after its stream gave up; a late count does not stick to the gauge while there is a pod to resync |
| `store_faults` | `NothingSkipped`, `StopSavesEverything`, `CachedPodIsRemembered`, `ReportedCursorsExpire` | a kill anywhere costs a re-read and never a gap; a clean stop saves the last record; expiry hits what vanished and nothing that is cached |
| `lifecycle_stops` | `NothingRunsAfterWait`, `AddNeverFromZero`, `LastFlushHoldsAll`, `OneStreamPerContainer`, `ShutdownReturns` | a handler that starts a stream during shutdown is waited for and so is its stream; the last write holds the last cursor, also after a `Start` that failed; overlapping informers start one stream per container; `Shutdown` returns |

Runs that show a disagreement between a doc or a comment and the code:

| run | property | what happens |
|---|---|---|
| `stream_drain_refused` | `DrainedComplete` | a batch refused *for now* during `drainTerminalLogs` is discarded, and the container recorded as drained |
| `stream_first_batch` | `NothingSkippedSinceFirstRead` | without a cursor each reconnect evaluates `since_seconds` afresh; a refused first batch falls out of the window |
| `stream_torn` | `NoTornLines` | the fragment of a broken read counts as the line; the whole line is filtered out after the reconnect |
| `registry_recreated` | `StoppedWhenDeleted` | a pod replaced under its name during a watch gap arrives as an update: the old UID's stream is never stopped |

`stream_first_batch` concerns the defaults too: `since_seconds` is 300 unless set.

Observations that have no run of their own:

* A container's stream that gave up connecting (`max_elapsed_time`) is recorded as
  drained if the container ended meanwhile, although `receiver.go:279-281` says it
  must be revived. `DrainedComplete` fails with `MaxElapsedTime = 1`, `"exit"` and
  `"openfail"`; `DrainedIsReadOut` allows it (reason `"gaveup"`, which both
  `stream_faults` and `stream_live` reach).
* With `"crash"` it fails as well: the end of file of an earlier instance may be
  taken for that of the last, whose lines are then never read (reason `"instance"`,
  reached in `stream_faults`).
* A record may also be delivered twice when the pipeline takes part of a batch and
  the call fails in the end: the cursor stays before the whole batch. `README.md:303-307`
  does not list this among the sources of duplicates; `DuplicatesAreOwed` shows that
  in `Connection` it is the only one.
* Between the pruner's two halves a pod may be reported again; the second half then
  drops the terminal mark that report set, until the next event brings it back.
* `drainTerminalLogs` sends no bound while the cursor is zero, so with
  `since_seconds: 0` a container that ends before its first delivered line has its
  whole history forwarded.
* `restartCounts` entries of deleted pods are never dropped: `onPodDeleted` forgets
  the cursor, which leaves `Prune` no key to return to `pruneStaleCursors`.
* A restored cursor of a pod that was deleted while the collector was down has no
  `lastSeenPods` entry and never expires, although the comment of `Store.Prune`
  names this very case. `ReportedCursorsExpire` is what remains.
* `CachedPodIsRemembered` fails in `store_faults`' configuration with
  `ResyncPeriod = 0`.
* `StorageMovesForward` fails there as it stands: a `Load` that cannot read or
  decode the stored value only warns, and the next `Flush` overwrites that value.
  Without `"unreadable"` it holds (section 4).
* In truncate mode the end of an oversized line yields no token, so `Scan` reads on
  even if whole lines are buffered: they wait for the next bytes. If an error came
  with the last bytes, `Scan` is over and discards them; they were never delivered,
  so after an error a reconnect reads them again, but after an end of file of a
  terminal container nothing does. `RecordsAsDefined` and `OneStampPerLine` bound the
  loss: it happens in this case only, and only to records that begin in the last
  `max_log_size` bytes.
* A line of exactly `max_log_size` bytes counts as oversized when its newline has
  not been read along: it is cut there, and in split mode an empty record without a
  stamp follows. A carriage return at that place stays.
* A continuation chunk that begins with a timestamp and a space is parsed like the
  head of a line: those bytes are cut off and the cursor moves. `README.md:303-305`
  says only the first chunk carries the timestamp. `OneStampPerLine` counts exactly
  these pieces beside the lines.

### Bounds

* `ContainerStream`: 3 lines and 4 ticks with 2 ticks per second and batches of 2
  allow two lines in one instant split over two batches, an instant and a second
  boundary between lines, a filter that skips and then keeps, a rotated or crashed
  log in front of a line, and every fault in between. `MaxLines` and `MaxTime`
  bound the environment only; connections, reconnects and faults are unbounded.
  `MaxElapsedTime = 1` in both passing runs, so that failing connects are given up
  within the time there is. `stream_live` has no crashes: with them its liveness
  check takes too long, and `stream_faults` has them.
* `StreamRegistry`: two UIDs of one name, one container, two generations: a
  stream and its replacement, which is what generations tell apart.
  `registry_live` has three generations and the gauge. `MaxQueue = 1` undelivered
  event beside the one being handled.
* `CursorStore`: two pods, two records, `StaleAfter = 2`, `ResyncPeriod = 1`;
  kills, restarts and flushes are unbounded.
* `Connection`: four lines, batches and channel of two: a channel that is full while
  the loop is in a flush with a full batch, a batch taken in part, a reconnect
  into the middle of what was delivered. Connections and attempts are unbounded.
* `Scanner`: all streams of up to seven bytes, with a size limit of 1, 2 or 3: an
  oversized line of three records with another line on either side of it.
* `Lifecycle`: two informers that report one container, three streams of it; one
  cursor to publish is enough to tell what was written before it from what was
  written after.

`CHECK_DEADLOCK FALSE` where the bounds on lines, time, or generations stop the
environment, and where the modelled thing is over for good (a shut down receiver, a
finished stream, an ended scanner). Symmetry (of UIDs and of containers) is used in `registry_faults`
only, which checks invariants.

### Fairness

* `ContainerStream`: weak fairness for what the stream's goroutine does by itself
  and for timers (`WakeUp`, `RetryConnect`, `Expire`, `FlushTick`, the end of a
  connection whose context is done), for resyncs (`StartStream`) and for the
  report of a container's end. Strong fairness for connecting, for reading any one
  line and for a flush that succeeds: the peer and the pipeline fail as often as
  they like, but not for ever; without that nothing could be promised. Nothing
  makes `Broken`, `OpenFails`, `FlushRefused` or `GoMute` happen; a mute connection
  is ended by its lifetime, which is why `stream_live` has one.
* `StreamRegistry`: weak fairness for the handler, the goroutines, resync and the
  pruner's second half; a re-listing is not stale for ever. No fairness makes a
  stream give up or a pod disappear. A running stream must end only when it is
  cancelled or its container ended, which is what `ContainerStream` shows
  (`StopsWhenCancelled`, `TerminalIsDrained`).
* `CursorStore`: the collector is started when it is down, tickers tick, streams
  stop when told. No fairness for kills, stops or deletes.
* `Connection`: weak fairness for the reader's sends and its end, for the loop, for
  `Close` and for the pipeline, which answers every attempt. None for a line to
  arrive, for an attempt to succeed, or for another connection.
* `Lifecycle`: weak fairness for the goroutines. A stream must end only once it is
  cancelled. Strong fairness for the flusher's end, as its select may find its
  ticker and the context ready at once and chooses at random.

## 4. The theorems

All theorems hold for every value of the constants that satisfies the named
assumptions of the modules, that is for any number of lines, pods, containers,
generations and records, and for any subset of the environment's events.

**`ContainerStreamProofs`.** `TypeCorrect`, `CursorIsPublished` (`ResumeIsStored`),
`CursorSkipsNothing` (`NoGap`), `CursorRepeatsNothing` (`NoDuplicates`). Neither
of the last two is inductive: `NoGap` speaks of the stored cursor only, and a
flush moves it to `pending`. The inductive invariant says where the connection is:
the log's stamps and ranks are ordered and consecutive (so a cursor's count
is a position in its instant); everything before the connection's read position
is either claimed by the cursor it began with, or in the batch, or handed over
before; the filter's remaining skip is the number of lines of the cursor's instant
still to come; `pending` stands exactly at the last stamped line taken; and the
stored cursor, the loop's `resume` and the connection's `delivered` agree. Per
action the proof shows which of these parts it can disturb. `CleanEndsAreComplete`
(`CleanEndIsComplete`) follows from the same invariant. `DrainedContainersAreReadOut`
(`DrainedIsReadOut`) says that a drained container was read out, through any faults
and restarts of the container, unless the receiver shuts down or its stream stopped
for one of the `Reasons`; the lines it left then are none the cursor claims, which is
`NoGap` again. It needs `DrainInv`: a clean end of the last instance's log, or of the
final read, has left every wanted line handed over, and stays so until the container
is recorded as drained, because a container that has ended writes nothing. That the
exceptions do lose lines is what `stream_drain_refused` and section 3 show.

**`DeliveryProofs`.** `Implements` (`Delivers`): the initial states map to initial
states, and under the invariant above every action maps to a step of `Delivery` or
to a stutter. The interesting ones are `Receive` (an offer, ordered and not yet
delivered), the flushes (a delivery whose new claim is covered, a refusal), and
`Open` (the choice of where to begin, possible only while nothing is claimed).

**`ConnectionProofs`.** `TypeCorrect`, `AnswersAreTrue` (`AnswerIsTrue`),
`RetriesAreDisjoint` (`NothingSentTwice`), `CursorsAreHonest` (`CursorIsHonest`),
`DuplicatesAreExplained` (`DuplicatesAreOwed`), `CleanEndsAreComplete`
(`CleanEndIsComplete`). The inductive invariant ties the goroutines together: the
channel's ends are in order and within the connection's limit; the batch is what
was taken beyond the cursor and ends at `pending`; what a call has taken and what it
still has to send partition the batch; beyond the cursor, only what is owed was
handed over; a reader that reported an end of file had sent every line.
`ConnectionsDeliver` (`Delivers`) is the refinement: under this invariant the settled
lines are exactly `1..resume`, so receiving a line is an offer of one that is neither
settled nor offered, the end of a flush that moves the cursor is a delivery whose
claim is covered, the end of any other flush is a refusal, and
everything else, the reader's steps and the retries included, is a stutter.

**`ScannerProofs`.** `TypeCorrect`, `ScanNeverFails` (`NeverTooLong`),
`RecordsAreBounded` (`RecordsFit`), for every size limit and stream, from a lemma
about `SplitFunc` on any buffer: it takes no more than there is, what it cuts out
fits and has no newline, and it asks for more only if there is room.

**`ScannerRecordProofs`.** `RecordsAreTheTexts` (`RecordsAsDefined`) and
`StampsCountLines` (`OneStampPerLine`). The invariant `RInv` counts by *taken*, the
bytes that left the buffer: the buffer is what was read behind them; there are as many
tokens as records that begin among them, and the token at a record's place is that
record (`TokensOK`); and the buffer begins where a record does, or inside the line
that truncate mode is skipping (`AtBoundary`). Around it are the lemmas about the
text: where the next record starts after a newline or after a full piece
(`NextStart`), that the place of a record in the list is the number of starts up to
it (`Places`, `PlaceOfNext`), and what `SplitFunc` does to any buffer, case by case
(`SplitCases`). No induction over the stream is needed: each round adds one record, so
the induction is that of the invariant over steps. What truncate mode may discard
with an error that comes together with bytes is part of the statement: the text up to
some byte, at most `max_log_size` before the end, has all its records and stamps.

**`LifecycleProofs`.** `TypeCorrect`, `WaitIsEnough` (`NothingRunsAfterWait`),
`AddsAreCounted` (`AddNeverFromZero`), `LastFlushIsLast` (`LastFlushHoldsAll`),
`FailedStartIsClean` (`FailedStartRunsNothing`), `StreamsAreUnique`
(`OneStreamPerContainer`). The core of the invariant is that the counter equals the
number of running goroutines, so a wait that returns proves there are none; with it,
that a handler in the middle of a registration belongs to a running informer, that
every entry belongs to a running stream or to such a handler, that a snapshot is the
running flusher's, and what each phase of `Start` and `Shutdown` has done.

**`StreamRegistryProofs`.** `TypeCorrect`, `NoStreamEscapes`
(`EveryStreamTracked`), `NoEntryIsOrphaned` (`ActiveIsRunning`),
`DeletedStaysForgotten` (`NoResurrection`), `DrainedContainersEnded`
(`DrainedIsOver`). The strengthening `IInv` links entries and goroutines in both
directions and adds that generations beyond `nextStreamGen` are unused, that the
handler's remaining containers belong to the pod of its event, and that a pod
that is `gone` has no entry at all (so the fence of `advanceCursor` rejects
whatever its streams still publish). `DeletedPodsStopped` (`StoppedWhenDeleted`)
assumes that pod names are not reused or that watches do not break
(`"recreate" \notin Env \/ "watch" \notin Env`): with both it is false, which
`registry_recreated` shows. Its invariant `StopInv` follows the events: a pod the
informer's cache does not hold has no entry, or its delete is in the queue with no
news of it behind, or is being handled (`Followed`); and a watching informer's cache
is the cluster (`CacheOK`).

**`CursorStoreProofs`.** `TypeCorrect` and `RestartSkipsNothing`
(`NothingSkipped`): cursors, snapshot, disk and positions all stay behind what was
handed over. `StopSaves` (`StopSavesEverything`) and `CachedPodsAreKept`
(`CachedPodIsRemembered`) assume `ResyncPeriod \in 1..StaleAfter`, which the
defaults satisfy and a disabled resync does not; they rest on `Refreshed` (the
age of a cached pod is at most the time since the last resync, and a pod that exists
and was not reported yet has no age, so the pruner takes the cursor of neither), `Published` (an existing container's
stored cursor is behind its stream only until the stream publishes, and the last
snapshot is taken when all have) and `Fresh` (UIDs are not reused and nothing of a
process survives it but the stored value). `StorageNeverGoesBack`
(`StorageMovesForward`, an action property) says that no write takes the stored cursor
of an existing pod back. It assumes the same and that the stored value can be read.
The invariant `Forward` orders the three copies, storage before the snapshot in flight
before memory, and needs `Refreshed` as expiry would break it.

Only model-checked: everything with `~>` (liveness under fairness is out of
TLAPS's reach), and of course the violations. Every invariant that a passing run
checks is a theorem, and so are both refinements. Only proved, and in no run: the types
of `Connection`, `Scanner`, `Lifecycle` and `CursorStore`, `FailedStartRunsNothing`, and
`StorageMovesForward`.

## 5. Not modelled

* Lines whose stamps go back, and rotation inside one instant. The filter then
  drops records it has not delivered (`filter.go:52`, `filter.go:57`); `NoGap` and
  `Delivers` are about logs in order.
* JSON encoding of the stored set and the older bare-timestamp format of a cursor;
  the storage extension's own atomicity.
* Record and resource attributes, counters and logs. The restart count a record is
  labelled with is read when its connection is opened, so it may be an old one.
* The length of waits: only the rung of the backoff ladder and that a wait ends.
* Validation and defaults of the configuration, and the construction of the
  Kubernetes client: plain values and I/O. What `Validate` guarantees is assumed of
  the constants.
* Objects an informer delivers that are not pods; `trimPod`; the label selector.

## 6. Plan

Done: `Cursor`, `ContainerStream`, `StreamRegistry`, `CursorStore`, each with its
proofs; `Delivery` with the refinement; `Connection` with `ConsumerRetry`, `Scanner`
and `Lifecycle`, each with its proofs.

Left:

1. More action properties as theorems: what `releaseStream` and `pruneStaleCursors`
   may take out of the registry, in one step, and whose.
2. A variant of `ContainerStream` with stamps out of order, to say exactly what is
   lost then.
