------------------------ MODULE ContainerStreamProofs ------------------------
(***************************************************************************)
(* The stored cursor is exact: it covers precisely the stamped records the *)
(* pipeline has answered for, for every log, batch size and order of       *)
(* breaks, refusals, recycles, crashes and rotations.                      *)
(***************************************************************************)
EXTENDS ContainerStream, TLAPS

\* The position of a line, comparable with a cursor.
Pos(l) == [ts |-> l.ts, delivered |-> l.rank]

Before(k, l) ==
  \/ k.ts < l.ts
  \/ k.ts = l.ts /\ k.rank < l.rank
  \/ k.ts = l.ts /\ k.rank = l.rank /\ k.chunk < l.chunk

\* Line i, present or the next to be written, is the first of its instant.
FreshAt(i) ==
  IF i <= Len(log)
    THEN log[i].rank = 1 /\ log[i].chunk = 0 /\ (i > 1 => log[i - 1].ts < log[i].ts)
    ELSE Len(log) > 0 => log[Len(log)].ts < now

LogOK ==
  /\ \A i \in 1..Len(log) : log[i].ts >= 1 /\ log[i].ts <= now /\ log[i].rank >= 1
  /\ \A i, j \in 1..Len(log) : i < j => Before(log[i], log[j])
  /\ \A i \in 2..Len(log) :
       log[i].ts = log[i - 1].ts =>
         IF IsHead(log[i]) THEN log[i].rank = log[i - 1].rank + 1
                           ELSE log[i].rank = log[i - 1].rank
  /\ \A i \in 1..Len(log) : (i = 1 \/ log[i - 1].ts < log[i].ts) => FreshAt(i)

BaseOK == base \in 1..(Len(log) + 1) /\ FreshAt(base)

\* c is no further than the last line written.
Reached(c) ==
  \/ c = ZeroCursor
  \/ /\ c.ts >= 1 /\ Len(log) > 0
     /\ \/ c.ts < log[Len(log)].ts
        \/ c.ts = log[Len(log)].ts /\ c.delivered <= log[Len(log)].rank

HeadCovered(l, c) == l.ts < c.ts \/ (l.ts = c.ts /\ l.rank <= c.delivered)

NotBehind(c, d) == c = d \/ After(c, d)

CursorsOK ==
  /\ Reached(stored) /\ Reached(resume)
  /\ NotBehind(stored, resume)
  /\ stored = IF IsZero(delivered) THEN resume ELSE delivered

InConnection == pc \in {"reading", "flushing", "ended"}

\* The filter f of a connection resumed from r, once line p has passed it.
FilterAfter(f, r, p) ==
  /\ f.ts = r.ts
  /\ f.mode = IF IsZero(r) \/ p.ts > r.ts THEN "past" ELSE "overlap"
  /\ f.mode = "overlap" =>
       f.skip = IF p.ts < r.ts THEN r.delivered
                ELSE IF p.rank < r.delivered THEN r.delivered - p.rank ELSE 0

FilterOK ==
  /\ rd = start => filter = NewFilter(resume)
  /\ rd > start => FilterAfter(filter, resume, log[rd - 1])

PendingOK ==
  pending = IF rd = start \/ HeadCovered(log[rd - 1], resume) THEN resume ELSE Pos(log[rd - 1])

PrefixOK == \A i \in base..(rd - 1) : i >= origin => i \in handed \cup torn \cup batch

BatchOK ==
  /\ cut \subseteq batch
  /\ \A i \in batch : i \in start..(rd - 1) /\ (IsHead(log[i]) => ~Covered(log[i], stored))
  /\ advanced => After(pending, stored)
  /\ ~advanced => pending = stored

ReadOK ==
  /\ start \in 1..(Len(log) + 1) /\ rd \in start..(Len(log) + 1)
  /\ FreshAt(start)
  /\ FilterOK /\ PendingOK /\ PrefixOK /\ BatchOK

HandedOK ==
  \A i \in handed \cup torn : i \in 1..Len(log) /\ (IsHead(log[i]) => Covered(log[i], stored))

IInv ==
  /\ TypeOK /\ LogOK /\ BaseOK /\ CursorsOK
  /\ pc \in {"reading", "flushing"} => ReadOK
  /\ ~InConnection => delivered = ZeroCursor
  /\ pc \notin {"reading", "flushing"} => batch = {}
  /\ HandedOK /\ NoGap

-----------------------------------------------------------------------------
(* Cursor arithmetic                                                       *)

\* Record and the filter stay inside their types.
LEMMA CursorTypes ==
  ASSUME NEW c \in CursorType, NEW d \in CursorType, NEW f \in FilterType, NEW t \in Nat
  PROVE  /\ Record(c, t) \in CursorType
         /\ AfterKeep(f, t) \in FilterType
         /\ NewFilter(c) \in FilterType
         /\ Advance(c, d) \in CursorType
  BY DEF CursorType, FilterType, Record, Moves, AfterKeep, NewFilter, Advance, IsZero, After, NoTime

\* What a cursor covers, a later cursor covers too.
LEMMA CoveredMonotone ==
  ASSUME NEW l \in LineType, NEW c \in CursorType, NEW d \in CursorType,
         NotBehind(c, d), Covered(l, d)
  PROVE  Covered(l, c)
  BY DEF LineType, CursorType, NotBehind, After, Covered, IsHead

\* A whole second begins no later than the instants in it.
LEMMA SecondBelow ==
  ASSUME NEW t \in Nat
  PROVE  Second(t) \in Int /\ Second(t) <= t
  BY TicksAssumption DEF Second

-----------------------------------------------------------------------------
(* Type correctness                                                        *)

\* The initial state is typed.
LEMMA InitType == Init => TypeOK
<1> SUFFICES ASSUME Init PROVE TypeOK
  OBVIOUS
<1>1. ZeroCursor \in CursorType /\ NewFilter(ZeroCursor) \in FilterType
  BY DEF ZeroCursor, CursorType, FilterType, NewFilter, IsZero, NoTime
<1>2. log \in Seq(LineType)
  BY DEF Init
<1>3. /\ base \in Nat \ {0} /\ now \in Nat \ {0} /\ backoff \in Nat /\ retryingSince \in Nat
      /\ start \in Nat /\ rd \in Nat /\ limit \in Nat \cup {NoLimit} /\ origin \in Nat /\ firstAsk \in Nat
  BY BackoffAssumption DEF Init, NoTime, NoLimit
<1> QED BY <1>1, <1>2, <1>3 DEF Init, TypeOK, Reasons

\* The fields of a line, and where it may stand in the log.
LEMMA LineTypes ==
  ASSUME TypeOK, NEW i \in 1..Len(log)
  PROVE  log[i] \in LineType /\ Stamp(log[i]) \in Nat
<1>1. log[i] \in LineType
  BY DEF TypeOK
<1> QED BY <1>1 DEF LineType, Stamp, NoTime

\* Write keeps the types.
LEMMA WriteType == ASSUME TypeOK, Write PROVE TypeOK'
<1>1. NextRank \in Nat
  <2>1. CASE Len(log) > 0 /\ log[Len(log)].ts = now
    <3>1. log[Len(log)] \in LineType
      BY <2>1 DEF TypeOK
    <3> QED BY <2>1, <3>1 DEF NextRank, LineType
  <2> QED BY <2>1 DEF NextRank
<1>2. [ts |-> now, rank |-> NextRank, chunk |-> 0] \in LineType
  BY <1>1 DEF TypeOK, LineType
<1>3. log' \in Seq(LineType)
  BY <1>2 DEF TypeOK, Write
<1> QED BY <1>3 DEF TypeOK, Write, registryVars, streamVars, loopVars, connVars, requestVars, readVars, historyVars

\* WriteChunk keeps the types.
LEMMA WriteChunkType == ASSUME TypeOK, WriteChunk PROVE TypeOK'
<1>1. log[Len(log)] \in LineType
  BY DEF TypeOK, WriteChunk
<1>2. [log[Len(log)] EXCEPT !.chunk = @ + 1] \in LineType
  BY <1>1 DEF LineType
<1>3. log' \in Seq(LineType)
  BY <1>2 DEF TypeOK, WriteChunk
<1> QED BY <1>3 DEF TypeOK, WriteChunk, registryVars, streamVars, loopVars, connVars, requestVars, readVars, historyVars

\* A connection that is served begins with typed locals.
LEMMA ServeType ==
  ASSUME TypeOK, NEW s \in base..(Len(log) + 1), NEW f \in BOOLEAN, Serve(s, f), retryingSince' \in Nat
  PROVE  TypeOK'
<1>1. s \in Nat /\ NewFilter(resume) \in FilterType
  BY DEF TypeOK, CursorType, NoTime, FilterType, NewFilter, IsZero
<1>2. ZeroCursor \in CursorType /\ Len(log) \in Nat
  BY DEF TypeOK, ZeroCursor, CursorType, NoTime
<1> QED BY <1>1, <1>2 DEF TypeOK, Serve, NoLimit, kubeletVars, registryVars

\* A line that is filtered or taken keeps the types.
LEMMA TakeType ==
  ASSUME TypeOK, NEW w \in BOOLEAN, Take(w), rd \in 1..Len(log),
         pc' \in {"reading", "flushing", "ended"}, err' \in {"none", "eof", "broken", "refused"}
  PROVE  TypeOK'
<1>1. Stamp(log[rd]) \in Nat
  BY LineTypes
<1>2. Record(pending, Stamp(log[rd])) \in CursorType /\ AfterKeep(filter, Stamp(log[rd])) \in FilterType
  BY <1>1, CursorTypes DEF TypeOK
<1>3. filter' \in FilterType /\ pending' \in CursorType
  BY <1>2 DEF Take, TypeOK
<1>4. rd \in Nat
  BY DEF TypeOK
<1>5. rd' \in Nat
  BY <1>4 DEF Take
<1>6. batch' \subseteq Nat
  BY <1>4 DEF Take, TypeOK
<1>7. cut' = cut \/ cut' = cut \cup {rd}
  BY DEF Take
<1>8. cut' \subseteq Nat
  BY <1>4, <1>7 DEF TypeOK
<1>9. advanced' \in BOOLEAN
  BY DEF Take, TypeOK
<1> QED BY <1>3, <1>5, <1>6, <1>8, <1>9 DEF TypeOK, Take, loopVars, kubeletVars, registryVars, requestVars, historyVars

\* What follow makes of a connection keeps the types.
LEMMA SettleType ==
  ASSUME TypeOK, Settle, pc' \in {"connect", "sleeping", "done", "drainOpen"}, backoff' \in Nat,
         abandoned' \in Reasons
  PROVE  TypeOK'
<1>1. /\ Advance(stored, delivered) \in CursorType
      /\ ZeroCursor \in CursorType /\ NewFilter(ZeroCursor) \in FilterType
  BY DEF TypeOK, ZeroCursor, CursorType, NoTime, FilterType, NewFilter, IsZero, Advance
<1>2. /\ UNCHANGED <<log, base, phase, now, terminal, drained, cancelled, retryingSince>>
      /\ UNCHANGED <<handed, torn, origin, firstAsk>>
  BY DEF Settle, kubeletVars, historyVars
<1>3. stored' \in CursorType /\ resume' \in CursorType
  BY <1>1 DEF TypeOK, Settle
<1>4. /\ start' = 0 /\ limit' = NoLimit /\ rd' = 0
      /\ mute' = FALSE /\ expired' = FALSE /\ draining' = FALSE
      /\ filter' \in FilterType /\ pending' \in CursorType /\ delivered' \in CursorType
  BY <1>1 DEF Settle
<1>5. batch' = {} /\ cut' = {} /\ advanced' = FALSE /\ err' = "none"
  BY DEF Settle
<1> QED BY <1>2, <1>3, <1>4, <1>5 DEF TypeOK

\* A flush keeps the types.
LEMMA FlushedType == ASSUME TypeOK, Flushed PROVE TypeOK'
<1>1. Advance(stored, pending) \in CursorType
  BY DEF TypeOK, Advance
<1>2. UNCHANGED <<log, base, phase, now, terminal, drained, cancelled, resume, backoff, retryingSince, abandoned,
                  start, limit, mute, expired, draining, rd, filter, pending, err, origin, firstAsk>>
  BY DEF Flushed, loopVars, kubeletVars, requestVars
<1>3. stored' \in CursorType /\ delivered' \in CursorType
  BY <1>1 DEF TypeOK, Flushed
<1>4. batch' = {} /\ cut' = {} /\ advanced' = FALSE /\ pc' \in {"reading", "ended"}
  BY DEF Flushed
<1>5. batch \subseteq Nat /\ cut \subseteq Nat /\ handed \subseteq Nat /\ torn \subseteq Nat
  BY DEF TypeOK
<1>6. handed' \subseteq Nat /\ torn' \subseteq Nat
  BY <1>5 DEF Flushed
<1>7. /\ log' \in Seq(LineType) /\ base' \in Nat \ {0} /\ phase' \in {"running", "waiting", "exited"}
      /\ now' \in Nat \ {0} /\ terminal' \in BOOLEAN /\ drained' \in BOOLEAN /\ cancelled' \in BOOLEAN
      /\ resume' \in CursorType /\ backoff' \in Nat /\ retryingSince' \in Nat /\ abandoned' \in Reasons
  BY <1>2 DEF TypeOK
<1>8. /\ start' \in Nat /\ rd' \in Nat /\ limit' \in Nat \cup {NoLimit}
      /\ mute' \in BOOLEAN /\ expired' \in BOOLEAN /\ draining' \in BOOLEAN
      /\ filter' \in FilterType /\ pending' \in CursorType
      /\ err' \in {"none", "eof", "broken", "refused"} /\ origin' \in Nat /\ firstAsk' \in Nat
  BY <1>2 DEF TypeOK
<1> QED BY <1>3, <1>4, <1>6, <1>7, <1>8 DEF TypeOK

\* Opening a connection keeps the types.
LEMMA OpenType == ASSUME TypeOK, Open \/ DrainOpen PROVE TypeOK'
<1>1. CASE Open
  BY <1>1, ServeType DEF Open, NoTime
<1>2. CASE DrainOpen
  BY <1>2, ServeType DEF DrainOpen, TypeOK
<1> QED BY <1>1, <1>2

\* Every step keeps the types.
LEMMA StepType ==
  ASSUME TypeOK, pc = "reading" => rd >= 1, [Next]_vars
  PROVE  TypeOK'
<1> USE DEF kubeletVars, registryVars, streamVars, loopVars, connVars, requestVars, readVars, historyVars
<1>1. ASSUME TypeOK, Tick \/ Crash \/ Exit PROVE TypeOK'
  <2>1. CASE Tick BY <2>1, <1>1 DEF TypeOK, Tick
  <2>2. CASE Crash BY <2>2, <1>1 DEF TypeOK, Crash, InstanceEnds
  <2>3. CASE Exit BY <2>3, <1>1 DEF TypeOK, Exit, InstanceEnds
  <2> QED BY <1>1, <2>1, <2>2, <2>3
<1>2. ASSUME TypeOK, StartInstance \/ Rotate PROVE TypeOK'
  <2>1. CASE StartInstance BY <2>1, <1>2 DEF TypeOK, StartInstance
  <2>2. CASE Rotate BY <2>2, <1>2 DEF TypeOK, Rotate
  <2> QED BY <1>2, <2>1, <2>2
<1>3. ASSUME TypeOK, Receiver PROVE TypeOK'
  <2>1. CASE MarkTerminal BY <2>1, <1>3 DEF TypeOK, MarkTerminal
  <2>2. CASE Cancel BY <2>2, <1>3 DEF TypeOK, Cancel
  <2>3. CASE StartStream BY <2>3, <1>3, BackoffAssumption DEF TypeOK, StartStream, NoTime, Reasons
  <2>4. CASE ReleaseStream BY <2>4, <1>3 DEF TypeOK, ReleaseStream
  <2> QED BY <1>3, <2>1, <2>2, <2>3, <2>4 DEF Receiver
<1>4. ASSUME TypeOK, OpenFails \/ RetryConnect PROVE TypeOK'
  <2>1. CASE OpenFails BY <2>1, <1>4 DEF TypeOK, OpenFails, Reasons
  <2>2. CASE RetryConnect BY <2>2, <1>4, BackoffAssumption DEF TypeOK, RetryConnect, NextBackoff
  <2> QED BY <1>4, <2>1, <2>2
<1>5. ASSUME TypeOK, StopOnCancel \/ WakeUp \/ DrainOpenFails PROVE TypeOK'
  <2>1. CASE StopOnCancel BY <2>1, <1>5 DEF TypeOK, StopOnCancel
  <2>2. CASE WakeUp BY <2>2, <1>5 DEF TypeOK, WakeUp
  <2>3. CASE DrainOpenFails BY <2>3, <1>5 DEF TypeOK, DrainOpenFails, Reasons
  <2> QED BY <1>5, <2>1, <2>2, <2>3
<1>6. ASSUME TypeOK, Expire \/ GoMute \/ FlushTick PROVE TypeOK'
  <2>1. CASE Expire BY <2>1, <1>6 DEF TypeOK, Expire
  <2>2. CASE GoMute BY <2>2, <1>6 DEF TypeOK, GoMute
  <2>3. CASE FlushTick BY <2>3, <1>6 DEF TypeOK, FlushTick
  <2> QED BY <1>6, <2>1, <2>2, <2>3
<1>7. ASSUME TypeOK, Eof \/ Broken PROVE TypeOK'
  <2>1. \E e \in {"eof", "broken"} : StreamEnds(e)
    BY <1>7 DEF Eof, Broken
  <2> QED BY <2>1, <1>7 DEF TypeOK, StreamEnds
<1>8. ASSUME TypeOK, pc = "reading" => rd >= 1, Receive \/ Tears PROVE TypeOK'
  <2>1. rd \in 1..Len(log)
    <3>1. Readable
      BY <1>8 DEF Receive, Tears
    <3>2. rd \in Nat /\ Len(log) \in Nat
      BY <1>8 DEF TypeOK
    <3> QED BY <1>8, <3>1, <3>2 DEF Readable
  <2>2. CASE Receive
    BY <2>1, <2>2, <1>8, TakeType DEF Receive, TypeOK
  <2>3. CASE Tears
    BY <2>1, <2>3, <1>8, TakeType DEF Tears
  <2> QED BY <1>8, <2>2, <2>3
<1>9. ASSUME TypeOK, FlushRefused PROVE TypeOK'
  <2>1. /\ pc' = "ended" /\ err' = "refused"
        /\ batch' = {} /\ cut' = {} /\ advanced' = FALSE
    BY <1>9 DEF FlushRefused
  <2>2. /\ UNCHANGED <<log, base, phase, now, terminal, drained, stored, cancelled>>
        /\ UNCHANGED <<resume, backoff, retryingSince, abandoned, handed, torn, origin, firstAsk>>
        /\ UNCHANGED <<start, limit, mute, expired, draining, rd, filter, pending, delivered>>
    BY <1>9 DEF FlushRefused
  <2> QED BY <1>9, <2>1, <2>2 DEF TypeOK
<1>10. ASSUME TypeOK, EndedReconnect \/ EndedTerminal \/ EndedDrain PROVE TypeOK'
  <2>1. CASE EndedReconnect
    <3>1. backoff' \in Nat
      BY <2>1, <1>10, BackoffAssumption DEF EndedReconnect, NextBackoff, TypeOK
    <3>2. pc' \in {"connect", "sleeping"} /\ abandoned' \in Reasons
      BY <2>1, <1>10 DEF EndedReconnect, TypeOK
    <3> QED BY <2>1, <3>1, <3>2, <1>10, SettleType DEF EndedReconnect
  <2>2. CASE EndedTerminal
    <3>1. pc' \in {"done", "drainOpen"} /\ backoff' \in Nat /\ abandoned' \in Reasons
      BY <2>2, <1>10 DEF EndedTerminal, TypeOK, Reasons
    <3> QED BY <2>2, <3>1, <1>10, SettleType DEF EndedTerminal
  <2>3. CASE EndedDrain
    <3>1. pc' = "done" /\ backoff' \in Nat /\ abandoned' \in Reasons
      BY <2>3, <1>10 DEF EndedDrain, TypeOK, Reasons
    <3> QED BY <2>3, <3>1, <1>10, SettleType DEF EndedDrain
  <2> QED BY <1>10, <2>1, <2>2, <2>3
<1>11. ASSUME TypeOK, UNCHANGED vars PROVE TypeOK'
  BY <1>11 DEF TypeOK, vars
<1> QED
  BY <1>1, <1>2, <1>3, <1>4, <1>5, <1>6, <1>7, <1>8, <1>9, <1>10, <1>11,
     WriteType, WriteChunkType, OpenType, FlushedType
  DEF Next, Container, Connect, Read, Finish, FlushDelivered, FlushDropped

-----------------------------------------------------------------------------
(* The filter and the counter step together                                *)

\* The first line a connection is served: a head of rank 1. The filter drops
\* it exactly when the cursor covers it, and the counter lands on it.
LEMMA FilterFirst ==
  ASSUME NEW l \in LineType, NEW r \in CursorType, r.ts = 0 => r.delivered = 0,
         l.chunk = 0, l.ts >= 1, l.rank = 1
  PROVE  /\ FilterAfter(AfterKeep(NewFilter(r), l.ts), r, l)
         /\ Keep(NewFilter(r), l.ts) <=> ~HeadCovered(l, r)
         /\ Keep(NewFilter(r), l.ts) => Record(r, l.ts) = Pos(l) /\ Moves(r, l.ts)
<1> USE DEF LineType, CursorType, NewFilter, IsZero, NoTime
<1>1. FilterAfter(AfterKeep(NewFilter(r), l.ts), r, l)
  BY DEF AfterKeep, FilterAfter
<1>2. Keep(NewFilter(r), l.ts) <=> ~HeadCovered(l, r)
  BY DEF Keep, HeadCovered
<1>3. Keep(NewFilter(r), l.ts) => Record(r, l.ts) = Pos(l) /\ Moves(r, l.ts)
  BY DEF Keep, Record, Moves, Pos
<1> QED BY <1>1, <1>2, <1>3

\* A later head l, after line p.
LEMMA FilterNext ==
  ASSUME NEW l \in LineType, NEW p \in LineType, NEW r \in CursorType, r.ts = 0 => r.delivered = 0,
         NEW f \in FilterType, FilterAfter(f, r, p),
         l.chunk = 0, p.ts >= 1, p.rank >= 1,
         \/ p.ts < l.ts /\ l.rank = 1
         \/ p.ts = l.ts /\ l.rank = p.rank + 1,
         NEW c \in CursorType, c = IF HeadCovered(p, r) THEN r ELSE Pos(p)
  PROVE  /\ FilterAfter(AfterKeep(f, l.ts), r, l)
         /\ Keep(f, l.ts) <=> ~HeadCovered(l, r)
         /\ Keep(f, l.ts) => Record(c, l.ts) = Pos(l) /\ Moves(c, l.ts)
<1> USE DEF LineType, CursorType, FilterType, IsZero, NoTime
<1>1. FilterAfter(AfterKeep(f, l.ts), r, l)
  BY DEF AfterKeep, FilterAfter
<1>2. Keep(f, l.ts) <=> ~HeadCovered(l, r)
  BY DEF Keep, HeadCovered, FilterAfter
<1>3. Keep(f, l.ts) => Record(c, l.ts) = Pos(l) /\ Moves(c, l.ts)
  BY <1>2 DEF Record, Moves, Pos, HeadCovered
<1> QED BY <1>1, <1>2, <1>3

\* A line after p is covered neither by p's position nor, then, by any cursor
\* not beyond it.
LEMMA NotCoveredAfter ==
  ASSUME NEW l \in LineType, NEW p \in LineType, Before(p, l)
  PROVE  ~Covered(l, Pos(p))
  BY DEF LineType, Before, Covered, Pos, IsHead

\* A head up to p is covered by p's position and by any cursor covering p.
LEMMA CoveredUpTo ==
  ASSUME NEW l \in LineType, NEW p \in LineType, l.chunk = 0, l = p \/ Before(l, p),
         NEW c \in CursorType, c = Pos(p) \/ HeadCovered(p, c)
  PROVE  Covered(l, c)
  BY DEF LineType, CursorType, Before, Covered, Pos, IsHead, HeadCovered

-----------------------------------------------------------------------------
(* The inductive invariant                                                 *)

progress ==
  <<log, base, now, stored, resume, start, rd, filter, pending, batch, cut,
    advanced, delivered, handed, torn, origin>>

\* A step that touches none of this keeps the invariant.
LEMMA Quiet ==
  ASSUME IInv, TypeOK', UNCHANGED progress,
         pc' \in {"reading", "flushing"} => pc \in {"reading", "flushing"},
         InConnection => InConnection',
         pc' \notin {"reading", "flushing"} => batch = {}
  PROVE  IInv'
<1> USE DEF progress
<1>1. LogOK' /\ BaseOK'
  BY DEF IInv, LogOK, BaseOK, FreshAt, Before, IsHead
<1>2. CursorsOK'
  BY DEF IInv, CursorsOK, Reached, NotBehind, After, IsZero, ZeroCursor
<1>3. pc' \in {"reading", "flushing"} => ReadOK'
  BY DEF IInv, ReadOK, FreshAt, FilterOK, FilterAfter, PendingOK, PrefixOK, BatchOK, HeadCovered, Pos,
         Covered, IsHead, After, IsZero, NewFilter
<1>4. (~InConnection => delivered = ZeroCursor)'
  BY DEF IInv, ZeroCursor
<1>5. HandedOK' /\ NoGap'
  BY DEF IInv, HandedOK, NoGap, Wanted, Covered, IsHead
<1> QED BY <1>1, <1>2, <1>3, <1>4, <1>5 DEF IInv

\* The initial state satisfies the invariant.
LEMMA InitInv == Init => IInv
<1> SUFFICES ASSUME Init PROVE IInv
  OBVIOUS
<1>1. Len(log) = 0
  BY DEF Init
<1>2. LogOK /\ BaseOK
  BY <1>1 DEF Init, LogOK, BaseOK, FreshAt
<1>3. CursorsOK
  BY DEF Init, CursorsOK, Reached, NotBehind, IsZero, ZeroCursor
<1>4. HandedOK /\ NoGap
  BY <1>1 DEF Init, HandedOK, NoGap
<1> QED BY <1>2, <1>3, <1>4, InitType DEF Init, IInv, InConnection

\* A line that may follow the log as it stands.
Follows(l) ==
  /\ l.ts = now /\ l.rank >= 1
  /\ Len(log) > 0 => Before(log[Len(log)], l)
  /\ Len(log) > 0 /\ log[Len(log)].ts = now =>
       IF IsHead(l) THEN l.rank = log[Len(log)].rank + 1 ELSE l.rank = log[Len(log)].rank
  /\ (Len(log) = 0 \/ log[Len(log)].ts < now) => l.rank = 1 /\ l.chunk = 0

\* The container writes: a new line is beyond every cursor.
LEMMA AppendInv ==
  ASSUME IInv, TypeOK', NEW l \in LineType, Follows(l), log' = Append(log, l),
         UNCHANGED <<base, now, stored, resume, start, rd, filter, pending, batch, cut,
                     advanced, delivered, handed, torn, origin, pc>>
  PROVE  IInv'
<1>1. log \in Seq(LineType) /\ Len(log) \in Nat /\ now \in Nat /\ \A i \in 1..Len(log) : log[i] \in LineType
  BY DEF IInv, TypeOK
<1>2. Len(log') = Len(log) + 1 /\ log'[Len(log) + 1] = l /\ \A i \in 1..Len(log) : log'[i] = log[i]
  BY <1>1
<1> DEFINE N == Len(log)
<1>3. LogOK
  BY DEF IInv
<1>4. \A i \in 1..(N + 1) : FreshAt(i) => FreshAt(i)'
  <2> SUFFICES ASSUME NEW i \in 1..(N + 1), FreshAt(i) PROVE FreshAt(i)'
    OBVIOUS
  <2>1. CASE i \in 1..N
    BY <2>1, <1>1, <1>2 DEF FreshAt
  <2>2. CASE i = N + 1
    BY <2>2, <1>1, <1>2 DEF FreshAt, Follows
  <2> QED BY <2>1, <2>2, <1>1
<1>5. LogOK'
  <2>1. \A i \in 1..(N + 1) : log'[i].ts >= 1 /\ log'[i].ts <= now /\ log'[i].rank >= 1
    BY <1>1, <1>2, <1>3 DEF LogOK, Follows, IInv, TypeOK
  <2>2. \A i, j \in 1..(N + 1) : i < j => Before(log'[i], log'[j])
    <3> SUFFICES ASSUME NEW i \in 1..(N + 1), NEW j \in 1..(N + 1), i < j
                 PROVE  Before(log'[i], log'[j])
      OBVIOUS
    <3>1. CASE j \in 1..N
      <4>1. i \in 1..N
        BY <3>1, <1>1
      <4> QED BY <3>1, <4>1, <1>2, <1>3 DEF LogOK
    <3>2. CASE j = N + 1
      <4>1. i \in 1..N /\ N \in 1..N /\ N > 0
        BY <3>2, <1>1
      <4>2. i = N \/ Before(log[i], log[N])
        BY <4>1, <1>3, <1>1 DEF LogOK
      <4>3. Before(log[N], l)
        BY <4>1 DEF Follows
      <4>4. log[i] \in LineType /\ log[N] \in LineType
        BY <4>1, <1>1
      <4>5. Before(log[i], l)
        BY <4>2, <4>3, <4>4 DEF Before, LineType
      <4> QED BY <3>2, <4>1, <4>5, <1>2
    <3> QED BY <3>1, <3>2, <1>1
  <2>3. \A i \in 2..(N + 1) :
          log'[i].ts = log'[i - 1].ts =>
            IF IsHead(log'[i]) THEN log'[i].rank = log'[i - 1].rank + 1
                               ELSE log'[i].rank = log'[i - 1].rank
    <3> SUFFICES ASSUME NEW i \in 2..(N + 1), log'[i].ts = log'[i - 1].ts
                 PROVE  IF IsHead(log'[i]) THEN log'[i].rank = log'[i - 1].rank + 1
                                           ELSE log'[i].rank = log'[i - 1].rank
      OBVIOUS
    <3>1. CASE i \in 2..N
      <4>1. i \in 1..N /\ i - 1 \in 1..N
        BY <3>1, <1>1
      <4> QED BY <3>1, <4>1, <1>2, <1>3 DEF LogOK
    <3>2. CASE i = N + 1
      <4>1. i - 1 = N /\ N > 0 /\ N \in 1..N
        BY <3>2, <1>1
      <4> QED BY <3>2, <4>1, <1>2 DEF Follows
    <3> QED BY <3>1, <3>2, <1>1
  <2>4. \A i \in 1..(N + 1) : (i = 1 \/ log'[i - 1].ts < log'[i].ts) => FreshAt(i)'
    <3> SUFFICES ASSUME NEW i \in 1..(N + 1), i = 1 \/ log'[i - 1].ts < log'[i].ts
                 PROVE  FreshAt(i)'
      OBVIOUS
    <3>1. CASE i \in 1..N
      <4>1. i = 1 \/ i - 1 \in 1..N
        BY <3>1, <1>1
      <4> QED BY <3>1, <4>1, <1>2, <1>3, <1>4 DEF LogOK
    <3>2. CASE i = N + 1
      <4>1. i - 1 = N /\ (N = 0 \/ (N \in 1..N /\ i # 1))
        BY <3>2, <1>1
      <4>2. N = 0 \/ log[N].ts < now
        BY <3>2, <4>1, <1>2 DEF Follows
      <4>3. FreshAt(i)
        BY <3>2, <4>2, <1>1 DEF FreshAt
      <4> QED BY <4>3, <1>4
    <3> QED BY <3>1, <3>2, <1>1
  <2> QED BY <2>1, <2>2, <2>3, <2>4, <1>2 DEF LogOK, IsHead, Before
<1>6. BaseOK'
  BY <1>1, <1>2, <1>4 DEF IInv, BaseOK
<1>7. ASSUME NEW c \in CursorType, Reached(c) PROVE ~Covered(l, c)
  <2>1. CASE c = ZeroCursor
    BY <2>1 DEF Covered, Follows, ZeroCursor, NoTime, IInv, TypeOK
  <2>2. CASE c # ZeroCursor
    <3>1. N > 0 /\ log[N] \in LineType
      BY <2>2, <1>7, <1>1 DEF Reached
    <3>2. Before(log[N], l)
      BY <3>1 DEF Follows
    <3>3. c.ts < log[N].ts \/ (c.ts = log[N].ts /\ c.delivered <= log[N].rank)
      BY <2>2, <1>7 DEF Reached
    <3> QED BY <3>1, <3>2, <3>3 DEF Covered, Before, IsHead, LineType, CursorType
  <2> QED BY <2>1, <2>2
<1>8. CursorsOK'
  <2>1. ASSUME NEW c \in CursorType, Reached(c)
        PROVE  \/ c = ZeroCursor
               \/ c.ts >= 1 /\ (c.ts < l.ts \/ (c.ts = l.ts /\ c.delivered <= l.rank))
    <3>1. CASE c = ZeroCursor
      BY <3>1
    <3>2. CASE c # ZeroCursor
      <4>1. c.ts >= 1 /\ N > 0 /\ log[N] \in LineType
        BY <2>1, <3>2, <1>1 DEF Reached
      <4>2. Before(log[N], l)
        BY <4>1 DEF Follows
      <4>3. c.ts < log[N].ts \/ (c.ts = log[N].ts /\ c.delivered <= log[N].rank)
        BY <2>1, <3>2 DEF Reached
      <4> QED BY <4>1, <4>2, <4>3 DEF Before, LineType, CursorType
    <3> QED BY <3>1, <3>2
  <2>2. stored \in CursorType /\ resume \in CursorType /\ Reached(stored) /\ Reached(resume)
    BY DEF IInv, TypeOK, CursorsOK
  <2>3. Len(log') > 0 /\ log'[Len(log')] = l
    BY <1>1, <1>2
  <2>4. Reached(stored)' /\ Reached(resume)'
    BY <2>1, <2>2, <2>3 DEF Reached
  <2> QED BY <2>4 DEF CursorsOK, NotBehind, After, IsZero, IInv
<1>9. ASSUME pc \in {"reading", "flushing"} PROVE ReadOK'
  <2>1. ReadOK /\ start \in Nat /\ rd \in Nat
    BY <1>9 DEF IInv, TypeOK
  <2>2. start \in 1..(N + 1) /\ rd \in start..(N + 1)
    BY <2>1 DEF ReadOK
  <2>3. start' \in 1..(Len(log') + 1) /\ rd' \in start'..(Len(log') + 1) /\ FreshAt(start)'
    BY <2>1, <2>2, <1>1, <1>2, <1>4 DEF ReadOK
  <2>4. rd > start => log'[rd - 1] = log[rd - 1]
    BY <2>2, <1>1, <1>2
  <2>5. FilterOK' /\ PendingOK'
    BY <2>1, <2>2, <2>4 DEF ReadOK, FilterOK, PendingOK, FilterAfter, HeadCovered, Pos, NewFilter, IsZero
  <2>6. PrefixOK'
    BY <2>1 DEF ReadOK, PrefixOK
  <2>7. \A i \in batch : log'[i] = log[i]
    BY <2>1, <2>2, <1>1, <1>2 DEF ReadOK, BatchOK
  <2>8. BatchOK'
    BY <2>1, <2>7 DEF ReadOK, BatchOK, After, Covered, IsHead
  <2> QED BY <2>3, <2>5, <2>6, <2>8 DEF ReadOK
<1>10. HandedOK'
  BY <1>1, <1>2 DEF IInv, HandedOK, Covered, IsHead
<1>11. NoGap'
  <2> SUFFICES ASSUME NEW i \in 1..(N + 1), Wanted(i)', Covered(log'[i], stored)
               PROVE  i \in handed \cup torn
    BY <1>2 DEF NoGap, Covered, IsHead
  <2>1. CASE i \in 1..N
    BY <2>1, <1>1, <1>2 DEF IInv, NoGap, Wanted
  <2>2. CASE i = N + 1
    BY <2>2, <1>2, <1>7 DEF IInv, CursorsOK, TypeOK
  <2> QED BY <2>1, <2>2, <1>1
<1> QED BY <1>5, <1>6, <1>8, <1>9, <1>10, <1>11 DEF IInv, InConnection, ZeroCursor

\* A line that is written is beyond every cursor.
LEMMA WriteInv == ASSUME IInv, Write \/ WriteChunk PROVE IInv'
<1>1. log \in Seq(LineType) /\ Len(log) \in Nat /\ now \in Nat \ {0}
  BY DEF IInv, TypeOK
<1>2. Len(log) > 0 => log[Len(log)] \in LineType /\ log[Len(log)].ts <= now /\ log[Len(log)].rank >= 1
  BY <1>1 DEF IInv, LogOK
<1>3. TypeOK'
  BY WriteType, WriteChunkType DEF IInv
<1>4. CASE Write
  <2> DEFINE l == [ts |-> now, rank |-> NextRank, chunk |-> 0]
  <2>1. NextRank \in Nat /\ NextRank >= 1
    BY <1>2 DEF NextRank, LineType
  <2>2. l \in LineType
    BY <2>1, <1>1 DEF LineType
  <2>3. Follows(l)
    BY <2>1, <1>1, <1>2 DEF Follows, Before, IsHead, NextRank, LineType
  <2>4. log' = Append(log, l)
    BY <1>4 DEF Write
  <2>5. UNCHANGED <<base, now, stored, resume, start, rd, filter, pending, batch, cut,
                    advanced, delivered, handed, torn, origin, pc>>
    BY <1>4 DEF Write, registryVars, streamVars, loopVars, connVars, requestVars, readVars, historyVars
  <2> HIDE DEF l
  <2> QED BY <2>2, <2>3, <2>4, <2>5, <1>3, AppendInv
<1>5. CASE WriteChunk
  <2> DEFINE k == log[Len(log)]
             l == [k EXCEPT !.chunk = @ + 1]
  <2>1. k \in LineType /\ k.ts = now /\ k.rank >= 1 /\ Len(log) > 0
    BY <1>5, <1>1, <1>2 DEF WriteChunk
  <2> HIDE DEF k
  <2>2. l \in LineType /\ l.ts = k.ts /\ l.rank = k.rank /\ l.chunk = k.chunk + 1
    BY <2>1 DEF LineType
  <2>3. log' = Append(log, l)
    BY <1>5 DEF WriteChunk, k
  <2> HIDE DEF l
  <2>4. Before(k, l) /\ ~IsHead(l)
    BY <2>1, <2>2 DEF Before, IsHead, LineType
  <2>5. Follows(l)
    BY <2>1, <2>2, <2>4, <1>1 DEF Follows, k
  <2>6. UNCHANGED <<base, now, stored, resume, start, rd, filter, pending, batch, cut,
                    advanced, delivered, handed, torn, origin, pc>>
    BY <1>5 DEF WriteChunk, registryVars, streamVars, loopVars, connVars, requestVars, readVars, historyVars
  <2> QED BY <2>2, <2>3, <2>5, <2>6, <1>3, AppendInv
<1> QED BY <1>4, <1>5

\* The clock and the retained range move; no position does.
LEMMA KubeletInv ==
  ASSUME IInv, TypeOK', now' >= now, base' >= base, base' <= Len(log) + 1, FreshAt(base'),
         UNCHANGED <<log, stored, resume, start, rd, filter, pending, batch, cut,
                     advanced, delivered, handed, torn, origin, pc>>
  PROVE  IInv'
<1>1. now \in Nat /\ now' \in Nat /\ Len(log) \in Nat /\ base \in Nat /\ base' \in Nat /\ base' >= 1
  BY DEF IInv, TypeOK
<1>2. \A i \in 1..Len(log) : log[i] \in LineType
  BY DEF IInv, TypeOK
<1>3. ASSUME NEW i, FreshAt(i) PROVE IF i <= Len(log)
        THEN log[i].rank = 1 /\ log[i].chunk = 0 /\ (i > 1 => log[i - 1].ts < log[i].ts)
        ELSE Len(log) > 0 => log[Len(log)].ts < now'
  <2>1. CASE i <= Len(log)
    BY <1>3, <2>1 DEF FreshAt
  <2>2. CASE ~(i <= Len(log))
    <3>1. Len(log) > 0 => log[Len(log)].ts < now /\ log[Len(log)].ts \in Nat
      BY <1>3, <2>2, <1>1, <1>2 DEF FreshAt, LineType
    <3> QED BY <2>2, <3>1, <1>1
  <2> QED BY <2>1, <2>2
<1>4. \A i : FreshAt(i) => FreshAt(i)'
  BY <1>3 DEF FreshAt
<1>5. LogOK'
  <2>1. \A i \in 1..Len(log) : log[i].ts <= now'
    BY <1>1, <1>2 DEF IInv, LogOK, LineType
  <2>2. \A i \in 1..Len(log) : (i = 1 \/ log[i - 1].ts < log[i].ts) => FreshAt(i)'
    BY <1>4 DEF IInv, LogOK
  <2> QED BY <2>1, <2>2 DEF IInv, LogOK, Before, IsHead
<1>6. BaseOK'
  BY <1>1, <1>4 DEF BaseOK, FreshAt
<1>7. CursorsOK'
  BY DEF IInv, CursorsOK, Reached, NotBehind, After, IsZero, ZeroCursor
<1>8. ASSUME pc \in {"reading", "flushing"} PROVE ReadOK'
  <2>1. ReadOK
    BY <1>8 DEF IInv
  <2>2. FreshAt(start)'
    BY <2>1, <1>4 DEF ReadOK, FreshAt
  <2>3. PrefixOK'
    BY <2>1, <1>1 DEF ReadOK, PrefixOK, IInv, TypeOK
  <2>4. FilterOK' /\ PendingOK' /\ BatchOK'
    BY <2>1 DEF ReadOK, FilterOK, FilterAfter, PendingOK, BatchOK, HeadCovered, Pos, Covered, IsHead, After,
                NewFilter, IsZero
  <2> QED BY <2>1, <2>2, <2>3, <2>4 DEF ReadOK
<1>9. HandedOK' /\ NoGap'
  BY <1>1 DEF IInv, HandedOK, NoGap, Wanted, Covered, IsHead
<1> QED BY <1>5, <1>6, <1>7, <1>8, <1>9 DEF IInv, InConnection, ZeroCursor

\* A connection opens where nothing beyond the cursor is skipped.
LEMMA ServeInv ==
  ASSUME IInv, TypeOK', pc \in {"connect", "drainOpen"},
         NEW t \in Int, t <= now, ~IsZero(resume) => t <= resume.ts,
         NEW s \in base..(Len(log) + 1), ServesFrom(s, t), NEW f \in BOOLEAN, Serve(s, f)
  PROVE  IInv'
<1> USE DEF kubeletVars, registryVars
<1>1. /\ Len(log) \in Nat /\ base \in Nat \ {0} /\ now \in Nat /\ s \in Nat /\ origin \in Nat
      /\ \A i \in 1..Len(log) : log[i] \in LineType
  <2>1. /\ log \in Seq(LineType) /\ base \in Nat \ {0} /\ now \in Nat /\ origin \in Nat
    BY DEF IInv, TypeOK
  <2>2. Len(log) \in Nat /\ \A i \in 1..Len(log) : log[i] \in LineType
    BY <2>1
  <2> QED BY <2>1, <2>2
<1>2. LogOK /\ BaseOK /\ CursorsOK /\ NoGap /\ HandedOK
  BY DEF IInv
<1>3. stored = resume /\ resume \in CursorType /\ stored \in CursorType
  <2>1. resume \in CursorType /\ stored \in CursorType
    BY DEF IInv, TypeOK
  <2>2. delivered = ZeroCursor
    BY DEF IInv, InConnection
  <2> QED BY <2>1, <2>2, <1>2 DEF CursorsOK, IsZero, ZeroCursor, NoTime
<1>4. FreshAt(s)
  <2>1. CASE s = base
    BY <2>1, <1>2 DEF BaseOK
  <2>2. CASE s > base /\ s <= Len(log)
    <3>1. s - 1 \in base..(s - 1) /\ s \in 1..Len(log) /\ s - 1 \in 1..Len(log)
      BY <2>2, <1>1
    <3>2. log[s - 1].ts < t /\ log[s].ts >= t
      BY <3>1, <2>2 DEF ServesFrom
    <3>3. log[s - 1].ts < log[s].ts
      BY <3>1, <3>2, <1>1 DEF LineType
    <3> QED BY <3>1, <3>3, <1>2 DEF LogOK
  <2>3. CASE s > base /\ s = Len(log) + 1
    <3>1. Len(log) \in base..(s - 1) /\ Len(log) \in 1..Len(log)
      BY <2>3, <1>1
    <3>2. log[Len(log)].ts < t
      BY <3>1 DEF ServesFrom
    <3>3. log[Len(log)].ts < now
      BY <3>1, <3>2, <1>1 DEF LineType
    <3> QED BY <2>3, <3>3, <1>1 DEF FreshAt
  <2> QED BY <2>1, <2>2, <2>3, <1>1
<1>5. ASSUME NEW i \in base..(s - 1), ~IsZero(resume) PROVE i \in 1..Len(log) /\ Covered(log[i], stored)
  <2>1. i \in 1..Len(log)
    BY <1>1
  <2>2. log[i].ts < t
    BY DEF ServesFrom
  <2> QED BY <2>1, <2>2, <1>1, <1>3, <1>5 DEF Covered, LineType, CursorType
<1>6. \A i \in base..(s - 1) : i >= origin' => i \in handed \cup torn
  <2> SUFFICES ASSUME NEW i \in base..(s - 1), i >= origin' PROVE i \in handed \cup torn
    OBVIOUS
  <2>1. ~IsZero(resume) /\ origin' = origin
    BY <1>1 DEF Serve
  <2>2. i \in 1..Len(log) /\ Covered(log[i], stored)
    BY <2>1, <1>5
  <2> QED BY <2>1, <2>2, <1>1, <1>2 DEF NoGap, Wanted
<1>7. ReadOK'
  <2>1. start' \in 1..(Len(log') + 1) /\ rd' \in start'..(Len(log') + 1) /\ FreshAt(start)'
    BY <1>1, <1>4 DEF Serve, FreshAt
  <2>2. FilterOK' /\ PendingOK'
    BY <1>1 DEF Serve, FilterOK, PendingOK, NewFilter, IsZero
  <2>3. PrefixOK'
    BY <1>6 DEF Serve, PrefixOK
  <2>4. BatchOK'
    BY <1>3 DEF Serve, BatchOK
  <2> QED BY <2>1, <2>2, <2>3, <2>4 DEF ReadOK
<1>8. LogOK' /\ BaseOK'
  BY <1>2 DEF Serve, LogOK, BaseOK, FreshAt, Before, IsHead
<1>9. CursorsOK'
  BY <1>2, <1>3 DEF Serve, CursorsOK, Reached, NotBehind, After, IsZero, ZeroCursor, NoTime
<1>10. HandedOK'
  BY <1>2 DEF Serve, HandedOK, Covered, IsHead
<1>11. NoGap'
  <2>1. CASE ~IsZero(resume)
    BY <2>1, <1>2 DEF Serve, NoGap, Wanted, Covered, IsHead
  <2>2. CASE IsZero(resume)
    <3>1. stored = ZeroCursor
      BY <2>2, <1>2, <1>3 DEF CursorsOK, Reached, IsZero, NoTime
    <3>2. \A i \in 1..Len(log) : ~Covered(log[i], stored)
      BY <3>1, <1>1, <1>2 DEF Covered, ZeroCursor, NoTime, LogOK, LineType
    <3> QED BY <3>2 DEF Serve, NoGap, Covered, IsHead
  <2> QED BY <2>1, <2>2
<1>12. pc' = "reading"
  BY DEF Serve
<1> QED BY <1>7, <1>8, <1>9, <1>10, <1>11, <1>12 DEF IInv, InConnection

\* A connection begins at or before the first line its cursor does not cover.
LEMMA OpenInv == ASSUME IInv, Open \/ DrainOpen PROVE IInv'
<1>1. TypeOK'
  BY OpenType DEF IInv
<1>2. now \in Nat /\ resume \in CursorType /\ Reached(resume)
  BY DEF IInv, TypeOK, CursorsOK
<1>3. resume.ts \in Nat /\ resume.ts <= now
  <2>1. Len(log) > 0 => log[Len(log)] \in LineType /\ log[Len(log)].ts <= now
    BY DEF IInv, TypeOK, LogOK
  <2> QED BY <2>1, <1>2 DEF Reached, ZeroCursor, NoTime, CursorType, LineType
<1>4. Second(resume.ts) \in Int /\ Second(resume.ts) <= resume.ts /\ Second(now) \in Int /\ Second(now) <= now
  BY <1>2, <1>3, SecondBelow
<1>5. CASE Open
  <2>1. StartPoint(resume) \in Int /\ StartPoint(resume) <= now
    BY <1>2, <1>3, <1>4, SinceAssumption, TicksAssumption DEF StartPoint, NoBound, NoTime
  <2>2. ~IsZero(resume) => StartPoint(resume) <= resume.ts
    BY <1>4 DEF StartPoint
  <2> QED BY <1>1, <1>5, <2>1, <2>2, ServeInv DEF Open
<1>6. CASE DrainOpen
  <2>1. DrainStartPoint(resume) \in Int /\ DrainStartPoint(resume) <= now
    BY <1>2, <1>3, <1>4 DEF DrainStartPoint, NoTime
  <2>2. ~IsZero(resume) => DrainStartPoint(resume) <= resume.ts
    BY <1>4 DEF DrainStartPoint
  <2> QED BY <1>1, <1>6, <2>1, <2>2, ServeInv DEF DrainOpen
<1> QED BY <1>5, <1>6

\* One line read: the filter, the counter and the log stay in step.
LEMMA TakeReads ==
  ASSUME IInv, pc = "reading", rd \in 1..Len(log), NEW w \in BOOLEAN, Take(w)
  PROVE  /\ FilterOK' /\ PendingOK'
         /\ ~Keep(filter, Stamp(log[rd])) => IsHead(log[rd]) /\ Covered(log[rd], resume) /\ pending' = pending
         /\ Keep(filter, Stamp(log[rd])) /\ IsHead(log[rd]) =>
              /\ ~Covered(log[rd], pending)
              /\ After(pending', pending)
              /\ Moves(pending, Stamp(log[rd]))
         /\ Keep(filter, Stamp(log[rd])) /\ ~IsHead(log[rd]) => pending' = pending /\ ~Moves(pending, Stamp(log[rd]))
<1> DEFINE l == log[rd]
           p == log[rd - 1]
<1>1. ReadOK /\ LogOK /\ resume \in CursorType /\ pending \in CursorType /\ filter \in FilterType
  BY DEF IInv, TypeOK
<1>2. Len(log) \in Nat /\ rd \in Nat /\ start \in Nat /\ start >= 1 /\ start <= rd
  BY <1>1 DEF IInv, TypeOK, ReadOK
<1>3. l \in LineType /\ l.ts >= 1 /\ l.rank >= 1
  BY <1>1, <1>2 DEF IInv, TypeOK, LogOK
<1>4. rd > start => p \in LineType /\ p.ts >= 1 /\ p.rank >= 1 /\ Before(p, l) /\ rd - 1 \in 1..Len(log) /\ rd > 1
  <2> SUFFICES ASSUME rd > start PROVE p \in LineType /\ p.ts >= 1 /\ p.rank >= 1 /\ Before(p, l) /\ rd - 1 \in 1..Len(log) /\ rd > 1
    OBVIOUS
  <2>1. rd - 1 \in 1..Len(log) /\ rd - 1 < rd /\ rd > 1
    BY <1>2
  <2> QED BY <2>1, <1>1 DEF IInv, TypeOK, LogOK
<1>5. resume.ts = 0 => resume.delivered = 0
  BY DEF IInv, CursorsOK, Reached, ZeroCursor, NoTime
<1>6. rd = start => l.rank = 1 /\ l.chunk = 0
  BY <1>1, <1>2 DEF ReadOK, FreshAt
<1>7. rd > start => \/ p.ts < l.ts /\ l.rank = 1 /\ l.chunk = 0
                    \/ p.ts = l.ts /\ l.chunk = 0 /\ l.rank = p.rank + 1
                    \/ p.ts = l.ts /\ l.chunk # 0 /\ l.rank = p.rank
  <2> SUFFICES ASSUME rd > start
               PROVE  \/ p.ts < l.ts /\ l.rank = 1 /\ l.chunk = 0
                      \/ p.ts = l.ts /\ l.chunk = 0 /\ l.rank = p.rank + 1
                      \/ p.ts = l.ts /\ l.chunk # 0 /\ l.rank = p.rank
    OBVIOUS
  <2>1. p.ts < l.ts \/ p.ts = l.ts
    BY <1>4 DEF Before
  <2>2. CASE p.ts < l.ts
    <3>1. FreshAt(rd)
      BY <2>2, <1>1 DEF LogOK
    <3> QED BY <2>2, <3>1, <1>2 DEF FreshAt
  <2>3. CASE p.ts = l.ts
    <3>1. rd \in 2..Len(log)
      BY <1>2, <1>4
    <3> QED BY <2>3, <3>1, <1>1 DEF LogOK, IsHead
  <2> QED BY <2>1, <2>2, <2>3
<1>8. /\ rd' = rd + 1 /\ start' = start /\ resume' = resume /\ log' = log /\ rd' - 1 = rd
      /\ filter' = AfterKeep(filter, Stamp(l))
      /\ Keep(filter, Stamp(l)) => pending' = Record(pending, Stamp(l))
      /\ ~Keep(filter, Stamp(l)) => pending' = pending
  BY <1>2 DEF Take, requestVars, loopVars, kubeletVars
<1>9. pending = IF rd = start \/ HeadCovered(p, resume) THEN resume ELSE Pos(p)
  BY <1>1 DEF ReadOK, PendingOK
<1>10. rd = start => filter = NewFilter(resume)
  BY <1>1 DEF ReadOK, FilterOK
<1>11. rd > start => FilterAfter(filter, resume, p)
  BY <1>1 DEF ReadOK, FilterOK
<1> HIDE DEF l, p
<1>12. CASE l.chunk = 0
  <2>1. Stamp(l) = l.ts
    BY <1>12 DEF Stamp
  <2>2. /\ FilterAfter(AfterKeep(filter, l.ts), resume, l)
        /\ Keep(filter, l.ts) <=> ~HeadCovered(l, resume)
        /\ Keep(filter, l.ts) => Record(pending, l.ts) = Pos(l) /\ Moves(pending, l.ts)
    <3>1. CASE rd = start
      BY <3>1, <1>1, <1>3, <1>5, <1>6, <1>9, <1>10, FilterFirst
    <3>2. CASE rd > start
      <4>1. \/ p.ts < l.ts /\ l.rank = 1
            \/ p.ts = l.ts /\ l.rank = p.rank + 1
        BY <3>2, <1>7, <1>12
      <4>2. pending = IF HeadCovered(p, resume) THEN resume ELSE Pos(p)
        BY <3>2, <1>2, <1>9
      <4> QED BY <3>2, <4>1, <4>2, <1>1, <1>3, <1>4, <1>5, <1>11, <1>12, FilterNext
    <3> QED BY <3>1, <3>2, <1>2
  <2>3. ~Covered(l, pending) \/ ~Keep(filter, l.ts)
    <3>1. CASE rd = start \/ HeadCovered(p, resume)
      BY <3>1, <2>2, <1>9, <1>12 DEF Covered, HeadCovered, IsHead
    <3>2. CASE rd > start /\ ~HeadCovered(p, resume)
      BY <3>2, <1>2, <1>3, <1>4, <1>9, NotCoveredAfter
    <3> QED BY <3>1, <3>2, <1>2
  <2>4. FilterOK'
    BY <2>1, <2>2, <1>2, <1>8 DEF FilterOK, FilterAfter, IsZero, l
  <2>5. pending' = IF HeadCovered(l, resume) THEN pending ELSE Pos(l)
    BY <2>1, <2>2, <1>8
  <2>6. HeadCovered(l, resume) => pending = resume
    BY <1>1, <1>2, <1>3, <1>4, <1>7, <1>9 DEF HeadCovered, LineType, CursorType
  <2>7. PendingOK'
    BY <2>5, <2>6, <1>2, <1>8 DEF PendingOK, HeadCovered, Pos, l
  <2>8. Keep(filter, l.ts) => After(Pos(l), pending)
    BY <2>3, <1>1, <1>3, <1>12 DEF After, Covered, IsHead, Pos, LineType, CursorType
  <2>9. ~Keep(filter, l.ts) => Covered(l, resume)
    BY <2>2, <1>12 DEF HeadCovered, Covered, IsHead
  <2> QED BY <2>1, <2>2, <2>3, <2>4, <2>5, <2>7, <2>8, <2>9, <1>8, <1>12 DEF IsHead, l
<1>13. CASE l.chunk # 0
  <2>1. rd > start /\ p.ts = l.ts /\ l.rank = p.rank
    BY <1>13, <1>2, <1>6, <1>7
  <2>2. Stamp(l) = NoTime /\ ~IsHead(l)
    BY <1>13 DEF Stamp, IsHead
  <2>3. Keep(filter, Stamp(l)) /\ AfterKeep(filter, Stamp(l)) = filter
    BY <2>2 DEF Keep, AfterKeep
  <2>4. ~Moves(pending, Stamp(l)) /\ Record(pending, Stamp(l)) = pending
    BY <2>2 DEF Moves, Record
  <2>5. FilterOK'
    BY <2>1, <2>3, <1>2, <1>8, <1>11 DEF FilterOK, FilterAfter, IsZero, l
  <2>6. PendingOK'
    BY <2>1, <2>3, <2>4, <1>2, <1>8, <1>9 DEF PendingOK, HeadCovered, Pos, l
  <2> QED BY <2>2, <2>3, <2>4, <2>5, <2>6, <1>8 DEF l
<1> QED BY <1>12, <1>13

\* The order of cursors is transitive.
LEMMA AfterTransitive ==
  ASSUME NEW a \in CursorType, NEW b \in CursorType, NEW c \in CursorType, After(a, b), NotBehind(b, c)
  PROVE  After(a, c)
  BY DEF After, NotBehind, CursorType

\* What reading a line leaves unchanged, as Receive and Tears share it.
LEMMA TakeInv ==
  ASSUME IInv, TypeOK', pc = "reading", rd \in 1..Len(log), NEW w \in BOOLEAN, Take(w),
         pc' \in {"reading", "flushing"} \/ (pc' = "ended" /\ batch' = {})
  PROVE  IInv'
<1> DEFINE l == log[rd]
           keep == Keep(filter, Stamp(l))
<1>1. /\ ReadOK /\ LogOK /\ NoGap /\ HandedOK /\ BaseOK /\ CursorsOK
      /\ stored \in CursorType /\ pending \in CursorType /\ pending' \in CursorType /\ resume \in CursorType
  BY DEF IInv, TypeOK
<1>2. Len(log) \in Nat /\ rd \in Nat /\ start \in Nat /\ start >= 1 /\ start <= rd /\ base \in Nat /\ origin \in Nat
  BY <1>1 DEF IInv, TypeOK, ReadOK
<1>3. l \in LineType
  <2>1. log \in Seq(LineType)
    BY DEF IInv, TypeOK
  <2> QED BY <2>1
<1>4. /\ FilterOK' /\ PendingOK'
      /\ ~keep => IsHead(l) /\ Covered(l, resume) /\ pending' = pending
      /\ keep /\ IsHead(l) => ~Covered(l, pending) /\ After(pending', pending) /\ Moves(pending, Stamp(l))
      /\ keep /\ ~IsHead(l) => pending' = pending /\ ~Moves(pending, Stamp(l))
  BY TakeReads
<1>5. /\ rd' = rd + 1
      /\ keep => batch' = batch \cup {rd} /\ cut' \subseteq cut \cup {rd}
      /\ keep => (advanced' <=> advanced \/ Moves(pending, Stamp(l)))
      /\ ~keep => batch' = batch /\ cut' = cut /\ advanced' = advanced
  BY DEF Take
<1>6. UNCHANGED <<log, base, now, stored, resume, start, delivered, handed, torn, origin>>
  BY DEF Take, loopVars, kubeletVars, registryVars, requestVars, historyVars
<1> HIDE DEF l, keep
<1>7. PrefixOK'
  <2> SUFFICES ASSUME NEW i \in base..rd, i >= origin PROVE i \in handed \cup torn \cup batch'
    BY <1>2, <1>5, <1>6 DEF PrefixOK
  <2>1. CASE i \in base..(rd - 1)
    BY <2>1, <1>1, <1>5 DEF ReadOK, PrefixOK
  <2>2. CASE i = rd /\ keep
    BY <2>2, <1>5
  <2>3. CASE i = rd /\ ~keep
    <3>1. Covered(l, stored)
      BY <2>3, <1>1, <1>3, <1>4, CoveredMonotone DEF CursorsOK
    <3> QED BY <2>3, <3>1, <1>1, <1>2 DEF NoGap, Wanted, l
  <2> QED BY <2>1, <2>2, <2>3, <1>2
<1>8. NotBehind(pending, stored)
  BY <1>1 DEF ReadOK, BatchOK, NotBehind
<1>9. BatchOK'
  <2>1. cut' \subseteq batch'
    BY <1>1, <1>5 DEF ReadOK, BatchOK
  <2>2. \A i \in batch' : i \in start..rd /\ (IsHead(log[i]) => ~Covered(log[i], stored))
    <3> SUFFICES ASSUME NEW i \in batch' PROVE i \in start..rd /\ (IsHead(log[i]) => ~Covered(log[i], stored))
      OBVIOUS
    <3>1. CASE i \in batch
      BY <3>1, <1>1, <1>2 DEF ReadOK, BatchOK
    <3>2. CASE i = rd /\ keep
      <4>1. IsHead(l) => ~Covered(l, stored)
        BY <3>2, <1>1, <1>3, <1>4, <1>8, CoveredMonotone
      <4> QED BY <3>2, <4>1, <1>2 DEF l
    <3> QED BY <3>1, <3>2, <1>5
  <2>3. (advanced => After(pending, stored)) /\ (~advanced => pending = stored)
    BY <1>1 DEF ReadOK, BatchOK
  <2>4. CASE keep /\ IsHead(l)
    <3>1. After(pending', stored) /\ advanced'
      BY <2>4, <1>1, <1>4, <1>5, <1>8, AfterTransitive
    <3> QED BY <2>1, <2>2, <3>1, <1>2, <1>5, <1>6 DEF BatchOK, After, Covered, IsHead
  <2>5. CASE ~(keep /\ IsHead(l))
    <3>1. pending' = pending /\ (advanced' <=> advanced)
      BY <2>5, <1>4, <1>5
    <3> QED BY <2>1, <2>2, <2>3, <3>1, <1>2, <1>5, <1>6 DEF BatchOK, After, Covered, IsHead
  <2> QED BY <2>4, <2>5
<1>10. ReadOK'
  <2>1. start' \in 1..(Len(log') + 1) /\ rd' \in start'..(Len(log') + 1)
    BY <1>2, <1>5, <1>6
  <2>2. FreshAt(start)'
    BY <1>1, <1>6 DEF ReadOK, FreshAt
  <2> QED BY <2>1, <2>2, <1>4, <1>7, <1>9 DEF ReadOK
<1>11. LogOK' /\ BaseOK'
  BY <1>1, <1>6 DEF LogOK, BaseOK, FreshAt, Before, IsHead
<1>12. CursorsOK'
  BY <1>1, <1>6 DEF CursorsOK, Reached, NotBehind, After, IsZero, ZeroCursor
<1>13. HandedOK' /\ NoGap'
  BY <1>1, <1>6 DEF HandedOK, NoGap, Wanted, Covered, IsHead
<1> QED BY <1>10, <1>11, <1>12, <1>13 DEF IInv, InConnection

\* A batch is answered for: everything up to rd is, and the cursor says so.
LEMMA FlushedInv == ASSUME IInv, Flushed PROVE IInv'
<1>1. /\ ReadOK /\ LogOK /\ NoGap /\ HandedOK /\ BaseOK /\ CursorsOK
      /\ stored \in CursorType /\ pending \in CursorType /\ resume \in CursorType /\ delivered \in CursorType
  BY DEF IInv, TypeOK, Flushed
<1>2. /\ Len(log) \in Nat /\ rd \in Nat /\ start \in Nat /\ start >= 1 /\ start <= rd /\ rd <= Len(log) + 1
      /\ base \in Nat \ {0} /\ origin \in Nat /\ \A i \in 1..Len(log) : log[i] \in LineType
  BY <1>1 DEF IInv, TypeOK, ReadOK
<1>3. /\ UNCHANGED <<log, base, now, resume, start, rd, filter, pending, origin>>
      /\ batch' = {} /\ cut' = {} /\ advanced' = FALSE
      /\ handed' \cup torn' = handed \cup torn \cup batch
      /\ pc' \in {"reading", "ended"}
  BY <1>1 DEF Flushed, loopVars, kubeletVars, requestVars, ReadOK, BatchOK
<1>4. Reached(pending)
  <2>1. CASE pending = resume
    BY <2>1, <1>1 DEF CursorsOK
  <2>2. CASE pending # resume
    <3> DEFINE p == log[rd - 1]
               z == log[Len(log)]
    <3>1. pending = Pos(p) /\ rd # start
      BY <2>2, <1>1 DEF ReadOK, PendingOK
    <3>2. rd - 1 \in 1..Len(log) /\ Len(log) \in 1..Len(log) /\ (rd - 1 = Len(log) \/ rd - 1 < Len(log))
      BY <3>1, <1>2
    <3>3. p \in LineType /\ z \in LineType /\ p.ts >= 1 /\ (p = z \/ Before(p, z))
      BY <3>2, <1>1, <1>2 DEF LogOK
    <3>4. Len(log) > 0
      BY <3>2
    <3> HIDE DEF p
    <3> QED BY <3>1, <3>3, <3>4 DEF Reached, Pos, Before, LineType
  <2> QED BY <2>1, <2>2
<1>5. stored' = pending /\ NotBehind(pending, stored)
  <2>1. CASE advanced
    <3>1. After(pending, stored)
      BY <2>1, <1>1 DEF ReadOK, BatchOK
    <3>2. ~IsZero(pending)
      BY <3>1, <1>1, <1>4 DEF Reached, After, IsZero, NoTime, CursorType, ZeroCursor
    <3> QED BY <2>1, <3>1, <3>2 DEF Flushed, Advance, NotBehind
  <2>2. CASE ~advanced
    BY <2>2, <1>1 DEF Flushed, ReadOK, BatchOK, NotBehind
  <2> QED BY <2>1, <2>2
<1>6. CursorsOK'
  <2>1. Reached(stored)' /\ Reached(resume)'
    BY <1>1, <1>3, <1>4, <1>5 DEF CursorsOK, Reached
  <2>2. NotBehind(pending, resume)
    BY <1>1, <1>5 DEF CursorsOK, NotBehind, After, CursorType
  <2>3. stored' = IF IsZero(delivered') THEN resume ELSE delivered'
    <3>1. CASE advanced
      <4>1. After(pending, stored) /\ delivered' = pending
        BY <3>1, <1>1 DEF Flushed, ReadOK, BatchOK
      <4>2. ~IsZero(pending)
        BY <4>1, <1>1, <1>4 DEF Reached, After, IsZero, NoTime, CursorType, ZeroCursor
      <4> QED BY <4>1, <4>2, <1>5
    <3>2. CASE ~advanced
      BY <3>2, <1>1 DEF Flushed, CursorsOK
    <3> QED BY <3>1, <3>2
  <2> QED BY <2>1, <2>2, <2>3, <1>3, <1>5 DEF CursorsOK, NotBehind, After, IsZero
<1>7. NoGap'
  <2> SUFFICES ASSUME NEW i \in 1..Len(log), Wanted(i), Covered(log[i], pending)
               PROVE  i \in handed \cup torn \cup batch
    BY <1>3, <1>5 DEF NoGap, Wanted, Covered, IsHead
  <2>1. CASE i < rd
    BY <2>1, <1>1, <1>2 DEF Wanted, ReadOK, PrefixOK
  <2>2. CASE i >= rd
    <3>1. pending = resume
      <4> SUFFICES ASSUME pending # resume PROVE FALSE
        OBVIOUS
      <4>1. pending = Pos(log[rd - 1]) /\ rd # start
        BY <1>1 DEF ReadOK, PendingOK
      <4>2. rd - 1 \in 1..Len(log) /\ rd - 1 < i
        BY <4>1, <2>2, <1>2
      <4>3. Before(log[rd - 1], log[i])
        BY <4>2, <1>1 DEF LogOK
      <4> QED BY <4>1, <4>2, <4>3, <1>2, NotCoveredAfter
    <3>2. Covered(log[i], stored)
      BY <3>1, <1>1, <1>2, CoveredMonotone DEF CursorsOK
    <3> QED BY <3>2, <1>1 DEF NoGap
  <2> QED BY <2>1, <2>2, <1>2
<1>8. HandedOK'
  <2> SUFFICES ASSUME NEW i \in handed \cup torn \cup batch
               PROVE  i \in 1..Len(log) /\ (IsHead(log[i]) => Covered(log[i], pending))
    BY <1>3, <1>5 DEF HandedOK, Covered, IsHead
  <2>1. CASE i \in handed \cup torn
    BY <2>1, <1>1, <1>2, <1>5, CoveredMonotone DEF HandedOK
  <2>2. CASE i \in batch
    <3>1. i \in start..(rd - 1)
      BY <2>2, <1>1 DEF ReadOK, BatchOK
    <3>2. i \in 1..Len(log) /\ rd - 1 \in 1..Len(log) /\ (i = rd - 1 \/ i < rd - 1) /\ rd # start
      BY <3>1, <1>2
    <3>3. log[i] = log[rd - 1] \/ Before(log[i], log[rd - 1])
      BY <3>2, <1>1 DEF LogOK
    <3>4. pending = Pos(log[rd - 1]) \/ HeadCovered(log[rd - 1], pending)
      BY <3>2, <1>1 DEF ReadOK, PendingOK
    <3> QED BY <3>2, <3>3, <3>4, <1>1, <1>2, CoveredUpTo DEF IsHead
  <2> QED BY <2>1, <2>2
<1>9. ReadOK'
  <2>1. FilterOK' /\ PendingOK' /\ FreshAt(start)'
    BY <1>1, <1>3 DEF ReadOK, FilterOK, FilterAfter, PendingOK, HeadCovered, Pos, FreshAt, NewFilter, IsZero,
       Flushed, kubeletVars
  <2>2. PrefixOK'
    BY <1>1, <1>3 DEF ReadOK, PrefixOK
  <2>3. BatchOK'
    BY <1>3, <1>5 DEF BatchOK
  <2> QED BY <2>1, <2>2, <2>3, <1>1, <1>3 DEF ReadOK
<1>10. LogOK' /\ BaseOK'
  <2>1. log' = log /\ base' = base /\ now' = now
    BY <1>3
  <2>2. LogOK'
    BY <2>1, <1>1 DEF LogOK, Before, IsHead, FreshAt
  <2>3. BaseOK'
    BY <2>1, <1>1 DEF BaseOK, FreshAt, IsHead
  <2> QED BY <2>2, <2>3
<1>11. TypeOK'
  BY FlushedType DEF IInv
<1> QED BY <1>3, <1>6, <1>7, <1>8, <1>9, <1>10, <1>11 DEF IInv, InConnection

\* Between connections only the cursors matter.
LEMMA OutsideInv ==
  ASSUME IInv, TypeOK', UNCHANGED <<log, base, now, stored, handed, torn, origin>>,
         pc' \notin {"reading", "flushing"}, batch' = {}, CursorsOK',
         (~InConnection => delivered = ZeroCursor)'
  PROVE  IInv'
<1>1. LogOK' /\ BaseOK'
  BY DEF IInv, LogOK, BaseOK, FreshAt, Before, IsHead
<1>2. HandedOK' /\ NoGap'
  BY DEF IInv, HandedOK, NoGap, Wanted, Covered, IsHead
<1> QED BY <1>1, <1>2 DEF IInv

\* A connection that ended leaves the cursor it published as the one to resume from.
LEMMA SettleInv ==
  ASSUME IInv, TypeOK', Settle, pc' \in {"connect", "sleeping", "done", "drainOpen"}
  PROVE  IInv'
<1>1. CursorsOK /\ stored \in CursorType /\ delivered \in CursorType
  BY DEF IInv, TypeOK
<1>2. stored' = stored /\ resume' = stored /\ delivered' = ZeroCursor
  BY <1>1 DEF Settle, CursorsOK, Advance, After, CursorType
<1>3. UNCHANGED <<log, base, now, handed, torn, origin>> /\ batch' = {}
  BY DEF Settle, kubeletVars, historyVars
<1>4. CursorsOK'
  BY <1>1, <1>2, <1>3 DEF CursorsOK, Reached, NotBehind, IsZero, ZeroCursor
<1> QED BY <1>2, <1>3, <1>4, OutsideInv DEF ZeroCursor

\* A stream that starts resumes from the stored cursor.
LEMMA StartStreamInv == ASSUME IInv, TypeOK', StartStream PROVE IInv'
<1> USE DEF StartStream, kubeletVars, registryVars, connVars, requestVars, readVars, historyVars
<1>1. delivered = ZeroCursor /\ batch = {} /\ CursorsOK
  BY DEF IInv, InConnection
<1>2. CursorsOK'
  BY <1>1 DEF CursorsOK, Reached, NotBehind, IsZero, ZeroCursor
<1>3. UNCHANGED <<log, base, now, stored, handed, torn, origin>> /\ batch' = {} /\ delivered' = ZeroCursor
  BY <1>1
<1>4. pc' = "connect"
  OBVIOUS
<1> QED BY <1>2, <1>3, <1>4, OutsideInv DEF ZeroCursor

\* A refused batch leaves the cursor where it was.
LEMMA RefusedInv == ASSUME IInv, TypeOK', FlushRefused PROVE IInv'
<1> USE DEF FlushRefused, loopVars, kubeletVars, registryVars, historyVars
<1>1. CursorsOK'
  BY DEF IInv, CursorsOK, Reached, NotBehind, After, IsZero, ZeroCursor
<1>2. pc' = "ended" /\ batch' = {} /\ UNCHANGED <<log, base, now, stored, handed, torn, origin>>
  OBVIOUS
<1> QED BY <1>1, <1>2, OutsideInv DEF InConnection

\* Every step preserves the invariant.
LEMMA StepInv == ASSUME IInv, [Next]_vars PROVE IInv'
<1>1. TypeOK /\ (pc = "reading" => rd >= 1)
  BY DEF IInv, ReadOK, TypeOK
<1>2. TypeOK'
  BY <1>1, StepType
<1> USE DEF kubeletVars, registryVars, streamVars, loopVars, connVars, requestVars, readVars, historyVars
<1>3. CASE Tick
  BY <1>2, <1>3, KubeletInv DEF Tick, IInv, TypeOK, BaseOK
<1>4. CASE StartInstance
  <2>1. FreshAt(Len(log) + 1)
    BY <1>4 DEF StartInstance, FreshAt, IInv, TypeOK
  <2> QED BY <2>1, <1>2, <1>4, KubeletInv DEF StartInstance, IInv, TypeOK, BaseOK
<1>5. CASE Rotate
  <2>1. PICK b \in (base + 1)..Len(log) : log[b].ts > log[b - 1].ts /\ base' = b
    BY <1>5 DEF Rotate
  <2>2. b \in 1..Len(log) /\ b >= base /\ b <= Len(log) + 1 /\ b - 1 \in 1..Len(log)
    BY <2>1 DEF IInv, TypeOK
  <2>3. log[b - 1].ts < log[b].ts
    BY <2>1, <2>2 DEF IInv, TypeOK, LineType
  <2>4. FreshAt(b)
    BY <2>2, <2>3 DEF IInv, LogOK
  <2>5. now' = now /\ now \in Nat
    BY <1>5 DEF Rotate, IInv, TypeOK
  <2>6. UNCHANGED <<log, stored, resume, start, rd, filter, pending, batch, cut,
                    advanced, delivered, handed, torn, origin, pc>>
    BY <1>5 DEF Rotate
  <2> QED BY <2>1, <2>2, <2>4, <2>5, <2>6, <1>2, KubeletInv
<1>6. CASE Crash \/ Exit
  BY <1>2, <1>6, Quiet DEF Crash, Exit, InstanceEnds, progress, IInv, InConnection
<1>7. CASE MarkTerminal \/ Cancel
  BY <1>2, <1>7, Quiet DEF MarkTerminal, Cancel, progress, IInv, InConnection
<1>8. CASE ReleaseStream
  BY <1>2, <1>8, Quiet DEF ReleaseStream, progress, IInv, InConnection
<1>9. CASE OpenFails
  BY <1>2, <1>9, Quiet DEF OpenFails, progress, IInv, InConnection
<1>10. CASE RetryConnect
  BY <1>2, <1>10, Quiet DEF RetryConnect, progress, IInv, InConnection
<1>11. CASE StopOnCancel \/ WakeUp \/ DrainOpenFails
  BY <1>2, <1>11, Quiet DEF StopOnCancel, WakeUp, DrainOpenFails, progress, IInv, InConnection
<1>12. CASE Expire \/ GoMute
  BY <1>2, <1>12, Quiet DEF Expire, GoMute, progress, IInv, InConnection
<1>13. CASE FlushTick
  BY <1>2, <1>13, Quiet DEF FlushTick, progress, IInv, InConnection
<1>14. CASE Eof \/ Broken
  <2>1. \E e \in {"eof", "broken"} : StreamEnds(e)
    BY <1>14 DEF Eof, Broken
  <2> QED BY <1>2, <2>1, Quiet DEF StreamEnds, progress, IInv, InConnection
<1>15. CASE Receive \/ Tears
  <2>1. Readable
    BY <1>15 DEF Receive, Tears
  <2>2. rd \in Nat /\ Len(log) \in Nat
    BY <1>1 DEF TypeOK
  <2>3. pc = "reading" /\ rd \in 1..Len(log)
    BY <2>1, <2>2, <1>1 DEF Readable
  <2>4. \E w \in BOOLEAN : Take(w)
    BY <1>15 DEF Receive, Tears
  <2>5. pc' \in {"reading", "flushing"} \/ (pc' = "ended" /\ batch' = {})
    BY <1>15 DEF Receive, Tears
  <2> QED BY <2>3, <2>4, <2>5, <1>2, TakeInv
<1>16. CASE EndedReconnect
  BY <1>2, <1>16, SettleInv DEF EndedReconnect
<1>17. CASE EndedTerminal \/ EndedDrain
  BY <1>2, <1>17, SettleInv DEF EndedTerminal, EndedDrain
<1>18. CASE UNCHANGED vars
  BY <1>2, <1>18, Quiet DEF vars, progress, IInv, InConnection
<1> QED
  BY <1>2, <1>3, <1>4, <1>5, <1>6, <1>7, <1>8, <1>9, <1>10, <1>11, <1>12, <1>13, <1>14, <1>15, <1>16, <1>17, <1>18,
     WriteInv, OpenInv, FlushedInv, StartStreamInv, RefusedInv
  DEF Next, Container, Receiver, Connect, Read, Finish, FlushDelivered, FlushDropped

-----------------------------------------------------------------------------
\* The invariant holds in every reachable state.
THEOREM Inductive == Spec => []IInv
<1>1. Init => IInv
  BY InitInv
<1>2. IInv /\ [Next]_vars => IInv'
  BY StepInv
<1> QED BY <1>1, <1>2, PTL DEF Spec

\* Every variable of the stream, its connection and the registry keeps its type.
THEOREM TypeCorrect == Spec => []TypeOK
<1>1. IInv => TypeOK
  BY DEF IInv
<1> QED BY <1>1, Inductive, PTL

\* The stored cursor never claims a line the pipeline was not handed.
THEOREM CursorSkipsNothing == Spec => []NoGap
<1>1. IInv => NoGap
  BY DEF IInv
<1> QED BY <1>1, Inductive, PTL

\* No stamped record waits in a batch that was delivered before.
THEOREM CursorRepeatsNothing == Spec => []NoDuplicates
<1>1. IInv => NoDuplicates
  <2> SUFFICES ASSUME IInv, NEW i \in batch, IsHead(log[i]), i \in handed PROVE FALSE
    BY DEF NoDuplicates
  <2>1. ReadOK
    BY DEF IInv
  <2>2. ~Covered(log[i], stored)
    BY <2>1 DEF ReadOK, BatchOK
  <2> QED BY <2>2 DEF IInv, HandedOK
<1> QED BY <1>1, Inductive, PTL

\* What a connection that saw the end of file has still to show.
CleanInv ==
  /\ pc = "reading" => err = "none"
  /\ pc = "flushing" /\ err = "eof" => limit # NoLimit /\ rd > limit
  /\ pc = "ended" /\ err = "eof" =>
       limit \in 0..Len(log) /\ \A i \in 1..limit : Wanted(i) => i \in handed \cup torn

\* A clean end leaves nothing behind, as everything before the read position is
\* in the batch or with the pipeline.
LEMMA StepClean == ASSUME IInv, CleanInv, [Next]_vars PROVE CleanInv'
<1> USE DEF kubeletVars, registryVars, streamVars, loopVars, connVars, requestVars, readVars, historyVars
<1>1. /\ Len(log) \in Nat /\ rd \in Nat /\ limit \in Nat \cup {NoLimit} /\ base \in Nat \ {0} /\ origin \in Nat
  BY DEF IInv, TypeOK
<1>2. pc \in {"reading", "flushing"} =>
        rd <= Len(log) + 1 /\ \A i \in base..(rd - 1) : i >= origin => i \in handed \cup torn \cup batch
  BY <1>1 DEF IInv, ReadOK, PrefixOK
<1>3. CASE Write \/ WriteChunk
  <2>1. Len(log') = Len(log) + 1 /\ UNCHANGED <<pc, err, limit, rd, base, origin, handed, torn>>
    BY <1>3 DEF Write, WriteChunk, IInv, TypeOK
  <2> QED BY <2>1, <1>1 DEF CleanInv, Wanted
<1>4. CASE Tick \/ MarkTerminal \/ Cancel \/ Expire \/ GoMute \/ UNCHANGED vars
  BY <1>4 DEF Tick, MarkTerminal, Cancel, Expire, GoMute, vars, CleanInv, Wanted
<1>5. CASE Crash \/ Exit
  <2>1. UNCHANGED <<log, pc, err, rd, base, origin, handed, torn>>
    BY <1>5 DEF Crash, Exit, InstanceEnds
  <2>2. limit' = limit \/ (pc \in {"reading", "flushing"} /\ limit = NoLimit)
    BY <1>5 DEF Crash, Exit, InstanceEnds
  <2> QED BY <2>1, <2>2 DEF CleanInv, Wanted
<1>6. CASE StartInstance \/ Rotate
  <2>1. UNCHANGED <<log, pc, err, limit, rd, origin, handed, torn>> /\ base' \in Nat /\ base' >= base
    BY <1>1, <1>6 DEF StartInstance, Rotate, IInv, BaseOK
  <2> QED BY <2>1, <1>1 DEF CleanInv, Wanted
<1>7. CASE StartStream \/ ReleaseStream \/ OpenFails \/ RetryConnect \/ StopOnCancel \/ WakeUp \/ DrainOpenFails
  <2>1. pc' \notin {"reading", "flushing", "ended"}
    BY <1>7 DEF StartStream, ReleaseStream, OpenFails, RetryConnect, StopOnCancel, WakeUp, DrainOpenFails
  <2> QED BY <2>1 DEF CleanInv
<1>8. CASE Open \/ DrainOpen
  <2>1. pc' = "reading" /\ err' = "none"
    BY <1>8 DEF Open, DrainOpen, Serve
  <2> QED BY <2>1 DEF CleanInv
<1>9. CASE Receive \/ Tears \/ FlushTick
  <2>1. pc = "reading" /\ err = "none" /\ err' \in {"none", "broken"} /\ (pc' = "reading" => err' = "none")
    BY <1>9 DEF Receive, Tears, FlushTick, Readable, CleanInv
  <2> QED BY <2>1 DEF CleanInv
<1>10. CASE Eof
  <2>1. /\ pc = "reading" /\ err' = "eof" /\ limit # NoLimit /\ rd > limit
        /\ pc' = IF batch = {} THEN "ended" ELSE "flushing"
        /\ UNCHANGED <<log, base, limit, rd, origin, handed, torn>>
    BY <1>10 DEF Eof, StreamEnds
  <2>2. batch = {} => \A i \in 1..limit : Wanted(i) => i \in handed \cup torn
    BY <2>1, <1>1, <1>2 DEF Wanted
  <2>3. limit \in 0..Len(log)
    BY <2>1, <1>1, <1>2
  <2> QED BY <2>1, <2>2, <2>3 DEF CleanInv, Wanted
<1>11. CASE Broken \/ FlushRefused
  <2>1. pc' \in {"flushing", "ended"} /\ err' \in {"broken", "refused"}
    BY <1>11 DEF Broken, StreamEnds, FlushRefused
  <2> QED BY <2>1 DEF CleanInv
<1>12. CASE Flushed
  <2>1. /\ pc = "flushing" /\ pc' = (IF err = "none" THEN "reading" ELSE "ended")
        /\ UNCHANGED <<log, base, limit, rd, origin, err>>
    BY <1>12 DEF Flushed
  <2>2. handed' \cup torn' = handed \cup torn \cup batch
    BY <1>12, <2>1 DEF Flushed, IInv, ReadOK, BatchOK
  <2>3. CASE err = "eof"
    <3>1. limit \in 0..Len(log) /\ rd > limit
      BY <2>1, <2>3, <1>1, <1>2 DEF CleanInv
    <3>2. \A i \in 1..limit : Wanted(i) => i \in handed' \cup torn'
      BY <2>1, <2>2, <3>1, <1>1, <1>2 DEF Wanted
    <3> QED BY <2>1, <2>3, <3>1, <3>2 DEF CleanInv, Wanted
  <2> QED BY <2>1, <2>3 DEF CleanInv
<1>13. CASE EndedReconnect \/ EndedTerminal \/ EndedDrain
  <2>1. pc' \notin {"reading", "flushing", "ended"}
    BY <1>13 DEF EndedReconnect, EndedTerminal, EndedDrain
  <2> QED BY <2>1 DEF CleanInv
<1> QED
  BY <1>3, <1>4, <1>5, <1>6, <1>7, <1>8, <1>9, <1>10, <1>11, <1>12, <1>13
  DEF Next, Container, Receiver, Connect, Read, Finish, FlushDelivered, FlushDropped

\* A connection that ended in an end of file has left no readable line behind.
THEOREM CleanEndsAreComplete == Spec => []CleanEndIsComplete
<1>1. Init => CleanInv
  BY DEF Init, CleanInv
<1>2. IInv /\ CleanInv /\ [Next]_vars => CleanInv'
  BY StepClean
<1>3. CleanInv => CleanEndIsComplete
  BY DEF CleanInv, CleanEndIsComplete
<1> QED BY <1>1, <1>2, <1>3, Inductive, PTL DEF Spec

-----------------------------------------------------------------------------
(* A container is given up on only when it is read out                     *)

ReadOut == \A i \in 1..Len(log) : Wanted(i) => i \in handed \cup torn

\* A terminal container writes no more and is not started again, so a final read
\* that is served to its end is served to the end of the log. A following
\* connection may have been an earlier instance's, which EndedTerminal notes.
DrainInv ==
  /\ terminal => phase = "exited"
  /\ pc = "drainOpen" => terminal
  /\ InConnection /\ draining => terminal /\ limit = Len(log)
  /\ pc = "done" /\ ~cancelled /\ abandoned = "no" => terminal /\ ReadOut
  /\ drained => terminal /\ pc = "idle" /\ (~cancelled /\ abandoned = "no" => ReadOut)

\* Only a clean end takes a stream that is neither cancelled nor stopped for one
\* of the Reasons to its release, and that end is the end of the log.
LEMMA StepDrain ==
  ASSUME IInv, CleanInv, DrainInv, [Next]_vars
  PROVE  DrainInv'
<1> USE DEF kubeletVars, registryVars, streamVars, loopVars, connVars, requestVars, readVars, historyVars
<1>1. Len(log) \in Nat /\ base \in Nat \ {0} /\ origin \in Nat /\ limit \in Nat \cup {NoLimit}
  BY DEF IInv, TypeOK
<1>2. CASE Write \/ WriteChunk
  <2>1. phase = "running" /\ UNCHANGED <<phase, terminal, pc, limit, draining, drained, cancelled, abandoned>>
    BY <1>2 DEF Write, WriteChunk
  <2> QED BY <2>1 DEF DrainInv, InConnection
<1>3. CASE Tick \/ GoMute \/ Expire \/ UNCHANGED vars
  BY <1>3 DEF Tick, GoMute, Expire, vars, DrainInv, InConnection, ReadOut, Wanted
<1>4. CASE StartInstance
  <2>1. phase = "waiting" /\ UNCHANGED <<terminal, pc, draining, drained, cancelled, abandoned>>
    BY <1>4 DEF StartInstance
  <2> QED BY <2>1 DEF DrainInv, InConnection
<1>5. CASE Crash \/ Exit
  <2>1. phase = "running" /\ UNCHANGED <<terminal, pc, draining, drained, cancelled, abandoned>>
    BY <1>5 DEF Crash, Exit, InstanceEnds
  <2> QED BY <2>1 DEF DrainInv, InConnection
<1>6. CASE Rotate
  <2>1. /\ UNCHANGED <<log, phase, terminal, pc, limit, draining, drained, cancelled, abandoned, handed, torn, origin>>
        /\ base' \in Nat /\ base' >= base
    BY <1>1, <1>6 DEF Rotate
  <2>2. ReadOut => ReadOut'
    BY <1>1, <2>1 DEF ReadOut, Wanted
  <2> QED BY <2>1, <2>2 DEF DrainInv, InConnection
<1>7. CASE MarkTerminal
  <2>1. /\ phase = "exited" /\ terminal' = TRUE
        /\ UNCHANGED <<log, base, phase, pc, limit, draining, drained, cancelled, abandoned, handed, torn, origin>>
    BY <1>7 DEF MarkTerminal
  <2> QED BY <2>1 DEF DrainInv, InConnection, ReadOut, Wanted
<1>8. CASE Cancel
  <2>1. /\ cancelled' = TRUE
        /\ UNCHANGED <<log, phase, terminal, pc, limit, draining, drained>>
    BY <1>8 DEF Cancel
  <2> QED BY <2>1 DEF DrainInv, InConnection
<1>9. CASE StartStream
  <2>1. /\ pc' = "connect" /\ ~drained /\ UNCHANGED <<phase, terminal, drained>>
    BY <1>9 DEF StartStream
  <2> QED BY <2>1 DEF DrainInv, InConnection
<1>10. CASE ReleaseStream
  <2>1. /\ pc = "done" /\ pc' = "idle" /\ drained' = (drained \/ terminal)
        /\ UNCHANGED <<log, base, phase, terminal, cancelled, abandoned, handed, torn, origin>>
    BY <1>10 DEF ReleaseStream
  <2>2. ReadOut' <=> ReadOut
    BY <2>1 DEF ReadOut, Wanted
  <2> QED BY <2>1, <2>2 DEF DrainInv, InConnection
<1>11. CASE Open
  <2>1. pc' = "reading" /\ draining' = FALSE /\ pc = "connect" /\ UNCHANGED <<phase, terminal, drained>>
    BY <1>11 DEF Open, Serve
  <2> QED BY <2>1 DEF DrainInv, InConnection
<1>12. CASE DrainOpen
  <2>1. /\ pc = "drainOpen" /\ pc' = "reading" /\ limit' = Len(log)
        /\ UNCHANGED <<log, phase, terminal, drained>>
    BY <1>12 DEF DrainOpen, Serve
  <2> QED BY <2>1 DEF DrainInv, InConnection
<1>13. CASE OpenFails \/ RetryConnect \/ StopOnCancel \/ WakeUp \/ DrainOpenFails
  <2>1. /\ pc \in {"connect", "connectWait", "sleeping", "drainOpen"}
        /\ pc' \in {"connect", "connectWait", "done"}
        /\ pc' = "done" => cancelled' \/ abandoned' # "no"
        /\ UNCHANGED <<phase, terminal, drained>>
    <3>1. CASE OpenFails
      <4>1. /\ pc = "connect" /\ pc' \in {"connectWait", "done"} /\ UNCHANGED <<phase, terminal, drained>>
        BY <3>1 DEF OpenFails
      <4>2. pc' = "done" => abandoned' = "gaveup"
        BY <3>1, Zenon DEF OpenFails
      <4> QED BY <4>1, <4>2
    <3>2. CASE RetryConnect \/ StopOnCancel \/ WakeUp \/ DrainOpenFails
      BY <3>2 DEF RetryConnect, StopOnCancel, WakeUp, DrainOpenFails
    <3> QED BY <1>13, <3>1, <3>2
  <2> QED BY <2>1 DEF DrainInv, InConnection
<1>14. CASE Receive \/ FlushTick \/ Eof \/ Broken \/ Tears \/ Flushed \/ FlushRefused
  <2>1. /\ pc \in {"reading", "flushing"} /\ pc' \in {"reading", "flushing", "ended"}
        /\ UNCHANGED <<log, phase, terminal, drained, limit, draining>>
    BY <1>14 DEF Receive, Readable, Take, FlushTick, Eof, Broken, StreamEnds, Tears, Flushed, FlushRefused
  <2> QED BY <2>1 DEF DrainInv, InConnection
<1>15. CASE EndedReconnect
  <2>1. pc = "ended" /\ pc' \in {"connect", "sleeping"} /\ UNCHANGED <<phase, terminal, drained>>
    BY <1>15 DEF EndedReconnect, Settle
  <2> QED BY <2>1 DEF DrainInv, InConnection
<1>16. CASE EndedTerminal \/ EndedDrain
  <2>1. /\ pc = "ended" /\ pc' \in {"done", "drainOpen"}
        /\ UNCHANGED <<log, base, phase, terminal, drained, cancelled, handed, torn, origin>>
    BY <1>16 DEF EndedTerminal, EndedDrain, Settle
  <2>2. terminal
    BY <1>16 DEF EndedTerminal, EndedDrain, DrainInv, InConnection
  <2>3. ASSUME pc' = "done", abandoned' = "no" PROVE ReadOut'
    <3>1. err = "eof"
      BY <1>16, <2>3 DEF EndedTerminal, EndedDrain
    <3>2. limit \in 0..Len(log) /\ \A i \in 1..limit : Wanted(i) => i \in handed \cup torn
      BY <2>1, <3>1 DEF CleanInv
    <3>3. ~(limit < Len(log))
      <4>1. CASE EndedTerminal
        BY <2>3, <3>1, <4>1 DEF EndedTerminal
      <4>2. CASE EndedDrain
        <5>1. limit = Len(log)
          BY <4>2 DEF EndedDrain, DrainInv, InConnection
        <5> QED BY <1>1, <5>1
      <4> QED BY <1>16, <4>1, <4>2
    <3>4. limit = Len(log)
      BY <1>1, <3>2, <3>3
    <3> QED BY <2>1, <3>2, <3>4 DEF ReadOut, Wanted
  <2> QED BY <2>1, <2>2, <2>3 DEF DrainInv, InConnection
<1> QED
  BY <1>2, <1>3, <1>4, <1>5, <1>6, <1>7, <1>8, <1>9, <1>10, <1>11, <1>12, <1>13, <1>14, <1>15, <1>16
  DEF Next, Container, Receiver, Connect, Read, Finish, FlushDelivered, FlushDropped

\* A container is recorded as drained only once every line it still has was
\* handed over, through any order of crashes, breaks, refusals, recycles and torn
\* lines, unless the receiver shuts down or the stream stopped early: because it
\* gave up connecting, its final read failed, or the end of file it saw was an
\* earlier instance's. Then it leaves lines, but none that the cursor claims.
THEOREM DrainedContainersAreReadOut == Spec => []DrainedIsReadOut
<1>1. Init => CleanInv /\ DrainInv
  BY DEF Init, CleanInv, DrainInv, InConnection
<1>2. IInv /\ CleanInv /\ DrainInv /\ [Next]_vars => (CleanInv /\ DrainInv)'
  BY StepClean, StepDrain
<1>3. IInv /\ DrainInv => DrainedIsReadOut
  BY DEF IInv, NoGap, DrainInv, DrainedIsReadOut, ReadOut
<1> QED BY <1>1, <1>2, <1>3, Inductive, PTL DEF Spec

\* Whenever no connection is open, a replacement stream would resume exactly
\* where this one would.
THEOREM CursorIsPublished == Spec => []ResumeIsStored
<1>1. IInv => ResumeIsStored
  BY DEF IInv, InConnection, ResumeIsStored, CursorsOK, IsZero, ZeroCursor, NoTime
<1> QED BY <1>1, Inductive, PTL
=============================================================================
