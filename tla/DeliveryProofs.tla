--------------------------- MODULE DeliveryProofs ---------------------------
(***************************************************************************)
(* ContainerStream implements Delivery: every step of the stream, of the   *)
(* kubelet and of the pipeline is a step of Delivery under Abstract, or    *)
(* changes nothing that Delivery sees.                                     *)
(***************************************************************************)
EXTENDS ContainerStreamProofs

\* What the refinement mapping is made of.
visible == <<log, base, origin, batch, handed, torn, stored>>

\* The lines the stored cursor claims.
Claimed == {i \in 1..Len(log) : Covered(log[i], stored)}

\* A step that leaves the mapped state alone is a stutter.
LEMMA Stutters == ASSUME UNCHANGED visible PROVE UNCHANGED Abstract!vars
  BY DEF visible, Abstract!vars, IsHead, Covered

\* A line behind everything a cursor has reached is not claimed by it.
LEMMA NewNotClaimed ==
  ASSUME NEW c \in CursorType, NEW p \in LineType, NEW l \in LineType, Before(p, l), l.ts >= 1,
         \/ c = ZeroCursor
         \/ c.ts < p.ts
         \/ c.ts = p.ts /\ c.delivered <= p.rank
  PROVE  ~Covered(l, c)
  BY DEF CursorType, LineType, Before, Covered, IsHead, ZeroCursor, NoTime

\* A written line or chunk is new to everyone.
LEMMA WriteStep == ASSUME IInv, IInv', Write \/ WriteChunk PROVE Abstract!Write
<1> DEFINE N == Len(log)
<1>1. /\ log \in Seq(LineType) /\ log' \in Seq(LineType) /\ N \in Nat
      /\ stored \in CursorType
  BY DEF IInv, TypeOK
<1>2. UNCHANGED <<base, origin, batch, handed, torn, stored>>
  BY DEF Write, WriteChunk, registryVars, streamVars, loopVars, connVars, requestVars, readVars, historyVars
<1>3. /\ Len(log') = N + 1 /\ log'[N + 1] \in LineType
      /\ \A i \in 1..N : log'[i] = log[i] /\ log[i] \in LineType
  <2>1. PICK l : log' = Append(log, l)
    BY DEF Write, WriteChunk
  <2>2. Len(log') = N + 1 /\ \A i \in 1..N : log'[i] = log[i] /\ log[i] \in LineType
    BY <1>1, <2>1
  <2>3. N + 1 \in 1..Len(log')
    BY <1>1, <2>2
  <2> QED BY <1>1, <2>2, <2>3
<1>4. LogOK' /\ Reached(stored)
  BY DEF IInv, CursorsOK
<1>5. ~Covered(log'[N + 1], stored)
  <2>1. log'[N + 1].ts >= 1
    BY <1>1, <1>3, <1>4 DEF LogOK
  <2>2. CASE stored = ZeroCursor
    BY <2>1, <2>2, <1>3 DEF Covered, ZeroCursor, NoTime, LineType, IsHead
  <2>3. CASE N > 0
    <3>1. N \in 1..Len(log') /\ N + 1 \in 1..Len(log') /\ N < N + 1 /\ N \in 1..N
      BY <2>3, <1>1, <1>3
    <3>2. Before(log'[N], log'[N + 1])
      BY <3>1, <1>4 DEF LogOK
    <3> QED BY <2>1, <3>1, <3>2, <1>1, <1>3, <1>4, NewNotClaimed DEF Reached
  <2> QED BY <2>2, <2>3, <1>4, <1>1 DEF Reached
<1>6. Claimed' = Claimed
  BY <1>1, <1>2, <1>3, <1>5 DEF Claimed, Covered, IsHead
<1>7. {i \in 1..Len(log) : IsHead(log[i])}' \in
        {{i \in 1..Len(log) : IsHead(log[i])}, {i \in 1..Len(log) : IsHead(log[i])} \cup {Len(log')}}
  <2>1. CASE IsHead(log'[N + 1])
    <3>1. {i \in 1..Len(log) : IsHead(log[i])}' = {i \in 1..Len(log) : IsHead(log[i])} \cup {N + 1}
      BY <2>1, <1>1, <1>3 DEF IsHead
    <3> QED BY <3>1, <1>3
  <2>2. CASE ~IsHead(log'[N + 1])
    <3>1. {i \in 1..Len(log) : IsHead(log[i])}' = {i \in 1..Len(log) : IsHead(log[i])}
      BY <2>2, <1>1, <1>3 DEF IsHead
    <3> QED BY <3>1
  <2> QED BY <2>1, <2>2
<1> QED BY <1>2, <1>3, <1>6, <1>7 DEF Abstract!Write, Claimed

\* A longer range contains a shorter one.
LEMMA RangeGrows ==
  ASSUME NEW a \in Nat, NEW b \in Nat, NEW n \in Nat, a <= b, b <= n + 1
  PROVE  1..(a - 1) \subseteq 1..(b - 1) /\ 1..(b - 1) \subseteq 1..n
  OBVIOUS

\* The kubelet stops serving lines.
LEMMA LoseStep == ASSUME IInv, IInv', StartInstance \/ Rotate PROVE Abstract!Lose
<1>1. base \in Nat /\ base' \in Nat /\ Len(log) \in Nat
  <2>1. base \in Nat \ {0} /\ base' \in Nat \ {0} /\ log \in Seq(LineType)
    BY DEF IInv, TypeOK
  <2> QED BY <2>1
<1>2. base \in 1..(Len(log) + 1) /\ (base \in 1..(Len(log) + 1))'
  BY DEF IInv, BaseOK
<1>3. base <= base'
  BY <1>1, <1>2 DEF StartInstance, Rotate
<1>4. UNCHANGED <<log, origin, batch, handed, torn, stored>>
  BY DEF StartInstance, Rotate, registryVars, streamVars, loopVars, connVars, requestVars, readVars, historyVars
<1>5. 1..(base - 1) \subseteq 1..(base' - 1) /\ 1..(base' - 1) \subseteq 1..Len(log)
  <2>1. base' \in 1..(Len(log) + 1)
    BY <1>2, <1>4
  <2>2. base' <= Len(log) + 1
    BY <2>1, <1>1
  <2> QED BY <2>2, <1>1, <1>3, RangeGrows
<1> QED BY <1>4, <1>5 DEF Abstract!Lose, IsHead, Covered

\* A connection without a cursor decides where delivery begins; any other
\* connect is a stutter.
LEMMA OpenStep == ASSUME IInv, IInv', Open \/ DrainOpen PROVE Abstract!Begin \/ UNCHANGED Abstract!vars
<1>1. PICK s \in base..(Len(log) + 1), f \in BOOLEAN : Serve(s, f)
  BY DEF Open, DrainOpen
<1>2. /\ UNCHANGED <<log, base, handed, torn, stored>> /\ batch' = {}
      /\ origin' = IF IsZero(resume) THEN s ELSE origin
  BY <1>1 DEF Serve, kubeletVars, registryVars
<1>3. batch = {} /\ stored = resume /\ LogOK /\ stored \in CursorType
  <2>1. pc \in {"connect", "drainOpen"}
    BY DEF Open, DrainOpen
  <2>2. batch = {} /\ delivered = ZeroCursor /\ CursorsOK /\ LogOK
    BY <2>1 DEF IInv, InConnection
  <2>3. stored \in CursorType
    BY DEF IInv, TypeOK
  <2> QED BY <2>2, <2>3 DEF CursorsOK, IsZero, ZeroCursor
<1>4. CASE ~IsZero(resume)
  BY <1>2, <1>3, <1>4, Stutters DEF visible
<1>5. CASE IsZero(resume)
  <2>1. Len(log) \in Nat /\ log \in Seq(LineType) /\ s \in Nat /\ base \in Nat \ {0}
    BY DEF IInv, TypeOK
  <2>2. Claimed = {}
    <3> SUFFICES ASSUME NEW i \in 1..Len(log) PROVE ~Covered(log[i], stored)
      BY DEF Claimed
    <3>1. log[i] \in LineType /\ log[i].ts >= 1
      BY <2>1, <1>3 DEF LogOK
    <3> QED BY <3>1, <1>3, <1>5 DEF Covered, IsZero, NoTime, LineType, IsHead
  <2>3. 1..(s - 1) \subseteq 1..Len(log)
    BY <2>1
  <2> QED BY <1>2, <1>3, <1>5, <2>2, <2>3 DEF Abstract!Begin, Claimed, IsHead, Covered
<1> QED BY <1>4, <1>5

\* A line the loop takes is offered after the ones before it, and only once.
LEMMA OfferStep == ASSUME IInv, IInv', Receive \/ Tears PROVE Abstract!Offer
<1>1. PICK w \in BOOLEAN : Take(w)
  BY DEF Receive, Tears
<1>2. UNCHANGED <<log, base, origin, handed, torn, stored>> /\ rd' = rd + 1 /\ (batch' = batch \/ batch' = batch \cup {rd})
  BY <1>1 DEF Take, kubeletVars, registryVars, historyVars
<1>3. pc = "reading" /\ rd <= Len(log)
  BY DEF Receive, Tears, Readable
<1>4. /\ Len(log) \in Nat /\ rd \in Nat /\ start \in Nat
      /\ start >= 1 /\ rd >= start /\ \A j \in batch : j \in start..(rd - 1)
  <2>1. Len(log) \in Nat /\ rd \in Nat /\ start \in Nat
    BY DEF IInv, TypeOK
  <2>2. ReadOK
    BY <1>3 DEF IInv
  <2> QED BY <2>1, <2>2 DEF ReadOK, BatchOK
<1>5. rd \in 1..Len(log) /\ batch \subseteq 1..Len(log) /\ \A j \in batch : j < rd
  BY <1>3, <1>4
<1>6. ASSUME rd \in batch', IsHead(log[rd]) PROVE rd \notin handed \cup torn
  <2>1. ReadOK'
    BY <1>6 DEF IInv
  <2>2. ~Covered(log'[rd], stored')
    BY <2>1, <1>6, <1>2 DEF ReadOK, BatchOK, IsHead
  <2> QED BY <2>2, <1>2, <1>6 DEF IInv, HandedOK, Covered, IsHead
<1>7. \A i \in batch' \ batch : i = rd
  BY <1>2
<1> QED BY <1>2, <1>5, <1>6, <1>7 DEF Abstract!Offer, IsHead, Covered

\* A flush hands the batch over and claims no more than was handed over.
LEMMA DeliverStep == ASSUME IInv, IInv', Flushed PROVE Abstract!Deliver
<1>1. /\ UNCHANGED <<log, base, origin>> /\ batch' = {}
      /\ handed' = handed \cup (batch \ cut) /\ torn' = torn \cup cut
      /\ stored' = stored \/ (stored' = pending /\ After(pending, stored))
  BY DEF Flushed, kubeletVars, Advance
<1>2. cut \subseteq batch
  BY DEF IInv, ReadOK, BatchOK, Flushed
<1>3. handed' \cup torn' = (handed \cup torn) \cup batch
  BY <1>1, <1>2
<1>4. /\ log \in Seq(LineType) /\ Len(log) \in Nat /\ stored \in CursorType /\ stored' \in CursorType
      /\ base \in Nat /\ origin \in Nat
  BY DEF IInv, TypeOK
<1>5. Claimed \subseteq Claimed'
  <2> SUFFICES ASSUME NEW i \in 1..Len(log), Covered(log[i], stored) PROVE Covered(log[i], stored')
    BY <1>1 DEF Claimed, Covered, IsHead
  <2>1. log[i] \in LineType
    BY <1>4
  <2> QED BY <2>1, <1>1, <1>4, CoveredMonotone DEF NotBehind
<1>6. \A i \in Claimed' : i \in handed' \cup torn' \/ i \in 1..(base - 1) \/ i \in 1..(origin - 1)
  <2> SUFFICES ASSUME NEW i \in 1..Len(log), Covered(log'[i], stored'), i >= base, i >= origin
               PROVE  i \in handed' \cup torn'
    BY <1>1, <1>4 DEF Claimed, Covered, IsHead
  <2>1. NoGap'
    BY DEF IInv
  <2> QED BY <2>1, <1>1, <1>4 DEF NoGap, Wanted
<1> QED BY <1>1, <1>3, <1>5, <1>6 DEF Abstract!Deliver, Claimed, IsHead

\* A refusal takes the offer back and claims nothing.
LEMMA RefuseStep == ASSUME FlushRefused PROVE Abstract!Refuse
  BY DEF FlushRefused, Abstract!Refuse, kubeletVars, registryVars, historyVars, IsHead, Covered

\* A connection that is over has published all it delivered.
LEMMA SettleStep ==
  ASSUME IInv, EndedReconnect \/ EndedTerminal \/ EndedDrain
  PROVE  UNCHANGED Abstract!vars
<1>1. Settle /\ pc = "ended"
  BY DEF EndedReconnect, EndedTerminal, EndedDrain
<1>2. CursorsOK /\ stored \in CursorType /\ delivered \in CursorType /\ batch = {}
  BY <1>1 DEF IInv, TypeOK
<1>3. stored' = stored
  BY <1>1, <1>2 DEF Settle, CursorsOK, Advance, After, CursorType
<1>4. UNCHANGED <<log, base, handed, torn, origin>> /\ batch' = {}
  BY <1>1 DEF Settle, kubeletVars, historyVars
<1> QED BY <1>2, <1>3, <1>4, Stutters DEF visible

\* Every step of the stream is a step of Delivery, or a stutter.
LEMMA Simulation == ASSUME IInv, IInv', [Next]_vars PROVE [Abstract!Next]_(Abstract!vars)
<1> USE DEF kubeletVars, registryVars, streamVars, loopVars, connVars, requestVars, readVars, historyVars
<1>1. CASE Tick \/ Crash \/ Exit \/ MarkTerminal \/ Cancel \/ UNCHANGED vars
  <2>1. UNCHANGED visible
    BY <1>1 DEF Tick, Crash, Exit, InstanceEnds, MarkTerminal, Cancel, vars, visible
  <2> QED BY <2>1, Stutters
<1>2. CASE StartStream \/ ReleaseStream \/ OpenFails \/ RetryConnect \/ StopOnCancel \/ WakeUp \/ DrainOpenFails
  <2>1. UNCHANGED visible
    BY <1>2 DEF StartStream, ReleaseStream, OpenFails, RetryConnect, StopOnCancel, WakeUp, DrainOpenFails, visible
  <2> QED BY <2>1, Stutters
<1>3. CASE Expire \/ GoMute \/ FlushTick \/ Eof \/ Broken
  <2>1. UNCHANGED visible
    BY <1>3 DEF Expire, GoMute, FlushTick, Eof, Broken, StreamEnds, visible
  <2> QED BY <2>1, Stutters
<1> QED
  BY <1>1, <1>2, <1>3, WriteStep, LoseStep, OpenStep, OfferStep, DeliverStep, RefuseStep, SettleStep
  DEF Next, Container, Receiver, Connect, Read, Finish, FlushDelivered, FlushDropped, Abstract!Next

\* The stream's first state is Delivery's.
LEMMA Starts == Init => Abstract!Init
  BY DEF Init, Abstract!Init

\* The follow loop implements the abstract delivery: lines are offered in
\* order, a stamped line that got through is not offered again, and the cursor
\* never claims a line that is still to be delivered.
THEOREM Implements == Spec => Delivers
<1>1. Init => Abstract!Init
  BY Starts
<1>2. IInv /\ IInv' /\ [Next]_vars => [Abstract!Next]_(Abstract!vars)
  BY Simulation
<1> QED BY <1>1, <1>2, Inductive, PTL DEF Spec, Delivers, Abstract!Spec
=============================================================================
