--------------------------- MODULE ConnectionProofs ---------------------------
(***************************************************************************)
(* Proofs about Connection and ConsumerRetry. The batch is always the lines*)
(* between the cursor and pending (BatchShape); the call divides it into   *)
(* what was taken and what is still to be sent (CallShape); and a reader   *)
(* that ended cleanly has put every line before the end into lineCh        *)
(* (EndShape). Cursor and batch together therefore account for every line. *)
(* The settled lines are those the cursor claims, so every step is one of  *)
(* Delivery or a stutter.                                                  *)
(***************************************************************************)
EXTENDS Connection, TLAPS

Open == {"select", "flush"}

LinesInOrder ==
  /\ taken <= sent /\ sent <= limit
  /\ reader = "send" => sent < limit

LoopShape ==
  /\ loop = "flush" <=> call # "idle"
  /\ loop \in Open => result = "none" /\ ~done
  /\ loop \notin Open => batch = {}
  /\ loop \in {"open", "select"} => ~atEnd
  /\ loop = "flush" /\ atEnd => reader = "exited" /\ taken = sent

BatchShape ==
  loop \in Open =>
    /\ resume <= pending /\ taken <= pending
    /\ pending \in {resume, taken}
    /\ batch = (resume + 1)..pending

CallShape ==
  /\ call \in {"send", "wait"} => took \cup data = batch /\ took \cap data = {} /\ spoilt = {}
  /\ call = "wait" /\ retry.maxElapsed # 0 => elapsed + delay <= retry.maxElapsed
  /\ call = "answered" =>
       /\ answer \in {"delivered", "dropped", "refused"}
       /\ took \subseteq batch /\ spoilt \subseteq batch
       /\ answer \in {"delivered", "dropped"} => took \cup spoilt = batch
       /\ answer # "dropped" => spoilt = {}

HandedShape == 1..resume \subseteq handed /\ handed \subseteq (1..resume) \cup owed

EndShape ==
  loop \in Open /\ reader = "exited" /\ readErr = "eof" => ends = "eof" /\ sent = limit

CInv ==
  /\ TypeOK /\ LinesInOrder /\ LoopShape /\ BatchShape /\ CallShape /\ HandedShape
  /\ EndShape /\ CleanEndIsComplete

\* What the assumptions say of the bounds.
LEMMA MaxLinesIsNat == MaxLines \in Nat /\ MaxElapsedTime \in Nat /\ MaxDelay \in Nat /\ Records = 1..MaxLines
BY SizeAssumption, DelayAssumption

\* A receiver that has not connected yet satisfies the invariant.
LEMMA InitHolds == Init => CInv
<1> SUFFICES ASSUME Init PROVE CInv
  OBVIOUS
<1>1. TypeOK
  <2>1. retry \in RetryConfigs /\ ctxDone \in BOOLEAN /\ done \in BOOLEAN /\ closed \in BOOLEAN /\ atEnd \in BOOLEAN
    BY DEF Init, RetryInit
  <2>2. /\ data = {} /\ took = {} /\ spoilt = {} /\ call = "idle" /\ answer = "none"
        /\ elapsed \in 0..MaxElapsedTime /\ delay \in 0..MaxDelay
    BY MaxLinesIsNat DEF Init, RetryInit
  <2>3. RetryTypeOK
    BY <2>1, <2>2 DEF RetryTypeOK
  <2>4. /\ limit \in 0..MaxLines /\ sent \in 0..MaxLines /\ taken \in 0..MaxLines
        /\ resume \in 0..MaxLines /\ pending \in 0..MaxLines
        /\ batch = {} /\ handed = {} /\ owed = {}
    BY MaxLinesIsNat DEF Init
  <2>5. ends = "open" /\ reader = "exited" /\ readErr = "eof" /\ loop = "open" /\ result = "none"
    BY DEF Init
  <2> QED
    BY <2>1, <2>3, <2>4, <2>5 DEF TypeOK
<1>2. LinesInOrder
  BY MaxLinesIsNat DEF Init, RetryInit, LinesInOrder, Open
<1>3. LoopShape
  BY MaxLinesIsNat DEF Init, RetryInit, LoopShape, Open
<1>4. BatchShape
  BY MaxLinesIsNat DEF Init, RetryInit, BatchShape, Open
<1>5. CallShape
  BY MaxLinesIsNat DEF Init, RetryInit, CallShape, Open
<1>6. HandedShape
  BY MaxLinesIsNat DEF Init, RetryInit, HandedShape, Open
<1>7. EndShape
  BY MaxLinesIsNat DEF Init, RetryInit, EndShape, Open
<1>8. CleanEndIsComplete
  BY MaxLinesIsNat DEF Init, RetryInit, CleanEndIsComplete, Open
<1> QED
  BY <1>1, <1>2, <1>3, <1>4, <1>5, <1>6, <1>7, <1>8 DEF CInv

\* The end the kubelet chooses lies behind what was read.
LEMMA PeerEndsKeeps ==
  ASSUME CInv, NEW e \in {"eof", "broken"}, PeerEnds(e)
  PROVE  CInv'
<1> USE MaxLinesIsNat DEF PeerEnds, callVars, retryVars, kubeletVars, readerVars, loopVars, historyVars, connVars
<1>1. TypeOK'
  BY DEF CInv, TypeOK, RetryTypeOK, CallShape, LinesInOrder
<1>2. LinesInOrder'
  BY DEF CInv, TypeOK, RetryTypeOK, LinesInOrder
<1>3. LoopShape'
  BY DEF CInv, TypeOK, RetryTypeOK, LoopShape, Open, LinesInOrder
<1>4. BatchShape'
  BY DEF CInv, TypeOK, RetryTypeOK, BatchShape, LoopShape, LinesInOrder, Open
<1>5. CallShape'
  BY DEF CInv, TypeOK, RetryTypeOK, CallShape, LoopShape
<1>6. HandedShape'
  BY DEF CInv, TypeOK, RetryTypeOK, HandedShape, BatchShape, CallShape, LoopShape, Open
<1>7. EndShape'
  BY DEF CInv, TypeOK, EndShape, LoopShape, Open, LinesInOrder
<1>8. CleanEndIsComplete'
  BY DEF CInv, TypeOK, CleanEndIsComplete, EndShape, LoopShape, BatchShape, HandedShape, CallShape, LinesInOrder, Open
<1> QED
  BY <1>1, <1>2, <1>3, <1>4, <1>5, <1>6, <1>7, <1>8 DEF CInv

\* A context that is done changes nothing of what is in flight.
LEMMA ContextDoneKeeps ==
  ASSUME CInv, ContextDone
  PROVE  CInv'
<1> USE MaxLinesIsNat DEF ContextDone, callVars, retryVars, kubeletVars, readerVars, loopVars, historyVars, connVars
<1>1. TypeOK'
  BY DEF CInv, TypeOK, RetryTypeOK, CallShape, LinesInOrder
<1>2. LinesInOrder'
  BY DEF CInv, TypeOK, RetryTypeOK, LinesInOrder
<1>3. LoopShape'
  BY DEF CInv, TypeOK, RetryTypeOK, LoopShape, Open, LinesInOrder
<1>4. BatchShape'
  BY DEF CInv, TypeOK, RetryTypeOK, BatchShape, LoopShape, LinesInOrder, Open
<1>5. CallShape'
  BY DEF CInv, TypeOK, RetryTypeOK, CallShape, LoopShape
<1>6. HandedShape'
  BY DEF CInv, TypeOK, RetryTypeOK, HandedShape, BatchShape, CallShape, LoopShape, Open
<1>7. EndShape'
  BY DEF CInv, TypeOK, EndShape, LoopShape, Open, LinesInOrder
<1>8. CleanEndIsComplete'
  BY DEF CInv, TypeOK, CleanEndIsComplete, EndShape, LoopShape, BatchShape, HandedShape, CallShape, LinesInOrder, Open
<1> QED
  BY <1>1, <1>2, <1>3, <1>4, <1>5, <1>6, <1>7, <1>8 DEF CInv

\* A new connection starts with an empty channel and batch, at the cursor.
LEMMA ConnectKeeps ==
  ASSUME CInv, Connect
  PROVE  CInv'
<1> USE MaxLinesIsNat DEF Connect, callVars, retryVars, kubeletVars, readerVars, loopVars, historyVars, connVars
<1>1. TypeOK'
  <2>1. RetryTypeOK'
    BY DEF CInv, TypeOK, RetryTypeOK
  <2>2. /\ limit' \in 0..MaxLines /\ sent' \in 0..MaxLines /\ taken' \in 0..MaxLines
        /\ resume' \in 0..MaxLines /\ pending' \in 0..MaxLines
    BY DEF CInv, TypeOK, LinesInOrder
  <2>3. /\ ends' \in {"open", "eof", "broken"} /\ reader' \in {"scan", "send", "exited"}
        /\ readErr' \in {"eof", "broken"} /\ loop' \in {"open", "select", "flush", "returned", "over"}
        /\ result' \in {"none", "eof", "broken", "refused"}
    BY DEF CInv, TypeOK
  <2>4. done' \in BOOLEAN /\ closed' \in BOOLEAN /\ atEnd' \in BOOLEAN
    BY DEF CInv, TypeOK
  <2>5. batch' \subseteq Records /\ handed' \subseteq Records /\ owed' \subseteq Records
    BY DEF CInv, TypeOK, RetryTypeOK
  <2> QED
    BY <2>1, <2>2, <2>3, <2>4, <2>5 DEF TypeOK
<1>2. LinesInOrder'
  BY DEF CInv, TypeOK, RetryTypeOK, LinesInOrder
<1>3. LoopShape'
  BY DEF CInv, TypeOK, RetryTypeOK, LoopShape, Open, LinesInOrder
<1>4. BatchShape'
  <2>1. batch' = {} /\ pending' = resume /\ resume' = resume /\ taken' \in 0..resume
    BY DEF CInv, LoopShape, Open
  <2>2. (resume + 1)..resume = {}
    BY DEF CInv, TypeOK
  <2> QED
    BY <2>1, <2>2 DEF CInv, TypeOK, BatchShape
<1>5. CallShape'
  BY DEF CInv, TypeOK, RetryTypeOK, CallShape, LoopShape
<1>6. HandedShape'
  BY DEF CInv, TypeOK, RetryTypeOK, HandedShape, BatchShape, CallShape, LoopShape, Open
<1>7. EndShape'
  BY DEF CInv, TypeOK, EndShape, LoopShape, Open, LinesInOrder
<1>8. CleanEndIsComplete'
  BY DEF CInv, TypeOK, CleanEndIsComplete, EndShape, LoopShape, BatchShape, HandedShape, CallShape, LinesInOrder, Open
<1> QED
  BY <1>1, <1>2, <1>3, <1>4, <1>5, <1>6, <1>7, <1>8 DEF CInv

\* A closed connection leaves no batch behind.
LEMMA CloseKeeps ==
  ASSUME CInv, Close
  PROVE  CInv'
<1> USE MaxLinesIsNat DEF Close, callVars, retryVars, kubeletVars, readerVars, loopVars, historyVars, connVars
<1>1. TypeOK'
  <2>1. RetryTypeOK'
    BY DEF CInv, TypeOK, RetryTypeOK
  <2>2. /\ limit' \in 0..MaxLines /\ sent' \in 0..MaxLines /\ taken' \in 0..MaxLines
        /\ resume' \in 0..MaxLines /\ pending' \in 0..MaxLines
    BY DEF CInv, TypeOK, LinesInOrder
  <2>3. /\ ends' \in {"open", "eof", "broken"} /\ reader' \in {"scan", "send", "exited"}
        /\ readErr' \in {"eof", "broken"} /\ loop' \in {"open", "select", "flush", "returned", "over"}
        /\ result' \in {"none", "eof", "broken", "refused"}
    BY DEF CInv, TypeOK
  <2>4. done' \in BOOLEAN /\ closed' \in BOOLEAN /\ atEnd' \in BOOLEAN
    BY DEF CInv, TypeOK
  <2>5. batch' \subseteq Records /\ handed' \subseteq Records /\ owed' \subseteq Records
    BY DEF CInv, TypeOK, RetryTypeOK
  <2> QED
    BY <2>1, <2>2, <2>3, <2>4, <2>5 DEF TypeOK
<1>2. LinesInOrder'
  BY DEF CInv, TypeOK, RetryTypeOK, LinesInOrder
<1>3. LoopShape'
  BY DEF CInv, TypeOK, RetryTypeOK, LoopShape, Open, LinesInOrder
<1>4. BatchShape'
  BY DEF CInv, TypeOK, RetryTypeOK, BatchShape, LoopShape, LinesInOrder, Open
<1>5. CallShape'
  BY DEF CInv, TypeOK, RetryTypeOK, CallShape, LoopShape
<1>6. HandedShape'
  BY DEF CInv, TypeOK, RetryTypeOK, HandedShape, BatchShape, CallShape, LoopShape, Open
<1>7. EndShape'
  BY DEF CInv, TypeOK, EndShape, LoopShape, Open, LinesInOrder
<1>8. CleanEndIsComplete'
  BY DEF CInv, TypeOK, CleanEndIsComplete, EndShape, LoopShape, BatchShape, HandedShape, CallShape, LinesInOrder, Open
<1> QED
  BY <1>1, <1>2, <1>3, <1>4, <1>5, <1>6, <1>7, <1>8 DEF CInv

\* The stream stops between two connections.
LEMMA FinishKeeps ==
  ASSUME CInv, Finish
  PROVE  CInv'
<1> USE MaxLinesIsNat DEF Finish, callVars, retryVars, kubeletVars, readerVars, loopVars, historyVars, connVars
<1>1. TypeOK'
  BY DEF CInv, TypeOK, RetryTypeOK, CallShape, LinesInOrder
<1>2. LinesInOrder'
  BY DEF CInv, TypeOK, RetryTypeOK, LinesInOrder
<1>3. LoopShape'
  BY DEF CInv, TypeOK, RetryTypeOK, LoopShape, Open, LinesInOrder
<1>4. BatchShape'
  BY DEF CInv, TypeOK, RetryTypeOK, BatchShape, LoopShape, LinesInOrder, Open
<1>5. CallShape'
  BY DEF CInv, TypeOK, RetryTypeOK, CallShape, LoopShape
<1>6. HandedShape'
  BY DEF CInv, TypeOK, RetryTypeOK, HandedShape, BatchShape, CallShape, LoopShape, Open
<1>7. EndShape'
  BY DEF CInv, TypeOK, EndShape, LoopShape, Open, LinesInOrder
<1>8. CleanEndIsComplete'
  BY DEF CInv, TypeOK, CleanEndIsComplete, EndShape, LoopShape, BatchShape, HandedShape, CallShape, LinesInOrder, Open
<1> QED
  BY <1>1, <1>2, <1>3, <1>4, <1>5, <1>6, <1>7, <1>8 DEF CInv

\* A line that was scanned is within the limit.
LEMMA ScanLineKeeps ==
  ASSUME CInv, ScanLine
  PROVE  CInv'
<1> USE MaxLinesIsNat DEF ScanLine, callVars, retryVars, kubeletVars, readerVars, loopVars, historyVars, connVars
<1>1. TypeOK'
  BY DEF CInv, TypeOK, RetryTypeOK, CallShape, LinesInOrder
<1>2. LinesInOrder'
  BY DEF CInv, TypeOK, RetryTypeOK, LinesInOrder
<1>3. LoopShape'
  BY DEF CInv, TypeOK, RetryTypeOK, LoopShape, Open, LinesInOrder
<1>4. BatchShape'
  BY DEF CInv, TypeOK, RetryTypeOK, BatchShape, LoopShape, LinesInOrder, Open
<1>5. CallShape'
  BY DEF CInv, TypeOK, RetryTypeOK, CallShape, LoopShape
<1>6. HandedShape'
  BY DEF CInv, TypeOK, RetryTypeOK, HandedShape, BatchShape, CallShape, LoopShape, Open
<1>7. EndShape'
  BY DEF CInv, TypeOK, EndShape, LoopShape, Open, LinesInOrder
<1>8. CleanEndIsComplete'
  BY DEF CInv, TypeOK, CleanEndIsComplete, EndShape, LoopShape, BatchShape, HandedShape, CallShape, LinesInOrder, Open
<1> QED
  BY <1>1, <1>2, <1>3, <1>4, <1>5, <1>6, <1>7, <1>8 DEF CInv

\* A clean end of the reader has sent every line.
LEMMA ScanEndsKeeps ==
  ASSUME CInv, ScanEnds
  PROVE  CInv'
<1> USE MaxLinesIsNat DEF ScanEnds, callVars, retryVars, kubeletVars, readerVars, loopVars, historyVars, connVars
<1>1. TypeOK'
  BY DEF CInv, TypeOK, RetryTypeOK, CallShape, LinesInOrder
<1>2. LinesInOrder'
  BY DEF CInv, TypeOK, RetryTypeOK, LinesInOrder
<1>3. LoopShape'
  BY DEF CInv, TypeOK, RetryTypeOK, LoopShape, Open, LinesInOrder
<1>4. BatchShape'
  BY DEF CInv, TypeOK, RetryTypeOK, BatchShape, LoopShape, LinesInOrder, Open
<1>5. CallShape'
  BY DEF CInv, TypeOK, RetryTypeOK, CallShape, LoopShape
<1>6. HandedShape'
  BY DEF CInv, TypeOK, RetryTypeOK, HandedShape, BatchShape, CallShape, LoopShape, Open
<1>7. EndShape'
  BY DEF CInv, TypeOK, EndShape, LoopShape, Open, LinesInOrder
<1>8. CleanEndIsComplete'
  BY DEF CInv, TypeOK, CleanEndIsComplete, EndShape, LoopShape, BatchShape, HandedShape, CallShape, LinesInOrder, Open
<1> QED
  BY <1>1, <1>2, <1>3, <1>4, <1>5, <1>6, <1>7, <1>8 DEF CInv

\* A send takes the channel no further than the limit.
LEMMA SendKeeps ==
  ASSUME CInv, Send
  PROVE  CInv'
<1> USE MaxLinesIsNat DEF Send, callVars, retryVars, kubeletVars, readerVars, loopVars, historyVars, connVars
<1>1. TypeOK'
  BY DEF CInv, TypeOK, RetryTypeOK, CallShape, LinesInOrder
<1>2. LinesInOrder'
  BY DEF CInv, TypeOK, RetryTypeOK, LinesInOrder
<1>3. LoopShape'
  BY DEF CInv, TypeOK, RetryTypeOK, LoopShape, Open, LinesInOrder
<1>4. BatchShape'
  BY DEF CInv, TypeOK, RetryTypeOK, BatchShape, LoopShape, LinesInOrder, Open
<1>5. CallShape'
  BY DEF CInv, TypeOK, RetryTypeOK, CallShape, LoopShape
<1>6. HandedShape'
  BY DEF CInv, TypeOK, RetryTypeOK, HandedShape, BatchShape, CallShape, LoopShape, Open
<1>7. EndShape'
  BY DEF CInv, TypeOK, EndShape, LoopShape, Open, LinesInOrder
<1>8. CleanEndIsComplete'
  BY DEF CInv, TypeOK, CleanEndIsComplete, EndShape, LoopShape, BatchShape, HandedShape, CallShape, LinesInOrder, Open
<1> QED
  BY <1>1, <1>2, <1>3, <1>4, <1>5, <1>6, <1>7, <1>8 DEF CInv

\* A send is given up only when the loop has gone.
LEMMA SendAbortedKeeps ==
  ASSUME CInv, SendAborted
  PROVE  CInv'
<1> USE MaxLinesIsNat DEF SendAborted, callVars, retryVars, kubeletVars, readerVars, loopVars, historyVars, connVars
<1>1. TypeOK'
  BY DEF CInv, TypeOK, RetryTypeOK, CallShape, LinesInOrder
<1>2. LinesInOrder'
  BY DEF CInv, TypeOK, RetryTypeOK, LinesInOrder
<1>3. LoopShape'
  BY DEF CInv, TypeOK, RetryTypeOK, LoopShape, Open, LinesInOrder
<1>4. BatchShape'
  BY DEF CInv, TypeOK, RetryTypeOK, BatchShape, LoopShape, LinesInOrder, Open
<1>5. CallShape'
  BY DEF CInv, TypeOK, RetryTypeOK, CallShape, LoopShape
<1>6. HandedShape'
  BY DEF CInv, TypeOK, RetryTypeOK, HandedShape, BatchShape, CallShape, LoopShape, Open
<1>7. EndShape'
  BY DEF CInv, TypeOK, EndShape, LoopShape, Open, LinesInOrder
<1>8. CleanEndIsComplete'
  BY DEF CInv, TypeOK, CleanEndIsComplete, EndShape, LoopShape, BatchShape, HandedShape, CallShape, LinesInOrder, Open
<1> QED
  BY <1>1, <1>2, <1>3, <1>4, <1>5, <1>6, <1>7, <1>8 DEF CInv

\* A line the filter keeps extends the batch by one, one it skips is behind the cursor.
LEMMA ReceiveLineKeeps ==
  ASSUME CInv, ReceiveLine
  PROVE  CInv'
<1> USE MaxLinesIsNat DEF ReceiveLine, Keep, Consume, callVars, retryVars, kubeletVars, readerVars, loopVars, historyVars, connVars
<1>0. /\ taken \in Nat /\ resume \in Nat /\ pending \in Nat /\ taken + 1 \in Records /\ taken' = taken + 1
      /\ batch \subseteq Records /\ resume' = resume /\ loop = "select"
      /\ \/ batch' = batch /\ pending' = pending /\ UNCHANGED retryVars /\ loop' = loop /\ ~(taken + 1 > resume)
         \/ /\ batch' = batch \cup {taken + 1} /\ pending' = taken + 1 /\ taken + 1 > resume
            /\ \/ loop' = "flush" /\ Consume(batch')
               \/ loop' = loop /\ UNCHANGED retryVars
  BY DEF CInv, TypeOK, LinesInOrder
<1>1. TypeOK'
  <2>1. RetryTypeOK'
    <3>1. CASE UNCHANGED retryVars
      BY <3>1 DEF CInv, TypeOK, RetryTypeOK
    <3>2. CASE Consume(batch') /\ batch' = batch \cup {taken + 1}
      BY <3>2, <1>0 DEF CInv, TypeOK, RetryTypeOK
    <3> QED
      BY <1>0, <3>1, <3>2
  <2>2. taken' \in 0..MaxLines /\ pending' \in 0..MaxLines /\ batch' \subseteq Records
    <3>1. batch' \subseteq Records
      BY <1>0
    <3>2. pending \in 0..MaxLines /\ taken + 1 \in 0..MaxLines
      BY <1>0 DEF CInv, TypeOK
    <3> QED
      BY <1>0, <3>1, <3>2
  <2>3. loop' \in {"open", "select", "flush", "returned", "over"}
    BY <1>0
  <2> QED
    BY <2>1, <2>2, <2>3 DEF CInv, TypeOK
<1>2. LinesInOrder'
  BY DEF CInv, TypeOK, RetryTypeOK, LinesInOrder
<1>3. LoopShape'
  BY DEF CInv, TypeOK, RetryTypeOK, LoopShape, Open, LinesInOrder
<1>4. BatchShape'
  <2>1. resume <= pending /\ taken <= pending /\ pending \in {resume, taken} /\ batch = (resume + 1)..pending
    BY <1>0 DEF CInv, BatchShape, Open
  <2>2. CASE ~(taken + 1 > resume)
    <3>1. pending = resume /\ taken' <= pending /\ batch' = batch /\ pending' = pending
      BY <1>0, <2>1, <2>2
    <3> QED
      BY <1>0, <2>1, <3>1 DEF BatchShape
  <2>3. CASE taken + 1 > resume
    <3>1. taken = pending
      BY <1>0, <2>1, <2>3
    <3>2. batch' = ((resume + 1)..pending) \cup {pending + 1} /\ pending' = pending + 1 /\ taken' = pending + 1
      BY <1>0, <2>1, <2>3, <3>1
    <3>3. ((resume + 1)..pending) \cup {pending + 1} = (resume + 1)..(pending + 1)
      BY <1>0, <2>1
    <3> QED
      BY <1>0, <2>1, <3>2, <3>3 DEF BatchShape
  <2> QED
    BY <1>0, <2>2, <2>3
<1>5. CallShape'
  BY DEF CInv, TypeOK, RetryTypeOK, CallShape, LoopShape
<1>6. HandedShape'
  BY DEF CInv, TypeOK, RetryTypeOK, HandedShape, BatchShape, CallShape, LoopShape, Open
<1>7. EndShape'
  BY DEF CInv, TypeOK, EndShape, LoopShape, Open, LinesInOrder
<1>8. CleanEndIsComplete'
  BY DEF CInv, TypeOK, CleanEndIsComplete, EndShape, LoopShape, BatchShape, HandedShape, CallShape, LinesInOrder, Open
<1> QED
  BY <1>1, <1>2, <1>3, <1>4, <1>5, <1>6, <1>7, <1>8 DEF CInv

\* A flush begins with all of the batch to send.
LEMMA FlushTickKeeps ==
  ASSUME CInv, FlushTick
  PROVE  CInv'
<1> USE MaxLinesIsNat DEF FlushTick, Consume, callVars, retryVars, kubeletVars, readerVars, loopVars, historyVars, connVars
<1>1. TypeOK'
  BY DEF CInv, TypeOK, RetryTypeOK, CallShape, LinesInOrder
<1>2. LinesInOrder'
  BY DEF CInv, TypeOK, RetryTypeOK, LinesInOrder
<1>3. LoopShape'
  BY DEF CInv, TypeOK, RetryTypeOK, LoopShape, Open, LinesInOrder
<1>4. BatchShape'
  BY DEF CInv, TypeOK, RetryTypeOK, BatchShape, LoopShape, LinesInOrder, Open
<1>5. CallShape'
  BY DEF CInv, TypeOK, RetryTypeOK, CallShape, LoopShape
<1>6. HandedShape'
  BY DEF CInv, TypeOK, RetryTypeOK, HandedShape, BatchShape, CallShape, LoopShape, Open
<1>7. EndShape'
  BY DEF CInv, TypeOK, EndShape, LoopShape, Open, LinesInOrder
<1>8. CleanEndIsComplete'
  BY DEF CInv, TypeOK, CleanEndIsComplete, EndShape, LoopShape, BatchShape, HandedShape, CallShape, LinesInOrder, Open
<1> QED
  BY <1>1, <1>2, <1>3, <1>4, <1>5, <1>6, <1>7, <1>8 DEF CInv

\* A closed channel is seen when it is empty, so the batch holds the rest.
LEMMA ChannelClosedKeeps ==
  ASSUME CInv, ChannelClosed
  PROVE  CInv'
<1> USE MaxLinesIsNat DEF ChannelClosed, Consume, Return, callVars, retryVars, kubeletVars, readerVars, loopVars, historyVars, connVars
<1>1. TypeOK'
  <2>1. RetryTypeOK'
    <3>1. CASE batch = {}
      BY <3>1 DEF CInv, TypeOK, RetryTypeOK
    <3>2. CASE batch # {}
      <4>1. /\ call' = "send" /\ data' = batch /\ elapsed' = 0 /\ delay' = 0 /\ answer' = "none"
            /\ took' = {} /\ spoilt' = {} /\ retry' = retry /\ ctxDone' = ctxDone
        BY <3>2
      <4>2. batch \subseteq Records /\ retry \in RetryConfigs /\ ctxDone \in BOOLEAN
        BY DEF CInv, TypeOK, RetryTypeOK
      <4> QED
        BY <4>1, <4>2 DEF RetryTypeOK
    <3> QED
      BY <3>1, <3>2
  <2>2. loop' \in {"open", "select", "flush", "returned", "over"} /\ result' \in {"none", "eof", "broken", "refused"}
    BY DEF CInv, TypeOK
  <2>3. done' \in BOOLEAN /\ atEnd' \in BOOLEAN
    BY DEF CInv, TypeOK
  <2> QED
    BY <2>1, <2>2, <2>3 DEF CInv, TypeOK
<1>2. LinesInOrder'
  BY DEF CInv, TypeOK, RetryTypeOK, LinesInOrder
<1>3. LoopShape'
  BY DEF CInv, TypeOK, RetryTypeOK, LoopShape, Open, LinesInOrder
<1>4. BatchShape'
  BY DEF CInv, TypeOK, RetryTypeOK, BatchShape, LoopShape, LinesInOrder, Open
<1>5. CallShape'
  BY DEF CInv, TypeOK, RetryTypeOK, CallShape, LoopShape
<1>6. HandedShape'
  BY DEF CInv, TypeOK, RetryTypeOK, HandedShape, BatchShape, CallShape, LoopShape, Open
<1>7. EndShape'
  BY DEF CInv, TypeOK, EndShape, LoopShape, Open, LinesInOrder
<1>8. CleanEndIsComplete'
  BY DEF CInv, TypeOK, CleanEndIsComplete, EndShape, LoopShape, BatchShape, HandedShape, CallShape, LinesInOrder, Open
<1> QED
  BY <1>1, <1>2, <1>3, <1>4, <1>5, <1>6, <1>7, <1>8 DEF CInv

\* A flush that succeeded moves the cursor to the end of the batch, one that failed leaves it owed.
LEMMA FlushEndsKeeps ==
  ASSUME CInv, FlushEnds
  PROVE  CInv'
<1> USE MaxLinesIsNat DEF FlushEnds, Return, callVars, retryVars, kubeletVars, readerVars, loopVars, historyVars, connVars
<1>10. answer \in {"delivered", "dropped", "refused"}
  BY DEF CInv, CallShape
<1>1. TypeOK'
  <2>1. RetryTypeOK'
    BY DEF CInv, TypeOK, RetryTypeOK
  <2>2. /\ limit' \in 0..MaxLines /\ sent' \in 0..MaxLines /\ taken' \in 0..MaxLines
        /\ resume' \in 0..MaxLines /\ pending' \in 0..MaxLines
    BY DEF CInv, TypeOK, LinesInOrder
  <2>3. /\ ends' \in {"open", "eof", "broken"} /\ reader' \in {"scan", "send", "exited"}
        /\ readErr' \in {"eof", "broken"} /\ loop' \in {"open", "select", "flush", "returned", "over"}
        /\ result' \in {"none", "eof", "broken", "refused"}
    BY DEF CInv, TypeOK
  <2>4. done' \in BOOLEAN /\ closed' \in BOOLEAN /\ atEnd' \in BOOLEAN
    BY DEF CInv, TypeOK
  <2>5. batch' \subseteq Records /\ handed' \subseteq Records /\ owed' \subseteq Records
    BY DEF CInv, TypeOK, RetryTypeOK
  <2> QED
    BY <2>1, <2>2, <2>3, <2>4, <2>5 DEF TypeOK
<1>2. LinesInOrder'
  BY DEF CInv, TypeOK, RetryTypeOK, LinesInOrder
<1>3. LoopShape'
  BY DEF CInv, TypeOK, RetryTypeOK, LoopShape, Open, LinesInOrder
<1>4. BatchShape'
  BY DEF CInv, TypeOK, RetryTypeOK, BatchShape, LoopShape, LinesInOrder, Open
<1>5. CallShape'
  BY DEF CInv, TypeOK, RetryTypeOK, CallShape, LoopShape
<1>6. HandedShape'
  <2>0. resume \in Nat /\ pending \in Nat /\ resume <= pending /\ batch = (resume + 1)..pending
    BY DEF CInv, TypeOK, BatchShape, Open
  <2>1. CASE answer = "refused"
    <3>1. took \subseteq batch /\ spoilt = {} /\ resume' = resume /\ owed' = owed \cup took /\ handed' = handed \cup took
      BY <2>1 DEF CInv, CallShape
    <3> QED
      BY <3>1 DEF CInv, HandedShape
  <2>2. CASE answer # "refused"
    <3>1. answer \in {"delivered", "dropped"}
      BY <2>2, <1>10 DEF CInv, CallShape
    <3>2. took \cup spoilt = batch /\ resume' = pending /\ owed' = owed /\ handed' = handed \cup batch
      BY <2>2, <3>1 DEF CInv, CallShape
    <3>3. 1..pending = (1..resume) \cup ((resume + 1)..pending)
      BY <2>0
    <3> QED
      BY <2>0, <3>2, <3>3 DEF CInv, HandedShape
  <2> QED
    BY <2>1, <2>2
<1>7. EndShape'
  BY DEF CInv, TypeOK, EndShape, LoopShape, Open, LinesInOrder
<1>8. CleanEndIsComplete'
  <2> SUFFICES ASSUME result' = "eof" PROVE 1..limit \subseteq handed'
    BY DEF CleanEndIsComplete
  <2>1. answer # "refused" /\ atEnd /\ readErr = "eof" /\ resume' = pending
    BY DEF CInv, LoopShape, Open
  <2>2. reader = "exited" /\ taken = sent /\ sent = limit /\ taken <= pending
    BY <2>1 DEF CInv, LoopShape, EndShape, BatchShape, Open
  <2>3. 1..pending \subseteq handed'
    BY <1>6, <2>1 DEF HandedShape
  <2> QED
    BY <2>2, <2>3 DEF CInv, TypeOK
<1> QED
  BY <1>1, <1>2, <1>3, <1>4, <1>5, <1>6, <1>7, <1>8 DEF CInv

\* An accepted attempt leaves nothing to send.
LEMMA AcceptedKeeps ==
  ASSUME CInv, Accepted, UNCHANGED connVars
  PROVE  CInv'
<1> USE MaxLinesIsNat DEF Accepted, Answer, callVars, retryVars, kubeletVars, readerVars, loopVars, historyVars, connVars
<1>1. TypeOK'
  BY DEF CInv, TypeOK, RetryTypeOK, CallShape, LinesInOrder
<1>2. LinesInOrder'
  BY DEF CInv, TypeOK, RetryTypeOK, LinesInOrder
<1>3. LoopShape'
  BY DEF CInv, TypeOK, RetryTypeOK, LoopShape, Open, LinesInOrder
<1>4. BatchShape'
  BY DEF CInv, TypeOK, RetryTypeOK, BatchShape, LoopShape, LinesInOrder, Open
<1>5. CallShape'
  BY DEF CInv, TypeOK, RetryTypeOK, CallShape, LoopShape
<1>6. HandedShape'
  BY DEF CInv, TypeOK, RetryTypeOK, HandedShape, BatchShape, CallShape, LoopShape, Open
<1>7. EndShape'
  BY DEF CInv, TypeOK, EndShape, LoopShape, Open, LinesInOrder
<1>8. CleanEndIsComplete'
  BY DEF CInv, TypeOK, CleanEndIsComplete, EndShape, LoopShape, BatchShape, HandedShape, CallShape, LinesInOrder, Open
<1> QED
  BY <1>1, <1>2, <1>3, <1>4, <1>5, <1>6, <1>7, <1>8 DEF CInv

\* A permanent error ends the call.
LEMMA RefusedForGoodKeeps ==
  ASSUME CInv, RefusedForGood, UNCHANGED connVars
  PROVE  CInv'
<1> USE MaxLinesIsNat DEF RefusedForGood, Answer, callVars, retryVars, kubeletVars, readerVars, loopVars, historyVars, connVars
<1>1. TypeOK'
  BY DEF CInv, TypeOK, RetryTypeOK, CallShape, LinesInOrder
<1>2. LinesInOrder'
  BY DEF CInv, TypeOK, RetryTypeOK, LinesInOrder
<1>3. LoopShape'
  BY DEF CInv, TypeOK, RetryTypeOK, LoopShape, Open, LinesInOrder
<1>4. BatchShape'
  BY DEF CInv, TypeOK, RetryTypeOK, BatchShape, LoopShape, LinesInOrder, Open
<1>5. CallShape'
  BY DEF CInv, TypeOK, RetryTypeOK, CallShape, LoopShape
<1>6. HandedShape'
  BY DEF CInv, TypeOK, RetryTypeOK, HandedShape, BatchShape, CallShape, LoopShape, Open
<1>7. EndShape'
  BY DEF CInv, TypeOK, EndShape, LoopShape, Open, LinesInOrder
<1>8. CleanEndIsComplete'
  BY DEF CInv, TypeOK, CleanEndIsComplete, EndShape, LoopShape, BatchShape, HandedShape, CallShape, LinesInOrder, Open
<1> QED
  BY <1>1, <1>2, <1>3, <1>4, <1>5, <1>6, <1>7, <1>8 DEF CInv

\* A refusal for now takes nothing.
LEMMA RefusedForNowKeeps ==
  ASSUME CInv, RefusedForNow, UNCHANGED connVars
  PROVE  CInv'
<1> USE MaxLinesIsNat DEF RefusedForNow, BackOff, Answer, Stops, callVars, retryVars, kubeletVars, readerVars, loopVars, historyVars, connVars
<1>1. TypeOK'
  BY DEF CInv, TypeOK, RetryTypeOK, CallShape, LinesInOrder
<1>2. LinesInOrder'
  BY DEF CInv, TypeOK, RetryTypeOK, LinesInOrder
<1>3. LoopShape'
  BY DEF CInv, TypeOK, RetryTypeOK, LoopShape, Open, LinesInOrder
<1>4. BatchShape'
  BY DEF CInv, TypeOK, RetryTypeOK, BatchShape, LoopShape, LinesInOrder, Open
<1>5. CallShape'
  <2>1. PICK d \in 1..MaxDelay :
          \/ (~retry.enabled \/ Stops(d)) /\ Answer("refused")
          \/ retry.enabled /\ ~Stops(d) /\ call' = "wait" /\ delay' = d /\ UNCHANGED answer
    BY DEF BackOff
  <2>2. took \cup data = batch /\ took \cap data = {} /\ spoilt = {}
    BY DEF CInv, CallShape
  <2>3. CASE call' = "answered"
    BY <2>1, <2>2, <2>3 DEF CallShape
  <2>4. CASE call' = "wait"
    <3>0. retry.maxElapsed \in Nat /\ elapsed \in Nat
      <4>1. retry.maxElapsed \in {0, MaxElapsedTime}
        BY DEF CInv, TypeOK, RetryTypeOK, RetryConfigs
      <4> QED
        BY <4>1 DEF CInv, TypeOK, RetryTypeOK
    <3>1. retry.maxElapsed # 0 => elapsed + delay' <= retry.maxElapsed
      BY <2>1, <2>4, <3>0
    <3> QED
      BY <2>2, <2>4, <3>1 DEF CallShape
  <2> QED
    BY <2>1, <2>3, <2>4
<1>6. HandedShape'
  BY DEF CInv, TypeOK, RetryTypeOK, HandedShape, BatchShape, CallShape, LoopShape, Open
<1>7. EndShape'
  BY DEF CInv, TypeOK, EndShape, LoopShape, Open, LinesInOrder
<1>8. CleanEndIsComplete'
  BY DEF CInv, TypeOK, CleanEndIsComplete, EndShape, LoopShape, BatchShape, HandedShape, CallShape, LinesInOrder, Open
<1> QED
  BY <1>1, <1>2, <1>3, <1>4, <1>5, <1>6, <1>7, <1>8 DEF CInv

\* A partial acceptance divides what is to be sent in two.
LEMMA AcceptedInPartKeeps ==
  ASSUME CInv, AcceptedInPart, UNCHANGED connVars
  PROVE  CInv'
<1> USE MaxLinesIsNat DEF AcceptedInPart, BackOff, Answer, Stops, callVars, retryVars, kubeletVars, readerVars, loopVars, historyVars, connVars
<1>1. TypeOK'
  BY DEF CInv, TypeOK, RetryTypeOK, CallShape, LinesInOrder
<1>2. LinesInOrder'
  BY DEF CInv, TypeOK, RetryTypeOK, LinesInOrder
<1>3. LoopShape'
  BY DEF CInv, TypeOK, RetryTypeOK, LoopShape, Open, LinesInOrder
<1>4. BatchShape'
  BY DEF CInv, TypeOK, RetryTypeOK, BatchShape, LoopShape, LinesInOrder, Open
<1>5. CallShape'
  <2>1. PICK d \in 1..MaxDelay :
          \/ (~retry.enabled \/ Stops(d)) /\ Answer("refused")
          \/ retry.enabled /\ ~Stops(d) /\ call' = "wait" /\ delay' = d /\ UNCHANGED answer
    BY DEF BackOff
  <2>2. PICK part \in SUBSET data : took' = took \cup part /\ data' = data \ part
    OBVIOUS
  <2>3. took \cup data = batch /\ took \cap data = {} /\ spoilt = {}
    BY DEF CInv, CallShape
  <2>4. took' \cup data' = batch /\ took' \cap data' = {} /\ spoilt' = {} /\ took' \subseteq batch
    BY <2>2, <2>3
  <2>5. CASE call' = "answered"
    BY <2>1, <2>4, <2>5 DEF CallShape
  <2>6. CASE call' = "wait"
    <3>0. retry.maxElapsed \in Nat /\ elapsed \in Nat
      <4>1. retry.maxElapsed \in {0, MaxElapsedTime}
        BY DEF CInv, TypeOK, RetryTypeOK, RetryConfigs
      <4> QED
        BY <4>1 DEF CInv, TypeOK, RetryTypeOK
    <3>1. retry.maxElapsed # 0 => elapsed + delay' <= retry.maxElapsed
      BY <2>1, <2>6, <3>0
    <3> QED
      BY <2>4, <2>6, <3>1 DEF CallShape
  <2> QED
    BY <2>1, <2>5, <2>6
<1>6. HandedShape'
  BY DEF CInv, TypeOK, RetryTypeOK, HandedShape, BatchShape, CallShape, LoopShape, Open
<1>7. EndShape'
  BY DEF CInv, TypeOK, EndShape, LoopShape, Open, LinesInOrder
<1>8. CleanEndIsComplete'
  BY DEF CInv, TypeOK, CleanEndIsComplete, EndShape, LoopShape, BatchShape, HandedShape, CallShape, LinesInOrder, Open
<1> QED
  BY <1>1, <1>2, <1>3, <1>4, <1>5, <1>6, <1>7, <1>8 DEF CInv

\* The next attempt sends what the last one left.
LEMMA WaitOverKeeps ==
  ASSUME CInv, WaitOver, UNCHANGED connVars
  PROVE  CInv'
<1> USE MaxLinesIsNat DEF WaitOver, callVars, retryVars, kubeletVars, readerVars, loopVars, historyVars, connVars
<1>1. TypeOK'
  <2>1. retry.maxElapsed \in {0, MaxElapsedTime}
    BY DEF CInv, TypeOK, RetryTypeOK, RetryConfigs
  <2>2. elapsed' \in 0..MaxElapsedTime
    BY <2>1 DEF CInv, TypeOK, RetryTypeOK, CallShape
  <2> QED
    BY <2>2 DEF CInv, TypeOK, RetryTypeOK
<1>2. LinesInOrder'
  BY DEF CInv, TypeOK, RetryTypeOK, LinesInOrder
<1>3. LoopShape'
  BY DEF CInv, TypeOK, RetryTypeOK, LoopShape, Open, LinesInOrder
<1>4. BatchShape'
  BY DEF CInv, TypeOK, RetryTypeOK, BatchShape, LoopShape, LinesInOrder, Open
<1>5. CallShape'
  BY DEF CInv, TypeOK, RetryTypeOK, CallShape, LoopShape
<1>6. HandedShape'
  BY DEF CInv, TypeOK, RetryTypeOK, HandedShape, BatchShape, CallShape, LoopShape, Open
<1>7. EndShape'
  BY DEF CInv, TypeOK, EndShape, LoopShape, Open, LinesInOrder
<1>8. CleanEndIsComplete'
  BY DEF CInv, TypeOK, CleanEndIsComplete, EndShape, LoopShape, BatchShape, HandedShape, CallShape, LinesInOrder, Open
<1> QED
  BY <1>1, <1>2, <1>3, <1>4, <1>5, <1>6, <1>7, <1>8 DEF CInv

\* A cancelled wait ends the call with the rest unsent.
LEMMA WaitCancelledKeeps ==
  ASSUME CInv, WaitCancelled, UNCHANGED connVars
  PROVE  CInv'
<1> USE MaxLinesIsNat DEF WaitCancelled, Answer, callVars, retryVars, kubeletVars, readerVars, loopVars, historyVars, connVars
<1>1. TypeOK'
  BY DEF CInv, TypeOK, RetryTypeOK, CallShape, LinesInOrder
<1>2. LinesInOrder'
  BY DEF CInv, TypeOK, RetryTypeOK, LinesInOrder
<1>3. LoopShape'
  BY DEF CInv, TypeOK, RetryTypeOK, LoopShape, Open, LinesInOrder
<1>4. BatchShape'
  BY DEF CInv, TypeOK, RetryTypeOK, BatchShape, LoopShape, LinesInOrder, Open
<1>5. CallShape'
  BY DEF CInv, TypeOK, RetryTypeOK, CallShape, LoopShape
<1>6. HandedShape'
  BY DEF CInv, TypeOK, RetryTypeOK, HandedShape, BatchShape, CallShape, LoopShape, Open
<1>7. EndShape'
  BY DEF CInv, TypeOK, EndShape, LoopShape, Open, LinesInOrder
<1>8. CleanEndIsComplete'
  BY DEF CInv, TypeOK, CleanEndIsComplete, EndShape, LoopShape, BatchShape, HandedShape, CallShape, LinesInOrder, Open
<1> QED
  BY <1>1, <1>2, <1>3, <1>4, <1>5, <1>6, <1>7, <1>8 DEF CInv

-----------------------------------------------------------------------------
(* Theorems                                                                *)

\* Every step keeps the invariant.
LEMMA StepKeeps == CInv /\ [Next]_vars => CInv'
<1> SUFFICES ASSUME CInv, [Next]_vars PROVE CInv'
  OBVIOUS
<1>1. CASE Kubelet \/ ContextDone
  BY <1>1, PeerEndsKeeps, ContextDoneKeeps DEF Kubelet
<1>2. CASE Connect \/ Close \/ Finish
  BY <1>2, ConnectKeeps, CloseKeeps, FinishKeeps
<1>3. CASE Reader
  BY <1>3, ScanLineKeeps, ScanEndsKeeps, SendKeeps, SendAbortedKeeps DEF Reader
<1>4. CASE Loop
  BY <1>4, ReceiveLineKeeps, FlushTickKeeps, ChannelClosedKeeps, FlushEndsKeeps DEF Loop
<1>5. CASE Pipeline
  BY <1>5, AcceptedKeeps, RefusedForGoodKeeps, RefusedForNowKeeps, AcceptedInPartKeeps,
     WaitOverKeeps, WaitCancelledKeeps DEF Pipeline, Retrying, Attempt
<1>6. CASE UNCHANGED vars
  <2>1. UNCHANGED <<retry, ctxDone, call, data, elapsed, delay, answer, took, spoilt, ends, limit, reader, sent,
                    readErr, taken, done, closed, loop, atEnd, batch, resume, pending, result, handed, owed>>
    BY <1>6 DEF vars, callVars, retryVars, kubeletVars, readerVars, loopVars, historyVars, connVars
  <2>2. TypeOK' /\ LinesInOrder' /\ LoopShape' /\ BatchShape'
    BY <2>1 DEF CInv, TypeOK, RetryTypeOK, LinesInOrder, LoopShape, BatchShape
  <2>3. CallShape' /\ HandedShape' /\ EndShape' /\ CleanEndIsComplete'
    BY <2>1 DEF CInv, CallShape, HandedShape, EndShape, CleanEndIsComplete
  <2> QED
    BY <2>2, <2>3 DEF CInv
<1> QED
  BY <1>1, <1>2, <1>3, <1>4, <1>5, <1>6 DEF Next

\* The invariant holds in every reachable state.
LEMMA CInvHolds == Spec => []CInv
BY InitHolds, StepKeeps, PTL DEF Spec

\* The type invariant.
THEOREM TypeCorrect == Spec => []TypeOK
<1>1. CInv => TypeOK
  BY DEF CInv
<1> QED
  BY <1>1, CInvHolds, PTL

\* ConsumeLogs says delivered or dropped only of a batch that is accounted for,
\* over any number of attempts and partial acceptances.
THEOREM AnswersAreTrue == Spec => []AnswerIsTrue
<1>1. CInv => AnswerIsTrue
  <2> SUFFICES ASSUME CInv, call = "answered", answer # "refused"
               PROVE  batch \subseteq took \cup (IF answer = "dropped" THEN spoilt ELSE {})
    BY DEF AnswerIsTrue
  <2>1. answer \in {"delivered", "dropped"} /\ took \cup spoilt = batch /\ (answer # "dropped" => spoilt = {})
    BY DEF CInv, CallShape
  <2> QED
    BY <2>1
<1> QED
  BY <1>1, CInvHolds, PTL

\* A retry narrows the batch to what the pipeline has not taken.
THEOREM RetriesAreDisjoint == Spec => []NothingSentTwice
<1>1. CInv => NothingSentTwice
  BY DEF CInv, CallShape, NothingSentTwice
<1> QED
  BY <1>1, CInvHolds, PTL

\* The cursor claims only what was handed over.
THEOREM CursorsAreHonest == Spec => []CursorIsHonest
<1>1. CInv => CursorIsHonest
  BY DEF CInv, HandedShape, CursorIsHonest
<1> QED
  BY <1>1, CInvHolds, PTL

\* Duplicates come from partly accepted batches only.
THEOREM DuplicatesAreExplained == Spec => []DuplicatesAreOwed
<1>1. CInv => DuplicatesAreOwed
  <2> SUFFICES ASSUME CInv PROVE batch \cap handed \subseteq owed
    BY DEF DuplicatesAreOwed
  <2>1. CASE loop \in Open
    <3>1. batch = (resume + 1)..pending /\ handed \subseteq (1..resume) \cup owed
      BY <2>1 DEF CInv, BatchShape, HandedShape
    <3>2. ((resume + 1)..pending) \cap (1..resume) = {}
      BY DEF CInv, TypeOK
    <3> QED
      BY <3>1, <3>2
  <2>2. CASE loop \notin Open
    BY <2>2 DEF CInv, LoopShape
  <2> QED
    BY <2>1, <2>2
<1> QED
  BY <1>1, CInvHolds, PTL

\* A clean end of a connection has handed over every line before it.
THEOREM CleanEndsAreComplete == Spec => []CleanEndIsComplete
<1>1. CInv => CleanEndIsComplete
  BY DEF CInv
<1> QED
  BY <1>1, CInvHolds, PTL

-----------------------------------------------------------------------------
(* Connection implements Delivery                                          *)

\* Exactly the lines the cursor claims are settled.
LEMMA SettledIsClaimed == CInv => settled = 1..resume
  BY DEF CInv, HandedShape, settled

\* A line that passes the filter is offered behind the others, for the first
\* time since the last settlement; one that does not changes nothing.
LEMMA ReceiveOffers ==
  ASSUME CInv, CInv', ReceiveLine
  PROVE  Abstract!Offer \/ UNCHANGED Abstract!vars
<1>0. /\ taken \in Nat /\ resume \in Nat /\ pending \in Nat /\ sent \in Nat /\ MaxLines \in Nat
      /\ resume' = resume /\ loop = "select" /\ taken < sent /\ sent <= MaxLines
      /\ \/ batch' = batch
         \/ batch' = batch \cup {taken + 1} /\ taken + 1 > resume
  <2>1. taken \in 0..MaxLines /\ resume \in 0..MaxLines /\ pending \in 0..MaxLines /\ sent \in 0..MaxLines
    BY DEF CInv, TypeOK
  <2> QED BY <2>1, MaxLinesIsNat DEF ReceiveLine, Keep
<1>1. settled = 1..resume /\ settled' = 1..resume
  BY <1>0, SettledIsClaimed DEF HandedShape, CInv, settled
<1>2. CASE batch' = batch
  BY <1>0, <1>1, <1>2 DEF Abstract!vars
<1>3. CASE batch' = batch \cup {taken + 1} /\ taken + 1 > resume
  <2>1. resume <= pending /\ taken <= pending /\ pending \in {resume, taken} /\ batch = (resume + 1)..pending
    BY <1>0 DEF CInv, BatchShape, Open
  <2>2. taken = pending
    BY <1>0, <1>3, <2>1
  <2>3. batch \subseteq batch' /\ batch' \subseteq 1..MaxLines
    BY <1>0, <1>3, <2>1, <2>2
  <2>4. \A i \in batch' \ batch : i \notin settled /\ \A j \in batch : j < i
    BY <1>0, <1>1, <1>3, <2>1, <2>2
  <2> QED BY <1>0, <1>1, <2>3, <2>4 DEF Abstract!Offer
<1> QED BY <1>0, <1>2, <1>3

\* The outcome of a flush settles the batch, or takes it off the table.
LEMMA FlushSettles ==
  ASSUME CInv, CInv', FlushEnds
  PROVE  Abstract!Deliver \/ Abstract!Refuse
<1>0. resume \in Nat /\ pending \in Nat /\ loop = "flush" /\ batch' = {} /\ resume' \in {resume, pending}
  <2>1. resume \in 0..MaxLines /\ pending \in 0..MaxLines
    BY DEF CInv, TypeOK
  <2> QED BY <2>1, MaxLinesIsNat DEF FlushEnds
<1>1. settled = 1..resume /\ settled' = 1..(resume')
  <2>1. (1..resume \subseteq handed /\ handed \subseteq (1..resume) \cup owed)'
    BY DEF CInv, HandedShape
  <2> QED BY <2>1, SettledIsClaimed DEF settled
<1>2. resume <= pending /\ batch = (resume + 1)..pending
  BY <1>0 DEF CInv, BatchShape, Open
<1>3. CASE resume' = resume
  BY <1>0, <1>1, <1>3 DEF Abstract!Refuse
<1>4. CASE resume' = pending
  <2>1. 1..pending = (1..resume) \cup ((resume + 1)..pending) /\ 1..resume \subseteq 1..pending
    BY <1>0, <1>2
  <2>2. settled' = settled \cup batch /\ 1..resume \subseteq 1..(resume') /\ 1..(resume') \subseteq settled' \cup {} \cup {}
    BY <1>1, <1>2, <1>4, <2>1
  <2> QED BY <1>0, <2>2 DEF Abstract!Deliver
<1> QED BY <1>0, <1>3, <1>4

\* Every other step leaves batch, cursor and history alone.
LEMMA ConnectionSimulates ==
  ASSUME CInv, CInv', [Next]_vars
  PROVE  Abstract!Next \/ UNCHANGED Abstract!vars
<1>1. ASSUME UNCHANGED <<batch, resume, handed, owed>> PROVE UNCHANGED Abstract!vars
  BY <1>1 DEF Abstract!vars, settled
<1>2. CASE UNCHANGED vars
  BY <1>1, <1>2 DEF vars, connVars, loopVars, historyVars
<1>3. CASE Kubelet \/ ContextDone \/ Reader \/ Pipeline
  BY <1>1, <1>3 DEF Kubelet, PeerEnds, ContextDone, Reader, ScanLine, ScanEnds, Send, SendAborted, Pipeline,
                    connVars, loopVars, historyVars
<1>4. CASE Connect \/ Close \/ Finish
  BY <1>1, <1>4 DEF Connect, Close, Finish, historyVars
<1>5. CASE FlushTick \/ ChannelClosed
  BY <1>1, <1>5 DEF FlushTick, ChannelClosed, historyVars
<1> QED
  BY <1>2, <1>3, <1>4, <1>5, ReceiveOffers, FlushSettles DEF Next, Loop, Abstract!Next

\* streamConnection with its reader goroutine, its channel and ConsumeLogs's
\* retries, over any number of connections, implements the abstract delivery:
\* lines are offered in order, a settled one is not offered again, the cursor
\* covers settled lines only and never goes back.
THEOREM ConnectionsDeliver == Spec => Delivers
<1>1. Init => Abstract!Init
  <2> SUFFICES ASSUME Init PROVE Abstract!Init
    OBVIOUS
  <2>1. handed = {} /\ owed = {} /\ batch = {} /\ resume = 0 /\ 1..0 = {}
    BY DEF Init
  <2> QED BY <2>1, MaxLinesIsNat DEF Abstract!Init, settled
<1>2. CInv /\ CInv' /\ [Next]_vars => [Abstract!Next]_(Abstract!vars)
  BY ConnectionSimulates
<1> QED BY <1>1, <1>2, CInvHolds, PTL DEF Spec, Delivers, Abstract!Spec
=============================================================================
