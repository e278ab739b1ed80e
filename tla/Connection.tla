----------------------------- MODULE Connection -----------------------------
(***************************************************************************)
(* logsReceiver.streamConnection goroutine by goroutine: the reader that   *)
(* scans lines into lineCh, the loop that selects between lineCh and the   *)
(* ticker, and ConsumerRetry under flush; connection after connection, as  *)
(* containerStream.follow opens and closes them.                           *)
(*                                                                         *)
(* A record is the index of its line. ContainerStream has the real cursor  *)
(* and filter; here the cursor is the last line claimed, and a connection  *)
(* may begin anywhere before it.                                           *)
(***************************************************************************)
EXTENDS Integers, FiniteSets, ConsumerRetry

CONSTANTS
  MaxBatch,  \* Config.MaxBatchSize: a full batch, and the capacity of lineCh
  MaxLines   \* bound on the lines of the log

ASSUME SizeAssumption ==
  /\ MaxBatch \in Nat \ {0} /\ MaxLines \in Nat
  /\ Records = 1..MaxLines

VARIABLES
  ends,     \* how the kubelet ends the connection: "open", "eof", "broken"
  limit,    \* the last line it carries
  reader,   \* the goroutine: "scan", "send" or, lineCh closed, "exited"
  sent,     \* the last line put into lineCh
  taken,    \* the last line received from it
  readErr,  \* what scanner.Err said
  done,     \* the done channel is closed
  closed,   \* stream.Close was called
  loop,     \* "open" (between connections), "select", "flush", "returned", "over"
  atEnd,    \* the flush under way is the last one
  batch,    \* the unflushed records
  resume,   \* the cursor a reconnect starts from
  pending,  \* the cursor after every record appended
  result,   \* what streamConnection returned
  \* History.
  handed,   \* lines the pipeline took, or refused for good
  owed      \* lines it took in a call that failed in the end

kubeletVars == <<ends, limit>>
readerVars == <<reader, sent, readErr>>
loopVars == <<loop, atEnd, batch, resume, pending, result>>
historyVars == <<handed, owed>>
connVars == <<kubeletVars, readerVars, taken, done, closed, loopVars, historyVars>>
vars == <<retryVars, connVars>>

TypeOK ==
  /\ RetryTypeOK
  /\ ends \in {"open", "eof", "broken"}
  /\ limit \in 0..MaxLines /\ sent \in 0..MaxLines /\ taken \in 0..MaxLines
  /\ reader \in {"scan", "send", "exited"}
  /\ readErr \in {"eof", "broken"}
  /\ done \in BOOLEAN /\ closed \in BOOLEAN /\ atEnd \in BOOLEAN
  /\ loop \in {"open", "select", "flush", "returned", "over"}
  /\ batch \subseteq Records
  /\ resume \in 0..MaxLines /\ pending \in 0..MaxLines
  /\ result \in {"none", "eof", "broken", "refused"}
  /\ handed \subseteq Records /\ owed \subseteq Records

Init ==
  /\ RetryInit
  /\ ends = "open" /\ limit = MaxLines
  /\ reader = "exited" /\ sent = 0 /\ taken = 0 /\ readErr = "eof"
  /\ done = TRUE /\ closed = TRUE
  /\ loop = "open" /\ atEnd = FALSE
  /\ batch = {} /\ resume = 0 /\ pending = 0 /\ result = "none"
  /\ handed = {} /\ owed = {}

-----------------------------------------------------------------------------
(* The kubelet and the context (external)                                  *)

\* The current connection breaks, or will be closed after line n, which it has
\* not passed. Lines after it are for later connections.
PeerEnds(e) ==
  /\ loop \in {"select", "flush"} /\ ends = "open"
  /\ ends' = e
  /\ \/ e = "broken" /\ UNCHANGED limit
     \/ /\ e = "eof"
        /\ \E n \in sent..MaxLines :
             /\ reader = "send" => n > sent
             /\ limit' = n
  /\ UNCHANGED <<retryVars, readerVars, taken, done, closed, loopVars, historyVars>>

\* The connection's lifetime is over, or the receiver shuts down.
ContextDone ==
  /\ loop \in {"select", "flush"} /\ ~ctxDone
  /\ ctxDone' = TRUE
  /\ UNCHANGED <<retry, callVars, connVars>>

-----------------------------------------------------------------------------
(* follow: a connection is opened, consumed and closed                     *)

\* Mutant of Connect: the cursor is put where the kubelet begins to serve.
Connect_Rewinds ==
  /\ loop = "open" /\ reader = "exited"
  /\ \E s \in 0..resume : sent' = s /\ taken' = s /\ resume' = s /\ pending' = s
  /\ ends' = "open" /\ limit' = MaxLines
  /\ reader' = "scan" /\ readErr' = "eof" /\ done' = FALSE /\ closed' = FALSE
  /\ loop' = "select" /\ result' = "none"
  /\ ctxDone' = FALSE
  /\ UNCHANGED <<retry, callVars, atEnd, batch, historyVars>>

\* The kubelet serves from a whole second, so from some line up to the one
\* after the cursor; streamConnection starts its reader. The previous reader
\* shares nothing with it, so the model lets that one finish first.
Connect ==
  /\ loop = "open" /\ reader = "exited"
  /\ \E s \in 0..resume : sent' = s /\ taken' = s
  /\ ends' = "open" /\ limit' = MaxLines
  /\ reader' = "scan" /\ readErr' = "eof" /\ done' = FALSE /\ closed' = FALSE
  /\ loop' = "select" /\ pending' = resume /\ result' = "none"
  /\ ctxDone' = FALSE
  /\ UNCHANGED <<retry, callVars, atEnd, batch, resume, historyVars>>

\* stream.Close once consume has returned.
Close ==
  /\ loop = "returned"
  /\ loop' = "open" /\ atEnd' = FALSE /\ pending' = 0
  /\ closed' = TRUE
  /\ UNCHANGED <<retryVars, kubeletVars, readerVars, taken, done, batch, resume, result, historyVars>>

\* follow gives up or is done: there is no further connection.
Finish ==
  /\ loop = "open"
  /\ loop' = "over"
  /\ UNCHANGED <<retryVars, kubeletVars, readerVars, taken, done, closed,
                 atEnd, batch, resume, pending, result, historyVars>>

-----------------------------------------------------------------------------
(* The reader goroutine                                                    *)

\* Scan has a line, from the wire or from its buffer.
ScanLine ==
  /\ reader = "scan"
  /\ sent < limit
  /\ reader' = "send"
  /\ UNCHANGED <<retryVars, kubeletVars, sent, readErr, taken, done, closed, loopVars, historyVars>>

\* Scan is over: end of file, or an error, which a closed stream and a done
\* context are as well. lineCh is closed.
ScanEnds ==
  /\ reader = "scan"
  /\ \/ /\ ends = "eof" /\ sent = limit
        /\ readErr' = "eof"
     \/ /\ ends = "broken" \/ closed \/ ctxDone
        /\ readErr' = "broken"
  /\ reader' = "exited"
  /\ UNCHANGED <<retryVars, kubeletVars, sent, taken, done, closed, loopVars, historyVars>>

Send ==
  /\ reader = "send" /\ sent - taken < MaxBatch
  /\ sent' = sent + 1
  /\ reader' = "scan"
  /\ UNCHANGED <<retryVars, kubeletVars, readErr, taken, done, closed, loopVars, historyVars>>

\* The done branch of the send.
SendAborted ==
  /\ reader = "send" /\ done
  /\ reader' = "exited"
  /\ UNCHANGED <<retryVars, kubeletVars, sent, readErr, taken, done, closed, loopVars, historyVars>>

-----------------------------------------------------------------------------
(* streamConnection's loop                                                 *)

\* Mutant of Return: done is not closed.
Return_NoDone(r) ==
  /\ loop' = "returned" /\ result' = r
  /\ UNCHANGED done

\* streamConnection returns; its deferred close(done) runs.
Return(r) ==
  /\ loop' = "returned" /\ result' = r
  /\ done' = TRUE

\* Mutant of Keep: what the cursor claims is not filtered out.
Keep_All(i) == TRUE

\* filter.Keep, see Cursor.
Keep(i) == i > resume

ReceiveLine ==
  /\ loop = "select" /\ taken < sent
  /\ LET i == taken + 1 IN
       /\ taken' = i
       /\ \/ /\ ~Keep(i)
             /\ UNCHANGED <<retryVars, loop, batch, pending>>
          \/ /\ Keep(i)
             /\ batch' = batch \cup {i} /\ pending' = i
             /\ IF Cardinality(batch') >= MaxBatch
                  THEN loop' = "flush" /\ Consume(batch')
                  ELSE UNCHANGED <<retryVars, loop>>
  /\ UNCHANGED <<kubeletVars, readerVars, done, closed, atEnd, resume, result, historyVars>>

FlushTick ==
  /\ loop = "select" /\ batch # {}
  /\ loop' = "flush" /\ Consume(batch)
  /\ UNCHANGED <<kubeletVars, readerVars, taken, done, closed,
                 atEnd, batch, resume, pending, result, historyVars>>

\* Mutant of ChannelClosed: the end is seen before what lineCh still holds.
ChannelClosed_Early ==
  /\ loop = "select" /\ reader = "exited"
  /\ \/ /\ batch = {}
        /\ Return(readErr)
        /\ UNCHANGED <<retryVars, atEnd>>
     \/ /\ batch # {}
        /\ loop' = "flush" /\ atEnd' = TRUE /\ Consume(batch)
        /\ UNCHANGED <<done, result>>
  /\ UNCHANGED <<kubeletVars, readerVars, taken, closed, batch, resume, pending, historyVars>>

\* A receive from the closed and empty lineCh: the last flush, then readErr.
ChannelClosed ==
  /\ loop = "select" /\ reader = "exited" /\ taken = sent
  /\ \/ /\ batch = {}
        /\ Return(readErr)
        /\ UNCHANGED <<retryVars, atEnd>>
     \/ /\ batch # {}
        /\ loop' = "flush" /\ atEnd' = TRUE /\ Consume(batch)
        /\ UNCHANGED <<done, result>>
  /\ UNCHANGED <<kubeletVars, readerVars, taken, closed, batch, resume, pending, historyVars>>

\* Mutant of FlushEnds: a batch the pipeline refused is claimed by the cursor.
FlushEnds_AlwaysAdvances ==
  /\ loop = "flush" /\ call = "answered"
  /\ call' = "idle" /\ batch' = {}
  /\ handed' = handed \cup took \cup spoilt
  /\ resume' = pending
  /\ owed' = IF answer = "refused" THEN owed \cup took ELSE owed
  /\ IF answer = "refused" \/ atEnd
       THEN Return(IF answer = "refused" THEN "refused" ELSE readErr)
       ELSE loop' = "select" /\ UNCHANGED <<result, done>>
  /\ data' = {} /\ elapsed' = 0 /\ answer' = "none" /\ took' = {} /\ spoilt' = {}
  /\ UNCHANGED <<retry, ctxDone, delay, kubeletVars, readerVars, taken, closed, atEnd, pending>>

\* flush has its outcome: delivered and dropped move the cursor, refused ends
\* the connection.
FlushEnds ==
  /\ loop = "flush" /\ call = "answered"
  /\ call' = "idle" /\ batch' = {}
  /\ handed' = handed \cup took \cup spoilt
  /\ \/ /\ answer # "refused"
        /\ resume' = pending
        /\ UNCHANGED owed
        /\ \/ atEnd /\ Return(readErr)
           \/ ~atEnd /\ loop' = "select" /\ UNCHANGED <<result, done>>
     \/ /\ answer = "refused"
        /\ owed' = owed \cup took
        /\ UNCHANGED resume
        /\ Return("refused")
  /\ data' = {} /\ elapsed' = 0 /\ answer' = "none" /\ took' = {} /\ spoilt' = {}
  /\ UNCHANGED <<retry, ctxDone, delay, kubeletVars, readerVars, taken, closed, atEnd, pending>>

Pipeline == Retrying /\ UNCHANGED connVars

-----------------------------------------------------------------------------
Reader == ScanLine \/ ScanEnds \/ Send \/ SendAborted

Loop == ReceiveLine \/ FlushTick \/ ChannelClosed \/ FlushEnds

Kubelet == PeerEnds("eof") \/ PeerEnds("broken")

Next == Kubelet \/ ContextDone \/ Connect \/ Close \/ Finish \/ Reader \/ Loop \/ Pipeline

Spec == Init /\ [][Next]_vars

\* Goroutines that can run do run, and every attempt of the pipeline returns.
\* Nothing makes the pipeline accept anything, or a connection carry a line: a
\* Read may block until the stream is closed.
Fairness ==
  /\ WF_vars(Close) /\ WF_vars(Loop) /\ WF_vars(Pipeline)
  /\ WF_vars(ScanEnds) /\ WF_vars(Send \/ SendAborted)

LiveSpec == Spec /\ Fairness

-----------------------------------------------------------------------------
(* Properties                                                              *)

\* ConsumeLogs is believed by the cursor: when the call says delivered, every
\* record of the batch was taken, over however many attempts; when it says
\* dropped, what was not taken was refused for good.
AnswerIsTrue ==
  call = "answered" /\ answer # "refused" =>
    batch \subseteq took \cup (IF answer = "dropped" THEN spoilt ELSE {})

\* A retry sends nothing the pipeline already took in this call.
NothingSentTwice == call = "send" => took \cap data = {}

\* The published cursor claims nothing that is still to be delivered, whatever
\* was scanned ahead, buffered, taken in part or given up.
CursorIsHonest == 1..resume \subseteq handed

\* A record is offered a second time only if the pipeline took it in a call that
\* failed in the end: the price of a partly accepted batch, and of nothing else.
DuplicatesAreOwed == batch \cap handed \subseteq owed

\* When streamConnection reports a clean end, all lines before it were handed over,
\* those that were in lineCh when the reader finished included.
CleanEndIsComplete == result = "eof" => 1..limit \subseteq handed

\* What the pipeline took in a call that succeeded, or refused for good: a call
\* that took part of a batch and failed in the end counts for nothing.
settled == handed \ (owed \ (1..resume))

\* The connections as Delivery sees them, with a log that is written already.
Abstract ==
  INSTANCE Delivery WITH
    written <- MaxLines,
    stamped <- 1..MaxLines,
    lost <- {},
    excluded <- {},
    offer <- batch,
    got <- settled,
    claimed <- 1..resume

\* Two goroutines, a channel and the pipeline's retries keep the promise that
\* ContainerStream keeps in one: lines are offered in order, a settled one never
\* again, and the cursor covers settled lines only and never goes back.
Delivers == Abstract!Spec

\* A reader goroutine ends once its connection is given up, whether it is
\* parked on a full lineCh or blocked in a Read that gets no data.
ReaderExits == loop = "returned" ~> reader = "exited"

\* A context that is done ends the connection, also while the pipeline refuses
\* everything and retries have no time limit.
CancelReturns == ctxDone ~> loop \in {"returned", "open", "over"}

\* A flush ends when retries are limited, even if no attempt ever succeeds.
FlushReturns == (call = "send" /\ retry.maxElapsed # 0) ~> (call = "idle")
=============================================================================
