---------------------------- MODULE ConsumerRetry ----------------------------
(***************************************************************************)
(* logsConsumer.ConsumeLogs (internal/consumerretry): one call hands a     *)
(* batch to the pipeline, again and again while the error is a recoverable *)
(* one, and logsReceiver.consumeBatch makes one of three outcomes of what  *)
(* it returns. The pipeline is external: an attempt is taken, refused for  *)
(* good, refused for now, or taken in part with an error that carries the  *)
(* rest (consumererror.Logs).                                              *)
(***************************************************************************)
EXTENDS Naturals

CONSTANTS
  Records,         \* what batches are made of
  MaxElapsedTime,  \* retry_on_failure.max_elapsed_time where it is not 0
  MaxDelay         \* the longest delay NextBackOff draws

ASSUME DelayAssumption == MaxElapsedTime \in Nat \ {0} /\ MaxDelay \in Nat \ {0}

VARIABLES
  retry,    \* retry_on_failure: enabled, and maxElapsed, 0 for no limit
  ctxDone,  \* the context of the call is done
  call,     \* "idle", "send", "wait" or "answered"
  data,     \* logs, narrowed to what is still to be sent
  elapsed,  \* time since the call began, not counted without a limit
  delay,    \* the backoff being waited out
  answer,   \* the batchOutcome of the last call
  \* History.
  took,     \* what the pipeline took in this call
  spoilt    \* what it refused for good in this call

callVars == <<call, data, elapsed, delay, answer, took, spoilt>>
retryVars == <<retry, ctxDone, callVars>>

RetryConfigs ==
  [enabled : {TRUE}, maxElapsed : {0, MaxElapsedTime}] \cup [enabled : {FALSE}, maxElapsed : {0}]

RetryTypeOK ==
  /\ retry \in RetryConfigs
  /\ ctxDone \in BOOLEAN
  /\ call \in {"idle", "send", "wait", "answered"}
  /\ data \subseteq Records /\ took \subseteq Records /\ spoilt \subseteq Records
  /\ elapsed \in 0..MaxElapsedTime
  /\ delay \in 0..MaxDelay
  /\ answer \in {"none", "delivered", "refused", "dropped"}

RetryInit ==
  /\ retry \in RetryConfigs
  /\ ctxDone = FALSE
  /\ call = "idle" /\ data = {} /\ elapsed = 0 /\ delay = 0 /\ answer = "none"
  /\ took = {} /\ spoilt = {}

-----------------------------------------------------------------------------
\* ConsumeLogs is called with batch b.
Consume(b) ==
  /\ call = "idle"
  /\ call' = "send" /\ data' = b
  /\ elapsed' = 0 /\ delay' = 0 /\ answer' = "none"
  /\ took' = {} /\ spoilt' = {}
  /\ UNCHANGED <<retry, ctxDone>>

Answer(a) == call' = "answered" /\ answer' = a /\ delay' = 0

Accepted ==
  /\ call = "send"
  /\ Answer("delivered")
  /\ took' = took \cup data
  /\ UNCHANGED <<retry, ctxDone, data, elapsed, spoilt>>

RefusedForGood ==
  /\ call = "send"
  /\ Answer("dropped")
  /\ spoilt' = data
  /\ UNCHANGED <<retry, ctxDone, data, elapsed, took>>

\* ExponentialBackOff.NextBackOff stops before a delay that would pass the
\* limit (external).
Stops(d) == retry.maxElapsed # 0 /\ elapsed + d > retry.maxElapsed

\* What follows a recoverable error.
BackOff ==
  \E d \in 1..MaxDelay :
    \/ /\ ~retry.enabled \/ Stops(d)
       /\ Answer("refused")
    \/ /\ retry.enabled /\ ~Stops(d)
       /\ call' = "wait" /\ delay' = d
       /\ UNCHANGED answer

RefusedForNow ==
  /\ call = "send"
  /\ BackOff
  /\ UNCHANGED <<retry, ctxDone, data, elapsed, took, spoilt>>

\* Mutant of AcceptedInPart: the retry sends the whole batch again.
AcceptedInPart_SendsAll ==
  /\ call = "send"
  /\ \E part \in (SUBSET data) \ {{}, data} :
       took' = took \cup part
  /\ BackOff
  /\ UNCHANGED <<retry, ctxDone, data, elapsed, spoilt>>

\* Mutant of AcceptedInPart: the retry goes on with the accepted part.
AcceptedInPart_KeepsWrongPart ==
  /\ call = "send"
  /\ \E part \in (SUBSET data) \ {{}, data} :
       took' = took \cup part /\ data' = part
  /\ BackOff
  /\ UNCHANGED <<retry, ctxDone, elapsed, spoilt>>

\* The error carries the rest, and errors.As finds it.
AcceptedInPart ==
  /\ call = "send"
  /\ \E part \in (SUBSET data) \ {{}, data} :
       took' = took \cup part /\ data' = data \ part
  /\ BackOff
  /\ UNCHANGED <<retry, ctxDone, elapsed, spoilt>>

\* Mutant of WaitOver: a context that is done does not interrupt the wait.
WaitOver_Deaf ==
  /\ call = "wait"
  /\ call' = "send" /\ delay' = 0
  /\ elapsed' = IF retry.maxElapsed = 0 THEN 0 ELSE elapsed + delay
  /\ UNCHANGED <<retry, ctxDone, data, answer, took, spoilt>>

\* Mutant of WaitOver: the backoff is Reset before every attempt.
WaitOver_Resets ==
  /\ call = "wait" /\ ~ctxDone
  /\ call' = "send" /\ delay' = 0
  /\ elapsed' = 0
  /\ UNCHANGED <<retry, ctxDone, data, answer, took, spoilt>>

\* The timer wins the select. When both are ready the choice is random; a timer
\* that wins then might as well have fired before the context was done.
WaitOver ==
  /\ call = "wait" /\ ~ctxDone
  /\ call' = "send" /\ delay' = 0
  /\ elapsed' = IF retry.maxElapsed = 0 THEN 0 ELSE elapsed + delay
  /\ UNCHANGED <<retry, ctxDone, data, answer, took, spoilt>>

WaitCancelled ==
  /\ call = "wait" /\ ctxDone
  /\ Answer("refused")
  /\ UNCHANGED <<retry, ctxDone, data, elapsed, took, spoilt>>

Attempt == Accepted \/ RefusedForGood \/ RefusedForNow \/ AcceptedInPart

Retrying == Attempt \/ WaitOver \/ WaitCancelled
=============================================================================
