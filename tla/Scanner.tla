------------------------------- MODULE Scanner -------------------------------
(***************************************************************************)
(* logline.Scanner: a bufio.Scanner over a log stream with the split       *)
(* function of internal/logline/split.go, and the timestamp taken off each *)
(* token. bufio and the reader beneath it are external: a Read returns any *)
(* number of bytes, and may return an error together with the last ones.   *)
(*                                                                         *)
(* A byte is an ordinary one, a carriage return or a newline. A timestamp  *)
(* with the space after it is a single Stamp, so max_log_size does not cut *)
(* one in two.                                                             *)
(***************************************************************************)
EXTENDS Naturals, Sequences, FiniteSets, SequencesExt

CONSTANTS
  MaxSizes,  \* the values of max_log_size
  MaxStream  \* bound on the length of a stream

ASSUME ScannerAssumption == MaxSizes \subseteq Nat \ {0} /\ MaxStream \in Nat

Stamp == "stamp"
CR == "cr"
NL == "newline"
Bytes == {Stamp, "x", CR, NL}

\* With Timestamps set, the kubelet begins every line with a stamp.
Streams ==
  {s \in BoundedSeq(Bytes, MaxStream) :
     \A i \in DOMAIN s : i = 1 \/ s[i - 1] = NL => s[i] = Stamp}

VARIABLES
  stream,    \* what the connection carries
  maxSize,   \* r.maxLogSize()
  behavior,  \* r.logSizeBehavior()
  pos,       \* bytes read so far
  buf,       \* bufio.Scanner's unprocessed bytes
  skipping,  \* SplitFunc's: the rest of the line is discarded
  err,       \* bufio.Scanner's: "none", "eof" or "broken"
  together,  \* the last Read returned bytes and an error at once
  pc,        \* "scan", "read" or "over"
  tokens     \* what Scan has found

vars == <<stream, maxSize, behavior, pos, buf, skipping, err, together, pc, tokens>>

TypeOK ==
  /\ stream \in Streams /\ maxSize \in MaxSizes
  /\ behavior \in {"split", "truncate"}
  /\ pos \in 0..Len(stream)
  /\ buf \in Seq(Bytes) /\ Len(buf) <= maxSize
  /\ skipping \in BOOLEAN /\ together \in BOOLEAN
  /\ err \in {"none", "eof", "broken"}
  /\ pc \in {"scan", "read", "over"}
  /\ tokens \in Seq(Seq(Bytes))

Init ==
  /\ stream \in Streams /\ maxSize \in MaxSizes /\ behavior \in {"split", "truncate"}
  /\ pos = 0 /\ buf = <<>> /\ skipping = FALSE
  /\ err = "none" /\ together = FALSE /\ pc = "scan" /\ tokens = <<>>

-----------------------------------------------------------------------------
(* The split function                                                      *)

Ask == [advance |-> 0, found |-> {}, skips |-> FALSE]
Found(n, t, s) == [advance |-> n, found |-> {t}, skips |-> s]
Discard(n, s) == [advance |-> n, found |-> {}, skips |-> s]

\* Where the first newline is, 0 if there is none.
IndexNL(data) ==
  LET at == {i \in 1..Len(data) : data[i] = NL} IN
  IF at = {} THEN 0 ELSE CHOOSE i \in at : \A j \in at : i <= j

DropCR(t) == IF t # <<>> /\ Last(t) = CR THEN Front(t) ELSE t

\* bufio.ScanLines (external).
ScanLines(data, atEOF) ==
  LET i == IndexNL(data) IN
  IF i > 0 THEN Found(i, DropCR(SubSeq(data, 1, i - 1)), FALSE)
  ELSE IF atEOF /\ data # <<>> THEN Found(Len(data), DropCR(data), FALSE)
  ELSE Ask

\* The rest of a truncated line.
SkipLine(data, atEOF) ==
  LET i == IndexNL(data) IN
  IF i > 0 THEN Discard(i, FALSE)
  ELSE IF atEOF THEN Discard(Len(data), FALSE)
  ELSE IF Len(data) >= maxSize THEN Discard(Len(data), TRUE)
  ELSE Discard(0, TRUE)

\* Mutant of SplitFunc: only a buffer beyond maxSize counts as oversized.
SplitFunc_Late(data, atEOF) ==
  IF behavior = "truncate" /\ skipping THEN SkipLine(data, atEOF)
  ELSE LET r == ScanLines(data, atEOF) IN
       IF r = Ask /\ Len(data) > maxSize
         THEN Found(maxSize, SubSeq(data, 1, maxSize), behavior = "truncate")
         ELSE r

\* Mutant of SplitFunc: the size is tested before the line's end.
SplitFunc_SizeFirst(data, atEOF) ==
  IF behavior = "truncate" /\ skipping THEN SkipLine(data, atEOF)
  ELSE IF Len(data) >= maxSize
         THEN Found(maxSize, SubSeq(data, 1, maxSize), behavior = "truncate")
         ELSE ScanLines(data, atEOF)

\* Mutant of SplitFunc: split mode skips like truncate mode.
SplitFunc_Skips(data, atEOF) ==
  IF skipping THEN SkipLine(data, atEOF)
  ELSE LET r == ScanLines(data, atEOF) IN
       IF r = Ask /\ Len(data) >= maxSize
         THEN Found(maxSize, SubSeq(data, 1, maxSize), TRUE)
         ELSE r

\* SplitFunc: what to take off the buffer, and the token in it if there is one.
SplitFunc(data, atEOF) ==
  IF behavior = "truncate" /\ skipping THEN SkipLine(data, atEOF)
  ELSE LET r == ScanLines(data, atEOF) IN
       IF r = Ask /\ Len(data) >= maxSize
         THEN Found(maxSize, SubSeq(data, 1, maxSize), behavior = "truncate")
         ELSE r

-----------------------------------------------------------------------------
(* bufio.Scanner.Scan (external)                                           *)

\* Scan offers what it holds to the split function. Without a token it reads
\* on, even if a newline is left, and after an error it is over.
Split ==
  /\ pc = "scan" /\ (buf # <<>> \/ err # "none")
  /\ LET r == SplitFunc(buf, err # "none") IN
       /\ skipping' = r.skips
       /\ \/ /\ r.found # {}
             /\ \E t \in r.found : tokens' = Append(tokens, t)
             /\ buf' = SubSeq(buf, r.advance + 1, Len(buf))
             /\ UNCHANGED pc
          \/ /\ r.found = {} /\ err = "none"
             /\ buf' = SubSeq(buf, r.advance + 1, Len(buf))
             /\ pc' = "read"
             /\ UNCHANGED tokens
          \/ /\ r.found = {} /\ err # "none"
             /\ buf' = <<>> /\ pc' = "over"
             /\ UNCHANGED tokens
  /\ UNCHANGED <<stream, maxSize, behavior, pos, err, together>>

Nothing ==
  /\ pc = "scan" /\ buf = <<>> /\ err = "none"
  /\ pc' = "read"
  /\ UNCHANGED <<stream, maxSize, behavior, pos, buf, skipping, err, together, tokens>>

\* Read puts n bytes behind the others. An end of file comes at the end, a
\* broken connection anywhere.
Read(e) ==
  /\ pc = "read" /\ Len(buf) < maxSize
  /\ \E n \in 0..(maxSize - Len(buf)) :
       /\ pos + n <= Len(stream)
       /\ n = 0 => e # "none"
       /\ e = "eof" => pos + n = Len(stream)
       /\ buf' = buf \o SubSeq(stream, pos + 1, pos + n)
       /\ pos' = pos + n
       /\ together' = (n > 0 /\ e # "none")
  /\ err' = e /\ pc' = "scan"
  /\ UNCHANGED <<stream, maxSize, behavior, skipping, tokens>>

Next == Split \/ Nothing \/ \E e \in {"none", "eof", "broken"} : Read(e)

Spec == Init /\ [][Next]_vars

-----------------------------------------------------------------------------
(* Scanner.Line                                                            *)

\* ParseLeadingTimestamp
Stamped(token) == token # <<>> /\ Head(token) = Stamp

-----------------------------------------------------------------------------
(* What the scanner should find, from the stream alone                     *)

Text == SubSeq(stream, 1, pos)

\* The place of a byte in its line, its newline included.
Offset(i) == i - Max({0} \cup {j \in 1..(i - 1) : Text[j] = NL}) - 1

\* A record begins at every maxSize-th byte of a line, or only at the first.
Starts ==
  {i \in 1..pos : IF behavior = "split" THEN Offset(i) % maxSize = 0 ELSE Offset(i) = 0}

\* The record that begins at i: as far as the line goes, maxSize bytes at most.
RecordAt(i) ==
  LET last == Min({pos, i + maxSize - 1} \cup {j - 1 : j \in {k \in i..pos : Text[k] = NL}})
      t == SubSeq(Text, i, last)
  IN IF Len(t) < maxSize THEN DropCR(t) ELSE t

Rank(i) == Cardinality({j \in Starts : j <= i})

-----------------------------------------------------------------------------
(* Properties                                                              *)

\* However the bytes arrive, the records are those the text defines: every
\* byte in its place, no record across two lines, and the head of every line
\* in truncate mode; a read error only ends the text early. If it comes together
\* with the last bytes, a carriage return at the size limit may go, and in
\* truncate mode what follows the end of an oversized line may be discarded with
\* it: a record that is missing began in the last max_log_size bytes read, and
\* those before it are all there.
RecordsAsDefined ==
  pc = "over" =>
    /\ Len(tokens) <= Cardinality(Starts)
    /\ \A i \in Starts :
         IF Rank(i) <= Len(tokens)
           THEN \/ tokens[Rank(i)] = RecordAt(i)
                \/ together /\ tokens[Rank(i)] = DropCR(RecordAt(i))
           ELSE behavior = "truncate" /\ together /\ i + maxSize > pos

\* No record is longer than max_log_size or reaches into the next line, however
\* the connection ends.
RecordsFit ==
  \A k \in DOMAIN tokens : Len(tokens[k]) <= maxSize /\ NL \notin ToSet(tokens[k])

\* A full buffer always yields a token or is discarded, so there is room where
\* Scan wants to read on: it would fail with bufio.ErrTooLong otherwise, and the
\* connection with it, again after every reconnect.
NeverTooLong == pc = "read" => Len(buf) < maxSize

\* Every line gives exactly one stamped record, its first, whatever its length:
\* what the cursor counts at an instant are lines. Only a piece of a split line
\* that itself begins like a line is counted besides; and in truncate mode, if
\* the connection's error comes with its last bytes, lines that begin in the last
\* max_log_size of them may be missing (those behind some byte c).
OneStampPerLine ==
  pc = "over" =>
    \E c \in 0..pos :
      LET lines == {i \in 1..c : Offset(i) = 0}
          lookalikes == {i \in Starts : i <= c /\ Offset(i) > 0 /\ Text[i] = Stamp}
      IN /\ c = pos \/ (behavior = "truncate" /\ together /\ c + maxSize >= pos)
         /\ Cardinality({k \in DOMAIN tokens : Stamped(tokens[k])}) = Cardinality(lines \cup lookalikes)
=============================================================================
