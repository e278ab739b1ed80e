---------------------------- MODULE ScannerProofs ----------------------------
(***************************************************************************)
(* Proofs about Scanner: types, and that the buffer has room whenever Scan *)
(* wants to read on, for every max_log_size and every stream.              *)
(***************************************************************************)
EXTENDS Scanner, SequenceTheorems, WellFoundedInduction, TLAPS

\* The buffer holds a full record at most, and less when Scan reads on; what is
\* cut from it fits.
SInv == TypeOK /\ NeverTooLong /\ RecordsFit

Fits(t) == t \in Seq(Bytes) /\ Len(t) <= maxSize /\ \A i \in 1..Len(t) : t[i] # NL

-----------------------------------------------------------------------------
(* The split function                                                      *)

\* A stream is a sequence of bytes.
LEMMA StreamsAreSequences == ASSUME NEW s \in Streams PROVE s \in Seq(Bytes)
  BY DEF Streams, BoundedSeq, SeqOf

\* A piece of a sequence is a sequence, and as long as its bounds say.
LEMMA Pieces ==
  ASSUME NEW s \in Seq(Bytes), NEW m \in 1..(Len(s) + 1), NEW n \in (m - 1)..Len(s)
  PROVE  SubSeq(s, m, n) \in Seq(Bytes) /\ Len(SubSeq(s, m, n)) = n - m + 1
<1>1. Len(s) \in Nat /\ \A i \in 1..Len(s) : s[i] \in Bytes
  BY ElementOfSeq, LenProperties
<1> QED
  BY <1>1, SubSeqProperties

\* A newline that is found is in the data.
LEMMA NewlineIsInside ==
  ASSUME NEW data \in Seq(Bytes)
  PROVE  /\ IndexNL(data) \in 0..Len(data)
         /\ IndexNL(data) > 0 => data[IndexNL(data)] = NL
         /\ IndexNL(data) = 0 => \A i \in 1..Len(data) : data[i] # NL
         /\ \A i \in 1..(IndexNL(data) - 1) : data[i] # NL
<1>1. Len(data) \in Nat
  BY LenProperties
<1> DEFINE at == {i \in 1..Len(data) : data[i] = NL}
<1>2. CASE at = {}
  BY <1>1, <1>2 DEF IndexNL
<1>3. CASE at # {}
  <2> DEFINE less == OpToRel(<, Nat)
  <2>1. IsWellFoundedOn(less, Nat)
    BY NatLessThanWellFounded
  <2>2. at \subseteq Nat
    BY <1>1
  <2>3. \A x, y \in Nat : <<y, x>> \notin less => x <= y
    BY DEF OpToRel
  <2> HIDE DEF less, at
  <2>4. \E x \in at : \A y \in at : ~(<<y, x>> \in less)
    BY <1>3, <2>1, <2>2, WFMin
  <2>5. \E i \in at : \A j \in at : i <= j
    BY <2>2, <2>3, <2>4
  <2> DEFINE least == CHOOSE i \in at : \A j \in at : i <= j
  <2>6. least \in at /\ \A j \in at : least <= j
    BY <2>5
  <2>7. IndexNL(data) = least
    BY <1>3 DEF IndexNL, at
  <2> HIDE DEF least
  <2> QED
    BY <1>1, <2>6, <2>7 DEF at
<1> QED
  BY <1>2, <1>3

\* A token loses a carriage return at its end at most.
LEMMA DropCRFits ==
  ASSUME NEW t, Fits(t), maxSize \in Nat
  PROVE  Fits(DropCR(t))
<1>1. Len(t) \in Nat /\ t \in Seq(Bytes)
  BY LenProperties DEF Fits
<1>2. CASE t # <<>> /\ Last(t) = CR
  <2>1. Len(t) >= 1
    BY <1>1, <1>2, EmptySeq
  <2>2. /\ SubSeq(t, 1, Len(t) - 1) \in Seq(Bytes)
        /\ Len(SubSeq(t, 1, Len(t) - 1)) = Len(t) - 1
    <3> DEFINE n == Len(t) - 1
    <3>1. n \in 0..Len(t)
      BY <1>1, <2>1
    <3> HIDE DEF n
    <3>2. SubSeq(t, 1, n) \in Seq(Bytes) /\ Len(SubSeq(t, 1, n)) = n
      BY <1>1, <3>1, Pieces
    <3> QED
      BY <3>2 DEF n
  <2>3. \A i \in 1..(Len(t) - 1) : SubSeq(t, 1, Len(t) - 1)[i] = t[i]
    BY <1>1, <2>1
  <2> QED
    BY <1>1, <1>2, <2>1, <2>2, <2>3 DEF DropCR, Front, Fits
<1> QED
  BY <1>2 DEF DropCR

\* A head of the data without a newline fits.
LEMMA HeadsFit ==
  ASSUME NEW data \in Seq(Bytes), NEW n \in 0..Len(data), maxSize \in Nat, n <= maxSize,
         \A i \in 1..n : data[i] # NL
  PROVE  Fits(SubSeq(data, 1, n))
<1>1. Len(data) \in Nat
  BY LenProperties
<1>2. SubSeq(data, 1, n) \in Seq(Bytes) /\ Len(SubSeq(data, 1, n)) = n
  BY <1>1, Pieces
<1>3. \A i \in 1..n : SubSeq(data, 1, n)[i] = data[i]
  BY <1>1
<1> QED
  BY <1>1, <1>2, <1>3 DEF Fits

\* What a split function may answer about data.
Sound(r, data) ==
  /\ r.advance \in 0..Len(data) /\ r.skips \in BOOLEAN
  /\ \A t \in r.found : Fits(t)

\* bufio.ScanLines takes no more than there is and cuts a line out of it.
LEMMA ScanLinesSound ==
  ASSUME NEW data \in Seq(Bytes), NEW atEOF \in BOOLEAN,
         maxSize \in Nat, Len(data) <= maxSize
  PROVE  /\ Sound(ScanLines(data, atEOF), data)
         /\ ScanLines(data, atEOF).found = {} => ScanLines(data, atEOF) = Ask
         /\ ScanLines(data, atEOF) = Ask => IndexNL(data) = 0
<1> DEFINE i == IndexNL(data)
<1>1. Len(data) \in Nat /\ i \in 0..Len(data)
  BY LenProperties, NewlineIsInside
<1>2. CASE i > 0
  <2>1. Fits(SubSeq(data, 1, i - 1))
    BY <1>1, <1>2, HeadsFit, NewlineIsInside
  <2>2. Fits(DropCR(SubSeq(data, 1, i - 1)))
    BY <2>1, DropCRFits
  <2>3. ScanLines(data, atEOF) = [advance |-> i, found |-> {DropCR(SubSeq(data, 1, i - 1))}, skips |-> FALSE]
    BY <1>2 DEF ScanLines, Found
  <2> QED
    BY <1>1, <1>2, <2>2, <2>3 DEF Sound, Ask
<1>3. CASE i = 0 /\ atEOF /\ data # <<>>
  <2>1. Fits(data)
    BY <1>3, NewlineIsInside DEF Fits
  <2>2. Fits(DropCR(data))
    BY <2>1, DropCRFits
  <2>3. ScanLines(data, atEOF) = [advance |-> Len(data), found |-> {DropCR(data)}, skips |-> FALSE]
    BY <1>3 DEF ScanLines, Found
  <2>4. Sound(ScanLines(data, atEOF), data)
    BY <1>1, <2>2, <2>3 DEF Sound
  <2>5. ScanLines(data, atEOF).found # {}
    BY <2>3
  <2> QED
    BY <1>3, <2>4, <2>5
<1>4. CASE i = 0 /\ ~(atEOF /\ data # <<>>)
  <2>1. ~(i > 0)
    BY <1>4
  <2>2. ScanLines(data, atEOF) = Ask
    BY <1>4, <2>1, Zenon DEF ScanLines
  <2>3. Sound(Ask, data)
    BY <1>1 DEF Sound, Ask
  <2> QED
    BY <1>4, <2>2, <2>3
<1> QED
  BY <1>1, <1>2, <1>3, <1>4

\* SplitFunc takes no more than there is, cuts records that fit, and leaves a
\* full buffer as it is only if nothing more will come.
LEMMA SplitFuncSound ==
  ASSUME NEW data \in Seq(Bytes), NEW atEOF \in BOOLEAN,
         maxSize \in Nat \ {0}, Len(data) <= maxSize
  PROVE  LET r == SplitFunc(data, atEOF) IN
           /\ Sound(r, data)
           /\ r.found = {} /\ ~atEOF => Len(data) - r.advance < maxSize
<1> DEFINE i == IndexNL(data)
<1> DEFINE r == SplitFunc(data, atEOF)
<1>1. Len(data) \in Nat /\ i \in 0..Len(data)
  BY LenProperties, NewlineIsInside
<1>2. CASE behavior = "truncate" /\ skipping
  <2>1. r = SkipLine(data, atEOF)
    BY <1>2 DEF SplitFunc
  <2>2. /\ r.found = {} /\ r.advance \in 0..Len(data) /\ r.skips \in BOOLEAN
        /\ ~atEOF => Len(data) - r.advance < maxSize
    <3>1. CASE i > 0
      <4>1. r = Discard(i, FALSE)
        BY <2>1, <3>1, Zenon DEF SkipLine
      <4> QED
        BY <1>1, <3>1, <4>1 DEF Discard
    <3>2. CASE ~(i > 0) /\ (atEOF \/ Len(data) >= maxSize)
      <4>1. r = Discard(Len(data), FALSE) \/ r = Discard(Len(data), TRUE)
        BY <2>1, <3>2, Zenon DEF SkipLine
      <4>2. r.found = {} /\ r.advance = Len(data) /\ r.skips \in BOOLEAN
        <5>1. CASE r = Discard(Len(data), FALSE)
          BY <5>1 DEF Discard
        <5>2. CASE r = Discard(Len(data), TRUE)
          BY <5>2 DEF Discard
        <5> QED
          BY <4>1, <5>1, <5>2
      <4> QED
        BY <1>1, <4>2
    <3>3. CASE ~(i > 0) /\ ~atEOF /\ ~(Len(data) >= maxSize)
      <4>1. r = Discard(0, TRUE)
        BY <2>1, <3>3, Zenon DEF SkipLine
      <4> QED
        BY <1>1, <3>3, <4>1 DEF Discard
    <3> QED
      BY <3>1, <3>2, <3>3
  <2> HIDE DEF r
  <2> QED
    BY <2>2 DEF Sound, r
<1>3. CASE ~(behavior = "truncate" /\ skipping)
  <2> DEFINE q == ScanLines(data, atEOF)
  <2>1. /\ Sound(q, data)
        /\ q.found = {} => q = Ask
        /\ q = Ask => i = 0
    BY ScanLinesSound
  <2>2. CASE q = Ask /\ Len(data) >= maxSize
    <3>1. Fits(SubSeq(data, 1, maxSize))
      BY <1>1, <2>1, <2>2, HeadsFit, NewlineIsInside
    <3>2. r = [advance |-> maxSize, found |-> {SubSeq(data, 1, maxSize)}, skips |-> (behavior = "truncate")]
      BY <1>3, <2>2 DEF SplitFunc, Found
    <3> HIDE DEF r
    <3>3. r.advance = maxSize /\ r.found = {SubSeq(data, 1, maxSize)} /\ r.skips \in BOOLEAN
      BY <3>2
    <3>4. Sound(r, data) /\ r.found # {}
      BY <1>1, <2>2, <3>1, <3>3 DEF Sound
    <3> QED
      BY <3>4 DEF r
  <2>3. CASE ~(q = Ask /\ Len(data) >= maxSize)
    <3>1. r = q
      BY <1>3, <2>3 DEF SplitFunc
    <3>2. q.found = {} => q.advance = 0 /\ Len(data) < maxSize
      BY <1>1, <2>1, <2>3 DEF Ask
    <3> HIDE DEF r, q
    <3> QED
      BY <1>1, <2>1, <3>1, <3>2 DEF r
  <2> QED
    BY <2>2, <2>3
<1> QED
  BY <1>2, <1>3

-----------------------------------------------------------------------------
(* The invariant                                                           *)

\* A new scanner satisfies the invariant.
LEMMA InitOK == Init => SInv
<1> SUFFICES ASSUME Init PROVE SInv
  OBVIOUS
<1>1. /\ maxSize \in Nat \ {0} /\ buf \in Seq(Bytes) /\ Len(buf) = 0
      /\ stream \in Streams /\ Len(stream) \in Nat
  BY ScannerAssumption, EmptySeq, StreamsAreSequences, LenProperties DEF Init
<1>2. tokens \in Seq(Seq(Bytes)) /\ DOMAIN tokens = {}
  BY EmptySeq DEF Init
<1>3. pos \in 0..Len(stream) /\ Len(buf) <= maxSize
  BY <1>1 DEF Init
<1>4. /\ maxSize \in MaxSizes /\ behavior \in {"split", "truncate"}
      /\ skipping \in BOOLEAN /\ together \in BOOLEAN
      /\ err \in {"none", "eof", "broken"} /\ pc \in {"scan", "read", "over"}
  BY DEF Init
<1>5. TypeOK
  BY <1>1, <1>2, <1>3, <1>4 DEF TypeOK
<1> QED
  BY <1>2, <1>5 DEF Init, SInv, NeverTooLong, RecordsFit

\* The properties speak of the set of a record's bytes.
LEMMA FittingRecords ==
  ASSUME tokens \in Seq(Seq(Bytes)),
         NEW t, Fits(t), RecordsFit, maxSize \in Nat
  PROVE  /\ Append(tokens, t) \in Seq(Seq(Bytes))
         /\ \A k \in DOMAIN Append(tokens, t) :
              Len(Append(tokens, t)[k]) <= maxSize /\ NL \notin ToSet(Append(tokens, t)[k])
<1>1. t \in Seq(Bytes) /\ NL \notin ToSet(t) /\ Len(t) <= maxSize
  BY LenProperties DEF Fits, ToSet
<1>2. /\ Append(tokens, t) \in Seq(Seq(Bytes))
      /\ DOMAIN Append(tokens, t) = 1..(Len(tokens) + 1)
      /\ \A k \in 1..Len(tokens) : Append(tokens, t)[k] = tokens[k]
      /\ Append(tokens, t)[Len(tokens) + 1] = t
  BY <1>1
<1>3. Len(tokens) \in Nat /\ DOMAIN tokens = 1..Len(tokens)
  BY LenProperties
<1>4. \A k \in 1..(Len(tokens) + 1) : k \in 1..Len(tokens) \/ k = Len(tokens) + 1
  BY <1>3
<1> QED
  BY <1>1, <1>2, <1>3, <1>4 DEF RecordsFit

\* A round of Scan keeps the invariant.
LEMMA SplitKeeps == ASSUME SInv, Split PROVE SInv'
<1> DEFINE r == SplitFunc(buf, err # "none")
<1>1. /\ maxSize \in Nat \ {0} /\ buf \in Seq(Bytes) /\ Len(buf) \in Nat /\ Len(buf) <= maxSize
  BY ScannerAssumption, LenProperties DEF SInv, TypeOK
<1>2. (err # "none") \in BOOLEAN
  OBVIOUS
<1>3. /\ Sound(r, buf)
      /\ r.found = {} /\ err = "none" => Len(buf) - r.advance < maxSize
  BY <1>1, <1>2, SplitFuncSound
<1>4. /\ skipping' = r.skips
      /\ \/ /\ r.found # {}
            /\ \E t \in r.found : tokens' = Append(tokens, t)
            /\ buf' = SubSeq(buf, r.advance + 1, Len(buf))
            /\ UNCHANGED pc
         \/ /\ r.found = {} /\ err = "none"
            /\ buf' = SubSeq(buf, r.advance + 1, Len(buf))
            /\ pc' = "read"
            /\ UNCHANGED tokens
         \/ /\ r.found = {} /\ err # "none"
            /\ buf' = <<>> /\ pc' = "over"
            /\ UNCHANGED tokens
      /\ pc = "scan" /\ UNCHANGED <<stream, maxSize, behavior, pos, err, together>>
  BY DEF Split
<1> HIDE DEF r
<1>5. /\ SubSeq(buf, r.advance + 1, Len(buf)) \in Seq(Bytes)
      /\ Len(SubSeq(buf, r.advance + 1, Len(buf))) = Len(buf) - r.advance
  <2>1. r.advance + 1 \in 1..(Len(buf) + 1) /\ Len(buf) \in (r.advance + 1 - 1)..Len(buf)
    BY <1>1, <1>3 DEF Sound
  <2>2. Len(buf) - (r.advance + 1) + 1 = Len(buf) - r.advance
    BY <1>1, <1>3 DEF Sound
  <2> QED
    BY <1>1, <2>1, <2>2, Pieces
<1>6. /\ stream' \in Streams /\ maxSize' \in MaxSizes /\ behavior' \in {"split", "truncate"}
      /\ pos' \in 0..Len(stream') /\ together' \in BOOLEAN /\ err' \in {"none", "eof", "broken"}
      /\ pc' \in {"scan", "read", "over"} /\ skipping' \in BOOLEAN
  BY <1>3, <1>4 DEF SInv, TypeOK, Sound
<1>7. /\ buf' \in Seq(Bytes) /\ Len(buf') <= maxSize'
      /\ pc' = "read" => Len(buf') < maxSize'
  <2>1. Len(<<>>) = 0 /\ <<>> \in Seq(Bytes)
    BY EmptySeq
  <2>2. r.advance \in Nat /\ maxSize' = maxSize
    BY <1>1, <1>3, <1>4 DEF Sound
  <2>3. CASE buf' = <<>> /\ pc' = "over"
    BY <1>1, <2>1, <2>2, <2>3
  <2>4. CASE buf' = SubSeq(buf, r.advance + 1, Len(buf)) /\ pc' = "scan"
    BY <1>1, <1>5, <2>2, <2>4
  <2>5. CASE buf' = SubSeq(buf, r.advance + 1, Len(buf)) /\ r.found = {} /\ err = "none"
    BY <1>1, <1>3, <1>5, <2>2, <2>5
  <2> QED
    BY <1>4, <2>3, <2>4, <2>5
<1>8. tokens' \in Seq(Seq(Bytes)) /\ RecordsFit'
  <2>1. tokens \in Seq(Seq(Bytes)) /\ RecordsFit
    BY DEF SInv, TypeOK
  <2>2. CASE UNCHANGED tokens
    BY <1>4, <2>1, <2>2 DEF RecordsFit
  <2>3. CASE \E t \in r.found : tokens' = Append(tokens, t)
    <3>1. PICK t \in r.found : tokens' = Append(tokens, t)
      BY <2>3
    <3>2. Fits(t)
      BY <1>3 DEF Sound
    <3> QED
      BY <1>1, <1>4, <2>1, <3>1, <3>2, FittingRecords DEF RecordsFit
  <2> QED
    BY <1>4, <2>2, <2>3
<1> QED
  BY <1>6, <1>7, <1>8 DEF SInv, TypeOK, NeverTooLong

\* A read keeps the invariant.
LEMMA ReadKeeps == ASSUME SInv, NEW e \in {"none", "eof", "broken"}, Read(e) PROVE SInv'
<1>1. /\ maxSize \in Nat \ {0} /\ buf \in Seq(Bytes) /\ Len(buf) \in Nat
      /\ stream \in Seq(Bytes) /\ Len(stream) \in Nat /\ pos \in 0..Len(stream)
  BY ScannerAssumption, LenProperties, StreamsAreSequences DEF SInv, TypeOK
<1>2. PICK n \in 0..(maxSize - Len(buf)) :
        /\ pos + n <= Len(stream)
        /\ buf' = buf \o SubSeq(stream, pos + 1, pos + n)
        /\ pos' = pos + n
        /\ together' = (n > 0 /\ e # "none")
  BY DEF Read
<1>3. /\ SubSeq(stream, pos + 1, pos + n) \in Seq(Bytes)
      /\ Len(SubSeq(stream, pos + 1, pos + n)) = n
  <2>1. pos + 1 \in 1..(Len(stream) + 1) /\ pos + n \in (pos + 1 - 1)..Len(stream)
    BY <1>1, <1>2
  <2>2. pos + n - (pos + 1) + 1 = n
    BY <1>1, <1>2
  <2> QED
    BY <1>1, <2>1, <2>2, Pieces
<1>4. buf' \in Seq(Bytes) /\ Len(buf') = Len(buf) + n
  BY <1>1, <1>2, <1>3, ConcatProperties
<1>5. /\ pc' = "scan" /\ err' = e
      /\ UNCHANGED <<stream, maxSize, behavior, skipping, tokens>>
  BY DEF Read
<1>6. Len(buf') <= maxSize' /\ pos' \in 0..Len(stream')
  BY <1>1, <1>2, <1>4, <1>5
<1> QED
  BY <1>2, <1>4, <1>5, <1>6 DEF SInv, TypeOK, NeverTooLong, RecordsFit

\* An empty buffer makes Scan read; that keeps the invariant.
LEMMA NothingKeeps == ASSUME SInv, Nothing PROVE SInv'
<1>1. maxSize \in Nat \ {0} /\ Len(buf) = 0
  BY ScannerAssumption, EmptySeq DEF SInv, TypeOK, Nothing
<1> QED
  BY <1>1 DEF Nothing, SInv, TypeOK, NeverTooLong, RecordsFit

\* Every step keeps the invariant.
LEMMA Inductive == SInv /\ [Next]_vars => SInv'
<1> SUFFICES ASSUME SInv, [Next]_vars PROVE SInv'
  OBVIOUS
<1>1. CASE UNCHANGED vars
  BY <1>1 DEF vars, SInv, TypeOK, NeverTooLong, RecordsFit
<1> QED
  BY <1>1, SplitKeeps, ReadKeeps, NothingKeeps DEF Next

\* The invariant holds in every reachable state.
LEMMA Invariance == Spec => []SInv
  BY InitOK, Inductive, PTL DEF Spec

-----------------------------------------------------------------------------
(* The theorems                                                            *)

\* The scanner's state has its types, and its buffer never holds more than
\* max_log_size bytes (NewScanner's Buffer call).
THEOREM TypeCorrect == Spec => []TypeOK
  BY Invariance, PTL DEF SInv

\* bufio.ErrTooLong never happens: whenever Scan reads on there is room in the
\* buffer, for every max_log_size, in both modes, and however the bytes arrive.
THEOREM ScanNeverFails == Spec => []NeverTooLong
  BY Invariance, PTL DEF SInv

\* Every record fits into max_log_size and comes from a single line.
THEOREM RecordsAreBounded == Spec => []RecordsFit
  BY Invariance, PTL DEF SInv
=============================================================================
