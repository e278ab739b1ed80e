------------------------- MODULE ScannerRecordProofs -------------------------
(***************************************************************************)
(* The records the scanner emits are the ones its text defines, however    *)
(* the bytes arrive, and a line has one stamped record however many pieces *)
(* it is cut into: for every size limit, stream and division into reads.   *)
(*                                                                         *)
(* First what the text defines: where records start, and that a finite set *)
(* of starts is listed in order by its sorted sequence, which grows at its *)
(* end when the text does. Then what one round of SplitFunc does to the    *)
(* list, and from it the invariant RInv of the scanner.                    *)
(***************************************************************************)
EXTENDS ScannerProofs, FiniteSetTheorems, FunctionTheorems

\* The largest and the smallest element are what they are defined as.
LEMMA MaxIs ==
  ASSUME NEW S \in SUBSET Int, NEW m \in S, \A x \in S : x <= m
  PROVE  Max(S) = m
<1>1. m \in S /\ \A y \in S : m >= y
  OBVIOUS
<1>2. Max(S) \in S /\ \A y \in S : Max(S) >= y
  BY <1>1, Zenon DEF Max
<1>3. m \in Int /\ Max(S) \in Int
  BY <1>2
<1> HIDE DEF Max
<1> QED BY <1>1, <1>2, <1>3

\* The same for the smallest.
LEMMA MinIs ==
  ASSUME NEW S \in SUBSET Int, NEW m \in S, \A x \in S : m <= x
  PROVE  Min(S) = m
<1>1. m \in S /\ \A y \in S : m =< y
  OBVIOUS
<1>2. Min(S) \in S /\ \A y \in S : Min(S) =< y
  BY <1>1, Zenon DEF Min
<1>3. m \in Int /\ Min(S) \in Int
  BY <1>2
<1> HIDE DEF Min
<1> QED BY <1>1, <1>2, <1>3

\* A bounded set of numbers has a largest element.
LEMMA MaxExists ==
  ASSUME NEW n \in Nat, NEW S \in SUBSET (0..n), S # {}
  PROVE  Max(S) \in S /\ \A x \in S : x <= Max(S)
<1> DEFINE less == OpToRel(<, Nat)
<1> DEFINE D == {n - x : x \in S}
<1>1. IsWellFoundedOn(less, Nat)
  BY NatLessThanWellFounded
<1>2. D \subseteq Nat /\ D # {}
  <2>1. \A x \in S : x \in 0..n
    OBVIOUS
  <2> QED BY <2>1
<1>3. \A x, y \in Nat : <<y, x>> \notin less => x <= y
  BY DEF OpToRel
<1> HIDE DEF less, D
<1>4. \E x \in D : \A y \in D : ~(<<y, x>> \in less)
  BY <1>1, <1>2, WFMin
<1>5. PICK d \in D : \A y \in D : d <= y
  BY <1>2, <1>3, <1>4
<1>6. PICK m \in S : d = n - m
  BY <1>5 DEF D
<1>7. \A x \in S : x <= m
  <2> SUFFICES ASSUME NEW x \in S PROVE x <= m
    OBVIOUS
  <2>1. n - x \in D
    BY DEF D
  <2> QED BY <1>5, <1>6, <2>1
<1>8. S \subseteq Int
  OBVIOUS
<1>9. Max(S) = m
  BY <1>7, <1>8, MaxIs
<1> QED BY <1>7, <1>9

\* A multiple of m is followed by m - 1 numbers that are none, and by one.
LEMMA Multiples ==
  ASSUME NEW m \in Nat \ {0}, NEW a \in Nat, a % m = 0
  PROVE  /\ (a + m) % m = 0
         /\ \A j \in 1..(m - 1) : (a + j) % m # 0
<1> DEFINE q == a \div m
<1>1. q \in Int /\ a = m * q
  OBVIOUS
<1>2. ASSUME NEW j \in 1..(m - 1), (a + j) % m = 0 PROVE FALSE
  <2> DEFINE p == (a + j) \div m
  <2>1. p \in Int /\ a + j = m * p
    BY <1>2
  <2> HIDE DEF p, q
  <2>2. m * p - m * q = j
    BY <1>1, <2>1
  <2>3. m * (p - q) = j
    BY <1>1, <2>1, <2>2
  <2>4. CASE p - q <= 0
    <3>1. m * (p - q) <= 0
      BY <1>1, <2>1, <2>4
    <3> QED BY <2>3, <3>1
  <2>5. CASE p - q >= 1
    <3>1. m * (p - q) >= m
      BY <1>1, <2>1, <2>5
    <3> QED BY <2>3, <3>1
  <2> QED BY <1>1, <2>1, <2>4, <2>5
<1>3. (a + m) % m = 0
  <2> DEFINE p == (a + m) \div m
  <2> DEFINE r == (a + m) % m
  <2>1. p \in Int /\ r \in 0..(m - 1) /\ a + m = m * p + r
    OBVIOUS
  <2> HIDE DEF p, q, r
  <2>2. m * (q + 1 - p) = r
    BY <1>1, <2>1
  <2>3. CASE q + 1 - p >= 1
    <3>1. m * (q + 1 - p) >= m
      BY <1>1, <2>1, <2>3
    <3> QED BY <2>1, <2>2, <3>1
  <2>4. CASE q + 1 - p <= 0
    <3>1. m * (q + 1 - p) <= 0
      BY <1>1, <2>1, <2>4
    <3>2. r = 0
      BY <2>1, <2>2, <3>1
    <3> QED BY <3>2 DEF r
  <2> QED BY <1>1, <2>1, <2>3, <2>4
<1> QED BY <1>2, <1>3

-----------------------------------------------------------------------------
(* Lines, offsets and the records of the stream                            *)

\* Bytes the scanner is done with.
Taken == pos - Len(buf)

\* Offset, of the whole stream.
Off(i) == i - Max({0} \cup {j \in 1..(i - 1) : stream[j] = NL}) - 1

IsStart(i) == IF behavior = "split" THEN Off(i) % maxSize = 0 ELSE Off(i) = 0

StartsTo(n) == {i \in 1..n : IsStart(i)}

Place(i) == Cardinality(StartsTo(i))

NoNL(a, b) == \A j \in a..b : stream[j] # NL

\* The last newline before i.
LEMMA LastNewline ==
  ASSUME NEW i \in Nat \ {0}
  PROVE  LET m == Max({0} \cup {j \in 1..(i - 1) : stream[j] = NL}) IN
         /\ m \in 0..(i - 1) /\ (m > 0 => stream[m] = NL) /\ NoNL(m + 1, i - 1)
<1> DEFINE S == {0} \cup {j \in 1..(i - 1) : stream[j] = NL}
<1>1. i - 1 \in Nat /\ S \in SUBSET (0..(i - 1)) /\ S # {}
  OBVIOUS
<1> DEFINE m == Max(S)
<1>2. m \in S /\ \A x \in S : x <= m
  <2> HIDE DEF S
  <2> QED BY <1>1, MaxExists
<1>3. m \in 0..(i - 1) /\ (m > 0 => stream[m] = NL)
  BY <1>2
<1>4. NoNL(m + 1, i - 1)
  <2> SUFFICES ASSUME NEW j \in (m + 1)..(i - 1), stream[j] = NL PROVE FALSE
    BY DEF NoNL
  <2>1. j \in S
    BY <1>3
  <2>2. j <= m
    BY <1>2, <2>1
  <2> HIDE DEF m
  <2> QED BY <1>3, <2>2
<1> QED BY <1>3, <1>4

\* An offset is found from any newline, or the beginning, with none behind it.
LEMMA OffsetFrom ==
  ASSUME NEW i \in Nat \ {0}, NEW m \in 0..(i - 1), m > 0 => stream[m] = NL, NoNL(m + 1, i - 1)
  PROVE  Off(i) = i - m - 1
<1> DEFINE S == {0} \cup {j \in 1..(i - 1) : stream[j] = NL}
<1>1. S \in SUBSET Int /\ m \in S
  OBVIOUS
<1>2. ASSUME NEW x \in S PROVE x <= m
  <2>1. CASE x = 0
    BY <2>1
  <2>2. CASE x # 0
    <3>1. x \in 1..(i - 1) /\ stream[x] = NL
      BY <2>2
    <3> QED BY <3>1 DEF NoNL
  <2> QED BY <2>1, <2>2
<1>3. Max(S) = m
  <2> HIDE DEF S
  <2> QED BY <1>1, <1>2, MaxIs
<1> QED BY <1>3 DEF Off

\* Offsets are numbers, begin at 0 and count up to the next newline.
LEMMA Offsets ==
  /\ \A i \in Nat \ {0} : Off(i) \in Nat
  /\ Off(1) = 0
  /\ \A i \in Nat \ {0} : stream[i] = NL => Off(i + 1) = 0
  /\ \A i \in Nat \ {0}, n \in Nat : NoNL(i, i + n - 1) => Off(i + n) = Off(i) + n
<1>1. ASSUME NEW i \in Nat \ {0} PROVE Off(i) \in Nat
  <2> DEFINE m == Max({0} \cup {j \in 1..(i - 1) : stream[j] = NL})
  <2>1. m \in 0..(i - 1)
    BY LastNewline
  <2>2. Off(i) = i - m - 1
    BY DEF Off
  <2> HIDE DEF m
  <2> QED BY <2>1, <2>2
<1>2. Off(1) = 0
  <2>1. 0 \in 0..(1 - 1) /\ NoNL(0 + 1, 1 - 1)
    BY DEF NoNL
  <2>2. Off(1) = 1 - 0 - 1
    BY <2>1, OffsetFrom
  <2> QED BY <2>2
<1>3. ASSUME NEW i \in Nat \ {0}, stream[i] = NL PROVE Off(i + 1) = 0
  <2>1. i + 1 \in Nat \ {0} /\ i \in 0..(i + 1 - 1) /\ NoNL(i + 1, i + 1 - 1)
    BY DEF NoNL
  <2>2. Off(i + 1) = i + 1 - i - 1
    BY <1>3, <2>1, OffsetFrom
  <2> QED BY <2>2
<1>4. ASSUME NEW i \in Nat \ {0}, NEW n \in Nat, NoNL(i, i + n - 1) PROVE Off(i + n) = Off(i) + n
  <2> DEFINE m == Max({0} \cup {j \in 1..(i - 1) : stream[j] = NL})
  <2>1. m \in 0..(i - 1) /\ (m > 0 => stream[m] = NL) /\ NoNL(m + 1, i - 1)
    BY LastNewline
  <2>2. Off(i) = i - m - 1
    BY DEF Off
  <2> HIDE DEF m
  <2>3. i + n \in Nat \ {0} /\ m \in 0..(i + n - 1) /\ NoNL(m + 1, i + n - 1)
    BY <1>4, <2>1 DEF NoNL
  <2>4. Off(i + n) = i + n - m - 1
    BY <2>1, <2>3, OffsetFrom
  <2> QED BY <2>1, <2>2, <2>4
<1> QED BY <1>1, <1>2, <1>3, <1>4

\* From one record's start to the next, if n bytes are taken, the last of them
\* perhaps a newline.
LEMMA NextStart ==
  ASSUME maxSize \in Nat \ {0}, behavior \in {"split", "truncate"}, NEW i \in Nat \ {0}, IsStart(i),
         NEW n \in 1..maxSize, NoNL(i, i + n - 2)
  PROVE  /\ \A j \in (i + 1)..(i + n - 1) : ~IsStart(j)
         /\ stream[i + n - 1] = NL => IsStart(i + n)
         /\ NoNL(i, i + n - 1) /\ n = maxSize /\ behavior = "split" => IsStart(i + n)
         /\ NoNL(i, i + n - 1) /\ behavior = "truncate" => Off(i + n) > 0
<1>1. Off(i) \in Nat
  BY Offsets
<1>2. ASSUME NEW j \in (i + 1)..(i + n - 1) PROVE ~IsStart(j)
  <2> DEFINE d == j - i
  <2>1. d \in 1..(maxSize - 1) /\ d \in Nat /\ j = i + d /\ NoNL(i, i + d - 1)
    BY DEF NoNL
  <2>2. Off(j) = Off(i) + d
    BY <2>1, Offsets
  <2> HIDE DEF d
  <2>3. CASE behavior = "split"
    <3>1. Off(i) % maxSize = 0
      BY <2>3 DEF IsStart
    <3>2. (Off(i) + d) % maxSize # 0
      BY <1>1, <2>1, <3>1, Multiples
    <3> QED BY <2>2, <2>3, <3>2 DEF IsStart
  <2>4. CASE behavior = "truncate"
    BY <1>1, <2>1, <2>2, <2>4 DEF IsStart
  <2> QED BY <2>3, <2>4
<1>3. ASSUME stream[i + n - 1] = NL PROVE IsStart(i + n)
  <2>1. i + n - 1 \in Nat \ {0} /\ i + n - 1 + 1 = i + n
    OBVIOUS
  <2>2. Off(i + n) = 0
    BY <1>3, <2>1, Offsets
  <2>3. 0 % maxSize = 0
    OBVIOUS
  <2> QED BY <2>2, <2>3 DEF IsStart
<1>4. ASSUME NoNL(i, i + n - 1) PROVE Off(i + n) = Off(i) + n
  BY <1>4, Offsets
<1>5. ASSUME NoNL(i, i + n - 1), n = maxSize, behavior = "split" PROVE IsStart(i + n)
  <2>1. Off(i) % maxSize = 0
    BY <1>5 DEF IsStart
  <2>2. (Off(i) + maxSize) % maxSize = 0
    BY <1>1, <2>1, Multiples
  <2> QED BY <1>4, <1>5, <2>2 DEF IsStart
<1>6. ASSUME NoNL(i, i + n - 1), behavior = "truncate" PROVE Off(i + n) > 0
  BY <1>1, <1>4, <1>6
<1> QED BY <1>2, <1>3, <1>5, <1>6

\* Inside a line truncate mode starts no record, up to and with its newline.
LEMMA RestOfLine ==
  ASSUME behavior = "truncate", NEW i \in Nat \ {0}, Off(i) > 0, NEW n \in Nat, NoNL(i, i + n - 2)
  PROVE  /\ \A j \in i..(i + n - 1) : ~IsStart(j)
         /\ NoNL(i, i + n - 1) => Off(i + n) > 0
         /\ n > 0 /\ stream[i + n - 1] = NL => Off(i + n) = 0
<1>1. Off(i) \in Nat
  BY Offsets
<1>2. ASSUME NEW j \in i..(i + n - 1) PROVE ~IsStart(j)
  <2> DEFINE d == j - i
  <2>1. d \in Nat /\ j = i + d /\ NoNL(i, i + d - 1)
    BY DEF NoNL
  <2>2. Off(j) = Off(i) + d
    BY <2>1, Offsets
  <2> HIDE DEF d
  <2> QED BY <1>1, <2>1, <2>2 DEF IsStart
<1>3. ASSUME NoNL(i, i + n - 1) PROVE Off(i + n) > 0
  <2>1. Off(i + n) = Off(i) + n
    BY <1>3, Offsets
  <2> QED BY <1>1, <2>1
<1>4. ASSUME n > 0, stream[i + n - 1] = NL PROVE Off(i + n) = 0
  <2>1. i + n - 1 \in Nat \ {0} /\ i + n - 1 + 1 = i + n
    BY <1>4
  <2> QED BY <1>4, <2>1, Offsets
<1> QED BY <1>2, <1>3, <1>4

\* Records are counted by their starts.
LEMMA Places ==
  ASSUME NEW n \in Nat
  PROVE  /\ IsFiniteSet(StartsTo(n)) /\ Place(n) \in Nat
         /\ \A i \in 0..n : StartsTo(i) \subseteq StartsTo(n) /\ Place(i) \in Nat /\ Place(i) <= Place(n)
         /\ Place(0) = 0
<1>1. ASSUME NEW i \in Nat PROVE IsFiniteSet(StartsTo(i)) /\ Place(i) \in Nat
  <2>1. StartsTo(i) \in SUBSET Nat /\ \A x \in StartsTo(i) : x <= i
    BY DEF StartsTo
  <2> QED BY <2>1, FS_BoundedSetOfNaturals, FS_CardinalityType DEF Place
<1>2. ASSUME NEW i \in 0..n PROVE StartsTo(i) \subseteq StartsTo(n) /\ Place(i) <= Place(n)
  <2>1. StartsTo(i) \subseteq StartsTo(n)
    BY DEF StartsTo
  <2> QED BY <1>1, <2>1, FS_Subset DEF Place
<1>3. StartsTo(0) = {}
  BY DEF StartsTo
<1> QED BY <1>1, <1>2, <1>3, FS_EmptySet DEF Place

\* One more start, one more place.
LEMMA PlaceOfNext ==
  ASSUME NEW c \in Nat, NEW n \in Nat \ {0}, IsStart(c + 1), \A j \in (c + 2)..(c + n) : ~IsStart(j)
  PROVE  /\ StartsTo(c + n) = StartsTo(c) \cup {c + 1}
         /\ Place(c + n) = Place(c) + 1 /\ Place(c + 1) = Place(c) + 1
<1>1. StartsTo(c + n) = StartsTo(c) \cup {c + 1}
  <2>1. ASSUME NEW x \in StartsTo(c + n) PROVE x \in StartsTo(c) \cup {c + 1}
    <3>1. x \in 1..(c + n) /\ IsStart(x)
      BY DEF StartsTo
    <3>2. x <= c \/ x = c + 1
      BY <3>1
    <3> QED BY <3>1, <3>2 DEF StartsTo
  <2>2. ASSUME NEW x \in StartsTo(c) \cup {c + 1} PROVE x \in StartsTo(c + n)
    BY DEF StartsTo
  <2> QED BY <2>1, <2>2
<1>2. StartsTo(c + 1) = StartsTo(c) \cup {c + 1}
  <2>1. ASSUME NEW x \in StartsTo(c + 1) PROVE x \in StartsTo(c) \cup {c + 1}
    <3>1. x \in 1..(c + 1) /\ IsStart(x)
      BY DEF StartsTo
    <3> QED BY <3>1 DEF StartsTo
  <2>2. ASSUME NEW x \in StartsTo(c) \cup {c + 1} PROVE x \in StartsTo(c + 1)
    BY DEF StartsTo
  <2> QED BY <2>1, <2>2
<1>3. c + 1 \notin StartsTo(c) /\ IsFiniteSet(StartsTo(c))
  BY Places DEF StartsTo
<1>4. Cardinality(StartsTo(c) \cup {c + 1}) = Cardinality(StartsTo(c)) + 1
  BY <1>3, FS_AddElement
<1> QED BY <1>1, <1>2, <1>4 DEF Place

\* Bytes that start no record do not add to the list.
LEMMA PlaceOfNone ==
  ASSUME NEW c \in Nat, NEW n \in Nat, \A j \in (c + 1)..(c + n) : ~IsStart(j)
  PROVE  StartsTo(c + n) = StartsTo(c) /\ Place(c + n) = Place(c)
<1>1. ASSUME NEW x \in StartsTo(c + n) PROVE x \in StartsTo(c)
  <2>1. x \in 1..(c + n) /\ IsStart(x)
    BY DEF StartsTo
  <2>2. x <= c
    BY <2>1
  <2> QED BY <2>1, <2>2 DEF StartsTo
<1>2. ASSUME NEW x \in StartsTo(c) PROVE x \in StartsTo(c + n)
  BY DEF StartsTo
<1>3. StartsTo(c + n) = StartsTo(c)
  BY <1>1, <1>2
<1> QED BY <1>3 DEF Place

-----------------------------------------------------------------------------
(* The invariant                                                           *)

\* The record that begins at i ends with byte e: it is full, its line ends
\* there, or nothing more comes.
IsLast(i, e) ==
  /\ e \in (i - 1)..pos /\ e <= i + maxSize - 1 /\ NoNL(i, e)
  /\ \/ e = i + maxSize - 1
     \/ e < pos /\ stream[e + 1] = NL
     \/ e = pos /\ err # "none"

Cut(i, e) == LET t == SubSeq(stream, i, e) IN IF Len(t) < maxSize THEN DropCR(t) ELSE t

CutCR(i, e) == DropCR(Cut(i, e))

\* t reports the record that begins at i.
Reports(t, i) ==
  \E e \in (i - 1)..pos : IsLast(i, e) /\ (t = Cut(i, e) \/ (together /\ t = CutCR(i, e)))

\* Every record that begins among the first c bytes has its token, in order, and
\* there are no others.
Up(c) ==
  /\ Len(tokens) = Place(c)
  /\ \A i \in StartsTo(c) : Place(i) \in 1..Len(tokens) /\ Reports(tokens[Place(i)], i)
  /\ \A k \in 1..Len(tokens) : \E i \in StartsTo(c) : Place(i) = k

TokensOK == Up(Taken)

\* Records behind c may be missing in the end.
LostAfter(c) == c = pos \/ (behavior = "truncate" /\ together /\ c + maxSize >= pos)

\* The buffer is what was read and not taken, and a line that is being skipped
\* goes on behind it unless it was filled together with the error.
BufOK ==
  /\ Len(buf) <= pos /\ \A j \in 1..Len(buf) : buf[j] = stream[Taken + j]
  /\ pc = "read" => err = "none"
  /\ err = "none" => ~together
  /\ pc = "over" => buf = <<>>
  /\ behavior = "split" => ~skipping
  /\ (pc = "read" \/ (err # "none" /\ ~together)) /\ skipping => \A j \in 1..Len(buf) : buf[j] # NL
  /\ err # "none" /\ ~together => Len(buf) < maxSize

\* The buffer begins with a record, or inside the line that is being skipped.
AtBoundary == IF behavior = "truncate" /\ skipping THEN Off(Taken + 1) > 0 ELSE IsStart(Taken + 1)

\* Nothing was discarded with the rest of a line.
Claimed == behavior = "split" \/ ~together \/ pc # "over"

RInv ==
  /\ BufOK
  /\ Claimed => TokensOK
  /\ Claimed /\ pc # "over" /\ (err = "none" \/ buf # <<>>) => AtBoundary
  /\ pc = "over" => \E c \in 0..pos : LostAfter(c) /\ Up(c)

\* What the invariant knows of its variables.
LEMMA Known ==
  ASSUME SInv, BufOK
  PROVE  /\ maxSize \in Nat \ {0} /\ behavior \in {"split", "truncate"}
         /\ stream \in Seq(Bytes) /\ Len(stream) \in Nat /\ pos \in 0..Len(stream)
         /\ buf \in Seq(Bytes) /\ Len(buf) \in Nat /\ Len(buf) <= maxSize
         /\ Taken \in Nat /\ Taken + Len(buf) = pos
         /\ tokens \in Seq(Seq(Bytes)) /\ Len(tokens) \in Nat
<1>1. /\ maxSize \in Nat \ {0} /\ behavior \in {"split", "truncate"}
      /\ stream \in Seq(Bytes) /\ pos \in 0..Len(stream)
      /\ buf \in Seq(Bytes) /\ Len(buf) <= maxSize /\ tokens \in Seq(Seq(Bytes))
  BY ScannerAssumption, StreamsAreSequences DEF SInv, TypeOK
<1>2. Len(stream) \in Nat /\ Len(buf) \in Nat /\ Len(tokens) \in Nat
  BY <1>1, LenProperties
<1>3. Len(buf) <= pos
  BY DEF BufOK
<1> QED BY <1>1, <1>2, <1>3 DEF Taken

\* What is fixed for a connection.
LEMMA Fixed ==
  ASSUME UNCHANGED <<stream, maxSize, behavior>>
  PROVE  /\ \A i : Off(i)' = Off(i) /\ (IsStart(i)' <=> IsStart(i))
         /\ \A n : StartsTo(n)' = StartsTo(n) /\ Place(n)' = Place(n)
         /\ \A i, e : Cut(i, e)' = Cut(i, e) /\ CutCR(i, e)' = CutCR(i, e)
         /\ \A a, b : NoNL(a, b)' <=> NoNL(a, b)
<1>1. \A i : Off(i)' = Off(i) /\ (IsStart(i)' <=> IsStart(i))
  BY DEF Off, IsStart
<1>2. \A n : StartsTo(n)' = StartsTo(n)
  BY <1>1 DEF StartsTo
<1> QED BY <1>1, <1>2 DEF Place, Cut, CutCR, DropCR, NoNL

\* A record that was reported stays reported: only before an error is more
\* read, and before an error no record ends for want of bytes.
LEMMA StaysReported ==
  ASSUME UNCHANGED <<stream, maxSize, behavior>>, pos \in Nat, pos' \in Nat, pos' >= pos,
         err = "none" \/ UNCHANGED <<pos, err>>, together => together',
         NEW t, NEW i \in Nat \ {0}, Reports(t, i)
  PROVE  \E e \in (i - 1)..pos' : IsLast(i, e)' /\ (t = Cut(i, e)' \/ (together' /\ t = CutCR(i, e)'))
<1>1. PICK e \in (i - 1)..pos : IsLast(i, e) /\ (t = Cut(i, e) \/ (together /\ t = CutCR(i, e)))
  BY DEF Reports
<1>2. e \in (i - 1)..pos'
  OBVIOUS
<1>3. IsLast(i, e)'
  BY <1>1, <1>2, Fixed DEF IsLast
<1>4. t = Cut(i, e)' \/ (together' /\ t = CutCR(i, e)')
  BY <1>1, Fixed
<1> QED BY <1>2, <1>3, <1>4

\* A token for the record at the head of the buffer, and n bytes taken.
LEMMA AddRecord ==
  ASSUME SInv, BufOK, TokensOK, UNCHANGED <<stream, maxSize, behavior, pos, err, together>>,
         NEW n \in 1..Len(buf), Taken' = Taken + n,
         IsStart(Taken + 1), \A j \in (Taken + 2)..(Taken + n) : ~IsStart(j),
         NEW t, tokens' = Append(tokens, t), Reports(t, Taken + 1)
  PROVE  TokensOK'
<1> DEFINE c == Taken
<1>1. c \in Nat /\ n \in Nat \ {0} /\ tokens \in Seq(Seq(Bytes)) /\ Len(tokens) \in Nat /\ pos \in Nat
  BY Known
<1> HIDE DEF c
<1>2. /\ Len(tokens') = Len(tokens) + 1 /\ tokens'[Len(tokens) + 1] = t
      /\ \A k \in 1..Len(tokens) : tokens'[k] = tokens[k]
  <2>1. DOMAIN tokens = 1..Len(tokens)
    BY <1>1, LenProperties
  <2> QED BY <1>1, <2>1 DEF Append
<1>3. /\ StartsTo(c + n) = StartsTo(c) \cup {c + 1}
      /\ Place(c + n) = Place(c) + 1 /\ Place(c + 1) = Place(c) + 1
  BY <1>1, PlaceOfNext DEF c
<1>4. Taken' = c + n /\ StartsTo(Taken)' = StartsTo(c + n) /\ Place(Taken)' = Place(c + n)
  BY Fixed DEF c, StartsTo, Place
<1>5. \A i : Place(i)' = Place(i)
  BY Fixed
<1>6. Len(tokens) = Place(c)
  BY DEF TokensOK, Up, c
<1> DEFINE ReportsNext(u, i) ==
             \E e \in (i - 1)..pos' : IsLast(i, e)' /\ (u = Cut(i, e)' \/ (together' /\ u = CutCR(i, e)'))
<1>7. ASSUME NEW i \in StartsTo(c + n) PROVE Place(i) \in 1..Len(tokens') /\ ReportsNext(tokens'[Place(i)], i)
  <2>1. CASE i \in StartsTo(c)
    <3>1. Place(i) \in 1..Len(tokens) /\ Reports(tokens[Place(i)], i)
      BY <2>1 DEF TokensOK, Up, c
    <3>2. i \in Nat \ {0}
      BY <1>1, <2>1 DEF StartsTo
    <3>3. ReportsNext(tokens[Place(i)], i)
      BY <1>1, <3>1, <3>2, StaysReported
    <3>4. Place(i) \in 1..Len(tokens') /\ tokens'[Place(i)] = tokens[Place(i)]
      BY <1>1, <1>2, <3>1
    <3> QED BY <3>3, <3>4
  <2>2. CASE i = c + 1
    <3>1. Place(i) = Len(tokens) + 1
      BY <1>3, <1>6, <2>2
    <3>2. ReportsNext(t, i)
      BY <1>1, <2>2, StaysReported DEF c
    <3>3. Place(i) \in 1..Len(tokens') /\ tokens'[Place(i)] = t
      BY <1>1, <1>2, <3>1
    <3> QED BY <3>2, <3>3
  <2> QED BY <1>3, <2>1, <2>2
<1>8. ASSUME NEW k \in 1..Len(tokens') PROVE \E i \in StartsTo(c + n) : Place(i) = k
  <2>1. CASE k \in 1..Len(tokens)
    <3>1. PICK i \in StartsTo(c) : Place(i) = k
      BY <2>1 DEF TokensOK, Up, c
    <3> QED BY <1>3, <3>1
  <2>2. CASE k = Len(tokens) + 1
    BY <1>3, <1>6, <2>2
  <2> QED BY <1>1, <1>2, <2>1, <2>2
<1>9. \A i \in StartsTo(Taken)' : Place(i)' \in 1..Len(tokens') /\ ReportsNext(tokens'[Place(i)'], i)
  BY <1>4, <1>5, <1>7
<1> QED BY <1>2, <1>3, <1>4, <1>5, <1>6, <1>8, <1>9 DEF TokensOK, Up, Reports

\* No token is added or lost.
LEMMA KeepUp ==
  ASSUME SInv, BufOK, UNCHANGED <<stream, maxSize, behavior, tokens>>,
         pos' \in Nat, pos' >= pos, err = "none" \/ UNCHANGED <<pos, err>>, together => together',
         NEW c \in Nat, Up(c)
  PROVE  Up(c)'
<1>1. pos \in Nat
  BY Known
<1>2. StartsTo(c)' = StartsTo(c) /\ Place(c)' = Place(c) /\ \A i : Place(i)' = Place(i)
  BY Fixed
<1>3. ASSUME NEW i \in StartsTo(c)
      PROVE  /\ Place(i) \in 1..Len(tokens)
             /\ \E e \in (i - 1)..pos' :
                  IsLast(i, e)' /\ (tokens[Place(i)] = Cut(i, e)' \/ (together' /\ tokens[Place(i)] = CutCR(i, e)'))
  <2>1. Place(i) \in 1..Len(tokens) /\ Reports(tokens[Place(i)], i)
    BY <1>3 DEF Up
  <2>2. i \in Nat \ {0}
    BY <1>3 DEF StartsTo
  <2> QED BY <1>1, <2>1, <2>2, StaysReported
<1>4. Len(tokens) = Place(c) /\ \A k \in 1..Len(tokens) : \E i \in StartsTo(c) : Place(i) = k
  BY DEF Up
<1> QED BY <1>2, <1>3, <1>4 DEF Up, Reports

\* No token, and n bytes taken that begin no record.
LEMMA KeepTokens ==
  ASSUME SInv, BufOK, TokensOK, UNCHANGED <<stream, maxSize, behavior, tokens>>,
         pos' \in Nat, pos' >= pos, err = "none" \/ UNCHANGED <<pos, err>>, together => together',
         NEW n \in Nat, Taken' = Taken + n, \A j \in (Taken + 1)..(Taken + n) : ~IsStart(j)
  PROVE  TokensOK'
<1>1. PICK c \in Nat : c = Taken
  BY Known
<1>2. StartsTo(c + n) = StartsTo(c) /\ Place(c + n) = Place(c)
  BY <1>1, PlaceOfNone
<1>3. Up(c)'
  <2>1. Up(c)
    BY <1>1 DEF TokensOK
  <2> QED BY <2>1, KeepUp
<1>4. StartsTo(Taken)' = StartsTo(c)' /\ Place(Taken)' = Place(c)'
  BY <1>1, <1>2, Fixed DEF StartsTo, Place
<1> QED BY <1>3, <1>4 DEF TokensOK, Up

\* Taking n bytes off the buffer.
LEMMA Shifted ==
  ASSUME SInv, BufOK, UNCHANGED <<stream, pos>>, NEW n \in 0..Len(buf), buf' = SubSeq(buf, n + 1, Len(buf))
  PROVE  /\ Len(buf') = Len(buf) - n /\ Taken' = Taken + n
         /\ \A j \in 1..Len(buf') : buf'[j] = buf[n + j] /\ buf'[j] = stream[Taken' + j]
<1>1. Len(buf) \in Nat /\ buf \in Seq(Bytes) /\ Taken \in Nat /\ pos \in Nat
  BY Known
<1>2. \A i \in (n + 1)..Len(buf) : buf[i] \in Bytes
  BY <1>1, ElementOfSeq
<1>3. /\ Len(buf') = IF n + 1 <= Len(buf) THEN Len(buf) - (n + 1) + 1 ELSE 0
      /\ \A j \in 1..(Len(buf) - (n + 1) + 1) : buf'[j] = buf[n + 1 + j - 1]
  BY <1>1, <1>2, SubSeqProperties
<1>4. Len(buf') = Len(buf) - n /\ \A j \in 1..Len(buf') : buf'[j] = buf[n + j]
  BY <1>1, <1>3
<1>5. Taken' = Taken + n
  <2>1. Taken' = pos - Len(buf')
    BY DEF Taken
  <2>2. Taken = pos - Len(buf)
    BY DEF Taken
  <2> QED BY <1>1, <1>4, <2>1, <2>2
<1>6. \A j \in 1..Len(buf') : n + j \in 1..Len(buf) /\ buf[n + j] = stream[Taken + n + j]
  <2>1. \A j \in 1..Len(buf') : n + j \in 1..Len(buf) /\ Taken + (n + j) = Taken + n + j
    BY <1>1, <1>4
  <2> QED BY <2>1 DEF BufOK
<1> QED BY <1>1, <1>4, <1>5, <1>6

\* A head of the buffer, in the stream.
LEMMA HeadOfBuffer ==
  ASSUME SInv, BufOK, NEW n \in 0..Len(buf)
  PROVE  /\ SubSeq(buf, 1, n) = SubSeq(stream, Taken + 1, Taken + n)
         /\ Len(SubSeq(stream, Taken + 1, Taken + n)) = n
         /\ NoNL(Taken + 1, Taken + n) <=> \A j \in 1..n : buf[j] # NL
<1>1. /\ Len(buf) \in Nat /\ buf \in Seq(Bytes) /\ Taken \in Nat /\ pos \in 0..Len(stream)
      /\ stream \in Seq(Bytes) /\ Len(stream) \in Nat /\ Taken + Len(buf) = pos
  BY Known
<1>2. \A j \in 1..n : buf[j] = stream[Taken + j]
  BY <1>1 DEF BufOK
<1>3. (\A j \in 1..n : buf[j] \in Bytes) /\ (\A j \in (Taken + 1)..(Taken + n) : stream[j] \in Bytes)
  BY <1>1, ElementOfSeq
<1>4. /\ SubSeq(buf, 1, n) \in Seq(Bytes) /\ Len(SubSeq(buf, 1, n)) = n
      /\ \A j \in 1..n : SubSeq(buf, 1, n)[j] = buf[j]
  <2>1. /\ SubSeq(buf, 1, n) \in Seq(Bytes) /\ Len(SubSeq(buf, 1, n)) = IF 1 <= n THEN n - 1 + 1 ELSE 0
        /\ \A j \in 1..(n - 1 + 1) : SubSeq(buf, 1, n)[j] = buf[1 + j - 1]
    BY <1>1, <1>3, SubSeqProperties
  <2> QED BY <1>1, <2>1
<1> DEFINE t == SubSeq(stream, Taken + 1, Taken + n)
<1>5. /\ t \in Seq(Bytes) /\ Len(t) = n
      /\ \A j \in 1..n : t[j] = stream[Taken + j]
  <2> DEFINE a == Taken + 1
  <2> DEFINE b == Taken + n
  <2>1. a \in Int /\ b \in Int /\ b - a + 1 = n /\ (\A j \in 1..n : a + j - 1 = Taken + j) /\ (a <= b <=> n >= 1)
    BY <1>1
  <2>2. \A j \in a..b : stream[j] \in Bytes
    BY <1>3
  <2> HIDE DEF a, b
  <2>3. /\ SubSeq(stream, a, b) \in Seq(Bytes) /\ Len(SubSeq(stream, a, b)) = IF a <= b THEN b - a + 1 ELSE 0
        /\ \A j \in 1..(b - a + 1) : SubSeq(stream, a, b)[j] = stream[a + j - 1]
    BY <2>1, <2>2, SubSeqProperties
  <2>4. t = SubSeq(stream, a, b)
    BY DEF a, b
  <2> HIDE DEF t
  <2> QED BY <2>1, <2>3, <2>4
<1>6. SubSeq(buf, 1, n) = t
  <2> HIDE DEF t
  <2> QED BY <1>2, <1>4, <1>5, SeqEqual
<1>7. NoNL(Taken + 1, Taken + n) <=> \A j \in 1..n : buf[j] # NL
  <2>1. ASSUME NEW j \in (Taken + 1)..(Taken + n) PROVE j - Taken \in 1..n /\ stream[j] = buf[j - Taken]
    <3>1. j - Taken \in 1..n /\ Taken + (j - Taken) = j
      BY <1>1
    <3> QED BY <1>2, <3>1
  <2>2. \A j \in 1..n : Taken + j \in (Taken + 1)..(Taken + n)
    BY <1>1
  <2> QED BY <1>2, <2>1, <2>2 DEF NoNL
<1> QED BY <1>5, <1>6, <1>7

-----------------------------------------------------------------------------
(* A step of the scanner                                                   *)

\* What Split does with the buffer, spelled out.
LEMMA SplitCases ==
  ASSUME SInv, Split
  PROVE  LET i == IndexNL(buf) IN
         /\ pc = "scan" /\ UNCHANGED <<stream, maxSize, behavior, pos, err, together>>
         /\ behavior = "truncate" /\ skipping =>
              /\ UNCHANGED tokens
              /\ err # "none" => buf' = <<>> /\ pc' = "over"
              /\ err = "none" => pc' = "read"
              /\ err = "none" /\ i > 0 => skipping' = FALSE /\ buf' = SubSeq(buf, i + 1, Len(buf))
              /\ err = "none" /\ i = 0 =>
                   skipping' = TRUE /\ \E n \in 0..Len(buf) : buf' = SubSeq(buf, n + 1, Len(buf))
         /\ ~(behavior = "truncate" /\ skipping) =>
              \/ /\ i > 0 /\ tokens' = Append(tokens, DropCR(SubSeq(buf, 1, i - 1)))
                 /\ buf' = SubSeq(buf, i + 1, Len(buf)) /\ skipping' = FALSE /\ pc' = "scan"
              \/ /\ i = 0 /\ err # "none" /\ buf # <<>> /\ tokens' = Append(tokens, DropCR(buf))
                 /\ buf' = SubSeq(buf, Len(buf) + 1, Len(buf)) /\ skipping' = FALSE /\ pc' = "scan"
              \/ /\ i = 0 /\ err = "none" /\ Len(buf) = maxSize
                 /\ tokens' = Append(tokens, SubSeq(buf, 1, maxSize))
                 /\ buf' = SubSeq(buf, maxSize + 1, Len(buf))
                 /\ skipping' = (behavior = "truncate") /\ pc' = "scan"
              \/ /\ i = 0 /\ err = "none" /\ UNCHANGED tokens
                 /\ buf' = SubSeq(buf, 0 + 1, Len(buf)) /\ skipping' = FALSE /\ pc' = "read"
              \/ /\ err # "none" /\ buf = <<>> /\ UNCHANGED tokens /\ buf' = <<>>
                 /\ skipping' = FALSE /\ pc' = "over"
<1> DEFINE i == IndexNL(buf)
<1> DEFINE atEOF == err # "none"
<1> DEFINE r == SplitFunc(buf, atEOF)
<1>1. /\ maxSize \in Nat \ {0} /\ buf \in Seq(Bytes) /\ Len(buf) \in Nat /\ Len(buf) <= maxSize
      /\ i \in 0..Len(buf)
  BY ScannerAssumption, LenProperties, NewlineIsInside DEF SInv, TypeOK
<1>2. /\ skipping' = r.skips
      /\ \/ /\ r.found # {}
            /\ \E t \in r.found : tokens' = Append(tokens, t)
            /\ buf' = SubSeq(buf, r.advance + 1, Len(buf))
            /\ UNCHANGED pc
         \/ /\ r.found = {} /\ err = "none"
            /\ buf' = SubSeq(buf, r.advance + 1, Len(buf))
            /\ pc' = "read"
            /\ UNCHANGED tokens
         \/ /\ r.found = {} /\ err # "none"
            /\ buf' = <<>> /\ pc' = "over"
            /\ UNCHANGED tokens
      /\ pc = "scan" /\ UNCHANGED <<stream, maxSize, behavior, pos, err, together>>
  BY DEF Split
<1>3. ASSUME NEW n, NEW s, r = Discard(n, s)
      PROVE  /\ skipping' = s /\ UNCHANGED tokens
             /\ err = "none" => buf' = SubSeq(buf, n + 1, Len(buf)) /\ pc' = "read"
             /\ err # "none" => buf' = <<>> /\ pc' = "over"
  <2>1. r.advance = n /\ r.found = {} /\ r.skips = s
    BY <1>3 DEF Discard
  <2> HIDE DEF r
  <2> QED BY <1>2, <2>1
<1>4. ASSUME NEW n, NEW t, NEW s, r = Found(n, t, s)
      PROVE  /\ skipping' = s /\ tokens' = Append(tokens, t)
             /\ buf' = SubSeq(buf, n + 1, Len(buf)) /\ pc' = "scan"
  <2>1. r.advance = n /\ r.found = {t} /\ r.skips = s
    BY <1>4 DEF Found
  <2> HIDE DEF r
  <2>2. r.found # {} /\ \A u \in r.found : u = t
    BY <2>1
  <2> QED BY <1>2, <2>1, <2>2
<1>5. ASSUME behavior = "truncate" /\ skipping
      PROVE  /\ UNCHANGED tokens
             /\ err # "none" => buf' = <<>> /\ pc' = "over"
             /\ err = "none" => pc' = "read"
             /\ err = "none" /\ i > 0 => skipping' = FALSE /\ buf' = SubSeq(buf, i + 1, Len(buf))
             /\ err = "none" /\ i = 0 =>
                  skipping' = TRUE /\ \E n \in 0..Len(buf) : buf' = SubSeq(buf, n + 1, Len(buf))
  <2>1. r = SkipLine(buf, atEOF)
    BY <1>5 DEF SplitFunc
  <2>2. CASE i > 0
    <3>1. r = Discard(i, FALSE)
      BY <2>1, <2>2, Zenon DEF SkipLine
    <3> HIDE DEF r, i
    <3>2. /\ skipping' = FALSE /\ UNCHANGED tokens
          /\ err = "none" => buf' = SubSeq(buf, i + 1, Len(buf)) /\ pc' = "read"
          /\ err # "none" => buf' = <<>> /\ pc' = "over"
      BY <1>3, <3>1, Zenon
    <3> QED BY <1>1, <2>2, <3>2
  <2>3. CASE ~(i > 0) /\ atEOF
    <3>1. r = Discard(Len(buf), FALSE)
      BY <2>1, <2>3, Zenon DEF SkipLine
    <3> HIDE DEF r, i
    <3> QED BY <1>1, <1>3, <2>3, <3>1
  <2>4. CASE ~(i > 0) /\ ~atEOF /\ Len(buf) >= maxSize
    <3>1. r = Discard(Len(buf), TRUE)
      BY <2>1, <2>4, Zenon DEF SkipLine
    <3>2. Len(buf) \in 0..Len(buf)
      BY <1>1
    <3> HIDE DEF r, i
    <3> QED BY <1>1, <1>3, <2>4, <3>1, <3>2
  <2>5. CASE ~(i > 0) /\ ~atEOF /\ ~(Len(buf) >= maxSize)
    <3>1. r = Discard(0, TRUE)
      BY <2>1, <2>5, Zenon DEF SkipLine
    <3>2. 0 \in 0..Len(buf)
      BY <1>1
    <3> HIDE DEF r, i
    <3> QED BY <1>1, <1>3, <2>5, <3>1, <3>2
  <2> QED BY <2>2, <2>3, <2>4, <2>5
<1>6. ASSUME ~(behavior = "truncate" /\ skipping)
      PROVE  \/ /\ i > 0 /\ tokens' = Append(tokens, DropCR(SubSeq(buf, 1, i - 1)))
                /\ buf' = SubSeq(buf, i + 1, Len(buf)) /\ skipping' = FALSE /\ pc' = "scan"
             \/ /\ i = 0 /\ err # "none" /\ buf # <<>> /\ tokens' = Append(tokens, DropCR(buf))
                /\ buf' = SubSeq(buf, Len(buf) + 1, Len(buf)) /\ skipping' = FALSE /\ pc' = "scan"
             \/ /\ i = 0 /\ err = "none" /\ Len(buf) = maxSize
                /\ tokens' = Append(tokens, SubSeq(buf, 1, maxSize))
                /\ buf' = SubSeq(buf, maxSize + 1, Len(buf))
                /\ skipping' = (behavior = "truncate") /\ pc' = "scan"
             \/ /\ i = 0 /\ err = "none" /\ UNCHANGED tokens
                /\ buf' = SubSeq(buf, 0 + 1, Len(buf)) /\ skipping' = FALSE /\ pc' = "read"
             \/ /\ err # "none" /\ buf = <<>> /\ UNCHANGED tokens /\ buf' = <<>>
                /\ skipping' = FALSE /\ pc' = "over"
  <2> DEFINE q == ScanLines(buf, atEOF)
  <2>1. CASE i > 0
    <3>1. q = Found(i, DropCR(SubSeq(buf, 1, i - 1)), FALSE)
      BY <2>1, Zenon DEF ScanLines
    <3>2. q # Ask
      BY <1>1, <2>1, <3>1 DEF Found, Ask
    <3>3. r = q
      BY <1>6, <3>2, Zenon DEF SplitFunc
    <3> HIDE DEF r, q, i
    <3> QED BY <1>4, <2>1, <3>1, <3>3
  <2>2. CASE ~(i > 0) /\ atEOF /\ buf # <<>>
    <3>1. q = Found(Len(buf), DropCR(buf), FALSE)
      BY <2>2, Zenon DEF ScanLines
    <3>2. q.found = {DropCR(buf)} /\ Ask.found = {}
      BY <3>1 DEF Found, Ask
    <3>3. q # Ask
      <4> HIDE DEF q
      <4> QED BY <3>2
    <3>4. r = q
      BY <1>6, <3>3, Zenon DEF SplitFunc
    <3> HIDE DEF r, q, i
    <3>5. /\ skipping' = FALSE /\ tokens' = Append(tokens, DropCR(buf))
          /\ buf' = SubSeq(buf, Len(buf) + 1, Len(buf)) /\ pc' = "scan"
      BY <1>4, <3>1, <3>4, Zenon
    <3>6. i = 0
      BY <1>1, <2>2
    <3> QED BY <2>2, <3>5, <3>6, Zenon
  <2>3. ASSUME ~(i > 0), ~(atEOF /\ buf # <<>>) PROVE q = Ask
    BY <2>3, Zenon DEF ScanLines
  <2>4. CASE ~(i > 0) /\ ~(atEOF /\ buf # <<>>) /\ Len(buf) >= maxSize
    <3>1. r = Found(maxSize, SubSeq(buf, 1, maxSize), behavior = "truncate")
      BY <1>6, <2>3, <2>4, Zenon DEF SplitFunc
    <3>2. Len(buf) = maxSize /\ buf # <<>>
      BY <1>1, <2>4, EmptySeq
    <3> HIDE DEF r, q, i
    <3>3. /\ skipping' = (behavior = "truncate") /\ tokens' = Append(tokens, SubSeq(buf, 1, maxSize))
          /\ buf' = SubSeq(buf, maxSize + 1, Len(buf)) /\ pc' = "scan"
      <4> DEFINE s == (behavior = "truncate")
      <4>1. r = Found(maxSize, SubSeq(buf, 1, maxSize), s)
        BY <3>1
      <4>2. s = (behavior = "truncate")
        OBVIOUS
      <4> HIDE DEF s
      <4>3. /\ skipping' = s /\ tokens' = Append(tokens, SubSeq(buf, 1, maxSize))
            /\ buf' = SubSeq(buf, maxSize + 1, Len(buf)) /\ pc' = "scan"
        BY <1>4, <4>1, Zenon
      <4> QED BY <4>2, <4>3, Zenon
    <3>4. i = 0 /\ err = "none"
      BY <1>1, <2>4, <3>2
    <3> QED BY <3>2, <3>3, <3>4, Zenon
  <2>5. CASE ~(i > 0) /\ ~(atEOF /\ buf # <<>>) /\ ~(Len(buf) >= maxSize)
    <3>1. r = Ask
      BY <1>6, <2>3, <2>5, Zenon DEF SplitFunc
    <3>2. r = Discard(0, FALSE)
      BY <3>1 DEF Ask, Discard
    <3> HIDE DEF r, q, i
    <3>3. /\ skipping' = FALSE /\ UNCHANGED tokens
          /\ err = "none" => buf' = SubSeq(buf, 0 + 1, Len(buf)) /\ pc' = "read"
          /\ err # "none" => buf' = <<>> /\ pc' = "over"
      BY <1>3, <3>2, Zenon
    <3>4. i = 0
      BY <1>1, <2>5
    <3> QED BY <2>5, <3>3, <3>4, Zenon
  <2> QED BY <2>1, <2>2, <2>4, <2>5
<1> QED BY <1>2, <1>5, <1>6

\* The head of the buffer reports the record at its place, if it ends there.
LEMMA ReportsHead ==
  ASSUME SInv, BufOK, NEW n \in 0..Len(buf), \A j \in 1..n : buf[j] # NL,
         n = maxSize \/ (n < Len(buf) /\ buf[n + 1] = NL) \/ (n = Len(buf) /\ err # "none")
  PROVE  /\ n < maxSize => Reports(DropCR(SubSeq(buf, 1, n)), Taken + 1)
         /\ n = maxSize => Reports(SubSeq(buf, 1, n), Taken + 1)
         /\ n = maxSize /\ together => Reports(DropCR(SubSeq(buf, 1, n)), Taken + 1)
<1>0. PICK c : c = Taken
  OBVIOUS
<1>1. /\ Len(buf) \in Nat /\ c \in Nat /\ maxSize \in Nat \ {0} /\ Len(buf) <= maxSize
      /\ pos \in Nat /\ c + Len(buf) = pos
  BY <1>0, Known
<1>2. /\ SubSeq(buf, 1, n) = SubSeq(stream, c + 1, c + n)
      /\ Len(SubSeq(stream, c + 1, c + n)) = n /\ NoNL(c + 1, c + n)
  BY <1>0, HeadOfBuffer
<1>3. n < Len(buf) => buf[n + 1] = stream[c + (n + 1)]
  BY <1>0, <1>1 DEF BufOK
<1> DEFINE t == SubSeq(stream, c + 1, c + n)
<1>4. c + n \in (c + 1 - 1)..pos
  BY <1>1
<1>5. IsLast(c + 1, c + n)
  <2>1. c + n <= c + 1 + maxSize - 1 /\ c + (n + 1) = c + n + 1
    BY <1>1
  <2>2. \/ c + n = c + 1 + maxSize - 1
        \/ c + n < pos /\ stream[c + n + 1] = NL
        \/ c + n = pos /\ err # "none"
    <3>1. CASE n = maxSize
      BY <1>1, <3>1
    <3>2. CASE n < Len(buf) /\ buf[n + 1] = NL
      <4>1. c + n < pos
        BY <1>1, <3>2
      <4> QED BY <1>3, <2>1, <3>2, <4>1
    <3>3. CASE n = Len(buf) /\ err # "none"
      BY <1>1, <3>3
    <3> QED BY <3>1, <3>2, <3>3
  <2> QED BY <1>1, <1>2, <1>4, <2>1, <2>2 DEF IsLast
<1>6. Cut(c + 1, c + n) = IF n < maxSize THEN DropCR(t) ELSE t
  BY <1>2, Zenon DEF Cut
<1>7. t = SubSeq(buf, 1, n)
  BY <1>2
<1> HIDE DEF t
<1>8. ASSUME NEW u, u = Cut(c + 1, c + n) \/ (together /\ u = CutCR(c + 1, c + n)) PROVE Reports(u, c + 1)
  <2>1. \E e \in (c + 1 - 1)..pos : IsLast(c + 1, e) /\ (u = Cut(c + 1, e) \/ (together /\ u = CutCR(c + 1, e)))
    <3> WITNESS c + n \in (c + 1 - 1)..pos
    <3> QED BY <1>5, <1>8
  <2> QED BY <1>1, <2>1 DEF Reports
<1>9. n < maxSize => Cut(c + 1, c + n) = DropCR(t)
  BY <1>6
<1>10. n = maxSize => Cut(c + 1, c + n) = t /\ CutCR(c + 1, c + n) = DropCR(t)
  <2>1. n = maxSize => ~(n < maxSize)
    BY <1>1
  <2> QED BY <1>6, <2>1 DEF CutCR
<1> QED BY <1>7, <1>8, <1>9, <1>10, <1>0, Zenon

\* Where the buffer begins after n bytes were taken.
LEMMA Boundary ==
  ASSUME UNCHANGED <<stream, maxSize, behavior>>, NEW n, Taken' = Taken + n,
         IF behavior = "truncate" /\ skipping' THEN Off(Taken + n + 1) > 0 ELSE IsStart(Taken + n + 1)
  PROVE  AtBoundary'
<1> DEFINE d == Taken + n + 1
<1>1. Taken' + 1 = d
  OBVIOUS
<1>2. Off(Taken + 1)' = Off(d) /\ (IsStart(Taken + 1)' <=> IsStart(d))
  BY <1>1 DEF Off, IsStart
<1> HIDE DEF d
<1> QED BY <1>2 DEF AtBoundary, d

\* A new scanner has taken nothing and emitted nothing.
LEMMA InitRecords == Init => RInv
<1> SUFFICES ASSUME Init PROVE RInv
  OBVIOUS
<1>0. /\ buf = <<>> /\ pos = 0 /\ maxSize \in Nat \ {0} /\ tokens = <<>>
  BY ScannerAssumption DEF Init
<1>1. /\ Len(buf) = 0 /\ Len(tokens) = 0 /\ Taken = 0
  <2>1. Len(buf) = 0 /\ Len(tokens) = 0
    BY <1>0, EmptySeq
  <2>2. pos = 0
    BY <1>0
  <2>3. Taken = 0
    BY <2>1, <2>2 DEF Taken
  <2> QED BY <2>1, <2>3
<1>2. BufOK
  BY <1>0, <1>1 DEF BufOK, Init
<1>3. StartsTo(Taken) = {} /\ Place(Taken) = 0
  <2>1. StartsTo(0) = {}
    BY DEF StartsTo
  <2>2. Place(0) = 0
    BY Places
  <2> QED BY <1>1, <2>1, <2>2
<1>4. TokensOK
  BY <1>1, <1>3 DEF TokensOK, Up
<1>5. AtBoundary
  <2>1. Taken + 1 = 1 /\ Off(1) = 0 /\ 0 % maxSize = 0
    BY <1>0, <1>1, Offsets
  <2>2. skipping = FALSE
    BY DEF Init
  <2> QED BY <2>1, <2>2 DEF AtBoundary, IsStart
<1> QED BY <1>2, <1>4, <1>5 DEF RInv, Init

\* Truncate mode passes over the rest of a line.
LEMMA SkipRecords ==
  ASSUME SInv, RInv, Split, behavior = "truncate", skipping
  PROVE  RInv'
<1> DEFINE i == IndexNL(buf)
<1> DEFINE c == Taken
<1>1. /\ maxSize \in Nat \ {0} /\ buf \in Seq(Bytes) /\ Len(buf) \in Nat /\ Len(buf) <= maxSize
      /\ c \in Nat /\ c + Len(buf) = pos /\ pos \in Nat
  BY Known DEF RInv
<1>2. i \in 0..Len(buf) /\ (i > 0 => buf[i] = NL) /\ (\A j \in 1..(i - 1) : buf[j] # NL)
      /\ (i = 0 => \A j \in 1..Len(buf) : buf[j] # NL)
  BY <1>1, NewlineIsInside
<1>3. /\ pc = "scan" /\ UNCHANGED <<stream, maxSize, behavior, pos, err, together, tokens>>
      /\ err # "none" => buf' = <<>> /\ pc' = "over"
      /\ err = "none" => pc' = "read"
      /\ err = "none" /\ i > 0 => skipping' = FALSE /\ buf' = SubSeq(buf, i + 1, Len(buf))
      /\ err = "none" /\ i = 0 =>
           skipping' = TRUE /\ \E n \in 0..Len(buf) : buf' = SubSeq(buf, n + 1, Len(buf))
  BY SplitCases
<1>4. BufOK /\ (Claimed => TokensOK) /\ (Claimed /\ (err = "none" \/ buf # <<>>) => Off(c + 1) > 0)
  BY <1>3 DEF RInv, AtBoundary
<1> HIDE DEF c, i
<1>5. c + 1 \in Nat \ {0}
  BY <1>1
<1>6. CASE err = "none" /\ i > 0
  <2>1. i \in 0..Len(buf) /\ buf' = SubSeq(buf, i + 1, Len(buf)) /\ skipping' = FALSE
    BY <1>2, <1>3, <1>6
  <2>2. /\ Len(buf') = Len(buf) - i /\ Taken' = c + i
        /\ \A j \in 1..Len(buf') : buf'[j] = buf[i + j] /\ buf'[j] = stream[Taken' + j]
    BY <1>3, <1>4, <2>1, Shifted DEF c
  <2>3. BufOK'
    <3>1. Len(buf') <= pos'
      BY <1>1, <1>2, <1>3, <1>6, <2>2
    <3>2. \A j \in 1..Len(buf') : buf'[j] = (stream')[Taken' + j]
      BY <1>3, <2>2
    <3> QED BY <1>3, <1>4, <1>6, <2>1, <3>1, <3>2 DEF BufOK
  <2>4. NoNL(c + 1, c + 1 + i - 2) /\ stream[c + 1 + i - 1] = NL
    <3>1. i - 1 \in 0..Len(buf) /\ c + 1 + i - 2 = c + (i - 1) /\ c + 1 + i - 1 = c + i /\ i \in 1..Len(buf)
      BY <1>1, <1>2, <1>6
    <3>2. NoNL(c + 1, c + (i - 1))
      BY <1>2, <1>4, <3>1, HeadOfBuffer DEF c
    <3>3. stream[c + i] = NL
      BY <1>2, <1>4, <1>6, <3>1 DEF BufOK, c
    <3> QED BY <3>1, <3>2, <3>3
  <2>5. i \in Nat /\ i > 0 /\ c + 1 + i = c + i + 1
    BY <1>1, <1>2, <1>6
  <2>6. ASSUME Off(c + 1) > 0
        PROVE  (\A j \in (c + 1)..(c + 1 + i - 1) : ~IsStart(j)) /\ Off(c + 1 + i) = 0
    BY <1>5, <2>4, <2>5, <2>6, RestOfLine
  <2>7. Claimed => TokensOK' /\ AtBoundary'
    <3> SUFFICES ASSUME Claimed PROVE TokensOK' /\ AtBoundary'
      OBVIOUS
    <3>1. (\A j \in (c + 1)..(c + i) : ~IsStart(j)) /\ Off(c + i + 1) = 0
      <4>1. c + 1 + i - 1 = c + i
        BY <1>1, <2>5
      <4> QED BY <1>4, <1>6, <2>5, <2>6, <4>1
    <3>2. pos' \in Nat /\ pos' >= pos /\ (together => together')
      BY <1>1, <1>3
    <3>3. TokensOK'
      BY <1>3, <1>4, <2>2, <2>5, <3>1, <3>2, KeepTokens DEF c
    <3>4. IsStart(c + i + 1)
      BY <3>1 DEF IsStart
    <3>5. AtBoundary'
      BY <1>3, <2>1, <2>2, <3>4, Boundary DEF c
    <3> QED BY <3>3, <3>5
  <2> QED BY <1>3, <1>6, <2>3, <2>7 DEF RInv, Claimed
<1>7. CASE err = "none" /\ i = 0
  <2>1. PICK n \in 0..Len(buf) : buf' = SubSeq(buf, n + 1, Len(buf))
    BY <1>3, <1>7
  <2>2. /\ Len(buf') = Len(buf) - n /\ Taken' = c + n
        /\ \A j \in 1..Len(buf') : buf'[j] = buf[n + j] /\ buf'[j] = stream[Taken' + j]
    BY <1>3, <1>4, <2>1, Shifted DEF c
  <2>3. skipping' = TRUE
    BY <1>3, <1>7
  <2>4. BufOK'
    <3>1. Len(buf') <= pos' /\ \A j \in 1..Len(buf') : n + j \in 1..Len(buf)
      BY <1>1, <1>3, <2>2
    <3>2. \A j \in 1..Len(buf') : buf'[j] = (stream')[Taken' + j] /\ buf'[j] # NL
      BY <1>2, <1>3, <1>7, <2>2, <3>1
    <3> QED BY <1>3, <1>4, <1>7, <3>1, <3>2 DEF BufOK
  <2>5. NoNL(c + 1, c + 1 + n - 1) /\ NoNL(c + 1, c + 1 + n - 2)
    <3>1. NoNL(c + 1, c + n)
      BY <1>2, <1>4, <1>7, HeadOfBuffer DEF c
    <3> QED BY <1>1, <3>1 DEF NoNL
  <2>6. n \in Nat /\ c + 1 + n = c + n + 1 /\ c + 1 + n - 1 = c + n
    BY <1>1
  <2>7. Claimed => TokensOK' /\ AtBoundary'
    <3> SUFFICES ASSUME Claimed PROVE TokensOK' /\ AtBoundary'
      OBVIOUS
    <3>0. Off(c + 1) > 0
      BY <1>4, <1>7
    <3>1. (\A j \in (c + 1)..(c + 1 + n - 1) : ~IsStart(j)) /\ Off(c + 1 + n) > 0
      BY <1>5, <2>5, <2>6, <3>0, RestOfLine
    <3>2. pos' \in Nat /\ pos' >= pos /\ (together => together')
      BY <1>1, <1>3
    <3>3. TokensOK'
      BY <1>3, <1>4, <2>2, <2>6, <3>1, <3>2, KeepTokens DEF c
    <3>4. AtBoundary'
      BY <1>3, <2>2, <2>3, <2>6, <3>1, Boundary DEF c
    <3> QED BY <3>3, <3>4
  <2> QED BY <1>3, <1>7, <2>4, <2>7 DEF RInv, Claimed
<1>8. CASE err # "none"
  <2>1. buf' = <<>> /\ Len(buf') = 0 /\ pc' = "over"
    BY <1>3, <1>8, EmptySeq
  <2>2. Taken' = c + Len(buf)
    <3>1. Taken' = pos' - Len(buf')
      BY DEF Taken
    <3> QED BY <1>1, <1>3, <2>1, <3>1
  <2>3. BufOK'
    <3>1. Len(buf') <= pos' /\ (err' # "none" /\ ~together' => Len(buf') < maxSize')
      BY <1>1, <1>3, <2>1
    <3> QED BY <1>3, <1>4, <1>8, <2>1, <3>1 DEF BufOK
  <2>4. ASSUME ~together PROVE TokensOK'
    <3>1. ~together /\ Claimed
      BY <2>4 DEF Claimed
    <3>2. \A j \in 1..Len(buf) : buf[j] # NL
      BY <1>4, <1>8, <3>1 DEF BufOK
    <3>3. NoNL(c + 1, c + Len(buf))
      BY <1>1, <1>4, <3>2, HeadOfBuffer DEF c
    <3>4. \A j \in (c + 1)..(c + Len(buf)) : ~IsStart(j)
      <4>1. CASE buf = <<>>
        <5>1. Len(buf) = 0
          BY <4>1, EmptySeq
        <5> QED BY <1>1, <5>1
      <4>2. CASE buf # <<>>
        <5>1. Off(c + 1) > 0
          BY <1>4, <3>1, <4>2
        <5>2. NoNL(c + 1, c + 1 + Len(buf) - 2) /\ c + 1 + Len(buf) - 1 = c + Len(buf)
          BY <1>1, <3>3 DEF NoNL
        <5> QED BY <1>1, <1>5, <5>1, <5>2, RestOfLine
      <4> QED BY <4>1, <4>2
    <3>5. pos' \in Nat /\ pos' >= pos /\ (together => together') /\ Len(buf) \in Nat
      BY <1>1, <1>3
    <3> QED BY <1>3, <1>4, <2>2, <3>1, <3>4, <3>5, KeepTokens DEF c
  <2>5. pc' = "over" => \E k \in 0..pos' : LostAfter(k)' /\ Up(k)'
    <3>1. pos' = pos /\ pos \in 0..pos' /\ Taken' = pos
      BY <1>1, <1>3, <2>2
    <3>2. CASE ~together
      BY <2>4, <3>1, <3>2 DEF TokensOK, Up, LostAfter
    <3>3. CASE together
      <4>1. PICK k \in 0..pos : k = c
        BY <1>1
      <4>2. Up(k) /\ k + maxSize >= pos
        BY <1>1, <1>3, <1>4, <4>1 DEF TokensOK, Claimed, c
      <4>3. Up(k)'
        BY <1>1, <1>3, <1>4, <4>2, KeepUp
      <4>4. LostAfter(k)'
        BY <1>3, <3>3, <4>2 DEF LostAfter
      <4> QED BY <3>1, <4>3, <4>4
    <3> QED BY <3>2, <3>3
  <2> QED BY <1>3, <2>1, <2>3, <2>4, <2>5 DEF RInv, Claimed
<1> QED BY <1>2, <1>6, <1>7, <1>8

\* The invariant of the buffer after n bytes were taken and none is skipped over.
LEMMA BufferTaken ==
  ASSUME SInv, BufOK, UNCHANGED <<stream, maxSize, behavior, pos, err, together>>,
         NEW n \in 0..Len(buf), buf' = SubSeq(buf, n + 1, Len(buf)),
         pc' \in {"scan", "read"}, pc' = "read" => err = "none",
         skipping' => pc' = "scan" /\ err = "none" /\ behavior = "truncate"
  PROVE  BufOK'
<1>1. /\ Len(buf) \in Nat /\ maxSize \in Nat /\ pos \in Nat /\ Len(buf) <= pos /\ n \in Nat
  BY Known DEF BufOK
<1>2. /\ Len(buf') = Len(buf) - n /\ \A j \in 1..Len(buf') : buf'[j] = stream[Taken' + j]
  BY Shifted
<1>3. Len(buf') <= pos' /\ (err # "none" /\ ~together => Len(buf') < maxSize')
  BY <1>1, <1>2 DEF BufOK
<1>4. \A j \in 1..Len(buf') : buf'[j] = (stream')[Taken' + j]
  BY <1>2
<1> QED BY <1>3, <1>4 DEF BufOK

\* A token is cut off the buffer: the line's end, the size limit or the end of
\* the stream.
LEMMA TokenRecords ==
  ASSUME SInv, RInv, pc = "scan", UNCHANGED <<stream, maxSize, behavior, pos, err, together>>,
         ~(behavior = "truncate" /\ skipping),
         NEW m \in 0..Len(buf), NEW n \in 1..Len(buf), \A j \in 1..m : buf[j] # NL,
         NEW t, tokens' = Append(tokens, t), t = SubSeq(buf, 1, m) \/ t = DropCR(SubSeq(buf, 1, m)),
         buf' = SubSeq(buf, n + 1, Len(buf)), pc' = "scan",
         \/ n = m + 1 /\ buf[n] = NL /\ t = DropCR(SubSeq(buf, 1, m)) /\ skipping' = FALSE
         \/ n = m /\ m = Len(buf) /\ err # "none" /\ t = DropCR(SubSeq(buf, 1, m)) /\ skipping' = FALSE
         \/ n = m /\ m = maxSize /\ err = "none" /\ t = SubSeq(buf, 1, m) /\ skipping' = (behavior = "truncate")
  PROVE  RInv'
<1>0. PICK c : c = Taken
  OBVIOUS
<1>1. /\ maxSize \in Nat \ {0} /\ buf \in Seq(Bytes) /\ Len(buf) \in Nat /\ Len(buf) <= maxSize
      /\ c \in Nat /\ c + Len(buf) = pos /\ pos \in Nat /\ behavior \in {"split", "truncate"}
      /\ c + 1 \in Nat \ {0} /\ m \in Nat /\ n \in Nat /\ n \in 1..maxSize /\ n \in 0..Len(buf) /\ m <= maxSize
  <2>1. /\ maxSize \in Nat \ {0} /\ buf \in Seq(Bytes) /\ Len(buf) \in Nat /\ Len(buf) <= maxSize
        /\ c \in Nat /\ c + Len(buf) = pos /\ pos \in 0..Len(stream) /\ behavior \in {"split", "truncate"}
    BY <1>0, Known DEF RInv
  <2>2. pos \in Nat
    BY <2>1
  <2> QED BY <2>1, <2>2
<1>2. BufOK /\ (Claimed => TokensOK)
  BY DEF RInv
<1>3. Claimed => IsStart(c + 1)
  <2>1. buf # <<>>
    BY <1>1, EmptySeq
  <2> QED BY <1>0, <2>1 DEF RInv, AtBoundary
<1>4. BufOK'
  <2>1. skipping' => err = "none" /\ behavior = "truncate"
    OBVIOUS
  <2> QED BY <1>1, <1>2, <2>1, BufferTaken
<1>5. Taken' = c + n /\ Len(buf') = Len(buf) - n
  BY <1>0, <1>1, <1>2, Shifted
<1>6. NoNL(c + 1, c + m)
  BY <1>0, <1>2, HeadOfBuffer
<1>7. stream[c + n] = buf[n]
  BY <1>0, <1>2 DEF BufOK
<1>8. NoNL(c + 1, c + 1 + n - 2)
  <2>1. n = m + 1 \/ n = m
    OBVIOUS
  <2>2. c + 1 + n - 2 <= c + m
    BY <1>1, <2>1
  <2> QED BY <1>1, <1>6, <2>2 DEF NoNL
<1>9. c + 1 + n = c + n + 1 /\ c + 1 + n - 1 = c + n
  BY <1>1
<1>10. Reports(t, c + 1)
  <2>1. CASE n = m + 1 /\ buf[n] = NL /\ t = DropCR(SubSeq(buf, 1, m))
    <3>1. m < Len(buf) /\ m < maxSize /\ buf[m + 1] = NL
      BY <1>1, <2>1
    <3> QED BY <1>0, <1>2, <2>1, <3>1, ReportsHead
  <2>2. CASE m = Len(buf) /\ err # "none" /\ t = DropCR(SubSeq(buf, 1, m))
    <3>1. CASE m < maxSize
      BY <1>0, <1>2, <2>2, <3>1, ReportsHead
    <3>2. CASE m = maxSize
      <4>1. together
        BY <1>1, <1>2, <2>2, <3>2 DEF BufOK
      <4> QED BY <1>0, <1>2, <2>2, <3>2, <4>1, ReportsHead
    <3> QED BY <1>1, <3>1, <3>2
  <2>3. CASE m = maxSize /\ t = SubSeq(buf, 1, m)
    BY <1>0, <1>2, <2>3, ReportsHead
  <2> QED BY <2>1, <2>2, <2>3
<1>11. Claimed => TokensOK'
  <2> SUFFICES ASSUME Claimed PROVE TokensOK'
    OBVIOUS
  <2>1. \A j \in (c + 1 + 1)..(c + 1 + n - 1) : ~IsStart(j)
    BY <1>1, <1>3, <1>8, NextStart
  <2>2. \A j \in (c + 2)..(c + n) : ~IsStart(j)
    <3>1. c + 1 + 1 = c + 2
      BY <1>1
    <3> QED BY <1>9, <2>1, <3>1
  <2> QED BY <1>0, <1>1, <1>2, <1>3, <1>5, <1>10, <2>2, AddRecord
<1>12. Claimed /\ (err = "none" \/ buf' # <<>>) => AtBoundary'
  <2> SUFFICES ASSUME Claimed, err = "none" \/ buf' # <<>> PROVE AtBoundary'
    OBVIOUS
  <2>0. IsStart(c + 1)
    BY <1>3
  <2>1. CASE n = m + 1 /\ buf[n] = NL /\ skipping' = FALSE
    <3>1. stream[c + 1 + n - 1] = NL
      BY <1>7, <1>9, <2>1
    <3>2. IsStart(c + 1 + n)
      BY <1>1, <1>8, <2>0, <3>1, NextStart
    <3> QED BY <1>0, <1>5, <1>9, <2>1, <3>2, Boundary
  <2>2. CASE n = m /\ m = Len(buf) /\ err # "none"
    <3>1. Len(buf') = 0
      BY <1>1, <1>5, <2>2
    <3>2. buf' \in Seq(Bytes)
      <4>1. \A j \in (n + 1)..Len(buf) : buf[j] \in Bytes
        BY <1>1, ElementOfSeq
      <4> QED BY <1>1, <4>1, SubSeqProperties
    <3>3. buf' = <<>>
      BY <3>1, <3>2, EmptySeq
    <3> QED BY <2>2, <3>3
  <2>3. CASE n = m /\ m = maxSize /\ skipping' = (behavior = "truncate")
    <3>1. NoNL(c + 1, c + 1 + n - 1) /\ n = maxSize
      BY <1>6, <1>9, <2>3
    <3>2. /\ behavior = "split" => IsStart(c + 1 + n)
          /\ behavior = "truncate" => Off(c + 1 + n) > 0
      BY <1>1, <1>8, <2>0, <3>1, NextStart
    <3>3. IF behavior = "truncate" /\ skipping' THEN Off(c + n + 1) > 0 ELSE IsStart(c + n + 1)
      BY <1>1, <1>9, <2>3, <3>2
    <3> QED BY <1>0, <1>5, <3>3, Boundary
  <2> QED BY <2>1, <2>2, <2>3
<1> QED BY <1>4, <1>11, <1>12 DEF RInv, Claimed

\* A round of Scan emits the next record of the text, or takes bytes of none.
LEMMA SplitRecords == ASSUME SInv, RInv, Split PROVE RInv'
<1> DEFINE i == IndexNL(buf)
<1>1. /\ maxSize \in Nat \ {0} /\ buf \in Seq(Bytes) /\ Len(buf) \in Nat /\ Len(buf) <= maxSize
      /\ Taken \in Nat /\ Taken + Len(buf) = pos /\ pos \in Nat
  BY Known DEF RInv
<1>2. i \in 0..Len(buf) /\ (i > 0 => buf[i] = NL) /\ (\A j \in 1..(i - 1) : buf[j] # NL)
      /\ (i = 0 => \A j \in 1..Len(buf) : buf[j] # NL)
  BY <1>1, NewlineIsInside
<1>3. pc = "scan" /\ UNCHANGED <<stream, maxSize, behavior, pos, err, together>>
  BY SplitCases
<1>4. CASE behavior = "truncate" /\ skipping
  BY <1>4, SkipRecords
<1>5. CASE ~(behavior = "truncate" /\ skipping)
  <2>1. \/ /\ i > 0 /\ tokens' = Append(tokens, DropCR(SubSeq(buf, 1, i - 1)))
           /\ buf' = SubSeq(buf, i + 1, Len(buf)) /\ skipping' = FALSE /\ pc' = "scan"
        \/ /\ i = 0 /\ err # "none" /\ buf # <<>> /\ tokens' = Append(tokens, DropCR(buf))
           /\ buf' = SubSeq(buf, Len(buf) + 1, Len(buf)) /\ skipping' = FALSE /\ pc' = "scan"
        \/ /\ i = 0 /\ err = "none" /\ Len(buf) = maxSize
           /\ tokens' = Append(tokens, SubSeq(buf, 1, maxSize))
           /\ buf' = SubSeq(buf, maxSize + 1, Len(buf))
           /\ skipping' = (behavior = "truncate") /\ pc' = "scan"
        \/ /\ i = 0 /\ err = "none" /\ UNCHANGED tokens
           /\ buf' = SubSeq(buf, 0 + 1, Len(buf)) /\ skipping' = FALSE /\ pc' = "read"
        \/ /\ err # "none" /\ buf = <<>> /\ UNCHANGED tokens /\ buf' = <<>>
           /\ skipping' = FALSE /\ pc' = "over"
    BY <1>5, SplitCases, Zenon
  <2> HIDE DEF i
  <2>2. CASE /\ i > 0 /\ tokens' = Append(tokens, DropCR(SubSeq(buf, 1, i - 1)))
             /\ buf' = SubSeq(buf, i + 1, Len(buf)) /\ skipping' = FALSE /\ pc' = "scan"
    <3> DEFINE m == i - 1
    <3>1. m \in 0..Len(buf) /\ i \in 1..Len(buf) /\ i = m + 1 /\ \A j \in 1..m : buf[j] # NL
      BY <1>1, <1>2, <2>2
    <3>2. buf[i] = NL /\ tokens' = Append(tokens, DropCR(SubSeq(buf, 1, m)))
      BY <1>2, <2>2
    <3> HIDE DEF m
    <3> QED BY <1>3, <1>5, <2>2, <3>1, <3>2, TokenRecords
  <2>3. CASE /\ i = 0 /\ err # "none" /\ buf # <<>> /\ tokens' = Append(tokens, DropCR(buf))
             /\ buf' = SubSeq(buf, Len(buf) + 1, Len(buf)) /\ skipping' = FALSE /\ pc' = "scan"
    <3> DEFINE m == Len(buf)
    <3>1. SubSeq(buf, 1, m) = buf
      BY <1>1, SubSeqFull
    <3>2. m \in 0..Len(buf) /\ m \in 1..Len(buf) /\ \A j \in 1..m : buf[j] # NL
      BY <1>1, <1>2, <2>3, EmptySeq
    <3>3. tokens' = Append(tokens, DropCR(SubSeq(buf, 1, m))) /\ m = Len(buf) /\ buf' = SubSeq(buf, m + 1, Len(buf))
      BY <2>3, <3>1
    <3> HIDE DEF m
    <3> QED BY <1>3, <1>5, <2>3, <3>2, <3>3, TokenRecords
  <2>4. CASE /\ i = 0 /\ err = "none" /\ Len(buf) = maxSize
             /\ tokens' = Append(tokens, SubSeq(buf, 1, maxSize))
             /\ buf' = SubSeq(buf, maxSize + 1, Len(buf))
             /\ skipping' = (behavior = "truncate") /\ pc' = "scan"
    <3>1. maxSize \in 0..Len(buf) /\ maxSize \in 1..Len(buf) /\ \A j \in 1..maxSize : buf[j] # NL
      BY <1>1, <1>2, <2>4
    <3> QED BY <1>3, <1>5, <2>4, <3>1, TokenRecords
  <2>5. CASE /\ i = 0 /\ err = "none" /\ UNCHANGED tokens
             /\ buf' = SubSeq(buf, 0 + 1, Len(buf)) /\ skipping' = FALSE /\ pc' = "read"
    <3>0. 0 \in 0..Len(buf) /\ BufOK /\ (Claimed => TokensOK)
      BY <1>1 DEF RInv
    <3>1. BufOK'
      BY <1>3, <2>5, <3>0, BufferTaken
    <3>2. Taken' = Taken + 0
      BY <1>3, <2>5, <3>0, Shifted
    <3>3. Claimed => TokensOK'
      <4>1. \A j \in (Taken + 1)..(Taken + 0) : ~IsStart(j)
        BY <1>1
      <4>2. pos' \in Nat /\ pos' >= pos /\ (together => together')
        BY <1>1, <1>3
      <4> QED BY <1>3, <2>5, <3>0, <3>2, <4>1, <4>2, KeepTokens
    <3>4. Claimed => AtBoundary'
      <4>1. Claimed => IsStart(Taken + 1)
        BY <1>3, <1>5, <2>5 DEF RInv, AtBoundary
      <4>2. Taken + 0 + 1 = Taken + 1
        BY <1>1
      <4> QED BY <1>3, <2>5, <3>2, <4>1, <4>2, Boundary
    <3> QED BY <1>3, <2>5, <3>1, <3>3, <3>4 DEF RInv, Claimed
  <2>6. CASE /\ err # "none" /\ buf = <<>> /\ UNCHANGED tokens /\ buf' = <<>>
             /\ skipping' = FALSE /\ pc' = "over"
    <3>0. BufOK /\ (Claimed => TokensOK) /\ Len(buf) = 0 /\ Len(buf') = 0
      BY <2>6, EmptySeq DEF RInv
    <3>2. Taken' = Taken + 0
      BY <1>1, <1>3, <2>6, <3>0 DEF Taken
    <3>1. BufOK'
      <4>1. Len(buf') <= pos' /\ (err' # "none" /\ ~together' => Len(buf') < maxSize')
        BY <1>1, <1>3, <3>0
      <4> QED BY <1>3, <2>6, <3>0, <4>1 DEF BufOK
    <3>3. Claimed => TokensOK'
      <4>1. \A j \in (Taken + 1)..(Taken + 0) : ~IsStart(j)
        BY <1>1
      <4>2. pos' \in Nat /\ pos' >= pos /\ (together => together')
        BY <1>1, <1>3
      <4> QED BY <1>3, <2>6, <3>0, <3>2, <4>1, <4>2, KeepTokens
    <3>4. \E k \in 0..pos' : LostAfter(k)' /\ Up(k)'
      <4>1. pos' \in 0..pos' /\ Taken' = pos'
        BY <1>1, <1>3, <3>0, <3>2
      <4> QED BY <1>3, <3>3, <4>1 DEF TokensOK, Up, LostAfter, Claimed
    <3> QED BY <1>3, <2>6, <3>1, <3>3, <3>4 DEF RInv, Claimed
  <2> QED BY <2>1, <2>2, <2>3, <2>4, <2>5, <2>6
<1> QED BY <1>4, <1>5

\* What is read joins the buffer; only an error that comes alone leaves it as it
\* was, and then it was not full.
LEMMA ReadRecords == ASSUME SInv, RInv, NEW e \in {"none", "eof", "broken"}, Read(e) PROVE RInv'
<1>1. /\ maxSize \in Nat \ {0} /\ buf \in Seq(Bytes) /\ Len(buf) \in Nat
      /\ stream \in Seq(Bytes) /\ Len(stream) \in Nat /\ pos \in 0..Len(stream)
      /\ Taken \in Nat /\ Taken + Len(buf) = pos
  BY Known DEF RInv
<1>2. PICK n \in 0..(maxSize - Len(buf)) :
        /\ pos + n <= Len(stream)
        /\ buf' = buf \o SubSeq(stream, pos + 1, pos + n)
        /\ pos' = pos + n
        /\ together' = (n > 0 /\ e # "none")
  BY DEF Read
<1>3. /\ pc = "read" /\ Len(buf) < maxSize /\ pc' = "scan" /\ err' = e
      /\ UNCHANGED <<stream, maxSize, behavior, skipping, tokens>>
  BY DEF Read
<1>13. n \in Nat /\ (n = 0 \/ n >= 1)
  BY <1>1
<1>4. /\ BufOK /\ err = "none" /\ ~together /\ TokensOK /\ AtBoundary
      /\ behavior = "split" => ~skipping
      /\ skipping => \A j \in 1..Len(buf) : buf[j] # NL
  BY <1>3 DEF RInv, BufOK, Claimed
<1> DEFINE u == SubSeq(stream, pos + 1, pos + n)
<1>5. u \in Seq(Bytes) /\ Len(u) = n /\ \A j \in 1..n : u[j] = stream[pos + j]
  <2> DEFINE a == pos + 1
  <2> DEFINE b == pos + n
  <2>1. a \in Int /\ b \in Int /\ b - a + 1 = n /\ (\A j \in 1..n : a + j - 1 = pos + j) /\ (a <= b <=> n >= 1)
    BY <1>1, <1>2
  <2>2. \A j \in a..b : stream[j] \in Bytes
    BY <1>1, <1>2, ElementOfSeq
  <2>3. u = SubSeq(stream, a, b)
    OBVIOUS
  <2> HIDE DEF a, b, u
  <2>4. /\ SubSeq(stream, a, b) \in Seq(Bytes) /\ Len(SubSeq(stream, a, b)) = IF a <= b THEN b - a + 1 ELSE 0
        /\ \A j \in 1..(b - a + 1) : SubSeq(stream, a, b)[j] = stream[a + j - 1]
    BY <2>1, <2>2, SubSeqProperties
  <2>5. Len(SubSeq(stream, a, b)) = n
    <3>1. (IF a <= b THEN b - a + 1 ELSE 0) = n
      BY <1>13, <2>1
    <3> QED BY <2>4, <3>1
  <2> QED BY <2>1, <2>3, <2>4, <2>5
<1>6. buf' = buf \o u
  BY <1>2
<1> HIDE DEF u
<1>7. /\ Len(buf') = Len(buf) + n
      /\ \A j \in 1..(Len(buf) + n) : buf'[j] = IF j <= Len(buf) THEN buf[j] ELSE u[j - Len(buf)]
  <2>1. /\ Len(buf \o u) = Len(buf) + Len(u)
        /\ \A j \in 1..(Len(buf) + Len(u)) : (buf \o u)[j] = IF j <= Len(buf) THEN buf[j] ELSE u[j - Len(buf)]
    BY <1>1, <1>5, ConcatProperties
  <2>2. Len(u) = n
    BY <1>5
  <2> QED BY <1>6, <2>1, <2>2, Zenon
<1>8. Taken' = Taken + 0
  <2>1. Taken' = pos' - Len(buf')
    BY DEF Taken
  <2>2. Taken = pos - Len(buf)
    BY DEF Taken
  <2> QED BY <1>1, <1>2, <1>7, <2>1, <2>2
<1>9. ASSUME NEW j \in 1..Len(buf') PROVE buf'[j] = stream[Taken + j]
  <2>1. CASE j <= Len(buf)
    <3>1. buf'[j] = buf[j] /\ j \in 1..Len(buf)
      BY <1>1, <1>2, <1>7, <2>1
    <3> QED BY <1>4, <3>1 DEF BufOK
  <2>2. CASE ~(j <= Len(buf))
    <3>1. buf'[j] = u[j - Len(buf)] /\ j - Len(buf) \in 1..n /\ pos + (j - Len(buf)) = Taken + j
      <4>1. j \in 1..(Len(buf) + n) /\ j - Len(buf) \in 1..n /\ pos + (j - Len(buf)) = Taken + j
        <5>1. j \in 1..(Len(buf) + n)
          BY <1>7, Zenon
        <5> QED BY <1>1, <1>13, <2>2, <5>1
      <4> QED BY <1>7, <2>2, <4>1
    <3> QED BY <1>5, <3>1
  <2> QED BY <2>1, <2>2
<1>10. BufOK'
  <2>1. Len(buf') <= pos'
    BY <1>1, <1>2, <1>7
  <2>2. \A j \in 1..Len(buf') : buf'[j] = (stream')[Taken' + j]
    <3>1. Taken' = Taken
      BY <1>1, <1>8
    <3> QED BY <1>3, <1>9, <3>1
  <2>3. ASSUME e # "none", ~together' PROVE n = 0 /\ Len(buf') = Len(buf) /\ \A j \in 1..Len(buf') : buf'[j] = buf[j]
    <3>1. n = 0
      <4>1. together' = (n > 0 /\ e # "none")
        BY <1>2
      <4>2. ~(n > 0)
        BY <2>3, <4>1, Zenon
      <4> QED BY <1>13, <4>2
    <3> QED BY <1>1, <1>7, <3>1
  <2>4. (err' # "none" /\ ~together') /\ skipping' => \A j \in 1..Len(buf') : buf'[j] # NL
    BY <1>3, <1>4, <2>3
  <2>5. err' # "none" /\ ~together' => Len(buf') < maxSize'
    BY <1>3, <2>3
  <2> QED BY <1>2, <1>3, <1>4, <2>1, <2>2, <2>4, <2>5 DEF BufOK
<1>11. TokensOK'
  <2>1. pos' \in Nat /\ pos' >= pos /\ \A j \in (Taken + 1)..(Taken + 0) : ~IsStart(j)
    BY <1>1, <1>2
  <2> QED BY <1>3, <1>4, <1>8, <2>1, KeepTokens
<1>12. AtBoundary'
  <2>1. Taken + 0 + 1 = Taken + 1
    BY <1>1
  <2> QED BY <1>3, <1>4, <1>8, <2>1, Boundary DEF AtBoundary
<1> QED BY <1>3, <1>10, <1>11, <1>12 DEF RInv

\* An empty buffer makes Scan read, which changes no record.
LEMMA NothingRecords == ASSUME SInv, RInv, Nothing PROVE RInv'
<1>1. /\ pc = "scan" /\ buf = <<>> /\ err = "none" /\ pc' = "read"
      /\ UNCHANGED <<stream, maxSize, behavior, pos, buf, skipping, err, together, tokens>>
  BY DEF Nothing
<1>2. BufOK /\ ~together /\ TokensOK /\ AtBoundary /\ Len(buf) = 0
  BY <1>1, EmptySeq DEF RInv, BufOK, Claimed
<1>3. BufOK'
  <2>1. \A j \in 1..Len(buf') : FALSE
    BY <1>1, <1>2
  <2> QED BY <1>1, <1>2, <2>1 DEF BufOK, Taken
<1>4. TokensOK' /\ AtBoundary'
  <2>1. Taken \in Nat /\ pos \in Nat
    BY <1>2, Known
  <2>2. Taken' = Taken + 0 /\ pos' \in Nat /\ pos' >= pos /\ Taken + 0 + 1 = Taken + 1
        /\ \A j \in (Taken + 1)..(Taken + 0) : ~IsStart(j)
    BY <1>1, <2>1 DEF Taken
  <2>3. TokensOK'
    BY <1>1, <1>2, <2>2, KeepTokens
  <2>4. AtBoundary'
    BY <1>1, <1>2, <2>2, Boundary DEF AtBoundary
  <2> QED BY <2>3, <2>4
<1> QED BY <1>1, <1>3, <1>4 DEF RInv

\* Every step keeps the invariant.
LEMMA InductiveRecords == SInv /\ RInv /\ [Next]_vars => RInv'
<1> SUFFICES ASSUME SInv, RInv, [Next]_vars PROVE RInv'
  OBVIOUS
<1>1. CASE UNCHANGED vars
  <2>1. /\ UNCHANGED <<stream, maxSize, behavior, pos, buf, skipping, err, together, pc, tokens>>
        /\ BufOK /\ Taken \in Nat /\ pos \in Nat /\ Taken' = Taken
    BY <1>1, Known DEF vars, RInv, Taken
  <2>2. BufOK'
    BY <2>1 DEF BufOK
  <2>3. Taken' = Taken + 0 /\ pos' \in Nat /\ pos' >= pos /\ Taken + 0 + 1 = Taken + 1
        /\ \A j \in (Taken + 1)..(Taken + 0) : ~IsStart(j)
    BY <2>1
  <2>4. TokensOK => TokensOK'
    BY <2>1, <2>3, KeepTokens
  <2>5. AtBoundary => AtBoundary'
    BY <2>1, <2>3, Boundary DEF AtBoundary
  <2>6. ASSUME NEW c \in 0..pos, LostAfter(c), Up(c) PROVE c \in 0..pos' /\ LostAfter(c)' /\ Up(c)'
    <3>1. c \in Nat
      BY <2>1
    <3>2. Up(c)'
      BY <2>1, <2>3, <2>6, <3>1, KeepUp
    <3> QED BY <2>1, <2>6, <3>2 DEF LostAfter
  <2> QED BY <2>1, <2>2, <2>4, <2>5, <2>6 DEF RInv, Claimed
<1> QED BY <1>1, SplitRecords, ReadRecords, NothingRecords DEF Next

\* The invariant holds in every reachable state.
LEMMA RecordInvariance == Spec => [](SInv /\ RInv)
<1>1. Init => SInv /\ RInv
  BY InitOK, InitRecords
<1>2. SInv /\ RInv /\ [Next]_vars => (SInv /\ RInv)'
  BY Inductive, InductiveRecords
<1> QED BY <1>1, <1>2, PTL DEF Spec

-----------------------------------------------------------------------------
(* The records of the text                                                 *)

\* When Scan is over everything is taken, and the text's lines are the stream's.
LEMMA AtTheEnd ==
  ASSUME SInv, RInv, pc = "over"
  PROVE  /\ Taken = pos /\ Starts = StartsTo(pos)
         /\ \A i \in 1..pos : Text[i] = stream[i] /\ Offset(i) = Off(i)
         /\ \A i \in Starts : Rank(i) = Place(i)
<1>1. /\ stream \in Seq(Bytes) /\ Len(stream) \in Nat /\ pos \in 0..Len(stream) /\ Taken + Len(buf) = pos
      /\ Taken \in Nat
  BY Known DEF RInv
<1>2. Taken = pos
  <2>1. Len(buf) = 0
    BY EmptySeq DEF RInv, BufOK
  <2> QED BY <1>1, <2>1
<1>3. ASSUME NEW i \in 1..pos PROVE Text[i] = stream[i]
  <2>1. pos \in Int /\ 1 \in Int /\ \A j \in 1..pos : stream[j] \in Bytes
    BY <1>1, ElementOfSeq
  <2>2. \A j \in 1..(pos - 1 + 1) : SubSeq(stream, 1, pos)[j] = stream[1 + j - 1]
    BY <2>1, SubSeqProperties
  <2>3. pos - 1 + 1 = pos /\ 1 + i - 1 = i
    BY <1>1
  <2> QED BY <2>2, <2>3 DEF Text
<1>4. ASSUME NEW i \in 1..pos PROVE Offset(i) = Off(i)
  <2>1. {j \in 1..(i - 1) : Text[j] = NL} = {j \in 1..(i - 1) : stream[j] = NL}
    BY <1>1, <1>3
  <2> QED BY <2>1, Zenon DEF Offset, Off
<1>5. Starts = StartsTo(pos)
  BY <1>4 DEF Starts, StartsTo, IsStart
<1>6. ASSUME NEW i \in Starts PROVE Rank(i) = Place(i)
  <2>1. i \in 1..pos
    BY <1>5 DEF StartsTo
  <2>2. {j \in Starts : j <= i} = StartsTo(i)
    BY <1>1, <1>5, <2>1 DEF StartsTo
  <2> QED BY <2>2, Zenon DEF Rank, Place
<1> QED BY <1>2, <1>3, <1>4, <1>5, <1>6

\* The end that the invariant names is the one the definition computes.
LEMMA DefinedRecord ==
  ASSUME SInv, RInv, pc = "over", NEW i \in 1..pos, NEW e \in (i - 1)..pos, IsLast(i, e)
  PROVE  RecordAt(i) = Cut(i, e)
<1>1. /\ stream \in Seq(Bytes) /\ Len(stream) \in Nat /\ pos \in 0..Len(stream) /\ maxSize \in Nat \ {0}
  BY Known DEF RInv
<1>2. \A j \in 1..pos : Text[j] = stream[j]
  BY AtTheEnd
<1> DEFINE K == {k \in i..pos : Text[k] = NL}
<1> DEFINE S == {pos, i + maxSize - 1} \cup {j - 1 : j \in K}
<1>3. \A k \in i..pos : Text[k] = stream[k]
  BY <1>1, <1>2
<1>4. /\ e <= i + maxSize - 1 /\ NoNL(i, e)
      /\ \/ e = i + maxSize - 1
         \/ e < pos /\ stream[e + 1] = NL
         \/ e = pos /\ err # "none"
  BY DEF IsLast
<1>5. S \in SUBSET Int
  BY <1>1
<1>6. e \in S
  <2>1. CASE e < pos /\ stream[e + 1] = NL
    <3>1. e + 1 \in K /\ e = (e + 1) - 1
      BY <1>1, <1>3, <2>1
    <3> QED BY <3>1
  <2> QED BY <1>4, <2>1
<1>7. ASSUME NEW x \in S PROVE e <= x
  <2>1. CASE x \in {j - 1 : j \in K}
    <3>1. PICK j \in K : x = j - 1
      BY <2>1
    <3>2. j \in i..pos /\ stream[j] = NL
      BY <1>3
    <3>3. ~(j <= e)
      BY <1>1, <1>4, <3>2 DEF NoNL
    <3> QED BY <1>1, <3>1, <3>2, <3>3
  <2> QED BY <1>1, <1>4, <2>1
<1>8. Min(S) = e
  <2> HIDE DEF S
  <2> QED BY <1>5, <1>6, <1>7, MinIs
<1>9. SubSeq(Text, i, e) = SubSeq(stream, i, e)
  <2>1. i \in Int /\ e \in Int
    BY <1>1
  <2>2. \A j \in i..e : Text[j] = stream[j] /\ stream[j] \in Bytes /\ Text[j] \in Bytes
    BY <1>1, <1>2, ElementOfSeq
  <2>3. /\ SubSeq(Text, i, e) \in Seq(Bytes) /\ Len(SubSeq(Text, i, e)) = IF i <= e THEN e - i + 1 ELSE 0
        /\ \A j \in 1..(e - i + 1) : SubSeq(Text, i, e)[j] = Text[i + j - 1]
    BY <2>1, <2>2, SubSeqProperties
  <2>4. /\ SubSeq(stream, i, e) \in Seq(Bytes) /\ Len(SubSeq(stream, i, e)) = IF i <= e THEN e - i + 1 ELSE 0
        /\ \A j \in 1..(e - i + 1) : SubSeq(stream, i, e)[j] = stream[i + j - 1]
    BY <2>1, <2>2, SubSeqProperties
  <2>5. \A j \in 1..(e - i + 1) : i + j - 1 \in i..e
    BY <2>1
  <2>6. \A j \in 1..Len(SubSeq(Text, i, e)) : j \in 1..(e - i + 1)
    <3> DEFINE l == Len(SubSeq(Text, i, e))
    <3>1. l = IF i <= e THEN e - i + 1 ELSE 0
      BY <2>3
    <3> HIDE DEF l
    <3>2. \A j \in 1..l : j \in 1..(e - i + 1)
      BY <2>1, <3>1
    <3> QED BY <3>2 DEF l
  <2>7. \A j \in 1..Len(SubSeq(Text, i, e)) : SubSeq(Text, i, e)[j] = SubSeq(stream, i, e)[j]
    BY <2>2, <2>3, <2>4, <2>5, <2>6
  <2> QED BY <2>3, <2>4, <2>7, SeqEqual
<1>10. RecordAt(i) = LET t == SubSeq(Text, i, Min(S)) IN IF Len(t) < maxSize THEN DropCR(t) ELSE t
  BY DEF RecordAt
<1> HIDE DEF S
<1> QED BY <1>8, <1>9, <1>10 DEF Cut

\* A start behind c has a later place than all that is up to c.
LEMMA PlacesGrow ==
  ASSUME NEW b \in Nat \ {0}, IsStart(b), NEW a \in 0..(b - 1)
  PROVE  Place(a) < Place(b)
<1> DEFINE c == b - 1
<1>1. c \in Nat /\ c + 1 = b /\ a \in 0..c /\ IsStart(c + 1) /\ \A k \in (c + 2)..(c + 1) : ~IsStart(k)
  OBVIOUS
<1> HIDE DEF c
<1>2. Place(c + 1) = Place(c) + 1
  BY <1>1, PlaceOfNext
<1>3. Place(a) <= Place(c) /\ Place(a) \in Nat /\ Place(c) \in Nat
  BY <1>1, Places
<1> QED BY <1>1, <1>2, <1>3

\* Two records have two places.
LEMMA PlacesDiffer ==
  ASSUME NEW n \in Nat, NEW i \in StartsTo(n), NEW j \in StartsTo(n), Place(i) = Place(j)
  PROVE  i = j
<1>1. ASSUME NEW a \in StartsTo(n), NEW b \in StartsTo(n), a < b PROVE Place(a) # Place(b)
  <2>1. a \in 1..n /\ b \in 1..n /\ IsStart(b)
    BY DEF StartsTo
  <2>2. b \in Nat \ {0} /\ a \in 0..(b - 1)
    BY <1>1, <2>1
  <2>3. Place(a) < Place(b) /\ Place(a) \in Nat /\ Place(b) \in Nat
    BY <2>1, <2>2, PlacesGrow, Places
  <2> QED BY <2>3
<1>2. i \in Int /\ j \in Int
  BY DEF StartsTo
<1> QED BY <1>1, <1>2

\* Once Scan is over, the tokens are the records of the text, up to c.
LEMMA DefinedRecords == ASSUME SInv, RInv PROVE RecordsAsDefined
<1> SUFFICES ASSUME pc = "over"
             PROVE  /\ Len(tokens) <= Cardinality(Starts)
                    /\ \A i \in Starts :
                         IF Rank(i) <= Len(tokens)
                           THEN \/ tokens[Rank(i)] = RecordAt(i)
                                \/ together /\ tokens[Rank(i)] = DropCR(RecordAt(i))
                           ELSE behavior = "truncate" /\ together /\ i + maxSize > pos
  BY DEF RecordsAsDefined
<1>1. PICK c \in 0..pos : LostAfter(c) /\ Up(c)
  BY DEF RInv
<1>2. pos \in Nat /\ c \in Nat /\ maxSize \in Nat
  BY Known DEF RInv
<1>3. Len(tokens) = Place(c) /\ Place(c) \in Nat /\ Place(c) <= Place(pos)
  BY <1>1, <1>2, Places DEF Up
<1>4. Place(pos) = Cardinality(Starts)
  BY AtTheEnd DEF Place
<1>5. ASSUME NEW i \in Starts, i <= c
      PROVE  /\ Rank(i) <= Len(tokens)
             /\ \/ tokens[Rank(i)] = RecordAt(i)
                \/ together /\ tokens[Rank(i)] = DropCR(RecordAt(i))
  <2>1. i \in StartsTo(pos) /\ Rank(i) = Place(i)
    BY AtTheEnd
  <2>2. i \in 1..pos /\ i \in StartsTo(c)
    BY <1>2, <1>5, <2>1 DEF StartsTo
  <2>3. Place(i) \in 1..Len(tokens) /\ Reports(tokens[Place(i)], i)
    BY <1>1, <2>2 DEF Up
  <2>4. PICK e \in (i - 1)..pos :
          /\ IsLast(i, e)
          /\ tokens[Place(i)] = Cut(i, e) \/ (together /\ tokens[Place(i)] = CutCR(i, e))
    BY <2>3 DEF Reports
  <2>5. RecordAt(i) = Cut(i, e)
    BY <2>2, <2>4, DefinedRecord
  <2>6. Place(i) <= Len(tokens)
    BY <1>3, <2>3
  <2> QED BY <2>1, <2>4, <2>5, <2>6 DEF CutCR
<1>6. ASSUME NEW i \in Starts, ~(i <= c)
      PROVE  ~(Rank(i) <= Len(tokens)) /\ behavior = "truncate" /\ together /\ i + maxSize > pos
  <2>1. i \in StartsTo(pos) /\ Rank(i) = Place(i)
    BY AtTheEnd
  <2>2. i \in 1..pos /\ c < i /\ IsStart(i)
    BY <1>2, <1>6, <2>1 DEF StartsTo
  <2>3. Place(c) < Place(i)
    BY <1>2, <2>2, PlacesGrow
  <2>4. Place(i) \in Nat
    BY <1>2, <2>2, Places
  <2>5. behavior = "truncate" /\ together /\ c + maxSize >= pos
    BY <1>1, <1>2, <2>2 DEF LostAfter
  <2> QED BY <1>2, <1>3, <2>1, <2>2, <2>3, <2>4, <2>5
<1> QED BY <1>3, <1>4, <1>5, <1>6

-----------------------------------------------------------------------------
(* Lines and stamps                                                        *)

\* A carriage return less at the end is no stamp less at the beginning.
LEMMA StampKept ==
  ASSUME NEW t \in Seq(Bytes)
  PROVE  DropCR(t) \in Seq(Bytes) /\ (Stamped(DropCR(t)) <=> Stamped(t))
<1>1. CASE t # <<>> /\ Last(t) = CR
  <2> DEFINE n == Len(t) - 1
  <2> DEFINE f == SubSeq(t, 1, n)
  <2>1. Len(t) \in Nat /\ Len(t) # 0
    BY <1>1, EmptySeq, LenProperties
  <2>2. n \in 0..Len(t) /\ n \in Int
    BY <2>1
  <2>3. \A j \in 1..n : t[j] \in Bytes
    BY <2>1, ElementOfSeq
  <2>4. Last(t) = t[Len(t)]
    BY DEF Last
  <2>5. DropCR(t) = f
    BY <1>1 DEF DropCR, Front
  <2> HIDE DEF n
  <2>6. f \in Seq(Bytes) /\ Len(f) = (IF 1 <= n THEN n - 1 + 1 ELSE 0) /\ \A j \in 1..(n - 1 + 1) : f[j] = t[1 + j - 1]
    BY <2>2, <2>3, SubSeqProperties
  <2> HIDE DEF f
  <2>7. CASE n = 0
    <3>1. Len(f) = 0 /\ f = <<>>
      BY <2>6, <2>7, EmptySeq
    <3>2. Len(t) = 1
      BY <2>1, <2>7 DEF n
    <3>3. Head(t) = CR
      BY <1>1, <2>4, <3>2, HeadTailProperties
    <3> QED BY <2>5, <2>6, <3>1, <3>3 DEF Stamped, CR, Stamp
  <2>8. CASE n # 0
    <3>1. Len(f) = n /\ f # <<>> /\ 1 \in 1..(n - 1 + 1) /\ 1 + 1 - 1 = 1
      BY <2>2, <2>6, <2>8, EmptySeq
    <3>2. f[1] = t[1]
      BY <2>6, <3>1
    <3>3. Head(f) = f[1] /\ Head(t) = t[1]
      BY <1>1, <2>6, <3>1, HeadTailProperties
    <3> QED BY <1>1, <2>5, <2>6, <3>1, <3>2, <3>3 DEF Stamped
  <2> QED BY <2>7, <2>8
<1>2. CASE ~(t # <<>> /\ Last(t) = CR)
  BY <1>2 DEF DropCR
<1> QED BY <1>1, <1>2

\* A record is stamped if the line has a stamp where it begins.
LEMMA StampOfRecord ==
  ASSUME SInv, RInv, NEW i \in 1..pos, NEW e \in (i - 1)..pos, IsLast(i, e)
  PROVE  /\ Stamped(Cut(i, e)) <=> stream[i] = Stamp
         /\ Stamped(CutCR(i, e)) <=> stream[i] = Stamp
<1>1. /\ stream \in Seq(Bytes) /\ Len(stream) \in Nat /\ pos \in 0..Len(stream) /\ maxSize \in Nat \ {0}
      /\ i \in Int /\ e \in Int
  BY Known DEF RInv
<1> DEFINE t == SubSeq(stream, i, e)
<1>2. /\ t \in Seq(Bytes) /\ Len(t) = IF i <= e THEN e - i + 1 ELSE 0
      /\ \A j \in 1..(e - i + 1) : t[j] = stream[i + j - 1]
  <2>1. \A j \in i..e : stream[j] \in Bytes
    BY <1>1, ElementOfSeq
  <2> QED BY <1>1, <2>1, SubSeqProperties
<1>3. Cut(i, e) = t \/ Cut(i, e) = DropCR(t)
  BY DEF Cut
<1> HIDE DEF t
<1>4. Stamped(t) <=> stream[i] = Stamp
  <2>1. CASE i <= e
    <3>1. Len(t) = e - i + 1 /\ Len(t) \in Nat \ {0} /\ t # <<>>
      BY <1>1, <1>2, <2>1, EmptySeq
    <3>2. t[1] = stream[i]
      <4>1. 1 \in 1..(e - i + 1) /\ i + 1 - 1 = i
        BY <1>1, <2>1
      <4> QED BY <1>2, <4>1
    <3> QED BY <1>2, <3>1, <3>2, HeadTailProperties DEF Stamped
  <2>2. CASE ~(i <= e)
    <3>1. e = i - 1 /\ Len(t) = 0
      BY <1>1, <1>2, <2>2
    <3>2. t = <<>>
      BY <1>2, <3>1, EmptySeq
    <3>3. e # i + maxSize - 1 /\ e # pos
      BY <1>1, <3>1
    <3>4. stream[e + 1] = NL /\ e + 1 = i
      BY <1>1, <3>1, <3>3 DEF IsLast
    <3> QED BY <3>2, <3>4 DEF NL, Stamp, Stamped
  <2> QED BY <2>1, <2>2
<1>5. DropCR(t) \in Seq(Bytes) /\ (Stamped(DropCR(t)) <=> Stamped(t))
  BY <1>2, StampKept
<1>6. Cut(i, e) \in Seq(Bytes) /\ (Stamped(Cut(i, e)) <=> Stamped(t))
  BY <1>2, <1>3, <1>5
<1>7. Stamped(CutCR(i, e)) <=> Stamped(Cut(i, e))
  BY <1>6, StampKept DEF CutCR
<1> QED BY <1>4, <1>6, <1>7

\* The kubelet's stamp is where a line begins.
LEMMA LinesAreStamped ==
  ASSUME stream \in Streams, NEW i \in 1..Len(stream), Off(i) = 0
  PROVE  stream[i] = Stamp
<1>1. stream \in Seq(Bytes) /\ Len(stream) \in Nat /\ DOMAIN stream = 1..Len(stream)
  BY StreamsAreSequences, LenProperties
<1> DEFINE m == Max({0} \cup {j \in 1..(i - 1) : stream[j] = NL})
<1>2. i \in Nat \ {0}
  BY <1>1
<1>3. m \in 0..(i - 1) /\ (m > 0 => stream[m] = NL)
  BY <1>2, LastNewline
<1>4. i - m - 1 = 0
  BY DEF Off
<1> HIDE DEF m
<1>5. i = 1 \/ stream[i - 1] = NL
  <2>1. m = i - 1
    BY <1>2, <1>3, <1>4
  <2> QED BY <1>2, <1>3, <2>1
<1> QED BY <1>1, <1>5 DEF Streams

\* Once Scan is over, the stamped records are as many as the lines up to c and
\* the pieces that look like lines.
LEMMA OneStamp == ASSUME SInv, RInv PROVE OneStampPerLine
<1> SUFFICES ASSUME pc = "over" PROVE OneStampPerLine
  BY DEF OneStampPerLine
<1>1. /\ pos \in 0..Len(stream) /\ Len(stream) \in Nat /\ pos \in Nat
      /\ tokens \in Seq(Seq(Bytes)) /\ Len(tokens) \in Nat /\ DOMAIN tokens = 1..Len(tokens)
      /\ maxSize \in Nat \ {0} /\ behavior \in {"split", "truncate"} /\ stream \in Streams
  <2>1. pos \in 0..Len(stream) /\ Len(stream) \in Nat
    BY Known DEF RInv
  <2>2. stream \in Streams
    BY DEF SInv, TypeOK
  <2> QED BY <2>1, <2>2, Known, LenProperties DEF RInv
<1>2. PICK c \in 0..pos : LostAfter(c) /\ Up(c)
  BY DEF RInv
<1>3. c \in Nat /\ \A i \in 1..c : i \in 1..pos
  BY <1>1
<1> DEFINE A == {k \in DOMAIN tokens : Stamped(tokens[k])}
<1> DEFINE lines == {i \in 1..c : Offset(i) = 0}
<1> DEFINE lookalikes == {i \in Starts : i <= c /\ Offset(i) > 0 /\ Text[i] = Stamp}
<1> DEFINE B == lines \cup lookalikes
<1>4. ASSUME NEW i \in B PROVE i \in StartsTo(c) /\ stream[i] = Stamp
  <2>1. CASE i \in lines
    <3>1. i \in 1..c /\ i \in 1..Len(stream) /\ Off(i) = 0 /\ 0 % maxSize = 0
      BY <1>1, <1>3, <2>1, AtTheEnd
    <3>2. stream[i] = Stamp
      BY <1>1, <3>1, LinesAreStamped
    <3> QED BY <3>1, <3>2 DEF StartsTo, IsStart
  <2>2. CASE i \in lookalikes
    <3>1. i \in StartsTo(pos) /\ i <= c /\ Text[i] = Stamp
      BY <2>2, AtTheEnd
    <3>2. i \in 1..pos /\ IsStart(i)
      BY <3>1 DEF StartsTo
    <3>3. stream[i] = Stamp
      BY <3>1, <3>2, AtTheEnd
    <3> QED BY <1>1, <1>3, <3>1, <3>2, <3>3 DEF StartsTo
  <2> QED BY <2>1, <2>2
<1>5. ASSUME NEW i \in StartsTo(c), stream[i] = Stamp PROVE i \in B
  <2>1. i \in 1..c /\ i \in 1..pos /\ IsStart(i) /\ i \in Nat \ {0} /\ i <= c
    BY <1>1, <1>3 DEF StartsTo
  <2>2. i \in StartsTo(pos) /\ Offset(i) = Off(i) /\ Text[i] = stream[i] /\ Off(i) \in Nat
    BY <2>1, AtTheEnd, Offsets DEF StartsTo
  <2>3. i \in Starts
    BY <2>2, AtTheEnd
  <2>4. CASE Off(i) = 0
    BY <2>1, <2>2, <2>4
  <2>5. CASE Off(i) > 0
    BY <1>5, <2>1, <2>2, <2>3, <2>5
  <2> QED BY <2>2, <2>4, <2>5
<1>6. ASSUME NEW i \in StartsTo(c) PROVE Place(i) \in 1..Len(tokens) /\ (Stamped(tokens[Place(i)]) <=> stream[i] = Stamp)
  <2>1. i \in 1..pos
    BY <1>3 DEF StartsTo
  <2>2. Place(i) \in 1..Len(tokens) /\ Reports(tokens[Place(i)], i)
    BY <1>2 DEF Up
  <2>3. PICK e \in (i - 1)..pos : IsLast(i, e) /\ (tokens[Place(i)] = Cut(i, e) \/ tokens[Place(i)] = CutCR(i, e))
    BY <2>2 DEF Reports
  <2>4. Stamped(tokens[Place(i)]) <=> stream[i] = Stamp
    BY <2>1, <2>3, StampOfRecord
  <2> QED BY <2>2, <2>4
<1> DEFINE f == [i \in B |-> Place(i)]
<1> HIDE DEF lines, lookalikes
<1>7. f \in [B -> A]
  <2>1. ASSUME NEW i \in B PROVE Place(i) \in A
    BY <1>1, <1>4, <1>6
  <2> HIDE DEF A, B
  <2> QED BY <2>1
<1>8. \A i, j \in B : f[i] = f[j] => i = j
  <2> SUFFICES ASSUME NEW i \in B, NEW j \in B, Place(i) = Place(j) PROVE i = j
    OBVIOUS
  <2> HIDE DEF B
  <2> QED BY <1>3, <1>4, PlacesDiffer
<1>9. \A k \in A : \E i \in B : f[i] = k
  <2> SUFFICES ASSUME NEW k \in A PROVE \E i \in B : Place(i) = k
    OBVIOUS
  <2>1. k \in 1..Len(tokens) /\ Stamped(tokens[k])
    BY <1>1
  <2>2. PICK i \in StartsTo(c) : Place(i) = k
    BY <1>2, <2>1 DEF Up
  <2> HIDE DEF B
  <2> QED BY <1>5, <1>6, <2>1, <2>2
<1>10. IsFiniteSet(B)
  <2>1. B \in SUBSET Nat /\ \A x \in B : x <= c
    BY <1>3, <1>4 DEF StartsTo
  <2> HIDE DEF B
  <2> QED BY <1>3, <2>1, FS_BoundedSetOfNaturals
<1>11. f \in Bijection(B, A)
  <2> HIDE DEF A, B, f
  <2> QED BY <1>7, <1>8, <1>9, Fun_IsBij
<1>12. Cardinality(A) = Cardinality(B)
  <2> HIDE DEF A, B, f
  <2> QED BY <1>10, <1>11, FS_Bijection DEF ExistsBijection
<1> QED BY <1>2, <1>12, Zenon DEF OneStampPerLine, LostAfter, lines, lookalikes

-----------------------------------------------------------------------------
(* The theorems                                                            *)

\* However Read cuts the stream into pieces and however the connection ends, the
\* records the split function finds are those the text defines by its lines and
\* max_log_size alone, in the same order and every byte in its place, and none is
\* missing, except that truncate mode may lose the ones that begin in the last
\* max_log_size bytes if the connection's error comes together with them.
THEOREM RecordsAreTheTexts == Spec => []RecordsAsDefined
<1>1. SInv /\ RInv => RecordsAsDefined
  BY DefinedRecords
<1> QED BY <1>1, RecordInvariance, PTL

\* The scanner hands ParseLeadingTimestamp one stamped record for every line it
\* reports, whatever the line's length, and besides only the pieces of a split
\* line that begin like a line. The lines it reports are all those of the text,
\* but for the tail that truncate mode may discard with an oversized line.
THEOREM StampsCountLines == Spec => []OneStampPerLine
<1>1. SInv /\ RInv => OneStampPerLine
  BY OneStamp
<1> QED BY <1>1, RecordInvariance, PTL
==============================================================================
