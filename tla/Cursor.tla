------------------------------- MODULE Cursor -------------------------------
(***************************************************************************)
(* Package internal/cursor, the pure part: how far one container's log has *)
(* been read (Cursor) and the filter that trims the overlap a reconnect is *)
(* re-served (Filter).                                                     *)
(*                                                                         *)
(* A timestamp is a natural number; 0 is Go's zero time.Time, which is     *)
(* what a record without a parseable timestamp carries.                    *)
(***************************************************************************)
EXTENDS Naturals

NoTime == 0

\* A position: the last delivered timestamp and how many delivered records
\* carried exactly it.
CursorType == [ts : Nat, delivered : Nat]

ZeroCursor == [ts |-> NoTime, delivered |-> 0]

IsZero(c) == c.ts = NoTime

\* c is strictly further along than other.
After(c, other) ==
  \/ c.ts = other.ts /\ c.delivered > other.delivered
  \/ c.ts > other.ts

-----------------------------------------------------------------------------
(* Record folds one record into the cursor; Moves is its Boolean result.   *)

Moves(c, ts) == ts # NoTime /\ ts >= c.ts

\* Mutant of Record: a second record at the cursor's own instant is not counted.
Record_CountsOnce(c, ts) ==
  IF ~Moves(c, ts) THEN c ELSE [ts |-> ts, delivered |-> 1]

Record(c, ts) ==
  IF ~Moves(c, ts) THEN c
  ELSE [ts |-> ts, delivered |-> IF ts > c.ts THEN 1 ELSE c.delivered + 1]

\* Store.Advance on one entry: only forward, and never to the zero position.
Advance(stored, c) == IF ~IsZero(c) /\ After(c, stored) THEN c ELSE stored

-----------------------------------------------------------------------------
(* Filter                                                                  *)

\* mode is "past" once Filter.done is set: nothing more can be a re-read.
FilterType == [ts : Nat, skip : Nat, mode : {"overlap", "past"}]

NewFilter(from) ==
  [ts |-> from.ts, skip |-> from.delivered, mode |-> IF IsZero(from) THEN "past" ELSE "overlap"]

\* Mutant of Keep: the whole instant of the cursor counts as already delivered.
Keep_DropsInstant(f, ts) == f.mode = "past" \/ ts = NoTime \/ ts > f.ts

\* Filter.Keep: should a record with this timestamp be forwarded?
Keep(f, ts) ==
  \/ f.mode = "past"
  \/ ts = NoTime
  \/ ts > f.ts
  \/ ts = f.ts /\ f.skip = 0

\* Mutant of AfterKeep: an exhausted skip is decremented again.
AfterKeep_Underflows(f, ts) ==
  IF f.mode = "past" \/ ts = NoTime \/ ts < f.ts THEN f
  ELSE IF ts > f.ts THEN [f EXCEPT !.mode = "past"] ELSE [f EXCEPT !.skip = @ - 1]

\* The filter Keep leaves behind.
AfterKeep(f, ts) ==
  IF f.mode = "past" \/ ts = NoTime \/ ts < f.ts \/ (ts = f.ts /\ f.skip = 0) THEN f
  ELSE IF ts > f.ts THEN [f EXCEPT !.mode = "past"] ELSE [f EXCEPT !.skip = @ - 1]
=============================================================================
