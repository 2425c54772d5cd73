------------------------------- MODULE Lists -------------------------------
(***************************************************************************)
(* The lists that are read page by page: users, teams, hosts and the audit *)
(* log (core/pagination.py and the query of each list).                    *)
(*                                                                         *)
(* Rows are listed newest first, and by id among rows of one time.  A page *)
(* carries a cursor, the time and id of its last row; the next page starts *)
(* after it.  Between two pages rows are inserted, with the time at which  *)
(* their transaction got there (so a row may appear behind newer ones),    *)
(* and come to match the list or stop matching it: a user is deleted, a    *)
(* host changes its owner or status, a team is gone.                       *)
(*                                                                         *)
(* A row is its id; ids are numbers in their order.  Time 0 is no row.     *)
(***************************************************************************)
EXTENDS Integers, FiniteSets

CONSTANTS Row,
          Limit,     \* rows on a page
          MaxTime    \* bound on the clock

ASSUME RowsAreOrdered == Row \subseteq Nat /\ IsFiniteSet(Row)
ASSUME LimitAssumption == Limit \in Nat \ {0}
ASSUME MaxTimeAssumption == MaxTime \in Nat \ {0}

VARIABLES ts,        \* created_at (ts in the audit log), which never changes
          clock,
          match,     \* rows that meet the list's conditions now
          reader,    \* whether the reader has begun or is done, and the cursor
          listed,    \* what the reader was given
          again,     \* history: rows the reader was given twice
          steady,    \* history: rows there and matching on every page so far
          cuts       \* history: the times of the cursors handed out

listVars == <<ts, clock, match, reader, listed, again, steady, cuts>>

There == {r \in Row : ts[r] # 0}

(* ORDER BY created_at DESC, id DESC                                       *)
Newer(x, r) == ts[x] > ts[r] \/ (ts[x] = ts[r] /\ x > r)

(* Mutant of After: a row on the time of the cursor comes again.           *)
AfterOrAt(c) == {r \in match : ts[r] <= c.ts}

(* The rows after a cursor: (created_at, id) < (cursor.ts, cursor.id).     *)
(* Both sides are Python tuples, which Python compares: it takes the first *)
(* elements that differ, which a column and a value always do, and the     *)
(* query is left with created_at < cursor.ts.                              *)
After(c) == {r \in match : ts[r] < c.ts}

(* Of S, the first Limit rows; limit + 1 are fetched to see if that is all.*)
Page(S) == {r \in S : Cardinality({x \in S : Newer(x, r)}) < Limit}

More(S) == Cardinality(S) > Limit

(* Cursor: encoding and decoding it loses nothing.                         *)
CursorOf(r) == [at |-> "paging", ts |-> ts[r], id |-> r]

-----------------------------------------------------------------------------
(* One page of S, whose last row makes the next cursor if there is more.   *)
Turn(S) ==
  /\ listed' = listed \cup Page(S)
  /\ again' = again \cup (listed \cap Page(S))
  /\ IF More(S)
     THEN \E last \in Page(S) :
            /\ \A x \in Page(S) \ {last} : Newer(x, last)
            /\ reader' = CursorOf(last)
            /\ cuts' = cuts \cup {ts[last]}
     ELSE reader' = [reader EXCEPT !.at = "done"] /\ UNCHANGED cuts

FirstPage ==
  /\ reader.at = "new"
  /\ Turn(match)
  /\ steady' = match
  /\ UNCHANGED <<ts, clock, match>>

NextPage ==
  /\ reader.at = "paging"
  /\ Turn(After(reader))
  /\ UNCHANGED <<ts, clock, match, steady>>

-----------------------------------------------------------------------------
Tick ==
  /\ clock < MaxTime
  /\ clock' = clock + 1
  /\ UNCHANGED <<ts, match, reader, listed, again, steady, cuts>>

(* A row is committed; its time was taken before.                          *)
Insert(r, t, shown) ==
  /\ ts[r] = 0 /\ t <= clock
  /\ ts' = [ts EXCEPT ![r] = t]
  /\ match' = IF shown THEN match \cup {r} ELSE match
  /\ UNCHANGED <<clock, reader, listed, again, steady, cuts>>

(* It comes to match: ownership is given, a status set.                    *)
Show(r) ==
  /\ r \in There \ match
  /\ match' = match \cup {r}
  /\ UNCHANGED <<ts, clock, reader, listed, again, steady, cuts>>

(* It stops matching, or is deleted.                                       *)
Hide(r) ==
  /\ r \in match
  /\ match' = match \ {r}
  /\ steady' = steady \ {r}
  /\ UNCHANGED <<ts, clock, reader, listed, again, cuts>>

-----------------------------------------------------------------------------
ListInit ==
  /\ ts = [r \in Row |-> 0]
  /\ clock = 1
  /\ match = {}
  /\ reader = [at |-> "new", ts |-> 0, id |-> 0]
  /\ listed = {}
  /\ again = {}
  /\ steady = {}
  /\ cuts = {}

ListNext ==
  \/ FirstPage \/ NextPage \/ Tick
  \/ \E r \in Row :
       \/ \E t \in 1..MaxTime, shown \in BOOLEAN : Insert(r, t, shown)
       \/ Show(r) \/ Hide(r)

ListSpec == ListInit /\ [][ListNext]_listVars

-----------------------------------------------------------------------------
(* Types; what matches is there.                                           *)
ListTypeOK ==
  /\ ts \in [Row -> 0..MaxTime]
  /\ clock \in 1..MaxTime
  /\ match \in SUBSET Row /\ match \subseteq There
  /\ reader \in [at : {"new", "paging", "done"}, ts : 0..MaxTime, id : Row \cup {0}]
  /\ listed \in SUBSET Row /\ listed \subseteq There
  /\ again \in SUBSET Row
  /\ steady \in SUBSET match
  /\ cuts \in SUBSET (1..MaxTime)

(* The rows the reader has gone past.                                      *)
Passed ==
  CASE reader.at = "new" -> {}
    [] reader.at = "paging" -> {r \in There : ts[r] >= reader.ts}
    [] reader.at = "done" -> There

(* Paging is stable (core/pagination.py, every list query): whatever is    *)
(* inserted, shown or hidden meanwhile, no row is given twice, and a row   *)
(* that was there and matched all along is given by the time the reader is *)
(* past it, or has the very time of a row that ended a page.               *)
StablePages ==
  /\ again = {}
  /\ \A r \in steady \cap Passed : r \in listed \/ ts[r] \in cuts

(* Stated by core/pagination.py ("Cursors carry (id, ts) so paging is      *)
(* stable across inserts"): the rows that match all along are all given.   *)
AllGiven == reader.at = "done" => steady \subseteq listed
=============================================================================
