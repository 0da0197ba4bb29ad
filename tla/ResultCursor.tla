---------------------------- MODULE ResultCursor ----------------------------
(***************************************************************************)
(* Navigation of a result (result_impl in nanodbc.cpp): a cursor of the    *)
(* driver that moves a rowset at a time, and a position inside the rowset  *)
(* that the library moves a row at a time.  The hard part is that three    *)
(* pieces of state must agree on the current row: the driver's rowset, the *)
(* row count it writes into the library at each fetch, and the library's   *)
(* position, which every navigation method updates in its own way.         *)
(*                                                                         *)
(* Rows are numbered from 1.  A result has one result set or several       *)
(* (stored procedures, batches); next_result() moves between them.         *)
(***************************************************************************)
EXTENDS Integers, Sequences

CONSTANTS
  Sets,        \* the number of rows of each result set, in order
  RowsetSizes, \* the rowset sizes a statement may be executed with
  Unbounds,    \* may a result have columns that are not bound? in {TRUE, FALSE}
  Ops,         \* the navigation methods the caller uses
  Skips,       \* the distances given to skip()
  Targets,     \* the rows given to move()
  Faults       \* the calls that may fail: "fetch", "setPos", "more"

AllOps == {"first", "last", "next", "prior", "move", "skip", "next_result"}

ASSUME SetsAssumption    == Sets \in Seq(Nat) /\ Sets # <<>>
ASSUME RowsetAssumption  == RowsetSizes \subseteq Nat \ {0}
ASSUME UnboundAssumption == Unbounds \subseteq BOOLEAN
ASSUME SkipsAssumption   == Skips \subseteq Int /\ Targets \subseteq Int

VARIABLES
  rowsetSize, \* rowset_size_: rows fetched at a time
  unbound,   \* has_unbound_: some column is read with SQLGetData
  set,       \* driver: the current result set
  start,     \* driver: first row of the rowset, 0 before, Rows + 1 after
  row,       \* driver: SQL_ATTR_ROW_NUMBER, the row SQLGetData reads; 0: none
  rowCount,  \* row_count_, which the driver writes when it fetches
  position,  \* rowset_position_
  atEnd,     \* at_end_
  op,        \* history: the last navigation,
  want,      \* history: the row it was asked for,
  said       \* history: and its answer: "true", "false" or "threw"

cursorVars == <<set, start, row, rowCount, position, atEnd>>
given      == <<rowsetSize, unbound>>
vars       == <<given, cursorVars, op, want, said>>

-----------------------------------------------------------------------------
(* The current result set and the current row.                             *)

\* No result set is left once SQLMoreResults has said so.
Rows == IF set \in 1..Len(Sets) THEN Sets[set] ELSE 0

Clip(n) == IF n < 0 THEN 0 ELSE IF n > Rows + 1 THEN Rows + 1 ELSE n

OnRow(n) == n \in 1..Rows

\* The row of the result set the library stands on.
Here == IF OnRow(start) THEN Clip(start + position) ELSE start

Init ==
  /\ rowsetSize \in RowsetSizes /\ unbound \in Unbounds
  /\ set = 1 /\ start = 0 /\ row = 0
  /\ rowCount = 0 /\ position = 0 /\ atEnd = FALSE
  /\ op = "none" /\ want = 0 /\ said = "none"

-----------------------------------------------------------------------------
(* The driver: where SQLFetchScroll puts the rowset, by orientation (the   *)
(* tables of the ODBC reference, "Cursor Positioning Rules").              *)

After == Rows + 1

\* A target before the first row, reached from distance n, still shows the
\* first rowset unless the whole of it lies before the result set.
Before(n) == IF n <= rowsetSize THEN IF Rows > 0 THEN 1 ELSE After ELSE 0

FetchFirst == IF Rows > 0 THEN 1 ELSE After

FetchLast == IF Rows >= rowsetSize THEN Rows - rowsetSize + 1 ELSE FetchFirst

FetchNext ==
  IF start = 0 THEN FetchFirst ELSE
  IF start = After THEN After ELSE Clip(start + rowsetSize)

FetchPrior ==
  IF start = 0 \/ start = 1 THEN 0 ELSE
  IF start = After THEN FetchLast ELSE
  IF start <= rowsetSize THEN 1 ELSE start - rowsetSize

FetchAbsolute(n) ==
  IF n = 0 THEN 0 ELSE
  IF n > 0 THEN Clip(n) ELSE
  IF -n <= Rows THEN Rows + n + 1 ELSE Before(-n)

FetchRelative(n) ==
  IF (start = 0 /\ n > 0) \/ (start = After /\ n < 0) THEN FetchAbsolute(n) ELSE
  IF start = 0 \/ (start = 1 /\ n < 0) THEN 0 ELSE
  IF start + n < 1 THEN Before(-n) ELSE Clip(start + n)

\* The rowset moves to row s: the driver reports how many rows it fetched,
\* none if there is no data, and its current row is the first of them.
Arrive(s) ==
  /\ start' = s
  /\ row' = IF OnRow(s) THEN s ELSE 0
  /\ rowCount' = IF ~OnRow(s) THEN 0
                 ELSE IF s + rowsetSize <= Rows THEN rowsetSize ELSE Rows - s + 1

-----------------------------------------------------------------------------
(* result_impl                                                             *)

Answer(b) == said' = IF b THEN "true" ELSE "false"

\* at_end_ after a fetch that did not fail: set by the first without data, and
\* never cleared.
AtEndAfter(s) == atEnd \/ ~OnRow(s)

\* fetch(), called with position already reset.  An error leaves the cursor
\* where it was and the row count with what the driver left in it.
Fetch(s) ==
  /\ position' = 0
  /\ UNCHANGED set
  /\ \/ /\ set <= Len(Sets)
        /\ Arrive(s)
        /\ atEnd' = AtEndAfter(s)
        /\ Answer(OnRow(s))
     \/ /\ "fetch" \in Faults \/ set > Len(Sets)
        /\ rowCount' \in {rowCount, 0}
        /\ said' = "threw"
        /\ UNCHANGED <<start, row, atEnd>>

\* Slips: the tests of a position against the rowset are off by one, or look
\* at the size of a full rowset where only some rows were fetched.
InRowsetOrNext(p) == rowCount > 0 /\ p <= rowsetSize
FetchedFull(p)    == p < rowsetSize

\* The library may move to position p without a fetch; p is a row it has.
InRowset(p) == rowCount > 0 /\ p < rowsetSize
Fetched(p)  == p < rowCount

\* Slip: SQLSetPos, which counts from one, is given the position.
SetPositionFromZero(p, answer) ==
  row' = (IF Fetched(p) THEN start + p - 1 ELSE row) /\ Answer(answer)

\* set_current_position(), with the position already at p, before the method
\* gives its answer: the driver's row follows, but stays where it is, without
\* a word, if p is past the rows fetched.  SQLSetPos may fail, and does as long
\* as the driver has no rowset.
SetPosition(p, answer) ==
  \/ /\ Fetched(p) => OnRow(start)
     /\ row' = (IF Fetched(p) THEN start + p ELSE row)
     /\ Answer(answer)
  \/ /\ Fetched(p) /\ ("setPos" \in Faults \/ ~OnRow(start))
     /\ UNCHANGED row /\ said' = "threw"

\* The library moves inside the rowset it has.
Stay(p) ==
  /\ position' = p
  /\ UNCHANGED <<set, start, rowCount, atEnd>>

Asks(name, target) ==
  name \in Ops /\ op' = name /\ want' = Clip(target)

First ==
  Asks("first", 1) /\ Fetch(FetchFirst)

Last ==
  Asks("last", Rows) /\ Fetch(FetchLast)

Next ==
  /\ Asks("next", Here + 1)
  /\ \/ /\ InRowset(position + 1)
        /\ Stay(position + 1)
        /\ IF unbound THEN SetPosition(position + 1, Fetched(position + 1))
                      ELSE UNCHANGED row /\ Answer(Fetched(position + 1))
     \/ /\ ~InRowset(position + 1)
        /\ Fetch(FetchNext)

\* prior() inside the rowset answers true, whatever it has come back to.
Prior ==
  /\ Asks("prior", Here - 1)
  /\ \/ /\ rowCount > 0 /\ position - 1 >= 0
        /\ Stay(position - 1)
        /\ SetPosition(position - 1, TRUE)
     \/ /\ ~(rowCount > 0 /\ position - 1 >= 0)
        /\ Fetch(FetchPrior)

\* A negative row is counted from the end.
Move(n) ==
  Asks("move", IF n < 0 THEN Rows + 1 + n ELSE n) /\ Fetch(FetchAbsolute(n))

\* The distance is counted from the position only as long as the rowset is
\* not left, and the driver's current row is not moved.
Skip(n) ==
  /\ Asks("skip", Here + n)
  /\ \/ /\ InRowset(position + n)
        /\ Stay(position + n)
        /\ UNCHANGED row /\ Answer(Fetched(position + n))
     \/ /\ ~InRowset(position + n)
        /\ Fetch(FetchRelative(n))

\* next_result(): the driver's cursor starts over; what the library knows of
\* the rowset, and at_end_, stays as the previous result set left it.  The
\* columns are bound anew, which may throw with the new set current.
NextResult ==
  /\ Asks("next_result", 0)
  /\ set <= Len(Sets)
  /\ \/ /\ set' = set + 1 /\ start' = 0 /\ row' = 0
        /\ Answer(set < Len(Sets))
     \/ /\ "more" \in Faults /\ said' = "threw"
        /\ \/ UNCHANGED <<set, start, row>>
           \/ set < Len(Sets) /\ set' = set + 1 /\ start' = 0 /\ row' = 0
  /\ UNCHANGED <<rowCount, position, atEnd>>

Navigate ==
  /\ \/ First \/ Last \/ Next \/ Prior
     \/ \E n \in Targets : Move(n)
     \/ \E n \in Skips : Skip(n)
     \/ NextResult
  /\ UNCHANGED given

Spec == Init /\ [][Navigate]_vars

-----------------------------------------------------------------------------
(* The observer.                                                           *)

AtEnd == atEnd \/ row = 0 \/ ~(row < rowCount)

-----------------------------------------------------------------------------
(* Properties                                                              *)

TypeOK ==
  /\ rowsetSize \in RowsetSizes /\ unbound \in Unbounds
  /\ set \in 1..(Len(Sets) + 1)
  /\ start \in Nat /\ row \in Nat /\ rowCount \in 0..rowsetSize
  /\ position \in Int /\ position < rowsetSize /\ atEnd \in BOOLEAN
  /\ op \in AllOps \cup {"none"} /\ want \in Nat
  /\ said \in {"none", "true", "false", "threw"}

\* A navigation that answers true has landed on the row it was asked for, and
\* one that answers false was asked for a row the result set does not have.
Lands(ops) ==
  op \in ops =>
    /\ said = "true"  => Here = want /\ OnRow(want)
    /\ said = "false" => ~OnRow(want)

\* A fetch failed and the driver left no row of the rowset it stayed on.
Lost == OnRow(start) /\ rowCount = 0

\* Every navigation lands where it was asked to as long as rows are fetched
\* one at a time.  In larger rowsets those that name a row do: but in a set
\* shorter than the rowset move() may answer with the first row when asked for
\* one before it.  So does next(), from a row that is not lost and until
\* next_result() leaves the library with the rowset of another set.
LandsWhereAsked ==
  [][IF rowsetSize = 1
       THEN Lands(AllOps \ {"next_result"})'
       ELSE /\ Lands({"first"})'
            /\ Rows >= rowsetSize \/ want' # 0 => Lands({"move"})'
            /\ ~Lost /\ set = 1 => Lands({"next"})']_vars

\* prior() comes back from beyond the row after the last one fetched, where
\* next() and skip() go when they answer false: to a row that is none.
Strayed == op' = "prior" /\ rowCount > 0 /\ position > rowCount

\* After a navigation that answers true, the position is one of the rows the
\* driver fetched, but for a prior() that had strayed: get() and is_null() read
\* a row of this rowset.
OnFetched ==
  said' = "true" /\ op' # "next_result" /\ ~Strayed => position' \in 0..(rowCount' - 1)

PositionInRowset == [][OnFetched]_vars

\* Reading a column that is not bound asks the driver for its current row; it
\* is the row the library stands on, but for skip() inside a rowset and for a
\* prior() that had strayed.
DriverFollows ==
  unbound' /\ said' = "true" /\ op' \notin {"skip", "next_result"} /\ ~Strayed
           /\ (set' = 1 \/ rowsetSize' = 1)
  => row' = Here'

ReadsCurrentRow == [][DriverFollows]_vars

\* A reader of one result set that only calls next() sees each row once, in
\* order, and is told of the end: the rowsets do not show.
Stream == INSTANCE RowStream WITH
            Rows  <- Sets[1],
            read  <- IF Here > Sets[1] THEN Sets[1] ELSE Here,
            ended <- said = "false"

ImplementsStream == Stream!Spec
=============================================================================
