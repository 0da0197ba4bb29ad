------------------------------- MODULE Results -------------------------------
(***************************************************************************)
(* Results that share a statement (result_impl in nanodbc.cpp).  A result  *)
(* gives the statement's handle addresses inside itself: where to count    *)
(* the rows fetched, and for each column where to put its values and its   *)
(* indicators.  The driver keeps them until they are replaced, whatever    *)
(* becomes of the result.  A column that is not bound is read with         *)
(* SQLGetData, from the driver's current row, and is known to be null only *)
(* then.  The module covers a result's life, next() in both forms,         *)
(* next_result(), unbind(), is_null() and get().                           *)
(*                                                                         *)
(* Columns are numbered from one, in the order they are bound.             *)
(***************************************************************************)
EXTENDS Integers, Sequences

CONSTANTS
  Objects,     \* result_impl objects
  Read,        \* those that are read, fetched asynchronously and unbound (a bound)
  Sets,        \* the result sets of an execution
  MaxColumns,  \* no result set has more columns (a bound)
  Sizes,       \* rowset sizes
  MarksUnbound,\* does the driver put indicators for columns without a buffer?
  GetsBound,   \* SQL_GD_BOUND: does SQLGetData read a bound column?
  MayFail,     \* may an ODBC call fail of its own accord?
  NULL         \* no object

\* A result set: how many rows and columns, which columns are long (and are
\* not bound), which are bound but hold more than the driver told, and which
\* rows are null.
ASSUME SetsAssumption ==
  /\ Sets \in Seq([rows : Nat, columns : Nat, long : SUBSET Nat, wide : SUBSET Nat,
                   null : SUBSET Nat])
  /\ Len(Sets) > 0
  /\ \A s \in 1..Len(Sets) :
       /\ Sets[s].columns <= MaxColumns
       /\ Sets[s].long \cup Sets[s].wide \subseteq 1..Sets[s].columns
       /\ Sets[s].null \subseteq 1..Sets[s].rows
ASSUME ColumnsAssumption == MaxColumns \in Nat
ASSUME SizesAssumption == Sizes \subseteq Nat \ {0}
ASSUME FlagsAssumption == {MarksUnbound, GetsBound, MayFail} \subseteq BOOLEAN
ASSUME ObjectsAssumption == NULL \notin Objects /\ Read \subseteq Objects

VARIABLES
  drv,    \* the statement's handle in the driver
  res,    \* the members of each object
  holder, \* history: the object the handle was last prepared for, whole
  asked,  \* async_ of each, as long as the caller has to complete a fetch
  said    \* history: did the last call, if get(), read the row it should?

vars == <<drv, res, holder, asked, said>>

\* No values, no indicators, and nobody's memory.
NoTarget == [of |-> NULL, data |-> FALSE]

\* set: the current result set, none when 0; start: the first row of the
\* rowset; row: the current row, none when 0; counts: where it counts the rows
\* fetched; busy: is an asynchronous fetch in progress, or done?
NewDriver ==
  [set |-> 0, start |-> 0, row |-> 0, array |-> 1, counts |-> NULL, busy |-> "no",
   target |-> [c \in 1..MaxColumns |-> NoTarget]]

\* columns: how many there are; whole: do all have indicators?  first: the row
\* whose values are first in the buffers; null: the indicators that say so;
\* reads (history): which columns get() reads from the row the object stands
\* on: "all" if a column was not bound when it fetched the rowset, and nothing
\* but its own next() has moved since, else "bound" ones, and none before it
\* has fetched from the result set, or after a fetch that failed.
NewResult ==
  [alive |-> FALSE, size |-> 1, rows |-> 0, pos |-> 0,
   unbound |-> FALSE, columns |-> 0, whole |-> TRUE, bound |-> {},
   first |-> 0, null |-> {}, reads |-> "none"]

NoAnswer == [by |-> NULL]

Init ==
  /\ drv = NewDriver
  /\ res = [r \in Objects |-> NewResult]
  /\ holder = NULL
  /\ asked = [r \in Objects |-> "nothing"]
  /\ said = NoAnswer

-----------------------------------------------------------------------------
(* The driver.                                                             *)

Current == Sets[drv.set]

\* While a fetch is in progress the handle refuses other calls.
Ready == drv.busy = "no"

\* Rows of a rowset that starts at s.
RowsAt(s) == IF s > Current.rows THEN 0
             ELSE IF s + drv.array - 1 <= Current.rows THEN drv.array
             ELSE Current.rows - s + 1

\* SQL_FETCH_NEXT
NextStart == IF drv.start = 0 THEN 1
             ELSE IF drv.start > Current.rows THEN drv.start ELSE drv.start + drv.array

\* Does the driver put values, or indicators, of column c into object q?
Fills(q, c) == c <= Current.columns /\ drv.target[c].of = q /\ drv.target[c].data
Marks(q, c) == c <= Current.columns /\ drv.target[c].of = q
                 /\ (drv.target[c].data \/ MarksUnbound)

\* The members me of q after the driver has fetched the rowset at s.  An
\* indicator is a cell: of a column, in a row of the rowset.
Filled(me, q, s) ==
  [me EXCEPT
     !.rows  = IF drv.counts = q THEN RowsAt(s) ELSE @,
     !.first = IF RowsAt(s) > 0 /\ \E c \in 1..MaxColumns : Fills(q, c) THEN s ELSE @,
     !.null  = {cell \in (1..MaxColumns) \X (0..(RowsAt(s) - 1)) :
                  Marks(q, cell[1]) /\ s + cell[2] \in Current.null}
               \cup {cell \in @ : ~Marks(q, cell[1]) \/ cell[2] >= RowsAt(s)}]

\* A fetch that ends, for objects whose members are those of objects: with
\* rows, or without data.
Ends(objects) ==
  LET s == NextStart IN
  /\ drv' = [drv EXCEPT !.start = IF RowsAt(s) > 0 THEN s ELSE Current.rows + 1,
                        !.row = IF RowsAt(s) > 0 THEN s ELSE 0,
                        !.busy = IF @ = "no" THEN "no" ELSE "done"]
  /\ res' = [q \in Objects |-> Filled(objects[q], q, s)]

-----------------------------------------------------------------------------
(* Binding.                                                                *)

\* What the driver is told when an object's vectors are freed: nothing.  Its
\* addresses are nobody's from then on.
Forgets(d, r) ==
  [d EXCEPT !.target = [c \in 1..MaxColumns |->
     IF @[c].of = r THEN NoTarget ELSE @[c]]]

\* Slip: a long column is left as it was bound.
BoundUpToShort(d, r, s, n) ==
  [d EXCEPT !.target = [c \in 1..MaxColumns |->
     IF c <= n /\ c \notin Sets[s].long THEN [of |-> r, data |-> TRUE] ELSE @[c]]]

\* SQLBindCol of the first n columns: a long one has indicators and no values.
BoundUpTo(d, r, s, n) ==
  [d EXCEPT !.target = [c \in 1..MaxColumns |->
     IF c <= n THEN [of |-> r, data |-> c \notin Sets[s].long] ELSE @[c]]]

\* auto_bind_columns(), which throws at column k of n; at none of them when k
\* is n + 1, as it describes them when 0, and before it counts them when -1.
Binds(d, r, s, k) ==
  LET n == Sets[s].columns
      bound == 1..(k - 1)
      tried == (1..k) \cap (1..n)
  IN [d  |-> BoundUpTo(Forgets(d, r), r, s, k - 1),
      me |-> [res[r] EXCEPT !.columns = IF k = -1 THEN 0 ELSE n,
                            !.whole = k = -1 \/ k >= n,
                            !.bound = bound \ Sets[s].long,
                            !.first = 0, !.null = {}, !.reads = "none",
                            !.unbound = @ \/ tried \cap Sets[s].long # {}]]

\* statement_impl executes, with the cursor of an earlier execution closed,
\* or has done so, and result_impl() prepares the handle.  When that throws
\* the vectors and the row count it had are freed.
Construct(r, size, executes) ==
  /\ ~res[r].alive /\ Ready
  /\ executes \/ drv.set > 0
  /\ said' = NoAnswer /\ UNCHANGED asked
  /\ LET d0 == IF executes THEN [drv EXCEPT !.set = 1, !.start = 0, !.row = 0] ELSE drv
         d1 == [d0 EXCEPT !.array = size]
         b(n) == Binds([d1 EXCEPT !.counts = r], r, d1.set, n)
         all == Sets[d1.set].columns + 1
     IN \/ /\ drv' = b(all).d
           /\ res' = [res EXCEPT ![r] = [b(all).me EXCEPT !.alive = TRUE, !.size = size]]
           /\ holder' = r
        \/ /\ MayFail
           /\ \/ drv' \in {d0, d1}
              \/ \E n \in (-1)..(all - 1) :
                   drv' = Forgets([b(n).d EXCEPT !.counts = NULL], r)
           /\ holder' = NULL
           /\ UNCHANGED res

\* A column without indicators stops the program as soon as they are cleared.
Whole(r) == res[r].alive /\ res[r].whole

\* ~result_impl(): the driver keeps the addresses, and may be fetching.
Destroy(r) ==
  /\ Whole(r)
  /\ drv' = Forgets([drv EXCEPT !.counts = IF @ = r THEN NULL ELSE @], r)
  /\ res' = [res EXCEPT ![r] = NewResult]
  /\ holder' = IF holder = r THEN NULL ELSE holder
  /\ asked' = [asked EXCEPT ![r] = "nothing"]
  /\ said' = NoAnswer

\* next_result(): the columns of the next set are bound to this object, but
\* not the rowset size and the row count.
NextResult(r) ==
  /\ Whole(r) /\ Ready /\ drv.set \in 1..(Len(Sets) - 1)
  /\ said' = NoAnswer /\ UNCHANGED asked
  /\ LET d1  == [drv EXCEPT !.set = @ + 1, !.start = 0, !.row = 0]
         all == Sets[d1.set].columns + 1
     IN \E n \in {all} \cup (IF MayFail THEN (-1)..all ELSE {}) :
          /\ drv' = Binds(d1, r, d1.set, n).d
          /\ res' = [res EXCEPT ![r] = Binds(d1, r, d1.set, n).me]
          /\ holder' = IF n = all /\ holder = r THEN r ELSE NULL

\* unbind(column): has_unbound_ is set before the column is looked at.
Unbind(r, c) ==
  /\ Whole(r) /\ Ready /\ c <= res[r].columns
  /\ said' = NoAnswer /\ UNCHANGED asked
  /\ \/ /\ c \in res[r].bound
        /\ holder' = IF holder = r THEN holder ELSE NULL
        /\ drv' = [drv EXCEPT !.target[c] = [of |-> r, data |-> FALSE]]
        /\ res' = [res EXCEPT ![r].bound = @ \ {c}, ![r].unbound = TRUE]
     \/ /\ c \notin res[r].bound \/ MayFail
        /\ res' = [res EXCEPT ![r].unbound = TRUE]
        /\ UNCHANGED <<drv, holder>>

-----------------------------------------------------------------------------
(* Fetching.                                                               *)

\* Slip: the row past the rowset is tried too.
InRowsetOrNext(me) == me.rows > 0 /\ me.pos < me.size

\* The library may move inside the rowset it has.
InRowset(me) == me.rows > 0 /\ me.pos + 1 < me.size

\* The objects once r is me and moves in the result set.
Moves(r, me) ==
  [q \in Objects |->
     IF q = r THEN me ELSE [res[q] EXCEPT !.reads = IF @ = "all" THEN "bound" ELSE @]]

\* Slip: the last row of the rowset is left out.
FollowsToLast(me) == me.unbound /\ me.pos + 1 < me.rows

\* Does the driver's row follow the position?
Follows(me) == me.unbound /\ me.pos < me.rows

\* Inside the rowset the object becomes me.  With a column to be read by
\* SQLGetData the driver's current row follows, if the position is a row.
Step(r, me) ==
  /\ res' = Moves(r, me)
  /\ IF Follows(me)
     THEN /\ me.pos < RowsAt(drv.start)
          /\ drv' = [drv EXCEPT !.row = drv.start + me.pos]
     ELSE UNCHANGED drv

\* SQLSetPos fails, with the position moved.
StepThrows(r) ==
  LET me == [res[r] EXCEPT !.pos = @ + 1] IN
  /\ Follows(me)
  /\ MayFail \/ me.pos >= RowsAt(drv.start)
  /\ res' = Moves(r, [me EXCEPT !.reads = IF @ = "all" THEN "bound" ELSE @])
  /\ UNCHANGED drv

\* before_move(): the position is back, and the indicators are cleared.
BeforeMove(r) ==
  Moves(r, [res[r] EXCEPT !.pos = 0, !.null = {},
                         !.reads = IF res[r].bound = 1..res[r].columns THEN "bound" ELSE "all"])

\* A fetch that fails leaves the rowset and its position at the first row.
FetchThrows(r) == MayFail /\ res' = [BeforeMove(r) EXCEPT ![r].reads = "none"] /\ UNCHANGED drv

Fetches(r) == Whole(r) /\ Ready /\ drv.set > 0 /\ said' = NoAnswer /\ UNCHANGED holder

Next(r) ==
  /\ Fetches(r)
  /\ UNCHANGED asked
  /\ \/ /\ InRowset(res[r])
        /\ Step(r, [res[r] EXCEPT !.pos = @ + 1]) \/ StepThrows(r)
     \/ /\ ~InRowset(res[r])
        /\ \/ Ends(BeforeMove(r))
           \/ FetchThrows(r)

\* What the caller is told, and async_ is: next() is true.
Told(answer) == IF answer THEN "wait" ELSE "complete"

\* async_next(): next() with an event; its answer is true on a row inside the
\* rowset, and otherwise while the driver fetches.  A fetch that fails at once
\* answers like one that is done; turning the asynchronous mode on may throw.
AsyncNext(r) ==
  /\ Fetches(r)
  /\ asked[r] = "nothing"
  /\ \/ /\ InRowset(res[r])
        /\ \/ /\ Step(r, [res[r] EXCEPT !.pos = @ + 1])
              /\ asked' = [asked EXCEPT ![r] = Told(res[r].pos + 1 < res[r].rows)]
           \/ StepThrows(r) /\ UNCHANGED asked
     \/ /\ ~InRowset(res[r])
        /\ \/ Ends(BeforeMove(r)) /\ asked' = [asked EXCEPT ![r] = Told(FALSE)]
           \/ /\ res' = BeforeMove(r)
              /\ drv' = [drv EXCEPT !.busy = "yes"]
              /\ asked' = [asked EXCEPT ![r] = Told(TRUE)]
           \/ FetchThrows(r) /\ asked' \in {asked, [asked EXCEPT ![r] = Told(FALSE)]}

\* The driver ends the fetch, and signals the event.
DriverFinishes ==
  /\ drv.busy = "yes"
  /\ \/ Ends(res)
     \/ /\ MayFail
        /\ drv' = [drv EXCEPT !.busy = "done"]
        /\ res' = [r \in Objects |-> [res[r] EXCEPT !.reads = "none"]]
  /\ said' = NoAnswer /\ UNCHANGED <<holder, asked>>

\* complete_next(), once the event is signalled if it was to be waited for:
\* SQLCompleteAsync, which throws if the fetch has failed.
CompleteNext(r) ==
  /\ Whole(r)
  /\ \/ asked[r] = "wait" /\ drv.busy = "done"
        /\ drv' = [drv EXCEPT !.busy = "no"]
     \/ asked[r] = "complete" /\ UNCHANGED drv
  /\ asked' = [asked EXCEPT ![r] = "nothing"]
  /\ said' = NoAnswer /\ UNCHANGED <<res, holder>>

-----------------------------------------------------------------------------
(* Reading.                                                                *)

\* Is column c read by SQLGetData?  One whose value did not fit is, if the
\* driver hands over columns that are bound.
ReadsDriver(r, c) ==
  c \notin res[r].bound \/ (GetsBound /\ c \in Current.wide)

\* is_null(): of an unbound binary column the driver is asked, and may decline.
\* The indicators that are known after it.
AfterAsking(r, c) ==
  LET me == res[r] IN
  {me.null} \cup
    IF c \in me.bound \/ drv.row = 0 THEN {}
    ELSE {IF drv.row \in Current.null THEN me.null \cup {<<c, me.pos>>}
          ELSE me.null \ {<<c, me.pos>>}}

\* Slip: whether the value is null is not looked at after it was read.
NullOnceRead(c, pos, before, after) == <<c, pos>> \in before

\* A column is null if it was known to be, or is known to be once it was read.
NullWhenRead(c, pos, before, after) == <<c, pos>> \in before \/ <<c, pos>> \in after

\* get(): throws past the rows fetched, or when SQLGetData fails.
Get(r, c) ==
  /\ Whole(r) /\ Ready /\ drv.set > 0 /\ c <= res[r].columns
  /\ res[r].pos < res[r].rows
  /\ ReadsDriver(r, c) => drv.row > 0
  /\ \E before \in AfterAsking(r, c) :
       LET me    == res[r]
           row   == IF ReadsDriver(r, c) THEN drv.row ELSE me.first + me.pos
           after == IF ReadsDriver(r, c) /\ drv.row \in Current.null
                    THEN before \cup {<<c, me.pos>>} ELSE before
       IN /\ res' = [res EXCEPT ![r].null =
                       IF <<c, me.pos>> \in before THEN before ELSE after]
          /\ said' = [by |-> r,
                      row |-> row = drv.start + me.pos,
                      null |-> NullWhenRead(c, me.pos, before, after)
                                 <=> drv.start + me.pos \in Current.null,
                      sure |-> holder = r /\ me.reads \in {"all"} \cup
                                 (IF ReadsDriver(r, c) THEN {} ELSE {"bound"})]
  /\ UNCHANGED <<drv, holder, asked>>

AnyStep ==
  \/ \E r \in Objects, size \in Sizes, executes \in BOOLEAN : Construct(r, size, executes)
  \/ \E r \in Objects : Destroy(r) \/ NextResult(r) \/ Next(r)
  \/ \E r \in Read : AsyncNext(r) \/ CompleteNext(r)
  \/ \E r \in Read, c \in 1..MaxColumns : Unbind(r, c) \/ Get(r, c)
  \/ DriverFinishes

Spec == Init /\ [][AnyStep]_vars

-----------------------------------------------------------------------------
(* Properties                                                              *)

TypeOK ==
  /\ drv.set \in 0..Len(Sets) /\ drv.start \in Nat /\ drv.row \in Nat
  /\ drv.array \in Sizes \cup {1} /\ drv.counts \in Objects \cup {NULL}
  /\ drv.busy \in {"no", "yes", "done"}
  /\ drv.target \in [1..MaxColumns -> [of: Objects \cup {NULL}, data: BOOLEAN]]
  /\ \A r \in Objects :
       /\ res[r].bound \subseteq 1..MaxColumns /\ res[r].pos \in 0..(res[r].size - 1)
       /\ {res[r].alive, res[r].unbound} \subseteq BOOLEAN
  /\ holder \in Objects \cup {NULL}
  /\ asked \in [Objects -> {"nothing", "wait", "complete"}]

\* The next fetch writes into the object the handle was prepared for, as many
\* rows as it has room for, each column into what that object takes it for:
\* whatever other objects had given the handle before, whatever has been
\* unbound, and though the sets of one execution differ in their columns.
FetchesIntoHolder ==
  holder # NULL =>
    LET me == res[holder] IN
    /\ drv.counts = holder /\ drv.array = me.size
    /\ \A c \in 1..Current.columns :
         drv.target[c] = [of |-> holder, data |-> c \in me.bound]

\* get() reads the row the object stands on: in a rowset that was fetched with
\* columns to be read by SQLGetData, and otherwise what is bound and fits.
GetsCurrentRow ==
  said # NoAnswer /\ said.sure => said.row

\* And it answers null exactly if that row is null, though a column that is
\* not bound is only known to be after it was read.
GetsNulls ==
  said # NoAnswer /\ said.sure => said.null

\* nanodbc.h on async_next(): "true if the caller needs to wait for the event to
\* be signalled".  Then the driver is fetching, or has signalled it.
AwaitsAFetch ==
  \A r \in Objects : asked[r] = "wait" => drv.busy # "no"
=============================================================================
