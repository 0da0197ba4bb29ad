# A verification development of nanodbc

nanodbc is a C++ wrapper of ODBC: one library, `nanodbc/nanodbc.cpp`, whose
classes own driver handles, keep flags about them and turn return codes into
exceptions.  This directory holds TLA+ modules that model its core, TLC
configurations that check them on small instances, and proofs, checked by
TLAPS, of what must hold for every instance.  Line numbers refer to
`src/nanodbc/nanodbc.cpp` unless a file is named.

`PROJECT.json` maps every definition to the lines it stands for, lists the runs,
the hazards they are aimed at, a mutation of the model for each property that the
property catches, and the theorems.

    tlc -workers 2 -config connection.cfg MCConnection.tla     # a run
    tlapm Transaction_proofs.tla                               # the proofs

## 1. Inventory

The library starts no thread and takes no lock.  Its methods run on the caller's
thread, so what interleaves is *calls* (of several objects that share a
connection or a handle), the *driver*, which works in the background once a call
is asynchronous, and *failures*: nearly every method is a chain of ODBC calls
each of which may throw, leaving what the earlier ones did.

| Component | State | Operations | Correct when |
|---|---|---|---|
| **Connection** `connection_impl` (1204-1618) | `env_`, `dbc_`, `connected_`; in the driver manager the two handles, the link, its asynchronous mode | constructors, `connect`, `async_connect`, `async_complete`, `disconnect`, `allocate`, `deallocate`, destructor | it holds exactly the handles that are allocated; `connected()` is true of a link; destruction leaves nothing |
| **Transaction** `transaction_impl` (1709-1794) with `transactions_`, `rollback_` of the connection (1590-1617) | counter and mark, shared; `committed_` per object; in the driver autocommit mode and pending work | constructor, `commit`, `rollback`, destructor | the counter counts; nothing takes effect inside; all of it is settled together; the connection is restored |
| **Statement** `statement_impl` (1816-2330) | `stmt_`, `open_`, `conn_`, `async_`, `async_enabled_`, `async_event_`; in the driver manager the handle's connection, its mode, event, cursor, and the call in progress | constructors, `open`, `close`, `cancel`, `prepare`, `just_execute`, `just_execute_direct`, their asynchronous forms, `complete_*`, destructor | each has a handle of its own on its connection; nothing is left executing unknown to the caller; who waits is woken |
| **Parameters** (2379-2936) | `bind_len_or_null_`, `wide_string_data_`, `string_data_`, `binary_data_`, `param_descr_data_`; in the driver the addresses it reads when it executes | `bind*`, `bind_null`, `describe_parameters`, `reset_parameters` | what is read at execution is what was asked for, and its memory is still there |
| **Table-valued parameters** (2951-3471) | `open_`, `row_count_` of each table, `open_tvp_`, `tvp_data_` of the statement, the driver's parameter focus | `open`, `bind*`, `close`, destructor; closing the statement under them | the three records agree; what a table is bound to outlives the caller's hold |
| **Result navigation** `result_impl` (3698-4087, 4345-4371, 4615-4642) | `row_count_`, `rowset_position_`, `at_end_`; the driver's rowset and current row | `first`, `last`, `next`, `prior`, `move`, `skip`, `next_result`, `at_end`, `position` | a navigation lands on the row it names; reads are of the current row |
| **Asynchronous fetch** (3788-3812) and **results that share a statement** | `async_` of each result; the handle's row count, rowset size and column addresses | `async_next`, `complete_next`; copies and second executions | a fetch writes into the object it is for |
| **Columns and nulls** (3890-3943, 4089-4160, 4373-4613) | `bound_columns_`, one buffer and indicator vector per column | `auto_bind_columns`, `unbind`, `is_null` | the buffer read is the one the driver wrote; null is answered for nulls only |
| **Long data, conversion, Unicode** (370-565, 662-1023, 4644-5500) | local to one call of `get_ref_impl` | `get<T>` of every `T` | all of a long column is read once; a value is read as itself or refused |
| **Result iterator** (`nanodbc.h` 2204-2288) | a result by value | `begin`, `++`, `==` | one pass over `next()` |
| **Variant row cache** (`variant_row_cached_result.cpp`) | `row_`, a copy of the row | `next`, `get`, `is_null` | cache and row agree |
| **Catalogue and lists; free functions; row descriptor; attributes, variants; errors** | little or none | queries, compositions, values, text | see section 8 |

How they interact.  `connection`, `statement`, `result` and `transaction` are
handles to shared implementations: a `transaction_impl` and a `statement_impl`
hold their connection by value, so it is destroyed after them, but it may be
disconnected and connected again under them at any time, which frees, in the
driver manager, every statement handle of the link and resets autocommit.  A
result holds its statement by value and gives the driver addresses inside
itself.  Nothing tells an object that what it remembers has gone.

What is hard, then: failures half-way through a chain of calls; destructors that
swallow failures; flags that outlive the handle they describe; objects that share
one counter, or one handle, and end in any order; asynchronous calls, whose end
races with cancelling, closing and destroying; addresses given to the driver long
before it uses them; three records of the current row that each navigation method
updates in a way of its own; and the borders of buffers, widths and encodings.

## 2. Modules

| Module | Models | Composed of |
|---|---|---|
| `Connection` | a connection and the driver manager's view of it | |
| `Transaction` | transaction objects over it, and the driver's unit of work | extends `Connection` |
| `UnitOfWork` | what nested transactions promise (abstract) | implemented by `Transaction` |
| `Statement` | statements over connections that come and go | |
| `Parameters` | binding values, and what an execution reads of them | |
| `TableValued` | table objects, the statement that holds them, the driver's focus | |
| `ResultCursor` | navigation over rowsets and result sets | |
| `RowStream` | what a `next()` loop promises (abstract) | implemented by `ResultCursor` and by the iterator |
| `RowReaders` | the iterator and the row cache, beside a caller | extends `ResultCursor` |
| `Results` | results that share a statement: binding, fetching in both forms, reading | |
| `Encoding`, `Conversion` | UTF-8, UTF-16 and UTF-32; integers, dates and their text (operators) | |
| `ColumnValue` | `is_null()` and `get<T>()` of one column, piece by piece | extends `Conversion` |
| `Transaction_proofs` | theorems about connections and transactions | extends `Transaction` |
| `Conversion_proofs` | theorems about the operators of `Encoding` and `Conversion` | extends `Conversion` |
| `ColumnValue_proofs` | theorems about the columns read | extends `ColumnValue` and `Conversion_proofs` |
| `Statement_proofs`, `Parameters_proofs`, `TableValued_proofs`, `Results_proofs` | theorems | each extends its module |
| `ResultCursor_proofs` | theorems about the cursor and its readers | extends `RowReaders` |
| `MCConnection`, `MCTransaction`, `MCStatement`, `MCParameters`, `MCTableValued`, `MCResultCursor`, `MCRowReaders`, `MCResults`, `MCColumnValue` | instances for TLC | |

**Correspondence.**  A method is one action, since nothing runs between its calls
but the driver, whose background steps are actions of their own (`DriverArrives`,
`DriverFinishes`).  The exception is the loop that reads a long column, which is an
action per piece.  The action has an alternative per call that may throw.  A call
fails in two ways: of its own accord, when `Faults` or `MayFail` says so, or
because the driver manager refuses it in the state the handle is in, which it then
always does.  `ASSUME`s on constants are as weak as the code needs.

`Connection`: `env`, `dbc` and `connected` are the members; `drv`, `envUp` and
`asyncOn` the manager's side.  `connect()` (1387-1538) is `Connect`, whose six
disjuncts are the places it may leave.  A handle is `allocated`, `connecting`,
`arrived` or `refused` (the driver is done, the caller has not completed),
`open`, or `closing`: a disconnect the driver put off because asynchronous mode
was left on, which then is `closed`, or `kept` if it failed, until somebody
completes it.  `async_complete()` (1364-1384) does not ask what it completes:
whatever the driver has done ends well (`CompletesWell`), which sets `connected_`,
or does not (`CompletesIll`), and there may be nothing (`CompletesNothing`).  The
destructor frees an idle handle although `disconnect()` threw (`ReleasedAtEnd`), and
has three outcomes: the manager refuses (`DestroyRefused`), a call fails
(`DestroyFails`, after which the object is `leaked`), or all is freed.

`Transaction`: `transactions` and `rollback` are the connection's members,
`status` holds `committed_` and the life of each object, `manual`, `pending` and
`durable` are the driver's.  An object whose destructor ignored a failure ends
`lost` rather than `gone`.  Every step of `Connection` is one of `Transaction`
(`ConnectionStep`) but for a disconnect the driver puts off, which is left to
`Connection`; it adds that a new link starts in autocommit mode and that a lost link
takes its pending work along.  `ConnectsInside` says whether the
program may connect while a transaction is open.

`Statement`: `obj` holds the members of each `statement_impl`, `drv` the handles,
`told` what the caller knows.  A method is an operator from a situation to the
situations it may leave; `Then` chains operators and lets an exception skip the
rest, as the code's control flow does.  `Ops` selects the methods the program
uses, `KeepsStale` whether it goes on using a statement whose link is lost.
`Complete` covers `complete_prepare` and `complete_execute`.

`Parameters`: a binding (`bound`) is what the driver was given, the memory behind
the two addresses with their widths and whether it is still there (`valuesLive`,
`indicatorsLive`).  `Bind` covers the overloads by form: the caller's array, text
in slots, vectors the statement copies; each with flags, a sentry, or neither.
`RowSent` is the driver at execution: it goes through the rows knowing the
addresses only.  `asked` is history, what the caller meant.

`TableValued`: `stmt` and `tvp` are the members on both sides, `focus` and `bound`
the driver's.  Methods are situations and outcomes again, since `open()` closes,
describes, binds and moves the focus in a row.  An object is dropped when its last
holder, caller or statement, lets go (`Dropped`).

`ResultCursor`: `start` and `row` are the driver's rowset and current row,
`rowCount`, `position` and `atEnd` the members.  Where a fetch puts the rowset is
taken from the cursor positioning tables of ODBC, which the code relies on; the
rest is `fetch()` and the navigation methods.  `set_current_position()` (4615-4630)
does nothing past the rows fetched, and `prior()` answers
true all the same (`SetPosition`).  `op`, `want` and `said` are history.

`RowReaders`: `iterator` says what it compares equal to, `cache` which row the
cache copies.  Both move the same result by `Next`, and so may the caller.

`Results`: `drv` is the handle, with the object it counts rows into and, per
column, whose buffer it fills; `res` the members; `holder` (history) the object
the handle was last prepared for in full.  A fetch changes the members of whatever
object the driver has addresses of (`Filled`), not of the one that called.
`reads` (history) says which columns `get()` reads from the row the object stands
on: none before a fetch, or after one that failed; all if a column was unbound when
it fetched the rowset and nothing but its own `next()` has moved since; else the
bound ones.

`ColumnValue`: `given` and `spent` are the driver's, how much of the value it has
handed over; `out` what the loop has gathered.  `GetPiece` is one `SQLGetData` of
the loops (4644-5054): the driver leaves `Buffer`, as much as fits of what it has
not handed over (`Rest`) and a terminator.  A bound value that did not fit is `Cut`,
and `Truncated` only if the driver has `told` how much there is, rather than
answered `SQL_NO_TOTAL`; narrow text is taken from the buffer up to its first zero
(`UpToZero` in `InBuffer`), as `strlen` does.  `Conversion` and `Encoding` are
operators: the C type a column is bound as (4373-4590), casts, parsing, dates
(763-1023), and the decoder and encoder of code points (370-565).

## 3. Runs that pass

| Run | Instance | What it shows |
|---|---|---|
| `connection` | 2 handle values, both modes, every call may fail, 4 links | `HandlesHeld`: nothing leaks and nothing freed is held while the object lives. `ConnectedMeansOpen`: no call but `async_complete()`, of a disconnect, makes `connected()` wrong. `DestructionFrees`: the destructor loses handles only to the driver. |
| `transaction` | 2 objects, 2 pieces of work, 2 links, every call of link and transaction may fail | `CountsOpen`, `ManualWhileOpen`, `QuiescentIsClean`, `LastUncommittedRollsBack`, and refinement of `UnitOfWork`. |
| `statement` | 2 statements, 2 connections, 2 links each, 2 handle values, 1 event, every method, every call may fail but the freeing of an idle handle | `HandlesOwned`, `DoneUnlessAwaited`, `DestructionFrees`. |
| `statement_wait` | 2 statements on 1 connection, each opened once, 2 events, the same failures | `AwaitedIsSet`, and `WaitEnds` under fairness. |
| `parameters` | 2 parameters, one bound in every form; batches of 1, 2 and 3 rows of 0 to 2 characters; two sentries, one a prefix of the other; 2 indicators at least; each bind may fail at each place | `RowsArriveAsMeant`, `SentryOnlyMakesNulls`, `DanglesOnlyAfterThrow`, `DescriptionStays`. |
| `tvp` | 2 table objects over 2 table-valued parameters of 1 column, with rows or none, every call may fail; objects symmetric | `RefusesWhileOpen`, `FocusFollowsTable`, `ColumnsOutliveCaller`. |
| `cursor` | sets of 8, 0, 4 and 2 rows; rowsets of 1 and 3; bound or not; every method; `move` from -9 to 9, `skip` by 1 to 3; every call may fail | `LandsWhereAsked`; `PositionInRowset` and `ReadsCurrentRow`, but for a `prior()` that comes back from beyond the rows fetched. |
| `cursor_stream` | 100 rows, rowsets of 3, unbound columns; an iterator, a row cache and a caller; reading a column may fail | the cursor and the iterator refine `RowStream`, the end included, under fairness; `CacheIsCurrentRow`. |
| `results` | 2 objects on one statement, the first one also read, unbound and fetched asynchronously; 2 result sets whose long columns differ; rowsets of 1 and 2; every call may fail | `FetchesIntoHolder`, `GetsCurrentRow`, `GetsNulls`. |
| `values` | a column of each SQL type the library tells apart, bound and unbound, every integer of four small widths, 10 texts, one with a zero in it, 14 malformed ones, 18 numbers in text, some after blanks or a sign and some that are none, values cut to fit and drivers that tell so or not, 5 offsets in 4 scales, nulls; each read as each `T`, twice; pieces of 3 units | `ReadsWhole`, `ValuesKept`, `TextSays`. |

Each run also checks its module's type invariant once.

**Bounds, and why they are enough.**  Two handle values let a freed value be
given out again, to another owner.  `MaxLinks` bounds the only counters that
grow, `link` and `links`; two links are one reconnection, and a third differs
from the second in nothing a model reads.  Two transactions are the nesting that
matters, an inner and an outer in either order, and two pieces of work tell one
settled from the other; the proofs lift both bounds.  Two statements are one and
another that gets its handle value.  Two events are needed for the event of an
earlier call to be a wrong one.

`MinIndicators` is 8 in the code and 2 in the run, so that batches of one to three
rows are shorter, as long and longer.  Values of no, one and two characters make
slots of one width with room to spare, and a sentry that is a prefix; the proofs
lift these bounds.  Two tables are one that is open and another; one column tells
whose memory is bound.

Eight rows in rowsets of three are two full rowsets and a partial one; an empty
set lies between two others; four rows make a partial rowset directly, two are
fewer than a rowset.  A hundred rows in rowsets of three make the stream cross many
borders.  Two result sets, one of which has a long column where the other has a
short one, make stale addresses show.  The proofs lift these bounds too, and those
of statements and tables.

There are 4, 8, 16 and 32 integers of 8, 16, 32 and 64 bits in `values`
(`Sizes`): strictly increasing, so that every sign and width meets every other, and
small enough to list every integer; the proof takes any even numbers of them that
grow with the width, those of the code included.  A piece of three units puts a terminator, a surrogate pair
and a four-byte sequence on either side of its border; `Room` makes a bound column
fit exactly, by one too few, and not at all.

`CHECK_DEADLOCK FALSE` appears where a program may stop using its objects, and
where bounds and destroyed objects leave nothing to do; `parameters` does without.

**Conditions in the properties.**  They are what the code needs and does not
enforce; section 5 says what happens without them.

* `ManualWhileOpen` takes a program that does not connect inside a transaction.
  `QuiescentIsClean` and `LastUncommittedRollsBack` except a destructor that
  ignored a failure.
* `HandlesOwned` takes `KeepsStale = FALSE`, and excepts handles with a call in
  progress, which a destructor abandons.  `statement` uses no timeout in
  `prepare()`.  `AwaitedIsSet` is checked on statements opened once.
* `RowsArriveAsMeant` excepts batches of binary values with a sentry that is a
  prefix of a value or the other way round (`asked.exact`); `SentryOnlyMakesNulls`
  says what may happen to them.  All but `DescriptionStays` except a parameter
  whose last bind threw.
* `FocusFollowsTable` excepts a table whose `open()` threw or whose statement was
  closed under it, `ColumnsOutliveCaller` an object that was not the first on its
  parameter, was opened twice, or bound outside its opening or by a bind that threw.
* `LandsWhereAsked` speaks of every method in rowsets of one, and in larger ones of
  `first`, of `move` unless the row is before the first of a set shorter than a
  rowset, and of `next` until `next_result()` and unless a failed fetch left no
  current row.  `skip` goes forward.  `ReadsCurrentRow` excepts `skip` and what
  `next_result()` leaves, and like `PositionInRowset` a `prior()` that had `Strayed`:
  called at a position past the rows fetched, where `next()` leaves it.
* `ConnectedMeansOpen` is about what a step makes of `connected()`, because one step
  may set it for a link that is gone, and it stays so until the next one.
* `GetsCurrentRow` and `GetsNulls` speak of the holder (`said.sure`), after its own
  `next()`, and of unbound columns only if they were unbound when the rowset was
  fetched.  `FetchesIntoHolder` speaks of an object that was prepared whole.
* `ReadsWhole`, `ValuesKept` and `TextSays` speak of the first `get()`, of a column
  that is whole or can be read again (`GetsBound`).  `ReadsWhole` and, of numbers in
  text, `TextSays` leave out (`Whole`) a bound value that was cut if the driver did
  not tell so, and bound narrow text with a zero in it.
* `IteratorIsStream` takes fetches that do not fail.  `CacheIsCurrentRow` takes
  a cache that nobody has moved since.

**Fairness.**  `statement_wait` assumes that the driver ends the call it has begun
(weak fairness of `DriverFinishes`) and that a caller who was told to wait for an
event completes once it is signalled (weak fairness of `Complete`): the protocol
`nanodbc.h` prescribes.  Nothing makes a caller cancel, close or execute.
`cursor_stream` assumes that a loop over an iterator increments it (weak fairness
of `Iterate`), which is what `for (auto& row : result)` does; nothing makes the
caller or the cache call `next()`.  No other run assumes any.

## 4. Proofs

All for every value of the constants: any number of handle values, transaction
objects, pieces of work, statements, tables, results and parameters, any values and
widths, any result sets and rowset sizes, any set of failing calls but where a
hypothesis says otherwise.  Every safety invariant that a run checks is a theorem.

`Transaction_proofs`, on connections: `ConnTypeCorrect`, `HandlesAlwaysHeld`, `ConnectedIsTrue`,
`DestructorFrees`.  `ConnectedMeansOpen` is a step property, and needs of the state
before that a link is never denied (`LinkKnown`).  The invariant `ConnInv` adds that
an object not yet constructed has touched nothing (`Untouched`: a constructor that
connects starts from there) and states `HandlesHeld` entry by entry
(`OneHandle`: the table's only entry in use is that of `dbc_`), because a step
reasons about the entry it writes.  `HandlesHeld` alone is not inductive: it says
nothing before construction.  Both of them assume only that the null handle is
not a handle and that the modes are Boolean.

`Transaction_proofs`, on transactions:

* `TypeCorrect`, `CountIsOpen`: the counter equals the cardinality of the set of
  open objects.  The lemmas `OneOpens`, `OneCloses` and `NoneMoves` are the three
  things a step may do to that set; `OneCloses` also shows that
  `unref_transaction`, which stops at zero, never has to.
* `ManualInside` rests on it: an open object means a count above zero, so no
  destructor reaches the driver.  It assumes `~ConnectsInside`.
* `ConnectionRestored` needs `ManualHasCause`: manual mode is always on account of
  an object that is still there or whose destructor ignored a failure.
  `QuiescentIsClean` speaks only of the quiet state and is not inductive.
* `UncommittedRollsBack`: the step property, from the count being the true one.
* `ImplementsUnitOfWork`: each step is a step of `UnitOfWork` or a stutter, with
  `depth` the number of open objects.  It assumes `~ConnectsInside`, through
  `ManualInside`.

`Parameters_proofs`: `RowsArrive`, `SentryMakesNulls`, `VectorsThere`,
`DescriptionKept`.  The invariant `ParamInv` says of each parameter not `lost` that
its binding is `Faithful`: the one that binding the rows asked for makes, with
enough indicators and live vectors.  What remains is one computation: laying
strings of all lengths out in slots of one width and reading each back up to its
terminator is the identity.  `GreatestExists` gives the longest length,
`SlotHolds` the character at a place of a slot, `TextArrives` the string read
back, `RowRead` one row in each form; `SameTextIsEqual` shows that the comparison
with a sentry, which looks at the first characters only, is equality for texts,
whose terminator is among those compared.  `TypesHold` needs nothing of this but
that a binding has an indicator for each row.

`Statement_proofs`.  A method is a chain of driver calls, each an operator from a
situation to situations, and the proofs follow that shape: a call touches the
handle of its own object only (`Touches`, `Follows`), following is transitive, and
so every method leaves the handles of the others alone or takes a free one
(`Fits`).  `Moves` is what the step of a statement comes to.

* `TypesHold`, for any program, one that uses stale statements included.
* `HandlesAreOwned`.  `HandlesOwned` speaks of statements in use and of idle
  handles; it is not inductive, since a link that drops frees the handles on it.
  `HandleInv` adds that a handle that is not free is on a link that stands, that
  an object that is not open has no handle, and that the handle of a caller who
  waits is in use.
* `CallsAreDone` adds to it what a method relies on of its handle when it starts:
  that it knows of the asynchronous mode, and that no call is in progress unless
  its caller was told to wait (`AnswerInv`).  It takes a `prepare()` without a
  timeout, because with one the property is false (section 5).
* `AwaitedEventIsSet` adds that the object and its handle have the same event
  (`EventInv`).  It takes statements that are opened once (`OpensOnce`: no
  `close()`, one connection, connected once), because after a second opening the
  property is false (section 5).
* `DestructorFrees`, the step property, for any program.

The middle three take a `Disciplined` program and driver: a statement is let go of
when its link is lost, without which all three are false, and freeing an idle
handle does not fail, which the driver manager does only for an invalid one, and
after which nothing could tell who owns it.  The two runs are of this kind.

`TableValued_proofs`: `TypesHold`, `OneTableOpen`, `FocusFollows`,
`ColumnsOutlive`, without hypotheses.  The invariant is a predicate of situations
(`Sound`), and each operator is shown to lead from a sound situation to sound ones.
`FocusFollowsTable` is not inductive: closing a table without rows moves no focus,
so there must be none to move while such a table is open (`Focused`).  What
`ColumnsOutliveCaller` needs is that the statement holds the first table opened on
each parameter, and that only a table opened, or strayed, has bound anything
(`Recorded`); `Fades` says which bindings a step may leave dangling.

`Results_proofs`: `TypesHold`, `IntoTheHolder`, `ReadsItsRow`, `ReadsItsNulls`,
without hypotheses.  Everything rests on the object the handle was last prepared
for.  `Prepared` says that the driver writes to it, where it looks and no more than
it has room for; `Fetched` that it has the rows at the driver's rowset, with a null
known of a buffered column exactly if there is one and of the others only if there
is one; `Awaits` what takes its place while a fetch runs.  `get()` is right because
of them, and `said` is right because `get()` was (`Answered`).

`Conversion_proofs` is about what the recursive functions of `Encoding` and
`Conversion` compute, of arguments of any size.  An induction theorem that takes a
predicate as a parameter cannot be used here, so each induction is a least
counterexample (`LeastOne`, `AllNaturals`), and `RecursionEnds` says once that a
function defined by recursion over a rank is the one its equation describes.

* `WideToUtf8Converts`, `Utf8ToWideConverts`: for units of any number, `convert()`
  gives the other spelling of the code points they spell, and an exception if and
  only if they spell none, so nothing overlong, no surrogate and nothing past the
  last code point is let through.  The references are `Wide` and `Utf8`, what the
  library itself writes for one code point, and `Spelled`, one spelling after
  another; they are not the decoder's.  A decoder `ReadsUnits` of a spelling if it
  gives a code point exactly where a spelling of it stands; `WideReads` and
  `Utf8Reads` show that of the two decoders, the latter from the digits of a code
  point in base 64 (`Sixes`, `Gathered`).  `RewritesSpelled` and
  `RewritesNothingElse` then do for both loops.  `ConversionsInvert` is what
  follows: the text that comes back from the other encoding is the one that left.
* `ToTextSays`, `ZeroPaddedSays`: a number in decimal, padded or not, is read back
  as itself (`DecimalIs`, `DigitsAdd`, `ZerosAdd`), in as many characters as asked
  for if it fits (`DecimalWidth`).
* `OffsetTextSays`: each part of the text of a datetimeoffset is at its place.  It
  takes a moment with the ranges that ODBC gives the fields (`IsMoment`), the two
  fields of the offset of one sign: only so many digits fit the places.

`ColumnValue_proofs`: `TypesHold`, `ReadWhole`, `ValuesAreKept`, `TextSaysIt`.
`Reads` says that what the loop has gathered is the value up to what the driver has
handed over, and that the driver has nothing more to give only when all was;
`KnowsNull` that a null indicator is not set but for a null, and is exact of a bound
column.  The lemmas under them are about one piece: `PartOf` joins a piece to those
before, `BeforeTerminator` finds its end in the buffer, `BufferContinues` says what
a read of the buffer adds.  `CastKeeps`, `StoredIsInteger` and `FromNumberSays` are
the arithmetic: a cast keeps what the type holds, so that an integer survives the
type its column is bound as, and a parsed number is itself, refused or wrapped.
`NumberSays` is what the text of a number says, after any blanks (`TrimmedIs`) and
with either sign (`NumeralSaid`).  `InBufferWhole` is where `Whole` is needed: the
buffer holds the value only if it fits and, narrow, has no zero in it (`NoZero`).
`ReadWhole` and `TextSaysIt` take a hypothesis about the data, not about the code
(`ColumnsSay`): the record of a column states what its units say, in the other
encoding, as a number or as a moment.  The units may be any, well-formed or not.
It says of every column what `MCColumnValue` writes out for those of the run.

`ResultCursor_proofs`, for a program that skips forward (`Skips \subseteq Nat`):

* `CursorTypeCorrect`: the invariant `CursorInv` adds to `TypeOK` that the rowset
  lies in the set or next to it, and that as long as it shows rows the row count is
  that of a full fetch there, or zero after one that failed.  Without the latter
  the position could not be compared with the rows of the set.
  `FetchesInRange` covers the orientations, `FetchKeeps` and `StayKeeps` the two
  ways a navigation moves.
* `ReadsFetchedRows`, `RowsAgree`: after each navigation that answers true the
  position is a row fetched and the driver's row is that of the library
  (`FetchAnswers`, `StayAnswers`), but for the `prior()` that had `Strayed` and, in
  the latter, `skip`.
* `NavigationsLand`: the step property, a lemma per method.  It takes skips of at
  least one: `skip(0)` on a result that `next_result()` has just moved to asks for
  the row before the first, and answers as if that were a row.
* `NextDeliversRows`: with `next()` alone and no fetch failing, each step is one of
  `RowStream` or a stutter.  `StreamInv` adds that no rowset is lost and that the
  end is announced past the last row only.
* `CacheHolds`: every step of a reader is a navigation of the cursor
  (`ReadersNavigate`), a `next()`, so `ReadsCurrentRow` holds of the result the cache copies
  from, and the row copied is the one the library stands on.
* `IteratorDeliversRows`: the safety half of `IteratorIsStream`.  Rows that the
  cache or the caller take away are lost to the iterator, which still delivers in
  order and ends past the last row only (`IteratedInv`).  Reading a column may
  fail, a fetch may not: the iterator would take its failure for the end.

**Only model-checked**: `WaitEnds` and the liveness halves of `ImplementsStream`
and `IteratorIsStream`, which are out of the prover's reach (as is `ENABLED`); and
the two statements of comments that are violated.

## 5. Where code and documentation disagree

Two runs end in a violation, each of a property that a comment states.

| Run | Statement | What happens |
|---|---|---|
| `results_await` | `nanodbc.h:1871`: `async_next()` returns "true if the caller needs to wait for the event to be signalled" | Inside a rowset it answers true because there is a row (3790): nothing executes and no event will come. |
| `values_null` | `nanodbc.h:2016`: "If the data is null, fallback is returned instead." | A null in an unbound text column is known to be one only once it was read; a number is parsed from the empty text at once (5400) and `std::invalid_argument` thrown. |

Others that the models show, in the definitions named, without a run of their own.

Transactions and connections:

* an inner transaction destroyed uncommitted leaves a mark; the outer `commit()`
  does not consult it and commits the inner work too (`Commit`, `MarkedBy`;
  `nanodbc.h:565`), as `rollback()` followed by `commit()` does;
* a `commit()` that throws is followed by a destructor that turns autocommit on,
  which commits the work (`CommitThrows`, then `End`);
* connecting inside a transaction leaves the new link in autocommit mode
  (`ConnectsInside = TRUE` breaks `ManualWhileOpen`; `nanodbc.h:549`);
* `async_complete()` sets `connected_` after whatever has completed (1373): after a
  disconnect which the driver put off there is no link, and `disconnect()` throws
  (`CompletesWell`; without its last disjunct `connection` breaks
  `ConnectedMeansOpen`; `nanodbc.h:1730`);
* a connection destroyed while it connects asynchronously leaves both handles
  (`DestroyRefused`; `nanodbc.h:1622`);
* an asynchronous connect that is ready at once leaves asynchronous mode on, and
  the next `disconnect()` takes `SQL_STILL_EXECUTING` for a failure
  (`DisconnectThrows`).

Statements:

* `async_prepare()` with a timeout sets it while the driver prepares; the manager
  refuses, it throws, and the statement stays executing with nobody to complete it
  (`Prepare` with a timeout breaks `DoneUnlessAwaited`; `nanodbc.h:1047`);
* `close()` keeps `async_event_`; after opening again the event is not set on the
  new handle and the caller waits for good (`EventSet`; `nanodbc.h:1105`);
* after a reconnection `open()` takes the old handle for good and every `prepare`
  throws, and `close()` may free the handle of another statement
  (`KeepsStale = TRUE` breaks `HandlesOwned`; `nanodbc.h:974`, `981`);
* a statement destroyed during an asynchronous call leaves its handle
  (`Destroy`; `nanodbc.h:950`);
* a constructor that throws after opening leaves the statement handle, and one
  whose second allocation fails leaves the environment (`Construct`,
  `ConstructThrows`).

Parameters and tables:

* binary values equal to a sentry up to the shorter length become null, so an
  empty value always does (`IsSentry`; 2618);
* a bind that throws after replacing its vectors leaves the driver with the
  addresses of the old ones (`BindThrows`);
* a table constructor that throws after `open_tvp()` leaves a table open that only
  the statement holds, and the statement refuses to bind until it is closed
  (`Construct`);
* `close()` of a statement drops the tables before `SQLCancel`, which may throw
  with the statement still open (`CloseStatement`);
* a column bound after the table is closed is bound to the statement's own
  parameter of that index (`BindingColumn`);
* `reset_parameters()` leaves `tvp_data_` alone, and a second table object on the
  same parameter is not held, `emplace()` keeping the first (`Kept`).

Results:

* in rowsets larger than one `last()` lands on the first row of the last rowset
  (`nanodbc.h:1859`), `prior()` and `skip()` leave a rowset from its first row, not
  from the current one (`nanodbc.h:1882`, `1892`), and the first `next()` after
  `next_result()` answers true inside a rowset that is gone (`nanodbc.h:1864`);
* `prior()` inside a rowset answers true (3819) also where it is past the rows
  fetched: in rowsets of three and a set of eight, after `move(8)`, `next()` and
  `next()`, both false, it ends on no row (`Prior`; without `~Strayed`, `cursor`
  breaks `PositionInRowset` and `ReadsCurrentRow`; `nanodbc.h:1883`);
* `move()` to a row before the first, in a set shorter than the rowset, answers
  true on the first row (`Before`);
* a negative `skip()` inside a rowset makes the position negative and answers true
  (3833);
* when the last rowset is partial, `at_end()` is false after the loop over `next()`
  (`AtEnd`; `test/test_case_fixture.h:1472`);
* the iterator takes a failed fetch for the end (`Become`; `nanodbc.h:2243`);
* the row cache keeps its copy when the caller moves the result by any other
  method, and part of a row when a column throws (`FillRow`);
* an asynchronous fetch that fails at once answers false, like one that has found
  no row, and `async_` stays set after it (`AsyncNext`);
* destroying a result during an asynchronous fetch leaves the driver writing into
  freed memory (`Destroy`);
* a second result on the statement takes the handle over, and an `unbind()` of one
  unbinds the other's column (`holder` in `Construct` and `Unbind`);
* `unbind()` inside a rowset makes `get()` read the driver's row, not the
  position's (`Get`; the comment at 3712-3716 describes the case that works);
* a `next_result()` that throws while it describes the columns leaves indicators
  null, which clearing them at the next move, or in the destructor, follows
  (`Whole`).

Values:

* a text column read a second time, when the driver has handed it over, gives an
  empty text, where a number throws; a failed read that is tried again gives what
  is left (`begun`, `spent`);
* a bound text that did not fit, when the driver answers `SQL_NO_TOTAL`, with which
  it says that it does not know the length, is taken for one that fits (4313) and given
  cut, without an error (`Truncated`; without `Whole`, `values` breaks `ReadsWhole`;
  the comment at 4796);
* bound narrow text ends at its first zero, though the column, and the same text
  read unbound, goes on (`UpToZero`; 4846-4847);
* `std::stoull` takes a minus sign and wraps at 64 bits, and the limits of the type
  asked for are compared with what is left: text of a negative number is read as an
  unsigned 64-bit one, and one just above -2^64 as a small number of any unsigned type,
  so that 1 - 2^64 is 1 (`Parsed`, `FromNumber`; `NumbersKept` says which answers this
  leaves, and the text of -31 in the run, for 1 - 2^5, is of this kind);
* `get_ref()` for `std::optional` (4136-4151, 4194-4209) writes through an optional
  that has no value, which is undefined and not modelled.

## 6. Abstractions

Attributes, diagnostics and names are left out.  Two failures inside one unwinding
are modelled where they leave different handles and not otherwise
(`ConnectNoEnv`).  An asynchronous call's result is decided when it starts; the end
comes later.  The driver is the one the ODBC reference describes: it refuses calls
in the wrong state, frees a link's statements with it, commits when autocommit is
turned on, and rolls back when a link is dropped.

`Parameters` takes values to be sequences of characters above zero, and does not
convert them; `Results` knows rows by their numbers; both leave content to
`ColumnValue`, which reads one column of one row and leaves navigation to the
others.  Text of dates in the format of `strftime` and a datetimeoffset as bytes are
left out (`LeftOut`).  A last piece with a warning is not followed by no data.
`RowReaders` takes one result, whose columns do not change.

## 7. Plan

What is left, in order.

1. **Statement**: the catalogue call `procedure_columns`, which executes on a
   statement with its parameters.
2. **Results**: the composition of `Results` with `ResultCursor`, so that all
   navigation methods meet shared handles.

## 8. Not modelled, and why

Catalogue queries, `list_drivers` and `list_datasources` keep no state: each runs
one query on a statement of its own.  `execute`, `just_execute`, `prepare` and
`transact` compose modelled operations in a fixed order.  The row descriptor reads
fields; attributes and variants are values; errors are text.  Floating point
numbers and `_variant_t` are conversions of the C library and of COM.  Build files,
tests, examples and utilities are not part of the library.
