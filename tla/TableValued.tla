---------------------------- MODULE TableValued -----------------------------
(***************************************************************************)
(* Table-valued parameters of one statement (table_valued_parameter_impl,  *)
(* and open_tvp() and close_tvp() of statement_impl, in nanodbc.cpp).  A   *)
(* table is bound in three stages: open() binds the parameter and moves    *)
(* the driver's parameter focus to it, after which every SQLBindParameter  *)
(* binds a column of the table; bind() does so; close() moves the focus    *)
(* back.  Three records have to agree: open_ and row_count_ of each table, *)
(* open_tvp_ of the statement, and the focus.  The columns' indicators and *)
(* copies live in the table object, which the statement holds until it is  *)
(* closed, so that they are still there when it executes.                  *)
(*                                                                         *)
(* A table object is dropped by its last holder, the caller or the         *)
(* statement, and its destructor ignores a failure to close.               *)
(***************************************************************************)
EXTENDS Naturals, FiniteSets

CONSTANTS
  Params,    \* indexes, of the parameters and of a table's columns
  Tables,    \* the parameters that are tables
  Columns,   \* the columns of each table
  Objects,   \* table_valued_parameter_impl objects
  RowCounts, \* the row counts opened with
  MayFail,   \* may an ODBC call fail of its own accord?
  NULL       \* no object, no binding, no focus

ASSUME TablesAssumption == Tables \subseteq Params /\ Columns \subseteq Params
ASSUME RowsAssumption   == RowCounts \subseteq Nat
ASSUME FailAssumption   == MayFail \in BOOLEAN
ASSUME NullAssumption   == NULL \notin Params \cup Objects /\ "statement" \notin Objects

VARIABLES
  stmt,   \* statement_impl: its handle, open_tvp_, tvp_data_
  tvp,    \* each object: its members, and whether the caller holds it
  focus,  \* driver: SQL_SOPT_SS_PARAM_FOCUS
  bound,  \* driver: what each index is bound to under each focus
  past    \* history

vars == <<stmt, tvp, focus, bound, past>>

\* An object not made yet.  "half" is history: its open() threw half-way, or
\* its statement was closed under it.
NewObject ==
  [made |-> FALSE, held |-> FALSE, open |-> FALSE, rows |-> 0, param |-> NULL,
   described |-> FALSE, half |-> FALSE]

\* Has a destructor ignored a failure?  Which objects have been opened, and
\* which of them twice, or bound when not open, or by a bind that threw?
\* Which object was the first opened on each parameter since close()?
NewPast == [ignored |-> FALSE, opened |-> {}, strayed |-> {},
            first |-> [p \in Params |-> NULL]]

Nothing == [f \in Params \cup {NULL} |-> [i \in Params |-> NULL]]

Init ==
  /\ stmt = [handle |-> "open", openTvp |-> FALSE, kept |-> [p \in Params |-> NULL]]
  /\ tvp = [t \in Objects |-> NewObject]
  /\ focus = NULL
  /\ bound = Nothing
  /\ past = NewPast

-----------------------------------------------------------------------------
(* Situations: what a method starts from and the ones it may leave, with   *)
(* an exception or without.                                                *)

Situation == [stmt |-> stmt, tvp |-> tvp, focus |-> focus, bound |-> bound,
              past |-> past]

Returns(s) == [at |-> s, threw |-> FALSE]
Throws(s)  == [at |-> s, threw |-> TRUE]

\* An ODBC call on the statement: it fails without a handle, and may fail.
Call(s, then) ==
       (IF MayFail \/ s.stmt.handle # "open" THEN {Throws(s)} ELSE {})
  \cup (IF s.stmt.handle = "open" THEN {Returns(then)} ELSE {})

\* Op, unless an exception came before.
Then(outcomes, Op(_)) ==
  UNION {IF o.threw THEN {o} ELSE Op(o.at) : o \in outcomes}

\* The vectors of index i of an owner are replaced: what the driver has bound
\* to them, under any focus, is gone.
Replaced(s, owner, i) ==
  [s EXCEPT !.bound = [f \in DOMAIN @ |-> [j \in Params |->
     IF @[f][j] # NULL /\ j = i /\ @[f][j].by = owner
     THEN [@[f][j] EXCEPT !.live = FALSE] ELSE @[f][j]]]]

\* SQLBindParameter: binds under the focus of the moment.
BindParameter(s, owner, i) ==
  Call(s, [s EXCEPT !.bound[s.focus][i] = [by |-> owner, live |-> TRUE]])

-----------------------------------------------------------------------------
(* Closing and dropping a table.                                           *)

\* What close() leaves when the focus is back.
ClosedObject(s, t) == [s EXCEPT !.tvp[t].open = FALSE, !.tvp[t].rows = 0,
                                !.tvp[t].param = NULL, !.tvp[t].half = FALSE]

\* Slip: the focus is left where it was.
ResetFocusNot(s, t) == {Returns(s)}

\* The focus is moved back if the table has rows and there is a statement.
ResetFocus(s, t) ==
  IF s.tvp[t].rows > 0 /\ s.stmt.handle # "gone"
  THEN Call(s, [s EXCEPT !.focus = NULL])
  ELSE {Returns(s)}

\* statement_impl::close_tvp()
CloseTvp(s) ==
  IF s.stmt.handle = "gone" THEN {Returns(s)}
  ELSE IF s.stmt.openTvp THEN {Returns([s EXCEPT !.stmt.openTvp = FALSE])}
  ELSE {Throws(s)}

\* close(): nothing if it is not open.
Closing(s, t) ==
  IF ~s.tvp[t].open THEN {Returns(s)}
  ELSE Then(ResetFocus(s, t), LAMBDA s1 : CloseTvp(ClosedObject(s1, t)))

\* Does anybody hold the object?
Held(s, t) ==
  s.tvp[t].held \/ (s.stmt.handle # "gone" /\ \E p \in Params : s.stmt.kept[p] = t)

\* The objects and their vectors are freed; what is bound to them dangles.
Freed(s, ts) ==
  [s EXCEPT !.tvp = [t \in Objects |->
              IF t \in ts THEN [NewObject EXCEPT !.made = TRUE] ELSE @[t]],
            !.bound = [f \in DOMAIN @ |-> [i \in Params |->
               IF @[f][i] # NULL /\ @[f][i].by \in ts
               THEN [@[f][i] EXCEPT !.live = FALSE] ELSE @[f][i]]]]

\* ~table_valued_parameter_impl() of the objects that nobody holds any more:
\* the one that is open is closed, and a failure ignored.
Dropped(s) ==
  LET ts   == {t \in Objects : s.tvp[t].made /\ ~Held(s, t)}
      open == {t \in ts : s.tvp[t].open}
  IN IF open = {} THEN {Freed(s, ts)}
     ELSE UNION {{Freed([o.at EXCEPT !.past.ignored = @ \/ o.threw], ts) :
                    o \in Closing(s, t)} : t \in open}

-----------------------------------------------------------------------------
(* Opening and binding.                                                    *)

\* Slip: tvp_data_ is left alone.
KeptNot(s, p, t) == s

\* tvp_data_.emplace(): an entry there already stays.
Kept(s, p, t) == IF s.stmt.kept[p] = NULL THEN [s EXCEPT !.stmt.kept[p] = t] ELSE s

\* prepare_bind(): describes the parameter, and replaces its indicators.
PrepareBind(s, p) == Call(s, Replaced(s, "statement", p))

\* Slip: the statement is taken before the parameter is known to be a table.
OpenTvpEarly(s, t, p) ==
  IF s.stmt.openTvp THEN {Throws(s)}
  ELSE Then(PrepareBind([s EXCEPT !.stmt.openTvp = TRUE], p), LAMBDA s1 :
         IF p \notin Tables THEN {Throws(s1)} ELSE {Returns(Kept(s1, p, t))})

\* statement_impl::open_tvp()
OpenTvp(s, t, p) ==
  IF s.stmt.openTvp THEN {Throws(s)}
  ELSE Then(PrepareBind(s, p), LAMBDA s1 :
         IF p \notin Tables THEN {Throws(s1)}
         ELSE {Returns([Kept(s1, p, t) EXCEPT !.stmt.openTvp = TRUE])})

\* The members as open() sets them.
OpenedObject(s, t, p, rows) ==
  [s EXCEPT !.tvp[t].open = TRUE, !.tvp[t].rows = rows, !.tvp[t].param = p,
            !.tvp[t].half = TRUE,
            !.past.strayed = IF t \in s.past.opened THEN @ \cup {t} ELSE @,
            !.past.opened = @ \cup {t},
            !.past.first[p] = IF @ = NULL THEN t ELSE @]

\* Name and columns of the table's type are read through other handles: it is
\* described again, or a read fails.
DescribeTable(s, t) == Call(s, [s EXCEPT !.tvp[t].described = TRUE])

\* Slip: the focus is said by object.
SetFocusByObject(s, t, p) ==
  IF s.tvp[t].rows = 0 THEN {Returns([s EXCEPT !.tvp[t].half = FALSE])}
  ELSE Call(s, [s EXCEPT !.tvp[t].half = FALSE, !.focus = t])

\* A table without rows needs no focus.
SetFocus(s, t, p) ==
  LET done == [s EXCEPT !.tvp[t].half = FALSE] IN
  IF s.tvp[t].rows = 0 THEN {Returns(done)}
  ELSE Call(s, [done EXCEPT !.focus = p])

\* table_valued_parameter_impl::open()
Opening(s, t, p, rows) ==
  Then(Closing(s, t), LAMBDA s1 :
  Then(OpenTvp(s1, t, p), LAMBDA s2 :
  Then(DescribeTable(OpenedObject(s2, t, p, rows), t), LAMBDA s3 :
  Then(BindParameter(s3, "statement", p), LAMBDA s4 :
       SetFocus(s4, t, p)))))

\* Is the object in the middle of its one opening?
InOrder(s, t) == s.tvp[t].open /\ ~s.tvp[t].half /\ s.tvp[t].rows > 0

\* bind(), bind_strings() and bind_null() of a table: nothing asks whether it
\* is open.
BindingColumn(s, t, c) ==
  IF ~s.tvp[t].described THEN {Throws(s)}
  ELSE {IF o.threw \/ ~InOrder(s, t)
        THEN [o EXCEPT !.at.past.strayed = @ \cup {t}] ELSE o :
          o \in BindParameter(Replaced(s, t, c), t, c)}

\* bind() and bind_strings() of the statement: bind_parameter() throws while a
\* table is open.
BindingParam(s, p) ==
  Then(PrepareBind(s, p), LAMBDA s1 :
    IF s1.stmt.openTvp THEN {Throws(s1)} ELSE BindParameter(s1, "statement", p))

\* bind_null() of the statement: nothing asks whether a table is open.
BindingNull(s, p) ==
  Then(PrepareBind(s, p), LAMBDA s1 : BindParameter(s1, "statement", p))

-----------------------------------------------------------------------------
(* Operations.                                                             *)

Become(s) ==
  /\ stmt' = s.stmt
  /\ tvp' = s.tvp
  /\ focus' = s.focus
  /\ bound' = s.bound
  /\ past' = s.past

Leads(outcomes) == \E o \in outcomes : Become(o.at)

HasStatement == stmt.handle # "gone"

\* table_valued_parameter(stmt, p, rows): when open() throws the caller has no
\* object, though the statement may hold it.
Construct(t, p, rows) ==
  /\ HasStatement /\ ~tvp[t].made
  /\ LET s == [Situation EXCEPT !.tvp[t].made = TRUE, !.tvp[t].held = TRUE] IN
     \E o \in Opening(s, t, p, rows) :
       IF ~o.threw THEN Become(o.at)
       ELSE \E s1 \in Dropped([o.at EXCEPT !.tvp[t].held = FALSE]) : Become(s1)

Open(t, p, rows) ==
  /\ HasStatement /\ tvp[t].held
  /\ Leads(Opening(Situation, t, p, rows))

Close(t) == tvp[t].held /\ Leads(Closing(Situation, t))

\* The caller's last copy goes.
Release(t) ==
  /\ tvp[t].held
  /\ \E s \in Dropped([Situation EXCEPT !.tvp[t].held = FALSE]) : Become(s)

BindColumn(t, c) ==
  /\ HasStatement /\ tvp[t].held
  /\ Leads(BindingColumn(Situation, t, c))

\* describe_parameters() of a table.
DescribeColumns(t) ==
  /\ tvp[t].held
  /\ Become([Situation EXCEPT !.tvp[t].described = TRUE])

Bind(p)     == HasStatement /\ Leads(BindingParam(Situation, p))
BindNull(p) == HasStatement /\ Leads(BindingNull(Situation, p))

\* statement_impl::close(): the tables first, then SQLCancel, which may fail,
\* then the handle.  open_tvp_ stays as it is.
CloseStatement ==
  /\ stmt.handle = "open"
  /\ \E s \in Dropped([Situation EXCEPT !.stmt.kept = [p \in Params |-> NULL],
                                        !.past.first = [p \in Params |-> NULL]]) :
       \/ MayFail /\ Become(s)
       \/ Become([s EXCEPT !.stmt.handle = "closed", !.focus = NULL, !.bound = Nothing,
                           !.tvp = [t \in Objects |->
                              [s.tvp[t] EXCEPT !.half = @ \/ s.tvp[t].open]]])

\* statement_impl::open(), on a handle of its own.
OpenStatement ==
  /\ stmt.handle = "closed"
  /\ Become([Situation EXCEPT !.stmt.handle = "open"])

\* ~statement_impl(): the handle first; the tables then find no statement.
DestroyStatement ==
  /\ HasStatement
  /\ \E s \in Dropped([Situation EXCEPT !.stmt.handle = "gone", !.focus = NULL,
                                        !.bound = Nothing]) : Become(s)

Next ==
  \/ \E t \in Objects, p \in Params, rows \in RowCounts :
       Construct(t, p, rows) \/ Open(t, p, rows)
  \/ \E t \in Objects : Close(t) \/ Release(t) \/ DescribeColumns(t)
  \/ \E t \in Objects, c \in Columns : BindColumn(t, c)
  \/ \E p \in Params : Bind(p) \/ BindNull(p)
  \/ CloseStatement \/ OpenStatement \/ DestroyStatement

Spec == Init /\ [][Next]_vars
-----------------------------------------------------------------------------
(* Properties                                                              *)

TypeOK ==
  /\ stmt \in [handle: {"open", "closed", "gone"}, openTvp: BOOLEAN,
               kept: [Params -> Objects \cup {NULL}]]
  /\ tvp \in [Objects ->
       [made: BOOLEAN, held: BOOLEAN, open: BOOLEAN, rows: RowCounts \cup {0},
        param: Params \cup {NULL}, described: BOOLEAN, half: BOOLEAN]]
  /\ focus \in Params \cup {NULL}
  /\ bound \in [Params \cup {NULL} -> [Params ->
       {NULL} \cup [by: Objects \cup {"statement"}, live: BOOLEAN]]]
  /\ past \in [ignored: BOOLEAN, opened: SUBSET Objects, strayed: SUBSET Objects,
               first: [Params -> Objects \cup {NULL}]]

\* The statement refuses to bind while one of its tables is open, and only
\* then, unless a destructor has ignored a failure: no table stays open
\* unknown to the statement, and there is always one that closing would end
\* the refusal, though an open() may throw at any of its calls.
RefusesWhileOpen ==
  HasStatement =>
    /\ \A t \in Objects : tvp[t].open => stmt.openTvp
    /\ \A t, u \in Objects : tvp[t].open /\ tvp[u].open => t = u
    /\ stmt.openTvp /\ ~past.ignored => \E t \in Objects : tvp[t].open

\* The driver binds columns for the table that is open, and parameters when
\* none is: the focus, which the library never reads back, follows the table,
\* except one whose open() threw or whose statement was closed under it.
FocusFollowsTable ==
  HasStatement =>
    /\ \A t \in Objects : InOrder(Situation, t) => focus = tvp[t].param
    /\ (\A t \in Objects : ~tvp[t].open) /\ ~past.ignored => focus = NULL

\* What a table was bound to is there when the statement executes, though the
\* caller has dropped the table: if it was the first on its parameter, was
\* opened once, bound while it was open, and no bind of it threw.
ColumnsOutliveCaller ==
  \A p \in Params, c \in Params :
    LET b == bound[p][c] IN
    b # NULL /\ b.by \in Objects /\ past.first[p] = b.by /\ b.by \notin past.strayed
      => b.live
=============================================================================
