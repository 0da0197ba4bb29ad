------------------------- MODULE TableValued_proofs -------------------------
(***************************************************************************)
(* The three records of an open table agree, and what a table was bound to *)
(* outlives its caller, for any number of tables, objects and columns.     *)
(*                                                                         *)
(* As the methods are chains of calls, each an operator on situations, the *)
(* invariant is a predicate of situations (Sound), and each operator is    *)
(* shown to lead from a sound situation to sound ones.                     *)
(***************************************************************************)
EXTENDS TableValued, TLAPS

StatementState == [handle : {"open", "closed", "gone"}, openTvp : BOOLEAN,
                   kept : [Params -> Objects \cup {NULL}]]

TableState == [made : BOOLEAN, held : BOOLEAN, open : BOOLEAN, rows : RowCounts \cup {0},
               param : Params \cup {NULL}, described : BOOLEAN, half : BOOLEAN]

Binding == {NULL} \cup [by : Objects \cup {"statement"}, live : BOOLEAN]

PastState == [ignored : BOOLEAN, opened : SUBSET Objects, strayed : SUBSET Objects,
              first : [Params -> Objects \cup {NULL}]]

Foci == Params \cup {NULL}

Situations == [stmt : StatementState, tvp : [Objects -> TableState], focus : Foci,
               bound : [Foci -> [Params -> Binding]], past : PastState]

-----------------------------------------------------------------------------
(* The invariant.                                                          *)

\* RefusesWhileOpen, of a situation.
Closable(s) ==
  s.stmt.handle # "gone" =>
    /\ \A t \in Objects : s.tvp[t].open => s.stmt.openTvp
    /\ \A t, u \in Objects : s.tvp[t].open /\ s.tvp[u].open => t = u
    /\ s.stmt.openTvp /\ ~s.past.ignored => \E t \in Objects : s.tvp[t].open

\* FocusFollowsTable is not inductive: closing a table without rows moves no
\* focus, so that there must be none to move while such a table is open.
Focused(s) ==
  s.stmt.handle # "gone" =>
    /\ \A t \in Objects : InOrder(s, t) => s.focus = s.tvp[t].param
    /\ (\A t \in Objects : s.tvp[t].open => s.tvp[t].rows = 0) /\ ~s.past.ignored
         => s.focus = NULL

\* What ColumnsOutliveCaller needs: the statement holds the first table opened
\* on each parameter, a table that has not strayed is open on the parameter it
\* was first on, and only a table opened, or strayed, has bound anything.
Recorded(s) ==
  /\ s.stmt.kept = s.past.first
  /\ \A p \in Params : s.past.first[p] # NULL => s.past.first[p] \in s.past.opened
  /\ \A t \in Objects : s.tvp[t].open => t \in s.past.opened
  /\ \A t \in Objects, p \in Params :
       s.tvp[t].open /\ t \notin s.past.strayed /\ s.past.first[p] = t => s.tvp[t].param = p
  /\ \A f \in Foci, i \in Params :
       s.bound[f][i] # NULL =>
         /\ s.stmt.handle # "gone"
         /\ s.bound[f][i].by \in Objects =>
              s.bound[f][i].by \in s.past.opened \cup s.past.strayed

Outlives(s) ==
  \A p \in Params, i \in Params :
    /\ s.bound[p][i] # NULL /\ s.bound[p][i].by \in Objects
    /\ s.past.first[p] = s.bound[p][i].by /\ s.bound[p][i].by \notin s.past.strayed
    => s.bound[p][i].live

Sound(s) == s \in Situations /\ Closable(s) /\ Focused(s) /\ Recorded(s) /\ Outlives(s)

-----------------------------------------------------------------------------
(* The bindings.                                                           *)

\* The bindings of z are those of s, but that those by owners may dangle.
Fades(s, z, owners) ==
  \A f \in Foci, i \in Params :
    z.bound[f][i] # NULL =>
      /\ s.bound[f][i] # NULL
      /\ z.bound[f][i].by = s.bound[f][i].by
      /\ s.bound[f][i].by \notin owners => z.bound[f][i].live = s.bound[f][i].live

\* Replacing the vectors of an index changes the bindings to them only.
LEMMA ReplacedLeaves ==
  ASSUME NEW s \in Situations, NEW owner, NEW i, NEW z, z = Replaced(s, owner, i)
  PROVE  /\ z \in Situations /\ Fades(s, z, {owner})
         /\ z.stmt = s.stmt /\ z.focus = s.focus /\ z.tvp = s.tvp /\ z.past = s.past
         /\ \A f \in Foci, j \in Params : j # i => z.bound[f][j] = s.bound[f][j]
<1> DEFINE New(f, j) == IF s.bound[f][j] # NULL /\ j = i /\ s.bound[f][j].by = owner
                        THEN [s.bound[f][j] EXCEPT !.live = FALSE] ELSE s.bound[f][j]
           b == [f \in Foci |-> [j \in Params |-> New(f, j)]]
<1>1. z = [s EXCEPT !.bound = b]
      BY DEF Replaced, Situations
<1>2. \A f \in Foci, j \in Params : s.bound[f][j] \in Binding
      BY DEF Situations
<1>3. ASSUME NEW f \in Foci, NEW j \in Params
      PROVE  /\ New(f, j) \in Binding
             /\ j # i => New(f, j) = s.bound[f][j]
             /\ New(f, j) # NULL =>
                  /\ s.bound[f][j] # NULL
                  /\ New(f, j).by = s.bound[f][j].by
                  /\ s.bound[f][j].by # owner => New(f, j).live = s.bound[f][j].live
      <2>1. CASE s.bound[f][j] # NULL /\ j = i /\ s.bound[f][j].by = owner
            <3> DEFINE r == s.bound[f][j]
            <3>1. r \in [by : Objects \cup {"statement"}, live : BOOLEAN]
                  BY <1>2, <2>1 DEF Binding
            <3>2. /\ [r EXCEPT !.live = FALSE] \in [by : Objects \cup {"statement"}, live : BOOLEAN]
                  /\ [r EXCEPT !.live = FALSE].by = r.by
                  BY <3>1
            <3>3. QED
                  BY <2>1, <3>2 DEF Binding
      <2>2. CASE ~(s.bound[f][j] # NULL /\ j = i /\ s.bound[f][j].by = owner)
            BY <1>2, <2>2
      <2>3. QED
            BY <2>1, <2>2
<1> HIDE DEF New
<1>4. b \in [Foci -> [Params -> Binding]]
      BY <1>3
<1>5. z.bound = b /\ z.stmt = s.stmt /\ z.focus = s.focus /\ z.tvp = s.tvp /\ z.past = s.past
      BY <1>1 DEF Situations
<1>6. z \in Situations
      BY <1>1, <1>4, <1>5 DEF Situations
<1>7. \A f \in Foci, j \in Params : z.bound[f][j] = New(f, j)
      BY <1>5
<1>8. QED
      BY <1>3, <1>5, <1>6, <1>7 DEF Fades

\* Freeing objects changes the bindings to their vectors.
LEMMA FreedLeaves ==
  ASSUME NEW s \in Situations, NEW ts \in SUBSET Objects, NEW z, z = Freed(s, ts)
  PROVE  /\ z \in Situations /\ Fades(s, z, ts)
         /\ z.stmt = s.stmt /\ z.focus = s.focus /\ z.past = s.past
         /\ \A t \in Objects : IF t \in ts THEN ~z.tvp[t].open ELSE z.tvp[t] = s.tvp[t]
<1> DEFINE New(f, j) == IF s.bound[f][j] # NULL /\ s.bound[f][j].by \in ts
                        THEN [s.bound[f][j] EXCEPT !.live = FALSE] ELSE s.bound[f][j]
           b == [f \in Foci |-> [j \in Params |-> New(f, j)]]
           dead == [NewObject EXCEPT !.made = TRUE]
           d == [t \in Objects |-> IF t \in ts THEN dead ELSE s.tvp[t]]
<1>1. z = [s EXCEPT !.tvp = d, !.bound = b]
      BY DEF Freed, Situations
<1>2. /\ \A f \in Foci, j \in Params : s.bound[f][j] \in Binding
      /\ s.tvp \in [Objects -> TableState]
      BY DEF Situations
<1>3. ASSUME NEW f \in Foci, NEW j \in Params
      PROVE  /\ New(f, j) \in Binding
             /\ New(f, j) # NULL =>
                  /\ s.bound[f][j] # NULL
                  /\ New(f, j).by = s.bound[f][j].by
                  /\ s.bound[f][j].by \notin ts => New(f, j).live = s.bound[f][j].live
      <2>1. CASE s.bound[f][j] # NULL /\ s.bound[f][j].by \in ts
            <3> DEFINE r == s.bound[f][j]
            <3>1. r \in [by : Objects \cup {"statement"}, live : BOOLEAN]
                  BY <1>2, <2>1 DEF Binding
            <3>2. /\ [r EXCEPT !.live = FALSE] \in [by : Objects \cup {"statement"}, live : BOOLEAN]
                  /\ [r EXCEPT !.live = FALSE].by = r.by
                  BY <3>1
            <3>3. QED
                  BY <2>1, <3>2 DEF Binding
      <2>2. CASE ~(s.bound[f][j] # NULL /\ s.bound[f][j].by \in ts)
            BY <1>2, <2>2
      <2>3. QED
            BY <2>1, <2>2
<1> HIDE DEF New
<1>4. b \in [Foci -> [Params -> Binding]]
      BY <1>3
<1>5. dead \in TableState /\ ~dead.open
      BY DEF NewObject, TableState
<1> HIDE DEF dead
<1>6. d \in [Objects -> TableState]
      BY <1>2, <1>5
<1>7. /\ z.bound = b /\ z.tvp = d
      /\ z.stmt = s.stmt /\ z.focus = s.focus /\ z.past = s.past
      BY <1>1 DEF Situations
<1>8. z \in Situations
      BY <1>1, <1>4, <1>6, <1>7 DEF Situations
<1>9. \A f \in Foci, j \in Params : z.bound[f][j] = New(f, j)
      BY <1>7
<1>10. Fades(s, z, ts)
      BY <1>3, <1>9 DEF Fades
<1>11. QED
      BY <1>5, <1>7, <1>8, <1>10

\* Bindings that fade keep what is said of them, if no first table of a
\* parameter is among the owners.
LEMMA FadingKeeps ==
  ASSUME NEW s, Sound(s), NEW z, NEW owners, Fades(s, z, owners),
         z.past = s.past, z.stmt.handle = s.stmt.handle,
         s.stmt.handle = "gone" \/ \A p \in Params : s.past.first[p] \notin owners \cap Objects
  PROVE  /\ Outlives(z)
         /\ \A f \in Foci, i \in Params :
              z.bound[f][i] # NULL =>
                /\ z.stmt.handle # "gone"
                /\ z.bound[f][i].by \in Objects =>
                     z.bound[f][i].by \in z.past.opened \cup z.past.strayed
<1>1. \A f \in Foci, i \in Params :
        z.bound[f][i] # NULL =>
          /\ s.stmt.handle # "gone"
          /\ z.bound[f][i].by \in Objects =>
               z.bound[f][i].by \in s.past.opened \cup s.past.strayed
      BY DEF Sound, Recorded, Fades
<1>2. Outlives(z)
      BY <1>1 DEF Sound, Outlives, Fades, Foci
<1>3. QED
      BY <1>1, <1>2

\* A call of the driver fails and leaves the situation, or has a handle.
LEMMA CallOutcome ==
  ASSUME NEW s, NEW y, NEW o \in Call(s, y)
  PROVE  \/ o = Throws(s) /\ o.at = s /\ o.threw
         \/ s.stmt.handle = "open" /\ o = Returns(y) /\ o.at = y /\ ~o.threw
  BY DEF Call, Throws, Returns

\* Replacing the vectors of a statement, or those of a table that the statement
\* does not hold first.
LEMMA ReplacedSound ==
  ASSUME NEW s, Sound(s), NEW owner, NEW i,
         owner \notin Objects \/ \A p \in Params : s.past.first[p] # owner
  PROVE  LET z == Replaced(s, owner, i)
         IN Sound(z) /\ z.stmt = s.stmt /\ z.tvp = s.tvp /\ z.past = s.past /\ z.focus = s.focus
<1> DEFINE z == Replaced(s, owner, i)
<1>1. /\ z \in Situations /\ Fades(s, z, {owner})
      /\ z.stmt = s.stmt /\ z.focus = s.focus /\ z.tvp = s.tvp /\ z.past = s.past
      BY ReplacedLeaves, SMTT(30) DEF Sound
<1>2. Outlives(z) /\ Recorded(z)
      <2> HIDE DEF Recorded
      <2>1. /\ Outlives(z)
            /\ \A f \in Foci, j \in Params :
                 z.bound[f][j] # NULL =>
                   /\ z.stmt.handle # "gone"
                   /\ z.bound[f][j].by \in Objects =>
                        z.bound[f][j].by \in z.past.opened \cup z.past.strayed
            BY <1>1, FadingKeeps
      <2>2. QED
            BY <1>1, <2>1 DEF Sound, Recorded
<1>3. QED
      BY <1>1, <1>2 DEF Sound, Closable, Focused, InOrder

-----------------------------------------------------------------------------
(* Closing and dropping.                                                   *)

\* z is s but for table t, which has become r.
Becomes(s, z, t, r) ==
  /\ z \in Situations
  /\ \A u \in Objects : z.tvp[u] = IF u = t THEN r ELSE s.tvp[u]

\* Table t becomes r.
WithTable(s, t, r) == [s EXCEPT !.tvp = [s.tvp EXCEPT ![t] = r]]

\* What changes table t only.
LEMMA TableLeaves ==
  ASSUME NEW s \in Situations, NEW t \in Objects, NEW r \in TableState, NEW z,
         z = WithTable(s, t, r)
  PROVE  /\ Becomes(s, z, t, r)
         /\ z.stmt = s.stmt /\ z.focus = s.focus /\ z.bound = s.bound /\ z.past = s.past
<1>1. s.tvp \in [Objects -> TableState]
      BY DEF Situations
<1> DEFINE d == [s.tvp EXCEPT ![t] = r]
<1>2. d \in [Objects -> TableState] /\ \A u \in Objects : d[u] = IF u = t THEN r ELSE s.tvp[u]
      BY <1>1
<1> HIDE DEF d
<1>3. z = [s EXCEPT !.tvp = d]
      BY DEF d, WithTable
<1>4. /\ z \in Situations /\ z.tvp = d
      /\ z.stmt = s.stmt /\ z.focus = s.focus /\ z.bound = s.bound /\ z.past = s.past
      BY <1>2, <1>3 DEF Situations
<1>5. QED
      BY <1>2, <1>4 DEF Becomes

\* The members that close() resets.
LEMMA ClosedLeaves ==
  ASSUME NEW s \in Situations, NEW t \in Objects, NEW z, z = ClosedObject(s, t)
  PROVE  /\ \E r \in TableState : ~r.open /\ r.rows = 0 /\ Becomes(s, z, t, r)
         /\ z.stmt = s.stmt /\ z.focus = s.focus /\ z.bound = s.bound /\ z.past = s.past
<1> DEFINE r == [s.tvp[t] EXCEPT !.open = FALSE, !.rows = 0, !.param = NULL, !.half = FALSE]
<1>1. s.tvp[t] \in TableState
      BY DEF Situations
<1>2. r \in TableState /\ ~r.open /\ r.rows = 0
      BY <1>1 DEF TableState
<1>3. z = WithTable(s, t, r)
      BY <1>1, ZenonT(60) DEF ClosedObject, Situations, TableState, WithTable
<1> HIDE DEF r
<1>4. QED
      BY <1>2, <1>3, TableLeaves

\* The focus is NULL, or it need not be moved and is where it was.
LEMMA FocusReset ==
  ASSUME NEW s \in Situations, NEW t \in Objects, NEW o \in ResetFocus(s, t)
  PROVE  \/ o.threw /\ o.at = s /\ s.stmt.handle # "gone"
         \/ /\ ~o.threw /\ o.at \in Situations
            /\ o.at.stmt = s.stmt /\ o.at.tvp = s.tvp /\ o.at.bound = s.bound
            /\ o.at.past = s.past
            /\ \/ o.at.focus = NULL
               \/ o.at.focus = s.focus /\ (s.tvp[t].rows = 0 \/ s.stmt.handle = "gone")
<1>1. s.tvp[t].rows \in Nat
      <2>1. s.tvp[t] \in TableState
            BY DEF Situations
      <2>2. s.tvp[t].rows \in RowCounts \cup {0}
            BY <2>1 DEF TableState
      <2>3. RowCounts \cup {0} \subseteq Nat
            BY RowsAssumption
      <2>4. QED
            BY <2>2, <2>3, Zenon
<1>2. CASE s.tvp[t].rows > 0 /\ s.stmt.handle # "gone"
      <2> DEFINE z == [s EXCEPT !.focus = NULL]
      <2>1. /\ z \in Situations /\ z.stmt = s.stmt /\ z.tvp = s.tvp /\ z.bound = s.bound
            /\ z.past = s.past /\ z.focus = NULL
            BY DEF Situations, Foci
      <2>2. o \in Call(s, z)
            BY <1>2 DEF ResetFocus
      <2> HIDE DEF z
      <2>3. QED
            BY <1>2, <2>1, <2>2, CallOutcome
<1>3. CASE ~(s.tvp[t].rows > 0 /\ s.stmt.handle # "gone")
      <2>1. o = Returns(s)
            BY <1>3 DEF ResetFocus
      <2>2. s.tvp[t].rows = 0 \/ s.stmt.handle = "gone"
            BY <1>1, <1>3
      <2>3. QED
            BY <2>1, <2>2 DEF Returns
<1>4. QED
      BY <1>2, <1>3

\* close() of a table leads to a sound situation, in which nothing but the
\* table, the focus and open_tvp_ has changed; when it throws, nothing has.
LEMMA ClosingSound ==
  ASSUME NEW s, Sound(s), NEW t \in Objects, NEW o \in Closing(s, t)
  PROVE  \/ o.threw /\ o.at = s /\ s.tvp[t].open
         \/ /\ ~o.threw /\ Sound(o.at) /\ ~o.at.tvp[t].open
            /\ o.at.bound = s.bound /\ o.at.past = s.past
            /\ o.at.stmt.handle = s.stmt.handle /\ o.at.stmt.kept = s.stmt.kept
            /\ \A u \in Objects \ {t} : o.at.tvp[u] = s.tvp[u]
<1>1. s \in Situations
      BY DEF Sound
<1>2. CASE ~s.tvp[t].open
      BY <1>2 DEF Closing, Returns
<1>3. ASSUME s.tvp[t].open, NEW f \in ResetFocus(s, t), ~f.threw,
             o \in CloseTvp(ClosedObject(f.at, t))
      PROVE  /\ ~o.threw /\ Sound(o.at) /\ ~o.at.tvp[t].open
             /\ o.at.bound = s.bound /\ o.at.past = s.past
             /\ o.at.stmt.handle = s.stmt.handle /\ o.at.stmt.kept = s.stmt.kept
             /\ \A u \in Objects \ {t} : o.at.tvp[u] = s.tvp[u]
      <2> DEFINE z == ClosedObject(f.at, t)
                 y == o.at
      <2>1. /\ f.at \in Situations
            /\ f.at.stmt = s.stmt /\ f.at.tvp = s.tvp /\ f.at.bound = s.bound
            /\ f.at.past = s.past
            /\ \/ f.at.focus = NULL
               \/ f.at.focus = s.focus /\ (s.tvp[t].rows = 0 \/ s.stmt.handle = "gone")
            BY <1>1, <1>3, FocusReset
      <2>2. PICK r \in TableState : ~r.open /\ r.rows = 0 /\ Becomes(f.at, z, t, r)
            BY <2>1, ClosedLeaves
      <2>3. /\ z \in Situations /\ z.stmt = s.stmt /\ z.focus = f.at.focus
            /\ z.bound = s.bound /\ z.past = s.past
            /\ \A u \in Objects : z.tvp[u] = IF u = t THEN r ELSE s.tvp[u]
            BY <2>1, <2>2, ClosedLeaves DEF Becomes
      <2>4. s.stmt.handle # "gone" => s.stmt.openTvp
            BY <1>3 DEF Sound, Closable
      <2> HIDE DEF z
      <2>5. \/ s.stmt.handle = "gone" /\ o = Returns(z)
            \/ s.stmt.handle # "gone" /\ o = Returns([z EXCEPT !.stmt.openTvp = FALSE])
            BY <1>3, <2>3, <2>4 DEF CloseTvp, z
      <2>6. /\ ~o.threw /\ y \in Situations /\ y.tvp = z.tvp /\ y.focus = z.focus
            /\ y.bound = z.bound /\ y.past = z.past
            /\ y.stmt.handle = s.stmt.handle /\ y.stmt.kept = s.stmt.kept
            /\ s.stmt.handle # "gone" => ~y.stmt.openTvp
            <3> DEFINE m == [z.stmt EXCEPT !.openTvp = FALSE]
            <3>1. /\ m \in StatementState /\ ~m.openTvp
                  /\ m.handle = z.stmt.handle /\ m.kept = z.stmt.kept
                  BY <2>3 DEF Situations, StatementState
            <3>2. \/ s.stmt.handle = "gone" /\ o = Returns(z)
                  \/ s.stmt.handle # "gone" /\ o = Returns([z EXCEPT !.stmt = m])
                  BY <2>3, <2>5 DEF Situations
            <3> HIDE DEF m
            <3>3. QED
                  BY <2>3, <3>1, <3>2 DEF Returns, Situations
      <2> HIDE DEF y
      <2>7. \A u \in Objects : y.tvp[u] = IF u = t THEN r ELSE s.tvp[u]
            BY <2>3, <2>6
      <2>8. s.stmt.handle # "gone" => \A u \in Objects : ~y.tvp[u].open
            BY <1>3, <2>2, <2>7 DEF Sound, Closable
      <2>9. Closable(y)
            BY <2>6, <2>8 DEF Closable
      <2>10. Focused(y)
            <3> SUFFICES ASSUME y.stmt.handle # "gone", ~y.past.ignored
                         PROVE  y.focus = NULL
                BY <2>6, <2>8 DEF Focused, InOrder
            <3>1. CASE s.tvp[t].rows = 0 /\ f.at.focus = s.focus
                  <4>1. \A u \in Objects : s.tvp[u].open => s.tvp[u].rows = 0
                        BY <1>3, <2>6, <3>1 DEF Sound, Closable
                  <4>2. s.focus = NULL
                        BY <2>3, <2>6, <4>1 DEF Sound, Focused
                  <4>3. QED
                        BY <2>3, <2>6, <3>1, <4>2
            <3>2. QED
                  BY <2>1, <2>3, <2>6, <3>1
      <2>11. Recorded(y)
            BY <2>2, <2>3, <2>6, <2>7 DEF Sound, Recorded
      <2>12. Outlives(y)
            BY <2>3, <2>6 DEF Sound, Outlives
      <2>13. QED
            BY <2>2, <2>3, <2>6, <2>7, <2>9, <2>10, <2>11, <2>12 DEF Sound, y
<1>4. CASE s.tvp[t].open
      <2>1. \/ o \in ResetFocus(s, t) /\ o.threw
            \/ \E f \in ResetFocus(s, t) :
                 ~f.threw /\ o \in CloseTvp(ClosedObject(f.at, t))
            BY <1>4 DEF Closing, Then
      <2>2. CASE o \in ResetFocus(s, t) /\ o.threw
            BY <1>1, <1>4, <2>2, FocusReset
      <2>3. QED
            BY <1>3, <1>4, <2>1, <2>2
<1>5. QED
      BY <1>2, <1>4

\* An object nobody holds is no first table of a parameter, as long as there
\* is a statement, and freeing it leaves a sound situation if it is closed, or
\* a failure to close it was ignored.
LEMMA FreedSound ==
  ASSUME NEW s, Sound(s), NEW ts \in SUBSET Objects, NEW z, z = Freed(s, ts),
         s.past.ignored \/ s.stmt.handle = "gone" \/ \A t \in ts : ~s.tvp[t].open,
         s.stmt.handle = "gone" \/ \A p \in Params : s.past.first[p] \notin ts
  PROVE  Sound(z) /\ z.stmt = s.stmt /\ z.past = s.past
<1>1. /\ s \in Situations /\ z \in Situations /\ Fades(s, z, ts)
      /\ z.stmt = s.stmt /\ z.focus = s.focus /\ z.past = s.past
      /\ \A t \in Objects : IF t \in ts THEN ~z.tvp[t].open ELSE z.tvp[t] = s.tvp[t]
      BY FreedLeaves DEF Sound
<1>2. /\ Outlives(z)
      /\ \A f \in Foci, i \in Params :
           z.bound[f][i] # NULL =>
             /\ z.stmt.handle # "gone"
             /\ z.bound[f][i].by \in Objects =>
                  z.bound[f][i].by \in z.past.opened \cup z.past.strayed
      BY <1>1, FadingKeeps
<1>3. Recorded(z)
      BY <1>1, <1>2 DEF Sound, Recorded
<1>4. Closable(z)
      BY <1>1 DEF Sound, Closable
<1>5. Focused(z)
      <2>1. \A t \in Objects : InOrder(z, t) => t \notin ts /\ InOrder(s, t)
            BY <1>1 DEF InOrder
      <2>2. z.stmt.handle # "gone" /\ ~z.past.ignored =>
              \A t \in Objects : s.tvp[t].open => t \notin ts
            BY <1>1
      <2>3. QED
            BY <1>1, <2>1, <2>2 DEF Sound, Focused
<1>6. QED
      BY <1>1, <1>2, <1>3, <1>4, <1>5 DEF Sound

\* That a failure was ignored, or that a table has strayed, only excuses.
LEMMA ExcusesSound ==
  ASSUME NEW s, Sound(s), NEW z,
         z.stmt = s.stmt, z.tvp = s.tvp, z.focus = s.focus, z.bound = s.bound,
         z \in Situations,
         s.past.ignored => z.past.ignored, s.past.strayed \subseteq z.past.strayed,
         z.past.opened = s.past.opened, z.past.first = s.past.first
  PROVE  Sound(z)
<1>1. Closable(z) /\ Focused(z)
      BY DEF Sound, Closable, Focused, InOrder
<1>2. Recorded(z)
      BY DEF Sound, Recorded
<1>3. Outlives(z)
      BY DEF Sound, Outlives
<1>4. QED
      BY <1>1, <1>2, <1>3 DEF Sound

\* The destructors of the objects that nobody holds any more.
LEMMA DroppedSound ==
  ASSUME NEW s, Sound(s), NEW z \in Dropped(s)
  PROVE  /\ Sound(z) /\ z.stmt.handle = s.stmt.handle
         /\ z.past.first = s.past.first /\ z.stmt.kept = s.stmt.kept
<1> DEFINE ts == {t \in Objects : s.tvp[t].made /\ ~Held(s, t)}
           open == {t \in ts : s.tvp[t].open}
           Marked(o) == [o.at EXCEPT !.past.ignored = @ \/ o.threw]
<1>1. s \in Situations /\ ts \in SUBSET Objects
      BY DEF Sound
<1>2. s.stmt.handle = "gone" \/ \A p \in Params : s.past.first[p] \notin ts
      <2>1. s.stmt.kept = s.past.first
            BY DEF Sound, Recorded
      <2>2. QED
            BY <2>1 DEF Held
<1> HIDE DEF ts
<1>3. CASE open = {}
      <2>1. z = Freed(s, ts)
            BY <1>3 DEF Dropped, ts
      <2>2. \A t \in ts : ~s.tvp[t].open
            BY <1>3
      <2>3. QED
            BY <1>1, <1>2, <2>1, <2>2, FreedSound
<1>4. ASSUME NEW t \in open, NEW o \in Closing(s, t), z = Freed(Marked(o), ts)
      PROVE  /\ Sound(z) /\ z.stmt.handle = s.stmt.handle
             /\ z.past.first = s.past.first /\ z.stmt.kept = s.stmt.kept
      <2> DEFINE y == Marked(o)
      <2>1. t \in Objects /\ t \in ts /\ s.tvp[t].open
            BY <1>1, <1>4
      <2>2. \/ o.threw /\ o.at = s
            \/ /\ ~o.threw /\ Sound(o.at) /\ ~o.at.tvp[t].open
               /\ o.at.past = s.past
               /\ o.at.stmt.handle = s.stmt.handle /\ o.at.stmt.kept = s.stmt.kept
               /\ \A u \in Objects \ {t} : o.at.tvp[u] = s.tvp[u]
            BY <2>1, ClosingSound
      <2>3. Sound(o.at) /\ o.at.past = s.past
            /\ o.at.stmt.handle = s.stmt.handle /\ o.at.stmt.kept = s.stmt.kept
            BY <2>2
      <2>4. /\ y \in Situations /\ y.stmt = o.at.stmt /\ y.tvp = o.at.tvp
            /\ y.focus = o.at.focus /\ y.bound = o.at.bound
            /\ y.past.ignored = (s.past.ignored \/ o.threw)
            /\ y.past.strayed = s.past.strayed /\ y.past.opened = s.past.opened
            /\ y.past.first = s.past.first
            <3>1. o.at \in Situations /\ o.at.past = s.past /\ s.past \in PastState
                  BY <1>1, <2>3 DEF Sound, Situations
            <3> DEFINE q == [s.past EXCEPT !.ignored = @ \/ o.threw]
            <3>2. /\ q \in PastState /\ q.ignored = (s.past.ignored \/ o.threw)
                  /\ q.strayed = s.past.strayed /\ q.opened = s.past.opened
                  /\ q.first = s.past.first
                  BY <2>3, <3>1 DEF PastState
            <3>3. y = [o.at EXCEPT !.past = q]
                  BY <3>1
            <3> HIDE DEF q, y
            <3>4. QED
                  BY <3>1, <3>2, <3>3 DEF Situations
      <2> HIDE DEF y
      <2>5. Sound(y)
            <3>1. s.past.ignored => y.past.ignored
                  BY <2>4
            <3>2. QED
                  BY <2>3, <2>4, <3>1, ExcusesSound
      <2>6. y.past.ignored \/ y.stmt.handle = "gone" \/ \A u \in ts : ~y.tvp[u].open
            <3>1. CASE o.threw
                  BY <2>4, <3>1
            <3>2. CASE ~o.threw /\ s.stmt.handle # "gone"
                  <4>1. \A u \in ts : u \in Objects /\ (s.tvp[u].open => u = t)
                        BY <1>1, <2>1, <3>2 DEF Sound, Closable
                  <4>2. \A u \in ts : ~o.at.tvp[u].open
                        BY <2>1, <2>2, <3>2, <4>1
                  <4>3. QED
                        BY <2>4, <4>2
            <3>3. QED
                  BY <2>3, <2>4, <3>1, <3>2
      <2>7. y.stmt.handle = "gone" \/ \A p \in Params : y.past.first[p] \notin ts
            BY <1>2, <2>3, <2>4
      <2>8. z = Freed(y, ts)
            BY <1>4 DEF y
      <2>9. QED
            BY <1>1, <2>3, <2>4, <2>5, <2>6, <2>7, <2>8, FreedSound
<1>5. CASE open # {}
      <2>1. z \in UNION {{Freed(Marked(o), ts) : o \in Closing(s, t)} : t \in open}
            BY <1>5 DEF Dropped, ts
      <2>2. QED
            BY <1>4, <2>1
<1>6. QED
      BY <1>3, <1>5

-----------------------------------------------------------------------------
(* Opening.                                                                *)

\* The driver once an index is bound to an owner's vectors.
Rebound(s, p, owner) == [s EXCEPT !.bound[s.focus][p] = [by |-> owner, live |-> TRUE]]

\* SQLBindParameter binds the index under the focus, and nothing else.
LEMMA BindLeaves ==
  ASSUME NEW s \in Situations, NEW p \in Params, NEW owner \in Objects \cup {"statement"},
         NEW z, z = Rebound(s, p, owner)
  PROVE  /\ z \in Situations
         /\ z.stmt = s.stmt /\ z.tvp = s.tvp /\ z.past = s.past /\ z.focus = s.focus
         /\ \E r \in Binding :
              /\ r.by = owner /\ r.live
              /\ \A f \in Foci, i \in Params :
                   z.bound[f][i] = IF f = s.focus /\ i = p THEN r ELSE s.bound[f][i]
<1>1. s.focus \in Foci /\ s.bound \in [Foci -> [Params -> Binding]]
      BY DEF Situations
<1> DEFINE r == [by |-> owner, live |-> TRUE]
           row == [s.bound[s.focus] EXCEPT ![p] = r]
           b == [s.bound EXCEPT ![s.focus] = row]
<1>2. r \in Binding /\ r.by = owner /\ r.live
      BY DEF Binding
<1>3. z = [s EXCEPT !.bound = b]
      BY <1>1 DEF Rebound
<1> HIDE DEF r
<1>4. /\ row \in [Params -> Binding]
      /\ \A i \in Params : row[i] = IF i = p THEN r ELSE s.bound[s.focus][i]
      BY <1>1, <1>2
<1> HIDE DEF row
<1>5. /\ b \in [Foci -> [Params -> Binding]]
      /\ \A f \in Foci : b[f] = IF f = s.focus THEN row ELSE s.bound[f]
      BY <1>1, <1>4
<1> HIDE DEF b
<1>6. /\ z \in Situations /\ z.bound = b
      /\ z.stmt = s.stmt /\ z.tvp = s.tvp /\ z.past = s.past /\ z.focus = s.focus
      BY <1>1, <1>3, <1>5 DEF Situations
<1>7. \A f \in Foci, i \in Params :
        z.bound[f][i] = IF f = s.focus /\ i = p THEN r ELSE s.bound[f][i]
      <2> SUFFICES ASSUME NEW f \in Foci, NEW i \in Params
                   PROVE  z.bound[f][i] = IF f = s.focus /\ i = p THEN r ELSE s.bound[f][i]
          OBVIOUS
      <2>1. z.bound[f] = IF f = s.focus THEN row ELSE s.bound[f]
            BY <1>5, <1>6
      <2>2. CASE f = s.focus
            BY <1>4, <2>1, <2>2
      <2>3. CASE f # s.focus
            BY <2>1, <2>3
      <2>4. QED
            BY <2>2, <2>3
<1>8. QED
      BY <1>2, <1>6, <1>7

\* A statement binds its own parameters, which no property of tables is about.
LEMMA StatementBindSound ==
  ASSUME NEW s, Sound(s), NEW p \in Params, NEW o \in BindParameter(s, "statement", p)
  PROVE  /\ Sound(o.at) /\ o.at.stmt = s.stmt /\ o.at.tvp = s.tvp /\ o.at.past = s.past
         /\ o.at.focus = s.focus
<1>0. PICK w : w = "statement"
      OBVIOUS
<1> DEFINE z == Rebound(s, p, w)
<1>1. o \in Call(s, z)
      BY <1>0 DEF BindParameter, Rebound
<1>2. /\ z \in Situations
      /\ z.stmt = s.stmt /\ z.tvp = s.tvp /\ z.past = s.past /\ z.focus = s.focus
      /\ \E r \in Binding :
           /\ r.by = w /\ r.live
           /\ \A f \in Foci, i \in Params :
                z.bound[f][i] = IF f = s.focus /\ i = p THEN r ELSE s.bound[f][i]
      <2>1. s \in Situations /\ w \in Objects \cup {"statement"}
            BY <1>0 DEF Sound
      <2>2. QED
            BY <2>1, BindLeaves, SMTT(30)
<1> HIDE DEF z
<1>3. \A f \in Foci, i \in Params :
        z.bound[f][i] = s.bound[f][i] \/ z.bound[f][i].by \notin Objects
      BY <1>0, <1>2, NullAssumption
<1>4. s.stmt.handle = "open" => Recorded(z)
      BY <1>2, <1>3 DEF Sound, Recorded
<1>5. Closable(z) /\ Focused(z)
      BY <1>2 DEF Sound, Closable, Focused, InOrder
<1>6. Outlives(z)
      <2>1. Params \subseteq Foci
            BY DEF Foci
      <2>2. QED
            BY <1>2, <1>3, <2>1 DEF Sound, Outlives
<1>7. QED
      BY <1>1, <1>2, <1>4, <1>5, <1>6, CallOutcome DEF Sound

\* prepare_bind() replaces vectors of the statement, if it has a handle.
LEMMA PrepareBindSound ==
  ASSUME NEW s, Sound(s), NEW p, NEW o \in PrepareBind(s, p)
  PROVE  /\ Sound(o.at) /\ o.at.stmt = s.stmt /\ o.at.tvp = s.tvp /\ o.at.past = s.past
         /\ o.at.focus = s.focus
         /\ ~o.threw => s.stmt.handle = "open"
<1> DEFINE z == Replaced(s, "statement", p)
<1>1. s \in Situations /\ "statement" \notin Objects
      BY NullAssumption DEF Sound
<1>2. Sound(z) /\ z.stmt = s.stmt /\ z.tvp = s.tvp /\ z.past = s.past /\ z.focus = s.focus
      BY <1>1, ReplacedSound
<1>3. o \in Call(s, z)
      BY DEF PrepareBind
<1> HIDE DEF z
<1>4. QED
      BY <1>2, <1>3, CallOutcome

\* The statement as open_tvp() leaves it.
Taken(s, p, t) == [Kept(s, p, t) EXCEPT !.stmt.openTvp = TRUE]

\* open_tvp() throws and leaves a sound situation; or no table is open, the
\* statement holds t, or what it held, for the parameter, and knows of it.
LEMMA OpenTvpOutcome ==
  ASSUME NEW s, Sound(s), s.stmt.handle # "gone", NEW t \in Objects, NEW p \in Params,
         NEW o \in OpenTvp(s, t, p)
  PROVE  \/ o.threw /\ Sound(o.at)
         \/ \E q : /\ ~o.threw /\ Sound(q) /\ q.tvp = s.tvp /\ q.stmt.handle = "open"
                   /\ ~q.stmt.openTvp
                   /\ o.at = Taken(q, p, t)
<1>1. CASE s.stmt.openTvp
      BY <1>1 DEF OpenTvp, Then, Throws
<1>2. CASE ~s.stmt.openTvp
      <2>1. PICK a \in PrepareBind(s, p) :
              IF a.threw THEN o = a
              ELSE o = IF p \notin Tables THEN Throws(a.at)
                       ELSE Returns(Taken(a.at, p, t))
            BY <1>2 DEF OpenTvp, Then, Taken
      <2>2. /\ Sound(a.at) /\ a.at.stmt = s.stmt /\ a.at.tvp = s.tvp
            /\ ~a.threw => s.stmt.handle = "open"
            BY PrepareBindSound
      <2>3. CASE a.threw
            BY <2>1, <2>2, <2>3
      <2>4. CASE ~a.threw /\ p \notin Tables
            BY <2>1, <2>2, <2>4 DEF Throws
      <2>5. CASE ~a.threw /\ p \in Tables
            BY <1>2, <2>1, <2>2, <2>5 DEF Returns
      <2>6. QED
            BY <2>3, <2>4, <2>5
<1>3. QED
      BY <1>1, <1>2

\* A table changes in members that the invariant does not speak of.
LEMMA TableSound ==
  ASSUME NEW s, Sound(s), NEW t \in Objects, NEW r \in TableState, NEW z,
         z = WithTable(s, t, r),
         r.open = s.tvp[t].open, r.rows = s.tvp[t].rows, r.param = s.tvp[t].param,
         r.half = s.tvp[t].half
  PROVE  /\ Sound(z) /\ z.tvp[t] = r
         /\ z.stmt = s.stmt /\ z.focus = s.focus /\ z.bound = s.bound /\ z.past = s.past
<1>1. s \in Situations
      BY DEF Sound
<1>2. /\ z \in Situations
      /\ \A u \in Objects : z.tvp[u] = IF u = t THEN r ELSE s.tvp[u]
      /\ z.stmt = s.stmt /\ z.focus = s.focus /\ z.bound = s.bound /\ z.past = s.past
      BY <1>1, TableLeaves DEF Becomes
<1>3. \A u \in Objects :
        /\ z.tvp[u].open = s.tvp[u].open /\ z.tvp[u].rows = s.tvp[u].rows
        /\ z.tvp[u].param = s.tvp[u].param /\ z.tvp[u].half = s.tvp[u].half
      BY <1>2
<1>4. Closable(z)
      BY <1>2, <1>3 DEF Sound, Closable
<1>5. Focused(z)
      BY <1>2, <1>3 DEF Sound, Focused, InOrder
<1>6. Recorded(z) /\ Outlives(z)
      BY <1>2, <1>3 DEF Sound, Recorded, Outlives
<1>7. QED
      BY <1>2, <1>4, <1>5, <1>6 DEF Sound

\* That a table has been described.
Described(s, t) == [s EXCEPT !.tvp[t].described = TRUE]

\* Describing a table says nothing of its opening.
LEMMA DescribedSound ==
  ASSUME NEW s, Sound(s), NEW t \in Objects, NEW z, z = Described(s, t)
  PROVE  /\ Sound(z) /\ z.stmt = s.stmt
         /\ z.tvp[t].open = s.tvp[t].open /\ z.tvp[t].param = s.tvp[t].param
         /\ z.tvp[t].rows = s.tvp[t].rows
<1> DEFINE r == [s.tvp[t] EXCEPT !.described = TRUE]
<1>1. s.tvp[t] \in TableState /\ s \in Situations
      BY DEF Sound, Situations
<1>2. /\ r \in TableState
      /\ r.open = s.tvp[t].open /\ r.rows = s.tvp[t].rows /\ r.param = s.tvp[t].param
      /\ r.half = s.tvp[t].half
      BY <1>1 DEF TableState
<1>3. z = WithTable(s, t, r)
      BY <1>1 DEF Described, Situations, WithTable
<1> HIDE DEF r
<1>4. QED
      BY <1>2, <1>3, TableSound

\* That an object is made, and who holds it.
Owned(s, t, made, held) == [s EXCEPT !.tvp[t].made = made, !.tvp[t].held = held]

\* Nor does its being made, or held.
LEMMA OwnedSound ==
  ASSUME NEW s, Sound(s), NEW t \in Objects, NEW made \in BOOLEAN, NEW held \in BOOLEAN,
         NEW z, z = Owned(s, t, made, held)
  PROVE  Sound(z) /\ z.stmt = s.stmt
<1> DEFINE r == [s.tvp[t] EXCEPT !.made = made, !.held = held]
<1>1. s.tvp[t] \in TableState /\ s \in Situations
      BY DEF Sound, Situations
<1>2. /\ r \in TableState
      /\ r.open = s.tvp[t].open /\ r.rows = s.tvp[t].rows /\ r.param = s.tvp[t].param
      /\ r.half = s.tvp[t].half
      BY <1>1 DEF TableState
<1>3. z = WithTable(s, t, r)
      BY <1>1 DEF Owned, Situations, WithTable
<1> HIDE DEF r
<1>4. QED
      BY <1>2, <1>3, TableSound

\* The statement and the table as they are when open_tvp() has returned: the
\* one table open is t, and it is half-way.
LEMMA OpenedSound ==
  ASSUME NEW q, Sound(q), q.stmt.handle = "open", ~q.stmt.openTvp,
         NEW t \in Objects, NEW p \in Params, NEW rows \in RowCounts,
         NEW z, z = OpenedObject(Taken(q, p, t), t, p, rows)
  PROVE  /\ Sound(z) /\ z.stmt.handle = "open"
         /\ z.tvp[t].open /\ z.tvp[t].rows = rows /\ z.tvp[t].param = p
<1>1. /\ q \in Situations /\ q.stmt \in StatementState /\ q.past \in PastState
      /\ q.tvp \in [Objects -> TableState] /\ q.tvp[t] \in TableState
      BY DEF Sound, Situations
<1> DEFINE k == IF q.stmt.kept[p] = NULL THEN [q.stmt.kept EXCEPT ![p] = t] ELSE q.stmt.kept
           m == [q.stmt EXCEPT !.kept = k, !.openTvp = TRUE]
           r == [q.tvp[t] EXCEPT !.open = TRUE, !.rows = rows, !.param = p, !.half = TRUE]
           d == [q.tvp EXCEPT ![t] = r]
           g == [q.past.first EXCEPT ![p] = IF @ = NULL THEN t ELSE @]
           a == IF t \in q.past.opened THEN q.past.strayed \cup {t} ELSE q.past.strayed
           h == [q.past EXCEPT !.strayed = a, !.opened = @ \cup {t}, !.first = g]
           y == [q EXCEPT !.stmt = m]
<1>2. k = g
      BY <1>1 DEF Sound, Recorded, PastState
<1>3. /\ g \in [Params -> Objects \cup {NULL}]
      /\ \A i \in Params : g[i] = IF i = p /\ q.past.first[p] = NULL THEN t ELSE q.past.first[i]
      BY <1>1 DEF PastState
<1>4. Taken(q, p, t) = y
      BY <1>1 DEF Taken, Kept, Situations, StatementState
<1> HIDE DEF g, k
<1>5. m \in StatementState /\ m.openTvp /\ m.handle = "open" /\ m.kept = g
      BY <1>1, <1>2, <1>3 DEF StatementState
<1> HIDE DEF m
<1>6. /\ y.stmt = m /\ y.tvp = q.tvp /\ y.past = q.past /\ y.focus = q.focus
      /\ y.bound = q.bound /\ y \in Situations
      BY <1>1, <1>5 DEF Situations
<1>7. /\ r \in TableState /\ r.open /\ r.rows = rows /\ r.param = p /\ r.half
      BY <1>1 DEF TableState
<1>8. a \in SUBSET Objects
      BY <1>1 DEF PastState
<1>9. h.opened = q.past.opened \cup {t} /\ h.strayed = a /\ h.first = g
      /\ h.ignored = q.past.ignored /\ h \in PastState
      <2> HIDE DEF a
      <2>1. QED
            BY <1>1, <1>3, <1>8 DEF PastState
<1>10. z = [y EXCEPT !.tvp = d, !.past = h]
      <2> HIDE DEF y
      <2>1. z = OpenedObject(y, t, p, rows)
            BY <1>4
      <2>2. y.past \in PastState /\ y.tvp \in [Objects -> TableState] /\ y.tvp[t] \in TableState
            BY <1>1, <1>6
      <2> DEFINE w == [y EXCEPT !.tvp[t].open = TRUE, !.tvp[t].rows = rows, !.tvp[t].param = p,
                                !.tvp[t].half = TRUE]
      <2>3. w = [y EXCEPT !.tvp = d]
            BY <1>6, <2>2, ZenonT(60) DEF Situations, TableState
      <2>4. z = [w EXCEPT !.past.strayed = IF t \in y.past.opened THEN @ \cup {t} ELSE @,
                          !.past.opened = @ \cup {t},
                          !.past.first[p] = IF @ = NULL THEN t ELSE @]
            BY <2>1, ZenonT(60) DEF OpenedObject
      <2> HIDE DEF w, d
      <2>5. z.past = [y.past EXCEPT
              !.strayed = IF t \in y.past.opened THEN @ \cup {t} ELSE @,
              !.opened = @ \cup {t},
              !.first = [y.past.first EXCEPT ![p] = IF @ = NULL THEN t ELSE @]]
            BY <1>6, <2>2, <2>3, <2>4 DEF Situations, PastState
      <2>6. z = [w EXCEPT !.past = z.past]
            BY <1>6, <2>2, <2>3, <2>4 DEF Situations
      <2>7. QED
            BY <1>6, <2>3, <2>5, <2>6 DEF g
<1> HIDE DEF r, h
<1>11. d \in [Objects -> TableState] /\ \A u \in Objects : d[u] = IF u = t THEN r ELSE q.tvp[u]
      BY <1>1, <1>7
<1> HIDE DEF d, y
<1>12. /\ z \in Situations /\ z.stmt = m /\ z.tvp = d /\ z.past = h
       /\ z.focus = q.focus /\ z.bound = q.bound
      BY <1>6, <1>9, <1>10, <1>11 DEF Situations
<1>13. \A u \in Objects : ~q.tvp[u].open
      BY DEF Sound, Closable
<1>14. Closable(z) /\ z.tvp[t] = r
      BY <1>5, <1>7, <1>11, <1>12, <1>13 DEF Closable
<1>15. Focused(z)
      BY <1>7, <1>9, <1>11, <1>12, <1>13 DEF Sound, Focused, InOrder
<1>16. Recorded(z)
      <2>1. \A i \in Params : z.past.first[i] # NULL => z.past.first[i] \in z.past.opened
            BY <1>3, <1>9, <1>12 DEF Sound, Recorded
      <2>2. \A u \in Objects : z.tvp[u].open => u = t
            BY <1>11, <1>12, <1>13
      <2>3. \A i \in Params : t \notin z.past.strayed /\ z.past.first[i] = t => z.tvp[t].param = i
            <3> SUFFICES ASSUME NEW i \in Params, t \notin z.past.strayed, z.past.first[i] = t
                         PROVE  i = p
                BY <1>7, <1>14
            <3>1. t \notin q.past.opened
                  BY <1>9, <1>12
            <3>2. q.past.first[i] # t
                  BY <1>1, <3>1, NullAssumption DEF Sound, Recorded
            <3>3. QED
                  BY <1>3, <1>9, <1>12, <3>2
      <2>4. q.past.opened \cup q.past.strayed \subseteq z.past.opened \cup z.past.strayed
            BY <1>9, <1>12
      <2>5. \A f \in Foci, i \in Params :
              z.bound[f][i] # NULL =>
                /\ z.stmt.handle # "gone"
                /\ z.bound[f][i].by \in Objects =>
                     z.bound[f][i].by \in z.past.opened \cup z.past.strayed
            BY <1>5, <1>12, <2>4 DEF Sound, Recorded
      <2>6. z.stmt.kept = z.past.first
            BY <1>5, <1>9, <1>12
      <2>7. \A u \in Objects : z.tvp[u].open => u \in z.past.opened
            BY <1>9, <1>12, <2>2
      <2>8. QED
            BY <2>1, <2>2, <2>3, <2>5, <2>6, <2>7 DEF Recorded
<1>17. Outlives(z)
      <2> SUFFICES ASSUME NEW j \in Params, NEW i \in Params,
                          z.bound[j][i] # NULL, z.bound[j][i].by \in Objects,
                          z.past.first[j] = z.bound[j][i].by,
                          z.bound[j][i].by \notin z.past.strayed
                   PROVE  z.bound[j][i].live
          BY DEF Outlives
      <2>1. j \in Foci
            BY DEF Foci
      <2>2. q.bound[j][i].by \in q.past.opened \cup q.past.strayed
            BY <1>12, <2>1 DEF Sound, Recorded
      <2>3. q.past.strayed \subseteq a /\ (t \in q.past.opened => t \in a)
            OBVIOUS
      <2>4. q.bound[j][i].by # t /\ q.bound[j][i].by \notin q.past.strayed
            BY <1>9, <1>12, <2>2, <2>3
      <2>5. q.past.first[j] = q.bound[j][i].by
            BY <1>3, <1>9, <1>12, <2>4
      <2>6. QED
            BY <1>12, <2>4, <2>5 DEF Sound, Outlives
<1>18. QED
      BY <1>5, <1>7, <1>12, <1>14, <1>15, <1>16, <1>17 DEF Sound

\* The table is whole, and the focus at f.
Focusing(s, t, f) == [s EXCEPT !.tvp[t].half = FALSE, !.focus = f]

\* With the focus at the table's parameter, or where it was if it has no rows.
LEMMA FocusingSound ==
  ASSUME NEW s, Sound(s), NEW t \in Objects, s.tvp[t].open, s.tvp[t].param \in Params,
         NEW f, IF s.tvp[t].rows = 0 THEN f = s.focus ELSE f = s.tvp[t].param,
         NEW z, z = Focusing(s, t, f)
  PROVE  Sound(z) /\ z.stmt = s.stmt
<1> DEFINE r == [s.tvp[t] EXCEPT !.half = FALSE]
           d == [s.tvp EXCEPT ![t] = r]
<1>1. s \in Situations /\ s.tvp \in [Objects -> TableState] /\ s.tvp[t] \in TableState
      BY DEF Sound, Situations
<1>2. f \in Foci
      BY <1>1 DEF Situations, Foci
<1>3. /\ r \in TableState /\ r.open = s.tvp[t].open /\ r.rows = s.tvp[t].rows
      /\ r.param = s.tvp[t].param
      BY <1>1 DEF TableState
<1>4. z = [s EXCEPT !.tvp = d, !.focus = f]
      BY <1>1 DEF Focusing, Situations
<1> HIDE DEF r
<1>5. d \in [Objects -> TableState] /\ \A u \in Objects : d[u] = IF u = t THEN r ELSE s.tvp[u]
      BY <1>1, <1>3
<1> HIDE DEF d
<1>6. /\ z \in Situations /\ z.tvp = d /\ z.focus = f
      /\ z.stmt = s.stmt /\ z.bound = s.bound /\ z.past = s.past
      BY <1>1, <1>2, <1>4, <1>5 DEF Situations
<1>7. \A u \in Objects :
        /\ z.tvp[u].open = s.tvp[u].open /\ z.tvp[u].rows = s.tvp[u].rows
        /\ z.tvp[u].param = s.tvp[u].param
        /\ u # t => z.tvp[u].half = s.tvp[u].half
      BY <1>3, <1>5, <1>6
<1>8. s.stmt.handle # "gone" => \A u \in Objects : s.tvp[u].open => u = t
      BY DEF Sound, Closable
<1>9. Focused(z)
      <2>1. CASE s.tvp[t].rows = 0
            <3>1. \A u \in Objects : InOrder(z, u) => u # t /\ InOrder(s, u)
                  BY <1>7, <2>1 DEF InOrder
            <3>2. QED
                  BY <1>6, <1>7, <2>1, <3>1 DEF Sound, Focused
      <2>2. CASE s.tvp[t].rows # 0
            BY <1>6, <1>7, <1>8, <2>2 DEF Focused, InOrder
      <2>3. QED
            BY <2>1, <2>2
<1>10. Closable(z)
      BY <1>6, <1>7 DEF Sound, Closable
<1>11. Recorded(z) /\ Outlives(z)
      BY <1>6, <1>7 DEF Sound, Recorded, Outlives
<1>12. QED
      BY <1>6, <1>9, <1>10, <1>11 DEF Sound

\* The end of open(): the focus, if the table has rows.
LEMMA SetFocusSound ==
  ASSUME NEW s, Sound(s), NEW t \in Objects, NEW p \in Params, s.tvp[t].open, s.tvp[t].param = p,
         NEW o \in SetFocus(s, t, p)
  PROVE  Sound(o.at) /\ o.at.stmt = s.stmt
<1>1. s \in Situations /\ s.tvp \in [Objects -> TableState] /\ s.tvp[t] \in TableState
      BY DEF Sound, Situations
<1>2. CASE s.tvp[t].rows = 0
      <2>1. [s EXCEPT !.tvp[t].half = FALSE] = Focusing(s, t, s.focus)
            BY <1>1 DEF Focusing, Situations
      <2>2. o = Returns(Focusing(s, t, s.focus))
            BY <1>2, <2>1 DEF SetFocus
      <2>3. PICK z : z = Focusing(s, t, s.focus)
            OBVIOUS
      <2>4. Sound(z) /\ z.stmt = s.stmt
            BY <1>2, <2>3, FocusingSound
      <2>5. QED
            BY <2>2, <2>3, <2>4 DEF Returns
<1>3. CASE s.tvp[t].rows # 0
      <2>1. PICK z : z = Focusing(s, t, p)
            OBVIOUS
      <2>2. o \in Call(s, z)
            BY <1>3, <2>1 DEF SetFocus, Focusing
      <2>3. Sound(z) /\ z.stmt = s.stmt
            BY <1>3, <2>1, FocusingSound
      <2>4. QED
            BY <2>2, <2>3, CallOutcome
<1>4. QED
      BY <1>2, <1>3

\* open() of a table leads to a sound situation, however far it comes.
LEMMA OpeningSound ==
  ASSUME NEW s, Sound(s), s.stmt.handle # "gone", NEW t \in Objects, NEW p \in Params,
         NEW rows \in RowCounts, NEW o \in Opening(s, t, p, rows)
  PROVE  Sound(o.at)
<1>1. PICK a \in Closing(s, t) :
        \/ o = a
        \/ /\ ~a.threw
           /\ \E b \in OpenTvp(a.at, t, p) :
                \/ o = b /\ b.threw
                \/ /\ ~b.threw
                   /\ \E c \in DescribeTable(OpenedObject(b.at, t, p, rows), t) :
                        \/ o = c
                        \/ \E e \in BindParameter(c.at, "statement", p) :
                             o = e \/ o \in SetFocus(e.at, t, p)
      BY DEF Opening, Then
<1>2. \/ a.at = s
      \/ Sound(a.at) /\ a.at.stmt.handle = s.stmt.handle
      BY ClosingSound
<1>3. Sound(a.at) /\ a.at.stmt.handle # "gone"
      BY <1>2
<1>4. CASE o = a
      BY <1>3, <1>4
<1>5. ASSUME NEW b \in OpenTvp(a.at, t, p), b.threw
      PROVE  Sound(b.at)
      BY <1>3, <1>5, OpenTvpOutcome
<1>6. ASSUME NEW b \in OpenTvp(a.at, t, p), ~b.threw,
             NEW c \in DescribeTable(OpenedObject(b.at, t, p, rows), t)
      PROVE  Sound(c.at) /\ c.at.tvp[t].open /\ c.at.tvp[t].param = p
      <2>1. PICK q : /\ Sound(q) /\ q.stmt.handle = "open" /\ ~q.stmt.openTvp
                     /\ b.at = Taken(q, p, t)
            BY <1>3, <1>6, OpenTvpOutcome
      <2>2. PICK z : z = OpenedObject(b.at, t, p, rows)
            OBVIOUS
      <2>3. z = OpenedObject(Taken(q, p, t), t, p, rows)
            BY <2>1, <2>2
      <2>4. Sound(z) /\ z.tvp[t].open /\ z.tvp[t].param = p
            BY <2>1, <2>3, OpenedSound
      <2>5. PICK y : y = Described(z, t)
            OBVIOUS
      <2>6. Sound(y) /\ y.tvp[t].open /\ y.tvp[t].param = p
            BY <2>4, <2>5, DescribedSound
      <2>7. c \in Call(z, y)
            BY <1>6, <2>2, <2>5 DEF DescribeTable, Described
      <2>8. QED
            BY <2>4, <2>6, <2>7, CallOutcome
<1>7. ASSUME NEW c, Sound(c.at), c.at.tvp[t].open, c.at.tvp[t].param = p,
             NEW e \in BindParameter(c.at, "statement", p),
             o = e \/ o \in SetFocus(e.at, t, p)
      PROVE  Sound(o.at)
      <2>1. Sound(e.at) /\ e.at.tvp = c.at.tvp
            BY <1>7, StatementBindSound
      <2>2. e.at.tvp[t].open /\ e.at.tvp[t].param = p
            BY <1>7, <2>1
      <2>3. QED
            BY <1>7, <2>1, <2>2, SetFocusSound
<1>8. QED
      BY <1>1, <1>4, <1>5, <1>6, <1>7

-----------------------------------------------------------------------------
(* Binding.                                                                *)

\* A bind of the statement's own parameters.
LEMMA BindingParamSound ==
  ASSUME NEW s, Sound(s), NEW p \in Params, NEW o \in BindingParam(s, p) \cup BindingNull(s, p)
  PROVE  Sound(o.at)
<1>1. PICK a \in PrepareBind(s, p) :
        \/ o = a
        \/ o = Throws(a.at)
        \/ o \in BindParameter(a.at, "statement", p)
      BY DEF BindingParam, BindingNull, Then
<1>2. Sound(a.at)
      BY PrepareBindSound
<1>3. CASE o = a \/ o = Throws(a.at)
      BY <1>2, <1>3 DEF Throws
<1>4. CASE o \in BindParameter(a.at, "statement", p)
      BY <1>2, <1>4, StatementBindSound
<1>5. QED
      BY <1>1, <1>3, <1>4

\* That a table has strayed.
Strays(s, t) == [s EXCEPT !.past.strayed = @ \cup {t}]

\* The bindings of table t change, and those of another owner stay or go: a
\* sound situation if t has strayed, or if the table is in order and only its
\* binding of c under the focus changes for the better.
LEMMA ColumnSound ==
  ASSUME NEW s, Sound(s), s.stmt.handle # "gone", NEW t \in Objects, NEW c,
         NEW z \in Situations, z.stmt = s.stmt, z.tvp = s.tvp, z.focus = s.focus,
         z.past.ignored = s.past.ignored, z.past.opened = s.past.opened,
         z.past.first = s.past.first, s.past.strayed \subseteq z.past.strayed,
         \A f \in Foci, i \in Params : z.bound[f][i] # NULL =>
           \/ z.bound[f][i].by = t
           \/ s.bound[f][i] # NULL /\ z.bound[f][i].by = s.bound[f][i].by
                /\ z.bound[f][i].live = s.bound[f][i].live,
         \/ t \in z.past.strayed
         \/ /\ InOrder(s, t)
            /\ \A i \in Params : z.bound[s.focus][i] # NULL =>
                 \/ z.bound[s.focus][i].live
                 \/ z.bound[s.focus][i] = s.bound[s.focus][i]
  PROVE  Sound(z)
<1>1. Closable(z) /\ Focused(z)
      BY DEF Sound, Closable, Focused, InOrder
<1>2. t \in z.past.opened \cup z.past.strayed
      BY DEF Sound, Recorded, InOrder
<1>3. Recorded(z)
      BY <1>2 DEF Sound, Recorded
<1>4. Outlives(z)
      <2> SUFFICES ASSUME NEW j \in Params, NEW i \in Params,
                          z.bound[j][i] # NULL, z.bound[j][i].by \in Objects,
                          z.past.first[j] = z.bound[j][i].by,
                          z.bound[j][i].by \notin z.past.strayed
                   PROVE  z.bound[j][i].live
          BY DEF Outlives
      <2>1. j \in Foci
            BY DEF Foci
      <2>2. CASE z.bound[j][i].by # t
            BY <2>1, <2>2 DEF Sound, Outlives
      <2>3. CASE z.bound[j][i].by = t
            <3>1. t \notin z.past.strayed /\ InOrder(s, t) /\ t \notin s.past.strayed
                  BY <2>3
            <3>2. s.tvp[t].param = j
                  BY <2>3, <3>1 DEF Sound, Recorded, InOrder
            <3>3. s.focus = j
                  BY <3>1, <3>2 DEF Sound, Focused
            <3>4. CASE z.bound[j][i] = s.bound[j][i]
                  BY <2>3, <3>1, <3>4 DEF Sound, Outlives
            <3>5. QED
                  BY <3>1, <3>3, <3>4
      <2>4. QED
            BY <2>2, <2>3
<1>5. QED
      BY <1>1, <1>3, <1>4 DEF Sound

\* A bind of a column: its vectors are replaced, and bound again under the
\* focus, which is the table's own if it is in order.
LEMMA BindingColumnSound ==
  ASSUME NEW s, Sound(s), s.stmt.handle # "gone", NEW t \in Objects, NEW c \in Params,
         NEW o \in BindingColumn(s, t, c)
  PROVE  Sound(o.at)
<1>1. CASE ~s.tvp[t].described
      BY <1>1 DEF BindingColumn, Throws
<1>2. CASE s.tvp[t].described
      <2>1. PICK b \in BindParameter(Replaced(s, t, c), t, c) :
              o = IF b.threw \/ ~InOrder(s, t)
                  THEN [b EXCEPT !.at.past.strayed = @ \cup {t}] ELSE b
            BY <1>2 DEF BindingColumn
      <2>2. PICK y : y = Replaced(s, t, c)
            OBVIOUS
      <2>3. /\ s \in Situations /\ y \in Situations /\ Fades(s, y, {t})
            /\ y.stmt = s.stmt /\ y.focus = s.focus /\ y.tvp = s.tvp /\ y.past = s.past
            /\ \A f \in Foci, j \in Params : j # c => y.bound[f][j] = s.bound[f][j]
            BY <2>2, ReplacedLeaves DEF Sound
      <2> DEFINE x == Rebound(y, c, t)
      <2>5. /\ x \in Situations
            /\ x.stmt = y.stmt /\ x.tvp = y.tvp /\ x.past = y.past /\ x.focus = y.focus
            /\ \E r \in Binding :
                 /\ r.by = t /\ r.live
                 /\ \A f \in Foci, i \in Params :
                      x.bound[f][i] = IF f = y.focus /\ i = c THEN r ELSE y.bound[f][i]
            <3>1. y \in Situations /\ t \in Objects \cup {"statement"}
                  BY <2>3
            <3>2. QED
                  BY <3>1, BindLeaves, SMTT(30)
      <2>6. \/ b = Throws(y) /\ b.at = y /\ b.threw
            \/ b = Returns(x) /\ b.at = x /\ ~b.threw
            <3>1. BindParameter(y, t, c) = Call(y, Rebound(y, c, t))
                  BY DEF BindParameter, Rebound
            <3>2. b \in Call(y, x)
                  BY <2>1, <2>2, <3>1
            <3>3. QED
                  BY <3>2, CallOutcome
      <2> HIDE DEF x
      <2>7. b.at \in Situations /\ b.at.stmt = s.stmt /\ b.at.tvp = s.tvp
            /\ b.at.past = s.past /\ b.at.focus = s.focus
            BY <2>3, <2>5, <2>6
      <2>8. \A f \in Foci, i \in Params : b.at.bound[f][i] # NULL =>
              \/ b.at.bound[f][i].by = t
              \/ s.bound[f][i] # NULL /\ b.at.bound[f][i].by = s.bound[f][i].by
                   /\ b.at.bound[f][i].live = s.bound[f][i].live
            BY <2>3, <2>5, <2>6, SMTT(30) DEF Fades
      <2>9. CASE b.threw \/ ~InOrder(s, t)
            <3>1. PICK z : z = Strays(b.at, t)
                  OBVIOUS
            <3>2. o.at = z
                  <4>1. b = [at |-> b.at, threw |-> b.threw]
                        BY <2>6 DEF Throws, Returns
                  <4>2. QED
                        BY <2>1, <2>9, <3>1, <4>1 DEF Strays
            <3>3. /\ z \in Situations /\ z.stmt = s.stmt /\ z.tvp = s.tvp /\ z.focus = s.focus
                  /\ z.bound = b.at.bound
                  /\ z.past.ignored = s.past.ignored /\ z.past.opened = s.past.opened
                  /\ z.past.first = s.past.first /\ z.past.strayed = s.past.strayed \cup {t}
                  <4>1. s.past \in PastState
                        BY <2>3 DEF Situations
                  <4> DEFINE q == [s.past EXCEPT !.strayed = @ \cup {t}]
                  <4>2. /\ q \in PastState /\ q.ignored = s.past.ignored
                        /\ q.strayed = s.past.strayed \cup {t} /\ q.opened = s.past.opened
                        /\ q.first = s.past.first
                        BY <4>1 DEF PastState
                  <4>3. z = [b.at EXCEPT !.past = q]
                        BY <2>7, <3>1 DEF Strays
                  <4> HIDE DEF q
                  <4>4. QED
                        BY <2>7, <4>2, <4>3 DEF Situations
            <3>4. Sound(z)
                  BY <2>8, <3>3, ColumnSound
            <3>5. QED
                  BY <3>2, <3>4
      <2>10. CASE ~b.threw /\ InOrder(s, t)
            <3>1. o = b /\ b.at = x
                  BY <2>1, <2>6, <2>10
            <3>2. s.focus \in Foci
                  BY <2>3 DEF Situations
            <3>3. \A i \in Params : x.bound[s.focus][i] # NULL =>
                    x.bound[s.focus][i].live \/ x.bound[s.focus][i] = s.bound[s.focus][i]
                  BY <2>3, <2>5, <3>2
            <3>4. Sound(x)
                  BY <2>3, <2>5, <2>7, <2>8, <2>10, <3>1, <3>3, ColumnSound
            <3>5. QED
                  BY <3>1, <3>4
      <2>11. QED
            BY <2>9, <2>10
<1>3. QED
      BY <1>1, <1>2

-----------------------------------------------------------------------------
(* Steps.                                                                  *)

Inv == Sound(Situation)

\* A step that becomes a sound situation leaves one.
LEMMA BecomeSound ==
  ASSUME NEW s, Sound(s), Become(s)
  PROVE  Inv'
<1>1. s = Situation'
      BY DEF Sound, Situations, Become, Situation
<1>2. QED
      BY <1>1 DEF Inv

\* There is no binding when a statement has no handle.
LEMMA NothingBound ==
  /\ Nothing \in [Foci -> [Params -> Binding]]
  /\ \A f \in Foci, i \in Params : Nothing[f][i] = NULL
  BY DEF Nothing, Foci, Binding

\* Init is sound.
LEMMA InitSound == Init => Inv
<1> SUFFICES ASSUME Init
             PROVE  Sound(Situation)
    BY DEF Inv
<1> DEFINE s == Situation
<1>1. NewObject \in TableState /\ ~NewObject.open
      BY DEF NewObject, TableState
<1>2. /\ NewPast \in PastState /\ ~NewPast.ignored
      /\ NewPast.first = [p \in Params |-> NULL]
      BY DEF NewPast, PastState
<1>3. /\ stmt \in StatementState /\ ~stmt.openTvp
      /\ stmt.kept = [p \in Params |-> NULL]
      BY DEF Init, StatementState
<1>4. /\ s.stmt = stmt /\ s.tvp = [t \in Objects |-> NewObject] /\ s.focus = NULL
      /\ s.bound = Nothing /\ s.past = NewPast
      BY DEF Init, Situation
<1>5. s \in Situations
      BY <1>1, <1>2, <1>3, NothingBound DEF Init, Situation, Situations, Foci
<1> HIDE DEF s
<1>6. Closable(s) /\ Focused(s)
      BY <1>1, <1>3, <1>4 DEF Closable, Focused, InOrder
<1>7. Recorded(s) /\ Outlives(s)
      <2>1. Params \subseteq Foci
            BY DEF Foci
      <2>2. QED
            BY <1>1, <1>2, <1>3, <1>4, <2>1, NothingBound DEF Recorded, Outlives
<1>8. QED
      BY <1>5, <1>6, <1>7 DEF Sound, s

\* The situation that CloseStatement drops the tables from.
LEMMA UnkeptSound ==
  ASSUME NEW s, Sound(s), NEW z,
         z = [s EXCEPT !.stmt.kept = [p \in Params |-> NULL],
                       !.past.first = [p \in Params |-> NULL]]
  PROVE  Sound(z) /\ z.stmt.handle = s.stmt.handle
<1> DEFINE none == [p \in Params |-> NULL]
           m == [s.stmt EXCEPT !.kept = none]
           h == [s.past EXCEPT !.first = none]
<1>1. s \in Situations /\ s.stmt \in StatementState /\ s.past \in PastState
      BY DEF Sound, Situations
<1>2. none \in [Params -> Objects \cup {NULL}] /\ \A p \in Params : none[p] = NULL
      OBVIOUS
<1>3. z = [s EXCEPT !.stmt = m, !.past = h]
      BY <1>1 DEF Situations
<1> HIDE DEF none
<1>4. /\ m \in StatementState /\ m.handle = s.stmt.handle /\ m.openTvp = s.stmt.openTvp
      /\ m.kept = none
      BY <1>1, <1>2 DEF StatementState
<1>5. /\ h \in PastState /\ h.ignored = s.past.ignored /\ h.opened = s.past.opened
      /\ h.strayed = s.past.strayed /\ h.first = none
      BY <1>1, <1>2 DEF PastState
<1> HIDE DEF m, h
<1>6. /\ z \in Situations /\ z.stmt = m /\ z.past = h
      /\ z.tvp = s.tvp /\ z.focus = s.focus /\ z.bound = s.bound
      BY <1>1, <1>3, <1>4, <1>5 DEF Situations
<1>7. Closable(z) /\ Focused(z)
      BY <1>4, <1>5, <1>6 DEF Sound, Closable, Focused, InOrder
<1>8. Recorded(z)
      BY <1>2, <1>4, <1>5, <1>6, NullAssumption DEF Sound, Recorded
<1>9. Outlives(z)
      BY <1>2, <1>5, <1>6, NullAssumption DEF Outlives
<1>10. QED
      BY <1>4, <1>6, <1>7, <1>8, <1>9 DEF Sound

\* That an object is no more held.
LEMMA ReleasedSound ==
  ASSUME NEW s, Sound(s), NEW t \in Objects, NEW z, z = [s EXCEPT !.tvp[t].held = FALSE]
  PROVE  Sound(z)
<1> DEFINE r == [s.tvp[t] EXCEPT !.held = FALSE]
<1>1. s.tvp[t] \in TableState /\ s \in Situations
      BY DEF Sound, Situations
<1>2. /\ r \in TableState
      /\ r.open = s.tvp[t].open /\ r.rows = s.tvp[t].rows /\ r.param = s.tvp[t].param
      /\ r.half = s.tvp[t].half
      BY <1>1 DEF TableState
<1>3. z = WithTable(s, t, r)
      BY <1>1 DEF Situations, WithTable
<1> HIDE DEF r
<1>4. QED
      BY <1>2, <1>3, TableSound

\* Which tables are open, and whether the statement says so.
LEMMA ClosableKept ==
  ASSUME NEW s, Closable(s), s.stmt.handle # "gone", NEW z,
         \A t \in Objects : z.tvp[t].open = s.tvp[t].open,
         z.stmt.openTvp = s.stmt.openTvp, z.past = s.past
  PROVE  Closable(z)
BY DEF Closable

\* The statement once it is closed: a table still open is one that nobody will
\* bind to any more.
LEMMA ClosedSound ==
  ASSUME NEW s, Sound(s), NEW z,
         z = [s EXCEPT !.stmt.handle = "closed", !.focus = NULL, !.bound = Nothing,
                       !.tvp = [t \in Objects |-> [s.tvp[t] EXCEPT !.half = @ \/ s.tvp[t].open]]]
  PROVE  s.stmt.handle # "gone" => Sound(z)
<1> DEFINE New(t) == [s.tvp[t] EXCEPT !.half = @ \/ s.tvp[t].open]
           m == [s.stmt EXCEPT !.handle = "closed"]
           d == [t \in Objects |-> New(t)]
<1>1. s \in Situations /\ s.stmt \in StatementState /\ s.tvp \in [Objects -> TableState]
      BY DEF Sound, Situations
<1>2. z = [s EXCEPT !.stmt = m, !.focus = NULL, !.bound = Nothing, !.tvp = d]
      <2>1. z = [s EXCEPT !.stmt.handle = "closed", !.focus = NULL, !.bound = Nothing, !.tvp = d]
            OBVIOUS
      <2> HIDE DEF d
      <2>2. QED
            BY <1>1, <2>1 DEF Situations
<1>3. ASSUME NEW t \in Objects
      PROVE  /\ New(t) \in TableState
             /\ New(t).open = s.tvp[t].open /\ New(t).rows = s.tvp[t].rows
             /\ New(t).param = s.tvp[t].param
             /\ New(t).open => New(t).half
      <2>1. s.tvp[t] \in TableState
            BY <1>1
      <2>2. QED
            BY <2>1 DEF TableState
<1> HIDE DEF New
<1>4. d \in [Objects -> TableState] /\ \A t \in Objects : d[t] = New(t)
      BY <1>3
<1>5. /\ m \in StatementState /\ m.handle = "closed" /\ m.openTvp = s.stmt.openTvp
      /\ m.kept = s.stmt.kept
      BY <1>1, SMTT(30) DEF StatementState
<1> HIDE DEF m, d
<1>6. /\ z \in Situations /\ z.stmt = m /\ z.tvp = d /\ z.focus = NULL
      /\ z.bound = Nothing /\ z.past = s.past
      BY <1>1, <1>2, <1>4, <1>5, NothingBound DEF Situations, Foci
<1>7. \A t \in Objects : /\ z.tvp[t].open = s.tvp[t].open /\ z.tvp[t].rows = s.tvp[t].rows
                         /\ z.tvp[t].param = s.tvp[t].param
                         /\ ~InOrder(z, t)
      <2> SUFFICES ASSUME NEW t \in Objects
                   PROVE  /\ z.tvp[t].open = s.tvp[t].open /\ z.tvp[t].rows = s.tvp[t].rows
                          /\ z.tvp[t].param = s.tvp[t].param
                          /\ ~InOrder(z, t)
          OBVIOUS
      <2>1. z.tvp[t] = New(t)
            BY <1>4, <1>6
      <2>2. ~InOrder(z, t)
            BY <1>3, <2>1, Zenon DEF InOrder
      <2>3. QED
            BY <1>3, <2>1, <2>2
<1>8. s.stmt.handle # "gone" => Closable(z) /\ Focused(z)
      <2>1. s.stmt.handle # "gone" => Closable(z)
            <3>1. Closable(s)
                  BY DEF Sound
            <3>2. /\ \A t \in Objects : z.tvp[t].open = s.tvp[t].open
                  /\ z.stmt.openTvp = s.stmt.openTvp /\ z.past = s.past
                  BY <1>5, <1>6, <1>7, Zenon
            <3>3. QED
                  BY <3>1, <3>2, ClosableKept, ZenonT(40)
      <2>2. Focused(z)
            BY <1>6, <1>7 DEF Focused
      <2>3. QED
            BY <2>1, <2>2, Zenon
<1>9. \A f \in Foci, i \in Params : z.bound[f][i] = NULL
      BY <1>6, NothingBound
<1>10. Recorded(z)
      <2>1. z.stmt.kept = s.past.first
            <3>1. s.stmt.kept = s.past.first
                  BY ZenonT(40) DEF Sound, Recorded
            <3>2. QED
                  BY <1>5, <1>6, <3>1, Zenon
      <2>2. /\ \A t \in Objects : z.tvp[t].open => t \in s.past.opened
            /\ \A t \in Objects, p \in Params :
                 z.tvp[t].open /\ t \notin s.past.strayed /\ s.past.first[p] = t
                   => z.tvp[t].param = p
            BY <1>7, ZenonT(40) DEF Sound, Recorded
      <2>3. QED
            BY <1>6, <1>9, <2>1, <2>2 DEF Sound, Recorded
<1>11. Outlives(z)
      BY <1>9 DEF Outlives, Foci
<1>12. QED
      BY <1>6, <1>8, <1>10, <1>11 DEF Sound

\* The statement opened again.
LEMMA ReopenedSound ==
  ASSUME NEW s, Sound(s), s.stmt.handle = "closed", NEW z, z = [s EXCEPT !.stmt.handle = "open"]
  PROVE  Sound(z)
<1> DEFINE m == [s.stmt EXCEPT !.handle = "open"]
<1>1. s \in Situations /\ s.stmt \in StatementState
      BY DEF Sound, Situations
<1>2. z = [s EXCEPT !.stmt = m]
      BY <1>1 DEF Situations
<1>3. /\ m \in StatementState /\ m.handle = "open" /\ m.openTvp = s.stmt.openTvp
      /\ m.kept = s.stmt.kept
      BY <1>1 DEF StatementState
<1> HIDE DEF m
<1>4. /\ z \in Situations /\ z.stmt = m /\ z.tvp = s.tvp /\ z.focus = s.focus
      /\ z.bound = s.bound /\ z.past = s.past
      BY <1>1, <1>2, <1>3 DEF Situations
<1>5. Closable(z) /\ Focused(z)
      BY <1>3, <1>4 DEF Sound, Closable, Focused, InOrder
<1>6. Recorded(z) /\ Outlives(z)
      BY <1>3, <1>4 DEF Sound, Recorded, Outlives
<1>7. QED
      BY <1>4, <1>5, <1>6 DEF Sound

\* The statement as its destructor has it before the tables go.
LEMMA DestroyedSound ==
  ASSUME NEW s, Sound(s), NEW z,
         z = [s EXCEPT !.stmt.handle = "gone", !.focus = NULL, !.bound = Nothing]
  PROVE  Sound(z)
<1> DEFINE m == [s.stmt EXCEPT !.handle = "gone"]
<1>1. s \in Situations /\ s.stmt \in StatementState
      BY DEF Sound, Situations
<1>2. z = [s EXCEPT !.stmt = m, !.focus = NULL, !.bound = Nothing]
      BY <1>1 DEF Situations
<1>3. m \in StatementState /\ m.handle = "gone" /\ m.kept = s.stmt.kept
      BY <1>1 DEF StatementState
<1> HIDE DEF m
<1>4. /\ z \in Situations /\ z.stmt = m /\ z.tvp = s.tvp
      /\ z.bound = Nothing /\ z.past = s.past
      BY <1>1, <1>2, <1>3, NothingBound DEF Situations, Foci
<1>5. \A f \in Foci, i \in Params : z.bound[f][i] = NULL
      BY <1>4, NothingBound
<1>6. Closable(z) /\ Focused(z)
      BY <1>3, <1>4 DEF Closable, Focused
<1>7. Recorded(z)
      BY <1>3, <1>4, <1>5 DEF Sound, Recorded
<1>8. Outlives(z)
      BY <1>5 DEF Outlives, Foci
<1>9. QED
      BY <1>4, <1>6, <1>7, <1>8 DEF Sound

\* Every operation keeps the invariant.
LEMMA NextSound == Inv /\ [Next]_vars => Inv'
<1> SUFFICES ASSUME Inv, [Next]_vars
             PROVE  Inv'
    OBVIOUS
<1>1. PICK q : q = Situation
      OBVIOUS
<1>2. /\ Sound(q) /\ q.stmt = stmt /\ q.tvp = tvp /\ q.focus = focus
      /\ q.bound = bound /\ q.past = past
      BY <1>1 DEF Inv, Situation
<1>3. ASSUME NEW t \in Objects, NEW p \in Params, NEW rows \in RowCounts, Construct(t, p, rows)
      PROVE  Inv'
      <2>1. PICK s : s = Owned(q, t, TRUE, TRUE)
            OBVIOUS
      <2>2. Sound(s) /\ s.stmt = stmt
            BY <1>2, <2>1, OwnedSound
      <2>3. PICK o \in Opening(s, t, p, rows) :
              IF ~o.threw THEN Become(o.at)
              ELSE \E s1 \in Dropped([o.at EXCEPT !.tvp[t].held = FALSE]) : Become(s1)
            <3>1. s = [Situation EXCEPT !.tvp[t].made = TRUE, !.tvp[t].held = TRUE]
                  BY <1>1, <2>1 DEF Owned
            <3>2. QED
                  BY <1>3, <3>1 DEF Construct
      <2>4. Sound(o.at)
            BY <1>3, <2>2, OpeningSound DEF Construct, HasStatement
      <2>5. CASE ~o.threw
            BY <2>3, <2>4, <2>5, BecomeSound
      <2>6. CASE o.threw
            <3>1. PICK y : y = [o.at EXCEPT !.tvp[t].held = FALSE]
                  OBVIOUS
            <3>2. PICK z \in Dropped(y) : Become(z)
                  BY <2>3, <2>6, <3>1
            <3>3. Sound(y)
                  BY <2>4, <3>1, ReleasedSound
            <3>4. QED
                  BY <3>2, <3>3, DroppedSound, BecomeSound
      <2>7. QED
            BY <2>5, <2>6
<1>4. ASSUME NEW t \in Objects, NEW p \in Params, NEW rows \in RowCounts, Open(t, p, rows)
      PROVE  Inv'
      <2>1. PICK o \in Opening(q, t, p, rows) : Become(o.at)
            BY <1>1, <1>4 DEF Open, Leads
      <2>2. Sound(o.at)
            BY <1>2, <1>4, OpeningSound DEF Open, HasStatement
      <2>3. QED
            BY <2>1, <2>2, BecomeSound
<1>5. ASSUME NEW t \in Objects, Close(t)
      PROVE  Inv'
      <2>1. PICK o \in Closing(q, t) : Become(o.at)
            BY <1>1, <1>5 DEF Close, Leads
      <2>2. Sound(o.at)
            BY <1>2, ClosingSound
      <2>3. QED
            BY <2>1, <2>2, BecomeSound
<1>6. ASSUME NEW t \in Objects, Release(t)
      PROVE  Inv'
      <2>1. PICK y : y = [q EXCEPT !.tvp[t].held = FALSE]
            OBVIOUS
      <2>2. PICK z \in Dropped(y) : Become(z)
            BY <1>1, <1>6, <2>1 DEF Release
      <2>3. Sound(y)
            BY <1>2, <2>1, ReleasedSound
      <2>4. QED
            BY <2>2, <2>3, DroppedSound, BecomeSound
<1>7. ASSUME NEW t \in Objects, DescribeColumns(t)
      PROVE  Inv'
      <2>1. PICK y : y = Described(q, t)
            OBVIOUS
      <2>2. Become(y)
            BY <1>1, <1>7, <2>1 DEF DescribeColumns, Described
      <2>3. Sound(y)
            BY <1>2, <2>1, DescribedSound
      <2>4. QED
            BY <2>2, <2>3, BecomeSound
<1>8. ASSUME NEW t \in Objects, NEW c \in Columns, BindColumn(t, c)
      PROVE  Inv'
      <2>1. PICK o \in BindingColumn(q, t, c) : Become(o.at)
            BY <1>1, <1>8 DEF BindColumn, Leads
      <2>2. c \in Params
            BY TablesAssumption
      <2>3. Sound(o.at)
            BY <1>2, <1>8, <2>2, BindingColumnSound DEF BindColumn, HasStatement
      <2>4. QED
            BY <2>1, <2>3, BecomeSound
<1>9. ASSUME NEW p \in Params, Bind(p) \/ BindNull(p)
      PROVE  Inv'
      <2>1. PICK o \in BindingParam(q, p) \cup BindingNull(q, p) : Become(o.at)
            BY <1>1, <1>9 DEF Bind, BindNull, Leads
      <2>2. Sound(o.at)
            BY <1>2, BindingParamSound
      <2>3. QED
            BY <2>1, <2>2, BecomeSound
<1>10. CASE CloseStatement
      <2>1. PICK y : y = [q EXCEPT !.stmt.kept = [p \in Params |-> NULL],
                                   !.past.first = [p \in Params |-> NULL]]
            OBVIOUS
      <2>2. Sound(y) /\ y.stmt.handle = "open"
            BY <1>2, <1>10, <2>1, UnkeptSound DEF CloseStatement
      <2>3. PICK s \in Dropped(y) :
              \/ Become(s)
              \/ Become([s EXCEPT !.stmt.handle = "closed", !.focus = NULL, !.bound = Nothing,
                   !.tvp = [t \in Objects |-> [s.tvp[t] EXCEPT !.half = @ \/ s.tvp[t].open]]])
            BY <1>1, <1>10, <2>1 DEF CloseStatement
      <2>4. Sound(s) /\ s.stmt.handle = "open"
            BY <2>2, DroppedSound
      <2>5. PICK z : z = [s EXCEPT !.stmt.handle = "closed", !.focus = NULL, !.bound = Nothing,
                       !.tvp = [t \in Objects |-> [s.tvp[t] EXCEPT !.half = @ \/ s.tvp[t].open]]]
            OBVIOUS
      <2>6. Sound(z)
            BY <2>4, <2>5, ClosedSound
      <2>7. Become(s) \/ Become(z)
            BY <2>3, <2>5
      <2>8. QED
            BY <2>4, <2>6, <2>7, BecomeSound
<1>11. CASE OpenStatement
      <2>1. PICK z : z = [q EXCEPT !.stmt.handle = "open"]
            OBVIOUS
      <2>2. Become(z)
            BY <1>1, <1>11, <2>1 DEF OpenStatement
      <2>3. Sound(z)
            BY <1>2, <1>11, <2>1, ReopenedSound DEF OpenStatement
      <2>4. QED
            BY <2>2, <2>3, BecomeSound
<1>12. CASE DestroyStatement
      <2>1. PICK y : y = [q EXCEPT !.stmt.handle = "gone", !.focus = NULL, !.bound = Nothing]
            OBVIOUS
      <2>2. PICK z \in Dropped(y) : Become(z)
            BY <1>1, <1>12, <2>1 DEF DestroyStatement
      <2>3. Sound(y)
            BY <1>2, <2>1, DestroyedSound
      <2>4. QED
            BY <2>2, <2>3, DroppedSound, BecomeSound
<1>13. CASE UNCHANGED vars
      BY <1>13 DEF Inv, Situation, vars
<1>14. QED
      BY <1>3, <1>4, <1>5, <1>6, <1>7, <1>8, <1>9, <1>10, <1>11, <1>12, <1>13 DEF Next

-----------------------------------------------------------------------------
(* Theorems.                                                               *)

\* The invariant holds always.
LEMMA AlwaysSound == Spec => []Inv
  BY InitSound, NextSound, PTL DEF Spec

\* Type correctness.
THEOREM TypesHold == Spec => []TypeOK
<1>1. Inv => TypeOK
      BY DEF Inv, Sound, Situations, Situation, StatementState, TableState, Binding,
             PastState, Foci, TypeOK
<1>2. QED
      BY <1>1, AlwaysSound, PTL

\* However open(), close() and the destructors interleave and wherever they
\* throw, a statement knows of the one table that is open on it, and, until a
\* destructor ignores a failure, of no other: the refusal to bind can be ended.
THEOREM OneTableOpen == Spec => []RefusesWhileOpen
<1>1. Inv => RefusesWhileOpen
      BY DEF Inv, Sound, Closable, Situation, RefusesWhileOpen, HasStatement
<1>2. QED
      BY <1>1, AlwaysSound, PTL

\* The driver's parameter focus is at the table that is open, and, until a
\* destructor ignores a failure, at no table when none is.
THEOREM FocusFollows == Spec => []FocusFollowsTable
<1>1. Inv => FocusFollowsTable
      <2> SUFFICES ASSUME Inv, HasStatement
                   PROVE  /\ \A t \in Objects : InOrder(Situation, t) => focus = tvp[t].param
                          /\ (\A t \in Objects : ~tvp[t].open) /\ ~past.ignored => focus = NULL
          BY DEF FocusFollowsTable
      <2>1. /\ Situation.stmt = stmt /\ Situation.tvp = tvp /\ Situation.focus = focus
            /\ Situation.past = past
            BY DEF Situation
      <2>2. QED
            BY <2>1 DEF Inv, Sound, Focused, HasStatement
<1>2. QED
      BY <1>1, AlwaysSound, PTL

\* What a table bound is there when the statement executes, whoever has dropped
\* the table object by then.
THEOREM ColumnsOutlive == Spec => []ColumnsOutliveCaller
<1>1. Inv => ColumnsOutliveCaller
      BY DEF Inv, Sound, Outlives, Situation, ColumnsOutliveCaller
<1>2. QED
      BY <1>1, AlwaysSound, PTL
=============================================================================
