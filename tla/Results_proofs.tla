--------------------------- MODULE Results_proofs ---------------------------
(***************************************************************************)
(* What get() and is_null() say of a row, for any number of results on a   *)
(* statement, any result sets, rowset sizes and drivers.                   *)
(*                                                                         *)
(* Everything depends on the object the handle was last prepared for, the  *)
(* holder: that the driver writes to it, to where it looks, and no more    *)
(* than it has room for (Prepared), and that what it has there are the     *)
(* rows at the driver's rowset (Fetched).                                  *)
(***************************************************************************)
EXTENDS Results, TLAPS

Target == [of : Objects \cup {NULL}, data : BOOLEAN]

DriverState ==
  [set : 0..Len(Sets), start : Nat, row : Nat, array : Sizes \cup {1},
   counts : Objects \cup {NULL}, busy : {"no", "yes", "done"},
   target : [1..MaxColumns -> Target]]

\* Where an indicator is: a column, and a row of the rowset.
Cells == (1..MaxColumns) \X Nat

ResultState ==
  [alive : BOOLEAN, size : Sizes \cup {1}, rows : Nat, pos : Nat, unbound : BOOLEAN,
   columns : Nat, whole : BOOLEAN, bound : SUBSET (1..MaxColumns), first : Nat,
   null : SUBSET Cells, reads : {"all", "bound", "none"}]

\* RowsAt, of a driver.
RowsOf(d, s) == IF s > Sets[d.set].rows THEN 0
                ELSE IF s + d.array - 1 <= Sets[d.set].rows THEN d.array
                ELSE Sets[d.set].rows - s + 1

-----------------------------------------------------------------------------
(* The invariant.                                                          *)

\* The position is in the rowset, and at its first row as yet.
Placed(me) == me.pos < me.size /\ (~me.alive => me.pos = 0)

Typed ==
  /\ drv \in DriverState /\ (drv.busy # "no" => drv.set > 0)
  /\ res \in [Objects -> ResultState]
  /\ \A r \in Objects : Placed(res[r])
  /\ holder \in Objects \cup {NULL}
  /\ asked \in [Objects -> {"nothing", "wait", "complete"}]

\* The driver d writes where h, whose members are me, looks; and an object with
\* a column that is not bound keeps the driver's row at its position.
Prepared(d, h, me) ==
  /\ me.alive /\ d.set > 0 /\ me.columns = Sets[d.set].columns
  /\ me.bound \subseteq 1..me.columns
  /\ d.counts = h /\ d.array = me.size
  /\ \A c \in 1..me.columns : d.target[c] = [of |-> h, data |-> c \in me.bound]
  /\ me.bound # 1..me.columns => me.unbound
  /\ me.reads = "all" => me.unbound

\* Before a rowset arrives the object that asked for it is at its first row,
\* and knows of no null.
Awaits(me) == me.reads = "all" => me.pos = 0 /\ me.null = {}

\* Is a value that was fetched into the object also read from there?
Buffered(d, me, c) == c \in me.bound /\ ~(GetsBound /\ c \in Sets[d.set].wide)

\* The object has the rows at the driver's rowset, and knows which are null: of
\* a column it reads with SQLGetData, only nulls that are, if any.
Fetched(d, me) ==
  /\ me.rows = RowsOf(d, d.start)
  /\ \A c \in 1..MaxColumns, i \in Nat :
       i < me.rows /\ Buffered(d, me, c) =>
         /\ me.first = d.start
         /\ <<c, i>> \in me.null <=> d.start + i \in Sets[d.set].null
  /\ me.reads = "all" =>
       /\ me.pos < me.rows => d.row = d.start + me.pos
       /\ \A c \in 1..MaxColumns, i \in Nat :
            i < me.rows /\ c <= me.columns /\ <<c, i>> \in me.null
              => d.start + i \in Sets[d.set].null

\* What holds of an object that is the holder.
Holds(d, h, me) ==
  /\ Prepared(d, h, me)
  /\ me.reads # "none" => IF d.busy = "yes" THEN Awaits(me) ELSE Fetched(d, me)

\* What get() has said is so.
Answered ==
  said # NoAnswer => (said.sure => said.row /\ said.null)

Inv == Typed /\ (holder # NULL => Holds(drv, holder, res[holder])) /\ Answered

-----------------------------------------------------------------------------
(* Rowsets.                                                                *)

\* There is a result set.
LEMMA SetsCounted == Len(Sets) \in Nat /\ Len(Sets) > 0
<1>1. Len(Sets) \in Nat
      BY SetsAssumption
<1>2. Len(Sets) > 0
      BY SetsAssumption
<1>3. QED
      BY <1>1, <1>2

\* The result sets.
LEMMA SetTypes ==
  ASSUME NEW n \in 1..Len(Sets)
  PROVE  /\ Sets[n].rows \in Nat /\ Sets[n].columns \in Nat /\ Sets[n].columns <= MaxColumns
         /\ Sets[n].long \subseteq 1..Sets[n].columns
         /\ Sets[n].null \subseteq 1..Sets[n].rows
<1> DEFINE Shape == [rows : Nat, columns : Nat, long : SUBSET Nat, wide : SUBSET Nat,
                     null : SUBSET Nat]
<1>1. Sets \in Seq(Shape)
      BY SetsAssumption
<1>2. Sets[n] \in Shape
      <2> HIDE DEF Shape
      <2>1. QED
            BY <1>1
<1>3. Sets[n].rows \in Nat /\ Sets[n].columns \in Nat
      BY <1>2
<1>4. QED
      BY <1>3, SetsAssumption

\* A driver with a result set has one of them.
LEMMA HasSet ==
  ASSUME NEW d \in DriverState, d.set > 0
  PROVE  d.set \in 1..Len(Sets)
<1>1. d.set \in 0..Len(Sets)
      BY DEF DriverState
<1>2. QED
      BY <1>1, SetsCounted

\* A rowset has room for a row.
LEMMA SizesPositive == Sizes \cup {1} \subseteq Nat \ {0}
  BY SizesAssumption

\* A rowset has rows if it starts in the result set, and none past its end.
LEMMA RowsOfRowset ==
  ASSUME NEW d \in DriverState, d.set > 0, NEW s \in Nat
  PROVE  /\ RowsOf(d, s) \in Nat
         /\ RowsOf(d, s) > 0 <=> s <= Sets[d.set].rows
<1>1. d.set \in 1..Len(Sets)
      BY HasSet
<1>2. d.array \in Nat \ {0}
      <2>1. d.array \in Sizes \cup {1}
            BY DEF DriverState
      <2>2. QED
            BY <2>1, SizesPositive, Zenon
<1>3. Sets[d.set].rows \in Nat
      BY <1>1, SetTypes
<1>4. QED
      BY <1>2, <1>3 DEF RowsOf

\* The rowset after the one the driver is at starts at a row.
LEMMA StartsAtRow ==
  ASSUME drv \in DriverState, drv.set > 0
  PROVE  NextStart \in Nat /\ NextStart > 0
<1>1. drv.array \in Nat \ {0} /\ drv.start \in Nat
      <2>1. drv.array \in Sizes \cup {1}
            BY DEF DriverState
      <2>2. drv.array \in Nat \ {0}
            BY <2>1, SizesPositive, Zenon
      <2>3. drv.start \in Nat
            BY DEF DriverState
      <2>4. QED
            BY <2>2, <2>3
<1>2. QED
      BY <1>1 DEF NextStart

\* What the driver fills in keeps the types of an object's members, and what
\* they say of binding and position.
LEMMA FilledTypes ==
  ASSUME drv \in DriverState, drv.set > 0, NEW me \in ResultState, NEW q, NEW s \in Nat,
         NEW z, z = Filled(me, q, s)
  PROVE  /\ z \in ResultState
         /\ z.alive = me.alive /\ z.size = me.size /\ z.pos = me.pos /\ z.unbound = me.unbound
         /\ z.columns = me.columns /\ z.bound = me.bound /\ z.reads = me.reads
         /\ z.rows = IF drv.counts = q THEN RowsAt(s) ELSE me.rows
         /\ z.first = IF RowsAt(s) > 0 /\ \E c \in 1..MaxColumns : Fills(q, c)
                      THEN s ELSE me.first
         /\ \A c \in 1..MaxColumns, i \in Nat :
              <<c, i>> \in z.null <=>
                IF Marks(q, c) /\ i < RowsAt(s) THEN s + i \in Current.null
                ELSE <<c, i>> \in me.null
<1>1. RowsAt(s) \in Nat
      BY RowsOfRowset DEF RowsAt, RowsOf, Current
<1> DEFINE new == {cell \in (1..MaxColumns) \X (0..(RowsAt(s) - 1)) :
                     Marks(q, cell[1]) /\ s + cell[2] \in Current.null}
           old == {cell \in me.null : ~Marks(q, cell[1]) \/ cell[2] >= RowsAt(s)}
           rows == IF drv.counts = q THEN RowsAt(s) ELSE me.rows
           first == IF RowsAt(s) > 0 /\ \E c \in 1..MaxColumns : Fills(q, c)
                    THEN s ELSE me.first
<1>2. z = [me EXCEPT !.rows = rows, !.first = first, !.null = new \cup old]
      BY DEF Filled
<1>3. me.null \subseteq Cells
      BY DEF ResultState
<1>4. new \cup old \subseteq Cells
      BY <1>1, <1>3 DEF Cells
<1>5. \A c \in 1..MaxColumns, i \in Nat :
        <<c, i>> \in new \cup old <=>
          IF Marks(q, c) /\ i < RowsAt(s) THEN s + i \in Current.null ELSE <<c, i>> \in me.null
      BY <1>1
<1>6. rows \in Nat /\ first \in Nat
      BY <1>1 DEF ResultState
<1> HIDE DEF new, old, rows, first
<1>7. /\ z \in ResultState
      /\ z.alive = me.alive /\ z.size = me.size /\ z.pos = me.pos /\ z.unbound = me.unbound
      /\ z.columns = me.columns /\ z.bound = me.bound /\ z.reads = me.reads
      /\ z.rows = rows /\ z.first = first /\ z.null = new \cup old
      BY <1>2, <1>4, <1>6 DEF ResultState
<1>8. QED
      BY <1>5, <1>7 DEF rows, first

\* The driver writes the values of a bound column into the object.
LEMMA BoundTarget ==
  ASSUME NEW d, NEW h, NEW me, Prepared(d, h, me), NEW c \in me.bound
  PROVE  c \in 1..Sets[d.set].columns /\ d.target[c].of = h /\ d.target[c].data
<1>1. c \in 1..me.columns /\ me.columns = Sets[d.set].columns
      BY DEF Prepared
<1>2. d.target[c] = [of |-> h, data |-> c \in me.bound]
      BY <1>1 DEF Prepared
<1>3. d.target[c].of = h
      BY <1>2
<1>4. d.target[c].data
      <2>1. (c \in me.bound) = TRUE
            OBVIOUS
      <2>2. d.target[c] = [of |-> h, data |-> TRUE]
            BY <1>2, <2>1, Zenon
      <2>3. QED
            BY <2>2
<1>5. QED
      BY <1>1, <1>3, <1>4

\* A fetch that ends brings the holder the rows at the driver's new rowset, if
\* what the driver was told is so and the object has awaited it.
LEMMA EndsFetched ==
  ASSUME Typed, drv.set > 0, NEW objects \in [Objects -> ResultState],
         \A r \in Objects : Placed(objects[r]),
         holder # NULL => Prepared(drv, holder, objects[holder]) /\ Awaits(objects[holder]),
         Ends(objects)
  PROVE  /\ drv' \in DriverState /\ drv'.set > 0
         /\ res' \in [Objects -> ResultState]
         /\ \A r \in Objects : Placed(res'[r])
         /\ holder # NULL => Holds(drv', holder, res'[holder])
<1> DEFINE s == NextStart
           start == IF RowsAt(s) > 0 THEN s ELSE Current.rows + 1
           row == IF RowsAt(s) > 0 THEN s ELSE 0
           busy == IF drv.busy = "no" THEN "no" ELSE "done"
<1>1. drv \in DriverState /\ s \in Nat /\ s > 0
      BY StartsAtRow DEF Typed
<1>2. Current.rows \in Nat /\ RowsAt(s) \in Nat
      <2>1. drv.set \in 1..Len(Sets)
            BY <1>1, HasSet
      <2>2. Current.rows \in Nat
            BY <2>1, SetTypes DEF Current
      <2>3. RowsAt(s) = RowsOf(drv, s)
            BY DEF RowsAt, RowsOf, Current
      <2>4. QED
            BY <1>1, <2>2, <2>3, RowsOfRowset
<1>3. drv' = [drv EXCEPT !.start = start, !.row = row, !.busy = busy]
      BY DEF Ends
<1>4. start \in Nat /\ row \in Nat /\ busy \in {"no", "yes", "done"} /\ busy # "yes"
      BY <1>1, <1>2
<1> HIDE DEF s, start, row, busy
<1>5. /\ drv' \in DriverState
      /\ drv'.set = drv.set /\ drv'.array = drv.array /\ drv'.counts = drv.counts
      /\ drv'.target = drv.target
      /\ drv'.start = start /\ drv'.row = row /\ drv'.busy = busy
      BY <1>1, <1>3, <1>4 DEF DriverState
<1>6. ASSUME NEW r \in Objects
      PROVE  /\ res'[r] \in ResultState
             /\ LET me == objects[r]
                    z == res'[r]
                IN /\ z.alive = me.alive /\ z.size = me.size /\ z.pos = me.pos
                   /\ z.unbound = me.unbound /\ z.columns = me.columns /\ z.bound = me.bound
                   /\ z.reads = me.reads
                   /\ z.rows = IF drv.counts = r THEN RowsAt(s) ELSE me.rows
                   /\ z.first = IF RowsAt(s) > 0 /\ \E c \in 1..MaxColumns : Fills(r, c)
                                THEN s ELSE me.first
                   /\ \A c \in 1..MaxColumns, i \in Nat :
                        <<c, i>> \in z.null <=>
                          IF Marks(r, c) /\ i < RowsAt(s) THEN s + i \in Current.null
                          ELSE <<c, i>> \in me.null
      <2>1. res'[r] = Filled(objects[r], r, s)
            BY DEF Ends, s
      <2>2. objects[r] \in ResultState
            OBVIOUS
      <2>3. QED
            BY <1>1, <2>1, <2>2, FilledTypes
<1>7. res' \in [Objects -> ResultState] /\ \A r \in Objects : Placed(res'[r])
      <2>1. res' = [q \in Objects |-> res'[q]]
            BY DEF Ends
      <2>2. QED
            BY <1>6, <2>1 DEF Placed
<1>8. ASSUME holder # NULL
      PROVE  Holds(drv', holder, res'[holder])
      <2> DEFINE h == holder
                 me == objects[h]
                 z == res'[h]
      <2>1. h \in Objects
            BY <1>8 DEF Typed
      <2>2. Prepared(drv, h, me) /\ Awaits(me)
            BY <1>8
      <2>3. /\ z.alive = me.alive /\ z.size = me.size /\ z.pos = me.pos
            /\ z.unbound = me.unbound /\ z.columns = me.columns /\ z.bound = me.bound
            /\ z.reads = me.reads /\ z.rows = RowsAt(s)
            BY <1>6, <2>1, <2>2 DEF Prepared
      <2>4. Prepared(drv', h, z)
            BY <1>5, <2>2, <2>3 DEF Prepared
      <2>5. /\ z.first = IF RowsAt(s) > 0 /\ \E c \in 1..MaxColumns : Fills(h, c)
                         THEN s ELSE me.first
            /\ \A c \in 1..MaxColumns, i \in Nat :
                 <<c, i>> \in z.null <=>
                   IF Marks(h, c) /\ i < RowsAt(s) THEN s + i \in Current.null
                   ELSE <<c, i>> \in me.null
            BY <1>6, <2>1
      <2>6. z.rows = RowsOf(drv', drv'.start)
            <3>1. RowsAt(s) = RowsOf(drv', s)
                  BY <1>5 DEF RowsAt, RowsOf, Current
            <3>2. RowsAt(s) > 0 \/ RowsAt(s) = 0
                  BY <1>2
            <3>3. CASE RowsAt(s) > 0
                  BY <1>5, <2>3, <3>1, <3>3 DEF start
            <3>4. CASE RowsAt(s) = 0
                  <4>1. drv'.start = Current.rows + 1
                        BY <1>5, <3>4 DEF start
                  <4>2. RowsOf(drv', Current.rows + 1) = 0
                        BY <1>2, <1>5 DEF RowsOf, Current
                  <4>3. QED
                        BY <2>3, <3>4, <4>1, <4>2
            <3>5. QED
                  BY <3>2, <3>3, <3>4
      <2>7. ASSUME NEW c \in 1..MaxColumns, NEW i \in Nat, i < z.rows
            PROVE  /\ drv'.start = s /\ RowsAt(s) > 0
                   /\ Buffered(drv', z, c) => z.first = s
                   /\ Buffered(drv', z, c) =>
                        (<<c, i>> \in z.null <=> s + i \in Sets[drv'.set].null)
                   /\ z.reads = "all" /\ c <= z.columns /\ <<c, i>> \in z.null =>
                        s + i \in Sets[drv'.set].null
            <3>1. RowsAt(s) > 0 /\ i < RowsAt(s)
                  BY <1>2, <2>3, <2>7
            <3>2. drv'.start = s
                  BY <1>5, <3>1 DEF start
            <3>3. Sets[drv'.set].null = Current.null
                  BY <1>5 DEF Current
            <3>4. Buffered(drv', z, c) => Fills(h, c) /\ Marks(h, c)
                  <4> SUFFICES ASSUME c \in me.bound
                               PROVE  Fills(h, c) /\ Marks(h, c)
                      BY <2>3 DEF Buffered
                  <4>1. c \in 1..Current.columns /\ drv.target[c].of = h /\ drv.target[c].data
                        BY <2>2, BoundTarget DEF Current
                  <4>2. c <= Current.columns
                        BY <4>1
                  <4>3. QED
                        BY <4>1, <4>2 DEF Fills, Marks
            <3>5. Buffered(drv', z, c) => z.first = s
                  BY <2>5, <3>1, <3>4
            <3>6. Buffered(drv', z, c) => (<<c, i>> \in z.null <=> s + i \in Current.null)
                  BY <2>5, <3>1, <3>4
            <3>7. z.reads = "all" /\ <<c, i>> \in z.null => s + i \in Current.null
                  BY <2>2, <2>3, <2>5, <3>1 DEF Awaits
            <3>8. QED
                  BY <3>1, <3>2, <3>3, <3>5, <3>6, <3>7
      <2>8. z.reads = "all" /\ z.pos < z.rows => drv'.row = drv'.start + z.pos
            <3> SUFFICES ASSUME z.reads = "all", z.pos < z.rows
                         PROVE  drv'.row = drv'.start + z.pos
                OBVIOUS
            <3>1. z.pos = 0
                  BY <2>2, <2>3 DEF Awaits
            <3>2. RowsAt(s) > 0
                  BY <1>2, <2>3, <3>1
            <3>3. drv'.row = s /\ drv'.start = s
                  BY <1>5, <3>2 DEF row, start
            <3>4. QED
                  BY <1>1, <3>1, <3>3
      <2> HIDE DEF h, me, z
      <2>9. Fetched(drv', z)
            BY <2>6, <2>7, <2>8 DEF Fetched
      <2>10. QED
            BY <1>4, <1>5, <2>4, <2>9 DEF Holds, h, z
<1>9. QED
      BY <1>5, <1>7, <1>8 

-----------------------------------------------------------------------------
(* Binding.                                                                *)

\* Only the addresses that an object gave are forgotten.
LEMMA ForgetsTypes ==
  ASSUME NEW d \in DriverState, NEW r \in Objects, NEW z, z = Forgets(d, r)
  PROVE  /\ z \in DriverState
         /\ z.set = d.set /\ z.start = d.start /\ z.row = d.row /\ z.array = d.array
         /\ z.counts = d.counts /\ z.busy = d.busy
         /\ \A c \in 1..MaxColumns : d.target[c].of # r => z.target[c] = d.target[c]
<1> DEFINE target == [c \in 1..MaxColumns |->
                        IF d.target[c].of = r THEN NoTarget ELSE d.target[c]]
<1>1. NoTarget \in Target
      BY DEF NoTarget, Target
<1>2. target \in [1..MaxColumns -> Target]
      BY <1>1 DEF DriverState
<1>3. z = [d EXCEPT !.target = target]
      BY DEF Forgets
<1>4. \A c \in 1..MaxColumns : d.target[c].of # r => target[c] = d.target[c]
      OBVIOUS
<1> HIDE DEF target
<1>5. QED
      BY <1>2, <1>3, <1>4 DEF DriverState

\* auto_bind_columns() binds all the columns of the result set, or throws.
LEMMA BindsTypes ==
  ASSUME NEW d \in DriverState, NEW r \in Objects, res[r] \in ResultState,
         NEW n \in 1..Len(Sets), NEW k \in (-1)..(Sets[n].columns + 1),
         NEW b, b = Binds(d, r, n, k)
  PROVE  /\ b.d \in DriverState
         /\ b.d.set = d.set /\ b.d.start = d.start /\ b.d.row = d.row /\ b.d.array = d.array
         /\ b.d.counts = d.counts /\ b.d.busy = d.busy
         /\ b.me \in ResultState
         /\ b.me.alive = res[r].alive /\ b.me.size = res[r].size /\ b.me.pos = res[r].pos
         /\ b.me.reads = "none"
         /\ k = Sets[n].columns + 1 =>
              /\ b.me.columns = Sets[n].columns
              /\ b.me.bound \subseteq 1..Sets[n].columns
              /\ b.me.bound # 1..Sets[n].columns => b.me.unbound
              /\ \A c \in 1..Sets[n].columns :
                   b.d.target[c] = [of |-> r, data |-> c \in b.me.bound]
<1> DEFINE m == Sets[n].columns
           y == Forgets(d, r)
           target == [c \in 1..MaxColumns |->
                        IF c <= k - 1 THEN [of |-> r, data |-> c \notin Sets[n].long]
                        ELSE y.target[c]]
           bound == 1..(k - 1)
           tried == (1..k) \cap (1..m)
           columns == IF k = -1 THEN 0 ELSE m
           whole == k = -1 \/ k >= m
           unbound == res[r].unbound \/ tried \cap Sets[n].long # {}
           me == [res[r] EXCEPT !.columns = columns, !.whole = whole,
                                !.bound = bound \ Sets[n].long,
                                !.first = 0, !.null = {}, !.reads = "none",
                                !.unbound = unbound]
<1>1. m \in Nat /\ m <= MaxColumns /\ MaxColumns \in Nat /\ k \in Int /\ Sets[n].long \subseteq 1..m
      BY SetTypes, ColumnsAssumption
<1>2. b.d = [y EXCEPT !.target = target] /\ b.me = me
      BY DEF Binds, BoundUpTo
<1>3. /\ y \in DriverState
      /\ y.set = d.set /\ y.start = d.start /\ y.row = d.row /\ y.array = d.array
      /\ y.counts = d.counts /\ y.busy = d.busy
      BY ForgetsTypes
<1> HIDE DEF y, m
<1>4. target \in [1..MaxColumns -> Target]
      BY <1>3 DEF DriverState, Target
<1>5. bound \ Sets[n].long \subseteq 1..MaxColumns
      BY <1>1 DEF m
<1>6. ASSUME k = m + 1
      PROVE  /\ bound = 1..m /\ tried = 1..m
             /\ \A c \in 1..m : target[c] = [of |-> r, data |-> c \in bound \ Sets[n].long]
      <2>1. bound = 1..m /\ tried = 1..m
            BY <1>1, <1>6
      <2>2. ASSUME NEW c \in 1..m
            PROVE  target[c] = [of |-> r, data |-> c \in bound \ Sets[n].long]
            <3>1. c \in 1..MaxColumns /\ c <= k - 1
                  BY <1>1, <1>6
            <3>2. target[c] = [of |-> r, data |-> c \notin Sets[n].long]
                  BY <3>1
            <3>3. c \in bound
                  BY <2>1
            <3> HIDE DEF target, bound
            <3>4. CASE c \in Sets[n].long
                  <4>1. (c \notin Sets[n].long) = FALSE /\ (c \in bound \ Sets[n].long) = FALSE
                        BY <3>4
                  <4>2. QED
                        BY <3>2, <4>1, Zenon
            <3>5. CASE c \notin Sets[n].long
                  <4>1. (c \notin Sets[n].long) = TRUE /\ (c \in bound \ Sets[n].long) = TRUE
                        BY <3>3, <3>5
                  <4>2. QED
                        BY <3>2, <4>1, Zenon
            <3>6. QED
                  BY <3>4, <3>5
      <2>3. QED
            BY <2>1, <2>2
<1> HIDE DEF target
<1>7. /\ b.d \in DriverState /\ b.d.target = target
      /\ b.d.set = d.set /\ b.d.start = d.start /\ b.d.row = d.row /\ b.d.array = d.array
      /\ b.d.counts = d.counts /\ b.d.busy = d.busy
      BY <1>2, <1>3, <1>4 DEF DriverState
<1>8. columns \in Nat /\ whole \in BOOLEAN /\ unbound \in BOOLEAN
      BY <1>1
<1>9. (unbound <=> res[r].unbound \/ tried \cap Sets[n].long # {})
      OBVIOUS
<1> HIDE DEF bound, tried, whole, unbound
<1>10. /\ me \in ResultState
       /\ me.alive = res[r].alive /\ me.size = res[r].size /\ me.pos = res[r].pos
       /\ me.reads = "none" /\ me.columns = columns
       /\ me.bound = bound \ Sets[n].long /\ me.unbound = unbound
       BY <1>5, <1>8 DEF ResultState
<1> HIDE DEF me
<1>11. ASSUME k = m + 1
       PROVE  /\ b.me.columns = m
              /\ b.me.bound \subseteq 1..m
              /\ b.me.bound # 1..m => b.me.unbound
              /\ \A c \in 1..m : b.d.target[c] = [of |-> r, data |-> c \in b.me.bound]
       <2>1. columns = m
             BY <1>1, <1>11
       <2>2. b.me.bound = (1..m) \ Sets[n].long
             BY <1>2, <1>6, <1>10, <1>11
       <2>3. b.me.bound # 1..m => (1..m) \cap Sets[n].long # {}
             BY <2>2
       <2>4. b.me.bound # 1..m => b.me.unbound
             BY <1>2, <1>6, <1>9, <1>10, <1>11, <2>3
       <2>5. b.me.bound = bound \ Sets[n].long
             BY <1>2, <1>10
       <2>6. \A c \in 1..m : b.d.target[c] = [of |-> r, data |-> c \in b.me.bound]
             BY <1>6, <1>7, <1>11, <2>5
       <2>7. QED
             BY <1>2, <1>10, <2>1, <2>2, <2>4, <2>6
<1>12. QED
       BY <1>2, <1>7, <1>10, <1>11 DEF m

-----------------------------------------------------------------------------
(* Steps.                                                                  *)

\* An object is made, and becomes the holder, or throws and leaves none.
LEMMA ConstructKeeps ==
  ASSUME Inv, NEW r \in Objects, NEW size \in Sizes, NEW executes \in BOOLEAN,
         Construct(r, size, executes)
  PROVE  Inv'
<1> DEFINE d0 == IF executes THEN [drv EXCEPT !.set = 1, !.start = 0, !.row = 0] ELSE drv
           d1 == [d0 EXCEPT !.array = size]
           d2 == [d1 EXCEPT !.counts = r]
           n == d1.set
           all == Sets[n].columns + 1
           Whole1 == Binds(d2, r, n, all)
           Half(k) == Binds(d2, r, n, k)
<1>1. /\ drv \in DriverState /\ res \in [Objects -> ResultState] /\ res[r] \in ResultState
      /\ drv.busy = "no" /\ ~res[r].alive /\ res[r].pos = 0
      /\ \A q \in Objects : Placed(res[q])
      /\ asked' = asked /\ asked \in [Objects -> {"nothing", "wait", "complete"}]
      /\ said' = NoAnswer
      BY DEF Inv, Typed, Construct, Ready, Placed
<1>2. d0 \in DriverState /\ d0.set > 0 /\ d0.busy = "no"
      <2>1. 1 \in 0..Len(Sets)
            BY SetsCounted
      <2>2. CASE executes
            <3>1. d0 = [drv EXCEPT !.set = 1, !.start = 0, !.row = 0]
                  BY <2>2
            <3> HIDE DEF d0
            <3>2. d0.set = 1 /\ d0.busy = "no"
                  BY <1>1, <3>1 DEF DriverState
            <3>3. d0 \in DriverState
                  BY <1>1, <2>1, <3>1 DEF DriverState
            <3>4. QED
                  BY <3>2, <3>3
      <2>3. CASE ~executes
            BY <1>1, <2>3 DEF Construct
      <2>4. QED
            BY <2>2, <2>3
<1>3. \/ /\ drv' = Whole1.d
         /\ res' = [res EXCEPT ![r] = [Whole1.me EXCEPT !.alive = TRUE, !.size = size]]
         /\ holder' = r
      \/ /\ \/ drv' = d0 \/ drv' = d1
            \/ \E k \in (-1)..(all - 1) : drv' = Forgets([Half(k).d EXCEPT !.counts = NULL], r)
         /\ holder' = NULL /\ res' = res
      BY DEF Construct
<1> HIDE DEF d0
<1>4. d1 \in DriverState /\ d1.set > 0 /\ d1.busy = "no" /\ d1.array = size
      BY <1>2 DEF DriverState
<1> HIDE DEF d1
<1>5. d2 \in DriverState /\ d2.set = n /\ d2.busy = "no" /\ d2.array = size /\ d2.counts = r
      BY <1>4 DEF DriverState
<1>6. n \in 1..Len(Sets)
      BY <1>4, HasSet
<1> HIDE DEF d2, n
<1>7. Sets[n].columns \in Nat /\ all \in (-1)..(Sets[n].columns + 1)
      BY <1>6, SetTypes
<1>8. CASE /\ drv' = Whole1.d
           /\ res' = [res EXCEPT ![r] = [Whole1.me EXCEPT !.alive = TRUE, !.size = size]]
           /\ holder' = r
      <2>1. PICK b : b = Whole1
            OBVIOUS
      <2>2. /\ b.d \in DriverState
            /\ b.d.set = d2.set /\ b.d.array = d2.array
            /\ b.d.counts = d2.counts /\ b.d.busy = d2.busy
            /\ b.me \in ResultState
            /\ b.me.pos = res[r].pos /\ b.me.reads = "none"
            /\ b.me.columns = Sets[n].columns
            /\ b.me.bound \subseteq 1..Sets[n].columns
            /\ b.me.bound # 1..Sets[n].columns => b.me.unbound
            /\ \A c \in 1..Sets[n].columns :
                 b.d.target[c] = [of |-> r, data |-> c \in b.me.bound]
            BY <1>1, <1>5, <1>6, <1>7, <2>1, BindsTypes
      <2> DEFINE me == [b.me EXCEPT !.alive = TRUE, !.size = size]
      <2>3. /\ me \in ResultState /\ me.alive /\ me.size = size /\ me.pos = b.me.pos
            /\ me.reads = "none" /\ me.columns = b.me.columns /\ me.bound = b.me.bound
            /\ me.unbound = b.me.unbound
            BY <2>2 DEF ResultState
      <2>4. drv' = b.d /\ res' = [res EXCEPT ![r] = me]
            BY <1>8, <2>1
      <2> HIDE DEF me
      <2>5. /\ res' \in [Objects -> ResultState]
            /\ \A q \in Objects : res'[q] = IF q = r THEN me ELSE res[q]
            BY <1>1, <2>3, <2>4
      <2>6. size > 0
            BY SizesAssumption
      <2>7. \A q \in Objects : Placed(res'[q])
            BY <1>1, <2>2, <2>3, <2>5, <2>6 DEF Placed
      <2>8. Holds(drv', r, res'[r])
            BY <1>4, <1>5, <2>2, <2>3, <2>4, <2>5 DEF Holds, Prepared, n
      <2>9. Typed'
            BY <1>1, <1>5, <1>8, <2>2, <2>4, <2>5, <2>7 DEF Typed
      <2>10. QED
            BY <1>1, <1>8, <2>8, <2>9 DEF Inv, Answered
<1>9. CASE /\ \/ drv' = d0 \/ drv' = d1
              \/ \E k \in (-1)..(all - 1) : drv' = Forgets([Half(k).d EXCEPT !.counts = NULL], r)
           /\ holder' = NULL /\ res' = res
      <2>1. drv' \in DriverState /\ drv'.busy = "no"
            <3>1. CASE drv' = d0 \/ drv' = d1
                  BY <1>2, <1>4, <3>1
            <3>2. ASSUME NEW k \in (-1)..(all - 1),
                         drv' = Forgets([Half(k).d EXCEPT !.counts = NULL], r)
                  PROVE  drv' \in DriverState /\ drv'.busy = "no"
                  <4>1. PICK b : b = Half(k)
                        OBVIOUS
                  <4>2. k \in (-1)..(Sets[n].columns + 1)
                        BY <1>7
                  <4>3. b.d \in DriverState /\ b.d.busy = "no"
                        BY <1>1, <1>5, <1>6, <4>1, <4>2, BindsTypes
                  <4>4. PICK e : e = [b.d EXCEPT !.counts = NULL]
                        OBVIOUS
                  <4>5. e \in DriverState /\ e.busy = "no"
                        BY <4>3, <4>4 DEF DriverState
                  <4>6. drv' = Forgets(e, r)
                        BY <3>2, <4>1, <4>4
                  <4>7. QED
                        BY <4>5, <4>6, ForgetsTypes
            <3>3. QED
                  BY <1>9, <3>1, <3>2
      <2>2. Typed'
            BY <1>1, <1>9, <2>1 DEF Typed
      <2>3. QED
            BY <1>1, <1>9, <2>2 DEF Inv, Answered
<1>10. QED
      BY <1>3, <1>8, <1>9

\* An object goes, and its addresses with it.
LEMMA DestroyKeeps ==
  ASSUME Inv, NEW r \in Objects, Destroy(r)
  PROVE  Inv'
<1> DEFINE d == [drv EXCEPT !.counts = IF @ = r THEN NULL ELSE @]
<1>1. /\ drv \in DriverState /\ res \in [Objects -> ResultState]
      /\ \A q \in Objects : Placed(res[q])
      /\ asked \in [Objects -> {"nothing", "wait", "complete"}]
      /\ holder \in Objects \cup {NULL}
      BY DEF Inv, Typed
<1>2. /\ d \in DriverState /\ d.set = drv.set /\ d.start = drv.start /\ d.row = drv.row
      /\ d.array = drv.array /\ d.busy = drv.busy /\ d.target = drv.target
      /\ drv.counts # r => d.counts = drv.counts
      BY <1>1 DEF DriverState
<1>3. drv' = Forgets(d, r)
      BY DEF Destroy
<1> HIDE DEF d
<1>4. /\ drv' \in DriverState
      /\ drv'.set = drv.set /\ drv'.start = drv.start /\ drv'.row = drv.row
      /\ drv'.array = drv.array /\ drv'.busy = drv.busy
      /\ drv.counts # r => drv'.counts = drv.counts
      /\ \A c \in 1..MaxColumns : drv.target[c].of # r => drv'.target[c] = drv.target[c]
      BY <1>2, <1>3, ForgetsTypes
<1>5. NewResult \in ResultState /\ Placed(NewResult)
      <2>1. 0 < 1 /\ {} \in SUBSET Cells
            OBVIOUS
      <2>2. QED
            BY <2>1 DEF NewResult, ResultState, Placed
<1>6. /\ res' \in [Objects -> ResultState]
      /\ \A q \in Objects : res'[q] = IF q = r THEN NewResult ELSE res[q]
      BY <1>1, <1>5 DEF Destroy
<1>7. Typed'
      BY <1>1, <1>4, <1>5, <1>6 DEF Typed, Destroy, Inv
<1>8. ASSUME holder' # NULL
      PROVE  Holds(drv', holder', res'[holder'])
      <2> DEFINE h == holder
                 me == res[h]
      <2>1. h \in Objects /\ h # r /\ holder' = h /\ res'[h] = me
            BY <1>1, <1>6, <1>8 DEF Destroy
      <2>2. Holds(drv, h, me)
            BY <1>8, <2>1 DEF Inv, Destroy
      <2> HIDE DEF h, me
      <2>3. me.columns <= MaxColumns /\ me.columns \in Nat
            <3>1. drv.set \in 1..Len(Sets)
                  BY <1>1, <2>2, HasSet DEF Holds, Prepared
            <3>2. QED
                  BY <2>2, <3>1, SetTypes DEF Holds, Prepared
      <2>4. \A c \in 1..me.columns : drv'.target[c] = drv.target[c]
            <3> SUFFICES ASSUME NEW c \in 1..me.columns
                         PROVE  drv'.target[c] = drv.target[c]
                OBVIOUS
            <3>1. c \in 1..MaxColumns
                  BY <2>3, ColumnsAssumption
            <3>2. drv.target[c] = [of |-> h, data |-> c \in me.bound]
                  BY <2>2 DEF Holds, Prepared
            <3>3. drv.target[c].of = h
                  BY <3>2
            <3>4. QED
                  BY <1>4, <2>1, <3>1, <3>3
      <2>5. Prepared(drv', h, me)
            BY <1>4, <2>1, <2>2, <2>4 DEF Holds, Prepared
      <2>6. me.reads # "none" => IF drv'.busy = "yes" THEN Awaits(me) ELSE Fetched(drv', me)
            BY <1>4, <2>2 DEF Holds, Fetched, RowsOf, Buffered
      <2>7. QED
            BY <2>1, <2>5, <2>6 DEF Holds
<1>9. QED
      BY <1>7, <1>8 DEF Inv, Answered, Destroy

\* What the invariant says of the types, in one place.
LEMMA TypesOf ==
  ASSUME Inv
  PROVE  /\ drv \in DriverState /\ (drv.busy # "no" => drv.set > 0)
         /\ res \in [Objects -> ResultState] /\ \A q \in Objects : Placed(res[q])
         /\ holder \in Objects \cup {NULL}
         /\ asked \in [Objects -> {"nothing", "wait", "complete"}]
  BY DEF Inv, Typed

\* The next result set is bound to the object, whole or not.
LEMMA NextResultKeeps ==
  ASSUME Inv, NEW r \in Objects, NextResult(r)
  PROVE  Inv'
<1> DEFINE d1 == [drv EXCEPT !.set = @ + 1, !.start = 0, !.row = 0]
           n == d1.set
           all == Sets[n].columns + 1
<1>1. /\ drv \in DriverState /\ res \in [Objects -> ResultState] /\ res[r] \in ResultState
      /\ drv.busy = "no" /\ res[r].alive
      /\ \A q \in Objects : Placed(res[q])
      /\ asked' = asked /\ asked \in [Objects -> {"nothing", "wait", "complete"}]
      /\ holder \in Objects \cup {NULL}
      /\ said' = NoAnswer /\ drv.set \in 1..(Len(Sets) - 1)
      BY TypesOf DEF NextResult, Ready, Whole
<1>2. /\ d1.set \in 1..Len(Sets) /\ d1 \in DriverState /\ d1.busy = "no"
      /\ d1.counts = drv.counts /\ d1.array = drv.array
      <2>1. drv.set + 1 \in 1..Len(Sets)
            BY <1>1, SetsCounted
      <2>2. d1.set = drv.set + 1
            BY <1>1 DEF DriverState
      <2>3. drv.set + 1 \in 0..Len(Sets)
            BY <2>1
      <2>4. d1 \in DriverState /\ d1.busy = "no" /\ d1.counts = drv.counts /\ d1.array = drv.array
            BY <1>1, <2>3 DEF DriverState
      <2>5. QED
            BY <2>1, <2>2, <2>4
<1>3. PICK k \in {all} \cup (IF MayFail THEN (-1)..all ELSE {}) :
        /\ drv' = Binds(d1, r, n, k).d
        /\ res' = [res EXCEPT ![r] = Binds(d1, r, n, k).me]
        /\ holder' = IF k = all /\ holder = r THEN r ELSE NULL
      BY DEF NextResult
<1>n. n \in 1..Len(Sets)
      BY <1>2
<1> HIDE DEF d1, n
<1>4. Sets[n].columns \in Nat /\ k \in (-1)..(Sets[n].columns + 1)
      <2>1. Sets[n].columns \in Nat
            BY <1>n, SetTypes
      <2>2. QED
            BY <2>1, <1>3
<1>5. PICK b : b = Binds(d1, r, n, k)
      OBVIOUS
<1>6. /\ b.d \in DriverState
      /\ b.d.set = d1.set /\ b.d.array = d1.array /\ b.d.counts = d1.counts
      /\ b.d.busy = d1.busy
      /\ b.me \in ResultState
      /\ b.me.alive = res[r].alive /\ b.me.size = res[r].size /\ b.me.pos = res[r].pos
      /\ b.me.reads = "none"
      /\ k = Sets[n].columns + 1 =>
           /\ b.me.columns = Sets[n].columns
           /\ b.me.bound \subseteq 1..Sets[n].columns
           /\ b.me.bound # 1..Sets[n].columns => b.me.unbound
           /\ \A c \in 1..Sets[n].columns :
                b.d.target[c] = [of |-> r, data |-> c \in b.me.bound]
      <2>1. d1 \in DriverState /\ res[r] \in ResultState
            BY <1>1, <1>2
      <2>2. n \in 1..Len(Sets) /\ k \in (-1)..(Sets[n].columns + 1)
            BY <1>n, <1>4
      <2>3. QED
            BY <1>5, <2>1, <2>2, BindsTypes
<1>7. /\ drv' = b.d /\ res' \in [Objects -> ResultState]
      /\ \A q \in Objects : res'[q] = IF q = r THEN b.me ELSE res[q]
      BY <1>1, <1>3, <1>5, <1>6
<1>8. \A q \in Objects : Placed(res'[q])
      BY <1>1, <1>6, <1>7 DEF Placed
<1>9. holder' # NULL => Holds(drv', holder', res'[holder'])
      <2> SUFFICES ASSUME holder' # NULL
                   PROVE  Holds(drv', r, res'[r]) /\ holder' = r
          OBVIOUS
      <2>1. k = all /\ holder = r /\ holder' = r
            BY <1>3
      <2>2. Prepared(drv, r, res[r])
            <3>1. r # NULL
                  BY ObjectsAssumption
            <3>2. QED
                  BY <2>1, <3>1 DEF Inv, Holds
      <2>3. b.d.counts = r /\ b.d.array = b.me.size
            BY <1>2, <1>6, <2>2 DEF Prepared
      <2>4. b.d.set > 0
            BY <1>2, <1>6
      <2>5. b.d.set = n
            BY <1>6 DEF n
      <2>6. drv' = b.d /\ res'[r] = b.me
            BY <1>7
      <2>7. Prepared(b.d, r, b.me)
            BY <1>1, <1>6, <2>1, <2>3, <2>4, <2>5 DEF Prepared
      <2>8. QED
            BY <1>6, <2>1, <2>6, <2>7 DEF Holds
<1>10. Typed'
       BY <1>1, <1>2, <1>3, <1>6, <1>7, <1>8 DEF Typed
<1>11. QED
       BY <1>1, <1>9, <1>10 DEF Inv, Answered

\* A column is unbound: the driver has only its indicators from then on.
LEMMA UnbindKeeps ==
  ASSUME Inv, NEW r \in Objects, NEW c \in 1..MaxColumns, Unbind(r, c)
  PROVE  Inv'
<1>1. /\ drv \in DriverState /\ res \in [Objects -> ResultState] /\ res[r] \in ResultState
      /\ drv.busy = "no" /\ res[r].alive
      /\ \A q \in Objects : Placed(res[q])
      /\ asked' = asked /\ asked \in [Objects -> {"nothing", "wait", "complete"}]
      /\ holder \in Objects \cup {NULL} /\ said' = NoAnswer
      BY TypesOf DEF Unbind, Ready, Whole
<1>2. CASE /\ c \in res[r].bound
           /\ holder' = IF holder = r THEN holder ELSE NULL
           /\ drv' = [drv EXCEPT !.target[c] = [of |-> r, data |-> FALSE]]
           /\ res' = [res EXCEPT ![r].bound = @ \ {c}, ![r].unbound = TRUE]
      <2> DEFINE me == [res[r] EXCEPT !.bound = @ \ {c}, !.unbound = TRUE]
                 none == [of |-> r, data |-> FALSE]
                 target == [drv.target EXCEPT ![c] = none]
      <2>1. /\ me \in ResultState /\ me.bound = res[r].bound \ {c} /\ me.unbound
            /\ me.alive = res[r].alive /\ me.size = res[r].size /\ me.pos = res[r].pos
            /\ me.rows = res[r].rows /\ me.columns = res[r].columns /\ me.first = res[r].first
            /\ me.null = res[r].null /\ me.reads = res[r].reads
            BY <1>1 DEF ResultState
      <2>2. res' = [res EXCEPT ![r] = me]
            BY <1>1, <1>2 DEF ResultState
      <2>3. drv' = [drv EXCEPT !.target = target]
            BY <1>1, <1>2 DEF DriverState
      <2> HIDE DEF me
      <2>4. none \in Target
            BY DEF Target
      <2>5. /\ target \in [1..MaxColumns -> Target]
            /\ \A j \in 1..MaxColumns : target[j] = IF j = c THEN none ELSE drv.target[j]
            <3>1. drv.target \in [1..MaxColumns -> Target]
                  BY <1>1 DEF DriverState
            <3> HIDE DEF none
            <3>2. QED
                  BY <2>4, <3>1
      <2> HIDE DEF target
      <2>6. /\ drv' \in DriverState /\ drv'.target = target
            /\ drv'.set = drv.set /\ drv'.start = drv.start /\ drv'.row = drv.row
            /\ drv'.array = drv.array /\ drv'.busy = drv.busy /\ drv'.counts = drv.counts
            BY <1>1, <2>3, <2>5 DEF DriverState
      <2>7. /\ res' \in [Objects -> ResultState]
            /\ \A q \in Objects : res'[q] = IF q = r THEN me ELSE res[q]
            BY <1>1, <2>1, <2>2
      <2>8. \A q \in Objects : Placed(res'[q])
            BY <1>1, <2>1, <2>7 DEF Placed
      <2>9. Typed'
            BY <1>1, <1>2, <2>6, <2>7, <2>8 DEF Typed
      <2>10. holder' # NULL => Holds(drv', holder', res'[holder'])
            <3> SUFFICES ASSUME holder' # NULL
                         PROVE  Holds(drv', r, me) /\ holder' = r /\ res'[r] = me
                OBVIOUS
            <3>1. holder = r /\ holder' = r /\ res'[r] = me
                  BY <1>2, <2>7
            <3>2. r # NULL
                  BY ObjectsAssumption
            <3>3. Holds(drv, r, res[r])
                  BY <3>1, <3>2 DEF Inv
            <3>4. me.columns \in Nat /\ me.columns <= MaxColumns
                  BY <1>1, <2>1, <3>3, HasSet, SetTypes DEF Holds, Prepared
            <3>5. \A j \in 1..me.columns : drv'.target[j] = [of |-> r, data |-> j \in me.bound]
                  <4> SUFFICES ASSUME NEW j \in 1..me.columns
                               PROVE  drv'.target[j] = [of |-> r, data |-> j \in me.bound]
                      OBVIOUS
                  <4>1. j \in 1..MaxColumns
                        BY <3>4, ColumnsAssumption
                  <4>2. CASE j = c
                        <5>1. (j \in me.bound) = FALSE
                              BY <2>1, <4>2
                        <5>2. drv'.target[j] = [of |-> r, data |-> FALSE]
                              BY <2>5, <2>6, <4>1, <4>2
                        <5>3. QED
                              BY <5>1, <5>2, Zenon
                  <4>3. CASE j # c
                        <5>1. drv'.target[j] = [of |-> r, data |-> j \in res[r].bound]
                              BY <2>1, <2>5, <2>6, <3>3, <4>1, <4>3 DEF Holds, Prepared
                        <5>2. CASE j \in res[r].bound
                              <6>1. (j \in res[r].bound) = TRUE /\ (j \in me.bound) = TRUE
                                    BY <2>1, <4>3, <5>2
                              <6>2. QED
                                    BY <5>1, <6>1, Zenon
                        <5>3. CASE j \notin res[r].bound
                              <6>1. (j \in res[r].bound) = FALSE /\ (j \in me.bound) = FALSE
                                    BY <2>1, <4>3, <5>3
                              <6>2. QED
                                    BY <5>1, <6>1, Zenon
                        <5>4. QED
                              BY <5>2, <5>3
                  <4>4. QED
                        BY <4>2, <4>3
            <3>6. Prepared(drv', r, me)
                  BY <2>1, <2>6, <3>3, <3>5 DEF Holds, Prepared
            <3>7. me.reads # "none" => IF drv'.busy = "yes" THEN Awaits(me) ELSE Fetched(drv', me)
                  BY <1>1, <2>1, <2>6, <3>3 DEF Holds, Fetched, RowsOf, Buffered
            <3>8. QED
                  BY <3>1, <3>6, <3>7 DEF Holds
      <2>11. QED
            BY <1>1, <2>9, <2>10 DEF Inv, Answered
<1>3. CASE res' = [res EXCEPT ![r].unbound = TRUE] /\ drv' = drv /\ holder' = holder
      <2> DEFINE me == [res[r] EXCEPT !.unbound = TRUE]
      <2>1. /\ me \in ResultState /\ me.bound = res[r].bound /\ me.unbound
            /\ me.alive = res[r].alive /\ me.size = res[r].size /\ me.pos = res[r].pos
            /\ me.rows = res[r].rows /\ me.columns = res[r].columns /\ me.first = res[r].first
            /\ me.null = res[r].null /\ me.reads = res[r].reads
            BY <1>1 DEF ResultState
      <2>2. res' = [res EXCEPT ![r] = me]
            BY <1>3
      <2> HIDE DEF me
      <2>3. /\ res' \in [Objects -> ResultState]
            /\ \A q \in Objects : res'[q] = IF q = r THEN me ELSE res[q]
            BY <1>1, <2>1, <2>2
      <2>4. \A q \in Objects : Placed(res'[q])
            BY <1>1, <2>1, <2>3 DEF Placed
      <2>5. Typed'
            BY <1>1, <1>3, <2>3, <2>4 DEF Typed, Inv
      <2>6. holder # NULL => Holds(drv, holder, res'[holder])
            <3>1. CASE holder = r
                  BY <2>1, <2>3, <3>1 DEF Inv, Holds, Prepared, Awaits, Fetched, Buffered
            <3>2. CASE holder # NULL /\ holder # r
                  BY <1>1, <2>3, <3>2 DEF Inv
            <3>3. QED
                  BY <3>1, <3>2
      <2>7. QED
            BY <1>1, <1>3, <2>5, <2>6 DEF Inv, Answered
<1>4. QED
      BY <1>2, <1>3 DEF Unbind

-----------------------------------------------------------------------------
(* Fetching.                                                               *)

\* z is me but for the position and what get() is said to read.
Keeps(me, z) ==
  /\ z \in ResultState
  /\ z.alive = me.alive /\ z.size = me.size /\ z.rows = me.rows /\ z.unbound = me.unbound
  /\ z.columns = me.columns /\ z.bound = me.bound /\ z.first = me.first /\ z.null = me.null

\* Where the driver's row is matters only to an object that get() is said to
\* read all the columns of.
LEMMA Softened ==
  ASSUME NEW d, NEW h, NEW me, Holds(d, h, me), NEW z, Keeps(me, z), z.reads # "all",
         z.reads = "none" \/ me.reads # "none",
         NEW y, y.set = d.set, y.start = d.start, y.array = d.array, y.counts = d.counts,
         y.busy = d.busy, y.target = d.target
  PROVE  Holds(y, h, z)
  BY DEF Holds, Prepared, Awaits, Fetched, Buffered, RowsOf, Keeps

\* When an object moves the others stay, but that get() is said to read less.
LEMMA MovesTypes ==
  ASSUME res \in [Objects -> ResultState], \A q \in Objects : Placed(res[q]),
         NEW r \in Objects, NEW me \in ResultState, Placed(me), NEW z, z = Moves(r, me)
  PROVE  /\ z \in [Objects -> ResultState] /\ \A q \in Objects : Placed(z[q])
         /\ z[r] = me
         /\ \A q \in Objects : q # r =>
              /\ Keeps(res[q], z[q]) /\ z[q].pos = res[q].pos
              /\ z[q].reads # "all"
              /\ z[q].reads = "none" \/ res[q].reads # "none"
<1> DEFINE Less(q) == [res[q] EXCEPT !.reads = IF @ = "all" THEN "bound" ELSE @]
<1>1. ASSUME NEW q \in Objects
      PROVE  /\ Less(q) \in ResultState /\ Keeps(res[q], Less(q))
             /\ Less(q).pos = res[q].pos /\ Less(q).reads # "all"
             /\ Less(q).reads = "none" \/ res[q].reads # "none"
      <2>1. res[q] \in ResultState
            OBVIOUS
      <2>2. QED
            BY <2>1 DEF Keeps, ResultState
<1> HIDE DEF Less
<1>2. z = [q \in Objects |-> IF q = r THEN me ELSE Less(q)]
      BY DEF Moves, Less
<1>3. z \in [Objects -> ResultState] /\ \A q \in Objects : z[q] = IF q = r THEN me ELSE Less(q)
      BY <1>1, <1>2
<1>4. ASSUME NEW q \in Objects
      PROVE  Placed(z[q])
      <2>1. CASE q = r
            BY <1>3, <2>1
      <2>2. CASE q # r
            <3>1. z[q] = Less(q) /\ Placed(res[q])
                  BY <1>3, <2>2
            <3>2. /\ z[q].alive = res[q].alive /\ z[q].size = res[q].size
                  /\ z[q].pos = res[q].pos
                  BY <1>1, <3>1, Zenon DEF Keeps
            <3>3. QED
                  BY <3>1, <3>2, Zenon DEF Placed
      <2>3. QED
            BY <2>1, <2>2
<1>5. QED
      BY <1>1, <1>3, <1>4

\* An object about to fetch is at the first row, knows of no null, and will
\* read all of its columns if one is not bound.
LEMMA BeforeMoveHolds ==
  ASSUME Inv, NEW r \in Objects, drv.busy = "no"
  PROVE  /\ BeforeMove(r) \in [Objects -> ResultState]
         /\ \A q \in Objects : Placed(BeforeMove(r)[q])
         /\ holder # NULL => /\ Prepared(drv, holder, BeforeMove(r)[holder])
                             /\ Awaits(BeforeMove(r)[holder])
         /\ holder # NULL /\ holder # r => Holds(drv, holder, BeforeMove(r)[holder])
<1> DEFINE reads == IF res[r].bound = 1..res[r].columns THEN "bound" ELSE "all"
           me == [res[r] EXCEPT !.pos = 0, !.null = {}, !.reads = reads]
<1>1. /\ res \in [Objects -> ResultState] /\ \A q \in Objects : Placed(res[q])
      /\ res[r] \in ResultState /\ Placed(res[r])
      /\ holder \in Objects \cup {NULL}
      BY TypesOf
<1>2. reads \in {"all", "bound"} /\ (reads = "all" => res[r].bound # 1..res[r].columns)
      OBVIOUS
<1> HIDE DEF reads
<1>3. /\ me \in ResultState /\ me.pos = 0 /\ me.null = {} /\ me.reads = reads
      /\ me.alive = res[r].alive /\ me.size = res[r].size
      /\ me.unbound = res[r].unbound /\ me.columns = res[r].columns /\ me.bound = res[r].bound
      BY <1>1, <1>2 DEF ResultState
<1>4. Placed(me)
      <2>1. res[r].pos \in Nat /\ res[r].size \in Sizes \cup {1}
            BY <1>1 DEF ResultState
      <2>2. res[r].size \in Nat \ {0}
            BY <2>1, SizesPositive, Zenon
      <2>3. QED
            BY <1>3, <2>2 DEF Placed
<1>5. PICK z : z = BeforeMove(r)
      OBVIOUS
<1>6. z = Moves(r, me)
      BY <1>5 DEF BeforeMove, reads
<1> HIDE DEF me
<1>7. /\ z \in [Objects -> ResultState] /\ \A q \in Objects : Placed(z[q])
      /\ z[r] = me
      /\ \A q \in Objects : q # r =>
           /\ Keeps(res[q], z[q]) /\ z[q].reads # "all"
           /\ z[q].reads = "none" \/ res[q].reads # "none"
      <2>1. PICK y : y = me
            OBVIOUS
      <2>2. y \in ResultState /\ Placed(y) /\ z = Moves(r, y)
            BY <1>3, <1>4, <1>6, <2>1
      <2>3. res \in [Objects -> ResultState] /\ \A q \in Objects : Placed(res[q])
            BY <1>1
      <2>4. z[r] = y
            BY <2>2, <2>3, MovesTypes
      <2>5. z \in [Objects -> ResultState] /\ \A q \in Objects : Placed(z[q])
            BY <2>2, <2>3, MovesTypes
      <2>6. \A q \in Objects : q # r =>
              /\ Keeps(res[q], z[q]) /\ z[q].reads # "all"
              /\ z[q].reads = "none" \/ res[q].reads # "none"
            BY <2>2, <2>3, MovesTypes, SMTT(30)
      <2>7. QED
            BY <2>1, <2>4, <2>5, <2>6
<1>8. CASE holder = r
      <2>1. holder # NULL
            BY <1>8, ObjectsAssumption
      <2>2. Prepared(drv, r, me)
            BY <1>2, <1>3, <1>8, <2>1 DEF Inv, Holds, Prepared
      <2>3. Awaits(me)
            BY <1>3 DEF Awaits
      <2>4. QED
            BY <1>5, <1>7, <1>8, <2>2, <2>3
<1>9. CASE holder # r /\ holder # NULL
      <2>1. holder \in Objects /\ Holds(drv, holder, res[holder])
            BY <1>1, <1>9 DEF Inv
      <2>2. Keeps(res[holder], z[holder]) /\ z[holder].reads # "all"
            /\ (z[holder].reads = "none" \/ res[holder].reads # "none")
            BY <1>7, <1>9, <2>1
      <2>3. Holds(drv, holder, z[holder])
            BY <2>1, <2>2, Softened
      <2>4. Prepared(drv, holder, z[holder]) /\ Awaits(z[holder])
            BY <2>2, <2>3 DEF Holds, Awaits
      <2>5. QED
            BY <1>5, <1>7, <1>9, <2>3, <2>4
<1>10. QED
       BY <1>5, <1>7, <1>8, <1>9

\* A fetch that the driver ends at once.
LEMMA EndsKeeps ==
  ASSUME Inv, NEW r \in Objects, Fetches(r), Ends(BeforeMove(r)),
         asked' \in [Objects -> {"nothing", "wait", "complete"}]
  PROVE  Inv'
<1>1. drv.busy = "no" /\ drv.set > 0 /\ said' = NoAnswer /\ holder' = holder
      BY DEF Fetches, Ready
<1>2. PICK z : z = BeforeMove(r)
      OBVIOUS
<1>3. /\ z \in [Objects -> ResultState] /\ \A q \in Objects : Placed(z[q])
      /\ holder # NULL => Prepared(drv, holder, z[holder]) /\ Awaits(z[holder])
      /\ Ends(z)
      BY <1>1, <1>2, BeforeMoveHolds
<1>4. Typed
      BY DEF Inv
<1>5. /\ drv' \in DriverState /\ drv'.set > 0
      /\ res' \in [Objects -> ResultState]
      /\ \A q \in Objects : Placed(res'[q])
      /\ holder # NULL => Holds(drv', holder, res'[holder])
      BY <1>1, <1>3, <1>4, EndsFetched
<1>6. Typed'
      BY <1>1, <1>4, <1>5 DEF Typed
<1>7. QED
      BY <1>1, <1>5, <1>6 DEF Inv, Answered

\* A fetch that throws.
LEMMA FetchThrowsKeeps ==
  ASSUME Inv, NEW r \in Objects, Fetches(r), FetchThrows(r),
         asked' \in [Objects -> {"nothing", "wait", "complete"}]
  PROVE  Inv'
<1>1. drv.busy = "no" /\ said' = NoAnswer /\ holder' = holder /\ drv' = drv
      BY DEF Fetches, Ready, FetchThrows
<1>2. PICK z : z = BeforeMove(r)
      OBVIOUS
<1>3. /\ z \in [Objects -> ResultState] /\ \A q \in Objects : Placed(z[q])
      /\ holder # NULL => Prepared(drv, holder, z[holder])
      /\ holder # NULL /\ holder # r => Holds(drv, holder, z[holder])
      BY <1>1, <1>2, BeforeMoveHolds
<1> DEFINE me == [z[r] EXCEPT !.reads = "none"]
<1>4. /\ me \in ResultState /\ me.reads = "none" /\ me.pos = z[r].pos
      /\ me.alive = z[r].alive /\ me.size = z[r].size
      /\ me.unbound = z[r].unbound /\ me.columns = z[r].columns /\ me.bound = z[r].bound
      <2>1. z[r] \in ResultState
            BY <1>3
      <2>2. QED
            BY <2>1 DEF ResultState
<1>5. res' = [z EXCEPT ![r] = me]
      <2>1. res' = [z EXCEPT ![r].reads = "none"]
            BY <1>2 DEF FetchThrows
      <2>2. QED
            BY <1>3, <2>1 DEF ResultState
<1> HIDE DEF me
<1>6. /\ res' \in [Objects -> ResultState]
      /\ \A q \in Objects : res'[q] = IF q = r THEN me ELSE z[q]
      BY <1>3, <1>4, <1>5
<1>7. \A q \in Objects : Placed(res'[q])
      BY <1>3, <1>4, <1>6 DEF Placed
<1>8. Typed'
      BY <1>1, <1>6, <1>7 DEF Inv, Typed
<1>9. holder # NULL => Holds(drv, holder, res'[holder])
      <2>1. CASE holder = r /\ holder # NULL
            <3>1. Prepared(drv, r, me)
                  BY <1>3, <1>4, <2>1 DEF Prepared
            <3>2. QED
                  BY <1>4, <1>6, <2>1, <3>1 DEF Holds
      <2>2. CASE holder # r /\ holder # NULL
            <3>1. res'[holder] = z[holder]
                  BY <1>6, <2>2, TypesOf
            <3>2. QED
                  BY <1>3, <2>2, <3>1
      <2>3. QED
            BY <2>1, <2>2
<1>10. QED
       BY <1>1, <1>8, <1>9 DEF Inv, Answered

\* When an object has moved, and with it perhaps the driver's row, what has to
\* be shown is that the invariant holds of that object, if it is the holder.
LEMMA MovedKeeps ==
  ASSUME Inv, NEW r \in Objects, Fetches(r), NEW row \in Nat, drv' = [drv EXCEPT !.row = row],
         NEW me \in ResultState, Placed(me), res' = Moves(r, me),
         asked' \in [Objects -> {"nothing", "wait", "complete"}],
         holder = r => Holds(drv', r, me)
  PROVE  Inv'
<1>1. /\ drv \in DriverState /\ drv.busy = "no" /\ said' = NoAnswer /\ holder' = holder
      /\ res \in [Objects -> ResultState] /\ \A q \in Objects : Placed(res[q])
      /\ holder \in Objects \cup {NULL}
      BY TypesOf DEF Fetches, Ready
<1>2. /\ drv' \in DriverState
      /\ drv'.set = drv.set /\ drv'.start = drv.start /\ drv'.array = drv.array
      /\ drv'.counts = drv.counts /\ drv'.busy = drv.busy /\ drv'.target = drv.target
      BY <1>1 DEF DriverState
<1>3. PICK z : z = res'
      OBVIOUS
<1>4. z[r] = me
      BY <1>1, <1>3, MovesTypes
<1>5. z \in [Objects -> ResultState] /\ \A q \in Objects : Placed(z[q])
      BY <1>1, <1>3, MovesTypes
<1>6. \A q \in Objects : q # r =>
        /\ Keeps(res[q], z[q]) /\ z[q].reads # "all"
        /\ z[q].reads = "none" \/ res[q].reads # "none"
      <2>1. res \in [Objects -> ResultState] /\ \A q \in Objects : Placed(res[q])
            BY <1>1
      <2>2. z = Moves(r, me)
            BY <1>3
      <2>3. QED
            BY <2>1, <2>2, MovesTypes, SMTT(30)
<1>7. ASSUME holder # NULL
      PROVE  Holds(drv', holder, z[holder])
      <2>1. CASE holder = r
            BY <1>4, <2>1
      <2>2. CASE holder # r
            <3>1. holder \in Objects /\ Holds(drv, holder, res[holder])
                  BY <1>1, <1>7 DEF Inv
            <3>2. Keeps(res[holder], z[holder]) /\ z[holder].reads # "all"
                  /\ (z[holder].reads = "none" \/ res[holder].reads # "none")
                  BY <1>6, <2>2, <3>1
            <3>3. PICK y : y = drv'
                  OBVIOUS
            <3>4. Holds(y, holder, z[holder])
                  BY <1>2, <3>1, <3>2, <3>3, Softened
            <3>5. QED
                  BY <3>3, <3>4
      <2>3. QED
            BY <2>1, <2>2
<1>8. Typed'
      BY <1>1, <1>2, <1>3, <1>5 DEF Typed
<1>9. QED
      BY <1>1, <1>3, <1>7, <1>8 DEF Inv, Answered

\* An object that has moved inside the rowset.
LEMMA SteppedTypes ==
  ASSUME NEW me \in ResultState, InRowset(me), NEW z, z = [me EXCEPT !.pos = @ + 1]
  PROVE  Keeps(me, z) /\ z.pos = me.pos + 1 /\ z.pos < z.size /\ z.reads = me.reads
<1> DEFINE pos == me.pos + 1
<1>1. pos \in Nat /\ pos < me.size
      BY DEF ResultState, InRowset
<1>2. z = [me EXCEPT !.pos = pos]
      OBVIOUS
<1> HIDE DEF pos
<1>3. Keeps(me, z) /\ z.pos = pos /\ z.size = me.size /\ z.reads = me.reads
      BY <1>1, <1>2 DEF ResultState, Keeps
<1>4. QED
      BY <1>1, <1>3 DEF pos

\* A step inside the rowset: the driver's row is where the position is, if it
\* is a row and not all columns are bound.
LEMMA StepKeeps ==
  ASSUME Inv, NEW r \in Objects, Fetches(r), InRowset(res[r]),
         Step(r, [res[r] EXCEPT !.pos = @ + 1]),
         asked' \in [Objects -> {"nothing", "wait", "complete"}]
  PROVE  Inv'
<1> DEFINE me == [res[r] EXCEPT !.pos = @ + 1]
           row == IF Follows(me) THEN drv.start + me.pos ELSE drv.row
<1>1. /\ drv \in DriverState /\ drv.busy = "no" /\ res[r] \in ResultState /\ Placed(res[r])
      /\ res[r].alive
      BY TypesOf DEF Fetches, Ready, Whole
<1>2. /\ Keeps(res[r], me)
      /\ me.pos = res[r].pos + 1 /\ me.pos < me.size /\ me.reads = res[r].reads
      /\ me \in ResultState
      <2>1. PICK z : z = me
            OBVIOUS
      <2>2. Keeps(res[r], z) /\ z.pos = res[r].pos + 1 /\ z.pos < z.size /\ z.reads = res[r].reads
            BY <1>1, <2>1, SteppedTypes, ZenonT(40)
      <2>3. z \in ResultState
            BY <2>2 DEF Keeps
      <2> HIDE DEF me
      <2>4. QED
            BY <2>1, <2>2, <2>3
<1>3. res' = Moves(r, me) /\ (Follows(me) => drv' = [drv EXCEPT !.row = drv.start + me.pos])
      /\ (~Follows(me) => drv' = drv)
      BY DEF Step
<1> HIDE DEF me
<1>4. row \in Nat /\ drv' = [drv EXCEPT !.row = row]
      <2>1. drv.start \in Nat /\ drv.row \in Nat /\ me.pos \in Nat
            BY <1>1, <1>2 DEF DriverState, ResultState
      <2>2. CASE Follows(me)
            BY <1>3, <2>1, <2>2
      <2>3. CASE ~Follows(me)
            BY <1>1, <1>3, <2>1, <2>3 DEF DriverState
      <2>4. QED
            BY <2>2, <2>3
<1>5. Placed(me)
      BY <1>1, <1>2 DEF Placed, Keeps
<1>6. ASSUME holder = r
      PROVE  Holds(drv', r, me)
      <2>1. Holds(drv, r, res[r])
            <3>1. r # NULL
                  BY ObjectsAssumption
            <3>2. QED
                  BY <1>6, <3>1 DEF Inv
      <2>2. /\ drv'.set = drv.set /\ drv'.start = drv.start /\ drv'.array = drv.array
            /\ drv'.counts = drv.counts /\ drv'.busy = drv.busy /\ drv'.target = drv.target
            /\ drv'.row = row
            <3> HIDE DEF row
            <3>1. QED
                  BY <1>1, <1>4 DEF DriverState
      <2>3. Prepared(drv', r, me)
            BY <1>2, <2>1, <2>2 DEF Holds, Prepared, Keeps
      <2>4. ASSUME me.reads # "none"
            PROVE  Fetched(drv', me)
            <3>1. Fetched(drv, res[r])
                  BY <1>1, <1>2, <2>1, <2>4 DEF Holds
            <3>2. me.reads = "all" /\ me.pos < me.rows => drv'.row = drv'.start + me.pos
                  BY <2>2, <2>3 DEF Prepared, Follows
            <3> HIDE DEF row
            <3>3. QED
                  BY <1>2, <2>2, <3>1, <3>2 DEF Fetched, Buffered, RowsOf, Keeps
      <2>5. QED
            BY <1>1, <2>2, <2>3, <2>4 DEF Holds
<1>7. QED
      <2> HIDE DEF row
      <2>1. PICK w \in Nat : drv' = [drv EXCEPT !.row = w]
            BY <1>4
      <2>2. QED
            BY <1>2, <1>3, <1>5, <1>6, <2>1, MovedKeeps

\* A step that throws, with the position moved.
LEMMA StepThrowsKeeps ==
  ASSUME Inv, NEW r \in Objects, Fetches(r), InRowset(res[r]), StepThrows(r),
         asked' \in [Objects -> {"nothing", "wait", "complete"}]
  PROVE  Inv'
<1> DEFINE moved == [res[r] EXCEPT !.pos = @ + 1]
           me == [moved EXCEPT !.reads = IF @ = "all" THEN "bound" ELSE @]
<1>1. /\ drv \in DriverState /\ drv.busy = "no" /\ res[r] \in ResultState /\ Placed(res[r])
      /\ res[r].alive
      BY TypesOf DEF Fetches, Ready, Whole
<1>2. /\ moved \in ResultState /\ moved.pos = res[r].pos + 1 /\ moved.pos < moved.size
      /\ Keeps(res[r], moved) /\ moved.reads = res[r].reads
      <2>1. PICK z : z = moved
            OBVIOUS
      <2>2. Keeps(res[r], z) /\ z.pos = res[r].pos + 1 /\ z.pos < z.size /\ z.reads = res[r].reads
            BY <1>1, <2>1, SteppedTypes, ZenonT(40)
      <2>3. z \in ResultState
            BY <2>2 DEF Keeps
      <2> HIDE DEF moved
      <2>4. QED
            BY <2>1, <2>2, <2>3
<1>3. res' = Moves(r, me) /\ drv' = drv
      BY DEF StepThrows
<1> HIDE DEF moved
<1>4. /\ Keeps(moved, me) /\ me.pos = moved.pos /\ me.reads # "all"
      /\ (me.reads = "none" \/ moved.reads # "none")
      BY <1>2 DEF ResultState, Keeps
<1> HIDE DEF me
<1>5. me \in ResultState /\ Placed(me)
      BY <1>1, <1>2, <1>4 DEF Keeps, Placed
<1>6. ASSUME holder = r
      PROVE  Holds(drv', r, me)
      <2>1. Holds(drv, r, res[r])
            <3>1. r # NULL
                  BY ObjectsAssumption
            <3>2. QED
                  BY <1>6, <3>1 DEF Inv
      <2>2. PICK z : z = me
            OBVIOUS
      <2>3. Keeps(res[r], z) /\ z.reads # "all" /\ (z.reads = "none" \/ res[r].reads # "none")
            BY <1>2, <1>4, <2>2 DEF Keeps
      <2>4. Holds(drv, r, z)
            BY <2>1, <2>3, Softened
      <2>5. QED
            BY <1>3, <2>2, <2>4
<1>7. drv.row \in Nat /\ drv' = [drv EXCEPT !.row = drv.row]
      BY <1>1, <1>3 DEF DriverState
<1>8. QED
      <2>1. PICK w \in Nat : drv' = [drv EXCEPT !.row = w]
            BY <1>7
      <2>2. QED
            BY <1>3, <1>5, <1>6, <2>1, MovedKeeps

\* next().
LEMMA NextIsKept ==
  ASSUME Inv, NEW r \in Objects, Next(r)
  PROVE  Inv'
<1>1. asked' \in [Objects -> {"nothing", "wait", "complete"}] /\ Fetches(r)
      BY TypesOf DEF Next
<1>2. CASE InRowset(res[r])
      BY <1>1, <1>2, StepKeeps, StepThrowsKeeps DEF Next
<1>3. CASE ~InRowset(res[r])
      BY <1>1, <1>3, EndsKeeps, FetchThrowsKeeps DEF Next
<1>4. QED
      BY <1>2, <1>3

\* The driver starts to fetch.
LEMMA StartsKeeps ==
  ASSUME Inv, NEW r \in Objects, Fetches(r), res' = BeforeMove(r),
         drv' = [drv EXCEPT !.busy = "yes"],
         asked' \in [Objects -> {"nothing", "wait", "complete"}]
  PROVE  Inv'
<1>1. /\ drv \in DriverState /\ drv.busy = "no" /\ drv.set > 0 /\ said' = NoAnswer
      /\ holder' = holder /\ holder \in Objects \cup {NULL}
      BY TypesOf DEF Fetches, Ready
<1>2. PICK z : z = BeforeMove(r)
      OBVIOUS
<1>3. /\ z \in [Objects -> ResultState] /\ \A q \in Objects : Placed(z[q])
      /\ holder # NULL => Prepared(drv, holder, z[holder]) /\ Awaits(z[holder])
      BY <1>1, <1>2, BeforeMoveHolds
<1>4. /\ drv' \in DriverState
      /\ drv'.set = drv.set /\ drv'.array = drv.array /\ drv'.counts = drv.counts
      /\ drv'.busy = "yes" /\ drv'.target = drv.target
      BY <1>1 DEF DriverState
<1>5. holder # NULL => Holds(drv', holder, z[holder])
      BY <1>3, <1>4 DEF Holds, Prepared
<1>6. Typed'
      BY <1>1, <1>2, <1>3, <1>4 DEF Typed
<1>7. QED
      BY <1>1, <1>2, <1>5, <1>6 DEF Inv, Answered

\* async_next().
LEMMA AsyncNextKeeps ==
  ASSUME Inv, NEW r \in Objects, AsyncNext(r)
  PROVE  Inv'
<1>1. Fetches(r) /\ asked \in [Objects -> {"nothing", "wait", "complete"}]
      BY TypesOf DEF AsyncNext
<1>2. \A answer : Told(answer) \in {"nothing", "wait", "complete"}
      BY DEF Told
<1>3. asked' \in [Objects -> {"nothing", "wait", "complete"}]
      BY <1>1, <1>2 DEF AsyncNext
<1>4. CASE InRowset(res[r])
      BY <1>1, <1>3, <1>4, StepKeeps, StepThrowsKeeps DEF AsyncNext
<1>5. CASE ~InRowset(res[r])
      BY <1>1, <1>3, <1>5, EndsKeeps, FetchThrowsKeeps, StartsKeeps DEF AsyncNext
<1>6. QED
      BY <1>4, <1>5

\* The driver ends the fetch, or fails it.
LEMMA DriverFinishesKeeps ==
  ASSUME Inv, DriverFinishes
  PROVE  Inv'
<1>1. /\ drv \in DriverState /\ drv.busy = "yes" /\ drv.set > 0
      /\ res \in [Objects -> ResultState] /\ \A q \in Objects : Placed(res[q])
      /\ holder' = holder /\ holder \in Objects \cup {NULL} /\ said' = NoAnswer
      /\ asked' = asked /\ asked \in [Objects -> {"nothing", "wait", "complete"}]
      BY TypesOf DEF DriverFinishes
<1>2. holder # NULL => Prepared(drv, holder, res[holder]) /\ Awaits(res[holder])
      BY <1>1 DEF Inv, Holds, Awaits
<1>3. CASE Ends(res)
      <2>1. /\ drv' \in DriverState /\ drv'.set > 0
            /\ res' \in [Objects -> ResultState]
            /\ \A q \in Objects : Placed(res'[q])
            /\ holder # NULL => Holds(drv', holder, res'[holder])
            <3>1. Typed
                  BY DEF Inv
            <3>2. QED
                  BY <1>1, <1>2, <1>3, <3>1, EndsFetched
      <2>2. Typed'
            BY <1>1, <2>1 DEF Typed
      <2>3. QED
            BY <1>1, <2>1, <2>2 DEF Inv, Answered
<1>4. CASE /\ drv' = [drv EXCEPT !.busy = "done"]
           /\ res' = [q \in Objects |-> [res[q] EXCEPT !.reads = "none"]]
      <2>1. /\ drv' \in DriverState
            /\ drv'.set = drv.set /\ drv'.array = drv.array /\ drv'.counts = drv.counts
            /\ drv'.target = drv.target
            BY <1>1, <1>4 DEF DriverState
      <2> DEFINE None(q) == [res[q] EXCEPT !.reads = "none"]
      <2>2. ASSUME NEW q \in Objects
            PROVE  Keeps(res[q], None(q)) /\ None(q).pos = res[q].pos /\ None(q).reads = "none"
            <3>1. res[q] \in ResultState
                  BY <1>1
            <3>2. QED
                  BY <3>1 DEF ResultState, Keeps
      <2>3. \A q \in Objects : res'[q] = None(q)
            BY <1>4
      <2>4. res' = [q \in Objects |-> res'[q]]
            BY <1>4
      <2> HIDE DEF None
      <2>5. res' \in [Objects -> ResultState] /\ \A q \in Objects : Placed(res'[q])
            BY <1>1, <2>2, <2>3, <2>4 DEF Keeps, Placed
      <2>6. Typed'
            BY <1>1, <2>1, <2>5 DEF Typed
      <2>7. holder # NULL => Holds(drv', holder, res'[holder])
            BY <1>1, <1>2, <2>1, <2>2, <2>3 DEF Holds, Prepared, Keeps
      <2>8. QED
            BY <1>1, <2>6, <2>7 DEF Inv, Answered
<1>5. QED
      BY <1>3, <1>4 DEF DriverFinishes

\* complete_next().
LEMMA CompleteNextKeeps ==
  ASSUME Inv, NEW r \in Objects, CompleteNext(r)
  PROVE  Inv'
<1>1. /\ drv \in DriverState /\ (drv.busy # "no" => drv.set > 0)
      /\ res' = res /\ res \in [Objects -> ResultState] /\ \A q \in Objects : Placed(res[q])
      /\ holder' = holder /\ holder \in Objects \cup {NULL} /\ said' = NoAnswer
      /\ asked \in [Objects -> {"nothing", "wait", "complete"}]
      BY TypesOf DEF CompleteNext
<1>2. asked' \in [Objects -> {"nothing", "wait", "complete"}]
      BY <1>1 DEF CompleteNext
<1>3. CASE drv.busy = "done" /\ drv' = [drv EXCEPT !.busy = "no"]
      <2>1. /\ drv' \in DriverState
            /\ drv'.set = drv.set /\ drv'.start = drv.start /\ drv'.row = drv.row
            /\ drv'.array = drv.array /\ drv'.counts = drv.counts
            /\ drv'.target = drv.target /\ drv'.busy = "no"
            BY <1>1, <1>3 DEF DriverState
      <2>2. Typed'
            BY <1>1, <1>2, <2>1 DEF Typed
      <2>3. holder # NULL => Holds(drv', holder, res[holder])
            BY <1>3, <2>1 DEF Inv, Holds, Prepared, Fetched, Buffered, RowsOf
      <2>4. QED
            BY <1>1, <2>2, <2>3 DEF Inv, Answered
<1>4. CASE drv' = drv
      BY <1>1, <1>2, <1>4 DEF Inv, Typed, Answered
<1>5. QED
      BY <1>3, <1>4 DEF CompleteNext

-----------------------------------------------------------------------------
(* Reading.                                                                *)

\* What is_null() and get() learn, in new, is about the column that is asked
\* for, if the driver is asked; and it is so if the driver is at the row.
Learned(r, me, c, before, after, new) ==
  /\ new \ {<<c, me.pos>>} = me.null \ {<<c, me.pos>>}
  /\ Buffered(drv, me, c) => new = me.null /\ before = me.null /\ after = me.null
  /\ me.reads = "all" =>
       /\ drv.row = drv.start + me.pos
       /\ <<c, me.pos>> \in new => drv.start + me.pos \in Current.null
       /\ NullWhenRead(c, me.pos, before, after) => drv.start + me.pos \in Current.null
       /\ drv.start + me.pos \in Current.null /\ ReadsDriver(r, c)
            => NullWhenRead(c, me.pos, before, after)

\* They learn that.
LEMMA Learns ==
  ASSUME NEW r \in Objects, NEW me \in ResultState, me = res[r], NEW c \in 1..MaxColumns,
         drv.busy = "no", Fetched(drv, me), c <= me.columns, me.pos < me.rows,
         NEW before \in AfterAsking(r, c),
         NEW after,
         after = IF ReadsDriver(r, c) /\ drv.row \in Current.null
                 THEN before \cup {<<c, me.pos>>} ELSE before,
         NEW new, new \in {before, after}
  PROVE  Learned(r, me, c, before, after, new)
<1>1. me.pos \in Nat /\ me.null \subseteq Cells
      BY DEF ResultState
<1>2. Buffered(drv, me, c) <=> ~ReadsDriver(r, c)
      BY DEF Buffered, ReadsDriver, Current
<1>3. \/ before = me.null
      \/ /\ c \notin me.bound /\ drv.row \in Current.null
         /\ before = me.null \cup {<<c, me.pos>>}
      \/ /\ c \notin me.bound /\ drv.row \notin Current.null
         /\ before = me.null \ {<<c, me.pos>>}
      BY DEF AfterAsking
<1>4. new \ {<<c, me.pos>>} = me.null \ {<<c, me.pos>>}
      BY <1>3
<1>5. Buffered(drv, me, c) => new = me.null /\ before = me.null /\ after = me.null
      BY <1>2, <1>3 DEF Buffered
<1>6. ASSUME me.reads = "all"
      PROVE  /\ drv.row = drv.start + me.pos
             /\ <<c, me.pos>> \in me.null => drv.start + me.pos \in Current.null
      BY <1>1, <1>6 DEF Fetched, Current
<1>7. ASSUME me.reads = "all", <<c, me.pos>> \in before \/ <<c, me.pos>> \in after
      PROVE  drv.start + me.pos \in Current.null
      BY <1>3, <1>6, <1>7
<1>8. ASSUME drv.row \in Current.null, ReadsDriver(r, c)
      PROVE  <<c, me.pos>> \in after
      BY <1>8
<1>9. QED
      BY <1>4, <1>5, <1>6, <1>7, <1>8 DEF Learned, NullWhenRead

\* get() and is_null().
LEMMA GetKeeps ==
  ASSUME Inv, NEW r \in Objects, NEW c \in 1..MaxColumns, Get(r, c)
  PROVE  Inv'
<1>1. /\ drv \in DriverState /\ drv.busy = "no" /\ drv.set > 0
      /\ res \in [Objects -> ResultState] /\ res[r] \in ResultState
      /\ \A q \in Objects : Placed(res[q])
      /\ holder \in Objects \cup {NULL}
      /\ asked \in [Objects -> {"nothing", "wait", "complete"}]
      /\ drv' = drv /\ holder' = holder /\ asked' = asked
      /\ c <= res[r].columns /\ res[r].pos < res[r].rows
      BY TypesOf DEF Get, Ready
<1>2. PICK me : me = res[r]
      OBVIOUS
<1> DEFINE asks == ReadsDriver(r, c)
           row == IF asks THEN drv.row ELSE me.first + me.pos
           After(before) == IF asks /\ drv.row \in Current.null
                            THEN before \cup {<<c, me.pos>>} ELSE before
<1>3. PICK before \in AfterAsking(r, c) :
        /\ res' = [res EXCEPT ![r].null =
                     IF <<c, me.pos>> \in before THEN before ELSE After(before)]
        /\ said' = [by |-> r,
                    row |-> row = drv.start + me.pos,
                    null |-> NullWhenRead(c, me.pos, before, After(before))
                               <=> drv.start + me.pos \in Current.null,
                    sure |-> holder = r /\ me.reads \in {"all"} \cup
                               (IF asks THEN {} ELSE {"bound"})]
      BY <1>2 DEF Get
<1>4. PICK after : after = After(before)
      OBVIOUS
<1>5. PICK new \in {before, after} : res' = [res EXCEPT ![r].null = new]
      BY <1>3, <1>4
<1>6. before \subseteq Cells /\ new \subseteq Cells
      <2>1. <<c, me.pos>> \in Cells /\ me.null \subseteq Cells
            BY <1>1, <1>2 DEF ResultState, Cells
      <2>2. before \subseteq me.null \cup {<<c, me.pos>>}
            BY <1>2 DEF AfterAsking
      <2>3. after \subseteq before \cup {<<c, me.pos>>}
            BY <1>4
      <2>4. QED
            BY <1>5, <2>1, <2>2, <2>3
<1> DEFINE z == [me EXCEPT !.null = new]
<1>7. /\ z \in ResultState /\ z.null = new
      /\ z.alive = me.alive /\ z.size = me.size /\ z.pos = me.pos /\ z.rows = me.rows
      /\ z.unbound = me.unbound /\ z.columns = me.columns /\ z.bound = me.bound
      /\ z.first = me.first /\ z.reads = me.reads
      BY <1>1, <1>2, <1>6 DEF ResultState
<1>8. res' = [res EXCEPT ![r] = z]
      BY <1>1, <1>2, <1>5 DEF ResultState
<1> HIDE DEF z
<1>9. /\ res' \in [Objects -> ResultState]
      /\ \A q \in Objects : res'[q] = IF q = r THEN z ELSE res[q]
      BY <1>1, <1>7, <1>8
<1>10. Typed'
      <2>1. \A q \in Objects : Placed(res'[q])
            BY <1>1, <1>2, <1>7, <1>9 DEF Placed
      <2>2. QED
            BY <1>1, <1>9, <2>1 DEF Typed
<1>11. ASSUME holder = r
       PROVE  Holds(drv, r, me)
       <2>1. r # NULL
             BY ObjectsAssumption
       <2>2. QED
             BY <1>2, <1>11, <2>1 DEF Inv
<1>12. ASSUME holder = r, me.reads # "none"
       PROVE  Fetched(drv, me) /\ Learned(r, me, c, before, after, new)
       <2>1. Fetched(drv, me)
             BY <1>1, <1>11, <1>12 DEF Holds
       <2>2. me \in ResultState /\ c <= me.columns /\ me.pos < me.rows
             BY <1>1, <1>2
       <2>3. after = IF ReadsDriver(r, c) /\ drv.row \in Current.null
                     THEN before \cup {<<c, me.pos>>} ELSE before
             BY <1>4
       <2>4. before \in AfterAsking(r, c) /\ new \in {before, after}
             BY <1>3, <1>5
       <2>5. drv.busy = "no"
             BY <1>1
       <2> HIDE DEF After
       <2>6. Learned(r, me, c, before, after, new)
             BY <1>2, <2>1, <2>2, <2>3, <2>4, <2>5, Learns, ZenonT(40)
       <2>7. QED
             BY <2>1, <2>6
<1>13. ASSUME holder # NULL
       PROVE  Holds(drv, holder, res'[holder])
       <2>1. CASE holder # r
             BY <1>1, <1>9, <1>13, <2>1 DEF Inv
       <2>2. CASE holder = r
             <3>1. Prepared(drv, r, z)
                   BY <1>7, <1>11, <2>2 DEF Holds, Prepared
             <3>2. ASSUME me.reads # "none"
                   PROVE  Fetched(drv, z)
                   <4>1. \A j \in 1..MaxColumns : Buffered(drv, z, j) <=> Buffered(drv, me, j)
                         BY <1>7 DEF Buffered
                   <4>2. ASSUME NEW j \in 1..MaxColumns, NEW i \in Nat, i < z.rows
                         PROVE  /\ Buffered(drv, z, j) =>
                                     /\ z.first = drv.start
                                     /\ <<j, i>> \in z.null
                                          <=> drv.start + i \in Sets[drv.set].null
                                /\ z.reads = "all" /\ j <= z.columns /\ <<j, i>> \in z.null
                                     => drv.start + i \in Sets[drv.set].null
                         <5>1. /\ Buffered(drv, me, j) =>
                                    /\ me.first = drv.start
                                    /\ <<j, i>> \in me.null
                                         <=> drv.start + i \in Sets[drv.set].null
                               /\ me.reads = "all" /\ j <= me.columns /\ <<j, i>> \in me.null
                                    => drv.start + i \in Sets[drv.set].null
                               BY <1>7, <1>12, <2>2, <3>2, <4>2 DEF Fetched
                         <5>2. CASE j = c /\ i = me.pos
                               <6>1. Buffered(drv, me, c) => new = me.null
                                     BY <1>12, <2>2, <3>2 DEF Learned
                               <6>2. me.reads = "all" /\ <<c, me.pos>> \in new
                                       => drv.start + me.pos \in Sets[drv.set].null
                                     BY <1>12, <2>2, <3>2 DEF Learned, Current
                               <6>3. QED
                                     BY <1>7, <4>1, <5>1, <5>2, <6>1, <6>2
                         <5>3. CASE ~(j = c /\ i = me.pos)
                               <6>1. <<j, i>> \in new <=> <<j, i>> \in me.null
                                     <7>1. <<j, i>> # <<c, me.pos>>
                                           BY <5>3
                                     <7>2. QED
                                           BY <1>12, <2>2, <3>2, <7>1 DEF Learned
                               <6>2. QED
                                     BY <1>7, <4>1, <5>1, <6>1
                         <5>4. QED
                               BY <5>2, <5>3
                   <4>3. z.rows = RowsOf(drv, drv.start)
                         BY <1>7, <1>12, <2>2, <3>2 DEF Fetched
                   <4>4. z.reads = "all" => drv.row = drv.start + z.pos
                         BY <1>7, <1>12, <2>2, <3>2 DEF Learned
                   <4>5. QED
                         BY <4>2, <4>3, <4>4 DEF Fetched
             <3>3. QED
                   BY <1>1, <1>7, <1>9, <2>2, <3>1, <3>2 DEF Holds
       <2>3. QED
             BY <2>1, <2>2
<1> DEFINE right == row = drv.start + me.pos
           agrees == NullWhenRead(c, me.pos, before, after)
                       <=> drv.start + me.pos \in Current.null
           sure == holder = r /\ me.reads \in {"all"} \cup (IF asks THEN {} ELSE {"bound"})
<1>14. ASSUME sure
       PROVE  right /\ agrees
       <2>1. holder = r /\ me.reads # "none" /\ (me.reads = "all" \/ ~asks)
             BY <1>14
       <2>2. CASE asks
             BY <1>12, <2>1, <2>2 DEF Learned
       <2>3. CASE ~asks
             <3>1. Buffered(drv, me, c)
                   BY <1>2, <2>3 DEF Buffered, ReadsDriver, Current
             <3>2. me.pos \in Nat /\ me.pos < me.rows
                   BY <1>1, <1>2 DEF ResultState
             <3>3. /\ me.first = drv.start
                   /\ <<c, me.pos>> \in me.null <=> drv.start + me.pos \in Current.null
                   BY <1>12, <2>1, <3>1, <3>2 DEF Fetched, Current
             <3>4. before = me.null /\ after = me.null
                   BY <1>12, <2>1, <3>1 DEF Learned
             <3>5. QED
                   BY <2>3, <3>3, <3>4 DEF NullWhenRead
       <2>4. QED
             BY <2>2, <2>3
<1>15. said' = [by |-> r, row |-> right, null |-> agrees, sure |-> sure]
       BY <1>3, <1>4
<1>16. {right, agrees, sure} \subseteq BOOLEAN
       OBVIOUS
<1> HIDE DEF right, agrees, sure
<1>17. said'.row = right /\ said'.null = agrees /\ said'.sure = sure
       BY <1>15
<1>18. Answered'
       <2>1. sure => right /\ agrees
             BY <1>14
       <2>2. said'.sure => said'.row /\ said'.null
             BY <1>17, <2>1, Zenon
       <2>3. QED
             BY <2>2 DEF Answered
<1>19. QED
       BY <1>1, <1>10, <1>13, <1>18 DEF Inv

-----------------------------------------------------------------------------
(* The theorems.                                                           *)

\* No object is prepared for, and nothing has been fetched.
LEMMA Starts == Init => Inv
<1> SUFFICES ASSUME Init
             PROVE  Inv
    OBVIOUS
<1>1. NoTarget \in Target
      BY DEF NoTarget, Target
<1>2. NewDriver \in DriverState /\ NewDriver.busy = "no"
      <2>1. 0 \in 0..Len(Sets)
            BY SetsCounted
      <2>2. QED
            BY <1>1, <2>1 DEF NewDriver, DriverState
<1>3. NewResult \in ResultState /\ Placed(NewResult)
      <2>1. 0 < 1 /\ {} \in SUBSET Cells
            OBVIOUS
      <2>2. QED
            BY <2>1 DEF NewResult, ResultState, Placed
<1>4. Typed
      BY <1>2, <1>3 DEF Init, Typed
<1>5. QED
      BY <1>4 DEF Init, Inv, Answered

\* Every step keeps the invariant.
LEMMA StepsKeep == Inv /\ [AnyStep]_vars => Inv'
<1> SUFFICES ASSUME Inv, [AnyStep]_vars
             PROVE  Inv'
    OBVIOUS
<1>1. CASE \E r \in Objects, size \in Sizes, executes \in BOOLEAN : Construct(r, size, executes)
      BY <1>1, ConstructKeeps
<1>2. CASE \E r \in Objects : Destroy(r) \/ NextResult(r) \/ Next(r)
      BY <1>2, DestroyKeeps, NextResultKeeps, NextIsKept
<1>3. CASE \E r \in Read : AsyncNext(r) \/ CompleteNext(r)
      BY <1>3, ObjectsAssumption, AsyncNextKeeps, CompleteNextKeeps
<1>4. CASE \E r \in Read, c \in 1..MaxColumns : Unbind(r, c) \/ Get(r, c)
      BY <1>4, ObjectsAssumption, UnbindKeeps, GetKeeps
<1>5. CASE DriverFinishes
      BY <1>5, DriverFinishesKeeps
<1>6. CASE UNCHANGED vars
      BY <1>6 DEF vars, Inv, Typed, Answered
<1>7. QED
      BY <1>1, <1>2, <1>3, <1>4, <1>5, <1>6 DEF AnyStep

\* The invariant holds.
LEMMA Holding == Spec => []Inv
  BY Starts, StepsKeep, PTL DEF Spec

\* What the driver was told, what the objects have, and what the callers of
\* async_next() wait for keep their types, with every position in its rowset.
THEOREM TypesHold == Spec => []TypeOK
<1>1. Inv => TypeOK
      <2> SUFFICES ASSUME Inv
                   PROVE  TypeOK
          OBVIOUS
      <2>1. drv.target \in [1..MaxColumns -> [of : Objects \cup {NULL}, data : BOOLEAN]]
            BY TypesOf DEF DriverState, Target
      <2>2. ASSUME NEW r \in Objects
            PROVE  /\ res[r].bound \subseteq 1..MaxColumns
                   /\ res[r].pos \in 0..(res[r].size - 1)
                   /\ {res[r].alive, res[r].unbound} \subseteq BOOLEAN
            <3>1. res[r] \in ResultState /\ Placed(res[r])
                  BY TypesOf
            <3>2. res[r].size \in Nat
                  <4>1. res[r].size \in Sizes \cup {1}
                        BY <3>1 DEF ResultState
                  <4>2. QED
                        BY <4>1, SizesPositive, Zenon
            <3>3. res[r].pos \in Nat /\ res[r].pos < res[r].size
                  BY <3>1 DEF ResultState, Placed
            <3>4. res[r].bound \subseteq 1..MaxColumns
                  BY <3>1 DEF ResultState
            <3>5. res[r].alive \in BOOLEAN /\ res[r].unbound \in BOOLEAN
                  BY <3>1 DEF ResultState
            <3>6. QED
                  BY <3>2, <3>3, <3>4, <3>5
      <2>3. QED
            BY <2>1, <2>2, TypesOf DEF DriverState, TypeOK
<1>2. QED
      BY <1>1, Holding, PTL

\* The next fetch writes into the object that the handle was last prepared for,
\* by its constructor or by next_result(), and nowhere else: each column as
\* that object takes it, and no more rows than it has room for.
THEOREM IntoTheHolder == Spec => []FetchesIntoHolder
<1>1. Inv => FetchesIntoHolder
      BY DEF Inv, Holds, Prepared, FetchesIntoHolder, Current
<1>2. QED
      BY <1>1, Holding, PTL

\* get() reads the row the object stands on: bound columns out of its buffers,
\* and the others from the driver's row, which next() moves along.
THEOREM ReadsItsRow == Spec => []GetsCurrentRow
<1>1. Inv => GetsCurrentRow
      BY DEF Inv, Answered, GetsCurrentRow
<1>2. QED
      BY <1>1, Holding, PTL

\* get() answers null exactly if that row is null, whichever way it is read.
THEOREM ReadsItsNulls == Spec => []GetsNulls
<1>1. Inv => GetsNulls
      BY DEF Inv, Answered, GetsNulls
<1>2. QED
      BY <1>1, Holding, PTL
=============================================================================
