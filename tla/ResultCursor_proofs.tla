------------------------- MODULE ResultCursor_proofs -------------------------
(***************************************************************************)
(* Proofs about ResultCursor, for any number and size of result sets, any  *)
(* rowset size, any targets and any failures, and about the readers of a   *)
(* result (RowReaders), each step of which is a navigation: all that is    *)
(* known of the cursor is known of it when it is read their way.           *)
(***************************************************************************)
EXTENDS RowReaders, TLAPS

-----------------------------------------------------------------------------
(* Where the driver puts the rowset.                                       *)

LEMMA RowsIsNat == Rows \in Nat
  BY SetsAssumption DEF Rows

LEMMA ClipInRange == \A n \in Int : Clip(n) \in 0..(Rows + 1)
  BY RowsIsNat DEF Clip

\* Every orientation names the row before the first, the row after the last or
\* one between.
LEMMA FetchesInRange ==
  ASSUME start \in 0..(Rows + 1), rowsetSize \in Nat \ {0}
  PROVE  /\ FetchFirst \in 0..(Rows + 1) /\ FetchLast \in 0..(Rows + 1)
         /\ FetchNext \in 0..(Rows + 1) /\ FetchPrior \in 0..(Rows + 1)
         /\ \A n \in Int : FetchAbsolute(n) \in 0..(Rows + 1)
         /\ \A n \in Int : FetchRelative(n) \in 0..(Rows + 1)
<1>1. FetchFirst \in 0..(Rows + 1) /\ FetchLast \in 0..(Rows + 1)
      BY RowsIsNat DEF FetchFirst, FetchLast, After
<1>2. FetchNext \in 0..(Rows + 1)
      BY <1>1, RowsIsNat, ClipInRange DEF FetchNext, After
<1>3. FetchPrior \in 0..(Rows + 1)
      BY <1>1, RowsIsNat DEF FetchPrior, After
<1>4. \A n \in Int : Before(n) \in 0..(Rows + 1)
      BY RowsIsNat DEF Before, After
<1>5. \A n \in Int : FetchAbsolute(n) \in 0..(Rows + 1)
      <2> SUFFICES ASSUME NEW n \in Int PROVE FetchAbsolute(n) \in 0..(Rows + 1)
          OBVIOUS
      <2>1. Clip(n) \in 0..(Rows + 1) /\ Before(-n) \in 0..(Rows + 1)
            BY <1>4, ClipInRange
      <2>2. QED
            BY <2>1, RowsIsNat DEF FetchAbsolute
<1>6. \A n \in Int : FetchRelative(n) \in 0..(Rows + 1)
      <2> SUFFICES ASSUME NEW n \in Int PROVE FetchRelative(n) \in 0..(Rows + 1)
          OBVIOUS
      <2>1. /\ Clip(start + n) \in 0..(Rows + 1) /\ Before(-n) \in 0..(Rows + 1)
            /\ FetchAbsolute(n) \in 0..(Rows + 1)
            BY <1>4, <1>5, ClipInRange
      <2>2. QED
            BY <2>1, RowsIsNat DEF FetchRelative
<1>7. QED
      BY <1>1, <1>2, <1>3, <1>5, <1>6

-----------------------------------------------------------------------------
(* The invariant.  The rowset lies in the current set; as long as it shows *)
(* rows the row count is that of a full fetch there, or zero after one that*)
(* failed; before next_result() no rowset means no rows.  RowCountOf says  *)
(* how many rows a fetch at row s delivers.                                *)

RowCountOf(s) == IF s + rowsetSize <= Rows THEN rowsetSize ELSE Rows - s + 1

CursorInv ==
  /\ TypeOK
  /\ start \in 0..(Rows + 1) /\ position \in Nat
  /\ OnRow(start) => rowCount \in {0, RowCountOf(start)}
  /\ set = 1 /\ ~OnRow(start) => rowCount = 0

LEMMA CursorInit == Init => CursorInv
<1> SUFFICES ASSUME Init PROVE CursorInv
    OBVIOUS
<1>1. set \in 1..(Len(Sets) + 1)
      BY SetsAssumption DEF Init
<1>2. rowCount \in 0..rowsetSize /\ position < rowsetSize
      BY RowsetAssumption DEF Init
<1>3. /\ start = 0 /\ row = 0 /\ position = 0 /\ want = 0
      /\ atEnd = FALSE /\ op = "none" /\ said = "none"
      /\ rowsetSize \in RowsetSizes /\ unbound \in Unbounds
      BY DEF Init
<1>4. TypeOK
      <2>1. start \in Nat /\ row \in Nat /\ position \in Int /\ want \in Nat
            BY <1>3
      <2>2. atEnd \in BOOLEAN
            BY <1>3
      <2>3. op \in AllOps \cup {"none"} /\ said \in {"none", "true", "false", "threw"}
            BY <1>3
      <2>4. QED
            BY <1>1, <1>2, <1>3, <2>1, <2>2, <2>3 DEF TypeOK
<1>5. start \in 0..(Rows + 1) /\ ~OnRow(start)
      BY RowsIsNat DEF Init, OnRow
<1>6. QED
      BY <1>2, <1>3, <1>4, <1>5 DEF Init, CursorInv

\* What a navigation asks and answers is well-typed.
LEMMA AsksTyped ==
  ASSUME TypeOK, NEW name \in AllOps, NEW target \in Int, Asks(name, target)
  PROVE  op' \in AllOps \cup {"none"} /\ want' \in Nat
  BY ClipInRange, RowsIsNat DEF Asks

LEMMA HereInRange ==
  ASSUME CursorInv
  PROVE  Here \in 0..(Rows + 1)
<1>1. start + position \in Int
      BY DEF CursorInv, TypeOK
<1>2. Clip(start + position) \in 0..(Rows + 1)
      BY <1>1, ClipInRange
<1>3. QED
      BY <1>2 DEF CursorInv, Here

\* A fetch, wherever it goes, keeps the invariant.
LEMMA FetchKeeps ==
  ASSUME CursorInv, UNCHANGED given, NEW s \in 0..(Rows + 1), Fetch(s),
         op' \in AllOps \cup {"none"}, want' \in Nat
  PROVE  CursorInv'
<1>1. rowsetSize \in Nat \ {0} /\ rowsetSize' = rowsetSize /\ unbound' = unbound
      BY RowsetAssumption DEF CursorInv, TypeOK, given
<1>2. set' = set /\ position' = 0 /\ Rows' = Rows
      BY DEF Fetch, Rows
<1>3. CASE Arrive(s) /\ atEnd' = AtEndAfter(s) /\ Answer(OnRow(s))
      <2>1. start' = s /\ row' \in Nat /\ rowCount' \in 0..rowsetSize
            BY <1>1, <1>3, RowsIsNat DEF Arrive, OnRow
      <2>2. atEnd' \in BOOLEAN /\ said' \in {"true", "false"}
            BY <1>3 DEF AtEndAfter, Answer, CursorInv, TypeOK
      <2>3. TypeOK'
            BY <1>1, <1>2, <2>1, <2>2, RowsIsNat DEF CursorInv, TypeOK
      <2>4. OnRow(start)' => rowCount' = RowCountOf(start)'
            BY <1>1, <1>2, <1>3, RowsIsNat DEF Arrive, OnRow, RowCountOf
      <2>5. ~OnRow(start)' => rowCount' = 0
            BY <1>2, <1>3 DEF Arrive, OnRow
      <2>6. QED
            BY <1>2, <2>1, <2>3, <2>4, <2>5 DEF CursorInv
<1>4. CASE rowCount' \in {rowCount, 0} /\ said' = "threw" /\ UNCHANGED <<start, row, atEnd>>
      BY <1>1, <1>2, <1>4 DEF CursorInv, TypeOK, OnRow, RowCountOf
<1>5. QED
      BY <1>3, <1>4 DEF Fetch

\* So does moving inside the rowset, to a position it may have.
LEMMA StayKeeps ==
  ASSUME CursorInv, UNCHANGED given, NEW p \in Nat, p < rowsetSize, Stay(p),
         row' \in Nat, said' \in {"none", "true", "false", "threw"},
         op' \in AllOps \cup {"none"}, want' \in Nat
  PROVE  CursorInv'
<1>1. rowsetSize' = rowsetSize /\ unbound' = unbound /\ Rows' = Rows
      BY DEF Stay, Rows, given
<1>2. QED
      BY <1>1 DEF CursorInv, TypeOK, Stay, OnRow, RowCountOf

LEMMA SetPositionTyped ==
  ASSUME TypeOK, NEW p \in Nat, NEW answer, SetPosition(p, answer)
  PROVE  row' \in Nat /\ said' \in {"true", "false", "threw"}
  BY DEF TypeOK, SetPosition, Answer

LEMMA CursorStep ==
  ASSUME Skips \subseteq Nat, CursorInv, [Navigate]_vars
  PROVE  CursorInv'
<1> USE DEF AllOps
<1>1. rowsetSize \in Nat \ {0} /\ Rows \in Nat /\ Here \in Int /\ position \in Nat
      BY RowsetAssumption, RowsIsNat, HereInRange DEF CursorInv, TypeOK
<1>2. /\ FetchFirst \in 0..(Rows + 1) /\ FetchLast \in 0..(Rows + 1)
      /\ FetchNext \in 0..(Rows + 1) /\ FetchPrior \in 0..(Rows + 1)
      /\ \A n \in Int : FetchAbsolute(n) \in 0..(Rows + 1)
      /\ \A n \in Int : FetchRelative(n) \in 0..(Rows + 1)
      BY <1>1, FetchesInRange DEF CursorInv
<1>3. ASSUME First, UNCHANGED given PROVE CursorInv'
      BY <1>2, <1>3, AsksTyped, FetchKeeps DEF First, CursorInv
<1>4. ASSUME Last, UNCHANGED given PROVE CursorInv'
      BY <1>1, <1>2, <1>4, AsksTyped, FetchKeeps DEF Last, CursorInv
<1>5. ASSUME Next, UNCHANGED given PROVE CursorInv'
      <2>1. op' \in AllOps \cup {"none"} /\ want' \in Nat
            BY <1>1, <1>5, AsksTyped DEF Next, CursorInv
      <2>2. CASE /\ InRowset(position + 1) /\ Stay(position + 1)
                 /\ IF unbound THEN SetPosition(position + 1, Fetched(position + 1))
                               ELSE UNCHANGED row /\ Answer(Fetched(position + 1))
            <3>1. row' \in Nat /\ said' \in {"true", "false", "threw"}
                  <4>1. position + 1 \in Nat /\ TypeOK
                        BY <1>1 DEF CursorInv
                  <4>2. CASE SetPosition(position + 1, Fetched(position + 1))
                        BY <4>1, <4>2, SetPositionTyped
                  <4>3. CASE UNCHANGED row /\ Answer(Fetched(position + 1))
                        BY <4>1, <4>3 DEF Answer, TypeOK
                  <4>4. QED
                        BY <2>2, <4>2, <4>3
            <3>2. QED
                  BY <1>1, <1>5, <2>1, <2>2, <3>1, StayKeeps DEF InRowset
      <2>3. CASE Fetch(FetchNext)
            BY <1>2, <1>5, <2>1, <2>3, FetchKeeps
      <2>4. QED
            BY <1>5, <2>2, <2>3 DEF Next
<1>6. ASSUME Prior, UNCHANGED given PROVE CursorInv'
      <2>1. op' \in AllOps \cup {"none"} /\ want' \in Nat
            BY <1>1, <1>6, AsksTyped DEF Prior, CursorInv
      <2>2. CASE position - 1 >= 0 /\ Stay(position - 1)
                 /\ SetPosition(position - 1, TRUE)
            <3>1. row' \in Nat /\ said' \in {"true", "false", "threw"}
                  <4>1. TypeOK
                        BY DEF CursorInv
                  <4>2. QED
                        BY <1>1, <2>2, <4>1 DEF SetPosition, Answer, TypeOK
            <3>2. position - 1 \in Nat /\ position - 1 < rowsetSize
                  BY <1>1, <2>2 DEF CursorInv, TypeOK
            <3>3. QED
                  BY <1>6, <2>1, <2>2, <3>1, <3>2, StayKeeps
      <2>3. CASE Fetch(FetchPrior)
            BY <1>2, <1>6, <2>1, <2>3, FetchKeeps
      <2>4. QED
            BY <1>6, <2>2, <2>3 DEF Prior
<1>7. ASSUME NEW n \in Targets, Move(n), UNCHANGED given PROVE CursorInv'
      <2>1. n \in Int
            BY SkipsAssumption
      <2>2. op' \in AllOps \cup {"none"} /\ want' \in Nat
            BY <1>1, <1>7, <2>1, AsksTyped DEF Move, CursorInv
      <2>3. QED
            BY <1>2, <1>7, <2>1, <2>2, FetchKeeps DEF Move
<1>8. ASSUME NEW n \in Skips, Skip(n), UNCHANGED given PROVE CursorInv'
      <2>1. n \in Nat
            OBVIOUS
      <2>2. op' \in AllOps \cup {"none"} /\ want' \in Nat
            BY <1>1, <1>8, <2>1, AsksTyped DEF Skip, CursorInv
      <2>3. CASE /\ InRowset(position + n) /\ Stay(position + n)
                 /\ UNCHANGED row /\ Answer(Fetched(position + n))
            <3>1. row' \in Nat /\ said' \in {"true", "false", "threw"}
                  BY <2>3 DEF Answer, CursorInv, TypeOK
            <3>2. position + n \in Nat /\ position + n < rowsetSize
                  BY <1>1, <2>1, <2>3 DEF InRowset
            <3>3. QED
                  BY <1>8, <2>2, <2>3, <3>1, <3>2, StayKeeps
      <2>4. CASE Fetch(FetchRelative(n))
            BY <1>2, <1>8, <2>1, <2>2, <2>4, FetchKeeps
      <2>5. QED
            BY <1>8, <2>3, <2>4 DEF Skip
<1>9. ASSUME NextResult, UNCHANGED given PROVE CursorInv'
      <2>1. op' \in AllOps \cup {"none"} /\ want' \in Nat
            BY <1>9, AsksTyped DEF NextResult, CursorInv
      <2>2. /\ rowsetSize' = rowsetSize /\ unbound' = unbound /\ rowCount' = rowCount
            /\ position' = position /\ atEnd' = atEnd
            /\ said' \in {"true", "false", "threw"}
            BY <1>9 DEF NextResult, given, Answer
      <2>3. CASE set' = set /\ start' = start /\ row' = row
            BY <2>1, <2>2, <2>3 DEF CursorInv, TypeOK, OnRow, RowCountOf, Rows
      <2>4. CASE set' = set + 1 /\ start' = 0 /\ row' = 0
            <3>1. set' \in 1..(Len(Sets) + 1) /\ set' # 1
                  BY <1>9, <2>4, SetsAssumption DEF NextResult, CursorInv, TypeOK
            <3>2. Rows' \in Nat
                  BY <3>1, SetsAssumption DEF Rows
            <3>3. start' \in 0..(Rows' + 1) /\ ~(start' \in 1..Rows')
              <4> DEFINE n == Rows'
              <4> HIDE DEF n
              <4>1. n \in Nat
                    BY <3>2 DEF n
              <4>2. 0 \in 0..(n + 1) /\ ~(0 \in 1..n)
                    BY <4>1
              <4>3. QED
                    BY <2>4, <4>2 DEF n
            <3>4. QED
                  BY <2>1, <2>2, <2>4, <3>1, <3>3 DEF CursorInv, TypeOK, OnRow
      <2>5. QED
            BY <1>9, <2>3, <2>4 DEF NextResult
<1>10. CASE UNCHANGED vars
      BY <1>10 DEF vars, given, cursorVars, CursorInv, TypeOK, OnRow, RowCountOf, Rows
<1>11. QED
      BY <1>3, <1>4, <1>5, <1>6, <1>7, <1>8, <1>9, <1>10 DEF Navigate

LEMMA CursorAlways ==
  ASSUME Skips \subseteq Nat
  PROVE  Spec => []CursorInv
<1>1. Init => CursorInv
      BY CursorInit
<1>2. CursorInv /\ [Navigate]_vars => CursorInv'
      BY CursorStep
<1>3. QED
      BY <1>1, <1>2, PTL DEF Spec

\* As long as skip() goes forward the cursor stays well-typed: the row count is
\* never more than the rowset holds, the position is within its size.
THEOREM CursorTypeCorrect ==
  ASSUME Skips \subseteq Nat
  PROVE  Spec => []TypeOK
<1>1. CursorInv => TypeOK
      BY DEF CursorInv
<1>2. QED
      BY <1>1, CursorAlways, PTL

-----------------------------------------------------------------------------
(* The row an answer leaves the result on.                                 *)

\* A fetch that answers true stands on the row it went to, with the driver's
\* row and row count; one that answers false went to none.
LEMMA FetchAnswers ==
  ASSUME CursorInv, UNCHANGED given, NEW s \in 0..(Rows + 1), Fetch(s)
  PROVE  /\ position' = 0 /\ set' = set /\ Rows' = Rows
         /\ said' \in {"true", "false", "threw"}
         /\ said' = "true"  => /\ OnRow(s) /\ start' = s /\ row' = s /\ Here' = s
                               /\ rowCount' \in Nat \ {0}
         /\ said' = "false" => ~OnRow(s) /\ start' = s /\ Here' = s
<1>1. rowsetSize \in Nat \ {0} /\ Rows \in Nat
      BY RowsetAssumption, RowsIsNat DEF CursorInv, TypeOK
<1>2. position' = 0 /\ set' = set /\ Rows' = Rows
      BY DEF Fetch, Rows
<1>3. CASE Arrive(s) /\ Answer(OnRow(s))
      <2>1. start' = s /\ (OnRow(s) => row' = s /\ rowCount' \in Nat \ {0})
            BY <1>1, <1>3 DEF Arrive, OnRow
      <2>2. Here' = s
            BY <1>1, <1>2, <2>1 DEF Here, OnRow, Clip
      <2>3. QED
            BY <1>2, <1>3, <2>1, <2>2 DEF Answer
<1>4. CASE said' = "threw"
      BY <1>2, <1>4
<1>5. QED
      BY <1>3, <1>4 DEF Fetch

\* A position the driver fetched a row for is a row of the set.
LEMMA FetchedIsRow ==
  ASSUME CursorInv, set = 1, NEW p \in Nat, Fetched(p)
  PROVE  OnRow(start) /\ start + p \in 1..Rows
<1>1. rowsetSize \in Nat \ {0} /\ Rows \in Nat /\ rowCount > 0
      BY RowsetAssumption, RowsIsNat DEF CursorInv, TypeOK, Fetched
<1>2. OnRow(start) /\ rowCount = RowCountOf(start)
      BY <1>1 DEF CursorInv
<1>3. QED
      BY <1>1, <1>2 DEF Fetched, OnRow, RowCountOf, CursorInv

\* A move inside a rowset of the first set that the driver's row follows: when
\* it answers true both are on a row that was fetched.
LEMMA StayAnswers ==
  ASSUME CursorInv, UNCHANGED given, set = 1, NEW p \in Nat, Stay(p),
         unbound, said' = "true", Fetched(p), row' = start + p
  PROVE  row' = Here'
<1>1. OnRow(start) /\ start + p \in 1..Rows
      BY FetchedIsRow
<1>2. start' = start /\ position' = p /\ Rows' = Rows
      BY DEF Stay, Rows
<1>3. QED
      BY <1>1, <1>2, RowsIsNat DEF Here, OnRow, Clip

LEMMA AnswersStep ==
  ASSUME Skips \subseteq Nat, CursorInv, Navigate
  PROVE  OnFetched /\ DriverFollows
<1>1. /\ rowsetSize \in Nat \ {0} /\ Rows \in Nat /\ Here \in Int
      /\ position \in Nat /\ position < rowsetSize /\ rowCount \in Nat
      BY RowsetAssumption, RowsIsNat, HereInRange DEF CursorInv, TypeOK
<1>2. /\ FetchFirst \in 0..(Rows + 1) /\ FetchLast \in 0..(Rows + 1)
      /\ FetchNext \in 0..(Rows + 1) /\ FetchPrior \in 0..(Rows + 1)
      /\ \A n \in Int : FetchAbsolute(n) \in 0..(Rows + 1)
      /\ \A n \in Int : FetchRelative(n) \in 0..(Rows + 1)
      BY <1>1, FetchesInRange DEF CursorInv
<1>3. ASSUME UNCHANGED given, NEW s \in 0..(Rows + 1), Fetch(s)
      PROVE  OnFetched /\ DriverFollows
      <2>1. /\ position' = 0
            /\ said' = "true" => row' = Here' /\ rowCount' \in Nat \ {0}
            BY <1>3, FetchAnswers
      <2>2. QED
            BY <2>1 DEF OnFetched, DriverFollows
<1>4. ASSUME NEW p \in Nat, Stay(p), said' = "true" => Fetched(p)
      PROVE  OnFetched
      BY <1>1, <1>4 DEF Stay, OnFetched, Fetched
<1>5. ASSUME First \/ Last, UNCHANGED given
      PROVE  OnFetched /\ DriverFollows
      BY <1>2, <1>3, <1>5 DEF First, Last
<1>6. ASSUME Next, UNCHANGED given
      PROVE  OnFetched /\ DriverFollows
      <2>1. CASE Fetch(FetchNext)
            BY <1>2, <1>3, <1>6, <2>1
      <2>2. CASE /\ InRowset(position + 1) /\ Stay(position + 1)
                 /\ IF unbound THEN SetPosition(position + 1, Fetched(position + 1))
                               ELSE UNCHANGED row /\ Answer(Fetched(position + 1))
            <3>1. /\ position + 1 \in Nat /\ rowsetSize # 1
                  /\ rowsetSize' = rowsetSize /\ unbound' = unbound /\ set' = set
                  BY <1>1, <1>6, <2>2 DEF InRowset, given, Stay
            <3>2. said' = "true" => /\ Fetched(position + 1)
                                    /\ unbound => row' = start + (position + 1)
                  BY <2>2 DEF SetPosition, Answer
            <3>3. OnFetched
                  BY <1>4, <2>2, <3>1, <3>2
            <3>4. set = 1 /\ unbound /\ said' = "true" => row' = Here'
                  BY <1>6, <2>2, <3>1, <3>2, StayAnswers
            <3>5. QED
                  BY <3>1, <3>3, <3>4 DEF DriverFollows
      <2>3. QED
            BY <1>6, <2>1, <2>2 DEF Next
<1>7. ASSUME Prior, UNCHANGED given
      PROVE  OnFetched /\ DriverFollows
      <2>1. CASE Fetch(FetchPrior)
            BY <1>2, <1>3, <1>7, <2>1
      <2>2. CASE rowCount > 0 /\ position - 1 >= 0 /\ Stay(position - 1)
                 /\ SetPosition(position - 1, TRUE)
            <3>1. /\ position - 1 \in Nat /\ rowsetSize # 1
                  /\ rowsetSize' = rowsetSize /\ unbound' = unbound /\ set' = set
                  BY <1>1, <1>7, <2>2 DEF given, Stay
            <3>2. said' = "true" /\ ~Strayed => /\ Fetched(position - 1)
                                                /\ row' = start + (position - 1)
                  <4>1. op' = "prior" /\ rowCount > 0
                        BY <1>7, <2>2 DEF Prior, Asks
                  <4>2. ~Strayed => Fetched(position - 1)
                        BY <1>1, <4>1 DEF Strayed, Fetched
                  <4>3. QED
                        BY <2>2, <4>2 DEF SetPosition, Answer
            <3>3. OnFetched
                  BY <1>4, <2>2, <3>1, <3>2 DEF OnFetched
            <3>4. set = 1 /\ unbound /\ said' = "true" /\ ~Strayed => row' = Here'
                  BY <1>7, <2>2, <3>1, <3>2, StayAnswers
            <3>5. QED
                  BY <3>1, <3>3, <3>4 DEF DriverFollows
      <2>3. QED
            BY <1>7, <2>1, <2>2 DEF Prior
<1>8. ASSUME NEW n \in Targets, Move(n), UNCHANGED given
      PROVE  OnFetched /\ DriverFollows
      BY <1>2, <1>3, <1>8, SkipsAssumption DEF Move
<1>9. ASSUME NEW n \in Skips, Skip(n), UNCHANGED given
      PROVE  OnFetched /\ DriverFollows
      <2>1. n \in Nat /\ n \in Int /\ op' = "skip"
            BY <1>9 DEF Skip, Asks
      <2>2. CASE Fetch(FetchRelative(n))
            BY <1>2, <1>3, <1>9, <2>1, <2>2
      <2>3. CASE Stay(position + n) /\ Answer(Fetched(position + n))
            <3>1. position + n \in Nat /\ (said' = "true" => Fetched(position + n))
                  BY <1>1, <2>1, <2>3 DEF Answer
            <3>2. OnFetched
                  BY <1>4, <2>3, <3>1
            <3>3. QED
                  BY <2>1, <3>2 DEF DriverFollows
      <2>4. QED
            BY <1>9, <2>2, <2>3 DEF Skip
<1>10. CASE NextResult
      BY <1>10 DEF NextResult, Asks, OnFetched, DriverFollows
<1>11. QED
      BY <1>5, <1>6, <1>7, <1>8, <1>9, <1>10 DEF Navigate

\* Every navigation, at any time: no more than the step is needed.
LEMMA AnswersAlways ==
  ASSUME Skips \subseteq Nat
  PROVE  Spec => [][OnFetched /\ DriverFollows]_vars
<1>1. CursorInv /\ [Navigate]_vars => [OnFetched /\ DriverFollows]_vars
      BY AnswersStep
<1>2. QED
      BY <1>1, CursorAlways, PTL DEF Spec

\* After a navigation that answers true the position is one of the rows the
\* driver fetched, unless it is a prior() that had strayed past them: get() and
\* is_null() never read past them.
THEOREM ReadsFetchedRows ==
  ASSUME Skips \subseteq Nat
  PROVE  Spec => PositionInRowset
  BY AnswersAlways, PTL DEF PositionInRowset

\* The driver's current row, from which unbound columns are read, is the row
\* the library stands on, but for skip(), a prior() that had strayed and what
\* next_result() leaves behind.
THEOREM RowsAgree ==
  ASSUME Skips \subseteq Nat
  PROVE  Spec => ReadsCurrentRow
  BY AnswersAlways, PTL DEF ReadsCurrentRow

-----------------------------------------------------------------------------
(* Where an answer of a navigation leads.                                  *)

Landed ==
  /\ said = "true"  => Here = want /\ OnRow(want)
  /\ said = "false" => ~OnRow(want)

\* A fetch lands when it goes to the row asked for, or when neither is a row.
LEMMA FetchLands ==
  ASSUME CursorInv, UNCHANGED given, NEW s \in 0..(Rows + 1), Fetch(s),
         want' = s \/ (~OnRow(s) /\ ~OnRow(want'))
  PROVE  Landed'
<1>1. /\ Rows' = Rows
      /\ said' = "true"  => OnRow(s) /\ Here' = s
      /\ said' = "false" => ~OnRow(s)
      BY FetchAnswers
<1>2. CASE want' = s
      BY <1>1, <1>2 DEF Landed, OnRow
<1>3. CASE ~OnRow(s) /\ ~OnRow(want')
      BY <1>1, <1>3 DEF Landed, OnRow
<1>4. QED
      BY <1>2, <1>3

LEMMA FirstLands ==
  ASSUME CursorInv, UNCHANGED given, First
  PROVE  Landed'
<1>1. Rows \in Nat /\ FetchFirst \in 0..(Rows + 1)
      BY RowsIsNat DEF FetchFirst, After
<1>2. want' = 1
      BY <1>1 DEF First, Asks, Clip
<1>3. want' = FetchFirst \/ (~OnRow(FetchFirst) /\ ~OnRow(want'))
      BY <1>1, <1>2 DEF FetchFirst, After, OnRow
<1>4. QED
      BY <1>1, <1>3, FetchLands DEF First

LEMMA MoveLands ==
  ASSUME CursorInv, UNCHANGED given, NEW n \in Int, Move(n),
         Rows >= rowsetSize \/ want' # 0 \/ rowsetSize = 1
  PROVE  Landed'
<1>1. rowsetSize \in Nat \ {0} /\ Rows \in Nat /\ FetchAbsolute(n) \in 0..(Rows + 1)
      BY RowsetAssumption, RowsIsNat, FetchesInRange DEF CursorInv, TypeOK
<1>2. want' = Clip(IF n < 0 THEN Rows + 1 + n ELSE n)
      BY DEF Move, Asks
<1>3. want' = FetchAbsolute(n) \/ (~OnRow(FetchAbsolute(n)) /\ ~OnRow(want'))
      <2>1. CASE n >= 0
            BY <1>1, <1>2, <2>1 DEF FetchAbsolute, Clip
      <2>2. CASE n < 0 /\ -n <= Rows
            BY <1>1, <1>2, <2>2 DEF FetchAbsolute, Clip
      <2>3. CASE n < 0 /\ -n > Rows
            <3>1. want' = 0 /\ FetchAbsolute(n) = Before(-n)
                  BY <1>1, <1>2, <2>3 DEF FetchAbsolute, Clip
            <3>2. QED
                  BY <1>1, <2>3, <3>1 DEF Before, OnRow, After
      <2>4. QED
            BY <1>1, <2>1, <2>2, <2>3
<1>4. QED
      BY <1>1, <1>3, FetchLands DEF Move

\* next() from the first set, or row by row, from a row that is not lost.
LEMMA NextLands ==
  ASSUME CursorInv, UNCHANGED given, Next, (~Lost /\ set = 1) \/ rowsetSize = 1
  PROVE  Landed'
<1>1. /\ rowsetSize \in Nat \ {0} /\ Rows \in Nat /\ start \in 0..(Rows + 1)
      /\ position \in Nat /\ position < rowsetSize /\ rowCount \in Nat
      /\ FetchNext \in 0..(Rows + 1)
      BY RowsetAssumption, RowsIsNat, FetchesInRange DEF CursorInv, TypeOK
<1>2. want' = Clip(IF OnRow(start) THEN start + position + 1 ELSE start + 1)
      BY <1>1 DEF Next, Asks, Here, Clip
<1>3. CASE InRowset(position + 1) /\ Stay(position + 1)
           /\ (said' = "true" => Fetched(position + 1))
           /\ (said' = "false" => ~Fetched(position + 1))
      <2>1. /\ start' = start /\ position' = position + 1 /\ Rows' = Rows
            /\ rowCount > 0 /\ position + 1 < rowsetSize
            BY <1>3 DEF Stay, Rows, InRowset
      <2>2. OnRow(start) /\ rowCount = RowCountOf(start) /\ set = 1
            BY <1>1, <2>1 DEF CursorInv
      <2>3. want' = Clip(start + position + 1) /\ Here' = want'
            BY <1>1, <1>2, <2>1, <2>2 DEF Here, OnRow, Clip
      <2>4. Fetched(position + 1) <=> start + position + 1 <= Rows
            BY <1>1, <2>1, <2>2 DEF Fetched, RowCountOf, OnRow
      <2>5. OnRow(want') <=> start + position + 1 <= Rows
            BY <1>1, <2>2, <2>3 DEF OnRow, Clip
      <2>6. QED
            BY <1>3, <2>1, <2>3, <2>4, <2>5 DEF Landed, OnRow
<1>4. CASE ~InRowset(position + 1) /\ Fetch(FetchNext)
      <2>1. OnRow(start) => position + 1 = rowsetSize
            BY <1>1, <1>4 DEF InRowset, Lost
      <2>2. want' = FetchNext
            BY <1>1, <1>2, <2>1 DEF FetchNext, FetchFirst, After, OnRow, Clip
      <2>3. QED
            BY <1>1, <1>4, <2>2, FetchLands
<1>5. QED
      BY <1>3, <1>4 DEF Next, SetPosition, Answer

\* The methods that lose count in larger rowsets do not when rows are fetched
\* one at a time: the position is then that of the rowset.
LEMMA OtherLands ==
  ASSUME CursorInv, UNCHANGED given, rowsetSize = 1,
         Last \/ Prior \/ \E n \in Skips : n > 0 /\ Skip(n),
         Skips \subseteq Nat
  PROVE  Landed'
<1>1. /\ Rows \in Nat /\ start \in 0..(Rows + 1) /\ position = 0
      /\ Here = start
      BY RowsIsNat DEF CursorInv, TypeOK, Here, OnRow, Clip
<1>2. /\ FetchLast \in 0..(Rows + 1) /\ FetchPrior \in 0..(Rows + 1)
      /\ \A n \in Int : FetchRelative(n) \in 0..(Rows + 1)
      BY FetchesInRange DEF CursorInv
<1>3. CASE Last
      <2>1. want' = FetchLast \/ (~OnRow(FetchLast) /\ ~OnRow(want'))
            BY <1>1, <1>3 DEF Last, Asks, Clip, FetchLast, FetchFirst, After, OnRow
      <2>2. QED
            BY <1>2, <1>3, <2>1, FetchLands DEF Last
<1>4. CASE Prior
      <2>1. Fetch(FetchPrior)
            BY <1>1, <1>4 DEF Prior
      <2>2. want' = Clip(start - 1)
            BY <1>1, <1>4 DEF Prior, Asks
      <2>3. want' = FetchPrior \/ (~OnRow(FetchPrior) /\ ~OnRow(want'))
            BY <1>1, <2>2 DEF Clip, FetchPrior, FetchLast, FetchFirst, After, OnRow
      <2>4. QED
            BY <1>2, <2>1, <2>3, FetchLands
<1>5. ASSUME NEW n \in Skips, n > 0, Skip(n)
      PROVE  Landed'
      <2>1. n \in Nat
            BY <1>5
      <2>2. Fetch(FetchRelative(n)) /\ want' = Clip(start + n)
            BY <1>1, <1>5, <2>1 DEF Skip, Asks, InRowset
      <2>3. want' = FetchRelative(n)
            BY <1>1, <1>5, <2>1, <2>2
               DEF Clip, FetchRelative, FetchAbsolute, After
      <2>4. QED
            BY <1>2, <2>1, <2>2, <2>3, FetchLands
<1>6. QED
      BY <1>3, <1>4, <1>5

\* A navigation that answers true stands on the row it was asked for and one
\* that answers false was asked for no row of the set, however the rows are
\* fetched in first(), move() and next(), and by all methods when they are
\* fetched one by one, under the conditions LandsWhereAsked names.
THEOREM NavigationsLand ==
  ASSUME Skips \subseteq Nat \ {0}
  PROVE  Spec => LandsWhereAsked
<1> DEFINE Good ==
      IF rowsetSize = 1
        THEN Lands(AllOps \ {"next_result"})'
        ELSE /\ Lands({"first"})'
             /\ Rows >= rowsetSize \/ want' # 0 => Lands({"move"})'
             /\ ~Lost /\ set = 1 => Lands({"next"})'
<1>1. ASSUME CursorInv, Navigate
      PROVE  Good
      <2> USE DEF Lands
      <2>1. UNCHANGED given /\ Skips \subseteq Nat
            BY <1>1 DEF Navigate
      <2>2. CASE First
            BY <1>1, <2>1, <2>2, FirstLands DEF First, Asks, Landed
      <2>3. CASE Last \/ Prior
            BY <1>1, <2>1, <2>3, OtherLands DEF Last, Prior, Asks, Landed
      <2>4. CASE Next
            BY <1>1, <2>1, <2>4, NextLands DEF Next, Asks, Landed
      <2>5. ASSUME NEW n \in Targets, Move(n)
            PROVE  Good
            BY <1>1, <2>1, <2>5, SkipsAssumption, MoveLands DEF Move, Asks, Landed
      <2>6. ASSUME NEW n \in Skips, Skip(n)
            PROVE  Good
            <3>1. n > 0 /\ op' = "skip"
                  BY <2>6 DEF Skip, Asks
            <3>2. QED
                  BY <1>1, <2>1, <2>6, <3>1, OtherLands DEF Landed
      <2>7. CASE NextResult
            BY <2>7 DEF NextResult, Asks
      <2>8. QED
            BY <1>1, <2>2, <2>3, <2>4, <2>5, <2>6, <2>7 DEF Navigate
<1>2. CursorInv /\ [Navigate]_vars => [Good]_vars
      BY <1>1
<1>3. Skips \subseteq Nat
      OBVIOUS
<1>4. Spec => []CursorInv
      BY <1>3, CursorAlways
<1>5. QED
      BY <1>2, <1>4, PTL DEF Spec, LandsWhereAsked

-----------------------------------------------------------------------------
(* Reading with next() alone.                                              *)

\* Nothing fails, so no rowset is lost, the first set stays current, and the
\* end is only announced past the last row.
StreamInv ==
  /\ CursorInv /\ set = 1 /\ ~Lost
  /\ said \in {"none", "true", "false"}
  /\ said = "false" => Here = Rows + 1

LEMMA StreamStep ==
  ASSUME Ops = {"next"}, Faults \subseteq {"get"}, StreamInv, Navigate, CursorInv'
  PROVE  /\ StreamInv' /\ Rows' = Rows
         /\ said' = "true"  => Here < Rows /\ said # "false" /\ Here' = Here + 1
         /\ said' = "false" => Here \in {Rows, Rows + 1} /\ Here' = Rows + 1
<1>1. Next /\ UNCHANGED given
      BY DEF Navigate, First, Last, Prior, Move, Skip, NextResult, Asks
<1>2. /\ rowsetSize \in Nat \ {0} /\ Rows \in Nat /\ start \in 0..(Rows + 1)
      /\ position \in Nat /\ position < rowsetSize /\ rowCount \in Nat
      /\ FetchNext \in 0..(Rows + 1) /\ Here \in 0..(Rows + 1)
      BY RowsetAssumption, RowsIsNat, FetchesInRange, HereInRange
         DEF StreamInv, CursorInv, TypeOK
<1>3. Landed' /\ want' = Clip(Here + 1)
      BY <1>1, NextLands DEF StreamInv, Next, Asks
<1>4. set' = set /\ Rows' = Rows
      BY <1>1 DEF Next, Stay, Fetch, Rows
<1>5. /\ said' \in {"true", "false"} /\ ~Lost'
      /\ said' = "false" => Here' = Rows + 1
      <2>1. CASE Fetch(FetchNext)
            <3>1. said' # "threw"
                  BY <2>1, SetsAssumption DEF Fetch, StreamInv, Answer
            <3>2. said' = "false" => Here' = FetchNext /\ ~OnRow(FetchNext)
                                     /\ FetchNext # 0
                  BY <1>1, <1>2, <2>1, FetchAnswers
                     DEF FetchNext, FetchFirst, After, Clip, StreamInv, OnRow
            <3>3. ~Lost'
                  BY <1>1, <1>2, <1>4, <2>1, <3>1, FetchAnswers
                     DEF StreamInv, Lost, OnRow
            <3>4. QED
                  BY <1>1, <1>2, <2>1, <3>1, <3>2, <3>3, FetchAnswers
                     DEF OnRow, StreamInv
      <2>2. CASE /\ InRowset(position + 1) /\ Stay(position + 1)
                 /\ Answer(Fetched(position + 1))
            <3>1. /\ start' = start /\ position' = position + 1
                  /\ rowCount' = rowCount /\ rowCount > 0
                  BY <2>2 DEF Stay, InRowset
            <3>2. OnRow(start) /\ rowCount = RowCountOf(start)
                  BY <1>2, <3>1 DEF StreamInv, CursorInv
            <3>3. said' = "false" => Here' = Rows + 1
                  BY <1>2, <1>4, <2>2, <3>1, <3>2
                     DEF Answer, InRowset, Fetched, RowCountOf, Here, OnRow, Clip
            <3>4. QED
                  BY <2>2, <3>1, <3>3 DEF Answer, Lost
      <2>3. Fetch(FetchNext) \/
            (InRowset(position + 1) /\ Stay(position + 1) /\ Answer(Fetched(position + 1)))
            <3>1. Fetched(position + 1) => OnRow(start)
                  BY <1>2, FetchedIsRow DEF StreamInv
            <3>2. QED
                  BY <1>1, <3>1, SetsAssumption DEF Next, SetPosition
      <2>4. QED
            BY <2>1, <2>2, <2>3
<1>6. said' = "true" => Here < Rows /\ said # "false" /\ Here' = Here + 1
      BY <1>2, <1>3, <1>4 DEF Landed, OnRow, Clip, StreamInv
<1>7. said' = "false" => Here \in {Rows, Rows + 1}
      BY <1>2, <1>3, <1>4 DEF Landed, OnRow, Clip
<1>8. QED
      BY <1>4, <1>5, <1>6, <1>7 DEF StreamInv

\* A reader of one result set that only calls next() is given each row once, in
\* order, and then the end, whatever the size of the rowsets: the detailed
\* specification implements the safety part of RowStream.
THEOREM NextDeliversRows ==
  ASSUME Ops = {"next"}, Faults \subseteq {"get"}, Skips \subseteq Nat
  PROVE  Spec => Stream!Init /\ [][Stream!Next]_(Stream!streamVars)
<1>1. Init => StreamInv /\ Stream!Init
      <2> SUFFICES ASSUME Init PROVE StreamInv /\ Stream!Init
          OBVIOUS
      <2>1. set = 1 /\ start = 0 /\ said = "none" /\ ~OnRow(start) /\ Here = 0
            BY DEF Init, OnRow, Here
      <2>2. Sets[1] \in Nat
            BY SetsAssumption
      <2>3. QED
            BY <2>1, <2>2, CursorInit DEF StreamInv, Lost, Stream!Init
<1>2. StreamInv /\ CursorInv' /\ [Navigate]_vars
      => StreamInv' /\ [Stream!Next]_(Stream!streamVars)
      <2> SUFFICES ASSUME StreamInv, CursorInv', [Navigate]_vars
                   PROVE  StreamInv' /\ [Stream!Next]_(Stream!streamVars)
          OBVIOUS
      <2>1. CASE UNCHANGED vars
            BY <2>1 DEF vars, given, cursorVars, StreamInv, Lost, OnRow, Here, Clip,
                        Rows, Stream!streamVars
      <2>2. CASE Navigate
            <3>1. Rows = Sets[1] /\ Rows \in Nat /\ Here \in 0..(Rows + 1)
                  BY RowsIsNat, HereInRange, SetsAssumption DEF Rows, StreamInv
            <3>2. /\ StreamInv'
                  /\ said' = "true"  => Here < Rows /\ said # "false" /\ Here' = Here + 1
                  /\ said' = "false" => Here \in {Rows, Rows + 1} /\ Here' = Rows + 1
                  BY <2>2, StreamStep
            <3>3. said' # "none"
                  BY <2>2 DEF Navigate, First, Last, Next, Prior, Move, Skip, NextResult,
                              Fetch, SetPosition, Answer
            <3>4. CASE said' = "true"
                  BY <3>1, <3>2, <3>4 DEF Stream!Next, Stream!Deliver
            <3>5. CASE said' = "false"
                  BY <3>1, <3>2, <3>5 DEF Stream!Next, Stream!End
            <3>6. QED
                  BY <3>2, <3>3, <3>4, <3>5 DEF StreamInv
      <2>3. QED
            BY <2>1, <2>2
<1>3. Spec => []CursorInv
      BY CursorAlways
<1>4. QED
      BY <1>1, <1>2, <1>3, PTL DEF Spec

-----------------------------------------------------------------------------
(* The readers of a result.                                                *)

\* A reader navigates the result with next() alone.
LEMMA ReadersNavigate == [ReaderNext]_readerVars => [Navigate]_vars
  BY DEF ReaderNext, Iterate, CachedNext, CallerNavigates, Navigate, readerVars

-----------------------------------------------------------------------------
(* The row cache.                                                          *)

\* What the cache holds follows from the last step: it is filled from the row
\* the result is on, after it was cleared.
LEMMA CacheStep ==
  ASSUME Skips \subseteq Nat, CursorInv, CacheIsCurrentRow, [ReaderNext]_readerVars
  PROVE  CacheIsCurrentRow'
<1>1. CASE CachedNext
      <2>1. op' = "next" /\ DriverFollows
            BY <1>1, AnswersStep DEF CachedNext, Navigate, Next, Asks
      <2>2. CASE said' = "true"
            <3>1. cache' = Readable' \/ cache' = Partial
                  BY <1>1, <2>2 DEF CachedNext, FillRow, Cleared
            <3>2. (set = 1 \/ rowsetSize = 1)' => Readable' = Here'
                  BY <2>1, <2>2 DEF DriverFollows, Strayed, Readable
            <3>3. QED
                  BY <2>2, <3>1, <3>2 DEF CacheIsCurrentRow
      <2>3. CASE said' # "true"
            BY <1>1, <2>3 DEF CachedNext, Cleared, CacheIsCurrentRow
      <2>4. QED
            BY <2>2, <2>3
<1>2. CASE Iterate \/ CallerNavigates
      BY <1>2 DEF Iterate, CallerNavigates, CacheIsCurrentRow
<1>3. CASE UNCHANGED readerVars
      BY <1>3 DEF readerVars, vars, given, cursorVars, CacheIsCurrentRow, Here, OnRow, Clip, Rows
<1>4. QED
      BY <1>1, <1>2, <1>3 DEF ReaderNext

\* As long as nobody else has moved the result, a row cache holds the row the
\* result is on, or a part of it if reading a column threw, and none at the end:
\* in the first result set, and in every one if rows are fetched one by one.
THEOREM CacheHolds ==
  ASSUME Skips \subseteq Nat
  PROVE  FairReaders => []CacheIsCurrentRow
<1>1. ReaderInit => Init /\ CacheIsCurrentRow
      BY DEF ReaderInit, CacheIsCurrentRow
<1>2. Spec => []CursorInv
      BY CursorAlways
<1>3. CacheIsCurrentRow /\ CursorInv /\ [ReaderNext]_readerVars => CacheIsCurrentRow'
      BY CacheStep
<1>4. QED
      BY <1>1, <1>2, <1>3, ReadersNavigate, PTL DEF FairReaders, Spec

-----------------------------------------------------------------------------
(* The iterator.                                                           *)

\* A reader has the rows of one result set, and an iterator that has reached
\* the end has done so past the last of them.
IteratedInv ==
  StreamInv /\ (iterator = "end" => Here = Rows + 1)

\* While the caller and the cache take rows away from it, an iterator sees a
\* stream of rows: no step delivers one after it has ended.
LEMMA IteratedStep ==
  ASSUME Ops = {"next"}, Faults \subseteq {"get"}, IteratedInv, CursorInv',
         [ReaderNext]_readerVars
  PROVE  IteratedInv' /\ [Iterated!Next]_(Iterated!streamVars)
<1>1. CASE UNCHANGED readerVars
      BY <1>1 DEF readerVars, vars, given, cursorVars, IteratedInv, StreamInv, Lost, OnRow,
                  Here, Clip, Rows, Iterated!streamVars
<1>2. CASE ReaderNext
      <2>1. Navigate
            BY <1>2 DEF ReaderNext, Iterate, CachedNext, CallerNavigates, Navigate
      <2>2. Rows = Sets[1] /\ Rows \in Nat /\ Here \in 0..(Rows + 1)
            BY RowsIsNat, HereInRange, SetsAssumption DEF Rows, IteratedInv, StreamInv
      <2>3. /\ StreamInv' /\ Rows' = Rows
            /\ said' = "true"  => Here < Rows /\ Here' = Here + 1
            /\ said' = "false" => Here \in {Rows, Rows + 1} /\ Here' = Rows + 1
            BY <2>1, StreamStep DEF IteratedInv
      <2>4. said' \in {"true", "false"}
            <3>1. said' # "none"
                  BY <2>1 DEF Navigate, First, Last, Next, Prior, Move, Skip, NextResult,
                              Fetch, SetPosition, Answer
            <3>2. QED
                  BY <2>3, <3>1 DEF StreamInv
      <2>5. \/ iterator' = IF said' = "true" THEN "on" ELSE "end"
            \/ iterator' = iterator
            BY <1>2 DEF ReaderNext, Iterate, CachedNext, CallerNavigates, Become
      <2>6. CASE said' = "true"
            <3>1. iterator # "end" /\ iterator' # "end"
                  BY <2>2, <2>3, <2>5, <2>6 DEF IteratedInv
            <3>2. QED
                  BY <2>2, <2>3, <2>6, <3>1 DEF IteratedInv, Iterated!Next, Iterated!Deliver
      <2>7. CASE said' = "false"
            <3>1. Here' = Rows + 1 /\ Rows' = Rows /\ Here \in {Rows, Rows + 1}
                  BY <2>3, <2>7
            <3>2. iterator' = "end" \/ iterator' = iterator
                  BY <2>5, <2>7
            <3>3. IteratedInv'
                  BY <2>3, <3>1 DEF IteratedInv
            <3>4. CASE iterator' = "end"
                  BY <2>2, <3>1, <3>3, <3>4 DEF Iterated!Next, Iterated!End
            <3>5. CASE iterator' = iterator
                  BY <2>2, <3>1, <3>3, <3>5 DEF Iterated!streamVars
            <3>6. QED
                  BY <3>2, <3>4, <3>5
      <2>8. QED
            BY <2>4, <2>6, <2>7
<1>3. QED
      BY <1>1, <1>2

\* A loop over an iterator sees each row of the result set once, in order, and
\* then the end, though others call next() in between: the iterator implements
\* the safety part of RowStream.
THEOREM IteratorDeliversRows ==
  ASSUME Ops = {"next"}, Faults \subseteq {"get"}, Skips \subseteq Nat
  PROVE  FairReaders => Iterated!Init /\ [][Iterated!Next]_(Iterated!streamVars)
<1>1. ReaderInit => Init /\ IteratedInv /\ Iterated!Init
      <2> SUFFICES ASSUME ReaderInit PROVE Init /\ IteratedInv /\ Iterated!Init
          OBVIOUS
      <2>1. /\ Init /\ set = 1 /\ start = 0 /\ said = "none" /\ ~OnRow(start) /\ Here = 0
            /\ iterator = "none"
            BY DEF ReaderInit, Init, OnRow, Here
      <2>2. Sets[1] \in Nat
            BY SetsAssumption
      <2>3. QED
            BY <2>1, <2>2, CursorInit DEF IteratedInv, StreamInv, Lost, Iterated!Init
<1>2. Spec => []CursorInv
      BY CursorAlways
<1>3. IteratedInv /\ CursorInv' /\ [ReaderNext]_readerVars
      => IteratedInv' /\ [Iterated!Next]_(Iterated!streamVars)
      BY IteratedStep
<1>4. QED
      BY <1>1, <1>2, <1>3, ReadersNavigate, PTL DEF FairReaders, Spec
=============================================================================
