-------------------------- MODULE Parameters_proofs --------------------------
(***************************************************************************)
(* Proofs about Parameters, for any number of parameters, batches of any   *)
(* length, strings and sentries of any length and any least number of      *)
(* indicators: what is executed is what was bound.                         *)
(***************************************************************************)
EXTENDS Parameters, SequenceTheorems, WellFoundedInduction, TLAPS

Text == Seq(Nat \ {0})

Less == {ss \in Nat \X Nat : ss[1] < ss[2]}

\* A set of natural numbers that is not empty has a least element.
LEMMA LeastExists ==
  ASSUME NEW T, T \subseteq Nat, T # {}
  PROVE  \E m \in T : \A n \in T : ~(n < m)
<1>1. IsWellFoundedOn(Less, Nat)
      BY NatLessThanWellFounded DEF OpToRel, Less
<1>2. PICK m \in T : \A n \in T : ~(<<n, m>> \in Less)
      BY <1>1, WFMin
<1>3. QED
      BY <1>2 DEF Less

\* A finite sequence of naturals has a greatest element: otherwise take its
\* shortest beginning without one.
LEMMA GreatestExists ==
  ASSUME NEW n \in Nat, n >= 1, NEW f \in [1..n -> Nat]
  PROVE  \E j \in 1..n : \A i \in 1..n : f[i] <= f[j]
<1> DEFINE Has(m) == \E j \in 1..m : \A i \in 1..m : f[i] <= f[j]
           Bad == {m \in 1..n : ~Has(m)}
<1>1. ASSUME NEW m \in Bad, \A k \in Bad : ~(k < m)
      PROVE  FALSE
      <2>1. m \in 1..n /\ ~Has(m)
            OBVIOUS
      <2>2. m # 1
            <3>1. SUFFICES ASSUME m = 1 PROVE Has(1)
                  BY <2>1
            <3>2. QED
                  OBVIOUS
      <2>3. m - 1 \in 1..n /\ m - 1 < m
            BY <2>1, <2>2
      <2>4. Has(m - 1)
            <3> HIDE DEF Has
            <3>1. m - 1 \notin Bad
                  BY <1>1, <2>3
            <3>2. QED
                  BY <2>3, <3>1
      <2>5. PICK j \in 1..(m - 1) : \A i \in 1..(m - 1) : f[i] <= f[j]
            BY <2>4
      <2>6. CASE f[m] <= f[j]
            <3>1. j \in 1..m /\ \A i \in 1..m : f[i] <= f[j]
                  BY <2>1, <2>5, <2>6
            <3>2. QED
                  BY <2>1, <3>1
      <2>7. CASE ~(f[m] <= f[j])
            <3>1. m \in 1..m /\ \A i \in 1..m : f[i] <= f[m]
                  BY <2>1, <2>5, <2>7
            <3>2. QED
                  BY <2>1, <3>1
      <2>8. QED
            BY <2>6, <2>7
<1>2. Bad = {}
      <2>1. Bad \subseteq Nat
            OBVIOUS
      <2> HIDE DEF Bad
      <2>2. QED
            BY <1>1, <2>1, LeastExists
<1>3. Has(n)
      <2> HIDE DEF Has
      <2>1. QED
            BY <1>2
<1>4. QED
      BY <1>3

-----------------------------------------------------------------------------
(* Strings in memory.                                                      *)

\* What is assumed of a batch: values without zeros, at least one.
IsBatch(rows) == rows \in Seq(Text) /\ rows # <<>>

LEMMA BatchFacts ==
  ASSUME NEW rows, IsBatch(rows)
  PROVE  /\ DOMAIN rows = 1..Len(rows) /\ Len(rows) \in Nat /\ Len(rows) >= 1
         /\ \A i \in 1..Len(rows) :
              /\ rows[i] \in Text /\ Len(rows[i]) \in Nat
              /\ DOMAIN rows[i] = 1..Len(rows[i])
              /\ \A k \in 1..Len(rows[i]) : rows[i][k] \in Nat \ {0}
<1>1. DOMAIN rows = 1..Len(rows) /\ Len(rows) \in Nat /\ Len(rows) >= 1
      BY LenProperties, EmptySeq DEF IsBatch
<1>2. \A i \in 1..Len(rows) : rows[i] \in Text
      BY ElementOfSeq DEF IsBatch
<1>3. \A v \in Text : /\ Len(v) \in Nat /\ DOMAIN v = 1..Len(v)
                      /\ \A k \in 1..Len(v) : v[k] \in Nat \ {0}
      BY LenProperties, ElementOfSeq DEF Text
<1>4. QED
      BY <1>1, <1>2, <1>3

\* Longest is the length of one of the values, and no value is longer.
LEMMA LongestIsMax ==
  ASSUME NEW rows, IsBatch(rows)
  PROVE  Longest(rows) \in Nat /\ \A i \in 1..Len(rows) : Len(rows[i]) <= Longest(rows)
<1> DEFINE f == [i \in 1..Len(rows) |-> Len(rows[i])]
<1>1. f \in [1..Len(rows) -> Nat] /\ Len(rows) \in Nat /\ Len(rows) >= 1
      BY BatchFacts
<1>2. PICK j \in 1..Len(rows) : \A i \in 1..Len(rows) : f[i] <= f[j]
      <2> HIDE DEF f
      <2>1. QED
            BY <1>1, GreatestExists
<1>3. \E n \in {Len(rows[i]) : i \in DOMAIN rows} : \A i \in DOMAIN rows : Len(rows[i]) <= n
      BY <1>2, BatchFacts
<1>4. /\ Longest(rows) \in {Len(rows[i]) : i \in DOMAIN rows}
      /\ \A i \in DOMAIN rows : Len(rows[i]) <= Longest(rows)
      BY <1>3 DEF Longest
<1>5. QED
      BY <1>4, BatchFacts

\* Compared over one character more than the first has, two strings are found
\* equal only if they are: the end of the shorter one shows.
LEMMA SameTextIsEqual ==
  ASSUME NEW s \in Text, NEW t \in Text, NEW n \in Nat, n > Len(s)
  PROVE  SameText(s, t, n) <=> s = t
<1>1. /\ Len(s) \in Nat /\ DOMAIN s = 1..Len(s) /\ \A k \in 1..Len(s) : s[k] \in Nat \ {0}
      /\ Len(t) \in Nat /\ DOMAIN t = 1..Len(t) /\ \A k \in 1..Len(t) : t[k] \in Nat \ {0}
      BY LenProperties, ElementOfSeq DEF Text
<1>2. ASSUME s = t PROVE SameText(s, t, n)
      BY <1>2 DEF SameText
<1>3. ASSUME SameText(s, t, n) PROVE s = t
      <2>1. \A k \in 1..(Len(s) + 1) : At(s, k) = At(t, k)
            <3>1. SUFFICES ASSUME NEW k \in 1..(Len(s) + 1) PROVE At(s, k) = At(t, k)
                  OBVIOUS
            <3>2. \A j \in 1..(k - 1) : At(s, j) # 0
                  BY <1>1, <3>1 DEF At
            <3>3. k \in 1..n
                  BY <1>1
            <3>4. QED
                  BY <1>3, <3>2, <3>3 DEF SameText
      <2>2. \A k \in 1..Len(s) : k \in 1..Len(t) /\ t[k] = s[k]
            <3>1. SUFFICES ASSUME NEW k \in 1..Len(s) PROVE k \in 1..Len(t) /\ t[k] = s[k]
                  OBVIOUS
            <3>2. At(s, k) = s[k] /\ s[k] # 0 /\ At(t, k) = s[k]
                  BY <1>1, <2>1, SMTT(30) DEF At
            <3>3. QED
                  BY <1>1, <3>2 DEF At
      <2>3. Len(s) <= Len(t)
            BY <1>1, <2>2
      <2>4. ~(Len(t) > Len(s))
            <3>1. SUFFICES ASSUME Len(t) > Len(s) PROVE FALSE
                  OBVIOUS
            <3>2. At(s, Len(s) + 1) = 0 /\ At(t, Len(s) + 1) = t[Len(s) + 1]
                  BY <1>1, <3>1 DEF At
            <3>3. QED
                  BY <1>1, <2>1, <3>1, <3>2
      <2>5. Len(s) = Len(t)
            <3>1. Len(s) \in Nat /\ Len(t) \in Nat
                  BY <1>1
            <3>2. QED
                  BY <2>3, <2>4, <3>1
      <2>6. \A k \in 1..Len(s) : s[k] = t[k]
            BY <2>2
      <2>7. QED
            BY <2>5, <2>6, SeqEqual DEF Text
<1>4. QED
      BY <1>2, <1>3

\* The k-th place of slot i.
LEMMA PlaceInSlot ==
  ASSUME NEW w \in Nat, NEW q \in Nat, NEW r \in 0..(w - 1)
  PROVE  (q * w + r) \div w = q /\ (q * w + r) % w = r
  BY SMTT(30)

\* A slot holds its value and, beyond the end of it, zeros.
LEMMA SlotHolds ==
  ASSUME NEW rows, IsBatch(rows), NEW w \in Nat,
         NEW i \in 1..Len(rows), NEW k \in 1..w
  PROVE  /\ (i - 1) * w + k \in 1..(Len(rows) * w)
         /\ InSlots(rows, w)[(i - 1) * w + k] = At(rows[i], k)
<1>1. Len(rows) \in Nat
      BY BatchFacts
<1> DEFINE q == i - 1
           r == k - 1
<1>2. q \in Nat /\ r \in 0..(w - 1) /\ q * w \in Nat /\ Len(rows) * w \in Nat
      BY <1>1
<1>3. q * w + w <= Len(rows) * w
      <2>1. q + 1 <= Len(rows) /\ w >= 0
            BY <1>1
      <2>2. (q + 1) * w <= Len(rows) * w
            BY <1>1, <1>2, <2>1
      <2>3. QED
            BY <1>2, <2>2
<1>4. (i - 1) * w + k \in 1..(Len(rows) * w)
      BY <1>1, <1>2, <1>3
<1>5. /\ ((i - 1) * w + k - 1) \div w = i - 1
      /\ ((i - 1) * w + k - 1) % w = k - 1
      <2>1. (i - 1) * w + k - 1 = q * w + r
            BY <1>2
      <2>2. (q * w + r) \div w = q /\ (q * w + r) % w = r
            BY <1>2, PlaceInSlot
      <2>3. QED
            BY <2>1, <2>2
<1>6. QED
      BY <1>4, <1>5 DEF InSlots

-----------------------------------------------------------------------------
(* What an execution reads of one binding.                                 *)

CopiedForms == {"slots", "strings", "wides"}

LEMMA WidthSuffices ==
  ASSUME NEW form, NEW rows, IsBatch(rows)
  PROVE  /\ Width(form, rows) \in Nat
         /\ \A i \in 1..Len(rows) : Len(rows[i]) <= Width(form, rows)
         /\ form # "bytes" => \A i \in 1..Len(rows) : Len(rows[i]) < Width(form, rows)
  BY LongestIsMax, BatchFacts DEF Width

\* A stretch of memory in which the characters of v stand one after the other.
LEMMA StretchIsText ==
  ASSUME NEW d, NEW from \in Nat, NEW v \in Text,
         \A k \in 1..Len(v) : d[from + k - 1] = v[k]
  PROVE  SubSeq(d, from, from + Len(v) - 1) = v
<1>1. Len(v) \in Nat /\ \A k \in 1..Len(v) : v[k] \in Nat \ {0}
      BY LenProperties, ElementOfSeq DEF Text
<1> DEFINE to == from + Len(v) - 1
<1>2. to \in Int /\ to = from + Len(v) - 1
      BY <1>1
<1> HIDE DEF to
<1>3. \A k \in from..to : d[k] \in Nat \ {0}
      <2>1. SUFFICES ASSUME NEW k \in from..to PROVE d[k] \in Nat \ {0}
            OBVIOUS
      <2>2. k - from + 1 \in 1..Len(v) /\ from + (k - from + 1) - 1 = k
            BY <1>1, <1>2
      <2>3. d[from + (k - from + 1) - 1] = v[k - from + 1]
            BY <2>2
      <2>4. QED
            BY <1>1, <2>2, <2>3
<1>4. /\ SubSeq(d, from, to) \in Seq(Nat \ {0})
      /\ Len(SubSeq(d, from, to)) = IF from <= to THEN to - from + 1 ELSE 0
      /\ \A k \in 1..(to - from + 1) : SubSeq(d, from, to)[k] = d[from + k - 1]
      <2>1. SubSeq(d, from, to) \in Seq(Nat \ {0})
            BY <1>2, <1>3, SubSeqProperties
      <2>2. Len(SubSeq(d, from, to)) = IF from <= to THEN to - from + 1 ELSE 0
            BY <1>2, <1>3, SubSeqProperties
      <2>3. \A k \in 1..(to - from + 1) : SubSeq(d, from, to)[k] = d[from + k - 1]
            BY <1>2, <1>3, SubSeqProperties, SMTT(30)
      <2>4. QED
            BY <2>1, <2>2, <2>3
<1>5. to - from + 1 = Len(v) /\ (from <= to <=> Len(v) >= 1)
      BY <1>1, <1>2
<1>6. Len(SubSeq(d, from, to)) = Len(v)
      BY <1>1, <1>4, <1>5
<1>7. \A k \in 1..Len(SubSeq(d, from, to)) : SubSeq(d, from, to)[k] = v[k]
      BY <1>4, <1>5, <1>6
<1>8. SubSeq(d, from, to) = v
      BY <1>4, <1>6, <1>7, SeqEqual DEF Text
<1>9. QED
      BY <1>2, <1>8

\* The characters of a value stand in its slot.
LEMMA ValueInSlot ==
  ASSUME NEW rows, IsBatch(rows), NEW w \in Nat, NEW i \in 1..Len(rows),
         Len(rows[i]) <= w
  PROVE  /\ (i - 1) * w + 1 \in Nat /\ rows[i] \in Text
         /\ \A k \in 1..Len(rows[i]) :
              InSlots(rows, w)[((i - 1) * w + 1) + k - 1] = rows[i][k]
<1>1. (i - 1) * w \in Nat /\ rows[i] \in Text
      BY BatchFacts
<1>2. ASSUME NEW k \in 1..Len(rows[i])
      PROVE  InSlots(rows, w)[((i - 1) * w + 1) + k - 1] = rows[i][k]
      <2>1. k \in 1..w /\ ((i - 1) * w + 1) + k - 1 = (i - 1) * w + k
            BY <1>1, BatchFacts
      <2>2. At(rows[i], k) = rows[i][k]
            BY BatchFacts DEF At
      <2>3. QED
            BY <2>1, <2>2, SlotHolds
<1>3. QED
      BY <1>1, <1>2

\* The bytes of a value are those its indicator counts.
LEMMA BytesArrive ==
  ASSUME NEW rows, IsBatch(rows), NEW w \in Nat, NEW i \in 1..Len(rows),
         Len(rows[i]) <= w
  PROVE  SubSeq(InSlots(rows, w), (i - 1) * w + 1,
                (i - 1) * w + 1 + Len(rows[i]) - 1) = rows[i]
<1> DEFINE d == InSlots(rows, w)
           from == (i - 1) * w + 1
<1>1. /\ from \in Nat /\ rows[i] \in Text
      /\ \A k \in 1..Len(rows[i]) : d[from + k - 1] = rows[i][k]
      BY ValueInSlot
<1> HIDE DEF d, from
<1>2. SubSeq(d, from, from + Len(rows[i]) - 1) = rows[i]
      BY <1>1, StretchIsText
<1>3. QED
      BY <1>2 DEF d, from

\* Reading stops before the first zero.
LEMMA TextEnds ==
  ASSUME NEW d, Len(d) \in Nat, DOMAIN d = 1..Len(d),
         NEW from \in Nat, from >= 1, NEW n \in Nat, from + n <= Len(d),
         d[from + n] = 0, \A j \in from..(from + n - 1) : d[j] # 0
  PROVE  TextFrom(d, from) = SubSeq(d, from, from + n - 1)
<1> DEFINE IsEnd(e) == At(d, e) = 0 /\ \A j \in from..(e - 1) : d[j] # 0
           end == CHOOSE e \in from..(Len(d) + 1) : IsEnd(e)
<1>1. from + n \in from..(Len(d) + 1) /\ IsEnd(from + n)
      BY DEF At
<1>2. ASSUME NEW e \in from..(Len(d) + 1), IsEnd(e)
      PROVE  e = from + n
      <2>1. ~(e < from + n)
            <3>1. SUFFICES ASSUME e < from + n PROVE FALSE
                  OBVIOUS
            <3>2. e \in from..(from + n - 1) /\ e \in DOMAIN d
                  BY <3>1
            <3>3. QED
                  BY <1>2, <3>2 DEF At
      <2>2. ~(e > from + n)
            BY <1>2
      <2>3. QED
            BY <2>1, <2>2
<1>3. end = from + n
      <2> HIDE DEF IsEnd
      <2>1. QED
            BY <1>1, <1>2
<1>4. TextFrom(d, from) = SubSeq(d, from, end - 1)
      BY Zenon DEF TextFrom
<1> HIDE DEF end
<1>5. QED
      BY <1>3, <1>4

\* A string ends at the first zero, which its slot has room for.
LEMMA TextArrives ==
  ASSUME NEW rows, IsBatch(rows), NEW w \in Nat, NEW i \in 1..Len(rows),
         Len(rows[i]) < w
  PROVE  TextFrom(InSlots(rows, w), (i - 1) * w + 1) = rows[i]
<1> DEFINE d == InSlots(rows, w)
           from == (i - 1) * w + 1
           size == Len(rows) * w
           n == Len(rows[i])
<1>1. n \in Nat /\ n < w /\ from \in Nat /\ from >= 1 /\ size \in Nat
      BY BatchFacts
<1>2. rows[i] \in Text /\ At(rows[i], n + 1) = 0 /\ \A k \in 1..n : rows[i][k] # 0
      BY BatchFacts DEF At
<1>3. DOMAIN d = 1..size /\ Len(d) = size
      BY <1>1 DEF InSlots
<1>4. \A k \in 1..n : d[from + k - 1] = rows[i][k]
      <2>1. Len(rows[i]) <= w
            BY <1>1
      <2>2. QED
            BY <2>1, ValueInSlot
<1>5. from + n <= size /\ d[from + n] = 0
      <2>1. from + n = (i - 1) * w + (n + 1) /\ n + 1 \in 1..w /\ (i - 1) * w \in Nat
            <3>1. (i - 1) * w \in Nat
                  BY BatchFacts
            <3> HIDE DEF n
            <3>2. QED
                  BY <1>1, <3>1
      <2>2. (i - 1) * w + (n + 1) \in 1..size
            BY <2>1, SlotHolds
      <2>3. d[(i - 1) * w + (n + 1)] = 0
            BY <1>2, <2>1, SlotHolds
      <2> HIDE DEF n, size, from
      <2>4. QED
            BY <1>1, <2>1, <2>2, <2>3
<1> HIDE DEF d, from, size, n
<1>6. \A j \in from..(from + n - 1) : d[j] # 0
      <2> SUFFICES ASSUME NEW j \in from..(from + n - 1) PROVE d[j] # 0
          OBVIOUS
      <2>1. j - from + 1 \in 1..n /\ from + (j - from + 1) - 1 = j
            BY <1>1
      <2>2. d[from + (j - from + 1) - 1] # 0
            BY <1>2, <1>4, <2>1
      <2>3. QED
            BY <2>1, <2>2
<1>7. TextFrom(d, from) = SubSeq(d, from, from + n - 1)
      <2>1. Len(d) \in Nat /\ DOMAIN d = 1..Len(d) /\ from + n <= Len(d)
            BY <1>1, <1>3, <1>5
      <2>2. QED
            BY <1>1, <1>5, <1>6, <2>1, TextEnds
<1>8. SubSeq(d, from, from + n - 1) = rows[i]
      BY <1>1, <1>2, <1>4, StretchIsText DEF n
<1>9. QED
      BY <1>7, <1>8 DEF d, from

\* What a caller may say of the rows of a batch; nulls are all null.
MarksOf(form, rows) ==
  IF form = "nulls"
  THEN {[by |-> "flags", null |-> [i \in DOMAIN rows |-> TRUE]]}
  ELSE Marks(form, rows)

\* A sentry is found in the rows that equal it and, unless the values are
\* binary, in no others.
LEMMA SentryFound ==
  ASSUME NEW form \in AllForms, NEW rows, IsBatch(rows),
         NEW sentry \in Sentries, NEW beyond \in Sentries \cup {<<>>},
         NEW i \in 1..Len(rows)
  PROVE  /\ rows[i] = sentry => IsSentry(form, rows[i], sentry, beyond, Width(form, rows))
         /\ form # "bytes" /\ IsSentry(form, rows[i], sentry, beyond, Width(form, rows))
              => rows[i] = sentry
<1>1. sentry \in Text /\ rows[i] \in Text
      BY BatchFacts, SentriesAssumption DEF Text
<1>2. CASE form = "bytes"
      <2>1. beyond \in Text
            BY SentriesAssumption, EmptySeq DEF Text
      <2>2. SUFFICES ASSUME rows[i] = sentry
                     PROVE  \A k \in DOMAIN sentry : sentry[k] = At(sentry \o beyond, k)
            BY <1>2 DEF IsSentry
      <2>3. /\ Len(sentry) \in Nat /\ DOMAIN sentry = 1..Len(sentry) /\ Len(beyond) \in Nat
            /\ sentry \o beyond \in Seq(Nat \ {0})
            /\ Len(sentry \o beyond) = Len(sentry) + Len(beyond)
            /\ \A k \in 1..(Len(sentry) + Len(beyond)) :
                 (sentry \o beyond)[k] = IF k <= Len(sentry) THEN sentry[k]
                                         ELSE beyond[k - Len(sentry)]
            BY <1>1, <2>1, LenProperties, ConcatProperties DEF Text
      <2>4. DOMAIN (sentry \o beyond) = 1..(Len(sentry) + Len(beyond))
            BY <2>3, LenProperties
      <2>5. QED
            BY <2>3, <2>4 DEF At
<1>3. CASE form = "fixed"
      BY <1>3 DEF IsSentry
<1>4. CASE form \notin {"bytes", "fixed"}
      <2>1. Width(form, rows) \in Nat /\ Width(form, rows) > Len(rows[i])
            BY <1>4, WidthSuffices, BatchFacts
      <2>2. SameText(rows[i], sentry, Width(form, rows)) <=> rows[i] = sentry
            BY <1>1, <2>1, SameTextIsEqual
      <2>3. QED
            BY <1>4, <2>2 DEF IsSentry
<1>5. QED
      BY <1>2, <1>3, <1>4

\* A row that is meant to be null is marked null; when the sentry is exact, so
\* is no other.
LEMMA NullsMarked ==
  ASSUME NEW form \in AllForms, NEW rows, IsBatch(rows),
         NEW marks \in MarksOf(form, rows), NEW i \in 1..Len(rows),
         form = "nulls" \/ rows[i] # NULL
  PROVE  /\ Meant(rows, marks)[i] \in {NULL, rows[i]}
         /\ Meant(rows, marks)[i] = NULL => IsNull(form, rows, marks, i)
         /\ ~(form = "bytes" /\ marks.by = "sentry") =>
              (IsNull(form, rows, marks, i) => Meant(rows, marks)[i] = NULL)
<1>1. i \in DOMAIN rows
      BY BatchFacts
<1>2. marks.by \in {"none", "flags", "sentry"}
      BY DEF MarksOf, Marks
<1>3. CASE marks.by # "sentry"
      BY <1>1, <1>2, <1>3 DEF Meant, IsNull, MarksOf
<1>4. CASE marks.by = "sentry"
      <2>1. marks.sentry \in Sentries /\ marks.beyond \in Sentries \cup {<<>>}
            BY <1>4 DEF MarksOf, Marks
      <2>2. PICK sentry \in Sentries, beyond \in Sentries \cup {<<>>} :
              marks.sentry = sentry /\ marks.beyond = beyond
            BY <2>1
      <2> DEFINE found == IsSentry(form, rows[i], sentry, beyond, Width(form, rows))
      <2>3. rows[i] = sentry => found
            BY SentryFound
      <2>4. form # "bytes" /\ found => rows[i] = sentry
            BY SentryFound
      <2>5. IsNull(form, rows, marks, i) <=> found
            BY <1>4, <2>2 DEF IsNull
      <2>6. Meant(rows, marks)[i] = IF rows[i] = sentry THEN NULL ELSE rows[i]
            BY <1>1, <1>4, <2>2 DEF Meant
      <2> HIDE DEF found
      <2>7. QED
            BY <1>4, <2>3, <2>4, <2>5, <2>6 DEF MarksOf
<1>5. QED
      BY <1>3, <1>4

\* What the driver reads of row i of a binding: nothing where the row is marked
\* null or is not there, and else the value bound.
LEMMA RowRead ==
  ASSUME NEW form \in AllForms, NEW rows, IsBatch(rows), NEW marks \in MarksOf(form, rows),
         NEW i \in DOMAIN Binding(form, rows, marks).indicators
  PROVE  RowSent(Binding(form, rows, marks), i) =
           IF i > Len(rows) \/ IsNull(form, rows, marks, i) THEN NULL ELSE rows[i]
<1> DEFINE b == Binding(form, rows, marks)
           w == Width(form, rows)
<1>1. /\ b.form = form /\ b.width = w /\ b.indicators = Indicators(form, rows, marks)
      /\ b.values = IF form \in {"fixed", "nulls"} THEN rows ELSE InSlots(rows, w)
      BY DEF Binding
<1>2. Len(rows) \in Nat /\ i \in Nat /\ i >= 1
      BY <1>1, BatchFacts, MinAssumption DEF Indicators
<1>3. b.indicators[i] = IF i > Len(rows) \/ IsNull(form, rows, marks, i)
                        THEN -1 ELSE Present(form, rows[i])
      BY <1>1 DEF Indicators, IndicatorNull
<1> HIDE DEF b
<1>4. CASE i > Len(rows) \/ IsNull(form, rows, marks, i)
      <2>1. RowSent(b, i) = NULL
            BY <1>3, <1>4 DEF RowSent, IndicatorNull
      <2>2. QED
            BY <1>4, <2>1 DEF b
<1>5. CASE ~(i > Len(rows) \/ IsNull(form, rows, marks, i))
      <2>1. i \in 1..Len(rows) /\ i \in DOMAIN rows
            BY <1>2, <1>5, BatchFacts
      <2>2. b.indicators[i] = Present(form, rows[i]) /\ Present(form, rows[i]) # -1
            BY <1>3, <1>5, <2>1, BatchFacts DEF Present
      <2>3. form # "nulls"
            BY <1>5, <2>1 DEF MarksOf, IsNull
      <2>4. w \in Nat /\ Len(rows[i]) <= w
            BY <2>1, WidthSuffices
      <2>5. CASE form = "fixed"
            BY <1>1, <1>5, <2>2, <2>5 DEF RowSent, IndicatorNull, b
      <2>6. CASE form = "bytes"
            <3>1. b.indicators[i] = Len(rows[i]) /\ b.values = InSlots(rows, w)
                  BY <1>1, <2>2, <2>6 DEF Present
            <3>2. RowSent(b, i) = SubSeq(InSlots(rows, w), (i - 1) * w + 1,
                                         (i - 1) * w + 1 + Len(rows[i]) - 1)
                  BY <1>1, <2>2, <2>6, <3>1 DEF RowSent, IndicatorNull
            <3>3. QED
                  BY <1>5, <2>1, <2>4, <3>2, BytesArrive DEF b
      <2>7. CASE form \in CopiedForms
            <3>1. b.values = InSlots(rows, w) /\ Len(rows[i]) < w
                  BY <1>1, <2>1, <2>7, WidthSuffices DEF CopiedForms
            <3>2. RowSent(b, i) = TextFrom(InSlots(rows, w), (i - 1) * w + 1)
                  BY <1>1, <2>2, <2>7, <3>1 DEF RowSent, IndicatorNull, CopiedForms
            <3>3. QED
                  BY <1>5, <2>1, <2>4, <3>1, <3>2, TextArrives DEF b
      <2>8. QED
            BY <2>3, <2>5, <2>6, <2>7 DEF AllForms, CopiedForms
<1>6. QED
      BY <1>4, <1>5

-----------------------------------------------------------------------------
(* The invariant: whatever the driver was given is a binding of some batch,*)
(* and what was asked for is that batch.  Copies and indicators are there. *)

Made(b, a, form, rows) ==
  /\ IsBatch(rows)
  /\ form = "nulls" \/ \A i \in 1..Len(rows) : rows[i] # NULL
  /\ \E marks \in MarksOf(form, rows) :
       /\ b = Binding(form, rows, marks)
       /\ a = [rows |-> Meant(rows, marks),
               exact |-> ~(form = "bytes" /\ marks.by = "sentry")]

Faithful(b, a) == \E form \in AllForms : \E rows : Made(b, a, form, rows)

ParamInv ==
  /\ DOMAIN bound = Params /\ DOMAIN asked = Params
  /\ \A p \in Params : IsBound(p) /\ p \notin lost => Faithful(bound[p], asked[p])

LEMMA ParamInit == Init => ParamInv
  BY DEF Init, ParamInv, IsBound, NoBinding

\* The other parameters keep what they have.
LEMMA UndermineOthers ==
  ASSUME NEW p \in Params, NEW form
  PROVE  /\ DOMAIN Undermine(p, form) = Params
         /\ \A q \in Params \ {p} : Undermine(p, form)[q] = bound[q]
  BY DEF Undermine

LEMMA ThrowKeeps ==
  ASSUME ParamInv, NEW p \in Params, NEW form, BindThrows(p, form)
  PROVE  ParamInv'
<1>1. DOMAIN bound' = Params /\ DOMAIN asked' = Params
      BY UndermineOthers DEF ParamInv, BindThrows
<1>2. ASSUME NEW q \in Params, IsBound(q)', q \notin lost'
      PROVE  Faithful(bound'[q], asked'[q])
      <2>1. q # p /\ q \notin lost
            BY <1>2 DEF BindThrows
      <2>2. bound'[q] = bound[q] /\ asked'[q] = asked[q]
            BY <2>1, UndermineOthers DEF BindThrows
      <2>3. QED
            BY <1>2, <2>1, <2>2 DEF ParamInv, IsBound
<1>3. QED
      BY <1>1, <1>2 DEF ParamInv

LEMMA ReturnKeeps ==
  ASSUME ParamInv, NEW p \in Params, NEW form \in AllForms,
         NEW rows, IsBatch(rows), form = "nulls" \/ \A i \in 1..Len(rows) : rows[i] # NULL,
         NEW marks \in MarksOf(form, rows), BindReturns(p, form, rows, marks)
  PROVE  ParamInv'
<1>1. DOMAIN bound' = Params /\ DOMAIN asked' = Params
      BY UndermineOthers DEF ParamInv, BindReturns
<1>2. ASSUME NEW q \in Params, IsBound(q)', q \notin lost'
      PROVE  Faithful(bound'[q], asked'[q])
      <2>1. CASE q = p
            <3>1. bound'[p] = Binding(form, rows, marks)
                  BY UndermineOthers DEF BindReturns
            <3>2. asked'[p] = [rows |-> Meant(rows, marks),
                               exact |-> ~(form = "bytes" /\ marks.by = "sentry")]
                  BY DEF ParamInv, BindReturns
            <3>3. QED
                  BY <2>1, <3>1, <3>2 DEF Faithful, Made
      <2>2. CASE q # p
            <3>1. bound'[q] = bound[q] /\ asked'[q] = asked[q] /\ q \notin lost
                  BY <1>2, <2>2, UndermineOthers DEF BindReturns
            <3>2. QED
                  BY <1>2, <3>1 DEF ParamInv, IsBound
      <2>3. QED
            BY <2>1, <2>2
<1>3. QED
      BY <1>1, <1>2 DEF ParamInv

\* As many nulls as there are rows in a batch are one.
LEMMA NullsAreBatch ==
  ASSUME NEW p \in Params, NEW batch \in Batches[p],
         NEW rows, rows = [i \in DOMAIN batch |-> <<>>]
  PROVE  IsBatch(rows)
<1>1. Len(batch) \in Nat /\ DOMAIN batch = 1..Len(batch) /\ Len(batch) >= 1
      BY BatchesAssumption, BatchFacts DEF IsBatch, Text
<1>2. <<>> \in Text
      BY EmptySeq DEF Text
<1>3. QED
      BY <1>1, <1>2 DEF IsBatch

LEMMA ParamStep == ParamInv /\ [Next]_vars => ParamInv'
<1> SUFFICES ASSUME ParamInv, [Next]_vars PROVE ParamInv'
    OBVIOUS
<1>1. ASSUME UNCHANGED <<bound, asked, lost>> PROVE ParamInv'
      BY <1>1 DEF ParamInv, IsBound
<1>2. ASSUME NEW p \in Params, NEW form \in Forms[p] \ {"nulls"}, Bind(p, form)
      PROVE  ParamInv'
      <2>1. CASE BindRefused
            BY <1>1, <2>1 DEF BindRefused, vars
      <2>2. CASE BindThrows(p, form)
            BY <2>2, ThrowKeeps
      <2>3. ASSUME NEW rows \in Batches[p], NEW marks \in Marks(form, rows),
                   BindReturns(p, form, rows, marks)
            PROVE  ParamInv'
            <3>1. form \in AllForms /\ marks \in MarksOf(form, rows)
                  BY FormsAssumption DEF MarksOf
            <3>2. IsBatch(rows) /\ \A i \in DOMAIN rows : rows[i] # NULL
                  BY BatchesAssumption DEF IsBatch, Text
            <3>3. \A i \in 1..Len(rows) : rows[i] # NULL
                  BY <3>2, BatchFacts
            <3>4. QED
                  BY <2>3, <3>1, <3>2, <3>3, ReturnKeeps
      <2>4. QED
            BY <1>2, <2>1, <2>2, <2>3 DEF Bind
<1>3. ASSUME NEW p \in Params, BindNull(p)
      PROVE  ParamInv'
      <2>1. CASE BindRefused
            BY <1>1, <2>1 DEF BindRefused, vars
      <2>2. CASE BindThrows(p, "nulls")
            BY <2>2, ThrowKeeps
      <2>3. ASSUME NEW batch \in Batches[p],
                   BindReturns(p, "nulls", [i \in DOMAIN batch |-> <<>>],
                     [by |-> "flags", null |-> [i \in DOMAIN batch |-> TRUE]])
            PROVE  ParamInv'
            <3> DEFINE rows == [i \in DOMAIN batch |-> <<>>]
                       marks == [by |-> "flags", null |-> [i \in DOMAIN batch |-> TRUE]]
            <3>1. IsBatch(rows)
                  BY NullsAreBatch
            <3>2. "nulls" \in AllForms /\ marks \in MarksOf("nulls", rows)
                  BY DEF AllForms, MarksOf
            <3> HIDE DEF rows, marks
            <3>3. BindReturns(p, "nulls", rows, marks)
                  BY <2>3 DEF rows, marks
            <3>4. QED
                  BY <3>1, <3>2, <3>3, ReturnKeeps
      <2>4. QED
            BY <1>3, <2>1, <2>2, <2>3 DEF BindNull
<1>4. CASE Reset
      <2>1. CASE UNCHANGED <<bound, asked, lost>>
            BY <1>1, <2>1
      <2>2. CASE bound' = [p \in Params |-> NoBinding] /\ asked' = [p \in Params |-> NothingAsked]
            BY <2>2 DEF ParamInv, IsBound, NoBinding
      <2>3. QED
            BY <1>4, <2>1, <2>2 DEF Reset
<1>5. ASSUME NEW ps \in SUBSET Params, Describe(ps) PROVE ParamInv'
      BY <1>1, <1>5 DEF Describe
<1>6. ASSUME NEW p \in Params, LookUp(p) PROVE ParamInv'
      BY <1>1, <1>6 DEF LookUp
<1>7. CASE UNCHANGED vars
      BY <1>1, <1>7 DEF vars
<1>8. QED
      BY <1>2, <1>3, <1>4, <1>5, <1>6, <1>7 DEF Next

LEMMA ParamAlways == Spec => []ParamInv
  BY ParamInit, ParamStep, PTL DEF Spec

-----------------------------------------------------------------------------
(* Types.                                                                  *)

\* A binding in one of the forms, with indicators enough, of rows that were
\* asked for; or neither.
Shaped(b, a, forms) ==
  \/ b.form = NULL /\ a.rows = <<>>
  \/ /\ {"form", "indicators"} \subseteq DOMAIN b
     /\ b.form \in forms /\ Len(b.indicators) >= MinIndicators
     /\ a.rows # <<>>

TypeInv ==
  /\ descr \in [Params -> {NULL, "driver", "caller"}]
  /\ lost \subseteq Params
  /\ \A p \in Params : Shaped(bound[p], asked[p], Forms[p])

\* What is bound has as many indicators as rows, and no fewer than it must.
LEMMA BindingShaped ==
  ASSUME NEW forms, NEW form \in forms, NEW rows, IsBatch(rows), NEW marks,
         NEW exact, NEW a, a = [rows |-> Meant(rows, marks), exact |-> exact]
  PROVE  Shaped(Binding(form, rows, marks), a, forms)
<1>1. Len(rows) \in Nat /\ Len(rows) >= 1 /\ DOMAIN rows = 1..Len(rows)
      BY BatchFacts
<1> DEFINE size == IF Len(rows) > MinIndicators THEN Len(rows) ELSE MinIndicators
           b == Binding(form, rows, marks)
<1>2. size \in Nat /\ size >= MinIndicators
      BY <1>1, MinAssumption
<1>3. /\ b.form = form /\ b.indicators = Indicators(form, rows, marks)
      /\ {"form", "indicators"} \subseteq DOMAIN b
      BY DEF Binding
<1>4. Len(Indicators(form, rows, marks)) = size
      BY <1>2 DEF Indicators
<1>5. a.rows # <<>>
      <2>1. 1 \in DOMAIN Meant(rows, marks)
            BY <1>1 DEF Meant
      <2>2. a.rows = Meant(rows, marks)
            OBVIOUS
      <2>3. QED
            BY <2>1, <2>2
<1> HIDE DEF b, size
<1>6. QED
      BY <1>2, <1>3, <1>4, <1>5 DEF Shaped, b

\* Losing its vectors changes nothing else of a binding.
LEMMA UndermineShaped ==
  ASSUME TypeInv, NEW p \in Params, NEW form, NEW q \in Params
  PROVE  Shaped(Undermine(p, form)[q], asked[q], Forms[q])
<1>1. Shaped(bound[q], asked[q], Forms[q])
      BY DEF TypeInv
<1>2. CASE q # p \/ ~IsBound(q)
      BY <1>1, <1>2 DEF Undermine
<1>3. CASE q = p /\ IsBound(q)
      <2>1. PICK live : Undermine(p, form)[q] =
              [bound[q] EXCEPT !.indicatorsLive = FALSE, !.valuesLive = live]
            BY <1>3 DEF Undermine
      <2>2. {"form", "indicators"} \subseteq DOMAIN bound[q]
            BY <1>1, <1>3 DEF Shaped, IsBound
      <2>3. PICK b : b = Undermine(p, form)[q]
            OBVIOUS
      <2>4. /\ DOMAIN b = DOMAIN bound[q]
            /\ b.form = bound[q].form /\ b.indicators = bound[q].indicators
            BY <2>1, <2>2, <2>3
      <2>5. QED
            BY <1>1, <2>3, <2>4 DEF Shaped
<1>4. QED
      BY <1>2, <1>3

\* A bind that throws keeps the types.
LEMMA ThrowTyped ==
  ASSUME TypeInv, NEW p \in Params, NEW form, BindThrows(p, form)
  PROVE  TypeInv'
<1>1. descr' \in [Params -> {NULL, "driver", "caller"}] /\ lost' \subseteq Params
      BY DEF TypeInv, BindThrows, Described
<1>2. ASSUME NEW q \in Params
      PROVE  Shaped(bound[q], asked[q], Forms[q])'
      <2>1. bound'[q] = Undermine(p, form)[q] /\ asked' = asked
            BY DEF BindThrows
      <2>2. QED
            BY <2>1, UndermineShaped DEF Shaped
<1>3. QED
      BY <1>1, <1>2 DEF TypeInv

\* And so does one that returns.
LEMMA ReturnTyped ==
  ASSUME TypeInv, ParamInv, NEW p \in Params, NEW form \in Forms[p],
         NEW rows, IsBatch(rows), NEW marks, BindReturns(p, form, rows, marks)
  PROVE  TypeInv'
<1>1. descr' \in [Params -> {NULL, "driver", "caller"}] /\ lost' \subseteq Params
      BY DEF TypeInv, BindReturns, Described
<1>2. ASSUME NEW q \in Params
      PROVE  Shaped(bound[q], asked[q], Forms[q])'
      <2>1. CASE q = p
            <3>1. bound'[p] = Binding(form, rows, marks)
                  BY UndermineOthers DEF BindReturns
            <3>2. PICK exact : asked'[p] = [rows |-> Meant(rows, marks), exact |-> exact]
                  BY DEF ParamInv, BindReturns
            <3>3. PICK a : a = asked'[p]
                  OBVIOUS
            <3>4. Shaped(Binding(form, rows, marks), a, Forms[p])
                  BY <3>2, <3>3, BindingShaped
            <3>5. QED
                  BY <2>1, <3>1, <3>3, <3>4 DEF Shaped
      <2>2. CASE q # p
            <3>1. bound'[q] = bound[q] /\ asked'[q] = asked[q]
                  BY <2>2, UndermineOthers DEF BindReturns
            <3>2. QED
                  BY <3>1 DEF TypeInv, Shaped
      <2>3. QED
            BY <2>1, <2>2
<1>3. QED
      BY <1>1, <1>2 DEF TypeInv

LEMMA TypeStep == TypeInv /\ ParamInv /\ [Next]_vars => TypeInv'
<1> SUFFICES ASSUME TypeInv, ParamInv, [Next]_vars PROVE TypeInv'
    OBVIOUS
<1>1. ASSUME UNCHANGED <<bound, asked, lost>>,
             descr' \in [Params -> {NULL, "driver", "caller"}]
      PROVE  TypeInv'
      BY <1>1 DEF TypeInv, Shaped
<1>2. CASE UNCHANGED vars
      BY <1>2 DEF vars, TypeInv, Shaped
<1>3. ASSUME NEW p \in Params, NEW form \in Forms[p] \ {"nulls"}, Bind(p, form)
      PROVE  TypeInv'
      <2>1. ASSUME NEW rows \in Batches[p], NEW marks \in Marks(form, rows),
                   BindReturns(p, form, rows, marks)
            PROVE  TypeInv'
            <3>1. IsBatch(rows)
                  BY BatchesAssumption DEF IsBatch, Text
            <3>2. QED
                  BY <2>1, <3>1, ReturnTyped
      <2>2. QED
            BY <1>2, <1>3, <2>1, ThrowTyped DEF Bind, BindRefused
<1>4. ASSUME NEW p \in Params, "nulls" \in Forms[p], BindNull(p)
      PROVE  TypeInv'
      <2>1. ASSUME NEW batch \in Batches[p], NEW marks,
                   BindReturns(p, "nulls", [i \in DOMAIN batch |-> <<>>], marks)
            PROVE  TypeInv'
            <3>1. PICK form \in Forms[p] : form = "nulls"
                  BY <1>4
            <3>2. PICK rows : rows = [i \in DOMAIN batch |-> <<>>]
                  OBVIOUS
            <3>3. IsBatch(rows)
                  BY <3>2, NullsAreBatch
            <3>4. BindReturns(p, form, rows, marks)
                  BY <2>1, <3>1, <3>2
            <3>5. QED
                  BY <3>3, <3>4, ReturnTyped
      <2>2. CASE BindThrows(p, "nulls")
            <3>1. PICK form : form = "nulls"
                  OBVIOUS
            <3>2. BindThrows(p, form)
                  BY <2>2, <3>1
            <3>3. QED
                  BY <3>2, ThrowTyped
      <2>3. QED
            BY <1>2, <1>4, <2>1, <2>2 DEF BindNull, BindRefused
<1>5. CASE Reset
      <2>1. descr' \in [Params -> {NULL, "driver", "caller"}]
            BY <1>5 DEF Reset
      <2>2. CASE UNCHANGED <<bound, asked, lost>>
            BY <1>1, <2>1, <2>2
      <2>3. CASE /\ bound' = [p \in Params |-> NoBinding] /\ lost' = {}
                 /\ asked' = [p \in Params |-> NothingAsked]
            BY <2>1, <2>3 DEF TypeInv, Shaped, NoBinding, NothingAsked
      <2>4. QED
            BY <1>5, <2>2, <2>3 DEF Reset
<1>6. ASSUME NEW ps \in SUBSET Params, Describe(ps) PROVE TypeInv'
      BY <1>1, <1>6 DEF Describe, TypeInv
<1>7. ASSUME NEW p \in Params, LookUp(p) PROVE TypeInv'
      BY <1>1, <1>7 DEF LookUp, TypeInv
<1>8. QED
      BY <1>2, <1>3, <1>4, <1>5, <1>6, <1>7 DEF Next

\* Every binding the driver has is in a form its parameter may be bound in,
\* of rows that were asked for, and has at least the indicators the code
\* allocates for a batch of one row.
THEOREM TypesHold == Spec => []TypeOK
<1>1. Init => TypeInv
      BY DEF Init, TypeInv, Shaped, NoBinding, NothingAsked
<1>2. TypeInv => TypeOK
      <2> SUFFICES ASSUME TypeInv, NEW p \in Params
                   PROVE  /\ IsBound(p) <=> asked[p].rows # <<>>
                          /\ IsBound(p) => /\ bound[p].form \in Forms[p]
                                           /\ Len(bound[p].indicators) >= MinIndicators
          BY DEF TypeInv, TypeOK
      <2>1. Shaped(bound[p], asked[p], Forms[p])
            BY DEF TypeInv
      <2>2. NULL \notin Forms[p]
            BY FormsAssumption, NullAssumption
      <2>3. QED
            BY <2>1, <2>2 DEF Shaped, IsBound
<1>3. QED
      BY <1>1, <1>2, TypeStep, ParamAlways, PTL DEF Spec

-----------------------------------------------------------------------------
(* What follows.                                                           *)

\* Every binding of every batch arrives as it was meant, whatever the lengths
\* of its strings and however the driver reads on beyond its rows: see
\* RowsArriveAsMeant.
THEOREM RowsArrive == Spec => []RowsArriveAsMeant
<1>1. ParamInv => RowsArriveAsMeant
      <2> SUFFICES ASSUME ParamInv, NEW p \in Params, Exact(p), p \notin lost,
                          NEW i \in DOMAIN bound[p].indicators
                   PROVE  RowSent(bound[p], i) =
                            IF i \in DOMAIN asked[p].rows THEN asked[p].rows[i] ELSE NULL
          BY DEF RowsArriveAsMeant
      <2>1. PICK form \in AllForms : \E rows : Made(bound[p], asked[p], form, rows)
            BY DEF ParamInv, Faithful, Exact
      <2>2. PICK rows :
              /\ Made(bound[p], asked[p], form, rows)
              /\ IsBatch(rows)
              /\ form = "nulls" \/ \A k \in 1..Len(rows) : rows[k] # NULL
            BY <2>1 DEF Made
      <2>3. PICK marks \in MarksOf(form, rows) :
              /\ bound[p] = Binding(form, rows, marks)
              /\ asked[p] = [rows |-> Meant(rows, marks),
                             exact |-> ~(form = "bytes" /\ marks.by = "sentry")]
            BY <2>2 DEF Made
      <2>4. /\ asked[p].rows = Meant(rows, marks) /\ ~(form = "bytes" /\ marks.by = "sentry")
            /\ DOMAIN asked[p].rows = 1..Len(rows)
            <3>1. asked[p].rows = Meant(rows, marks)
                  BY <2>3
            <3>2. asked[p].exact = ~(form = "bytes" /\ marks.by = "sentry")
                  BY <2>3
            <3>3. asked[p].exact
                  BY DEF Exact
            <3>4. DOMAIN Meant(rows, marks) = 1..Len(rows)
                  BY <2>2, BatchFacts DEF Meant
            <3>5. QED
                  BY <3>1, <3>2, <3>3, <3>4
      <2>5. RowSent(bound[p], i) =
              IF i > Len(rows) \/ IsNull(form, rows, marks, i) THEN NULL ELSE rows[i]
            BY <2>2, <2>3, RowRead
      <2>6. Len(rows) \in Nat /\ i \in Nat /\ i >= 1
            BY <2>2, <2>3, BatchFacts, MinAssumption DEF Binding, Indicators
      <2>7. CASE i > Len(rows)
            BY <2>4, <2>5, <2>6, <2>7
      <2>8. CASE i \in 1..Len(rows)
            <3>1. /\ Meant(rows, marks)[i] \in {NULL, rows[i]}
                  /\ Meant(rows, marks)[i] = NULL <=> IsNull(form, rows, marks, i)
                  BY <2>2, <2>4, <2>8, NullsMarked
            <3>2. QED
                  BY <2>4, <2>5, <2>6, <2>8, <3>1
      <2>9. QED
            BY <2>6, <2>7, <2>8
<1>2. QED
      BY <1>1, ParamAlways, PTL

\* A sentry of binary values may take a value for a null but never a null for
\* a value: see SentryOnlyMakesNulls.
THEOREM SentryMakesNulls == Spec => []SentryOnlyMakesNulls
<1>1. ParamInv => SentryOnlyMakesNulls
      <2> SUFFICES ASSUME ParamInv, NEW p \in Params, IsBound(p), p \notin lost,
                          NEW i \in DOMAIN asked[p].rows
                   PROVE  RowSent(bound[p], i) \in {asked[p].rows[i], NULL}
          BY DEF SentryOnlyMakesNulls
      <2>1. PICK form \in AllForms : \E rows : Made(bound[p], asked[p], form, rows)
            BY DEF ParamInv, Faithful
      <2>2. PICK rows :
              /\ Made(bound[p], asked[p], form, rows)
              /\ IsBatch(rows)
              /\ form = "nulls" \/ \A k \in 1..Len(rows) : rows[k] # NULL
            BY <2>1 DEF Made
      <2>3. PICK marks \in MarksOf(form, rows) :
              bound[p] = Binding(form, rows, marks) /\ asked[p].rows = Meant(rows, marks)
            BY <2>2 DEF Made
      <2>4. i \in 1..Len(rows) /\ Len(rows) \in Nat
            BY <2>2, <2>3, BatchFacts DEF Meant
      <2>5. i \in DOMAIN bound[p].indicators
            BY <2>3, <2>4, MinAssumption DEF Binding, Indicators
      <2>6. RowSent(bound[p], i) =
              IF i > Len(rows) \/ IsNull(form, rows, marks, i) THEN NULL ELSE rows[i]
            BY <2>2, <2>3, <2>5, RowRead
      <2>7. /\ Meant(rows, marks)[i] \in {NULL, rows[i]}
            /\ Meant(rows, marks)[i] = NULL => IsNull(form, rows, marks, i)
            BY <2>2, <2>4, NullsMarked
      <2>8. QED
            BY <2>3, <2>4, <2>6, <2>7
<1>2. QED
      BY <1>1, ParamAlways, PTL

\* No bind takes the memory of another parameter's binding, and only a bind
\* that throws that of its own: see DanglesOnlyAfterThrow.
THEOREM VectorsThere == Spec => []DanglesOnlyAfterThrow
<1>1. ParamInv => DanglesOnlyAfterThrow
      BY DEF ParamInv, Faithful, Made, DanglesOnlyAfterThrow, Binding
<1>2. QED
      BY <1>1, ParamAlways, PTL

\* Nothing but clearing all of the statement's parameters makes the driver
\* describe what the caller has described: see DescriptionStays.
THEOREM DescriptionKept == Spec => DescriptionStays
<1> DEFINE Stays == \A p \in Params : descr[p] = "caller" =>
                      descr'[p] = "caller" \/ descr' = [q \in Params |-> NULL]
           Dom == DOMAIN descr = Params
<1>1. Init => Dom
      BY DEF Init
<1>2. Dom /\ [Next]_vars => Dom'
      BY DEF Next, vars, Bind, BindNull, BindRefused, BindThrows, BindReturns,
             Describe, LookUp, Reset
<1>3. Dom /\ [Next]_vars => Stays
      BY NullAssumption
         DEF Next, vars, Bind, BindNull, BindRefused, BindThrows, BindReturns,
             Describe, LookUp, Reset, Described
<1>4. QED
      BY <1>1, <1>2, <1>3, PTL DEF Spec, DescriptionStays
=============================================================================
