-------------------------- MODULE Conversion_proofs ---------------------------
(***************************************************************************)
(* What the conversions of Encoding and Conversion compute, for text of    *)
(* any length and numbers of any size.  Both are recursions over a text.   *)
(***************************************************************************)
EXTENDS Conversion, SequenceTheorems, WellFoundedInduction, TLAPS

-----------------------------------------------------------------------------
(* Induction and recursion.                                                *)

Smaller == {ss \in Nat \X Nat : ss[1] < ss[2]}

\* A set of natural numbers that is not empty has a least element.
LEMMA LeastOne ==
  ASSUME NEW T, T \subseteq Nat, T # {}
  PROVE  \E m \in T : \A n \in T : ~(n < m)
<1>1. IsWellFoundedOn(Smaller, Nat)
      BY NatLessThanWellFounded DEF OpToRel, Smaller
<1>2. PICK m \in T : \A n \in T : ~(<<n, m>> \in Smaller)
      BY <1>1, WFMin
<1>3. QED
      BY <1>2 DEF Smaller

\* What has zero and, with a number, the next, has all.
LEMMA AllNaturals ==
  ASSUME NEW T, 0 \in T, \A m \in Nat : m \in T => m + 1 \in T
  PROVE  \A m \in Nat : m \in T
<1> DEFINE Bad == {m \in Nat : m \notin T}
<1>1. ASSUME NEW m \in Bad, \A k \in Bad : ~(k < m)
      PROVE  FALSE
      <2>1. m \in Nat \ {0} /\ m \notin T
            OBVIOUS
      <2>2. m - 1 \in Nat /\ m - 1 < m /\ (m - 1) + 1 = m
            BY <2>1
      <2>3. m - 1 \in T
            BY <1>1, <2>2
      <2>4. QED
            BY <2>1, <2>2, <2>3
<1>2. Bad = {}
      <2>1. Bad \subseteq Nat
            OBVIOUS
      <2> HIDE DEF Bad
      <2>2. QED
            BY <1>1, <2>1, LeastOne
<1>3. QED
      BY <1>2

\* Each value rests on one of lower rank, or on none.
Ranked(D, V, top, rank, stop, next, base, step) ==
  /\ top \in Nat /\ rank \in [D -> Nat] /\ \A i \in D : rank[i] < top
  /\ stop \in [D -> BOOLEAN]
  /\ \A i \in D : stop[i] => base[i] \in V
  /\ \A i \in D : ~stop[i] =>
       next[i] \in D /\ rank[next[i]] < rank[i] /\ step[i] \in [V -> V]

\* Such a recursive function exists.
LEMMA RecursionEnds ==
  ASSUME NEW D, NEW V, NEW top, NEW rank, NEW stop, NEW next, NEW base, NEW step,
         Ranked(D, V, top, rank, stop, next, base, step)
  PROVE  \E g \in [D -> V] :
           g = [i \in D |-> IF stop[i] THEN base[i] ELSE step[i][g[next[i]]]]
<1> USE DEF Ranked
<1> DEFINE Below(m) == {i \in D : rank[i] < m}
           Right(g, i) == IF stop[i] THEN base[i] ELSE step[i][g[next[i]]]
           Known(m) == \E g \in [Below(m) -> V] : \A i \in Below(m) : g[i] = Right(g, i)
           T == {m \in Nat : Known(m)}
<1>1. 0 \in T
      <2>1. Below(0) = {}
            OBVIOUS
      <2>2. Known(0)
            <3> DEFINE g == [i \in {} |-> 0]
            <3>1. g \in [Below(0) -> V] /\ \A i \in Below(0) : g[i] = Right(g, i)
                  BY <2>1
            <3>2. QED
                  BY <3>1
      <2>3. QED
            BY <2>2
<1>2. ASSUME NEW m \in Nat, m \in T
      PROVE  m + 1 \in T
      <2>1. PICK g \in [Below(m) -> V] : \A i \in Below(m) : g[i] = Right(g, i)
            BY <1>2
      <2> DEFINE h == [i \in Below(m + 1) |-> IF i \in Below(m) THEN g[i] ELSE Right(g, i)]
      <2>2. ASSUME NEW i \in Below(m + 1), ~stop[i]
            PROVE  next[i] \in Below(m)
            BY <2>2
      <2>3. ASSUME NEW i \in Below(m + 1)
            PROVE  Right(g, i) \in V
            BY <2>2, <2>3
      <2>4. h \in [Below(m + 1) -> V]
            BY <2>3
      <2>5. ASSUME NEW i \in Below(m) PROVE i \in Below(m + 1) /\ h[i] = g[i]
            BY <2>5
      <2>6. ASSUME NEW i \in Below(m + 1)
            PROVE  h[i] = Right(h, i)
            <3>1. h[i] = Right(g, i)
                  BY <2>1
            <3>2. ~stop[i] => h[next[i]] = g[next[i]]
                  <4> HIDE DEF h, Below
                  <4>1. QED
                        BY <2>2, <2>5
            <3>3. QED
                  <4> HIDE DEF h
                  <4>1. QED
                        BY <3>1, <3>2
      <2>7. Known(m + 1)
            <3> HIDE DEF h, Right
            <3>1. QED
                  BY <2>4, <2>6
      <2>8. QED
            <3> HIDE DEF Known
            <3>1. QED
                  BY <2>7
<1>3. top \in T
      <2> HIDE DEF T
      <2>1. QED
            BY <1>1, <1>2, AllNaturals
<1>4. Below(top) = D
      OBVIOUS
<1>5. PICK g \in [D -> V] : \A i \in D : g[i] = Right(g, i)
      BY <1>3, <1>4
<1>6. g = [i \in D |-> Right(g, i)]
      BY <1>5
<1>7. QED
      BY <1>6

-----------------------------------------------------------------------------
(* Code points and how they are spelled.                                   *)

CodePoints == {cp \in Nat : IsValidCodePoint(cp)}

\* A spelling of code points, in one unit or more.
Spelling(spelling) ==
  spelling \in [CodePoints -> Seq(Nat)] /\ \A cp \in CodePoints : Len(spelling[cp]) >= 1

\* The text of code points: their spellings one after the other.
Spelled(spelling, cps) ==
  LET from[k \in 1..(Len(cps) + 1)] ==
        IF k > Len(cps) THEN <<>> ELSE spelling[cps[k]] \o from[k + 1]
  IN from[1]

Utf8 == [cp \in CodePoints |-> AsUtf8(cp)]
Wide == [cp \in CodePoints |-> AsWide(cp)]

\* It is spelled from the right.
LEMMA SpelledFromRight ==
  ASSUME NEW spelling, Spelling(spelling), NEW cps \in Seq(CodePoints)
  PROVE  \E w \in [1..(Len(cps) + 1) -> Seq(Nat)] :
           /\ w[Len(cps) + 1] = <<>>
           /\ \A k \in 1..Len(cps) : w[k] = spelling[cps[k]] \o w[k + 1]
           /\ Spelled(spelling, cps) = w[1]
<1>1. PICK n \in Nat : n = Len(cps)
      OBVIOUS
<1> DEFINE D == 1..(n + 1)
           V == Seq(Nat)
           F(h) == [k \in D |-> IF k > n THEN <<>> ELSE spelling[cps[k]] \o h[k + 1]]
           top == n + 2
           rank == [k \in D |-> n + 1 - k]
           stop == [k \in D |-> k > n]
           next == [k \in D |-> k + 1]
           base == [k \in D |-> <<>>]
           step == [k \in D |-> [v \in V |-> spelling[cps[k]] \o v]]
<1>2. \A k \in 1..n : cps[k] \in CodePoints /\ spelling[cps[k]] \in V
      BY <1>1, ElementOfSeq DEF Spelling
<1>3. \E g \in [D -> V] : g = [k \in D |-> IF stop[k] THEN base[k] ELSE step[k][g[next[k]]]]
      <2>1. top \in Nat /\ rank \in [D -> Nat] /\ \A k \in D : rank[k] < top
            OBVIOUS
      <2>2. stop \in [D -> BOOLEAN]
            OBVIOUS
      <2>3. ASSUME NEW k \in D, ~stop[k] PROVE k \in 1..n /\ k + 1 \in D
            <3>1. ~(k > n)
                  BY <2>3
            <3>2. QED
                  BY <3>1
      <2>4. ASSUME NEW k \in D, ~stop[k]
            PROVE  next[k] \in D /\ rank[next[k]] < rank[k]
            <3>1. k \in 1..n /\ k + 1 \in D
                  BY <2>3, <2>4
            <3>2. next[k] = k + 1 /\ rank[k] = n + 1 - k /\ rank[k + 1] = n + 1 - (k + 1)
                  BY <3>1
            <3>3. n + 1 - (k + 1) < n + 1 - k
                  BY <3>1
            <3> HIDE DEF next, rank
            <3>4. QED
                  BY <3>1, <3>2, <3>3
      <2>5. \A k \in D : stop[k] => base[k] \in V
            OBVIOUS
      <2>6. \A k \in D : ~stop[k] => step[k] \in [V -> V]
            <3>1. SUFFICES ASSUME NEW k \in D, ~stop[k] PROVE step[k] \in [V -> V]
                  OBVIOUS
            <3>2. spelling[cps[k]] \in V
                  BY <1>2, <2>3, <3>1
            <3>3. \A v \in V : spelling[cps[k]] \o v \in V
                  BY <3>2, ConcatProperties
            <3>4. QED
                  BY <3>3
      <2> HIDE DEF D, V, top, rank, stop, next, base, step
      <2>7. Ranked(D, V, top, rank, stop, next, base, step)
            BY <2>1, <2>2, <2>4, <2>5, <2>6 DEF Ranked
      <2>8. QED
            BY <2>7, RecursionEnds
<1>4. PICK g \in [D -> V] : g = [k \in D |-> IF stop[k] THEN base[k] ELSE step[k][g[next[k]]]]
      BY <1>3
<1>5. g = F(g)
      <2>1. ASSUME NEW k \in D
            PROVE  (IF stop[k] THEN base[k] ELSE step[k][g[next[k]]])
                     = IF k > n THEN <<>> ELSE spelling[cps[k]] \o g[k + 1]
            <3>1. CASE k > n
                  BY <3>1
            <3>2. CASE ~(k > n)
                  <4>1. k + 1 \in D
                        BY <3>2
                  <4>2. g[k + 1] \in V
                        BY <4>1
                  <4>3. QED
                        BY <3>2, <4>2
            <3>3. QED
                  BY <3>1, <3>2
      <2> HIDE DEF D, V, stop, next, base, step
      <2>2. QED
            BY <1>4, <2>1
<1>6. Spelled(spelling, cps) = (CHOOSE h : h = F(h))[1]
      BY <1>1 DEF Spelled
<1>7. PICK w : w = F(w) /\ Spelled(spelling, cps) = w[1]
      <2> HIDE DEF F
      <2>1. QED
            BY <1>5, <1>6
<1>8. \A k \in D : w[k] = IF k > n THEN <<>> ELSE spelling[cps[k]] \o w[k + 1]
      BY <1>7
<1>9. w[n + 1] = <<>> /\ \A k \in 1..n : w[k] = spelling[cps[k]] \o w[k + 1]
      <2>1. n + 1 \in D /\ n + 1 > n /\ \A k \in 1..n : k \in D /\ ~(k > n)
            OBVIOUS
      <2> HIDE DEF D
      <2>2. QED
            BY <1>8, <2>1
<1>10. w \in [D -> V]
      <2> DEFINE T == {m \in Nat : m <= n => w[n + 1 - m] \in V}
      <2>1. 0 \in T
            <3>1. n + 1 - 0 = n + 1 /\ <<>> \in V
                  OBVIOUS
            <3>2. QED
                  BY <1>9, <3>1
      <2>2. ASSUME NEW m \in Nat, m \in T PROVE m + 1 \in T
            <3>1. SUFFICES ASSUME m + 1 <= n PROVE w[n + 1 - (m + 1)] \in V
                  OBVIOUS
            <3>2. PICK k \in 1..n : k = n - m
                  BY <3>1
            <3>3. k + 1 = n + 1 - m /\ n + 1 - (m + 1) = k
                  BY <3>1, <3>2
            <3>4. w[k + 1] \in V /\ spelling[cps[k]] \in V
                  <4>1. m <= n /\ w[n + 1 - m] \in V
                        BY <2>2, <3>1
                  <4> HIDE DEF T, V
                  <4>2. QED
                        BY <1>2, <3>3, <4>1
            <3>5. w[k] = spelling[cps[k]] \o w[k + 1]
                  BY <1>9
            <3> HIDE DEF T
            <3>6. w[k] \in V
                  BY <3>4, <3>5, ConcatProperties
            <3>7. QED
                  BY <3>3, <3>6
      <2>3. \A m \in Nat : m \in T
            <3> HIDE DEF T
            <3>1. QED
                  BY <2>1, <2>2, AllNaturals
      <2>4. ASSUME NEW k \in D PROVE w[k] \in V
            <3>1. n + 1 - k \in Nat /\ n + 1 - k <= n /\ n + 1 - (n + 1 - k) = k
                  OBVIOUS
            <3>2. n + 1 - k \in T
                  BY <2>3, <3>1
            <3>3. QED
                  BY <3>1, <3>2
      <2>5. \E d : w = [k \in D |-> d[k]]
            <3> DEFINE d == [k \in D |-> IF k > n THEN <<>> ELSE spelling[cps[k]] \o w[k + 1]]
            <3>1. w = [k \in D |-> d[k]]
                  BY <1>7
            <3>2. QED
                  BY <3>1
      <2>6. QED
            BY <2>4, <2>5
<1>11. QED
      BY <1>1, <1>7, <1>9, <1>10

LEMMA SpelledIsText ==
  ASSUME NEW spelling, Spelling(spelling), NEW cps \in Seq(CodePoints)
  PROVE  Spelled(spelling, cps) \in Seq(Nat)
<1>1. PICK w \in [1..(Len(cps) + 1) -> Seq(Nat)] : Spelled(spelling, cps) = w[1]
      BY SpelledFromRight
<1>2. 1 \in 1..(Len(cps) + 1)
      BY LenProperties
<1>3. QED
      BY <1>1, <1>2

LEMMA SpelledEmpty ==
  ASSUME NEW spelling, Spelling(spelling)
  PROVE  Spelled(spelling, <<>>) = <<>>
<1>1. <<>> \in Seq(CodePoints) /\ Len(<<>>) = 0
      OBVIOUS
<1>2. PICK cps \in Seq(CodePoints) : cps = <<>>
      BY <1>1
<1>3. PICK w \in [1..(Len(cps) + 1) -> Seq(Nat)] :
        w[Len(cps) + 1] = <<>> /\ Spelled(spelling, cps) = w[1]
      BY SpelledFromRight
<1>4. Len(cps) + 1 = 1
      BY <1>1, <1>2
<1>5. QED
      BY <1>2, <1>3, <1>4

\* A sequence that begins with a code point, and its text, which begins with the
\* spelling of that code point.
BeginsWith(all, cp, rest) == all = <<cp>> \o rest

TextBeginsWith(spelling, all, cp, rest) ==
  /\ Spelled(spelling, all) = spelling[cp] \o Spelled(spelling, rest)
  /\ Spelled(spelling, rest) \in Seq(Nat)

\* A text begins with the spelling of its first code point.
LEMMA SpelledFirst ==
  ASSUME NEW spelling, Spelling(spelling), NEW cp \in CodePoints, NEW cps \in Seq(CodePoints),
         NEW all, BeginsWith(all, cp, cps)
  PROVE  TextBeginsWith(spelling, all, cp, cps)
<1>1. PICK n \in Nat : n = Len(cps)
      OBVIOUS
<1>2. all = <<cp>> \o cps
      BY DEF BeginsWith
<1>3. /\ all \in Seq(CodePoints) /\ Len(all) = n + 1 /\ all[1] = cp
      /\ \A k \in 1..n : all[k + 1] = cps[k]
      <2>1. <<cp>> \in Seq(CodePoints) /\ Len(<<cp>>) = 1 /\ <<cp>>[1] = cp
            OBVIOUS
      <2>2. /\ all \in Seq(CodePoints) /\ Len(all) = 1 + n
            /\ \A k \in 1..(1 + n) : all[k] = IF k <= 1 THEN <<cp>>[k] ELSE cps[k - 1]
            BY <1>1, <1>2, <2>1, ConcatProperties
      <2>3. QED
            BY <2>1, <2>2
<1>4. PICK v \in [1..(n + 1) -> Seq(Nat)] :
        /\ v[n + 1] = <<>>
        /\ \A k \in 1..n : v[k] = spelling[cps[k]] \o v[k + 1]
        /\ Spelled(spelling, cps) = v[1]
      BY <1>1, SpelledFromRight
<1>5. PICK w \in [1..(n + 1 + 1) -> Seq(Nat)] :
        /\ w[n + 1 + 1] = <<>>
        /\ \A k \in 1..(n + 1) : w[k] = spelling[all[k]] \o w[k + 1]
        /\ Spelled(spelling, all) = w[1]
      <2>1. \E w \in [1..(Len(all) + 1) -> Seq(Nat)] :
              /\ w[Len(all) + 1] = <<>>
              /\ \A k \in 1..Len(all) : w[k] = spelling[all[k]] \o w[k + 1]
              /\ Spelled(spelling, all) = w[1]
            <3>1. all \in Seq(CodePoints)
                  BY <1>3
            <3>2. QED
                  BY <3>1, SpelledFromRight
      <2>2. QED
            BY <1>3, <2>1
<1> DEFINE T == {m \in Nat : m <= n => w[n + 2 - m] = v[n + 1 - m]}
<1>6. 0 \in T
      <2>1. n + 2 - 0 = n + 1 + 1 /\ n + 1 - 0 = n + 1
            OBVIOUS
      <2>2. QED
            BY <1>4, <1>5, <2>1
<1>7. ASSUME NEW m \in Nat, m \in T PROVE m + 1 \in T
      <2>1. SUFFICES ASSUME m + 1 <= n PROVE w[n + 2 - (m + 1)] = v[n + 1 - (m + 1)]
            OBVIOUS
      <2>2. PICK k \in 1..n : k = n - m
            BY <2>1
      <2>3. /\ n + 2 - (m + 1) = k + 1 /\ n + 1 - (m + 1) = k
            /\ n + 2 - m = k + 1 + 1 /\ n + 1 - m = k + 1 /\ k + 1 \in 1..(n + 1)
            BY <2>1, <2>2
      <2>4. m <= n /\ w[n + 2 - m] = v[n + 1 - m]
            BY <1>7, <2>1
      <2>5. w[k + 1] = spelling[all[k + 1]] \o w[k + 1 + 1]
            BY <1>5, <2>3
      <2>6. v[k] = spelling[cps[k]] \o v[k + 1] /\ all[k + 1] = cps[k]
            BY <1>3, <1>4
      <2> HIDE DEF T
      <2>7. w[k + 1] = v[k]
            BY <2>3, <2>4, <2>5, <2>6
      <2>8. QED
            BY <2>3, <2>7
<1>8. n \in T
      <2> HIDE DEF T
      <2>1. QED
            BY <1>6, <1>7, AllNaturals
<1>9. w[2] = v[1]
      <2>1. n + 2 - n = 2 /\ n + 1 - n = 1
            OBVIOUS
      <2>2. QED
            BY <1>8, <2>1
<1> HIDE DEF T
<1>10. w[1] = spelling[cp] \o w[2]
      <2>1. 1 \in 1..(n + 1) /\ 1 + 1 = 2
            OBVIOUS
      <2>2. QED
            BY <1>3, <1>5, <2>1
<1>11. v[1] \in Seq(Nat)
      <2>1. 1 \in 1..(n + 1)
            OBVIOUS
      <2>2. QED
            BY <1>4, <2>1
<1>12. QED
      BY <1>4, <1>5, <1>9, <1>10, <1>11 DEF TextBeginsWith

-----------------------------------------------------------------------------
(* Rewriting a text from one spelling to another.                          *)

\* t is in s at i.
Holds(s, i, t) ==
  /\ i + Len(t) <= Len(s) + 1
  /\ \A j \in 1..Len(t) : s[i + j - 1] = t[j]

\* It is there if its two parts are.
LEMMA HoldsBoth ==
  ASSUME NEW s \in Seq(Nat), NEW i \in Nat, NEW t \in Seq(Nat), NEW u \in Seq(Nat)
  PROVE  Holds(s, i, t \o u) <=> Holds(s, i, t) /\ Holds(s, i + Len(t), u)
<1>1. PICK a \in Nat, b \in Nat, n \in Nat : a = Len(t) /\ b = Len(u) /\ n = Len(s)
      OBVIOUS
<1>2. PICK tu \in Seq(Nat) : tu = t \o u
      BY ConcatProperties
<1>3. /\ Len(tu) = a + b
      /\ \A j \in 1..(a + b) : tu[j] = IF j <= a THEN t[j] ELSE u[j - a]
      BY <1>1, <1>2, ConcatProperties
<1>4. ASSUME Holds(s, i, tu)
      PROVE  Holds(s, i, t) /\ Holds(s, i + a, u)
      <2>1. i + (a + b) <= n + 1 /\ \A j \in 1..(a + b) : s[i + j - 1] = tu[j]
            BY <1>1, <1>3, <1>4 DEF Holds
      <2>2. ASSUME NEW j \in 1..a PROVE s[i + j - 1] = t[j]
            <3>1. j \in 1..(a + b) /\ j <= a
                  OBVIOUS
            <3>2. QED
                  BY <1>3, <2>1, <3>1
      <2>3. ASSUME NEW j \in 1..b PROVE s[(i + a) + j - 1] = u[j]
            <3>1. a + j \in 1..(a + b) /\ ~(a + j <= a) /\ (a + j) - a = j
                  OBVIOUS
            <3>2. i + (a + j) - 1 = (i + a) + j - 1
                  OBVIOUS
            <3>3. QED
                  BY <1>3, <2>1, <3>1, <3>2
      <2>4. QED
            BY <1>1, <2>1, <2>2, <2>3 DEF Holds
<1>5. ASSUME Holds(s, i, t), Holds(s, i + a, u)
      PROVE  Holds(s, i, tu)
      <2>1. i + a + b <= n + 1
            BY <1>1, <1>5 DEF Holds
      <2>2. ASSUME NEW j \in 1..(a + b) PROVE s[i + j - 1] = tu[j]
            <3>1. CASE j <= a
                  <4>1. j \in 1..a
                        BY <3>1
                  <4>2. s[i + j - 1] = t[j]
                        BY <1>1, <1>5, <4>1 DEF Holds
                  <4>3. QED
                        BY <1>3, <3>1, <4>2
            <3>2. CASE ~(j <= a)
                  <4>1. j - a \in 1..b /\ (i + a) + (j - a) - 1 = i + j - 1
                        BY <3>2
                  <4>2. s[(i + a) + (j - a) - 1] = u[j - a]
                        BY <1>1, <1>5, <4>1 DEF Holds
                  <4>3. QED
                        BY <1>3, <3>2, <4>1, <4>2
            <3>3. QED
                  BY <3>1, <3>2
      <2>3. QED
            BY <1>1, <1>3, <2>1, <2>2 DEF Holds
<1>6. QED
      BY <1>1, <1>2, <1>4, <1>5

\* A text that is in s from its start to its end is s.
LEMMA HoldsAll ==
  ASSUME NEW s \in Seq(Nat), NEW t \in Seq(Nat), Holds(s, 1, t), 1 + Len(t) = Len(s) + 1
  PROVE  s = t
<1>1. Len(s) = Len(t)
      BY LenProperties
<1>2. ASSUME NEW i \in 1..Len(s) PROVE s[i] = t[i]
      <2>1. s[1 + i - 1] = t[i]
            BY <1>1 DEF Holds
      <2>2. 1 + i - 1 = i
            OBVIOUS
      <2>3. QED
            BY <2>1, <2>2
<1>3. QED
      BY <1>1, <1>2, SeqEqual

\* What is read at each place of s: the code point spelled there, if there is one.
ReadsUnits(s, spelling, read) ==
  \A i \in 1..Len(s) :
    /\ \A cp \in CodePoints :
         Holds(s, i, spelling[cp]) => read[i] = Point(cp, Len(spelling[cp]))
    /\ \/ read[i] = Malformed
       \/ \E cp \in CodePoints :
            Holds(s, i, spelling[cp]) /\ read[i] = Point(cp, Len(spelling[cp]))

\* The text from each place on: in the other spelling, or malformed.
Rewritten(s, read, spelling, text) ==
  /\ text[Len(s) + 1] = <<>>
  /\ \A i \in 1..Len(s) :
       text[i] = IF read[i] = Malformed THEN Malformed
                 ELSE IF text[i + read[i].units] = Malformed THEN Malformed
                 ELSE spelling[read[i].cp] \o text[i + read[i].units]

LEMMA NotMalformed ==
  /\ \A s \in Seq(Nat) : s # Malformed
  /\ \A cp \in CodePoints : \A k \in Nat : Point(cp, k) # Malformed
<1>1. ASSUME NEW cp \in CodePoints, NEW k \in Nat
      PROVE  Point(cp, k) \in [cp : Nat, units : Nat]
      BY DEF Point, CodePoints
<1>2. QED
      BY <1>1, MalformedAssumption

\* It is what the code points spelled from there on are in the other spelling.
LEMMA RewritesSpelled ==
  ASSUME NEW s \in Seq(Nat), NEW from, NEW to, NEW read, NEW text,
         Spelling(from), Spelling(to), ReadsUnits(s, from, read), Rewritten(s, read, to, text),
         NEW cps \in Seq(CodePoints),
         Holds(s, 1, Spelled(from, cps)), 1 + Len(Spelled(from, cps)) = Len(s) + 1
  PROVE  text[1] = Spelled(to, cps)
<1>1. PICK n \in Nat : n = Len(s)
      OBVIOUS
<1> DEFINE T == {m \in Nat :
                   \A i \in 1..(n + 1) : \A c \in Seq(CodePoints) :
                     /\ Len(c) = m /\ Holds(s, i, Spelled(from, c))
                     /\ i + Len(Spelled(from, c)) = n + 1
                     => text[i] = Spelled(to, c)}
<1>2. 0 \in T
      <2>1. SUFFICES ASSUME NEW i \in 1..(n + 1), NEW c \in Seq(CodePoints), Len(c) = 0,
                            i + Len(Spelled(from, c)) = n + 1
                     PROVE  text[i] = Spelled(to, c)
            OBVIOUS
      <2>2. c = <<>>
            BY <2>1
      <2>3. Spelled(from, c) = <<>> /\ Spelled(to, c) = <<>>
            BY <2>2, SpelledEmpty
      <2>4. i = n + 1
            BY <2>1, <2>3
      <2>5. QED
            BY <1>1, <2>3, <2>4 DEF Rewritten
<1>3. ASSUME NEW m \in Nat, m \in T PROVE m + 1 \in T
      <2>1. SUFFICES ASSUME NEW i \in 1..(n + 1), NEW c \in Seq(CodePoints), Len(c) = m + 1,
                            Holds(s, i, Spelled(from, c)),
                            i + Len(Spelled(from, c)) = n + 1
                     PROVE  text[i] = Spelled(to, c)
            OBVIOUS
      <2>2. PICK cp \in CodePoints, rest \in Seq(CodePoints) : c = <<cp>> \o rest /\ Len(rest) = m
            <3>1. c # <<>>
                  BY <2>1
            <3>2. Head(c) \in CodePoints /\ Tail(c) \in Seq(CodePoints) /\ Len(Tail(c)) = m
                  BY <2>1, <3>1, HeadTailProperties
            <3>3. c = <<Head(c)>> \o Tail(c)
                  BY <3>1
            <3>4. QED
                  BY <3>2, <3>3
      <2>3. /\ Spelled(from, c) = from[cp] \o Spelled(from, rest)
            /\ Spelled(to, c) = to[cp] \o Spelled(to, rest)
            /\ Spelled(from, rest) \in Seq(Nat) /\ Spelled(to, rest) \in Seq(Nat)
            <3> HIDE DEF T
            <3>1. BeginsWith(c, cp, rest)
                  BY <2>2 DEF BeginsWith
            <3>2. TextBeginsWith(from, c, cp, rest) /\ TextBeginsWith(to, c, cp, rest)
                  BY <3>1, SpelledFirst
            <3>3. QED
                  BY <3>2 DEF TextBeginsWith
      <2>4. PICK t \in Seq(Nat), a \in Nat : t = Spelled(from, rest) /\ a = Len(t)
            BY <2>3
      <2>5. PICK k \in Nat : k = Len(from[cp]) /\ k >= 1 /\ from[cp] \in Seq(Nat)
            BY DEF Spelling
      <2>6. Len(from[cp] \o t) = k + a
            BY <2>4, <2>5, ConcatProperties
      <2>7. i + k + a = n + 1 /\ i + k \in 1..(n + 1) /\ i \in 1..n
            <3>1. Spelled(from, c) = from[cp] \o t
                  BY <2>3, <2>4
            <3>2. Len(Spelled(from, c)) = k + a
                  BY <2>6, <3>1
            <3>3. i + (k + a) = n + 1
                  BY <2>1, <3>2
            <3>4. QED
                  BY <2>4, <2>5, <3>3
      <2>8. Holds(s, i, from[cp]) /\ Holds(s, i + k, t)
            <3>1. Holds(s, i, from[cp] \o t)
                  BY <2>1, <2>3, <2>4
            <3>2. PICK u \in Seq(Nat) : u = from[cp]
                  BY <2>5
            <3>3. i \in Nat
                  OBVIOUS
            <3>4. Holds(s, i, u) /\ Holds(s, i + Len(u), t)
                  BY <3>1, <3>2, <3>3, HoldsBoth
            <3>5. QED
                  BY <2>5, <3>2, <3>4
      <2>9. read[i] = Point(cp, k)
            BY <1>1, <2>5, <2>7, <2>8 DEF ReadsUnits
      <2>10. text[i + k] = Spelled(to, rest)
            BY <1>3, <2>2, <2>4, <2>7, <2>8
      <2> HIDE DEF T
      <2>11. read[i].units = k /\ read[i].cp = cp
            BY <2>9 DEF Point
      <2>12. text[i + k] # Malformed /\ read[i] # Malformed
            BY <2>3, <2>5, <2>9, <2>10, NotMalformed
      <2>13. text[i] = to[cp] \o text[i + k]
            BY <1>1, <2>7, <2>11, <2>12 DEF Rewritten
      <2>14. QED
            BY <2>3, <2>10, <2>13
<1>4. Len(cps) \in T
      <2> HIDE DEF T
      <2>1. QED
            BY <1>2, <1>3, AllNaturals, LenProperties
<1>5. 1 \in 1..(n + 1)
      OBVIOUS
<1>6. QED
      BY <1>1, <1>4, <1>5

\* What is rewritten was spelled: it is malformed if there are no such code points.
LEMMA RewritesNothingElse ==
  ASSUME NEW s \in Seq(Nat), NEW from, NEW to, NEW read, NEW text,
         Spelling(from), ReadsUnits(s, from, read), Rewritten(s, read, to, text),
         text[1] # Malformed
  PROVE  \E cps \in Seq(CodePoints) : s = Spelled(from, cps)
<1>1. PICK n \in Nat : n = Len(s)
      OBVIOUS
<1> DEFINE Tells(i) == text[i] # Malformed =>
                         \E c \in Seq(CodePoints) :
                           Holds(s, i, Spelled(from, c)) /\ i + Len(Spelled(from, c)) = n + 1
           T == {m \in Nat : \A i \in 1..(n + 1) : n + 1 - i <= m => Tells(i)}
<1>2. Tells(n + 1)
      <2>1. PICK c \in Seq(CodePoints) : c = <<>>
            BY EmptySeq
      <2>2. Spelled(from, c) = <<>> /\ Len(<<>>) = 0
            BY <2>1, SpelledEmpty
      <2>3. Holds(s, n + 1, Spelled(from, c)) /\ n + 1 + Len(Spelled(from, c)) = n + 1
            BY <1>1, <2>2 DEF Holds
      <2>4. QED
            BY <2>3
<1>3. 0 \in T
      <2>1. \A i \in 1..(n + 1) : n + 1 - i <= 0 => i = n + 1
            OBVIOUS
      <2> HIDE DEF Tells
      <2>2. QED
            BY <1>2, <2>1
<1>4. ASSUME NEW m \in Nat, m \in T PROVE m + 1 \in T
      <2>1. SUFFICES ASSUME NEW i \in 1..(n + 1), n + 1 - i <= m + 1, i # n + 1,
                            text[i] # Malformed
                     PROVE  \E c \in Seq(CodePoints) :
                              /\ Holds(s, i, Spelled(from, c))
                              /\ i + Len(Spelled(from, c)) = n + 1
            <3>1. SUFFICES ASSUME NEW i \in 1..(n + 1), n + 1 - i <= m + 1 PROVE Tells(i)
                  <4> HIDE DEF Tells
                  <4>1. QED
                        OBVIOUS
            <3>2. CASE i = n + 1
                  <4> HIDE DEF Tells
                  <4>1. QED
                        BY <1>2, <3>2
            <3>3. CASE i # n + 1
                  BY <2>1, <3>1, <3>3
            <3>4. QED
                  BY <3>2, <3>3
      <2>2. i \in 1..n
            BY <2>1
      <2>3. PICK cp \in CodePoints :
              Holds(s, i, from[cp]) /\ read[i] = Point(cp, Len(from[cp]))
            BY <1>1, <2>1, <2>2 DEF ReadsUnits, Rewritten
      <2>4. PICK k \in Nat : k = Len(from[cp]) /\ k >= 1 /\ from[cp] \in Seq(Nat)
            BY DEF Spelling
      <2>5. i + k <= n + 1
            BY <1>1, <2>3, <2>4 DEF Holds
      <2>6. read[i].units = k
            BY <2>3, <2>4 DEF Point
      <2>7. text[i + k] # Malformed
            BY <1>1, <2>1, <2>2, <2>6 DEF Rewritten
      <2>8. i + k \in 1..(n + 1) /\ n + 1 - (i + k) <= m
            BY <2>1, <2>4, <2>5
      <2>9. Tells(i + k)
            <3> HIDE DEF Tells
            <3>1. QED
                  BY <1>4, <2>8
      <2>10. PICK rest \in Seq(CodePoints) :
               Holds(s, i + k, Spelled(from, rest)) /\ i + k + Len(Spelled(from, rest)) = n + 1
            BY <2>7, <2>9
      <2> HIDE DEF T
      <2>11. PICK c \in Seq(CodePoints) : c = <<cp>> \o rest
            <3>1. <<cp>> \in Seq(CodePoints)
                  OBVIOUS
            <3>2. QED
                  BY <3>1, ConcatProperties
      <2>12. Spelled(from, c) = from[cp] \o Spelled(from, rest) /\ Spelled(from, rest) \in Seq(Nat)
            <3>1. BeginsWith(c, cp, rest)
                  BY <2>11 DEF BeginsWith
            <3>2. TextBeginsWith(from, c, cp, rest)
                  BY <3>1, SpelledFirst
            <3>3. QED
                  BY <3>2 DEF TextBeginsWith
      <2>13. Holds(s, i, Spelled(from, c))
            <3>1. PICK u \in Seq(Nat), v \in Seq(Nat) : u = from[cp] /\ v = Spelled(from, rest)
                  BY <2>4, <2>12
            <3>2. Holds(s, i, u) /\ Holds(s, i + Len(u), v) /\ i \in Nat
                  BY <2>3, <2>4, <2>10, <3>1
            <3>3. Holds(s, i, u \o v)
                  BY <3>2, HoldsBoth
            <3>4. QED
                  BY <2>12, <3>1, <3>3
      <2>14. Len(Spelled(from, c)) = k + Len(Spelled(from, rest))
            BY <2>4, <2>12, ConcatProperties
      <2>15. Len(Spelled(from, rest)) \in Nat
            BY <2>12, LenProperties
      <2>16. i + Len(Spelled(from, c)) = n + 1
            BY <2>10, <2>14, <2>15
      <2>17. QED
            BY <2>13, <2>16
<1>5. n \in T
      <2> HIDE DEF T
      <2>1. QED
            BY <1>3, <1>4, AllNaturals
<1>6. Tells(1)
      <2>1. 1 \in 1..(n + 1) /\ n + 1 - 1 <= n
            OBVIOUS
      <2> HIDE DEF Tells
      <2>2. QED
            BY <1>5, <2>1
<1>7. PICK cps \in Seq(CodePoints) :
        Holds(s, 1, Spelled(from, cps)) /\ 1 + Len(Spelled(from, cps)) = n + 1
      BY <1>6
<1>8. Spelled(from, cps) \in Seq(Nat)
      BY SpelledIsText
<1>9. QED
      BY <1>1, <1>7, <1>8, HoldsAll

-----------------------------------------------------------------------------
(* The conversions, as functions of the place in the text.                 *)

\* The recursive function that rewrites a text.
Recursive(s, read, to, g) ==
  g = [i \in 1..(Len(s) + 1) |->
         IF i > Len(s) THEN <<>>
         ELSE IF read[i] = Malformed THEN Malformed
         ELSE IF g[i + read[i].units] = Malformed THEN Malformed
         ELSE to[read[i].cp] \o g[i + read[i].units]]

\* There is one: what is read at each place takes units that are there.
LEMMA RewritingEnds ==
  ASSUME NEW s \in Seq(Nat), NEW from, NEW to, NEW read,
         Spelling(from), Spelling(to), ReadsUnits(s, from, read)
  PROVE  \E g : Recursive(s, read, to, g)
<1>1. PICK n \in Nat : n = Len(s)
      OBVIOUS
<1> DEFINE D == 1..(n + 1)
           V == Seq(Nat) \cup {Malformed}
           top == n + 2
           rank == [i \in D |-> n + 1 - i]
           stop == [i \in D |-> i > n \/ read[i] = Malformed]
           next == [i \in D |-> i + read[i].units]
           base == [i \in D |-> IF i > n THEN <<>> ELSE Malformed]
           step == [i \in D |-> [v \in V |-> IF v = Malformed THEN Malformed
                                             ELSE to[read[i].cp] \o v]]
<1>2. ASSUME NEW i \in D, ~stop[i]
      PROVE  /\ i \in 1..n /\ ~(i > n) /\ read[i] # Malformed
             /\ next[i] = i + read[i].units /\ next[i] \in D
             /\ rank[next[i]] < rank[i]
             /\ to[read[i].cp] \in Seq(Nat)
      <2>1. i \in 1..n /\ ~(i > n) /\ read[i] # Malformed
            <3>1. stop[i] = (i > n \/ read[i] = Malformed)
                  OBVIOUS
            <3>2. ~(i > n) /\ read[i] # Malformed
                  BY <1>2, <3>1
            <3>3. QED
                  BY <3>2
      <2>2. PICK cp \in CodePoints :
              Holds(s, i, from[cp]) /\ read[i] = Point(cp, Len(from[cp]))
            BY <1>1, <2>1 DEF ReadsUnits
      <2>3. PICK k \in Nat : k = Len(from[cp]) /\ k >= 1
            BY DEF Spelling
      <2>4. i + k <= n + 1
            BY <1>1, <2>2, <2>3 DEF Holds
      <2>5. read[i].units = k /\ read[i].cp = cp
            BY <2>2, <2>3 DEF Point
      <2>6. i + k \in D /\ next[i] = i + k
            BY <2>1, <2>3, <2>4, <2>5
      <2>7. rank[i] = n + 1 - i /\ rank[i + k] = n + 1 - (i + k)
            BY <2>6
      <2>8. n + 1 - (i + k) < n + 1 - i
            <3> HIDE DEF D, V, top, rank, stop, next, base, step
            <3>1. i \in Int /\ k \in Int /\ k > 0
                  BY <2>1, <2>3
            <3>2. QED
                  BY <3>1
      <2>9. to[cp] \in Seq(Nat)
            BY DEF Spelling
      <2> HIDE DEF D, next, rank
      <2>10. QED
            BY <2>1, <2>5, <2>6, <2>7, <2>8, <2>9
<1>3. \E g \in [D -> V] : g = [i \in D |-> IF stop[i] THEN base[i] ELSE step[i][g[next[i]]]]
      <2>1. top \in Nat /\ rank \in [D -> Nat] /\ \A i \in D : rank[i] < top
            OBVIOUS
      <2>2. stop \in [D -> BOOLEAN]
            OBVIOUS
      <2>3. \A i \in D : stop[i] => base[i] \in V
            BY EmptySeq
      <2>4. ASSUME NEW i \in D, ~stop[i] PROVE step[i] \in [V -> V]
            <3>1. PICK t \in Seq(Nat) : t = to[read[i].cp]
                  BY <1>2, <2>4
            <3>2. \A v \in Seq(Nat) : t \o v \in Seq(Nat)
                  BY ConcatProperties
            <3>3. step[i] = [v \in V |-> IF v = Malformed THEN Malformed ELSE t \o v]
                  BY <3>1
            <3>4. QED
                  BY <3>2, <3>3
      <2> HIDE DEF D, V, top, rank, stop, next, base, step
      <2>5. Ranked(D, V, top, rank, stop, next, base, step)
            BY <1>2, <2>1, <2>2, <2>3, <2>4 DEF Ranked
      <2>6. QED
            BY <2>5, RecursionEnds
<1>4. PICK g \in [D -> V] : g = [i \in D |-> IF stop[i] THEN base[i] ELSE step[i][g[next[i]]]]
      BY <1>3
<1>5. ASSUME NEW i \in D
      PROVE  (IF stop[i] THEN base[i] ELSE step[i][g[next[i]]])
               = IF i > n THEN <<>>
                 ELSE IF read[i] = Malformed THEN Malformed
                 ELSE IF g[i + read[i].units] = Malformed THEN Malformed
                 ELSE to[read[i].cp] \o g[i + read[i].units]
      <2>1. CASE stop[i]
            BY <2>1
      <2>2. CASE ~stop[i]
            <3>1. PICK j \in D : j = next[i]
                  BY <1>2, <2>2
            <3>2. j = i + read[i].units /\ ~(i > n) /\ read[i] # Malformed
                  BY <1>2, <2>2, <3>1
            <3>3. g[j] \in V
                  BY <1>4
            <3>4. step[i][g[j]] = IF g[j] = Malformed THEN Malformed ELSE to[read[i].cp] \o g[j]
                  BY <3>3
            <3> HIDE DEF D, V, stop, next, base, step
            <3>5. QED
                  BY <2>2, <3>1, <3>2, <3>4
      <2>3. QED
            BY <2>1, <2>2
<1> HIDE DEF D, V, stop, next, base, step
<1>6. g = [i \in D |-> IF i > n THEN <<>>
                       ELSE IF read[i] = Malformed THEN Malformed
                       ELSE IF g[i + read[i].units] = Malformed THEN Malformed
                       ELSE to[read[i].cp] \o g[i + read[i].units]]
      BY <1>4, <1>5
<1>7. QED
      BY <1>1, <1>6 DEF D, Recursive

-----------------------------------------------------------------------------
(* UTF-16 and UTF-32.                                                      *)

LEMMA SurrogatesLie ==
  ASSUME NEW cp \in Nat
  PROVE  /\ cp \in Surrogates <=> 55296 <= cp /\ cp <= 57343
         /\ cp \in HighSurrogates <=> 55296 <= cp /\ cp <= 56319
         /\ cp \in LowSurrogates <=> 56320 <= cp /\ cp <= 57343
  BY SMT DEF Surrogates, HighSurrogates, LowSurrogates

LEMMA CodePointsLie ==
  ASSUME NEW cp \in Nat
  PROVE  cp \in CodePoints <=> cp <= 1114111 /\ ~(55296 <= cp /\ cp <= 57343)
  BY SurrogatesLie, SMT DEF CodePoints, IsValidCodePoint

WideUnits == {n \in Nat : n < 2^WideBits}

LEMMA WideIsSpelling == Spelling(Wide)
<1>1. ASSUME NEW cp \in CodePoints
      PROVE  AsWide(cp) \in Seq(Nat) /\ Len(AsWide(cp)) >= 1
      <2>1. cp \in Nat
            BY DEF CodePoints
      <2>2. CASE WideBits = 32 \/ cp < 65536
            BY <2>1, <2>2, SMT DEF AsWide
      <2>3. CASE ~(WideBits = 32 \/ cp < 65536)
            <3>1. PICK q \in Nat, r \in Nat :
                    q = (cp - 65536) \div 1024 /\ r = (cp - 65536) % 1024
                  BY <2>1, <2>3, SMT
            <3>2. AsWide(cp) = <<55296 + q, 56320 + r>>
                  BY <2>1, <2>3, <3>1, SMT DEF AsWide
            <3>3. 55296 + q \in Nat /\ 56320 + r \in Nat
                  BY SMT
            <3>4. QED
                  BY <3>2, <3>3, SMT
      <2>4. QED
            BY <2>2, <2>3
<1>2. QED
      BY <1>1 DEF Spelling, Wide

\* The two halves of a code point past 65535.
Halves(cp, q, r) ==
  /\ cp >= 65536 /\ cp <= 1114111 /\ q <= 1023 /\ r <= 1023
  /\ cp = 65536 + q * 1024 + r
  /\ (cp - 65536) \div 1024 = q /\ (cp - 65536) % 1024 = r

LEMMA PairSpells ==
  ASSUME NEW cp \in Nat, cp >= 65536, cp <= 1114111
  PROVE  \E q \in Nat, r \in Nat : Halves(cp, q, r)
  BY SMT DEF Halves

LEMMA PairRead ==
  ASSUME NEW q \in Nat, NEW r \in Nat, q <= 1023, r <= 1023
  PROVE  \E cp \in Nat : Halves(cp, q, r)
  BY SMT DEF Halves

\* next_wide_code_point() reads what append_as_wide() writes, and nothing else.
LEMMA WideReads ==
  ASSUME NEW s \in Seq(WideUnits)
  PROVE  ReadsUnits(s, Wide, [i \in 1..Len(s) |-> NextWide(s, i)])
<1>1. SUFFICES ASSUME NEW i \in 1..Len(s)
      PROVE  /\ \A cp \in CodePoints :
                  Holds(s, i, AsWide(cp)) => NextWide(s, i) = Point(cp, Len(AsWide(cp)))
             /\ \/ NextWide(s, i) = Malformed
                \/ \E cp \in CodePoints :
                     Holds(s, i, AsWide(cp)) /\ NextWide(s, i) = Point(cp, Len(AsWide(cp)))
      BY DEF ReadsUnits, Wide
<1>2. PICK n \in Nat : n = Len(s)
      BY LenProperties
<1>3. i \in 1..n /\ \A j \in 1..n : s[j] \in Nat /\ (WideBits = 16 => s[j] < 65536)
      <2>1. 2^16 = 65536
            BY SMT
      <2>2. \A j \in 1..n : s[j] \in WideUnits
            BY <1>2, ElementOfSeq
      <2>3. ASSUME NEW j \in 1..n PROVE s[j] \in Nat /\ (WideBits = 16 => s[j] < 65536)
            <3>1. s[j] \in Nat /\ s[j] < 2^WideBits
                  BY <2>2 DEF WideUnits
            <3>2. WideBits = 16 => s[j] < 2^16
                  BY <3>1
            <3>3. QED
                  BY <2>1, <3>1, <3>2
      <2>4. QED
            BY <1>2, <2>3
<1>4. ASSUME NEW cp \in CodePoints, AsWide(cp) = <<cp>>
      PROVE  Len(AsWide(cp)) = 1 /\ (Holds(s, i, AsWide(cp)) <=> s[i] = cp)
      <2>1. Len(<<cp>>) = 1 /\ <<cp>>[1] = cp
            OBVIOUS
      <2>2. i + 1 <= n + 1 /\ i + 1 - 1 = i
            BY <1>3
      <2>3. QED
            BY <1>2, <1>4, <2>1, <2>2 DEF Holds
<1>5. CASE WideBits = 32
      <2>1. \A cp : AsWide(cp) = <<cp>>
            BY <1>5 DEF AsWide
      <2>2. NextWide(s, i) = IF IsValidCodePoint(s[i]) THEN Point(s[i], 1) ELSE Malformed
            BY <1>5 DEF NextWide
      <2>3. s[i] \in Nat
            BY <1>3
      <2>4. \A cp \in CodePoints :
              Len(AsWide(cp)) = 1 /\ (Holds(s, i, AsWide(cp)) <=> s[i] = cp)
            BY <1>4, <2>1
      <2>5. CASE s[i] \in CodePoints
            <3>1. NextWide(s, i) = Point(s[i], 1)
                  BY <2>2, <2>5 DEF CodePoints
            <3>2. QED
                  BY <2>4, <2>5, <3>1
      <2>6. CASE s[i] \notin CodePoints
            <3>1. NextWide(s, i) = Malformed
                  BY <2>2, <2>3, <2>6 DEF CodePoints
            <3>2. QED
                  BY <2>4, <2>6, <3>1
      <2>7. QED
            BY <2>5, <2>6
<1>6. CASE WideBits = 16
      <2>1. s[i] \in Nat /\ s[i] < 65536
            BY <1>3, <1>6
      <2>2. \A cp \in CodePoints : cp < 65536 => AsWide(cp) = <<cp>>
            BY DEF AsWide
      <2>3. CASE s[i] \notin Surrogates
            <3>1. NextWide(s, i) = Point(s[i], 1)
                  BY <1>6, <2>3 DEF NextWide
            <3>2. s[i] \in CodePoints
                  BY <2>1, <2>3, SurrogatesLie, CodePointsLie, SMT
            <3>3. ASSUME NEW cp \in CodePoints, Holds(s, i, AsWide(cp)), cp >= 65536
                  PROVE  FALSE
                  <4>1. cp \in Nat /\ cp <= 1114111
                        BY CodePointsLie DEF CodePoints
                  <4>2. PICK q \in Nat, r \in Nat :
                          /\ q = (cp - 65536) \div 1024 /\ r = (cp - 65536) % 1024
                          /\ q <= 1023 /\ r <= 1023
                        BY <3>3, <4>1, PairSpells DEF Halves
                  <4>3. AsWide(cp) = <<55296 + q, 56320 + r>>
                        BY <1>6, <3>3, <4>1, <4>2, SMT DEF AsWide
                  <4>4. s[i] = 55296 + q
                        <5>1. i + 1 - 1 = i /\ Len(<<55296 + q, 56320 + r>>) = 2
                              BY <1>3
                        <5>2. s[i + 1 - 1] = <<55296 + q, 56320 + r>>[1]
                              BY <3>3, <4>3, <5>1 DEF Holds
                        <5>3. QED
                              BY <5>1, <5>2
                  <4>5. QED
                        BY <2>1, <2>3, <4>2, <4>4, SurrogatesLie, SMT
            <3>4. \A cp \in CodePoints : cp \in Nat
                  BY DEF CodePoints
            <3>5. \A cp \in CodePoints : Holds(s, i, AsWide(cp)) => cp = s[i]
                  BY <1>4, <2>2, <3>3, <3>4
            <3>6. AsWide(s[i]) = <<s[i]>> /\ Len(AsWide(s[i])) = 1 /\ Holds(s, i, AsWide(s[i]))
                  BY <1>4, <2>1, <2>2, <3>2
            <3>7. QED
                  BY <3>1, <3>2, <3>5, <3>6
      <2>4. CASE s[i] \in Surrogates
            <3>1. ASSUME NEW cp \in CodePoints, Holds(s, i, AsWide(cp))
                  PROVE  NextWide(s, i) = Point(cp, Len(AsWide(cp)))
                  <4>1. cp \in Nat /\ cp <= 1114111
                        BY CodePointsLie DEF CodePoints
                  <4>2. cp >= 65536
                        <5>1. SUFFICES ASSUME cp < 65536 PROVE FALSE
                              BY <4>1
                        <5>2. s[i] = cp
                              BY <1>4, <2>2, <3>1, <5>1
                        <5>3. QED
                              BY <2>4, <5>2 DEF CodePoints, IsValidCodePoint
                  <4>3. PICK q \in Nat, r \in Nat :
                          /\ q = (cp - 65536) \div 1024 /\ r = (cp - 65536) % 1024
                          /\ q <= 1023 /\ r <= 1023 /\ cp = 65536 + q * 1024 + r
                        BY <4>1, <4>2, PairSpells DEF Halves
                  <4>4. AsWide(cp) = <<55296 + q, 56320 + r>>
                        BY <1>6, <4>1, <4>2, <4>3, SMT DEF AsWide
                  <4>5. i + 2 <= n + 1 /\ s[i] = 55296 + q /\ s[i + 1] = 56320 + r
                        <5>1. /\ i + 1 - 1 = i /\ i + 2 - 1 = i + 1
                              /\ Len(<<55296 + q, 56320 + r>>) = 2
                              BY <1>3
                        <5>2. /\ i + 2 <= n + 1
                              /\ s[i + 1 - 1] = <<55296 + q, 56320 + r>>[1]
                              /\ s[i + 2 - 1] = <<55296 + q, 56320 + r>>[2]
                              BY <1>2, <3>1, <4>4, <5>1 DEF Holds
                        <5>3. QED
                              BY <5>1, <5>2
                  <4>6. s[i] \in HighSurrogates /\ i < n /\ s[i + 1] \in LowSurrogates
                        BY <1>3, <4>3, <4>5, SurrogatesLie, SMT
                  <4>7. NextWide(s, i) = Point(65536 + (s[i] - 55296) * 1024 + (s[i + 1] - 56320), 2)
                        BY <1>2, <1>6, <2>4, <4>6 DEF NextWide
                  <4>8. 65536 + (s[i] - 55296) * 1024 + (s[i + 1] - 56320) = cp
                        BY <4>3, <4>5, SMT
                  <4>9. Len(AsWide(cp)) = 2
                        BY <4>4
                  <4>10. QED
                        BY <4>7, <4>8, <4>9
            <3>2. ASSUME NextWide(s, i) # Malformed
                  PROVE  \E cp \in CodePoints :
                           Holds(s, i, AsWide(cp)) /\ NextWide(s, i) = Point(cp, Len(AsWide(cp)))
                  <4>1. /\ s[i] \in HighSurrogates /\ i < n /\ s[i + 1] \in LowSurrogates
                        /\ NextWide(s, i) = Point(65536 + (s[i] - 55296) * 1024 + (s[i + 1] - 56320), 2)
                        BY <1>2, <1>6, <2>4, <3>2 DEF NextWide
                  <4>2. i + 1 \in 1..n /\ s[i + 1] \in Nat
                        BY <1>3, <4>1
                  <4>3. PICK q \in Nat, r \in Nat :
                          q = s[i] - 55296 /\ r = s[i + 1] - 56320 /\ q <= 1023 /\ r <= 1023
                        BY <2>1, <4>1, <4>2, SurrogatesLie, SMT
                  <4>4. PICK cp \in Nat : Halves(cp, q, r)
                        <5>1. q <= 1023 /\ r <= 1023
                              BY <4>3
                        <5>2. QED
                              BY <5>1, PairRead
                  <4>5. /\ cp <= 1114111 /\ cp >= 65536 /\ cp = 65536 + q * 1024 + r
                        /\ (cp - 65536) \div 1024 = q /\ (cp - 65536) % 1024 = r
                        BY <4>4 DEF Halves
                  <4>6. cp \in CodePoints
                        BY <4>5, CodePointsLie, SMT
                  <4>7. AsWide(cp) = <<55296 + q, 56320 + r>>
                        BY <1>6, <4>5, SMT DEF AsWide
                  <4>8. s[i] = 55296 + q /\ s[i + 1] = 56320 + r
                        BY <2>1, <4>2, <4>3, SMTT(30)
                  <4>9. Holds(s, i, AsWide(cp))
                        <5>1. /\ i + 1 - 1 = i /\ i + 2 - 1 = i + 1 /\ i + 2 <= n + 1
                              /\ Len(<<55296 + q, 56320 + r>>) = 2
                              BY <1>3, <4>1
                        <5>2. \A j \in 1..2 : s[i + j - 1] = <<55296 + q, 56320 + r>>[j]
                              BY <4>8, <5>1
                        <5>3. QED
                              BY <1>2, <4>7, <5>1, <5>2 DEF Holds
                  <4>10. NextWide(s, i) = Point(cp, 2) /\ Len(AsWide(cp)) = 2
                        BY <4>1, <4>3, <4>5, <4>7
                  <4>11. QED
                        BY <4>6, <4>9, <4>10
            <3>3. QED
                  BY <3>1, <3>2
      <2>5. QED
            BY <2>3, <2>4
<1>7. QED
      BY <1>5, <1>6, WideBitsAssumption

-----------------------------------------------------------------------------
(* UTF-8.                                                                  *)

Bytes == {n \in Nat : n < 256}

\* A number in base 64.
Sixes(cp, a, b, c, d) ==
  b < 64 /\ c < 64 /\ d < 64 /\ cp = ((a * 64 + b) * 64 + c) * 64 + d

LEMMA SixesExist ==
  ASSUME NEW cp \in Nat
  PROVE  \E a \in Nat, b \in Nat, c \in Nat, d \in Nat : Sixes(cp, a, b, c, d)
<1>1. ASSUME NEW n \in Nat PROVE \E m \in Nat, r \in Nat : r < 64 /\ n = m * 64 + r
      <2>1. /\ n \div 64 \in Nat /\ n % 64 \in Nat /\ n % 64 < 64
            /\ n = (n \div 64) * 64 + (n % 64)
            BY SMT
      <2>2. QED
            BY <2>1, Zenon
<1>2. PICK x \in Nat, d \in Nat : d < 64 /\ cp = x * 64 + d
      BY <1>1
<1>3. PICK y \in Nat, c \in Nat : c < 64 /\ x = y * 64 + c
      BY <1>1
<1>4. PICK a \in Nat, b \in Nat : b < 64 /\ y = a * 64 + b
      BY <1>1
<1>5. Sixes(cp, a, b, c, d)
      BY <1>2, <1>3, <1>4, SMT DEF Sixes
<1>6. QED
      BY <1>5

\* A lead byte for each number of continuation bytes, six bits in each of these.
LEMMA Utf8Written ==
  ASSUME NEW a \in Nat, NEW b \in Nat, NEW c \in Nat, NEW d \in Nat, NEW cp \in Nat,
         Sixes(cp, a, b, c, d)
  PROVE  /\ cp < 128 => AsUtf8(cp) = <<cp>>
         /\ cp >= 128 /\ cp < 2048 => AsUtf8(cp) = <<192 + c, 128 + d>> /\ a = 0 /\ b = 0
         /\ cp >= 2048 /\ cp < 65536 => AsUtf8(cp) = <<224 + b, 128 + c, 128 + d>> /\ a = 0
         /\ cp >= 65536 => AsUtf8(cp) = <<240 + a, 128 + b, 128 + c, 128 + d>>
<1>1. b < 64 /\ c < 64 /\ d < 64 /\ cp = ((a * 64 + b) * 64 + c) * 64 + d
      BY DEF Sixes
<1>2. cp % 64 = d /\ cp \div 64 = (a * 64 + b) * 64 + c
      BY <1>1, SMT
<1>3. (cp \div 64) % 64 = c
      BY <1>1, <1>2, SMT
<1>4. cp \div 4096 = a * 64 + b
      BY <1>1, SMT
<1>5. (cp \div 4096) % 64 = b
      BY <1>1, <1>4, SMT
<1>6. cp \div 262144 = a
      BY <1>1, SMT
<1>7. /\ Continuation(cp, 0) = 128 + d /\ Continuation(cp, 1) = 128 + c
      /\ Continuation(cp, 2) = 128 + b
      <2>1. 64^0 = 1 /\ 64^1 = 64 /\ 64^2 = 4096 /\ cp \div 1 = cp
            BY SMT
      <2>2. QED
            BY <1>2, <1>3, <1>5, <2>1 DEF Continuation
<1>8. cp < 2048 => a = 0 /\ b = 0 /\ (a * 64 + b) * 64 + c = c
      BY <1>1, SMT
<1>9. cp < 65536 => a = 0 /\ a * 64 + b = b
      BY <1>1, SMT
<1>10. QED
      BY <1>2, <1>4, <1>6, <1>7, <1>8, <1>9, SMT DEF AsUtf8

LEMMA Utf8IsSpelling == Spelling(Utf8)
<1>1. ASSUME NEW cp \in CodePoints
      PROVE  AsUtf8(cp) \in Seq(Nat) /\ Len(AsUtf8(cp)) >= 1
      <2>1. cp \in Nat
            BY DEF CodePoints
      <2>2. PICK a \in Nat, b \in Nat, c \in Nat, d \in Nat : Sixes(cp, a, b, c, d)
            BY <2>1, SixesExist
      <2>3. /\ 192 + c \in Nat /\ 224 + b \in Nat /\ 240 + a \in Nat
            /\ 128 + b \in Nat /\ 128 + c \in Nat /\ 128 + d \in Nat
            OBVIOUS
      <2>4. \/ AsUtf8(cp) = <<cp>>
            \/ AsUtf8(cp) = <<192 + c, 128 + d>>
            \/ AsUtf8(cp) = <<224 + b, 128 + c, 128 + d>>
            \/ AsUtf8(cp) = <<240 + a, 128 + b, 128 + c, 128 + d>>
            BY <2>1, <2>2, Utf8Written, SMTT(30)
      <2>5. ASSUME NEW p \in Nat, NEW q \in Nat, NEW r \in Nat, NEW t \in Nat
            PROVE  /\ <<p>> \in Seq(Nat) /\ Len(<<p>>) >= 1
                   /\ <<p, q>> \in Seq(Nat) /\ Len(<<p, q>>) >= 1
                   /\ <<p, q, r>> \in Seq(Nat) /\ Len(<<p, q, r>>) >= 1
                   /\ <<p, q, r, t>> \in Seq(Nat) /\ Len(<<p, q, r, t>>) >= 1
            OBVIOUS
      <2>6. PICK e \in Nat, f \in Nat, g \in Nat, x \in Nat, y \in Nat, z \in Nat :
              /\ e = 192 + c /\ f = 224 + b /\ g = 240 + a
              /\ x = 128 + b /\ y = 128 + c /\ z = 128 + d
            BY <2>3
      <2>7. \/ AsUtf8(cp) = <<cp>> \/ AsUtf8(cp) = <<e, z>>
            \/ AsUtf8(cp) = <<f, y, z>> \/ AsUtf8(cp) = <<g, x, y, z>>
            BY <2>4, <2>6, Zenon
      <2>8. CASE AsUtf8(cp) = <<cp>>
            BY <2>1, <2>5, <2>8
      <2>9. CASE AsUtf8(cp) = <<e, z>>
            BY <2>5, <2>9
      <2>10. CASE AsUtf8(cp) = <<f, y, z>>
            BY <2>5, <2>10
      <2>11. CASE AsUtf8(cp) = <<g, x, y, z>>
            BY <2>5, <2>11
      <2>12. QED
            BY <2>7, <2>8, <2>9, <2>10, <2>11
<1>2. QED
      BY <1>1 DEF Spelling, Utf8

\* What a lead byte says.
LEMMA LeadSays ==
  ASSUME NEW lead \in Nat
  PROVE  /\ lead >= 194 /\ lead <= 223 => Leads(lead) = Point(lead - 192, 1)
         /\ lead >= 224 /\ lead <= 239 => Leads(lead) = Point(lead - 224, 2)
         /\ lead >= 240 /\ lead <= 244 => Leads(lead) = Point(lead - 240, 3)
<1>1. /\ lead \in 194..223 <=> lead >= 194 /\ lead <= 223
      /\ lead \in 224..239 <=> lead >= 224 /\ lead <= 239
      /\ lead \in 240..244 <=> lead >= 240 /\ lead <= 244
      BY SMT
<1>2. CASE lead >= 194 /\ lead <= 223
      <2>1. lead % 32 = lead - 192
            BY <1>2, SMT
      <2>2. QED
            BY <1>1, <1>2, <2>1 DEF Leads
<1>3. CASE lead >= 224 /\ lead <= 239
      <2>1. lead % 16 = lead - 224
            BY <1>3, SMT
      <2>2. QED
            BY <1>1, <1>3, <2>1 DEF Leads
<1>4. CASE lead >= 240 /\ lead <= 244
      <2>1. lead % 8 = lead - 240
            BY <1>4, SMT
      <2>2. QED
            BY <1>1, <1>4, <2>1 DEF Leads
<1>5. QED
      BY <1>2, <1>3, <1>4

\* The bits gathered from a lead byte and those that follow it.
Gathered(s, i, first, extra) ==
  \E bits :
    /\ bits[0] = first
    /\ \A n \in 1..extra : bits[n] = (bits[n - 1] * 64) + (s[i + n] % 64)
    /\ NextUtf8(s, i) =
         IF /\ i + extra <= Len(s)
            /\ \A n \in 1..extra : s[i + n] \in 128..191
            /\ bits[extra] >= Least(extra)
            /\ IsValidCodePoint(bits[extra])
         THEN Point(bits[extra], extra + 1)
         ELSE Malformed

LEMMA BitsGathered ==
  ASSUME NEW s \in Seq(Nat), NEW i \in 1..Len(s), NEW extra \in {1, 2, 3}, NEW first \in Nat,
         s[i] >= 194, s[i] <= 244, Leads(s[i]) = Point(first, extra)
  PROVE  Gathered(s, i, first, extra)
<1>1. Leads(s[i]).units = extra /\ Leads(s[i]).cp = first
      BY DEF Point
<1> DEFINE F(h) == [n \in 0..Leads(s[i]).units |->
                      IF n = 0 THEN Leads(s[i]).cp ELSE (h[n - 1] * 64) + (s[i + n] % 64)]
           R(h) == IF /\ i + Leads(s[i]).units <= Len(s)
                      /\ \A n \in 1..Leads(s[i]).units : s[i + n] \in 128..191
                      /\ h[Leads(s[i]).units] >= Least(Leads(s[i]).units)
                      /\ IsValidCodePoint(h[Leads(s[i]).units])
                   THEN Point(h[Leads(s[i]).units], Leads(s[i]).units + 1)
                   ELSE Malformed
<1>2. NextUtf8(s, i) = R(CHOOSE h : h = F(h))
      <2>1. ~(s[i] < 128) /\ s[i] \in 194..244
            <3>1. PICK lead \in Nat : lead = s[i]
                  BY ElementOfSeq
            <3>2. lead >= 194 /\ lead <= 244
                  BY <3>1
            <3>3. ~(lead < 128) /\ lead \in 194..244
                  BY <3>2, SMT
            <3>4. QED
                  BY <3>1, <3>3
      <2>2. QED
            BY <2>1 DEF NextUtf8
<1>3. \E g : g = F(g)
      <2> DEFINE one == (first * 64) + (s[i + 1] % 64)
                 two == (one * 64) + (s[i + 2] % 64)
                 three == (two * 64) + (s[i + 3] % 64)
                 g == [n \in 0..extra |-> IF n = 0 THEN first ELSE IF n = 1 THEN one
                                          ELSE IF n = 2 THEN two ELSE three]
      <2>1. ASSUME NEW n \in 0..extra PROVE g[n] = F(g)[n]
            <3>1. g[0] = first
                  OBVIOUS
            <3>2. 1 <= extra /\ g[1] = one
                  OBVIOUS
            <3>3. 2 <= extra => g[2] = two
                  OBVIOUS
            <3>4. 3 <= extra => g[3] = three
                  OBVIOUS
            <3>5. F(g)[n] = IF n = 0 THEN first ELSE (g[n - 1] * 64) + (s[i + n] % 64)
                  BY <1>1
            <3>6. n = 0 \/ n = 1 \/ (n = 2 /\ 2 <= extra) \/ (n = 3 /\ 3 <= extra /\ 2 <= extra)
                  OBVIOUS
            <3>7. 1 - 1 = 0 /\ 2 - 1 = 1 /\ 3 - 1 = 2
                  OBVIOUS
            <3> HIDE DEF g, F
            <3>8. CASE n = 0
                  BY <3>1, <3>5, <3>8
            <3>9. CASE n = 1
                  BY <3>1, <3>2, <3>5, <3>7, <3>9
            <3>10. CASE n = 2 /\ 2 <= extra
                  BY <3>2, <3>3, <3>5, <3>7, <3>10
            <3>11. CASE n = 3 /\ 3 <= extra /\ 2 <= extra
                  BY <3>3, <3>4, <3>5, <3>7, <3>11
            <3>12. QED
                  BY <3>6, <3>8, <3>9, <3>10, <3>11
      <2>2. g = [n \in 0..extra |-> g[n]] /\ F(g) = [n \in 0..extra |-> F(g)[n]]
            BY <1>1
      <2> HIDE DEF g, F
      <2>3. g = F(g)
            BY <2>1, <2>2, Zenon
      <2>4. QED
            BY <2>3
<1>4. PICK bits : bits = F(bits) /\ NextUtf8(s, i) = R(bits)
      <2> HIDE DEF F, R
      <2>1. QED
            BY <1>2, <1>3
<1>5. \A n \in 0..extra : bits[n] = IF n = 0 THEN first ELSE (bits[n - 1] * 64) + (s[i + n] % 64)
      BY <1>1, <1>4
<1>6. bits[0] = first /\ \A n \in 1..extra : bits[n] = (bits[n - 1] * 64) + (s[i + n] % 64)
      <2>1. 0 \in 0..extra /\ \A n \in 1..extra : n \in 0..extra /\ n # 0
            OBVIOUS
      <2>2. QED
            BY <1>5, <2>1, Zenon
<1>7. QED
      BY <1>1, <1>4, <1>6 DEF Gathered

\* next_utf8_code_point() reads what append_as_utf8() writes, and nothing else.
LEMMA Utf8Reads ==
  ASSUME NEW s \in Seq(Bytes)
  PROVE  ReadsUnits(s, Utf8, [i \in 1..Len(s) |-> NextUtf8(s, i)])
<1>1. SUFFICES ASSUME NEW i \in 1..Len(s)
      PROVE  /\ \A cp \in CodePoints :
                  Holds(s, i, AsUtf8(cp)) => NextUtf8(s, i) = Point(cp, Len(AsUtf8(cp)))
             /\ \/ NextUtf8(s, i) = Malformed
                \/ \E cp \in CodePoints :
                     Holds(s, i, AsUtf8(cp)) /\ NextUtf8(s, i) = Point(cp, Len(AsUtf8(cp)))
      BY DEF ReadsUnits, Utf8
<1>2. PICK n \in Nat : n = Len(s)
      BY LenProperties
<1>3. s \in Seq(Nat) /\ i \in Nat /\ i <= n
      <2>1. Bytes \subseteq Nat
            BY DEF Bytes
      <2>2. s \in Seq(Nat)
            BY <2>1, SeqMonotonic
      <2>3. QED
            BY <1>2, <2>2
<1>4. PICK lead \in Nat : lead = s[i] /\ lead < 256
      BY ElementOfSeq DEF Bytes
<1>5. ASSUME NEW x \in Nat
      PROVE  /\ x \in 128..191 <=> x >= 128 /\ x <= 191
             /\ x >= 128 /\ x <= 191 => x % 64 = x - 128
      BY SMT
<1>6. ASSUME NEW j \in Nat, i + j <= n PROVE s[i + j] \in Nat
      <2>1. i + j \in 1..n
            BY <1>6
      <2>2. QED
            BY <1>2, <1>3, <2>1, ElementOfSeq
<1>11. ASSUME NEW a
      PROVE  Holds(s, i, <<a>>) <=>
               i <= n /\ s[i] = a
      <2>1. /\ i + 1 - 1 = i
            /\ i + 1 <= n + 1 <=> i <= n
            BY <1>3
      <2>2. Len(<<a>>) = 1 /\ 1..1 = {1}
            OBVIOUS
      <2>3. QED
            BY <1>2, <2>1, <2>2 DEF Holds
<1>12. ASSUME NEW a, NEW b
      PROVE  Holds(s, i, <<a, b>>) <=>
               i + 1 <= n /\ s[i] = a /\ s[i + 1] = b
      <2>1. /\ i + 1 - 1 = i /\ i + 2 - 1 = i + 1
            /\ i + 2 <= n + 1 <=> i + 1 <= n
            BY <1>3
      <2>2. Len(<<a, b>>) = 2 /\ 1..2 = {1, 2}
            OBVIOUS
      <2>3. QED
            BY <1>2, <2>1, <2>2 DEF Holds
<1>13. ASSUME NEW a, NEW b, NEW c
      PROVE  Holds(s, i, <<a, b, c>>) <=>
               i + 2 <= n /\ s[i] = a /\ s[i + 1] = b /\ s[i + 2] = c
      <2>1. /\ i + 1 - 1 = i /\ i + 2 - 1 = i + 1 /\ i + 3 - 1 = i + 2
            /\ i + 3 <= n + 1 <=> i + 2 <= n
            BY <1>3
      <2>2. Len(<<a, b, c>>) = 3 /\ 1..3 = {1, 2, 3}
            OBVIOUS
      <2>3. QED
            BY <1>2, <2>1, <2>2 DEF Holds
<1>14. ASSUME NEW a, NEW b, NEW c, NEW d
      PROVE  Holds(s, i, <<a, b, c, d>>) <=>
               i + 3 <= n /\ s[i] = a /\ s[i + 1] = b /\ s[i + 2] = c /\ s[i + 3] = d
      <2>1. /\ i + 1 - 1 = i /\ i + 2 - 1 = i + 1 /\ i + 3 - 1 = i + 2 /\ i + 4 - 1 = i + 3
            /\ i + 4 <= n + 1 <=> i + 3 <= n
            BY <1>3
      <2>2. Len(<<a, b, c, d>>) = 4 /\ 1..4 = {1, 2, 3, 4}
            OBVIOUS
      <2>3. QED
            BY <1>2, <2>1, <2>2 DEF Holds
<1>7. ASSUME NEW cp \in Nat, cp \in CodePoints, Holds(s, i, AsUtf8(cp))
      PROVE  NextUtf8(s, i) = Point(cp, Len(AsUtf8(cp)))
      <2>1. cp <= 1114111 /\ IsValidCodePoint(cp)
            BY <1>7, CodePointsLie, SMT DEF CodePoints
      <2>9. ASSUME NEW x \in Nat, x < 64
            PROVE  128 + x \in 128..191 /\ (128 + x) % 64 = x
            BY <2>9, SMT
      <2>2. PICK a \in Nat, b \in Nat, c \in Nat, d \in Nat : Sixes(cp, a, b, c, d)
            BY SixesExist
      <2>3. b < 64 /\ c < 64 /\ d < 64 /\ cp = ((a * 64 + b) * 64 + c) * 64 + d
            BY <2>2 DEF Sixes
      <2>10. /\ 128 + b \in 128..191 /\ (128 + b) % 64 = b
             /\ 128 + c \in 128..191 /\ (128 + c) % 64 = c
             /\ 128 + d \in 128..191 /\ (128 + d) % 64 = d
            BY <2>3, <2>9
      <2>4. CASE cp < 128
            <3>1. AsUtf8(cp) = <<cp>>
                  BY <2>2, <2>4, Utf8Written, SMT
            <3>2. s[i] = cp
                  <4>1. Holds(s, i, <<cp>>)
                        BY <1>7, <3>1
                  <4>2. QED
                        BY <1>11, <4>1, Zenon
            <3>3. Len(AsUtf8(cp)) = 1
                  BY <3>1
            <3>4. QED
                  BY <2>4, <3>2, <3>3 DEF NextUtf8
      <2>5. CASE cp >= 128 /\ cp < 2048
            <3>1. AsUtf8(cp) = <<192 + c, 128 + d>> /\ a = 0 /\ b = 0
                  BY <2>2, <2>5, Utf8Written, SMT
            <3>2. /\ i + 1 <= n /\ s[i] = 192 + c /\ s[i + 1] = 128 + d
                  /\ Len(AsUtf8(cp)) = 2
                  <4>1. i + 1 <= n /\ s[i] = 192 + c /\ s[i + 1] = 128 + d
                        <5>1. Holds(s, i, <<192 + c, 128 + d>>)
                              BY <1>7, <3>1
                        <5>2. QED
                              BY <1>12, <5>1, Zenon
                  <4>2. QED
                        BY <3>1, <4>1
            <3>3. lead >= 194 /\ lead <= 223 /\ lead - 192 = c
                  BY <1>4, <2>3, <2>5, <3>1, <3>2, SMT
            <3>4. PICK bits :
                    /\ bits[0] = c
                    /\ bits[1] = (bits[0] * 64) + (s[i + 1] % 64)
                    /\ NextUtf8(s, i) =
                         IF /\ i + 1 <= Len(s)
                            /\ \A m \in 1..1 : s[i + m] \in 128..191
                            /\ bits[1] >= Least(1)
                            /\ IsValidCodePoint(bits[1])
                         THEN Point(bits[1], 1 + 1)
                         ELSE Malformed
                  <4>1. Leads(s[i]) = Point(c, 1) /\ s[i] >= 194 /\ s[i] <= 244
                        BY <1>4, <3>3, LeadSays
                  <4>2. 1 \in 1..1 /\ 1 - 1 = 0 /\ 1 \in {1, 2, 3}
                        OBVIOUS
                  <4>3. QED
                        BY <1>3, <4>1, <4>2, BitsGathered DEF Gathered
            <3>5. bits[1] = cp
                  BY <2>3, <2>10, <3>1, <3>2, <3>4, SMT
            <3>6. Least(1) = 128 /\ \A m \in 1..1 : s[i + m] \in 128..191
                  <4>1. s[i + 1] \in 128..191
                        BY <2>10, <3>2
                  <4>2. QED
                        BY <4>1 DEF Least
            <3>7. QED
                  BY <1>2, <2>1, <2>5, <3>2, <3>4, <3>5, <3>6, SMT
      <2>6. CASE cp >= 2048 /\ cp < 65536
            <3>1. AsUtf8(cp) = <<224 + b, 128 + c, 128 + d>> /\ a = 0
                  BY <2>2, <2>6, Utf8Written, SMT
            <3>2. /\ i + 2 <= n /\ s[i] = 224 + b /\ s[i + 1] = 128 + c /\ s[i + 2] = 128 + d
                  /\ Len(AsUtf8(cp)) = 3
                  <4>1. i + 2 <= n /\ s[i] = 224 + b /\ s[i + 1] = 128 + c /\ s[i + 2] = 128 + d
                        <5>1. Holds(s, i, <<224 + b, 128 + c, 128 + d>>)
                              BY <1>7, <3>1
                        <5>2. QED
                              BY <1>13, <5>1, Zenon
                  <4>2. QED
                        BY <3>1, <4>1
            <3>3. lead >= 224 /\ lead <= 239 /\ lead - 224 = b
                  BY <1>4, <2>3, <2>6, <3>1, <3>2, SMT
            <3>4. PICK bits :
                    /\ bits[0] = b
                    /\ bits[1] = (bits[0] * 64) + (s[i + 1] % 64)
                    /\ bits[2] = (bits[1] * 64) + (s[i + 2] % 64)
                    /\ NextUtf8(s, i) =
                         IF /\ i + 2 <= Len(s)
                            /\ \A m \in 1..2 : s[i + m] \in 128..191
                            /\ bits[2] >= Least(2)
                            /\ IsValidCodePoint(bits[2])
                         THEN Point(bits[2], 2 + 1)
                         ELSE Malformed
                  <4>1. Leads(s[i]) = Point(b, 2) /\ s[i] >= 194 /\ s[i] <= 244
                        BY <1>4, <3>3, LeadSays
                  <4>2. 1 \in 1..2 /\ 2 \in 1..2 /\ 1 - 1 = 0 /\ 2 - 1 = 1 /\ 2 \in {1, 2, 3}
                        OBVIOUS
                  <4>3. QED
                        BY <1>3, <4>1, <4>2, BitsGathered DEF Gathered
            <3>5. bits[1] = b * 64 + c
                  BY <2>10, <3>2, <3>4, SMT
            <3>6. bits[2] = cp
                  <4>1. s[i + 2] % 64 = d
                        BY <2>10, <3>2
                  <4>2. bits[2] = (bits[1] * 64) + (s[i + 2] % 64)
                        BY <3>4
                  <4>3. bits[2] = ((b * 64 + c) * 64) + d
                        BY <3>5, <4>1, <4>2
                  <4>4. QED
                        BY <2>3, <3>1, <4>3, SMT
            <3>7. Least(2) = 2048 /\ \A m \in 1..2 : s[i + m] \in 128..191
                  <4>1. s[i + 1] \in 128..191 /\ s[i + 2] \in 128..191
                        BY <2>10, <3>2
                  <4>2. 1..2 = {1, 2} /\ Least(2) = 2048
                        BY SMT DEF Least
                  <4>3. QED
                        BY <4>1, <4>2, SMT
            <3>8. QED
                  BY <1>2, <2>1, <2>6, <3>2, <3>4, <3>6, <3>7, SMT
      <2>7. CASE cp >= 65536
            <3>1. AsUtf8(cp) = <<240 + a, 128 + b, 128 + c, 128 + d>>
                  BY <2>2, <2>7, Utf8Written, SMT
            <3>2. /\ i + 3 <= n /\ s[i] = 240 + a /\ s[i + 1] = 128 + b
                  /\ s[i + 2] = 128 + c /\ s[i + 3] = 128 + d
                  /\ Len(AsUtf8(cp)) = 4
                  <4>1. /\ i + 3 <= n /\ s[i] = 240 + a /\ s[i + 1] = 128 + b
                        /\ s[i + 2] = 128 + c /\ s[i + 3] = 128 + d
                        <5>1. Holds(s, i, <<240 + a, 128 + b, 128 + c, 128 + d>>)
                              BY <1>7, <3>1
                        <5>2. Holds(s, i, <<240 + a, 128 + b, 128 + c, 128 + d>>) <=>
                                /\ i + 3 <= n /\ s[i] = 240 + a /\ s[i + 1] = 128 + b
                                /\ s[i + 2] = 128 + c /\ s[i + 3] = 128 + d
                              BY <1>14, SMTT(30)
                        <5>3. QED
                              BY <5>1, <5>2
                  <4>2. QED
                        BY <3>1, <4>1
            <3>3. lead >= 240 /\ lead <= 244 /\ lead - 240 = a
                  BY <1>4, <2>1, <2>3, <3>2, SMT
            <3>4. PICK bits :
                    /\ bits[0] = a
                    /\ bits[1] = (bits[0] * 64) + (s[i + 1] % 64)
                    /\ bits[2] = (bits[1] * 64) + (s[i + 2] % 64)
                    /\ bits[3] = (bits[2] * 64) + (s[i + 3] % 64)
                    /\ NextUtf8(s, i) =
                         IF /\ i + 3 <= Len(s)
                            /\ \A m \in 1..3 : s[i + m] \in 128..191
                            /\ bits[3] >= Least(3)
                            /\ IsValidCodePoint(bits[3])
                         THEN Point(bits[3], 3 + 1)
                         ELSE Malformed
                  <4>1. Leads(s[i]) = Point(a, 3) /\ s[i] >= 194 /\ s[i] <= 244
                        BY <1>4, <3>3, LeadSays
                  <4>2. /\ 1 \in 1..3 /\ 2 \in 1..3 /\ 3 \in 1..3 /\ 3 \in {1, 2, 3}
                        /\ 1 - 1 = 0 /\ 2 - 1 = 1 /\ 3 - 1 = 2
                        OBVIOUS
                  <4>3. QED
                        BY <1>3, <4>1, <4>2, BitsGathered DEF Gathered
            <3>5. bits[1] = a * 64 + b
                  BY <2>10, <3>2, <3>4, SMT
            <3>6. bits[2] = (a * 64 + b) * 64 + c
                  <4>1. s[i + 2] % 64 = c
                        BY <2>10, <3>2
                  <4>2. bits[2] = (bits[1] * 64) + (s[i + 2] % 64)
                        BY <3>4
                  <4>3. QED
                        BY <3>5, <4>1, <4>2
            <3>7. bits[3] = cp
                  <4>1. s[i + 3] % 64 = d
                        BY <2>10, <3>2
                  <4>2. bits[3] = (bits[2] * 64) + (s[i + 3] % 64)
                        BY <3>4
                  <4>3. bits[3] = (((a * 64 + b) * 64 + c) * 64) + d
                        BY <3>6, <4>1, <4>2
                  <4>4. QED
                        BY <2>3, <4>3, SMT
            <3>8. Least(3) = 65536 /\ \A m \in 1..3 : s[i + m] \in 128..191
                  <4>1. /\ s[i + 1] \in 128..191 /\ s[i + 2] \in 128..191
                        /\ s[i + 3] \in 128..191
                        BY <2>10, <3>2
                  <4>2. 1..3 = {1, 2, 3} /\ Least(3) = 65536
                        BY SMT DEF Least
                  <4>3. QED
                        BY <4>1, <4>2, SMT
            <3>9. QED
                  <4>1. i + 3 <= Len(s) /\ bits[3] >= Least(3) /\ IsValidCodePoint(bits[3])
                        BY <1>2, <2>1, <2>7, <3>2, <3>7, <3>8, SMT
                  <4>2. NextUtf8(s, i) = Point(bits[3], 3 + 1)
                        BY <3>4, <3>8, <4>1, SMTT(30)
                  <4>3. 3 + 1 = Len(AsUtf8(cp))
                        BY <3>2, SMT
                  <4>4. QED
                        BY <3>7, <4>2, <4>3, Zenon
      <2>8. QED
            BY <2>4, <2>5, <2>6, <2>7, SMT
<1>8. ASSUME NextUtf8(s, i) # Malformed
      PROVE  \E cp \in CodePoints :
               Holds(s, i, AsUtf8(cp)) /\ NextUtf8(s, i) = Point(cp, Len(AsUtf8(cp)))
      <2>1. lead < 128 \/ (lead >= 194 /\ lead <= 244)
            <3>1. lead \in 194..244 <=> lead >= 194 /\ lead <= 244
                  BY SMT
            <3>2. QED
                  BY <1>4, <1>8, <3>1 DEF NextUtf8
      <2>2. CASE lead < 128
            <3>1. lead \in CodePoints
                  BY <2>2, CodePointsLie
            <3>2. AsUtf8(lead) = <<lead>>
                  BY <2>2, SMT DEF AsUtf8
            <3>3. Holds(s, i, AsUtf8(lead)) /\ Len(AsUtf8(lead)) = 1
                  <4>1. Holds(s, i, AsUtf8(lead))
                        <5>1. Holds(s, i, <<lead>>)
                              BY <1>3, <1>4, <1>11, Zenon
                        <5>2. QED
                              BY <3>2, <5>1
                  <4>2. QED
                        BY <3>2, <4>1
            <3>4. NextUtf8(s, i) = Point(lead, 1)
                  BY <1>4, <2>2 DEF NextUtf8
            <3>5. QED
                  BY <3>1, <3>3, <3>4
      <2>3. ASSUME NEW extra \in {1, 2, 3}, NEW first \in Nat, lead >= 194, lead <= 244,
                   Leads(lead) = Point(first, extra)
            PROVE  \E bits :
                     /\ bits[0] = first
                     /\ \A m \in 1..extra : bits[m] = (bits[m - 1] * 64) + (s[i + m] % 64)
                     /\ i + extra <= n
                     /\ \A m \in 1..extra : s[i + m] \in 128..191
                     /\ bits[extra] >= Least(extra) /\ IsValidCodePoint(bits[extra])
                     /\ NextUtf8(s, i) = Point(bits[extra], extra + 1)
            <3>1. PICK bits :
                    /\ bits[0] = first
                    /\ \A m \in 1..extra : bits[m] = (bits[m - 1] * 64) + (s[i + m] % 64)
                    /\ NextUtf8(s, i) =
                         IF /\ i + extra <= Len(s)
                            /\ \A m \in 1..extra : s[i + m] \in 128..191
                            /\ bits[extra] >= Least(extra)
                            /\ IsValidCodePoint(bits[extra])
                         THEN Point(bits[extra], extra + 1)
                         ELSE Malformed
                  <4>1. s[i] >= 194 /\ s[i] <= 244 /\ Leads(s[i]) = Point(first, extra)
                        BY <1>4, <2>3
                  <4>2. s \in Seq(Nat) /\ i \in 1..Len(s)
                        BY <1>3
                  <4>3. Gathered(s, i, first, extra)
                        BY <4>1, <4>2, BitsGathered, Zenon
                  <4>4. QED
                        BY <4>3 DEF Gathered
            <3>2. QED
                  BY <1>2, <1>8, <3>1
      <2>4. ASSUME NEW j \in Nat, i + j <= n, s[i + j] \in 128..191
            PROVE  \E x \in Nat : s[i + j] = 128 + x /\ x < 64 /\ s[i + j] % 64 = x
            <3>1. PICK y \in Nat : y = s[i + j]
                  BY <1>6, <2>4
            <3>2. y >= 128 /\ y <= 191 /\ y % 64 = y - 128
                  BY <1>5, <2>4, <3>1
            <3>3. y - 128 \in Nat /\ y = 128 + (y - 128) /\ y - 128 < 64
                  BY <3>2
            <3>4. QED
                  BY <3>1, <3>2, <3>3
      <2>5. CASE lead >= 194 /\ lead <= 223
            <3>1. PICK c \in Nat : c = lead - 192 /\ lead = 192 + c /\ c >= 2 /\ c < 32
                  BY <2>5
            <3>2. Leads(lead) = Point(c, 1) /\ lead <= 244
                  BY <2>5, <3>1, LeadSays
            <3>3. PICK bits :
                    /\ bits[0] = c
                    /\ bits[1] = (bits[0] * 64) + (s[i + 1] % 64)
                    /\ i + 1 <= n /\ s[i + 1] \in 128..191
                    /\ IsValidCodePoint(bits[1])
                    /\ NextUtf8(s, i) = Point(bits[1], 2)
                  <4>1. 1 \in 1..1 /\ 1 - 1 = 0 /\ 1 + 1 = 2 /\ 1 \in {1, 2, 3}
                        OBVIOUS
                  <4>2. QED
                        BY <2>3, <2>5, <3>2, <4>1
            <3>4. PICK d \in Nat : s[i + 1] = 128 + d /\ d < 64 /\ s[i + 1] % 64 = d
                  BY <2>4, <3>3
            <3>5. PICK cp \in Nat : cp = c * 64 + d /\ bits[1] = cp
                  BY <3>3, <3>4
            <3>6. Sixes(cp, 0, 0, c, d) /\ cp >= 128 /\ cp < 2048
                  BY <3>1, <3>4, <3>5, SMT DEF Sixes
            <3>7. AsUtf8(cp) = <<192 + c, 128 + d>>
                  BY <3>6, Utf8Written
            <3>8. Holds(s, i, AsUtf8(cp)) /\ Len(AsUtf8(cp)) = 2
                  <4>1. s[i] = 192 + c /\ s[i + 1] = 128 + d /\ i + 1 <= n
                        BY <1>4, <3>1, <3>3, <3>4
                  <4>2. Holds(s, i, AsUtf8(cp))
                        <5>1. Holds(s, i, <<192 + c, 128 + d>>)
                              BY <1>12, <4>1, Zenon
                        <5>2. QED
                              BY <3>7, <5>1
                  <4>3. QED
                        BY <3>7, <4>2
            <3>9. cp \in CodePoints
                  BY <3>3, <3>5 DEF CodePoints
            <3>10. QED
                  BY <3>3, <3>5, <3>8, <3>9
      <2>6. CASE lead >= 224 /\ lead <= 239
            <3>1. PICK b \in Nat : b = lead - 224 /\ lead = 224 + b /\ b < 16
                  BY <2>6
            <3>2. Leads(lead) = Point(b, 2) /\ lead >= 194 /\ lead <= 244
                  BY <2>6, <3>1, LeadSays
            <3>3. PICK bits :
                    /\ bits[0] = b
                    /\ bits[1] = (bits[0] * 64) + (s[i + 1] % 64)
                    /\ bits[2] = (bits[1] * 64) + (s[i + 2] % 64)
                    /\ i + 2 <= n /\ s[i + 1] \in 128..191 /\ s[i + 2] \in 128..191
                    /\ bits[2] >= 2048 /\ IsValidCodePoint(bits[2])
                    /\ NextUtf8(s, i) = Point(bits[2], 3)
                  <4>1. /\ 1 \in 1..2 /\ 2 \in 1..2 /\ 1 - 1 = 0 /\ 2 - 1 = 1 /\ 2 + 1 = 3
                        /\ 2 \in {1, 2, 3} /\ Least(2) = 2048
                        BY SMT DEF Least
                  <4>2. QED
                        BY <2>3, <3>2, <4>1
            <3>4. PICK c \in Nat : s[i + 1] = 128 + c /\ c < 64 /\ s[i + 1] % 64 = c
                  <4>1. i + 1 <= n /\ s[i + 1] \in 128..191 /\ 1 \in Nat
                        BY <1>3, <3>3
                  <4>2. QED
                        BY <2>4, <4>1
            <3>5. PICK d \in Nat : s[i + 2] = 128 + d /\ d < 64 /\ s[i + 2] % 64 = d
                  BY <2>4, <3>3
            <3>6. PICK cp \in Nat : cp = (b * 64 + c) * 64 + d /\ bits[2] = cp
                  BY <3>3, <3>4, <3>5
            <3>7. Sixes(cp, 0, b, c, d) /\ cp >= 2048 /\ cp < 65536
                  BY <3>1, <3>3, <3>4, <3>5, <3>6, SMT DEF Sixes
            <3>8. AsUtf8(cp) = <<224 + b, 128 + c, 128 + d>>
                  BY <3>7, Utf8Written
            <3>9. Holds(s, i, AsUtf8(cp)) /\ Len(AsUtf8(cp)) = 3
                  <4>1. /\ s[i] = 224 + b /\ s[i + 1] = 128 + c /\ s[i + 2] = 128 + d
                        /\ i + 2 <= n
                        BY <1>4, <3>1, <3>3, <3>4, <3>5, SMT
                  <4>2. Holds(s, i, AsUtf8(cp))
                        <5>1. Holds(s, i, <<224 + b, 128 + c, 128 + d>>)
                              BY <1>13, <4>1, Zenon
                        <5>2. QED
                              BY <3>8, <5>1
                  <4>3. QED
                        BY <3>8, <4>2
            <3>10. cp \in CodePoints
                  BY <3>3, <3>6 DEF CodePoints
            <3>11. NextUtf8(s, i) = Point(cp, Len(AsUtf8(cp)))
                  <4>1. NextUtf8(s, i) = Point(bits[2], 3)
                        BY <3>3
                  <4>2. QED
                        BY <3>6, <3>9, <4>1
            <3>12. QED
                  BY <3>9, <3>10, <3>11, Zenon
      <2>7. CASE lead >= 240 /\ lead <= 244
            <3>1. PICK a \in Nat : a = lead - 240 /\ lead = 240 + a
                  BY <2>7
            <3>2. Leads(lead) = Point(a, 3) /\ lead >= 194
                  BY <2>7, <3>1, LeadSays
            <3>3. PICK bits :
                    /\ bits[0] = a
                    /\ bits[1] = (bits[0] * 64) + (s[i + 1] % 64)
                    /\ bits[2] = (bits[1] * 64) + (s[i + 2] % 64)
                    /\ bits[3] = (bits[2] * 64) + (s[i + 3] % 64)
                    /\ i + 3 <= n /\ s[i + 1] \in 128..191 /\ s[i + 2] \in 128..191
                    /\ s[i + 3] \in 128..191
                    /\ bits[3] >= 65536 /\ IsValidCodePoint(bits[3])
                    /\ NextUtf8(s, i) = Point(bits[3], 4)
                  <4>1. /\ 1 \in 1..3 /\ 2 \in 1..3 /\ 3 \in 1..3
                        /\ 1 - 1 = 0 /\ 2 - 1 = 1 /\ 3 - 1 = 2 /\ 3 + 1 = 4
                        /\ 3 \in {1, 2, 3} /\ Least(3) = 65536
                        BY SMT DEF Least
                  <4>2. QED
                        BY <2>3, <2>7, <3>2, <4>1
            <3>4. PICK b \in Nat : s[i + 1] = 128 + b /\ b < 64 /\ s[i + 1] % 64 = b
                  <4>1. i + 1 <= n /\ s[i + 1] \in 128..191 /\ 1 \in Nat
                        BY <1>3, <3>3
                  <4>2. QED
                        BY <2>4, <4>1
            <3>5. PICK c \in Nat : s[i + 2] = 128 + c /\ c < 64 /\ s[i + 2] % 64 = c
                  <4>1. i + 2 <= n /\ s[i + 2] \in 128..191 /\ 2 \in Nat
                        BY <1>3, <3>3
                  <4>2. QED
                        BY <2>4, <4>1
            <3>6. PICK d \in Nat : s[i + 3] = 128 + d /\ d < 64 /\ s[i + 3] % 64 = d
                  BY <2>4, <3>3
            <3>7. PICK cp \in Nat : cp = ((a * 64 + b) * 64 + c) * 64 + d /\ bits[3] = cp
                  BY <3>3, <3>4, <3>5, <3>6
            <3>8. Sixes(cp, a, b, c, d) /\ cp >= 65536
                  BY <3>3, <3>4, <3>5, <3>6, <3>7, SMT DEF Sixes
            <3>9. AsUtf8(cp) = <<240 + a, 128 + b, 128 + c, 128 + d>>
                  BY <3>8, Utf8Written
            <3>10. Holds(s, i, AsUtf8(cp)) /\ Len(AsUtf8(cp)) = 4
                  <4>1. /\ s[i] = 240 + a /\ s[i + 1] = 128 + b /\ s[i + 2] = 128 + c
                        /\ s[i + 3] = 128 + d /\ i + 3 <= n
                        BY <1>4, <3>1, <3>3, <3>4, <3>5, <3>6, SMTT(30)
                  <4>2. Holds(s, i, AsUtf8(cp))
                        <5>1. Holds(s, i, <<240 + a, 128 + b, 128 + c, 128 + d>>)
                              BY <1>14, <4>1, ZenonT(40)
                        <5>2. QED
                              BY <3>9, <5>1
                  <4>3. QED
                        BY <3>9, <4>2
            <3>11. cp \in CodePoints
                  BY <3>3, <3>7 DEF CodePoints
            <3>12. NextUtf8(s, i) = Point(cp, Len(AsUtf8(cp)))
                  <4>1. NextUtf8(s, i) = Point(bits[3], 4)
                        BY <3>3
                  <4>2. QED
                        BY <3>7, <3>10, <4>1
            <3>13. QED
                  BY <3>10, <3>11, <3>12, Zenon
      <2>8. QED
            BY <2>1, <2>2, <2>5, <2>6, <2>7
<1>9. \A cp \in CodePoints : cp \in Nat
      BY DEF CodePoints
<1>10. QED
      BY <1>7, <1>8, <1>9, Zenon
-----------------------------------------------------------------------------
(* convert().                                                              *)

\* What is read at each place, and the recursion over the places.
LEMMA WideRewritten ==
  ASSUME NEW s \in Seq(WideUnits)
  PROVE  \E text : /\ Rewritten(s, [i \in 1..Len(s) |-> NextWide(s, i)], Utf8, text)
                   /\ WideToUtf8(s) = text[1]
<1> DEFINE read == [i \in 1..Len(s) |-> NextWide(s, i)]
           F(h) == [i \in 1..(Len(s) + 1) |->
                      IF i > Len(s) THEN <<>>
                      ELSE LET p == NextWide(s, i) IN
                           IF p = Malformed THEN Malformed
                           ELSE LET rest == h[i + p.units] IN
                                IF rest = Malformed THEN Malformed ELSE AsUtf8(p.cp) \o rest]
           G(h) == [i \in 1..(Len(s) + 1) |->
                      IF i > Len(s) THEN <<>>
                      ELSE IF read[i] = Malformed THEN Malformed
                      ELSE IF h[i + read[i].units] = Malformed THEN Malformed
                      ELSE Utf8[read[i].cp] \o h[i + read[i].units]]
<1>1. WideToUtf8(s) = (CHOOSE h : h = F(h))[1]
      BY DEF WideToUtf8
<1>2. s \in Seq(Nat) /\ Len(s) \in Nat
      <2>1. WideUnits \subseteq Nat
            BY DEF WideUnits
      <2>2. s \in Seq(Nat)
            BY <2>1, SeqMonotonic
      <2>3. QED
            BY <2>2, LenProperties
<1>3. ReadsUnits(s, Wide, read)
      BY WideReads
<1>4. ASSUME NEW i \in 1..Len(s), NextWide(s, i) # Malformed
      PROVE  Utf8[NextWide(s, i).cp] = AsUtf8(NextWide(s, i).cp)
      <2>1. read[i] = NextWide(s, i)
            OBVIOUS
      <2>2. PICK cp \in CodePoints : read[i] = Point(cp, Len(Wide[cp]))
            BY <1>3, <1>4, <2>1 DEF ReadsUnits
      <2>3. NextWide(s, i).cp = cp
            BY <2>1, <2>2 DEF Point
      <2>4. QED
            BY <2>3 DEF Utf8
<1>5. ASSUME NEW h PROVE F(h) = G(h)
      <2>1. ASSUME NEW i \in 1..(Len(s) + 1)
            PROVE  F(h)[i] = G(h)[i]
            <3>1. CASE i > Len(s)
                  BY <3>1
            <3>2. CASE ~(i > Len(s))
                  <4>1. i \in 1..Len(s)
                        BY <1>2, <3>2
                  <4>2. read[i] = NextWide(s, i)
                        BY <4>1
                  <4>3. CASE NextWide(s, i) = Malformed
                        BY <3>2, <4>2, <4>3
                  <4>4. CASE NextWide(s, i) # Malformed
                        BY <1>4, <3>2, <4>1, <4>2, <4>4
                  <4>5. QED
                        BY <4>3, <4>4
            <3>3. QED
                  BY <3>1, <3>2
      <2>2. F(h) = [i \in 1..(Len(s) + 1) |-> F(h)[i]] /\ G(h) = [i \in 1..(Len(s) + 1) |-> G(h)[i]]
            OBVIOUS
      <2> HIDE DEF F, G
      <2>3. QED
            BY <2>1, <2>2, Zenon
<1>6. \E g : g = G(g)
      <2> HIDE DEF read
      <2>1. \E g : Recursive(s, read, Utf8, g)
            BY <1>2, <1>3, WideIsSpelling, Utf8IsSpelling, RewritingEnds
      <2>2. QED
            BY <2>1 DEF Recursive
<1>7. PICK text : text = G(text) /\ WideToUtf8(s) = text[1]
      <2> HIDE DEF F, G
      <2>1. \E h : h = F(h)
            BY <1>5, <1>6
      <2>2. PICK h : h = F(h) /\ WideToUtf8(s) = h[1]
            BY <1>1, <2>1
      <2>3. QED
            BY <1>5, <2>2
<1> HIDE DEF read
<1>8. Rewritten(s, read, Utf8, text)
      <2>1. PICK n \in Nat : n = Len(s)
            BY <1>2
      <2>2. n + 1 \in 1..(n + 1) /\ n + 1 > n /\ \A i \in 1..n : i \in 1..(n + 1) /\ ~(i > n)
            OBVIOUS
      <2>3. \A i \in 1..(n + 1) : text[i] =
              IF i > n THEN <<>>
              ELSE IF read[i] = Malformed THEN Malformed
              ELSE IF text[i + read[i].units] = Malformed THEN Malformed
              ELSE Utf8[read[i].cp] \o text[i + read[i].units]
            BY <1>7, <2>1
      <2>4. QED
            BY <2>1, <2>2, <2>3, Zenon DEF Rewritten
<1>9. QED
      BY <1>7, <1>8 DEF read

LEMMA Utf8Rewritten ==
  ASSUME NEW s \in Seq(Bytes)
  PROVE  \E text : /\ Rewritten(s, [i \in 1..Len(s) |-> NextUtf8(s, i)], Wide, text)
                   /\ Utf8ToWide(s) = text[1]
<1> DEFINE read == [i \in 1..Len(s) |-> NextUtf8(s, i)]
           F(h) == [i \in 1..(Len(s) + 1) |->
                      IF i > Len(s) THEN <<>>
                      ELSE LET p == NextUtf8(s, i) IN
                           IF p = Malformed THEN Malformed
                           ELSE LET rest == h[i + p.units] IN
                                IF rest = Malformed THEN Malformed ELSE AsWide(p.cp) \o rest]
           G(h) == [i \in 1..(Len(s) + 1) |->
                      IF i > Len(s) THEN <<>>
                      ELSE IF read[i] = Malformed THEN Malformed
                      ELSE IF h[i + read[i].units] = Malformed THEN Malformed
                      ELSE Wide[read[i].cp] \o h[i + read[i].units]]
<1>1. Utf8ToWide(s) = (CHOOSE h : h = F(h))[1]
      BY DEF Utf8ToWide
<1>2. s \in Seq(Nat) /\ Len(s) \in Nat
      <2>1. Bytes \subseteq Nat
            BY DEF Bytes
      <2>2. s \in Seq(Nat)
            BY <2>1, SeqMonotonic
      <2>3. QED
            BY <2>2, LenProperties
<1>3. ReadsUnits(s, Utf8, read)
      BY Utf8Reads
<1>4. ASSUME NEW i \in 1..Len(s), NextUtf8(s, i) # Malformed
      PROVE  Wide[NextUtf8(s, i).cp] = AsWide(NextUtf8(s, i).cp)
      <2>1. read[i] = NextUtf8(s, i)
            OBVIOUS
      <2>2. PICK cp \in CodePoints : read[i] = Point(cp, Len(Utf8[cp]))
            BY <1>3, <1>4, <2>1 DEF ReadsUnits
      <2>3. NextUtf8(s, i).cp = cp
            BY <2>1, <2>2 DEF Point
      <2>4. QED
            BY <2>3 DEF Wide
<1>5. ASSUME NEW h PROVE F(h) = G(h)
      <2>1. ASSUME NEW i \in 1..(Len(s) + 1)
            PROVE  F(h)[i] = G(h)[i]
            <3>1. CASE i > Len(s)
                  BY <3>1
            <3>2. CASE ~(i > Len(s))
                  <4>1. i \in 1..Len(s)
                        BY <1>2, <3>2
                  <4>2. read[i] = NextUtf8(s, i)
                        BY <4>1
                  <4>3. CASE NextUtf8(s, i) = Malformed
                        BY <3>2, <4>2, <4>3
                  <4>4. CASE NextUtf8(s, i) # Malformed
                        BY <1>4, <3>2, <4>1, <4>2, <4>4
                  <4>5. QED
                        BY <4>3, <4>4
            <3>3. QED
                  BY <3>1, <3>2
      <2>2. F(h) = [i \in 1..(Len(s) + 1) |-> F(h)[i]] /\ G(h) = [i \in 1..(Len(s) + 1) |-> G(h)[i]]
            OBVIOUS
      <2> HIDE DEF F, G
      <2>3. QED
            BY <2>1, <2>2, Zenon
<1>6. \E g : g = G(g)
      <2> HIDE DEF read
      <2>1. \E g : Recursive(s, read, Wide, g)
            BY <1>2, <1>3, Utf8IsSpelling, WideIsSpelling, RewritingEnds
      <2>2. QED
            BY <2>1 DEF Recursive
<1>7. PICK text : text = G(text) /\ Utf8ToWide(s) = text[1]
      <2> HIDE DEF F, G
      <2>1. \E h : h = F(h)
            BY <1>5, <1>6
      <2>2. PICK h : h = F(h) /\ Utf8ToWide(s) = h[1]
            BY <1>1, <2>1
      <2>3. QED
            BY <1>5, <2>2
<1> HIDE DEF read
<1>8. Rewritten(s, read, Wide, text)
      <2>1. PICK n \in Nat : n = Len(s)
            BY <1>2
      <2>2. n + 1 \in 1..(n + 1) /\ n + 1 > n /\ \A i \in 1..n : i \in 1..(n + 1) /\ ~(i > n)
            OBVIOUS
      <2>3. \A i \in 1..(n + 1) : text[i] =
              IF i > n THEN <<>>
              ELSE IF read[i] = Malformed THEN Malformed
              ELSE IF text[i + read[i].units] = Malformed THEN Malformed
              ELSE Wide[read[i].cp] \o text[i + read[i].units]
            BY <1>7, <2>1
      <2>4. QED
            BY <2>1, <2>2, <2>3, Zenon DEF Rewritten
<1>9. QED
      BY <1>7, <1>8 DEF read

\* A text is of the units its spellings are of.
LEMMA SpelledInUnits ==
  ASSUME NEW spelling, Spelling(spelling), NEW Units, Units \subseteq Nat,
         \A cp \in CodePoints : spelling[cp] \in Seq(Units),
         NEW cps \in Seq(CodePoints)
  PROVE  Spelled(spelling, cps) \in Seq(Units)
<1>1. PICK n \in Nat : n = Len(cps)
      BY LenProperties
<1>2. PICK w \in [1..(n + 1) -> Seq(Nat)] :
        /\ w[n + 1] = <<>>
        /\ \A k \in 1..n : w[k] = spelling[cps[k]] \o w[k + 1]
        /\ Spelled(spelling, cps) = w[1]
      BY <1>1, SpelledFromRight
<1> DEFINE T == {m \in Nat : \A k \in 1..(n + 1) : n + 1 - k <= m => w[k] \in Seq(Units)}
<1>3. 0 \in T
      <2>1. <<>> \in Seq(Units)
            BY EmptySeq
      <2>2. \A k \in 1..(n + 1) : n + 1 - k <= 0 => k = n + 1
            OBVIOUS
      <2>3. QED
            BY <1>2, <2>1, <2>2
<1>4. ASSUME NEW m \in Nat, m \in T PROVE m + 1 \in T
      <2>1. SUFFICES ASSUME NEW k \in 1..(n + 1), n + 1 - k <= m + 1
                     PROVE  w[k] \in Seq(Units)
            OBVIOUS
      <2>2. CASE k = n + 1
            BY <1>2, <2>2, EmptySeq
      <2>3. CASE k # n + 1
            <3>1. k \in 1..n /\ k + 1 \in 1..(n + 1) /\ n + 1 - (k + 1) <= m
                  BY <2>1, <2>3
            <3>2. w[k + 1] \in Seq(Units)
                  BY <1>4, <3>1
            <3>3. cps[k] \in CodePoints
                  BY <1>1, <3>1, ElementOfSeq
            <3>4. spelling[cps[k]] \in Seq(Units)
                  BY <3>3
            <3>5. spelling[cps[k]] \o w[k + 1] \in Seq(Units)
                  BY <3>2, <3>4, ConcatProperties
            <3>6. QED
                  BY <1>2, <3>1, <3>5
      <2>4. QED
            BY <2>2, <2>3
<1>5. n \in T
      <2> HIDE DEF T
      <2>1. QED
            BY <1>3, <1>4, AllNaturals
<1>6. 1 \in 1..(n + 1) /\ n + 1 - 1 <= n
      OBVIOUS
<1>7. QED
      BY <1>2, <1>5, <1>6

LEMMA WideInUnits == \A cp \in CodePoints : Wide[cp] \in Seq(WideUnits)
<1>1. SUFFICES ASSUME NEW cp \in Nat, cp \in CodePoints PROVE AsWide(cp) \in Seq(WideUnits)
      BY DEF Wide, CodePoints
<1>2. cp <= 1114111
      BY <1>1, CodePointsLie
<1>3. WideUnits = {n \in Nat : n < IF WideBits = 32 THEN 4294967296 ELSE 65536}
      <2>1. 2^16 = 65536 /\ 2^32 = 4294967296
            BY SMT
      <2>2. 2^WideBits = IF WideBits = 32 THEN 4294967296 ELSE 65536
            <3>1. CASE WideBits = 16
                  BY <2>1, <3>1, SMT
            <3>2. CASE WideBits = 32
                  BY <2>1, <3>2, SMT
            <3>3. QED
                  BY <3>1, <3>2, WideBitsAssumption
      <2>3. QED
            BY <2>2, SMT DEF WideUnits
<1>4. CASE WideBits = 32 \/ cp < 65536
      <2>1. AsWide(cp) = <<cp>>
            BY <1>4, SMT DEF AsWide
      <2>2. cp \in WideUnits
            BY <1>2, <1>3, <1>4, SMT
      <2>3. QED
            BY <2>1, <2>2
<1>5. CASE ~(WideBits = 32 \/ cp < 65536)
      <2>1. PICK q \in Nat, r \in Nat :
              /\ q = (cp - 65536) \div 1024 /\ r = (cp - 65536) % 1024
              /\ q <= 1023 /\ r <= 1023
            BY <1>2, <1>5, PairSpells DEF Halves
      <2>2. PICK h \in Nat, l \in Nat : h = 55296 + q /\ l = 56320 + r
            OBVIOUS
      <2>3. AsWide(cp) = <<h, l>>
            BY <1>5, <2>1, <2>2, SMT DEF AsWide
      <2>4. h \in WideUnits /\ l \in WideUnits
            BY <1>3, <1>5, <2>1, <2>2, SMT
      <2>5. <<h, l>> \in Seq(WideUnits)
            BY <2>4
      <2>6. QED
            BY <2>3, <2>5
<1>6. QED
      BY <1>4, <1>5

LEMMA Utf8InBytes == \A cp \in CodePoints : Utf8[cp] \in Seq(Bytes)
<1>1. SUFFICES ASSUME NEW cp \in Nat, cp \in CodePoints PROVE AsUtf8(cp) \in Seq(Bytes)
      BY DEF Utf8, CodePoints
<1>2. cp <= 1114111
      BY <1>1, CodePointsLie
<1>3. PICK a \in Nat, b \in Nat, c \in Nat, d \in Nat : Sixes(cp, a, b, c, d)
      BY SixesExist
<1>4. /\ b < 64 /\ c < 64 /\ d < 64 /\ a <= 4
      /\ (cp < 2048 => c < 32) /\ (cp < 65536 => b < 16)
      BY <1>2, <1>3, SMT DEF Sixes
<1>5. PICK e \in Nat, f \in Nat, g \in Nat, x \in Nat, y \in Nat, z \in Nat :
        /\ e = 192 + c /\ f = 224 + b /\ g = 240 + a
        /\ x = 128 + b /\ y = 128 + c /\ z = 128 + d
      OBVIOUS
<1>6. /\ (cp < 128 => cp \in Bytes) /\ (cp < 2048 => e \in Bytes) /\ (cp < 65536 => f \in Bytes)
      /\ g \in Bytes /\ x \in Bytes /\ y \in Bytes /\ z \in Bytes
      BY <1>4, <1>5, SMT DEF Bytes
<1>7. CASE cp < 128
      <2>1. AsUtf8(cp) = <<cp>>
            BY <1>3, <1>7, Utf8Written, SMT
      <2>2. QED
            BY <1>6, <1>7, <2>1
<1>8. CASE cp >= 128 /\ cp < 2048
      <2>1. AsUtf8(cp) = <<e, z>>
            BY <1>3, <1>5, <1>8, Utf8Written, SMT
      <2>2. <<e, z>> \in Seq(Bytes)
            BY <1>6, <1>8
      <2>3. QED
            BY <2>1, <2>2
<1>9. CASE cp >= 2048 /\ cp < 65536
      <2>1. AsUtf8(cp) = <<f, y, z>>
            BY <1>3, <1>5, <1>9, Utf8Written, SMT
      <2>2. f \in Bytes
            BY <1>6, <1>9, SMT
      <2>3. <<f, y, z>> \in Seq(Bytes)
            BY <1>6, <2>2
      <2>4. QED
            BY <2>1, <2>3
<1>10. CASE cp >= 65536
      <2>1. AsUtf8(cp) = <<g, x, y, z>>
            BY <1>3, <1>5, <1>10, Utf8Written, SMT
      <2>2. <<g, x, y, z>> \in Seq(Bytes)
            BY <1>6
      <2>3. QED
            BY <2>1, <2>2
<1>11. QED
      BY <1>7, <1>8, <1>9, <1>10, SMT

\* convert() of wide units to UTF-8, of any length: the UTF-8 of the code points
\* they spell, and an exception just if they spell none.
THEOREM WideToUtf8Converts ==
  ASSUME NEW s \in Seq(WideUnits)
  PROVE  /\ \A cps \in Seq(CodePoints) :
              s = Spelled(Wide, cps) => WideToUtf8(s) = Spelled(Utf8, cps)
         /\ WideToUtf8(s) = Malformed <=> ~\E cps \in Seq(CodePoints) : s = Spelled(Wide, cps)
<1>1. s \in Seq(Nat)
      <2>1. WideUnits \subseteq Nat
            BY DEF WideUnits
      <2>2. QED
            BY <2>1, SeqMonotonic
<1>2. PICK read : read = [i \in 1..Len(s) |-> NextWide(s, i)]
      OBVIOUS
<1>3. PICK text : Rewritten(s, read, Utf8, text) /\ WideToUtf8(s) = text[1]
      BY <1>2, WideRewritten
<1>4. ReadsUnits(s, Wide, read)
      BY <1>2, WideReads
<1>5. ASSUME NEW cps \in Seq(CodePoints), s = Spelled(Wide, cps)
      PROVE  WideToUtf8(s) = Spelled(Utf8, cps) /\ WideToUtf8(s) # Malformed
      <2>1. Holds(s, 1, s) /\ 1 + Len(s) = Len(s) + 1
            BY <1>1 DEF Holds
      <2>2. Holds(s, 1, Spelled(Wide, cps)) /\ 1 + Len(Spelled(Wide, cps)) = Len(s) + 1
            BY <1>5, <2>1
      <2>3. text[1] = Spelled(Utf8, cps)
            BY <1>1, <1>3, <1>4, <2>2, WideIsSpelling, Utf8IsSpelling, RewritesSpelled
      <2>4. Spelled(Utf8, cps) \in Seq(Nat)
            BY Utf8IsSpelling, SpelledIsText
      <2>5. QED
            BY <1>3, <2>3, <2>4, NotMalformed
<1>6. ASSUME WideToUtf8(s) # Malformed
      PROVE  \E cps \in Seq(CodePoints) : s = Spelled(Wide, cps)
      BY <1>1, <1>3, <1>4, <1>6, WideIsSpelling, RewritesNothingElse
<1>7. QED
      BY <1>5, <1>6

\* And of bytes: the wide units of the code points they spell in UTF-8, and an
\* exception just if they spell none.
THEOREM Utf8ToWideConverts ==
  ASSUME NEW s \in Seq(Bytes)
  PROVE  /\ \A cps \in Seq(CodePoints) :
              s = Spelled(Utf8, cps) => Utf8ToWide(s) = Spelled(Wide, cps)
         /\ Utf8ToWide(s) = Malformed <=> ~\E cps \in Seq(CodePoints) : s = Spelled(Utf8, cps)
<1>1. s \in Seq(Nat)
      <2>1. Bytes \subseteq Nat
            BY DEF Bytes
      <2>2. QED
            BY <2>1, SeqMonotonic
<1>2. PICK read : read = [i \in 1..Len(s) |-> NextUtf8(s, i)]
      OBVIOUS
<1>3. PICK text : Rewritten(s, read, Wide, text) /\ Utf8ToWide(s) = text[1]
      BY <1>2, Utf8Rewritten
<1>4. ReadsUnits(s, Utf8, read)
      BY <1>2, Utf8Reads
<1>5. ASSUME NEW cps \in Seq(CodePoints), s = Spelled(Utf8, cps)
      PROVE  Utf8ToWide(s) = Spelled(Wide, cps) /\ Utf8ToWide(s) # Malformed
      <2>1. Holds(s, 1, s) /\ 1 + Len(s) = Len(s) + 1
            BY <1>1 DEF Holds
      <2>2. Holds(s, 1, Spelled(Utf8, cps)) /\ 1 + Len(Spelled(Utf8, cps)) = Len(s) + 1
            BY <1>5, <2>1
      <2>3. text[1] = Spelled(Wide, cps)
            BY <1>1, <1>3, <1>4, <2>2, Utf8IsSpelling, WideIsSpelling, RewritesSpelled
      <2>4. Spelled(Wide, cps) \in Seq(Nat)
            BY WideIsSpelling, SpelledIsText
      <2>5. QED
            BY <1>3, <2>3, <2>4, NotMalformed
<1>6. ASSUME Utf8ToWide(s) # Malformed
      PROVE  \E cps \in Seq(CodePoints) : s = Spelled(Utf8, cps)
      BY <1>1, <1>3, <1>4, <1>6, Utf8IsSpelling, RewritesNothingElse
<1>7. QED
      BY <1>5, <1>6

\* Converted one way, a text that is not malformed comes back the other way.
THEOREM ConversionsInvert ==
  /\ \A s \in Seq(WideUnits) : WideToUtf8(s) # Malformed => Utf8ToWide(WideToUtf8(s)) = s
  /\ \A s \in Seq(Bytes) : Utf8ToWide(s) # Malformed => WideToUtf8(Utf8ToWide(s)) = s
<1>1. /\ WideUnits \subseteq Nat /\ Bytes \subseteq Nat
      BY DEF WideUnits, Bytes
<1>2. ASSUME NEW s \in Seq(WideUnits), WideToUtf8(s) # Malformed
      PROVE  Utf8ToWide(WideToUtf8(s)) = s
      <2>1. PICK cps \in Seq(CodePoints) : s = Spelled(Wide, cps)
            BY <1>2, WideToUtf8Converts
      <2>2. PICK t \in Seq(Bytes) : t = Spelled(Utf8, cps)
            BY <1>1, Utf8IsSpelling, Utf8InBytes, SpelledInUnits
      <2>3. WideToUtf8(s) = t
            BY <2>1, <2>2, WideToUtf8Converts
      <2>4. Utf8ToWide(t) = Spelled(Wide, cps)
            BY <2>2, Utf8ToWideConverts
      <2>5. QED
            BY <2>1, <2>3, <2>4
<1>3. ASSUME NEW s \in Seq(Bytes), Utf8ToWide(s) # Malformed
      PROVE  WideToUtf8(Utf8ToWide(s)) = s
      <2>1. PICK cps \in Seq(CodePoints) : s = Spelled(Utf8, cps)
            BY <1>3, Utf8ToWideConverts
      <2>2. PICK t \in Seq(WideUnits) : t = Spelled(Wide, cps)
            BY <1>1, WideIsSpelling, WideInUnits, SpelledInUnits
      <2>3. Utf8ToWide(s) = t
            BY <2>1, <2>2, Utf8ToWideConverts
      <2>4. WideToUtf8(t) = Spelled(Utf8, cps)
            BY <2>2, WideToUtf8Converts
      <2>5. QED
            BY <2>1, <2>3, <2>4
<1>4. QED
      BY <1>2, <1>3

-----------------------------------------------------------------------------
(* Numbers in decimal.                                                     *)

LEMMA TenthIsLess ==
  ASSUME NEW m \in Nat
  PROVE  /\ m \div 10 \in Nat /\ m % 10 \in Nat /\ m % 10 < 10 /\ m = (m \div 10) * 10 + (m % 10)
         /\ m >= 10 => m \div 10 < m
  BY SMT

\* What holds of a digit, and of a number if of its tenth, holds of all.
LEMMA ByTenths ==
  ASSUME NEW T,
         \A m \in Nat : m < 10 => m \in T,
         \A m \in Nat : m >= 10 /\ m \div 10 \in T => m \in T
  PROVE  \A m \in Nat : m \in T
<1> DEFINE Bad == {m \in Nat : m \notin T}
<1>1. ASSUME NEW m \in Bad, \A k \in Bad : ~(k < m) PROVE FALSE
      <2>1. m \in Nat /\ m \notin T
            OBVIOUS
      <2>2. m >= 10
            BY <2>1
      <2>3. m \div 10 \in Nat /\ m \div 10 < m
            BY <2>1, <2>2, TenthIsLess
      <2>4. m \div 10 \in T
            BY <1>1, <2>3
      <2>5. QED
            BY <2>1, <2>2, <2>4
<1>2. Bad = {}
      <2>1. Bad \subseteq Nat
            OBVIOUS
      <2> HIDE DEF Bad
      <2>2. QED
            BY <1>1, <2>1, LeastOne
<1>3. QED
      BY <1>2

\* The texts of the numbers up to n.
DecimalTexts(text, n) ==
  /\ text \in [0..n -> Seq(Nat)]
  /\ \A m \in 0..n :
       text[m] = IF m < 10 THEN <<48 + m>> ELSE Append(text[m \div 10], 48 + (m % 10))

LEMMA DecimalIs ==
  ASSUME NEW n \in Nat
  PROVE  \E text : DecimalTexts(text, n) /\ Decimal(n) = text[n]
<1> DEFINE D == 0..n
           V == Seq(Nat)
           top == n + 1
           rank == [m \in D |-> m]
           stop == [m \in D |-> m < 10]
           next == [m \in D |-> m \div 10]
           base == [m \in D |-> <<48 + m>>]
           step == [m \in D |-> [v \in V |-> Append(v, 48 + (m % 10))]]
           F(h) == [m \in 0..n |-> IF m < 10 THEN <<48 + m>>
                                   ELSE Append(h[m \div 10], 48 + (m % 10))]
<1>1. ASSUME NEW m \in D, ~stop[m]
      PROVE  next[m] = m \div 10 /\ next[m] \in D /\ rank[next[m]] < rank[m]
      <2>1. m \in Nat /\ m <= n /\ m >= 10
            <3>1. stop[m] <=> m < 10
                  OBVIOUS
            <3>2. ~(m < 10)
                  BY <1>1, <3>1
            <3>3. m \in Nat /\ m <= n
                  OBVIOUS
            <3>4. QED
                  BY <3>2, <3>3
      <2>2. m \div 10 \in Nat /\ m \div 10 < m
            BY <2>1, TenthIsLess
      <2>3. m \div 10 \in D
            BY <2>1, <2>2
      <2>4. QED
            BY <2>2, <2>3
<1>2. ASSUME NEW m \in D
      PROVE  /\ base[m] = <<48 + m>> /\ base[m] \in V
             /\ step[m] \in [V -> V] /\ \A v \in V : step[m][v] = Append(v, 48 + (m % 10))
      <2>1. PICK c \in Nat : c = 48 + (m % 10)
            BY TenthIsLess
      <2>2. PICK e \in Nat : e = 48 + m
            OBVIOUS
      <2>3. step[m] = [v \in V |-> Append(v, c)] /\ base[m] = <<e>>
            BY <2>1, <2>2
      <2>4. QED
            BY <2>1, <2>2, <2>3
<1>3. Ranked(D, V, top, rank, stop, next, base, step)
      <2>1. top \in Nat /\ rank \in [D -> Nat] /\ \A m \in D : rank[m] < top
            OBVIOUS
      <2>2. stop \in [D -> BOOLEAN]
            OBVIOUS
      <2> HIDE DEF D, V, top, rank, stop, next, base, step
      <2>3. QED
            BY <1>1, <1>2, <2>1, <2>2 DEF Ranked
<1>4. PICK g \in [D -> V] : g = [m \in D |-> IF stop[m] THEN base[m] ELSE step[m][g[next[m]]]]
      <2> HIDE DEF D, V, top, rank, stop, next, base, step
      <2>1. QED
            BY <1>3, RecursionEnds
<1>5. ASSUME NEW m \in D
      PROVE  g[m] = IF m < 10 THEN <<48 + m>> ELSE Append(g[m \div 10], 48 + (m % 10))
      <2>1. g[m] = IF stop[m] THEN base[m] ELSE step[m][g[next[m]]]
            <3> HIDE DEF D, V, top, rank, stop, next, base, step
            <3>1. QED
                  BY <1>4
      <2>2. stop[m] <=> m < 10
            OBVIOUS
      <2>3. ~stop[m] => g[next[m]] \in V
            <3> HIDE DEF D, V, top, rank, stop, next, base, step
            <3>1. QED
                  BY <1>1
      <2> HIDE DEF D, V, top, rank, stop, next, base, step
      <2>4. QED
            BY <1>1, <1>2, <2>1, <2>2, <2>3
<1>6. g = F(g)
      <2>1. g = [m \in D |-> g[m]]
            OBVIOUS
      <2>2. QED
            BY <1>5, <2>1
<1>7. Decimal(n) = (CHOOSE h : h = F(h))[n]
      BY DEF Decimal
<1>8. PICK h : h = F(h) /\ Decimal(n) = h[n]
      <2> HIDE DEF F
      <2>1. QED
            BY <1>6, <1>7
<1>9. \A m \in 0..n : h[m] = IF m < 10 THEN <<48 + m>> ELSE Append(h[m \div 10], 48 + (m % 10))
      BY <1>8
<1> DEFINE T == {m \in Nat : m <= n => h[m] \in Seq(Nat)}
<1>10. ASSUME NEW m \in Nat, m < 10 PROVE m \in T
      <2>1. m <= n => h[m] = <<48 + m>>
            <3>1. m <= n => m \in 0..n
                  OBVIOUS
            <3>2. QED
                  BY <1>9, <1>10, <3>1
      <2>2. <<48 + m>> \in Seq(Nat)
            OBVIOUS
      <2>3. QED
            BY <2>1, <2>2
<1>11. ASSUME NEW m \in Nat, m >= 10, m \div 10 \in T PROVE m \in T
      <2>1. SUFFICES ASSUME m <= n PROVE h[m] \in Seq(Nat)
            OBVIOUS
      <2>2. PICK x \in Nat, c \in Nat : x = m \div 10 /\ c = 48 + (m % 10) /\ x < m
            BY <1>11, TenthIsLess
      <2>3. h[m] = Append(h[x], c)
            <3>1. m \in 0..n /\ ~(m < 10)
                  BY <1>11, <2>1
            <3>2. QED
                  BY <1>9, <2>2, <3>1
      <2>4. h[x] \in Seq(Nat)
            BY <1>11, <2>1, <2>2
      <2>5. QED
            BY <2>3, <2>4
<1>12. \A m \in Nat : m \in T
      <2> HIDE DEF T
      <2>1. QED
            BY <1>10, <1>11, ByTenths
<1>13. h \in [0..n -> Seq(Nat)]
      <2>1. h = [m \in 0..n |-> h[m]]
            BY <1>8
      <2>2. \A m \in 0..n : h[m] \in Seq(Nat)
            BY <1>12
      <2>3. QED
            BY <2>1, <2>2
<1>14. QED
      BY <1>8, <1>9, <1>13 DEF DecimalTexts

\* The text of a number is digits, and one at least.
LEMMA DecimalDigits ==
  ASSUME NEW n \in Nat, NEW text, DecimalTexts(text, n)
  PROVE  \A m \in 0..n : text[m] \in Seq(Nat) /\ Len(text[m]) >= 1
<1> DEFINE T == {m \in Nat : m <= n => Len(text[m]) >= 1}
<1>1. text \in [0..n -> Seq(Nat)]
      BY DEF DecimalTexts
<1>2. ASSUME NEW m \in Nat, m < 10 PROVE m \in T
      <2>1. m <= n => text[m] = <<48 + m>>
            <3>1. m <= n => m \in 0..n
                  OBVIOUS
            <3>2. QED
                  BY <1>2, <3>1 DEF DecimalTexts
      <2>2. Len(<<48 + m>>) = 1
            OBVIOUS
      <2>3. QED
            BY <2>1, <2>2, SMTT(30)
<1>3. ASSUME NEW m \in Nat, m >= 10, m \div 10 \in T PROVE m \in T
      <2>1. SUFFICES ASSUME m <= n PROVE Len(text[m]) >= 1
            OBVIOUS
      <2>2. PICK x \in Nat, c \in Nat : x = m \div 10 /\ c = 48 + (m % 10) /\ x < m
            BY <1>3, TenthIsLess
      <2>3. text[m] = Append(text[x], c)
            <3>1. m \in 0..n /\ ~(m < 10)
                  BY <1>3, <2>1
            <3>2. QED
                  BY <2>2, <3>1 DEF DecimalTexts
      <2>4. PICK t \in Seq(Nat) : t = text[x]
            BY <1>1, <2>1, <2>2
      <2>5. Len(Append(t, c)) = Len(t) + 1 /\ Len(t) \in Nat
            OBVIOUS
      <2>6. QED
            BY <2>3, <2>4, <2>5
<1>4. \A m \in Nat : m \in T
      <2> HIDE DEF T
      <2>1. QED
            BY <1>2, <1>3, ByTenths
<1>5. QED
      BY <1>1, <1>4

\* Are there digits only, from first to i?
DigitsTo(s, first, i) == \A j \in first..i : s[j] \in Digits

\* The number that the digits from first to each place are.
Reckons(s, first, upTo) ==
  /\ upTo \in [(first - 1)..Len(s) -> Int]
  /\ upTo[first - 1] = 0
  /\ \A i \in first..Len(s) :
       upTo[i] = IF DigitsTo(s, first, i) THEN (upTo[i - 1] * 10) + (s[i] - 48) ELSE upTo[i - 1]

LEMMA NumberRead ==
  ASSUME NEW s \in Seq(Nat), NEW first \in Nat, first = 1 \/ first = 2,
         first = 2 <=> Len(s) > 0 /\ s[1] \in {Plus, Minus}, first <= Len(s), s[first] \in Digits
  PROVE  \E upTo : /\ Reckons(s, first, upTo)
                   /\ Numeral(s) = IF s[1] = Minus THEN -upTo[Len(s)] ELSE upTo[Len(s)]
<1>1. PICK n \in Nat : n = Len(s)
      OBVIOUS
<1>2. first = IF Len(s) > 0 /\ s[1] \in {Plus, Minus} THEN 2 ELSE 1
      BY Zenon
<1> DEFINE D == (first - 1)..n
           V == Int
           top == n + 1
           rank == [i \in D |-> i]
           stop == [i \in D |-> i < first]
           next == [i \in D |-> i - 1]
           base == [i \in D |-> 0]
           step == [i \in D |-> [v \in V |-> IF \A j \in first..i : s[j] \in Digits
                                             THEN (v * 10) + (s[i] - 48) ELSE v]]
           F(h) == [i \in (first - 1)..Len(s) |->
                      IF i < first THEN 0
                      ELSE IF \A j \in first..i : s[j] \in Digits
                           THEN (h[i - 1] * 10) + (s[i] - 48) ELSE h[i - 1]]
<1>3. ASSUME NEW i \in D, ~stop[i]
      PROVE  /\ i \in first..n /\ ~(i < first) /\ next[i] = i - 1 /\ next[i] \in D
             /\ rank[next[i]] < rank[i]
             /\ step[i] \in [V -> V]
             /\ \A v \in V : step[i][v] = IF \A j \in first..i : s[j] \in Digits
                                          THEN (v * 10) + (s[i] - 48) ELSE v
      <2>1. i \in first..n /\ ~(i < first)
            <3>1. stop[i] <=> i < first
                  OBVIOUS
            <3>2. ~(i < first)
                  BY <1>3, <3>1
            <3>3. QED
                  BY <3>2
      <2>2. next[i] = i - 1 /\ i - 1 \in D /\ rank[i - 1] = i - 1 /\ rank[i] = i
            BY <2>1
      <2>3. i - 1 < i
            BY <2>1
      <2>4. PICK c \in Nat : c = s[i]
            BY <1>1, <2>1, ElementOfSeq
      <2>5. PICK d \in BOOLEAN : d = (\A j \in first..i : s[j] \in Digits)
            OBVIOUS
      <2>6. step[i] = [v \in V |-> IF d THEN (v * 10) + (c - 48) ELSE v]
            BY <2>4, <2>5
      <2>7. step[i] \in [V -> V]
            <3> HIDE DEF step
            <3>1. QED
                  BY <2>6
      <2>8. \A v \in V : step[i][v] = IF \A j \in first..i : s[j] \in Digits
                                      THEN (v * 10) + (s[i] - 48) ELSE v
            OBVIOUS
      <2> HIDE DEF D, V, rank, stop, next, step
      <2>9. QED
            BY <2>1, <2>2, <2>3, <2>7, <2>8
<1>4. Ranked(D, V, top, rank, stop, next, base, step)
      <2>1. top \in Nat /\ rank \in [D -> Nat] /\ \A i \in D : rank[i] < top
            OBVIOUS
      <2>2. stop \in [D -> BOOLEAN] /\ \A i \in D : base[i] \in V
            OBVIOUS
      <2> HIDE DEF D, V, top, rank, stop, next, base, step
      <2>3. QED
            BY <1>3, <2>1, <2>2 DEF Ranked
<1>5. PICK g \in [D -> V] : g = [i \in D |-> IF stop[i] THEN base[i] ELSE step[i][g[next[i]]]]
      <2> HIDE DEF D, V, top, rank, stop, next, base, step
      <2>1. QED
            BY <1>4, RecursionEnds
<1>6. ASSUME NEW i \in D
      PROVE  g[i] = IF i < first THEN 0
                    ELSE IF \A j \in first..i : s[j] \in Digits
                         THEN (g[i - 1] * 10) + (s[i] - 48) ELSE g[i - 1]
      <2>1. g[i] = IF stop[i] THEN base[i] ELSE step[i][g[next[i]]]
            <3> HIDE DEF D, V, top, rank, stop, next, base, step
            <3>1. QED
                  BY <1>5
      <2>2. (stop[i] <=> i < first) /\ base[i] = 0
            OBVIOUS
      <2>3. ~stop[i] => g[next[i]] \in V
            <3> HIDE DEF D, V, top, rank, stop, next, base, step
            <3>1. QED
                  BY <1>3
      <2> HIDE DEF D, V, top, rank, stop, next, base, step
      <2>4. CASE stop[i]
            BY <2>1, <2>2, <2>4
      <2>5. CASE ~stop[i]
            <3>1. /\ next[i] = i - 1 /\ ~(i < first)
                  /\ \A v \in V : step[i][v] = IF \A j \in first..i : s[j] \in Digits
                                               THEN (v * 10) + (s[i] - 48) ELSE v
                  BY <1>3, <2>2, <2>5, Zenon
            <3>2. g[i] = step[i][g[i - 1]] /\ g[i - 1] \in V
                  BY <2>1, <2>3, <2>5, <3>1, Zenon
            <3>3. step[i][g[i - 1]] = IF \A j \in first..i : s[j] \in Digits
                                      THEN (g[i - 1] * 10) + (s[i] - 48) ELSE g[i - 1]
                  BY <3>1, <3>2, Zenon
            <3>4. QED
                  BY <3>1, <3>2, <3>3, Zenon
      <2>6. QED
            BY <2>4, <2>5
<1>7. g = F(g)
      <2>1. g = [i \in D |-> g[i]]
            OBVIOUS
      <2>2. QED
            BY <1>1, <1>6, <2>1
<1>8. Numeral(s) = IF s[1] = Minus THEN -(CHOOSE h : h = F(h))[Len(s)]
                   ELSE (CHOOSE h : h = F(h))[Len(s)]
      BY <1>1, <1>2 DEF Numeral
<1>9. PICK h : /\ h = F(h)
               /\ Numeral(s) = IF s[1] = Minus THEN -h[Len(s)] ELSE h[Len(s)]
      <2> HIDE DEF F
      <2>1. QED
            BY <1>7, <1>8
<1>10. \A i \in (first - 1)..n :
         h[i] = IF i < first THEN 0
                ELSE IF DigitsTo(s, first, i) THEN (h[i - 1] * 10) + (s[i] - 48) ELSE h[i - 1]
      BY <1>1, <1>9 DEF DigitsTo
<1> DEFINE T == {m \in Nat : first - 1 + m <= n => h[first - 1 + m] \in Int}
<1>11. 0 \in T
      <2>1. first - 1 + 0 = first - 1 /\ first - 1 < first
            OBVIOUS
      <2>2. first - 1 \in (first - 1)..n => h[first - 1] = 0
            BY <1>10, <2>1
      <2>3. first - 1 <= n => first - 1 \in (first - 1)..n
            OBVIOUS
      <2>4. QED
            BY <2>1, <2>2, <2>3
<1>12. ASSUME NEW m \in Nat, m \in T PROVE m + 1 \in T
      <2>1. SUFFICES ASSUME first - 1 + (m + 1) <= n PROVE h[first - 1 + (m + 1)] \in Int
            OBVIOUS
      <2>2. PICK i \in Nat : i = first - 1 + (m + 1) /\ i \in (first - 1)..n /\ ~(i < first)
            BY <2>1
      <2>3. i - 1 = first - 1 + m /\ first - 1 + m <= n /\ i \in 1..n
            BY <2>2
      <2>4. PICK a \in Int : a = h[i - 1]
            BY <1>12, <2>3
      <2>5. PICK c \in Nat : c = s[i]
            BY <1>1, <2>3, ElementOfSeq
      <2>6. h[i] = IF DigitsTo(s, first, i) THEN (h[i - 1] * 10) + (s[i] - 48) ELSE h[i - 1]
            BY <1>10, <2>2
      <2>7. h[i] \in Int
            <3>1. (a * 10) + (c - 48) \in Int
                  OBVIOUS
            <3>2. h[i] = (a * 10) + (c - 48) \/ h[i] = a
                  BY <2>4, <2>5, <2>6, Zenon
            <3>3. QED
                  BY <3>1, <3>2
      <2>8. QED
            BY <2>2, <2>7
<1>13. \A m \in Nat : m \in T
      <2> HIDE DEF T
      <2>1. QED
            BY <1>11, <1>12, AllNaturals
<1>14. ASSUME NEW i \in (first - 1)..n PROVE h[i] \in Int
      <2>1. i - (first - 1) \in Nat /\ first - 1 + (i - (first - 1)) = i /\ i <= n
            OBVIOUS
      <2>2. i - (first - 1) \in T
            BY <1>13, <2>1
      <2>3. QED
            BY <2>1, <2>2
<1>15. h \in [(first - 1)..Len(s) -> Int]
      <2>1. h = [i \in (first - 1)..n |-> h[i]]
            BY <1>1, <1>9
      <2>2. QED
            BY <1>1, <1>14, <2>1
<1>16. h[first - 1] = 0 /\ \A i \in first..n : i \in (first - 1)..n /\ ~(i < first)
      <2>1. first - 1 \in (first - 1)..n /\ first - 1 < first
            BY <1>1
      <2>2. h[first - 1] = 0
            BY <1>10, <2>1
      <2>3. QED
            BY <2>2
<1>17. Reckons(s, first, h)
      BY <1>1, <1>10, <1>15, <1>16 DEF Reckons
<1>18. QED
      BY <1>9, <1>17

LEMMA DigitIsDigit ==
  ASSUME NEW m \in Nat
  PROVE  m < 10 <=> 48 + m \in Digits
  BY SMT DEF Digits

\* One digit more.
LEMMA OneMore ==
  ASSUME NEW s \in Seq(Nat), NEW first \in Nat, first >= 1, NEW upTo, Reckons(s, first, upTo),
         NEW i \in Nat, i >= first, NEW c \in Nat, Holds(s, i, <<48 + c>>), c < 10,
         DigitsTo(s, first, i - 1), NEW v \in Int, upTo[i - 1] = v
  PROVE  upTo[i] = v * 10 + c /\ DigitsTo(s, first, i) /\ i <= Len(s)
<1>1. PICK n \in Nat : n = Len(s)
      OBVIOUS
<1>2. i <= n /\ s[i] = 48 + c
      <2>1. Len(<<48 + c>>) = 1 /\ 1 \in 1..1 /\ i + 1 - 1 = i /\ <<48 + c>>[1] = 48 + c
            OBVIOUS
      <2>2. i + 1 <= n + 1 /\ s[i + 1 - 1] = 48 + c
            BY <1>1, <2>1 DEF Holds
      <2>3. QED
            BY <2>1, <2>2
<1>3. s[i] \in Digits
      BY <1>2, DigitIsDigit
<1>4. DigitsTo(s, first, i)
      <2>1. \A j \in first..i : j \in first..(i - 1) \/ j = i
            OBVIOUS
      <2>2. QED
            BY <1>3, <2>1 DEF DigitsTo
<1>5. upTo[i] = (upTo[i - 1] * 10) + (s[i] - 48)
      <2>1. i \in first..Len(s)
            BY <1>1, <1>2
      <2>2. QED
            BY <1>4, <2>1 DEF Reckons
<1>6. upTo[i] = v * 10 + (48 + c - 48)
      BY <1>2, <1>5
<1>7. QED
      BY <1>1, <1>2, <1>4, <1>6

\* The digits of m.
LEMMA DigitsAdd ==
  ASSUME NEW s \in Seq(Nat), NEW first \in Nat, first >= 1, NEW upTo, Reckons(s, first, upTo),
         NEW n \in Nat, NEW text, DecimalTexts(text, n),
         NEW i \in Nat, i >= first, DigitsTo(s, first, i - 1), upTo[i - 1] = 0
  PROVE  \A m \in 0..n : Holds(s, i, text[m]) =>
           upTo[i + Len(text[m]) - 1] = m /\ DigitsTo(s, first, i + Len(text[m]) - 1)
<1> DEFINE Tells(m) == /\ upTo[i + Len(text[m]) - 1] = m
                       /\ DigitsTo(s, first, i + Len(text[m]) - 1)
           T == {m \in Nat : m <= n /\ Holds(s, i, text[m]) => Tells(m)}
<1>1. ASSUME NEW m \in Nat, m < 10 PROVE m \in T
      <2>1. SUFFICES ASSUME m <= n, Holds(s, i, text[m]) PROVE Tells(m)
            OBVIOUS
      <2>2. text[m] = <<48 + m>>
            <3>1. m \in 0..n
                  BY <2>1
            <3>2. QED
                  BY <1>1, <3>1 DEF DecimalTexts
      <2>3. Holds(s, i, <<48 + m>>) /\ 0 \in Int
            BY <2>1, <2>2
      <2>4. upTo[i] = 0 * 10 + m /\ DigitsTo(s, first, i)
            BY <1>1, <2>3, OneMore
      <2>5. i + Len(text[m]) - 1 = i
            BY <2>2
      <2>6. QED
            BY <2>4, <2>5, SMTT(30)
<1>2. ASSUME NEW m \in Nat, m >= 10, m \div 10 \in T PROVE m \in T
      <2>1. SUFFICES ASSUME m <= n, Holds(s, i, text[m]) PROVE Tells(m)
            OBVIOUS
      <2>2. PICK x \in Nat, c \in Nat :
              x = m \div 10 /\ c = m % 10 /\ c < 10 /\ m = x * 10 + c /\ x < m
            BY <1>2, TenthIsLess
      <2>3. m \in 0..n /\ x \in 0..n /\ ~(m < 10)
            BY <1>2, <2>1, <2>2
      <2>4. PICK t \in Seq(Nat) : t = text[x]
            BY <2>3 DEF DecimalTexts
      <2>5. PICK d \in Nat : d = 48 + c
            OBVIOUS
      <2>6. text[m] = t \o <<d>>
            <3>1. text[m] = Append(t, d)
                  BY <2>2, <2>3, <2>4, <2>5 DEF DecimalTexts
            <3>2. Append(t, d) = t \o <<d>>
                  BY AppendIsConcat
            <3>3. QED
                  BY <3>1, <3>2
      <2>7. PICK k \in Nat : k = Len(t)
            OBVIOUS
      <2>8. Holds(s, i, t) /\ Holds(s, i + k, <<d>>)
            <3>1. <<d>> \in Seq(Nat)
                  OBVIOUS
            <3>2. Holds(s, i, t \o <<d>>)
                  BY <2>1, <2>6
            <3>3. QED
                  BY <2>7, <3>1, <3>2, HoldsBoth
      <2>9. k >= 1
            BY <2>3, <2>4, <2>7, DecimalDigits
      <2>10. upTo[i + k - 1] = x /\ DigitsTo(s, first, i + k - 1)
            <3>1. x <= n /\ Holds(s, i, text[x])
                  BY <2>3, <2>4, <2>8
            <3>2. Tells(x)
                  BY <1>2, <2>2, <3>1
            <3>3. QED
                  BY <2>4, <2>7, <3>2
      <2>11. upTo[i + k] = x * 10 + c /\ DigitsTo(s, first, i + k)
            <3>1. PICK j \in Nat : j = i + k
                  OBVIOUS
            <3>2. j >= first /\ Holds(s, j, <<48 + c>>) /\ upTo[j - 1] = x /\ DigitsTo(s, first, j - 1)
                  BY <2>5, <2>8, <2>10, <3>1
            <3>3. x \in Int
                  OBVIOUS
            <3>4. upTo[j] = x * 10 + c /\ DigitsTo(s, first, j)
                  BY <2>2, <3>2, <3>3, OneMore
            <3>5. QED
                  BY <3>1, <3>4
      <2>12. i + Len(text[m]) - 1 = i + k
            <3>1. Len(t \o <<d>>) = k + 1
                  BY <2>7
            <3>2. Len(text[m]) = k + 1
                  BY <2>6, <3>1
            <3>3. i + (k + 1) - 1 = i + k
                  OBVIOUS
            <3>4. QED
                  BY <3>2, <3>3
      <2>13. QED
            BY <2>2, <2>11, <2>12
<1>3. \A m \in Nat : m \in T
      <2> HIDE DEF T
      <2>1. QED
            BY <1>1, <1>2, ByTenths
<1>4. QED
      BY <1>3

\* Zeros before it.
LEMMA ZerosAdd ==
  ASSUME NEW s \in Seq(Nat), NEW first \in Nat, first >= 1, NEW upTo, Reckons(s, first, upTo),
         NEW k \in Nat, Holds(s, first, Zeros(k))
  PROVE  upTo[first + k - 1] = 0 /\ DigitsTo(s, first, first + k - 1)
<1> DEFINE T == {m \in Nat : m <= k => /\ upTo[first + m - 1] = 0
                                       /\ DigitsTo(s, first, first + m - 1)}
<1>1. 0 \in T
      <2>1. first + 0 - 1 = first - 1 /\ first..(first - 1) = {}
            OBVIOUS
      <2>2. QED
            BY <2>1 DEF Reckons, DigitsTo
<1>2. ASSUME NEW m \in Nat, m \in T PROVE m + 1 \in T
      <2>1. SUFFICES ASSUME m + 1 <= k
                     PROVE  /\ upTo[first + (m + 1) - 1] = 0
                            /\ DigitsTo(s, first, first + (m + 1) - 1)
            OBVIOUS
      <2>2. PICK i \in Nat : i = first + m
            OBVIOUS
      <2>3. i - 1 = first + m - 1 /\ i = first + (m + 1) - 1 /\ i >= first
            BY <2>2
      <2>4. upTo[i - 1] = 0 /\ DigitsTo(s, first, i - 1)
            BY <1>2, <2>1, <2>3
      <2>5. Holds(s, i, <<48 + 0>>)
            <3>1. Len(Zeros(k)) = k /\ m + 1 \in 1..k /\ Zeros(k)[m + 1] = 48
                  BY <2>1 DEF Zeros
            <3>2. first + k <= Len(s) + 1 /\ s[first + (m + 1) - 1] = 48
                  BY <3>1 DEF Holds
            <3>3. i + 1 <= Len(s) + 1
                  BY <2>1, <2>2, <3>2
            <3>4. /\ Len(<<48 + 0>>) = 1 /\ 1..1 = {1} /\ <<48 + 0>>[1] = 48
                  /\ i + 1 - 1 = first + (m + 1) - 1
                  BY <2>2
            <3>5. QED
                  BY <3>2, <3>3, <3>4 DEF Holds
      <2>6. upTo[i] = 0 * 10 + 0 /\ DigitsTo(s, first, i)
            <3>1. PICK z \in Nat : z = 0
                  OBVIOUS
            <3>2. z \in Int /\ z < 10 /\ Holds(s, i, <<48 + z>>) /\ upTo[i - 1] = z
                  BY <2>4, <2>5, <3>1
            <3>3. i >= first /\ DigitsTo(s, first, i - 1)
                  BY <2>3, <2>4
            <3>4. upTo[i] = z * 10 + z /\ DigitsTo(s, first, i)
                  BY <3>2, <3>3, OneMore
            <3>5. QED
                  BY <3>1, <3>4
      <2>7. QED
            BY <2>3, <2>6
<1>3. k \in T
      <2> HIDE DEF T
      <2>1. QED
            BY <1>1, <1>2, AllNaturals
<1>4. QED
      BY <1>3

\* Nothing after the last digit.
LEMMA RestAdds ==
  ASSUME NEW s \in Seq(Nat), NEW first \in Nat, first >= 1, NEW upTo, Reckons(s, first, upTo),
         NEW last \in Nat, last >= first, last <= Len(s),
         last = Len(s) \/ s[last + 1] \notin Digits
  PROVE  upTo[Len(s)] = upTo[last]
<1>1. PICK n \in Nat : n = Len(s)
      OBVIOUS
<1> DEFINE T == {m \in Nat : last + m <= n => upTo[last + m] = upTo[last]}
<1>2. 0 \in T
      OBVIOUS
<1>3. ASSUME NEW m \in Nat, m \in T PROVE m + 1 \in T
      <2>1. SUFFICES ASSUME last + (m + 1) <= n PROVE upTo[last + (m + 1)] = upTo[last]
            OBVIOUS
      <2>2. PICK i \in Nat : i = last + (m + 1)
            OBVIOUS
      <2>3. i - 1 = last + m /\ last + m <= n /\ i \in first..n /\ last # n /\ last + 1 \in first..i
            BY <1>1, <2>1, <2>2
      <2>4. ~DigitsTo(s, first, i)
            BY <1>1, <2>3 DEF DigitsTo
      <2>5. upTo[i] = upTo[i - 1]
            BY <1>1, <2>3, <2>4 DEF Reckons
      <2>6. QED
            BY <1>3, <2>2, <2>3, <2>5
<1>4. n - last \in T
      <2>1. n - last \in Nat
            BY <1>1
      <2> HIDE DEF T
      <2>2. QED
            BY <1>2, <1>3, <2>1, AllNaturals
<1>5. last + (n - last) = n
      OBVIOUS
<1>6. QED
      BY <1>1, <1>4, <1>5

\* And starts with a digit.
LEMMA FirstDigit ==
  ASSUME NEW n \in Nat
  PROVE  Decimal(n)[1] \in Digits
<1>1. PICK text : DecimalTexts(text, n) /\ Decimal(n) = text[n]
      BY DecimalIs
<1> DEFINE T == {m \in Nat : m <= n => text[m][1] \in Digits}
<1>2. ASSUME NEW m \in Nat, m < 10 PROVE m \in T
      <2>1. SUFFICES ASSUME m <= n PROVE text[m][1] \in Digits
            OBVIOUS
      <2>2. m \in 0..n
            BY <2>1
      <2>3. text[m] = <<48 + m>> /\ 48 + m \in Digits
            BY <1>1, <1>2, <2>2, DigitIsDigit DEF DecimalTexts
      <2>4. QED
            BY <2>3
<1>3. ASSUME NEW m \in Nat, m >= 10, m \div 10 \in T PROVE m \in T
      <2>1. SUFFICES ASSUME m <= n PROVE text[m][1] \in Digits
            OBVIOUS
      <2>2. PICK x \in Nat, c \in Nat : x = m \div 10 /\ c = 48 + (m % 10) /\ x < m
            BY <1>3, TenthIsLess
      <2>3. m \in 0..n /\ x \in 0..n /\ ~(m < 10)
            BY <1>3, <2>1, <2>2
      <2>4. PICK t \in Seq(Nat) : t = text[x] /\ Len(t) >= 1
            BY <1>1, <2>3, DecimalDigits
      <2>5. text[m] = Append(t, c)
            BY <1>1, <2>2, <2>3, <2>4 DEF DecimalTexts
      <2>6. Append(t, c)[1] = t[1]
            BY <2>4
      <2>7. t[1] \in Digits
            BY <1>3, <2>2, <2>3, <2>4
      <2>8. QED
            BY <2>5, <2>6, <2>7
<1>4. n \in T
      <2> HIDE DEF T
      <2>1. QED
            BY <1>2, <1>3, ByTenths
<1>5. QED
      BY <1>1, <1>4

\* The units from first on are the digits of a number after zeros, and no more.
DigitsAt(s, first, zeros, n) ==
  /\ Holds(s, first, Zeros(zeros)) /\ Holds(s, first + zeros, Decimal(n))
  /\ \/ first + zeros + Len(Decimal(n)) > Len(s)
     \/ s[first + zeros + Len(Decimal(n))] \notin Digits

LEMMA DecimalIsText ==
  ASSUME NEW n \in Nat
  PROVE  Decimal(n) \in Seq(Nat) /\ Len(Decimal(n)) \in Nat /\ Len(Decimal(n)) >= 1
<1>1. PICK text : DecimalTexts(text, n) /\ Decimal(n) = text[n]
      BY DecimalIs
<1>2. n \in 0..n
      OBVIOUS
<1>3. QED
      BY <1>1, <1>2, DecimalDigits

\* A number in decimal, after a sign or none, is read as that number.
LEMMA NumeralSaid ==
  ASSUME NEW s \in Seq(Nat), NEW first \in Nat, first = 1 \/ first = 2,
         first = 2 => s[1] \in {Plus, Minus},
         NEW zeros \in Nat, NEW n \in Nat, DigitsAt(s, first, zeros, n)
  PROVE  /\ first <= Len(s) /\ s[first] \in Digits
         /\ Numeral(s) = IF first = 2 /\ s[1] = Minus THEN -n ELSE n
<1>1. PICK size \in Nat : size = Len(s)
      OBVIOUS
<1>2. PICK text : DecimalTexts(text, n) /\ Decimal(n) = text[n]
      BY DecimalIs
<1>3. PICK len \in Nat : len = Len(Decimal(n)) /\ len >= 1
      BY DecimalIsText
<1>4. Holds(s, first + zeros, text[n]) /\ n \in 0..n
      BY <1>2 DEF DigitsAt
<1>5. first + zeros + len <= size + 1
      BY <1>1, <1>3 DEF DigitsAt, Holds
<1>6. PICK last \in Nat : last = first + zeros + len - 1
      <2>1. first + zeros + len - 1 \in Nat
            BY <1>3
      <2>2. QED
            BY <2>1, Zenon
<1>7. last >= first /\ last <= size /\ first <= size /\ last + 1 = first + zeros + len
      BY <1>3, <1>5, <1>6
<1>8. last = size \/ s[last + 1] \notin Digits
      <2>1. first + zeros + len > size \/ s[first + zeros + len] \notin Digits
            BY <1>1, <1>3 DEF DigitsAt
      <2>2. QED
            BY <1>7, <2>1
<1>9. ASSUME NEW upTo, Reckons(s, first, upTo)
      PROVE  upTo[size] = n /\ DigitsTo(s, first, last)
      <2>1. upTo[first + zeros - 1] = 0 /\ DigitsTo(s, first, first + zeros - 1)
            BY <1>9, ZerosAdd DEF DigitsAt
      <2>2. PICK i \in Nat : i = first + zeros
            OBVIOUS
      <2>3. i >= first /\ upTo[i - 1] = 0 /\ DigitsTo(s, first, i - 1) /\ Holds(s, i, text[n])
            BY <1>4, <2>1, <2>2
      <2>4. upTo[i + Len(text[n]) - 1] = n /\ DigitsTo(s, first, i + Len(text[n]) - 1)
            BY <1>2, <1>4, <1>9, <2>3, DigitsAdd
      <2>5. i + Len(text[n]) - 1 = last
            BY <1>2, <1>3, <1>6, <2>2
      <2>6. upTo[Len(s)] = upTo[last]
            BY <1>1, <1>7, <1>8, <1>9, RestAdds
      <2>7. QED
            BY <1>1, <2>4, <2>5, <2>6
<1>10. s[first] \in Digits
      <2>1. CASE zeros = 0
            <3>1. first \in 1..size
                  BY <1>7
            <3>2. PICK e \in Seq(Nat) : e = text[n] /\ Len(e) >= 1
                  BY <1>2, <1>3, DecimalIsText
            <3>3. s[first + zeros + 1 - 1] = e[1]
                  BY <1>4, <3>2 DEF Holds
            <3>4. first + zeros + 1 - 1 = first
                  BY <2>1
            <3>5. e[1] \in Digits
                  BY <1>2, <3>2, FirstDigit
            <3>6. QED
                  BY <3>3, <3>4, <3>5
      <2>2. CASE zeros # 0
            <3>1. 1 \in 1..zeros /\ Len(Zeros(zeros)) = zeros /\ Zeros(zeros)[1] = 48
                  BY <2>2 DEF Zeros
            <3>2. s[first + 1 - 1] = 48 /\ first + 1 - 1 = first
                  BY <3>1 DEF DigitsAt, Holds
            <3>3. QED
                  BY <3>2, SMT DEF Digits
      <2>3. QED
            BY <2>1, <2>2
<1>11. /\ first = 2 <=> Len(s) > 0 /\ s[1] \in {Plus, Minus}
       /\ s[1] = Minus => first = 2
      <2>1. Plus \notin Digits /\ Minus \notin Digits
            BY SMT DEF Plus, Minus, Digits
      <2>2. QED
            BY <1>1, <1>7, <1>10, <2>1
<1>12. PICK upTo : /\ Reckons(s, first, upTo)
                   /\ Numeral(s) = IF s[1] = Minus THEN -upTo[Len(s)] ELSE upTo[Len(s)]
      BY <1>1, <1>7, <1>10, <1>11, NumberRead
<1>13. upTo[Len(s)] = n
      BY <1>1, <1>9, <1>12
<1>14. QED
      BY <1>1, <1>7, <1>10, <1>11, <1>12, <1>13

\* Blanks end after the first k units.
BlanksAt(s, k) ==
  (\A j \in 1..k : s[j] \in Blanks) /\ (k < Len(s) => s[k + 1] \notin Blanks)

LEMMA TrimmedIs ==
  ASSUME NEW s \in Seq(Nat), NEW k \in 0..Len(s), BlanksAt(s, k)
  PROVE  Trimmed(s) = SubSeq(s, k + 1, Len(s))
<1> DEFINE P(i) == (\A j \in 1..(i - 1) : s[j] \in Blanks) /\ (i <= Len(s) => s[i] \notin Blanks)
<1>1. PICK size \in Nat : size = Len(s)
      OBVIOUS
<1>2. k + 1 \in 1..(Len(s) + 1) /\ P(k + 1)
      BY <1>1 DEF BlanksAt
<1>3. ASSUME NEW i \in 1..(Len(s) + 1), P(i) PROVE i = k + 1
      <2>1. CASE i < k + 1
            <3>1. i \in 1..k /\ i <= Len(s)
                  BY <1>1, <2>1
            <3>2. QED
                  BY <1>3, <3>1 DEF BlanksAt
      <2>2. CASE i > k + 1
            <3>1. k + 1 \in 1..(i - 1) /\ k < Len(s)
                  BY <1>1, <2>2
            <3>2. QED
                  BY <1>3, <3>1 DEF BlanksAt
      <2>3. QED
            BY <1>1, <2>1, <2>2
<1>4. (CHOOSE i \in 1..(Len(s) + 1) : P(i)) = k + 1
      <2> HIDE DEF P
      <2>1. QED
            BY <1>2, <1>3
<1>5. QED
      BY <1>4, Zenon DEF Trimmed

\* A text that starts with none is read from its first unit.
LEMMA NotTrimmed ==
  ASSUME NEW s \in Seq(Nat), Len(s) > 0 => s[1] \notin Blanks
  PROVE  NumberIn(s) = Numeral(s)
<1>1. PICK k \in Nat : k = 0
      OBVIOUS
<1>2. k \in 0..Len(s) /\ BlanksAt(s, k)
      BY <1>1 DEF BlanksAt
<1>3. SubSeq(s, k + 1, Len(s)) = s
      BY <1>1
<1>4. QED
      BY <1>2, <1>3, TrimmedIs DEF NumberIn

\* A number in decimal, after a minus sign or none, is read as that number.
LEMMA NumberSaid ==
  ASSUME NEW s \in Seq(Nat), NEW first \in Nat, first = 1 \/ first = 2, first = 2 => s[1] = Minus,
         NEW zeros \in Nat, NEW n \in Nat, DigitsAt(s, first, zeros, n)
  PROVE  (first = 1 => NumberIn(s) = n) /\ (first = 2 => NumberIn(s) = -n)
<1>1. /\ s[first] \in Digits
      /\ Numeral(s) = IF first = 2 /\ s[1] = Minus THEN -n ELSE n
      BY NumeralSaid
<1>2. s[1] \notin Blanks
      <2>1. Minus \notin Blanks /\ Digits \cap Blanks = {}
            BY SMT DEF Minus, Digits, Blanks
      <2>2. QED
            BY <1>1, <2>1
<1>3. NumberIn(s) = Numeral(s)
      BY <1>2, NotTrimmed
<1>4. QED
      BY <1>1, <1>3

\* No text of a number below the bound is longer.
Within(text, n, bound, len) == \A m \in 0..n : m < bound => Len(text[m]) <= len

LEMMA TenTimesWithin ==
  ASSUME NEW n \in Nat, NEW text, DecimalTexts(text, n), NEW bound \in Nat, NEW len \in Nat,
         len >= 1, Within(text, n, bound, len)
  PROVE  Within(text, n, 10 * bound, len + 1)
<1>1. SUFFICES ASSUME NEW m \in Nat, m <= n, m < 10 * bound PROVE Len(text[m]) <= len + 1
      BY DEF Within
<1>2. m \in 0..n
      BY <1>1
<1>3. CASE m < 10
      <2>1. text[m] = <<48 + m>>
            BY <1>2, <1>3 DEF DecimalTexts
      <2>2. Len(<<48 + m>>) = 1 /\ 1 <= len + 1
            OBVIOUS
      <2>3. QED
            BY <2>1, <2>2
<1>4. CASE ~(m < 10)
      <2>1. PICK x \in Nat, c \in Nat : x = m \div 10 /\ c = 48 + (m % 10) /\ x < m
            BY <1>4, TenthIsLess
      <2>2. x < bound
            <3>1. m = x * 10 + (m % 10) /\ m % 10 \in Nat
                  BY <2>1, TenthIsLess
            <3>2. QED
                  BY <1>1, <3>1
      <2>3. x \in 0..n
            BY <1>1, <2>1
      <2>4. PICK t \in Seq(Nat) : t = text[x]
            BY <2>3 DEF DecimalTexts
      <2>5. Len(t) <= len /\ Len(t) \in Nat
            BY <2>2, <2>3, <2>4 DEF Within
      <2>6. text[m] = Append(t, c)
            BY <1>2, <1>4, <2>1, <2>4 DEF DecimalTexts
      <2>7. Len(Append(t, c)) = Len(t) + 1
            BY <2>4
      <2>8. QED
            BY <2>5, <2>6, <2>7
<1>5. QED
      BY <1>3, <1>4

\* A number has no more digits than it takes to write it.
LEMMA DecimalWidth ==
  ASSUME NEW n \in Nat
  PROVE  /\ n < 10 => Len(Decimal(n)) <= 1
         /\ n < 100 => Len(Decimal(n)) <= 2
         /\ n < 1000 => Len(Decimal(n)) <= 3
         /\ n < 10000 => Len(Decimal(n)) <= 4
         /\ n < 100000 => Len(Decimal(n)) <= 5
         /\ n < 1000000 => Len(Decimal(n)) <= 6
         /\ n < 10000000 => Len(Decimal(n)) <= 7
         /\ n < 100000000 => Len(Decimal(n)) <= 8
         /\ n < 1000000000 => Len(Decimal(n)) <= 9
<1>1. PICK text : DecimalTexts(text, n) /\ Decimal(n) = text[n]
      BY DecimalIs
<1>2. Within(text, n, 10, 1)
      <2>1. SUFFICES ASSUME NEW m \in Nat, m <= n, m < 10 PROVE Len(text[m]) <= 1
            BY DEF Within
      <2>2. m \in 0..n
            BY <2>1
      <2>3. text[m] = <<48 + m>>
            BY <1>1, <2>1, <2>2 DEF DecimalTexts
      <2>4. Len(<<48 + m>>) = 1
            OBVIOUS
      <2>5. QED
            BY <2>3, <2>4
<1>3. ASSUME NEW bound \in Nat, NEW len \in Nat, len >= 1, Within(text, n, bound, len)
      PROVE  Within(text, n, 10 * bound, len + 1)
      BY <1>1, <1>3, TenTimesWithin
<1>4. PICK b1 \in Nat, l1 \in Nat : b1 = 10 /\ l1 = 1 /\ l1 >= 1
      OBVIOUS
<1>5. Within(text, n, b1, l1)
      BY <1>2, <1>4
<1>6. PICK b2 \in Nat, l2 \in Nat : b2 = 10 * b1 /\ l2 = l1 + 1 /\ l2 >= 1
      BY <1>4
<1>7. Within(text, n, b2, l2)
      BY <1>3, <1>4, <1>6, <1>5
<1>8. PICK b3 \in Nat, l3 \in Nat : b3 = 10 * b2 /\ l3 = l2 + 1 /\ l3 >= 1
      BY <1>6
<1>9. Within(text, n, b3, l3)
      BY <1>3, <1>6, <1>8, <1>7
<1>10. PICK b4 \in Nat, l4 \in Nat : b4 = 10 * b3 /\ l4 = l3 + 1 /\ l4 >= 1
      BY <1>8
<1>11. Within(text, n, b4, l4)
      BY <1>3, <1>8, <1>10, <1>9
<1>12. PICK b5 \in Nat, l5 \in Nat : b5 = 10 * b4 /\ l5 = l4 + 1 /\ l5 >= 1
      BY <1>10
<1>13. Within(text, n, b5, l5)
      BY <1>3, <1>10, <1>12, <1>11
<1>14. PICK b6 \in Nat, l6 \in Nat : b6 = 10 * b5 /\ l6 = l5 + 1 /\ l6 >= 1
      BY <1>12
<1>15. Within(text, n, b6, l6)
      BY <1>3, <1>12, <1>14, <1>13
<1>16. PICK b7 \in Nat, l7 \in Nat : b7 = 10 * b6 /\ l7 = l6 + 1 /\ l7 >= 1
      BY <1>14
<1>17. Within(text, n, b7, l7)
      BY <1>3, <1>14, <1>16, <1>15
<1>18. PICK b8 \in Nat, l8 \in Nat : b8 = 10 * b7 /\ l8 = l7 + 1 /\ l8 >= 1
      BY <1>16
<1>19. Within(text, n, b8, l8)
      BY <1>3, <1>16, <1>18, <1>17
<1>20. PICK b9 \in Nat, l9 \in Nat : b9 = 10 * b8 /\ l9 = l8 + 1 /\ l9 >= 1
      BY <1>18
<1>21. Within(text, n, b9, l9)
      BY <1>3, <1>18, <1>20, <1>19
<1>22. ASSUME NEW bound \in Nat, NEW len \in Nat, Within(text, n, bound, len), n < bound
      PROVE  Len(Decimal(n)) <= len
      <2>1. n \in 0..n
            OBVIOUS
      <2>2. QED
            BY <1>1, <1>22, <2>1 DEF Within
<1>23. PICK size \in Nat : size = Len(Decimal(n))
      BY DecimalIsText
<1>24. /\ n < b1 => size <= l1
       /\ n < b2 => size <= l2
       /\ n < b3 => size <= l3
       /\ n < b4 => size <= l4
       /\ n < b5 => size <= l5
       /\ n < b6 => size <= l6
       /\ n < b7 => size <= l7
       /\ n < b8 => size <= l8
       /\ n < b9 => size <= l9
      BY <1>5, <1>7, <1>9, <1>11, <1>13, <1>15, <1>17, <1>19, <1>21, <1>22, <1>23
<1>25. QED
      BY <1>4, <1>6, <1>8, <1>10, <1>12, <1>14, <1>16, <1>18, <1>20, <1>23, <1>24, SMT

\* A sign, zeros and the digits of a number are read as that number.
LEMMA PaddedSays ==
  ASSUME NEW n \in Int, NEW k \in Nat,
         NEW s, s = Sign(n) \o Zeros(k) \o Decimal(Absolute(n))
  PROVE  /\ s \in Seq(Nat) /\ NumberIn(s) = n
         /\ Len(s) = Len(Sign(n)) + k + Len(Decimal(Absolute(n)))
<1>1. PICK m \in Nat : m = Absolute(n) /\ (n >= 0 => n = m) /\ (n < 0 => n = -m)
      BY DEF Absolute
<1>2. PICK digits \in Seq(Nat) : digits = Decimal(m)
      BY DecimalIsText
<1>3. PICK zeros \in Seq(Nat) : zeros = Zeros(k) /\ Len(zeros) = k
      <2>1. Zeros(k) \in [1..k -> Nat]
            BY DEF Zeros
      <2>2. Zeros(k) \in Seq(Nat)
            BY <2>1, SeqDef
      <2>3. Len(Zeros(k)) = k
            BY DEF Zeros
      <2>4. QED
            BY <2>2, <2>3
<1>4. PICK sign \in Seq(Nat) : /\ sign = Sign(n) /\ (n >= 0 => sign = <<>>)
                               /\ (n < 0 => sign = <<Minus>>)
      <2>1. CASE n >= 0
            <3>1. Sign(n) = <<>> /\ <<>> \in Seq(Nat) /\ ~(n < 0)
                  BY <2>1 DEF Sign
            <3>2. QED
                  BY <3>1
      <2>2. CASE ~(n >= 0)
            <3>1. Sign(n) = <<Minus>> /\ <<Minus>> \in Seq(Nat) /\ ~(n >= 0)
                  BY <2>2 DEF Sign, Minus
            <3>2. QED
                  BY <3>1
      <2>3. QED
            BY <2>1, <2>2
<1>5. PICK first \in Nat : /\ first = Len(sign) + 1 /\ (n >= 0 => first = 1) /\ (n < 0 => first = 2)
      <2>1. CASE n >= 0
            <3>1. Len(sign) = 0
                  BY <1>4, <2>1
            <3>2. QED
                  BY <2>1, <3>1
      <2>2. CASE n < 0
            <3>1. Len(sign) = 1
                  BY <1>4, <2>2
            <3>2. QED
                  BY <2>2, <3>1
      <2>3. QED
            BY <2>1, <2>2
<1>6. PICK before \in Seq(Nat) : before = sign \o zeros /\ Len(before) = Len(sign) + k
      <2>1. sign \o zeros \in Seq(Nat) /\ Len(sign \o zeros) = Len(sign) + Len(zeros)
            BY ConcatProperties
      <2>2. QED
            BY <1>3, <2>1
<1>7. s = before \o digits
      BY <1>1, <1>2, <1>3, <1>4, <1>6
<1>8. s \in Seq(Nat) /\ Len(s) = Len(before) + Len(digits)
      BY <1>7, ConcatProperties
<1>9. Len(s) = Len(Sign(n)) + k + Len(Decimal(Absolute(n)))
      BY <1>1, <1>2, <1>4, <1>6, <1>8
<1>10. Holds(s, 1, before \o digits)
      BY <1>7, <1>8 DEF Holds
<1>11. Holds(s, 1, before) /\ Holds(s, 1 + Len(before), digits)
      <2>1. 1 \in Nat
            OBVIOUS
      <2>2. QED
            BY <1>8, <1>10, <2>1, HoldsBoth
<1>12. Holds(s, 1, sign) /\ Holds(s, 1 + Len(sign), zeros)
      <2>1. 1 \in Nat
            OBVIOUS
      <2>2. QED
            BY <1>6, <1>8, <1>11, <2>1, HoldsBoth
<1>13. DigitsAt(s, first, k, m)
      <2>1. 1 + Len(sign) = first /\ 1 + Len(before) = first + k
            BY <1>5, <1>6
      <2>2. Holds(s, first, Zeros(k)) /\ Holds(s, first + k, Decimal(m))
            BY <1>2, <1>3, <1>11, <1>12, <2>1
      <2>3. first + k + Len(Decimal(m)) > Len(s)
            BY <1>2, <1>8, <2>1
      <2>4. QED
            BY <2>2, <2>3 DEF DigitsAt
<1>14. first = 2 => s[1] = Minus
      <2>1. SUFFICES ASSUME n < 0 PROVE s[1] = Minus
            <3>1. n >= 0 => first # 2
                  BY <1>5
            <3>2. first = 2 => n < 0
                  BY <3>1
            <3>3. QED
                  BY <3>2
      <2>2. Holds(s, 1, <<Minus>>)
            BY <1>4, <1>12, <2>1
      <2>3. Len(<<Minus>>) = 1 /\ <<Minus>>[1] = Minus /\ 1 \in 1..1 /\ 1 + 1 - 1 = 1
            OBVIOUS
      <2>4. s[1 + 1 - 1] = <<Minus>>[1]
            BY <2>2, <2>3 DEF Holds
      <2>5. QED
            BY <2>3, <2>4
<1>15. (first = 1 => NumberIn(s) = m) /\ (first = 2 => NumberIn(s) = -m)
      <2>1. first = 1 \/ first = 2
            BY <1>5
      <2>2. s \in Seq(Nat)
            BY <1>8
      <2>3. QED
            BY <1>13, <1>14, <2>1, <2>2, NumberSaid, ZenonT(60)
<1>16. NumberIn(s) = n
      BY <1>1, <1>5, <1>15
<1>17. QED
      BY <1>8, <1>9, <1>16

\* std::to_string(): the number read from the text of an integer is the integer.
THEOREM ToTextSays ==
  ASSUME NEW n \in Int
  PROVE  ToText(n) \in Seq(Nat) /\ NumberIn(ToText(n)) = n
<1>1. Zeros(0) = <<>>
      BY DEF Zeros
<1>2. Sign(n) \in Seq(Nat)
      BY DEF Sign, Minus
<1>3. Sign(n) \o <<>> = Sign(n)
      BY <1>2
<1>4. ToText(n) = Sign(n) \o Zeros(0) \o Decimal(Absolute(n))
      BY <1>1, <1>3 DEF ToText
<1>5. 0 \in Nat
      OBVIOUS
<1>6. QED
      BY <1>4, <1>5, PaddedSays

\* zero_padded(): the text says the number, with at least so many characters and
\* just as many if the number has no more digits.
THEOREM ZeroPaddedSays ==
  ASSUME NEW n \in Int, NEW width \in Nat
  PROVE  /\ ZeroPadded(n, width) \in Seq(Nat) /\ NumberIn(ZeroPadded(n, width)) = n
         /\ Len(ZeroPadded(n, width)) >= width
         /\ n >= 0 /\ Len(Decimal(n)) <= width => Len(ZeroPadded(n, width)) = width
<1>1. PICK len \in Nat, sign \in Nat : /\ len = Len(Decimal(Absolute(n))) /\ sign = Len(Sign(n))
                                       /\ (n >= 0 => sign = 0 /\ Absolute(n) = n)
      <2>1. Absolute(n) \in Nat /\ (n >= 0 => Absolute(n) = n)
            BY DEF Absolute
      <2>2. Len(Decimal(Absolute(n))) \in Nat
            BY <2>1, DecimalIsText
      <2>3. Len(Sign(n)) \in Nat /\ (n >= 0 => Len(Sign(n)) = 0)
            BY DEF Sign
      <2>4. QED
            BY <2>1, <2>2, <2>3
<1>2. PICK k \in Nat : /\ Zeros(width - sign - len) = Zeros(k)
                       /\ k = IF width - sign - len >= 0 THEN width - sign - len ELSE 0
      <2>1. CASE width - sign - len >= 0
            BY <2>1
      <2>2. CASE ~(width - sign - len >= 0)
            <3>1. 1..(width - sign - len) = {} /\ 1..0 = {}
                  BY <2>2
            <3>2. Zeros(width - sign - len) = Zeros(0)
                  BY <3>1 DEF Zeros
            <3>3. QED
                  BY <2>2, <3>2
      <2>3. QED
            BY <2>1, <2>2
<1>3. PICK s : s = ZeroPadded(n, width)
      OBVIOUS
<1>4. s = Sign(n) \o Zeros(k) \o Decimal(Absolute(n))
      BY <1>1, <1>2, <1>3 DEF ZeroPadded
<1>5. /\ s \in Seq(Nat) /\ NumberIn(s) = n
      /\ Len(s) = Len(Sign(n)) + k + Len(Decimal(Absolute(n)))
      BY <1>4, PaddedSays
<1>6. Len(s) = sign + k + len
      BY <1>1, <1>5
<1>7. Len(s) >= width /\ (n >= 0 /\ len <= width => Len(s) = width)
      BY <1>1, <1>2, <1>6
<1>8. n >= 0 => len = Len(Decimal(n))
      BY <1>1
<1>9. QED
      BY <1>3, <1>5, <1>7, <1>8

-----------------------------------------------------------------------------
(* The text of a datetimeoffset.                                           *)

\* One text after another.
LEMMA Joined ==
  ASSUME NEW x \in Seq(Nat), NEW y \in Seq(Nat)
  PROVE  x \o y \in Seq(Nat) /\ Len(x \o y) = Len(x) + Len(y)
BY ConcatProperties

\* What is there is what is cut out.
LEMMA CutOut ==
  ASSUME NEW s \in Seq(Nat), NEW t \in Seq(Nat), NEW first \in Nat, first >= 1,
         NEW len \in Nat, len = Len(t), Holds(s, first, t)
  PROVE  SubSeq(s, first, first + len - 1) = t
<1>1. PICK n \in Nat : n = Len(s)
      OBVIOUS
<1>2. first + len <= n + 1 /\ \A j \in 1..len : s[first + j - 1] = t[j]
      BY <1>1 DEF Holds
<1>3. \A i \in first..(first + len - 1) : s[i] \in Nat
      BY <1>1, <1>2
<1>4. PICK last \in Int : last = first + len - 1
      <2>1. first + len - 1 \in Int
            OBVIOUS
      <2>2. QED
            BY <2>1, Zenon
<1>5. PICK u : u = SubSeq(s, first, last)
      OBVIOUS
<1>6. \A i \in first..last : s[i] \in Nat
      BY <1>3, <1>4
<1>7. /\ u \in Seq(Nat) /\ Len(u) = (IF first <= last THEN last - first + 1 ELSE 0)
      /\ \A j \in 1..(last - first + 1) : u[j] = s[first + j - 1]
      BY <1>5, <1>6, SubSeqProperties
<1>8. last - first + 1 = len /\ Len(u) = len
      BY <1>4, <1>7
<1>9. u = t
      BY <1>2, <1>7, <1>8, SeqEqual
<1>10. QED
      BY <1>4, <1>5, <1>9

\* So many digits say the number.
InDigits(t, n, width) == t = ZeroPadded(n, width) /\ Len(t) = width /\ NumberIn(t) = n

LEMMA FewDigits ==
  ASSUME NEW n \in Nat, NEW width \in Nat, Len(Decimal(n)) <= width
  PROVE  \E t \in Seq(Nat) : InDigits(t, n, width)
<1>1. n \in Int /\ n >= 0
      OBVIOUS
<1>2. ZeroPadded(n, width) \in Seq(Nat)
      BY <1>1, ZeroPaddedSays
<1>3. NumberIn(ZeroPadded(n, width)) = n /\ Len(ZeroPadded(n, width)) = width
      BY <1>1, ZeroPaddedSays
<1>4. QED
      BY <1>2, <1>3 DEF InDigits

\* The most billionths there are in a second.
MostBillionths == 999999999

\* The fraction: a point and as many digits as the scale has.
LEMMA FractionSays ==
  ASSUME NEW fract \in Nat, fract <= MostBillionths, NEW scale \in Nat
  PROVE  \/ scale \notin 1..9 /\ Fraction(fract, scale) = <<>>
         \/ /\ scale \in 1..9
            /\ \E t \in Seq(Nat) : /\ Fraction(fract, scale) = <<46>> \o t
                                   /\ InDigits(t, fract \div (10^(9 - scale)), scale)
<1>1. CASE scale \notin 1..9
      BY <1>1 DEF Fraction
<1>2. CASE scale \in 1..9
      <2>1. PICK n \in Nat : n = fract \div (10^(9 - scale)) /\ Len(Decimal(n)) <= scale
            <3>1. CASE scale = 1
                  <4>1. PICK b \in Nat, n \in Nat :
                          b = 10^(9 - scale) /\ n = fract \div b /\ n < 10
                        <5>1. PICK b \in Nat : b = 10^(9 - scale) /\ b = 100000000
                              <6>1. 9 - scale = 8
                                    BY <3>1
                              <6>2. 10^(9 - scale) = 10^8
                                    BY <6>1, Zenon
                              <6>3. QED
                                    BY <6>2, SMT
                        <5>2. fract \div 100000000 \in Nat /\ fract \div 100000000 < 10
                              BY SMT DEF MostBillionths
                        <5>3. QED
                              BY <5>1, <5>2, SMT
                  <4>2. Len(Decimal(n)) <= scale
                        BY <3>1, <4>1, DecimalWidth, SMT
                  <4>3. QED
                        BY <4>1, <4>2, SMT
            <3>2. CASE scale = 2
                  <4>1. PICK b \in Nat, n \in Nat :
                          b = 10^(9 - scale) /\ n = fract \div b /\ n < 100
                        <5>1. PICK b \in Nat : b = 10^(9 - scale) /\ b = 10000000
                              <6>1. 9 - scale = 7
                                    BY <3>2
                              <6>2. 10^(9 - scale) = 10^7
                                    BY <6>1, Zenon
                              <6>3. QED
                                    BY <6>2, SMT
                        <5>2. fract \div 10000000 \in Nat /\ fract \div 10000000 < 100
                              BY SMT DEF MostBillionths
                        <5>3. QED
                              BY <5>1, <5>2, SMT
                  <4>2. Len(Decimal(n)) <= scale
                        BY <3>2, <4>1, DecimalWidth, SMT
                  <4>3. QED
                        BY <4>1, <4>2, SMT
            <3>3. CASE scale = 3
                  <4>1. PICK b \in Nat, n \in Nat :
                          b = 10^(9 - scale) /\ n = fract \div b /\ n < 1000
                        <5>1. PICK b \in Nat : b = 10^(9 - scale) /\ b = 1000000
                              <6>1. 9 - scale = 6
                                    BY <3>3
                              <6>2. 10^(9 - scale) = 10^6
                                    BY <6>1, Zenon
                              <6>3. QED
                                    BY <6>2, SMT
                        <5>2. fract \div 1000000 \in Nat /\ fract \div 1000000 < 1000
                              BY SMT DEF MostBillionths
                        <5>3. QED
                              BY <5>1, <5>2, SMT
                  <4>2. Len(Decimal(n)) <= scale
                        BY <3>3, <4>1, DecimalWidth, SMT
                  <4>3. QED
                        BY <4>1, <4>2, SMT
            <3>4. CASE scale = 4
                  <4>1. PICK b \in Nat, n \in Nat :
                          b = 10^(9 - scale) /\ n = fract \div b /\ n < 10000
                        <5>1. PICK b \in Nat : b = 10^(9 - scale) /\ b = 100000
                              <6>1. 9 - scale = 5
                                    BY <3>4
                              <6>2. 10^(9 - scale) = 10^5
                                    BY <6>1, Zenon
                              <6>3. QED
                                    BY <6>2, SMT
                        <5>2. fract \div 100000 \in Nat /\ fract \div 100000 < 10000
                              BY SMT DEF MostBillionths
                        <5>3. QED
                              BY <5>1, <5>2, SMT
                  <4>2. Len(Decimal(n)) <= scale
                        BY <3>4, <4>1, DecimalWidth, SMT
                  <4>3. QED
                        BY <4>1, <4>2, SMT
            <3>5. CASE scale = 5
                  <4>1. PICK b \in Nat, n \in Nat :
                          b = 10^(9 - scale) /\ n = fract \div b /\ n < 100000
                        <5>1. PICK b \in Nat : b = 10^(9 - scale) /\ b = 10000
                              <6>1. 9 - scale = 4
                                    BY <3>5
                              <6>2. 10^(9 - scale) = 10^4
                                    BY <6>1, Zenon
                              <6>3. QED
                                    BY <6>2, SMT
                        <5>2. fract \div 10000 \in Nat /\ fract \div 10000 < 100000
                              BY SMT DEF MostBillionths
                        <5>3. QED
                              BY <5>1, <5>2, SMT
                  <4>2. Len(Decimal(n)) <= scale
                        BY <3>5, <4>1, DecimalWidth, SMT
                  <4>3. QED
                        BY <4>1, <4>2, SMT
            <3>6. CASE scale = 6
                  <4>1. PICK b \in Nat, n \in Nat :
                          b = 10^(9 - scale) /\ n = fract \div b /\ n < 1000000
                        <5>1. PICK b \in Nat : b = 10^(9 - scale) /\ b = 1000
                              <6>1. 9 - scale = 3
                                    BY <3>6
                              <6>2. 10^(9 - scale) = 10^3
                                    BY <6>1, Zenon
                              <6>3. QED
                                    BY <6>2, SMT
                        <5>2. fract \div 1000 \in Nat /\ fract \div 1000 < 1000000
                              BY SMT DEF MostBillionths
                        <5>3. QED
                              BY <5>1, <5>2, SMT
                  <4>2. Len(Decimal(n)) <= scale
                        BY <3>6, <4>1, DecimalWidth, SMT
                  <4>3. QED
                        BY <4>1, <4>2, SMT
            <3>7. CASE scale = 7
                  <4>1. PICK b \in Nat, n \in Nat :
                          b = 10^(9 - scale) /\ n = fract \div b /\ n < 10000000
                        <5>1. PICK b \in Nat : b = 10^(9 - scale) /\ b = 100
                              <6>1. 9 - scale = 2
                                    BY <3>7
                              <6>2. 10^(9 - scale) = 10^2
                                    BY <6>1, Zenon
                              <6>3. QED
                                    BY <6>2, SMT
                        <5>2. fract \div 100 \in Nat /\ fract \div 100 < 10000000
                              BY SMT DEF MostBillionths
                        <5>3. QED
                              BY <5>1, <5>2, SMT
                  <4>2. Len(Decimal(n)) <= scale
                        BY <3>7, <4>1, DecimalWidth, SMT
                  <4>3. QED
                        BY <4>1, <4>2, SMT
            <3>8. CASE scale = 8
                  <4>1. PICK b \in Nat, n \in Nat :
                          b = 10^(9 - scale) /\ n = fract \div b /\ n < 100000000
                        <5>1. PICK b \in Nat : b = 10^(9 - scale) /\ b = 10
                              <6>1. 9 - scale = 1
                                    BY <3>8
                              <6>2. 10^(9 - scale) = 10^1
                                    BY <6>1, Zenon
                              <6>3. QED
                                    BY <6>2, SMT
                        <5>2. fract \div 10 \in Nat /\ fract \div 10 < 100000000
                              BY SMT DEF MostBillionths
                        <5>3. QED
                              BY <5>1, <5>2, SMT
                  <4>2. Len(Decimal(n)) <= scale
                        BY <3>8, <4>1, DecimalWidth, SMT
                  <4>3. QED
                        BY <4>1, <4>2, SMT
            <3>9. CASE scale = 9
                  <4>1. PICK b \in Nat, n \in Nat :
                          b = 10^(9 - scale) /\ n = fract \div b /\ n < 1000000000
                        <5>1. PICK b \in Nat : b = 10^(9 - scale) /\ b = 1
                              <6>1. 9 - scale = 0
                                    BY <3>9
                              <6>2. 10^(9 - scale) = 10^0
                                    BY <6>1, Zenon
                              <6>3. QED
                                    BY <6>2, SMT
                        <5>2. fract \div 1 \in Nat /\ fract \div 1 < 1000000000
                              BY SMT DEF MostBillionths
                        <5>3. QED
                              BY <5>1, <5>2, SMT
                  <4>2. Len(Decimal(n)) <= scale
                        BY <3>9, <4>1, DecimalWidth, SMT
                  <4>3. QED
                        BY <4>1, <4>2, SMT
            <3>10. QED
                  BY <1>2, <3>1, <3>2, <3>3, <3>4, <3>5, <3>6, <3>7, <3>8, <3>9
      <2>2. PICK t \in Seq(Nat) : InDigits(t, n, scale)
            BY <2>1, FewDigits
      <2>3. Fraction(fract, scale) = <<46>> \o t
            BY <1>2, <2>1, <2>2 DEF Fraction, InDigits
      <2>4. QED
            BY <1>2, <2>1, <2>2, <2>3
<1>3. QED
      BY <1>1, <1>2

\* A date, a time of day to the billionth of a second, and an offset whose parts
\* have the same sign.
IsMoment(v) ==
  /\ \E y, m, d \in Nat : v.date = <<y, m, d>> /\ y <= 9999 /\ m <= 12 /\ d <= 31
  /\ \E h, m, s, f \in Nat :
       v.time = <<h, m, s, f>> /\ h <= 23 /\ m <= 59 /\ s <= 61 /\ f <= MostBillionths
  /\ \E h, m \in Int : /\ v.offset = <<h, m>> /\ Absolute(h) <= 15 /\ Absolute(m) <= 59
                       /\ (h >= 0 /\ m >= 0) \/ (h <= 0 /\ m <= 0)

\* What the parts of a text say.
SaysMoment(s, v, scale) ==
  LET end == Len(s)
      At(first, last) == NumberIn(SubSeq(s, first, last))
  IN /\ <<At(1, 4), At(6, 7), At(9, 10)>> = v.date
     /\ <<At(12, 13), At(15, 16), At(18, 19)>> = SubSeq(v.time, 1, 3)
     /\ scale \in 1..9 => At(21, end - 7) = v.time[4] \div (10^(9 - scale))
     /\ (IF s[end - 5] = Minus THEN -1 ELSE 1) * (60 * At(end - 4, end - 3) + At(end - 1, end))
          = 60 * v.offset[1] + v.offset[2]

\* timestampoffset_as_string(): the text of a moment has each of its parts where
\* it belongs, and the digits of the fraction that the scale has.
THEOREM OffsetTextSays ==
  ASSUME NEW v, IsMoment(v), NEW scale \in Nat
  PROVE  OffsetText(v, scale) \in Seq(Nat) /\ SaysMoment(OffsetText(v, scale), v, scale)
<1>1. PICK y \in Nat, mo \in Nat, d \in Nat :
        v.date = <<y, mo, d>> /\ y <= 9999 /\ mo < 100 /\ d < 100
      BY DEF IsMoment
<1>2. PICK h \in Nat, mi \in Nat, sec \in Nat, f \in Nat :
        /\ v.time = <<h, mi, sec, f>> /\ f <= MostBillionths
        /\ h < 100 /\ mi < 100 /\ sec < 100
      BY DEF IsMoment
<1>3. PICK oh \in Int, om \in Int :
        /\ v.offset = <<oh, om>> /\ ((oh >= 0 /\ om >= 0) \/ (oh <= 0 /\ om <= 0))
        /\ oh > -100 /\ oh < 100 /\ om > -100 /\ om < 100
      BY DEF IsMoment, Absolute
<1>4. PICK ah \in Nat, am \in Nat :
        ah = Absolute(oh) /\ am = Absolute(om) /\ ah < 100 /\ am < 100
      BY <1>3 DEF Absolute
<1>5. PICK g \in Nat : g = IF BehindUtc(v.offset) THEN 45 ELSE 43
      OBVIOUS
<1>6. ASSUME NEW n \in Nat, n < 100
      PROVE  \E t \in Seq(Nat) : InDigits(t, n, 2)
      <2>1. Len(Decimal(n)) <= 2
            BY <1>6, DecimalWidth, SMT
      <2>2. 2 \in Nat
            OBVIOUS
      <2>3. QED
            BY <2>1, <2>2, FewDigits
<1>7. PICK a1 \in Seq(Nat) : InDigits(a1, y, 4)
      <2>1. Len(Decimal(y)) <= 4
            BY <1>1, DecimalWidth, SMT
      <2>2. 4 \in Nat
            OBVIOUS
      <2>3. QED
            BY <2>1, <2>2, FewDigits
<1>8. PICK a2 \in Seq(Nat), a3 \in Seq(Nat) : InDigits(a2, mo, 2) /\ InDigits(a3, d, 2)
      <2>1. (\E t \in Seq(Nat) : InDigits(t, mo, 2)) /\ (\E t \in Seq(Nat) : InDigits(t, d, 2))
            BY <1>1, <1>6
      <2>2. QED
            BY <2>1
<1>9. PICK a4 \in Seq(Nat), a5 \in Seq(Nat), a6 \in Seq(Nat) :
        InDigits(a4, h, 2) /\ InDigits(a5, mi, 2) /\ InDigits(a6, sec, 2)
      <2>1. /\ \E t \in Seq(Nat) : InDigits(t, h, 2)
            /\ \E t \in Seq(Nat) : InDigits(t, mi, 2)
            /\ \E t \in Seq(Nat) : InDigits(t, sec, 2)
            BY <1>2, <1>6
      <2>2. QED
            BY <2>1
<1>10. PICK a7 \in Seq(Nat), a8 \in Seq(Nat) : InDigits(a7, ah, 2) /\ InDigits(a8, am, 2)
      <2>1. (\E t \in Seq(Nat) : InDigits(t, ah, 2)) /\ (\E t \in Seq(Nat) : InDigits(t, am, 2))
            BY <1>4, <1>6
      <2>2. QED
            BY <2>1
<1>11. PICK fr \in Seq(Nat), fl \in Nat :
         /\ fr = Fraction(f, scale) /\ fl = Len(fr)
         /\ scale \in 1..9 => /\ fl = scale + 1
                              /\ \E t \in Seq(Nat) : /\ fr = <<46>> \o t
                                                     /\ InDigits(t, f \div (10^(9 - scale)), scale)
      <2>1. CASE scale \notin 1..9
            <3>1. PICK fr \in Seq(Nat) : fr = Fraction(f, scale) /\ Len(fr) = 0
                  <4>1. Fraction(f, scale) = <<>> /\ <<>> \in Seq(Nat) /\ Len(<<>>) = 0
                        BY <2>1 DEF Fraction
                  <4>2. QED
                        BY <4>1, Zenon
            <3>2. QED
                  BY <2>1, <3>1
      <2>2. CASE scale \in 1..9
            <3>1. PICK t \in Seq(Nat) : /\ Fraction(f, scale) = <<46>> \o t
                                        /\ InDigits(t, f \div (10^(9 - scale)), scale)
                  BY <1>2, <2>2, FractionSays
            <3>2. <<46>> \in Seq(Nat) /\ Len(<<46>>) = 1 /\ Len(t) = scale
                  BY <3>1 DEF InDigits
            <3>3. PICK fr \in Seq(Nat) : fr = <<46>> \o t /\ Len(fr) = scale + 1
                  <4>1. <<46>> \o t \in Seq(Nat) /\ Len(<<46>> \o t) = 1 + scale
                        BY <3>2, ConcatProperties
                  <4>2. Len(<<46>> \o t) = scale + 1
                        BY <4>1
                  <4>3. QED
                        BY <4>1, <4>2, Zenon
            <3>4. fr = Fraction(f, scale) /\ scale + 1 = Len(fr) /\ scale + 1 \in Nat
                  BY <3>1, <3>3
            <3>5. \E w \in Seq(Nat) : fr = <<46>> \o w /\ InDigits(w, f \div (10^(9 - scale)), scale)
                  BY <3>1, <3>3, Zenon
            <3>6. QED
                  BY <3>4, <3>5
      <2>3. QED
            BY <2>1, <2>2
<1>12. PICK dash \in Seq(Nat), space \in Seq(Nat), colon \in Seq(Nat) :
         /\ dash = <<45>> /\ space = <<32>> /\ colon = <<58>>
         /\ Len(dash) = 1 /\ Len(space) = 1 /\ Len(colon) = 1
      <2>1. /\ <<45>> \in Seq(Nat) /\ <<32>> \in Seq(Nat) /\ <<58>> \in Seq(Nat)
            /\ Len(<<45>>) = 1 /\ Len(<<32>>) = 1 /\ Len(<<58>>) = 1
            OBVIOUS
      <2>2. QED
            BY <2>1, Zenon
<1>13. PICK offset \in Seq(Nat) : offset = <<32, g>> /\ Len(offset) = 2
      <2>1. <<32, g>> \in Seq(Nat) /\ Len(<<32, g>>) = 2
            OBVIOUS
      <2>2. QED
            BY <2>1, Zenon
<1>14. /\ Len(a1) = 4 /\ Len(a2) = 2 /\ Len(a3) = 2 /\ Len(a4) = 2 /\ Len(a5) = 2
       /\ Len(a6) = 2 /\ Len(a7) = 2 /\ Len(a8) = 2
      BY <1>7, <1>8, <1>9, <1>10 DEF InDigits
<1>15. PICK x2 \in Seq(Nat) : x2 = a1 \o dash /\ Len(x2) = 5
      <2>1. a1 \o dash \in Seq(Nat) /\ Len(a1 \o dash) = Len(a1) + Len(dash)
            BY Joined
      <2>2. Len(a1) + Len(dash) = 5
            BY <1>12, <1>14
      <2>3. QED
            BY <2>1, <2>2
<1>16. PICK x3 \in Seq(Nat) : x3 = x2 \o a2 /\ Len(x3) = 7
      <2>1. x2 \o a2 \in Seq(Nat) /\ Len(x2 \o a2) = Len(x2) + Len(a2)
            BY Joined
      <2>2. Len(x2) + Len(a2) = 7
            BY <1>14, <1>15
      <2>3. QED
            BY <2>1, <2>2
<1>17. PICK x4 \in Seq(Nat) : x4 = x3 \o dash /\ Len(x4) = 8
      <2>1. x3 \o dash \in Seq(Nat) /\ Len(x3 \o dash) = Len(x3) + Len(dash)
            BY Joined
      <2>2. Len(x3) + Len(dash) = 8
            BY <1>12, <1>16
      <2>3. QED
            BY <2>1, <2>2
<1>18. PICK x5 \in Seq(Nat) : x5 = x4 \o a3 /\ Len(x5) = 10
      <2>1. x4 \o a3 \in Seq(Nat) /\ Len(x4 \o a3) = Len(x4) + Len(a3)
            BY Joined
      <2>2. Len(x4) + Len(a3) = 10
            BY <1>14, <1>17
      <2>3. QED
            BY <2>1, <2>2
<1>19. PICK x6 \in Seq(Nat) : x6 = x5 \o space /\ Len(x6) = 11
      <2>1. x5 \o space \in Seq(Nat) /\ Len(x5 \o space) = Len(x5) + Len(space)
            BY Joined
      <2>2. Len(x5) + Len(space) = 11
            BY <1>12, <1>18
      <2>3. QED
            BY <2>1, <2>2
<1>20. PICK x7 \in Seq(Nat) : x7 = x6 \o a4 /\ Len(x7) = 13
      <2>1. x6 \o a4 \in Seq(Nat) /\ Len(x6 \o a4) = Len(x6) + Len(a4)
            BY Joined
      <2>2. Len(x6) + Len(a4) = 13
            BY <1>14, <1>19
      <2>3. QED
            BY <2>1, <2>2
<1>21. PICK x8 \in Seq(Nat) : x8 = x7 \o colon /\ Len(x8) = 14
      <2>1. x7 \o colon \in Seq(Nat) /\ Len(x7 \o colon) = Len(x7) + Len(colon)
            BY Joined
      <2>2. Len(x7) + Len(colon) = 14
            BY <1>12, <1>20
      <2>3. QED
            BY <2>1, <2>2
<1>22. PICK x9 \in Seq(Nat) : x9 = x8 \o a5 /\ Len(x9) = 16
      <2>1. x8 \o a5 \in Seq(Nat) /\ Len(x8 \o a5) = Len(x8) + Len(a5)
            BY Joined
      <2>2. Len(x8) + Len(a5) = 16
            BY <1>14, <1>21
      <2>3. QED
            BY <2>1, <2>2
<1>23. PICK x10 \in Seq(Nat) : x10 = x9 \o colon /\ Len(x10) = 17
      <2>1. x9 \o colon \in Seq(Nat) /\ Len(x9 \o colon) = Len(x9) + Len(colon)
            BY Joined
      <2>2. Len(x9) + Len(colon) = 17
            BY <1>12, <1>22
      <2>3. QED
            BY <2>1, <2>2
<1>24. PICK x11 \in Seq(Nat) : x11 = x10 \o a6 /\ Len(x11) = 19
      <2>1. x10 \o a6 \in Seq(Nat) /\ Len(x10 \o a6) = Len(x10) + Len(a6)
            BY Joined
      <2>2. Len(x10) + Len(a6) = 19
            BY <1>14, <1>23
      <2>3. QED
            BY <2>1, <2>2
<1>25. PICK x12 \in Seq(Nat) : x12 = x11 \o fr /\ Len(x12) = 19 + fl
      <2>1. x11 \o fr \in Seq(Nat) /\ Len(x11 \o fr) = Len(x11) + Len(fr)
            BY Joined
      <2>2. Len(x11) + Len(fr) = 19 + fl
            BY <1>11, <1>24
      <2>3. QED
            BY <2>1, <2>2
<1>26. PICK x13 \in Seq(Nat) : x13 = x12 \o offset /\ Len(x13) = 21 + fl
      <2>1. x12 \o offset \in Seq(Nat) /\ Len(x12 \o offset) = Len(x12) + Len(offset)
            BY Joined
      <2>2. Len(x12) + Len(offset) = 21 + fl
            BY <1>13, <1>25
      <2>3. QED
            BY <2>1, <2>2
<1>27. PICK x14 \in Seq(Nat) : x14 = x13 \o a7 /\ Len(x14) = 23 + fl
      <2>1. x13 \o a7 \in Seq(Nat) /\ Len(x13 \o a7) = Len(x13) + Len(a7)
            BY Joined
      <2>2. Len(x13) + Len(a7) = 23 + fl
            BY <1>14, <1>26
      <2>3. QED
            BY <2>1, <2>2
<1>28. PICK x15 \in Seq(Nat) : x15 = x14 \o colon /\ Len(x15) = 24 + fl
      <2>1. x14 \o colon \in Seq(Nat) /\ Len(x14 \o colon) = Len(x14) + Len(colon)
            BY Joined
      <2>2. Len(x14) + Len(colon) = 24 + fl
            BY <1>12, <1>27
      <2>3. QED
            BY <2>1, <2>2
<1>29. PICK x16 \in Seq(Nat) : x16 = x15 \o a8 /\ Len(x16) = 26 + fl
      <2>1. x15 \o a8 \in Seq(Nat) /\ Len(x15 \o a8) = Len(x15) + Len(a8)
            BY Joined
      <2>2. Len(x15) + Len(a8) = 26 + fl
            BY <1>14, <1>28
      <2>3. QED
            BY <2>1, <2>2
<1>30. PICK s \in Seq(Nat) : s = x16 /\ Len(s) = 26 + fl
      BY <1>29
<1>31. OffsetText(v, scale) = s
      <2>1. /\ a1 = ZeroPadded(v.date[1], 4) /\ a2 = ZeroPadded(v.date[2], 2)
            /\ a3 = ZeroPadded(v.date[3], 2) /\ a4 = ZeroPadded(v.time[1], 2)
            /\ a5 = ZeroPadded(v.time[2], 2) /\ a6 = ZeroPadded(v.time[3], 2)
            /\ fr = Fraction(v.time[4], scale)
            /\ a7 = ZeroPadded(Absolute(v.offset[1]), 2)
            /\ a8 = ZeroPadded(Absolute(v.offset[2]), 2)
            BY <1>1, <1>2, <1>3, <1>4, <1>7, <1>8, <1>9, <1>10, <1>11 DEF InDigits
      <2>2. s = a1 \o dash \o a2 \o dash \o a3 \o space \o a4 \o colon \o a5 \o colon \o a6 \o fr
                  \o offset \o a7 \o colon \o a8
            BY <1>15, <1>16, <1>17, <1>18, <1>19, <1>20, <1>21, <1>22, <1>23, <1>24, <1>25, <1>26, <1>27, <1>28, <1>29, <1>30
      <2>3. QED
            BY <1>5, <1>12, <1>13, <2>1, <2>2, ZenonT(40) DEF OffsetText
<1>32. Holds(s, 1, x16)
      <2>1. 1 + Len(s) <= Len(s) + 1 /\ \A j \in 1..Len(s) : s[1 + j - 1] = s[j]
            BY <1>30
      <2>2. QED
            BY <1>30, <2>1 DEF Holds
<1>33. Holds(s, 1, x15) /\ Holds(s, 25 + fl, a8)
      <2>1. 1 + Len(x15) = 25 + fl /\ 1 \in Nat
            BY <1>14, <1>28
      <2>2. Holds(s, 1, x15) /\ Holds(s, 1 + Len(x15), a8)
            BY <1>29, <1>32, <2>1, HoldsBoth
      <2>3. QED
            BY <2>1, <2>2
<1>34. Holds(s, 1, x14) /\ Holds(s, 24 + fl, colon)
      <2>1. 1 + Len(x14) = 24 + fl /\ 1 \in Nat
            BY <1>14, <1>27
      <2>2. Holds(s, 1, x14) /\ Holds(s, 1 + Len(x14), colon)
            BY <1>28, <1>33, <2>1, HoldsBoth
      <2>3. QED
            BY <2>1, <2>2
<1>35. Holds(s, 1, x13) /\ Holds(s, 22 + fl, a7)
      <2>1. 1 + Len(x13) = 22 + fl /\ 1 \in Nat
            BY <1>14, <1>26
      <2>2. Holds(s, 1, x13) /\ Holds(s, 1 + Len(x13), a7)
            BY <1>27, <1>34, <2>1, HoldsBoth
      <2>3. QED
            BY <2>1, <2>2
<1>36. Holds(s, 1, x12) /\ Holds(s, 20 + fl, offset)
      <2>1. 1 + Len(x12) = 20 + fl /\ 1 \in Nat
            BY <1>14, <1>25
      <2>2. Holds(s, 1, x12) /\ Holds(s, 1 + Len(x12), offset)
            BY <1>26, <1>35, <2>1, HoldsBoth
      <2>3. QED
            BY <2>1, <2>2
<1>37. Holds(s, 1, x11) /\ Holds(s, 20, fr)
      <2>1. 1 + Len(x11) = 20 /\ 1 \in Nat
            BY <1>14, <1>24
      <2>2. Holds(s, 1, x11) /\ Holds(s, 1 + Len(x11), fr)
            BY <1>25, <1>36, <2>1, HoldsBoth
      <2>3. QED
            BY <2>1, <2>2
<1>38. Holds(s, 1, x10) /\ Holds(s, 18, a6)
      <2>1. 1 + Len(x10) = 18 /\ 1 \in Nat
            BY <1>14, <1>23
      <2>2. Holds(s, 1, x10) /\ Holds(s, 1 + Len(x10), a6)
            BY <1>24, <1>37, <2>1, HoldsBoth
      <2>3. QED
            BY <2>1, <2>2
<1>39. Holds(s, 1, x9) /\ Holds(s, 17, colon)
      <2>1. 1 + Len(x9) = 17 /\ 1 \in Nat
            BY <1>14, <1>22
      <2>2. Holds(s, 1, x9) /\ Holds(s, 1 + Len(x9), colon)
            BY <1>23, <1>38, <2>1, HoldsBoth
      <2>3. QED
            BY <2>1, <2>2
<1>40. Holds(s, 1, x8) /\ Holds(s, 15, a5)
      <2>1. 1 + Len(x8) = 15 /\ 1 \in Nat
            BY <1>14, <1>21
      <2>2. Holds(s, 1, x8) /\ Holds(s, 1 + Len(x8), a5)
            BY <1>22, <1>39, <2>1, HoldsBoth
      <2>3. QED
            BY <2>1, <2>2
<1>41. Holds(s, 1, x7) /\ Holds(s, 14, colon)
      <2>1. 1 + Len(x7) = 14 /\ 1 \in Nat
            BY <1>14, <1>20
      <2>2. Holds(s, 1, x7) /\ Holds(s, 1 + Len(x7), colon)
            BY <1>21, <1>40, <2>1, HoldsBoth
      <2>3. QED
            BY <2>1, <2>2
<1>42. Holds(s, 1, x6) /\ Holds(s, 12, a4)
      <2>1. 1 + Len(x6) = 12 /\ 1 \in Nat
            BY <1>14, <1>19
      <2>2. Holds(s, 1, x6) /\ Holds(s, 1 + Len(x6), a4)
            BY <1>20, <1>41, <2>1, HoldsBoth
      <2>3. QED
            BY <2>1, <2>2
<1>43. Holds(s, 1, x5) /\ Holds(s, 11, space)
      <2>1. 1 + Len(x5) = 11 /\ 1 \in Nat
            BY <1>14, <1>18
      <2>2. Holds(s, 1, x5) /\ Holds(s, 1 + Len(x5), space)
            BY <1>19, <1>42, <2>1, HoldsBoth
      <2>3. QED
            BY <2>1, <2>2
<1>44. Holds(s, 1, x4) /\ Holds(s, 9, a3)
      <2>1. 1 + Len(x4) = 9 /\ 1 \in Nat
            BY <1>14, <1>17
      <2>2. Holds(s, 1, x4) /\ Holds(s, 1 + Len(x4), a3)
            BY <1>18, <1>43, <2>1, HoldsBoth
      <2>3. QED
            BY <2>1, <2>2
<1>45. Holds(s, 1, x3) /\ Holds(s, 8, dash)
      <2>1. 1 + Len(x3) = 8 /\ 1 \in Nat
            BY <1>14, <1>16
      <2>2. Holds(s, 1, x3) /\ Holds(s, 1 + Len(x3), dash)
            BY <1>17, <1>44, <2>1, HoldsBoth
      <2>3. QED
            BY <2>1, <2>2
<1>46. Holds(s, 1, x2) /\ Holds(s, 6, a2)
      <2>1. 1 + Len(x2) = 6 /\ 1 \in Nat
            BY <1>14, <1>15
      <2>2. Holds(s, 1, x2) /\ Holds(s, 1 + Len(x2), a2)
            BY <1>16, <1>45, <2>1, HoldsBoth
      <2>3. QED
            BY <2>1, <2>2
<1>47. Holds(s, 1, a1) /\ Holds(s, 5, dash)
      <2>1. 1 + Len(a1) = 5 /\ 1 \in Nat
            BY <1>14
      <2>2. Holds(s, 1, a1) /\ Holds(s, 1 + Len(a1), dash)
            BY <1>15, <1>46, <2>1, HoldsBoth
      <2>3. QED
            BY <2>1, <2>2
<1>48. ASSUME NEW t \in Seq(Nat), NEW first \in Nat, first >= 1, NEW len \in Nat, NEW last \in Nat,
               NEW m, last = first + len - 1, Holds(s, first, t), InDigits(t, m, len)
      PROVE  NumberIn(SubSeq(s, first, last)) = m
      <2>1. len = Len(t) /\ NumberIn(t) = m
            BY <1>48 DEF InDigits
      <2>2. SubSeq(s, first, first + len - 1) = t
            BY <1>48, <2>1, CutOut
      <2>3. QED
            BY <1>48, <2>1, <2>2
<1>49. NumberIn(SubSeq(s, 1, 4)) = y
      <2>1. PICK p \in Nat, q \in Nat, w \in Nat :
              p = 1 /\ q = 4 /\ w = 4 /\ p >= 1 /\ q = p + w - 1
            OBVIOUS
      <2>2. Holds(s, p, a1) /\ InDigits(a1, y, w)
            BY <1>7, <1>47, <2>1
      <2>3. NumberIn(SubSeq(s, p, q)) = y
            BY <1>48, <2>1, <2>2
      <2>4. QED
            BY <2>1, <2>3
<1>50. NumberIn(SubSeq(s, 6, 7)) = mo
      <2>1. PICK p \in Nat, q \in Nat, w \in Nat :
              p = 6 /\ q = 7 /\ w = 2 /\ p >= 1 /\ q = p + w - 1
            OBVIOUS
      <2>2. Holds(s, p, a2) /\ InDigits(a2, mo, w)
            BY <1>8, <1>46, <2>1
      <2>3. NumberIn(SubSeq(s, p, q)) = mo
            BY <1>48, <2>1, <2>2
      <2>4. QED
            BY <2>1, <2>3
<1>51. NumberIn(SubSeq(s, 9, 10)) = d
      <2>1. PICK p \in Nat, q \in Nat, w \in Nat :
              p = 9 /\ q = 10 /\ w = 2 /\ p >= 1 /\ q = p + w - 1
            OBVIOUS
      <2>2. Holds(s, p, a3) /\ InDigits(a3, d, w)
            BY <1>8, <1>44, <2>1
      <2>3. NumberIn(SubSeq(s, p, q)) = d
            BY <1>48, <2>1, <2>2
      <2>4. QED
            BY <2>1, <2>3
<1>52. NumberIn(SubSeq(s, 12, 13)) = h
      <2>1. PICK p \in Nat, q \in Nat, w \in Nat :
              p = 12 /\ q = 13 /\ w = 2 /\ p >= 1 /\ q = p + w - 1
            OBVIOUS
      <2>2. Holds(s, p, a4) /\ InDigits(a4, h, w)
            BY <1>9, <1>42, <2>1
      <2>3. NumberIn(SubSeq(s, p, q)) = h
            BY <1>48, <2>1, <2>2
      <2>4. QED
            BY <2>1, <2>3
<1>53. NumberIn(SubSeq(s, 15, 16)) = mi
      <2>1. PICK p \in Nat, q \in Nat, w \in Nat :
              p = 15 /\ q = 16 /\ w = 2 /\ p >= 1 /\ q = p + w - 1
            OBVIOUS
      <2>2. Holds(s, p, a5) /\ InDigits(a5, mi, w)
            BY <1>9, <1>40, <2>1
      <2>3. NumberIn(SubSeq(s, p, q)) = mi
            BY <1>48, <2>1, <2>2
      <2>4. QED
            BY <2>1, <2>3
<1>54. NumberIn(SubSeq(s, 18, 19)) = sec
      <2>1. PICK p \in Nat, q \in Nat, w \in Nat :
              p = 18 /\ q = 19 /\ w = 2 /\ p >= 1 /\ q = p + w - 1
            OBVIOUS
      <2>2. Holds(s, p, a6) /\ InDigits(a6, sec, w)
            BY <1>9, <1>38, <2>1
      <2>3. NumberIn(SubSeq(s, p, q)) = sec
            BY <1>48, <2>1, <2>2
      <2>4. QED
            BY <2>1, <2>3
<1>55. NumberIn(SubSeq(s, 22 + fl, 23 + fl)) = ah
      <2>1. PICK p \in Nat, q \in Nat, w \in Nat :
              p = 22 + fl /\ q = 23 + fl /\ w = 2 /\ p >= 1 /\ q = p + w - 1
            OBVIOUS
      <2>2. Holds(s, p, a7) /\ InDigits(a7, ah, w)
            BY <1>10, <1>35, <2>1
      <2>3. NumberIn(SubSeq(s, p, q)) = ah
            BY <1>48, <2>1, <2>2
      <2>4. QED
            BY <2>1, <2>3
<1>56. NumberIn(SubSeq(s, 25 + fl, 26 + fl)) = am
      <2>1. PICK p \in Nat, q \in Nat, w \in Nat :
              p = 25 + fl /\ q = 26 + fl /\ w = 2 /\ p >= 1 /\ q = p + w - 1
            OBVIOUS
      <2>2. Holds(s, p, a8) /\ InDigits(a8, am, w)
            BY <1>10, <1>33, <2>1
      <2>3. NumberIn(SubSeq(s, p, q)) = am
            BY <1>48, <2>1, <2>2
      <2>4. QED
            BY <2>1, <2>3
<1>57. scale \in 1..9 => NumberIn(SubSeq(s, 21, 26 + fl - 7)) = v.time[4] \div (10^(9 - scale))
      <2>1. SUFFICES ASSUME scale \in 1..9
                     PROVE  NumberIn(SubSeq(s, 21, 26 + fl - 7)) = v.time[4] \div (10^(9 - scale))
            OBVIOUS
      <2>2. PICK t \in Seq(Nat) : fr = <<46>> \o t /\ InDigits(t, f \div (10^(9 - scale)), scale)
            BY <1>11, <2>1
      <2>3. PICK point \in Seq(Nat) : point = <<46>> /\ Len(point) = 1
            <3>1. <<46>> \in Seq(Nat) /\ Len(<<46>>) = 1
                  OBVIOUS
            <3>2. QED
                  BY <3>1, Zenon
      <2>4. PICK p \in Nat, q \in Nat, r \in Nat : p = 21 /\ q = 26 + fl - 7 /\ q = p + scale - 1 /\ r = 20
            <3>1. fl = scale + 1
                  BY <1>11, <2>1, Zenon
            <3>2. 26 + fl - 7 \in Nat /\ 26 + fl - 7 = 21 + scale - 1 /\ 20 \in Nat /\ 21 \in Nat
                  BY <3>1
            <3>3. QED
                  BY <3>2
      <2>5. Holds(s, r, point \o t)
            BY <1>37, <2>2, <2>3, <2>4
      <2>6. Holds(s, r + Len(point), t)
            BY <2>5, HoldsBoth
      <2>7. Holds(s, p, t) /\ p >= 1
            BY <2>3, <2>4, <2>6
      <2>8. NumberIn(SubSeq(s, p, q)) = f \div (10^(9 - scale))
            BY <1>48, <2>2, <2>4, <2>7
      <2>9. v.time[4] = f
            BY <1>2
      <2>10. QED
            BY <2>4, <2>8, <2>9
<1>58. s[26 + fl - 5] = g
      <2>1. /\ Len(<<32, g>>) = 2 /\ <<32, g>>[2] = g /\ 2 \in 1..2
            /\ (20 + fl) + 2 - 1 = 26 + fl - 5
            OBVIOUS
      <2>2. s[(20 + fl) + 2 - 1] = g
            BY <1>13, <1>36, <2>1 DEF Holds
      <2>3. QED
            BY <2>1, <2>2
<1>59. (IF g = Minus THEN -1 ELSE 1) * (60 * ah + am) = 60 * oh + om
      <2>1. g = Minus <=> oh < 0 \/ om < 0
            BY <1>3, <1>5 DEF BehindUtc, Minus
      <2>2. CASE oh < 0 \/ om < 0
            <3>1. oh <= 0 /\ om <= 0 /\ g = Minus
                  <4>1. (oh >= 0 /\ om >= 0) \/ (oh <= 0 /\ om <= 0)
                        BY <1>3
                  <4>2. oh <= 0 /\ om <= 0
                        BY <2>2, <4>1
                  <4>3. QED
                        BY <2>1, <2>2, <4>2
            <3>2. \A n \in Int : n <= 0 => Absolute(n) = -n
                  BY DEF Absolute
            <3>3. ah = -oh /\ am = -om
                  BY <1>4, <3>1, <3>2
            <3>4. (-1) * (60 * ah + am) = 60 * oh + om
                  BY <3>3
            <3>5. QED
                  BY <3>1, <3>4
      <2>3. CASE ~(oh < 0 \/ om < 0)
            <3>1. ah = oh /\ am = om /\ g # Minus
                  BY <1>4, <2>1, <2>3 DEF Absolute
            <3>2. 1 * (60 * ah + am) = 60 * oh + om
                  BY <3>1
            <3>3. QED
                  BY <3>1, <3>2
      <2>4. QED
            BY <2>2, <2>3
<1>60. SaysMoment(s, v, scale)
      <2>1. /\ 26 + fl - 4 = 22 + fl /\ 26 + fl - 3 = 23 + fl
            /\ 26 + fl - 1 = 25 + fl
            OBVIOUS
      <2>2. SubSeq(v.time, 1, 3) = <<h, mi, sec>>
            <3>1. PICK t \in Seq(Nat) : t = <<h, mi, sec, f>> /\ Len(t) = 4
                  <4>1. <<h, mi, sec, f>> \in Seq(Nat) /\ Len(<<h, mi, sec, f>>) = 4
                        OBVIOUS
                  <4>2. QED
                        BY <4>1, Zenon
            <3>2. PICK u \in Seq(Nat) : u = <<h, mi, sec>> /\ Len(u) = 3
                  <4>1. <<h, mi, sec>> \in Seq(Nat) /\ Len(<<h, mi, sec>>) = 3
                        OBVIOUS
                  <4>2. QED
                        BY <4>1, Zenon
            <3>3. PICK one \in Nat, three \in Nat : one = 1 /\ three = 3
                  OBVIOUS
            <3>4. \A j \in 1..3 : t[one + j - 1] = u[j]
                  <4>1. t[1] = u[1] /\ t[2] = u[2] /\ t[3] = u[3]
                        BY <3>1, <3>2
                  <4>2. \A j \in 1..3 : j = 1 \/ j = 2 \/ j = 3
                        OBVIOUS
                  <4>3. \A j \in 1..3 : t[j] = u[j]
                        BY <4>1, <4>2, Zenon
                  <4>4. \A j \in 1..3 : one + j - 1 = j
                        BY <3>3
                  <4>5. QED
                        BY <4>3, <4>4
            <3>5. Holds(t, one, u)
                  <4>1. one + Len(u) <= Len(t) + 1 /\ 1..Len(u) = 1..3
                        BY <3>1, <3>2, <3>3
                  <4>2. QED
                        BY <3>4, <4>1, Zenon DEF Holds
            <3>6. SubSeq(t, one, one + three - 1) = u
                  <4>1. one >= 1 /\ three = Len(u)
                        BY <3>2, <3>3
                  <4>2. QED
                        BY <3>5, <4>1, CutOut
            <3>7. one + three - 1 = 3
                  BY <3>3
            <3>8. QED
                  BY <1>2, <3>1, <3>2, <3>3, <3>6, <3>7
      <2>3. /\ v.offset[1] = oh /\ v.offset[2] = om
            BY <1>3
      <2>4. <<NumberIn(SubSeq(s, 1, 4)), NumberIn(SubSeq(s, 6, 7)), NumberIn(SubSeq(s, 9, 10))>> = v.date
            BY <1>1, <1>49, <1>50, <1>51
      <2>5. <<NumberIn(SubSeq(s, 12, 13)), NumberIn(SubSeq(s, 15, 16)), NumberIn(SubSeq(s, 18, 19))>>
              = SubSeq(v.time, 1, 3)
            BY <1>52, <1>53, <1>54, <2>2
      <2>6. (IF s[26 + fl - 5] = Minus THEN -1 ELSE 1)
              * (60 * NumberIn(SubSeq(s, 26 + fl - 4, 26 + fl - 3)) + NumberIn(SubSeq(s, 26 + fl - 1, 26 + fl)))
              = 60 * v.offset[1] + v.offset[2]
            BY <1>55, <1>56, <1>58, <1>59, <2>1, <2>3
      <2>7. /\ Len(s) - 7 = 26 + fl - 7 /\ Len(s) - 5 = 26 + fl - 5 /\ Len(s) - 4 = 26 + fl - 4
            /\ Len(s) - 3 = 26 + fl - 3 /\ Len(s) - 1 = 26 + fl - 1 /\ Len(s) = 26 + fl
            BY <1>30
      <2>8. scale \in 1..9 =>
              NumberIn(SubSeq(s, 21, Len(s) - 7)) = v.time[4] \div (10^(9 - scale))
            BY <1>57, <2>7
      <2>9. (IF s[Len(s) - 5] = Minus THEN -1 ELSE 1)
              * (60 * NumberIn(SubSeq(s, Len(s) - 4, Len(s) - 3)) + NumberIn(SubSeq(s, Len(s) - 1, Len(s))))
              = 60 * v.offset[1] + v.offset[2]
            BY <2>6, <2>7
      <2>10. QED
            BY <2>4, <2>5, <2>8, <2>9, Zenon DEF SaysMoment
<1>61. QED
      BY <1>30, <1>31, <1>60

-----------------------------------------------------------------------------
(* The number a text says.                                                 *)

StartsWithDigit(s, first) == first <= Len(s) /\ s[first] \in Digits

\* It starts with the number: digits after a sign, if there is one; or with no
\* digit there, and says none.
SaysNumeral(s, n) ==
  \/ \E zeros, magnitude \in Nat :
       \/ n = magnitude /\ DigitsAt(s, 1, zeros, magnitude)
       \/ n = magnitude /\ s[1] = Plus /\ DigitsAt(s, 2, zeros, magnitude)
       \/ n = -magnitude /\ s[1] = Minus /\ DigitsAt(s, 2, zeros, magnitude)
  \/ /\ n = NotANumber
     /\ IF Len(s) > 0 /\ s[1] \in {Plus, Minus} THEN ~StartsWithDigit(s, 2)
                                              ELSE ~StartsWithDigit(s, 1)

\* So it does after blanks.
SaysNumber(s, n) ==
  \E k \in 0..Len(s) : BlanksAt(s, k) /\ SaysNumeral(SubSeq(s, k + 1, Len(s)), n)

LEMMA NumeralSays ==
  ASSUME NEW s \in Seq(Nat), NEW n, SaysNumeral(s, n)
  PROVE  Numeral(s) = n /\ n \in Int \cup {NotANumber}
<1>1. ASSUME NEW zeros \in Nat, NEW magnitude \in Nat, n = magnitude,
             DigitsAt(s, 1, zeros, magnitude)
      PROVE  Numeral(s) = n /\ n \in Int
      <2>1. PICK first \in Nat : first = 1
            OBVIOUS
      <2>2. DigitsAt(s, first, zeros, magnitude) /\ (first = 2 => s[1] \in {Plus, Minus})
            BY <1>1, <2>1
      <2>3. Numeral(s) = magnitude
            BY <2>1, <2>2, NumeralSaid
      <2>4. QED
            BY <1>1, <2>3
<1>2. ASSUME NEW zeros \in Nat, NEW magnitude \in Nat, s[1] \in {Plus, Minus},
             n = (IF s[1] = Minus THEN -magnitude ELSE magnitude),
             DigitsAt(s, 2, zeros, magnitude)
      PROVE  Numeral(s) = n /\ n \in Int
      <2>1. PICK first \in Nat : first = 2
            OBVIOUS
      <2>2. DigitsAt(s, first, zeros, magnitude) /\ (first = 2 => s[1] \in {Plus, Minus})
            BY <1>2, <2>1
      <2>3. Numeral(s) = IF first = 2 /\ s[1] = Minus THEN -magnitude ELSE magnitude
            BY <2>1, <2>2, NumeralSaid
      <2>4. QED
            BY <1>2, <2>1, <2>3
<1>3. ASSUME NEW zeros \in Nat, NEW magnitude \in Nat, DigitsAt(s, 2, zeros, magnitude),
             (n = magnitude /\ s[1] = Plus) \/ (n = -magnitude /\ s[1] = Minus)
      PROVE  Numeral(s) = n /\ n \in Int
      <2>1. Plus # Minus
            BY DEF Plus, Minus
      <2>2. QED
            BY <1>2, <1>3, <2>1
<1>4. CASE /\ n = NotANumber
           /\ IF Len(s) > 0 /\ s[1] \in {Plus, Minus} THEN ~StartsWithDigit(s, 2)
                                                    ELSE ~StartsWithDigit(s, 1)
      <2>1. PICK first \in Nat : first = IF Len(s) > 0 /\ s[1] \in {Plus, Minus} THEN 2 ELSE 1
            OBVIOUS
      <2>2. ~(first <= Len(s) /\ s[first] \in Digits)
            BY <1>4, <2>1 DEF StartsWithDigit
      <2>3. first > Len(s) \/ s[first] \notin Digits
            BY <2>2
      <2>4. Numeral(s) = NotANumber
            BY <2>1, <2>3 DEF Numeral
      <2>5. QED
            BY <1>4, <2>4
<1>5. QED
      BY <1>1, <1>3, <1>4 DEF SaysNumeral

\* std::stoll() and std::stoull() read the number that the text says.
LEMMA NumberSays ==
  ASSUME NEW s \in Seq(Nat), NEW n, SaysNumber(s, n)
  PROVE  NumberIn(s) = n /\ n \in Int \cup {NotANumber}
<1>1. PICK k \in 0..Len(s) : BlanksAt(s, k) /\ SaysNumeral(SubSeq(s, k + 1, Len(s)), n)
      BY DEF SaysNumber
<1>2. PICK t \in Seq(Nat) : t = SubSeq(s, k + 1, Len(s))
      <2>1. \A i \in (k + 1)..Len(s) : s[i] \in Nat
            BY ElementOfSeq
      <2>2. SubSeq(s, k + 1, Len(s)) \in Seq(Nat)
            BY <2>1, SubSeqProperties
      <2>3. QED
            BY <2>2
<1>3. Trimmed(s) = t
      BY <1>1, <1>2, TrimmedIs
<1>4. Numeral(t) = n /\ n \in Int \cup {NotANumber}
      BY <1>1, <1>2, NumeralSays
<1>5. QED
      BY <1>3, <1>4 DEF NumberIn
===============================================================================
