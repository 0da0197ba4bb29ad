------------------------- MODULE ColumnValue_proofs --------------------------
(***************************************************************************)
(* Proofs about ColumnValue, for any columns, pieces of any size, integers *)
(* of any widths, texts of any length and any failures.                    *)
(***************************************************************************)
EXTENDS ColumnValue, Conversion_proofs

-----------------------------------------------------------------------------
(* Integers.                                                               *)

\* How many integers of a type there are: some, and as many below zero as not.
LEMMA SizeIsEven ==
  ASSUME NEW t, t.bits \in {8, 16, 32, 64}
  PROVE  Size(t) \in Nat /\ Size(t) >= 4 /\ Size(t) % 2 = 0
  BY SizesAssumption DEF Size

\* What is left of a number that is in range when it is divided by the range.
LEMMA RemainderOfSmall ==
  ASSUME NEW s \in Nat \ {0}, NEW n \in 0..(s - 1)
  PROVE  n % s = n
  OBVIOUS

LEMMA RemainderOfNegative ==
  ASSUME NEW s \in Nat \ {0}, NEW n \in -s..(-1)
  PROVE  n % s = n + s
  OBVIOUS

IsIntegerType(t) == t.bits \in {8, 16, 32, 64} /\ (t.signed = TRUE \/ t.signed = FALSE)

\* A cast keeps what the type holds.
LEMMA CastKeeps ==
  ASSUME NEW t, IsIntegerType(t), NEW n \in Values(t)
  PROVE  Cast(n, t) = n
<1> USE DEF IsIntegerType
<1>1. PICK signed \in BOOLEAN : signed = t.signed
      OBVIOUS
<1>2. PICK s : s = Size(t)
      OBVIOUS
<1>3. s \in Nat /\ s >= 4 /\ s % 2 = 0
      BY <1>2, SizeIsEven
<1>4. PICK half \in Nat : s = half + half /\ s \div 2 = half
      BY <1>3
<1>5. Values(t) = IF signed THEN -half..(half - 1) ELSE 0..(s - 1)
      BY <1>1, <1>2, <1>4, Zenon DEF Values
<1>6. CASE n >= 0
      <2>1. n \in 0..(s - 1)
            BY <1>3, <1>4, <1>5, <1>6
      <2>2. n % s = n
            BY <2>1, <1>3, RemainderOfSmall
      <2>3. QED
            BY <2>2, <1>2 DEF Cast
<1>7. CASE n < 0
      <2>1. signed /\ n \in -half..(-1)
            BY <1>3, <1>4, <1>5, <1>7
      <2>2. n % s = n + s
            <3>1. s \in Nat \ {0} /\ n \in -s..(-1)
                  BY <2>1, <1>3, <1>4
            <3>2. QED
                  BY <3>1, RemainderOfNegative
      <2>3. Values(t) = -half..(half - 1)
            BY <1>5, <2>1, Zenon
      <2>4. n + s \notin -half..(half - 1)
            BY <2>1, <1>4
      <2>5. Cast(n, t) = (n + s) - s
            BY <2>2, <2>3, <2>4, <1>2, Zenon DEF Cast
      <2>6. (n + s) - s = n
            BY <2>1, <1>3, <1>4
      <2>7. QED
            BY <2>5, <2>6, Zenon
<1>8. QED
      BY <1>3, <1>4, <1>5, <1>6, <1>7

\* from_string(): a number is read as itself if the type holds it; if not it is
\* refused, but that a negative one wraps at 64 bits as an unsigned type.
LEMMA FromNumberSays ==
  ASSUME NEW t, IsIntegerType(t), NEW n \in Int
  PROVE  /\ n \in Values(t) => FromNumber(n, t) = n
         /\ \/ FromNumber(n, t) \in {n, OutOfRange}
            \/ n < 0 /\ ~t.signed /\ FromNumber(n, t) = n + Sizes[64]
<1>1. PICK signed \in BOOLEAN : signed = t.signed
      BY DEF IsIntegerType
<1>2. PICK s : s = Size(t)
      OBVIOUS
<1>3. PICK long : long = Sizes[64]
      OBVIOUS
<1>4. s \in Nat /\ s % 2 = 0 /\ long \in Nat /\ long % 2 = 0 /\ s >= 4 /\ s <= long
      BY <1>2, <1>3, SizesAssumption DEF Size, IsIntegerType
<1>5. PICK half \in Nat, most \in Nat :
        s = half + half /\ s \div 2 = half /\ long = most + most /\ long \div 2 = most
      BY <1>4
<1>6. Values(t) = IF signed THEN -half..(half - 1) ELSE 0..(s - 1)
      BY <1>1, <1>2, <1>5, Zenon DEF Values
<1>7. PICK longest : longest = IntegerType(64, t.signed)
      OBVIOUS
<1>8. IsIntegerType(longest) /\ longest.signed = signed /\ Size(longest) = long
      BY <1>1, <1>3, <1>7 DEF IntegerType, IsIntegerType, Size
<1>9. Values(longest) = IF signed THEN -most..(most - 1) ELSE 0..(long - 1)
      BY <1>5, <1>8, Zenon DEF Values
<1>10. Values(t) \subseteq Values(longest)
      BY <1>4, <1>5, <1>6, <1>9
<1>11. OutOfRange \notin Int
      BY ErrorsAssumption
<1>12. Parsed(n, t) =
         IF signed THEN IF n \in Values(longest) THEN n ELSE OutOfRange
         ELSE IF n \in Values(longest) \/ -n \in Values(longest) THEN Cast(n, longest) ELSE OutOfRange
      BY <1>1, <1>7 DEF Parsed
<1>13. FromNumber(n, t) \in {Parsed(n, t), OutOfRange}
      BY DEF FromNumber
<1>14. n \in Values(longest) => Parsed(n, t) = n
      <2>1. SUFFICES ASSUME n \in Values(longest) PROVE Parsed(n, t) = n
            OBVIOUS
      <2>2. Cast(n, longest) = n
            BY <1>8, <2>1, CastKeeps
      <2>3. QED
            BY <1>12, <2>1, <2>2
<1>15. n \in Values(t) => FromNumber(n, t) = n
      <2>1. SUFFICES ASSUME n \in Values(t) PROVE FromNumber(n, t) = n
            OBVIOUS
      <2>2. Parsed(n, t) = n /\ n # OutOfRange
            BY <1>10, <1>11, <1>14, <2>1
      <2>3. QED
            BY <2>1, <2>2 DEF FromNumber
<1>16. CASE n \in Values(longest)
      BY <1>13, <1>14, <1>15, <1>16
<1>17. CASE n \notin Values(longest) /\ ~signed /\ -n \in Values(longest)
      <2>1. n < 0 /\ n \in -long..(-1) /\ long \in Nat \ {0} /\ n + long \in 0..(long - 1)
            BY <1>4, <1>9, <1>17
      <2>2. n % long = n + long
            BY <2>1, RemainderOfNegative
      <2>3. n + long \in Values(longest)
            BY <1>9, <1>17, <2>1
      <2>4. Cast(n, longest) = n + long
            BY <1>8, <2>2, <2>3 DEF Cast
      <2>5. Parsed(n, t) = n + long
            BY <1>12, <1>17, <2>4
      <2>6. QED
            BY <1>1, <1>3, <1>13, <1>15, <1>17, <2>1, <2>5
<1>18. CASE n \notin Values(longest) /\ (signed \/ -n \notin Values(longest))
      BY <1>12, <1>13, <1>15, <1>18
<1>19. QED
      BY <1>16, <1>17, <1>18

-----------------------------------------------------------------------------
(* Columns.                                                                *)

\* The C type of each SQL type that has no integers.
LEMMA OtherKinds ==
  ASSUME NEW sql \in DOMAIN OtherTypes
  PROVE  /\ OtherTypes[sql] \in {"char", "wide", "binary", "date", "time", "timestamp", "offset"}
         /\ OtherTypes[sql] = "binary" <=> sql = "binary"
         /\ OtherTypes[sql] \in {"char", "wide"} <=>
              sql \in {"decimal", "char", "longchar", "other", "wchar", "xml", "longwchar"}
         /\ OtherTypes[sql] \in {"time", "timestamp", "offset"} =>
              sql \in {"time", "timestamp", "offset"}
  BY DEF OtherTypes

\* What is bound has a C type, and room if its size is not settled.
LEMMA ColumnKnown ==
  ASSUME column \in Columns
  PROVE  /\ {column.unsigned, column.unbound, column.null} \subseteq BOOLEAN
         /\ column.units \in Seq(Nat) /\ Len(column.units) \in Nat
         /\ {Integral, IsText, Dated, Bound, Truncated} \subseteq BOOLEAN
         /\ IsText => Room(column.sql, column.size) \in Nat
         /\ CType = "binary" => ~Bound
         /\ Dated /\ CType \in {"time", "timestamp", "offset"} /\ ~column.null =>
              column.moment.time # None
<1>1. /\ {column.unsigned, column.unbound, column.null} \subseteq BOOLEAN
      /\ column.size \in Nat
      /\ column.sql \in DOMAIN IntegerBits \cup DOMAIN OtherTypes
      /\ column.units \in Seq(Nat)
      /\ column.sql \in {"time", "timestamp", "offset"} /\ ~column.null =>
           column.moment.time # None
      BY ColumnsAssumption
<1>2. Len(column.units) \in Nat
      BY <1>1
<1>3. {Integral, IsText, Dated, Bound, Truncated} \subseteq BOOLEAN
      BY DEF Integral, IsText, Dated, Bound, Truncated
<1>4. CASE Integral
      <2>1. ~IsText /\ ~Dated /\ CType # "binary"
            BY <1>4 DEF IsText, Dated, CType
      <2>2. QED
            BY <1>1, <1>2, <1>3, <2>1
<1>5. CASE ~Integral
      <2>1. column.sql \in DOMAIN OtherTypes /\ CType = OtherTypes[column.sql]
            BY <1>1, <1>5 DEF Integral, CType
      <2>2. IsText => Room(column.sql, column.size) \in Nat
            BY <1>1, <2>1, OtherKinds DEF IsText, Room
      <2>3. CType = "binary" => Room(column.sql, column.size) = 0 /\ IsText
            BY <2>1, OtherKinds DEF IsText, Room
      <2>4. CType \in {"time", "timestamp", "offset"} =>
              column.sql \in {"time", "timestamp", "offset"}
            BY <2>1, OtherKinds
      <2>5. QED
            BY <1>1, <1>2, <1>3, <2>2, <2>3, <2>4 DEF Bound
<1>6. QED
      BY <1>4, <1>5

-----------------------------------------------------------------------------
(* Pieces.                                                                 *)

\* The part of a string from a to b.
LEMMA PartOf ==
  ASSUME NEW s \in Seq(Nat), NEW a \in 1..(Len(s) + 1), NEW b \in (a - 1)..Len(s)
  PROVE  /\ SubSeq(s, a, b) \in Seq(Nat) /\ Len(SubSeq(s, a, b)) = b - a + 1
         /\ \A i \in 1..(b - a + 1) : SubSeq(s, a, b)[i] = s[a + i - 1]
<1>1. a \in Int /\ b \in Int /\ \A i \in a..b : s[i] \in Nat
      BY ElementOfSeq
<1>2. /\ SubSeq(s, a, b) \in Seq(Nat)
      /\ Len(SubSeq(s, a, b)) = IF a <= b THEN b - a + 1 ELSE 0
      /\ \A i \in 1..(b - a + 1) : SubSeq(s, a, b)[i] = s[a + i - 1]
      BY <1>1, SubSeqProperties
<1>3. QED
      BY <1>1, <1>2

\* A terminator past the end of a string is not in its first part.
LEMMA BeforeTerminator ==
  ASSUME NEW s \in Seq(Nat)
  PROVE  SubSeq(s \o <<0>>, 1, Len(s)) = s
<1>1. <<0>> \in Seq(Nat) /\ Len(<<0>>) = 1 /\ Len(s) \in Nat
      OBVIOUS
<1>2. PICK longer : longer = s \o <<0>>
      OBVIOUS
<1>3. /\ longer \in Seq(Nat) /\ Len(longer) = Len(s) + 1
      /\ \A i \in 1..Len(s) : longer[i] = s[i]
      <2>1. /\ s \o <<0>> \in Seq(Nat) /\ Len(s \o <<0>>) = Len(s) + Len(<<0>>)
            /\ \A i \in 1..Len(s) + Len(<<0>>) :
                 (s \o <<0>>)[i] = IF i <= Len(s) THEN s[i] ELSE <<0>>[i - Len(s)]
            BY <1>1, ConcatProperties
      <2>2. QED
            BY <1>1, <1>2, <2>1
<1>4. 1 \in 1..(Len(longer) + 1) /\ Len(s) \in (1 - 1)..Len(longer)
      BY <1>1, <1>3
<1>5. PICK part : part = SubSeq(longer, 1, Len(s))
      OBVIOUS
<1>6. /\ part \in Seq(Nat) /\ Len(part) = Len(s)
      /\ \A i \in 1..Len(s) : part[i] = longer[i]
      BY <1>1, <1>3, <1>4, <1>5, PartOf
<1>7. part = s
      BY <1>1, <1>3, <1>6, SeqEqual
<1>8. QED
      BY <1>2, <1>5, <1>7

LEMMA PayloadSome == Payload \in Nat \ {0}
  BY PieceAssumption DEF Payload

\* What is taken of a buffer is what follows in the value.
LEMMA BufferContinues ==
  ASSUME column.units \in Seq(Nat), given \in 0..Len(column.units)
  PROVE  /\ Len(Rest) = Len(column.units) - given
         /\ Len(Rest) > Payload =>
              SubSeq(Buffer, 1, Payload) = SubSeq(column.units, given + 1, given + Payload)
         /\ Len(Rest) <= Payload =>
              SubSeq(Buffer, 1, Len(Rest)) = SubSeq(column.units, given + 1, Len(column.units))
<1>1. PICK s \in Seq(Nat) : s = column.units
      OBVIOUS
<1>2. PICK n \in 0..Len(s) : n = given
      BY <1>1
<1>3. PICK p \in Nat \ {0} : p = Payload
      BY PayloadSome
<1>4. Len(s) \in Nat /\ n + 1 \in 1..(Len(s) + 1) /\ Len(s) \in ((n + 1) - 1)..Len(s)
      OBVIOUS
<1>5. PICK rest : rest = SubSeq(s, n + 1, Len(s))
      OBVIOUS
<1>6. /\ rest \in Seq(Nat) /\ Len(rest) = Len(s) - n
      /\ \A i \in 1..(Len(s) - n) : rest[i] = s[n + i]
      <2>1. /\ SubSeq(s, n + 1, Len(s)) \in Seq(Nat)
            /\ Len(SubSeq(s, n + 1, Len(s))) = Len(s) - (n + 1) + 1
            /\ \A i \in 1..(Len(s) - (n + 1) + 1) : SubSeq(s, n + 1, Len(s))[i] = s[n + 1 + i - 1]
            BY <1>4, PartOf
      <2>2. QED
            BY <2>1, <1>4, <1>5
<1>7. Rest = rest
      BY <1>1, <1>2, <1>5 DEF Rest
<1>8. CASE Len(rest) > p
      <2>1. 1 \in 1..(Len(rest) + 1) /\ p \in (1 - 1)..Len(rest)
            BY <1>4, <1>6, <1>8
      <2>2. PICK put : put = SubSeq(rest, 1, p)
            OBVIOUS
      <2>3. put \in Seq(Nat) /\ Len(put) = p /\ \A i \in 1..p : put[i] = rest[i]
            <3>1. /\ SubSeq(rest, 1, p) \in Seq(Nat) /\ Len(SubSeq(rest, 1, p)) = p - 1 + 1
                  /\ \A i \in 1..(p - 1 + 1) : SubSeq(rest, 1, p)[i] = rest[1 + i - 1]
                  BY <1>6, <2>1, PartOf
            <3>2. QED
                  BY <3>1, <2>2
      <2>4. n + 1 \in 1..(Len(s) + 1) /\ n + p \in ((n + 1) - 1)..Len(s)
            BY <1>4, <1>6, <1>8
      <2>5. PICK part : part = SubSeq(s, n + 1, n + p)
            OBVIOUS
      <2>6. part \in Seq(Nat) /\ Len(part) = p /\ \A i \in 1..p : part[i] = s[n + i]
            <3>1. /\ SubSeq(s, n + 1, n + p) \in Seq(Nat)
                  /\ Len(SubSeq(s, n + 1, n + p)) = (n + p) - (n + 1) + 1
                  /\ \A i \in 1..((n + p) - (n + 1) + 1) :
                       SubSeq(s, n + 1, n + p)[i] = s[n + 1 + i - 1]
                  BY <2>4, PartOf
            <3>2. QED
                  BY <3>1, <2>5, <1>4
      <2>7. \A i \in 1..p : rest[i] = s[n + i]
            BY <1>4, <1>6, <1>8
      <2>8. put = part
            <3>1. Len(put) = Len(part) /\ \A i \in 1..Len(put) : put[i] = part[i]
                  BY <2>3, <2>6, <2>7
            <3>2. QED
                  BY <3>1, <2>3, <2>6, SeqEqual
      <2>9. SubSeq(put \o <<0>>, 1, p) = put
            BY <2>3, BeforeTerminator
      <2>10. Buffer = put \o <<0>>
            BY <1>3, <1>7, <1>8, <2>2 DEF Buffer
      <2>11. SubSeq(Buffer, 1, p) = part
            BY <2>8, <2>9, <2>10
      <2>12. ~(Len(rest) <= p)
            BY <1>4, <1>6, <1>8
      <2>13. QED
            BY <2>5, <2>11, <2>12, <1>1, <1>2, <1>3, <1>6, <1>7
<1>9. CASE ~(Len(rest) > p)
      <2>1. Buffer = rest \o <<0>>
            BY <1>3, <1>7, <1>9 DEF Buffer
      <2>2. SubSeq(rest \o <<0>>, 1, Len(rest)) = rest
            BY <1>6, BeforeTerminator
      <2>3. QED
            BY <2>1, <2>2, <1>1, <1>2, <1>3, <1>5, <1>6, <1>7, <1>9
<1>10. QED
      BY <1>8, <1>9

-----------------------------------------------------------------------------
(* Types.                                                                  *)

\* What an answer is and what it is of.
LEMMA Kinds ==
  /\ \A T, x : /\ Answer(T, x).kind \in {"value", "throws"} /\ Answer(T, x).as = T
               /\ Throws(T, x).kind = "throws" /\ Throws(T, x).as = T /\ Throws(T, x).why = x
               /\ Value(T, x).kind = "value" /\ Value(T, x).as = T /\ Value(T, x).value = x
  /\ \A T : Null(T).kind = "null" /\ Null(T).as = T
  /\ NoAnswer.kind = "none"
  BY DEF Answer, Throws, Value, Null, NoAnswer

\* The driver says whether a value is null, and whether it was had.
LEMMA IsNullKnows ==
  ASSUME column \in Columns, spent \in BOOLEAN, null \in BOOLEAN,
         NEW known \in AfterIsNull
  PROVE  /\ known.null \in BOOLEAN /\ known.spent \in BOOLEAN
         /\ \/ known.null = null /\ known.spent = spent
            \/ /\ known.null = column.null /\ ~Bound
               /\ known.spent = (column.null \/ (CType = "binary" /\ given = Len(column.units)))
<1>1. PICK had : had = (column.null \/ (CType = "binary" /\ given = Len(column.units)))
      OBVIOUS
<1>2. had \in BOOLEAN /\ column.null \in BOOLEAN
      BY <1>1, ColumnKnown
<1>3. \/ known = [null |-> null, spent |-> spent]
      \/ known = [null |-> column.null, spent |-> had] /\ ~Bound
      BY <1>1 DEF AfterIsNull
<1>4. CASE known = [null |-> null, spent |-> spent]
      BY <1>4
<1>5. CASE known = [null |-> column.null, spent |-> had] /\ ~Bound
      <2>1. known.null = column.null /\ known.spent = had
            BY <1>5
      <2>2. QED
            BY <1>1, <1>2, <1>5, <2>1
<1>6. QED
      BY <1>3, <1>4, <1>5

\* What has been read is a string, the driver having given so much at least.
Typed == TypeOK /\ out \in Seq(Nat)

\* A column is the same from the first step to the last.
LEMMA ColumnStays ==
  ASSUME [Next]_vars
  PROVE  /\ column' = column /\ CType' = CType /\ Integral' = Integral /\ IsText' = IsText
         /\ Dated' = Dated /\ Bound' = Bound /\ Truncated' = Truncated /\ Whole' = Whole
         /\ \A T : InPieces(T)' = InPieces(T) /\ Takes(T)' = Takes(T)
<1>1. column' = column
      BY DEF Next, vars, IsNull, Get, GetPiece
<1>2. CType' = CType /\ Integral' = Integral /\ IsText' = IsText /\ Dated' = Dated
      BY <1>1 DEF CType, Integral, IsText, Dated
<1>3. Bound' = Bound /\ Cut' = Cut
      BY <1>1, <1>2 DEF Bound, Cut
<1>4. Truncated' = Truncated /\ Whole' = Whole
      BY <1>1, <1>2, <1>3 DEF Truncated, Whole
<1>5. \A T : InPieces(T)' = InPieces(T) /\ Takes(T)' = Takes(T)
      BY <1>2, <1>3, <1>4 DEF InPieces, Takes
<1>6. QED
      BY <1>1, <1>2, <1>3, <1>4, <1>5

LEMMA TypesInit == Init => Typed
<1> SUFFICES ASSUME Init PROVE Typed
    OBVIOUS
<1>1. column \in Columns /\ {spent, null} \subseteq BOOLEAN
      BY ColumnKnown DEF Init
<1>2. given \in 0..(IF IsText THEN Len(column.units) ELSE 0)
      BY ColumnKnown DEF Init
<1>3. out \in Seq(Nat) /\ Len(out) = 0
      BY EmptySeq DEF Init
<1>4. QED
      BY <1>1, <1>2, <1>3, Kinds DEF Init, Typed, TypeOK

\* Reading a piece: what is read is a string no longer than what was given.
LEMMA PieceTyped ==
  ASSUME Typed, GetPiece
  PROVE  /\ given' \in 0..Len(column.units) /\ {spent', null'} \subseteq BOOLEAN
         /\ reading' \in {reading, "nothing"}
         /\ out' \in Seq(Nat) /\ Len(out') <= given'
         /\ answer'.kind \in {"none", "value", "null", "throws"}
<1>1. IsText
      BY DEF Typed, TypeOK, GetPiece, InPieces
<1>2. /\ given \in 0..Len(column.units) /\ out \in Seq(Nat) /\ Len(out) <= given
      /\ {spent, null} \subseteq BOOLEAN /\ answer.kind \in {"none", "value", "null", "throws"}
      BY <1>1 DEF Typed, TypeOK
<1>3. column.units \in Seq(Nat) /\ Len(column.units) \in Nat
      BY ColumnKnown DEF Typed, TypeOK
<1>4. <<>> \in Seq(Nat) /\ Len(<<>>) = 0
      BY EmptySeq
<1>5. ASSUME NEW s, NEW isNull \in BOOLEAN, Ends(s, isNull),
             given' \in 0..Len(column.units), spent' \in BOOLEAN
      PROVE  /\ reading' = "nothing" /\ out' = <<>> /\ {spent', null'} \subseteq BOOLEAN
             /\ answer'.kind \in {"none", "value", "null", "throws"}
             /\ out' \in Seq(Nat) /\ Len(out') <= given'
      BY <1>5, <1>4, <1>3, Kinds DEF Ends
<1>6. CASE spent /\ Ends(out, null) /\ UNCHANGED <<given, spent>>
      <2>1. given' \in 0..Len(column.units) /\ spent' \in BOOLEAN /\ null \in BOOLEAN
            BY <1>2, <1>6
      <2>2. QED
            BY <2>1, <1>5, <1>6
<1>7. CASE Ends(out, TRUE) /\ spent' = TRUE /\ UNCHANGED given
      <2>1. given' \in 0..Len(column.units) /\ spent' \in BOOLEAN /\ TRUE \in BOOLEAN
            BY <1>2, <1>7
      <2>2. QED
            BY <2>1, <1>5, <1>7
<1>8. CASE /\ Ends(out \o SubSeq(Buffer, 1, Taken(Len(Rest))), null)
           /\ given' = Len(column.units) /\ spent' = TRUE
      <2>1. given' \in 0..Len(column.units) /\ spent' \in BOOLEAN /\ null \in BOOLEAN
            BY <1>2, <1>3, <1>8
      <2>2. QED
            BY <2>1, <1>5, <1>8
<1>9. CASE /\ Len(Rest) > Payload
           /\ \E told \in {Len(Rest), NoTotal} : out' = out \o SubSeq(Buffer, 1, Taken(told))
           /\ given' = given + Payload
           /\ UNCHANGED <<spent, null, reading, answer>>
      <2>1. Payload \in Nat \ {0} /\ Len(Rest) = Len(column.units) - given
            BY <1>2, <1>3, BufferContinues, PayloadSome
      <2>2. out' = out \o SubSeq(Buffer, 1, Payload)
            BY <1>9 DEF Taken
      <2>3. SubSeq(Buffer, 1, Payload) = SubSeq(column.units, given + 1, given + Payload)
            BY <1>2, <1>3, <1>9, BufferContinues
      <2>4. given + Payload \in 0..Len(column.units)
            BY <1>2, <1>3, <1>9, <2>1
      <2>5. PICK taken : taken = SubSeq(column.units, given + 1, given + Payload)
            OBVIOUS
      <2>6. taken \in Seq(Nat) /\ Len(taken) = Payload
            <3>1. given + 1 \in 1..(Len(column.units) + 1)
                  BY <1>2, <1>3
            <3>2. given + Payload \in ((given + 1) - 1)..Len(column.units)
                  BY <1>2, <1>3, <2>1, <2>4
            <3>3. /\ SubSeq(column.units, given + 1, given + Payload) \in Seq(Nat)
                  /\ Len(SubSeq(column.units, given + 1, given + Payload))
                       = (given + Payload) - (given + 1) + 1
                  BY <3>1, <3>2, <1>3, PartOf
            <3>4. QED
                  BY <3>3, <1>2, <1>3, <2>1, <2>5
      <2>7. out' = out \o taken
            BY <2>2, <2>3, <2>5
      <2>8. out \o taken \in Seq(Nat) /\ Len(out \o taken) = Len(out) + Len(taken)
            BY <1>2, <2>6, ConcatProperties
      <2>9. out' \in Seq(Nat) /\ Len(out') <= given'
            <3>1. Len(out) \in Nat /\ given' = given + Payload
                  BY <1>2, <1>9
            <3>2. Len(out) + Len(taken) <= given + Payload
                  BY <3>1, <1>2, <1>3, <2>1, <2>6
            <3>3. QED
                  BY <3>1, <3>2, <2>7, <2>8
      <2>10. QED
            BY <1>2, <1>9, <2>4, <2>9
<1>10. CASE /\ reading' = "nothing" /\ out' = <<>> /\ answer' = Throws(reading, DatabaseError)
            /\ UNCHANGED <<given, spent, null>>
      BY <1>2, <1>3, <1>4, <1>10, Kinds
<1>11. QED
      BY <1>6, <1>7, <1>8, <1>9, <1>10 DEF GetPiece

\* Asking for a value leaves what has been given, and reading in pieces begins
\* with nothing read.
LEMMA GetTyped ==
  ASSUME Typed, NEW T \in Targets, Get(T)
  PROVE  /\ given' = given /\ {spent', null'} \subseteq BOOLEAN /\ out' = <<>> /\ begun' \in 0..2
         /\ reading' = "nothing" \/ (reading' = T /\ InPieces(T))
         /\ answer'.kind \in {"none", "value", "null", "throws"}
<1>1. column \in Columns /\ spent \in BOOLEAN /\ null \in BOOLEAN /\ column.null \in BOOLEAN
      BY ColumnKnown DEF Typed, TypeOK
<1>2. given' = given /\ out' = <<>> /\ begun' \in 0..2 /\ reading = "nothing"
      BY DEF Get
<1>3. PICK known \in AfterIsNull :
       \/ /\ known.null
          /\ null' = TRUE /\ spent' = known.spent
          /\ answer' = Null(T) /\ UNCHANGED reading
       \/ /\ ~known.null /\ ~Takes(T)
          /\ null' = FALSE /\ spent' = known.spent
          /\ answer' = Throws(T, Incompatible) /\ UNCHANGED reading
       \/ /\ ~known.null /\ Takes(T) /\ InPieces(T)
          /\ null' = FALSE /\ spent' = known.spent
          /\ answer' = NoAnswer /\ reading' = T
       \/ /\ ~known.null /\ Takes(T) /\ Bound /\ ~InPieces(T)
          /\ answer' = Answer(T, Made(InBuffer, T)) /\ UNCHANGED <<null, spent, reading>>
       \/ /\ ~known.null /\ Takes(T) /\ ~Bound /\ ~IsText
          /\ GetFixed(T) /\ UNCHANGED reading
      BY DEF Get
<1>4. known.spent \in BOOLEAN
      BY <1>1, IsNullKnows
<1>5. reading' = "nothing" \/ (reading' = T /\ InPieces(T))
      BY <1>2, <1>3
<1>6. CASE GetFixed(T)
      <2>1. spent' \in BOOLEAN /\ null' \in BOOLEAN
            BY <1>1, <1>6 DEF GetFixed
      <2>2. answer'.kind \in {"value", "null", "throws"}
            BY <1>6, Kinds DEF GetFixed
      <2>3. QED
            BY <1>2, <1>5, <2>1, <2>2
<1>7. CASE ~GetFixed(T)
      <2>1. spent' \in BOOLEAN /\ null' \in BOOLEAN
            BY <1>1, <1>3, <1>4, <1>7
      <2>2. answer'.kind \in {"none", "value", "null", "throws"}
            BY <1>3, <1>7, Kinds
      <2>3. QED
            BY <1>2, <1>5, <2>1, <2>2
<1>8. QED
      BY <1>6, <1>7

\* Every call leaves what it should be.
LEMMA TypesStep == Typed /\ [Next]_vars => Typed'
<1> SUFFICES ASSUME Typed, [Next]_vars PROVE Typed'
    OBVIOUS
<1>1. /\ column' = column /\ IsText' = IsText /\ \A T : InPieces(T)' = InPieces(T)
      BY ColumnStays
<1>2. /\ column \in Columns /\ given \in 0..(IF IsText THEN Len(column.units) ELSE 0)
      /\ {spent, null} \subseteq BOOLEAN /\ begun \in 0..2 /\ out \in Seq(Nat)
      /\ reading \in Targets \cup {"nothing"} /\ (reading # "nothing" => InPieces(reading))
      /\ IsText => Len(out) <= given
      BY DEF Typed, TypeOK
<1>3. Len(column.units) \in Nat /\ <<>> \in Seq(Nat) /\ Len(<<>>) = 0
      BY <1>2, ColumnKnown, EmptySeq
<1>4. CASE IsNull
      <2>1. given' = given /\ reading' = reading /\ out' = out /\ begun' = begun
            BY <1>4 DEF IsNull
      <2>2. {spent', null'} \subseteq BOOLEAN
            <3>1. PICK known \in AfterIsNull : null' = known.null /\ spent' = known.spent
                  BY <1>4 DEF IsNull
            <3>2. known.null \in BOOLEAN /\ known.spent \in BOOLEAN
                  BY <1>2, IsNullKnows
            <3>3. QED
                  BY <3>1, <3>2
      <2>3. answer'.kind = "none"
            BY <1>4, Kinds DEF IsNull
      <2>4. QED
            BY <1>1, <1>2, <2>1, <2>2, <2>3 DEF Typed, TypeOK
<1>5. ASSUME NEW T \in Targets, Get(T)
      PROVE  Typed'
      <2>1. /\ given' = given /\ {spent', null'} \subseteq BOOLEAN /\ out' = <<>> /\ begun' \in 0..2
            /\ reading' = "nothing" \/ (reading' = T /\ InPieces(T))
            /\ answer'.kind \in {"none", "value", "null", "throws"}
            BY <1>5, GetTyped
      <2>2. /\ reading' \in Targets \cup {"nothing"}
            /\ reading' # "nothing" => InPieces(reading')
            BY <1>5, <2>1
      <2>3. IsText => Len(out') <= given'
            BY <1>2, <1>3, <2>1
      <2>4. QED
            BY <1>1, <1>2, <1>3, <2>1, <2>2, <2>3 DEF Typed, TypeOK
<1>6. CASE GetPiece
      <2>1. /\ given' \in 0..Len(column.units) /\ {spent', null'} \subseteq BOOLEAN
            /\ reading' \in {reading, "nothing"}
            /\ out' \in Seq(Nat) /\ Len(out') <= given'
            /\ answer'.kind \in {"none", "value", "null", "throws"}
            BY <1>6, PieceTyped
      <2>2. IsText /\ begun' = begun
            BY <1>2, <1>6 DEF GetPiece, InPieces
      <2>3. QED
            BY <1>1, <1>2, <2>1, <2>2 DEF Typed, TypeOK
<1>7. CASE UNCHANGED vars
      BY <1>1, <1>7 DEF vars, Typed, TypeOK
<1>8. QED
      BY <1>4, <1>5, <1>6, <1>7 DEF Next

\* While a value is read, what has been read of it is no longer than what the
\* driver has handed over, which is no longer than the value, and only values
\* that come in pieces are read so.
THEOREM TypesHold == Spec => []TypeOK
<1>1. Spec => []Typed
      BY TypesInit, TypesStep, PTL DEF Spec
<1>2. Typed => TypeOK
      BY DEF Typed
<1>3. QED
      BY <1>1, <1>2, PTL

-----------------------------------------------------------------------------
(* Answers.                                                                *)

\* The integer in a column is what is stored for it, whatever type it is bound as.
LEMMA StoredIsInteger ==
  ASSUME column \in Columns, Integral
  PROVE  Stored = column.integer /\ column.integer \in Int
<1>1. /\ column.sql \in DOMAIN IntegerBits /\ column.unsigned \in BOOLEAN
      /\ column.integer \in SqlValues(column.sql, column.unsigned)
      BY ColumnsAssumption DEF Integral
<1>2. PICK bits \in {8, 16, 32, 64} : bits = IntegerBits[column.sql]
      BY <1>1 DEF IntegerBits
<1>3. PICK signed \in BOOLEAN : signed = (column.sql = "bit" \/ ~column.unsigned)
      OBVIOUS
<1>4. BoundAs(column.sql, column.unsigned) = IntegerType(bits, signed)
      BY <1>2, <1>3, Zenon DEF BoundAs
<1>5. column.integer \in Values(IntegerType(bits, signed))
      <2>1. CASE column.sql = "bit"
            <3>1. column.integer \in 0..1
                  BY <1>1, <2>1 DEF SqlValues
            <3>2. signed = TRUE
                  BY <1>3, <2>1, Zenon
            <3>3. PICK s : s = Size(IntegerType(bits, signed))
                  OBVIOUS
            <3>4. s \in Nat /\ s >= 4 /\ s % 2 = 0
                  BY <3>3, SizeIsEven DEF IntegerType
            <3>5. IntegerType(bits, signed).signed = TRUE
                  BY <3>2 DEF IntegerType
            <3>6. Values(IntegerType(bits, signed)) = -(s \div 2)..(s \div 2 - 1)
                  BY <3>3, <3>5, Zenon DEF Values
            <3>7. column.integer \in -(s \div 2)..(s \div 2 - 1)
                  BY <3>1, <3>4
            <3>8. QED
                  BY <3>6, <3>7, Zenon
      <2>2. CASE column.sql # "bit"
            <3>1. signed = ~column.unsigned
                  BY <1>1, <1>3, <2>2
            <3>2. column.integer \in Values(IntegerType(IntegerBits[column.sql], ~column.unsigned))
                  BY <1>1, <2>2, Zenon DEF SqlValues
            <3>3. QED
                  BY <1>2, <3>1, <3>2, Zenon
      <2>3. QED
            BY <2>1, <2>2
<1>6. Values(IntegerType(bits, signed)) \subseteq Int
      BY SizeIsEven DEF Values, IntegerType
<1>7. Cast(column.integer, IntegerType(bits, signed)) = column.integer
      <2>1. PICK t : t = IntegerType(bits, signed)
            OBVIOUS
      <2>2. IsIntegerType(t)
            BY <2>1 DEF IntegerType, IsIntegerType
      <2>3. Cast(column.integer, t) = column.integer
            <3>1. column.integer \in Values(t)
                  BY <1>5, <2>1
            <3>2. QED
                  BY <2>2, <3>1, CastKeeps
      <2>4. QED
            BY <2>1, <2>3
<1>8. QED
      BY <1>4, <1>5, <1>6, <1>7 DEF Stored

\* A type is one of text, bytes, a moment or integers.
LEMMA TargetsApart ==
  ASSUME NEW T
  PROVE  /\ T = "bytes" => T \notin TextTargets \cup TimeTargets /\ ~IsInteger(T)
         /\ T \in TextTargets => T # "bytes" /\ T \notin TimeTargets /\ ~IsInteger(T)
         /\ T \in TimeTargets => T # "bytes" /\ T \notin TextTargets /\ ~IsInteger(T)
         /\ IsInteger(T) => T # "bytes" /\ T \notin TextTargets /\ T \notin TimeTargets
  BY DEF TextTargets, TimeTargets, IsInteger, IntegerTargets

-----------------------------------------------------------------------------
(* What columns hold.                                                      *)

\* The units of a text are spelled by code points, which it says in the other
\* encoding too, or by none, and it says nothing there.
SaysText(units, as, other, inOther) ==
  \/ \E cps \in Seq(CodePoints) : units = Spelled(as, cps) /\ inOther = Spelled(other, cps)
  \/ (\A cps \in Seq(CodePoints) : units # Spelled(as, cps)) /\ inOther = Malformed

\* What a column says apart from the code that reads it: a text, in either
\* encoding and as a number, or a moment.
Says(c) ==
  LET type == OtherTypes[c.sql] IN
  /\ type \in {"char", "binary"} =>
       c.units \in Seq(Bytes) /\ c.text.char = c.units /\ SaysText(c.units, Utf8, Wide, c.text.wide)
  /\ type = "wide" =>
       c.units \in Seq(WideUnits) /\ c.text.wide = c.units /\ SaysText(c.units, Wide, Utf8, c.text.char)
  /\ type \in {"char", "wide"} =>
       IF c.text.char = Malformed THEN c.number = NotANumber ELSE SaysNumber(c.text.char, c.number)
  /\ type = "offset" => IsMoment(c.moment)

ColumnsSay == \A c \in Columns : c.sql \in DOMAIN OtherTypes /\ ~c.null => Says(c)

\* convert() gives what a text says in the other encoding.
LEMMA TextConverts ==
  ASSUME NEW units, NEW inOther
  PROVE  /\ units \in Seq(Bytes) /\ SaysText(units, Utf8, Wide, inOther)
              => Utf8ToWide(units) = inOther
         /\ units \in Seq(WideUnits) /\ SaysText(units, Wide, Utf8, inOther)
              => WideToUtf8(units) = inOther
<1>1. ASSUME units \in Seq(Bytes), SaysText(units, Utf8, Wide, inOther)
      PROVE  Utf8ToWide(units) = inOther
      <2>1. CASE \E cps \in Seq(CodePoints) : units = Spelled(Utf8, cps) /\ inOther = Spelled(Wide, cps)
            BY <1>1, <2>1, Utf8ToWideConverts, Zenon
      <2>2. CASE (\A cps \in Seq(CodePoints) : units # Spelled(Utf8, cps)) /\ inOther = Malformed
            BY <1>1, <2>2, Utf8ToWideConverts, Zenon
      <2>3. QED
            BY <1>1, <2>1, <2>2 DEF SaysText
<1>2. ASSUME units \in Seq(WideUnits), SaysText(units, Wide, Utf8, inOther)
      PROVE  WideToUtf8(units) = inOther
      <2>1. CASE \E cps \in Seq(CodePoints) : units = Spelled(Wide, cps) /\ inOther = Spelled(Utf8, cps)
            BY <1>2, <2>1, WideToUtf8Converts, Zenon
      <2>2. CASE (\A cps \in Seq(CodePoints) : units # Spelled(Wide, cps)) /\ inOther = Malformed
            BY <1>2, <2>2, WideToUtf8Converts, Zenon
      <2>3. QED
            BY <1>2, <2>1, <2>2 DEF SaysText
<1>3. QED
      BY <1>1, <1>2

\* What is made of the units of a text is what it says.
LEMMA TextRead ==
  ASSUME ColumnsSay, column \in Columns, IsText, ~column.null, NEW T \in TextTargets
  PROVE  Text(column.units, T) = column.text[T]
<1>1. /\ column.sql \in DOMAIN OtherTypes /\ CType = OtherTypes[column.sql]
      /\ CType \in {"char", "wide", "binary"}
      BY ColumnsAssumption DEF Integral, CType, IsText
<1>2. Says(column)
      BY <1>1 DEF ColumnsSay
<1>3. T = "char" \/ T = "wide"
      BY DEF TextTargets
<1>4. CASE CType \in {"char", "binary"}
      <2>1. /\ column.units \in Seq(Bytes) /\ column.text.char = column.units
            /\ SaysText(column.units, Utf8, Wide, column.text.wide)
            BY <1>1, <1>2, <1>4 DEF Says
      <2>2. Utf8ToWide(column.units) = column.text.wide
            BY <2>1, TextConverts
      <2>3. CType # "wide"
            BY <1>4
      <2>4. QED
            BY <1>3, <2>1, <2>2, <2>3 DEF Text, Convert
<1>5. CASE CType = "wide"
      <2>1. /\ column.units \in Seq(WideUnits) /\ column.text.wide = column.units
            /\ SaysText(column.units, Wide, Utf8, column.text.char)
            BY <1>1, <1>2, <1>5 DEF Says
      <2>2. WideToUtf8(column.units) = column.text.char
            BY <2>1, TextConverts
      <2>3. QED
            BY <1>3, <1>5, <2>1, <2>2 DEF Text, Convert
<1>6. QED
      BY <1>1, <1>4, <1>5

\* What is made of the digits of a text is its number.
LEMMA NumberFromText ==
  ASSUME ColumnsSay, column \in Columns, ~column.null, CType \in {"char", "wide"},
         NEW T, IsInteger(T), NEW made, made = Made(column.units, T)
  PROVE  IF column.number = NotANumber THEN made \in {Malformed, NotANumber}
         ELSE /\ column.number \in Int
              /\ made = FromNumber(column.number, IntegerTargets[T])
<1>1. /\ column.sql \in DOMAIN OtherTypes /\ CType = OtherTypes[column.sql] /\ ~Integral /\ IsText
      BY ColumnsAssumption DEF Integral, CType, IsText
<1>2. Says(column) /\ column.units \in Seq(Nat)
      BY <1>1, ColumnKnown DEF ColumnsSay
<1>3. PICK text : text = Text(column.units, "char")
      OBVIOUS
<1>4. "char" \in TextTargets
      BY DEF TextTargets
<1>5. text = column.text.char
      BY <1>1, <1>3, <1>4, TextRead
<1>6. IF text = Malformed THEN column.number = NotANumber ELSE SaysNumber(text, column.number)
      BY <1>1, <1>2, <1>5 DEF Says
<1>7. made = IF text = Malformed THEN Malformed ELSE FromText(text, IntegerTargets[T])
      BY <1>1, <1>3, TargetsApart DEF Made
<1>8. CASE text = Malformed
      BY <1>6, <1>7, <1>8
<1>9. CASE text # Malformed
      <2>1. text \in Seq(Nat)
            <3>1. CASE CType = "char"
                  BY <1>2, <1>3, <3>1 DEF Text, Convert
            <3>2. CASE CType = "wide"
                  <4>1. SaysText(column.units, Wide, Utf8, text)
                        BY <1>1, <1>2, <1>5, <3>2 DEF Says
                  <4>2. PICK cps \in Seq(CodePoints) : text = Spelled(Utf8, cps)
                        BY <1>9, <4>1 DEF SaysText
                  <4>3. QED
                        BY <4>2, Utf8IsSpelling, SpelledIsText
            <3>3. QED
                  BY <3>1, <3>2
      <2>2. SaysNumber(text, column.number)
            BY <1>6, <1>9
      <2>3. NumberIn(text) = column.number /\ column.number \in Int \cup {NotANumber}
            BY <2>1, <2>2, NumberSays
      <2>4. QED
            BY <1>7, <1>9, <2>3 DEF FromText
<1>10. QED
      BY <1>8, <1>9

-----------------------------------------------------------------------------
(* Answers.                                                                *)

\* What a first answer must be.
Answered == (ColumnsSay => ReadsWhole /\ NumbersKept /\ OffsetSays) /\ IntegersKept /\ MomentsKept

\* What there is to say of an answer that is no value.
LEMMA NoValueAnswered ==
  ASSUME column' = column, column \in Columns,
         \/ answer' = NoAnswer
         \/ begun' = 2
         \/ IsText /\ ~Whole /\ ~column.null /\ answer'.kind # "null"
         \/ column.null /\ answer'.kind \in {"null", "throws"}
         \/ answer'.kind = "throws" /\ answer'.why = DatabaseError
         \/ \E T \in Targets : ~Takes(T) /\ answer' = Throws(T, Incompatible)
  PROVE  Answered'
<1>1. /\ CType' = CType /\ Integral' = Integral /\ IsText' = IsText /\ Dated' = Dated
      /\ Whole' = Whole /\ \A T : Takes(T)' = Takes(T)
      <2>1. CType' = CType /\ Integral' = Integral /\ IsText' = IsText /\ Dated' = Dated
            BY DEF CType, Integral, IsText, Dated
      <2>2. Cut' = Cut /\ Bound' = Bound
            BY <2>1 DEF Cut, Bound
      <2>3. Whole' = Whole /\ \A T : Takes(T)' = Takes(T)
            BY <2>1, <2>2 DEF Whole, Takes
      <2>4. QED
            BY <2>1, <2>3
<1>2. CASE answer' = NoAnswer \/ begun' = 2
      <2>1. ~First'
            BY <1>1, <1>2 DEF First
      <2>2. QED
            BY <2>1 DEF Answered, ReadsWhole, IntegersKept, MomentsKept, NumbersKept, OffsetSays
<1>3. CASE column.null /\ answer'.kind \in {"null", "throws"}
      <2>1. column'.null /\ answer'.kind # "value"
            BY <1>3
      <2>2. QED
            BY <2>1 DEF Answered, ReadsWhole, IntegersKept, MomentsKept, NumbersKept, OffsetSays
<1>4. CASE answer'.kind = "throws" /\ answer'.why = DatabaseError
      <2>1. Failed' /\ answer'.kind # "value" /\ answer'.kind # "null"
            BY <1>4 DEF Failed
      <2>2. QED
            BY <2>1 DEF Answered, ReadsWhole, IntegersKept, MomentsKept, NumbersKept, OffsetSays
<1>5. ASSUME NEW T \in Targets, ~Takes(T), answer' = Throws(T, Incompatible)
      PROVE  Answered'
      <2>1. answer'.as = T /\ answer'.kind # "value" /\ answer'.kind # "null"
            BY <1>5, Kinds
      <2>2. /\ ~(Integral /\ IsInteger(T)) /\ ~(Integral /\ T \in TextTargets)
            /\ ~(CType \in {"char", "wide"} /\ IsInteger(T))
            BY <1>5 DEF Takes, IsInteger, IntegerTargets, TextTargets, TimeTargets, Dated
      <2>3. /\ ~Takes(answer.as)' /\ ~(Integral /\ IsInteger(answer.as))'
            /\ ~(Integral /\ answer.as \in TextTargets)'
            /\ ~(CType \in {"char", "wide"} /\ IsInteger(answer.as))'
            BY <1>1, <1>5, <2>1, <2>2 DEF Takes, IsInteger
      <2>4. QED
            BY <2>1, <2>3 DEF Answered, ReadsWhole, IntegersKept, MomentsKept, NumbersKept, OffsetSays
<1>6. CASE IsText /\ ~Whole /\ ~column.null /\ answer'.kind # "null"
      <2>1. ~Whole' /\ ~Integral' /\ ~Dated' /\ ~column'.null
            BY <1>1, <1>6 DEF IsText, Dated, CType
      <2>2. QED
            BY <1>6, <2>1 DEF Answered, ReadsWhole, IntegersKept, MomentsKept, NumbersKept, OffsetSays
<1>7. QED
      BY <1>2, <1>3, <1>4, <1>5, <1>6

\* A text without a zero is all there is up to its end.
LEMMA NoZero ==
  ASSUME NEW s \in Seq(Nat), \A i \in 1..Len(s) : s[i] # 0
  PROVE  UpToZero(s) = s
<1> DEFINE P(n) == (\A i \in 1..n : s[i] # 0) /\ (n < Len(s) => s[n + 1] = 0)
<1>1. PICK size \in Nat : size = Len(s)
      OBVIOUS
<1>2. size \in 0..Len(s) /\ P(size)
      BY <1>1
<1>3. ASSUME NEW n \in 0..Len(s), P(n) PROVE n = size
      <2>1. CASE n < size
            <3>1. n + 1 \in 1..Len(s) /\ s[n + 1] = 0
                  BY <1>1, <1>3, <2>1
            <3>2. QED
                  BY <3>1
      <2>2. QED
            BY <1>1, <2>1
<1>4. (CHOOSE n \in 0..Len(s) : P(n)) = size
      <2> HIDE DEF P
      <2>1. QED
            BY <1>2, <1>3
<1>5. UpToZero(s) = SubSeq(s, 1, Len(s))
      BY <1>1, <1>4, Zenon DEF UpToZero
<1>6. QED
      BY <1>5, SubSeqFull

\* What is taken from the buffer of a value that can be had whole is the value,
\* unless it is read in pieces.
LEMMA InBufferWhole ==
  ASSUME column \in Columns, Bound, Whole, NEW T, Takes(T), ~InPieces(T)
  PROVE  InBuffer = Stored
<1>1. CASE ~IsText
      BY <1>1 DEF InBuffer
<1>2. CASE IsText
      <2>1. CType # "binary"
            BY ColumnKnown
      <2>2. T # "bytes"
            BY <2>1, TargetsApart DEF Takes
      <2>3. ~Cut
            BY <1>2, <2>2 DEF InPieces, Truncated, Whole
      <2>4. Stored = column.units /\ column.units \in Seq(Nat)
            BY <1>2, ColumnKnown DEF Stored, IsText, CType
      <2>5. InBuffer = IF CType = "char" THEN UpToZero(column.units) ELSE column.units
            BY <1>2, <2>3 DEF InBuffer
      <2>6. CASE CType = "char"
            <3>1. \A i \in 1..Len(column.units) : column.units[i] # 0
                  BY <2>3, <2>6 DEF Whole
            <3>2. UpToZero(column.units) = column.units
                  BY <2>4, <3>1, NoZero
            <3>3. QED
                  BY <2>4, <2>5, <2>6, <3>2
      <2>7. CASE CType # "char"
            BY <2>4, <2>5, <2>7
      <2>8. QED
            BY <2>6, <2>7
<1>3. QED
      BY <1>1, <1>2

\* What is made of the whole value is the right answer.
LEMMA WholeAnswered ==
  ASSUME column' = column, column \in Columns, ~column.null,
         NEW T \in Targets, Takes(T), answer' = Answer(T, Made(Stored, T))
  PROVE  Answered'
<1>1. CType' = CType /\ Integral' = Integral /\ IsText' = IsText /\ Dated' = Dated
      BY DEF CType, Integral, IsText, Dated
<1>2. answer'.as = T /\ answer'.kind # "null" /\ ~column'.null
      BY Kinds
<1>3. PICK made : made = Made(Stored, T)
      OBVIOUS
<1>4. answer' = Answer(T, made)
      BY <1>3
<1>5. answer'.kind = "value" => answer'.value = made
      BY <1>4, Kinds DEF Answer
<1>6. ASSUME ColumnsSay, IsText, ~IsInteger(T)
      PROVE  made = IF T = "bytes" THEN column.units ELSE column.text[T]
      <2>1. T \in TextTargets \/ T = "bytes"
            BY <1>6, TargetsAssumption DEF Takes, Dated, IsInteger, TextTargets, TimeTargets
      <2>2. ~Integral /\ Stored = column.units
            BY <1>6 DEF Stored, IsText, CType
      <2>3. CASE T = "bytes"
            BY <1>3, <2>2, <2>3, TargetsApart DEF Made
      <2>4. CASE T \in TextTargets
            <3>1. T # "bytes" /\ made = Text(column.units, T)
                  BY <1>3, <1>6, <2>2, <2>4, TargetsApart DEF Made
            <3>2. Text(column.units, T) = column.text[T]
                  BY <1>6, <2>4, TextRead
            <3>3. QED
                  BY <3>1, <3>2
      <2>5. QED
            BY <2>1, <2>3, <2>4
<1>7. ColumnsSay => ReadsWhole'
      <2>1. ColumnsSay /\ IsText /\ ~IsInteger(T) =>
              answer' = Answer(T, IF T = "bytes" THEN column.units ELSE column.text[T])
            BY <1>4, <1>6
      <2>2. (ReadsWhole)' <=>
              /\ (First /\ Whole /\ IsText /\ ~column.null /\ ~Failed /\ ~IsInteger(answer.as)
                    /\ Takes(answer.as))' =>
                   answer' = (Answer(answer.as, IF answer.as = "bytes" THEN column.units
                                                ELSE column.text[answer.as]))'
              /\ First' => /\ answer'.kind = "value" => ~column'.null
                           /\ answer'.kind = "null" => column'.null
            BY DEF ReadsWhole
      <2>3. QED
            BY <1>1, <1>2, <2>1, <2>2
<1>8. IntegersKept'
      <2>1. SUFFICES ASSUME Integral, IsInteger(T),
                            column.integer \in Values(IntegerTargets[T])
                     PROVE  answer' = Value(T, column.integer)
            BY <1>1, <1>2 DEF IntegersKept, IsInteger
      <2>2. made = Cast(column.integer, IntegerTargets[T])
            <3>1. T # "bytes" /\ T \notin TextTargets /\ T \notin TimeTargets
                  BY <2>1, TargetsApart
            <3>2. Stored = column.integer
                  BY <2>1, StoredIsInteger
            <3>3. QED
                  BY <1>3, <2>1, <3>1, <3>2 DEF Made
      <2>3. PICK t : t = IntegerTargets[T]
            OBVIOUS
      <2>4. IsIntegerType(t)
            BY <2>1, <2>3 DEF IsInteger, IntegerTargets, IntegerType, IsIntegerType
      <2>5. made = column.integer
            <3>1. column.integer \in Values(t)
                  BY <2>1, <2>3
            <3>2. Cast(column.integer, t) = column.integer
                  BY <2>4, <3>1, CastKeeps
            <3>3. QED
                  BY <2>2, <2>3, <3>2
      <2>6. made \notin {Malformed, OutOfRange, NotANumber}
            BY <2>1, <2>5, StoredIsInteger, ErrorsAssumption
      <2>7. QED
            BY <1>4, <2>5, <2>6 DEF Answer
<1>9. MomentsKept'
      <2>1. SUFFICES ASSUME Dated, answer'.kind = "value", T \in TimeTargets
                     PROVE  LET v == column.moment IN
                            /\ T # "time" => answer'.value.date = v.date
                            /\ T = "time" => answer'.value.time = SubSeq(v.time, 1, 3)
                            /\ T \in {"timestamp", "offset"} =>
                                 answer'.value.time = IF v.time = None THEN Midnight ELSE v.time
                            /\ T = "offset" =>
                                 answer'.value.offset = IF v.offset = None THEN Utc ELSE v.offset
            BY <1>1, <1>2 DEF MomentsKept
      <2>2. answer'.value = Temporal(column.moment, T)
            <3>1. Stored = column.moment /\ made = Temporal(Stored, T)
                  BY <1>3, <2>1, TargetsApart DEF Made, Stored, Dated
            <3>2. QED
                  BY <1>5, <2>1, <3>1
      <2>3. T = "time" => column.moment.time # None
            <3>1. CType \in TakenFor[T]
                  BY <2>1, TargetsApart DEF Takes
            <3>2. TakenFor["time"] = {"time", "timestamp", "offset"}
                  BY DEF TakenFor
            <3>3. QED
                  BY <2>1, <3>1, <3>2, ColumnKnown
      <2>4. QED
            BY <2>2, <2>3 DEF Temporal, Parts
<1>10. ColumnsSay => NumbersKept'
      <2>1. SUFFICES ASSUME ColumnsSay PROVE NumbersKept'
            OBVIOUS
      <2>2. ASSUME CType \in {"char", "wide"}, IsInteger(T), NEW n, n = column.number
            PROVE  IF n = NotANumber THEN answer'.kind = "throws"
                   ELSE /\ n \in Values(IntegerTargets[T]) => answer' = Value(T, n)
                        /\ answer'.kind = "value" =>
                             \/ answer'.value = n
                             \/ n < 0 /\ ~IntegerTargets[T].signed /\ answer'.value = n + Sizes[64]
            <3>1. Stored = column.units
                  BY <2>2 DEF Stored, IsText, CType
            <3>2. made = Made(column.units, T)
                  BY <1>3, <3>1
            <3>3. IF n = NotANumber THEN made \in {Malformed, NotANumber}
                  ELSE n \in Int /\ made = FromNumber(n, IntegerTargets[T])
                  BY <2>1, <2>2, <3>2, NumberFromText
            <3>4. CASE n = NotANumber
                  BY <1>4, <3>3, <3>4, Kinds DEF Answer
            <3>5. CASE n # NotANumber
                  <4>1. PICK t : t = IntegerTargets[T]
                        OBVIOUS
                  <4>2. IsIntegerType(t)
                        BY <2>2, <4>1 DEF IsInteger, IntegerTargets, IntegerType, IsIntegerType
                  <4>3. n \in Int /\ made = FromNumber(n, t)
                        BY <3>3, <3>5, <4>1
                  <4>4. /\ n \in Values(t) => made = n
                        /\ \/ made \in {n, OutOfRange}
                           \/ n < 0 /\ ~t.signed /\ made = n + Sizes[64]
                        BY <4>2, <4>3, FromNumberSays
                  <4>5. n \notin {Malformed, OutOfRange, NotANumber}
                        BY <4>3, ErrorsAssumption
                  <4>6. n \in Values(t) => answer' = Value(T, n)
                        BY <1>4, <4>4, <4>5 DEF Answer
                  <4>7. answer'.kind = "value" => made # OutOfRange /\ answer'.value = made
                        BY <1>4, <1>5, Kinds DEF Answer
                  <4>8. QED
                        BY <3>5, <4>1, <4>4, <4>6, <4>7
            <3>6. QED
                  BY <3>4, <3>5
      <2>3. ASSUME Integral, T \in TextTargets
            PROVE  NumberIn(answer'.value) = column.integer
            <3>1. Stored = column.integer /\ column.integer \in Int
                  BY <2>3, StoredIsInteger
            <3>2. made = ToText(column.integer)
                  BY <1>3, <2>3, <3>1, TargetsApart DEF Made
            <3>3. made \in Seq(Nat) /\ NumberIn(made) = column.integer
                  BY <3>1, <3>2, ToTextSays
            <3>4. made \notin {Malformed, OutOfRange, NotANumber}
                  BY <3>3, MalformedAssumption, ErrorsAssumption
            <3>5. answer'.value = made
                  BY <1>4, <3>4, Kinds DEF Answer
            <3>6. QED
                  BY <3>3, <3>5
      <2>4. QED
            BY <1>1, <1>2, <2>2, <2>3 DEF NumbersKept, IsInteger
<1>11. ColumnsSay => OffsetSays'
      <2>1. SUFFICES ASSUME ColumnsSay, Dated, answer'.kind = "value", T \in TextTargets
                     PROVE  SaysMoment(answer'.value, column.moment, column.scale)
            BY <1>1, <1>2, Zenon DEF OffsetSays, SaysMoment
      <2>2. CType = "offset" /\ column.sql \in DOMAIN OtherTypes /\ CType = OtherTypes[column.sql]
            BY <2>1, TargetsApart, ColumnsAssumption DEF Takes, Dated, Integral, CType
      <2>3. IsMoment(column.moment) /\ column.scale \in Nat
            BY <2>1, <2>2, ColumnsAssumption DEF ColumnsSay, Says
      <2>4. made = OffsetText(column.moment, column.scale)
            <3>1. Stored = column.moment /\ ~IsText /\ ~Integral
                  BY <2>1 DEF Stored, Dated
            <3>2. QED
                  BY <1>3, <2>1, <3>1, TargetsApart DEF Made
      <2>5. answer'.value = made
            BY <1>5, <2>1
      <2>6. QED
            BY <2>3, <2>4, <2>5, OffsetTextSays
<1>12. QED
      BY <1>7, <1>8, <1>9, <1>10, <1>11 DEF Answered

-----------------------------------------------------------------------------
(* Reading.                                                                *)

\* The indicator says null of nulls only, and of all of them if the column is bound.
KnowsNull == (null => column.null) /\ (Bound => null = column.null)

\* The driver has no more to give because the value is a known null, or has been
\* given whole.
HandedOver == IF column.null THEN null = TRUE ELSE IsText /\ given = Len(column.units)

\* Before a first get() nothing has been given but an empty value; while it reads,
\* what it has read is what was given, from the start.
Reads ==
  /\ begun = 0 => given = 0 /\ reading = "nothing" /\ answer = NoAnswer
  /\ reading # "nothing" => Takes(reading) /\ answer = NoAnswer /\ null = FALSE
  /\ spent = TRUE /\ (begun = 0 \/ (begun = 1 /\ reading # "nothing")) => HandedOver
  /\ begun = 1 /\ reading # "nothing" => out = SubSeq(column.units, 1, given)

LEMMA ReadsInit == Init => KnowsNull /\ Reads /\ Answered
<1> SUFFICES ASSUME Init PROVE KnowsNull /\ Reads /\ Answered
    OBVIOUS
<1>1. column \in Columns /\ null \in BOOLEAN /\ column.null \in BOOLEAN /\ Bound \in BOOLEAN
      BY ColumnKnown DEF Init
<1>2. KnowsNull
      BY <1>1 DEF Init, KnowsNull
<1>3. Reads
      BY DEF Init, Reads
<1>4. ~First
      BY DEF Init, First
<1>5. QED
      BY <1>2, <1>3, <1>4 DEF Answered, ReadsWhole, IntegersKept, MomentsKept, NumbersKept, OffsetSays

\* is_null() may learn that the value is null, or have an empty value handed over.
LEMMA IsNullReads ==
  ASSUME Typed, KnowsNull, Reads, IsNull
  PROVE  KnowsNull' /\ Reads' /\ Answered'
<1>1. /\ column' = column /\ Bound' = Bound /\ IsText' = IsText /\ given' = given
      /\ reading' = reading /\ reading = "nothing" /\ begun' = begun /\ answer' = NoAnswer
      BY ColumnStays DEF IsNull, Next
<1>2. /\ column \in Columns /\ spent \in BOOLEAN /\ null \in BOOLEAN
      /\ column.null \in BOOLEAN /\ Bound \in BOOLEAN
      BY ColumnKnown DEF Typed, TypeOK
<1>3. PICK known \in AfterIsNull : null' = known.null /\ spent' = known.spent
      BY DEF IsNull
<1>4. \/ null' = null /\ spent' = spent
      \/ /\ null' = column.null /\ ~Bound
         /\ spent' = (column.null \/ (CType = "binary" /\ given = Len(column.units)))
      BY <1>2, <1>3, IsNullKnows
<1>5. KnowsNull'
      BY <1>1, <1>2, <1>4 DEF KnowsNull
<1>6. spent' = TRUE /\ begun = 0 => HandedOver'
      <2>1. CASE null' = null /\ spent' = spent
            BY <1>1, <2>1 DEF Reads, HandedOver
      <2>2. CASE /\ null' = column.null
                 /\ spent' = (column.null \/ (CType = "binary" /\ given = Len(column.units)))
            <3>1. CASE column.null = TRUE
                  BY <1>1, <2>2, <3>1 DEF HandedOver
            <3>2. CASE column.null = FALSE
                  BY <1>1, <2>2, <3>2 DEF HandedOver, IsText
            <3>3. QED
                  BY <1>2, <3>1, <3>2
      <2>3. QED
            BY <1>4, <2>1, <2>2
<1>7. Reads'
      BY <1>1, <1>6 DEF Reads
<1>8. Answered'
      BY <1>1, <1>2, NoValueAnswered
<1>9. QED
      BY <1>5, <1>7, <1>8

\* get_ref() answers what is right at once, or begins to read from the start.
LEMMA GetReads ==
  ASSUME Typed, KnowsNull, Reads, NEW T \in Targets, Get(T)
  PROVE  KnowsNull' /\ Reads' /\ Answered'
<1>1. /\ column' = column /\ Bound' = Bound /\ IsText' = IsText /\ given' = given
      /\ reading = "nothing" /\ begun' = (IF begun = 0 THEN 1 ELSE 2) /\ out' = <<>>
      /\ \A S : Takes(S)' = Takes(S)
      BY ColumnStays DEF Get, Next
<1>2. /\ column \in Columns /\ spent \in BOOLEAN /\ null \in BOOLEAN /\ begun \in 0..2
      /\ column.null \in BOOLEAN /\ Bound \in BOOLEAN
      BY ColumnKnown DEF Typed, TypeOK
<1>3. PICK known \in AfterIsNull :
       \/ /\ known.null
          /\ null' = TRUE /\ spent' = known.spent
          /\ answer' = Null(T) /\ UNCHANGED reading
       \/ /\ ~known.null /\ ~Takes(T)
          /\ null' = FALSE /\ spent' = known.spent
          /\ answer' = Throws(T, Incompatible) /\ UNCHANGED reading
       \/ /\ ~known.null /\ Takes(T) /\ InPieces(T)
          /\ null' = FALSE /\ spent' = known.spent
          /\ answer' = NoAnswer /\ reading' = T
       \/ /\ ~known.null /\ Takes(T) /\ Bound /\ ~InPieces(T)
          /\ answer' = Answer(T, Made(InBuffer, T)) /\ UNCHANGED <<null, spent, reading>>
       \/ /\ ~known.null /\ Takes(T) /\ ~Bound /\ ~IsText
          /\ GetFixed(T) /\ UNCHANGED reading
      BY DEF Get
<1>4. /\ known.null \in BOOLEAN /\ known.spent \in BOOLEAN
      /\ \/ known.null = null /\ known.spent = spent
         \/ /\ known.null = column.null /\ ~Bound
            /\ known.spent = (column.null \/ (CType = "binary" /\ given = Len(column.units)))
      BY <1>2, IsNullKnows
<1>5. /\ known.null = TRUE => column.null = TRUE
      /\ Bound => known.null = column.null
      BY <1>2, <1>4 DEF KnowsNull
<1>6. ASSUME reading' = "nothing", begun' # 0 PROVE Reads'
      BY <1>6 DEF Reads
<1>7. begun' \in {1, 2} /\ (begun' = 1 => begun = 0)
      BY <1>1, <1>2
<1>8. CASE known.null /\ null' = TRUE /\ answer' = Null(T) /\ UNCHANGED reading
      <2>1. KnowsNull'
            BY <1>1, <1>2, <1>5, <1>8 DEF KnowsNull
      <2>2. Reads'
            BY <1>1, <1>6, <1>7, <1>8
      <2>3. Answered'
            BY <1>1, <1>2, <1>5, <1>8, Kinds, NoValueAnswered
      <2>4. QED
            BY <2>1, <2>2, <2>3
<1>9. CASE /\ ~known.null /\ ~Takes(T) /\ null' = FALSE
           /\ answer' = Throws(T, Incompatible) /\ UNCHANGED reading
      <2>1. KnowsNull'
            BY <1>1, <1>2, <1>4, <1>5, <1>9 DEF KnowsNull
      <2>2. Reads'
            BY <1>1, <1>6, <1>7, <1>9
      <2>3. Answered'
            BY <1>1, <1>2, <1>9, NoValueAnswered
      <2>4. QED
            BY <2>1, <2>2, <2>3
<1>10. CASE /\ ~known.null /\ Takes(T) /\ InPieces(T) /\ null' = FALSE /\ spent' = known.spent
            /\ answer' = NoAnswer /\ reading' = T
      <2>1. KnowsNull'
            BY <1>1, <1>2, <1>4, <1>5, <1>10 DEF KnowsNull
      <2>2. IsText
            BY <1>10 DEF InPieces
      <2>3. spent' = TRUE /\ begun = 0 => HandedOver'
            <3>1. CASE known.null = null /\ known.spent = spent
                  BY <1>1, <1>2, <1>10, <3>1 DEF Reads, HandedOver
            <3>2. CASE /\ known.null = column.null
                       /\ known.spent = (column.null
                                           \/ (CType = "binary" /\ given = Len(column.units)))
                  BY <1>1, <1>2, <1>10, <2>2, <3>2 DEF HandedOver
            <3>3. QED
                  BY <1>4, <3>1, <3>2
      <2>4. begun = 0 => out' = SubSeq(column'.units, 1, given')
            <3>1. SUFFICES ASSUME begun = 0 PROVE SubSeq(column.units, 1, 0) = <<>>
                  BY <1>1 DEF Reads
            <3>2. QED
                  BY SubSeqEmpty
      <2>5. Takes(reading)'
            BY <1>1, <1>10
      <2>6. Reads'
            BY <1>1, <1>7, <1>10, <2>3, <2>4, <2>5 DEF Reads
      <2>7. Answered'
            BY <1>1, <1>2, <1>10, NoValueAnswered
      <2>8. QED
            BY <2>1, <2>6, <2>7
<1>11. CASE /\ ~known.null /\ Takes(T) /\ Bound /\ ~InPieces(T)
            /\ answer' = Answer(T, Made(InBuffer, T)) /\ UNCHANGED <<null, spent, reading>>
      <2>1. KnowsNull'
            BY <1>1, <1>11 DEF KnowsNull
      <2>2. Reads'
            BY <1>1, <1>6, <1>7, <1>11
      <2>3. ~column.null
            BY <1>4, <1>5, <1>11
      <2>4. CASE IsText /\ ~Whole
            <3>1. answer'.kind # "null"
                  BY <1>11, Kinds DEF Answer
            <3>2. QED
                  BY <1>1, <1>2, <2>1, <2>2, <2>3, <2>4, <3>1, NoValueAnswered
      <2>5. CASE ~(IsText /\ ~Whole)
            <3>1. Whole
                  BY <2>5 DEF Whole, Cut, IsText
            <3>2. InBuffer = Stored
                  BY <1>2, <1>11, <3>1, InBufferWhole
            <3>3. answer' = Answer(T, Made(Stored, T))
                  BY <1>11, <3>2
            <3>4. QED
                  BY <1>1, <1>2, <1>11, <2>1, <2>2, <2>3, <3>3, WholeAnswered
      <2>6. QED
            BY <2>1, <2>2, <2>4, <2>5
<1>12. CASE ~known.null /\ Takes(T) /\ ~Bound /\ ~IsText /\ GetFixed(T) /\ UNCHANGED reading
      <2>1. KnowsNull'
            BY <1>1, <1>2, <1>12 DEF KnowsNull, GetFixed
      <2>2. Reads'
            BY <1>1, <1>6, <1>7, <1>12
      <2>3. CASE answer' = Throws(T, DatabaseError)
            BY <1>1, <1>2, <2>1, <2>2, <2>3, Kinds, NoValueAnswered
      <2>4. CASE answer' # Throws(T, DatabaseError)
            <3>1. answer' = IF column.null THEN Null(T) ELSE Answer(T, Made(Stored, T))
                  BY <1>12, <2>4 DEF GetFixed
            <3>2. CASE column.null
                  BY <1>1, <1>2, <2>1, <2>2, <3>1, <3>2, Kinds, NoValueAnswered
            <3>3. CASE ~column.null
                  <4>1. answer' = Answer(T, Made(Stored, T))
                        BY <3>1, <3>3
                  <4>2. QED
                        BY <1>1, <1>2, <1>12, <2>1, <2>2, <3>3, <4>1, WholeAnswered
            <3>4. QED
                  BY <3>2, <3>3
      <2>5. QED
            BY <2>1, <2>2, <2>3, <2>4
<1>13. QED
      BY <1>3, <1>8, <1>9, <1>10, <1>11, <1>12

\* The loop has read what was given from the start, and ends with all of it.
LEMMA PieceReads ==
  ASSUME Typed, KnowsNull, Reads, GetPiece
  PROVE  KnowsNull' /\ Reads' /\ Answered'
<1>1. /\ column' = column /\ Bound' = Bound /\ IsText' = IsText /\ Truncated' = Truncated
      /\ \A S : Takes(S)' = Takes(S)
      BY ColumnStays DEF Next
<1>2. /\ column \in Columns /\ spent \in BOOLEAN /\ null \in BOOLEAN /\ begun \in 0..2
      /\ column.null \in BOOLEAN /\ Bound \in BOOLEAN /\ reading \in Targets
      BY ColumnKnown DEF Typed, TypeOK, GetPiece
<1>3. /\ reading # "nothing" /\ Takes(reading) /\ answer = NoAnswer /\ null = FALSE
      /\ begun' = begun /\ begun \in {1, 2}
      BY <1>2 DEF GetPiece, Reads
<1>4. IsText
      BY DEF Typed, TypeOK, GetPiece, InPieces
<1>5. column.units \in Seq(Nat) /\ Len(column.units) \in Nat /\ given \in 0..Len(column.units)
      BY <1>2, <1>4, ColumnKnown DEF Typed, TypeOK
<1>6. ASSUME reading' = "nothing" PROVE Reads'
      BY <1>3, <1>6 DEF Reads
<1>7. CASE begun = 2
      <2>1. Answered'
            BY <1>1, <1>2, <1>3, <1>7, NoValueAnswered
      <2>2. KnowsNull'
            BY <1>1, <1>2, <1>3 DEF KnowsNull, GetPiece, Ends
      <2>3. Reads'
            <3>1. CASE reading' = "nothing"
                  BY <1>6, <3>1
            <3>2. CASE reading' # "nothing"
                  <4>1. UNCHANGED <<spent, null, reading, answer>>
                        BY <3>2 DEF GetPiece, Ends
                  <4>2. Takes(reading)'
                        BY <1>1, <1>3, <4>1
                  <4>3. QED
                        BY <1>3, <1>7, <4>1, <4>2 DEF Reads
            <3>3. QED
                  BY <3>1, <3>2
      <2>4. QED
            BY <2>1, <2>2, <2>3
<1>8. CASE begun = 1
      <2>1. out = SubSeq(column.units, 1, given)
            BY <1>3, <1>8 DEF Reads
      <2>2. ASSUME NEW s, s = column.units, Ends(s, null), ~column.null
            PROVE  KnowsNull' /\ Reads' /\ Answered'
            <3>1. reading' = "nothing" /\ null' = null
                  BY <2>2 DEF Ends
            <3>2. Stored = column.units
                  BY <1>4 DEF Stored, IsText, CType
            <3>3. answer' = Answer(reading, Made(Stored, reading))
                  BY <1>3, <2>2, <3>2 DEF Ends
            <3>4. Answered'
                  BY <1>1, <1>2, <1>3, <2>2, <3>3, WholeAnswered
            <3>5. KnowsNull'
                  BY <1>1, <3>1 DEF KnowsNull
            <3>6. QED
                  BY <1>6, <3>1, <3>4, <3>5
      <2>3. CASE spent /\ Ends(out, null) /\ UNCHANGED <<given, spent>>
            <3>1. HandedOver
                  BY <1>2, <1>3, <1>8, <2>3 DEF Reads
            <3>2. ~column.null /\ given = Len(column.units)
                  BY <1>2, <1>3, <3>1 DEF HandedOver
            <3>3. out = column.units
                  BY <1>5, <2>1, <3>2, SubSeqFull
            <3>4. QED
                  BY <2>2, <2>3, <3>2, <3>3
      <2>4. CASE ~spent /\ column.null /\ Ends(out, TRUE) /\ spent' = TRUE /\ UNCHANGED given
            <3>1. reading' = "nothing" /\ null' = TRUE
                  BY <2>4 DEF Ends
            <3>2. answer'.kind \in {"null", "throws"}
                  BY <2>4, Kinds DEF Ends
            <3>3. KnowsNull'
                  BY <1>1, <1>2, <2>4, <3>1 DEF KnowsNull
            <3>4. Answered'
                  BY <1>1, <1>2, <2>4, <3>2, NoValueAnswered
            <3>5. QED
                  BY <1>6, <3>1, <3>3, <3>4
      <2>5. CASE /\ ~spent /\ ~column.null /\ Len(Rest) <= Payload
                 /\ Ends(out \o SubSeq(Buffer, 1, Taken(Len(Rest))), null)
            <3>1. Len(Rest) = Len(column.units) - given /\ Payload \in Nat \ {0}
                  BY <1>5, BufferContinues, PayloadSome
            <3>2. Taken(Len(Rest)) = Len(Rest)
                  BY <1>5, <2>5, <3>1 DEF Taken, NoTotal
            <3>3. SubSeq(Buffer, 1, Len(Rest))
                    = SubSeq(column.units, given + 1, Len(column.units))
                  BY <1>5, <2>5, BufferContinues
            <3>4. SubSeq(column.units, 1, given)
                    \o SubSeq(column.units, given + 1, Len(column.units)) = column.units
                  <4>1. /\ 1 \in 1..Len(column.units) + 1
                        /\ given \in 1 - 1..Len(column.units)
                        /\ Len(column.units) \in given..Len(column.units)
                        BY <1>5
                  <4>2. SubSeq(column.units, 1, given)
                          \o SubSeq(column.units, given + 1, Len(column.units))
                          = SubSeq(column.units, 1, Len(column.units))
                        BY <1>5, <4>1, ConcatAdjacentSubSeq
                  <4>3. QED
                        BY <1>5, <4>2, SubSeqFull
            <3>5. QED
                  BY <2>1, <2>2, <2>5, <3>2, <3>3, <3>4
      <2>6. CASE /\ ~spent /\ ~column.null /\ Len(Rest) > Payload
                 /\ \E told \in {Len(Rest), NoTotal} :
                      out' = out \o SubSeq(Buffer, 1, Taken(told))
                 /\ given' = given + Payload
                 /\ UNCHANGED <<spent, null, reading, answer>>
            <3>1. Len(Rest) = Len(column.units) - given /\ Payload \in Nat \ {0}
                  BY <1>5, BufferContinues, PayloadSome
            <3>2. out' = out \o SubSeq(Buffer, 1, Payload)
                  BY <2>6 DEF Taken
            <3>3. SubSeq(Buffer, 1, Payload)
                    = SubSeq(column.units, given + 1, given + Payload)
                  BY <1>5, <2>6, BufferContinues
            <3>4. SubSeq(column.units, 1, given)
                    \o SubSeq(column.units, given + 1, given + Payload)
                    = SubSeq(column.units, 1, given + Payload)
                  <4>1. /\ 1 \in 1..Len(column.units) + 1
                        /\ given \in 1 - 1..Len(column.units)
                        /\ given + Payload \in given..Len(column.units)
                        BY <1>5, <2>6, <3>1
                  <4>2. QED
                        BY <1>5, <4>1, ConcatAdjacentSubSeq
            <3>5. out' = SubSeq(column'.units, 1, given')
                  BY <1>1, <2>1, <2>6, <3>2, <3>3, <3>4
            <3>6. Takes(reading)'
                  BY <1>1, <1>3, <2>6
            <3>7. Reads'
                  BY <1>3, <1>8, <2>6, <3>5, <3>6 DEF Reads
            <3>8. KnowsNull'
                  BY <1>1, <2>6 DEF KnowsNull
            <3>9. Answered'
                  BY <1>1, <1>2, <1>3, <2>6, NoValueAnswered
            <3>10. QED
                  BY <3>7, <3>8, <3>9
      <2>7. CASE /\ reading' = "nothing" /\ answer' = Throws(reading, DatabaseError)
                 /\ UNCHANGED <<given, spent, null>>
            <3>1. Answered'
                  BY <1>1, <1>2, <2>7, Kinds, NoValueAnswered
            <3>2. KnowsNull'
                  BY <1>1, <2>7 DEF KnowsNull
            <3>3. QED
                  BY <1>6, <2>7, <3>1, <3>2
      <2>8. QED
            BY <2>3, <2>4, <2>5, <2>6, <2>7 DEF GetPiece
<1>9. QED
      BY <1>3, <1>7, <1>8

\* What is known of a value, of its being null, of what was read and of the first
\* answer, together.
ValueInv == Typed /\ KnowsNull /\ Reads /\ Answered

LEMMA ValueStep == ValueInv /\ [Next]_vars => ValueInv'
<1> SUFFICES ASSUME ValueInv, [Next]_vars PROVE ValueInv'
    OBVIOUS
<1>1. Typed /\ KnowsNull /\ Reads /\ Answered
      BY DEF ValueInv
<1>2. Typed'
      BY <1>1, TypesStep
<1>3. CASE IsNull
      BY <1>1, <1>2, <1>3, IsNullReads DEF ValueInv
<1>4. ASSUME NEW T \in Targets, Get(T) PROVE ValueInv'
      BY <1>1, <1>2, <1>4, GetReads DEF ValueInv
<1>5. CASE GetPiece
      BY <1>1, <1>2, <1>5, PieceReads DEF ValueInv
<1>6. CASE UNCHANGED vars
      <2>1. KnowsNull' /\ Reads'
            BY <1>1, <1>6, ColumnStays DEF vars, KnowsNull, Reads, HandedOver
      <2>2. Answered'
            <3>1. /\ column' = column /\ CType' = CType /\ Integral' = Integral /\ IsText' = IsText
                  /\ Dated' = Dated /\ Whole' = Whole /\ answer' = answer /\ begun' = begun
                  /\ \A T : Takes(T)' = Takes(T)
                  BY <1>6, ColumnStays DEF vars
            <3>2. First' = First /\ Failed' = Failed
                  BY <3>1 DEF First, Failed
            <3>3. ReadsWhole => ReadsWhole'
                  BY <3>1, <3>2 DEF ReadsWhole
            <3>4. IntegersKept => IntegersKept'
                  BY <3>1, <3>2 DEF IntegersKept
            <3>5. MomentsKept => MomentsKept'
                  BY <3>1, <3>2 DEF MomentsKept
            <3>6. NumbersKept => NumbersKept'
                  BY <3>1, <3>2 DEF NumbersKept
            <3>7. OffsetSays => OffsetSays'
                  BY <3>1, <3>2 DEF OffsetSays
            <3>8. QED
                  BY <1>1, <3>3, <3>4, <3>5, <3>6, <3>7 DEF Answered
      <2>3. QED
            BY <1>2, <2>1, <2>2 DEF ValueInv
<1>7. QED
      BY <1>3, <1>4, <1>5, <1>6 DEF Next

LEMMA ValueAlways == Spec => []ValueInv
<1>1. Init => ValueInv
      BY TypesInit, ReadsInit DEF ValueInv
<1>2. ValueInv /\ [Next]_vars => ValueInv'
      BY ValueStep
<1>3. QED
      BY <1>1, <1>2, PTL DEF Spec

\* Text and bytes that can be had whole are read whole, once, and in the encoding
\* asked for, wherever the pieces end, whether or not the driver tells how much is
\* left at each, whatever size it reported, and after any is_null().  That leaves
\* out bound values it does not say it cut, or has no more, and zeros in bound
\* narrow text.  Null is answered of nulls only and a value of none.
THEOREM ReadWhole ==
  ASSUME ColumnsSay
  PROVE  Spec => []ReadsWhole
<1>1. ValueInv => ReadsWhole
      BY DEF ValueInv, Answered
<1>2. QED
      BY <1>1, ValueAlways, PTL

\* A number in text that can be had whole, after blanks and a sign or none, is read
\* as itself by the types that hold it and refused by others, but for what wraps; an
\* integer is read as the text of itself; and the text of a datetimeoffset says its
\* parts.
THEOREM TextSaysIt ==
  ASSUME ColumnsSay
  PROVE  Spec => []TextSays
<1>1. ValueInv => TextSays
      BY DEF ValueInv, Answered, TextSays
<1>2. QED
      BY <1>1, ValueAlways, PTL

\* An integer is read as itself as every type that holds it, whatever type it was
\* bound as, for integers of any widths; and a date and time keeps the parts that
\* the type it is read as has, and is at midnight UTC if it had none.
THEOREM ValuesAreKept == Spec => []ValuesKept
<1>1. ValueInv => ValuesKept
      BY DEF ValueInv, Answered, ValuesKept
<1>2. QED
      BY <1>1, ValueAlways, PTL
=============================================================================
