---------------------------- MODULE ColumnValue -----------------------------
(***************************************************************************)
(* Reading one column of the current row with is_null() and get<T>()       *)
(* (result_impl in nanodbc.cpp).  The value is in a buffer bound for it,   *)
(* as much of it as fits, or comes from SQLGetData.  What is read as text  *)
(* or bytes then comes in pieces the size of a buffer, the driver saying   *)
(* how much there is left or that it does not know; and once it has handed *)
(* over a value it has none to give.                                       *)
(***************************************************************************)
EXTENDS Conversion

CONSTANTS
  Columns,     \* columns to read
  Targets,     \* the T that columns are read as
  Piece,       \* units in the buffer of the reading loop
  GetsBound,   \* SQL_GD_BOUND: does SQLGetData read a bound column?
  Incompatible,\* type_incompatible_error
  MayFail      \* may SQLGetData fail of its own accord?

\* The T of get<T>().
TextTargets == {"char", "wide"}
TimeTargets == {"date", "time", "timestamp", "offset"}
IntegerTargets ==
  [int8  |-> IntegerType(8, TRUE),  uint8  |-> IntegerType(8, FALSE),
   int16 |-> IntegerType(16, TRUE), uint16 |-> IntegerType(16, FALSE),
   int32 |-> IntegerType(32, TRUE), uint32 |-> IntegerType(32, FALSE),
   int64 |-> IntegerType(64, TRUE), uint64 |-> IntegerType(64, FALSE)]

\* A column: its SQL type and signedness, the size the driver reports, whether
\* the caller has unbound it, and its value as the driver has it, in the C type
\* it is bound as: units, an integer, or the parts of a moment.  The driver may
\* tell how long a value is that does not fit where it is bound.  Apart from them
\* there is what a text says in either encoding, and as a number.
ASSUME ColumnsAssumption ==
  \A c \in Columns :
    /\ {c.unsigned, c.unbound, c.null, c.told} \subseteq BOOLEAN
    /\ c.size \in Nat /\ c.scale \in Nat
    /\ c.sql \in DOMAIN IntegerBits \cup DOMAIN OtherTypes
    /\ c.units \in Seq(Nat)
    /\ c.sql \in DOMAIN IntegerBits => c.integer \in SqlValues(c.sql, c.unsigned)
    /\ c.sql \in {"time", "timestamp", "offset"} /\ ~c.null => c.moment.time # None
ASSUME TargetsAssumption ==
  Targets \subseteq TextTargets \cup {"bytes"} \cup TimeTargets \cup DOMAIN IntegerTargets
ASSUME PieceAssumption == Piece \in Nat /\ Piece > 1
ASSUME FlagsAssumption == {GetsBound, MayFail} \subseteq BOOLEAN

VARIABLES
  column,    \* the column read
  given,     \* how much of the value the driver has handed over
  spent,     \* has it handed over all?
  null,      \* does the indicator say the value is null?
  reading,   \* the T a reading loop is for, or none
  out,       \* what the loop has read
  answer,    \* what the last get() gave
  begun      \* history: how many get() have begun, up to 2

vars == <<column, given, spent, null, reading, out, answer, begun>>

NoAnswer == [kind |-> "none"]
Value(T, v)  == [kind |-> "value", as |-> T, value |-> v]
Null(T)      == [kind |-> "null", as |-> T]
Throws(T, e) == [kind |-> "throws", as |-> T, why |-> e]
DatabaseError == "database_error"

Integral == column.sql \in DOMAIN IntegerBits
CType == IF Integral THEN "integer" ELSE OtherTypes[column.sql]
IsText == CType \in {"char", "wide", "binary"}
Dated == ~Integral /\ ~IsText

\* The value in the C type the column is bound as.
Stored == IF Integral THEN Cast(column.integer, BoundAs(column.sql, column.unsigned))
          ELSE IF IsText THEN column.units ELSE column.moment

\* The driver puts the values of a bound column, and whether it is null.
Bound == ~column.unbound /\ (IsText => Room(column.sql, column.size) > 0)

\* A bound value that does not fit: the room is for a terminator too.
Cut == Bound /\ IsText /\ Len(column.units) >= Room(column.sql, column.size)

\* Slip: the room is taken to be for values alone.
TruncatedPast ==
  Bound /\ IsText /\ column.told /\ Len(column.units) > Room(column.sql, column.size)

\* bound_column_was_truncated(): not if the driver tells of no length.
Truncated == Cut /\ column.told

\* strlen()
UpToZero(s) ==
  SubSeq(s, 1, CHOOSE n \in 0..Len(s) :
                 (\A i \in 1..n : s[i] # 0) /\ (n < Len(s) => s[n + 1] = 0))

\* What is taken from the buffer, where the driver puts what fits before the
\* terminator: narrow text ends at its first zero.
InBuffer ==
  IF ~IsText THEN Stored ELSE
  LET fits == IF Cut THEN SubSeq(column.units, 1, Room(column.sql, column.size) - 1)
              ELSE column.units
  IN IF CType = "char" THEN UpToZero(fits) ELSE fits

Init ==
  /\ column \in Columns
  /\ given = 0 /\ spent = FALSE
  /\ null = (Bound /\ column.null)
  /\ reading = "nothing" /\ out = <<>>
  /\ answer = NoAnswer /\ begun = 0

-----------------------------------------------------------------------------
(* is_null()                                                               *)

\* Of an unbound column of bytes, a datetimeoffset's included, the driver is
\* asked without a buffer, which hands over an empty value; it may decline.  What
\* is known then.
AfterIsNull ==
  IF Bound \/ CType \notin {"binary", "offset"} \/ spent THEN {[null |-> null, spent |-> spent]}
  ELSE {[null |-> column.null,
         spent |-> column.null \/ (CType = "binary" /\ given = Len(column.units))]}
         \cup (IF MayFail THEN {[null |-> null, spent |-> spent]} ELSE {})

IsNull ==
  /\ reading = "nothing"
  /\ \E known \in AfterIsNull : null' = known.null /\ spent' = known.spent
  /\ answer' = NoAnswer
  /\ UNCHANGED <<column, given, reading, out, begun>>

-----------------------------------------------------------------------------
(* get_ref_impl<T>()                                                       *)

IsInteger(T) == T \in DOMAIN IntegerTargets

\* The column types that are taken for T.  How dates and times are written, and
\* the bytes of a datetimeoffset, are left out.
Takes(T) ==
  CASE T \in TextTargets -> ~Dated \/ CType = "offset"
    [] T = "bytes"       -> CType = "binary"
    [] T \in TimeTargets -> Dated /\ CType \in TakenFor[T]
    [] IsInteger(T)      -> Integral \/ CType \in {"char", "wide"}
LeftOut(T) ==
  Dated /\ T \in (IF CType = "offset" THEN {"bytes"} ELSE TextTargets)

\* Units read as the text of width to.
Text(s, to) == Convert(s, IF CType = "wide" THEN "wide" ELSE "char", to)

\* What get_ref_impl<T>() makes of the value or the units v.
Made(v, T) ==
  CASE T = "bytes" -> v
    [] T \in TextTargets -> IF Integral THEN ToText(v)
                            ELSE IF IsText THEN Text(v, T) ELSE OffsetText(v, column.scale)
    [] T \in TimeTargets -> Temporal(v, T)
    [] IsInteger(T) -> IF Integral THEN Cast(v, IntegerTargets[T])
                       ELSE IF Text(v, "char") = Malformed THEN Malformed
                       ELSE FromText(Text(v, "char"), IntegerTargets[T])

Answer(T, x) ==
  IF x \in {Malformed, OutOfRange, NotANumber} THEN Throws(T, x) ELSE Value(T, x)

\* Is the value read in pieces?  A bound one that did not fit is, as text.
InPieces(T) ==
  IsText /\ (~Bound \/ (T # "bytes" /\ Truncated /\ GetsBound))

\* SQLGetData of a value of fixed size, by ensure_pdata(): it leaves a null as
\* it is, and has the value only once.
GetFixed(T) ==
  \/ /\ ~spent
     /\ spent' = TRUE /\ null' = column.null
     /\ answer' = IF column.null THEN Null(T) ELSE Answer(T, Made(Stored, T))
  \/ /\ spent \/ MayFail
     /\ answer' = Throws(T, DatabaseError)
     /\ UNCHANGED <<null, spent>>

\* get_ref(), up to the first piece if it is read in pieces.
Get(T) ==
  /\ reading = "nothing" /\ ~LeftOut(T)
  /\ begun' = IF begun = 0 THEN 1 ELSE 2
  /\ out' = <<>>
  /\ \E known \in AfterIsNull :
       \/ /\ known.null
          /\ null' = TRUE /\ spent' = known.spent
          /\ answer' = Null(T) /\ UNCHANGED reading
       \/ /\ ~known.null /\ ~Takes(T)
          /\ null' = FALSE /\ spent' = known.spent
          /\ answer' = Throws(T, Incompatible) /\ UNCHANGED reading
       \/ /\ ~known.null /\ Takes(T) /\ InPieces(T)
          /\ null' = FALSE /\ spent' = known.spent
          /\ answer' = NoAnswer /\ reading' = T
       \/ /\ ~known.null /\ Takes(T) /\ Bound /\ ~InPieces(T)
          /\ answer' = Answer(T, Made(InBuffer, T)) /\ UNCHANGED <<null, spent, reading>>
       \/ /\ ~known.null /\ Takes(T) /\ ~Bound /\ ~IsText
          /\ GetFixed(T) /\ UNCHANGED reading
  /\ UNCHANGED <<column, given>>

-----------------------------------------------------------------------------
(* The reading loop.                                                       *)

\* A piece of text has a terminator.
Payload == IF CType = "binary" THEN Piece ELSE Piece - 1

\* What the driver has left, and what it puts in the buffer.
Rest == SubSeq(column.units, given + 1, Len(column.units))
Buffer == (IF Len(Rest) > Payload THEN SubSeq(Rest, 1, Payload) ELSE Rest) \o <<0>>

\* SQL_NO_TOTAL
NoTotal == -4

\* Slip: a buffer of which nothing is told is taken whole.
TakenWhole(told) ==
  IF told = NoTotal THEN Piece ELSE IF told < Payload THEN told ELSE Payload

\* How many units of the buffer are taken, when the driver told of so many.
Taken(told) ==
  IF told = NoTotal \/ told > Payload THEN Payload ELSE told

\* The loop ends with what it has read, and is_null() is asked again.
Ends(s, isNull) ==
  /\ reading' = "nothing" /\ out' = <<>>
  /\ null' = isNull
  /\ answer' = LET made == Answer(reading, Made(s, reading)) IN
               IF made.kind = "value" /\ isNull THEN Null(reading) ELSE made

\* One SQLGetData: the last piece is a success, others tell how much there is
\* left or that it is not known, and there are none for a value handed over.
GetPiece ==
  /\ reading # "nothing"
  /\ \/ /\ spent
        /\ Ends(out, null) /\ UNCHANGED <<given, spent>>
     \/ /\ ~spent /\ column.null
        /\ Ends(out, TRUE) /\ spent' = TRUE /\ UNCHANGED given
     \/ /\ ~spent /\ ~column.null /\ Len(Rest) <= Payload
        /\ Ends(out \o SubSeq(Buffer, 1, Taken(Len(Rest))), null)
        /\ given' = Len(column.units) /\ spent' = TRUE
     \/ /\ ~spent /\ ~column.null /\ Len(Rest) > Payload
        /\ \E told \in {Len(Rest), NoTotal} : out' = out \o SubSeq(Buffer, 1, Taken(told))
        /\ given' = given + Payload
        /\ UNCHANGED <<spent, null, reading, answer>>
     \/ /\ MayFail
        /\ reading' = "nothing" /\ out' = <<>> /\ answer' = Throws(reading, DatabaseError)
        /\ UNCHANGED <<given, spent, null>>
  /\ UNCHANGED <<column, begun>>

Next == IsNull \/ (\E T \in Targets : Get(T)) \/ GetPiece

Spec == Init /\ [][Next]_vars

-----------------------------------------------------------------------------
(* Properties                                                              *)

TypeOK ==
  /\ column \in Columns /\ given \in 0..(IF IsText THEN Len(column.units) ELSE 0)
  /\ {spent, null} \subseteq BOOLEAN
  /\ reading \in Targets \cup {"nothing"} /\ (reading # "nothing" => InPieces(reading))
  /\ IsText => Len(out) <= given
  /\ answer.kind \in {"none", "value", "null", "throws"} /\ begun \in 0..2

\* The first get() that answers.
First == answer # NoAnswer /\ begun = 1
Failed == answer.kind = "throws" /\ answer.why = DatabaseError

\* A text or bytes can be had whole, but for two kinds of bound columns: a value
\* that did not fit, if the driver does not say that there is more or has it no
\* more; and narrow text with a zero in it.
Whole ==
  /\ Cut => column.told /\ GetsBound
  /\ Bound /\ CType = "char" /\ ~Cut => \A i \in 1..Len(column.units) : column.units[i] # 0

\* Text and bytes that can be had whole are read whole and in the encoding asked
\* for: wherever the pieces end, whether or not the driver tells how much there is
\* at each, and also if it had reported a size that is too small.  What is
\* malformed is refused.  A value is never given for a null, nor null for a value.
ReadsWhole ==
  /\ First /\ Whole /\ IsText /\ ~column.null /\ ~Failed /\ ~IsInteger(answer.as)
           /\ Takes(answer.as)
     => answer = Answer(answer.as,
                        IF answer.as = "bytes" THEN column.units ELSE column.text[answer.as])
  /\ First => /\ answer.kind = "value" => ~column.null
              /\ answer.kind = "null" => column.null

\* A column of integers is read as itself by every T that holds its value, also
\* if T is of another width or sign than the type the column is bound as.
IntegersKept ==
  First /\ Integral /\ ~column.null /\ ~Failed /\ IsInteger(answer.as) =>
    (column.integer \in Values(IntegerTargets[answer.as])
       => answer = Value(answer.as, column.integer))

\* A date and time read as any T that takes it keeps each part T has, and is at
\* midnight UTC if the column has none.
MomentsKept ==
  First /\ Dated /\ answer.kind = "value" /\ answer.as \in TimeTargets =>
    LET v == column.moment IN
    /\ answer.as # "time" => answer.value.date = v.date
    /\ answer.as = "time" => answer.value.time = SubSeq(v.time, 1, 3)
    /\ answer.as \in {"timestamp", "offset"} =>
         answer.value.time = IF v.time = None THEN Midnight ELSE v.time
    /\ answer.as = "offset" =>
         answer.value.offset = IF v.offset = None THEN Utc ELSE v.offset

\* Integers, dates and times are read as themselves by every T that holds them.
ValuesKept == IntegersKept /\ MomentsKept

\* A number in text that can be had whole is read as itself by every T that holds
\* it and refused by others, but for a negative one that an unsigned T holds once it
\* has wrapped at 64 bits; and an integer read as text is the text of that number.
NumbersKept ==
  First /\ ~column.null /\ ~Failed =>
    /\ Whole /\ CType \in {"char", "wide"} /\ IsInteger(answer.as) =>
         LET n == column.number IN
         IF n = NotANumber THEN answer.kind = "throws"
         ELSE /\ n \in Values(IntegerTargets[answer.as]) => answer = Value(answer.as, n)
              /\ answer.kind = "value" =>
                   \/ answer.value = n
                   \/ n < 0 /\ ~IntegerTargets[answer.as].signed /\ answer.value = n + Sizes[64]
    /\ Integral /\ answer.as \in TextTargets => NumberIn(answer.value) = column.integer

\* The text of a datetimeoffset says its date and time, the digits of the
\* fraction its scale has and the offset from UTC, also of less than an hour.
OffsetSays ==
  First /\ Dated /\ answer.kind = "value" /\ answer.as \in TextTargets =>
    LET v == column.moment
        s == answer.value
        end == Len(s)
        At(first, last) == NumberIn(SubSeq(s, first, last))
    IN /\ <<At(1, 4), At(6, 7), At(9, 10)>> = v.date
       /\ <<At(12, 13), At(15, 16), At(18, 19)>> = SubSeq(v.time, 1, 3)
       /\ column.scale \in 1..9 => At(21, end - 7) = v.time[4] \div (10^(9 - column.scale))
       /\ (IF s[end - 5] = Minus THEN -1 ELSE 1) * (60 * At(end - 4, end - 3) + At(end - 1, end))
            = 60 * v.offset[1] + v.offset[2]

\* Text says the number or the moment it stands for, digit by digit, whichever of
\* the two the column is.
TextSays == NumbersKept /\ OffsetSays

\* nanodbc.h on get(): it returns the fallback if the column is null, and without
\* one throws null_access_error, whatever T is.
NullIsNull ==
  First /\ ~Failed /\ column.null /\ Takes(answer.as) => answer.kind = "null"
=============================================================================
