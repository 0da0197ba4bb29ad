----------------------------- MODULE Conversion -----------------------------
(***************************************************************************)
(* What get<T>() makes of a column's value (the get_ref_impl() templates   *)
(* of result_impl), apart from how the value is fetched: the C type a      *)
(* column is bound as, numbers that change their width and their sign,     *)
(* numbers in text, dates and times, and the text of a datetimeoffset.     *)
(***************************************************************************)
EXTENDS Encoding

CONSTANTS
  Sizes,         \* how many integers there are of 8, 16, 32 and 64 bits
  OutOfRange,    \* std::out_of_range, and the std::range_error of from_string()
  NotANumber     \* std::invalid_argument

ASSUME SizesAssumption ==
  /\ Sizes \in [{8, 16, 32, 64} -> Nat]
  /\ \A w \in {8, 16, 32, 64} : Sizes[w] >= 4 /\ Sizes[w] % 2 = 0
  /\ Sizes[8] <= Sizes[16] /\ Sizes[16] <= Sizes[32] /\ Sizes[32] <= Sizes[64]
\* An exception is no number, and none but Malformed, which is no text, is a text.
ASSUME ErrorsAssumption ==
  {OutOfRange, NotANumber, Malformed} \cap Int = {} /\ {OutOfRange, NotANumber} \cap Seq(Nat) = {}

-----------------------------------------------------------------------------
(* Column types.                                                           *)

IntegerType(bits, signed) == [bits |-> bits, signed |-> signed]

IntegerBits == [bit |-> 8, tinyint |-> 8, smallint |-> 16, integer |-> 32, bigint |-> 64]

\* Slip: the signedness of SQL_SMALLINT is not asked for.
SignedSmall(sql, unsigned) ==
  IntegerType(IntegerBits[sql], sql \in {"bit", "smallint"} \/ ~unsigned)

\* The C type auto_bind_columns() gives a column of integers.
BoundAs(sql, unsigned) == IntegerType(IntegerBits[sql], sql = "bit" \/ ~unsigned)

\* And other columns, by the SQL types it tells apart.
OtherTypes ==
  [decimal |-> "char", char |-> "char", longchar |-> "char", other |-> "char",
   wchar |-> "wide", xml |-> "wide", longwchar |-> "wide",
   binary |-> "binary",
   date |-> "date", time |-> "time", timestamp |-> "timestamp", offset |-> "offset"]

\* clen_ in units, for a column of a size; a column of no size is long.
Room(sql, size) ==
  CASE sql \in {"longchar", "longwchar", "binary"} -> 0
    [] sql = "decimal" -> size + 3
    [] sql = "other" -> 128
    [] sql \in {"char", "wchar", "xml"} -> IF size = 0 THEN 0 ELSE size + 1

-----------------------------------------------------------------------------
(* Integers.                                                               *)

Size(t) == Sizes[t.bits]

Values(t) == IF t.signed THEN -(Size(t) \div 2)..(Size(t) \div 2 - 1) ELSE 0..(Size(t) - 1)

\* The integers in columns of an SQL type.
SqlValues(sql, unsigned) ==
  IF sql = "bit" THEN 0..1 ELSE Values(IntegerType(IntegerBits[sql], ~unsigned))

\* (T): what is left of n in an integer of type t.
Cast(n, t) == LET low == n % Size(t) IN IF low \in Values(t) THEN low ELSE low - Size(t)

\* stoll() and stoull() of text that says n: the latter takes a minus sign.
Parsed(n, t) ==
  LET longest == IntegerType(64, t.signed) IN
  IF t.signed THEN IF n \in Values(longest) THEN n ELSE OutOfRange
  ELSE IF n \in Values(longest) \/ -n \in Values(longest) THEN Cast(n, longest) ELSE OutOfRange

\* from_string() for the integer type t.
FromNumber(n, t) ==
  LET parsed == Parsed(n, t) IN
  IF parsed = OutOfRange THEN OutOfRange
  ELSE IF parsed \in Values(t) THEN parsed ELSE OutOfRange

Digits == 48..57
Plus == 43
Minus == 45
Blanks == {32} \cup 9..13

\* std::to_string()
Decimal(n) ==
  LET text[m \in 0..n] == IF m < 10 THEN <<48 + m>> ELSE Append(text[m \div 10], 48 + (m % 10))
  IN text[n]

Absolute(n) == IF n < 0 THEN -n ELSE n
Sign(n) == IF n < 0 THEN <<Minus>> ELSE <<>>

\* get_ref_impl() of a string, of an integer.
ToText(n) == Sign(n) \o Decimal(Absolute(n))

\* The number that a text starts with, a sign and digits: stoll() and stoull() take
\* no notice of what follows it.
Numeral(s) ==
  LET first == IF Len(s) > 0 /\ s[1] \in {Plus, Minus} THEN 2 ELSE 1
      upTo[i \in (first - 1)..Len(s)] ==
        IF i < first THEN 0
        ELSE IF \A j \in first..i : s[j] \in Digits
             THEN (upTo[i - 1] * 10) + (s[i] - 48) ELSE upTo[i - 1]
  IN IF first > Len(s) THEN NotANumber
     ELSE IF s[first] \notin Digits THEN NotANumber
     ELSE IF s[1] = Minus THEN -upTo[Len(s)] ELSE upTo[Len(s)]

\* They skip what isspace() says is blank before it.
Trimmed(s) ==
  LET first == CHOOSE i \in 1..(Len(s) + 1) :
                 /\ \A j \in 1..(i - 1) : s[j] \in Blanks
                 /\ i <= Len(s) => s[i] \notin Blanks
  IN SubSeq(s, first, Len(s))

NumberIn(s) == Numeral(Trimmed(s))

\* from_string()
FromText(s, t) ==
  IF NumberIn(s) = NotANumber THEN NotANumber ELSE FromNumber(NumberIn(s), t)

-----------------------------------------------------------------------------
(* Dates and times.  A value has a date, a time of day and an offset, which *)
(* are none in a type that has no such part.                                *)

None == <<>>
Parts(date, time, offset) == [date |-> date, time |-> time, offset |-> offset]

Midnight == <<0, 0, 0, 0>>
Utc == <<0, 0>>

\* The column types get<T>() takes for each T.
TakenFor ==
  [date      |-> {"date", "timestamp", "offset"},
   time      |-> {"time", "timestamp", "offset"},
   timestamp |-> {"date", "timestamp", "offset"},
   offset    |-> {"date", "timestamp", "offset"}]

\* get_ref_impl<T>() of a moment; a time keeps no fraction.
Temporal(v, T) ==
  Parts(IF T = "time" THEN None ELSE v.date,
        IF T = "date" THEN None
        ELSE IF v.time = None THEN Midnight
        ELSE IF T = "time" THEN SubSeq(v.time, 1, 3) ELSE v.time,
        IF T # "offset" THEN None ELSE IF v.offset = None THEN Utc ELSE v.offset)

\* So many zeros, and none if that is negative.
Zeros(count) == [i \in 1..count |-> 48]

\* zero_padded()
ZeroPadded(n, width) ==
  LET digits == Decimal(Absolute(n))
  IN Sign(n) \o Zeros(width - Len(Sign(n)) - Len(digits)) \o digits

\* Slip: the sign is the hours'.
BehindByHours(offset) == offset[1] < 0

\* behind_utc
BehindUtc(offset) == offset[1] < 0 \/ offset[2] < 0

\* The digits of the fraction that a column of this scale carries.
Fraction(fract, scale) ==
  IF scale \notin 1..9 THEN <<>>
  ELSE <<46>> \o ZeroPadded(fract \div (10^(9 - scale)), scale)

\* timestampoffset_as_string(): - is 45, . is 46, : is 58 and + is 43.
OffsetText(v, scale) ==
  ZeroPadded(v.date[1], 4) \o <<45>> \o ZeroPadded(v.date[2], 2)
    \o <<45>> \o ZeroPadded(v.date[3], 2) \o <<32>>
    \o ZeroPadded(v.time[1], 2) \o <<58>> \o ZeroPadded(v.time[2], 2)
    \o <<58>> \o ZeroPadded(v.time[3], 2) \o Fraction(v.time[4], scale)
    \o <<32, IF BehindUtc(v.offset) THEN 45 ELSE 43>>
    \o ZeroPadded(Absolute(v.offset[1]), 2) \o <<58>> \o ZeroPadded(Absolute(v.offset[2]), 2)
=============================================================================
