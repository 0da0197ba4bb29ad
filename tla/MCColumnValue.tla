--------------------------- MODULE MCColumnValue ---------------------------
(* Instances of ColumnValue for TLC. *)
EXTENDS ColumnValue, TLC

\* Two bits for eight, three for sixteen, and so on.
FewIntegers == 8 :> 4 @@ 16 :> 8 @@ 32 :> 16 @@ 64 :> 32

\* What a text says, in UTF-8 and in UTF-16, as the Unicode standard has it.
Says(utf8, utf16) == [char |-> utf8, wide |-> utf16]

Texts ==
  { Says(<<>>, <<>>),
    Says(<<65, 66>>, <<65, 66>>),
    Says(<<65, 0, 66>>, <<65, 0, 66>>),
    Says(<<65, 66, 67>>, <<65, 66, 67>>),
    Says(<<65, 66, 67, 68, 69>>, <<65, 66, 67, 68, 69>>),
    Says(<<194, 128, 223, 191>>, <<128, 2047>>),
    Says(<<224, 160, 128, 65>>, <<2048, 65>>),
    Says(<<237, 159, 191, 238, 128, 128>>, <<55295, 57344>>),
    Says(<<65, 240, 144, 128, 128>>, <<65, 55296, 56320>>),
    Says(<<244, 143, 191, 191, 65>>, <<56319, 57343, 65>>) }

\* Overlong forms, surrogates, code points past the last, truncated sequences.
BadUtf8 ==
  { <<192, 128>>, <<224, 159, 191>>, <<240, 143, 191, 191>>, <<237, 160, 128>>,
    <<244, 144, 128, 128>>, <<245, 128, 128, 128>>, <<128>>, <<65, 226, 130>>, <<195, 65>> }
BadUtf16 == { <<55296>>, <<56320>>, <<55296, 65>>, <<56320, 55296>>, <<65, 56319>> }

\* Numbers in text: some with more, or less, than digits, or after blanks.
Numbers ==
  { <<<<55>>, 7>>, <<<<56>>, 8>>, <<<<45, 49>>, -1>>, <<<<45, 56>>, -8>>, <<<<45, 51, 49>>, -31>>,
    <<<<49, 54>>, 16>>, <<<<51, 49>>, 31>>, <<<<51, 50>>, 32>>, <<<<45, 51, 50>>, -32>>,
    <<<<51, 46, 53>>, 3>>, <<<<32, 55>>, 7>>, <<<<43, 55>>, 7>>, <<<<9, 45, 56>>, -8>>,
    <<<<>>, NotANumber>>, <<<<32>>, NotANumber>>, <<<<45>>, NotANumber>>,
    <<<<43, 45, 49>>, NotANumber>>, <<<<120>>, NotANumber>> }

Column(sql, size, unbound, units, integer, moment) ==
  [sql |-> sql, unsigned |-> FALSE, size |-> size, scale |-> 0, unbound |-> unbound, told |-> TRUE,
   null |-> FALSE, units |-> units, integer |-> integer, moment |-> moment,
   text |-> Says(Malformed, Malformed), number |-> NotANumber]

TextColumn(sql, size, unbound, units) ==
  Column(sql, size, unbound, units, 0, Parts(None, None, None))
IntegerColumn(sql, unbound, n) == Column(sql, 0, unbound, <<>>, n, Parts(None, None, None))
TimeColumn(sql, unbound, moment) == Column(sql, 34, unbound, <<>>, 0, moment)

TextColumns ==
  { [TextColumn(c[1], c[2], c[3], t.char) EXCEPT !.text = t] :
      t \in Texts, c \in {<<"char", 2, FALSE>>, <<"char", 9, FALSE>>, <<"char", 9, TRUE>>,
                          <<"longchar", 0, FALSE>>, <<"binary", 9, FALSE>>} }
  \cup
  { [TextColumn(c[1], c[2], c[3], t.wide) EXCEPT !.text = t] :
      t \in Texts, c \in {<<"wchar", 2, FALSE>>, <<"wchar", 9, TRUE>>, <<"longwchar", 0, FALSE>>} }
  \cup
  { [TextColumn(sql, 2, FALSE, IF sql = "char" THEN t.char ELSE t.wide)
        EXCEPT !.text = t, !.told = FALSE] : t \in Texts, sql \in {"char", "wchar"} }
  \cup
  { [TextColumn("longchar", 0, FALSE, s) EXCEPT !.text = Says(s, Malformed)] : s \in BadUtf8 }
  \cup
  { [TextColumn("longwchar", 0, FALSE, s) EXCEPT !.text = Says(Malformed, s)] : s \in BadUtf16 }

NumberColumns ==
  { [TextColumn(c[1], c[2], c[3], n[1]) EXCEPT !.text = Says(n[1], n[1]), !.number = n[2],
                                               !.told = told] :
      n \in Numbers, told \in BOOLEAN,
      c \in {<<"decimal", 3, FALSE>>, <<"decimal", 3, TRUE>>, <<"wchar", 3, TRUE>>,
             <<"wchar", 3, FALSE>>, <<"wchar", 1, FALSE>>, <<"char", 1, FALSE>>} }
  \cup
  UNION { { [IntegerColumn(sql, unbound, n) EXCEPT !.unsigned = unsigned] :
              n \in SqlValues(sql, unsigned) } :
          sql \in DOMAIN IntegerBits, unsigned \in BOOLEAN, unbound \in BOOLEAN }

Day == <<2006, 12, 30>>
Moment == <<13, 45, 2, 345067000>>
TimeColumns ==
  { TimeColumn("date", u, Parts(Day, None, None)) : u \in BOOLEAN }
  \cup { TimeColumn("time", u, Parts(None, SubSeq(Moment, 1, 3), None)) : u \in BOOLEAN }
  \cup { TimeColumn("timestamp", u, Parts(Day, Moment, None)) : u \in BOOLEAN }
  \cup { [TimeColumn("offset", u, Parts(Day, Moment, o)) EXCEPT !.scale = scale] :
           u \in BOOLEAN, scale \in {0, 1, 6, 9},
           o \in {<<0, 0>>, <<5, 30>>, <<-8, 0>>, <<-3, -30>>, <<0, -30>>} }

\* A null of each, the driver having nothing to give.
NullColumns ==
  { [TextColumn(sql, 9, unbound, <<>>) EXCEPT !.null = TRUE] :
      sql \in {"char", "wchar", "binary", "date", "offset"}, unbound \in BOOLEAN }
  \cup { [IntegerColumn("integer", unbound, 0) EXCEPT !.null = TRUE] : unbound \in BOOLEAN }

AllColumns == TextColumns \cup NumberColumns \cup TimeColumns \cup NullColumns

AllTargets ==
  TextTargets \cup {"bytes"} \cup TimeTargets \cup DOMAIN IntegerTargets
=============================================================================
