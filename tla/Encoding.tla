------------------------------ MODULE Encoding ------------------------------
(***************************************************************************)
(* Conversion between UTF-8 and the encoding the driver manager expects,   *)
(* UTF-16 or UTF-32 (the Unicode part of nanodbc.cpp).  A string is a      *)
(* sequence of units.  The code reads one code point after the other and   *)
(* throws at the first that is malformed; here the conversion is Malformed *)
(* then.                                                                   *)
(***************************************************************************)
EXTENDS Integers, Sequences

CONSTANTS
  WideBits,   \* width of wide_char_t
  Malformed   \* the exception throw_invalid_encoding() throws

ASSUME WideBitsAssumption == WideBits \in {16, 32}
\* It is no text and no code point read.
ASSUME MalformedAssumption == Malformed \notin Seq(Nat) /\ Malformed \notin [cp : Nat, units : Nat]

Surrogates == 55296..57343
HighSurrogates == 55296..56319
LowSurrogates == 56320..57343

\* is_valid_code_point()
IsValidCodePoint(cp) == cp <= 1114111 /\ cp \notin Surrogates

-----------------------------------------------------------------------------
(* Writing a code point.                                                   *)

\* The six bits of a continuation byte, n bytes from the last.
Continuation(cp, n) == 128 + ((cp \div (64^n)) % 64)

\* append_as_utf8()
AsUtf8(cp) ==
  IF cp < 128 THEN <<cp>>
  ELSE IF cp < 2048 THEN <<192 + cp \div 64, Continuation(cp, 0)>>
  ELSE IF cp < 65536
       THEN <<224 + cp \div 4096, Continuation(cp, 1), Continuation(cp, 0)>>
  ELSE <<240 + cp \div 262144, Continuation(cp, 2), Continuation(cp, 1), Continuation(cp, 0)>>

\* append_as_wide()
AsWide(cp) ==
  IF WideBits = 32 \/ cp < 65536 THEN <<cp>>
  ELSE <<55296 + (cp - 65536) \div 1024, 56320 + ((cp - 65536) % 1024)>>

-----------------------------------------------------------------------------
(* Reading one: the code point at i, and how many units it takes.          *)

Point(cp, units) == [cp |-> cp, units |-> units]

\* How many continuation bytes follow a lead byte, and its bits of the point.
Leads(lead) ==
  CASE lead \in 194..223 -> Point(lead % 32, 1)
    [] lead \in 224..239 -> Point(lead % 16, 2)
    [] lead \in 240..244 -> Point(lead % 8, 3)

\* The least code point that needs so many continuation bytes.
Least(extra) == <<128, 2048, 65536>>[extra]

\* next_utf8_code_point()
NextUtf8(s, i) ==
  IF s[i] < 128 THEN Point(s[i], 1)
  ELSE IF s[i] \notin 194..244 THEN Malformed
  ELSE LET extra == Leads(s[i]).units
           bits[n \in 0..extra] ==
             IF n = 0 THEN Leads(s[i]).cp ELSE (bits[n - 1] * 64) + (s[i + n] % 64)
       IN IF /\ i + extra <= Len(s)
             /\ \A n \in 1..extra : s[i + n] \in 128..191
             /\ bits[extra] >= Least(extra)
             /\ IsValidCodePoint(bits[extra])
          THEN Point(bits[extra], extra + 1)
          ELSE Malformed

\* next_wide_code_point() of UTF-32 and of UTF-16
NextWide(s, i) ==
  IF WideBits = 32
  THEN IF IsValidCodePoint(s[i]) THEN Point(s[i], 1) ELSE Malformed
  ELSE IF s[i] \notin Surrogates THEN Point(s[i], 1)
  ELSE IF s[i] \in HighSurrogates /\ i < Len(s) /\ s[i + 1] \in LowSurrogates
       THEN Point(65536 + (s[i] - 55296) * 1024 + (s[i + 1] - 56320), 2)
       ELSE Malformed

-----------------------------------------------------------------------------
(* convert()                                                               *)

WideToUtf8(s) ==
  LET from[i \in 1..(Len(s) + 1)] ==
        IF i > Len(s) THEN <<>>
        ELSE LET p == NextWide(s, i) IN
             IF p = Malformed THEN Malformed
             ELSE LET rest == from[i + p.units] IN
                  IF rest = Malformed THEN Malformed ELSE AsUtf8(p.cp) \o rest
  IN from[1]

Utf8ToWide(s) ==
  LET from[i \in 1..(Len(s) + 1)] ==
        IF i > Len(s) THEN <<>>
        ELSE LET p == NextUtf8(s, i) IN
             IF p = Malformed THEN Malformed
             ELSE LET rest == from[i + p.units] IN
                  IF rest = Malformed THEN Malformed ELSE AsWide(p.cp) \o rest
  IN from[1]

\* Units of width from as a string of width to.
Convert(s, from, to) ==
  IF from = to THEN s ELSE IF from = "wide" THEN WideToUtf8(s) ELSE Utf8ToWide(s)
=============================================================================
