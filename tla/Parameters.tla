----------------------------- MODULE Parameters -----------------------------
(***************************************************************************)
(* Binding values to the parameters of a statement (statement_impl in      *)
(* nanodbc.cpp).  Binding hands the driver two addresses, of the values    *)
(* and of one indicator per row, which the driver reads only when the      *)
(* statement is executed.  The indicators, and the copies made of strings  *)
(* and of binary values, live in vectors of the statement that the next    *)
(* bind of the same parameter replaces.  The hard part is that the driver  *)
(* must find at those addresses what the caller asked for: nulls where a   *)
(* flag or a sentry says so, values of different lengths in slots of one   *)
(* width, nulls beyond the last row, and vectors that are still there.     *)
(*                                                                         *)
(* A value is a sequence of characters (or bytes) greater than zero.       *)
(***************************************************************************)
EXTENDS Integers, Sequences, FiniteSets

CONSTANTS
  Params,        \* the parameter markers
  Forms,         \* of each parameter, the forms in which it is bound
  Batches,       \* of each parameter, the batches of values bound to it
  Sentries,      \* the values that stand for null
  MinIndicators, \* the least number of indicators, 8 in the code
  NULL           \* no value, no binding, no description

\* The forms of bind(): by the caller's array of numbers or dates, of strings
\* in slots of one width, by vectors of strings, wide strings or bytes that
\* the statement copies, or as nulls.
AllForms == {"fixed", "slots", "strings", "wides", "bytes", "nulls"}

ASSUME FormsAssumption    == Forms \in [Params -> SUBSET AllForms]
ASSUME BatchesAssumption ==
  \A p \in Params : \A rows \in Batches[p] :
    /\ rows \in Seq(Seq(Nat \ {0})) /\ rows # <<>>
    /\ \A i \in DOMAIN rows : rows[i] # NULL
ASSUME SentriesAssumption == \A v \in Sentries : v \in Seq(Nat \ {0})
ASSUME MinAssumption      == MinIndicators \in Nat \ {0}
ASSUME NullAssumption     == NULL \notin AllForms \cup {"driver", "caller"}

VARIABLES
  descr,  \* of each parameter: param_descr_data_, and who described it
  bound,  \* driver: of each parameter, what it was given to read
  asked,  \* history: of each, the rows last asked for, NULL for a null
  lost    \* history: the parameters whose last bind threw half-way

vars == <<descr, bound, asked, lost>>

NoBinding    == [form |-> NULL]
NothingAsked == [rows |-> <<>>, exact |-> TRUE]
IsBound(p)   == bound[p].form # NULL

Init ==
  /\ descr = [p \in Params |-> NULL]
  /\ bound = [p \in Params |-> NoBinding]
  /\ asked = [p \in Params |-> NothingAsked]
  /\ lost = {}

-----------------------------------------------------------------------------
(* Values in memory.                                                       *)

Longest(values) ==
  CHOOSE n \in {Len(values[i]) : i \in DOMAIN values} :
    \A i \in DOMAIN values : Len(values[i]) <= n

\* The character at k of a string in memory that ends in zeros.
At(s, k) == IF k \in DOMAIN s THEN s[k] ELSE 0

\* Copies of the values, one after the other in slots of the same width.
InSlots(values, width) ==
  [k \in 1..Len(values) * width |->
     At(values[((k - 1) \div width) + 1], ((k - 1) % width) + 1)]

\* Slip: no room for the terminator of the longest string.
WidthUnterminated(form, values) == Longest(values)

\* The width of a slot; strings end in a zero.
Width(form, values) == IF form = "bytes" THEN Longest(values) ELSE Longest(values) + 1

\* strncmp() of the first n characters.
SameText(s, t, n) ==
  \A k \in 1..n : (\A j \in 1..(k - 1) : At(s, j) # 0) => At(s, k) = At(t, k)

\* Slip: a string is compared over its own length.
IsSentryByLength(form, value, sentry, beyond, width) ==
  IF form = "bytes" THEN \A k \in DOMAIN value : value[k] = At(sentry \o beyond, k)
  ELSE IF form = "fixed" THEN value = sentry
  ELSE SameText(value, sentry, Len(value))

\* Does value equal the sentry?  A string is compared over its whole slot; a
\* binary value over its own length, with what lies beyond the sentry too.
IsSentry(form, value, sentry, beyond, width) ==
  IF form = "bytes" THEN \A k \in DOMAIN value : value[k] = At(sentry \o beyond, k)
  ELSE IF form = "fixed" THEN value = sentry
  ELSE SameText(value, sentry, width)

-----------------------------------------------------------------------------
(* What a caller binds: rows, and which of them are null.                  *)

\* No nulls, a flag per row, or a sentry with what lies beyond it in memory.
Marks(form, rows) ==
       {[by |-> "none"]}
  \cup {[by |-> "flags", null |-> f] : f \in [DOMAIN rows -> BOOLEAN]}
  \cup {[by |-> "sentry", sentry |-> s, beyond |-> b] :
           s \in Sentries, b \in IF form = "bytes" THEN Sentries ELSE {<<>>}}

\* The rows the caller means.
Meant(rows, marks) ==
  [i \in DOMAIN rows |->
     IF \/ marks.by = "flags" /\ marks.null[i]
        \/ marks.by = "sentry" /\ rows[i] = marks.sentry
     THEN NULL ELSE rows[i]]

\* The indicator of a row that is not null: its length, or "terminated".
Present(form, value) == IF form = "bytes" THEN Len(value) ELSE -3

IndicatorNull == -1

\* Is a row to be null?
IsNull(form, rows, marks, i) ==
  \/ marks.by = "flags" /\ marks.null[i]
  \/ marks.by = "sentry"
     /\ IsSentry(form, rows[i], marks.sentry, marks.beyond, Width(form, rows))

\* Slip: as many indicators as rows.
IndicatorsOfRows(form, rows, marks) ==
  [i \in DOMAIN rows |->
     IF IsNull(form, rows, marks, i) THEN IndicatorNull ELSE Present(form, rows[i])]

\* At least MinIndicators of them, which start as null; then the rows that are
\* not null are marked.
Indicators(form, rows, marks) ==
  [i \in 1..(IF Len(rows) > MinIndicators THEN Len(rows) ELSE MinIndicators) |->
     IF i > Len(rows) \/ IsNull(form, rows, marks, i)
     THEN IndicatorNull ELSE Present(form, rows[i])]

-----------------------------------------------------------------------------
(* Vectors.                                                                *)

\* The vector that holds the values: the parameter has one for each kind of
\* copy; numbers and slots stay with the caller.
Holder(form) == IF form \in {"strings", "wides", "bytes"} THEN form ELSE "caller"

\* Slip: one vector of each kind for all parameters.
UndermineShared(p, form) ==
  [q \in Params |->
     IF ~IsBound(q) THEN bound[q] ELSE
     [bound[q] EXCEPT
        !.indicatorsLive = @ /\ q # p,
        !.valuesLive = @ /\ (Holder(form) = "caller" \/ Holder(bound[q].form) # Holder(form))]]

\* The driver's bindings as a new bind of p leaves them before it calls the
\* driver: the indicators of p are freed, and its values if they are in the
\* copy that is being replaced.
Undermine(p, form) ==
  [q \in Params |->
     IF q # p \/ ~IsBound(q) THEN bound[q] ELSE
     [bound[q] EXCEPT
        !.indicatorsLive = FALSE,
        !.valuesLive = @ /\ (Holder(form) = "caller" \/ Holder(bound[q].form) # Holder(form))]]

\* What SQLBindParameter is given.
Binding(form, rows, marks) ==
  [form |-> form, width |-> Width(form, rows),
   values |-> IF form \in {"fixed", "nulls"} THEN rows ELSE InSlots(rows, Width(form, rows)),
   indicators |-> Indicators(form, rows, marks),
   indicatorsLive |-> TRUE, valuesLive |-> TRUE]

-----------------------------------------------------------------------------
(* Operations.                                                             *)

\* Slip: every bind describes the parameter.
DescribedAgain(p) == "driver"

\* A parameter that was not described is, by the driver.
Described(p) == IF descr[p] = NULL THEN "driver" ELSE descr[p]

\* disable_async() or SQLDescribeParam fails: nothing is touched.
BindRefused == UNCHANGED vars

\* SQLBindParameter fails, or is not reached because a table-valued parameter
\* is open: the old vectors are gone, the driver still has their addresses.
BindThrows(p, form) ==
  /\ descr' = [descr EXCEPT ![p] = Described(p)]
  /\ bound' = Undermine(p, form)
  /\ lost' = lost \cup {p}
  /\ UNCHANGED asked

BindReturns(p, form, rows, marks) ==
  /\ descr' = [descr EXCEPT ![p] = Described(p)]
  /\ bound' = [Undermine(p, form) EXCEPT ![p] = Binding(form, rows, marks)]
  /\ asked' = [asked EXCEPT ![p] =
                 [rows |-> Meant(rows, marks),
                  exact |-> ~(form = "bytes" /\ marks.by = "sentry")]]
  /\ lost' = lost \ {p}

\* bind() and bind_strings()
Bind(p, form) ==
  \/ BindRefused
  \/ BindThrows(p, form)
  \/ \E rows \in Batches[p] :
       \E marks \in Marks(form, rows) : BindReturns(p, form, rows, marks)

\* bind_null(): a batch of nulls, without values.
BindNull(p) ==
  \/ BindRefused
  \/ BindThrows(p, "nulls")
  \/ \E batch \in Batches[p] :
       LET rows == [i \in DOMAIN batch |-> <<>>] IN
       BindReturns(p, "nulls", rows, [by |-> "flags", null |-> [i \in DOMAIN batch |-> TRUE]])

\* describe_parameters(): from the arrays of the caller.
Describe(ps) ==
  /\ descr' = [p \in Params |-> IF p \in ps THEN "caller" ELSE descr[p]]
  /\ UNCHANGED <<bound, asked, lost>>

\* parameter_size(), parameter_scale() and parameter_type()
LookUp(p) ==
  /\ descr[p] = NULL
  /\ descr' = [descr EXCEPT ![p] = "driver"]
  /\ UNCHANGED <<bound, asked, lost>>

\* reset_parameters(): whether the driver lets go of the vectors is not
\* looked at.
Reset ==
  /\ descr' = [p \in Params |-> NULL]
  /\ \/ bound' = [p \in Params |-> NoBinding] /\ lost' = {}
        /\ asked' = [p \in Params |-> NothingAsked]
     \/ UNCHANGED <<bound, asked, lost>>

Next ==
  \/ \E p \in Params : \E form \in Forms[p] \ {"nulls"} : Bind(p, form)
  \/ \E p \in Params : "nulls" \in Forms[p] /\ BindNull(p)
  \/ \E ps \in SUBSET Params : Describe(ps)
  \/ \E p \in Params : LookUp(p)
  \/ Reset

Spec == Init /\ [][Next]_vars

-----------------------------------------------------------------------------
(* What an execution reads: the driver goes through the rows of the batch  *)
(* and knows nothing but the addresses.                                    *)

\* A string from k on, up to the first zero.
TextFrom(data, k) ==
  LET end == CHOOSE e \in k..(Len(data) + 1) :
               At(data, e) = 0 /\ \A j \in k..(e - 1) : data[j] # 0
  IN SubSeq(data, k, end - 1)

RowSent(b, i) ==
  LET from == (i - 1) * b.width + 1 IN
  IF b.indicators[i] = IndicatorNull THEN NULL ELSE
  CASE b.form = "fixed" -> b.values[i]
    [] b.form = "bytes" -> SubSeq(b.values, from, from + b.indicators[i] - 1)
    [] OTHER            -> TextFrom(b.values, from)

-----------------------------------------------------------------------------
(* Properties                                                              *)

TypeOK ==
  /\ descr \in [Params -> {NULL, "driver", "caller"}]
  /\ lost \subseteq Params
  /\ \A p \in Params :
       /\ IsBound(p) <=> asked[p].rows # <<>>
       /\ IsBound(p) => /\ bound[p].form \in Forms[p]
                        /\ Len(bound[p].indicators) >= MinIndicators

\* The bindings that say what was asked for: the others are of the sentry of
\* binary values, which IsSentry takes for more than it is.
Exact(p) == IsBound(p) /\ asked[p].exact

\* Executed, in a batch of any number of rows the indicators allow, each row
\* bound arrives as the caller meant it and each row beyond them as a null,
\* though strings of all lengths share the width of the longest.
RowsArriveAsMeant ==
  \A p \in Params : Exact(p) /\ p \notin lost =>
    \A i \in DOMAIN bound[p].indicators :
      RowSent(bound[p], i) = IF i \in DOMAIN asked[p].rows THEN asked[p].rows[i] ELSE NULL

\* A sentry never lets a null through as a value, and changes no value into
\* another: what else it can do to a binary value is to make it null.
SentryOnlyMakesNulls ==
  \A p \in Params : IsBound(p) /\ p \notin lost =>
    \A i \in DOMAIN asked[p].rows :
      RowSent(bound[p], i) \in {asked[p].rows[i], NULL}

\* The vectors the driver was given the addresses of are there, unless the
\* last bind of that parameter threw; no bind takes them from another one.
DanglesOnlyAfterThrow ==
  \A p \in Params : IsBound(p) /\ p \notin lost =>
    bound[p].indicatorsLive /\ bound[p].valuesLive

\* nanodbc.h on describe_parameters(): a description by the caller is used by
\* repeated binds and only cleared with the statement.
DescriptionStays ==
  [][\A p \in Params : descr[p] = "caller" =>
       descr'[p] = "caller" \/ descr' = [q \in Params |-> NULL]]_vars
=============================================================================
