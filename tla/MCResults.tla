----------------------------- MODULE MCResults ------------------------------
(* Instances of Results for TLC. *)
EXTENDS Results

CONSTANTS r1, r2

TwoObjects == {r1, r2}

\* Two rows of a column that is bound and one that is long, then a row, a
\* partial rowset of two, of a column that is long where the first had one that
\* was not, and one whose values do not fit.
TwoSets ==
  << [rows |-> 2, columns |-> 2, long |-> {2}, wide |-> {}, null |-> {2}],
     [rows |-> 1, columns |-> 2, long |-> {1}, wide |-> {2}, null |-> {}] >>
=============================================================================
