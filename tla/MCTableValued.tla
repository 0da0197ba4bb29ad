--------------------------- MODULE MCTableValued ----------------------------
(* Instances of TableValued for TLC. *)
EXTENDS TableValued, TLC

CONSTANTS p1, p2, t1, t2

TwoTables  == {p1, p2}
OneColumn  == {p1}
TwoObjects == {t1, t2}

\* Objects are alike, and made one after the other.
Symmetry == Permutations(TwoObjects)
=============================================================================
