---------------------------- MODULE MCStatement ----------------------------
(* Instances of Statement for TLC. *)
EXTENDS Statement, TLC

CONSTANTS s1, s2, c1, c2, k1, k2, e1, e2

TwoStmts   == {s1, s2}
OneConn    == {c1}
TwoConns   == {c1, c2}
TwoHandles == {k1, k2}
OneEvent   == {e1}
TwoEvents  == {e1, e2}

EveryOp     == AllOps
NeverCloses == AllOps \ {"close"}

NoTimeout == {FALSE}

NotFreeing == StatementFaults \ {"free"}

\* Statements, connections and handles are alike.
Symmetry == Permutations(TwoStmts) \cup Permutations(TwoConns) \cup
            Permutations(TwoHandles)
=============================================================================
