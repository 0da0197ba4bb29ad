--------------------------- MODULE MCTransaction ---------------------------
(* Instances of Transaction for TLC. *)
EXTENDS Transaction

CONSTANTS h1, t1, t2, w1, w2

OneHandle == {h1}
TwoTxns   == {t1, t2}
TwoItems  == {w1, w2}

Synchronous == {FALSE}

\* The failures that matter to a transaction: of the link it runs on, and of
\* its own calls, reported or ignored.
LinkAndTransactionFaults == {"connect", "disconnect"} \cup TransactionFaults
=============================================================================
