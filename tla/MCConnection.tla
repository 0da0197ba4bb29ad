---------------------------- MODULE MCConnection ----------------------------
(* The instance of Connection for TLC. *)
EXTENDS Connection

CONSTANTS h1, h2

MCHandle == {h1, h2}
EitherMode == BOOLEAN
=============================================================================
