----------------------------- MODULE RowStream -----------------------------
(***************************************************************************)
(* What a forward-only result promises its reader: each row of the result  *)
(* set once, in order, and then the end.                                   *)
(***************************************************************************)
EXTENDS Naturals

CONSTANT Rows  \* how many rows the result set has

VARIABLES
  read,   \* how many rows have been delivered; the current row is the last
  ended   \* the reader has been told that there are no more

streamVars == <<read, ended>>

Init == read = 0 /\ ended = FALSE

Deliver == read < Rows /\ ~ended /\ read' = read + 1 /\ UNCHANGED ended

End == read = Rows /\ ended' = TRUE /\ UNCHANGED read

Next == Deliver \/ End

Spec == Init /\ [][Next]_streamVars /\ WF_streamVars(Next)
=============================================================================
