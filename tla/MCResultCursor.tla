--------------------------- MODULE MCResultCursor ---------------------------
(* Instances of ResultCursor for TLC. *)
EXTENDS ResultCursor

ManySets == <<8, 0, 4, 2>>

OneOrThree == {1, 3}

Either   == BOOLEAN

EveryOp  == AllOps

Ahead   == 1..3
Aimed   == -9..9

EveryFault == {"fetch", "setPos", "more"}
=============================================================================
