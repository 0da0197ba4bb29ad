----------------------------- MODULE UnitOfWork -----------------------------
(***************************************************************************)
(* What nested transaction objects promise about the work executed on      *)
(* their connection: inside, work only gathers; whatever has gathered is   *)
(* settled as one, kept or discarded, and only outside.                    *)
(***************************************************************************)
EXTENDS Naturals

CONSTANT Work

VARIABLES
  depth,    \* how many transactions are open
  pending,  \* work that has gathered
  durable   \* work that took effect

uowVars == <<depth, pending, durable>>

Init == depth = 0 /\ pending = {} /\ durable = {}

Enter == depth' = depth + 1 /\ UNCHANGED <<pending, durable>>

\* What is pending is kept as a whole or discarded as a whole.
Settle ==
  /\ pending' = {}
  /\ durable' \in {durable, durable \cup pending}

\* A transaction is released; work is settled only once none is open.
Leave ==
  /\ depth > 0 /\ depth' = depth - 1
  /\ UNCHANGED <<pending, durable>> \/ (depth' = 0 /\ Settle)

SettleOutside == depth = 0 /\ Settle /\ UNCHANGED depth

\* The link is lost, at any depth, and what was pending with it.
Lose == pending' = {} /\ UNCHANGED <<depth, durable>>

Do(w) ==
  /\ w \notin pending \cup durable
  /\ UNCHANGED depth
  /\ \/ pending' = pending \cup {w} /\ UNCHANGED durable
     \/ depth = 0 /\ durable' = durable \cup {w} /\ UNCHANGED pending

Next == Enter \/ Leave \/ SettleOutside \/ Lose \/ \E w \in Work : Do(w)

Spec == Init /\ [][Next]_uowVars
=============================================================================
