---------------------------- MODULE MCParameters ----------------------------
(* Instances of Parameters for TLC. *)
EXTENDS Parameters

CONSTANTS p1, p2

TwoParams == {p1, p2}

\* Every form in one parameter, and a second of strings beside it.
FormsOfTwo == [p \in TwoParams |-> IF p = p1 THEN AllForms ELSE {"strings"}]

\* Values of no, one and two characters, one a prefix of the other, in batches
\* of one, two and three rows.
BatchesOfTwo ==
  [p \in TwoParams |->
     IF p = p1
     THEN {<< <<>> >>, << <<1, 2>>, <<1>> >>, << <<1, 2>>, <<>>, <<1>> >>}
     ELSE {<< <<2>> >>}]
Prefixes == {<<1>>, <<1, 2>>}
=============================================================================
