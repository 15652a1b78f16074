---------------------------- MODULE MCStopAndWait ----------------------------
(***************************************************************************)
(* Instances of StopAndWait for TLC.                                       *)
(***************************************************************************)
EXTENDS StopAndWait

CONSTANTS a, b

Both == {a, b}

\* What a sends in one direction; b answers.
TwoOneWay == [n \in Both |-> IF n = a THEN 2 ELSE 0]
ThreeAndOne == [n \in Both |-> IF n = a THEN 3 ELSE 1]
=============================================================================
