------------------------------ MODULE MCGoBackN ------------------------------
(***************************************************************************)
(* Instances of GoBackN for TLC.                                           *)
(***************************************************************************)
EXTENDS AdaptiveGoBackN

CONSTANTS p1, p2

\* Two payloads are enough to show a swap.
TwoPayloads == {p1, p2}
OnePayload == {p1}
NoPayload == {}
SecondUnencodable == {p2}
=============================================================================
