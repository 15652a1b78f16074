------------------------------ MODULE MCChannel ------------------------------
(***************************************************************************)
(* The instance of Channel for TLC.                                        *)
(***************************************************************************)
EXTENDS Channel

\* Jitter below and above the delay.
EarlyOrLate == {-2, 0, 1}
=============================================================================
