----------------------------- MODULE MCTimerHeap -----------------------------
(***************************************************************************)
(* An instance of TimerHeap for TLC.                                       *)
(***************************************************************************)
EXTENDS TimerHeap

CONSTANTS k1, k2

TwoKeys == {k1, k2}

=============================================================================
