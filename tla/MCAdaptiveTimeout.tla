--------------------------- MODULE MCAdaptiveTimeout ---------------------------
(***************************************************************************)
(* Instance of AdaptiveTimeout for TLC: a tick is 1/32 s.                  *)
(***************************************************************************)
EXTENDS AdaptiveTimeout

\* 31 ms, 0.75 s and 4.4 s, below the maximal RTO of 5 s.
FastSlowSlowest == {1, 24, 140}

\* The next call follows at once or when all replies have arrived.
AtOnceOrLate == {0, 160}
=============================================================================
