---------------------------------- MODULE Rto ----------------------------------
(***************************************************************************)
(* rto.py: the estimator of the retransmission timeout, Jacobson/Karels    *)
(* with exponential backoff.  Times are numbers of ticks, and a division   *)
(* rounds up; the program's are floats.  K * rttvar is kept in place of    *)
(* rttvar, so that the factor BETA = 1/K leaves one division of each kind. *)
(***************************************************************************)
EXTENDS Integers

CONSTANTS
    InitialRto,   \* initial_rto
    MinRto,       \* min_rto
    MaxRto,       \* max_rto
    Granularity   \* clock_granularity

\* What __init__ accepts.
ASSUME RtoAssumption ==
    /\ {InitialRto, MinRto, MaxRto, Granularity} \subseteq Nat \ {0}
    /\ MinRto <= InitialRto /\ InitialRto <= MaxRto

Larger(x, y) == IF x < y THEN y ELSE x
Smaller(x, y) == IF x < y THEN x ELSE y
Distance(x, y) == IF x < y THEN y - x ELSE x - y

\* srtt is 0 for None; deviation is K * rttvar.
Estimators == [srtt : Nat, deviation : Nat, rto : MinRto .. MaxRto]
NewEstimator == [srtt |-> 0, deviation |-> 0, rto |-> InitialRto]

\* The estimator with new averages.
Estimate(srtt, deviation) ==
    [srtt |-> srtt, deviation |-> deviation,
     rto |-> Larger(MinRto, Smaller(MaxRto, srtt + Larger(Granularity, deviation)))]

\* Fault: the average moves by ALPHA, and the deviation is not counted.
AverageOnly(e, rtt) == Estimate((7 * e.srtt + rtt + 7) \div 8, 0)
\* A later sample(): ALPHA = 1/8, BETA = 1/4.
Smoothed(e, rtt) ==
    Estimate((7 * e.srtt + rtt + 7) \div 8,
             (3 * e.deviation + 3) \div 4 + Distance(e.srtt, rtt))

\* sample(); the first one gives rttvar = rtt / 2.
Sampled(e, rtt) == IF e.srtt = 0 THEN Estimate(rtt, 2 * rtt) ELSE Smoothed(e, rtt)

\* Fault: a timeout leaves the RTO as it is.
NoBackoff(e) == e
\* on_timeout()
BackedOff(e) == [e EXCEPT !.rto = Smaller(MaxRto, 2 * @)]
=============================================================================
