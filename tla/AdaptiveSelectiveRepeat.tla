----------------------- MODULE AdaptiveSelectiveRepeat -----------------------
(***************************************************************************)
(* SelectiveRepeat with the bookkeeping of round trips, as AdaptiveGoBackN *)
(* is GoBackN with it.                                                     *)
(***************************************************************************)
EXTENDS SelectiveRepeat, RttSampling

adaptiveVars == <<vars, rttVars>>

AdaptiveInit == Init /\ RttInit

Pump == PumpStep /\ RecordSent(pending \ pending')

\* The packets that are due are marked, adaptive or not.
Resend == Retransmit /\ RecordResent(DueInFlight, DueInFlight)

\* The packets a pass may have sent again before the peer failed: with retries
\* left the channel was closed under it and refused one of those due.
SentBeforeRefusal == IF RetriesLeft THEN (SUBSET DueInFlight) \ {DueInFlight} ELSE {{}}

\* _fail_peer drops the bookkeeping.
GiveUp ==
    /\ FailPeer
    /\ sendTime' = {} /\ retransmitted' = {}
    /\ \E S \in SentBeforeRefusal : resent' = resent \cup S
    /\ UNCHANGED sampled

\* An ACK stands for the one packet it reports.
Sample == AcceptAck /\ \E s \in outstanding \ outstanding' : RecordAcked(s, {s})

Unmeasured ==
    /\ \/ Sendto \/ Flush \/ Close \/ Control \/ Drain \/ TimersNotDue
       \/ IgnoreAck \/ Expire \/ PeerLoopStep \/ PeerApp
    /\ UNCHANGED rttVars

AdaptiveNext == Pump \/ Resend \/ GiveUp \/ Sample \/ Unmeasured

AdaptiveSpec == AdaptiveInit /\ [][AdaptiveNext]_adaptiveVars

AdaptiveSenderLoop ==
    \/ Pump \/ Resend \/ GiveUp \/ Sample
    \/ /\ Control \/ Drain \/ TimersNotDue \/ IgnoreAck
       /\ UNCHANGED rttVars

\* The fairness of SelectiveRepeat.
AdaptiveFairness ==
    /\ WF_adaptiveVars(AdaptiveSenderLoop)
    /\ WF_adaptiveVars(Expire /\ UNCHANGED rttVars)
    /\ WF_adaptiveVars(CloseGoesOn /\ UNCHANGED rttVars)

AdaptiveFairSpec == AdaptiveSpec /\ AdaptiveFairness

-----------------------------------------------------------------------------
(* The inductive invariant behind KarnsRule.                               *)

\* What was sent twice is marked while it is in flight, and what gave a sample
\* was acknowledged.
RttInv ==
    /\ RttTypeOK
    /\ \A s \in resent \cup acked : BelowUnsent(s + 1)
    /\ resent \cap outstanding \subseteq retransmitted
    /\ sampled \subseteq acked /\ acked \cap outstanding = {}
    /\ KarnsRule
=============================================================================
