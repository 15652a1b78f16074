--------------------------- MODULE AdaptiveGoBackN ---------------------------
(***************************************************************************)
(* GoBackN with the bookkeeping of round trips, which each step of the     *)
(* sender carries along.  With adaptive=True the length of a timeout       *)
(* changes; as GoBackN lets a timer expire at any moment after it was set, *)
(* its steps are the same.                                                 *)
(***************************************************************************)
EXTENDS GoBackN, RttSampling

adaptiveVars == <<vars, rttVars>>

AdaptiveInit == Init /\ RttInit

Pump == PumpStep /\ RecordSent(pending \ pending')

Marks(S) == IF Adaptive THEN S ELSE {}

\* Every packet of the window is marked before it is sent again.
Resend == Retransmit /\ RecordResent(Marks(outstanding), outstanding)

\* The packets marked and sent in a pass that ended at k: the channel was closed
\* under it and refused packet k.
RefusedAt(k) ==
    RecordResent(Marks({s \in outstanding : s <= k}), {s \in outstanding : s < k})

\* _fail_peer keeps the bookkeeping.  With retries left it was a refusal that
\* made the peer fail, at any packet of the pass.
GiveUp ==
    /\ FailPeer
    /\ IF RetriesLeft THEN \E k \in outstanding : RefusedAt(k) ELSE UNCHANGED rttVars

\* A cumulative ACK is taken for the ACK of the oldest packet.
Sample == AcceptAck /\ RecordAcked(base, outstanding \ outstanding')

Unmeasured ==
    /\ \/ Sendto \/ Flush \/ Close \/ Control \/ Drain \/ TimerNotDue
       \/ TimerDueNothingSent \/ IgnoreAck \/ Expire \/ PeerLoopStep \/ PeerApp
    /\ UNCHANGED rttVars

AdaptiveNext == Pump \/ Resend \/ GiveUp \/ Sample \/ Unmeasured

AdaptiveSpec == AdaptiveInit /\ [][AdaptiveNext]_adaptiveVars

AdaptiveSenderLoop ==
    \/ Pump \/ Resend \/ GiveUp \/ Sample
    \/ /\ Control \/ Drain \/ TimerNotDue \/ TimerDueNothingSent \/ IgnoreAck
       /\ UNCHANGED rttVars

\* The fairness of GoBackN.
AdaptiveFairness ==
    /\ WF_adaptiveVars(AdaptiveSenderLoop)
    /\ WF_adaptiveVars(Expire /\ UNCHANGED rttVars)
    /\ WF_adaptiveVars(CloseGoesOn /\ UNCHANGED rttVars)

AdaptiveFairSpec == AdaptiveSpec /\ AdaptiveFairness

-----------------------------------------------------------------------------
\* Until something fails, exactly the packets in flight have a send time and
\* only those may be marked: the bookkeeping of a connection does not grow
\* with its age ("Drop bookkeeping for everything now acknowledged").  After a
\* failure it may: _fail_peer and the error path of the pump leave entries that
\* no ACK removes.
BookkeepingKept ==
    Adaptive /\ errored = {} => sendTime = outstanding /\ retransmitted \subseteq outstanding

\* The base specification, which the bookkeeping does not disturb.
BaseSpec == Spec

-----------------------------------------------------------------------------
(* The inductive invariant behind KarnsRule.                               *)

\* What was sent twice is marked until the window has passed it, and a sample
\* is taken only of the packet that the window is about to pass.
RttInv ==
    /\ RttTypeOK
    /\ Adaptive => \A s \in resent : s \in retransmitted \/ s < base
    /\ \A s \in sampled : Adaptive /\ s < base
    /\ KarnsRule
=============================================================================
