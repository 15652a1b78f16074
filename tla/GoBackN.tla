------------------------------- MODULE GoBackN -------------------------------
(***************************************************************************)
(* transport/go_back_n.py: SlidingWindow with one timer for the window, a  *)
(* retransmission of the whole window, cumulative ACKs, and a receiver     *)
(* that accepts only the packet it expects.                                *)
(***************************************************************************)
EXTENDS SlidingWindow

VARIABLES
    timer,    \* _timer_deadline[addr]: None, in the future, passed
    deliver   \* at the receiver: payload of the packet handled, when in order

ownVars == <<timer, deliver>>
vars == <<connectionVars, ownVars>>

OwnTypeOK ==
    /\ timer \in {"off", "running", "expired"}
    /\ deliver \in Payload \cup {None}

TypeOK == ConnectionTypeOK /\ OwnTypeOK

Init == ConnectionInit /\ timer = "off" /\ deliver = None

-----------------------------------------------------------------------------
(* The parts shared with Selective Repeat.                                 *)

Sendto == SendtoStep /\ UNCHANGED ownVars
Flush == FlushStep /\ UNCHANGED ownVars
Close == CloseStep /\ UNCHANGED ownVars
CloseGoesOn == (CloseFail \/ CloseChannel) /\ UNCHANGED ownVars
Drain == DrainStep /\ UNCHANGED ownVars
Control == ControlStep /\ UNCHANGED ownVars
PeerControl == PeerControlStep /\ UNCHANGED ownVars
PeerApp == (PeerClose \/ RecvFrom) /\ UNCHANGED ownVars

-----------------------------------------------------------------------------
(* The background thread of the sending side.                              *)

\* Fault: the pump does not start the timer.
TimerNeverStarts(s) == timer

\* The timer an item starts when it enters the window as its first.
TimerAfterSend(s) == IF base = s /\ timer = "off" THEN "running" ELSE timer

PumpSend ==
    /\ \E s \in pending : PumpItem(s) /\ timer' = TimerAfterSend(s)
    /\ UNCHANGED deliver

PumpSendFails ==
    /\ \E s \in pending :
          /\ PumpItemFails(s)
          /\ timer' = IF outstanding = {} THEN "off" ELSE TimerAfterSend(s)
    /\ UNCHANGED deliver

TimerNotDue ==
    /\ pc = "timeouts" /\ timer # "expired"
    /\ pc' = AfterTimeouts
    /\ UNCHANGED <<appVars, queueVars, windowVars, outcomeVars, closing, flush,
                   netVars, peerVars, ownVars>>

TimerDueNothingSent ==
    /\ pc = "timeouts" /\ timer = "expired" /\ outstanding = {}
    /\ timer' = "off"
    /\ pc' = AfterTimeouts
    /\ UNCHANGED <<appVars, queueVars, windowVars, outcomeVars, closing, flush,
                   netVars, peerVars, deliver>>

\* Retransmission of the whole window.  When the channel is closed in the middle
\* of a pass the packet it refuses ends the pass in _fail_peer: that is FailPeer,
\* as what was sent before it had been on the network already.
Retransmit ==
    /\ pc = "timeouts" /\ timer = "expired" /\ outstanding # {}
    /\ RetriesLeft /\ closing # "closed"
    /\ retries' = retries + 1
    /\ timer' = "running"
    /\ dataNet' = dataNet \cup {Packet(s) : s \in outstanding}
    /\ pc' = AfterTimeouts
    /\ UNCHANGED <<appVars, queueVars, known, base, outstanding, outcomeVars,
                   closing, flush, ackNet, peerVars, deliver>>

FailPeer ==
    /\ pc = "timeouts" /\ timer = "expired" /\ outstanding # {}
    /\ FailWindow
    /\ timer' = "off"
    /\ pc' = AfterTimeouts
    /\ UNCHANGED deliver

\* Fault: stale ACKs are not ignored.
AdvancesOrRegresses(a) == a # base /\ a <= nextSeq
Advances(a) == base < a /\ a <= nextSeq

\* Fault: an ACK counts for the packet it asks for.
AckedByInclusive(a) == {s \in outstanding : s <= a}
AckedBy(a) == {s \in outstanding : s < a}

\* _handle_ack: an ACK that is stale, or beyond what was assigned.
IgnoreAck ==
    /\ pc = "recv"
    /\ \E a \in ackNet : ~known \/ ~Advances(a)
    /\ pc' = "top"
    /\ UNCHANGED <<appVars, queueVars, windowVars, outcomeVars, closing, flush,
                   netVars, peerVars, ownVars>>

\* _handle_ack: a cumulative ACK that advances the window.
AcceptAck ==
    /\ pc = "recv" /\ known
    /\ \E a \in ackNet :
          /\ Advances(a)
          /\ base' = a
          /\ acked' = acked \cup AckedBy(a)
          /\ outstanding' = outstanding \ AckedBy(a)
          /\ timer' = IF a < nextSeq THEN "running" ELSE "off"
    /\ retries' = 0
    /\ pc' = "top"
    /\ UNCHANGED <<appVars, queueVars, known, peerError, errored, closing,
                   flush, netVars, peerVars, deliver>>

\* The deadline of the timer passes.
Expire ==
    /\ timer = "running"
    /\ timer' = "expired"
    /\ UNCHANGED <<connectionVars, deliver>>

-----------------------------------------------------------------------------
(* The receiving side.                                                     *)

\* Fault: packets after a gap are accepted.
IsExpectedOrLater(m) == m.seq >= expected
IsExpected(m) == m.seq = expected

\* Fault: the ACK is one too high.
AckBeyondExpected == expected + 1
AckField == expected

\* _handle_incoming, the region under the lock: only the expected packet is
\* accepted; every DATA packet is answered.
PeerReceive ==
    /\ peerPc = "recv"
    /\ \E m \in dataNet :
          IF IsExpected(m)
          THEN expected' = expected + 1 /\ deliver' = m.data
          ELSE UNCHANGED <<expected, deliver>>
    /\ peerPc' = "ack"
    /\ UNCHANGED <<senderVars, netVars, peerOpen, incoming, taken, timer>>

\* The ACK is sent before the payload is queued.
PeerSendAck ==
    /\ peerPc = "ack"
    /\ ackNet' = ackNet \cup {AckField}
    /\ peerPc' = IF deliver = None THEN PeerLoop ELSE "put"
    /\ UNCHANGED <<senderVars, dataNet, expected, peerOpen, incoming, taken,
                   ownVars>>

PeerPut ==
    /\ peerPc = "put"
    /\ incoming' = Append(incoming, deliver)
    /\ deliver' = None
    /\ peerPc' = PeerLoop
    /\ UNCHANGED <<senderVars, netVars, expected, peerOpen, taken, timer>>

-----------------------------------------------------------------------------
PumpStep == PumpSend \/ PumpSendFails
TimeoutStep == TimerNotDue \/ TimerDueNothingSent \/ Retransmit \/ FailPeer
AckStep == IgnoreAck \/ AcceptAck

\* The background thread of each side.
SenderLoop == Control \/ Drain \/ PumpStep \/ TimeoutStep \/ AckStep
PeerLoopStep == PeerControl \/ PeerReceive \/ PeerSendAck \/ PeerPut

Next == Sendto \/ Flush \/ Close \/ SenderLoop \/ Expire \/ PeerLoopStep \/ PeerApp

Spec == Init /\ [][Next]_vars

\* The scheduler runs the background thread, a deadline that is set passes,
\* and close() goes on once called.  Nothing is assumed of the network, of the
\* peer or of the applications.
Fairness == WF_vars(SenderLoop) /\ WF_vars(Expire) /\ WF_vars(CloseGoesOn)

FairSpec == Spec /\ Fairness

-----------------------------------------------------------------------------
(* Safety.                                                                 *)

\* A datagram reported as acknowledged was accepted by the peer, even one
\* that was retransmitted or given up meanwhile (_handle_ack).
AckedWasAccepted == \A s \in acked : s < expected

\* No more than window_size datagrams are in flight, counted from the oldest
\* one that is not acknowledged (_pump_windows).
WindowBound == outstanding \subseteq base .. base + Window - 1

\* Until something has failed, a window with packets in flight always has
\* its timer set: a lost packet or ACK cannot go unnoticed (_pump_windows,
\* _handle_ack, _handle_timeouts).
TimerArmed == errored = {} /\ outstanding # {} => timer # "off"

\* The payloads the receiver has accepted: it advances _expected before it
\* queues the payload.
Accepted == IF deliver = None THEN incoming ELSE Append(incoming, deliver)

Stream == INSTANCE ReliableStream WITH accepted <- Accepted, confirmed <- acked

\* The transport implements the abstract stream (module doc of go_back_n.py).
ImplementsStream == Stream!Spec

-----------------------------------------------------------------------------
(* The inductive invariant behind the safety properties.                   *)

\* The window holds numbers from base on, and what is acknowledged lies below.
WindowShape ==
    /\ \A s \in outstanding : base <= s /\ s < base + Window
    /\ ~known => pending = {} /\ outstanding = {} /\ acked = {} /\ base = 0
    /\ BelowUnsent(base)
    /\ \A s \in acked : s < base

\* What the receiver accepted was sent; what it acknowledges it accepted.
ReceiverShape ==
    /\ BelowUnsent(expected)
    /\ \A a \in ackNet : a <= expected
    /\ deliver = None => Len(incoming) = expected
    /\ deliver # None => Len(incoming) + 1 = expected /\ deliver = submitted[expected]
    /\ peerPc = "recv" => deliver = None
    /\ peerPc = "put" => deliver # None

\* Inductive: it implies the safety invariants above, and every step of any
\* thread preserves it.
IndInv ==
    /\ TypeOK /\ SenderInv /\ WindowShape /\ ReceiverShape
    /\ InOrder /\ AckedWasAccepted /\ TimerArmed
-----------------------------------------------------------------------------
(* Action properties.                                                      *)

\* A datagram whose event an ACK has set keeps that outcome, the window only
\* moves forward, and the receiver never takes back what it acknowledged.
Monotone ==
    [][/\ acked \subseteq acked'
       /\ base <= base'
       /\ expected <= expected'
       /\ errored \subseteq errored']_vars
=============================================================================
