--------------------------- MODULE SelectiveRepeat ---------------------------
(***************************************************************************)
(* transport/selective_repeat.py: SlidingWindow with a timer for every     *)
(* packet, a retransmission of the packets that are due, individual ACKs,  *)
(* and a receiver that keeps packets that arrive early.                    *)
(*                                                                         *)
(* The TimerHeap is here the set of keys that have a deadline, and of      *)
(* those the ones whose deadline has passed; module TimerHeap shows that   *)
(* the heap is that.  Deadlines pass in any order.                         *)
(***************************************************************************)
EXTENDS SlidingWindow

VARIABLES
    armed,    \* keys of _timer_heap with a deadline
    due,      \* those whose deadline has passed
    buffer,   \* at the receiver: _buffer[addr], payload by number
    deliver,  \* payloads of deliver_queue that are not yet queued
    ackFor    \* ack_for of the packet handled; 0 when there is none

timerVars == <<armed, due>>
arrivalVars == <<buffer, deliver, ackFor>>
ownVars == <<timerVars, arrivalVars>>
vars == <<connectionVars, ownVars>>

Buffered == DOMAIN buffer

OwnTypeOK ==
    /\ armed \subseteq Nat /\ due \subseteq armed
    /\ Buffered \subseteq Nat /\ buffer \in [Buffered -> Payload]
    /\ deliver \in Seq(Payload)
    /\ ackFor \in Nat

TypeOK == ConnectionTypeOK /\ OwnTypeOK

Init ==
    /\ ConnectionInit
    /\ armed = {} /\ due = {}
    /\ buffer = <<>> /\ deliver = <<>> /\ ackFor = 0

-----------------------------------------------------------------------------
(* The parts shared with Go-Back-N.                                        *)

Sendto == SendtoStep /\ UNCHANGED ownVars
Flush == FlushStep /\ UNCHANGED ownVars
Close == CloseStep /\ UNCHANGED ownVars
CloseGoesOn == (CloseFail \/ CloseChannel) /\ UNCHANGED ownVars
Drain == DrainStep /\ UNCHANGED ownVars
Control == ControlStep /\ UNCHANGED ownVars
PeerControl == PeerControlStep /\ UNCHANGED ownVars
PeerApp == (PeerClose \/ RecvFrom) /\ UNCHANGED ownVars

-----------------------------------------------------------------------------
(* The background thread of the sending side.                              *)

\* Fault: only the oldest packet gets a timer.
ArmedAtBase(s) == IF s = base THEN armed \cup {s} ELSE armed

\* Every packet sent gets a timer.
ArmedAfterSend(s) == armed \cup {s}

PumpSend ==
    /\ \E s \in pending :
          /\ PumpItem(s)
          /\ armed' = ArmedAfterSend(s)
          /\ due' = due \ {s}
    /\ UNCHANGED arrivalVars

\* The timer of the item stays when others are in flight.
PumpSendFails ==
    /\ \E s \in pending :
          /\ PumpItemFails(s)
          /\ armed' = IF outstanding = {} THEN armed \ {s} ELSE ArmedAfterSend(s)
          /\ due' = due \ {s}
    /\ UNCHANGED arrivalVars

\* pop_due() takes every due key; those no longer in flight are dropped.
DueInFlight == due \cap outstanding

TimersNotDue ==
    /\ pc = "timeouts" /\ DueInFlight = {}
    /\ armed' = armed \ due /\ due' = {}
    /\ pc' = AfterTimeouts
    /\ UNCHANGED <<appVars, queueVars, windowVars, outcomeVars, closing, flush,
                   netVars, peerVars, arrivalVars>>

\* Fault: the timer is not set again.
NotRescheduled == armed \ due
Rescheduled == (armed \ due) \cup DueInFlight

\* Retransmission of the packets that are due, each with a new deadline.  When
\* the channel is closed in the middle of a pass the packet it refuses ends the
\* pass in _fail_peer: that is FailPeer, as what was sent before it had been on
\* the network already.
Retransmit ==
    /\ pc = "timeouts" /\ DueInFlight # {}
    /\ RetriesLeft /\ closing # "closed"
    /\ retries' = retries + 1
    /\ armed' = Rescheduled /\ due' = {}
    /\ dataNet' = dataNet \cup {Packet(s) : s \in DueInFlight}
    /\ pc' = AfterTimeouts
    /\ UNCHANGED <<appVars, queueVars, known, base, outstanding, outcomeVars,
                   closing, flush, ackNet, peerVars, arrivalVars>>

FailPeer ==
    /\ pc = "timeouts" /\ DueInFlight # {}
    /\ FailWindow
    /\ armed' = (armed \ due) \ outstanding /\ due' = {}
    /\ pc' = AfterTimeouts
    /\ UNCHANGED arrivalVars

\* ACK a reports packet a-1.
Reports(a) == a <= nextSeq /\ a - 1 \in outstanding

\* n is where base stops when S is in flight: at a packet in flight or at the
\* next number to be assigned.  What was never sent does not stop it.
BaseStops(S, n) ==
    /\ n = nextSeq \/ n \in S
    /\ \A t \in base .. n - 1 : t \notin S

\* _handle_ack: an ACK of a packet that is not, or no longer, in flight.
IgnoreAck ==
    /\ pc = "recv"
    /\ \E a \in ackNet : ~known \/ ~Reports(a)
    /\ pc' = "top"
    /\ UNCHANGED <<appVars, queueVars, windowVars, outcomeVars, closing, flush,
                   netVars, peerVars, ownVars>>

\* _handle_ack: an ACK takes its packet out of the window.
AcceptAck ==
    /\ pc = "recv" /\ known
    /\ \E a \in ackNet :
          /\ Reports(a)
          /\ acked' = acked \cup {a - 1}
          /\ outstanding' = outstanding \ {a - 1}
          /\ armed' = armed \ {a - 1} /\ due' = due \ {a - 1}
    /\ \E n \in base .. nextSeq : BaseStops(outstanding', n) /\ base' = n
    /\ retries' = 0
    /\ pc' = "top"
    /\ UNCHANGED <<appVars, queueVars, known, peerError, errored, closing,
                   flush, netVars, peerVars, arrivalVars>>

\* A deadline passes.
Expire ==
    /\ \E s \in armed \ due : due' = due \cup {s}
    /\ UNCHANGED <<connectionVars, armed, arrivalVars>>

-----------------------------------------------------------------------------
(* The receiving side.                                                     *)

\* Fault: the window of the receiver is one too long.
InWindowInclusive(m) == expected <= m.seq /\ m.seq <= expected + Window

\* Fault: the window of the receiver is one too short.
InShortWindow(m) == expected <= m.seq /\ m.seq < expected + Window - 1

InWindow(m) == expected <= m.seq /\ m.seq < expected + Window

\* Fault: a packet beyond the window is acknowledged though it is dropped.
AcksAnything(m) == m.seq + 1

\* The ACK of a packet that is beyond the window repeats an older one.
AckField(m) == IF m.seq < expected + Window THEN m.seq + 1 ELSE expected

\* _buffer[addr] after packet m.
Held(m) ==
    IF InWindow(m)
    THEN [s \in Buffered \cup {m.seq} |-> IF s = m.seq THEN m.data ELSE buffer[s]]
    ELSE buffer

\* The packets from expected to n-1 are held, and n is not.
RunEnds(held, n) ==
    n \notin DOMAIN held /\ \A t \in expected .. n - 1 : t \in DOMAIN held

\* _handle_incoming, the region under the lock: packet m is kept, and the run
\* that begins at expected leaves the buffer.
PeerReceive ==
    /\ peerPc = "recv"
    /\ \E m \in dataNet, n \in expected .. expected + Window :
          /\ RunEnds(Held(m), n)
          /\ expected' = n
          /\ deliver' = [i \in 1 .. n - expected |-> Held(m)[expected + i - 1]]
          /\ buffer' = [s \in DOMAIN Held(m) \ (expected .. n - 1) |-> Held(m)[s]]
          /\ ackFor' = AckField(m)
    /\ peerPc' = "ack"
    /\ UNCHANGED <<senderVars, netVars, peerOpen, incoming, taken, timerVars>>

\* The ACK is sent before the payloads are queued.
PeerSendAck ==
    /\ peerPc = "ack"
    /\ ackNet' = ackNet \cup {ackFor}
    /\ ackFor' = 0
    /\ peerPc' = IF deliver = <<>> THEN PeerLoop ELSE "put"
    /\ UNCHANGED <<senderVars, dataNet, expected, peerOpen, incoming, taken,
                   timerVars, buffer, deliver>>

PeerPut ==
    /\ peerPc = "put"
    /\ incoming' = Append(incoming, Head(deliver))
    /\ deliver' = Tail(deliver)
    /\ peerPc' = IF Tail(deliver) = <<>> THEN PeerLoop ELSE "put"
    /\ UNCHANGED <<senderVars, netVars, expected, peerOpen, taken, timerVars,
                   buffer, ackFor>>

-----------------------------------------------------------------------------
PumpStep == PumpSend \/ PumpSendFails
TimeoutStep == TimersNotDue \/ Retransmit \/ FailPeer
AckStep == IgnoreAck \/ AcceptAck

\* The background thread of each side.
SenderLoop == Control \/ Drain \/ PumpStep \/ TimeoutStep \/ AckStep
PeerLoopStep == PeerControl \/ PeerReceive \/ PeerSendAck \/ PeerPut

Next == Sendto \/ Flush \/ Close \/ SenderLoop \/ Expire \/ PeerLoopStep \/ PeerApp

Spec == Init /\ [][Next]_vars

\* As in GoBackN: nothing is assumed of the network, of the peer or of the
\* applications.
Fairness == WF_vars(SenderLoop) /\ WF_vars(Expire) /\ WF_vars(CloseGoesOn)

FairSpec == Spec /\ Fairness

-----------------------------------------------------------------------------
(* Safety.                                                                 *)

\* The datagrams that have arrived.
Received == 0 .. expected - 1 \cup Buffered

\* A datagram reported as acknowledged is with the peer: delivered in order, or
\* kept until those before it arrive.  The ACK of a packet that was dropped must
\* not be taken for its own (_handle_incoming, _handle_ack).
AckedWasReceived == acked \subseteq Received

\* No gap is silent: every datagram before one that was acknowledged has arrived,
\* is in flight, or has an error the application can see, so that what the peer
\* holds back waits for nothing that the sender forgot or never sends
\* (_pump_windows, _handle_ack, _fail_peer).
NoSilentGap == \A s \in acked : 0 .. s - 1 \subseteq Received \cup outstanding \cup errored

\* When every datagram is acknowledged, none is left in the receiver's buffer:
\* all of them can be read in order.
AllAckedAllAccepted == 0 .. nextSeq - 1 \subseteq acked => expected = nextSeq

\* The receiver keeps less than a window, and never the packet it waits for:
\* duplicates and stray packets do not fill its memory (_handle_incoming).
BufferBound == Buffered \subseteq expected + 1 .. expected + Window - 1

\* Every packet in flight has a deadline, whatever was lost, acknowledged, sent
\* again or given up: none waits for ever for an ACK that does not come
\* (_pump_windows, _handle_timeouts, _handle_ack, _fail_peer).
TimerPerPacket == outstanding \subseteq armed

\* No ACK is forgotten, no error withdrawn, nothing that arrived is given away,
\* and neither the window nor the receiver goes back: a late or stale ACK does
\* not move _base down, a late DATA packet does not reopen the buffer
\* (_handle_ack, _handle_incoming).
Monotone ==
    [][/\ acked \subseteq acked'
       /\ base <= base'
       /\ expected <= expected'
       /\ Received \subseteq Received'
       /\ errored \subseteq errored']_vars

Stream == INSTANCE SelectiveStream
            WITH received <- Received, accepted <- incoming \o deliver,
                 confirmed <- acked

\* The transport implements the abstract stream of Selective Repeat (module doc
\* of selective_repeat.py).
ImplementsStream == Stream!Spec

-----------------------------------------------------------------------------
(* The inductive invariant behind the safety properties.                   *)

\* a reports nothing, or a datagram that has arrived.
Truthful(a) == a = 0 \/ a - 1 \in Received

\* What the receiver holds was sent and lies above the packet it waits for;
\* what it acknowledges it has.
ReceiverShape ==
    /\ BelowUnsent(expected)
    /\ \A s \in Buffered : BelowUnsent(s + 1) /\ buffer[s] = submitted[s + 1]
    /\ \A a \in ackNet \cup {ackFor} : Truthful(a)
    /\ Len(incoming) + Len(deliver) = expected
    /\ \A i \in 1 .. Len(deliver) : deliver[i] = submitted[Len(incoming) + i]
    /\ peerPc = "recv" => deliver = <<>>
    /\ peerPc = "put" => deliver # <<>>

\* Inductive: it implies the safety properties above.
IndInv ==
    /\ TypeOK /\ SenderInv /\ ReceiverShape /\ BufferBound
    /\ InOrder /\ AckedWasReceived /\ TimerPerPacket

-----------------------------------------------------------------------------
(* What the documentation says and the code does not do.                   *)

\* README, protocol comparison: "Packets in flight ... up to window_size".
InFlightBound == Cardinality(outstanding) <= Window
=============================================================================
