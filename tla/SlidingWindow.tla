---------------------------- MODULE SlidingWindow ----------------------------
(***************************************************************************)
(* What transport/go_back_n.py and transport/selective_repeat.py have in   *)
(* common, statement for statement: sendto(), flush(), close(), recvfrom() *)
(* and the parts of the background thread that do not touch timers, ACKs   *)
(* or the order of arrival.  GoBackN and SelectiveRepeat extend this       *)
(* module and add the rest; every action here leaves their own variables   *)
(* to them.                                                                *)
(*                                                                         *)
(* The model is one connection: a sending transport, the network, and the  *)
(* receiving transport of its only peer.  The threads of the sending side  *)
(* are the background thread (_sender_loop), an application thread in      *)
(* sendto(), one in flush() and one in close(); those of the receiving     *)
(* side are its background thread and an application thread in             *)
(* recvfrom().  A step is one region under self._lock, or the code between *)
(* two of them.                                                            *)
(*                                                                         *)
(* The queue.Queue _outbound holds consecutive sequence numbers (sendto    *)
(* assigns one and puts the item under one lock), so it is the interval    *)
(* drained .. nextSeq-1.  _outstanding and _sent_items have the same keys  *)
(* at every lock release but the error path of the pump, which is one      *)
(* step here; they are one set.                                            *)
(*                                                                         *)
(* The network is the set of packets ever sent: one that is never received *)
(* was lost, one that is received twice was repeated, and any order is     *)
(* possible.                                                               *)
(*                                                                         *)
(* An operator introduced by "Fault:" is a wrong version of the one that   *)
(* follows it.  No definition uses it: put in the other's place, it shows  *)
(* that a property would notice the mistake.                               *)
(***************************************************************************)
EXTENDS Integers, Sequences, FiniteSets

CONSTANTS
    Payload,           \* what an application sends: at most mss bytes
    Unencodable,       \* payloads encode() refuses (an mss above 65491)
    Window,            \* window_size
    MaxRetries,        \* MAX_RETRIES
    EstimatorAccepts,  \* does RTOEstimator accept self.timeout (at most 5 s)?
    FlushModes,        \* "all" is flush(None), "peer" is flush(addr)
    MayClose,          \* the sending application may call close()
    PeerMayClose,      \* the receiving application may call close()
    MaxSends,          \* bound: number of sendto() calls
    None               \* no item, no payload

ASSUME WindowAssumption == Window \in Nat \ {0}    \* __init__ checks it
ASSUME BoundAssumption == MaxRetries \in Nat /\ MaxSends \in Nat
ASSUME PayloadAssumption == Unencodable \subseteq Payload /\ None \notin Payload
ASSUME SwitchAssumption ==
    /\ EstimatorAccepts \in (SUBSET BOOLEAN) \ {{}}
    /\ MayClose \in BOOLEAN /\ PeerMayClose \in BOOLEAN
    /\ FlushModes \subseteq {"all", "peer"}

VARIABLES
    \* the sending transport, state guarded by self._lock
    submitted,    \* data of every item, by sequence number; history
    drained,      \* the items below it have left _outbound
    handoff,      \* item between get_nowait() and _pending, or -1
    pending,      \* keys of _pending[addr]
    known,        \* addr \in _base: the peer has sender state
    base,         \* _base[addr]
    outstanding,  \* keys of _outstanding[addr] and _sent_items[addr]
    retries,      \* _retries[addr]
    peerError,    \* addr \in _peer_errors
    errored,      \* items whose "error" is set
    acked,        \* items whose "event" an ACK set
    \* the threads of the sending transport
    pc,           \* where _sender_loop is
    sendPc,       \* sendto(): before or after its test of _stop_event
    closing,      \* how far close() is
    flush,        \* the thread in flush(), and how its last call ended; with
                  \* the hand-off its last snapshot missed, as history
    \* the network
    dataNet,      \* DATA packets ever sent
    ackNet,       \* ack fields of the ACK packets ever sent
    \* the receiving transport
    expected,     \* _expected[addr]
    peerPc,       \* where its _sender_loop is
    peerOpen,     \* its _stop_event is not set
    incoming,     \* payloads ever put into _incoming_data
    taken         \* number of them returned by recvfrom()

appVars == <<submitted, sendPc>>
queueVars == <<drained, handoff, pending>>
windowVars == <<known, base, outstanding, retries>>
outcomeVars == <<peerError, errored, acked>>
netVars == <<dataNet, ackNet>>
peerVars == <<expected, peerPc, peerOpen, incoming, taken>>
senderVars == <<appVars, queueVars, windowVars, outcomeVars, pc, closing, flush>>
connectionVars == <<senderVars, netVars, peerVars>>

nextSeq == Len(submitted)          \* _next_seq[addr]
Outbound == drained .. nextSeq - 1 \* the items in _outbound
Stopped == closing # "open"        \* _stop_event.is_set()
Packets == [seq : Nat, data : Payload]
Packet(s) == [seq |-> s, data |-> submitted[s + 1]]

FlushReturned == [flush EXCEPT !.pc = "idle", !.result = "ok"]
FlushRaised ==
    [pc |-> "idle", mode |-> "all", target |-> 0, items |-> {}, missed |-> -1,
     err |-> FALSE, result |-> "raised"]

SenderTypeOK ==
    /\ submitted \in Seq(Payload)
    /\ drained \in Nat /\ handoff \in Nat \cup {-1}
    /\ pending \subseteq Nat
    /\ known \in BOOLEAN /\ base \in Nat
    /\ outstanding \subseteq Nat
    /\ errored \subseteq Nat /\ acked \subseteq Nat

SenderControlTypeOK ==
    /\ retries \in 0 .. MaxRetries + 1
    /\ peerError \in BOOLEAN
    /\ pc \in {"top", "drain", "pump", "timeouts", "recv", "exited"}
    /\ sendPc \in {"idle", "checked"}
    /\ closing \in {"open", "stopping", "joining", "closed"}

FlushTypeOK ==
    flush \in [pc : {"idle", "snap", "check"}, mode : {"all", "peer"},
               target : Nat, items : SUBSET Nat, missed : Nat \cup {-1},
               err : BOOLEAN, result : {"none", "ok", "raised"}]

NetTypeOK ==
    /\ dataNet \subseteq Packets
    /\ ackNet \subseteq Nat

PeerTypeOK ==
    /\ expected \in Nat
    /\ peerPc \in {"recv", "ack", "put", "exited"}
    /\ peerOpen \in BOOLEAN
    /\ incoming \in Seq(Payload)
    /\ taken \in 0 .. Len(incoming)

ConnectionTypeOK ==
    SenderTypeOK /\ SenderControlTypeOK /\ FlushTypeOK /\ NetTypeOK /\ PeerTypeOK

ConnectionInit ==
    /\ submitted = <<>>
    /\ drained = 0 /\ handoff = -1 /\ pending = {}
    /\ known = FALSE /\ base = 0 /\ outstanding = {} /\ retries = 0
    /\ peerError = FALSE /\ errored = {} /\ acked = {}
    /\ pc = "top" /\ sendPc = "idle" /\ closing = "open"
    /\ flush = [pc |-> "idle", mode |-> "all", target |-> 0,
                items |-> {}, missed |-> -1, err |-> FALSE, result |-> "none"]
    /\ dataNet = {} /\ ackNet = {}
    /\ expected = 0 /\ peerPc = "recv" /\ peerOpen = TRUE
    /\ incoming = <<>> /\ taken = 0

-----------------------------------------------------------------------------
(* The application threads of the sending side.                            *)

\* sendto() tests _stop_event before it takes the lock.
SendCheck ==
    /\ sendPc = "idle" /\ ~Stopped
    /\ nextSeq < MaxSends
    /\ sendPc' = "checked"
    /\ UNCHANGED <<submitted, queueVars, windowVars, outcomeVars, pc, closing,
                   flush, netVars, peerVars>>

\* The next number is assigned and its item queued, whatever close() did
\* since; the sticky error of the peer is forgotten.
SendPut ==
    /\ sendPc = "checked"
    /\ \E p \in Payload : submitted' = Append(submitted, p)
    /\ peerError' = FALSE
    /\ sendPc' = "idle"
    /\ UNCHANGED <<queueVars, windowVars, errored, acked, pc, closing, flush,
                   netVars, peerVars>>

FlushCall ==
    /\ flush.pc = "idle"
    /\ \E m \in FlushModes :
          flush' = [pc |-> "snap", mode |-> m, target |-> nextSeq,
                    items |-> {}, missed |-> -1, err |-> FALSE,
                    result |-> "none"]
    /\ UNCHANGED <<appVars, queueVars, windowVars, outcomeVars, pc, closing,
                   netVars, peerVars>>

\* Fault: flush() does not look at _sent_items.
FlushIgnoresSent ==
    pending \cup (IF flush.mode = "all" THEN Outbound ELSE {})

\* The items flush() waits for.  Only flush(None) looks at _outbound.
FlushItems ==
    pending \cup outstanding \cup (IF flush.mode = "all" THEN Outbound ELSE {})

\* The region of flush() under the lock.
FlushSnapshot ==
    /\ flush.pc = "snap"
    /\ flush' = [flush EXCEPT !.pc = "check", !.items = FlushItems,
                              !.missed = handoff, !.err = peerError]
    /\ UNCHANGED <<appVars, queueVars, windowVars, outcomeVars, pc, closing,
                   netVars, peerVars>>

\* The item errors are read after the lock was released.
FlushSeesError == flush.err \/ flush.items \cap errored # {}

FlushRaise ==
    /\ flush.pc = "check" /\ FlushSeesError
    /\ flush' = FlushRaised
    /\ UNCHANGED <<appVars, queueVars, windowVars, outcomeVars, pc, closing,
                   netVars, peerVars>>

FlushReturn ==
    /\ flush.pc = "check" /\ ~FlushSeesError
    /\ flush.items = {}
    /\ flush' = FlushReturned
    /\ UNCHANGED <<appVars, queueVars, windowVars, outcomeVars, pc, closing,
                   netVars, peerVars>>

\* Items are left: wait on an event, at most 50 ms, and look again ...
FlushWait ==
    /\ flush.pc = "check" /\ ~FlushSeesError
    /\ flush.items # {}
    /\ flush' = [flush EXCEPT !.pc = "snap", !.items = {}, !.missed = -1]
    /\ UNCHANGED <<appVars, queueVars, windowVars, outcomeVars, pc, closing,
                   netVars, peerVars>>

\* ... until the caller's timeout has passed.
FlushTimeout ==
    /\ flush.pc = "check" /\ ~FlushSeesError
    /\ flush.items # {}
    /\ flush' = FlushRaised
    /\ UNCHANGED <<appVars, queueVars, windowVars, outcomeVars, pc, closing,
                   netVars, peerVars>>

CloseBegin ==
    /\ MayClose /\ closing = "open"
    /\ closing' = "stopping"
    /\ UNCHANGED <<appVars, queueVars, windowVars, outcomeVars, pc, flush,
                   netVars, peerVars>>

\* What the background thread holds when close() has emptied _outbound: it can
\* take one item between two that close() takes, and then waits for the lock.
HandoffAfterClose ==
    {handoff} \cup (IF pc = "drain" /\ handoff = -1 THEN Outbound ELSE {})

\* Every item close() can see gets the error; those in _outbound leave it.
CloseFail ==
    /\ closing = "stopping"
    /\ \E h \in HandoffAfterClose :
          /\ errored' = errored \cup outstanding \cup pending \cup (Outbound \ {h})
          /\ handoff' = h
    /\ drained' = nextSeq
    /\ closing' = "joining"
    /\ UNCHANGED <<appVars, pending, windowVars, peerError, acked, pc, flush,
                   netVars, peerVars>>

\* The channel is closed when the background thread has ended or one second
\* has passed.
CloseChannel ==
    /\ closing = "joining"
    /\ closing' = "closed"
    /\ UNCHANGED <<appVars, queueVars, windowVars, outcomeVars, pc, flush,
                   netVars, peerVars>>

-----------------------------------------------------------------------------
(* The background thread of the sending side, _sender_loop.                *)

LoopTop ==
    /\ pc = "top"
    /\ pc' = IF Stopped THEN "exited" ELSE "drain"
    /\ UNCHANGED <<appVars, queueVars, windowVars, outcomeVars, closing, flush,
                   netVars, peerVars>>

\* _drain_outbound: get_nowait() is outside the lock ...
DrainGet ==
    /\ pc = "drain" /\ handoff = -1
    /\ drained < nextSeq
    /\ handoff' = drained
    /\ drained' = drained + 1
    /\ UNCHANGED <<appVars, pending, windowVars, outcomeVars, pc, closing,
                   flush, netVars, peerVars>>

\* ... and the item reaches _pending in a region of its own.  RTOEstimator is
\* constructed there for every item; its ValueError ends the thread, at the
\* first item or never, as self.timeout does not change.
DrainPut ==
    /\ pc = "drain" /\ handoff # -1
    /\ pending' = pending \cup {handoff}
    /\ base' = IF known THEN base ELSE handoff
    /\ known' = TRUE
    /\ handoff' = -1
    /\ \E accepts \in EstimatorAccepts :
          pc' = IF accepts \/ known THEN "drain" ELSE "exited"
    /\ UNCHANGED <<appVars, drained, outstanding, retries, outcomeVars,
                   closing, flush, netVars, peerVars>>

DrainDone ==
    /\ pc = "drain" /\ handoff = -1
    /\ drained = nextSeq
    /\ pc' = "pump"
    /\ UNCHANGED <<appVars, queueVars, windowVars, outcomeVars, closing, flush,
                   netVars, peerVars>>

\* _pump_windows takes the oldest pending item while it is in the window.
CanPump(s) ==
    /\ pc = "pump"
    /\ s \in pending /\ \A t \in pending : s <= t
    /\ s < base + Window

\* The packet of item s is stored in the window, then sent outside the lock.
PumpItem(s) ==
    /\ CanPump(s)
    /\ closing # "closed"
    /\ submitted[s + 1] \notin Unencodable
    /\ pending' = pending \ {s}
    /\ outstanding' = outstanding \cup {s}
    /\ dataNet' = dataNet \cup {Packet(s)}
    /\ UNCHANGED <<appVars, drained, handoff, known, base, retries,
                   outcomeVars, pc, closing, flush, ackNet, peerVars>>

\* A closed channel raises: the item is taken out of the window again.
PumpItemFails(s) ==
    /\ CanPump(s)
    /\ closing = "closed"
    /\ submitted[s + 1] \notin Unencodable
    /\ pending' = pending \ {s}
    /\ errored' = errored \cup {s}
    /\ UNCHANGED <<appVars, drained, handoff, known, base, outstanding,
                   retries, peerError, acked, pc, closing, flush, netVars,
                   peerVars>>

\* The PacketError of encode() leaves the loop: the thread ends, and the item
\* is in no queue.
PumpDies ==
    /\ \E s \in pending :
          /\ CanPump(s)
          /\ submitted[s + 1] \in Unencodable
          /\ pending' = pending \ {s}
    /\ pc' = "exited"
    /\ UNCHANGED <<appVars, drained, handoff, windowVars, outcomeVars, closing,
                   flush, netVars, peerVars>>

PumpDone ==
    /\ pc = "pump"
    /\ \A s \in pending : base + Window <= s
    /\ pc' = "timeouts"
    /\ UNCHANGED <<appVars, queueVars, windowVars, outcomeVars, closing, flush,
                   netVars, peerVars>>

\* Where _sender_loop goes after _handle_timeouts.
AfterTimeouts == IF Stopped THEN "exited" ELSE "recv"

RetriesLeft == retries < MaxRetries

\* Fault: _fail_peer forgets what is in flight.
FailsPendingOnly == pending
Failing == outstanding \cup pending

\* _fail_peer, after too many retries or when the channel refuses a packet.
\* base stays, and what _outbound holds is not touched.  Beyond MaxRetries
\* retries would only grow; all those values act alike and are one here.
FailWindow ==
    /\ ~RetriesLeft \/ closing = "closed"
    /\ retries' = IF retries > MaxRetries THEN retries ELSE retries + 1
    /\ errored' = errored \cup Failing
    /\ outstanding' = {} /\ pending' = {}
    /\ peerError' = TRUE
    /\ UNCHANGED <<appVars, drained, handoff, known, base, acked, closing,
                   flush, netVars, peerVars>>

\* Fault: recvfrom() waits without a timeout.
RecvWithoutTimeout == pc = "recv" /\ UNCHANGED connectionVars

\* channel.recvfrom() returned nothing within at most 50 ms, or a packet that
\* verify() or decode() rejects.  A channel that is closed refuses packets at
\* once, but its socket stays open until the packets it holds are sent; only
\* then does recvfrom() raise.
RecvNothing ==
    /\ pc = "recv"
    /\ pc' = "top" \/ (closing = "closed" /\ pc' = "exited")
    /\ UNCHANGED <<appVars, queueVars, windowVars, outcomeVars, closing, flush,
                   netVars, peerVars>>

-----------------------------------------------------------------------------
(* The receiving side.                                                     *)

\* Where the peer's thread goes when _handle_incoming has returned.
PeerLoop == IF peerOpen THEN "recv" ELSE "exited"

\* The channel was closed in the meantime: the payload is dropped.
PeerAckFails ==
    /\ peerPc = "ack" /\ ~peerOpen
    /\ peerPc' = "exited"
    /\ UNCHANGED <<senderVars, netVars, expected, peerOpen, incoming,
                   taken>>

\* close() at the receiving application: its thread ends at the next test.
PeerClose ==
    /\ PeerMayClose /\ peerOpen
    /\ peerOpen' = FALSE
    /\ UNCHANGED <<senderVars, netVars, expected, peerPc, incoming,
                   taken>>

PeerExit ==
    /\ peerPc = "recv" /\ ~peerOpen
    /\ peerPc' = "exited"
    /\ UNCHANGED <<senderVars, netVars, expected, peerOpen, incoming,
                   taken>>

\* recvfrom() pops _incoming_data.
RecvFrom ==
    /\ taken < Len(incoming)
    /\ taken' = taken + 1
    /\ UNCHANGED <<senderVars, netVars, expected, peerPc, peerOpen,
                   incoming>>

-----------------------------------------------------------------------------
SendtoStep == SendCheck \/ SendPut
FlushStep == FlushCall \/ FlushSnapshot \/ FlushRaise \/ FlushReturn
                \/ FlushWait \/ FlushTimeout
CloseStep == CloseBegin \/ CloseFail \/ CloseChannel
DrainStep == DrainGet \/ DrainPut \/ DrainDone
ControlStep == LoopTop \/ PumpDies \/ PumpDone \/ RecvNothing
PeerControlStep == PeerAckFails \/ PeerExit

-----------------------------------------------------------------------------
(* Safety.                                                                 *)

\* recvfrom() returns what was submitted, in order, each datagram once: the
\* payloads the receiver queued are a prefix of those handed to sendto(),
\* whatever the network lost, repeated or reordered (the module docs, and
\* _handle_incoming).
InOrder ==
    /\ Len(incoming) <= nextSeq
    /\ \A i \in 1 .. Len(incoming) : incoming[i] = submitted[i]

\* Item s is in _outbound, handed over, pending or in flight, or its event is
\* set by an ACK or an error.
Located(s) ==
    s \in acked \cup errored \cup outstanding \cup pending \cup Outbound \cup {handoff}

\* The items that are in no queue and have no outcome.
Lost == {s \in 0 .. nextSeq - 1 : ~Located(s)}

\* An item leaves one place of the sender only for the next, whatever sendto(),
\* close(), ACKs, failures and the background thread do in between.  One item
\* at most is lost: the one whose PacketError ended the thread; it is no other
\* payload than encode() refuses, and nothing after it was sent
\* (_drain_outbound, _pump_windows, _fail_peer, close()).
NothingForgotten ==
    \A s \in Lost :
        /\ Lost = {s} /\ pc = "exited"
        /\ submitted[s + 1] \in Unencodable
        /\ \A m \in dataNet : m.seq < s

\* Every datagram handed over before the call of flush() was acknowledged or
\* has an error, except two: the item that the background thread held between
\* _outbound and _pending when flush() took its last snapshot, and the one that
\* killed the thread.
SettledButMissed ==
    0 .. flush.target - 1 \subseteq acked \cup errored \cup {flush.missed} \cup Lost

\* A flush(None) that returns has overlooked nothing else: no item that was in
\* _outbound, pending or in flight, also one that sendto() queued or ACKs and
\* failures moved while it looked (flush(), _drain_outbound).
FlushMissesOnlyHandoff ==
    flush.result = "ok" /\ flush.mode = "all" => SettledButMissed

-----------------------------------------------------------------------------
(* Parts of the inductive invariants.                                      *)

\* The items go through the queues in the order of their numbers.
QueueOrder ==
    /\ drained <= nextSeq
    /\ handoff < drained
    /\ \A s \in pending : s < drained /\ (handoff # -1 => s < handoff)

\* n is not beyond any item that was never sent.
BelowUnsent(n) ==
    /\ n <= drained
    /\ handoff # -1 => n <= handoff
    /\ \A s \in pending : n <= s

\* What is on the wire is what was submitted, and was sent in order.
WireContents ==
    \A m \in dataNet : BelowUnsent(m.seq + 1) /\ m.data = submitted[m.seq + 1]

\* What is in flight was sent.
InFlightSent == \A s \in outstanding : Packet(s) \in dataNet

\* What a flush(None) that saw nothing to wait for can have missed.
FlushShape ==
    /\ flush.target <= nextSeq
    /\ flush.pc # "idle" => flush.result = "none"
    /\ flush.mode = "all" =>
          /\ flush.pc = "check" /\ flush.items = {} => SettledButMissed
          /\ flush.result = "ok" => SettledButMissed

SenderInv ==
    /\ QueueOrder /\ WireContents /\ InFlightSent
    /\ NothingForgotten /\ FlushShape

-----------------------------------------------------------------------------
(* Liveness, under the fairness of the modules that extend this one.       *)

\* Every datagram handed to sendto() is acknowledged in the end, or MAX_RETRIES
\* timeouts make some datagram fail: with 100% loss the sender does not wait
\* for ever (comment of MAX_RETRIES).
AckedOrFailure ==
    \A s \in 0 .. MaxSends - 1 :
        s < nextSeq ~> (s \in acked \/ errored # {} \/ Stopped)

\* close() ends the background thread.
ThreadEnds == Stopped ~> pc = "exited"

-----------------------------------------------------------------------------
(* What the documentation says and the code does not do.                   *)

\* MAX_RETRIES: "Safety cap so 100% loss eventually fails instead of hanging
\* forever", and sendto(): "A new datagram starts a fresh attempt for this
\* peer".
EveryDatagramSettled ==
    \A s \in 0 .. MaxSends - 1 :
        s < nextSeq ~> (s \in acked \cup errored \/ Stopped)
=============================================================================
