------------------------------ MODULE StopAndWait ------------------------------
(***************************************************************************)
(* transport/stop_and_wait.py: an alternating bit for each direction, no   *)
(* thread of its own.  Two nodes, one thread at each: it is in sendto(),   *)
(* in recvfrom(), or in the application.  All that happens to a packet is  *)
(* decided by the call that takes it from the socket.                      *)
(*                                                                         *)
(* Each node has a socket buffer, a sequence of packets.  The path loses   *)
(* and repeats packets and keeps their order, as Channel does with jitter  *)
(* = reorder = 0: one bit cannot tell a datagram from the one two before   *)
(* it, which a path that reorders may deliver late.  A packet that         *)
(* verify() or decode() rejects is a lost one.  The timeouts pass at any   *)
(* time, so adaptive=True is included.                                     *)
(***************************************************************************)
EXTENDS Integers, Sequences

CONSTANTS
    Node,         \* two addresses
    MayClose,     \* a transport may be closed
    MaxRetries,   \* MAX_RETRIES
    MaxSends,     \* bound: sendto() calls of each node
    BufferSize    \* bound: packets in a socket buffer; more are lost

ASSUME NodeAssumption == \E x, y \in Node : x # y /\ Node = {x, y}
ASSUME LimitAssumption == MaxRetries \in Nat \ {0}
ASSUME BoundAssumption == MaxSends \in [Node -> Nat] /\ BufferSize \in Nat

VARIABLES
    sendBit,     \* _send_bit[peer], by node
    recvBit,     \* _recv_bit[peer]
    open,        \* close() has not been called
    pc,          \* where the thread is: in sendto() at "send" or "wait", in
                 \* recvfrom() at "recv" or "ack"
    attempt,     \* of the last sendto()
    submitted,   \* number of sendto() calls
    returned,    \* those that returned
    raised,      \* those that raised an exception
    held,        \* datagram recvfrom() will return, 0 for a duplicate
    got,         \* datagrams returned by recvfrom()
    socket       \* socket buffer

callVars == <<submitted, returned, raised>>
readVars == <<recvBit, held, got>>
vars == <<sendBit, open, pc, attempt, callVars, readVars, socket>>

Peer(n) == CHOOSE m \in Node : m # n

\* A packet; id numbers the datagrams of the sender and is not on the wire.
Data(n) == [flags |-> "DATA", bit |-> sendBit[n], id |-> submitted[n]]
Ack(n) == [flags |-> "ACK", bit |-> recvBit[n], id |-> 0]

Packet == [flags : {"DATA", "ACK"}, bit : 0 .. 1, id : Nat]

TypeOK ==
    /\ sendBit \in [Node -> 0 .. 1] /\ recvBit \in [Node -> 0 .. 1]
    /\ open \in [Node -> BOOLEAN]
    /\ pc \in [Node -> {"idle", "send", "wait", "recv", "ack"}]
    /\ attempt \in [Node -> 0 .. MaxRetries - 1]
    /\ submitted \in [Node -> Nat] /\ held \in [Node -> Nat]
    /\ returned \in [Node -> SUBSET Nat] /\ raised \in [Node -> SUBSET Nat]
    /\ got \in [Node -> Seq(Nat)]
    /\ socket \in [Node -> Seq(Packet)]

Init ==
    /\ sendBit = [n \in Node |-> 0] /\ recvBit = [n \in Node |-> 0]
    /\ open = [n \in Node |-> TRUE]
    /\ pc = [n \in Node |-> "idle"]
    /\ attempt = [n \in Node |-> 0]
    /\ submitted = [n \in Node |-> 0]
    /\ returned = [n \in Node |-> {}] /\ raised = [n \in Node |-> {}]
    /\ held = [n \in Node |-> 0]
    /\ got = [n \in Node |-> <<>>] /\ socket = [n \in Node |-> <<>>]

-----------------------------------------------------------------------------
(* The path.                                                               *)

\* channel.sendto(): the packet is lost, or put into the peer's buffer once or
\* twice.
Put(n, m) ==
    \E copies \in {<<>>, <<m>>, <<m, m>>} :
        /\ Len(socket[Peer(n)] \o copies) <= BufferSize
        /\ socket' = [socket EXCEPT ![Peer(n)] = @ \o copies]

\* channel.recvfrom() returns packet m.  A channel that is closed refuses packets
\* at once, but its socket stays open until the packets it holds are sent.
Take(n, m) ==
    /\ socket[n] # <<>> /\ m = Head(socket[n])
    /\ socket' = [socket EXCEPT ![n] = Tail(@)]

Arrived(n) == {socket[n][i] : i \in DOMAIN socket[n]}

-----------------------------------------------------------------------------
(* sendto().                                                               *)

SendCall(n) ==
    /\ pc[n] = "idle"
    /\ submitted[n] < MaxSends[n]
    /\ submitted' = [submitted EXCEPT ![n] = @ + 1]
    /\ attempt' = [attempt EXCEPT ![n] = 0]
    /\ pc' = [pc EXCEPT ![n] = "send"]
    /\ UNCHANGED <<sendBit, open, returned, raised, readVars, socket>>

Transmit(n) ==
    /\ pc[n] = "send" /\ open[n]
    /\ Put(n, Data(n))
    /\ pc' = [pc EXCEPT ![n] = "wait"]
    /\ UNCHANGED <<sendBit, open, attempt, callVars, readVars>>

\* Fault: the bit of an ACK is not compared.
AnyAck(n, m) == m.flags = "ACK"

\* The ACK that sendto() waits for.
Matches(n, m) == m.flags = "ACK" /\ m.bit = 1 - sendBit[n]

SendReturns(n) ==
    /\ pc[n] = "wait"
    /\ \E m \in Arrived(n) : Take(n, m) /\ Matches(n, m)
    /\ sendBit' = [sendBit EXCEPT ![n] = 1 - @]
    /\ returned' = [returned EXCEPT ![n] = @ \cup {submitted[n]}]
    /\ pc' = [pc EXCEPT ![n] = "idle"]
    /\ UNCHANGED <<open, attempt, submitted, raised, readVars>>

\* DATA and stale ACKs are dropped.
SendIgnores(n) ==
    /\ pc[n] = "wait"
    /\ \E m \in Arrived(n) : Take(n, m) /\ ~Matches(n, m)
    /\ UNCHANGED <<sendBit, open, pc, attempt, callVars, readVars>>

\* Fault: the attempts are not counted.
SameAttempt(n) == attempt[n]
NextAttempt(n) == attempt[n] + 1

AttemptsLeft(n) == NextAttempt(n) < MaxRetries

\* The timeout of an attempt passes: send again, or give up.
AttemptTimeout(n) ==
    /\ pc[n] = "wait"
    /\ IF AttemptsLeft(n)
       THEN /\ attempt' = [attempt EXCEPT ![n] = NextAttempt(n)]
            /\ pc' = [pc EXCEPT ![n] = "send"]
            /\ UNCHANGED raised
       ELSE /\ raised' = [raised EXCEPT ![n] = @ \cup {submitted[n]}]
            /\ pc' = [pc EXCEPT ![n] = "idle"]
            /\ UNCHANGED attempt
    /\ UNCHANGED <<sendBit, open, submitted, returned, readVars, socket>>

-----------------------------------------------------------------------------
(* recvfrom().                                                             *)

RecvCall(n) ==
    /\ pc[n] = "idle"
    /\ pc' = [pc EXCEPT ![n] = "recv"]
    /\ UNCHANGED <<sendBit, open, attempt, callVars, readVars, socket>>

\* Fault: duplicates are not recognised.
AlwaysNew(n, m) == TRUE
IsNew(n, m) == m.bit = recvBit[n]

RecvData(n) ==
    /\ pc[n] = "recv"
    /\ \E m \in Arrived(n) :
          /\ Take(n, m) /\ m.flags = "DATA"
          /\ held' = [held EXCEPT ![n] = IF IsNew(n, m) THEN m.id ELSE 0]
          /\ recvBit' = [recvBit EXCEPT ![n] = IF IsNew(n, m) THEN 1 - @ ELSE @]
    /\ pc' = [pc EXCEPT ![n] = "ack"]
    /\ UNCHANGED <<sendBit, open, attempt, callVars, got>>

RecvIgnores(n) ==
    /\ pc[n] = "recv"
    /\ \E m \in Arrived(n) : Take(n, m) /\ m.flags = "ACK"
    /\ UNCHANGED <<sendBit, open, pc, attempt, callVars, readVars>>

\* The ACK is sent; then a new datagram is returned, and after a duplicate the
\* loop goes on.
SendAck(n) ==
    /\ pc[n] = "ack" /\ open[n]
    /\ Put(n, Ack(n))
    /\ held' = [held EXCEPT ![n] = 0]
    /\ got' = IF held[n] # 0 THEN [got EXCEPT ![n] = Append(@, held[n])] ELSE got
    /\ pc' = [pc EXCEPT ![n] = IF held[n] # 0 THEN "idle" ELSE "recv"]
    /\ UNCHANGED <<sendBit, recvBit, open, attempt, callVars>>

RecvTimeout(n) ==
    /\ pc[n] = "recv"
    /\ pc' = [pc EXCEPT ![n] = "idle"]
    /\ UNCHANGED <<sendBit, open, attempt, callVars, readVars, socket>>

-----------------------------------------------------------------------------
\* close(), by another thread of the application or between calls.
Close(n) ==
    /\ MayClose /\ open[n]
    /\ open' = [open EXCEPT ![n] = FALSE]
    /\ UNCHANGED <<sendBit, pc, attempt, callVars, readVars, socket>>

\* A closed channel raises, out of sendto() and out of recvfrom(), which loses
\* the datagram it held.
Abort(n) ==
    /\ pc[n] # "idle" /\ ~open[n]
    /\ pc' = [pc EXCEPT ![n] = "idle"]
    /\ held' = [held EXCEPT ![n] = 0]
    /\ raised' = IF pc[n] \in {"send", "wait"}
                 THEN [raised EXCEPT ![n] = @ \cup {submitted[n]}]
                 ELSE raised
    /\ UNCHANGED <<sendBit, recvBit, open, attempt, submitted, returned, got, socket>>

Sendto(n) == SendCall(n) \/ Transmit(n) \/ SendReturns(n) \/ SendIgnores(n)
                \/ AttemptTimeout(n)
Recvfrom(n) == RecvCall(n) \/ RecvData(n) \/ RecvIgnores(n) \/ SendAck(n)
                  \/ RecvTimeout(n)

Next == \E n \in Node : Sendto(n) \/ Recvfrom(n) \/ Close(n) \/ Abort(n)

Spec == Init /\ [][Next]_vars

\* A thread in sendto() runs, and its timeout passes.  Nothing is assumed of the
\* path, of the peer, or of further calls.
Fairness == \A n \in Node :
    WF_vars(Transmit(n) \/ Abort(n)) /\ WF_vars(AttemptTimeout(n))

FairSpec == Spec /\ Fairness

-----------------------------------------------------------------------------
\* recvfrom() returns a datagram at most once and in the order of the sendto()
\* calls, and leaves none out as long as no sendto() has raised: retransmissions
\* and repeated packets are told from new ones (recvfrom(), "Duplicate: ...").
DeliveredInOrder ==
    \A n \in Node :
        /\ \A i, j \in DOMAIN got[n] : i < j => got[n][i] < got[n][j]
        /\ raised[Peer(n)] = {} => \A i \in DOMAIN got[n] : got[n][i] = i

Delivered(n) == {got[n][i] : i \in DOMAIN got[n]}

\* A sendto() that returns has delivered its datagram to the peer's application,
\* whichever ACKs were late or repeated, as long as no earlier one has raised.
ReturnedWasDelivered ==
    \A n \in Node : raised[n] = {} => returned[n] \subseteq Delivered(Peer(n))

\* sendto() does not hang: with MAX_RETRIES attempts, it returns or raises
\* (comment of MAX_RETRIES).
SendEnds == \A n \in Node : pc[n] \in {"send", "wait"} ~> pc[n] = "idle"

-----------------------------------------------------------------------------
(* The inductive invariant behind the safety properties, for what n sends. *)

Sending(n) == pc[n] \in {"send", "wait"}

\* The positions of DATA and of ACKs in the buffer of n.
DataAt(n) == {i \in DOMAIN socket[n] : socket[n][i].flags = "DATA"}
AcksAt(n) == {i \in DOMAIN socket[n] : socket[n][i].flags = "ACK"}

\* DATA arrives in the order of the sendto() calls, and the copies of a
\* datagram have one bit.
DataOrder(n) ==
    \A i, j \in DataAt(Peer(n)) :
        LET k == socket[Peer(n)][i]
            m == socket[Peer(n)][j]
        IN  /\ 1 <= m.id /\ m.id <= submitted[n]
            /\ Sending(n) /\ m.id = submitted[n] => m.bit = sendBit[n]
            /\ i <= j => k.id <= m.id
            /\ k.id = m.id => k.bit = m.bit

\* The datagrams that n has accepted and not lost.
AcceptedBy(n) == Delivered(n) \cup ({held[n]} \ {0})

\* What is accepted will not be accepted again, nor anything before it.
AcceptedOnce(n) ==
    \A x \in AcceptedBy(Peer(n)) :
        /\ x <= submitted[n]
        /\ Sending(n) /\ x = submitted[n] => sendBit[n] # recvBit[Peer(n)]
        /\ \A i \in DataAt(Peer(n)) :
              LET m == socket[Peer(n)][i]
              IN  x <= m.id /\ (x = m.id => m.bit # recvBit[Peer(n)])

\* A datagram that recvfrom() holds comes after those it has returned.
HeldIsNext(n) ==
    /\ held[n] # 0 => pc[n] = "ack" /\ \A x \in Delivered(n) : x < held[n]
    /\ \A i, j \in DOMAIN got[n] : i < j => got[n][i] < got[n][j]

\* The sendto() calls of n that have ended.
Settled(n) == IF Sending(n) THEN submitted[n] - 1 ELSE submitted[n]

AcceptedCount(n) == IF held[n] = 0 THEN Len(got[n]) ELSE Len(got[n]) + 1

\* Until a call raises, the receiver is at the datagram the sender is at, or one
\* further; their bits say which.
BitsAgree(n) ==
    /\ returned[n] = 1 .. Settled(n)
    /\ Settled(n) <= Len(got[Peer(n)])
    /\ \A i \in DOMAIN got[Peer(n)] : got[Peer(n)][i] = i
    /\ open[Peer(n)] =>
          /\ held[Peer(n)] # 0 => held[Peer(n)] = Len(got[Peer(n)]) + 1
          /\ AcceptedCount(Peer(n)) <= submitted[n]
          /\ recvBit[Peer(n)] = sendBit[n] <=> AcceptedCount(Peer(n)) = Settled(n)

\* Until a call raises, an ACK with the bit that sendto() waits for was sent
\* after the datagram was returned, and only such ACKs follow it.
AcksTruthful(n) ==
    \A i \in AcksAt(n) :
        socket[n][i].bit # sendBit[n] =>
            /\ Settled(n) + 1 <= Len(got[Peer(n)])
            /\ \A j \in AcksAt(n) : i <= j => socket[n][j].bit # sendBit[n]

IndInv ==
    /\ TypeOK
    /\ \A n \in Node :
          /\ Sending(n) => 1 <= submitted[n]
          /\ DataOrder(n) /\ HeldIsNext(n) /\ AcceptedOnce(n)
          /\ raised[n] = {} => BitsAgree(n) /\ AcksTruthful(n)

-----------------------------------------------------------------------------
(* What the documentation says and the code does not do.                   *)

\* Module doc: sendto() blocks "until the matching ACK arrives", so that what it
\* confirms was accepted by the peer, also after another call has raised.
ConfirmedWasDelivered ==
    \A n \in Node : returned[n] \subseteq Delivered(Peer(n))
=============================================================================
