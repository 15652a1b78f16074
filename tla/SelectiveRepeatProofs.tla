------------------------ MODULE SelectiveRepeatProofs ------------------------
(***************************************************************************)
(* Theorems about SelectiveRepeat for every window size, every number of   *)
(* datagrams and retries, and every set of payloads.                       *)
(***************************************************************************)
EXTENDS AdaptiveSelectiveRepeat, SlidingWindowProofs, SequenceTheorems

USE DEF nextSeq, Outbound, Stopped, Packets, Failing, RetriesLeft, FlushItems,
        Buffered, ArmedAfterSend, Rescheduled, DueInFlight, InWindow,
        Reports

-----------------------------------------------------------------------------
(* Who writes what: for each part of the state, the steps that change it.  *)

ActionSplit ==
    \/ CommonStep /\ UNCHANGED ownVars
    \/ PumpSend \/ PumpSendFails \/ TimersNotDue \/ Retransmit \/ FailPeer
    \/ IgnoreAck \/ AcceptAck \/ Expire \/ PeerReceive \/ PeerSendAck
    \/ PeerPut

SubmitFrame ==
    UNCHANGED submitted \/ (SendPut /\ UNCHANGED ownVars)
BaseFrame ==
    UNCHANGED <<known, base>> \/ DrainPut \/ AcceptAck
AckedOwnFrame ==
    UNCHANGED acked \/ AcceptAck
TimersFrame ==
    \/ UNCHANGED <<armed, due, outstanding>>
    \/ PumpSend \/ PumpSendFails \/ TimersNotDue \/ Retransmit \/ FailPeer
    \/ AcceptAck \/ Expire
AckNetFrame ==
    UNCHANGED ackNet \/ PeerSendAck
ReceiverFrame ==
    \/ UNCHANGED <<expected, buffer, deliver, ackFor, peerPc, incoming>>
    \/ PeerReceive \/ PeerSendAck \/ PeerPut
    \/ (PeerAckFails \/ PeerExit) /\ UNCHANGED ownVars
PeerOpenFrame ==
    UNCHANGED peerOpen \/ PeerClose
TakenFrame ==
    UNCHANGED taken \/ RecvFrom

Frames ==
    /\ SharedStep /\ SubmitFrame /\ BaseFrame /\ AckedOwnFrame /\ TimersFrame
    /\ AckNetFrame /\ ReceiverFrame /\ PeerOpenFrame /\ TakenFrame

LEMMA StepIsAction == Next => ActionSplit
  BY DEF Next, ActionSplit, CommonStep, SenderLoop, PumpStep, TimeoutStep,
         AckStep, PeerLoopStep, Sendto, Flush, Close, Drain, Control,
         PeerControl, PeerApp

LEMMA StepIsShared == [Next]_vars => SharedStep
<1> SUFFICES ASSUME [Next]_vars PROVE SharedStep
  OBVIOUS
<1> USE DEF SharedStep, SubmittedFrame, QueuesFrame, OutstandingFrame,
        RetriesFrame, ErroredFrame, AckedFrame, PeerErrorFrame, FlushFrame,
        DataNetFrame, ControlFrame, appVars, queueVars, windowVars,
        outcomeVars, netVars, peerVars, senderVars, connectionVars
<1>1. CASE CommonStep /\ UNCHANGED ownVars
  BY <1>1, CommonStepFrames DEF CommonFrames
<1>2. CASE PumpSend BY <1>2 DEF PumpSend, SomeItemPumped, PumpItem
<1>3. CASE PumpSendFails
  BY <1>3 DEF PumpSendFails, SomeItemFails, PumpItemFails
<1>4. CASE TimersNotDue BY <1>4 DEF TimersNotDue, AfterTimeouts, LoopMoves
<1>5. CASE Retransmit BY <1>5 DEF Retransmit, AfterTimeouts, LoopMoves, Resent
<1>6. CASE FailPeer BY <1>6 DEF FailPeer, FailWindow, AfterTimeouts, LoopMoves
<1>7. CASE IgnoreAck BY <1>7 DEF IgnoreAck, LoopMoves
<1>8. CASE AcceptAck BY <1>8 DEF AcceptAck, AckTaken, LoopMoves
<1>9. CASE Expire BY <1>9 DEF Expire
<1>10. CASE PeerReceive BY <1>10 DEF PeerReceive
<1>11. CASE PeerSendAck BY <1>11 DEF PeerSendAck
<1>12. CASE PeerPut BY <1>12 DEF PeerPut
<1>13. CASE UNCHANGED vars BY <1>13 DEF vars
<1> QED
  BY StepIsAction, <1>1, <1>2, <1>3, <1>4, <1>5, <1>6, <1>7, <1>8, <1>9,
     <1>10, <1>11, <1>12, <1>13 DEF ActionSplit

LEMMA StepFrames == [Next]_vars => Frames
<1> SUFFICES ASSUME [Next]_vars PROVE Frames
  OBVIOUS
<1> USE StepIsShared
    DEF Frames, SubmitFrame, BaseFrame, AckedOwnFrame, TimersFrame,
        AckNetFrame, ReceiverFrame, PeerOpenFrame, TakenFrame, ownVars,
        timerVars, arrivalVars, appVars, queueVars, windowVars, outcomeVars,
        netVars, peerVars, senderVars, connectionVars
<1>1. CASE CommonStep /\ UNCHANGED ownVars
  BY <1>1, CommonStepFrames DEF CommonFrames, SharedStep, SubmittedFrame
<1>2. CASE PumpSend BY <1>2 DEF PumpSend, PumpItem
<1>3. CASE PumpSendFails BY <1>3 DEF PumpSendFails, PumpItemFails
<1>4. CASE TimersNotDue BY <1>4 DEF TimersNotDue
<1>5. CASE Retransmit BY <1>5 DEF Retransmit
<1>6. CASE FailPeer BY <1>6 DEF FailPeer, FailWindow
<1>7. CASE IgnoreAck BY <1>7 DEF IgnoreAck
<1>8. CASE AcceptAck BY <1>8 DEF AcceptAck
<1>9. CASE Expire BY <1>9 DEF Expire
<1>10. CASE PeerReceive BY <1>10 DEF PeerReceive
<1>11. CASE PeerSendAck BY <1>11 DEF PeerSendAck
<1>12. CASE PeerPut BY <1>12 DEF PeerPut
<1>13. CASE UNCHANGED vars BY <1>13 DEF vars
<1> QED
  BY StepIsAction, <1>1, <1>2, <1>3, <1>4, <1>5, <1>6, <1>7, <1>8, <1>9,
     <1>10, <1>11, <1>12, <1>13 DEF ActionSplit

-----------------------------------------------------------------------------
(* What every part of the argument uses.                                   *)

LEMMA IndInvParts ==
  ASSUME IndInv
  PROVE  SenderTypes /\ SenderInv /\ PeerTypeOK /\ OwnTypeOK
  BY DEF IndInv, TypeOK, ConnectionTypeOK, SenderTypes

LEMMA BaseTypeNext ==
  ASSUME IndInv, [Next]_vars
  PROVE  base' \in Nat /\ known' \in BOOLEAN
<1>1. CASE AcceptAck
  <2>1. base \in Nat /\ nextSeq \in Nat
    BY IndInvParts, QueueTypes DEF SenderTypes, SenderTypeOK
  <2>2. PICK n \in base .. nextSeq : base' = n
    BY <1>1 DEF AcceptAck
  <2>3. base' \in Nat
    BY <2>1, <2>2
  <2> QED BY <1>1, <2>3, IndInvParts DEF AcceptAck, SenderTypes, SenderTypeOK
<1>2. CASE DrainPut
  BY <1>2, IndInvParts DEF DrainPut, SenderTypes, SenderTypeOK
<1>3. CASE UNCHANGED <<known, base>>
  BY <1>3, IndInvParts DEF SenderTypes, SenderTypeOK
<1> QED BY <1>1, <1>2, <1>3, StepFrames DEF Frames, BaseFrame

LEMMA Stable ==
  ASSUME IndInv, [Next]_vars, NEW n \in Nat, BelowUnsent(n)
  PROVE  BelowUnsent(n)'
  BY StepFrames, IndInvParts, BelowUnsentStable DEF Frames, SenderTypes, SenderInv

LEMMA Grows ==
  ASSUME IndInv, [Next]_vars
  PROVE  /\ nextSeq <= nextSeq'
         /\ \A i \in 1 .. nextSeq : submitted'[i] = submitted[i]
  BY StepFrames, IndInvParts, SubmittedGrows DEF Frames, SenderTypes

\* Below what was never sent, everything was submitted.
LEMMA SentIsSubmitted ==
  ASSUME IndInv, NEW n \in Nat, BelowUnsent(n)
  PROVE  n <= nextSeq
  BY DEF IndInv, SenderInv, QueueOrder, BelowUnsent, TypeOK, ConnectionTypeOK,
         SenderTypeOK

-----------------------------------------------------------------------------
(* A packet arrives.                                                       *)

\* What the receiver holds after packet m.
LEMMA HeldPackets ==
  ASSUME IndInv, NEW m \in dataNet
  PROVE  /\ Buffered \subseteq DOMAIN Held(m)
         /\ DOMAIN Held(m) \subseteq Buffered \cup {m.seq}
         /\ \A s \in DOMAIN Held(m) :
               /\ s \in Nat /\ expected <= s /\ s < expected + Window
               /\ BelowUnsent(s + 1)
               /\ Held(m)[s] = submitted[s + 1] /\ Held(m)[s] \in Payload
         /\ InWindow(m) => m.seq \in DOMAIN Held(m)
         /\ ~InWindow(m) => Held(m) = buffer
<1>1. /\ m.seq \in Nat /\ m.data \in Payload
      /\ BelowUnsent(m.seq + 1) /\ m.data = submitted[m.seq + 1]
  BY DEF IndInv, TypeOK, ConnectionTypeOK, NetTypeOK, SenderInv, WireContents
<1>2. ASSUME NEW s \in Buffered
      PROVE  /\ s \in Nat /\ expected + 1 <= s /\ s < expected + Window
             /\ BelowUnsent(s + 1)
             /\ buffer[s] = submitted[s + 1] /\ buffer[s] \in Payload
  <2>1. expected \in Nat /\ s \in expected + 1 .. expected + Window - 1
    BY DEF IndInv, BufferBound, TypeOK, ConnectionTypeOK, PeerTypeOK
  <2>2. s \in Nat /\ expected + 1 <= s /\ s < expected + Window
    BY <2>1, WindowAssumption
  <2> QED BY <2>2 DEF IndInv, ReceiverShape, TypeOK, OwnTypeOK
<1>3. expected \in Nat
  BY DEF IndInv, TypeOK, ConnectionTypeOK, PeerTypeOK
<1>4. CASE InWindow(m)
  BY <1>1, <1>2, <1>3, <1>4 DEF Held
<1>5. CASE ~InWindow(m)
  BY <1>1, <1>2, <1>3, <1>5 DEF Held
<1> QED BY <1>4, <1>5

\* The step, in the words the other lemmas use.
LEMMA Arrival ==
  ASSUME IndInv, [Next]_vars, PeerReceive
  PROVE  \E m \in dataNet, n \in expected .. expected + Window :
            /\ expected' = n /\ n \in Nat
            /\ RunEnds(Held(m), n)
            /\ BelowUnsent(n) /\ BelowUnsent(n)' /\ n <= nextSeq
            /\ buffer' = [s \in DOMAIN Held(m) \ (expected .. n - 1) |-> Held(m)[s]]
            /\ \A s \in Buffered' : s >= n + 1
            /\ ackFor' = AckField(m)
            /\ deliver' = [i \in 1 .. n - expected |-> Held(m)[expected + i - 1]]
            /\ deliver' \in Seq(Payload) /\ Len(deliver') = n - expected
            /\ \A i \in 1 .. Len(deliver') : deliver'[i] = submitted[expected + i]
            /\ deliver = <<>> /\ Len(incoming) = expected
            /\ UNCHANGED <<submitted, acked, ackNet, incoming>>
<1>1. PICK m \in dataNet, n \in expected .. expected + Window :
          /\ RunEnds(Held(m), n)
          /\ expected' = n
          /\ deliver' = [i \in 1 .. n - expected |-> Held(m)[expected + i - 1]]
          /\ buffer' = [s \in DOMAIN Held(m) \ (expected .. n - 1) |-> Held(m)[s]]
          /\ ackFor' = AckField(m)
  BY DEF PeerReceive
<1>2. expected \in Nat /\ n \in Nat /\ expected <= n
  BY DEF IndInv, TypeOK, ConnectionTypeOK, PeerTypeOK
<1>3. UNCHANGED <<submitted, acked, ackNet, incoming>> /\ peerPc = "recv"
  BY DEF PeerReceive, senderVars, appVars, outcomeVars, netVars
<1>4. deliver = <<>> /\ Len(incoming) = expected
  BY <1>2, <1>3 DEF IndInv, ReceiverShape, TypeOK, ConnectionTypeOK, PeerTypeOK
<1>5. BelowUnsent(n)
  <2>1. CASE n = expected
    BY <2>1 DEF IndInv, ReceiverShape
  <2>2. CASE n > expected
    <3>1. n - 1 \in DOMAIN Held(m)
      BY <1>1, <1>2, <2>2 DEF RunEnds
    <3>2. BelowUnsent((n - 1) + 1)
      BY <3>1, HeldPackets
    <3>3. (n - 1) + 1 = n
      BY <1>2
    <3> QED BY <3>2, <3>3
  <2> QED BY <1>2, <2>1, <2>2
<1>6. ASSUME NEW i \in 1 .. n - expected
      PROVE  /\ Held(m)[expected + i - 1] \in Payload
             /\ Held(m)[expected + i - 1] = submitted[expected + i]
  <2>1. expected + i - 1 \in DOMAIN Held(m)
    BY <1>1, <1>2 DEF RunEnds
  <2>2. (expected + i - 1) + 1 = expected + i
    BY <1>2
  <2> QED BY <2>1, <2>2, HeldPackets
<1>7. /\ deliver' \in Seq(Payload) /\ Len(deliver') = n - expected
      /\ \A i \in 1 .. Len(deliver') : deliver'[i] = submitted[expected + i]
  <2> DEFINE k == n - expected
             p(i) == Held(m)[expected + i - 1]
  <2>1. k \in Nat
    BY <1>2
  <2>2. \A i \in 1 .. k : p(i) \in Payload /\ p(i) = submitted[expected + i]
    BY <1>6
  <2>3. deliver' = [i \in 1 .. k |-> p(i)]
    BY <1>1
  <2> HIDE DEF k, p
  <2>4. deliver' \in Seq(Payload) /\ Len(deliver') = k
    BY <2>1, <2>2, <2>3
  <2>5. \A i \in 1 .. Len(deliver') : deliver'[i] = submitted[expected + i]
    BY <2>2, <2>3, <2>4
  <2> QED BY <2>4, <2>5 DEF k
<1>8. ASSUME NEW s \in Buffered' PROVE s >= n + 1
  <2>1. s \in DOMAIN Held(m) /\ s \notin expected .. n - 1
    BY <1>1
  <2>2. s \in Nat /\ expected <= s /\ s # n
    BY <1>1, <2>1, HeldPackets DEF RunEnds
  <2> QED BY <1>2, <2>1, <2>2
<1> QED
  BY <1>1, <1>2, <1>3, <1>4, <1>5, <1>7, <1>8, Stable, SentIsSubmitted

\* What has arrived stays, and a packet inside the window is added.
LEMMA ReceivedGrows ==
  ASSUME IndInv, [Next]_vars
  PROVE  Received \subseteq Received'
<1>1. expected \in Nat
  BY DEF IndInv, TypeOK, ConnectionTypeOK, PeerTypeOK
<1>2. CASE PeerReceive
  <2>1. PICK m \in dataNet, n \in expected .. expected + Window :
          /\ expected' = n
          /\ buffer' = [s \in DOMAIN Held(m) \ (expected .. n - 1) |-> Held(m)[s]]
    BY <1>2, Arrival
  <2>2. Buffered \subseteq DOMAIN Held(m)
    BY HeldPackets
  <2>3. ASSUME NEW s \in Received PROVE s \in Received'
    <3>1. CASE s \in 0 .. expected - 1
      BY <1>1, <2>1, <3>1 DEF Received
    <3>2. CASE s \in Buffered
      <4>1. s \in Nat
        BY <3>2 DEF IndInv, TypeOK, OwnTypeOK
      <4>2. CASE s \in expected .. n - 1
        BY <1>1, <2>1, <4>1, <4>2 DEF Received
      <4>3. CASE s \notin expected .. n - 1
        <5>1. s \in Buffered'
          BY <2>1, <2>2, <3>2, <4>3
        <5> QED BY <5>1 DEF Received
      <4> QED BY <4>2, <4>3
    <3> QED BY <3>1, <3>2 DEF Received
  <2> QED BY <2>3
<1>3. CASE UNCHANGED <<expected, buffer>>
  BY <1>3 DEF Received
<1> QED
  BY <1>2, <1>3, StepFrames
     DEF Frames, ReceiverFrame, PeerSendAck, PeerPut, PeerAckFails, PeerExit,
         ownVars, arrivalVars

-----------------------------------------------------------------------------
(* Each part of the invariant.                                             *)

LEMMA OwnTypeNext ==
  ASSUME IndInv, [Next]_vars
  PROVE  OwnTypeOK'
<1> USE StepFrames, IndInvParts DEF Frames, OwnTypeOK
<1>1. armed' \subseteq Nat /\ due' \subseteq armed'
  <2> USE DEF SenderTypes, SenderTypeOK
  <2>1. CASE PumpSend BY <2>1 DEF PumpSend
  <2>2. CASE PumpSendFails BY <2>2 DEF PumpSendFails
  <2>3. CASE TimersNotDue BY <2>3 DEF TimersNotDue
  <2>4. CASE Retransmit BY <2>4 DEF Retransmit
  <2>5. CASE FailPeer BY <2>5 DEF FailPeer
  <2>6. CASE AcceptAck BY <2>6 DEF AcceptAck
  <2>7. CASE Expire BY <2>7 DEF Expire
  <2>8. CASE UNCHANGED <<armed, due>> BY <2>8
  <2> QED
    BY <2>1, <2>2, <2>3, <2>4, <2>5, <2>6, <2>7, <2>8 DEF TimersFrame
<1>2. Buffered' \subseteq Nat /\ buffer' \in [Buffered' -> Payload]
  <2>1. CASE PeerReceive
    <3>1. PICK m \in dataNet, n \in Nat :
            buffer' = [s \in DOMAIN Held(m) \ (expected .. n - 1) |-> Held(m)[s]]
      BY <2>1, Arrival
    <3> QED BY <3>1, HeldPackets
  <2>2. CASE UNCHANGED buffer
    BY <2>2
  <2> QED
    BY <2>1, <2>2 DEF ReceiverFrame, PeerSendAck, PeerPut, ownVars, arrivalVars
<1>3. deliver' \in Seq(Payload) /\ ackFor' \in Nat
  <2>1. CASE PeerReceive
    <3>1. PICK m \in dataNet : deliver' \in Seq(Payload) /\ ackFor' = AckField(m)
      BY <2>1, Arrival
    <3>2. m.seq \in Nat /\ expected \in Nat
      BY DEF SenderTypes, NetTypeOK, PeerTypeOK
    <3> QED BY <3>1, <3>2 DEF AckField
  <2>2. CASE PeerSendAck
    BY <2>2 DEF PeerSendAck
  <2>3. CASE PeerPut
    <3>1. deliver # <<>> /\ deliver' = Tail(deliver) /\ ackFor' = ackFor
      BY <2>3 DEF PeerPut, IndInv, ReceiverShape
    <3> QED BY <3>1, HeadTailProperties
  <2>4. CASE UNCHANGED <<deliver, ackFor>>
    BY <2>4
  <2> QED BY <2>1, <2>2, <2>3, <2>4 DEF ReceiverFrame, ownVars, arrivalVars
<1> QED BY <1>1, <1>2, <1>3

LEMMA PeerTypeNext ==
  ASSUME IndInv, [Next]_vars
  PROVE  PeerTypeOK' /\ ackNet' \subseteq Nat
<1> USE StepFrames, IndInvParts DEF Frames, PeerTypeOK
<1>1. ackNet' \subseteq Nat
  BY DEF AckNetFrame, PeerSendAck, OwnTypeOK, SenderTypes, NetTypeOK
<1>2. expected' \in Nat
  BY Arrival
     DEF ReceiverFrame, PeerSendAck, PeerAckFails, PeerPut, PeerExit
<1>3. peerPc' \in {"recv", "ack", "put", "exited"}
  BY DEF ReceiverFrame, PeerReceive, PeerSendAck, PeerAckFails, PeerPut,
         PeerExit, PeerLoop
<1>4. peerOpen' \in BOOLEAN
  BY DEF PeerOpenFrame, PeerClose
<1>5. incoming' \in Seq(Payload) /\ Len(incoming) <= Len(incoming')
  <2>1. CASE PeerPut
    <3>1. deliver # <<>> /\ incoming' = Append(incoming, Head(deliver))
      BY <2>1 DEF PeerPut, IndInv, ReceiverShape
    <3>2. Head(deliver) \in Payload
      BY <3>1, HeadTailProperties DEF OwnTypeOK
    <3> QED BY <3>1, <3>2
  <2>2. CASE UNCHANGED incoming
    BY <2>2
  <2> QED
    BY <2>1, <2>2
       DEF ReceiverFrame, PeerReceive, PeerSendAck, PeerAckFails, PeerExit
<1>6. taken' \in 0 .. Len(incoming')
  BY <1>5 DEF TakenFrame, RecvFrom
<1> QED BY <1>1, <1>2, <1>3, <1>4, <1>5, <1>6

LEMMA TypesNext ==
  ASSUME IndInv, [Next]_vars
  PROVE  TypeOK'
<1>1. /\ SenderTypeOK' /\ SenderControlTypeOK' /\ FlushTypeOK'
      /\ dataNet' \subseteq Packets
  BY BaseTypeNext, SenderInvNext, StepFrames, IndInvParts DEF Frames
<1> QED
  BY <1>1, OwnTypeNext, PeerTypeNext DEF TypeOK, ConnectionTypeOK, NetTypeOK

\* Only what has arrived is acknowledged.
LEMMA TruthfulNext ==
  ASSUME IndInv, [Next]_vars, NEW a \in (ackNet \cup {ackFor})'
  PROVE  Truthful(a)'
<1>1. expected \in Nat
  BY DEF IndInv, TypeOK, ConnectionTypeOK, PeerTypeOK
<1>2. CASE a \in ackNet \cup {ackFor, 0}
  BY <1>2, ReceivedGrows DEF IndInv, ReceiverShape, Truthful
<1>3. CASE PeerReceive /\ a = ackFor'
  <2>1. PICK m \in dataNet, n \in expected .. expected + Window :
          /\ expected' = n /\ n \in Nat
          /\ buffer' = [s \in DOMAIN Held(m) \ (expected .. n - 1) |-> Held(m)[s]]
          /\ ackFor' = AckField(m)
    BY <1>3, Arrival
  <2>2. m.seq \in Nat
    BY DEF IndInv, TypeOK, ConnectionTypeOK, NetTypeOK
  <2>3. CASE m.seq < expected
    <3>1. a - 1 = m.seq
      BY <1>1, <1>3, <2>1, <2>2, <2>3, WindowAssumption DEF AckField
    <3> QED BY <1>1, <2>1, <2>2, <2>3, <3>1 DEF Truthful, Received
  <2>4. CASE InWindow(m)
    <3>1. a - 1 = m.seq
      BY <1>1, <1>3, <2>1, <2>2, <2>4 DEF AckField
    <3>2. m.seq \in DOMAIN Held(m)
      BY <2>4, HeldPackets
    <3>3. m.seq \in Buffered' \/ m.seq \in expected .. n - 1
      BY <2>1, <3>2
    <3> QED BY <1>1, <2>1, <2>2, <3>1, <3>3 DEF Truthful, Received
  <2>5. CASE expected + Window <= m.seq
    <3>1. a = expected
      BY <1>1, <1>3, <2>1, <2>2, <2>5, WindowAssumption DEF AckField
    <3> QED BY <1>1, <2>1, <3>1 DEF Truthful, Received
  <2> QED BY <1>1, <2>2, <2>3, <2>4, <2>5, WindowAssumption
<1>4. a \in ackNet \cup {ackFor, 0} \/ (PeerReceive /\ a = ackFor')
  BY StepFrames
     DEF Frames, AckNetFrame, ReceiverFrame, PeerReceive, PeerSendAck, PeerPut,
         ownVars, arrivalVars, netVars
<1> QED BY <1>2, <1>3, <1>4

LEMMA ReceiverShapeNext ==
  ASSUME IndInv, [Next]_vars
  PROVE  ReceiverShape'
<1>0. /\ expected \in Nat /\ expected <= nextSeq
      /\ UNCHANGED expected => BelowUnsent(expected)'
  <2>1. PICK n \in Nat : n = expected /\ BelowUnsent(n)
    BY DEF IndInv, ReceiverShape, TypeOK, ConnectionTypeOK, PeerTypeOK
  <2>2. n <= nextSeq
    BY <2>1, SentIsSubmitted
  <2>3. BelowUnsent(n)'
    BY <2>1, Stable
  <2> QED BY <2>1, <2>2, <2>3 DEF BelowUnsent
<1>1. \A s \in Buffered : BelowUnsent(s + 1)' /\ buffer[s] = submitted'[s + 1]
  <2> SUFFICES ASSUME NEW s \in Buffered
               PROVE  BelowUnsent(s + 1)' /\ buffer[s] = submitted'[s + 1]
    OBVIOUS
  <2>1. s \in Nat /\ BelowUnsent(s + 1) /\ buffer[s] = submitted[s + 1]
    BY DEF IndInv, ReceiverShape, TypeOK, OwnTypeOK
  <2>2. s + 1 <= nextSeq
    BY <2>1, SentIsSubmitted
  <2>3. s + 1 \in 1 .. nextSeq
    BY <2>1, <2>2 DEF IndInv, TypeOK, ConnectionTypeOK, SenderTypeOK
  <2> QED BY <2>1, <2>3, Grows, Stable
<1>2. \A a \in (ackNet \cup {ackFor})' : Truthful(a)'
  BY TruthfulNext
<1>3. CASE PeerReceive
  <2>1. PICK m \in dataNet, n \in expected .. expected + Window :
            /\ expected' = n
            /\ BelowUnsent(n)'
            /\ buffer' = [s \in DOMAIN Held(m) \ (expected .. n - 1) |-> Held(m)[s]]
            /\ Len(deliver') = n - expected
            /\ \A i \in 1 .. Len(deliver') : deliver'[i] = submitted[expected + i]
            /\ Len(incoming) = expected
            /\ UNCHANGED <<submitted, incoming>>
    BY <1>3, Arrival
  <2>2. \A s \in Buffered' : BelowUnsent(s + 1)' /\ buffer'[s] = submitted'[s + 1]
    <3> SUFFICES ASSUME NEW s \in Buffered'
                 PROVE  BelowUnsent(s + 1)' /\ buffer'[s] = submitted'[s + 1]
      OBVIOUS
    <3>1. s \in DOMAIN Held(m) /\ buffer'[s] = Held(m)[s]
      BY <2>1
    <3>2. s \in Nat /\ BelowUnsent(s + 1) /\ Held(m)[s] = submitted[s + 1]
      BY <3>1, HeldPackets
    <3> QED BY <2>1, <3>1, <3>2, Stable
  <2>3. Len(incoming') + Len(deliver') = expected'
    BY <1>0, <2>1
  <2>4. peerPc' = "ack"
    BY <1>3 DEF PeerReceive
  <2> QED BY <1>2, <2>1, <2>2, <2>3, <2>4 DEF ReceiverShape
<1>4. CASE PeerPut
  <2>1. /\ deliver # <<>> /\ deliver \in Seq(Payload) /\ incoming \in Seq(Payload)
        /\ incoming' = Append(incoming, Head(deliver)) /\ deliver' = Tail(deliver)
        /\ Len(incoming) + Len(deliver) = expected
        /\ \A i \in 1 .. Len(deliver) : deliver[i] = submitted[Len(incoming) + i]
        /\ peerPc' = IF Tail(deliver) = <<>> THEN PeerLoop ELSE "put"
        /\ UNCHANGED <<expected, buffer, submitted>>
    BY <1>4
       DEF PeerPut, senderVars, appVars, IndInv, ReceiverShape, TypeOK, OwnTypeOK,
           ConnectionTypeOK, PeerTypeOK
  <2>2. /\ Len(incoming') = Len(incoming) + 1
        /\ Len(deliver') = Len(deliver) - 1
        /\ \A i \in 1 .. Len(deliver') : deliver'[i] = deliver[i + 1]
    BY <2>1, HeadTailProperties, AppendProperties
  <2>3. Len(incoming') + Len(deliver') = expected'
    BY <2>1, <2>2
  <2>4. ASSUME NEW i \in 1 .. Len(deliver')
        PROVE  deliver'[i] = submitted'[Len(incoming') + i]
    <3>1. i + 1 \in 1 .. Len(deliver) /\ deliver'[i] = deliver[i + 1]
      BY <2>1, <2>2
    <3>2. Len(incoming) + (i + 1) = Len(incoming') + i
      BY <2>1, <2>2
    <3> QED BY <2>1, <3>1, <3>2
  <2> QED BY <1>0, <1>1, <1>2, <2>1, <2>3, <2>4 DEF ReceiverShape, PeerLoop
<1>5. CASE /\ UNCHANGED <<expected, buffer, deliver, incoming>>
           /\ peerPc' = "recv" => deliver = <<>>
           /\ peerPc' = "put" => deliver # <<>>
  <2>1. ASSUME NEW i \in 1 .. Len(deliver)
        PROVE  deliver[i] = submitted'[Len(incoming) + i]
    <3>1. /\ deliver[i] = submitted[Len(incoming) + i]
          /\ Len(incoming) + i \in 1 .. nextSeq
      BY <1>0
         DEF IndInv, ReceiverShape, TypeOK, OwnTypeOK, ConnectionTypeOK, PeerTypeOK,
             SenderTypeOK
    <3> QED BY <3>1, Grows
  <2> QED BY <1>0, <1>1, <1>2, <1>5, <2>1 DEF ReceiverShape, IndInv
<1>6. CASE PeerSendAck
  BY <1>5, <1>6 DEF PeerSendAck, PeerLoop
<1>7. CASE (PeerAckFails \/ PeerExit) /\ UNCHANGED ownVars
  BY <1>5, <1>7 DEF PeerAckFails, PeerExit, ownVars, arrivalVars
<1>8. CASE UNCHANGED <<expected, buffer, deliver, ackFor, peerPc, incoming>>
  BY <1>5, <1>8 DEF IndInv, ReceiverShape
<1> QED
  BY <1>3, <1>4, <1>6, <1>7, <1>8, StepFrames DEF Frames, ReceiverFrame

LEMMA BufferBoundNext ==
  ASSUME IndInv, [Next]_vars
  PROVE  BufferBound'
<1>1. CASE PeerReceive
  <2>1. PICK m \in dataNet, n \in expected .. expected + Window :
            /\ expected' = n /\ n \in Nat
            /\ buffer' = [s \in DOMAIN Held(m) \ (expected .. n - 1) |-> Held(m)[s]]
            /\ \A s \in Buffered' : s >= n + 1
    BY <1>1, Arrival
  <2>2. expected \in Nat
    BY DEF IndInv, TypeOK, ConnectionTypeOK, PeerTypeOK
  <2>3. ASSUME NEW s \in Buffered' PROVE s \in n + 1 .. n + Window - 1
    <3>1. s \in Nat /\ s < expected + Window
      BY <2>1, HeldPackets
    <3> QED BY <2>1, <2>2, <2>3, <3>1, WindowAssumption
  <2> QED BY <2>1, <2>3 DEF BufferBound
<1>2. CASE UNCHANGED <<expected, buffer>>
  BY <1>2 DEF IndInv, BufferBound
<1> QED
  BY <1>1, <1>2, StepFrames
     DEF Frames, ReceiverFrame, PeerSendAck, PeerPut, PeerAckFails, PeerExit,
         ownVars, arrivalVars

LEMMA InOrderNext ==
  ASSUME IndInv, [Next]_vars
  PROVE  InOrder'
<1>1. CASE UNCHANGED incoming
  <2>1. /\ Len(incoming) \in Nat /\ nextSeq \in Nat /\ Len(incoming) <= nextSeq
        /\ \A i \in 1 .. Len(incoming) : incoming[i] = submitted[i]
    BY DEF IndInv, InOrder, TypeOK, OwnTypeOK, PeerTypeOK, ConnectionTypeOK, SenderTypeOK
  <2>2. nextSeq' \in Nat
    BY TypesNext DEF TypeOK, ConnectionTypeOK, SenderTypeOK
  <2>3. \A i \in 1 .. Len(incoming) : i \in 1 .. nextSeq
    BY <2>1
  <2> QED BY <1>1, <2>1, <2>2, <2>3, Grows DEF InOrder
<1> USE DEF IndInv, TypeOK, ConnectionTypeOK, PeerTypeOK, OwnTypeOK, SenderTypeOK,
        InOrder
<1>2. CASE PeerPut
  <2>1. /\ deliver # <<>> /\ incoming' = Append(incoming, Head(deliver))
        /\ UNCHANGED submitted
    BY <1>2 DEF PeerPut, senderVars, appVars, ReceiverShape
  <2>2. Head(deliver) = deliver[1] /\ Len(deliver) \in Nat \ {0}
    BY <2>1, EmptySeq
  <2>3. deliver[1] = submitted[Len(incoming) + 1] /\ deliver[1] \in Payload
    <3>1. 1 \in 1 .. Len(deliver) /\ deliver \in Seq(Payload)
      BY <2>2
    <3>2. \A i \in 1 .. Len(deliver) : deliver[i] = submitted[Len(incoming) + i]
      BY DEF ReceiverShape
    <3> QED BY <3>1, <3>2, ElementOfSeq
  <2>4. Len(incoming) + 1 <= nextSeq
    <3>1. expected <= nextSeq /\ Len(incoming) + Len(deliver) = expected
      BY SentIsSubmitted DEF ReceiverShape
    <3> QED BY <2>2, <3>1
  <2> QED BY <2>1, <2>2, <2>3, <2>4, AppendProperties
<1> QED
  BY <1>1, <1>2, StepFrames
     DEF Frames, ReceiverFrame, PeerReceive, PeerSendAck, PeerAckFails, PeerExit

LEMMA AckedWasReceivedNext ==
  ASSUME IndInv, [Next]_vars
  PROVE  AckedWasReceived'
<1>1. CASE AcceptAck
  <2>1. PICK a \in ackNet : a - 1 \in outstanding /\ acked' = acked \cup {a - 1}
    BY <1>1 DEF AcceptAck
  <2>2. a - 1 \in Nat /\ a \in Nat
    BY <2>1 DEF IndInv, TypeOK, ConnectionTypeOK, SenderTypeOK, NetTypeOK
  <2>3. Truthful(a)
    BY DEF IndInv, ReceiverShape
  <2>4. a - 1 \in Received
    BY <2>2, <2>3 DEF Truthful
  <2> QED BY <2>1, <2>4, ReceivedGrows DEF IndInv, AckedWasReceived
<1>2. CASE UNCHANGED acked
  BY <1>2, ReceivedGrows DEF IndInv, AckedWasReceived
<1> QED BY <1>1, <1>2, StepFrames DEF Frames, AckedOwnFrame

LEMMA TimerPerPacketNext ==
  ASSUME IndInv, [Next]_vars
  PROVE  TimerPerPacket'
<1> USE DEF TimerPerPacket, IndInv
<1>1. CASE PumpSend BY <1>1 DEF PumpSend, PumpItem
<1>2. CASE PumpSendFails BY <1>2 DEF PumpSendFails, PumpItemFails
<1>3. CASE TimersNotDue BY <1>3 DEF TimersNotDue, windowVars
<1>4. CASE Retransmit BY <1>4 DEF Retransmit
<1>5. CASE FailPeer BY <1>5 DEF FailPeer, FailWindow
<1>6. CASE AcceptAck BY <1>6 DEF AcceptAck
<1>7. CASE Expire BY <1>7 DEF Expire, connectionVars, senderVars, windowVars
<1>8. CASE UNCHANGED <<armed, outstanding>> BY <1>8
<1> QED
  BY <1>1, <1>2, <1>3, <1>4, <1>5, <1>6, <1>7, <1>8, StepFrames
     DEF Frames, TimersFrame

-----------------------------------------------------------------------------
(* The theorems.                                                           *)

LEMMA IndInvInit == Init => IndInv
<1> SUFFICES ASSUME Init PROVE IndInv
  OBVIOUS
<1>1. ConnectionTypeOK /\ SenderInv /\ InOrder
  BY ConnectionInitially DEF Init
<1>2. Buffered = {} /\ deliver = <<>> /\ ackFor = 0
  BY DEF Init
<1>3. OwnTypeOK
  BY <1>2 DEF Init, OwnTypeOK
<1>4. ReceiverShape /\ BufferBound
  BY <1>2
     DEF Init, ConnectionInit, ReceiverShape, BufferBound, BelowUnsent, Truthful
<1>5. AckedWasReceived /\ TimerPerPacket
  BY DEF Init, ConnectionInit, AckedWasReceived, TimerPerPacket
<1> QED BY <1>1, <1>3, <1>4, <1>5 DEF IndInv, TypeOK

LEMMA IndInvNext == IndInv /\ [Next]_vars => IndInv'
<1> SUFFICES ASSUME IndInv, [Next]_vars PROVE IndInv'
  OBVIOUS
<1>1. SenderInv'
  BY IndInvParts, BaseTypeNext, SenderInvNext, StepFrames DEF Frames
<1> QED
  BY <1>1, TypesNext, ReceiverShapeNext, BufferBoundNext, InOrderNext,
     AckedWasReceivedNext, TimerPerPacketNext
     DEF IndInv

\* The inductive invariant holds in every reachable state, for every window,
\* every number of datagrams and whatever the network does.
THEOREM Invariance == Spec => []IndInv
  BY IndInvInit, IndInvNext, PTL DEF Spec

\* Every variable keeps its type.
THEOREM TypeCorrect == Spec => []TypeOK
<1>1. IndInv => TypeOK
  BY DEF IndInv
<1> QED BY Invariance, <1>1, PTL

\* The receiving application gets a prefix of what was submitted, in order and
\* without repetition, though packets are kept and acknowledged in any order.
THEOREM InOrderDelivery == Spec => []InOrder
<1>1. IndInv => InOrder
  BY DEF IndInv
<1> QED BY Invariance, <1>1, PTL

\* What the sender holds for acknowledged has arrived.
THEOREM NoFalseAck == Spec => []AckedWasReceived
<1>1. IndInv => AckedWasReceived
  BY DEF IndInv
<1> QED BY Invariance, <1>1, PTL

\* The receiver keeps less than a window of packets.
THEOREM BufferBounded == Spec => []BufferBound
<1>1. IndInv => BufferBound
  BY DEF IndInv
<1> QED BY Invariance, <1>1, PTL

\* No packet in flight is without a deadline.
THEOREM EveryPacketTimed == Spec => []TimerPerPacket
<1>1. IndInv => TimerPerPacket
  BY DEF IndInv
<1> QED BY Invariance, <1>1, PTL

\* No item disappears from the sender without an ACK or an error, but for one
\* that encode() refuses, which ends the thread, and nothing is sent after it.
THEOREM NoItemForgotten == Spec => []NothingForgotten
<1>1. IndInv => NothingForgotten
  BY DEF IndInv, SenderInv
<1> QED BY Invariance, <1>1, PTL

\* With every datagram acknowledged, all of them are delivered in order: a gap
\* would be a datagram that did not arrive.
THEOREM AllAcked == Spec => []AllAckedAllAccepted
<1>1. ASSUME IndInv, 0 .. nextSeq - 1 \subseteq acked
      PROVE  expected = nextSeq
  <2>1. expected \in Nat /\ nextSeq \in Nat
    BY <1>1 DEF IndInv, TypeOK, ConnectionTypeOK, PeerTypeOK, SenderTypeOK
  <2>2. expected <= nextSeq
    BY <1>1, <2>1, SentIsSubmitted DEF IndInv, ReceiverShape
  <2>3. expected \notin Received
    BY <1>1, <2>1, WindowAssumption DEF IndInv, BufferBound, Received
  <2>4. expected \notin 0 .. nextSeq - 1
    BY <1>1, <2>3 DEF IndInv, AckedWasReceived
  <2> QED BY <2>1, <2>2, <2>4
<1>2. IndInv => AllAckedAllAccepted
  BY <1>1 DEF AllAckedAllAccepted
<1> QED BY Invariance, <1>2, PTL

\* What the receiver holds was on the wire.
HeldWasSent == \A s \in Buffered : \E m \in dataNet : m.seq = s

LEMMA HeldWasSentNext ==
  ASSUME IndInv, HeldWasSent, [Next]_vars
  PROVE  HeldWasSent'
<1> USE DEF HeldWasSent
<1>1. dataNet \subseteq dataNet'
  BY StepFrames
     DEF Frames, SharedStep, DataNetFrame, SomeItemPumped, PumpItem, Resent
<1>2. CASE PeerReceive
  <2>1. PICK m \in dataNet : \A s \in Buffered' : s \in DOMAIN Held(m)
    BY <1>2, Arrival
  <2>2. DOMAIN Held(m) \subseteq Buffered \cup {m.seq}
    BY HeldPackets
  <2> QED BY <1>1, <2>1, <2>2
<1>3. CASE UNCHANGED buffer
  BY <1>1, <1>3
<1> QED
  BY <1>2, <1>3, StepFrames
     DEF Frames, ReceiverFrame, PeerSendAck, PeerPut, PeerAckFails, PeerExit,
         ownVars, arrivalVars

LEMMA HeldWasSentInvariance == Spec => []HeldWasSent
<1>1. Init => HeldWasSent
  BY DEF Init, Buffered, HeldWasSent
<1>2. IndInv /\ HeldWasSent /\ [Next]_vars => HeldWasSent'
  BY HeldWasSentNext
<1> QED BY <1>1, <1>2, Invariance, PTL DEF Spec

\* Every datagram before one that was acknowledged has arrived, is in flight or
\* has an error: the window of the sender skips none in silence.
THEOREM GapsAreVisible == Spec => []NoSilentGap
<1>1. ASSUME IndInv, HeldWasSent, NEW s \in acked, NEW t \in 0 .. s - 1
      PROVE  t \in Received \cup outstanding \cup errored
  <2>1. /\ s \in Nat /\ t \in Nat /\ t < s /\ expected \in Nat /\ nextSeq \in Nat
        /\ drained \in Nat /\ pending \subseteq Nat
    BY <1>1 DEF IndInv, TypeOK, ConnectionTypeOK, PeerTypeOK, SenderTypeOK
  <2>2. s \in Received
    BY <1>1 DEF IndInv, AckedWasReceived
  <2>3. CASE s \in 0 .. expected - 1
    BY <2>1, <2>3 DEF Received
  <2>4. CASE s \in Buffered
    <3>1. BelowUnsent(s + 1) /\ s + 1 \in Nat
      BY <1>1, <2>1, <2>4 DEF IndInv, ReceiverShape
    <3>2. t < nextSeq /\ t < drained /\ t # handoff /\ t \notin pending
      BY <1>1, <2>1, <3>1, SentIsSubmitted DEF BelowUnsent
    <3>3. t \notin Lost
      <4>1. PICK m \in dataNet : m.seq = s
        BY <1>1, <2>4 DEF HeldWasSent
      <4> QED BY <1>1, <2>1, <4>1 DEF IndInv, SenderInv, NothingForgotten
    <3>4. t \in acked \cup errored \cup outstanding
      BY <2>1, <3>2, <3>3 DEF Lost, Located
    <3> QED BY <1>1, <3>4 DEF IndInv, AckedWasReceived
  <2> QED BY <2>2, <2>3, <2>4 DEF Received
<1>2. IndInv /\ HeldWasSent => NoSilentGap
  BY <1>1 DEF NoSilentGap
<1> QED BY <1>2, Invariance, HeldWasSentInvariance, PTL

\* A flush(None) that returns has missed the item it left in the hand-off at its
\* last snapshot and the one that killed the thread, and no other.
THEOREM OnlyHandoffMissed == Spec => []FlushMissesOnlyHandoff
<1>1. IndInv => FlushMissesOnlyHandoff
  BY DEF IndInv, SenderInv, FlushShape, FlushMissesOnlyHandoff
<1> QED BY Invariance, <1>1, PTL

\* A peer that is not known has no window yet.
Unopened == ~known => base = 0

LEMMA UnopenedInvariance == Spec => []Unopened
<1>1. Init => Unopened
  BY DEF Init, ConnectionInit, Unopened
<1>2. IndInv /\ Unopened /\ [Next]_vars => Unopened'
  BY StepFrames DEF Frames, BaseFrame, DrainPut, AcceptAck, Unopened
<1> QED BY <1>1, <1>2, Invariance, PTL DEF Spec

\* Neither the window nor the receiver goes back.
LEMMA EdgesGrow ==
  ASSUME IndInv, Unopened, [Next]_vars
  PROVE  base <= base' /\ expected <= expected'
<1>1. base \in Nat /\ nextSeq \in Nat /\ expected \in Nat
  BY IndInvParts, QueueTypes DEF SenderTypes, SenderTypeOK, PeerTypeOK
<1>2. base <= base'
  <2>1. CASE AcceptAck
    <3>1. PICK n \in base .. nextSeq : base' = n
      BY <2>1 DEF AcceptAck
    <3> QED BY <1>1, <3>1
  <2>2. CASE DrainPut
    <3>1. known \/ base = 0
      BY DEF Unopened
    <3>2. handoff \in Nat
      BY <2>2, IndInvParts, QueueTypes DEF DrainPut, SenderTypes, SenderTypeOK
    <3> QED BY <1>1, <2>2, <3>1, <3>2 DEF DrainPut
  <2>3. CASE UNCHANGED base
    BY <1>1, <2>3
  <2> QED BY <2>1, <2>2, <2>3, StepFrames DEF Frames, BaseFrame
<1>3. expected <= expected'
  <2>1. CASE PeerReceive
    <3>1. PICK n \in expected .. expected + Window : expected' = n
      BY <2>1, Arrival
    <3> QED BY <1>1, <3>1, WindowAssumption
  <2>2. CASE UNCHANGED expected
    BY <1>1, <2>2
  <2> QED
    BY <2>1, <2>2, StepFrames
       DEF Frames, ReceiverFrame, PeerSendAck, PeerPut, PeerAckFails, PeerExit,
           ownVars, arrivalVars
<1> QED BY <1>2, <1>3

\* No ACK is forgotten, no error withdrawn, nothing that arrived is given away,
\* and neither the window nor the receiver goes back.
THEOREM NothingTakenBack == Spec => Monotone
<1>1. IndInv /\ Unopened /\ [Next]_vars =>
        [/\ acked \subseteq acked' /\ base <= base'
         /\ expected <= expected' /\ Received \subseteq Received'
         /\ errored \subseteq errored']_vars
  BY EdgesGrow, ReceivedGrows, OutcomesGrow, StepIsShared
<1> QED BY Invariance, UnopenedInvariance, <1>1, PTL DEF Spec, Monotone

-----------------------------------------------------------------------------
(* The refinement of SelectiveStream.                                      *)

\* What the receiver handed over is all that lies below expected.
HandedOver == incoming \o deliver = [i \in 1 .. expected |-> submitted[i]]

LEMMA AcceptedPrefix == IndInv => HandedOver
<1> SUFFICES ASSUME IndInv
             PROVE  incoming \o deliver = [i \in 1 .. expected |-> submitted[i]]
  BY DEF HandedOver
<1>1. /\ expected \in Nat /\ submitted \in Seq(Payload)
      /\ incoming \in Seq(Payload) /\ deliver \in Seq(Payload)
  BY DEF IndInv, TypeOK, ConnectionTypeOK, PeerTypeOK, SenderTypeOK, OwnTypeOK
<1>3. /\ Len(incoming) \in Nat /\ Len(incoming) + Len(deliver) = expected
      /\ \A i \in 1 .. Len(incoming) : incoming[i] = submitted[i]
      /\ \A i \in 1 .. Len(deliver) : deliver[i] = submitted[Len(incoming) + i]
  BY <1>1 DEF IndInv, ReceiverShape, InOrder
<1> DEFINE accepted == incoming \o deliver
<1>4. /\ accepted \in Seq(Payload) /\ Len(accepted) = expected
      /\ \A i \in 1 .. expected : accepted[i] =
            IF i <= Len(incoming) THEN incoming[i] ELSE deliver[i - Len(incoming)]
  BY <1>1, <1>3, ConcatProperties
<1>5. ASSUME NEW i \in 1 .. expected PROVE accepted[i] = submitted[i]
  <2>1. CASE i <= Len(incoming)
    BY <1>3, <1>4, <2>1
  <2>2. CASE i > Len(incoming)
    <3>1. i - Len(incoming) \in 1 .. Len(deliver)
      BY <1>1, <1>3, <2>2
    <3>2. Len(incoming) + (i - Len(incoming)) = i
      BY <1>3
    <3>3. deliver[i - Len(incoming)] = submitted[i]
      BY <1>3, <3>1, <3>2
    <3> QED BY <1>3, <1>4, <2>2, <3>3
  <2> QED BY <1>3, <2>1, <2>2
<1> HIDE DEF accepted
<1>6. accepted = [i \in 1 .. Len(accepted) |-> accepted[i]]
  BY <1>4, LenProperties
<1>7. accepted = [i \in 1 .. expected |-> submitted[i]]
  BY <1>4, <1>5, <1>6
<1> QED BY <1>7 DEF accepted

LEMMA AcceptedPrefixNext == IndInv /\ [Next]_vars => HandedOver'
<1>1. IndInv' => HandedOver'
  BY AcceptedPrefix, PTL
<1> QED BY <1>1, IndInvNext

\* A packet inside the window arrives, one outside is no news.
LEMMA ReceiveStep ==
  ASSUME IndInv, [Next]_vars, PeerReceive
  PROVE  Stream!Receive \/ UNCHANGED <<Received, incoming \o deliver>>
<1>1. PICK m \in dataNet, n \in expected .. expected + Window :
          /\ expected' = n /\ n \in Nat
          /\ RunEnds(Held(m), n) /\ n <= nextSeq
          /\ buffer' = [s \in DOMAIN Held(m) \ (expected .. n - 1) |-> Held(m)[s]]
          /\ \A s \in Buffered' : s >= n + 1
          /\ UNCHANGED <<submitted, acked>>
  BY Arrival
<1>2. /\ expected \in Nat /\ m.seq \in Nat /\ m.seq + 1 \in Nat
      /\ BelowUnsent(m.seq + 1)
  BY DEF IndInv, SenderInv, WireContents, TypeOK, ConnectionTypeOK, PeerTypeOK,
         NetTypeOK
<1>3. m.seq + 1 <= nextSeq
  BY <1>2, SentIsSubmitted
<1>4. (incoming \o deliver)' = [i \in 1 .. n |-> submitted[i]]
  BY <1>1, AcceptedPrefixNext DEF HandedOver
<1>5. Buffered' = DOMAIN Held(m) \ (expected .. n - 1)
  BY <1>1
<1>6. CASE InWindow(m)
  <2>1. DOMAIN Held(m) = Buffered \cup {m.seq}
    BY <1>6, HeldPackets
  <2>2. \A t \in expected .. n - 1 : t \in DOMAIN Held(m)
    BY <1>1 DEF RunEnds
  <2>3. Received' = Received \cup {m.seq}
    BY <1>1, <1>2, <1>5, <1>6, <2>1, <2>2 DEF Received
  <2>4. Stream!FirstGap(Received', n)
    BY <1>1 DEF Received, Stream!FirstGap
  <2>5. nextSeq \in Nat
    BY DEF IndInv, TypeOK, ConnectionTypeOK, SenderTypeOK
  <2> QED
    BY <1>1, <1>2, <1>3, <1>4, <2>3, <2>4, <2>5 DEF Stream!Receive
<1>7. CASE ~InWindow(m)
  <2>1. Held(m) = buffer
    BY <1>7, HeldPackets
  <2>2. expected \notin Buffered
    BY <1>2, WindowAssumption DEF IndInv, BufferBound
  <2>3. n = expected
    BY <1>1, <1>2, <2>1, <2>2 DEF RunEnds
  <2>4. Buffered' = Buffered
    BY <1>2, <1>5, <2>1, <2>3
  <2>5. Received' = Received
    BY <1>1, <2>3, <2>4 DEF Received
  <2> QED BY <1>4, <2>3, <2>5, AcceptedPrefix DEF HandedOver
<1> QED BY <1>6, <1>7

LEMMA StreamStep ==
  ASSUME IndInv, [Next]_vars
  PROVE  [Stream!Next]_(Stream!streamVars)
<1> USE DEF Stream!Next, Stream!streamVars
<1>1. CASE SendPut /\ UNCHANGED ownVars
  <2>1. UNCHANGED <<Received, incoming \o deliver, acked>>
    BY <1>1
       DEF SendPut, peerVars, outcomeVars, ownVars, arrivalVars, Received
  <2> QED BY <1>1, <2>1 DEF SendPut, Stream!Submit
<1>2. CASE PeerReceive
  BY <1>2, ReceiveStep DEF PeerReceive, senderVars, appVars, outcomeVars
<1>3. CASE AcceptAck
  <2>1. PICK a \in ackNet : a - 1 \in outstanding /\ acked' = acked \cup {a - 1}
    BY <1>3 DEF AcceptAck
  <2>2. a - 1 \in Nat /\ a \in Nat
    BY <2>1 DEF IndInv, TypeOK, ConnectionTypeOK, SenderTypeOK, NetTypeOK
  <2>3. Truthful(a)
    BY DEF IndInv, ReceiverShape
  <2>4. {a - 1} \in SUBSET Received
    BY <2>2, <2>3 DEF Truthful
  <2>5. UNCHANGED <<submitted, Received, incoming \o deliver>>
    BY <1>3 DEF AcceptAck, appVars, peerVars, arrivalVars, Received
  <2>6. Stream!Confirm
    BY <2>1, <2>4, <2>5 DEF Stream!Confirm
  <2> QED BY <2>6
<1>4. CASE UNCHANGED <<submitted, acked, expected, buffer>>
  <2>1. UNCHANGED <<Received, incoming \o deliver>>
    BY <1>4, AcceptedPrefix, AcceptedPrefixNext DEF HandedOver, Received
  <2> QED BY <1>4, <2>1
<1>5. (UNCHANGED submitted \/ (SendPut /\ UNCHANGED ownVars))
      /\ (UNCHANGED acked \/ AcceptAck)
  BY StepFrames DEF Frames, SubmitFrame, AckedOwnFrame
<1>6. UNCHANGED <<expected, buffer>> \/ PeerReceive
  BY StepFrames
     DEF Frames, ReceiverFrame, PeerSendAck, PeerAckFails, PeerPut, PeerExit,
         ownVars, arrivalVars
<1> QED BY <1>1, <1>2, <1>3, <1>4, <1>5, <1>6

\* The transport implements SelectiveStream: every step of any thread is a step
\* of the abstract stream or invisible to it.
THEOREM Refinement == Spec => ImplementsStream
<1>1. Init => Stream!Init
  <2>1. <<>> \o <<>> = <<>>
    BY ConcatEmptySeq, EmptySeq
  <2>2. ASSUME Init PROVE Received = {}
    BY <2>2 DEF Init, ConnectionInit, Received
  <2> QED BY <2>1, <2>2 DEF Init, ConnectionInit, Stream!Init
<1>2. IndInv /\ [Next]_vars => [Stream!Next]_(Stream!streamVars)
  BY StreamStep
<1> QED BY <1>1, <1>2, Invariance, PTL DEF Spec, ImplementsStream, Stream!Spec

-----------------------------------------------------------------------------
(* The bookkeeping of round trips.                                         *)

LEMMA AdaptiveStep == [AdaptiveNext]_adaptiveVars => [Next]_vars
  BY DEF AdaptiveNext, adaptiveVars, Pump, Resend, GiveUp, Sample, Unmeasured,
         Next, SenderLoop, TimeoutStep, AckStep

\* As for Go-Back-N: every theorem about Spec holds of the adaptive transport.
THEOREM AdaptiveIsSelectiveRepeat == AdaptiveSpec => Spec
<1>1. AdaptiveInit => Init
  BY DEF AdaptiveInit
<1> QED BY <1>1, AdaptiveStep, PTL DEF AdaptiveSpec, Spec

\* The steps that measure nothing touch neither the window nor its outcomes.
LEMMA UnmeasuredFrame ==
  ASSUME Unmeasured \/ UNCHANGED adaptiveVars
  PROVE  UNCHANGED <<outstanding, acked, rttVars>>
<1> USE DEF appVars, queueVars, windowVars, outcomeVars, netVars, peerVars,
            senderVars, connectionVars
<1>1. CASE CommonStep
  BY <1>1, CommonStepFrames DEF CommonFrames, Unmeasured, adaptiveVars, vars
<1>2. CASE TimersNotDue \/ IgnoreAck \/ Expire \/ PeerReceive \/ PeerSendAck \/ PeerPut
  BY <1>2 DEF TimersNotDue, IgnoreAck, Expire, PeerReceive, PeerSendAck,
              PeerPut, Unmeasured, adaptiveVars, vars
<1>3. CASE UNCHANGED adaptiveVars
  BY <1>3 DEF adaptiveVars, vars
<1> QED
  BY <1>1, <1>2, <1>3
     DEF Unmeasured, CommonStep, PeerLoopStep, Sendto, Flush, Close, Drain,
         Control, PeerControl, PeerApp

\* What an ACK does to the window and to the samples.
LEMMA SampleFrame ==
  ASSUME Sample
  PROVE  \E s \in outstanding :
            /\ outstanding' = outstanding \ {s}
            /\ acked' = acked \cup {s}
            /\ sampled' = IF Samples(s) THEN sampled \cup {s} ELSE sampled
            /\ retransmitted' = Remaining(retransmitted, {s})
            /\ sendTime' = Remaining(sendTime, {s})
            /\ resent' = resent
<1>1. PICK s \in outstanding \ outstanding' : RecordAcked(s, {s})
  BY DEF Sample
<1>2. outstanding' = outstanding \ {s} /\ acked' = acked \cup {s}
  BY <1>1 DEF Sample, AcceptAck
<1> QED BY <1>1, <1>2 DEF RecordAcked

\* The sets of packet numbers stay sets of numbers.
LEMMA RttTypeNext ==
  ASSUME IndInv, RttTypeOK, [AdaptiveNext]_adaptiveVars
  PROVE  RttTypeOK'
<1> USE DEF RttTypeOK
<1>0. outstanding \subseteq Nat /\ pending \subseteq Nat
  BY DEF IndInv, TypeOK, ConnectionTypeOK, SenderTypeOK
<1>1. CASE Pump
  BY <1>0, <1>1 DEF Pump, RecordSent
<1>2. CASE Resend
  BY <1>0, <1>2 DEF Resend, RecordResent, DueInFlight
<1>3. CASE GiveUp
  <2>1. PICK S \in SentBeforeRefusal : resent' = resent \cup S
    BY <1>3 DEF GiveUp
  <2>2. S \subseteq outstanding
    BY <2>1 DEF SentBeforeRefusal, DueInFlight
  <2> QED BY <1>0, <1>3, <2>1, <2>2 DEF GiveUp
<1>4. CASE Sample
  BY <1>0, <1>4, SampleFrame DEF Remaining
<1>5. CASE UNCHANGED rttVars
  BY <1>5 DEF rttVars
<1> QED
  BY <1>1, <1>2, <1>3, <1>4, <1>5, UnmeasuredFrame DEF AdaptiveNext

\* What is in flight was sent.
LEMMA InFlightBelowUnsent ==
  ASSUME IndInv
  PROVE  \A s \in outstanding : s \in Nat /\ BelowUnsent(s + 1)
<1>1. ASSUME NEW s \in outstanding PROVE s \in Nat /\ BelowUnsent(s + 1)
  <2>1. Packet(s) \in dataNet /\ Packet(s).seq = s /\ s \in Nat
    BY DEF IndInv, SenderInv, InFlightSent, TypeOK, ConnectionTypeOK,
           SenderTypeOK, Packet
  <2> QED BY <2>1 DEF IndInv, SenderInv, WireContents
<1> QED BY <1>1

\* What was sent twice, and what was acknowledged, was sent.
LEMMA MeasuredWasSentNext ==
  ASSUME IndInv, RttInv, [AdaptiveNext]_adaptiveVars
  PROVE  \A s \in (resent \cup acked)' : BelowUnsent(s + 1)'
<1>1. \A s \in (resent \cup acked)' : s \in resent \cup acked \cup outstanding
  <2>1. CASE GiveUp
    <3>1. PICK S \in SentBeforeRefusal : resent' = resent \cup S
      BY <2>1 DEF GiveUp
    <3>2. S \subseteq outstanding
      BY <3>1 DEF SentBeforeRefusal, DueInFlight
    <3>3. acked' = acked
      BY <2>1 DEF GiveUp, FailPeer, FailWindow
    <3> QED BY <3>1, <3>2, <3>3
  <2> QED
    BY <2>1, UnmeasuredFrame, SampleFrame
       DEF AdaptiveNext, Pump, PumpStep, PumpSend, PumpSendFails, PumpItem,
           PumpItemFails, RecordSent, Resend, RecordResent, Retransmit,
           DueInFlight, outcomeVars, rttVars
<1>2. \A s \in resent \cup acked \cup outstanding :
         s + 1 \in Nat /\ BelowUnsent(s + 1)
  <2>1. resent \subseteq Nat
    BY DEF RttInv, RttTypeOK
  <2>2. acked \subseteq Nat
    BY DEF IndInv, TypeOK, ConnectionTypeOK, SenderTypeOK
  <2>3. \A s \in resent \cup acked : BelowUnsent(s + 1)
    BY DEF RttInv
  <2> QED BY <2>1, <2>2, <2>3, InFlightBelowUnsent
<1> QED BY <1>1, <1>2, AdaptiveStep, Stable

\* What was sent twice is marked while it is in flight, what gave a sample was
\* acknowledged, and what is acknowledged is not sent again.
LEMMA SamplesNext ==
  ASSUME IndInv, RttInv, [AdaptiveNext]_adaptiveVars
  PROVE  /\ (resent \cap outstanding \subseteq retransmitted)'
         /\ (sampled \subseteq acked /\ acked \cap outstanding = {})'
         /\ KarnsRule'
<1>0. /\ resent \cap outstanding \subseteq retransmitted
      /\ sampled \subseteq acked /\ acked \cap outstanding = {}
      /\ sampled \cap resent = {}
  BY DEF RttInv, KarnsRule
<1> USE DEF KarnsRule
<1>1. CASE Pump
  <2>1. PICK s \in pending : outstanding' \subseteq outstanding \cup {s}
    BY <1>1 DEF Pump, PumpStep, PumpSend, PumpSendFails, PumpItem, PumpItemFails
  <2>2. s \notin resent \cup acked
    BY DEF RttInv, RttTypeOK, BelowUnsent, IndInv, TypeOK, ConnectionTypeOK,
           SenderTypeOK
  <2>3. UNCHANGED <<acked, retransmitted, sampled, resent>>
    BY <1>1 DEF Pump, PumpStep, PumpSend, PumpSendFails, PumpItem,
                PumpItemFails, RecordSent, outcomeVars
  <2> QED BY <1>0, <2>1, <2>2, <2>3
<1>2. CASE Resend
  BY <1>0, <1>2 DEF Resend, RecordResent, Retransmit, DueInFlight, outcomeVars
<1>3. CASE GiveUp
  <2>1. PICK S \in SentBeforeRefusal : resent' = resent \cup S
    BY <1>3 DEF GiveUp
  <2>2. S \subseteq outstanding
    BY <2>1 DEF SentBeforeRefusal, DueInFlight
  <2>3. outstanding' = {} /\ UNCHANGED <<acked, sampled>>
    BY <1>3 DEF GiveUp, FailPeer, FailWindow
  <2> QED BY <1>0, <2>1, <2>2, <2>3
<1>4. CASE Sample
  BY <1>0, <1>4, SampleFrame DEF Samples, Remaining
<1>5. CASE UNCHANGED <<outstanding, acked, rttVars>>
  BY <1>0, <1>5 DEF rttVars
<1> QED
  BY <1>1, <1>2, <1>3, <1>4, <1>5, UnmeasuredFrame DEF AdaptiveNext

\* Karn's algorithm: no packet that was sent twice ever gives a sample.
THEOREM Karn == AdaptiveSpec => []KarnsRule
<1>1. AdaptiveInit => RttInv
  BY DEF AdaptiveInit, RttInit, RttInv, RttTypeOK, KarnsRule, Init, ConnectionInit
<1>2. IndInv /\ RttInv /\ [AdaptiveNext]_adaptiveVars => RttInv'
  BY RttTypeNext, MeasuredWasSentNext, SamplesNext DEF RttInv
<1>3. AdaptiveSpec => []IndInv
  BY AdaptiveIsSelectiveRepeat, Invariance, PTL
<1>4. RttInv => KarnsRule
  BY DEF RttInv
<1> QED BY <1>1, <1>2, <1>3, <1>4, PTL DEF AdaptiveSpec
=============================================================================
