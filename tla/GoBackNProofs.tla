---------------------------- MODULE GoBackNProofs ----------------------------
(***************************************************************************)
(* Theorems about GoBackN for every window size, every number of           *)
(* datagrams and retries, and every set of payloads.                       *)
(***************************************************************************)
EXTENDS AdaptiveGoBackN, SlidingWindowProofs

USE DEF nextSeq, Outbound, Stopped, Packets, Failing, RetriesLeft, FlushItems,
        IsExpected, AckField, AckedBy, Advances

-----------------------------------------------------------------------------
(* Who writes what: for each part of the state, the steps that change it.  *)

ActionSplit ==
    \/ CommonStep /\ UNCHANGED ownVars
    \/ PumpSend \/ PumpSendFails \/ TimerNotDue \/ TimerDueNothingSent
    \/ Retransmit \/ FailPeer \/ IgnoreAck \/ AcceptAck \/ Expire
    \/ PeerReceive \/ PeerSendAck \/ PeerPut

SubmitFrame ==
    UNCHANGED submitted \/ (SendPut /\ UNCHANGED ownVars)
BaseFrame ==
    UNCHANGED <<known, base>> \/ DrainPut \/ AcceptAck
WindowFrame ==
    UNCHANGED <<base, outstanding, acked>> \/ DrainPut \/ PumpSend \/ FailPeer
        \/ AcceptAck
TimerFrame ==
    \/ UNCHANGED <<timer, outstanding>>
    \/ PumpSend \/ PumpSendFails \/ TimerDueNothingSent \/ Retransmit
    \/ FailPeer \/ AcceptAck \/ Expire
AckNetFrame ==
    UNCHANGED ackNet \/ PeerSendAck
ReceiverFrame ==
    \/ UNCHANGED <<expected, deliver, peerPc, incoming>>
    \/ PeerReceive \/ PeerSendAck \/ PeerPut
    \/ (PeerAckFails \/ PeerExit) /\ UNCHANGED deliver
PeerOpenFrame ==
    UNCHANGED peerOpen \/ PeerClose
TakenFrame ==
    UNCHANGED taken \/ RecvFrom

Frames ==
    /\ SharedStep /\ SubmitFrame /\ BaseFrame /\ WindowFrame /\ TimerFrame /\ AckNetFrame
    /\ ReceiverFrame /\ PeerOpenFrame /\ TakenFrame

LEMMA StepIsAction == Next => ActionSplit
  BY DEF Next, ActionSplit, CommonStep, SenderLoop, PumpStep, TimeoutStep,
         AckStep, PeerLoopStep, Sendto, Flush, Close, Drain, Control,
         PeerControl, PeerApp

LEMMA StepIsShared == [Next]_vars => SharedStep
<1> SUFFICES ASSUME [Next]_vars PROVE SharedStep
  OBVIOUS
<1> USE DEF SharedStep, SubmittedFrame, QueuesFrame, OutstandingFrame,
        RetriesFrame, ErroredFrame, AckedFrame, PeerErrorFrame, FlushFrame,
        DataNetFrame, ControlFrame, appVars, queueVars, windowVars,
        outcomeVars, netVars, peerVars, senderVars, connectionVars
<1>1. CASE CommonStep /\ UNCHANGED ownVars
  BY <1>1, CommonStepFrames DEF CommonFrames
<1>2. CASE PumpSend BY <1>2 DEF PumpSend, SomeItemPumped, PumpItem
<1>3. CASE PumpSendFails
  BY <1>3 DEF PumpSendFails, SomeItemFails, PumpItemFails
<1>4. CASE TimerNotDue BY <1>4 DEF TimerNotDue, AfterTimeouts, LoopMoves
<1>5. CASE TimerDueNothingSent
  BY <1>5 DEF TimerDueNothingSent, AfterTimeouts, LoopMoves
<1>6. CASE Retransmit BY <1>6 DEF Retransmit, AfterTimeouts, LoopMoves, Resent
<1>7. CASE FailPeer BY <1>7 DEF FailPeer, FailWindow, AfterTimeouts, LoopMoves
<1>8. CASE IgnoreAck BY <1>8 DEF IgnoreAck, LoopMoves
<1>9. CASE AcceptAck BY <1>9 DEF AcceptAck, AckTaken, LoopMoves
<1>10. CASE Expire BY <1>10 DEF Expire
<1>11. CASE PeerReceive BY <1>11 DEF PeerReceive
<1>12. CASE PeerSendAck BY <1>12 DEF PeerSendAck
<1>13. CASE PeerPut BY <1>13 DEF PeerPut
<1>14. CASE UNCHANGED vars BY <1>14 DEF vars
<1> QED
  BY StepIsAction, <1>1, <1>2, <1>3, <1>4, <1>5, <1>6, <1>7, <1>8, <1>9,
     <1>10, <1>11, <1>12, <1>13, <1>14 DEF ActionSplit

LEMMA StepFrames == [Next]_vars => Frames
<1> SUFFICES ASSUME [Next]_vars PROVE Frames
  OBVIOUS
<1> USE StepIsShared
    DEF Frames, SubmitFrame, BaseFrame, WindowFrame, TimerFrame, AckNetFrame,
        ReceiverFrame, PeerOpenFrame, TakenFrame, ownVars, appVars, queueVars,
        windowVars, outcomeVars, netVars, peerVars, senderVars, connectionVars
<1>1. CASE CommonStep /\ UNCHANGED ownVars
  BY <1>1, CommonStepFrames DEF CommonFrames, SharedStep, SubmittedFrame
<1>2. CASE PumpSend BY <1>2 DEF PumpSend, PumpItem
<1>3. CASE PumpSendFails BY <1>3 DEF PumpSendFails, PumpItemFails
<1>4. CASE TimerNotDue BY <1>4 DEF TimerNotDue
<1>5. CASE TimerDueNothingSent BY <1>5 DEF TimerDueNothingSent
<1>6. CASE Retransmit BY <1>6 DEF Retransmit
<1>7. CASE FailPeer BY <1>7 DEF FailPeer, FailWindow
<1>8. CASE IgnoreAck BY <1>8 DEF IgnoreAck
<1>9. CASE AcceptAck BY <1>9 DEF AcceptAck
<1>10. CASE Expire BY <1>10 DEF Expire
<1>11. CASE PeerReceive BY <1>11 DEF PeerReceive
<1>12. CASE PeerSendAck BY <1>12 DEF PeerSendAck
<1>13. CASE PeerPut BY <1>13 DEF PeerPut
<1>14. CASE UNCHANGED vars BY <1>14 DEF vars
<1> QED
  BY StepIsAction, <1>1, <1>2, <1>3, <1>4, <1>5, <1>6, <1>7, <1>8, <1>9,
     <1>10, <1>11, <1>12, <1>13, <1>14 DEF ActionSplit

-----------------------------------------------------------------------------
(* Types.                                                                  *)

LEMMA IndInvParts ==
  ASSUME IndInv
  PROVE  SenderTypes /\ SenderInv /\ PeerTypeOK /\ OwnTypeOK
  BY DEF IndInv, TypeOK, ConnectionTypeOK, SenderTypes

LEMMA BaseTypeNext ==
  ASSUME IndInv, [Next]_vars
  PROVE  base' \in Nat /\ known' \in BOOLEAN
  BY StepFrames, IndInvParts
     DEF Frames, BaseFrame, DrainPut, AcceptAck, NetTypeOK, SenderTypes,
         SenderTypeOK

LEMMA TypesNext ==
  ASSUME IndInv, [Next]_vars
  PROVE  TypeOK'
<1> USE StepFrames, IndInvParts DEF Frames
<1>1. /\ SenderTypeOK' /\ SenderControlTypeOK' /\ FlushTypeOK'
      /\ dataNet' \subseteq Packets
  BY BaseTypeNext, SenderInvNext
<1>2. ackNet' \subseteq Nat
  BY DEF AckNetFrame, PeerSendAck, PeerTypeOK, SenderTypes, NetTypeOK
<1>3. expected' \in Nat /\ deliver' \in Payload \cup {None}
  BY DEF ReceiverFrame, PeerReceive, PeerSendAck, PeerAckFails, PeerPut,
         PeerExit, SenderTypes, NetTypeOK, PeerTypeOK, OwnTypeOK, ownVars
<1>4. peerPc' \in {"recv", "ack", "put", "exited"}
  BY DEF ReceiverFrame, PeerReceive, PeerSendAck, PeerAckFails, PeerPut,
         PeerExit, PeerLoop, PeerTypeOK
<1>5. peerOpen' \in BOOLEAN
  BY DEF PeerOpenFrame, PeerClose, PeerTypeOK
<1>6. incoming' \in Seq(Payload) /\ Len(incoming) <= Len(incoming')
  BY DEF ReceiverFrame, PeerReceive, PeerSendAck, PeerAckFails, PeerPut,
         PeerExit, ReceiverShape, IndInv, PeerTypeOK, OwnTypeOK
<1>7. taken' \in 0 .. Len(incoming')
  BY <1>6 DEF TakenFrame, RecvFrom, PeerTypeOK
<1>8. timer' \in {"off", "running", "expired"}
  BY DEF TimerFrame, PumpSend, PumpSendFails, TimerAfterSend,
         TimerDueNothingSent, Retransmit, FailPeer, AcceptAck, Expire, OwnTypeOK
<1> QED
  BY <1>1, <1>2, <1>3, <1>4, <1>5, <1>6, <1>7, <1>8
     DEF TypeOK, ConnectionTypeOK, NetTypeOK, PeerTypeOK, OwnTypeOK
-----------------------------------------------------------------------------
(* The window, the receiver, and what they know of each other.             *)

LEMMA Stable ==
  ASSUME IndInv, [Next]_vars, NEW n \in Nat, BelowUnsent(n)
  PROVE  BelowUnsent(n)'
  BY StepFrames, IndInvParts, BelowUnsentStable DEF Frames, SenderTypes, SenderInv

LEMMA Grows ==
  ASSUME IndInv, [Next]_vars
  PROVE  /\ nextSeq <= nextSeq'
         /\ \A i \in 1 .. nextSeq : submitted'[i] = submitted[i]
  BY StepFrames, IndInvParts, SubmittedGrows DEF Frames, SenderTypes

LEMMA WindowShapeNext ==
  ASSUME IndInv, [Next]_vars
  PROVE  WindowShape'
<1> USE WindowAssumption
    DEF IndInv, TypeOK, ConnectionTypeOK, SenderTypeOK, WindowShape
<1>1. CASE PumpSend
  <2>1. PICK s \in pending :
          /\ s < base + Window
          /\ pending' = pending \ {s}
          /\ outstanding' = outstanding \cup {s}
          /\ UNCHANGED <<drained, handoff, known, base, acked>>
    BY <1>1 DEF PumpSend, PumpItem, CanPump, outcomeVars
  <2>2. base <= s /\ BelowUnsent(base)'
    BY <2>1, Stable DEF BelowUnsent
  <2> QED BY <2>1, <2>2
<1>2. CASE AcceptAck
  <2>1. PICK a \in ackNet :
          /\ base < a /\ base' = a
          /\ acked' = acked \cup {s \in outstanding : s < a}
          /\ outstanding' = outstanding \ {s \in outstanding : s < a}
    BY <1>2 DEF AcceptAck
  <2>2. a \in Nat /\ BelowUnsent(a)
    BY <2>1 DEF ReceiverShape, PeerTypeOK, NetTypeOK, BelowUnsent
  <2>3. BelowUnsent(a)'
    BY <2>2, Stable
  <2>4. known'
    BY <1>2 DEF AcceptAck
  <2> QED BY <2>1, <2>2, <2>3, <2>4
<1>3. CASE DrainPut
  <2>1. UNCHANGED <<outstanding, acked>> /\ known'
    BY <1>3 DEF DrainPut, outcomeVars
  <2>2. base' = IF known THEN base ELSE handoff
    BY <1>3 DEF DrainPut
  <2>3. /\ handoff \in Nat /\ handoff' = -1 /\ drained' = drained
        /\ pending' = pending \cup {handoff}
    BY <1>3 DEF DrainPut
  <2>4. BelowUnsent(base)'
    BY <2>1, <2>2, <2>3 DEF BelowUnsent, SenderInv, QueueOrder
  <2> QED BY <2>1, <2>2, <2>4
<1>4. CASE FailPeer
  BY <1>4, Stable DEF FailPeer, FailWindow
<1>5. CASE UNCHANGED <<known, base, outstanding, acked>>
  <2>1. BelowUnsent(base)' /\ (~known => pending' = {})
    BY <1>5, Stable, StepFrames
       DEF Frames, SharedStep, QueuesFrame, queueVars, DrainGet, DrainPut,
           SomeItemPumped, PumpItem, SomeItemFails, PumpItemFails, PumpDies,
           FailWindow, CloseFail
  <2> QED BY <1>5, <2>1
<1> QED
  BY <1>1, <1>2, <1>3, <1>4, <1>5, StepFrames DEF Frames, BaseFrame, WindowFrame

LEMMA ReceiverShapeNext ==
  ASSUME IndInv, [Next]_vars
  PROVE  ReceiverShape'
<1> USE DEF IndInv, TypeOK, ConnectionTypeOK, PeerTypeOK, NetTypeOK, OwnTypeOK,
        SenderTypeOK, ReceiverShape
<1>1. expected \in 0 .. nextSeq
  BY DEF BelowUnsent, SenderInv, QueueOrder
<1>2. expected > 0 => submitted'[expected] = submitted[expected]
  BY <1>1, Grows
<1>4. CASE PeerReceive
  <2>1. /\ UNCHANGED <<ackNet, incoming, submitted, drained, handoff, pending>>
        /\ peerPc = "recv" /\ peerPc' = "ack"
    BY <1>4 DEF PeerReceive, netVars, senderVars, appVars, queueVars
  <2>2. PICK m \in dataNet :
          IF m.seq = expected
          THEN expected' = expected + 1 /\ deliver' = m.data
          ELSE UNCHANGED <<expected, deliver>>
    BY <1>4 DEF PeerReceive
  <2>3. CASE m.seq = expected
    <3>1. BelowUnsent(expected + 1) /\ m.data = submitted[expected + 1] /\ m.data # None
      BY <2>3, PayloadAssumption DEF SenderInv, WireContents
    <3>2. BelowUnsent(expected)'
      BY <3>1, <2>1, <2>2, <2>3 DEF BelowUnsent
    <3> QED BY <2>1, <2>2, <2>3, <3>1, <3>2
  <2>4. CASE m.seq # expected
    BY <2>1, <2>2, <2>4 DEF BelowUnsent
  <2> QED BY <2>3, <2>4
<1>5. CASE PeerSendAck
  <2>1. UNCHANGED <<expected, deliver, incoming, submitted>>
    BY <1>5 DEF PeerSendAck, senderVars, appVars, ownVars
  <2>2. /\ ackNet' = ackNet \cup {expected}
        /\ peerPc' = IF deliver = None THEN PeerLoop ELSE "put"
    BY <1>5 DEF PeerSendAck
  <2>3. BelowUnsent(expected)'
    BY <1>5, Stable, <2>1 DEF BelowUnsent
  <2> QED BY <2>1, <2>2, <2>3 DEF PeerLoop
<1>6. CASE PeerPut
  <2>1. UNCHANGED <<expected, ackNet, submitted, drained, handoff, pending>>
    BY <1>6 DEF PeerPut, senderVars, appVars, queueVars, netVars
  <2>2. /\ incoming' = Append(incoming, deliver) /\ deliver # None
        /\ deliver' = None /\ peerPc' = PeerLoop
    BY <1>6 DEF PeerPut
  <2> QED BY <2>1, <2>2 DEF PeerLoop, BelowUnsent
<1>7. CASE (PeerAckFails \/ PeerExit) /\ UNCHANGED deliver
  <2>1. /\ UNCHANGED <<expected, deliver, incoming, ackNet, submitted, drained,
                       handoff, pending>>
        /\ peerPc' = "exited"
    BY <1>7 DEF PeerAckFails, PeerExit, senderVars, appVars, queueVars, netVars
  <2> QED BY <2>1 DEF BelowUnsent
<1>8. CASE UNCHANGED <<expected, deliver, peerPc, incoming>> /\ UNCHANGED ackNet
  BY <1>1, <1>2, <1>8, Stable DEF BelowUnsent
<1> QED
  BY <1>4, <1>5, <1>6, <1>7, <1>8, StepFrames
     DEF Frames, ReceiverFrame, AckNetFrame

LEMMA InOrderNext ==
  ASSUME IndInv, [Next]_vars
  PROVE  InOrder'
<1>1. CASE incoming' = incoming
  <2>1. /\ Len(incoming) \in Nat /\ nextSeq \in Nat /\ Len(incoming) <= nextSeq
        /\ \A i \in 1 .. Len(incoming) : incoming[i] = submitted[i]
    BY DEF IndInv, InOrder, TypeOK, OwnTypeOK, PeerTypeOK, ConnectionTypeOK, SenderTypeOK
  <2>2. nextSeq' \in Nat
    BY TypesNext DEF TypeOK, ConnectionTypeOK, SenderTypeOK
  <2>3. \A i \in 1 .. Len(incoming) : i \in 1 .. nextSeq
    BY <2>1
  <2> QED BY <1>1, <2>1, <2>2, <2>3, Grows DEF InOrder
<1> USE DEF IndInv, TypeOK, ConnectionTypeOK, PeerTypeOK, OwnTypeOK, SenderTypeOK,
        InOrder
<1>2. CASE PeerPut
  <2>1. incoming' = Append(incoming, deliver) /\ UNCHANGED submitted
    BY <1>2 DEF PeerPut, senderVars, appVars
  <2>2. /\ Len(incoming) + 1 = expected /\ expected <= nextSeq
        /\ deliver = submitted[expected] /\ deliver \in Payload
    BY <1>2 DEF PeerPut, ReceiverShape, BelowUnsent, SenderInv, QueueOrder
  <2> QED BY <2>1, <2>2
<1> QED
  BY <1>1, <1>2, StepFrames
     DEF Frames, ReceiverFrame, PeerReceive, PeerSendAck, PeerAckFails, PeerExit

LEMMA ExpectedGrows ==
  ASSUME IndInv, [Next]_vars
  PROVE  expected <= expected'
  BY StepFrames
     DEF Frames, ReceiverFrame, PeerReceive, PeerSendAck, PeerAckFails,
         PeerPut, PeerExit, IndInv, TypeOK, ConnectionTypeOK, PeerTypeOK

LEMMA AckedWasAcceptedNext ==
  ASSUME IndInv, [Next]_vars
  PROVE  AckedWasAccepted'
<1> USE DEF IndInv, TypeOK, ConnectionTypeOK, SenderTypeOK, PeerTypeOK, NetTypeOK,
        AckedWasAccepted
<1>1. expected' \in Nat
  BY TypesNext
<1>2. CASE AcceptAck
  <2>1. PICK a \in ackNet : acked' = acked \cup {s \in outstanding : s < a}
    BY <1>2 DEF AcceptAck
  <2>2. a <= expected
    BY DEF ReceiverShape
  <2> QED BY <1>1, <2>1, <2>2, ExpectedGrows
<1>3. CASE UNCHANGED acked
  BY <1>1, <1>3, ExpectedGrows
<1> QED
  BY <1>2, <1>3, StepFrames
     DEF Frames, WindowFrame, PumpSend, PumpItem, FailPeer, FailWindow,
         DrainPut, outcomeVars

LEMMA TimerArmedNext ==
  ASSUME IndInv, [Next]_vars
  PROVE  TimerArmed'
<1> USE DEF TimerArmed
<1>1. CASE PumpSend
  <2>1. SUFFICES ASSUME errored = {}, timer = "off"
                 PROVE  timer' # "off"
    BY <1>1 DEF PumpSend, PumpItem, TimerAfterSend, outcomeVars
  <2>2. outstanding = {}
    BY <2>1 DEF IndInv
  <2>3. PICK s \in pending :
          /\ pc = "pump"
          /\ \A t \in pending : s <= t
          /\ timer' = TimerAfterSend(s)
    BY <1>1 DEF PumpSend, PumpItem, CanPump
  <2>4. base \in 0 .. s /\ s < nextSeq /\ s < drained
    BY <2>3 DEF IndInv, TypeOK, ConnectionTypeOK, SenderTypeOK, WindowShape,
                BelowUnsent, SenderInv, QueueOrder
  <2>5. Located(base)
    BY <2>3, <2>4
       DEF IndInv, SenderInv, NothingForgotten, Lost, TypeOK, ConnectionTypeOK,
           SenderTypeOK
  <2>6. base \notin acked
    BY DEF IndInv, WindowShape, TypeOK, ConnectionTypeOK, SenderTypeOK
  <2>7. base \notin Outbound /\ (base = handoff => base = s)
    BY <2>3, <2>4 DEF IndInv, TypeOK, ConnectionTypeOK, SenderTypeOK, SenderInv,
                      QueueOrder
  <2>8. base = s
    BY <2>1, <2>2, <2>3, <2>4, <2>5, <2>6, <2>7
       DEF Located, IndInv, TypeOK, ConnectionTypeOK, SenderTypeOK
  <2> QED BY <2>1, <2>3, <2>8 DEF TimerAfterSend
<1>2. CASE AcceptAck
  <2>1. PICK a \in ackNet :
          /\ outstanding' = outstanding \ {s \in outstanding : s < a}
          /\ timer' = IF a < nextSeq THEN "running" ELSE "off"
    BY <1>2 DEF AcceptAck
  <2>2. \A s \in outstanding : s < nextSeq
    BY OutstandingSubmitted, IndInvParts DEF SenderTypes, SenderInv
  <2>3. a \in Nat /\ nextSeq \in Nat /\ outstanding \subseteq Nat
    BY QueueTypes DEF IndInv, TypeOK, ConnectionTypeOK, SenderTypeOK, NetTypeOK
  <2>4. ASSUME a >= nextSeq, NEW s \in outstanding' PROVE FALSE
    <3>1. s \in outstanding /\ a <= s /\ s \in Nat
      BY <2>1, <2>3
    <3>2. s < nextSeq
      BY <2>2, <3>1
    <3> HIDE DEF nextSeq
    <3> QED BY <2>3, <2>4, <3>1, <3>2
  <2>5. a < nextSeq \/ a >= nextSeq
    <3> HIDE DEF nextSeq
    <3> QED BY <2>3
  <2> QED BY <2>1, <2>4, <2>5
<1>3. CASE FailPeer \/ TimerDueNothingSent \/ Retransmit \/ Expire
  BY <1>3 DEF FailPeer, FailWindow, TimerDueNothingSent, Retransmit, Expire,
              windowVars
<1>4. CASE PumpSendFails
  BY <1>4 DEF PumpSendFails, PumpItemFails
<1>5. CASE UNCHANGED <<outstanding, timer>>
  BY <1>5, OutcomesGrow, StepFrames DEF Frames, IndInv
<1> QED
  BY <1>1, <1>2, <1>3, <1>4, <1>5, StepFrames
     DEF Frames, TimerFrame

-----------------------------------------------------------------------------
(* The theorems.                                                           *)

LEMMA IndInvInit == Init => IndInv
<1> SUFFICES ASSUME Init PROVE IndInv
  OBVIOUS
<1>1. ConnectionTypeOK /\ SenderInv /\ InOrder
  BY ConnectionInitially DEF Init
<1>2. OwnTypeOK /\ WindowShape /\ ReceiverShape
  BY WindowAssumption
     DEF Init, ConnectionInit, OwnTypeOK, WindowShape, ReceiverShape, BelowUnsent
<1>3. AckedWasAccepted /\ TimerArmed
  BY DEF Init, ConnectionInit, AckedWasAccepted, TimerArmed
<1> QED BY <1>1, <1>2, <1>3 DEF IndInv, TypeOK

LEMMA IndInvNext == IndInv /\ [Next]_vars => IndInv'
<1> SUFFICES ASSUME IndInv, [Next]_vars PROVE IndInv'
  OBVIOUS
<1>1. SenderInv'
  BY IndInvParts, BaseTypeNext, SenderInvNext, StepFrames DEF Frames
<1> QED
  BY <1>1, TypesNext, WindowShapeNext, ReceiverShapeNext, InOrderNext,
     AckedWasAcceptedNext, TimerArmedNext
     DEF IndInv

\* The inductive invariant holds in every reachable state, for every window,
\* every number of datagrams and whatever the network does.
THEOREM Invariance == Spec => []IndInv
  BY IndInvInit, IndInvNext, PTL DEF Spec

\* Every variable keeps its type.
THEOREM TypeCorrect == Spec => []TypeOK
<1>1. IndInv => TypeOK
  BY DEF IndInv
<1> QED BY Invariance, <1>1, PTL

\* The receiving application gets a prefix of what was submitted, in order and
\* without repetition.
THEOREM InOrderDelivery == Spec => []InOrder
<1>1. IndInv => InOrder
  BY DEF IndInv
<1> QED BY Invariance, <1>1, PTL

\* What the sender holds for acknowledged, the receiver has accepted.
THEOREM NoFalseAck == Spec => []AckedWasAccepted
<1>1. IndInv => AckedWasAccepted
  BY DEF IndInv
<1> QED BY Invariance, <1>1, PTL

\* The packets in flight are within window_size of the oldest one that is not
\* acknowledged.
THEOREM WindowRespected == Spec => []WindowBound
<1>1. IndInv => WindowBound
  BY WindowAssumption
     DEF IndInv, WindowBound, WindowShape, TypeOK, ConnectionTypeOK,
         SenderTypeOK
<1> QED BY Invariance, <1>1, PTL

\* No item disappears from the sender without an ACK or an error, but for one
\* that encode() refuses, which ends the thread, and nothing is sent after it.
THEOREM NoItemForgotten == Spec => []NothingForgotten
<1>1. IndInv => NothingForgotten
  BY DEF IndInv, SenderInv
<1> QED BY Invariance, <1>1, PTL

\* Until something fails, packets in flight have a timer.
THEOREM TimerAlwaysArmed == Spec => []TimerArmed
<1>1. IndInv => TimerArmed
  BY DEF IndInv
<1> QED BY Invariance, <1>1, PTL

\* A flush(None) that returns has missed the item it left in the hand-off at its
\* last snapshot and the one that killed the thread, and no other.
THEOREM OnlyHandoffMissed == Spec => []FlushMissesOnlyHandoff
<1>1. IndInv => FlushMissesOnlyHandoff
  BY DEF IndInv, SenderInv, FlushShape, FlushMissesOnlyHandoff
<1> QED BY Invariance, <1>1, PTL

\* The window only moves forward.
LEMMA BaseGrows ==
  ASSUME IndInv, [Next]_vars
  PROVE  base <= base'
  BY StepFrames
     DEF Frames, BaseFrame, DrainPut, AcceptAck, IndInv, TypeOK,
         ConnectionTypeOK, SenderTypeOK, NetTypeOK, WindowShape

\* No ACK is forgotten, no error withdrawn, and neither the window nor the
\* receiver goes back.
THEOREM NothingTakenBack == Spec => Monotone
<1>1. IndInv /\ [Next]_vars =>
        [/\ acked \subseteq acked' /\ base <= base'
         /\ expected <= expected' /\ errored \subseteq errored']_vars
  BY BaseGrows, OutcomesGrow, ExpectedGrows, StepFrames DEF Frames
<1> QED BY Invariance, <1>1, PTL DEF Spec, Monotone

-----------------------------------------------------------------------------
(* The refinement of ReliableStream.                                       *)

LEMMA AcceptedLength ==
  ASSUME IndInv
  PROVE  Accepted \in Seq(Payload) /\ Len(Accepted) = expected
  BY DEF IndInv, TypeOK, ConnectionTypeOK, PeerTypeOK, OwnTypeOK,
         ReceiverShape, Accepted

LEMMA StreamStep ==
  ASSUME IndInv, [Next]_vars
  PROVE  [Stream!Next]_(Stream!streamVars)
<1> USE DEF Stream!Next, Stream!streamVars
<1>1. CASE SendPut /\ UNCHANGED ownVars
  <2>1. Stream!Submit
    BY <1>1 DEF SendPut, ownVars, Stream!Submit, Accepted, peerVars, outcomeVars
  <2> QED BY <2>1
<1>2. CASE PeerReceive
  <2>1. /\ UNCHANGED <<submitted, acked, incoming>> /\ deliver = None
    BY <1>2 DEF PeerReceive, senderVars, appVars, outcomeVars, IndInv, ReceiverShape
  <2>2. PICK m \in dataNet :
          IF m.seq = expected
          THEN expected' = expected + 1 /\ deliver' = m.data
          ELSE UNCHANGED <<expected, deliver>>
    BY <1>2 DEF PeerReceive
  <2>3. CASE m.seq = expected
    <3>1. /\ expected < Len(submitted) /\ m.data = submitted[expected + 1]
          /\ m.data # None /\ expected \in Nat
      BY <2>3, PayloadAssumption
         DEF IndInv, SenderInv, WireContents, BelowUnsent, QueueOrder, TypeOK,
             ConnectionTypeOK, NetTypeOK, PeerTypeOK, SenderTypeOK
    <3>2. Accepted = incoming /\ Accepted' = Append(incoming, m.data)
      BY <2>1, <2>2, <2>3, <3>1 DEF Accepted
    <3>3. Stream!Accept
      BY <2>1, <3>1, <3>2, AcceptedLength DEF Stream!Accept
    <3> QED BY <3>3
  <2>4. CASE m.seq # expected
    BY <2>1, <2>2, <2>4 DEF Accepted
  <2> QED BY <2>3, <2>4
<1>3. CASE AcceptAck
  <2>1. PICK a \in ackNet : acked' = acked \cup {s \in outstanding : s < a}
    BY <1>3 DEF AcceptAck
  <2>2. UNCHANGED <<submitted, Accepted>>
    BY <1>3 DEF AcceptAck, appVars, peerVars, Accepted
  <2>3. {s \in outstanding : s < a} \in SUBSET (0 .. Len(Accepted) - 1)
    <3>1. a \in Nat /\ a <= expected /\ expected \in Nat /\ outstanding \subseteq Nat
      BY DEF IndInv, TypeOK, ConnectionTypeOK, SenderTypeOK, NetTypeOK,
             PeerTypeOK, ReceiverShape
    <3>2. Len(Accepted) = expected
      BY AcceptedLength
    <3>3. ASSUME NEW s \in outstanding, s < a PROVE s \in 0 .. expected - 1
      BY <3>1, <3>3
    <3> QED BY <3>2, <3>3
  <2>4. Stream!Confirm
    BY <2>1, <2>2, <2>3 DEF Stream!Confirm
  <2> QED BY <2>4
<1>4. CASE PeerPut
  <2>1. Accepted' = Accepted
    BY <1>4 DEF PeerPut, Accepted, IndInv, ReceiverShape
  <2> QED BY <1>4, <2>1 DEF PeerPut, senderVars, appVars, outcomeVars
<1>5. CASE /\ UNCHANGED <<submitted, acked>>
           /\ UNCHANGED <<deliver, incoming>>
  BY <1>5 DEF Accepted
<1>6. UNCHANGED acked \/ AcceptAck
  BY StepFrames
     DEF Frames, WindowFrame, DrainPut, PumpSend, PumpItem, FailPeer,
         FailWindow, outcomeVars
<1>7. UNCHANGED <<deliver, incoming>> \/ PeerReceive \/ PeerPut
  BY StepFrames
     DEF Frames, ReceiverFrame, PeerSendAck, PeerAckFails, PeerExit, ownVars
<1> QED
  BY <1>1, <1>2, <1>3, <1>4, <1>5, <1>6, <1>7, StepFrames
     DEF Frames, SubmitFrame

\* The transport implements ReliableStream: every step of any thread is a step
\* of the abstract stream or invisible to it.
THEOREM Refinement == Spec => ImplementsStream
<1>1. Init => Stream!Init
  BY DEF Init, ConnectionInit, Stream!Init, Accepted
<1>2. IndInv /\ [Next]_vars => [Stream!Next]_(Stream!streamVars)
  BY StreamStep
<1> QED BY <1>1, <1>2, Invariance, PTL DEF Spec, ImplementsStream, Stream!Spec

-----------------------------------------------------------------------------
(* The bookkeeping of round trips.                                         *)

LEMMA AdaptiveStep == [AdaptiveNext]_adaptiveVars => [Next]_vars
  BY DEF AdaptiveNext, adaptiveVars, Pump, Resend, GiveUp, Sample, Unmeasured,
         Next, SenderLoop, TimeoutStep, AckStep

\* A step of the adaptive transport is a step of GoBackN or changes nothing of
\* it: every theorem about Spec holds of the adaptive transport as well.
THEOREM AdaptiveIsGoBackN == AdaptiveSpec => Spec
<1>1. AdaptiveInit => Init
  BY DEF AdaptiveInit
<1> QED BY <1>1, AdaptiveStep, PTL DEF AdaptiveSpec, Spec

\* The sets of packet numbers stay sets of numbers.
LEMMA RttTypeNext ==
  ASSUME IndInv, RttTypeOK, [AdaptiveNext]_adaptiveVars
  PROVE  RttTypeOK'
<1> USE DEF RttTypeOK
<1>0. /\ outstanding \subseteq Nat /\ outstanding' \subseteq Nat
      /\ pending \subseteq Nat /\ base \in Nat
  BY AdaptiveStep, TypesNext
     DEF IndInv, TypeOK, ConnectionTypeOK, SenderTypeOK
<1>1. CASE Pump
  BY <1>0, <1>1 DEF Pump, RecordSent
<1>2. CASE Resend
  BY <1>0, <1>2 DEF Resend, RecordResent, Marks
<1>3. CASE GiveUp
  BY <1>0, <1>3 DEF GiveUp, RefusedAt, RecordResent, Marks, rttVars
<1>4. CASE Sample
  BY <1>0, <1>4 DEF Sample, RecordAcked, Remaining
<1>5. CASE UNCHANGED rttVars
  BY <1>5 DEF rttVars
<1> QED
  BY <1>1, <1>2, <1>3, <1>4, <1>5 DEF AdaptiveNext, Unmeasured, adaptiveVars

\* What was sent twice is marked until the window has passed it.
LEMMA ResentMarkedNext ==
  ASSUME IndInv, RttInv, [AdaptiveNext]_adaptiveVars, Adaptive
  PROVE  \A s \in resent' : s \in retransmitted' \/ s < base'
<1>0. /\ base \in Nat /\ base' \in Nat /\ base <= base'
      /\ resent \subseteq Nat
      /\ \A s \in resent : s \in retransmitted \/ s < base
  BY AdaptiveStep, BaseGrows, BaseTypeNext
     DEF RttInv, RttTypeOK, IndInv, TypeOK, ConnectionTypeOK, SenderTypeOK
<1>1. CASE Pump
  BY <1>0, <1>1 DEF Pump, RecordSent
<1>2. CASE Resend
  BY <1>0, <1>2 DEF Resend, RecordResent, Marks
<1>3. CASE GiveUp
  <2>1. CASE UNCHANGED rttVars
    BY <1>0, <2>1 DEF rttVars
  <2>2. CASE \E k \in outstanding : RefusedAt(k)
    <3>1. outstanding \subseteq Nat
      BY DEF IndInv, TypeOK, ConnectionTypeOK, SenderTypeOK
    <3>2. PICK k \in outstanding : RefusedAt(k)
      BY <2>2
    <3> QED BY <1>0, <3>1, <3>2 DEF RefusedAt, RecordResent, Marks
  <2> QED BY <1>3, <2>1, <2>2 DEF GiveUp
<1>4. CASE Sample
  <2>1. PICK a \in ackNet : base' = a /\ outstanding' = {s \in outstanding : ~(s < a)}
    BY <1>4 DEF Sample, AcceptAck
  <2>2. /\ resent' = resent
        /\ retransmitted' = retransmitted \ (outstanding \ outstanding')
    BY <1>4 DEF Sample, RecordAcked, Remaining
  <2> QED BY <1>0, <2>1, <2>2
<1>5. CASE UNCHANGED rttVars
  BY <1>0, <1>5 DEF rttVars
<1> QED
  BY <1>1, <1>2, <1>3, <1>4, <1>5 DEF AdaptiveNext, Unmeasured, adaptiveVars

\* A sample is taken only of a packet sent once, and the window passes it.
LEMMA SampledPassedNext ==
  ASSUME IndInv, RttInv, [AdaptiveNext]_adaptiveVars
  PROVE  (\A s \in sampled' : Adaptive /\ s < base') /\ KarnsRule'
<1>0. /\ base \in Nat /\ base' \in Nat /\ base <= base'
      /\ sampled \subseteq Nat
      /\ \A s \in sampled : Adaptive /\ s < base
      /\ sampled \cap resent = {}
      /\ Adaptive => \A s \in resent : s \in retransmitted \/ s < base
  BY AdaptiveStep, BaseGrows, BaseTypeNext
     DEF RttInv, RttTypeOK, KarnsRule, IndInv, TypeOK, ConnectionTypeOK,
         SenderTypeOK
<1> USE DEF KarnsRule
<1>1. CASE Pump
  BY <1>0, <1>1 DEF Pump, RecordSent
<1>2. CASE Resend
  <2>1. \A s \in outstanding : base <= s /\ s \in Nat
    BY DEF IndInv, WindowShape, TypeOK, ConnectionTypeOK, SenderTypeOK
  <2>2. sampled' = sampled /\ resent' = resent \cup outstanding
    BY <1>2 DEF Resend, RecordResent
  <2> QED BY <1>0, <2>1, <2>2
<1>3. CASE GiveUp
  <2>1. \A s \in outstanding : base <= s /\ s \in Nat
    BY DEF IndInv, WindowShape, TypeOK, ConnectionTypeOK, SenderTypeOK
  <2>2. sampled' = sampled /\ resent' \subseteq resent \cup outstanding
    BY <1>3 DEF GiveUp, RefusedAt, RecordResent, rttVars
  <2> QED BY <1>0, <2>1, <2>2
<1>4. CASE Sample
  <2>1. base < base' /\ resent' = resent
    BY <1>4 DEF Sample, AcceptAck, RecordAcked
  <2>2. CASE Samples(base)
    <3>1. sampled' = sampled \cup {base}
      BY <1>4, <2>2 DEF Sample, RecordAcked
    <3>2. Adaptive /\ base \notin resent
      BY <1>0, <2>2 DEF Samples
    <3> QED BY <1>0, <2>1, <3>1, <3>2
  <2>3. CASE ~Samples(base)
    <3>1. sampled' = sampled
      BY <1>4, <2>3 DEF Sample, RecordAcked
    <3> QED BY <1>0, <2>1, <3>1
  <2> QED BY <2>2, <2>3
<1>5. CASE UNCHANGED rttVars
  BY <1>0, <1>5 DEF rttVars
<1> QED
  BY <1>1, <1>2, <1>3, <1>4, <1>5 DEF AdaptiveNext, Unmeasured, adaptiveVars

\* Karn's algorithm: no packet that was sent twice ever gives a sample.
THEOREM Karn == AdaptiveSpec => []KarnsRule
<1>1. AdaptiveInit => RttInv
  BY DEF AdaptiveInit, RttInit, RttInv, RttTypeOK, KarnsRule
<1>2. IndInv /\ RttInv /\ [AdaptiveNext]_adaptiveVars => RttInv'
  BY RttTypeNext, ResentMarkedNext, SampledPassedNext DEF RttInv
<1>3. AdaptiveSpec => []IndInv
  BY AdaptiveIsGoBackN, Invariance, PTL
<1>4. RttInv => KarnsRule
  BY DEF RttInv
<1> QED BY <1>1, <1>2, <1>3, <1>4, PTL DEF AdaptiveSpec
\* The steps that do not measure leave the window alone.
LEMMA UnmeasuredWindow ==
  ASSUME Unmeasured \/ UNCHANGED adaptiveVars
  PROVE  UNCHANGED outstanding /\ UNCHANGED rttVars
<1> USE DEF appVars, queueVars, windowVars, outcomeVars, netVars, peerVars,
            senderVars, connectionVars, ownVars
<1>1. CASE Unmeasured
  <2>0. UNCHANGED rttVars
    BY <1>1 DEF Unmeasured
  <2>1. CASE CommonStep
    <3>1. CASE SendtoStep BY <2>0, <3>1 DEF SendtoStep, SendCheck, SendPut
    <3>2. CASE FlushStep
      BY <2>0, <3>2 DEF FlushStep, FlushCall, FlushSnapshot, FlushRaise, FlushReturn,
                  FlushWait, FlushTimeout
    <3>3. CASE CloseStep BY <2>0, <3>3 DEF CloseStep, CloseBegin, CloseFail, CloseChannel
    <3>4. CASE DrainStep BY <2>0, <3>4 DEF DrainStep, DrainGet, DrainPut, DrainDone
    <3>5. CASE ControlStep
      BY <2>0, <3>5 DEF ControlStep, LoopTop, PumpDies, PumpDone, RecvNothing
    <3>6. CASE PeerControlStep \/ PeerClose \/ RecvFrom
      BY <2>0, <3>6 DEF PeerControlStep, PeerAckFails, PeerExit, PeerClose, RecvFrom
    <3> QED BY <2>0, <2>1, <3>1, <3>2, <3>3, <3>4, <3>5, <3>6 DEF CommonStep
  <2>2. CASE TimerNotDue BY <2>0, <2>2 DEF TimerNotDue
  <2>3. CASE TimerDueNothingSent BY <2>0, <2>3 DEF TimerDueNothingSent
  <2>4. CASE IgnoreAck BY <2>0, <2>4 DEF IgnoreAck
  <2>5. CASE Expire BY <2>0, <2>5 DEF Expire
  <2>6. CASE PeerReceive BY <2>0, <2>6 DEF PeerReceive
  <2>7. CASE PeerSendAck BY <2>0, <2>7 DEF PeerSendAck
  <2>8. CASE PeerPut BY <2>0, <2>8 DEF PeerPut
  <2> QED
    BY <1>1, <2>1, <2>2, <2>3, <2>4, <2>5, <2>6, <2>7, <2>8
       DEF Unmeasured, Sendto, Flush, Close, Control, Drain, PeerLoopStep,
           PeerControl, PeerApp, CommonStep
<1>2. CASE UNCHANGED adaptiveVars
  BY <1>2 DEF adaptiveVars, vars, rttVars
<1> QED BY <1>1, <1>2

\* An error stays: where nothing has failed after a step nothing had before it.
LEMMA BookkeepingNext ==
  ASSUME IndInv, BookkeepingKept, [AdaptiveNext]_adaptiveVars
  PROVE  BookkeepingKept'
<1> SUFFICES ASSUME Adaptive, errored' = {}
             PROVE  sendTime' = outstanding' /\ retransmitted' \subseteq outstanding'
  BY DEF BookkeepingKept
<1>0. sendTime = outstanding /\ retransmitted \subseteq outstanding
  <2>1. errored \subseteq errored'
    BY AdaptiveStep, OutcomesGrow, StepFrames DEF Frames
  <2> QED BY <2>1 DEF BookkeepingKept
<1>1. CASE Pump
  <2>1. CASE PumpSend
    <3>1. PICK s \in pending : /\ pending' = pending \ {s}
                               /\ outstanding' = outstanding \cup {s}
      BY <2>1 DEF PumpSend, PumpItem, CanPump
    <3>2. pending \ pending' = {s}
      BY <3>1
    <3> QED BY <1>0, <1>1, <3>1, <3>2 DEF Pump, RecordSent
  <2>2. CASE PumpSendFails
    BY <2>2 DEF PumpSendFails, PumpItemFails
  <2> QED BY <1>1, <2>1, <2>2 DEF Pump, PumpStep
<1>2. CASE Resend
  BY <1>0, <1>2 DEF Resend, Retransmit, RecordResent, Marks
<1>3. CASE GiveUp
  BY <1>3 DEF GiveUp, FailPeer, FailWindow
<1>4. CASE Sample
  BY <1>0, <1>4 DEF Sample, AcceptAck, RecordAcked, Remaining
<1>5. CASE Unmeasured \/ UNCHANGED adaptiveVars
  BY <1>0, <1>5, UnmeasuredWindow DEF rttVars
<1> QED
  BY <1>1, <1>2, <1>3, <1>4, <1>5 DEF AdaptiveNext

\* Until something fails the bookkeeping of a connection is that of its window.
THEOREM BookkeepingIsWindow == AdaptiveSpec => []BookkeepingKept
<1>1. AdaptiveInit => BookkeepingKept
  BY DEF AdaptiveInit, Init, ConnectionInit, RttInit, BookkeepingKept
<1>2. IndInv /\ BookkeepingKept /\ [AdaptiveNext]_adaptiveVars => BookkeepingKept'
  BY BookkeepingNext
<1>3. AdaptiveSpec => []IndInv
  BY AdaptiveIsGoBackN, Invariance, PTL
<1> QED BY <1>1, <1>2, <1>3, PTL DEF AdaptiveSpec
=============================================================================
