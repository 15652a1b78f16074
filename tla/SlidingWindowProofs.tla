------------------------- MODULE SlidingWindowProofs -------------------------
(***************************************************************************)
(* The invariance argument that Go-Back-N and Selective Repeat share.      *)
(*                                                                         *)
(* SharedStep says, for each part of the shared state, which steps of a    *)
(* transport change it and how.  Each transport proves that its steps are  *)
(* of that form; the lemmas below then hold for both.                      *)
(***************************************************************************)
EXTENDS SlidingWindow, TLAPS

USE DEF nextSeq, Outbound, Stopped, Packets, Failing, RetriesLeft, FlushItems

-----------------------------------------------------------------------------
SomeItemPumped == \E s \in pending : PumpItem(s)
SomeItemFails == \E s \in pending : PumpItemFails(s)

\* An ACK is accepted: what leaves the window is acknowledged.
AckTaken ==
    /\ acked \subseteq acked' /\ acked' \subseteq acked \cup outstanding
    /\ outstanding' \subseteq outstanding
    /\ outstanding \ outstanding' \subseteq acked'
    /\ UNCHANGED <<appVars, queueVars, peerError, errored, closing, flush>>

\* Packets of the window are sent again.
Resent ==
    /\ \E R \in SUBSET outstanding : dataNet' = dataNet \cup {Packet(s) : s \in R}
    /\ UNCHANGED <<appVars, queueVars, outstanding>>

\* The background thread goes on, or ends.
LoopMoves ==
    /\ pc # "exited"
    /\ pc' \in {"top", "drain", "pump", "timeouts", "recv", "exited"}
    /\ UNCHANGED <<sendPc, closing>>

SubmittedFrame ==
    UNCHANGED submitted \/ SendPut
QueuesFrame ==
    \/ UNCHANGED queueVars
    \/ DrainGet \/ DrainPut \/ SomeItemPumped \/ SomeItemFails \/ PumpDies
    \/ FailWindow \/ CloseFail
OutstandingFrame ==
    UNCHANGED outstanding \/ SomeItemPumped \/ FailWindow \/ AckTaken
RetriesFrame ==
    retries' \in {retries, 0} \/ (RetriesLeft /\ retries' = retries + 1) \/ FailWindow
ErroredFrame ==
    UNCHANGED errored \/ CloseFail \/ SomeItemFails \/ FailWindow
AckedFrame ==
    UNCHANGED acked \/ AckTaken
PeerErrorFrame ==
    UNCHANGED peerError \/ SendPut \/ FailWindow
FlushFrame ==
    \/ UNCHANGED flush
    \/ FlushCall \/ FlushSnapshot \/ FlushRaise \/ FlushReturn \/ FlushWait
    \/ FlushTimeout
DataNetFrame ==
    UNCHANGED dataNet \/ SomeItemPumped \/ Resent
ControlFrame ==
    \/ UNCHANGED <<pc, sendPc, closing>>
    \/ SendCheck \/ SendPut \/ CloseBegin \/ CloseFail \/ CloseChannel
    \/ LoopMoves

SharedStep ==
    /\ SubmittedFrame /\ QueuesFrame /\ OutstandingFrame /\ RetriesFrame
    /\ ErroredFrame /\ AckedFrame /\ PeerErrorFrame /\ FlushFrame
    /\ DataNetFrame /\ ControlFrame

-----------------------------------------------------------------------------
(* The steps that both transports take over as they are.                   *)

CommonStep ==
    \/ SendtoStep \/ FlushStep \/ CloseStep \/ DrainStep \/ ControlStep
    \/ PeerControlStep \/ PeerClose \/ RecvFrom

CommonFrames ==
    /\ SharedStep
    /\ UNCHANGED <<known, base>> \/ DrainPut
    /\ UNCHANGED <<outstanding, acked, ackNet, expected, incoming>>
    /\ UNCHANGED peerPc \/ PeerAckFails \/ PeerExit
    /\ UNCHANGED peerOpen \/ PeerClose
    /\ UNCHANGED taken \/ RecvFrom

LEMMA CommonStepFrames == CommonStep => CommonFrames
<1> SUFFICES ASSUME CommonStep PROVE CommonFrames
  OBVIOUS
<1> USE DEF CommonFrames, SharedStep, SubmittedFrame, QueuesFrame,
        OutstandingFrame, RetriesFrame, ErroredFrame, AckedFrame,
        PeerErrorFrame, FlushFrame, DataNetFrame, ControlFrame, appVars,
        queueVars, windowVars, outcomeVars, netVars, peerVars, senderVars
<1>1. CASE SendtoStep
  <2>1. CASE SendCheck BY <2>1 DEF SendCheck
  <2>2. CASE SendPut BY <2>2 DEF SendPut
  <2> QED BY <1>1, <2>1, <2>2 DEF SendtoStep
<1>2. CASE FlushStep
  <2>1. CASE FlushCall BY <2>1 DEF FlushCall
  <2>2. CASE FlushSnapshot BY <2>2 DEF FlushSnapshot
  <2>3. CASE FlushRaise BY <2>3 DEF FlushRaise
  <2>4. CASE FlushReturn BY <2>4 DEF FlushReturn
  <2>5. CASE FlushWait BY <2>5 DEF FlushWait
  <2>6. CASE FlushTimeout BY <2>6 DEF FlushTimeout
  <2> QED BY <1>2, <2>1, <2>2, <2>3, <2>4, <2>5, <2>6 DEF FlushStep
<1>3. CASE CloseStep
  <2>1. CASE CloseBegin BY <2>1 DEF CloseBegin
  <2>2. CASE CloseFail BY <2>2 DEF CloseFail
  <2>3. CASE CloseChannel BY <2>3 DEF CloseChannel
  <2> QED BY <1>3, <2>1, <2>2, <2>3 DEF CloseStep
<1>4. CASE DrainStep
  <2>1. CASE DrainGet BY <2>1 DEF DrainGet
  <2>2. CASE DrainPut BY <2>2 DEF DrainPut, LoopMoves
  <2>3. CASE DrainDone BY <2>3 DEF DrainDone, LoopMoves
  <2> QED BY <1>4, <2>1, <2>2, <2>3 DEF DrainStep
<1>5. CASE ControlStep
  <2>1. CASE LoopTop BY <2>1 DEF LoopTop, LoopMoves
  <2>2. CASE PumpDies BY <2>2 DEF PumpDies, LoopMoves
  <2>3. CASE PumpDone BY <2>3 DEF PumpDone, LoopMoves
  <2>4. CASE RecvNothing BY <2>4 DEF RecvNothing, LoopMoves
  <2> QED BY <1>5, <2>1, <2>2, <2>3, <2>4 DEF ControlStep
<1>6. CASE PeerControlStep
  <2>1. CASE PeerAckFails BY <2>1 DEF PeerAckFails
  <2>2. CASE PeerExit BY <2>2 DEF PeerExit
  <2> QED BY <1>6, <2>1, <2>2 DEF PeerControlStep
<1>7. CASE PeerClose BY <1>7 DEF PeerClose
<1>8. CASE RecvFrom BY <1>8 DEF RecvFrom
<1> QED
  BY <1>1, <1>2, <1>3, <1>4, <1>5, <1>6, <1>7, <1>8 DEF CommonStep

-----------------------------------------------------------------------------
(* Types.                                                                  *)

LEMMA QueueTypes ==
  ASSUME SenderTypeOK
  PROVE  nextSeq \in Nat /\ Outbound \subseteq Nat
  BY DEF SenderTypeOK

LEMMA SenderTypeNext ==
  ASSUME SenderTypeOK, SharedStep, base' \in Nat, known' \in BOOLEAN
  PROVE  SenderTypeOK'
<1> USE DEF SenderTypeOK
<1>1. submitted' \in Seq(Payload)
  BY DEF SharedStep, SubmittedFrame, SendPut
<1>2. drained' \in Nat /\ handoff' \in Nat \cup {-1} /\ pending' \subseteq Nat
  <2>1. CASE DrainGet BY <2>1 DEF DrainGet
  <2>2. CASE DrainPut BY <2>2 DEF DrainPut
  <2>3. CASE SomeItemPumped BY <2>3 DEF SomeItemPumped, PumpItem
  <2>4. CASE SomeItemFails BY <2>4 DEF SomeItemFails, PumpItemFails
  <2>5. CASE PumpDies BY <2>5 DEF PumpDies
  <2>6. CASE FailWindow BY <2>6 DEF FailWindow
  <2>7. CASE CloseFail BY <2>7, QueueTypes DEF CloseFail, HandoffAfterClose
  <2> QED
    BY <2>1, <2>2, <2>3, <2>4, <2>5, <2>6, <2>7
       DEF SharedStep, QueuesFrame, queueVars
<1>3. outstanding' \subseteq Nat
  <2>1. CASE SomeItemPumped BY <2>1 DEF SomeItemPumped, PumpItem
  <2>2. CASE FailWindow BY <2>2 DEF FailWindow
  <2>3. CASE AckTaken BY <2>3 DEF AckTaken
  <2> QED BY <2>1, <2>2, <2>3 DEF SharedStep, OutstandingFrame
<1>4. errored' \subseteq Nat
  <2>1. CASE CloseFail
    <3> HIDE DEF Outbound
    <3> QED BY <2>1, QueueTypes DEF CloseFail
  <2>2. CASE SomeItemFails BY <2>2 DEF SomeItemFails, PumpItemFails
  <2>3. CASE FailWindow BY <2>3 DEF FailWindow
  <2> QED BY <2>1, <2>2, <2>3 DEF SharedStep, ErroredFrame
<1>5. acked' \subseteq Nat
  BY DEF SharedStep, AckedFrame, AckTaken
<1> QED BY <1>1, <1>2, <1>3, <1>4, <1>5

LEMMA SenderControlTypeNext ==
  ASSUME SenderControlTypeOK, SharedStep
  PROVE  SenderControlTypeOK'
<1> USE DEF SharedStep, SenderControlTypeOK
<1>1. retries' \in 0 .. MaxRetries + 1
  BY BoundAssumption DEF RetriesFrame, FailWindow
<1>2. peerError' \in BOOLEAN
  BY DEF PeerErrorFrame, SendPut, FailWindow
<1>3. /\ pc' \in {"top", "drain", "pump", "timeouts", "recv", "exited"}
      /\ sendPc' \in {"idle", "checked"}
      /\ closing' \in {"open", "stopping", "joining", "closed"}
  BY DEF ControlFrame, LoopMoves, appVars, SendCheck, SendPut, CloseBegin,
         CloseFail, CloseChannel
<1> QED BY <1>1, <1>2, <1>3

LEMMA FlushTypeNext ==
  ASSUME SenderTypeOK, SenderControlTypeOK, FlushTypeOK, SharedStep
  PROVE  FlushTypeOK'
<1> USE DEF FlushTypeOK
<1>1. CASE FlushCall
  BY <1>1, SwitchAssumption DEF FlushCall, SenderTypeOK
<1>2. CASE FlushSnapshot
  <2> DEFINE seen == pending \cup outstanding
                       \cup (IF flush.mode = "all" THEN Outbound ELSE {})
  <2>1. /\ seen \in SUBSET Nat /\ peerError \in BOOLEAN
        /\ handoff \in Nat \cup {-1}
    <3> HIDE DEF Outbound
    <3> QED BY QueueTypes DEF SenderTypeOK, SenderControlTypeOK
  <2>2. flush' = [flush EXCEPT !.pc = "check", !.items = seen,
                               !.missed = handoff, !.err = peerError]
    BY <1>2 DEF FlushSnapshot
  <2> QED BY <2>1, <2>2
<1>3. CASE FlushRaise BY <1>3 DEF FlushRaise, FlushRaised
<1>4. CASE FlushReturn BY <1>4 DEF FlushReturn, FlushReturned
<1>5. CASE FlushTimeout BY <1>5 DEF FlushTimeout, FlushRaised
<1>6. CASE FlushWait BY <1>6 DEF FlushWait
<1> QED
  BY <1>1, <1>2, <1>3, <1>4, <1>5, <1>6 DEF SharedStep, FlushFrame

LEMMA DataNetTypeNext ==
  ASSUME SenderTypeOK, NetTypeOK, QueueOrder, InFlightSent, SharedStep
  PROVE  dataNet' \subseteq Packets
<1> USE DEF SenderTypeOK, NetTypeOK
<1>1. CASE SomeItemPumped
  <2>1. PICK s \in pending : dataNet' = dataNet \cup {Packet(s)}
    BY <1>1 DEF SomeItemPumped, PumpItem
  <2>2. Packet(s) \in Packets
    BY <2>1 DEF Packet, QueueOrder
  <2> QED BY <2>1, <2>2
<1>2. CASE Resent
  BY <1>2 DEF Resent, InFlightSent
<1> QED BY <1>1, <1>2 DEF SharedStep, DataNetFrame

-----------------------------------------------------------------------------
(* What a step leaves true of the items, whoever takes it.                 *)

LEMMA SubmittedGrows ==
  ASSUME SenderTypeOK, SharedStep
  PROVE  /\ nextSeq <= nextSeq'
         /\ \A i \in 1 .. nextSeq : submitted'[i] = submitted[i]
  BY DEF SharedStep, SubmittedFrame, SendPut, SenderTypeOK

\* An item moves towards the window and never back, so a number below every
\* unsent item stays below them.
LEMMA BelowUnsentStable ==
  ASSUME SenderTypeOK, QueueOrder, SharedStep, NEW n \in Nat, BelowUnsent(n)
  PROVE  BelowUnsent(n)'
<1> USE DEF SenderTypeOK, QueueOrder, BelowUnsent
<1>1. CASE DrainGet BY <1>1 DEF DrainGet
<1>2. CASE DrainPut BY <1>2 DEF DrainPut
<1>3. CASE SomeItemPumped BY <1>3 DEF SomeItemPumped, PumpItem
<1>4. CASE SomeItemFails BY <1>4 DEF SomeItemFails, PumpItemFails
<1>5. CASE PumpDies BY <1>5 DEF PumpDies
<1>6. CASE FailWindow BY <1>6 DEF FailWindow
<1>7. CASE CloseFail BY <1>7 DEF CloseFail, HandoffAfterClose
<1> QED
  BY <1>1, <1>2, <1>3, <1>4, <1>5, <1>6, <1>7
     DEF SharedStep, QueuesFrame, queueVars

LEMMA QueueOrderNext ==
  ASSUME SenderTypeOK, QueueOrder, SharedStep
  PROVE  QueueOrder'
<1> USE SubmittedGrows DEF SenderTypeOK, QueueOrder
<1>1. CASE DrainGet BY <1>1 DEF DrainGet, appVars
<1>2. CASE DrainPut BY <1>2 DEF DrainPut, appVars
<1>3. CASE SomeItemPumped BY <1>3 DEF SomeItemPumped, PumpItem, appVars
<1>4. CASE SomeItemFails BY <1>4 DEF SomeItemFails, PumpItemFails, appVars
<1>5. CASE PumpDies BY <1>5 DEF PumpDies, appVars
<1>6. CASE FailWindow BY <1>6 DEF FailWindow, appVars
<1>7. CASE CloseFail BY <1>7 DEF CloseFail, HandoffAfterClose, appVars
<1>8. CASE UNCHANGED queueVars BY <1>8 DEF queueVars
<1> QED
  BY <1>1, <1>2, <1>3, <1>4, <1>5, <1>6, <1>7, <1>8
     DEF SharedStep, QueuesFrame

LEMMA WireContentsNext ==
  ASSUME SenderTypeOK, NetTypeOK, QueueOrder, WireContents, InFlightSent,
         SharedStep
  PROVE  WireContents'
<1>1. ASSUME NEW m \in dataNet
      PROVE  BelowUnsent(m.seq + 1)' /\ m.data = submitted'[m.seq + 1]
  <2>1. m.seq + 1 \in Nat /\ BelowUnsent(m.seq + 1) /\ m.data = submitted[m.seq + 1]
    BY DEF WireContents, NetTypeOK
  <2>2. m.seq + 1 \in 1 .. nextSeq
    BY <2>1 DEF NetTypeOK, SenderTypeOK, QueueOrder, BelowUnsent
  <2> QED BY <2>1, <2>2, BelowUnsentStable, SubmittedGrows
<1>2. CASE SomeItemPumped
  <2>1. PICK s \in pending :
          /\ \A t \in pending : s <= t
          /\ pending' = pending \ {s}
          /\ dataNet' = dataNet \cup {Packet(s)}
          /\ UNCHANGED <<drained, handoff, submitted>>
    BY <1>2 DEF SomeItemPumped, PumpItem, CanPump, appVars
  <2>2. BelowUnsent(s + 1)'
    BY <2>1 DEF SenderTypeOK, QueueOrder, BelowUnsent
  <2>3. Packet(s).seq = s /\ Packet(s).data = submitted'[s + 1]
    BY <2>1 DEF Packet
  <2> QED BY <1>1, <2>1, <2>2, <2>3 DEF WireContents
<1>3. CASE Resent
  <2>1. dataNet' = dataNet
    BY <1>3 DEF Resent, InFlightSent
  <2> QED BY <1>1, <2>1 DEF WireContents
<1>4. CASE UNCHANGED dataNet
  BY <1>1, <1>4 DEF WireContents
<1> QED BY <1>2, <1>3, <1>4 DEF SharedStep, DataNetFrame

\* A packet in flight carries an item that was submitted.
LEMMA OutstandingSubmitted ==
  ASSUME SenderTypeOK, QueueOrder, WireContents, InFlightSent
  PROVE  \A s \in outstanding : s \in 0 .. nextSeq - 1
<1> USE DEF SenderTypeOK
<1>1. ASSUME NEW s \in outstanding PROVE s \in 0 .. nextSeq - 1
  <2>1. Packet(s) \in dataNet /\ Packet(s).seq = s
    BY DEF Packet, InFlightSent
  <2>2. s + 1 <= drained
    BY <2>1 DEF WireContents, BelowUnsent
  <2> QED BY <2>2 DEF QueueOrder
<1> QED BY <1>1

LEMMA InFlightSentNext ==
  ASSUME SenderTypeOK, QueueOrder, WireContents, InFlightSent, SharedStep
  PROVE  InFlightSent'
<1> USE DEF SenderTypeOK, InFlightSent
<1>1. \A s \in outstanding : s \in 0 .. nextSeq - 1
  BY OutstandingSubmitted
<1>2. \A s \in outstanding : Packet(s)' \in dataNet'
  BY <1>1, SubmittedGrows
     DEF Packet, SharedStep, DataNetFrame, SomeItemPumped, PumpItem, Resent
<1>3. CASE SomeItemPumped
  <2>1. PICK s \in pending :
          /\ outstanding' = outstanding \cup {s}
          /\ dataNet' = dataNet \cup {Packet(s)}
          /\ UNCHANGED submitted
    BY <1>3 DEF SomeItemPumped, PumpItem, appVars
  <2>2. Packet(s)' \in dataNet'
    BY <2>1 DEF Packet
  <2> QED BY <1>2, <2>1, <2>2
<1> QED
  BY <1>2, <1>3 DEF SharedStep, OutstandingFrame, FailWindow, AckTaken

LEMMA OutcomesGrow ==
  ASSUME SharedStep
  PROVE  acked \subseteq acked' /\ errored \subseteq errored'
  BY DEF SharedStep, AckedFrame, ErroredFrame, AckTaken, CloseFail,
         SomeItemFails, PumpItemFails, FailWindow

\* Only the death of the thread loses an item: the oldest pending one.
LEMMA LocatedStable ==
  ASSUME SenderTypeOK, QueueOrder, SharedStep, NEW s \in 0 .. nextSeq - 1,
         Located(s)
  PROVE  \/ Located(s)'
         \/ /\ pc = "pump" /\ pc' = "exited"
            /\ submitted[s + 1] \in Unencodable
            /\ s \in pending /\ pending' = pending \ {s}
            /\ \A t \in pending : s <= t
            /\ UNCHANGED <<appVars, drained, handoff, windowVars, outcomeVars, dataNet>>
<1> USE DEF SenderTypeOK, QueueOrder, Located
<1>1. CASE DrainGet BY <1>1 DEF DrainGet, appVars, outcomeVars, windowVars
<1>2. CASE DrainPut BY <1>2 DEF DrainPut, appVars, outcomeVars
<1>3. CASE SomeItemPumped
  BY <1>3 DEF SomeItemPumped, PumpItem, appVars, outcomeVars
<1>4. CASE SomeItemFails BY <1>4 DEF SomeItemFails, PumpItemFails, appVars
<1>5. CASE PumpDies
  <2>1. PICK k \in pending :
          /\ \A t \in pending : k <= t
          /\ submitted[k + 1] \in Unencodable
          /\ pending' = pending \ {k}
    BY <1>5 DEF PumpDies, CanPump
  <2>2. /\ pc = "pump" /\ pc' = "exited"
        /\ UNCHANGED <<appVars, drained, handoff, windowVars, outcomeVars, dataNet>>
    BY <1>5 DEF PumpDies, CanPump, netVars
  <2>3. CASE s = k
    BY <2>1, <2>2, <2>3
  <2>4. CASE s # k
    BY <2>1, <2>2, <2>4 DEF appVars, outcomeVars, windowVars
  <2> QED BY <2>3, <2>4
<1>6. CASE FailWindow BY <1>6 DEF FailWindow, appVars
<1>7. CASE CloseFail BY <1>7 DEF CloseFail, HandoffAfterClose, appVars, windowVars
<1>8. CASE AckTaken BY <1>8 DEF AckTaken, appVars, queueVars
<1>9. CASE UNCHANGED queueVars /\ UNCHANGED outstanding
  BY <1>9, SubmittedGrows, OutcomesGrow DEF queueVars
<1> QED
  BY <1>1, <1>2, <1>3, <1>4, <1>5, <1>6, <1>7, <1>8, <1>9
     DEF SharedStep, QueuesFrame, OutstandingFrame

\* What is lost stays lost: nothing puts an old item back into a queue, and an
\* outcome needs an item in one.
LEMMA LostStays ==
  ASSUME SenderTypeOK, QueueOrder, SharedStep, NEW s \in Lost
  PROVE  s \in Lost'
<1> USE DEF SenderTypeOK, QueueOrder
<1>1. /\ s \in 0 .. nextSeq - 1 /\ s < drained /\ s # handoff
      /\ s \notin pending \cup outstanding \cup acked \cup errored
  BY DEF Lost, Located
<1>2. s \in 0 .. nextSeq' - 1
  BY <1>1, SubmittedGrows
<1>3. s \notin Outbound' /\ s # handoff' /\ s \notin pending'
  <2>1. CASE DrainGet BY <1>1, <2>1 DEF DrainGet
  <2>2. CASE DrainPut BY <1>1, <2>2 DEF DrainPut
  <2>3. CASE SomeItemPumped BY <1>1, <2>3 DEF SomeItemPumped, PumpItem
  <2>4. CASE SomeItemFails BY <1>1, <2>4 DEF SomeItemFails, PumpItemFails
  <2>5. CASE PumpDies BY <1>1, <2>5 DEF PumpDies
  <2>6. CASE FailWindow BY <1>1, <2>6 DEF FailWindow
  <2>7. CASE CloseFail
    BY <1>1, <2>7 DEF CloseFail, HandoffAfterClose, appVars
  <2> QED
    BY <1>1, <2>1, <2>2, <2>3, <2>4, <2>5, <2>6, <2>7
       DEF SharedStep, QueuesFrame, queueVars
<1>4. s \notin outstanding'
  BY <1>1
     DEF SharedStep, OutstandingFrame, SomeItemPumped, PumpItem, FailWindow, AckTaken
<1>5. s \notin acked'
  BY <1>1 DEF SharedStep, AckedFrame, AckTaken
<1>6. s \notin errored'
  BY <1>1
     DEF SharedStep, ErroredFrame, CloseFail, SomeItemFails, PumpItemFails, FailWindow
<1> QED BY <1>2, <1>3, <1>4, <1>5, <1>6 DEF Lost, Located

\* What sendto() adds is in _outbound.
LEMMA NewItemLocated ==
  ASSUME SenderTypeOK, QueueOrder, SharedStep, NEW s \in nextSeq .. nextSeq' - 1
  PROVE  Located(s)'
<1>1. SendPut
  BY DEF SharedStep, SubmittedFrame, SenderTypeOK
<1> QED
  BY <1>1 DEF SendPut, queueVars, Located, SenderTypeOK, QueueOrder

LEMMA ExitedStays ==
  ASSUME SharedStep, pc = "exited"
  PROVE  pc' = "exited"
  BY DEF SharedStep, ControlFrame, LoopMoves, appVars, SendCheck, SendPut,
         CloseBegin, CloseFail, CloseChannel

\* A thread that has ended sends nothing more.
LEMMA ExitedSendsNothing ==
  ASSUME SharedStep, InFlightSent, pc = "exited"
  PROVE  dataNet' = dataNet
  BY DEF SharedStep, DataNetFrame, SomeItemPumped, PumpItem, CanPump, Resent,
         InFlightSent

LEMMA NothingForgottenNext ==
  ASSUME SenderTypeOK, SenderTypeOK', NetTypeOK, QueueOrder, WireContents,
         InFlightSent, NothingForgotten, SharedStep
  PROVE  NothingForgotten'
<1> SUFFICES ASSUME NEW s \in Lost'
             PROVE  /\ Lost' = {s} /\ pc' = "exited"
                    /\ submitted'[s + 1] \in Unencodable
                    /\ \A m \in dataNet' : m.seq < s
  BY DEF NothingForgotten
<1>1. nextSeq \in Nat /\ nextSeq' \in Nat
  BY DEF SenderTypeOK
<1>2. ASSUME NEW t \in Lost' PROVE t \in 0 .. nextSeq - 1
  BY <1>1, NewItemLocated DEF Lost
<1>3. CASE Lost = {}
  <2>1. ASSUME NEW t \in Lost'
        PROVE  /\ pc' = "exited" /\ submitted[t + 1] \in Unencodable
               /\ t \in pending /\ pending' = pending \ {t}
               /\ \A u \in pending : t <= u
               /\ UNCHANGED <<submitted, dataNet>>
    <3>1. t \in 0 .. nextSeq - 1 /\ Located(t) /\ ~Located(t)'
      BY <1>2, <1>3 DEF Lost
    <3> QED BY <3>1, LocatedStable DEF appVars
  <2>2. Lost' = {s}
    BY <2>1
  <2>3. ASSUME NEW m \in dataNet' PROVE m.seq < s
    <3>1. m \in dataNet /\ m.seq \in Nat /\ BelowUnsent(m.seq + 1)
      BY <2>1 DEF WireContents, NetTypeOK, Packets
    <3>2. s \in pending /\ s \in Nat
      BY <2>1 DEF SenderTypeOK
    <3>3. m.seq + 1 <= s
      BY <3>1, <3>2 DEF BelowUnsent
    <3> QED BY <3>1, <3>2, <3>3
  <2> QED BY <2>1, <2>2, <2>3
<1>4. CASE Lost # {}
  <2>1. PICK k \in Lost :
          /\ Lost = {k} /\ pc = "exited"
          /\ submitted[k + 1] \in Unencodable
          /\ \A m \in dataNet : m.seq < k
    BY <1>4 DEF NothingForgotten
  <2>2. ASSUME NEW t \in Lost' PROVE t = k
    <3>1. pc' = "exited" /\ dataNet' = dataNet /\ t \in 0 .. nextSeq - 1
      BY <1>2, <2>1, ExitedStays, ExitedSendsNothing
    <3>2. CASE Located(t)
      <4>1. ~Located(t)'
        BY DEF Lost
      <4> QED BY <2>1, <3>1, <3>2, <4>1, LocatedStable
    <3>3. CASE ~Located(t)
      BY <2>1, <3>1, <3>3 DEF Lost
    <3> QED BY <3>2, <3>3
  <2>3. s = k /\ Lost' = {s}
    BY <2>2
  <2>4. k + 1 \in 1 .. nextSeq
    BY <1>1, <2>1 DEF Lost
  <2> QED BY <2>1, <2>3, <2>4, SubmittedGrows, ExitedStays, ExitedSendsNothing
<1> QED BY <1>3, <1>4

LEMMA FlushShapeNext ==
  ASSUME SenderTypeOK, SenderTypeOK', QueueOrder, FlushTypeOK, FlushShape,
         SharedStep
  PROVE  FlushShape'
<1> USE DEF FlushTypeOK, FlushShape
<1>1. nextSeq \in Nat /\ nextSeq' \in Nat /\ nextSeq <= nextSeq'
  BY SubmittedGrows DEF SenderTypeOK
\* Outcomes stay, and so do the two exceptions.
<1>2. ASSUME SettledButMissed, flush'.target = flush.target, flush'.missed = flush.missed
      PROVE  SettledButMissed'
  BY <1>2, OutcomesGrow, LostStays DEF SettledButMissed
<1>3. CASE FlushCall
  BY <1>1, <1>3 DEF FlushCall
<1>4. CASE FlushSnapshot
  <2>1. /\ flush'.target = flush.target /\ flush'.mode = flush.mode
        /\ flush'.result = flush.result /\ flush'.pc = "check" /\ flush.pc = "snap"
        /\ flush'.items = FlushItems /\ flush'.missed = handoff
        /\ UNCHANGED <<submitted, drained, handoff, pending, outstanding, acked, errored>>
    BY <1>4 DEF FlushSnapshot, appVars, queueVars, windowVars, outcomeVars
  <2>2. ASSUME flush.mode = "all", flush'.items = {}
        PROVE  SettledButMissed'
    <3>1. pending = {} /\ outstanding = {} /\ Outbound = {}
      BY <2>1, <2>2
    <3>2. ASSUME NEW s \in 0 .. flush.target - 1
          PROVE  s \in acked \cup errored \cup {handoff} \cup Lost
      <4>1. s \in 0 .. nextSeq - 1
        BY <1>1
      <4> QED BY <3>1, <4>1 DEF Located, Lost
    <3>3. Lost' = Lost
      BY <2>1 DEF Lost, Located
    <3> QED BY <2>1, <3>2, <3>3 DEF SettledButMissed
  <2> QED BY <1>1, <2>1, <2>2
<1>5. CASE FlushRaise \/ FlushTimeout
  BY <1>1, <1>5 DEF FlushRaise, FlushTimeout, FlushRaised
<1>6. CASE FlushReturn
  <2>1. /\ flush'.target = flush.target /\ flush'.mode = flush.mode
        /\ flush'.missed = flush.missed /\ flush'.pc = "idle"
        /\ flush.pc = "check" /\ flush.items = {}
    BY <1>6 DEF FlushReturn, FlushReturned
  <2> QED BY <1>1, <1>2, <2>1
<1>7. CASE FlushWait
  BY <1>1, <1>7 DEF FlushWait
<1>8. CASE UNCHANGED flush
  BY <1>1, <1>2, <1>8
<1> QED
  BY <1>3, <1>4, <1>5, <1>6, <1>7, <1>8 DEF SharedStep, FlushFrame

-----------------------------------------------------------------------------
(* The two facts the transports build on.                                  *)

SenderTypes == SenderTypeOK /\ SenderControlTypeOK /\ FlushTypeOK /\ NetTypeOK

LEMMA ConnectionInitially ==
  ASSUME ConnectionInit
  PROVE  ConnectionTypeOK /\ SenderInv /\ InOrder
<1> USE BoundAssumption DEF ConnectionInit
<1>1. SenderTypeOK
  <2>1. submitted \in Seq(Payload)
    OBVIOUS
  <2>2. drained \in Nat /\ handoff \in Nat \cup {-1} /\ base \in Nat
    OBVIOUS
  <2>3. pending \subseteq Nat /\ outstanding \subseteq Nat
    OBVIOUS
  <2>4. errored \subseteq Nat /\ acked \subseteq Nat /\ known \in BOOLEAN
    OBVIOUS
  <2> QED BY <2>1, <2>2, <2>3, <2>4 DEF SenderTypeOK
<1>2. SenderControlTypeOK
  <2>1. retries \in 0 .. MaxRetries + 1
    OBVIOUS
  <2> QED BY <2>1 DEF SenderControlTypeOK
<1>3. FlushTypeOK BY DEF FlushTypeOK
<1>4. NetTypeOK /\ PeerTypeOK BY DEF NetTypeOK, PeerTypeOK
<1>5. QueueOrder /\ WireContents /\ InFlightSent
  BY DEF QueueOrder, WireContents, InFlightSent
<1>6. NothingForgotten /\ FlushShape /\ InOrder
  BY DEF NothingForgotten, Lost, FlushShape, InOrder
<1> QED
  BY <1>1, <1>2, <1>3, <1>4, <1>5, <1>6 DEF ConnectionTypeOK, SenderInv

LEMMA SenderInvNext ==
  ASSUME SenderTypes, SenderInv, SharedStep, base' \in Nat, known' \in BOOLEAN
  PROVE  /\ SenderTypeOK' /\ SenderControlTypeOK' /\ FlushTypeOK'
         /\ dataNet' \subseteq Packets
         /\ SenderInv'
  BY SenderTypeNext, SenderControlTypeNext, FlushTypeNext, DataNetTypeNext,
     QueueOrderNext, WireContentsNext, InFlightSentNext,
     NothingForgottenNext, FlushShapeNext
     DEF SenderTypes, SenderInv
=============================================================================
