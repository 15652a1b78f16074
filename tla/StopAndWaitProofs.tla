--------------------------- MODULE StopAndWaitProofs ---------------------------
(***************************************************************************)
(* The safety properties of StopAndWait, from IndInv.                      *)
(*                                                                         *)
(* Each part of IndInv is about one direction: what node n sends and its   *)
(* peer p receives.  Most steps of either thread leave a direction as it   *)
(* is, but for packets that leave a socket; Quiet says so.  StepCases      *)
(* sorts the steps of both nodes by what they do to a direction, and each  *)
(* part of the invariant is preserved in each case.                        *)
(***************************************************************************)
EXTENDS StopAndWait, SequenceTheorems, TLAPS

LEMMA PeerFacts ==
  ASSUME NEW n \in Node
  PROVE  /\ Peer(n) \in Node /\ Peer(n) # n /\ Peer(Peer(n)) = n
         /\ \A k \in Node : k = n \/ k = Peer(n)
<1>1. PICK x, y \in Node : x # y /\ Node = {x, y}
  BY NodeAssumption
<1>2. \A k \in Node : Peer(k) \in Node /\ Peer(k) # k
  BY <1>1 DEF Peer
<1> QED
  BY <1>1, <1>2

-----------------------------------------------------------------------------
(* What a step does to the sockets.                                        *)

Steps(n) == Sendto(n) \/ Recvfrom(n) \/ Close(n) \/ Abort(n)

LEMMA PacketTypes ==
  ASSUME TypeOK, NEW n \in Node
  PROVE  Data(n) \in Packet /\ Ack(n) \in Packet
  BY DEF TypeOK, Data, Ack, Packet

\* Put() leaves the packets of a buffer where they are, and adds m behind them.
LEMMA PutFacts ==
  ASSUME TypeOK, NEW n \in Node, NEW m \in Packet, Put(n, m)
  PROVE  /\ socket' \in [Node -> Seq(Packet)]
         /\ socket'[n] = socket[n]
         /\ Len(socket[Peer(n)]) <= Len(socket'[Peer(n)])
         /\ \A i \in 1 .. Len(socket'[Peer(n)]) :
               socket'[Peer(n)][i] = IF i <= Len(socket[Peer(n)])
                                     THEN socket[Peer(n)][i] ELSE m
<1> DEFINE p == Peer(n)
<1>1. p \in Node /\ p # n
  BY PeerFacts
<1>2. PICK c \in {<<>>, <<m>>, <<m, m>>} : socket' = [socket EXCEPT ![p] = @ \o c]
  BY DEF Put
<1>3. c \in Seq(Packet) /\ \A i \in 1 .. Len(c) : c[i] = m
  <2>1. CASE c = <<>> BY <2>1
  <2>2. CASE c = <<m>> BY <2>2
  <2>3. CASE c = <<m, m>> BY <2>3
  <2> QED
    BY <2>1, <2>2, <2>3
<1>4. socket[p] \in Seq(Packet)
  BY <1>1 DEF TypeOK
<1>5. socket'[p] = socket[p] \o c /\ socket'[n] = socket[n]
  BY <1>1, <1>2 DEF TypeOK
<1>6. /\ socket[p] \o c \in Seq(Packet)
      /\ Len(socket[p] \o c) = Len(socket[p]) + Len(c)
      /\ \A i \in 1 .. Len(socket[p]) + Len(c) :
            (socket[p] \o c)[i] = IF i <= Len(socket[p]) THEN socket[p][i]
                                  ELSE c[i - Len(socket[p])]
  BY <1>3, <1>4, ConcatProperties
<1>7. Len(socket[p]) \in Nat /\ Len(c) \in Nat
  BY <1>3, <1>4, LenProperties
<1>8. socket' \in [Node -> Seq(Packet)]
  BY <1>2, <1>6 DEF TypeOK
<1> QED
  BY <1>3, <1>5, <1>6, <1>7, <1>8

\* Take() removes the first packet; the others move up.
LEMMA TakeFacts ==
  ASSUME TypeOK, NEW n \in Node, NEW m, Take(n, m)
  PROVE  /\ socket' \in [Node -> Seq(Packet)]
         /\ socket'[Peer(n)] = socket[Peer(n)]
         /\ Len(socket[n]) \in Nat \ {0} /\ m = socket[n][1] /\ m \in Packet
         /\ Len(socket'[n]) = Len(socket[n]) - 1
         /\ \A i \in 1 .. Len(socket'[n]) : socket'[n][i] = socket[n][i + 1]
<1>1. socket[n] \in Seq(Packet) /\ socket[n] # <<>>
  BY DEF TypeOK, Take
<1>2. socket'[n] = Tail(socket[n]) /\ socket'[Peer(n)] = socket[Peer(n)]
  BY PeerFacts DEF TypeOK, Take
<1>3. /\ Head(socket[n]) \in Packet /\ Tail(socket[n]) \in Seq(Packet)
      /\ Len(socket[n]) \in Nat \ {0}
  BY <1>1, HeadTailProperties, EmptySeq
<1>4. /\ Len(Tail(socket[n])) = Len(socket[n]) - 1
      /\ \A i \in 1 .. Len(Tail(socket[n])) : Tail(socket[n])[i] = socket[n][i + 1]
  BY <1>1, HeadTailProperties
<1>5. m = Head(socket[n]) /\ Head(socket[n]) = socket[n][1]
  BY <1>1 DEF Take
<1>6. socket' \in [Node -> Seq(Packet)]
  BY <1>3 DEF TypeOK, Take
<1> QED
  BY <1>2, <1>3, <1>4, <1>5, <1>6

-----------------------------------------------------------------------------
(* Types.                                                                  *)

LEMMA InitTypeOK == Init => TypeOK
  BY LimitAssumption DEF Init, TypeOK

LEMMA TypeOKStep ==
  ASSUME TypeOK, NEW n \in Node, Steps(n)
  PROVE  TypeOK'
<1>1. CASE SendCall(n)
  BY <1>1, LimitAssumption DEF SendCall, TypeOK, readVars
<1>2. CASE Transmit(n)
  <2>1. socket' \in [Node -> Seq(Packet)]
    BY <1>2, PutFacts, PacketTypes DEF Transmit
  <2> QED
    BY <1>2, <2>1 DEF Transmit, TypeOK, callVars, readVars
<1>3. CASE SendReturns(n)
  <2>1. socket' \in [Node -> Seq(Packet)]
    BY <1>3, TakeFacts DEF SendReturns
  <2>2. sendBit[n] \in 0 .. 1 /\ 1 - sendBit[n] \in 0 .. 1
    BY DEF TypeOK
  <2>3. sendBit' \in [Node -> 0 .. 1]
    BY <1>3, <2>2 DEF SendReturns, TypeOK
  <2>4. returned' \in [Node -> SUBSET Nat]
    BY <1>3 DEF SendReturns, TypeOK
  <2> QED
    BY <1>3, <2>1, <2>3, <2>4 DEF SendReturns, TypeOK, readVars
<1>4. CASE SendIgnores(n)
  <2>1. socket' \in [Node -> Seq(Packet)]
    BY <1>4, TakeFacts DEF SendIgnores
  <2> QED
    BY <1>4, <2>1 DEF SendIgnores, TypeOK, callVars, readVars
<1>5. CASE AttemptTimeout(n)
  <2>1. attempt' \in [Node -> 0 .. MaxRetries - 1]
    <3>1. AttemptsLeft(n) => attempt[n] + 1 \in 0 .. MaxRetries - 1
      BY LimitAssumption DEF AttemptsLeft, NextAttempt, TypeOK
    <3>2. CASE AttemptsLeft(n)
      BY <1>5, <3>1, <3>2 DEF AttemptTimeout, NextAttempt, TypeOK
    <3>3. CASE ~AttemptsLeft(n)
      BY <1>5, <3>3 DEF AttemptTimeout, TypeOK
    <3> QED
      BY <3>2, <3>3
  <2>2. raised' \in [Node -> SUBSET Nat]
    <3>1. raised[n] \cup {submitted[n]} \in SUBSET Nat
      BY DEF TypeOK
    <3>2. raised' \in {raised, [raised EXCEPT ![n] = @ \cup {submitted[n]}]}
      BY <1>5 DEF AttemptTimeout
    <3> QED
      BY <3>1, <3>2 DEF TypeOK
  <2> QED
    BY <1>5, <2>1, <2>2 DEF AttemptTimeout, TypeOK, readVars
<1>6. CASE RecvCall(n)
  BY <1>6 DEF RecvCall, TypeOK, callVars, readVars
<1>7. CASE RecvData(n)
  <2>1. PICK m \in Arrived(n) :
          /\ Take(n, m)
          /\ held' = [held EXCEPT ![n] = IF IsNew(n, m) THEN m.id ELSE 0]
          /\ recvBit' = [recvBit EXCEPT ![n] = IF IsNew(n, m) THEN 1 - @ ELSE @]
    BY <1>7 DEF RecvData
  <2>2. socket' \in [Node -> Seq(Packet)] /\ m.id \in Nat
    BY <2>1, TakeFacts DEF Packet
  <2>3. recvBit[n] \in 0 .. 1 /\ 1 - recvBit[n] \in 0 .. 1
    BY DEF TypeOK
  <2>4. recvBit' \in [Node -> 0 .. 1] /\ held' \in [Node -> Nat]
    BY <2>1, <2>2, <2>3 DEF TypeOK
  <2> QED
    BY <1>7, <2>2, <2>4 DEF RecvData, TypeOK, callVars
<1>8. CASE RecvIgnores(n)
  <2>1. socket' \in [Node -> Seq(Packet)]
    BY <1>8, TakeFacts DEF RecvIgnores
  <2> QED
    BY <1>8, <2>1 DEF RecvIgnores, TypeOK, callVars, readVars
<1>9. CASE SendAck(n)
  <2>1. socket' \in [Node -> Seq(Packet)]
    BY <1>9, PutFacts, PacketTypes DEF SendAck
  <2>2. got' \in [Node -> Seq(Nat)]
    BY <1>9 DEF SendAck, TypeOK
  <2> QED
    BY <1>9, <2>1, <2>2 DEF SendAck, TypeOK, callVars
<1>10. CASE RecvTimeout(n)
  BY <1>10 DEF RecvTimeout, TypeOK, callVars, readVars
<1>11. CASE Close(n)
  BY <1>11 DEF Close, TypeOK, callVars, readVars
<1>12. CASE Abort(n)
  BY <1>12 DEF Abort, TypeOK
<1> QED
  BY <1>1, <1>2, <1>3, <1>4, <1>5, <1>6, <1>7, <1>8, <1>9, <1>10, <1>11, <1>12
     DEF Steps, Sendto, Recvfrom

\* Every variable keeps its type, for any two nodes, any number of attempts, calls
\* and buffered packets.
THEOREM TypeCorrect == Spec => []TypeOK
<1>1. TypeOK /\ UNCHANGED vars => TypeOK'
  BY DEF TypeOK, vars, callVars, readVars
<1>2. TypeOK /\ [Next]_vars => TypeOK'
  BY <1>1, TypeOKStep DEF Next, Steps
<1> QED
  BY InitTypeOK, <1>2, PTL DEF Spec

-----------------------------------------------------------------------------
(* The steps, seen from one direction.                                     *)

\* The packets of one kind that k has buffered are the same, or all but the first.
KeepsData(k) ==
    \E d \in {0, 1} : \A i \in DataAt(k)' :
        i + d \in DataAt(k) /\ socket'[k][i] = socket[k][i + d]
KeepsAcks(k) ==
    \E d \in {0, 1} : \A i \in AcksAt(k)' :
        i + d \in AcksAt(k) /\ socket'[k][i] = socket[k][i + d]

SameSender(n) ==
    /\ sendBit'[n] = sendBit[n] /\ submitted'[n] = submitted[n]
    /\ returned'[n] = returned[n] /\ raised'[n] = raised[n]
    /\ Sending(n)' <=> Sending(n)
    /\ KeepsAcks(n)
SameReceiver(p) ==
    /\ recvBit'[p] = recvBit[p] /\ held'[p] = held[p] /\ got'[p] = got[p]
    /\ open'[p] => open[p]
    /\ pc[p] = "ack" => pc'[p] = "ack"
    /\ KeepsData(p)

\* sendto() ends with an exception.
Raised(n) ==
    /\ sendBit'[n] = sendBit[n] /\ submitted'[n] = submitted[n]
    /\ ~Sending(n)' /\ raised'[n] # {}
\* recvfrom() loses the datagram it holds.
Dropped(p) ==
    /\ recvBit'[p] = recvBit[p] /\ held'[p] = 0 /\ got'[p] = got[p]
    /\ ~open'[p]
    /\ KeepsData(p)

DirectionStep(n, p) ==
    \/ SameSender(n) /\ SameReceiver(p)
    \/ Raised(n) /\ SameReceiver(p)
    \/ SameSender(n) /\ Dropped(p)
    \/ SendCall(n) \/ Transmit(n) \/ SendReturns(n)
    \/ RecvData(p) \/ SendAck(p)

LEMMA KeepsSame ==
  ASSUME TypeOK, NEW k \in Node, socket'[k] = socket[k]
  PROVE  KeepsData(k) /\ KeepsAcks(k)
<1>1. \A i \in DataAt(k)' : i + 0 \in DataAt(k) /\ socket'[k][i] = socket[k][i + 0]
  <2>1. \A i \in DOMAIN socket[k] : i + 0 = i
    BY LenProperties DEF TypeOK
  <2> QED
    BY <2>1 DEF DataAt
<1>2. \A i \in AcksAt(k)' : i + 0 \in AcksAt(k) /\ socket'[k][i] = socket[k][i + 0]
  <2>1. \A i \in DOMAIN socket[k] : i + 0 = i
    BY LenProperties DEF TypeOK
  <2> QED
    BY <2>1 DEF AcksAt
<1> QED
  BY <1>1, <1>2 DEF KeepsData, KeepsAcks

LEMMA KeepsTaken ==
  ASSUME TypeOK, NEW k \in Node, NEW m, Take(k, m)
  PROVE  KeepsData(k) /\ KeepsAcks(k)
<1>1. /\ socket[k] \in Seq(Packet) /\ socket'[k] \in Seq(Packet)
      /\ Len(socket'[k]) = Len(socket[k]) - 1
      /\ \A i \in 1 .. Len(socket'[k]) : socket'[k][i] = socket[k][i + 1]
  BY TakeFacts DEF TypeOK
<1>2. /\ DOMAIN socket[k] = 1 .. Len(socket[k]) /\ Len(socket[k]) \in Nat
      /\ DOMAIN socket'[k] = 1 .. Len(socket'[k])
  BY <1>1, LenProperties
<1>3. \A i \in DataAt(k)' : i + 1 \in DataAt(k) /\ socket'[k][i] = socket[k][i + 1]
  BY <1>1, <1>2 DEF DataAt
<1>4. \A i \in AcksAt(k)' : i + 1 \in AcksAt(k) /\ socket'[k][i] = socket[k][i + 1]
  BY <1>1, <1>2 DEF AcksAt
<1> QED
  BY <1>3, <1>4 DEF KeepsData, KeepsAcks

LEMMA KeepsPut ==
  ASSUME TypeOK, NEW k \in Node, NEW m \in Packet, Put(k, m)
  PROVE  /\ m.flags = "ACK" => KeepsData(Peer(k))
         /\ m.flags = "DATA" => KeepsAcks(Peer(k))
<1> DEFINE p == Peer(k)
<1>1. /\ socket[p] \in Seq(Packet) /\ socket'[p] \in Seq(Packet)
      /\ Len(socket[p]) <= Len(socket'[p])
      /\ \A i \in 1 .. Len(socket'[p]) :
            socket'[p][i] = IF i <= Len(socket[p]) THEN socket[p][i] ELSE m
  BY PutFacts, PeerFacts DEF TypeOK
<1>2. /\ DOMAIN socket[p] = 1 .. Len(socket[p]) /\ Len(socket[p]) \in Nat
      /\ DOMAIN socket'[p] = 1 .. Len(socket'[p]) /\ Len(socket'[p]) \in Nat
  BY <1>1, LenProperties
<1> HIDE DEF p
<1>3. ASSUME m.flags = "ACK" PROVE KeepsData(p)
  <2>1. \A i \in DataAt(p)' : i + 0 \in DataAt(p) /\ socket'[p][i] = socket[p][i + 0]
    BY <1>1, <1>2, <1>3 DEF DataAt
  <2> QED
    BY <2>1 DEF KeepsData
<1>4. ASSUME m.flags = "DATA" PROVE KeepsAcks(p)
  <2>1. \A i \in AcksAt(p)' : i + 0 \in AcksAt(p) /\ socket'[p][i] = socket[p][i + 0]
    BY <1>1, <1>2, <1>4 DEF AcksAt
  <2> QED
    BY <2>1 DEF KeepsAcks
<1> QED
  BY <1>3, <1>4 DEF p

\* A step of the thread that sends.
LEMMA SenderSteps ==
  ASSUME TypeOK, NEW n \in Node, Steps(n)
  PROVE  DirectionStep(n, Peer(n))
<1> DEFINE p == Peer(n)
<1>1. p \in Node /\ p # n /\ Peer(p) = n
  BY PeerFacts
<1> HIDE DEF p
<1>2. ASSUME UNCHANGED <<recvBit[p], held[p], got[p], open[p], pc[p]>>, KeepsData(p)
      PROVE  SameReceiver(p)
  BY <1>2 DEF SameReceiver
<1>3. ASSUME UNCHANGED <<sendBit[n], submitted[n], returned[n], raised[n]>>,
             Sending(n)' <=> Sending(n), KeepsAcks(n)
      PROVE  SameSender(n)
  BY <1>3 DEF SameSender
<1> USE DEF callVars, readVars
<1>4. CASE SendIgnores(n)
  <2>1. KeepsAcks(n) /\ socket'[p] = socket[p]
    BY <1>4, KeepsTaken, TakeFacts DEF SendIgnores, p
  <2>2. SameReceiver(p)
    BY <1>1, <1>2, <1>4, <2>1, KeepsSame DEF SendIgnores
  <2>3. SameSender(n)
    BY <1>3, <1>4, <2>1 DEF SendIgnores, Sending
  <2> QED
    BY <2>2, <2>3 DEF DirectionStep, p
<1>5. CASE AttemptTimeout(n)
  <2>1. SameReceiver(p)
    BY <1>1, <1>2, <1>5, KeepsSame DEF AttemptTimeout, TypeOK
  <2>2. CASE AttemptsLeft(n)
    <3>1. SameSender(n)
      BY <1>3, <1>5, <2>2, KeepsSame DEF AttemptTimeout, Sending, TypeOK
    <3> QED
      BY <2>1, <3>1 DEF DirectionStep, p
  <2>3. CASE ~AttemptsLeft(n)
    <3>1. /\ UNCHANGED <<sendBit, submitted>> /\ pc' = [pc EXCEPT ![n] = "idle"]
          /\ raised' = [raised EXCEPT ![n] = @ \cup {submitted[n]}]
      BY <1>5, <2>3 DEF AttemptTimeout
    <3>2. DOMAIN pc = Node /\ DOMAIN raised = Node
      BY DEF TypeOK
    <3>3. pc'[n] = "idle" /\ raised'[n] # {}
      BY <3>1, <3>2
    <3>4. Raised(n)
      BY <3>1, <3>3 DEF Raised, Sending
    <3> QED
      BY <2>1, <3>4 DEF DirectionStep, p
  <2> QED
    BY <2>2, <2>3
<1>6. CASE RecvCall(n) \/ RecvTimeout(n)
  <2>1. SameReceiver(p)
    BY <1>1, <1>2, <1>6, KeepsSame DEF RecvCall, RecvTimeout, TypeOK
  <2>2. SameSender(n)
    BY <1>3, <1>6, KeepsSame DEF RecvCall, RecvTimeout, Sending, TypeOK
  <2> QED
    BY <2>1, <2>2 DEF DirectionStep, p
<1>7. CASE RecvData(n) \/ RecvIgnores(n)
  <2>1. KeepsAcks(n) /\ socket'[p] = socket[p]
    BY <1>7, KeepsTaken, TakeFacts DEF RecvData, RecvIgnores, p
  <2>2. SameReceiver(p)
    BY <1>1, <1>2, <1>7, <2>1, KeepsSame DEF RecvData, RecvIgnores, TypeOK
  <2>3. SameSender(n)
    BY <1>3, <1>7, <2>1 DEF RecvData, RecvIgnores, Sending, TypeOK
  <2> QED
    BY <2>2, <2>3 DEF DirectionStep, p
<1>8. CASE SendAck(n)
  <2>1. KeepsData(p)
    BY <1>8, KeepsPut, PacketTypes DEF SendAck, Ack, p
  <2>2. socket'[n] = socket[n]
    BY <1>8, PutFacts, PacketTypes DEF SendAck
  <2>3. SameReceiver(p)
    BY <1>1, <1>2, <1>8, <2>1 DEF SendAck, TypeOK
  <2>4. SameSender(n)
    BY <1>3, <1>8, <2>2, KeepsSame DEF SendAck, Sending, TypeOK
  <2> QED
    BY <2>3, <2>4 DEF DirectionStep, p
<1>9. CASE Close(n)
  <2>1. SameReceiver(p)
    BY <1>1, <1>2, <1>9, KeepsSame DEF Close, TypeOK
  <2>2. SameSender(n)
    BY <1>3, <1>9, KeepsSame DEF Close, Sending
  <2> QED
    BY <2>1, <2>2 DEF DirectionStep, p
<1>10. CASE Abort(n)
  <2>1. SameReceiver(p)
    BY <1>1, <1>2, <1>10, KeepsSame DEF Abort, TypeOK
  <2>2. CASE Sending(n)
    <3>1. Raised(n)
      BY <1>10, <2>2 DEF Abort, Raised, Sending, TypeOK
    <3> QED
      BY <2>1, <3>1 DEF DirectionStep, p
  <2>3. CASE ~Sending(n)
    <3>1. SameSender(n)
      BY <1>3, <1>10, <2>3, KeepsSame DEF Abort, Sending, TypeOK
    <3> QED
      BY <2>1, <3>1 DEF DirectionStep, p
  <2> QED
    BY <2>2, <2>3
<1> QED
  BY <1>4, <1>5, <1>6, <1>7, <1>8, <1>9, <1>10
     DEF Steps, Sendto, Recvfrom, DirectionStep

\* A step of the thread that receives.
LEMMA ReceiverSteps ==
  ASSUME TypeOK, NEW n \in Node, NEW p, p = Peer(n), Steps(p)
  PROVE  DirectionStep(n, p)
<1>1. p \in Node /\ p # n /\ Peer(p) = n
  BY PeerFacts
<1>2. ASSUME UNCHANGED <<sendBit[n], submitted[n], returned[n], raised[n], pc[n]>>,
             KeepsAcks(n)
      PROVE  SameSender(n)
  BY <1>2 DEF SameSender, Sending
<1> USE DEF callVars, readVars
<1>3. CASE SendCall(p) \/ AttemptTimeout(p) \/ RecvCall(p) \/ RecvTimeout(p) \/ Close(p)
  <2>1. SameSender(n)
    BY <1>1, <1>2, <1>3, KeepsSame
       DEF SendCall, AttemptTimeout, RecvCall, RecvTimeout, Close, TypeOK
  <2>2. SameReceiver(p)
    BY <1>1, <1>3, KeepsSame
       DEF SendCall, AttemptTimeout, RecvCall, RecvTimeout, Close, SameReceiver, TypeOK
  <2> QED
    BY <2>1, <2>2 DEF DirectionStep
<1>4. CASE Transmit(p)
  <2>1. KeepsAcks(n) /\ socket'[p] = socket[p]
    BY <1>1, <1>4, KeepsPut, PutFacts, PacketTypes DEF Transmit, Data
  <2>2. SameSender(n)
    BY <1>1, <1>2, <1>4, <2>1 DEF Transmit, TypeOK
  <2>3. SameReceiver(p)
    BY <1>1, <1>4, <2>1, KeepsSame DEF Transmit, SameReceiver
  <2> QED
    BY <2>2, <2>3 DEF DirectionStep
<1>5. CASE SendReturns(p) \/ SendIgnores(p) \/ RecvIgnores(p)
  <2>1. KeepsData(p) /\ socket'[n] = socket[n]
    BY <1>1, <1>5, KeepsTaken, TakeFacts DEF SendReturns, SendIgnores, RecvIgnores
  <2>2. SameSender(n)
    BY <1>1, <1>2, <1>5, <2>1, KeepsSame DEF SendReturns, SendIgnores, RecvIgnores, TypeOK
  <2>3. SameReceiver(p)
    BY <1>1, <1>5, <2>1 DEF SendReturns, SendIgnores, RecvIgnores, SameReceiver
  <2> QED
    BY <2>2, <2>3 DEF DirectionStep
<1>6. CASE Abort(p)
  <2>1. SameSender(n)
    BY <1>1, <1>2, <1>6, KeepsSame DEF Abort, TypeOK
  <2>2. Dropped(p)
    BY <1>1, <1>6, KeepsSame DEF Abort, Dropped, TypeOK
  <2> QED
    BY <2>1, <2>2 DEF DirectionStep
<1> QED
  BY <1>3, <1>4, <1>5, <1>6 DEF Steps, Sendto, Recvfrom, DirectionStep

LEMMA StepCases ==
  ASSUME TypeOK, Next, NEW n \in Node
  PROVE  DirectionStep(n, Peer(n))
<1>1. PICK k \in Node : Steps(k)
  BY DEF Next, Steps
<1> QED
  BY <1>1, PeerFacts, SenderSteps, ReceiverSteps

-----------------------------------------------------------------------------
(* The parts of the invariant, for what n sends and p receives.            *)

LEMMA DirectionTypes ==
  ASSUME TypeOK, NEW n \in Node, NEW p, p = Peer(n)
  PROVE  /\ p \in Node /\ p # n /\ Peer(p) = n
         /\ sendBit[n] \in 0 .. 1 /\ recvBit[p] \in 0 .. 1
         /\ submitted[n] \in Nat /\ held[p] \in Nat
         /\ got[p] \in Seq(Nat) /\ Len(got[p]) \in Nat
         /\ DOMAIN got[p] = 1 .. Len(got[p])
         /\ \A i \in DOMAIN got[p] : got[p][i] \in Nat
         /\ \A k \in {n, p} :
               /\ Len(socket[k]) \in Nat /\ DOMAIN socket[k] = 1 .. Len(socket[k])
               /\ \A i \in DOMAIN socket[k] :
                     socket[k][i].id \in Nat /\ socket[k][i].bit \in 0 .. 1
<1>1. p \in Node /\ p # n /\ Peer(p) = n
  BY PeerFacts
<1>2. got[p] \in Seq(Nat)
  BY <1>1 DEF TypeOK
<1>3. ASSUME NEW k \in {n, p}
      PROVE  /\ Len(socket[k]) \in Nat /\ DOMAIN socket[k] = 1 .. Len(socket[k])
             /\ \A i \in DOMAIN socket[k] :
                   socket[k][i].id \in Nat /\ socket[k][i].bit \in 0 .. 1
  <2>1. socket[k] \in Seq(Packet)
    BY <1>1 DEF TypeOK
  <2>2. \A i \in 1 .. Len(socket[k]) : socket[k][i] \in Packet
    BY <2>1, ElementOfSeq
  <2> QED
    BY <2>1, <2>2, LenProperties DEF Packet
<1> QED
  BY <1>1, <1>2, <1>3, LenProperties, ElementOfSeq DEF TypeOK

LEMMA Positions ==
  ASSUME TypeOK', NEW k \in Node
  PROVE  DataAt(k)' \subseteq Nat /\ AcksAt(k)' \subseteq Nat
<1>1. socket'[k] \in Seq(Packet)
  BY DEF TypeOK
<1>2. DOMAIN socket'[k] = 1 .. Len(socket'[k]) /\ Len(socket'[k]) \in Nat
  BY <1>1, LenProperties
<1> QED
  BY <1>2 DEF DataAt, AcksAt

\* The steps that do more to a direction, each by what it changes.

LEMMA SendCallFacts ==
  ASSUME TypeOK, NEW n \in Node, NEW p, p = Peer(n), SendCall(n)
  PROVE  /\ submitted'[n] = submitted[n] + 1
         /\ UNCHANGED <<sendBit[n], returned[n], raised[n]>>
         /\ ~Sending(n) /\ Sending(n)'
         /\ KeepsAcks(n) /\ SameReceiver(p)
<1>1. p \in Node /\ p # n
  BY PeerFacts
<1> QED
  BY <1>1, KeepsSame DEF SendCall, Sending, SameReceiver, readVars, TypeOK

LEMMA TransmitFacts ==
  ASSUME TypeOK, NEW n \in Node, NEW p, p = Peer(n), Transmit(n)
  PROVE  /\ UNCHANGED <<sendBit[n], submitted[n], returned[n], raised[n]>>
         /\ Sending(n) /\ Sending(n)' /\ KeepsAcks(n)
         /\ UNCHANGED <<recvBit[p], held[p], got[p], open[p], pc[p]>>
         /\ \A i \in DataAt(p)' :
               \/ i \in DataAt(p) /\ socket'[p][i] = socket[p][i]
               \/ i > Len(socket[p]) /\ socket'[p][i] = Data(n)
<1>1. p \in Node /\ p # n
  BY PeerFacts
<1>2. /\ Len(socket[p]) <= Len(socket'[p]) /\ socket'[p] \in Seq(Packet)
      /\ \A i \in 1 .. Len(socket'[p]) :
            socket'[p][i] = IF i <= Len(socket[p]) THEN socket[p][i] ELSE Data(n)
      /\ socket'[n] = socket[n]
  BY <1>1, PutFacts, PacketTypes DEF Transmit
<1>3. /\ DOMAIN socket'[p] = 1 .. Len(socket'[p]) /\ Len(socket'[p]) \in Nat
      /\ DOMAIN socket[p] = 1 .. Len(socket[p]) /\ Len(socket[p]) \in Nat
  BY <1>2, LenProperties, DirectionTypes
<1>4. \A i \in DataAt(p)' :
         \/ i \in DataAt(p) /\ socket'[p][i] = socket[p][i]
         \/ i > Len(socket[p]) /\ socket'[p][i] = Data(n)
  BY <1>2, <1>3 DEF DataAt
<1>5. KeepsAcks(n)
  BY <1>2, KeepsSame
<1> QED
  BY <1>1, <1>4, <1>5 DEF Transmit, Sending, callVars, readVars, TypeOK

LEMMA SendReturnsFacts ==
  ASSUME TypeOK, NEW n \in Node, NEW p, p = Peer(n), SendReturns(n)
  PROVE  /\ sendBit'[n] = 1 - sendBit[n]
         /\ returned'[n] = returned[n] \cup {submitted[n]}
         /\ UNCHANGED <<submitted[n], raised[n]>>
         /\ Sending(n) /\ ~Sending(n)'
         /\ SameReceiver(p)
         /\ 1 \in AcksAt(n) /\ socket[n][1].bit = 1 - sendBit[n]
         /\ \A i \in AcksAt(n)' :
               i + 1 \in AcksAt(n) /\ socket'[n][i] = socket[n][i + 1]
<1>1. p \in Node /\ p # n
  BY PeerFacts
<1>2. PICK m \in Arrived(n) : Take(n, m) /\ Matches(n, m)
  BY DEF SendReturns
<1>3. /\ socket'[n] \in Seq(Packet) /\ socket'[p] = socket[p]
      /\ Len(socket[n]) \in Nat \ {0} /\ m = socket[n][1]
      /\ Len(socket'[n]) = Len(socket[n]) - 1
      /\ \A i \in 1 .. Len(socket'[n]) : socket'[n][i] = socket[n][i + 1]
  BY <1>2, TakeFacts
<1>4. /\ DOMAIN socket'[n] = 1 .. Len(socket'[n])
      /\ DOMAIN socket[n] = 1 .. Len(socket[n])
  BY <1>3, LenProperties, DirectionTypes
<1>5. 1 \in AcksAt(n) /\ socket[n][1].bit = 1 - sendBit[n]
  BY <1>2, <1>3, <1>4 DEF Matches, AcksAt
<1>6. \A i \in AcksAt(n)' : i + 1 \in AcksAt(n) /\ socket'[n][i] = socket[n][i + 1]
  BY <1>3, <1>4 DEF AcksAt
<1>7. SameReceiver(p)
  BY <1>1, <1>3, KeepsSame DEF SendReturns, SameReceiver, readVars, TypeOK
<1> QED
  BY <1>5, <1>6, <1>7 DEF SendReturns, Sending, TypeOK

LEMMA RecvDataFacts ==
  ASSUME TypeOK, NEW n \in Node, NEW p, p = Peer(n), RecvData(p)
  PROVE  /\ SameSender(n)
         /\ UNCHANGED <<got[p], open[p]>> /\ pc[p] = "recv" /\ pc'[p] = "ack"
         /\ 1 \in DataAt(p)
         /\ IF socket[p][1].bit = recvBit[p]
            THEN held'[p] = socket[p][1].id /\ recvBit'[p] = 1 - recvBit[p]
            ELSE held'[p] = 0 /\ recvBit'[p] = recvBit[p]
         /\ \A i \in DataAt(p)' :
               i + 1 \in DataAt(p) /\ socket'[p][i] = socket[p][i + 1]
<1>1. p \in Node /\ p # n /\ Peer(p) = n
  BY PeerFacts
<1>2. PICK m \in Arrived(p) :
         /\ Take(p, m) /\ m.flags = "DATA"
         /\ held' = [held EXCEPT ![p] = IF IsNew(p, m) THEN m.id ELSE 0]
         /\ recvBit' = [recvBit EXCEPT ![p] = IF IsNew(p, m) THEN 1 - @ ELSE @]
  BY DEF RecvData
<1>3. /\ socket'[p] \in Seq(Packet) /\ socket'[n] = socket[n]
      /\ Len(socket[p]) \in Nat \ {0} /\ m = socket[p][1]
      /\ Len(socket'[p]) = Len(socket[p]) - 1
      /\ \A i \in 1 .. Len(socket'[p]) : socket'[p][i] = socket[p][i + 1]
  BY <1>1, <1>2, TakeFacts
<1>4. /\ DOMAIN socket'[p] = 1 .. Len(socket'[p])
      /\ DOMAIN socket[p] = 1 .. Len(socket[p])
  BY <1>3, LenProperties, DirectionTypes
<1>5. 1 \in DataAt(p)
  BY <1>2, <1>3, <1>4 DEF DataAt
<1>6. \A i \in DataAt(p)' : i + 1 \in DataAt(p) /\ socket'[p][i] = socket[p][i + 1]
  BY <1>3, <1>4 DEF DataAt
<1>7. SameSender(n)
  BY <1>1, <1>3, KeepsSame DEF RecvData, SameSender, Sending, callVars, TypeOK
<1>8. IF socket[p][1].bit = recvBit[p]
      THEN held'[p] = socket[p][1].id /\ recvBit'[p] = 1 - recvBit[p]
      ELSE held'[p] = 0 /\ recvBit'[p] = recvBit[p]
  BY <1>1, <1>2, <1>3 DEF IsNew, TypeOK
<1> QED
  BY <1>1, <1>5, <1>6, <1>7, <1>8 DEF RecvData, TypeOK

LEMMA SendAckFacts ==
  ASSUME TypeOK, NEW n \in Node, NEW p, p = Peer(n), SendAck(p)
  PROVE  /\ UNCHANGED <<sendBit[n], submitted[n], returned[n], raised[n], pc[n]>>
         /\ UNCHANGED <<recvBit[p], open[p]>> /\ open[p]
         /\ held'[p] = 0
         /\ got'[p] = IF held[p] # 0 THEN Append(got[p], held[p]) ELSE got[p]
         /\ KeepsData(p)
         /\ \A i \in AcksAt(n)' :
               \/ i \in AcksAt(n) /\ socket'[n][i] = socket[n][i]
               \/ i > Len(socket[n]) /\ socket'[n][i].bit = recvBit[p]
<1>1. p \in Node /\ p # n /\ Peer(p) = n
  BY PeerFacts
<1>2. /\ Len(socket[n]) <= Len(socket'[n]) /\ socket'[n] \in Seq(Packet)
      /\ \A i \in 1 .. Len(socket'[n]) :
            socket'[n][i] = IF i <= Len(socket[n]) THEN socket[n][i] ELSE Ack(p)
      /\ socket'[p] = socket[p]
  BY <1>1, PutFacts, PacketTypes DEF SendAck
<1>3. /\ DOMAIN socket'[n] = 1 .. Len(socket'[n]) /\ Len(socket'[n]) \in Nat
      /\ DOMAIN socket[n] = 1 .. Len(socket[n]) /\ Len(socket[n]) \in Nat
  BY <1>2, LenProperties, DirectionTypes
<1>4. \A i \in AcksAt(n)' :
         \/ i \in AcksAt(n) /\ socket'[n][i] = socket[n][i]
         \/ i > Len(socket[n]) /\ socket'[n][i].bit = recvBit[p]
  BY <1>2, <1>3 DEF AcksAt, Ack
<1>5. KeepsData(p)
  BY <1>1, <1>2, KeepsSame
<1> QED
  BY <1>1, <1>4, <1>5 DEF SendAck, callVars, TypeOK

LEMMA DataOrderNext ==
  ASSUME TypeOK, TypeOK', NEW n \in Node, NEW p, p = Peer(n),
         Sending(n) => 1 <= submitted[n], DataOrder(n), DirectionStep(n, p)
  PROVE  DataOrder(n)'
<1> USE DirectionTypes
<1>1. ASSUME KeepsData(p), submitted'[n] \in {submitted[n], submitted[n] + 1},
             Sending(n)' =>
                \/ submitted'[n] = submitted[n] + 1
                \/ Sending(n) /\ submitted'[n] = submitted[n] /\ sendBit'[n] = sendBit[n]
      PROVE  DataOrder(n)'
  <2>1. PICK d \in {0, 1} : \A i \in DataAt(p)' :
               i + d \in DataAt(p) /\ socket'[p][i] = socket[p][i + d]
    BY <1>1 DEF KeepsData
  <2>2. SUFFICES ASSUME NEW i \in DataAt(p)', NEW j \in DataAt(p)'
                 PROVE  LET k == socket'[p][i]
                            m == socket'[p][j]
                        IN  /\ 1 <= m.id /\ m.id <= submitted'[n]
                            /\ Sending(n)' /\ m.id = submitted'[n] => m.bit = sendBit'[n]
                            /\ i <= j => k.id <= m.id
                            /\ k.id = m.id => k.bit = m.bit
    BY DEF DataOrder
  <2>3. i + d \in DataAt(p) /\ j + d \in DataAt(p) /\ (i <= j => i + d <= j + d)
    BY <2>1, Positions
  <2>4. socket'[p][i] = socket[p][i + d] /\ socket'[p][j] = socket[p][j + d]
    BY <2>1
  <2>5. socket[p][i + d].id \in Nat /\ socket[p][j + d].id \in Nat
    BY <2>3 DEF DataAt
  <2> QED
    BY <1>1, <2>3, <2>4, <2>5 DEF DataOrder
<1>2. CASE Transmit(n)
  <2>1. Data(n).id = submitted[n] /\ Data(n).bit = sendBit[n]
    BY DEF Data
  <2>2. SUFFICES ASSUME NEW i \in DataAt(p)', NEW j \in DataAt(p)'
                 PROVE  LET k == socket'[p][i]
                            m == socket'[p][j]
                        IN  /\ 1 <= m.id /\ m.id <= submitted'[n]
                            /\ Sending(n)' /\ m.id = submitted'[n] => m.bit = sendBit'[n]
                            /\ i <= j => k.id <= m.id
                            /\ k.id = m.id => k.bit = m.bit
    BY DEF DataOrder
  <2>3. \A x \in DataAt(p) : x <= Len(socket[p]) /\ x \in Nat /\ socket[p][x].id \in Nat
    BY DEF DataAt
  <2>4. i \in Nat /\ j \in Nat /\ Len(socket[p]) \in Nat
    BY Positions
  <2>5. \A x \in DataAt(p)' :
           \/ x \in DataAt(p) /\ socket'[p][x] = socket[p][x]
           \/ x > Len(socket[p]) /\ socket'[p][x] = Data(n)
    BY <1>2, TransmitFacts
  <2>6. /\ submitted'[n] = submitted[n] /\ submitted[n] \in Nat
        /\ sendBit'[n] = sendBit[n] /\ Sending(n)
    BY <1>2, TransmitFacts
  <2>7. \A x, y \in DataAt(p) :
           /\ 1 <= socket[p][y].id /\ socket[p][y].id <= submitted[n]
           /\ socket[p][y].id = submitted[n] => socket[p][y].bit = sendBit[n]
           /\ x <= y => socket[p][x].id <= socket[p][y].id
           /\ socket[p][x].id = socket[p][y].id => socket[p][x].bit = socket[p][y].bit
    BY <2>6 DEF DataOrder
  <2>8. CASE i \in DataAt(p) /\ socket'[p][i] = socket[p][i]
    <3>1. CASE j \in DataAt(p) /\ socket'[p][j] = socket[p][j]
      BY <2>6, <2>7, <2>8, <3>1
    <3>2. CASE socket'[p][j] = Data(n)
      BY <2>1, <2>6, <2>7, <2>8, <3>2
    <3> QED
      BY <2>5, <3>1, <3>2
  <2>9. CASE i > Len(socket[p]) /\ socket'[p][i] = Data(n)
    <3>1. CASE j \in DataAt(p) /\ socket'[p][j] = socket[p][j]
      BY <2>1, <2>3, <2>4, <2>6, <2>7, <2>9, <3>1
    <3>2. CASE socket'[p][j] = Data(n)
      BY <2>1, <2>6, <2>9, <3>2
    <3> QED
      BY <2>5, <3>1, <3>2
  <2> QED
    BY <2>5, <2>8, <2>9
<1>3. CASE SendCall(n)
  BY <1>1, <1>3, SendCallFacts DEF SameReceiver
<1>4. CASE SendReturns(n)
  BY <1>1, <1>4, SendReturnsFacts DEF SameReceiver
<1>5. CASE RecvData(p)
  <2>1. KeepsData(p)
    BY <1>5, RecvDataFacts DEF KeepsData
  <2> QED
    BY <1>1, <1>5, <2>1, RecvDataFacts DEF SameSender
<1>6. CASE SendAck(p)
  BY <1>1, <1>6, SendAckFacts DEF Sending
<1> QED
  BY <1>1, <1>2, <1>3, <1>4, <1>5, <1>6
     DEF DirectionStep, SameSender, SameReceiver, Raised, Dropped

LEMMA HeldIsNextNext ==
  ASSUME TypeOK, TypeOK', NEW n \in Node, NEW p, p = Peer(n),
         HeldIsNext(p), AcceptedOnce(n), DirectionStep(n, p)
  PROVE  HeldIsNext(p)'
<1> USE DirectionTypes
<1>1. ASSUME held'[p] \in {held[p], 0}, got'[p] = got[p], pc[p] = "ack" => pc'[p] = "ack" \/ held'[p] = 0
      PROVE  HeldIsNext(p)'
  BY <1>1 DEF HeldIsNext, Delivered
<1>2. CASE RecvData(p)
  <2>1. ASSUME NEW x \in Delivered(p), socket[p][1].bit = recvBit[p]
        PROVE  x < socket[p][1].id
    <3>1. x \in AcceptedBy(p)
      BY DEF AcceptedBy
    <3>2. 1 \in DataAt(p) /\ socket[p][1].id \in Nat /\ x \in Nat
      BY <1>2, RecvDataFacts DEF DataAt, Delivered
    <3>3. x <= socket[p][1].id /\ x # socket[p][1].id
      BY <2>1, <3>1, <3>2 DEF AcceptedOnce
    <3> QED
      BY <3>2, <3>3
  <2>2. /\ got'[p] = got[p] /\ pc[p] = "recv" /\ pc'[p] = "ack"
        /\ IF socket[p][1].bit = recvBit[p] THEN held'[p] = socket[p][1].id
                                             ELSE held'[p] = 0
    BY <1>2, RecvDataFacts
  <2>3. Delivered(p)' = Delivered(p)
    BY <2>2 DEF Delivered
  <2>4. held'[p] # 0 => \A x \in Delivered(p)' : x < held'[p]
    BY <2>1, <2>2, <2>3
  <2> QED
    BY <2>2, <2>4 DEF HeldIsNext
<1>3. CASE SendAck(p)
  <2>1. CASE held[p] = 0
    BY <1>1, <1>3, <2>1, SendAckFacts
  <2>2. CASE held[p] # 0
    <3>1. /\ Len(got'[p]) = Len(got[p]) + 1 /\ DOMAIN got'[p] = 1 .. Len(got[p]) + 1
          /\ \A i \in 1 .. Len(got[p]) : got'[p][i] = got[p][i]
          /\ got'[p][Len(got[p]) + 1] = held[p]
      <4>1. got'[p] = Append(got[p], held[p])
        BY <1>3, <2>2, SendAckFacts
      <4>2. got[p] \in Seq(Nat) /\ held[p] \in Nat
        OBVIOUS
      <4> QED
        BY <4>1, <4>2, AppendProperties, LenProperties
    <3>2. \A i \in DOMAIN got[p] : got[p][i] < held[p]
      BY <2>2 DEF HeldIsNext, Delivered
    <3>3. ASSUME NEW i \in DOMAIN got'[p], NEW j \in DOMAIN got'[p], i < j
          PROVE  got'[p][i] < got'[p][j]
      <4>1. i \in DOMAIN got[p]
        BY <3>1, <3>3
      <4>2. CASE j = Len(got[p]) + 1
        BY <3>1, <3>2, <4>1, <4>2
      <4>3. CASE j \in DOMAIN got[p]
        BY <3>1, <3>3, <4>1, <4>3 DEF HeldIsNext
      <4> QED
        BY <3>1, <4>2, <4>3
    <3> QED
      BY <1>3, <3>3, SendAckFacts DEF HeldIsNext
  <2> QED
    BY <2>1, <2>2
<1>4. CASE Transmit(n)
  BY <1>1, <1>4, TransmitFacts
<1>5. CASE SendCall(n) \/ SendReturns(n)
  BY <1>1, <1>5, SendCallFacts, SendReturnsFacts DEF SameReceiver
<1> QED
  BY <1>1, <1>2, <1>3, <1>4, <1>5 DEF DirectionStep, SameReceiver, Dropped

\* recvfrom() appends the datagram it held to what it has returned.
LEMMA SendAckReturns ==
  ASSUME TypeOK, NEW n \in Node, NEW p, p = Peer(n), SendAck(p)
  PROVE  /\ got'[p] \in Seq(Nat)
         /\ Len(got'[p]) = AcceptedCount(p) /\ AcceptedCount(p)' = AcceptedCount(p)
         /\ DOMAIN got'[p] = 1 .. AcceptedCount(p)
         /\ \A i \in DOMAIN got[p] : i \in DOMAIN got'[p] /\ got'[p][i] = got[p][i]
         /\ \A i \in DOMAIN got'[p] :
               \/ i \in DOMAIN got[p] /\ got'[p][i] = got[p][i]
               \/ held[p] # 0 /\ i = Len(got[p]) + 1 /\ got'[p][i] = held[p]
<1>1. got[p] \in Seq(Nat) /\ held[p] \in Nat /\ held'[p] = 0
  BY SendAckFacts, DirectionTypes
<1>2. CASE held[p] = 0
  <2>1. got'[p] = got[p]
    BY <1>2, SendAckFacts
  <2> QED
    BY <1>1, <1>2, <2>1, LenProperties DEF AcceptedCount
<1>3. CASE held[p] # 0
  <2>1. got'[p] = Append(got[p], held[p])
    BY <1>3, SendAckFacts
  <2>2. /\ got'[p] \in Seq(Nat) /\ Len(got'[p]) = Len(got[p]) + 1
        /\ \A i \in 1 .. Len(got[p]) : got'[p][i] = got[p][i]
        /\ got'[p][Len(got[p]) + 1] = held[p]
    BY <1>1, <2>1, AppendProperties
  <2>3. /\ DOMAIN got[p] = 1 .. Len(got[p]) /\ Len(got[p]) \in Nat
        /\ DOMAIN got'[p] = 1 .. Len(got[p]) + 1
    BY <1>1, <2>2, LenProperties
  <2>4. AcceptedCount(p) = Len(got[p]) + 1 /\ AcceptedCount(p)' = Len(got'[p])
    BY <1>1, <1>3 DEF AcceptedCount
  <2>5. \A i \in DOMAIN got'[p] : i \in DOMAIN got[p] \/ i = Len(got[p]) + 1
    BY <2>3
  <2>6. \A i \in DOMAIN got[p] : i \in DOMAIN got'[p] /\ got'[p][i] = got[p][i]
    BY <2>2, <2>3
  <2> QED
    BY <1>3, <2>2, <2>3, <2>4, <2>5, <2>6
<1> QED
  BY <1>2, <1>3

LEMMA AcceptedOnceNext ==
  ASSUME TypeOK, TypeOK', NEW n \in Node, NEW p, p = Peer(n),
         DataOrder(n), HeldIsNext(p), AcceptedOnce(n), DirectionStep(n, p)
  PROVE  AcceptedOnce(n)'
<1>1. /\ submitted[n] \in Nat /\ held[p] \in Nat
      /\ sendBit[n] \in 0 .. 1 /\ recvBit[p] \in 0 .. 1
      /\ AcceptedBy(p) \subseteq Nat
      /\ \A i \in DataAt(p) : socket[p][i].id \in Nat /\ socket[p][i].bit \in 0 .. 1
  BY DirectionTypes DEF AcceptedBy, Delivered, DataAt
<1>2. \A x \in AcceptedBy(p) :
         /\ x <= submitted[n]
         /\ Sending(n) /\ x = submitted[n] => sendBit[n] # recvBit[p]
         /\ \A i \in DataAt(p) :
               x <= socket[p][i].id
                  /\ (x = socket[p][i].id => socket[p][i].bit # recvBit[p])
  BY DEF AcceptedOnce
<1>3. ASSUME \A x \in AcceptedBy(p)' :
                /\ x <= submitted'[n]
                /\ Sending(n)' /\ x = submitted'[n] => sendBit'[n] # recvBit'[p]
                /\ \A i \in DataAt(p)' :
                      x <= socket'[p][i].id
                         /\ (x = socket'[p][i].id => socket'[p][i].bit # recvBit'[p])
      PROVE  AcceptedOnce(n)'
  BY <1>3 DEF AcceptedOnce
<1>4. ASSUME AcceptedBy(p)' \subseteq AcceptedBy(p), recvBit'[p] = recvBit[p],
             KeepsData(p), submitted'[n] \in {submitted[n], submitted[n] + 1},
             Sending(n)' =>
                \/ submitted'[n] = submitted[n] + 1
                \/ Sending(n) /\ submitted'[n] = submitted[n] /\ sendBit'[n] = sendBit[n]
      PROVE  AcceptedOnce(n)'
  <2>1. \A i \in DataAt(p)' : \E j \in DataAt(p) : socket'[p][i] = socket[p][j]
    BY <1>4 DEF KeepsData
  <2>2. \A x \in AcceptedBy(p)' : x \in AcceptedBy(p) /\ x \in Nat
    BY <1>1, <1>4
  <2> QED
    BY <1>1, <1>2, <1>3, <1>4, <2>1, <2>2
<1>5. ASSUME held'[p] \in {held[p], 0}, got'[p] = got[p]
      PROVE  AcceptedBy(p)' \subseteq AcceptedBy(p)
  BY <1>5 DEF AcceptedBy, Delivered
<1>6. CASE Transmit(n)
  <2>1. AcceptedBy(p)' \subseteq AcceptedBy(p)
    BY <1>5, <1>6, TransmitFacts
  <2>2. Data(n).id = submitted[n] /\ Data(n).bit = sendBit[n]
    BY DEF Data
  <2>3. /\ sendBit'[n] = sendBit[n] /\ submitted'[n] = submitted[n]
        /\ recvBit'[p] = recvBit[p] /\ Sending(n)
    BY <1>6, TransmitFacts
  <2>4. \A i \in DataAt(p)' :
           \/ i \in DataAt(p) /\ socket'[p][i] = socket[p][i]
           \/ socket'[p][i].id = submitted[n] /\ socket'[p][i].bit = sendBit[n]
    BY <1>6, <2>2, TransmitFacts
  <2> QED
    BY <1>1, <1>2, <1>3, <2>1, <2>3, <2>4
<1>7. CASE SendCall(n) \/ SendReturns(n)
  <2>1. SameReceiver(p)
    BY <1>7, SendCallFacts, SendReturnsFacts
  <2>2. AcceptedBy(p)' \subseteq AcceptedBy(p)
    BY <1>5, <2>1 DEF SameReceiver
  <2> QED
    BY <1>4, <1>7, <2>1, <2>2, SendCallFacts, SendReturnsFacts DEF SameReceiver
<1>8. CASE SendAck(p)
  <2>1. \A i \in DOMAIN got'[p] :
           \/ i \in DOMAIN got[p] /\ got'[p][i] = got[p][i]
           \/ held[p] # 0 /\ got'[p][i] = held[p]
    BY <1>8, SendAckReturns
  <2>2. AcceptedBy(p)' \subseteq AcceptedBy(p)
    BY <1>8, <2>1, SendAckFacts DEF AcceptedBy, Delivered
  <2> QED
    BY <1>4, <1>8, <2>2, SendAckFacts DEF Sending
<1>9. CASE RecvData(p)
  <2>1. /\ sendBit'[n] = sendBit[n] /\ submitted'[n] = submitted[n]
        /\ Sending(n)' <=> Sending(n)
        /\ got'[p] = got[p] /\ 1 \in DataAt(p)
        /\ \A i \in DataAt(p)' : i + 1 \in DataAt(p) /\ socket'[p][i] = socket[p][i + 1]
    BY <1>9, RecvDataFacts DEF SameSender
  <2>2. held[p] = 0
    BY <1>9, RecvDataFacts DEF HeldIsNext
  <2>3. CASE socket[p][1].bit = recvBit[p]
    <3> DEFINE id == socket[p][1].id
    <3>1. held'[p] = id /\ recvBit'[p] # recvBit[p]
      BY <1>1, <1>9, <2>3, RecvDataFacts
    <3>2. AcceptedBy(p)' \subseteq AcceptedBy(p) \cup {id}
      BY <2>1, <3>1 DEF AcceptedBy, Delivered
    <3>3. /\ id \in Nat /\ id <= submitted[n]
          /\ Sending(n) /\ id = submitted[n] => sendBit[n] = recvBit[p]
      BY <1>1, <2>1, <2>3 DEF DataOrder
    <3>4. \A x \in AcceptedBy(p) : x < id
      BY <1>1, <1>2, <2>1, <2>3
    <3>5. \A i \in DataAt(p)' :
             /\ socket'[p][i].id \in Nat /\ id <= socket'[p][i].id
             /\ socket'[p][i].id = id => socket'[p][i].bit = recvBit[p]
      <4>1. \A i \in DataAt(p)' : 1 <= i + 1
        BY Positions, PeerFacts
      <4>2. \A i \in DataAt(p) : 1 <= i =>
               id <= socket[p][i].id /\ (id = socket[p][i].id => socket[p][i].bit = recvBit[p])
        BY <2>1, <2>3 DEF DataOrder
      <4> QED
        BY <1>1, <2>1, <4>1, <4>2
    <3> HIDE DEF id
    <3> QED
      BY <1>1, <1>3, <2>1, <3>1, <3>2, <3>3, <3>4, <3>5
  <2>4. CASE socket[p][1].bit # recvBit[p]
    <3>1. held'[p] = 0 /\ recvBit'[p] = recvBit[p]
      BY <1>9, <2>4, RecvDataFacts
    <3>2. AcceptedBy(p)' \subseteq AcceptedBy(p)
      BY <1>5, <2>1, <3>1
    <3>3. KeepsData(p)
      BY <2>1 DEF KeepsData
    <3> QED
      BY <1>4, <2>1, <3>1, <3>2, <3>3
  <2> QED
    BY <2>3, <2>4
<1>10. CASE SameSender(n) /\ SameReceiver(p)
  BY <1>4, <1>5, <1>10 DEF SameSender, SameReceiver
<1>11. CASE Raised(n) /\ SameReceiver(p)
  BY <1>4, <1>5, <1>11 DEF Raised, SameReceiver
<1>12. CASE SameSender(n) /\ Dropped(p)
  BY <1>4, <1>5, <1>12 DEF SameSender, Dropped
<1> QED
  BY <1>6, <1>7, <1>8, <1>9, <1>10, <1>11, <1>12 DEF DirectionStep

LEMMA SettledFacts ==
  ASSUME TypeOK, NEW n \in Node, Sending(n) => 1 <= submitted[n]
  PROVE  /\ Settled(n) \in Nat /\ submitted[n] \in Nat
         /\ Sending(n) => submitted[n] = Settled(n) + 1
         /\ ~Sending(n) => submitted[n] = Settled(n)
  BY DEF TypeOK, Settled

LEMMA BitsAgreeNext ==
  ASSUME TypeOK, TypeOK', NEW n \in Node, NEW p, p = Peer(n),
         Sending(n) => 1 <= submitted[n],
         DataOrder(n), HeldIsNext(p), AcceptedOnce(n), BitsAgree(n), AcksTruthful(n),
         DirectionStep(n, p), raised'[n] = {}
  PROVE  BitsAgree(n)'
<1> DEFINE S == Settled(n)
           L == Len(got[p])
           A == AcceptedCount(p)
<1>1. /\ S \in Nat /\ submitted[n] \in Nat /\ L \in Nat /\ A \in Nat
      /\ held[p] \in Nat /\ sendBit[n] \in 0 .. 1 /\ recvBit[p] \in 0 .. 1
      /\ DOMAIN got[p] = 1 .. L /\ \A i \in DOMAIN got[p] : got[p][i] \in Nat
      /\ held[p] = 0 => A = L
      /\ held[p] # 0 => A = L + 1
  BY SettledFacts, DirectionTypes DEF AcceptedCount
<1>2. /\ returned[n] = 1 .. S /\ S <= L
      /\ \A i \in DOMAIN got[p] : got[p][i] = i
      /\ open[p] => /\ held[p] # 0 => held[p] = L + 1
                    /\ A <= submitted[n]
                    /\ recvBit[p] = sendBit[n] <=> A = S
  BY DEF BitsAgree
<1>3. ASSUME returned'[n] = 1 .. Settled(n)', Settled(n)' <= Len(got'[p]),
             \A i \in DOMAIN got'[p] : got'[p][i] = i,
             open'[p] =>
                /\ held'[p] # 0 => held'[p] = Len(got'[p]) + 1
                /\ AcceptedCount(p)' <= submitted'[n]
                /\ recvBit'[p] = sendBit'[n] <=> AcceptedCount(p)' = Settled(n)'
      PROVE  BitsAgree(n)'
  BY <1>3 DEF BitsAgree
<1>4. ASSUME sendBit'[n] = sendBit[n], submitted'[n] = submitted[n],
             returned'[n] = returned[n], Sending(n)' <=> Sending(n)
      PROVE  Settled(n)' = S
  BY <1>4 DEF Settled
<1>5. ASSUME held'[p] = held[p], got'[p] = got[p]
      PROVE  AcceptedCount(p)' = A
  BY <1>5 DEF AcceptedCount
<1>6. ASSUME Settled(n)' = S, AcceptedCount(p)' = A, got'[p] = got[p],
             held'[p] = held[p], recvBit'[p] = recvBit[p], sendBit'[n] = sendBit[n],
             returned'[n] = returned[n], submitted[n] <= submitted'[n],
             submitted'[n] \in Nat, open'[p] => open[p]
      PROVE  BitsAgree(n)'
  <2> HIDE DEF S, A
  <2> QED
    BY <1>1, <1>2, <1>3, <1>6
<1>7. CASE SameSender(n) /\ SameReceiver(p)
  <2>1. Settled(n)' = S /\ AcceptedCount(p)' = A
    BY <1>4, <1>5, <1>7 DEF SameSender, SameReceiver
  <2> QED
    BY <1>1, <1>6, <1>7, <2>1 DEF SameSender, SameReceiver
<1>8. CASE Raised(n) /\ SameReceiver(p)
  BY <1>8 DEF Raised
<1>9. CASE SameSender(n) /\ Dropped(p)
  <2>1. Settled(n)' = S
    BY <1>4, <1>9 DEF SameSender
  <2>2. returned'[n] = returned[n] /\ got'[p] = got[p] /\ ~open'[p]
    BY <1>9 DEF SameSender, Dropped
  <2> HIDE DEF S
  <2> QED
    BY <1>2, <1>3, <2>1, <2>2
<1>10. CASE SendCall(n)
  <2>1. /\ submitted'[n] = submitted[n] + 1 /\ ~Sending(n) /\ Sending(n)'
        /\ sendBit'[n] = sendBit[n] /\ returned'[n] = returned[n] /\ SameReceiver(p)
    BY <1>10, SendCallFacts
  <2>2. Settled(n)' = S
    BY <1>1, <2>1 DEF Settled
  <2>3. AcceptedCount(p)' = A
    BY <1>5, <2>1 DEF SameReceiver
  <2> HIDE DEF S, A
  <2> QED
    BY <1>1, <1>6, <2>1, <2>2, <2>3 DEF SameReceiver
<1>11. CASE Transmit(n)
  <2>1. /\ sendBit'[n] = sendBit[n] /\ submitted'[n] = submitted[n]
        /\ returned'[n] = returned[n] /\ Sending(n) /\ Sending(n)'
        /\ recvBit'[p] = recvBit[p] /\ held'[p] = held[p] /\ got'[p] = got[p]
        /\ open'[p] = open[p]
    BY <1>11, TransmitFacts
  <2>2. Settled(n)' = S /\ AcceptedCount(p)' = A
    BY <1>4, <1>5, <2>1
  <2> HIDE DEF S, A
  <2> QED
    BY <1>1, <1>6, <2>1, <2>2
<1>12. CASE SendReturns(n)
  <2>1. /\ sendBit'[n] = 1 - sendBit[n] /\ submitted'[n] = submitted[n]
        /\ returned'[n] = returned[n] \cup {submitted[n]}
        /\ Sending(n) /\ ~Sending(n)' /\ SameReceiver(p)
        /\ 1 \in AcksAt(n) /\ socket[n][1].bit = 1 - sendBit[n]
    BY <1>12, SendReturnsFacts
  <2>2. submitted[n] = S + 1 /\ Settled(n)' = S + 1
    BY <1>1, <2>1, SettledFacts DEF Settled
  <2>3. S + 1 <= L
    BY <1>1, <2>1 DEF AcksTruthful
  <2>4. AcceptedCount(p)' = A
    BY <1>5, <2>1 DEF SameReceiver
  <2>5. returned'[n] = 1 .. S + 1
    <3> HIDE DEF S
    <3> QED
      BY <1>1, <1>2, <2>1, <2>2
  <2>6. ASSUME open[p]
        PROVE  A = S + 1 /\ recvBit[p] = 1 - sendBit[n]
    <3> HIDE DEF S, L, A
    <3> QED
      BY <1>1, <1>2, <2>2, <2>3, <2>6
  <2> HIDE DEF S, A
  <2> QED
    BY <1>1, <1>2, <1>3, <2>1, <2>2, <2>3, <2>4, <2>5, <2>6 DEF SameReceiver
<1>13. CASE RecvData(p)
  <2>1. /\ SameSender(n) /\ got'[p] = got[p] /\ open'[p] = open[p] /\ 1 \in DataAt(p)
        /\ IF socket[p][1].bit = recvBit[p]
           THEN held'[p] = socket[p][1].id /\ recvBit'[p] = 1 - recvBit[p]
           ELSE held'[p] = 0 /\ recvBit'[p] = recvBit[p]
    BY <1>13, RecvDataFacts
  <2>2. Settled(n)' = S
    BY <1>4, <2>1 DEF SameSender
  <2>3. held[p] = 0 /\ A = L
    BY <1>1, <1>13, RecvDataFacts DEF HeldIsNext
  <2>4. CASE socket[p][1].bit # recvBit[p]
    <3>1. AcceptedCount(p)' = A
      BY <1>5, <2>1, <2>3, <2>4
    <3> HIDE DEF S, A
    <3> QED
      BY <1>1, <1>6, <2>1, <2>2, <2>3, <2>4, <3>1 DEF SameSender
  <2>5. CASE socket[p][1].bit = recvBit[p]
    <3> DEFINE id == socket[p][1].id
    <3>1. id \in Nat /\ 1 <= id /\ id <= submitted[n]
      BY <2>1, DirectionTypes DEF DataOrder, DataAt
    <3>2. \A x \in DOMAIN got[p] : got[p][x] < id
      <4>1. \A x \in DOMAIN got[p] : got[p][x] \in AcceptedBy(p)
        BY DEF AcceptedBy, Delivered
      <4>2. \A x \in DOMAIN got[p] : got[p][x] <= id /\ got[p][x] # id
        BY <2>1, <2>5, <4>1 DEF AcceptedOnce
      <4> QED
        BY <1>1, <3>1, <4>2
    <3>3. held'[p] = id /\ AcceptedCount(p)' = L + 1
      BY <2>1, <2>5, <3>1 DEF AcceptedCount
    <3>4. submitted[n] <= S + 1
      BY SettledFacts
    <3> HIDE DEF id, S, A, L
    <3>5. L < id
      <4>1. CASE L = 0
        BY <3>1, <4>1
      <4>2. CASE L # 0
        <5>1. L \in DOMAIN got[p] /\ got[p][L] = L
          BY <1>1, <1>2, <4>2
        <5> QED
          BY <3>2, <5>1
      <4> QED
        BY <4>1, <4>2
    <3>6. id = L + 1 /\ L = S
      BY <1>1, <1>2, <3>1, <3>4, <3>5
    <3>7. open[p] => recvBit[p] = sendBit[n]
      BY <1>2, <2>3, <3>6
    <3>8. recvBit'[p] = 1 - recvBit[p]
      BY <2>1, <2>5
    <3>9. returned'[n] = returned[n] /\ submitted'[n] = submitted[n] /\ sendBit'[n] = sendBit[n]
      BY <2>1 DEF SameSender
    <3>10. Len(got'[p]) = L /\ got'[p] = got[p] /\ open'[p] = open[p]
      BY <2>1 DEF L
    <3>11. open'[p] =>
             /\ held'[p] # 0 => held'[p] = Len(got'[p]) + 1
             /\ AcceptedCount(p)' <= submitted'[n]
             /\ recvBit'[p] = sendBit'[n] <=> AcceptedCount(p)' = Settled(n)'
      BY <1>1, <2>2, <3>1, <3>3, <3>6, <3>7, <3>8, <3>9, <3>10
    <3> QED
      BY <1>2, <1>3, <2>2, <3>9, <3>10, <3>11
  <2> QED
    BY <2>4, <2>5
<1>14. CASE SendAck(p)
  <2>1. /\ sendBit'[n] = sendBit[n] /\ submitted'[n] = submitted[n]
        /\ returned'[n] = returned[n]
        /\ Sending(n)' <=> Sending(n)
        /\ recvBit'[p] = recvBit[p] /\ held'[p] = 0 /\ open[p]
    BY <1>14, SendAckFacts DEF Sending
  <2>2. Settled(n)' = S
    BY <2>1 DEF Settled
  <2>3. Len(got'[p]) = A /\ AcceptedCount(p)' = A
    BY <1>14, SendAckReturns
  <2>4. \A i \in DOMAIN got'[p] :
           \/ i \in DOMAIN got[p] /\ got'[p][i] = got[p][i]
           \/ held[p] # 0 /\ i = L + 1 /\ got'[p][i] = held[p]
    BY <1>14, SendAckReturns
  <2> HIDE DEF S, A, L
  <2>5. \A i \in DOMAIN got'[p] : got'[p][i] = i
    BY <1>2, <2>1, <2>4
  <2>6. S <= A
    BY <1>1, <1>2
  <2>7. /\ AcceptedCount(p)' <= submitted'[n]
        /\ recvBit'[p] = sendBit'[n] <=> AcceptedCount(p)' = Settled(n)'
    BY <1>2, <2>1, <2>2, <2>3
  <2>8. returned'[n] = 1 .. Settled(n)' /\ Settled(n)' <= Len(got'[p])
    BY <1>2, <2>1, <2>2, <2>3, <2>6
  <2> QED
    BY <1>3, <2>1, <2>5, <2>7, <2>8
<1> QED
  BY <1>7, <1>8, <1>9, <1>10, <1>11, <1>12, <1>13, <1>14 DEF DirectionStep

LEMMA AcksTruthfulNext ==
  ASSUME TypeOK, TypeOK', NEW n \in Node, NEW p, p = Peer(n),
         Sending(n) => 1 <= submitted[n], BitsAgree(n), AcksTruthful(n),
         DirectionStep(n, p), raised'[n] = {}
  PROVE  AcksTruthful(n)'
<1> DEFINE S == Settled(n)
           Fresh(i) == socket[n][i].bit # sendBit[n]
<1>1. /\ S \in Nat /\ Len(got[p]) \in Nat /\ AcceptedCount(p) \in Nat
      /\ sendBit[n] \in 0 .. 1 /\ recvBit[p] \in 0 .. 1
      /\ Len(got[p]) <= AcceptedCount(p)
      /\ \A i \in AcksAt(n) : socket[n][i].bit \in 0 .. 1
      /\ AcksAt(n) \subseteq 1 .. Len(socket[n]) /\ Len(socket[n]) \in Nat
  BY SettledFacts, DirectionTypes DEF AcceptedCount, AcksAt
<1>2. \A i \in AcksAt(n) : Fresh(i) =>
         /\ S + 1 <= Len(got[p])
         /\ \A j \in AcksAt(n) : i <= j => Fresh(j)
  BY DEF AcksTruthful
<1>3. AcksAt(n)' \subseteq Nat
  BY Positions
<1>4. ASSUME Sending(n)' <=> Sending(n), submitted'[n] = submitted[n]
      PROVE  Settled(n)' = S
  BY <1>4 DEF Settled
<1>5. ASSUME KeepsAcks(n), Settled(n)' = S, sendBit'[n] = sendBit[n], got'[p] = got[p]
      PROVE  AcksTruthful(n)'
  <2>1. PICK d \in {0, 1} : \A i \in AcksAt(n)' :
               i + d \in AcksAt(n) /\ socket'[n][i] = socket[n][i + d]
    BY <1>5 DEF KeepsAcks
  <2>2. ASSUME NEW i \in AcksAt(n)', socket'[n][i].bit # sendBit'[n]
        PROVE  /\ S + 1 <= Len(got[p])
               /\ \A j \in AcksAt(n)' : i <= j => socket'[n][j].bit # sendBit'[n]
    <3>1. i + d \in AcksAt(n) /\ Fresh(i + d)
      BY <1>5, <2>1, <2>2
    <3>2. ASSUME NEW j \in AcksAt(n)', i <= j PROVE Fresh(j + d)
      <4>1. j + d \in AcksAt(n) /\ i + d <= j + d
        BY <1>3, <2>1, <3>2
      <4> QED
        BY <1>2, <3>1, <4>1
    <3> QED
      BY <1>2, <1>5, <2>1, <3>1, <3>2
  <2> QED
    BY <1>5, <2>2 DEF AcksTruthful
<1>6. CASE SameSender(n) /\ (SameReceiver(p) \/ Dropped(p))
  BY <1>4, <1>5, <1>6 DEF SameSender, SameReceiver, Dropped
<1>7. CASE Raised(n)
  BY <1>7 DEF Raised
<1>8. CASE SendCall(n)
  <2>1. /\ submitted'[n] = submitted[n] + 1 /\ ~Sending(n) /\ Sending(n)'
        /\ sendBit'[n] = sendBit[n] /\ SameReceiver(p) /\ KeepsAcks(n)
    BY <1>8, SendCallFacts
  <2>2. Settled(n)' = S
    BY <1>1, <2>1, DirectionTypes DEF Settled
  <2> QED
    BY <1>5, <2>1, <2>2 DEF SameReceiver
<1>9. CASE Transmit(n)
  BY <1>4, <1>5, <1>9, TransmitFacts
<1>10. CASE RecvData(p)
  BY <1>4, <1>5, <1>10, RecvDataFacts DEF SameSender
<1>11. CASE SendReturns(n)
  <2>1. /\ sendBit'[n] = 1 - sendBit[n]
        /\ 1 \in AcksAt(n) /\ socket[n][1].bit = 1 - sendBit[n]
        /\ \A i \in AcksAt(n)' : i + 1 \in AcksAt(n) /\ socket'[n][i] = socket[n][i + 1]
    BY <1>11, SendReturnsFacts
  <2>2. \A i \in AcksAt(n)' : 1 <= i + 1
    BY <1>3
  <2>3. \A j \in AcksAt(n) : 1 <= j => socket[n][j].bit # sendBit[n]
    BY <1>1, <1>2, <2>1
  <2>4. \A i \in AcksAt(n)' : socket'[n][i].bit = sendBit'[n]
    BY <1>1, <2>1, <2>2, <2>3
  <2> QED
    BY <2>4 DEF AcksTruthful
<1>12. CASE SendAck(p)
  <2>1. /\ sendBit'[n] = sendBit[n] /\ submitted'[n] = submitted[n]
        /\ pc'[n] = pc[n] /\ open[p]
    BY <1>12, SendAckFacts
  <2>2. \A i \in AcksAt(n)' :
           \/ i \in AcksAt(n) /\ socket'[n][i] = socket[n][i]
           \/ i > Len(socket[n]) /\ socket'[n][i].bit = recvBit[p]
    BY <1>12, SendAckFacts
  <2>3. Settled(n)' = S
    BY <1>4, <2>1 DEF Sending
  <2>4. Len(got'[p]) = AcceptedCount(p)
    BY <1>12, SendAckReturns
  <2>5. S <= Len(got[p]) /\ (recvBit[p] = sendBit[n] <=> AcceptedCount(p) = S)
    BY <2>1 DEF BitsAgree
  <2>6. recvBit[p] # sendBit[n] => S + 1 <= AcceptedCount(p)
    <3> HIDE DEF S
    <3> QED
      BY <1>1, <2>5
  <2>7. \A i \in AcksAt(n) : Fresh(i) =>
           S + 1 <= AcceptedCount(p) /\ recvBit[p] # sendBit[n]
    <3> HIDE DEF S, Fresh
    <3> QED
      BY <1>1, <1>2, <2>5
  <2>8. ASSUME NEW i \in AcksAt(n)', socket'[n][i].bit # sendBit'[n]
        PROVE  /\ S + 1 <= AcceptedCount(p)
               /\ \A j \in AcksAt(n)' : i <= j => socket'[n][j].bit # sendBit'[n]
    <3>1. recvBit[p] # sendBit[n] /\ S + 1 <= AcceptedCount(p)
      BY <2>1, <2>2, <2>6, <2>7, <2>8
    <3>2. ASSUME NEW j \in AcksAt(n)', i <= j PROVE socket'[n][j].bit # sendBit'[n]
      <4>1. CASE j > Len(socket[n]) /\ socket'[n][j].bit = recvBit[p]
        BY <2>1, <3>1, <4>1
      <4>2. CASE j \in AcksAt(n) /\ socket'[n][j] = socket[n][j]
        <5>1. i <= Len(socket[n])
          BY <1>1, <1>3, <3>2, <4>2
        <5>2. i \in AcksAt(n) /\ socket'[n][i] = socket[n][i]
          BY <1>1, <1>3, <2>2, <5>1
        <5> QED
          BY <1>2, <2>1, <2>8, <3>2, <4>2, <5>2
      <4> QED
        BY <2>2, <4>1, <4>2
    <3> QED
      BY <3>1, <3>2
  <2> QED
    BY <2>3, <2>4, <2>8 DEF AcksTruthful
<1> QED
  BY <1>6, <1>7, <1>8, <1>9, <1>10, <1>11, <1>12 DEF DirectionStep

-----------------------------------------------------------------------------
(* The invariant, and the properties it implies.                           *)

LEMMA InitIndInv == Init => IndInv
<1> SUFFICES ASSUME Init PROVE IndInv
  OBVIOUS
<1>1. TypeOK
  BY InitTypeOK
<1>2. ASSUME NEW n \in Node
      PROVE  /\ Sending(n) => 1 <= submitted[n]
             /\ DataOrder(n) /\ HeldIsNext(n) /\ AcceptedOnce(n)
             /\ BitsAgree(n) /\ AcksTruthful(n)
  <2>1. Peer(n) \in Node
    BY PeerFacts
  <2>2. ~Sending(n) /\ Settled(n) = 0
    BY DEF Init, Sending, Settled
  <2>3. /\ DataAt(Peer(n)) = {} /\ AcksAt(n) = {} /\ Delivered(Peer(n)) = {}
        /\ Delivered(n) = {} /\ AcceptedBy(Peer(n)) = {} /\ got[n] = <<>>
        /\ AcceptedCount(Peer(n)) = 0 /\ got[Peer(n)] = <<>> /\ held[n] = 0
    BY <2>1 DEF Init, DataAt, AcksAt, Delivered, AcceptedBy, AcceptedCount
  <2>4. /\ sendBit[n] = 0 /\ recvBit[Peer(n)] = 0 /\ submitted[n] = 0
        /\ returned[n] = {} /\ held[Peer(n)] = 0
    BY <2>1 DEF Init
  <2>5. BitsAgree(n)
    BY <2>2, <2>3, <2>4 DEF BitsAgree
  <2> QED
    BY <2>2, <2>3, <2>5 DEF DataOrder, HeldIsNext, AcceptedOnce, AcksTruthful
<1> QED
  BY <1>1, <1>2 DEF IndInv

LEMMA RaisedStays ==
  ASSUME TypeOK, NEW n \in Node, NEW p, p = Peer(n), DirectionStep(n, p), raised'[n] = {}
  PROVE  raised[n] = {}
  BY SendCallFacts, TransmitFacts, SendReturnsFacts, RecvDataFacts, SendAckFacts
     DEF DirectionStep, SameSender, Raised

LEMMA SubmittedStays ==
  ASSUME TypeOK, NEW n \in Node, NEW p, p = Peer(n), DirectionStep(n, p),
         Sending(n) => 1 <= submitted[n], Sending(n)'
  PROVE  1 <= submitted'[n]
<1>1. submitted[n] \in Nat
  BY DEF TypeOK
<1>2. CASE SendCall(n)
  BY <1>1, <1>2, SendCallFacts
<1>3. CASE Transmit(n)
  BY <1>3, TransmitFacts
<1>4. CASE SendReturns(n)
  BY <1>4, SendReturnsFacts
<1>5. CASE RecvData(p)
  BY <1>5, RecvDataFacts DEF SameSender
<1>6. CASE SendAck(p)
  BY <1>6, SendAckFacts DEF Sending
<1> QED
  BY <1>2, <1>3, <1>4, <1>5, <1>6 DEF DirectionStep, SameSender, Raised

LEMMA IndInvNext == IndInv /\ [Next]_vars => IndInv'
<1>1. CASE UNCHANGED vars
  BY <1>1 DEF IndInv, TypeOK, vars, callVars, readVars, Sending, DataOrder, HeldIsNext,
              AcceptedOnce, BitsAgree, AcksTruthful, DataAt, AcksAt, AcceptedBy,
              Delivered, Settled, AcceptedCount
<1>2. ASSUME IndInv, Next PROVE IndInv'
  <2>1. TypeOK /\ TypeOK'
    BY <1>2, TypeOKStep DEF IndInv, Next, Steps
  <2>2. \A n \in Node :
           /\ Sending(n) => 1 <= submitted[n]
           /\ DataOrder(n) /\ HeldIsNext(n) /\ AcceptedOnce(n)
           /\ raised[n] = {} => BitsAgree(n) /\ AcksTruthful(n)
    BY <1>2 DEF IndInv
  <2>3. ASSUME NEW n \in Node
        PROVE  /\ Sending(n)' => 1 <= submitted'[n]
               /\ DataOrder(n)' /\ AcceptedOnce(n)' /\ HeldIsNext(Peer(n))'
               /\ raised'[n] = {} => BitsAgree(n)' /\ AcksTruthful(n)'
    <3>1. DirectionStep(n, Peer(n)) /\ Peer(n) \in Node
      BY <1>2, <2>1, StepCases, PeerFacts
    <3>2. DataOrder(n)' /\ AcceptedOnce(n)' /\ HeldIsNext(Peer(n))'
      BY <2>1, <2>2, <3>1, DataOrderNext, AcceptedOnceNext, HeldIsNextNext
    <3>3. ASSUME raised'[n] = {} PROVE BitsAgree(n)' /\ AcksTruthful(n)'
      <4>1. BitsAgree(n) /\ AcksTruthful(n)
        BY <2>1, <2>2, <3>1, <3>3, RaisedStays
      <4> QED
        BY <2>1, <2>2, <3>1, <3>3, <4>1, BitsAgreeNext, AcksTruthfulNext
    <3> QED
      BY <2>1, <2>2, <3>1, <3>2, <3>3, SubmittedStays
  <2>4. \A n \in Node : HeldIsNext(n)'
    BY <2>3, PeerFacts
  <2> QED
    BY <2>1, <2>3, <2>4 DEF IndInv
<1> QED
  BY <1>1, <1>2

\* The invariant holds of every behaviour.
THEOREM Inductive == Spec => []IndInv
  BY InitIndInv, IndInvNext, PTL DEF Spec

\* recvfrom() returns what the peer sent at most once and in order, with nothing
\* left out until a sendto() raises: for any number of calls, attempts and
\* buffered packets, any loss and any repetition on a path that keeps the order.
THEOREM InOrder == Spec => []DeliveredInOrder
<1>1. IndInv => DeliveredInOrder
  <2> SUFFICES ASSUME IndInv, NEW n \in Node
               PROVE  /\ \A i, j \in DOMAIN got[n] : i < j => got[n][i] < got[n][j]
                      /\ raised[Peer(n)] = {} => \A i \in DOMAIN got[n] : got[n][i] = i
    BY DEF DeliveredInOrder
  <2>1. Peer(n) \in Node /\ Peer(Peer(n)) = n
    BY PeerFacts
  <2>2. raised[Peer(n)] = {} => \A i \in DOMAIN got[n] : got[n][i] = i
    BY <2>1 DEF IndInv, BitsAgree
  <2> QED
    BY <2>2 DEF IndInv, HeldIsNext
<1> QED
  BY Inductive, <1>1, PTL

\* sendto() returns only when the peer's application has the datagram, as long as
\* no earlier call of the sender has raised.
THEOREM Confirmed == Spec => []ReturnedWasDelivered
<1>1. IndInv => ReturnedWasDelivered
  <2> SUFFICES ASSUME IndInv, NEW n \in Node, raised[n] = {}
               PROVE  returned[n] \subseteq Delivered(Peer(n))
    BY DEF ReturnedWasDelivered
  <2>1. TypeOK /\ BitsAgree(n) /\ (Sending(n) => 1 <= submitted[n])
    BY DEF IndInv
  <2>2. /\ Settled(n) \in Nat /\ Len(got[Peer(n)]) \in Nat
        /\ DOMAIN got[Peer(n)] = 1 .. Len(got[Peer(n)])
    BY <2>1, SettledFacts, DirectionTypes
  <2>3. 1 .. Settled(n) \subseteq DOMAIN got[Peer(n)]
    BY <2>1, <2>2 DEF BitsAgree
  <2> QED
    BY <2>1, <2>3 DEF BitsAgree, Delivered
<1> QED
  BY Inductive, <1>1, PTL
=============================================================================
