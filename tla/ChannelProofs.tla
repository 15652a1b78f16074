---------------------------- MODULE ChannelProofs ----------------------------
(***************************************************************************)
(* Proofs about Channel, for every delay, jitter and number of packets.    *)
(* The invariants hold for any number of calls at any times: the bounds    *)
(* LastSend and MaxSends are used nowhere.                                 *)
(***************************************************************************)
EXTENDS Channel, TLAPS

\* The thread has left only when there was nothing more to do.
ExitedIsDone ==
    /\ worker = "exited" => Closed /\ heap = {}
    /\ closing = "closed" => worker = "exited"

\* With a constant delay the heap is a queue: the numbers and the times have
\* one order, nothing is due later than a packet sent now would be, and what
\* has left is older than what waits.
HeapIsQueue ==
    steady =>
        /\ \A e, f \in heap : e.n < f.n => e.at <= f.at
        /\ \A e \in heap : e.at <= now + Delay
        /\ \A e \in heap : \A i \in DOMAIN wire : wire[i] < e.n

IndInv == TypeOK /\ WakesInTime /\ Accounted /\ ExitedIsDone /\ HeapIsQueue /\ KeepsOrder

USE DelayAssumption

-----------------------------------------------------------------------------
(* Steps that push, pop, or do neither.                                    *)

\* The copies that one sendto() pushes.
Pushes(d, k) ==
    /\ heap' = heap \cup [at : {now + d}, n : tiebreak .. tiebreak + k - 1]
    /\ tiebreak' = tiebreak + k
    /\ sent' = sent + 1
    /\ worker' = Notify
    /\ UNCHANGED <<steady, dropped, delivered, wire, refused, now, wakeAt, closing>>

LEMMA DelayIsNat == TypeOK => \A d \in Delays : d \in Nat /\ (steady => d = Delay)
BY DEF TypeOK, Delays

LEMMA SendPushes ==
    ASSUME SendQueued
    PROVE  \E d \in Delays, k \in 1 .. 2 : Pushes(d, k)
BY DEF SendQueued, Pushes, NumbersAfter

\* The membership of the heap after a push, entry by entry.
LEMMA Pushed ==
    ASSUME TypeOK, NEW d \in Nat, NEW k \in 1 .. 2, Pushes(d, k),
           NEW e \in heap', e \notin heap
    PROVE  e.at = now + d /\ e.n \in tiebreak .. tiebreak + k - 1
BY DEF TypeOK, Pushes

LEMMA PushedNumbers ==
    ASSUME TypeOK, NEW d \in Nat, NEW k \in 1 .. 2, Pushes(d, k)
    PROVE  Waiting' = Waiting \cup (tiebreak .. tiebreak + k - 1)
<1>1. ASSUME NEW n \in tiebreak .. tiebreak + k - 1
      PROVE  n \in Waiting'
  <2>1. [at |-> now + d, n |-> n] \in heap'
    BY DEF Pushes
  <2> QED BY <2>1 DEF Waiting
<1>2. ASSUME NEW n \in Waiting' PROVE n \in Waiting \cup (tiebreak .. tiebreak + k - 1)
  <2>1. PICK e \in heap' : e.n = n
    BY DEF Waiting
  <2>2. CASE e \in heap
    BY <2>1, <2>2 DEF Waiting
  <2>3. CASE e \notin heap
    BY <2>1, <2>3, Pushed
  <2> QED BY <2>2, <2>3
<1>3. Waiting \subseteq Waiting'
  BY DEF Waiting, Pushes
<1> QED BY <1>1, <1>2, <1>3

\* Popping an entry removes its number, which no other entry has.
LEMMA PoppedNumbers ==
    ASSUME Accounted, NEW e \in heap, heap' = heap \ {e}
    PROVE  Waiting' = Waiting \ {e.n}
BY DEF Accounted, Waiting

LEMMA AppendedNumbers ==
    ASSUME TypeOK, NEW n \in Nat, wire' = Append(wire, n)
    PROVE  /\ wire' \in Seq(Nat) /\ Len(wire') = Len(wire) + 1
           /\ DOMAIN wire' = DOMAIN wire \cup {Len(wire) + 1}
           /\ \A i \in DOMAIN wire : wire'[i] = wire[i] /\ wire[i] \in Nat /\ i \in 1 .. Len(wire)
           /\ wire'[Len(wire) + 1] = n
           /\ OnWire' = OnWire \cup {n}
<1>1. /\ wire' \in Seq(Nat) /\ Len(wire') = Len(wire) + 1
      /\ DOMAIN wire' = DOMAIN wire \cup {Len(wire) + 1}
      /\ \A i \in DOMAIN wire : wire'[i] = wire[i] /\ wire[i] \in Nat /\ i \in 1 .. Len(wire)
      /\ wire'[Len(wire) + 1] = n
  BY DEF TypeOK
<1>2. OnWire' = OnWire \cup {n}
  BY <1>1 DEF OnWire
<1> QED BY <1>1, <1>2

-----------------------------------------------------------------------------
(* Every action keeps IndInv.                                              *)

LEMMA Initially == Init => IndInv
<1> SUFFICES ASSUME Init PROVE IndInv
  OBVIOUS
<1>1. TypeOK
  BY DEF Init, TypeOK
<1>2. Accounted
  BY DEF Init, Accounted, Waiting, OnWire
<1> QED
  BY <1>1, <1>2 DEF Init, IndInv, WakesInTime, ExitedIsDone, HeapIsQueue, KeepsOrder, Closed

LEMMA PushInv ==
    ASSUME IndInv, NEW d \in Nat, NEW k \in 1 .. 2, Pushes(d, k),
           LockFree, ~Closed, steady => d = Delay
    PROVE  IndInv'
<1> USE DEF IndInv
<1>1. TypeOK'
  <2>1. [at : {now + d}, n : tiebreak .. tiebreak + k - 1] \subseteq [at : Nat, n : Nat]
    BY DEF TypeOK
  <2>2. worker' \in {"running", "empty", "timed", "woken", "exited"}
    BY DEF TypeOK, Pushes, Notify
  <2> QED BY <2>1, <2>2 DEF TypeOK, Pushes
<1>2. WakesInTime'
  BY DEF WakesInTime, Pushes, Notify, LockFree, TypeOK
<1>3. Accounted'
  <2>1. OnWire' = OnWire /\ refused' = refused /\ wire' = wire
    BY DEF OnWire, Pushes
  <2>2. Waiting' = Waiting \cup (tiebreak .. tiebreak + k - 1)
    BY PushedNumbers
  <2>3. Waiting \subseteq 0 .. tiebreak - 1 /\ OnWire \subseteq 0 .. tiebreak - 1
        /\ refused \subseteq 0 .. tiebreak - 1
    BY DEF Accounted
  <2>4. tiebreak \in Nat /\ sent \in Nat /\ dropped \in Nat
        /\ tiebreak' = tiebreak + k /\ sent' = sent + 1 /\ dropped' = dropped
        /\ delivered' = delivered
    BY DEF TypeOK, Pushes
  <2>5. 0 .. tiebreak' - 1 = Waiting' \cup OnWire' \cup refused'
    <3>1. 0 .. tiebreak' - 1 = (0 .. tiebreak - 1) \cup (tiebreak .. tiebreak + k - 1)
      BY <2>4
    <3> QED BY <2>1, <2>2, <3>1 DEF Accounted
  <2>6. (Waiting \cap OnWire)' = {} /\ (Waiting \cap refused)' = {} /\ (OnWire \cap refused)' = {}
    BY <2>1, <2>2, <2>3, <2>4 DEF Accounted
  <2>7. \A e, f \in heap' : e.n = f.n => e = f
    <3> SUFFICES ASSUME NEW e \in heap', NEW f \in heap', e.n = f.n PROVE e = f
      OBVIOUS
    <3>1. CASE e \in heap /\ f \in heap
      BY <3>1 DEF Accounted
    <3>2. CASE e \notin heap /\ f \notin heap
      <4>1. e \in [at : {now + d}, n : tiebreak .. tiebreak + k - 1]
            /\ f \in [at : {now + d}, n : tiebreak .. tiebreak + k - 1]
        BY <3>2 DEF Pushes
      <4> QED BY <4>1
    <3>3. CASE e \in heap /\ f \notin heap
      <4>1. e.n \in 0 .. tiebreak - 1 /\ f.n \in tiebreak .. tiebreak + k - 1
        BY <2>3, <3>3, Pushed DEF Waiting
      <4> QED BY <4>1, <2>4
    <3>4. CASE e \notin heap /\ f \in heap
      <4>1. f.n \in 0 .. tiebreak - 1 /\ e.n \in tiebreak .. tiebreak + k - 1
        BY <2>3, <3>4, Pushed DEF Waiting
      <4> QED BY <4>1, <2>4
    <3> QED BY <3>1, <3>2, <3>3, <3>4
  <2>8. (sent - dropped <= tiebreak /\ tiebreak <= 2 * (sent - dropped))'
    BY <2>4 DEF Accounted
  <2> QED BY <2>1, <2>4, <2>5, <2>6, <2>7, <2>8 DEF Accounted
<1>4. ExitedIsDone'
  BY DEF ExitedIsDone, Pushes, Notify, Closed, TypeOK
<1>5. HeapIsQueue' /\ KeepsOrder'
  <2> SUFFICES ASSUME steady' PROVE HeapIsQueue' /\ KeepsOrder'
    BY DEF HeapIsQueue, KeepsOrder
  <2>1. steady /\ d = Delay /\ wire' = wire /\ now' = now /\ now \in Nat /\ tiebreak \in Nat
    BY DEF Pushes, TypeOK
  <2>2. \A e \in heap : e.at \in Nat /\ e.n \in Nat /\ e.n < tiebreak /\ e.at <= now + Delay
    BY <2>1 DEF TypeOK, Accounted, Waiting, HeapIsQueue
  <2>3. \A i \in DOMAIN wire : wire[i] \in Nat /\ wire[i] < tiebreak
    BY <2>1 DEF TypeOK, Accounted, OnWire
  <2>4. \A e \in heap' : e \in heap \/ (e.at = now + Delay /\ e.n \in Nat /\ e.n >= tiebreak)
    BY <2>1, Pushed
  <2>5. \A e, f \in heap' : e.n < f.n => e.at <= f.at
    BY <2>1, <2>2, <2>4 DEF HeapIsQueue
  <2>6. \A e \in heap' : e.at <= now' + Delay
    BY <2>1, <2>2, <2>4
  <2>7. \A e \in heap' : \A i \in DOMAIN wire' : wire'[i] < e.n
    BY <2>1, <2>2, <2>3, <2>4 DEF HeapIsQueue
  <2> QED BY <2>1, <2>5, <2>6, <2>7 DEF HeapIsQueue, KeepsOrder
<1> QED BY <1>1, <1>2, <1>3, <1>4, <1>5

\* On a steady line the entry on top of the heap is the oldest.
LEMMA TopIsOldest ==
    ASSUME IndInv, steady, NEW e \in heap, Earliest(e)
    PROVE  \A f \in heap : e.n <= f.n
BY DEF IndInv, TypeOK, HeapIsQueue, Earliest

LEMMA HandOverInv == ASSUME IndInv, HandOver PROVE IndInv'
<1> USE DEF IndInv
<1> PICK e \in heap :
        Earliest(e) /\ e.at <= now /\ heap' = heap \ {e} /\ wire' = Append(wire, e.n)
  BY DEF HandOver, Earliest
<1>0. /\ worker = "running" /\ delivered' = delivered + 1
      /\ UNCHANGED <<steady, tiebreak, sent, dropped, refused, now, worker, wakeAt, closing>>
  BY DEF HandOver
<1>1. e.n \in Nat /\ e.at \in Nat /\ e.n \in Waiting
  BY DEF TypeOK, Waiting
<1>2. /\ wire' \in Seq(Nat) /\ Len(wire') = Len(wire) + 1
      /\ DOMAIN wire' = DOMAIN wire \cup {Len(wire) + 1}
      /\ \A i \in DOMAIN wire : wire'[i] = wire[i] /\ wire[i] \in Nat /\ i \in 1 .. Len(wire)
      /\ wire'[Len(wire) + 1] = e.n
      /\ OnWire' = OnWire \cup {e.n}
  BY <1>1, AppendedNumbers
<1>3. TypeOK'
  BY <1>0, <1>2 DEF TypeOK
<1>4. Accounted'
  <2>1. Waiting' = Waiting \ {e.n}
    BY PoppedNumbers
  <2>2. 0 .. tiebreak' - 1 = Waiting' \cup OnWire' \cup refused'
    BY <1>0, <1>1, <1>2, <2>1 DEF Accounted
  <2>3. (Waiting \cap OnWire)' = {} /\ (Waiting \cap refused)' = {} /\ (OnWire \cap refused)' = {}
    BY <1>0, <1>1, <1>2, <2>1 DEF Accounted
  <2>4. \A i \in DOMAIN wire : wire[i] # e.n
    BY <1>1 DEF Accounted, OnWire
  <2>5. \A i, j \in DOMAIN wire' : wire'[i] = wire'[j] => i = j
    BY <1>2, <2>4 DEF Accounted
  <2>6. \A x, y \in heap' : x.n = y.n => x = y
    BY DEF Accounted
  <2>7. delivered' = Len(wire')
    BY <1>0, <1>2 DEF Accounted
  <2> QED BY <1>0, <2>2, <2>3, <2>5, <2>6, <2>7 DEF Accounted
<1>5. HeapIsQueue' /\ KeepsOrder'
  <2> SUFFICES ASSUME steady' PROVE HeapIsQueue' /\ KeepsOrder'
    BY DEF HeapIsQueue, KeepsOrder
  <2>1. \A f \in heap' : f \in heap /\ f.n \in Nat /\ e.n < f.n
    <3>1. \A f \in heap : e.n <= f.n
      BY <1>0, TopIsOldest
    <3>2. \A f \in heap : e.n = f.n => e = f
      BY DEF Accounted
    <3> QED BY <1>1, <3>1, <3>2 DEF TypeOK
  <2>2. \A i \in DOMAIN wire : wire[i] < e.n
    BY <1>0 DEF HeapIsQueue
  <2>3. \A i, j \in DOMAIN wire : i < j => wire[i] < wire[j]
    BY <1>0 DEF KeepsOrder
  <2>4. \A i, j \in DOMAIN wire' : i < j => wire'[i] < wire'[j]
    BY <1>2, <2>2, <2>3
  <2>5. \A f \in heap' : \A i \in DOMAIN wire' : wire'[i] < f.n
    BY <1>0, <1>2, <2>1, <2>2 DEF HeapIsQueue
  <2>6. /\ \A x, y \in heap' : x.n < y.n => x.at <= y.at
        /\ \A x \in heap' : x.at <= now' + Delay
    BY <1>0 DEF HeapIsQueue
  <2> QED BY <2>4, <2>5, <2>6 DEF HeapIsQueue, KeepsOrder
<1> QED
  BY <1>0, <1>3, <1>4, <1>5 DEF WakesInTime, ExitedIsDone, Closed

LEMMA HandOverFailsInv == ASSUME IndInv, HandOverFails PROVE IndInv'
<1> USE DEF IndInv
<1> PICK e \in heap : heap' = heap \ {e} /\ refused' = refused \cup {e.n}
  BY DEF HandOverFails
<1>0. /\ worker = "running"
      /\ UNCHANGED <<steady, tiebreak, sent, dropped, delivered, wire, now, worker, wakeAt, closing>>
  BY DEF HandOverFails, counters
<1>1. TypeOK'
  BY <1>0 DEF TypeOK
<1>2. Accounted'
  <2>1. Waiting' = Waiting \ {e.n} /\ e.n \in Waiting
    BY PoppedNumbers DEF Waiting
  <2>2. OnWire' = OnWire
    BY <1>0 DEF OnWire
  <2>3. 0 .. tiebreak' - 1 = Waiting' \cup OnWire' \cup refused'
    BY <1>0, <2>1, <2>2 DEF Accounted
  <2>4. (Waiting \cap OnWire)' = {} /\ (Waiting \cap refused)' = {} /\ (OnWire \cap refused)' = {}
    BY <2>1, <2>2 DEF Accounted
  <2> QED BY <1>0, <2>3, <2>4 DEF Accounted
<1>3. HeapIsQueue' /\ KeepsOrder'
  BY <1>0 DEF HeapIsQueue, KeepsOrder
<1> QED
  BY <1>0, <1>1, <1>2, <1>3 DEF WakesInTime, ExitedIsDone, Closed

\* The steps that leave the heap and the wire alone.
LEMMA QuietInv ==
    ASSUME IndInv,
           \/ SendDropped \/ CloseCall \/ CloseSocket \/ Acquire \/ WaitEmpty
           \/ Exit \/ WaitTimed \/ WaitEnds \/ Tick \/ UNCHANGED vars
    PROVE  IndInv'
<1> USE DEF IndInv
<1>0. /\ UNCHANGED <<steady, heap, tiebreak, delivered, wire, refused>>
      /\ now' = now \/ now' = now + 1
      /\ \/ UNCHANGED <<sent, dropped>>
         \/ sent' = sent + 1 /\ dropped' = dropped + 1
  BY DEF SendDropped, CloseCall, CloseSocket, Acquire, WaitEmpty, Exit, WaitTimed,
         WaitEnds, Tick, vars, sendVars, counters
<1>1. TypeOK'
  <2>1. worker' \in {"running", "empty", "timed", "woken", "exited"}
        /\ closing' \in {"open", "joining", "closed"} /\ wakeAt' \in Nat
    BY DEF TypeOK, SendDropped, CloseCall, CloseSocket, Acquire, WaitEmpty, Exit,
           WaitTimed, WaitEnds, Tick, vars, sendVars, Notify, Earliest
  <2> QED BY <1>0, <2>1 DEF TypeOK
<1>2. WakesInTime' /\ ExitedIsDone'
  BY DEF TypeOK, WakesInTime, ExitedIsDone, Closed, SendDropped, CloseCall, CloseSocket,
         Acquire, WaitEmpty, Exit, ExitsWhenDone, WaitTimed, WaitEnds, Tick, vars,
         sendVars, Notify, Earliest, LockFree
<1>3. Accounted'
  <2>1. Waiting' = Waiting /\ OnWire' = OnWire
    BY <1>0 DEF Waiting, OnWire
  <2>2. (sent - dropped)' = sent - dropped
    BY <1>0 DEF TypeOK
  <2> QED BY <1>0, <2>1, <2>2 DEF Accounted
<1>4. HeapIsQueue' /\ KeepsOrder'
  BY <1>0 DEF TypeOK, HeapIsQueue, KeepsOrder
<1> QED BY <1>1, <1>2, <1>3, <1>4

LEMMA Step == IndInv /\ [Next]_vars => IndInv'
<1> SUFFICES ASSUME IndInv, [Next]_vars PROVE IndInv'
  OBVIOUS
<1>1. CASE SendQueued
  <2>1. PICK d \in Delays, k \in 1 .. 2 : Pushes(d, k)
    BY <1>1, SendPushes
  <2>2. d \in Nat /\ (steady => d = Delay)
    BY DelayIsNat DEF IndInv
  <2> QED BY <1>1, <2>1, <2>2, PushInv DEF SendQueued
<1>2. CASE HandOver
  BY <1>2, HandOverInv
<1>3. CASE HandOverFails
  BY <1>3, HandOverFailsInv
<1> QED
  BY <1>1, <1>2, <1>3, QuietInv DEF Next, Sendto, Close, DeliverLoop

THEOREM Inductive == Spec => []IndInv
BY Initially, Step, PTL DEF Spec

-----------------------------------------------------------------------------
(* The results.                                                            *)

\* Every variable keeps its type, for any delays and any calls.
THEOREM TypeCorrect == Spec => []TypeOK
BY Inductive, PTL DEF IndInv

\* The delivery thread never sleeps past the packet that is due first.
THEOREM NeverOversleeps == Spec => []WakesInTime
BY Inductive, PTL DEF IndInv

\* No copy is lost, repeated or forgotten, and the counters agree.
THEOREM NothingLost == Spec => []Accounted
BY Inductive, PTL DEF IndInv

\* The socket is closed only when nothing is queued any more.
THEOREM CloseIsComplete == Spec => []CloseDelivers
<1>1. IndInv => CloseDelivers
  BY DEF IndInv, ExitedIsDone, CloseDelivers
<1> QED BY <1>1, Inductive, PTL

\* With a constant delay packets leave in the order of the calls.
THEOREM OrderKept == Spec => []KeepsOrder
BY Inductive, PTL DEF IndInv

-----------------------------------------------------------------------------
(* The refinement.                                                         *)

LEMMA LineInit == Init => Line!Init
BY DEF Init, Line!Init, Waiting

LEMMA AcceptStep == ASSUME IndInv, SendQueued PROVE Line!Accept
<1> PICK d \in Delays, k \in 1 .. 2 : Pushes(d, k)
  BY SendPushes
<1>1. Waiting' = Waiting \cup (tiebreak .. tiebreak + k - 1)
  BY PushedNumbers, DelayIsNat DEF IndInv
<1>2. k \in 0 .. 2
  OBVIOUS
<1> QED BY <1>1, <1>2 DEF Line!Accept, Pushes

\* What leaves is the oldest when the line keeps the order.
LEMMA TopMayLeave ==
    ASSUME IndInv, NEW e \in heap, Earliest(e)
    PROVE  e.n \in Waiting /\ Line!MayLeave(e.n)
<1>1. e.n \in Waiting
  BY DEF Waiting
<1>2. steady => \A d \in Waiting : e.n <= d
  BY TopIsOldest DEF Waiting
<1> QED BY <1>1, <1>2 DEF Line!MayLeave

LEMMA LineStep == IndInv /\ [Next]_vars => [Line!Next]_(Line!lineVars)
<1> SUFFICES ASSUME IndInv, [Next]_vars PROVE [Line!Next]_(Line!lineVars)
  OBVIOUS
<1> USE DEF Line!Next, Line!lineVars
<1>1. CASE SendQueued
  BY <1>1, AcceptStep
<1>2. CASE HandOver
  <2>1. PICK e \in heap :
            Earliest(e) /\ heap' = heap \ {e} /\ wire' = Append(wire, e.n)
    BY <1>2 DEF HandOver
  <2>2. Waiting' = Waiting \ {e.n} /\ e.n \in Waiting /\ Line!MayLeave(e.n)
    BY <2>1, PoppedNumbers, TopMayLeave DEF IndInv
  <2> QED BY <1>2, <2>1, <2>2 DEF HandOver, Line!Deliver
<1>3. CASE HandOverFails
  <2>1. PICK e \in heap : Earliest(e) /\ heap' = heap \ {e}
    BY <1>3 DEF HandOverFails
  <2>2. Waiting' = Waiting \ {e.n} /\ e.n \in Waiting /\ Line!MayLeave(e.n)
    BY <2>1, PoppedNumbers, TopMayLeave DEF IndInv
  <2> QED BY <1>3, <2>2 DEF HandOverFails, Line!Lose
<1>4. CASE \/ SendDropped \/ CloseCall \/ CloseSocket \/ Acquire \/ WaitEmpty
           \/ Exit \/ WaitTimed \/ WaitEnds \/ Tick \/ UNCHANGED vars
  <2>1. UNCHANGED <<steady, heap, tiebreak, wire>>
    BY <1>4 DEF SendDropped, CloseCall, CloseSocket, Acquire, WaitEmpty, Exit,
                WaitTimed, WaitEnds, Tick, vars, sendVars
  <2> QED BY <2>1 DEF Waiting
<1> QED BY <1>1, <1>2, <1>3, <1>4 DEF Next, Sendto, Close, DeliverLoop

\* The channel implements the line, for every delay, jitter and loss.
THEOREM Implements == Spec => ImplementsLine
<1>1. Spec => Line!Spec
  BY LineInit, LineStep, Inductive, PTL DEF Spec, Line!Spec
<1> QED BY <1>1 DEF ImplementsLine
=============================================================================
