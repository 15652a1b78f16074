------------------------------- MODULE Channel -------------------------------
(***************************************************************************)
(* channel.py: sendto() decides the fate of a packet and puts its copies   *)
(* on a heap with the time at which they leave; a delivery thread hands    *)
(* them to the socket when their time has come; close() waits for it.      *)
(*                                                                         *)
(* All state is guarded by the condition variable _cond.  The delivery     *)
(* thread holds its lock from the moment it wakes until it waits, so that  *)
(* the other threads step only while it waits or is about to wake up.      *)
(*                                                                         *)
(* A copy is known by its tiebreak number.  The five draws of sendto() are *)
(* what they decide: the copies (loss, duplication) and the delay          *)
(* (delay + jitter + reorder, not below 0).  Which bit corruption flips is *)
(* in module NullTransport; recvfrom(), which only reads the socket, is in *)
(* the transports.                                                         *)
(***************************************************************************)
EXTENDS Integers, Sequences, FiniteSets

CONSTANTS
    Delay,        \* the constructor's delay
    Spread,       \* what jitter and reorder add to it
    MayLose,      \* loss > 0
    LastSend,     \* bound: time of the last sendto()
    MaxSends      \* bound: number of sendto() calls

ASSUME DelayAssumption == Delay \in Nat /\ Spread \subseteq Int
ASSUME SwitchAssumption == MayLose \in BOOLEAN
ASSUME BoundAssumption == LastSend \in Nat /\ MaxSends \in Nat

VARIABLES
    steady,     \* the constructor got jitter = reorder = 0
    now,        \* time.monotonic()
    heap,       \* _heap
    tiebreak,   \* next value of _tiebreak
    sent,       \* _sent
    dropped,    \* _dropped
    delivered,  \* _delivered
    worker,     \* the delivery thread: "running" with the lock, waiting at
                \* "empty" or until the time wakeAt at "timed", "woken", "exited"
    wakeAt,
    closing,    \* close(): "open", "joining" the thread, "closed" the socket
    wire,       \* copies handed to the socket, in order
    refused     \* copies for which it raised OSError

counters == <<sent, dropped, delivered>>
sendVars == <<steady, heap, tiebreak, counters, wire, refused>>
vars == <<sendVars, now, worker, wakeAt, closing>>

Closed == closing # "open"      \* _closed

\* What delay + offset + reorder_hold can be, with the max(now, ...) of sendto().
Delays ==
    IF steady THEN {Delay}
    ELSE {IF Delay + x < 0 THEN 0 ELSE Delay + x : x \in Spread}

TypeOK ==
    /\ steady \in BOOLEAN
    /\ now \in Nat /\ tiebreak \in Nat /\ wakeAt \in Nat
    /\ heap \subseteq [at : Nat, n : Nat]
    /\ sent \in Nat /\ dropped \in Nat /\ delivered \in Nat
    /\ worker \in {"running", "empty", "timed", "woken", "exited"}
    /\ closing \in {"open", "joining", "closed"}
    /\ wire \in Seq(Nat)
    /\ refused \subseteq Nat

Init ==
    /\ steady \in BOOLEAN
    /\ now = 0 /\ heap = {} /\ tiebreak = 0
    /\ sent = 0 /\ dropped = 0 /\ delivered = 0
    /\ worker = "woken" /\ wakeAt = 0
    /\ closing = "open"
    /\ wire = <<>> /\ refused = {}

LockFree == worker # "running"

-----------------------------------------------------------------------------
(* The threads that use the channel.                                       *)

\* Fault: sendto() does not notify.
NoNotify == worker

\* _cond.notify()
Notify == IF worker \in {"empty", "timed"} THEN "woken" ELSE worker

SendDropped ==
    /\ LockFree /\ ~Closed
    /\ now <= LastSend /\ sent < MaxSends
    /\ MayLose
    /\ sent' = sent + 1 /\ dropped' = dropped + 1
    /\ UNCHANGED <<steady, heap, tiebreak, delivered, wire, refused, now,
                   worker, wakeAt, closing>>

\* Fault: the two copies of a duplicated packet get one number.
OneNumber(k) == tiebreak + 1
NumbersAfter(k) == tiebreak + k

\* Duplication pushes two entries with the same time.
SendQueued ==
    /\ LockFree /\ ~Closed
    /\ now <= LastSend /\ sent < MaxSends
    /\ sent' = sent + 1
    /\ \E d \in Delays, k \in 1 .. 2 :
          /\ heap' = heap \cup [at : {now + d}, n : tiebreak .. tiebreak + k - 1]
          /\ tiebreak' = NumbersAfter(k)
    /\ worker' = Notify
    /\ UNCHANGED <<steady, dropped, delivered, wire, refused, now, wakeAt,
                   closing>>

CloseCall ==
    /\ LockFree /\ ~Closed
    /\ closing' = "joining"
    /\ worker' = Notify
    /\ UNCHANGED <<sendVars, now, wakeAt>>

CloseSocket ==
    /\ closing = "joining" /\ worker = "exited"
    /\ closing' = "closed"
    /\ UNCHANGED <<sendVars, now, worker, wakeAt>>

-----------------------------------------------------------------------------
(* The delivery thread, _deliver_loop.                                     *)

\* It gets the lock, at its start and after each wait.
Acquire ==
    /\ worker = "woken"
    /\ worker' = "running"
    /\ UNCHANGED <<sendVars, now, wakeAt, closing>>

WaitEmpty ==
    /\ worker = "running" /\ heap = {} /\ ~Closed
    /\ worker' = "empty"
    /\ UNCHANGED <<sendVars, now, wakeAt, closing>>

\* Fault: the thread ends as soon as the channel is closed.
ExitsAtOnce == Closed
ExitsWhenDone == heap = {} /\ Closed

Exit ==
    /\ worker = "running" /\ ExitsWhenDone
    /\ worker' = "exited"
    /\ UNCHANGED <<sendVars, now, wakeAt, closing>>

\* Fault: entries with equal times are in no order.
EarliestByTime(e) == e \in heap /\ \A f \in heap : e.at <= f.at

\* Entry e is _heap[0].
Earliest(e) ==
    /\ e \in heap
    /\ \A f \in heap : e.at < f.at \/ (e.at = f.at /\ e.n <= f.n)

WaitTimed ==
    /\ worker = "running"
    /\ \E e \in heap : Earliest(e) /\ now < e.at /\ wakeAt' = e.at
    /\ worker' = "timed"
    /\ UNCHANGED <<sendVars, now, closing>>

\* The wait ends, at that time or later.
WaitEnds ==
    /\ worker = "timed" /\ wakeAt <= now
    /\ worker' = "woken"
    /\ UNCHANGED <<sendVars, now, wakeAt, closing>>

HandOver ==
    /\ worker = "running"
    /\ \E e \in heap :
          /\ Earliest(e) /\ e.at <= now
          /\ heap' = heap \ {e}
          /\ wire' = Append(wire, e.n)
    /\ delivered' = delivered + 1
    /\ UNCHANGED <<steady, tiebreak, sent, dropped, refused, now, worker,
                   wakeAt, closing>>

\* The socket raises OSError.
HandOverFails ==
    /\ worker = "running"
    /\ \E e \in heap :
          /\ Earliest(e) /\ e.at <= now
          /\ heap' = heap \ {e}
          /\ refused' = refused \cup {e.n}
    /\ UNCHANGED <<steady, tiebreak, counters, wire, now, worker, wakeAt,
                   closing>>

-----------------------------------------------------------------------------
\* Time passes until everything queued is due.
Tick ==
    /\ \E d \in Delays : now < LastSend + d
    /\ now' = now + 1
    /\ UNCHANGED <<sendVars, worker, wakeAt, closing>>

Sendto == SendDropped \/ SendQueued
Close == CloseCall \/ CloseSocket
DeliverLoop == Acquire \/ WaitEmpty \/ Exit \/ WaitTimed \/ WaitEnds
                  \/ HandOver \/ HandOverFails

Next == Sendto \/ Close \/ DeliverLoop \/ Tick

Spec == Init /\ [][Next]_vars

\* Time passes, the delivery thread runs, and so does a thread in close().
Fairness == WF_vars(Tick) /\ WF_vars(DeliverLoop) /\ WF_vars(CloseSocket)

FairSpec == Spec /\ Fairness

-----------------------------------------------------------------------------
(* Safety.                                                                 *)

\* The delivery thread never sleeps past the packet that is due first, also
\* when that packet was pushed while it slept, nor through close() when
\* nothing is due
\* (_deliver_loop, the notify() of sendto() and close()).
WakesInTime ==
    /\ worker = "timed" => \A e \in heap : wakeAt <= e.at
    /\ worker = "empty" => ~Closed /\ heap = {}

Waiting == {e.n : e \in heap}
OnWire == {wire[i] : i \in DOMAIN wire}

\* Every copy made is waiting, was handed over once, or was refused by the
\* socket, and the counters say the same (sent, dropped, delivered).
Accounted ==
    /\ 0 .. tiebreak - 1 = Waiting \cup OnWire \cup refused
    /\ Waiting \cap OnWire = {} /\ Waiting \cap refused = {} /\ OnWire \cap refused = {}
    /\ \A e, f \in heap : e.n = f.n => e = f
    /\ \A i, j \in DOMAIN wire : wire[i] = wire[j] => i = j
    /\ delivered = Len(wire)
    /\ sent - dropped <= tiebreak /\ tiebreak <= 2 * (sent - dropped)

\* close() leaves nothing behind: the socket is closed only when every packet
\* that was queued has been handed to it (docstring of close()).
CloseDelivers == closing = "closed" => heap = {}

\* Without jitter and reorder the packets leave in the order of the sendto()
\* calls, those with equal times too ("The tiebreak keeps equal deadlines in
\* send order").
KeepsOrder == steady => \A i, j \in DOMAIN wire : i < j => wire[i] < wire[j]

Line == INSTANCE DelayLine WITH
            ordered <- steady, copies <- tiebreak, transit <- Waiting, out <- wire

\* The channel is a line that delays, loses and repeats packets.
ImplementsLine == Line!Spec

-----------------------------------------------------------------------------
(* Liveness.                                                               *)

\* Every packet that is queued leaves, whatever is queued before it or after.
EveryCopyLeaves ==
    \A n \in 0 .. 2 * MaxSends - 1 :
        (n \in Waiting) ~> (n \notin Waiting)

\* close() returns.
CloseEnds == closing = "joining" ~> closing = "closed"
=============================================================================
