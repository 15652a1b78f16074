----------------------------- MODULE RttSampling -----------------------------
(***************************************************************************)
(* What go_back_n.py and selective_repeat.py remember of the packets to    *)
(* measure round trips when they are adaptive: when each was sent, and     *)
(* whether it was retransmitted.  Clock readings are left out: a packet    *)
(* has a send time or it has none.  What the estimator makes of a sample   *)
(* is in module AdaptiveTimeout.                                           *)
(***************************************************************************)
EXTENDS Naturals

CONSTANT Adaptive    \* adaptive, of __init__

ASSUME AdaptiveAssumption == Adaptive \in BOOLEAN

VARIABLES
    sendTime,        \* keys of _send_time[addr]
    retransmitted,   \* _retransmitted[addr]
    sampled,         \* history: packets whose ACK gave a sample
    resent           \* history: packets put on the wire more than once

rttVars == <<sendTime, retransmitted, sampled, resent>>

RttTypeOK == \A S \in {sendTime, retransmitted, sampled, resent} : S \subseteq Nat

RttInit == sendTime = {} /\ retransmitted = {} /\ sampled = {} /\ resent = {}

\* Packets S enter the window.
RecordSent(S) ==
    /\ sendTime' = sendTime \cup S
    /\ UNCHANGED <<retransmitted, sampled, resent>>

\* Packets in "marked" are known to be ambiguous from now on; those in "again"
\* are put on the wire once more.
RecordResent(marked, again) ==
    /\ retransmitted' = retransmitted \cup marked
    /\ resent' = resent \cup again
    /\ UNCHANGED <<sendTime, sampled>>

\* Fault: every ACK gives a sample.
SamplesAlways(s) == Adaptive /\ s \in sendTime
\* The ACK of packet s gives a sample: Karn's algorithm.
Samples(s) == Adaptive /\ s \in sendTime /\ s \notin retransmitted

\* Fault: nothing is forgotten.
KeepsAll(S, gone) == S
\* What is remembered of S when packets gone are acknowledged.
Remaining(S, gone) == IF Adaptive THEN S \ gone ELSE S

\* An ACK that stands for packet s arrives; packets gone leave the window.
RecordAcked(s, gone) ==
    /\ sampled' = IF Samples(s) THEN sampled \cup {s} ELSE sampled
    /\ sendTime' = Remaining(sendTime, gone)
    /\ retransmitted' = Remaining(retransmitted, gone)
    /\ UNCHANGED resent

\* Karn's algorithm: "RTT samples from retransmitted packets are never passed
\* to sample()" (rto.py), since their ACK may belong to any of the copies,
\* whatever was lost, acknowledged late, given up or sent since.
KarnsRule == sampled \cap resent = {}
=============================================================================
