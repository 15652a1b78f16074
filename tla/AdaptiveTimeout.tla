---------------------------- MODULE AdaptiveTimeout ----------------------------
(***************************************************************************)
(* sendto() of transport/stop_and_wait.py with adaptive=True, in time: its *)
(* attempts, the estimator it feeds, and a path whose round trip takes a   *)
(* time that may change, and which loses some packets but keeps their      *)
(* order. It repeats none: in this order the second copy of a reply is     *)
(* read before any reply to a later packet. The peer answers every copy;   *)
(* the ACK of a packet with bit b carries 1-b whatever the peer's state    *)
(* is, so a reply is here the bit it answers, and the time left until it   *)
(* can be read; one with no time left is in the socket buffer.             *)
(*                                                                         *)
(* Time passes in the steps that wait for it: an attempt waits until an    *)
(* ACK with its bit can be read or its timeout is over, and the            *)
(* application may pause between two calls.                                *)
(***************************************************************************)
EXTENDS Rto, Sequences

CONSTANTS
    Rtt,          \* round trip times the path can have
    Pause,        \* times the application may spend between two calls
    MaxRetries,   \* MAX_RETRIES
    MaxLosses,    \* bound: replies, or what they would answer, lost
    MaxChanges    \* bound: changes of the round trip time

ASSUME PathAssumption ==
    /\ Rtt \subseteq Nat \ {0} /\ Pause \subseteq Nat
    /\ MaxRetries \in Nat \ {0} /\ MaxLosses \in Nat /\ MaxChanges \in Nat

VARIABLES
    estimator,   \* _rto[addr]
    bit,         \* _send_bit[addr]
    inSend,      \* the thread is in sendto(), and waits
    attempt,     \* of the last call
    replies,     \* ACKs on their way or in the socket buffer, in their order
    rtt,         \* the path now
    losses, changes,
    last,        \* history: last RTT passed to sample(), 0 for none
    raised       \* history: a sendto() raised TimeoutError

callVars == <<estimator, bit, inSend, attempt, replies>>
pathVars == <<rtt, losses, changes>>
historyVars == <<last, raised>>
timeoutVars == <<callVars, pathVars, historyVars>>

Replies == [bit : 0 .. 1, left : Int]

TypeOK ==
    /\ estimator \in Estimators
    /\ bit \in 0 .. 1 /\ inSend \in BOOLEAN /\ attempt \in 0 .. MaxRetries - 1
    /\ replies \in Seq(Replies)
    /\ rtt \in Rtt /\ losses \in 0 .. MaxLosses /\ changes \in 0 .. MaxChanges
    /\ last \in Nat /\ raised \in BOOLEAN

Init ==
    /\ estimator = NewEstimator
    /\ bit = 0 /\ inSend = FALSE /\ attempt = 0 /\ replies = <<>>
    /\ rtt \in Rtt /\ losses = 0 /\ changes = 0
    /\ last = 0 /\ raised = FALSE

-----------------------------------------------------------------------------
\* Time t passes for replies S.
After(S, t) == [i \in DOMAIN S |-> [S[i] EXCEPT !.left = @ - t]]

\* When the reply to a copy can be read: not before the replies S.
Arrival(S) == IF S = <<>> THEN rtt ELSE Larger(rtt, S[Len(S)].left)

\* A copy is sent, behind replies S: it is answered, or one of the two is lost.
SendCopy(S) ==
    \/ /\ replies' = Append(S, [bit |-> bit, left |-> Arrival(S)])
       /\ UNCHANGED losses
    \/ replies' = S /\ losses < MaxLosses /\ losses' = losses + 1

SendCall ==
    /\ ~inSend
    /\ inSend' = TRUE /\ attempt' = 0
    /\ \E t \in Pause : SendCopy(After(replies, t))
    /\ UNCHANGED <<estimator, bit, rtt, changes, historyVars>>

\* Reply i is an ACK that sendto() would accept within this attempt.
InTime(i) == replies[i].bit = bit /\ replies[i].left < estimator.rto

\* What is left of the replies at time t, when the first n were read.
Unread(n, t) == After(SubSeq(replies, n + 1, Len(replies)), t)

\* Fault: every attempt is measured.
AnyAttempt == TRUE
\* Karn's algorithm: only the ACK of a first attempt gives a sample.
Fresh == attempt = 0

\* The measured time is at least 1e-4 s; a tick here.
Measured(i) == Larger(1, replies[i].left)

SendReturns ==
    /\ inSend
    /\ \E i \in DOMAIN replies :
          /\ InTime(i) /\ \A k \in 1 .. i - 1 : ~InTime(k)
          /\ estimator' = IF Fresh THEN Sampled(estimator, Measured(i)) ELSE estimator
          /\ last' = IF Fresh THEN Measured(i) ELSE last
          /\ replies' = Unread(i, Larger(0, replies[i].left))
    /\ bit' = 1 - bit /\ inSend' = FALSE
    /\ UNCHANGED <<attempt, pathVars, raised>>

\* The first n replies came within the attempt.
CameInTime(n) ==
    /\ \A i \in 1 .. n : replies[i].left < estimator.rto
    /\ \A i \in n + 1 .. Len(replies) : estimator.rto <= replies[i].left

\* The timeout of an attempt: back off, and send again or give up.
AttemptTimeout ==
    /\ inSend /\ \A i \in DOMAIN replies : ~InTime(i)
    /\ estimator' = BackedOff(estimator)
    /\ \E n \in 0 .. Len(replies) :
          /\ CameInTime(n)
          /\ \/ /\ attempt + 1 < MaxRetries
                /\ attempt' = attempt + 1
                /\ SendCopy(Unread(n, estimator.rto))
                /\ UNCHANGED <<inSend, raised>>
             \/ /\ attempt + 1 = MaxRetries
                /\ replies' = Unread(n, estimator.rto)
                /\ inSend' = FALSE /\ raised' = TRUE
                /\ UNCHANGED <<attempt, losses>>
    /\ UNCHANGED <<bit, rtt, changes, last>>

\* The path gets slower or faster for the packets sent from now on.
PathChanges ==
    /\ changes < MaxChanges
    /\ changes' = changes + 1
    /\ \E r \in Rtt : r # rtt /\ rtt' = r
    /\ UNCHANGED <<callVars, losses, historyVars>>

Next == SendCall \/ SendReturns \/ AttemptTimeout \/ PathChanges

Spec == Init /\ [][Next]_timeoutVars

\* A thread in sendto() goes on.  The application need not call again.
FairSpec == Spec /\ WF_timeoutVars(SendReturns \/ AttemptTimeout)

-----------------------------------------------------------------------------
\* The timeout respects its limits, and is never below the round trip last
\* measured, however much faster the path was before: a path that got slower
\* does not make every packet go out twice (sample(), on_timeout()).
CoversLastSample ==
    /\ MinRto <= estimator.rto /\ estimator.rto <= MaxRto
    /\ Smaller(last, MaxRto) <= estimator.rto

\* On a path with one round trip time, what is measured is that time, whatever
\* was lost or timed out too early before, as long as no call has raised: an
\* ACK that a retransmission or an earlier datagram may have caused is not
\* measured (sendto(), "Karn: attempt 0 is the fresh transmission").
MeasuresThePath ==
    changes = 0 /\ ~raised => last \in {0, rtt}

\* Once a path with one round trip time has been measured, every ACK that a call
\* waits for comes within the attempt: only a loss makes it send again, however
\* far initial_rto is from the truth (sample(), on_timeout()).
OnlyLossTimesOut ==
    changes = 0 /\ ~raised /\ last # 0 /\ rtt < MaxRto
        => \A i \in DOMAIN replies : replies[i].bit = bit => replies[i].left < estimator.rto

\* When the path neither loses packets nor changes any more, premature
\* timeouts end, whatever the estimator has learnt before and how far it is
\* from the truth.
TimeoutsEnd == <>[](inSend => attempt = 0)
-----------------------------------------------------------------------------
(* The inductive invariants behind MeasuresThePath and OnlyLossTimesOut.   *)

Ordered(S) == \A i, j \in DOMAIN S : i < j => S[i].left <= S[j].left
WithinRtt(S) == \A i \in DOMAIN S : S[i].left <= rtt
Answers(S) == {i \in DOMAIN S : S[i].bit = bit}
AnswersLast(S) == \A i \in Answers(S), j \in DOMAIN S : i < j => j \in Answers(S)

\* No reply takes longer than a round trip; the ACKs that a call waits for come
\* after all others, and there is none before the call; the one that answers a
\* first attempt has all of the round trip before it.
SteadyPath ==
    /\ WithinRtt(replies) /\ AnswersLast(replies)
    /\ ~inSend => Answers(replies) = {}
    /\ attempt = 0 => \A i \in Answers(replies) : replies[i].left = rtt
    /\ last \in {0, rtt}

PathInv == Ordered(replies) /\ (changes = 0 /\ ~raised => SteadyPath)

\* The average of a path with one round trip time is that time.
AverageInv ==
    changes = 0 /\ ~raised =>
        IF last = 0 THEN estimator.srtt = 0
        ELSE estimator.srtt = rtt /\ Smaller(MaxRto, rtt + 1) <= estimator.rto
=============================================================================
