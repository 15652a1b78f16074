------------------------------- MODULE RtoProofs -------------------------------
(***************************************************************************)
(* Theorems about the estimator, and about the sendto() that feeds it, for *)
(* every choice of the limits, of the round trips, pauses and bounds.      *)
(***************************************************************************)
EXTENDS AdaptiveTimeout, TLAPS

\* What the clamp gives.
LEMMA EstimateType ==
  ASSUME NEW s \in Nat, NEW d \in Nat
  PROVE  /\ Estimate(s, d) \in Estimators
         /\ Smaller(s + Larger(Granularity, d), MaxRto) <= Estimate(s, d).rto
  BY RtoAssumption DEF Estimate, Estimators, Larger, Smaller

\* The averages after a sample; the new ones add up to at least the sample.
LEMMA SmoothedCovers ==
  ASSUME NEW s \in Nat, NEW d \in Nat, NEW r \in Nat
  PROVE  /\ (7 * s + r + 7) \div 8 \in Nat
         /\ (3 * d + 3) \div 4 + Distance(s, r) \in Nat
         /\ r <= (7 * s + r + 7) \div 8 + ((3 * d + 3) \div 4 + Distance(s, r))
<1>1. (7 * s + r + 7) \div 8 \in Nat /\ (3 * d + 3) \div 4 \in Nat
  OBVIOUS
<1>2. CASE s < r
  <2>1. s <= (7 * s + r + 7) \div 8
    BY <1>2
  <2> QED BY <1>1, <1>2, <2>1 DEF Distance
<1>3. CASE r <= s
  <2>1. r <= (7 * s + r + 7) \div 8
    BY <1>3
  <2> QED BY <1>1, <1>3, <2>1 DEF Distance
<1> QED BY <1>2, <1>3

\* After sample(rtt) the timeout is at least rtt, unless max_rto is less.
THEOREM SampleIsCovered ==
  ASSUME NEW e \in Estimators, NEW r \in Nat \ {0}
  PROVE  /\ Sampled(e, r) \in Estimators
         /\ Smaller(r, MaxRto) <= Sampled(e, r).rto
<1> USE RtoAssumption DEF Larger, Smaller
<1>1. CASE e.srtt = 0
  <2>1. Sampled(e, r) = Estimate(r, 2 * r) /\ 2 * r \in Nat
    BY <1>1 DEF Sampled
  <2>2. Estimate(r, 2 * r) \in Estimators
    BY <2>1, EstimateType
  <2>3. Smaller(r + Larger(Granularity, 2 * r), MaxRto) <= Estimate(r, 2 * r).rto
    BY <2>1, EstimateType
  <2>4. Estimate(r, 2 * r).rto \in Nat
    BY <2>2 DEF Estimators
  <2> QED BY <2>1, <2>2, <2>3, <2>4
<1>2. CASE e.srtt # 0
  <2> DEFINE s == (7 * e.srtt + r + 7) \div 8
             d == (3 * e.deviation + 3) \div 4 + Distance(e.srtt, r)
  <2>1. e.srtt \in Nat /\ e.deviation \in Nat
    BY DEF Estimators
  <2>2. s \in Nat /\ d \in Nat /\ r <= s + d
    BY <2>1, SmoothedCovers
  <2>3. Sampled(e, r) = Estimate(s, d)
    BY <1>2 DEF Sampled, Smoothed
  <2> HIDE DEF s, d
  <2>4. Estimate(s, d) \in Estimators
    BY <2>2, EstimateType
  <2>5. Smaller(s + Larger(Granularity, d), MaxRto) <= Estimate(s, d).rto
    BY <2>2, EstimateType
  <2>6. Estimate(s, d).rto \in Nat
    BY <2>4 DEF Estimators
  <2> QED BY <2>2, <2>3, <2>4, <2>5, <2>6
<1> QED BY <1>1, <1>2

\* on_timeout() keeps the averages, and the timeout does not get shorter.
LEMMA BackedOffGrows ==
  ASSUME NEW e \in Estimators
  PROVE  BackedOff(e) \in Estimators /\ e.rto <= BackedOff(e).rto
<1>1. e.rto \in Nat /\ MinRto <= e.rto /\ e.rto <= MaxRto
  BY RtoAssumption DEF Estimators
<1>2. Smaller(MaxRto, 2 * e.rto) \in MinRto .. MaxRto
  BY <1>1, RtoAssumption DEF Smaller
<1>3. BackedOff(e).rto = Smaller(MaxRto, 2 * e.rto)
  BY DEF BackedOff, Estimators
<1> QED BY <1>1, <1>2, <1>3, RtoAssumption DEF BackedOff, Estimators, Smaller

-----------------------------------------------------------------------------
(* The timeout of sendto() covers the last sample.                         *)


\* What the invariants need of the types.
Types ==
    /\ estimator \in Estimators /\ last \in Nat
    /\ replies \in Seq(Replies)
    /\ bit \in 0 .. 1 /\ rtt \in Rtt /\ inSend \in BOOLEAN
    /\ attempt \in Nat /\ changes \in Nat /\ raised \in BOOLEAN

EstimatorInv == Types /\ CoversLastSample

LEMMA TypesFacts ==
  ASSUME Types
  PROVE  /\ estimator.rto \in Nat /\ 0 < estimator.rto
         /\ rtt \in Nat /\ 0 < rtt
         /\ MaxRto \in Nat /\ MinRto \in Nat
         /\ Len(replies) \in Nat /\ DOMAIN replies = 1 .. Len(replies)
         /\ \A i \in DOMAIN replies : replies[i] \in Replies
         /\ \A i \in DOMAIN replies : replies[i].left \in Int /\ replies[i].bit \in 0 .. 1
<1>1. \A i \in DOMAIN replies : replies[i] \in Replies
  BY DEF Types
<1>2. \A r \in Replies : r.left \in Int /\ r.bit \in 0 .. 1
  BY DEF Replies
<1> QED BY <1>1, <1>2, RtoAssumption, PathAssumption DEF Types, Estimators

\* Time changes neither the number of replies nor their bits.
LEMMA AfterEntries ==
  ASSUME NEW S \in Seq(Replies), NEW t \in Int
  PROVE  /\ After(S, t) \in Seq(Replies)
         /\ Len(After(S, t)) = Len(S)
         /\ \A i \in 1 .. Len(S) : /\ After(S, t)[i].bit = S[i].bit
                                   /\ After(S, t)[i].left = S[i].left - t
<1>1. \A r \in Replies :
        /\ [r EXCEPT !.left = @ - t] \in Replies
        /\ [r EXCEPT !.left = @ - t].bit = r.bit
        /\ [r EXCEPT !.left = @ - t].left = r.left - t
  BY DEF Replies
<1>2. After(S, t) = [i \in 1 .. Len(S) |-> [S[i] EXCEPT !.left = @ - t]]
  BY DEF After
<1>3. \A i \in 1 .. Len(S) : S[i] \in Replies
  OBVIOUS
<1>4. After(S, t) \in [1 .. Len(S) -> Replies]
  BY <1>1, <1>2, <1>3
<1>5. After(S, t) \in Seq(Replies) /\ Len(After(S, t)) = Len(S)
  BY <1>4
<1> QED BY <1>1, <1>2, <1>3, <1>5

\* The replies that are left are the last ones, nearer by the time that passed.
LEMMA UnreadEntries ==
  ASSUME Types, NEW n \in 0 .. Len(replies), NEW t \in Int
  PROVE  /\ Unread(n, t) \in Seq(Replies)
         /\ Len(Unread(n, t)) = Len(replies) - n
         /\ \A i \in 1 .. Len(replies) - n :
               /\ n + i \in DOMAIN replies
               /\ Unread(n, t)[i].bit = replies[n + i].bit
               /\ Unread(n, t)[i].left = replies[n + i].left - t
<1> DEFINE S == SubSeq(replies, n + 1, Len(replies))
<1>0. replies \in Seq(Replies) /\ Len(replies) \in Nat
  BY DEF Types
<1>1. /\ S \in Seq(Replies) /\ Len(S) = Len(replies) - n
      /\ \A i \in 1 .. Len(replies) - n : S[i] = replies[n + i] /\ n + i \in DOMAIN replies
  BY <1>0
<1> HIDE DEF S
<1>2. /\ After(S, t) \in Seq(Replies) /\ Len(After(S, t)) = Len(S)
      /\ \A i \in 1 .. Len(S) : /\ After(S, t)[i].bit = S[i].bit
                                /\ After(S, t)[i].left = S[i].left - t
  BY <1>1, AfterEntries
<1>3. Unread(n, t) = After(S, t)
  BY DEF Unread, S
<1> QED BY <1>0, <1>1, <1>2, <1>3

\* Nothing is added but the reply to the copy, behind all others.
LEMMA SendCopyEntries ==
  ASSUME Types, NEW S \in Seq(Replies), SendCopy(S)
  PROVE  /\ Arrival(S) \in Int /\ rtt <= Arrival(S)
         /\ S # <<>> => S[Len(S)].left <= Arrival(S)
         /\ Arrival(S) = rtt \/ (S # <<>> /\ Arrival(S) = S[Len(S)].left)
         /\ replies' \in Seq(Replies)
         /\ \A i \in 1 .. Len(S) : replies'[i] = S[i]
         /\ \/ Len(replies') = Len(S)
            \/ /\ Len(replies') = Len(S) + 1
               /\ replies'[Len(S) + 1].bit = bit
               /\ replies'[Len(S) + 1].left = Arrival(S)
<1>1. S # <<>> => S[Len(S)].left \in Int
  <2>1. \A r \in Replies : r.left \in Int
    BY DEF Replies
  <2>2. S # <<>> => S[Len(S)] \in Replies
    OBVIOUS
  <2> QED BY <2>1, <2>2
<1>2. /\ Arrival(S) \in Int /\ rtt <= Arrival(S)
      /\ S # <<>> => S[Len(S)].left <= Arrival(S)
      /\ Arrival(S) = rtt \/ (S # <<>> /\ Arrival(S) = S[Len(S)].left)
  BY <1>1, TypesFacts DEF Arrival, Larger
<1>3. [bit |-> bit, left |-> Arrival(S)] \in Replies
  BY <1>2 DEF Replies, Types
<1>4. replies' = S \/ replies' = Append(S, [bit |-> bit, left |-> Arrival(S)])
  BY DEF SendCopy
<1> QED BY <1>2, <1>3, <1>4

LEMMA EstimatorInvNext ==
  ASSUME EstimatorInv, [Next]_timeoutVars
  PROVE  EstimatorInv'
<1>0. /\ Types /\ Smaller(last, MaxRto) <= estimator.rto
      /\ estimator.rto \in Nat /\ MaxRto \in Nat /\ MinRto \in Nat
  BY TypesFacts DEF EstimatorInv, CoversLastSample
<1>1. CASE SendCall
  <2>1. PICK t \in Pause : SendCopy(After(replies, t))
    BY <1>1 DEF SendCall
  <2>2. After(replies, t) \in Seq(Replies)
    BY <1>0, AfterEntries, PathAssumption DEF Types
  <2>3. replies' \in Seq(Replies)
    BY <1>0, <2>1, <2>2, SendCopyEntries
  <2> QED
    BY <1>0, <1>1, <2>3 DEF SendCall, EstimatorInv, CoversLastSample, historyVars, Types
<1>2. CASE SendReturns
  <2>1. PICK i \in DOMAIN replies :
          /\ estimator' = IF Fresh THEN Sampled(estimator, Measured(i)) ELSE estimator
          /\ last' = IF Fresh THEN Measured(i) ELSE last
          /\ replies' = Unread(i, Larger(0, replies[i].left))
    BY <1>2 DEF SendReturns
  <2>2. replies[i].left \in Int /\ Measured(i) \in Nat \ {0} /\ i \in 0 .. Len(replies)
    BY <1>0, TypesFacts DEF Measured, Larger
  <2>3. Larger(0, replies[i].left) \in Int
    BY <2>2 DEF Larger
  <2>4. replies' \in Seq(Replies)
    BY <1>0, <2>1, <2>2, <2>3, UnreadEntries
  <2>5. estimator' \in Estimators /\ last' \in Nat /\ Smaller(last', MaxRto) <= estimator'.rto
    BY <1>0, <2>1, <2>2, SampleIsCovered DEF Types
  <2>6. MinRto <= estimator'.rto /\ estimator'.rto <= MaxRto
    BY <1>0, <2>5 DEF Estimators
  <2>7. /\ bit' \in 0 .. 1 /\ rtt' = rtt /\ inSend' = FALSE /\ changes' = changes
        /\ attempt' = attempt /\ raised' = raised
    BY <1>0, <1>2 DEF SendReturns, pathVars, Types
  <2> QED BY <1>0, <2>4, <2>5, <2>6, <2>7 DEF EstimatorInv, CoversLastSample, Types
<1>3. CASE AttemptTimeout
  <2>1. PICK n \in 0 .. Len(replies) :
          \/ /\ SendCopy(Unread(n, estimator.rto))
             /\ attempt' = attempt + 1 /\ inSend' = inSend /\ raised' = raised
          \/ /\ replies' = Unread(n, estimator.rto)
             /\ attempt' = attempt /\ inSend' = FALSE /\ raised' = TRUE
    BY <1>3 DEF AttemptTimeout
  <2>2. Unread(n, estimator.rto) \in Seq(Replies)
    <3>1. estimator.rto \in Int
      BY <1>0
    <3> QED BY <1>0, <3>1, UnreadEntries
  <2>3. replies' \in Seq(Replies)
    BY <1>0, <2>1, <2>2, SendCopyEntries
  <2>4. /\ estimator' \in Estimators /\ estimator.rto <= estimator'.rto
        /\ last' = last /\ bit' = bit /\ rtt' = rtt /\ changes' = changes
    BY <1>0, <1>3, BackedOffGrows DEF AttemptTimeout, Types
  <2>5. MinRto <= estimator'.rto /\ estimator'.rto <= MaxRto /\ estimator'.rto \in Nat
    BY <1>0, <2>4 DEF Estimators
  <2>6. Smaller(last', MaxRto) <= estimator'.rto
    BY <1>0, <2>4, <2>5 DEF Smaller, Types
  <2>7. attempt' \in Nat /\ inSend' \in BOOLEAN /\ raised' \in BOOLEAN
    <3>1. attempt \in Nat /\ inSend \in BOOLEAN /\ raised \in BOOLEAN
      BY <1>0 DEF Types
    <3>2. attempt' = attempt + 1 \/ attempt' = attempt
      BY <2>1
    <3>3. attempt' \in Nat
      BY <3>1, <3>2
    <3>4. inSend' \in BOOLEAN /\ raised' \in BOOLEAN
      BY <2>1, <3>1, Zenon
    <3> QED BY <3>3, <3>4
  <2> QED BY <1>0, <2>3, <2>4, <2>5, <2>6, <2>7 DEF EstimatorInv, CoversLastSample, Types
<1>4. CASE PathChanges
  BY <1>0, <1>4
     DEF PathChanges, EstimatorInv, CoversLastSample, callVars, historyVars, Types
<1>5. CASE UNCHANGED timeoutVars
  BY <1>0, <1>5
     DEF timeoutVars, callVars, pathVars, historyVars, EstimatorInv, CoversLastSample, Types
<1> QED BY <1>1, <1>2, <1>3, <1>4, <1>5 DEF Next

LEMMA EstimatorInvariance == Spec => []EstimatorInv
<1>1. Init => EstimatorInv
  <2> SUFFICES ASSUME Init PROVE EstimatorInv
    OBVIOUS
  <2>1. estimator \in Estimators /\ estimator.rto = InitialRto
    BY RtoAssumption DEF Init, NewEstimator, Estimators
  <2>2. /\ last = 0 /\ replies = <<>> /\ bit = 0 /\ rtt \in Rtt /\ inSend = FALSE
        /\ attempt = 0 /\ changes = 0 /\ raised = FALSE
    BY DEF Init
  <2>3. CoversLastSample
    BY <2>1, <2>2, RtoAssumption DEF CoversLastSample, Smaller
  <2>4. /\ last \in Nat /\ attempt \in Nat /\ changes \in Nat /\ bit \in 0 .. 1
        /\ replies \in Seq(Replies)
    BY <2>2
  <2>5. inSend \in BOOLEAN /\ raised \in BOOLEAN
    BY <2>2, Zenon
  <2> QED BY <2>1, <2>2, <2>3, <2>4, <2>5 DEF EstimatorInv, Types
<1> QED BY <1>1, EstimatorInvNext, PTL DEF Spec

\* The timeout stays within its limits and covers the round trip last measured.
THEOREM TimeoutCoversSample == Spec => []CoversLastSample
<1>1. EstimatorInv => CoversLastSample
  BY DEF EstimatorInv
<1> QED BY <1>1, EstimatorInvariance, PTL
-----------------------------------------------------------------------------
(* What is measured on a path whose round trip does not change.            *)

USE DEF Ordered, WithinRtt, Answers, AnswersLast

\* What is read and what time passes leave the order as it is.
LEMMA UnreadOrdered ==
  ASSUME Types, Ordered(replies), NEW n \in 0 .. Len(replies), NEW t \in Nat
  PROVE  /\ Ordered(Unread(n, t))
         /\ WithinRtt(replies) => WithinRtt(Unread(n, t))
         /\ \A i \in DOMAIN Unread(n, t) :
               n + i \in DOMAIN replies /\ Unread(n, t)[i].bit = replies[n + i].bit
<1> DEFINE S == Unread(n, t)
           k == Len(replies) - n
<1>1. k \in Nat /\ n \in Nat
  BY TypesFacts
<1>2. /\ DOMAIN S = 1 .. k
      /\ \A i \in 1 .. k : /\ n + i \in DOMAIN replies
                           /\ S[i].bit = replies[n + i].bit
                           /\ S[i].left = replies[n + i].left - t
  <2>1. t \in Int
    OBVIOUS
  <2>2. S \in Seq(Replies) /\ Len(S) = k
    BY <2>1, UnreadEntries
  <2>3. \A i \in 1 .. k : /\ n + i \in DOMAIN replies
                         /\ S[i].bit = replies[n + i].bit
                         /\ S[i].left = replies[n + i].left - t
    BY <2>1, UnreadEntries
  <2> HIDE DEF S, k
  <2>4. DOMAIN S = 1 .. k
    BY <2>2
  <2> QED BY <2>3, <2>4
<1>3. \A i \in DOMAIN replies : replies[i].left \in Int
  BY TypesFacts
<1> HIDE DEF S, k
<1>4. ASSUME NEW i \in 1 .. k, NEW j \in 1 .. k, i < j
      PROVE  S[i].left <= S[j].left
  <2>1. /\ n + i \in DOMAIN replies /\ n + j \in DOMAIN replies /\ n + i < n + j
        /\ S[i].left = replies[n + i].left - t /\ S[j].left = replies[n + j].left - t
    BY <1>1, <1>2, <1>4
  <2>2. replies[n + i].left <= replies[n + j].left
    BY <2>1
  <2> QED BY <1>3, <2>1, <2>2
<1>5. ASSUME WithinRtt(replies), NEW i \in 1 .. k PROVE S[i].left <= rtt
  BY <1>2, <1>3, <1>5, TypesFacts
<1> QED BY <1>2, <1>4, <1>5 DEF S

\* A new reply comes last, and where none takes longer than a round trip it
\* takes a whole one.
LEMMA SendCopyOrdered ==
  ASSUME Types, NEW S \in Seq(Replies), Ordered(S), SendCopy(S)
  PROVE  /\ Ordered(replies')
         /\ WithinRtt(S) =>
               \A i \in DOMAIN replies' :
                  /\ replies'[i].left <= rtt
                  /\ i > Len(S) => replies'[i].left = rtt
         /\ \A i \in DOMAIN replies' : i > Len(S) => i = Len(S) + 1 /\ replies'[i].bit = bit
         /\ \A i \in DOMAIN S : i \in DOMAIN replies' /\ replies'[i] = S[i]
<1> DEFINE k == Len(S)
           R == replies'
           n == Len(R)
<1>1. R \in Seq(Replies) /\ S \in Seq(Replies)
  BY SendCopyEntries
<1>2. k \in Nat /\ DOMAIN S = 1 .. k /\ n \in Nat /\ DOMAIN R = 1 .. n /\ (k > 0 => S # <<>>)
  BY <1>1
<1>3. /\ \A i \in 1 .. k : R[i] = S[i]
      /\ \/ n = k
         \/ n = k + 1 /\ R[k + 1].bit = bit /\ R[k + 1].left = Arrival(S)
  BY SendCopyEntries
<1>4. \A i \in 1 .. k : S[i].left \in Int
  <2>1. \A r \in Replies : r.left \in Int
    BY DEF Replies
  <2>2. \A i \in 1 .. k : S[i] \in Replies
    BY <1>1
  <2> QED BY <2>1, <2>2
<1>5. /\ Arrival(S) \in Int /\ rtt <= Arrival(S) /\ rtt \in Int
      /\ k > 0 => S[k].left <= Arrival(S)
      /\ Arrival(S) = rtt \/ (k > 0 /\ Arrival(S) = S[k].left)
  <2>1. S # <<>> => k > 0
    BY <1>1
  <2>2. rtt \in Int
    BY TypesFacts
  <2> QED BY <1>2, <2>1, <2>2, SendCopyEntries
<1>6. \A i \in 1 .. k, j \in 1 .. k : i < j => S[i].left <= S[j].left
  BY <1>2
<1>7. WithinRtt(S) => \A i \in 1 .. k : S[i].left <= rtt
  BY <1>2
<1> HIDE DEF k, R, n
<1>8. \A i \in 1 .. k : S[i].left <= Arrival(S)
  <2> TAKE i \in 1 .. k
  <2>1. k \in 1 .. k /\ (i < k \/ i = k)
    BY <1>2
  <2>2. S[i].left <= S[k].left
    BY <1>4, <1>6, <2>1
  <2> QED BY <1>2, <1>4, <1>5, <2>1, <2>2
<1>9. WithinRtt(S) => Arrival(S) = rtt
  <2>1. k > 0 => k \in 1 .. k
    BY <1>2
  <2> QED BY <1>4, <1>5, <1>7, <2>1
<1>10. ASSUME NEW i \in 1 .. n PROVE i \in 1 .. k \/ (i = k + 1 /\ n = k + 1)
  BY <1>2, <1>3
<1>11. ASSUME NEW i \in 1 .. n, NEW j \in 1 .. n, i < j
       PROVE  R[i].left <= R[j].left
  <2>1. i \in 1 .. k /\ R[i].left = S[i].left
    BY <1>2, <1>3, <1>10, <1>11
  <2>2. CASE j \in 1 .. k
    BY <1>3, <1>6, <1>11, <2>1, <2>2
  <2>3. CASE j = k + 1 /\ n = k + 1
    <3>1. R[j].left = Arrival(S)
      BY <1>2, <1>3, <2>3
    <3> QED BY <1>8, <2>1, <3>1
  <2> QED BY <1>10, <2>2, <2>3
<1>12. ASSUME WithinRtt(S), NEW i \in 1 .. n
       PROVE  R[i].left <= rtt /\ (i > k => R[i].left = rtt)
  <2>1. CASE i \in 1 .. k
    <3>1. R[i].left <= rtt
      BY <1>3, <1>7, <1>12, <2>1
    <3>2. ~(i > k)
      BY <1>2, <2>1
    <3> QED BY <3>1, <3>2
  <2>2. CASE i = k + 1 /\ n = k + 1
    <3>1. R[i].left = Arrival(S)
      BY <1>2, <1>3, <2>2
    <3> QED BY <1>5, <1>9, <1>12, <3>1
  <2> QED BY <1>10, <2>1, <2>2
<1>13. ASSUME NEW i \in 1 .. n, i > k PROVE i = k + 1 /\ R[i].bit = bit
  BY <1>2, <1>3, <1>10, <1>13
<1>14. \A i \in 1 .. k : i \in 1 .. n /\ R[i] = S[i]
  BY <1>2, <1>3
<1>15. Ordered(R)
  BY <1>2, <1>11
<1> QED BY <1>2, <1>12, <1>13, <1>14, <1>15 DEF k, R

LEMMA PathSendCall ==
  ASSUME Types, PathInv, SendCall
  PROVE  PathInv'
<1>1. PICK t \in Pause : SendCopy(After(replies, t))
  BY DEF SendCall
<1> DEFINE S == After(replies, t)
<1>2. t \in Nat /\ t \in Int
  BY PathAssumption
<1>3. S = Unread(0, t)
  <2>1. SubSeq(replies, 0 + 1, Len(replies)) = replies
    BY DEF Types
  <2> QED BY <2>1 DEF Unread
<1>4. 0 \in 0 .. Len(replies) /\ Ordered(replies)
  BY TypesFacts DEF PathInv
<1>5. /\ S \in Seq(Replies) /\ Ordered(S) /\ (WithinRtt(replies) => WithinRtt(S))
      /\ \A i \in DOMAIN S : 0 + i \in DOMAIN replies /\ S[i].bit = replies[0 + i].bit
  <2> HIDE DEF S
  <2>1. S \in Seq(Replies)
    BY <1>2, <1>3, <1>4, UnreadEntries
  <2> QED BY <1>2, <1>3, <1>4, <2>1, UnreadOrdered
<1> HIDE DEF S
<1>6. SendCopy(S)
  BY <1>1 DEF S
<1>7. /\ Ordered(replies')
      /\ WithinRtt(S) =>
            \A i \in DOMAIN replies' : /\ replies'[i].left <= rtt
                                       /\ i > Len(S) => replies'[i].left = rtt
      /\ \A i \in DOMAIN replies' : i > Len(S) => i = Len(S) + 1 /\ replies'[i].bit = bit
      /\ \A i \in DOMAIN S : i \in DOMAIN replies' /\ replies'[i] = S[i]
  BY <1>5, <1>6, SendCopyOrdered
<1>8. /\ bit' = bit /\ rtt' = rtt /\ changes' = changes /\ raised' = raised /\ last' = last
      /\ ~inSend /\ inSend' = TRUE /\ attempt' = 0
  BY DEF SendCall, historyVars
<1>9. ASSUME changes = 0, ~raised PROVE SteadyPath'
  <2>1. SteadyPath
    BY <1>9 DEF PathInv
  <2>2. \A i \in DOMAIN replies' : i \in DOMAIN S \/ i > Len(S)
    <3>1. replies' \in Seq(Replies)
      BY <1>5, <1>6, SendCopyEntries
    <3> QED BY <1>5, <3>1
  <2>3. \A i \in DOMAIN S : S[i].bit # bit
    <3>1. \A i \in DOMAIN replies : replies[i].bit # bit
      BY <1>8, <2>1 DEF SteadyPath
    <3> QED BY <1>5, <3>1, TypesFacts
  <2>4. \A i \in DOMAIN replies' : replies'[i].bit = bit => i = Len(S) + 1 /\ replies'[i].left = rtt
    BY <1>5, <1>7, <2>1, <2>2, <2>3 DEF SteadyPath
  <2>5. WithinRtt(replies)' /\ AnswersLast(replies)'
    BY <1>5, <1>7, <1>8, <2>1, <2>2, <2>4 DEF SteadyPath
  <2> QED BY <1>8, <2>1, <2>4, <2>5 DEF SteadyPath
<1> QED BY <1>7, <1>8, <1>9 DEF PathInv
\* Behind the ACK that ends a call come only ACKs with its bit.
LEMMA PathSendReturns ==
  ASSUME Types, PathInv, SendReturns
  PROVE  PathInv'
<1>1. PICK k \in DOMAIN replies :
        /\ InTime(k)
        /\ last' = IF Fresh THEN Measured(k) ELSE last
        /\ replies' = Unread(k, Larger(0, replies[k].left))
  BY DEF SendReturns
<1>2. /\ bit' = 1 - bit /\ rtt' = rtt /\ changes' = changes /\ raised' = raised
      /\ inSend /\ inSend' = FALSE /\ attempt' = attempt
  BY DEF SendReturns, pathVars
<1> DEFINE t == Larger(0, replies[k].left)
<1>3. /\ k \in 0 .. Len(replies) /\ k \in Nat /\ t \in Nat /\ Ordered(replies)
      /\ replies[k].bit = bit /\ replies[k].left \in Int /\ bit \in 0 .. 1
  BY <1>1, TypesFacts DEF Larger, InTime, PathInv, Types
<1>4. replies' = Unread(k, t)
  BY <1>1
<1> HIDE DEF t
<1>5. /\ Ordered(replies')
      /\ WithinRtt(replies) => WithinRtt(Unread(k, t))
      /\ \A i \in DOMAIN Unread(k, t) :
            k + i \in DOMAIN replies /\ Unread(k, t)[i].bit = replies[k + i].bit
  BY <1>3, <1>4, UnreadOrdered
<1>6. DOMAIN Unread(k, t) = 1 .. Len(replies) - k
  <2>1. t \in Int
    BY <1>3
  <2>2. Unread(k, t) \in Seq(Replies) /\ Len(Unread(k, t)) = Len(replies) - k
    BY <1>3, <2>1, UnreadEntries
  <2> QED BY <2>2
<1>7. ASSUME changes = 0, ~raised PROVE SteadyPath'
  <2>1. SteadyPath
    BY <1>7 DEF PathInv
  <2>2. k \in Answers(replies)
    BY <1>1, <1>3
  <2>3. ASSUME NEW i \in DOMAIN replies' PROVE replies'[i].bit = bit
    <3>1. /\ k + i \in DOMAIN replies /\ replies'[i].bit = replies[k + i].bit
          /\ k < k + i
      BY <1>3, <1>4, <1>5, <1>6, <2>3, TypesFacts
    <3>2. k + i \in Answers(replies)
      BY <2>1, <2>2, <3>1 DEF SteadyPath
    <3> QED BY <3>1, <3>2
  <2>4. Answers(replies)' = {}
    BY <1>2, <1>3, <2>3
  <2>5. WithinRtt(replies)'
    BY <1>2, <1>4, <1>5, <2>1 DEF SteadyPath
  <2>6. last' \in {0, rtt'}
    <3>1. CASE attempt = 0
      <4>1. replies[k].left = rtt /\ 1 <= rtt /\ rtt \in Nat
        BY <2>1, <2>2, <3>1, TypesFacts DEF SteadyPath
      <4>2. last' = rtt
        BY <1>1, <3>1, <4>1 DEF Fresh, Measured, Larger
      <4> QED BY <1>2, <4>2
    <3>2. CASE attempt # 0
      BY <1>1, <1>2, <2>1, <3>2 DEF Fresh, SteadyPath
    <3> QED BY <3>1, <3>2
  <2> QED BY <2>4, <2>5, <2>6 DEF SteadyPath
<1> QED BY <1>2, <1>5, <1>7 DEF PathInv

\* A retransmission is answered behind the replies that are left.
LEMMA PathAttemptTimeout ==
  ASSUME Types, PathInv, AttemptTimeout
  PROVE  PathInv'
<1> DEFINE t == estimator.rto
<1>1. PICK n \in 0 .. Len(replies) :
        \/ /\ SendCopy(Unread(n, t))
           /\ attempt' = attempt + 1 /\ inSend' = inSend /\ raised' = raised
        \/ replies' = Unread(n, t) /\ raised' = TRUE
  BY DEF AttemptTimeout
<1> DEFINE S == Unread(n, t)
<1>2. /\ bit' = bit /\ rtt' = rtt /\ changes' = changes /\ last' = last
      /\ inSend
  BY DEF AttemptTimeout
<1>3. t \in Nat /\ t \in Int /\ Ordered(replies) /\ attempt \in Nat
  BY TypesFacts DEF PathInv, Types
<1> HIDE DEF t
<1>4. /\ S \in Seq(Replies)
      /\ Ordered(S) /\ (WithinRtt(replies) => WithinRtt(S))
      /\ \A i \in DOMAIN S : n + i \in DOMAIN replies /\ S[i].bit = replies[n + i].bit
  BY <1>3, UnreadEntries, UnreadOrdered
<1>5. (replies' = S /\ raised' = TRUE) \/ (SendCopy(S) /\ raised' = raised)
  BY <1>1
<1>6. SendCopy(S) => (attempt' = attempt + 1 /\ inSend' = inSend) \/ raised' = TRUE
  BY <1>1
<1> HIDE DEF S
<1>7. CASE replies' = S /\ raised' = TRUE
  BY <1>4, <1>7 DEF PathInv
<1>8. CASE SendCopy(S) /\ raised' = raised
  <2>1. /\ Ordered(replies')
        /\ WithinRtt(S) => \A i \in DOMAIN replies' : replies'[i].left <= rtt
        /\ \A i \in DOMAIN replies' : i > Len(S) => i = Len(S) + 1 /\ replies'[i].bit = bit
        /\ \A i \in DOMAIN S : i \in DOMAIN replies' /\ replies'[i] = S[i]
    BY <1>4, <1>8, SendCopyOrdered
  <2>2. /\ replies' \in Seq(Replies) /\ DOMAIN S = 1 .. Len(S) /\ Len(S) \in Nat
        /\ DOMAIN replies' = 1 .. Len(replies') /\ Len(replies') \in Nat
    BY <1>4, <1>8, SendCopyEntries
  <2>3. ASSUME changes = 0, ~raised PROVE SteadyPath'
    <3>1. SteadyPath
      BY <2>3 DEF PathInv
    <3>2. attempt' = attempt + 1 /\ inSend'
      BY <1>2, <1>6, <1>8, <2>3
    <3>3. \A i \in DOMAIN replies' : i \in DOMAIN S \/ i > Len(S)
      BY <2>2
    <3>4. ASSUME NEW i \in Answers(replies)', NEW j \in DOMAIN replies', i < j
          PROVE  j \in Answers(replies)'
      <4>1. CASE j \in DOMAIN S
        <5>1. i \in DOMAIN S
          BY <2>2, <3>4, <4>1
        <5>2. n + i \in Answers(replies) /\ n + j \in DOMAIN replies /\ n + i < n + j
          BY <1>2, <1>4, <2>1, <2>2, <3>4, <4>1, <5>1
        <5>3. n + j \in Answers(replies)
          BY <3>1, <5>2 DEF SteadyPath
        <5> QED BY <1>2, <1>4, <2>1, <4>1, <5>3
      <4>2. CASE j > Len(S)
        BY <1>2, <2>1, <4>2
      <4> QED BY <3>3, <4>1, <4>2
    <3>5. WithinRtt(replies)'
      BY <1>2, <1>4, <2>1, <3>1 DEF SteadyPath
    <3>6. attempt' # 0
      BY <1>3, <3>2
    <3>7. last' \in {0, rtt'}
      BY <1>2, <3>1 DEF SteadyPath
    <3>8. AnswersLast(replies)'
      BY <3>4
    <3> QED BY <3>2, <3>5, <3>6, <3>7, <3>8 DEF SteadyPath
  <2> QED BY <1>2, <1>8, <2>1, <2>3 DEF PathInv
<1> QED BY <1>5, <1>7, <1>8

LEMMA PathInvariance == Spec => []PathInv
<1>1. Init => PathInv
  BY DEF Init, PathInv, SteadyPath
<1>2. EstimatorInv /\ PathInv /\ [Next]_timeoutVars => PathInv'
  <2> SUFFICES ASSUME Types, PathInv, [Next]_timeoutVars PROVE PathInv'
    BY DEF EstimatorInv
  <2>1. CASE PathChanges
    <3>1. changes' = changes + 1 /\ replies' = replies /\ changes \in Nat
      BY <2>1 DEF PathChanges, callVars, Types
    <3> QED BY <3>1 DEF PathInv
  <2>2. CASE UNCHANGED timeoutVars
    BY <2>2 DEF timeoutVars, callVars, pathVars, historyVars, PathInv, SteadyPath
  <2> QED BY <2>1, <2>2, PathSendCall, PathSendReturns, PathAttemptTimeout DEF Next
<1> QED BY <1>1, <1>2, EstimatorInvariance, PTL DEF Spec

\* On a path with one round trip time nothing but that is measured, until a
\* call has raised.
THEOREM OnlyThePathIsMeasured == Spec => []MeasuresThePath
<1>1. PathInv => MeasuresThePath
  BY DEF PathInv, SteadyPath, MeasuresThePath
<1> QED BY <1>1, PathInvariance, PTL

-----------------------------------------------------------------------------
(* What the estimator makes of such a path.                                *)

\* A sample equal to the average leaves the average, and the timeout is above it.
LEMMA SteadySample ==
  ASSUME NEW e \in Estimators, NEW r \in Nat \ {0}, e.srtt \in {0, r}
  PROVE  /\ Sampled(e, r).srtt = r
         /\ Smaller(MaxRto, r + 1) <= Sampled(e, r).rto
<1>1. \A d \in Nat : /\ Estimate(r, d).srtt = r
                     /\ Smaller(MaxRto, r + 1) <= Estimate(r, d).rto
  BY RtoAssumption DEF Estimate, Larger, Smaller
<1>2. CASE e.srtt = 0
  <2>1. Sampled(e, r) = Estimate(r, 2 * r) /\ 2 * r \in Nat
    BY <1>2 DEF Sampled
  <2> QED BY <1>1, <2>1
<1>3. CASE e.srtt = r
  <2> DEFINE d == (3 * e.deviation + 3) \div 4 + Distance(r, r)
  <2>1. (7 * r + r + 7) \div 8 = r
    OBVIOUS
  <2>2. e.deviation \in Nat
    BY DEF Estimators
  <2>3. d \in Nat
    BY <2>2 DEF Distance
  <2>4. Sampled(e, r) = Estimate(r, d)
    BY <1>3, <2>1 DEF Sampled, Smoothed
  <2> QED BY <1>1, <2>3, <2>4
<1> QED BY <1>2, <1>3

LEMMA AverageSendReturns ==
  ASSUME Types, PathInv, AverageInv, SendReturns
  PROVE  AverageInv'
<1>1. PICK k \in DOMAIN replies :
        /\ InTime(k)
        /\ estimator' = IF Fresh THEN Sampled(estimator, Measured(k)) ELSE estimator
        /\ last' = IF Fresh THEN Measured(k) ELSE last
  BY DEF SendReturns
<1>2. rtt' = rtt /\ changes' = changes /\ raised' = raised
  BY DEF SendReturns, pathVars
<1> SUFFICES ASSUME changes = 0, ~raised
             PROVE  IF last' = 0 THEN estimator'.srtt = 0
                    ELSE /\ estimator'.srtt = rtt
                         /\ Smaller(MaxRto, rtt + 1) <= estimator'.rto
  BY <1>2 DEF AverageInv
<1>3. CASE Fresh
  <2>1. k \in Answers(replies) /\ attempt = 0
    BY <1>1, <1>3 DEF InTime, Fresh
  <2>2. replies[k].left = rtt
    BY <2>1 DEF PathInv, SteadyPath
  <2>3. Measured(k) = rtt /\ rtt \in Nat \ {0}
    BY <2>2, TypesFacts DEF Measured, Larger
  <2>4. estimator \in Estimators /\ estimator.srtt \in {0, rtt}
    BY DEF Types, AverageInv
  <2>5. last' = rtt /\ estimator' = Sampled(estimator, rtt)
    BY <1>1, <1>3, <2>3
  <2> QED BY <2>3, <2>4, <2>5, SteadySample
<1>4. CASE ~Fresh
  BY <1>1, <1>4 DEF AverageInv
<1> QED BY <1>3, <1>4

LEMMA AverageNext ==
  ASSUME Types, PathInv, AverageInv, [Next]_timeoutVars
  PROVE  AverageInv'
<1>1. CASE SendCall
  BY <1>1 DEF SendCall, historyVars, AverageInv
<1>2. CASE AttemptTimeout
  <2>1. estimator \in Estimators
    BY DEF Types
  <2>2. /\ rtt' = rtt /\ changes' = changes /\ last' = last
        /\ estimator' = BackedOff(estimator) /\ (raised' = raised \/ raised' = TRUE)
    BY <1>2 DEF AttemptTimeout
  <2>3. estimator'.srtt = estimator.srtt /\ estimator.rto <= estimator'.rto
    BY <2>1, <2>2, BackedOffGrows DEF BackedOff, Estimators
  <2>4. Smaller(MaxRto, rtt + 1) \in Int /\ estimator.rto \in Int /\ estimator'.rto \in Int
    BY <2>1, <2>2, BackedOffGrows, TypesFacts, RtoAssumption DEF Smaller, Estimators
  <2> QED BY <2>2, <2>3, <2>4 DEF AverageInv
<1>3. CASE PathChanges
  BY <1>3 DEF PathChanges, AverageInv, Types
<1>4. CASE UNCHANGED timeoutVars
  BY <1>4 DEF timeoutVars, callVars, pathVars, historyVars, AverageInv
<1> QED BY <1>1, <1>2, <1>3, <1>4, AverageSendReturns DEF Next

\* Once a path with one round trip time has been measured, nothing but a loss
\* makes a call send again, whatever initial_rto was.
THEOREM NoPrematureTimeout == Spec => []OnlyLossTimesOut
<1>1. Init => AverageInv
  BY DEF Init, AverageInv, NewEstimator
<1>2. EstimatorInv /\ PathInv /\ AverageInv /\ [Next]_timeoutVars => AverageInv'
  BY AverageNext DEF EstimatorInv
<1>3. EstimatorInv /\ PathInv /\ AverageInv => OnlyLossTimesOut
  <2> SUFFICES ASSUME Types, PathInv, AverageInv, changes = 0, ~raised,
                      last # 0, rtt < MaxRto,
                      NEW i \in DOMAIN replies, replies[i].bit = bit
               PROVE  replies[i].left < estimator.rto
    BY DEF OnlyLossTimesOut, EstimatorInv
  <2>1. replies[i].left <= rtt
    BY DEF PathInv, SteadyPath
  <2>2. Smaller(MaxRto, rtt + 1) <= estimator.rto
    BY DEF AverageInv
  <2> QED BY <2>1, <2>2, TypesFacts DEF Smaller
<1> QED BY <1>1, <1>2, <1>3, EstimatorInvariance, PathInvariance, PTL DEF Spec
=============================================================================
