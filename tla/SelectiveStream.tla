--------------------------- MODULE SelectiveStream ---------------------------
(***************************************************************************)
(* What Selective Repeat promises to the two applications: datagrams are   *)
(* submitted in some order and arrive in any, the receiver hands over      *)
(* those before the first one that is missing, and the sender is told of   *)
(* a datagram only when it has arrived.  It is weaker than ReliableStream: *)
(* a datagram that is reported may still wait for an earlier one.          *)
(***************************************************************************)
EXTENDS Naturals, Sequences

CONSTANT Payload

VARIABLES
    submitted,   \* payloads handed to sendto(), in order
    received,    \* numbers of the datagrams that have arrived
    accepted,    \* payloads up to the first gap, in order
    confirmed    \* numbers of the datagrams reported as acknowledged

streamVars == <<submitted, received, accepted, confirmed>>

Init ==
    /\ submitted = <<>>
    /\ received = {}
    /\ accepted = <<>>
    /\ confirmed = {}

Submit ==
    /\ \E p \in Payload : submitted' = Append(submitted, p)
    /\ UNCHANGED <<received, accepted, confirmed>>

\* Numbers 0 .. n-1 are in R, and n is the first that is not.
FirstGap(R, n) == n \notin R /\ \A i \in 0 .. n - 1 : i \in R

Receive ==
    /\ \E s \in 0 .. Len(submitted) - 1 : received' = received \cup {s}
    /\ \E n \in 0 .. Len(submitted) :
          /\ FirstGap(received', n)
          /\ accepted' = [i \in 1 .. n |-> submitted[i]]
    /\ UNCHANGED <<submitted, confirmed>>

Confirm ==
    /\ \E S \in SUBSET received : confirmed' = confirmed \cup S
    /\ UNCHANGED <<submitted, received, accepted>>

Next == Submit \/ Receive \/ Confirm

Spec == Init /\ [][Next]_streamVars
=============================================================================
