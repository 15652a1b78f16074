--------------------------- MODULE ReliableStream ---------------------------
(***************************************************************************)
(* What an ARQ transport of udp_arq promises to the two applications that  *)
(* use it, whatever the protocol: datagrams are submitted in some order,   *)
(* the receiver accepts them in exactly that order, once each, and the     *)
(* sender is told that a datagram arrived only when the receiver accepted  *)
(* it.  Datagrams are numbered from 0, in the order of their submission.   *)
(***************************************************************************)
EXTENDS Naturals, Sequences

CONSTANT Payload

VARIABLES
    submitted,   \* payloads handed to sendto(), in order
    accepted,    \* payloads the receiving transport accepted, in order
    confirmed    \* numbers of the datagrams reported as acknowledged

streamVars == <<submitted, accepted, confirmed>>

StreamTypeOK ==
    /\ submitted \in Seq(Payload)
    /\ accepted \in Seq(Payload)
    /\ confirmed \subseteq Nat

Init ==
    /\ submitted = <<>>
    /\ accepted = <<>>
    /\ confirmed = {}

Submit ==
    /\ \E p \in Payload : submitted' = Append(submitted, p)
    /\ UNCHANGED <<accepted, confirmed>>

Accept ==
    /\ Len(accepted) < Len(submitted)
    /\ accepted' = Append(accepted, submitted[Len(accepted) + 1])
    /\ UNCHANGED <<submitted, confirmed>>

Confirm ==
    /\ \E S \in SUBSET (0 .. Len(accepted) - 1) : confirmed' = confirmed \cup S
    /\ UNCHANGED <<submitted, accepted>>

Next == Submit \/ Accept \/ Confirm

Spec == Init /\ [][Next]_streamVars
=============================================================================
