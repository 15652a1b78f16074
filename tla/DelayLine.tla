------------------------------ MODULE DelayLine ------------------------------
(***************************************************************************)
(* What a Channel promises about packets: each sendto() puts none, one or  *)
(* two copies on the way, every copy leaves at most once, and on an        *)
(* ordered line the copies leave in the order in which they were made.     *)
(* An ordered line is the path that StopAndWait assumes.                   *)
(***************************************************************************)
EXTENDS Naturals, Sequences

VARIABLES
    ordered,   \* the line keeps the order; never changes
    copies,    \* number of copies made
    transit,   \* copies on the way, by number
    out        \* copies that have left, in order

lineVars == <<ordered, copies, transit, out>>

Init ==
    /\ ordered \in BOOLEAN
    /\ copies = 0 /\ transit = {} /\ out = <<>>

Accept ==
    /\ \E k \in 0 .. 2 :
          /\ copies' = copies + k
          /\ transit' = transit \cup (copies .. copies + k - 1)
    /\ UNCHANGED <<ordered, out>>

\* On an ordered line only the oldest copy may leave.
MayLeave(c) == c \in transit /\ (ordered => \A d \in transit : c <= d)

Deliver ==
    /\ \E c \in transit :
          /\ MayLeave(c)
          /\ transit' = transit \ {c}
          /\ out' = Append(out, c)
    /\ UNCHANGED <<ordered, copies>>

Lose ==
    /\ \E c \in transit : MayLeave(c) /\ transit' = transit \ {c}
    /\ UNCHANGED <<ordered, copies, out>>

Next == Accept \/ Deliver \/ Lose

Spec == Init /\ [][Next]_lineVars
=============================================================================
