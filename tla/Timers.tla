-------------------------------- MODULE Timers --------------------------------
(***************************************************************************)
(* What a TimerHeap is for its user: at most one deadline for each key,    *)
(* the soonest of them, and the removal of all that have passed.           *)
(***************************************************************************)
EXTENDS Naturals

CONSTANTS Key, Time

VARIABLES
    timers,   \* the deadline of each key that has one
    answer    \* what the last query returned

timersVars == <<timers, answer>>

Init == timers = <<>> /\ answer = {}

Schedule ==
    /\ \E k \in Key, d \in Time :
          timers' = [x \in DOMAIN timers \cup {k} |-> IF x = k THEN d ELSE timers[x]]
    /\ UNCHANGED answer

Cancel ==
    /\ \E k \in Key : timers' = [x \in DOMAIN timers \ {k} |-> timers[x]]
    /\ UNCHANGED answer

\* The soonest deadline, if there is one.
Nearest ==
    /\ answer' = {timers[k] : k \in {j \in DOMAIN timers :
                                        \A i \in DOMAIN timers : timers[j] <= timers[i]}}
    /\ UNCHANGED timers

PopDue ==
    \E now \in Time :
        /\ answer' = {k \in DOMAIN timers : timers[k] <= now}
        /\ timers' = [k \in {j \in DOMAIN timers : timers[j] > now} |-> timers[k]]

Next == Schedule \/ Cancel \/ Nearest \/ PopDue

Spec == Init /\ [][Next]_timersVars
=============================================================================
