---------------------------- MODULE TimerHeapProofs ----------------------------
(***************************************************************************)
(* Proofs about TimerHeap, for any keys, deadlines and number of calls.    *)
(***************************************************************************)
EXTENDS TimerHeap, TLAPS

-----------------------------------------------------------------------------
(* The inductive invariant.                                                *)

LEMMA Initially == Init => IndInv
BY BoundAssumption DEF Init, IndInv, TypeOK, Time, Entry, EntryPerTimer, QueryShape

\* A new entry replaces the others of its key.
LEMMA ScheduleInv ==
    ASSUME IndInv, NEW k \in Key, NEW d \in Time, schedule(k, d)
    PROVE  IndInv'
<1> USE DEF IndInv
<1>1. TypeOK'
  BY DEF TypeOK, schedule, Pushed, Entry
<1>2. EntryPerTimer'
  <2> SUFFICES ASSUME NEW j \in DOMAIN deadlines'
               PROVE  \E e \in heap' : e.key = j /\ e.deadline = deadlines'[j]
    BY DEF EntryPerTimer
  <2>1. CASE j = k
    <3> DEFINE e == [deadline |-> d, count |-> counter, key |-> k]
    <3>1. e \in heap' /\ e.key = j /\ e.deadline = deadlines'[j]
      BY <2>1 DEF schedule, Pushed
    <3> QED BY <3>1
  <2>2. CASE j # k
    BY <2>2 DEF schedule, Pushed, EntryPerTimer
  <2> QED BY <2>1, <2>2
<1>3. QueryShape'
  BY DEF QueryShape, schedule
<1> QED BY <1>1, <1>2, <1>3

LEMMA CancelInv ==
    ASSUME IndInv, NEW k \in Key, cancel(k)
    PROVE  IndInv'
<1>1. TypeOK'
  BY DEF IndInv, TypeOK, cancel
<1>2. EntryPerTimer'
  BY DEF IndInv, EntryPerTimer, cancel
<1>3. QueryShape'
  BY DEF QueryShape, cancel
<1> QED BY <1>1, <1>2, <1>3 DEF IndInv

LEMMA BeginInv ==
    ASSUME IndInv, nearest \/ pop_due
    PROVE  IndInv'
<1> PICK o \in {"nearest", "pop_due"}, t \in Time : Begin(o, t)
  BY DEF nearest, pop_due, IndInv, TypeOK
<1>1. TypeOK'
  BY DEF IndInv, TypeOK, Begin
<1>2. EntryPerTimer'
  BY DEF IndInv, EntryPerTimer, Begin
<1>3. QueryShape'
  <2>1. deadlines = [k \in DOMAIN deadlines \ {} |-> deadlines[k]]
    BY DEF IndInv, TypeOK
  <2> QED BY <2>1 DEF QueryShape, Begin
<1> QED BY <1>1, <1>2, <1>3 DEF IndInv

\* A stale entry is not the one of any timer.
LEMMA SkipInv ==
    ASSUME IndInv, Skip
    PROVE  IndInv'
<1>1. TypeOK'
  BY DEF IndInv, TypeOK, Skip
<1>2. EntryPerTimer'
  BY DEF IndInv, EntryPerTimer, Skip, Valid
<1>3. QueryShape'
  BY DEF IndInv, QueryShape, Skip
<1> QED BY <1>1, <1>2, <1>3 DEF IndInv

\* The timer goes with its entry.
LEMMA TakeDueInv ==
    ASSUME IndInv, TakeDue
    PROVE  IndInv'
<1> PICK e \in heap :
        /\ AtTop(e) /\ Valid(e) /\ e.deadline <= now
        /\ heap' = heap \ {e}
        /\ deadlines' = [x \in DOMAIN deadlines \ {e.key} |-> deadlines[x]]
        /\ due' = due \cup {e.key}
  BY DEF TakeDue
<1>0. op = "pop_due" /\ UNCHANGED <<counter, op, now, before, answer>>
  BY DEF TakeDue
<1>1. TypeOK'
  BY <1>0 DEF IndInv, TypeOK, Entry
<1>2. EntryPerTimer'
  BY DEF IndInv, EntryPerTimer
<1>3. QueryShape'
  <2>1. e.key \in DOMAIN deadlines /\ deadlines[e.key] = e.deadline
    BY DEF Valid
  <2>2. /\ due \subseteq DOMAIN before
        /\ deadlines = [k \in DOMAIN before \ due |-> before[k]]
        /\ \A k \in due : before[k] <= now
    BY <1>0 DEF IndInv, QueryShape
  <2>3. e.key \in DOMAIN before \ due /\ before[e.key] = e.deadline
    BY <2>1, <2>2
  <2>4. deadlines' = [k \in DOMAIN before \ due' |-> before[k]]
    BY <2>2
  <2> QED BY <1>0, <2>2, <2>3, <2>4 DEF QueryShape
<1> QED BY <1>1, <1>2, <1>3 DEF IndInv

LEMMA ReturnsInv ==
    ASSUME IndInv, NearestReturns \/ PopDueReturns
    PROVE  IndInv'
<1>1. TypeOK'
  BY DEF IndInv, TypeOK, NearestReturns, PopDueReturns
<1>2. EntryPerTimer'
  BY DEF IndInv, EntryPerTimer, NearestReturns, PopDueReturns
<1>3. QueryShape'
  BY DEF QueryShape, NearestReturns, PopDueReturns
<1> QED BY <1>1, <1>2, <1>3 DEF IndInv

LEMMA Step == IndInv /\ [Next]_vars => IndInv'
<1> SUFFICES ASSUME IndInv, [Next]_vars PROVE IndInv'
  OBVIOUS
<1>1. CASE \E k \in Key, d \in Time : schedule(k, d)
  BY <1>1, ScheduleInv
<1>2. CASE \E k \in Key : cancel(k)
  BY <1>2, CancelInv
<1>3. CASE nearest \/ pop_due
  BY <1>3, BeginInv
<1>4. CASE Skip
  BY <1>4, SkipInv
<1>5. CASE TakeDue
  BY <1>5, TakeDueInv
<1>6. CASE NearestReturns \/ PopDueReturns
  BY <1>6, ReturnsInv
<1>7. CASE UNCHANGED vars
  BY <1>7 DEF vars, IndInv, TypeOK, EntryPerTimer, QueryShape
<1> QED BY <1>1, <1>2, <1>3, <1>4, <1>5, <1>6, <1>7 DEF Next

\* The inductive invariant holds in every reachable state of the heap and of
\* the loops of its queries (timer_heap.py).
THEOREM Invariance == Spec => []IndInv
<1>1. Init => IndInv BY Initially
<1>2. IndInv /\ [Next]_vars => IndInv' BY Step
<1> QED BY <1>1, <1>2, PTL DEF Spec

\* Every timer has its entry in the heap (schedule(), cancel(), pop_due()).
THEOREM NoTimerLost == Spec => []EntryPerTimer
<1>1. IndInv => EntryPerTimer BY DEF IndInv
<1> QED BY <1>1, Invariance, PTL

-----------------------------------------------------------------------------
(* What the queries return.                                                *)

\* The entry at the top is the soonest of all.
LEMMA TopIsSoonest ==
    ASSUME TypeOK, NEW e \in heap, AtTop(e), NEW f \in heap
    PROVE  e.deadline <= f.deadline
BY DEF AtTop, TypeOK, Entry, Time

\* If the top is current, no timer is sooner.
LEMMA TopBelowTimers ==
    ASSUME IndInv, NEW e \in heap, AtTop(e), NEW k \in DOMAIN deadlines
    PROVE  e.deadline <= deadlines[k]
<1>1. PICK f \in heap : f.key = k /\ f.deadline = deadlines[k]
  BY DEF IndInv, EntryPerTimer
<1> QED BY <1>1, TopIsSoonest DEF IndInv

LEMMA EmptyHeap ==
    ASSUME IndInv, heap = {}
    PROVE  DOMAIN deadlines = {}
BY DEF IndInv, EntryPerTimer

\* pop_due() leaves no entry whose deadline has passed (its loop).
THEOREM NoOldEntry == Spec => NothingOldRemains
<1>1. TypeOK /\ [Next]_vars => [PopDueReturns => \A e \in heap' : now < e.deadline]_vars
  <2> SUFFICES ASSUME TypeOK, PopDueReturns, NEW f \in heap'
               PROVE  now < f.deadline
    OBVIOUS
  <2>1. f \in heap
    BY DEF PopDueReturns
  <2>2. PICK e \in heap : AtTop(e) /\ NotDue(e)
    BY <2>1 DEF PopDueReturns
  <2>3. e.deadline <= f.deadline
    BY <2>1, <2>2, TopIsSoonest
  <2> QED BY <2>1, <2>2, <2>3 DEF NotDue, TypeOK, Entry, Time
<1>2. IndInv => TypeOK BY DEF IndInv
<1> QED BY <1>1, <1>2, Invariance, PTL DEF Spec, NothingOldRemains

-----------------------------------------------------------------------------
(* The heap implements the map of deadlines.                               *)

\* nearest() returns the soonest deadline.
LEMMA NearestMapped ==
    ASSUME IndInv, NearestReturns
    PROVE  Map!Nearest
<1>1. op = "nearest" /\ op' = "idle" /\ UNCHANGED <<deadlines, before>>
  BY DEF NearestReturns
<1>2. deadlines = before
  <2>1. due = {} /\ deadlines = [k \in DOMAIN before \ due |-> before[k]]
    BY <1>1 DEF IndInv, QueryShape
  <2>2. before = [k \in DOMAIN before |-> before[k]]
    BY DEF IndInv, TypeOK
  <2> QED BY <2>1, <2>2
<1>3. answer' = {deadlines[k] : k \in {j \in DOMAIN deadlines :
                    \A i \in DOMAIN deadlines : deadlines[j] <= deadlines[i]}}
  <2>1. CASE heap = {} /\ answer' = {}
    BY <2>1, EmptyHeap
  <2>2. CASE \E e \in heap : AtTop(e) /\ Valid(e) /\ answer' = {e.deadline}
    <3>1. PICK e \in heap : AtTop(e) /\ Valid(e) /\ answer' = {e.deadline}
      BY <2>2
    <3>2. \A k \in DOMAIN deadlines : e.deadline <= deadlines[k]
      BY <3>1, TopBelowTimers
    <3>3. e.key \in DOMAIN deadlines /\ deadlines[e.key] = e.deadline
      BY <3>1 DEF Valid
    <3>4. \A k \in DOMAIN deadlines : deadlines[k] \in Nat
      BY DEF IndInv, TypeOK, Time
    <3>5. \A k \in DOMAIN deadlines :
             (\A i \in DOMAIN deadlines : deadlines[k] <= deadlines[i])
                => deadlines[k] = e.deadline
      BY <3>2, <3>3, <3>4
    <3> QED BY <3>1, <3>2, <3>3, <3>5
  <2> QED BY <2>1, <2>2 DEF NearestReturns
<1> QED BY <1>1, <1>2, <1>3 DEF Map!Nearest

\* pop_due() returns the keys that are due, and removes them.
LEMMA PopDueMapped ==
    ASSUME IndInv, PopDueReturns
    PROVE  Map!PopDue
<1>1. /\ op = "pop_due" /\ op' = "idle"
      /\ UNCHANGED <<deadlines, before>>
      /\ answer' = due
  BY DEF PopDueReturns
<1>2. /\ due \subseteq DOMAIN before
      /\ deadlines = [k \in DOMAIN before \ due |-> before[k]]
      /\ \A k \in due : before[k] <= now
  BY <1>1 DEF IndInv, QueryShape
<1>3. \A k \in DOMAIN deadlines : deadlines[k] \in Nat /\ now \in Nat
  BY DEF IndInv, TypeOK, Time
<1>4. \A k \in DOMAIN deadlines : deadlines[k] > now
  <2>1. CASE heap = {}
    BY <2>1, EmptyHeap
  <2>2. CASE \E e \in heap : AtTop(e) /\ Valid(e) /\ NotDue(e)
    <3>1. PICK e \in heap : AtTop(e) /\ NotDue(e)
      BY <2>2
    <3>2. e.deadline \in Nat
      BY DEF IndInv, TypeOK, Entry, Time
    <3> QED BY <3>1, <3>2, <1>3, TopBelowTimers DEF NotDue
  <2> QED BY <2>1, <2>2 DEF PopDueReturns
<1>5. \A k \in DOMAIN before \ due : before[k] > now /\ ~(before[k] <= now)
  BY <1>2, <1>3, <1>4
<1>6. \A k \in due : ~(before[k] > now)
  <2>1. \A k \in DOMAIN before : before[k] \in Nat /\ now \in Nat
    BY DEF IndInv, TypeOK, Time
  <2> QED BY <1>2, <2>1
<1>7. answer' = {k \in DOMAIN before : before[k] <= now}
  BY <1>1, <1>2, <1>5
<1>8. deadlines = [k \in {j \in DOMAIN before : before[j] > now} |-> before[k]]
  <2>1. {j \in DOMAIN before : before[j] > now} = DOMAIN before \ due
    BY <1>5, <1>6
  <2> QED BY <1>2, <2>1
<1>9. now \in Time
  BY DEF IndInv, TypeOK
<1> QED BY <1>1, <1>7, <1>8, <1>9 DEF Map!PopDue

LEMMA StepMapped ==
    ASSUME IndInv, [Next]_vars
    PROVE  [Map!Next]_(Map!timersVars)
<1> USE DEF Map!Next, Map!timersVars
<1>1. CASE \E k \in Key, d \in Time : schedule(k, d)
  <2>1. Map!Schedule
    BY <1>1 DEF schedule, Map!Schedule
  <2> QED BY <2>1
<1>2. CASE \E k \in Key : cancel(k)
  <2>1. Map!Cancel
    BY <1>2 DEF cancel, Map!Cancel
  <2> QED BY <2>1
<1>3. CASE nearest \/ pop_due
  BY <1>3 DEF nearest, pop_due, Begin
<1>4. CASE Skip \/ TakeDue
  BY <1>4 DEF Skip, TakeDue
<1>5. CASE NearestReturns
  BY <1>5, NearestMapped
<1>6. CASE PopDueReturns
  BY <1>6, PopDueMapped
<1>7. CASE UNCHANGED vars
  BY <1>7 DEF vars
<1> QED BY <1>1, <1>2, <1>3, <1>4, <1>5, <1>6, <1>7 DEF Next

\* The heap with its stale entries is a map of deadlines (timer_heap.py).
THEOREM Refinement == Spec => ImplementsTimers
<1>1. Init => Map!Init
  BY DEF Init, Map!Init
<1>2. IndInv /\ [Next]_vars => [Map!Next]_(Map!timersVars)
  BY StepMapped
<1> QED BY <1>1, <1>2, Invariance, PTL DEF Spec, ImplementsTimers, Map!Spec
=============================================================================
