------------------------------- MODULE TimerHeap -------------------------------
(***************************************************************************)
(* timer_heap.py.  cancel() and a second schedule() of a key leave the old *)
(* entry in the heap; nearest() and pop_due() drop the entries that no     *)
(* longer agree with _key_to_deadline when they come to the top.  The      *)
(* steps here are the iterations of their loops.  The calls do not overlap *)
(* (SelectiveRepeatTransport makes them under its lock), and heapq is the  *)
(* set of its entries, of which the least is at index 0.                   *)
(***************************************************************************)
EXTENDS Naturals

CONSTANTS
    Key,           \* what is timed: a peer and a sequence number
    MaxTime,       \* bound: latest deadline and latest time
    MaxSchedules   \* bound: number of schedule() calls

ASSUME BoundAssumption == MaxTime \in Nat /\ MaxSchedules \in Nat

VARIABLES
    heap,        \* _heap
    deadlines,   \* _key_to_deadline
    counter,     \* _counter
    op,          \* the query that is running, or "idle"
    now,         \* its argument
    due,         \* due_keys
    before,      \* deadlines when the query began; history
    answer       \* what the last query returned

vars == <<heap, deadlines, counter, op, now, due, before, answer>>

Time == 0 .. MaxTime
Entry == [deadline : Time, count : Nat, key : Key]

TypeOK ==
    /\ heap \subseteq Entry
    /\ DOMAIN deadlines \subseteq Key
    /\ deadlines \in [DOMAIN deadlines -> Time]
    /\ counter \in Nat
    /\ op \in {"idle", "nearest", "pop_due"}
    /\ now \in Time
    /\ due \subseteq Key
    /\ DOMAIN before \subseteq Key /\ before \in [DOMAIN before -> Time]

Init ==
    /\ heap = {} /\ deadlines = <<>> /\ counter = 0
    /\ op = "idle" /\ now = 0 /\ due = {} /\ before = <<>>
    /\ answer = {}

Pushed(k, d) == heap \cup {[deadline |-> d, count |-> counter, key |-> k]}

schedule(k, d) ==
    /\ op = "idle"
    /\ counter < MaxSchedules
    /\ deadlines' = [x \in DOMAIN deadlines \cup {k} |->
                        IF x = k THEN d ELSE deadlines[x]]
    /\ heap' = Pushed(k, d)
    /\ counter' = counter + 1
    /\ UNCHANGED <<op, now, due, before, answer>>

cancel(k) ==
    /\ op = "idle"
    /\ deadlines' = [x \in DOMAIN deadlines \ {k} |-> deadlines[x]]
    /\ UNCHANGED <<heap, counter, op, now, due, before, answer>>

\* e is heap[0]: entries are compared by deadline, then by count.
AtTop(e) ==
    /\ e \in heap
    /\ \A f \in heap : \/ e.deadline < f.deadline
                       \/ e.deadline = f.deadline /\ e.count <= f.count

\* Fault: only cancelled keys are stale.
KeyKnown(e) == e.key \in DOMAIN deadlines

\* The entry is the current one of its key, not a stale one.
Valid(e) == e.key \in DOMAIN deadlines /\ deadlines[e.key] = e.deadline

Begin(o, t) ==
    /\ op = "idle"
    /\ op' = o /\ now' = t
    /\ due' = {} /\ before' = deadlines
    /\ UNCHANGED <<heap, deadlines, counter, answer>>

nearest == Begin("nearest", now)
pop_due == \E t \in Time : Begin("pop_due", t)

\* A stale entry at the top is dropped.
Skip ==
    /\ op # "idle"
    /\ \E e \in heap : AtTop(e) /\ ~Valid(e) /\ heap' = heap \ {e}
    /\ UNCHANGED <<deadlines, counter, op, now, due, before, answer>>

NearestReturns ==
    /\ op = "nearest"
    /\ \/ heap = {} /\ answer' = {}
       \/ \E e \in heap : AtTop(e) /\ Valid(e) /\ answer' = {e.deadline}
    /\ op' = "idle"
    /\ UNCHANGED <<heap, deadlines, counter, now, due, before>>

TakeDue ==
    /\ op = "pop_due"
    /\ \E e \in heap :
          /\ AtTop(e) /\ Valid(e)
          /\ e.deadline <= now
          /\ heap' = heap \ {e}
          /\ deadlines' = [x \in DOMAIN deadlines \ {e.key} |-> deadlines[x]]
          /\ due' = due \cup {e.key}
    /\ UNCHANGED <<counter, op, now, before, answer>>

\* Fault: the loop stops at a deadline that is just reached.
StopsEarly(e) == now <= e.deadline
NotDue(e) == now < e.deadline

PopDueReturns ==
    /\ op = "pop_due"
    /\ heap = {} \/ \E e \in heap : AtTop(e) /\ Valid(e) /\ NotDue(e)
    /\ answer' = due
    /\ op' = "idle"
    /\ UNCHANGED <<heap, deadlines, counter, now, due, before>>

Next ==
    \/ \E k \in Key, d \in Time : schedule(k, d)
    \/ \E k \in Key : cancel(k)
    \/ nearest \/ pop_due
    \/ Skip \/ NearestReturns \/ TakeDue \/ PopDueReturns

Spec == Init /\ [][Next]_vars

-----------------------------------------------------------------------------
\* A key with a deadline has its entry in the heap: no timer is lost among the
\* stale ones (schedule(), cancel(), pop_due()).
EntryPerTimer ==
    \A k \in DOMAIN deadlines :
        \E e \in heap : e.key = k /\ e.deadline = deadlines[k]

\* pop_due() leaves no entry, current or stale, whose deadline has passed: what
\* is cancelled or scheduled again does not stay in the heap for ever.
NothingOldRemains ==
    [][PopDueReturns => \A e \in heap' : now < e.deadline]_vars

\* The heap is a map of deadlines: pop_due() returns exactly the keys that are
\* due and nearest() the soonest deadline, whatever was cancelled, scheduled
\* again or scheduled twice for the same time.
Map == INSTANCE Timers WITH timers <- IF op = "idle" THEN deadlines ELSE before

ImplementsTimers == Map!Spec

-----------------------------------------------------------------------------
\* While a query runs, deadlines is what it was without the keys taken.
QueryShape ==
    op # "idle" =>
        /\ due \subseteq DOMAIN before
        /\ deadlines = [k \in DOMAIN before \ due |-> before[k]]
        /\ op = "nearest" => due = {}
        /\ \A k \in due : before[k] <= now

\* Inductive.
IndInv == TypeOK /\ EntryPerTimer /\ QueryShape
=============================================================================
