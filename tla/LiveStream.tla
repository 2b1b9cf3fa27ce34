----------------------------- MODULE LiveStream ------------------------------
(***************************************************************************)
(* What the event bus of backend/app/bus.py promises a subscriber: events  *)
(* in the order they were published, each at most once, and skipped only   *)
(* when the subscriber is more than Capacity events behind.                *)
(***************************************************************************)
EXTENDS Integers

CONSTANTS
    Subscribers,
    Capacity        \* maxsize of a subscriber's queue

VARIABLES
    count,      \* number of events published
    open,       \* subscribers that are served
    cursor      \* the last event each subscriber got (or none before it came)

vars == <<count, open, cursor>>

Init ==
    /\ count = 0
    /\ open = {}
    /\ cursor = [s \in Subscribers |-> 0]

\* The oldest event the subscriber can still get.
NextFor(s) == IF cursor[s] + 1 >= count - Capacity + 1 THEN cursor[s] + 1 ELSE count - Capacity + 1

Publish ==
    /\ count' = count + 1
    /\ UNCHANGED <<open, cursor>>

\* A subscriber sees the events published after it came.
Open(s) ==
    /\ s \notin open
    /\ open' = open \cup {s}
    /\ cursor' = [cursor EXCEPT ![s] = count]
    /\ UNCHANGED count

Deliver(s) ==
    /\ s \in open
    /\ cursor[s] < count
    /\ cursor' = [cursor EXCEPT ![s] = NextFor(s)]
    /\ UNCHANGED <<count, open>>

Close(s) ==
    /\ s \in open
    /\ open' = open \ {s}
    /\ UNCHANGED <<count, cursor>>

Next == Publish \/ \E s \in Subscribers : Open(s) \/ Deliver(s) \/ Close(s)

Spec == Init /\ [][Next]_vars
==============================================================================
