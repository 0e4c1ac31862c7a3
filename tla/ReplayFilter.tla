---------------------------- MODULE ReplayFilter ----------------------------
(***************************************************************************)
(* What the receive side of a secure session promises about message        *)
(* counters, with no bitset and no arithmetic on bit positions: it         *)
(* remembers every counter it has passed up as new since the session's     *)
(* counters were synchronized, passes none up as new twice, and drops a    *)
(* genuine message only if its counter was passed up already or lies a     *)
(* whole window behind the highest one.                                    *)
(***************************************************************************)
EXTENDS Integers

CONSTANTS WindowSize, MaxCounter

VARIABLES synced,  \* the session's peer counter is synchronized
          high,    \* the highest counter seen, or synchronized to
          seen,    \* counters passed up as new since then
          verdict  \* the last message and what became of it

vars == <<synced, high, seen, verdict>>

Outcome(c, genuine, result) ==
    [counter |-> c, genuine |-> genuine, result |-> result]

NoOutcome == Outcome(0, FALSE, "none")

Init ==
    /\ synced = FALSE
    /\ high = 0
    /\ seen = {}
    /\ verdict = NoOutcome

InWindow(c) == high - c < WindowSize

Synchronize(c) ==
    /\ synced' = TRUE
    /\ high' = c
    /\ seen' = {}
    /\ verdict' = NoOutcome

Forget ==
    /\ synced' = FALSE
    /\ high' = 0
    /\ seen' = {}
    /\ verdict' = NoOutcome

Accept(c) ==
    /\ synced
    /\ c \notin seen
    /\ InWindow(c)
    /\ seen' = seen \cup {c}
    /\ high' = IF c > high THEN c ELSE high
    /\ verdict' = Outcome(c, TRUE, "new")
    /\ UNCHANGED synced

\* A counter seen before is reported, as a duplicate, only while it is still
\* in the window: that is what lets its sender have a second acknowledgment.
Repeat(c) ==
    /\ synced
    /\ c \in seen
    /\ InWindow(c)
    /\ verdict' = Outcome(c, TRUE, "duplicate")
    /\ UNCHANGED <<synced, high, seen>>

Drop(c, genuine) ==
    /\ synced
    /\ ~genuine \/ c \in seen \/ ~InWindow(c)
    /\ verdict' = Outcome(c, genuine, "dropped")
    /\ UNCHANGED <<synced, high, seen>>

\* Before synchronization nothing can be judged: the message waits.
Defer(c, genuine) ==
    /\ ~synced
    /\ verdict' = Outcome(c, genuine, "queued")
    /\ UNCHANGED <<synced, high, seen>>

\* Control messages are outside the filter.
Control(c, genuine) ==
    /\ verdict' = Outcome(c, genuine, IF genuine THEN "control" ELSE "dropped")
    /\ UNCHANGED <<synced, high, seen>>

Next ==
    \/ Forget
    \/ \E c \in 0 .. MaxCounter :
        \/ Synchronize(c) \/ Accept(c) \/ Repeat(c)
        \/ \E genuine \in BOOLEAN :
            Drop(c, genuine) \/ Defer(c, genuine) \/ Control(c, genuine)

Spec == Init /\ [][Next]_vars
=============================================================================
