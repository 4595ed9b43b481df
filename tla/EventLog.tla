------------------------------ MODULE EventLog ------------------------------
(***************************************************************************)
(* What a caller of StateLog.append is promised (statelog.py:9-12): one    *)
(* shared log that only grows, one event at a time, and in which every     *)
(* append that returned owns a slot holding its event.  An append whose    *)
(* outcome never reached its caller may still have taken a slot.           *)
(***************************************************************************)
EXTENDS Naturals, Sequences

CONSTANTS Writer,       \* processes that append (lane runners, releasers)
          MaxAppends,   \* bound: appends per writer
          Event,        \* the events
          EventOf,      \* EventOf[w, n]: the event of w's n-th append
          LossyAcks     \* may an applied push be reported as a failure?

Ops == Writer \X (1..MaxAppends)

VARIABLES log,          \* the events, oldest first
          acked         \* the appends that returned, each with its slot

EventLogVars == <<log, acked>>

Slot(op, i) == [writer |-> op[1], no |-> op[2], pos |-> i]

Acked(op) == \E a \in acked : a.writer = op[1] /\ a.no = op[2]

Init == log = <<>> /\ acked = {}

\* The event takes the next slot and its writer learns of it.
Commit(op) ==
    /\ ~Acked(op)
    /\ log' = Append(log, EventOf[op])
    /\ acked' = acked \cup {Slot(op, Len(log) + 1)}

\* The event takes the next slot but its writer is told it failed.
CommitUnheard(op) ==
    /\ LossyAcks
    /\ ~Acked(op)
    /\ log' = Append(log, EventOf[op])
    /\ UNCHANGED acked

\* The writer learns of a slot that an earlier attempt of its own took.
Confirm(op) ==
    /\ ~Acked(op)
    /\ \E i \in DOMAIN log :
          /\ log[i] = EventOf[op]
          /\ \A a \in acked : a.pos # i
          /\ acked' = acked \cup {Slot(op, i)}
    /\ UNCHANGED log

Next == \E op \in Ops : Commit(op) \/ CommitUnheard(op) \/ Confirm(op)

Spec == Init /\ [][Next]_EventLogVars
=============================================================================
