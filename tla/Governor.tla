------------------------------ MODULE Governor ------------------------------
(***************************************************************************)
(* The write/CI budget shared by all lanes (tools/conductor/governor.py)   *)
(* as lane_engine.py uses it: a lane acquires a token, ticks, and releases *)
(* the token; the reconciler reaps expired tokens.                         *)
(*                                                                         *)
(* The governor's log is modelled by its fold, the tokens acquired and not *)
(* yet released or reaped; an append is atomic (StateLog).  Time is        *)
(* relative: a token has some time left, a process some time since it read *)
(* its clock, so that expires_at > now reads left + age > 0.               *)
(***************************************************************************)
EXTENDS Integers, FiniteSets

CONSTANTS Holder,       \* the lanes, numbered in the order of their names
          Reconciler,   \* the process that only reaps
          Budget,       \* WriteGovernor's budget
          TTL,          \* WriteGovernor's ttl_ms
          MaxCI,        \* WriteGovernor's max_ci_ms: how long a tick may take
          AcquireMax,   \* how long an acquire() may take
          MaxTokens,    \* bound: tokens of one holder in use at a time
          MaxCrashes    \* bound: killed processes

Proc == Holder \cup {Reconciler}
Token == Holder \X (1 .. MaxTokens)

ASSUME GovernorAssumption ==
    /\ Holder \subseteq Nat
    /\ Reconciler \notin Holder
    /\ {TTL, MaxCI, AcquireMax, MaxTokens, MaxCrashes} \subseteq Nat
    /\ Budget \in Nat \ {0}

\* The constructor's assertion.
ASSUME TTLExceedsCI == TTL > MaxCI

VARIABLES acquired,   \* the tokens in the fold
          left,       \* how long each of them is still valid
          pc,         \* where each process is
          age,        \* the time since the process read its clock
          seen,       \* the expired tokens it still has to reap
          full,       \* did it find the budget used up?
          tok,        \* the token it appended
          spent,      \* how long it has been working
          crashes     \* killed processes so far

vars == <<acquired, left, pc, age, seen, full, tok, spent, crashes>>

Phase == {"idle", "read", "reap", "recheck", "undo", "work"}
Acquiring == {"read", "reap", "recheck", "undo"}

NoToken == <<0, 0>>

Live(p) == {t \in acquired : left[t] + age[p] > 0}

\* Mutant of Expired: nothing is ever reaped.
NeverExpired(p) == {}

Expired(p) == acquired \ Live(p)

\* The fold forgets a released or reaped token; it may have done so already.
Drop(t) ==
    /\ acquired' = acquired \ {t}
    /\ left' = [left EXCEPT ![t] = 0]

Return(p) ==
    /\ pc' = [pc EXCEPT ![p] = "idle"]
    /\ age' = [age EXCEPT ![p] = 0]
    /\ seen' = [seen EXCEPT ![p] = {}]
    /\ full' = [full EXCEPT ![p] = FALSE]
    /\ tok' = [tok EXCEPT ![p] = NoToken]
    /\ spent' = [spent EXCEPT ![p] = 0]

ledger == <<acquired, left>>
local == <<age, seen, full, tok, spent>>

-----------------------------------------------------------------------------
Init ==
    /\ acquired = {}
    /\ left = [t \in Token |-> 0]
    /\ pc = [p \in Proc |-> "idle"]
    /\ age = [p \in Proc |-> 0]
    /\ seen = [p \in Proc |-> {}]
    /\ full = [p \in Proc |-> FALSE]
    /\ tok = [p \in Proc |-> NoToken]
    /\ spent = [p \in Proc |-> 0]
    /\ crashes = 0

\* acquire() or reap() is entered and reads the clock, once and for all.
ReadClock(p) ==
    /\ pc[p] = "idle"
    /\ pc' = [pc EXCEPT ![p] = "read"]
    /\ UNCHANGED <<ledger, local, crashes>>

ReadLog(p) ==
    /\ pc[p] = "read"
    /\ seen' = [seen EXCEPT ![p] = Expired(p)]
    /\ full' = [full EXCEPT ![p] = Cardinality(Live(p)) >= Budget]
    /\ pc' = [pc EXCEPT ![p] = "reap"]
    /\ UNCHANGED <<ledger, age, tok, spent, crashes>>

\* One ev_reaped is appended for every token seen expired.
Reap(p) ==
    /\ pc[p] = "reap"
    /\ \E t \in seen[p] :
          /\ Drop(t)
          /\ seen' = [seen EXCEPT ![p] = @ \ {t}]
    /\ UNCHANGED <<pc, age, full, tok, spent, crashes>>

ReapDone(p) ==
    /\ pc[p] = "reap"
    /\ seen[p] = {}
    /\ p = Reconciler \/ full[p]
    /\ Return(p)
    /\ UNCHANGED <<ledger, crashes>>

\* A token's name is new to every process that may still speak of it.
InUse(t) == t \in acquired \/ \E p \in Proc : t = tok[p] \/ t \in seen[p]

Fresh(h) == {t \in {h} \X (1 .. MaxTokens) :
                /\ ~InUse(t)
                /\ \A n \in 1 .. (t[2] - 1) : InUse(<<h, n>>)}

\* Mutant of Expiry: the lease lasts as long as a tick may take.
ExpiryOfCI(h) == MaxCI - age[h]

Expiry(h) == TTL - age[h]

Issue(h) ==
    /\ pc[h] = "reap"
    /\ seen[h] = {}
    /\ ~full[h]
    /\ \E t \in Fresh(h) :
          /\ acquired' = acquired \cup {t}
          /\ left' = [left EXCEPT ![t] = Expiry(h)]
          /\ tok' = [tok EXCEPT ![h] = t]
    /\ pc' = [pc EXCEPT ![h] = "recheck"]
    /\ UNCHANGED <<age, seen, full, spent, crashes>>

\* Sorted by (expires_at, token); a token starts with its holder's name.
Before(a, b) ==
    \/ left[a] < left[b]
    \/ left[a] = left[b] /\ a[1] < b[1]
    \/ left[a] = left[b] /\ a[1] = b[1] /\ a[2] < b[2]

\* Mutant of Kept: the slice is one short.
KeptOneShort(h) ==
    /\ tok[h] \in Live(h)
    /\ Cardinality({t \in Live(h) : Before(t, tok[h])}) < Budget - 1

\* Mutant of Kept: there is no re-check.
KeptAnyway(h) == tok[h] \in Live(h)

\* The optimistic re-check, with the clock as it was read.
Kept(h) ==
    /\ tok[h] \in Live(h)
    /\ Cardinality({t \in Live(h) : Before(t, tok[h])}) < Budget

Keep(h) ==
    /\ pc[h] = "recheck"
    /\ Kept(h)
    /\ pc' = [pc EXCEPT ![h] = "work"]
    /\ age' = [age EXCEPT ![h] = 0]
    /\ UNCHANGED <<ledger, seen, full, tok, spent, crashes>>

GiveUp(h) ==
    /\ pc[h] = "recheck"
    /\ ~Kept(h)
    /\ pc' = [pc EXCEPT ![h] = "undo"]
    /\ UNCHANGED <<ledger, local, crashes>>

Undo(h) ==
    /\ pc[h] = "undo"
    /\ Drop(tok[h])
    /\ Return(h)
    /\ UNCHANGED crashes

\* The tick ended, or raised.
Release(h) ==
    /\ pc[h] = "work"
    /\ Drop(tok[h])
    /\ Return(h)
    /\ UNCHANGED crashes

\* The job is killed, and what it was running with it.
Crash(p) ==
    /\ pc[p] # "idle"
    /\ crashes < MaxCrashes
    /\ crashes' = crashes + 1
    /\ Return(p)
    /\ UNCHANGED ledger

Elapse ==
    /\ left' = [t \in Token |->
           IF t \in acquired /\ left[t] > -AcquireMax THEN left[t] - 1
                                                     ELSE left[t]]
    /\ age' = [p \in Proc |-> IF pc[p] \in Acquiring THEN age[p] + 1 ELSE age[p]]
    /\ spent' = [p \in Proc |-> IF pc[p] = "work" THEN spent[p] + 1 ELSE spent[p]]
    /\ UNCHANGED <<acquired, pc, seen, full, tok, crashes>>

\* A unit of time goes by; nobody outstays its bound.
Tick ==
    /\ \A p \in Proc : pc[p] \in Acquiring => age[p] < AcquireMax
    /\ \A p \in Proc : pc[p] = "work" => spent[p] < MaxCI
    /\ Elapse

-----------------------------------------------------------------------------
Acquire(h) == Issue(h) \/ Keep(h) \/ GiveUp(h) \/ Undo(h) \/ Release(h)

Step(p) ==
    \/ ReadClock(p) \/ ReadLog(p) \/ Reap(p) \/ ReapDone(p)
    \/ p \in Holder /\ Acquire(p)

Next == Tick \/ \E p \in Proc : Step(p) \/ Crash(p)

Spec == Init /\ [][Next]_vars

\* Time passes, and every process is scheduled again and again.
FairSpec == Spec /\ WF_vars(Tick) /\ \A p \in Proc : WF_vars(Step(p))

-----------------------------------------------------------------------------
(* Properties *)

TypeOK ==
    /\ acquired \subseteq Token
    /\ left \in [Token -> Int]
    /\ pc \in [Proc -> Phase]
    /\ age \in [Proc -> 0 .. AcquireMax]
    /\ seen \in [Proc -> SUBSET Token]
    /\ full \in [Proc -> BOOLEAN]
    /\ tok \in [Proc -> Token \cup {NoToken}]
    /\ spent \in [Proc -> 0 .. MaxCI]
    /\ crashes \in 0 .. MaxCrashes

Working == {h \in Holder : pc[h] = "work"}

\* BUDGET-NEVER-EXCEEDED "for the physical resource, not just the ledger":
\* no more lanes tick at a time than the budget allows (governor.py:5-7).
BudgetNeverExceeded == Cardinality(Working) <= Budget

\* The token of a lane that is still ticking is in the ledger: nobody has
\* reaped it, so its slot is not issued again (governor.py:36).
HolderNeverReaped == \A h \in Working : tok[h] \in acquired

\* The token of a killed job does not hold its slot for ever: again and again
\* every token in the ledger is some lane's (governor.py:56-59, reconciler.py).
OrphansReclaimed == []<>(\A t \in acquired : \E h \in Holder : tok[h] = t)

\* Lanes that keep asking do not undo each other for ever: again and again
\* one of them gets to tick (governor.py:65-70).
SomebodyWorks == []<>(Working # {})
=============================================================================
