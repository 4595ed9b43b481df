----------------------------- MODULE LaneState ------------------------------
(***************************************************************************)
(* The state of one lane: what reducer.reduce folds out of a lane's event  *)
(* log (tools/conductor/reducer.py).  One operator per event kind says     *)
(* what appending that event does to the fold; the log itself is never     *)
(* read in any other way, so the lane is modelled by its fold.             *)
(*                                                                         *)
(* A PR stands for the head, branch and trailers its FIRST enqueue froze.  *)
(* Ages matter only up to ForceSoloK, where they are capped.  The reducer's *)
(* unhold event is left out: nothing outside the tests appends it.         *)
(***************************************************************************)
EXTENDS Integers, FiniteSets

CONSTANTS PR,           \* pull requests
          ForceSoloK,   \* reducer.FORCE_SOLO_K
          NoPR          \* "no other PR", in an ejection

EmptyLane ==
    [rank     |-> [p \in PR |-> 0],   \* enqueue position, 0 = never enqueued
     done     |-> {},                 \* landed or ejected
     landed   |-> {},
     ejected  |-> {},                 \* with the reason, and the PR kept
     held     |-> {},
     age      |-> [p \in PR |-> 0],
     prepared |-> {},                 \* intents, one per batch id
     m        |-> 1,                  \* the AIMD window
     atRisk   |-> 0,                  \* PRs landed since the last barrier
     formed   |-> 0]                  \* batch_formed events in the log

-----------------------------------------------------------------------------
(* The events *)

Enqueued(s, p) ==
    IF s.rank[p] # 0 THEN s
    ELSE [s EXCEPT !.rank[p] = 1 + Cardinality({q \in PR : s.rank[q] # 0})]

BatchFormed(s) == [s EXCEPT !.formed = @ + 1]

\* Mutant of IntentPrepared: the fold does not know the event.
IntentForgotten(s, i) == s

\* An intent replaces the one with the same batch id.
IntentPrepared(s, i) ==
    [s EXCEPT !.prepared = {j \in @ : j.no # i.no} \cup {i}]

\* Mutant of BatchLanded: what landed stays in the queue.
LandedStillPending(s, prs, no) ==
    [s EXCEPT !.landed = @ \cup prs, !.prepared = {j \in @ : j.no # no}]

BatchLanded(s, prs, no) ==
    LET fresh == prs \ s.done
    IN  [s EXCEPT !.landed = @ \cup fresh, !.done = @ \cup fresh,
                  !.atRisk = @ + Cardinality(fresh),
                  !.prepared = {j \in @ : j.no # no}]

\* Mutant of Ejected: what was ejected stays in the queue.
EjectedStillPending(s, p, why, kept) ==
    [s EXCEPT !.ejected = @ \cup {[pr |-> p, why |-> why, kept |-> kept]}]

\* ejected, culprit_ejected and incompatible_ejected
Ejected(s, p, why, kept) ==
    [s EXCEPT !.ejected = @ \cup {[pr |-> p, why |-> why, kept |-> kept]},
              !.done = @ \cup {p}]

Held(s, prs) == [s EXCEPT !.held = @ \cup prs]

Aged(s, prs) ==
    [s EXCEPT !.age = [p \in PR |->
        IF p \in prs /\ @[p] < ForceSoloK THEN @[p] + 1 ELSE @[p]]]

WindowTuned(s, m) == [s EXCEPT !.m = m]

BarrierPassed(s) == [s EXCEPT !.atRisk = 0]

-----------------------------------------------------------------------------
(* What the fold is asked for *)

\* Mutant of Pending: a held PR is still offered to the next batch.
PendingAndHeld(s) == {p \in PR : s.rank[p] # 0} \ s.done

Pending(s) == {p \in PR : s.rank[p] # 0} \ (s.done \cup s.held)

\* The PRs of set ps up to and including p, in enqueue order.
UpTo(s, ps, p) == {q \in ps : s.rank[q] <= s.rank[p]}

FirstN(s, ps, n) == {p \in ps : Cardinality(UpTo(s, ps, p)) <= n}

ForcedSolo(s, p) == s.age[p] >= ForceSoloK
=============================================================================
