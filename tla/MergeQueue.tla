----------------------------- MODULE MergeQueue -----------------------------
(***************************************************************************)
(* The merge queue: lanes, the one linear trunk they land on, and the      *)
(* runners that tick them (batch_engine.py, land.py, trunk.py and          *)
(* reconciler.py of tools/conductor).                                      *)
(*                                                                         *)
(* A runner is one CI job.  Between any two of its git operations other    *)
(* runners may act, a human may push a hotfix, or the job may be killed;   *)
(* every read or push is a step of its own.  A lane's log is the fold of   *)
(* LaneState; that an append is atomic is what StateLog shows.             *)
(*                                                                         *)
(* A land is one trunk advance: the commits of a whole batch, made by one  *)
(* push.  Each commit embeds the lane and batch id (land.land_message) and *)
(* has its parent's OID in its own, so an OID is modelled by the sequence  *)
(* of lands up to it.                                                      *)
(***************************************************************************)
EXTENDS LaneState, Sequences, SequencesExt

CONSTANTS Lane,
          Runner,
          LaneOf,        \* the lane each runner ticks
          Hotfix,        \* commits humans push to trunk behind the queue
          NoLane,        \* the lane of a hotfix
          Red,           \* the trees (sets of changes) some test always fails on
          Conflicts,     \* pairs of PRs that do not merge textually
          Budget,        \* BatchEngine's budget: the largest batch
          NBarrier,      \* at-risk PRs that call for a barrier
          Flaky,         \* may a test run come out UNRESOLVED on a good tree?
          GuardMayFail,  \* may the at-land guard refuse a green batch?
          RecoverFirst,  \* does every run complete intents before it ticks?
          MaxFormed,     \* bound: batches formed per lane
          MaxFaults      \* bound: killed runners and lost push answers

Change == PR \cup Hotfix

ASSUME MergeQueueAssumption ==
    /\ IsFiniteSet(PR)
    /\ NoPR \notin PR
    /\ NoLane \notin Lane
    /\ LaneOf \in [Runner -> Lane]
    /\ Red \subseteq SUBSET Change
    /\ Budget \in Nat \ {0}
    /\ NBarrier \in Nat \ {0}
    /\ ForceSoloK \in Nat \ {0}
    /\ MaxFormed \in Nat
    /\ MaxFaults \in Nat
    /\ {Flaky, GuardMayFail, RecoverFirst} \subseteq BOOLEAN

VARIABLES trunk,    \* refs/heads/main: the lands it is made of
          lane,     \* each lane's state, as its log folds
          pc,       \* where each runner is in its job
          snap,     \* the lane state the runner read
          base,     \* the trunk tip the runner read
          work,     \* the runner's batch: its PRs, id, window and decision
          faults,   \* faults so far
          checked   \* history: how much of trunk the last barrier covered

vars == <<trunk, lane, pc, snap, base, work, faults, checked>>

NoWork == [prs |-> {}, no |-> 0, m |-> 1, dec |-> "none"]

Phase == {"idle", "recover", "recoverTrunk", "complete", "readLane",
          "readTrunk", "barrier", "form", "verdict", "aged", "tuned", "land",
          "guarded", "confirm", "record", "tuneUp"}

\* The content of a commit: the changes merged into it.
Tree(tip) == UNION {tip[i].prs : i \in DOMAIN tip}

Land(l, w) == [lane |-> l, no |-> w.no, prs |-> w.prs]

\* The spec tip a runner builds: its batch on top of the trunk it read.
Spec(r) == Append(base[r], Land(LaneOf[r], work[r]))

Here(r) == lane[LaneOf[r]]

\* Append an event to the runner's lane: s is the fold with the event.
Log(r, s) == lane' = [lane EXCEPT ![LaneOf[r]] = s]

Goto(r, phase) == pc' = [pc EXCEPT ![r] = phase]

\* The job ends, and its working copy with it.
Finish(r) ==
    /\ Goto(r, "idle")
    /\ snap' = [snap EXCEPT ![r] = EmptyLane]
    /\ base' = [base EXCEPT ![r] = <<>>]
    /\ work' = [work EXCEPT ![r] = NoWork]

local == <<snap, base, work>>
aux == <<faults, checked>>

-----------------------------------------------------------------------------
(* Building specs (BatchEngine._spec_for, WorkRepo.merge_tree) *)

Clean(tree, p) == \A q \in tree : {p, q} \notin Conflicts

\* Mutant of Built: skip a conflicting member instead of stopping at it.
BuiltSkipping(s, tree, ps) ==
    {p \in ps : Clean(tree \cup (UpTo(s, ps, p) \ {p}), p)}

\* The conflict-free prefix of ps on top of tree.
Built(s, tree, ps) ==
    {p \in ps : \A q \in UpTo(s, ps, p) :
                    Clean(tree \cup (UpTo(s, ps, q) \ {q}), q)}

\* How many PRs the tick asks for: one if the head has aged, else the window.
Target(s) ==
    LET ps == Pending(s)
    IN  IF \E p \in FirstN(s, ps, 1) : ForcedSolo(s, p) THEN 1
        ELSE IF s.m < Budget THEN s.m ELSE Budget

Tuned(m) == IF m < 1 THEN 1 ELSE IF m > Budget THEN Budget ELSE m

\* What decide() can say of a spec tree: a deterministic failure is never
\* excused; an unresolved run is excused, held, or blamed on the batch.
Outcomes(tree) ==
    IF tree \in Red THEN {"red"}
    ELSE IF Flaky THEN {"green", "hold", "red"} ELSE {"green"}

-----------------------------------------------------------------------------
Init ==
    /\ trunk = <<>>
    /\ lane = [l \in Lane |-> EmptyLane]
    /\ pc = [r \in Runner |-> "idle"]
    /\ snap = [r \in Runner |-> EmptyLane]
    /\ base = [r \in Runner |-> <<>>]
    /\ work = [r \in Runner |-> NoWork]
    /\ faults = 0
    /\ checked = 0

\* A PR is (re-)offered to a lane.
Enqueue(l, p) ==
    /\ lane' = [lane EXCEPT ![l] = Enqueued(@, p)]
    /\ UNCHANGED <<trunk, pc, local, aux>>

\* A human pushes to trunk.
PushHotfix(h) ==
    /\ h \notin Tree(trunk)
    /\ trunk' = Append(trunk, [lane |-> NoLane, no |-> 0, prs |-> {h}])
    /\ UNCHANGED <<lane, pc, local, aux>>

\* A job starts: it reconciles and then ticks, or only ticks.
Start(r) ==
    /\ pc[r] = "idle"
    /\ \/ Goto(r, "recover")
       \/ ~RecoverFirst /\ Goto(r, "readLane")
    /\ UNCHANGED <<trunk, lane, local, aux>>

-----------------------------------------------------------------------------
(* Reconciler.complete_intents *)

RecoverRead(r) ==
    /\ pc[r] = "recover"
    /\ snap' = [snap EXCEPT ![r] = Here(r)]
    /\ Goto(r, "recoverTrunk")
    /\ UNCHANGED <<trunk, lane, base, work, aux>>

RecoverReadTrunk(r) ==
    /\ pc[r] = "recoverTrunk"
    /\ base' = [base EXCEPT ![r] = trunk]
    /\ Goto(r, "complete")
    /\ UNCHANGED <<trunk, lane, snap, work, aux>>

\* Mutant of Abandoned: an intent is given up whatever trunk says.
AllAbandoned(r) == snap[r].prepared

\* The intents the reconciler gives up: trunk's tip is not their spec tip.
Abandoned(r) == {i \in snap[r].prepared : i.spec # base[r]}

\* Record the intent whose spec is trunk's tip (at most one is: a spec tip
\* carries its batch id); the others are abandoned.
Complete(r) ==
    /\ pc[r] = "complete"
    /\ \/ \E i \in snap[r].prepared \ Abandoned(r) :
             Log(r, BatchLanded(Here(r), i.prs, i.no))
       \/ /\ snap[r].prepared \subseteq Abandoned(r)
          /\ UNCHANGED lane
    /\ Goto(r, "readLane")
    /\ snap' = [snap EXCEPT ![r] = EmptyLane]
    /\ base' = [base EXCEPT ![r] = <<>>]
    /\ UNCHANGED <<trunk, work, aux>>

-----------------------------------------------------------------------------
(* BatchEngine.tick *)

TickRead(r) ==
    /\ pc[r] = "readLane"
    /\ IF Pending(Here(r)) = {}
       THEN Finish(r)
       ELSE /\ snap' = [snap EXCEPT ![r] = Here(r)]
            /\ Goto(r, "readTrunk")
            /\ UNCHANGED <<base, work>>
    /\ UNCHANGED <<trunk, lane, aux>>

\* Mutant of BarrierDue: the check is off by one.
BarrierLate(s) == s.atRisk > NBarrier

BarrierDue(s) == s.atRisk >= NBarrier

TickReadTrunk(r) ==
    /\ pc[r] = "readTrunk"
    /\ base' = [base EXCEPT ![r] = trunk]
    /\ Goto(r, IF BarrierDue(snap[r]) THEN "barrier" ELSE "form")
    /\ UNCHANGED <<trunk, lane, snap, work, aux>>

\* The full suite on the trunk tip passes, its flakes excused.
BarrierOk(r) ==
    /\ pc[r] = "barrier"
    /\ Tree(base[r]) \notin Red
    /\ Log(r, BarrierPassed(Here(r)))
    /\ checked' = Len(base[r])
    /\ Goto(r, "form")
    /\ UNCHANGED <<trunk, local, faults>>

\* It fails, or does not resolve: nothing lands in this tick.
BarrierRed(r) ==
    /\ pc[r] = "barrier"
    /\ Tree(base[r]) \in Red \/ Flaky
    /\ Finish(r)
    /\ UNCHANGED <<trunk, lane, aux>>

\* The PRs the tick tries to batch, and those a spec could be built of.
Asked(r) == FirstN(snap[r], Pending(snap[r]), Target(snap[r]))
Batch(r) == Built(snap[r], Tree(base[r]), Asked(r))

\* The head of the queue conflicts with trunk.
EjectHead(r) ==
    /\ pc[r] = "form"
    /\ Batch(r) = {}
    /\ \E p \in FirstN(snap[r], Asked(r), 1) :
          Log(r, Ejected(Here(r), p, "merge conflict", NoPR))
    /\ Finish(r)
    /\ UNCHANGED <<trunk, aux>>

\* Build the spec; the batch id counts the batches in the log it READ.
Form(r) ==
    /\ pc[r] = "form"
    /\ Batch(r) # {}
    /\ Here(r).formed < MaxFormed
    /\ Log(r, BatchFormed(Here(r)))
    /\ work' = [work EXCEPT ![r] = [prs |-> Batch(r), no |-> snap[r].formed + 1,
                                    m |-> snap[r].m, dec |-> "none"]]
    /\ Goto(r, "verdict")
    /\ UNCHANGED <<trunk, snap, base, aux>>

\* Mutant of SpecTree: the PRs are judged without the trunk under them.
MembersTree(r) == work[r].prs

SpecTree(r) == Tree(base[r]) \cup work[r].prs

\* Green: the intent is durable before anything is pushed to trunk.
VerdictGreen(r) ==
    /\ pc[r] = "verdict"
    /\ "green" \in Outcomes(SpecTree(r))
    /\ Log(r, IntentPrepared(Here(r), [no |-> work[r].no, prs |-> work[r].prs,
                                       spec |-> Spec(r)]))
    /\ Goto(r, "land")
    /\ UNCHANGED <<trunk, local, aux>>

VerdictNotGreen(r) ==
    /\ pc[r] = "verdict"
    /\ \E d \in Outcomes(SpecTree(r)) \ {"green"} :
          work' = [work EXCEPT ![r].dec = d]
    /\ Log(r, Aged(Here(r), work[r].prs))
    /\ Goto(r, "aged")
    /\ UNCHANGED <<trunk, snap, base, aux>>

ShrinkWindow(r) ==
    /\ pc[r] = "aged"
    /\ Log(r, WindowTuned(Here(r), Tuned(work[r].m \div 2)))
    /\ Goto(r, "tuned")
    /\ UNCHANGED <<trunk, local, aux>>

HoldBatch(r) ==
    /\ pc[r] = "tuned"
    /\ work[r].dec = "hold"
    /\ Log(r, Held(Here(r), work[r].prs))
    /\ Finish(r)
    /\ UNCHANGED <<trunk, aux>>

-----------------------------------------------------------------------------
(* BatchEngine._isolate.  Phase 1 judges members alone on the trunk that   *)
(* was read, phase 2 growing prefixes; both in enqueue order, and the      *)
(* first finding is the only event.                                        *)

\* The batch up to p, and before p, in the order it was enqueued in.
Prefix(r, p) == UpTo(snap[r], work[r].prs, p)
Earlier(r, p) == Prefix(r, p) \ {p}

RedAlone(r, p) == Tree(base[r]) \cup {p} \in Red
RedUpTo(r, p) == /\ Cardinality(Prefix(r, p)) >= 2
                 /\ Tree(base[r]) \cup Prefix(r, p) \in Red

Isolating(r) == pc[r] = "tuned" /\ work[r].dec = "red"

\* Mutant of EjectCulprit's choice: blame the last member of the red batch.
LastMember(r, p) == Prefix(r, p) = work[r].prs

Culprit(r, p) == RedAlone(r, p) /\ \A q \in Earlier(r, p) : ~RedAlone(r, q)

EjectCulprit(r) ==
    /\ Isolating(r)
    /\ \E p \in work[r].prs :
          /\ Culprit(r, p)
          /\ Log(r, Ejected(Here(r), p, "regression", NoPR))
    /\ Finish(r)
    /\ UNCHANGED <<trunk, aux>>

\* A member alone does not resolve, and nothing excuses it.
HoldCandidate(r) ==
    /\ Isolating(r)
    /\ Flaky
    /\ \E p \in work[r].prs :
          /\ \A q \in Prefix(r, p) : ~RedAlone(r, q)
          /\ Log(r, Held(Here(r), {p}))
    /\ Finish(r)
    /\ UNCHANGED <<trunk, aux>>

NoCulprit(r) == \A p \in work[r].prs : ~RedAlone(r, p)

\* No member is red alone: eject the one that turns the prefix red, and
\* call it incompatible with the first of the batch.
EjectIncompatible(r) ==
    /\ Isolating(r)
    /\ NoCulprit(r)
    /\ \E p \in work[r].prs :
          /\ RedUpTo(r, p)
          /\ \A q \in Earlier(r, p) : ~RedUpTo(r, q)
          /\ \E k \in FirstN(snap[r], work[r].prs, 1) :
                Log(r, Ejected(Here(r), p, "incompatible", k))
    /\ Finish(r)
    /\ UNCHANGED <<trunk, aux>>

HoldUnisolated(r) ==
    /\ Isolating(r)
    /\ NoCulprit(r)
    /\ \A p \in work[r].prs : ~RedUpTo(r, p)
    /\ Log(r, Held(Here(r), work[r].prs))
    /\ Finish(r)
    /\ UNCHANGED <<trunk, aux>>

-----------------------------------------------------------------------------
(* land.record_land, and what the tick does with its answer *)

\* The last check before the push refuses: the batch is held.
GuardRefuses(r) ==
    /\ GuardMayFail
    /\ pc[r] = "land"
    /\ Log(r, Held(Here(r), work[r].prs))
    /\ Goto(r, "guarded")
    /\ UNCHANGED <<trunk, local, aux>>

TuneGuarded(r) ==
    /\ pc[r] = "guarded"
    /\ Log(r, WindowTuned(Here(r), Tuned(work[r].m \div 2)))
    /\ Finish(r)
    /\ UNCHANGED <<trunk, aux>>

\* Mutant of LeaseHolds: a plain forced push.
NoLease(r) == TRUE

\* --force-with-lease=main:base: main is still what the spec was built on, or
\* holds the very same spec, which git calls "up-to-date".
LeaseHolds(r) == trunk \in {base[r], Spec(r)}

Advance(r) ==
    /\ pc[r] = "land"
    /\ LeaseHolds(r)
    /\ trunk' = Spec(r)
    /\ Goto(r, "confirm")
    /\ UNCHANGED <<lane, local, aux>>

\* The push was applied but reported as failed: batch_retried.
AdvanceUnheard(r) ==
    /\ pc[r] = "land"
    /\ faults < MaxFaults
    /\ LeaseHolds(r)
    /\ trunk' = Spec(r)
    /\ faults' = faults + 1
    /\ Finish(r)
    /\ UNCHANGED <<lane, checked>>

\* Trunk moved: batch_retried, which leaves no trace in the fold.
AdvanceRejected(r) ==
    /\ pc[r] = "land"
    /\ ~LeaseHolds(r)
    /\ Finish(r)
    /\ UNCHANGED <<trunk, lane, aux>>

\* The independent ls-remote.
Confirms(r) == trunk = Spec(r)

Confirm(r) ==
    /\ pc[r] = "confirm"
    /\ Confirms(r)
    /\ Goto(r, "record")
    /\ UNCHANGED <<trunk, lane, local, aux>>

\* Somebody advanced trunk after us: "advance unconfirmed", batch_retried.
Unconfirmed(r) ==
    /\ pc[r] = "confirm"
    /\ ~Confirms(r)
    /\ Finish(r)
    /\ UNCHANGED <<trunk, lane, aux>>

Record(r) ==
    /\ pc[r] = "record"
    /\ Log(r, BatchLanded(Here(r), work[r].prs, work[r].no))
    /\ Goto(r, "tuneUp")
    /\ UNCHANGED <<trunk, local, aux>>

GrowWindow(r) ==
    /\ pc[r] = "tuneUp"
    /\ Log(r, WindowTuned(Here(r), Tuned(work[r].m + 1)))
    /\ Finish(r)
    /\ UNCHANGED <<trunk, aux>>

\* The job is killed between any two operations.
Crash(r) ==
    /\ pc[r] # "idle"
    /\ faults < MaxFaults
    /\ faults' = faults + 1
    /\ Finish(r)
    /\ UNCHANGED <<trunk, lane, checked>>

-----------------------------------------------------------------------------
Recover(r) == RecoverRead(r) \/ RecoverReadTrunk(r) \/ Complete(r)

Speculate(r) ==
    \/ TickRead(r) \/ TickReadTrunk(r) \/ BarrierOk(r) \/ BarrierRed(r)
    \/ EjectHead(r) \/ Form(r) \/ VerdictGreen(r) \/ VerdictNotGreen(r)
    \/ ShrinkWindow(r) \/ HoldBatch(r)

Isolate(r) ==
    \/ EjectCulprit(r) \/ HoldCandidate(r)
    \/ EjectIncompatible(r) \/ HoldUnisolated(r)

RecordLand(r) ==
    \/ GuardRefuses(r) \/ TuneGuarded(r) \/ Advance(r) \/ AdvanceRejected(r)
    \/ Confirm(r) \/ Unconfirmed(r) \/ Record(r) \/ GrowWindow(r)

Run(r) == Start(r) \/ Recover(r) \/ Speculate(r) \/ Isolate(r) \/ RecordLand(r)

Next ==
    \/ \E l \in Lane, p \in PR : Enqueue(l, p)
    \/ \E h \in Hotfix : PushHotfix(h)
    \/ \E r \in Runner : Run(r) \/ AdvanceUnheard(r) \/ Crash(r)

Behaviour == Init /\ [][Next]_vars

\* The tick workflow runs on a schedule, and a run that is not killed ends.  A
\* barrier does not come out unresolved for ever: it feeds what it sees of the
\* trunk tip to the flaky log, which excuses it in the end (flaky.py).
FairBehaviour ==
    /\ Behaviour
    /\ \A r \in Runner : WF_vars(Run(r)) /\ SF_vars(BarrierOk(r))

-----------------------------------------------------------------------------
(* Properties *)

LandType == [lane : Lane \cup {NoLane}, no : Nat, prs : SUBSET Change]
TrunkType == Seq(LandType)

Intent == [no : Nat, prs : SUBSET PR, spec : TrunkType]

Ejection == [pr : PR, why : {"merge conflict", "regression", "incompatible"},
             kept : PR \cup {NoPR}]

LaneType ==
    [rank : [PR -> Nat], done : SUBSET PR, landed : SUBSET PR,
     ejected : SUBSET Ejection, held : SUBSET PR, age : [PR -> Nat],
     prepared : SUBSET Intent, m : 1 .. Budget, atRisk : Nat, formed : Nat]

WorkType == [prs : SUBSET PR, no : Nat, m : 1 .. Budget,
             dec : {"none", "green", "hold", "red"}]

TypeOK ==
    /\ trunk \in TrunkType
    /\ lane \in [Lane -> LaneType]
    /\ pc \in [Runner -> Phase]
    /\ snap \in [Runner -> LaneType]
    /\ base \in [Runner -> TrunkType]
    /\ work \in [Runner -> WorkType]
    /\ faults \in Nat
    /\ checked \in Nat

Landed(l) == lane[l].landed
OnTrunk == Tree(trunk)
EjectedFrom(l) == {e.pr : e \in lane[l].ejected}

\* Every tip a runner ever made is a tree its verdict may call green: what
\* was tested is what landed, although trunk moves between the two
\* (batch_engine.py tick, trunk.py advance).
EveryTipGreen ==
    \A i \in DOMAIN trunk :
        trunk[i].lane # NoLane => Tree(SubSeq(trunk, 1, i)) \notin Red

\* A lane records as landed only what trunk has, whether the runner or the
\* reconciler recorded it (land.record_land, Reconciler.complete_intents).
RecordedIsOnTrunk == \A l \in Lane : Landed(l) \subseteq OnTrunk

\* No land is ever without a witness: from the push on, either its lane has
\* recorded it or a prepared intent still names exactly that tip, so that a
\* recovery can find it (land.record_land: the intent is durable BEFORE).
LandHasWitness ==
    \A i \in DOMAIN trunk : trunk[i].lane # NoLane =>
        LET s == lane[trunk[i].lane]
        IN  \/ trunk[i].prs \subseteq s.landed
            \/ \E j \in s.prepared : j.spec = SubSeq(trunk, 1, i)

\* No PR overtakes another of its lane: when one is recorded landed, every
\* PR enqueued before it has landed, been ejected or been held, through
\* conflicts, retries, aging and recoveries (reducer.py pending, tick).
NoOvertaking ==
    \A l \in Lane : \A q \in Landed(l) : \A p \in PR :
        0 < lane[l].rank[p] /\ lane[l].rank[p] < lane[l].rank[q]
            => p \in lane[l].done \cup lane[l].held

\* No PR lands twice ("Exactly-once everything", README.md).
LandedOnce ==
    \A i, j \in DOMAIN trunk : trunk[i].prs \cap trunk[j].prs # {} => i = j

\* What trunk shows of an advance it has moved on from: the land on top of it.
LandOnTop(i, tip) == {tip[n] : n \in {k \in DOMAIN tip : k = Len(i.spec) + 1}}

\* An intent that was advanced is abandoned only when ANOTHER lane or a hotfix
\* landed right on top of it.  "If trunk != spec_tip the advance never happened"
\* (reconciler.py:10) leaves that out; but a lane that recovers before it ticks
\* never buries a land of its own, whatever is killed or unheard
\* (Reconciler.complete_intents, reconciler.py:34).
LostOnlyIfOvertaken ==
    \A r \in Runner : pc[r] = "complete" =>
        \A i \in Abandoned(r) : IsPrefix(i.spec, base[r]) =>
            \E x \in LandOnTop(i, base[r]) : x.lane # LaneOf[r]

\* Never more PRs on trunk behind the last barrier than may be at risk when
\* a batch is allowed, plus that batch: also when a land is recorded late,
\* by a recovery (batch_engine.py tick, reducer.py at_risk).
BlastRadius ==
    Cardinality(Tree(SubSeq(trunk, checked + 1, Len(trunk))))
        <= NBarrier - 1 + Budget

\* A lane settles a PR one way: what it ejected or holds is not on trunk,
\* also when it was on its way there before (reducer.py done and held_set).
RejectedStayOff ==
    \A l \in Lane : (EjectedFrom(l) \cup lane[l].held) \cap OnTrunk = {}

Greens == {Tree(SubSeq(trunk, 1, i)) : i \in 0 .. Len(trunk)} \ Red

\* Nobody is ejected for someone else's failure: there is a green trunk,
\* with or without other PRs on top, that this PR alone turns red, or that
\* it does not merge with (batch_engine.py _isolate, _spec_for).
EjectionsJustified ==
    \A l \in Lane : \A e \in lane[l].ejected :
        \/ e.why = "regression" /\ \E t \in Greens : t \cup {e.pr} \in Red
        \/ /\ e.why = "incompatible"
           /\ \E t \in Greens, qs \in SUBSET PR :
                  t \cup qs \notin Red /\ t \cup qs \cup {e.pr} \in Red
        \/ e.why = "merge conflict" /\ ~Clean(OnTrunk, e.pr)

\* Every enqueued PR is landed, ejected or held in the end, whatever its
\* companions, the other lanes and finitely many faults do: a lane comes to
\* rest again and again (conductor-tick.yml, batch_engine.py tick).
EveryPRSettles ==
    []<>(\A l \in Lane, p \in PR :
             lane[l].rank[p] # 0 => p \in lane[l].done \cup lane[l].held)
=============================================================================
