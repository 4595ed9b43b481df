----------------------------- MODULE Quarantine -----------------------------
(***************************************************************************)
(* Flaky-quarantine: how one lane turns repeated test runs into a land     *)
(* decision (verdict.py, flaky.py, ci_verdict.py and the verdict calls of  *)
(* batch_engine.py, in tools/conductor).                                   *)
(*                                                                         *)
(* A test passes, fails or RACES on a tree; a race may come out in any way *)
(* in any repetition.  The engine sees only the outcomes.  The repetitions *)
(* of a test are modelled by how many passed and how many failed, which is *)
(* all that classify and the flaky log's fold read.                        *)
(*                                                                         *)
(* The order of landing, the window, conflicts and crashed lands are       *)
(* MergeQueue's subject; here a tick asks for any number of PRs up to      *)
(* Budget, and every batch merges.                                         *)
(***************************************************************************)
EXTENDS Integers, FiniteSets

CONSTANTS PR,
          Hotfix,      \* commits humans push to trunk behind the queue
          Test,
          CI,          \* "_ci", the test id of a report that is not there
          FailsOn,     \* FailsOn[t]: the trees t fails on in every run
          RacesOn,     \* RacesOn[t]: the trees t passes or fails on at random
          Reps,        \* repetitions of a run
          NObs,        \* flaky.N_OBS
          Budget,      \* the largest batch
          NBarrier,    \* at-risk PRs that call for a barrier
          MayBePending \* may a fetch find no completed check-run?

Change  == PR \cup Hotfix
TestId  == Test \cup {CI}
Outcome == {"pass", "fail"}

ASSUME QuarantineAssumption ==
    /\ CI \notin Test
    /\ IsFiniteSet(PR) /\ PR \cap Hotfix = {}
    /\ FailsOn \in [Test -> SUBSET SUBSET Change]
    /\ RacesOn \in [Test -> SUBSET SUBSET Change]
    /\ \A t \in Test : FailsOn[t] \cap RacesOn[t] = {}
    /\ {Reps, NObs, Budget, NBarrier} \subseteq Nat \ {0}
    /\ MayBePending \in BOOLEAN

VARIABLES tree,     \* the content of trunk
          queue,    \* the lane's pending PRs
          since,    \* the place of each PR in the order of the enqueues, 0 before its own
          held,     \* held PRs, each with what it was judged on
          ejected,  \* ejected ones, likewise
          atRisk,   \* PRs landed since the last barrier
          pa,       \* the flaky log, folded: outcomes on PR-absent trees
          pc,
          seen,     \* the flaky state the tick read when it began
          base,     \* the trunk tree the tick read
          batch,    \* its members
          report,   \* the report under judgement
          todo,     \* barrier outcomes not yet appended to the flaky log
          judged,   \* the members isolation has passed
          trees,    \* history: the contents trunk has had
          lands     \* history: what was landed, and on which evidence

lanes == <<queue, since, held, ejected, atRisk>>
history == <<trees, lands>>
job == <<seen, base, batch, report, todo, judged>>
vars == <<tree, lanes, pa, pc, job, history>>

None == [o \in Outcome |-> 0]

-----------------------------------------------------------------------------
(* Runs and reports *)

\* How many of the repetitions of t pass on a tree.
Passes(t, tr) ==
    IF tr \in FailsOn[t] THEN {0} ELSE IF tr \in RacesOn[t] THEN 0 .. Reps
    ELSE {Reps}

\* The reports a run on a tree may produce.
Runs(tr) ==
    {[of |-> tr,
      per |-> [t \in Test |-> [pass |-> f[t], fail |-> Reps - f[t]]]] :
        f \in {g \in [Test -> 0 .. Reps] : \A t \in Test : g[t] \in Passes(t, tr)}}

\* CheckRunVerdict, when fetch finds no completed check-run: {"_ci": [True,
\* False]}.
Absent(tr) == [of |-> tr, per |-> [t \in {CI} |-> [pass |-> 1, fail |-> 1]]]

NoReport == [of |-> {}, per |-> <<>>]

\* The reports verdict(tree, ...) may return.
Reports(tr) ==
    Runs(tr) \cup (IF MayBePending THEN {Absent(tr)} ELSE {})

-----------------------------------------------------------------------------
(* verdict.classify and decide, flaky.FlakyState *)

DetFail(r) == {t \in DOMAIN r.per : r.per[t].pass = 0 /\ r.per[t].fail > 0}

Unresolved(r) == {t \in DOMAIN r.per : r.per[t].pass > 0 /\ r.per[t].fail > 0}

\* Mutant of EstablishedFlaky: enough observations, of whatever kind.
EnoughSeen(f, t) == f[t].pass + f[t].fail >= NObs

EstablishedFlaky(f, t) ==
    /\ f[t].pass >= 1 /\ f[t].fail >= 1
    /\ f[t].pass + f[t].fail >= NObs

StablePrAbsent(f, t) == f[t].fail = 0 /\ f[t].pass >= NObs

Unexcused(r, f) == {t \in Unresolved(r) : ~EstablishedFlaky(f, t)}

\* Mutant of Decide: an established flake excuses a deterministic failure.
DecideLenient(r, f) ==
    CASE \E t \in DetFail(r) : ~EstablishedFlaky(f, t) -> "red"
      [] \E t \in Unexcused(r, f) : StablePrAbsent(f, t) -> "red"
      [] Unexcused(r, f) = {} -> "green"
      [] OTHER -> "hold"

Decide(r, f) ==
    CASE DetFail(r) # {} -> "red"
      [] DetFail(r) = {} /\ \E t \in Unexcused(r, f) : StablePrAbsent(f, t) -> "red"
      [] DetFail(r) = {} /\ Unexcused(r, f) = {} -> "green"
      [] OTHER -> "hold"

\* One more outcome of a test.  Above NObs the counts make no difference.
Observed(f, t, outcome) ==
    [f EXCEPT ![t][outcome] = IF @ < NObs THEN @ + 1 ELSE @]

-----------------------------------------------------------------------------
Init ==
    /\ tree = {}
    /\ queue = {} /\ since = [p \in PR |-> 0]
    /\ held = {} /\ ejected = {} /\ atRisk = 0
    /\ pa = [t \in TestId |-> None]
    /\ pc = "idle"
    /\ seen = [t \in TestId |-> None]
    /\ base = {} /\ batch = {} /\ report = NoReport
    /\ todo = [t \in TestId |-> None]
    /\ judged = {}
    /\ trees = {{}} /\ lands = {}

IsFirst(p, S) == p \in S /\ \A q \in S : since[p] <= since[q]

\* The job's working state goes with it.
Finish ==
    /\ pc' = "idle"
    /\ seen' = [t \in TestId |-> None]
    /\ base' = {} /\ batch' = {} /\ report' = NoReport
    /\ todo' = [t \in TestId |-> None]
    /\ judged' = {}

Enqueue(p) ==
    /\ since[p] = 0
    /\ since' = [since EXCEPT ![p] = Cardinality({q \in PR : since[q] > 0}) + 1]
    /\ queue' = queue \cup {p}
    /\ UNCHANGED <<tree, held, ejected, atRisk, pa, pc, job, history>>

PushHotfix(h) ==
    /\ h \notin tree
    /\ tree' = tree \cup {h}
    /\ trees' = trees \cup {tree'}
    /\ UNCHANGED <<lanes, pa, pc, job, lands>>

\* The tick reads the lane and the flaky log.
TickRead ==
    /\ pc = "idle"
    /\ queue # {}
    /\ seen' = pa
    /\ pc' = "trunk"
    /\ UNCHANGED <<tree, lanes, pa, base, batch, report, todo, judged, history>>

TickReadTrunk ==
    /\ pc = "trunk"
    /\ base' = tree
    /\ pc' = IF atRisk >= NBarrier THEN "barrier" ELSE "judge"
    /\ UNCHANGED <<tree, lanes, pa, seen, batch, report, todo, judged,
                   history>>

-----------------------------------------------------------------------------
(* BatchEngine._barrier *)

\* The suite runs on the trunk tip.
BarrierRun ==
    /\ pc = "barrier"
    /\ report' \in Reports(base)
    /\ todo' = [t \in TestId |-> IF t \in DOMAIN report'.per THEN report'.per[t]
                                 ELSE None]
    /\ pc' = "feed"
    /\ UNCHANGED <<tree, lanes, pa, seen, base, batch, judged, history>>

\* One outcome goes to the flaky log.
Feed ==
    /\ pc = "feed"
    /\ \E t \in TestId, o \in {"pass", "fail"} :
          /\ todo[t][o] > 0
          /\ todo' = [todo EXCEPT ![t][o] = @ - 1]
          /\ pa' = Observed(pa, t, o)
    /\ UNCHANGED <<tree, lanes, pc, seen, base, batch, report, judged,
                   history>>

Fed == pc = "feed" /\ \A t \in TestId : todo[t] = None

\* The fresh flaky state is read after the feed.
BarrierHolds == DetFail(report) = {} /\ Unexcused(report, pa) = {}

BarrierFails ==
    /\ Fed /\ ~BarrierHolds
    /\ Finish
    /\ UNCHANGED <<tree, lanes, pa, history>>

BarrierPasses ==
    /\ Fed /\ BarrierHolds
    /\ atRisk' = 0
    /\ report' = NoReport
    /\ pc' = "judge"
    /\ UNCHANGED <<tree, queue, since, held, ejected, pa, seen, base, batch,
                   todo, judged, history>>

-----------------------------------------------------------------------------
(* BatchEngine.tick and _isolate: each verdict is a run of its own *)

\* Judge a batch on the trunk that was read.
Judge ==
    /\ pc = "judge"
    /\ \E members \in SUBSET queue :
          /\ Cardinality(members) \in 1 .. Budget
          /\ \A p \in members, q \in queue \ members : since[p] < since[q]
          /\ batch' = members
    /\ report' \in Reports(base \cup batch')
    /\ pc' = Decide(report', seen)
    /\ UNCHANGED <<tree, lanes, pa, seen, base, todo, judged, history>>

\* A PR that is rejected, with the trunk and the batch it was judged in.
Judged(p) == [pr |-> p, of |-> base, in |-> batch]

\* Hold PRs of the batch: they leave the queue.
Hold(prs) ==
    /\ held' = held \cup {Judged(p) : p \in prs}
    /\ queue' = queue \ prs
    /\ UNCHANGED <<since, ejected, atRisk>>

Eject(p) ==
    /\ ejected' = ejected \cup {Judged(p)}
    /\ queue' = queue \ {p}
    /\ UNCHANGED <<since, held, atRisk>>

HoldBatch ==
    /\ pc = "hold"
    /\ Hold(batch)
    /\ Finish
    /\ UNCHANGED <<tree, pa, history>>

\* Land it, if trunk is still what was read; else it is retried.
LandBatch ==
    /\ pc = "green" /\ tree = base
    /\ tree' = base \cup batch
    /\ trees' = trees \cup {tree'}
    /\ lands' = lands \cup {[prs |-> batch, on |-> base, of |-> report.of,
                             ran |-> DOMAIN report.per,
                             excused |-> Unresolved(report)]}
    /\ queue' = queue \ batch
    /\ atRisk' = atRisk + Cardinality(batch)
    /\ Finish
    /\ UNCHANGED <<since, held, ejected, pa>>

LandRetried ==
    /\ pc = "green" /\ tree # base
    /\ Finish
    /\ UNCHANGED <<tree, lanes, pa, history>>

Isolate ==
    /\ pc = "red"
    /\ pc' = "alone"
    /\ judged' = {}
    /\ UNCHANGED <<tree, lanes, pa, seen, base, batch, report, todo,
                   history>>

\* Phase 1: the next member alone on the trunk that was read.
JudgeAlone(p) ==
    /\ pc = "alone" /\ IsFirst(p, batch \ judged)
    /\ \E r \in Reports(base \cup {p}) :
          \/ /\ DetFail(r) # {}
             /\ Eject(p)
             /\ Finish
          \/ /\ DetFail(r) = {} /\ Unexcused(r, seen) # {}
             /\ Hold({p})
             /\ Finish
          \/ /\ DetFail(r) = {} /\ Unexcused(r, seen) = {}
             /\ judged' = judged \cup {p}
             /\ UNCHANGED <<lanes, pc, seen, base, batch, report, todo>>
    /\ UNCHANGED <<tree, pa, history>>

\* The first member alone has been judged: the prefixes begin with the second.
NobodyAlone(p) ==
    /\ pc = "alone" /\ judged = batch /\ IsFirst(p, batch)
    /\ pc' = "prefix"
    /\ judged' = {p}
    /\ UNCHANGED <<tree, lanes, pa, seen, base, batch, report, todo,
                   history>>

\* Mutant of MorePrefixes: the whole batch is not judged again.
ProperPrefixes == Cardinality(judged) + 1 < Cardinality(batch)

MorePrefixes == judged # batch

\* Phase 2: growing prefixes of two members or more.
JudgePrefix(p) ==
    /\ pc = "prefix" /\ MorePrefixes /\ IsFirst(p, batch \ judged)
    /\ \E r \in Reports(base \cup judged \cup {p}) :
          \/ /\ DetFail(r) # {}
             /\ Eject(p)
             /\ Finish
          \/ /\ DetFail(r) = {}
             /\ judged' = judged \cup {p}
             /\ UNCHANGED <<lanes, pc, seen, base, batch, report, todo>>
    /\ UNCHANGED <<tree, pa, history>>

Unisolated ==
    /\ pc = "prefix" /\ ~MorePrefixes
    /\ Hold(batch)
    /\ Finish
    /\ UNCHANGED <<tree, pa, history>>

\* The job is killed; the outcomes it had appended stay in the flaky log.
Crash ==
    /\ pc # "idle"
    /\ Finish
    /\ UNCHANGED <<tree, lanes, pa, history>>

Tick ==
    \/ TickRead \/ TickReadTrunk
    \/ BarrierRun \/ Feed \/ BarrierFails \/ BarrierPasses
    \/ Judge \/ HoldBatch \/ LandBatch \/ LandRetried
    \/ Isolate \/ Unisolated
    \/ \E p \in PR : JudgeAlone(p) \/ NobodyAlone(p) \/ JudgePrefix(p)

Next ==
    \/ \E p \in PR : Enqueue(p)
    \/ \E h \in Hotfix : PushHotfix(h)
    \/ Tick \/ Crash

Spec == Init /\ [][Next]_vars

-----------------------------------------------------------------------------
(* Properties *)

Evidence == [TestId -> [Outcome -> 0 .. NObs]]
Blamed   == [pr : PR, of : SUBSET Change, in : SUBSET PR]

TypeOK ==
    /\ tree \in SUBSET Change /\ base \in SUBSET Change
    /\ queue \in SUBSET PR /\ since \in [PR -> Nat]
    /\ held \subseteq Blamed /\ ejected \subseteq Blamed
    /\ atRisk \in Nat
    /\ pa \in Evidence /\ seen \in Evidence
    /\ pc \in {"idle", "trunk", "barrier", "feed", "judge", "green", "red",
               "hold", "alone", "prefix"}
    /\ batch \in SUBSET PR /\ judged \in SUBSET PR
    /\ todo \in [TestId -> [Outcome -> Nat]]

\* When a batch lands although a test was UNRESOLVED with it, that test has raced,
\* or failed in every run, on a trunk without the batch: no passing there, and no
\* failing with a PR on top, ever makes a flake (flaky.established_flaky,
\* verdict.decide; through barriers that fail, are killed half way or are judged on a
\* stale flaky state).
FailureSeenWithoutIt ==
    \A x \in lands : \A t \in x.excused \cap Test :
        \E T \in trees : T \in RacesOn[t] \cup FailsOn[t] /\ T \cap x.prs = {}

\* "A real race is never masked as a flake" (tools/conductor/README.md:108): the test
\* has raced on such a trunk.  The log adds up the failures of one trunk and the
\* passes of another (flaky.py:44), and so this fails of a test that a hotfix broke
\* for good and a later one mended.
RaceNeverMasked ==
    \A x \in lands : \A t \in x.excused \cap Test :
        \E T \in trees : T \in RacesOn[t] /\ T \cap x.prs = {}

\* What lands does not fail any test in every run, whatever else of it was
\* excused (verdict.decide: a DET_FAIL can never be excused).
BrokenNeverLands ==
    \A x \in lands : \A t \in Test : x.on \cup x.prs \notin FailsOn[t]

\* Every hold has a race behind it and every ejection a failure or a race, on
\* the trunk it was judged on with the PR and others of its batch on top: no
\* sequence of reruns blames a PR that only met deterministic, green tests
\* (batch_engine._isolate).
BlameJustified ==
    /\ \A h \in held : \E t \in Test, qs \in SUBSET h.in :
           h.of \cup qs \cup {h.pr} \in RacesOn[t]
    /\ \A e \in ejected : \E t \in Test, qs \in SUBSET e.in :
           e.of \cup qs \cup {e.pr} \in FailsOn[t] \cup RacesOn[t]

\* Nothing lands without a completed run of the tests ("no result yet =>
\* UNRESOLVED => held", ci_verdict.py).
LandedWasTested == \A x \in lands : Test \subseteq x.ran
=============================================================================
