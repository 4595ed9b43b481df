----------------------------- MODULE Admission ------------------------------
(***************************************************************************)
(* How a PR gets from GitHub onto trunk: the tick job (tick_runner.py),    *)
(* the check-runs its verdict comes from (ci_runner.py, hermetic_test.py,  *)
(* ci_verdict.py), and the gates an engine may be given: the verifier with *)
(* the approvals, the re-check of the issues before the advance, and the   *)
(* regeneration of lockfiles (hermetic_land.py, lane_engine.py).           *)
(*                                                                         *)
(* Here a PR has heads: a force-push replaces the one before, while the    *)
(* lane keeps the head its first enqueue froze.  The workflow's            *)
(* concurrency group runs one tick job at a time, so there is one.  What   *)
(* several runners, conflicts and crashed lands do is MergeQueue's         *)
(* subject, and flaky evidence Quarantine's: there are too few PRs here    *)
(* for a barrier, so the flaky log stays empty and nothing is excused.     *)
(*                                                                         *)
(* The wirings: "tick" is the job as tick_runner.main builds it, a         *)
(* verdict by the head that was listed and no gate; "gated" is an engine   *)
(* of batches of one with all the gates, each as its own tests wire it     *)
(* (test_advisory.py:100-107, test_gh_ports.py:84-97): no job of the       *)
(* repository puts them together, so who calls it is external.             *)
(***************************************************************************)
EXTENDS Verifier, LaneState, Sequences

CONSTANTS Commit,       \* commits that are the head of some PR
          NoHead, NoReport,
          NoText,       \* the report of a check-run whose text is empty
          NBarrier,     \* n_barrier: so many lands without a barrier, and one runs
          Heads,        \* the heads of each PR, in the order it is pushed
          Runs,         \* how the test command may come out on each head
          Stable,       \* the heads whose test command prints the same each time
          RepsAsked,    \* what ci_runner may be given as --reps
          Linked,       \* the issues GitHub links each PR to
          Budget,       \* the largest batch, under each wiring
          Cases         \* the cases considered: the wiring, what is on the heads, which
                        \* heads have a lockfile that never comes out the same twice,
                        \* the approvals somebody may give, whether a check-run may
                        \* have no text, and how often at most triage re-admits a PR,
                        \* CI runs again, lookups fail, and a job is disturbed

ASSUME AdmissionAssumption ==
    /\ Heads \in [PR -> Seq(Commit)] /\ \A p \in PR : Heads[p] # <<>>
    /\ Runs \in [Commit -> SUBSET BOOLEAN] /\ \A h \in Commit : Runs[h] # {}
    /\ RepsAsked \subseteq Nat
    /\ \A c \in Cases : c.wiring \in {"tick", "gated"} /\ c.content \in [Commit -> Change]
    /\ Budget \in [{"tick", "gated"} -> Nat \ {0}] /\ Budget["gated"] = 1
    /\ IsFiniteSet(PR) /\ Cardinality(PR) <= NBarrier
    /\ NoPR \notin PR /\ NoHead \notin Commit
    /\ NBarrier \in Nat /\ NoReport # NoText

VARIABLES case,
          pushed,     \* how many heads each PR has had
          checks,     \* the conductor-spec check-run of each head
          approvals,  \* the approvals log
          open,       \* the open issues, of those that the changes close
          lane,       \* the lane, folded
          frozen,     \* the head the first enqueue of each PR froze
          trunk,      \* what landed: the PR, its head, and on what grounds (a history)
          ejections,  \* who was ejected, and on what grounds (a history)
          job,        \* the tick job
          outages, trouble, unholds, reruns,
          upset       \* history: has a PR been left pending, or re-admitted?
vars == <<case, pushed, checks, approvals, open, lane, frozen, trunk, ejections, job,
          outages, trouble, unholds, reruns, upset>>
world == <<pushed, checks, approvals, open>>
past == <<trunk, ejections>>
budgets == <<outages, trouble, unholds, reruns>>

\* listed, todo: the heads the job has listed, and whose turn is still to come;
\* turn, members: whose turn it is, and the batch; seen: the issues open when the
\* guard looked; report, against: the report of the verdict and what it had against
\* the first of the batch (a history).
Idle == [pc |-> "off", listed |-> [p \in PR |-> NoHead], todo |-> {},
         turn |-> NoPR, members |-> {}, seen |-> {}, report |-> NoReport, against |-> {}]

HeadOf(p) == Heads[p][pushed[p]]
Pushed == UNION {{Heads[p][i] : i \in 1..pushed[p]} : p \in PR}
Larger(a, b) == IF a > b THEN a ELSE b
Smaller(a, b) == IF a < b THEN a ELSE b

Init ==
    /\ case \in Cases
    /\ pushed = [p \in PR |-> 1]
    /\ checks = [h \in Commit |-> NoReport]
    /\ approvals = {}
    /\ open = UNION {Issues(case.content[h]) : h \in Commit}
    /\ lane = EmptyLane
    /\ frozen = [p \in PR |-> NoHead]
    /\ trunk = <<>> /\ ejections = {}
    /\ job = Idle
    /\ outages = 0 /\ trouble = 0 /\ unholds = 0 /\ reruns = 0
    /\ upset = FALSE

(***************************************************************************)
(* GitHub and its users                                                    *)
(***************************************************************************)

ForcePush(p) ==
    /\ pushed[p] < Len(Heads[p])
    /\ pushed' = [pushed EXCEPT ![p] = @ + 1]
    /\ UNCHANGED <<case, checks, approvals, open, lane, frozen, past, job, budgets, upset>>

Approve(a) ==
    /\ a \in case.approvals \ approvals /\ a.head \in Pushed
    /\ approvals' = approvals \cup {a}
    /\ UNCHANGED <<case, pushed, checks, open, lane, frozen, past, job, budgets, upset>>

\* Only an engine with the gates reads the issues.
CloseIssue(n) ==
    /\ case.wiring = "gated" /\ n \in open
    /\ open' = open \ {n}
    /\ UNCHANGED <<case, pushed, checks, approvals, lane, frozen, past, job, budgets, upset>>

\* Triage re-admits a held PR: the unhold event.
Unhold(p) ==
    /\ p \in lane.held /\ unholds < case.unholds
    /\ unholds' = unholds + 1
    /\ lane' = [lane EXCEPT !.held = @ \ {p}]
    /\ upset' = TRUE
    /\ UNCHANGED <<case, world, frozen, past, job, outages, trouble, reruns>>

(***************************************************************************)
(* The CI runner                                                           *)
(***************************************************************************)

\* Mutant of RunReps: as many repetitions as asked for, also none.
RunRepsAsAsked(h, asked) == {S \in SUBSET Runs[h] : S = {} <=> asked = 0}

\* run_reps: how the repetitions may come out, at least one of them.
RunReps(h, asked) ==
    {S \in SUBSET Runs[h] : S # {} /\ Cardinality(S) <= Larger(1, asked)}

\* A check-run for a head: the first, or one that replaces it when the workflow runs
\* again, as the PR is reopened or labelled.
Posted(h, report) ==
    /\ h \in Pushed /\ (checks[h] # NoReport => reruns < case.reruns)
    /\ reruns' = IF checks[h] = NoReport THEN reruns ELSE reruns + 1
    /\ checks' = [checks EXCEPT ![h] = report]
    /\ UNCHANGED <<case, pushed, approvals, open, lane, frozen, past, job,
                   outages, trouble, unholds, upset>>

\* The workflow posts what the drift probe found and how the repetitions came out,
\* some time after the head is pushed.
PostReport(h) ==
    \E deterministic \in (IF h \in Stable THEN {TRUE} ELSE BOOLEAN),
       reps \in UNION {RunReps(h, asked) : asked \in RepsAsked} :
       Posted(h, [deterministic |-> deterministic, reps |-> reps])

\* Somebody completes a check-run of that name without a text.
PostNoText(h) == case.blanks /\ Posted(h, NoText)

(***************************************************************************)
(* The verdict                                                             *)
(***************************************************************************)

\* CheckRunVerdict: the repetitions of the one test the report amounts to.  An empty
\* text is read as {}, whose defaults are: deterministic, and no repetition.  (Nothing
\* in the repository writes a report with a verdict per test.)
SuiteVerdict(report) ==
    IF report = NoReport THEN {TRUE, FALSE}
    ELSE IF report = NoText THEN {}
    ELSE IF ~report.deterministic THEN {FALSE}
    ELSE report.reps

\* Mutant of Overlay: mechanical_overlay, which knows of no approval.
MechanicalOverlay(status, head) ==
    CASE status = "FAIL" -> {{FALSE}}
      [] status = "NEEDS_HUMAN" -> {{TRUE, FALSE}}
      [] OTHER -> {}

\* approval_aware_overlay: the tests that a verifier status adds.
Overlay(status, head) ==
    CASE status = "FAIL" -> {{FALSE}}
      [] status = "NEEDS_HUMAN" /\ ~ApprovalSatisfied(approvals, head) -> {{TRUE, FALSE}}
      [] OTHER -> {}

\* classify and decide, with no flaky evidence: a test without a repetition passes.
Decision(tests) ==
    IF \E reps \in tests : reps = {FALSE} THEN "red"
    ELSE IF {TRUE, FALSE} \in tests THEN "hold" ELSE "green"

\* The oracle's answers on a PR, while GitHub answers or fails one kind of query.
Links(p, fails) == [n \in Issue |-> n \in Linked[p] /\ fails # "links"]
State(fails) ==
    [n \in Issue |-> IF fails = "state" THEN "unknown" ELSE IF n \in open THEN "open" ELSE "closed"]

Outage(fails) ==
    /\ fails # "none" => case.wiring = "gated" /\ outages < case.outages
    /\ outages' = IF fails = "none" THEN outages ELSE outages + 1

First(members) == CHOOSE p \in members : FirstN(lane, members, 1) = {p}

\* The head whose report the verdict is.
Reported == IF case.wiring = "tick" THEN job.listed[job.turn] ELSE frozen[First(job.members)]

\* The decisions the verdict on the batch may come to.
Decisions(fails) ==
    LET p     == First(job.members)
        suite == SuiteVerdict(checks[Reported])
    IN  IF case.wiring = "tick" THEN {Decision({suite})}
        ELSE {Decision({suite} \cup Overlay(status, frozen[p])) :
                status \in Status(case.content[frozen[p]], Links(p, fails), State(fails))}

\* What the verifier is for, from first principles: the fragment declares at least
\* the level of every file that may be API, no file is outside the footprint, which
\* names no path that is left alone, none has a conflict marker, and the change is
\* signed.
Sound(c, files) ==
    /\ c.fragment # Malformed /\ c.signed /\ c.globs # "dead"
    /\ \A f \in files :
        /\ ~(f.markers /\ f.status # "D")
        /\ c.globs = "live" /\ f.declared
        /\ ~f.nonApi =>
              \E d \in DOMAIN Declared(c.fragment) :
                 Declared(c.fragment)[d] >= DiffFile(f).level
NeedsHuman(files) ==
    IsRisk(files) \/ \E f \in files : ~f.nonApi /\ DiffFile(f).unsure

\* What a report says.
Passes(report) ==
    report \notin {NoReport, NoText} /\ report.deterministic /\ report.reps = {TRUE}
Fails(report) ==
    report \notin {NoReport, NoText} /\ (~report.deterministic \/ report.reps = {FALSE})

\* History: what there is against PR p as the verdict is asked for, be it what the
\* code looks at or not.
Reasons == {"tests", "content", "issues", "lookup"}
Against(p, fails) ==
    LET c == case.content[frozen[p]]
        gated == case.wiring = "gated"
    IN  {why \in Reasons :
            \/ why = "tests"   /\ Fails(checks[Reported])
            \/ why = "content" /\ gated /\ ~Sound(c, Named(c))
            \/ why = "issues"  /\ gated /\ ~(Issues(c) \subseteq open \cap Linked[p])
            \/ why = "lookup"  /\ fails # "none"}

(***************************************************************************)
(* The tick job                                                            *)
(***************************************************************************)

\* ready_prs, once per job.
ListPRs ==
    /\ job.pc = "off"
    /\ job' = [Idle EXCEPT !.pc = "turn", !.listed = [p \in PR |-> HeadOf(p)], !.todo = PR]
    /\ UNCHANGED <<case, world, lane, frozen, past, budgets, upset>>

\* The next PR of the list is enqueued with the head listed.
TakeTurn(p) ==
    /\ job.pc = "turn" /\ p \in job.todo
    /\ lane' = Enqueued(lane, p)
    /\ frozen' = [frozen EXCEPT ![p] = IF @ = NoHead THEN job.listed[p] ELSE @]
    /\ job' = [job EXCEPT !.pc = "tick", !.turn = p, !.todo = @ \ {p}]
    /\ UNCHANGED <<case, world, past, budgets, upset>>

JobEnds ==
    /\ job.pc = "turn" /\ job.todo = {}
    /\ job' = Idle
    /\ UNCHANGED <<case, world, lane, frozen, past, budgets, upset>>

TurnEnds == job' = [Idle EXCEPT !.pc = "turn", !.listed = job.listed, !.todo = job.todo]

\* The tick has nothing to do.
NoWork ==
    /\ job.pc = "tick" /\ Pending(lane) = {}
    /\ TurnEnds
    /\ UNCHANGED <<case, world, lane, frozen, past, budgets, upset>>

\* The regenerated lockfiles of this PR never come out the same twice.
Blocked(p) == case.wiring = "gated" /\ frozen[p] \in case.blocked

\* The batch is built from the frozen heads of the first PRs that are pending.
FormBatch ==
    LET pending == Pending(lane)
        head    == First(pending)
        target  == IF ForcedSolo(lane, head) THEN 1
                   ELSE Larger(1, Smaller(Smaller(lane.m, Budget[case.wiring]), Cardinality(pending)))
    IN  /\ job.pc = "tick" /\ pending # {}
        /\ ~Blocked(head)
        /\ job' = [job EXCEPT !.pc = "judge", !.members = FirstN(lane, pending, target)]
        /\ UNCHANGED <<case, world, lane, frozen, past, budgets, upset>>

\* The hermetic gate blocks the regenerated lockfiles while a batch is built: what is
\* held is nobody, and the queue stays as it is, for the next tick to begin with the
\* same PR.
HermeticBlocked ==
    /\ lane' = Held(lane, {})
    /\ upset' = TRUE
    /\ TurnEnds
    /\ UNCHANGED <<case, world, frozen, past, outages, unholds, reruns>>

\* At every tick, or once.
AlwaysBlocked ==
    /\ job.pc = "tick" /\ Pending(lane) # {} /\ Blocked(First(Pending(lane)))
    /\ HermeticBlocked /\ UNCHANGED trouble

BlockedOnce ==
    /\ job.pc \in {"tick", "isolate"} /\ Pending(lane) # {}
    /\ case.wiring = "gated" /\ trouble < case.troubles
    /\ HermeticBlocked /\ trouble' = trouble + 1

Shrunk(l) == WindowTuned(l, Larger(1, lane.m \div 2))

\* The verdict: green goes on to the land; otherwise the batch ages and the
\* window shrinks, and it is held or isolated.
Judge(fails) ==
    /\ job.pc = "judge"
    /\ Outage(fails)
    /\ \E decision \in Decisions(fails) :
          \/ /\ decision = "green"
             /\ job' = [job EXCEPT !.pc = IF case.wiring = "gated" THEN "guard" ELSE "advance",
                                   !.report = checks[Reported]]
             /\ UNCHANGED lane
          \/ /\ decision = "hold"
             /\ lane' = Held(Shrunk(Aged(lane, job.members)), job.members)
             /\ TurnEnds
          \/ /\ decision = "red"
             /\ lane' = Shrunk(Aged(lane, job.members))
             /\ job' = [job EXCEPT !.pc = "isolate", !.against = Against(First(job.members), fails)]
    /\ UNCHANGED <<case, world, frozen, past, trouble, unholds, reruns, upset>>

\* The entry of an ejection in the history, as it is made.
Ejection(p, fails) ==
    [pr |-> p, own |-> Reported = frozen[p], upset |-> upset,
     first |-> job.against, second |-> Against(p, fails)]

\* Mutant of Isolate: a red batch is not judged again.
IsolateUnjudged(fails) ==
    LET p == First(job.members)
    IN  /\ job.pc = "isolate"
        /\ Outage(fails)
        /\ lane' = Ejected(lane, p, "culprit", NoPR)
        /\ ejections' = ejections \cup {Ejection(p, fails)}
        /\ TurnEnds
        /\ UNCHANGED <<case, world, frozen, trunk, trouble, unholds, reruns, upset>>

\* The first member is judged alone, and decides: it is red again and ejected, or
\* held, for the batch was red by the same report, or had no other member.
Isolate(fails) ==
    LET p == First(job.members)
    IN  /\ job.pc = "isolate"
        /\ Outage(fails)
        /\ \E decision \in Decisions(fails) :
              IF decision = "red"
              THEN /\ lane' = Ejected(lane, p, "culprit", NoPR)
                   /\ ejections' = ejections \cup {Ejection(p, fails)}
              ELSE lane' = Held(lane, {p}) /\ UNCHANGED ejections
        /\ TurnEnds
        /\ UNCHANGED <<case, world, frozen, trunk, trouble, unholds, reruns, upset>>

\* The at-land guard: every issue of the batch is linked and open, or it is held.
Guard(fails) ==
    LET p  == First(job.members)
        ok == RecheckAtLand(Issues(case.content[frozen[p]]), Links(p, fails), State(fails))
    IN  /\ job.pc = "guard"
        /\ Outage(fails)
        /\ IF ok
           THEN job' = [job EXCEPT !.pc = "advance", !.seen = open] /\ UNCHANGED lane
           ELSE lane' = Shrunk(Held(lane, job.members)) /\ TurnEnds
        /\ UNCHANGED <<case, world, frozen, past, trouble, unholds, reruns, upset>>

\* The advance and its record, which MergeQueue takes apart.
Advance ==
    LET landed(p) == [pr |-> p, head |-> frozen[p], by |-> Reported,
                      report |-> job.report, seen |-> job.seen, upset |-> upset]
        inOrder   == [i \in 1..Cardinality(job.members) |->
                        landed(CHOOSE p \in job.members :
                                   Cardinality(UpTo(lane, job.members, p)) = i)]
    IN  /\ job.pc = "advance"
        /\ trunk' = trunk \o inOrder
        /\ lane' = WindowTuned(BatchLanded(lane, job.members, 0),
                               Larger(1, Smaller(Budget[case.wiring], lane.m + 1)))
        /\ TurnEnds
        /\ UNCHANGED <<case, world, frozen, ejections, budgets, upset>>

\* Trunk has moved: the batch stays pending for a later turn.
Retried ==
    /\ job.pc = "advance" /\ trouble < case.troubles
    /\ trouble' = trouble + 1
    /\ upset' = TRUE
    /\ TurnEnds
    /\ UNCHANGED <<case, world, lane, frozen, past, outages, unholds, reruns>>

\* The job is killed.
Kill ==
    /\ job.pc # "off" /\ trouble < case.troubles
    /\ trouble' = trouble + 1
    /\ upset' = (upset \/ Pending(lane) # {})
    /\ job' = Idle
    /\ UNCHANGED <<case, world, lane, frozen, past, outages, unholds, reruns>>

JobStep ==
    \/ ListPRs \/ (\E p \in PR : TakeTurn(p)) \/ JobEnds
    \/ NoWork \/ FormBatch \/ AlwaysBlocked
    \/ Judge("none") \/ Isolate("none") \/ Guard("none") \/ Advance

Trouble ==
    \/ \E fails \in {"links", "state"} : Judge(fails) \/ Isolate(fails) \/ Guard(fails)
    \/ BlockedOnce \/ Retried \/ Kill

World ==
    \/ \E p \in PR : ForcePush(p) \/ Unhold(p)
    \/ \E h \in Commit : PostReport(h) \/ PostNoText(h)
    \/ \E a \in case.approvals : Approve(a)
    \/ \E n \in Issue : CloseIssue(n)

Next == JobStep \/ Trouble \/ World

\* The cron schedule starts the job again and again, and GitHub runs it to its end.
Spec == Init /\ [][Next]_vars /\ WF_vars(JobStep)

(***************************************************************************)
(* Properties                                                              *)
(***************************************************************************)

\* Entry e of trunk, with these of its files taken into account.
VerifiedAs(e, files) ==
    LET c == case.content[e.head]
    IN  /\ Sound(c, files)
        /\ NeedsHuman(files) => \E a \in approvals : a.head = e.head /\ a.type # "agent"
        /\ Issues(c) \subseteq e.seen \cap Linked[e.pr]

\* Under the gates nothing lands that the verifier would fail, what needs a human
\* has an approval by one of the very head that landed, whatever is force-pushed
\* after it, and an issue that is closed at the land was open when the guard
\* looked.  This is about the files that the diff names: not about the old path of
\* what git takes for a rename, whose level, footprint and risk nobody looks at
\* (verifier.py:67-131, gitutil.py:164-174, advisory.py:69-96, issues.py:84-95,
\* land.py:62-66).
LandedIsVerified ==
    case.wiring = "gated" =>
        \A i \in DOMAIN trunk : VerifiedAs(trunk[i], Named(case.content[trunk[i].head]))

\* What lands has been judged by a report of its own head, of a runtime that does
\* not drift and in which at least one repetition ran and all passed, unless that
\* report had no text: this one is read as {}, and {} passes.  Under the tick job it
\* is so only as long as no tick left a PR pending and triage re-admitted none, for
\* the job fetches the report of the PR whose turn it is.  All this with fewer lands
\* than call for a barrier: after two barriers without a report none is needed any
\* more, which is Quarantine's subject (tick_runner.py:80-89, ci_verdict.py:30-51).
JudgedByItsOwnReport ==
    \A i \in DOMAIN trunk :
        LET e == trunk[i]
        IN  (case.wiring = "gated" \/ ~e.upset) =>
                /\ e.by = e.head
                /\ e.report = NoText \/ Passes(e.report)

\* A PR is ejected, for ever, when two verdicts have had something against it: its
\* tests, its content, its issues, or a lookup that failed while it was judged, so
\* that failing lookups alone take one in each verdict.  The tests are those of its
\* own head, except under the tick job once a tick has left a PR pending or triage
\* has re-admitted one: then they may be those of the PR whose turn it is
\* (issues.py:74-81, batch_engine.py:104-147, tick_runner.py:80-89).
EjectedForCause ==
    \A e \in lane.ejected :
        \E g \in ejections :
            /\ g.pr = e.pr /\ g.first # {} /\ g.second # {}
            /\ ~g.own => case.wiring = "tick" /\ g.upset

\* Under the tick job every PR that is pending is settled, whatever the reports
\* say.  Under the gates one that is in order, and not being judged again after a red
\* verdict, lands, also one that was held for an approval and re-admitted; unless an
\* issue of it is closed, a lookup fails, a later report of its head does not pass, or
\* the lockfiles of it or of a PR before it never come out the same twice, which
\* stops the lane for good
\* (tick_runner.py:78-91, advisory.py:86-96, lane_engine.py:39-45, reducer.py:138-168).
Ready(p) ==
    LET h == frozen[p]
        c == case.content[h]
    IN  /\ p \in Pending(lane) /\ ~(job.pc = "isolate" /\ p \in job.members)
        /\ Passes(checks[h])
        /\ Sound(c, Named(c))
        /\ NeedsHuman(Named(c)) => ApprovalSatisfied(approvals, h)
        /\ Issues(c) \subseteq open \cap Linked[p]
Closes(p) == IF frozen[p] = NoHead THEN {} ELSE Issues(case.content[frozen[p]])
Promise(p) ==
    IF case.wiring = "gated"
    THEN \/ p \in lane.landed
         \/ outages > 0 \/ ~(Closes(p) \subseteq open)
         \/ \E h \in Commit : h = frozen[p] /\ ~Passes(checks[h])
         \/ \E q \in Pending(lane) : Blocked(q) /\ lane.rank[q] <= lane.rank[p]
    ELSE p \in lane.done \cup lane.held
ReadySettles ==
    \A p \in PR : (IF case.wiring = "gated" THEN Ready(p) ELSE p \in Pending(lane)) ~> Promise(p)
=============================================================================
