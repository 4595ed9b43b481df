# A verification project for github-agent's conductor

The *conductor* (`tools/conductor`) is a merge queue and release train that keeps all
of its state in git: event logs on git refs, one linear trunk, create-only tags.
Its actors are short-lived CI jobs that share nothing but that remote, overlap, are
killed, and lose answers. The modules here say what those jobs do, one action for each
read or push, and what they must never do; TLC checks them on small instances and
TLAPS proves the main invariants for all of them.

## Running it

    tlc -workers 2 -config MergeQueueOneLane.cfg MCMergeQueue    # any run of PROJECT.json
    tlapm MergeQueueProofs.tla                                   # any *Proofs module

`PROJECT.json` lists the components, the runs with their properties, a mutant of the
model for each property (which the run must reject), the source lines each definition
models, the hazards, the findings and the theorems.

## Inventory

| component | state it keeps | operations | what makes it correct |
|---|---|---|---|
| State log (`statelog.py`, `gitutil.py`) | one commit chain per git ref; a writer's clone | `read`, `append` = fetch, commit, push, retry | an acknowledged event keeps its slot; nothing is lost or duplicated that was acknowledged |
| Lane state (`reducer.py`) | fold of a lane's log: pending, landed, ejected, held, prepared intents, window, ages, at-risk count | one event kind per transition | first enqueue wins; a landed PR leaves pending; a rejected one stays out |
| Batch engine (`batch_engine.py`, `land.py`, `trunk.py`, `engine.py`) | trunk; a runner's batch | `tick`: read, barrier, form, verdict, isolate, guard, prepare, advance, confirm, record | what lands is what was tested; once; in order; nobody ejected for another |
| Reconciler (`reconciler.py`) | - | `complete_intents`, `reclaim_leases` | a land cut off half way is recorded, never one that did not happen |
| Verdict, flaky log (`verdict.py`, `flaky.py`, `ci_verdict.py`) | flaky log: outcomes per test and tree | `classify`, `decide`, `feed`, isolation | a race is never masked; nothing untested lands; blame is deserved |
| Write governor (`governor.py`, `lane_engine.py`) | governor log: tokens with an expiry | `acquire`, `release`, `reap` | the budget holds; working lanes are not reaped; orphans are |
| Release transaction (`release_txn.py`) | create-only tags, release journal, forge, issues | `run_release` | one winner per package; published before done; recoverable |
| Dispatcher (`dispatcher.py`, `scope.py`) | registry log of routed PRs | `route`, `lane_for_scopes`, `current_lane` | PRs that share a file share a lane; a lane that was merged away is still found |
| Release planner (`release_planner.py`, `versionplan.py`, `semver.py`, `changeset.py`) | - (reads the journal and the fragments) | `build_plan`, `fold`, `propagate`, `bump_version`, `in_flight_consumed` | no fragment counted twice; a version says what its bump promises; a plan can be completed |
| Ledger (`ssot.py`) | ledger ref | `rebuild`, `trace`, `verify` | it says nothing that is not so; the audit overlooks nothing; a failed read never thins it; it converges |
| Hermetic gate (`hermetic.py`) | the epoch file | `record`, `preflight`, `determinism_gate` | one epoch, one lockfile, wherever and whenever it is regenerated; fail closed |
| Mechanical verifier (`verifier.py`, `apidiff.py`, `differs.py`, `risktier.py`, `changeset.py`, `advisory.py`) | approvals log | `verify` (V1..V5), the overlays | what lands declares enough, and has the approval it needs, of its own head |
| Issue links, land gates (`issues.py`, `hermetic_land.py`) | - | `check_issue_links`, `recheck_at_land`, the prebuild hook | fail closed, but without ejecting for an outage |
| Tick runner, workflows (`tick_runner.py`, `ci_runner.py`, `.github/workflows`) | check-runs of heads | `main`: list, enqueue, tick; the report of a head | each PR is judged by its own report, and settled |
| GitHub ports, App tokens, attestation (`gh_ports.py`, `ghapp.py`, `attest.py`) | - | wrappers of `gh` and of signing | an answer "done" is true, which that of a refused close or comment is not |
| `measure-f` | - | an offline script | not modelled |

How they interact: the tick job enqueues PRs to the lane's log, takes a governor token,
recovers intents (or does not: `tick_runner.py` never calls `complete_intents`), ticks
the lane, and gives the token back. The tick asks a verdict that reads CI reports and
the flaky log, which only the barrier feeds. All lanes advance one trunk ref, under a
lease. Landed fragments are planned into a release, whose runners share the release
journal and the tags; the ledger is rebuilt from trunk and that journal, and audited
against GitHub. Every log of these is a state log.

What is hard: every decision is taken on something read earlier (trunk, the lane, the
clock, the journal) and pushed later; a push may be applied and its answer lost; a job
may be killed between any two pushes, and nothing but the logs survives it; two jobs
may do the same work; a human may push to trunk at any time.

## Modules and code

| module | models | state and actions |
|---|---|---|
| `EventLog` | what a caller of `StateLog.append` is promised | `log`, what each caller was told; `Commit`, `CommitUnheard`, `Confirm` |
| `StateLog` | `statelog.py`, `gitutil.write_commit/ff_push/lease_push` | the remote ref and each writer's tip; `Read`, `ReadFails`, `PushOk`, `Retry`, `PushRejected`, `PushUnheard`, `Crash`; implements `EventLog` |
| `LaneState` | `reducer.reduce` | operators, one for each event kind |
| `MergeQueue` | `batch_engine.py`, `land.py`, `trunk.py`, `reconciler.complete_intents` | `trunk`, `lane` (folds), each runner's `pc`, `snap`, `base`, `work`; one action for each read, append or push of `complete_intents`, `tick`, `_barrier`, `_isolate`, `record_land` |
| `Quarantine` | `verdict.py`, `flaky.py`, `ci_verdict.py` and the verdict calls of the engine | the flaky log's fold, the reports of the tree under test; ticks, barriers fed half way, isolation as a sequence of verdicts. The queue is a set with the place of each PR, `since` |
| `Governor` | `governor.py`, `lane_engine.py`, `reconciler.reclaim_leases` | the live tokens with the time they have left, each process' clock reading; acquire in its four steps, release, reap, kill, time |
| `GovernorOrder` | - | `Governor` with the order of its log as a history, the relation `older` |
| `Release` | what `release_txn.py` promises of one release | owner, published, finished |
| `ReleaseTxn` | `release_txn.py`, `gitutil.push_tag_create_only` | tags, journal fold, forge, issues; one action per read, append and side effect, of which a close or a comment may be refused; implements `Release` |
| `Dispatcher` | `dispatcher.py`, `scope.py` | the union-find forest and last record of each PR; `Route`, `LaneForScopes`, `Record` |
| `Hermetic` | `tools/hermetic/hermetic.py` | what the registries have published, the epoch file with dates past or future, a job and its two runs; `Publish`, `Record`, `Start`, `Preflight`, `FirstRun`, `SecondRunGreen`, `SecondRunRed`, `Exit`; the adapters as a table |
| `Versions` | `changeset.py`, `versionplan.py`, `semver.py`, `build_plan` | operators: the fold of the bumps, their propagation along a graph that may have a cycle, version arithmetic, a plan |
| `Planner` | `release_planner.py` over the release journal | trunk and its fragments, tags, the journal's fold, each release job; `LandChange`, `ReadFence`, `Build`, `Start`, `Retire`, then `run_release` package by package: `PassOver`, `Win`, `WinUnheard`, `RecordReleased`, `CloseIssue`, `Finalize`, with a `Kill` between any two; several plans in flight |
| `Ledger` | `ssot.py` over `Planner`; `gh_ports.close_if_open` when it fails | the ledger ref, the issue, each reader; `ReadJournal`, `Project`, `Outage`, `Unlinked`, `FetchTip`, `PushLedger`, `Verify`, `Trace`, with force-pushes and reopened issues |
| `Verifier` | `verifier.py`, `apidiff.py`, `differs.py` (the fold), `risktier.py`, `issues.py`, `advisory.py` | operators: V1 to V5, their fold, the approval gate, the re-check; what the diff names of a rename (`Named`) |
| `Admission` | `tick_runner.py`, `ci_runner.py`, `ci_verdict.py`, `hermetic_land.py`, the gates of the engine, over `Verifier` and `LaneState` | heads, check-runs that CI replaces or that have no text, approvals, issues, lockfiles that never come out the same, the lane and the heads it froze, the tick job; one action for each step of `main` and of the tick, under two wirings |
| `*Proofs` | - | the invariants and proofs, and the lemmas on numbers, finite sets, prefixes and iterations that they cite |
| `MC*` | - | instances for TLC |

Conventions. An OID is modelled by what it determines: `write_commit` uses a fixed
identity and date, so a commit is the sequence of what it holds. A log is modelled by
its fold where the code reads nothing else, and its append is atomic in every module but
`StateLog`, which is about just that. Sets that grow for ever are bounded by a named
constant in a guard (`MaxAppends`, `MaxFormed`, `MaxFaults`, `MaxTokens`, `MaxCrashes`,
`MaxRoutes`, `MaxPublished`, `MaxEpochs`, `MaxJobs`) or by the setting or case a behaviour
starts in (the `mishaps`, `forces` and `faults` of `Planner` and `Ledger`; the `troubles`,
`outages`, `unholds` and `reruns` of `Admission`). Variables marked *history* feed
properties only.

## What the runs show

| run | instance | question |
|---|---|---|
| `StateLogFaults` | 2 writers, 2 appends each, 2 attempts, lost answers, failed fetches, kills | no acknowledged append is lost or moved, and the log implements `EventLog` |
| `MergeQueueOneLane` | 4 PRs (a pair that fails together, a pair that conflicts), flaky runs, a refusing guard, 5 batches, 1 kill or lost answer, recovery first | no double land, order, bounded blast radius, justified ejections, recovery's soundness, and every PR settles |
| `MergeQueueLanes` | 2 lanes and runners that recover first, 2 incompatible PRs, a hotfix, 1 kill or lost answer | what was tested is what lands; records are true; an advanced intent is given up only under the land of another lane or a hotfix |
| `QuarantineEvidence` | 3 PRs, 2 tests: one that p1 makes race, that hotfix h1 breaks until h2 mends it, and that h2 makes race if it comes first, and one that p2 and p3 together break; kills inside a barrier | what is excused has raced or failed without the batch, nothing broken lands, blame justified |
| `GovernorShared` | 3 lanes, 2 slots, TTL 4 > tick 2 + acquire 1, a kill | the budget holds unless two tokens sort against the order of the log; working lanes keep tokens, orphans are reclaimed, somebody always gets to work |
| `ReleaseElection` | 3 tokens, 2 packages, an issue, lost tag answers, 2 faults: kills anywhere, refused closes or comments | election, journal and finalization; what the journal says of an issue, and what leaves one open; refinement; completion unless a tag is orphaned |
| `Provenance` | 2 changes, 4 components under four graphs and modes, two jobs with one kill or unheard win; a job and a reader that rebuilds, or one that audits; two that rebuild; one over a commit without a PR; a force-push, a reopened issue, a failed fetch, lookup or close | what is counted twice; what a plan raises; what leaves a release partial; what ledger, audit and traces may say; convergence |
| `Admission` | 6 cases of 2 PRs, one pushed twice. The tick job, disturbed once; with reports replaced or without text. All gates over a risky, an unclaimed, a crashing and an issue-closing change, with approvals of any head, 2 outages, a kill, a re-admission; over a rename behind a lockfile that is blocked for ever, with CI run again | what the diff names of a land is verified and approved, and judged by its own report; an ejection has a cause in each of two verdicts; what is in order lands |
| `DispatcherConcurrent` | 3 PRs, 2 jobs, 5 scopes, 4 records, stale reads, kills; a file without a rule, a shared path | a file that a rule or the shared paths know means a shared lane, unless just one of the two PRs changes a shared path too; stranded PRs resolve, by a name all readers agree on |
| `HermeticDrift` | 4 hosts, 3 trees, 8 adapters, 3 kinds of arguments, dates past or future, 2 publications, 2 jobs | green under one epoch means one lockfile, unless a live registry or a date in the future was recorded; exit code 0 means all green |
| `MergeQueueHotfixRace` | violation: `LandedOnce` | see *Findings* |
| `QuarantineNoReport` | violation: `LandedWasTested` | see *Findings* |

Why the bounds are enough. Two writers with two appends reach every overlap of a retry
with another's success; a third adds only longer queues of the same conflict. Four PRs
in one lane fill a batch, split it by the window, leave a PR behind the batch, and give
isolation a culprit at every position; two lanes and one hotfix give every order of
three pushes to trunk. Three lanes for two slots are the least with a contest that
somebody wins. Three tokens let a loser finalize while a second one still publishes.
Two plans are what one fence can miss, and two changes let them share one fragment and
not the other, while one job is killed or does not hear that it won; the chain of three
components is the least path along which a pass of `propagate` in the wrong order stops
short. One force-push and one fault, at any point
of two readers, give every pair of an old read and a new one. Two PRs are enough for the
report of one to be taken for the other's, and two heads for an approval to be of the
wrong one; two outages are what an unjust ejection takes, one in each verdict, and one
rerun of CI replaces a report that passed by one that does not. Two hotfixes break a test
and mend it, so that the flaky log holds the failures of one trunk and the passes of
another; two faults in a release are a kill and a refused call, in either order.
Four records over five scopes merge components twice and re-route a PR once more. Two
gate jobs on any two hosts are what a disagreement takes, with a publication before the
record and one after it; a second epoch is another question, since nothing compares
lockfiles across epochs. What a bound might hide in safety is what the proofs settle,
for the modules that have one. The largest runs have 1.5 (`QuarantineEvidence`), 1.1
(`ReleaseElection`) and 0.7 million states (`MergeQueueLanes`, `Provenance`).

What no run contains: two jobs of one lane at once. The concurrency group of
`conductor-tick.yml` excludes them, every run and theorem about one lane takes that for
granted, and without it a PR can land twice (see the divergences below).

Deadlock is not checked where the system stops for good: all appends made, all
releases done, all routes taken, a lane with nothing left to judge, all jobs run.

## Fairness

- `FairBehaviour` of `MergeQueue`: weak fairness of every runner's `Run`, for the tick
  workflow runs on a schedule (`conductor-tick.yml`) and a job runs until it ends or is
  killed (kills are bounded faults). Strong fairness of `BarrierOk`: a barrier over a
  flaky trunk is repeated by every tick and feeds the flaky log, so that it cannot fail
  on flakes for ever (`flaky.py`, N_OBS); `Quarantine` models that part in detail.
  Nothing is assumed of verdicts, guards, hotfixes, kills or lost answers.
- `OrderSpec` of `GovernorOrder`: weak fairness of time and of every process' steps,
  since an acquire is straight-line code with bounded retries. No fairness among
  contenders.
- `FairSpec` of `ReleaseTxn`: weak fairness of each releaser's `Run`: a workflow that is
  run again until it reports done. None of kills, lost answers or refused calls.
- `Spec` of `Ledger`: each reader is run again and again (strong fairness of a rebuild's
  beginning, for the same process also audits and traces), and what it began it ends
  (weak fairness). `conductor ssot` is a command: who schedules it is the caller, and
  `Converges` is a promise to a caller who does. None of outages, releases or humans. A
  commit that GitHub ties to no PR is no fault that passes: each rebuild ends at it
  (`Unlinked`), and `Converges` says nothing of a trunk that has one.
- `Spec` of `Admission`: weak fairness of `JobStep`: the cron starts the one tick job of
  the concurrency group again and again, and a step of it may be that the lockfile is
  blocked, at every tick (`AlwaysBlocked`). None of reports, approvals or triage; `Ready`
  asks for them instead.

## What is proved

All proofs go by an inductive invariant, `Init => I` and `I /\ [Next]_vars => I'`, with
one lemma or step for each action, and hold for all values of the constants under the
named assumptions (`StateLogAssumption`, ... ) that TLC also evaluates.

- `StateLogProofs`: `IInv` = type, *a busy writer has a number*, *a busy append is not
  acknowledged*, *a writer's tip is a past of the ref*, *what is acknowledged stays
  logged*. The third part is needed: a push is accepted only on the tip that was read,
  so that acceptance means extension only because tips are pasts. Results: types, no
  lost update, slots of one's own (if events are distinct, assumption `Injective`), the
  ref only grows, and the refinement of `EventLog`.
- `MergeQueueProofs`, in four parts.
  1. `TrunkInv` = type, bases are pasts of trunk, intents are honest (an intent names a
     tip, and any trunk that extends it holds its lands), a runner about to land holds a
     green spec, a runner about to record has seen its lands on trunk, records are true,
     every tip is green. Results: types, every tip is one a verdict may call green,
     records are on trunk, trunk is linear (`TrunkOnlyGrows`); for any lanes, runners, PRs, conflicts,
     hotfixes and faults.
  2. `BlameInv`: every past of trunk is green, so a batch that is judged red is red on
     a base that is not, and isolation, which adds one PR at a time to a tree already
     judged, ends at one that is to blame. Result: `EjectionsJustified`, for any lanes,
     runners and faults, if `HotfixesBreakNothing`: on a trunk that a human broke an
     innocent PR is red alone, and the engine does eject it.
  3. `SoloInv(r)`, for one runner `r` that recovers first and no hotfixes (`Alone`). That
     is what the workflow's concurrency group is for, and `MergeQueueHotfixRace` shows
     that it does not hold without. Recovery is not in `tick_runner.py` (*Findings*), so
     these results say what the engine promises a caller that uses its reconciler. The
     invariant: each fold is orderly (one fate for each PR, lands in the order of the
     queue); no PR is on trunk twice; every land is in the books, or the last commit of
     trunk and named by an intent (`Books`); from the end of a recovery to the push all
     books are closed (`Closed`); and what the runner knows at each of its steps of the
     lane, of trunk and of its batch (`Knows`): the batch is a head of the queue, is not
     on trunk, and within the budget of the last barrier. The middle parts are the crux:
     a push whose answer was lost can be told only as long as nothing is on top of it,
     and a new batch is safe only once the books are closed. Results: `LandedOnce`,
     `LandHasWitness`, `BlastRadius`, `RejectedStayOff`, `NoOvertaking`, for any PRs,
     conflicts, flakes, kills and lost answers.
  4. `BuriedInv`, for any lanes and hotfixes, if each lane has one job at a time that
     recovers first (`OneJobPerLane`): an intent of the lane that trunk contains is the
     tip, or has a land of somebody else right on top (`Unburied`), and a job past its
     recovery builds on a trunk its lane has left no intent for (`Recovered`). Result:
     `LostOnlyIfOvertaken`. That the reconciler does give up an advanced intent then,
     and its land is never recorded, is what the code does (*Findings*).
- `GovernorProofs`: `HeldInv`, that the token of a working lane is live with more time
  left than the tick may still take; it needs `TTL > MaxCI + AcquireMax`. `TTL > MaxCI`,
  what the comment in `governor.py:35-40` asks for, is not enough: the expiry counts
  from the clock read before the acquire. `OrderInv` adds that `older` is a strict
  total order of the fold (`LogOrder`), and that of the tokens that lanes hold fewer than
  the budget are older than that of a working lane and sort before it (`EldersFit`): its
  re-check has counted those, and what is appended later is not older. If the working
  lanes' tokens sort as the log has them, the last of them has all the others for
  elders: `BudgetUnlessOutOfOrder`.
- `ReleaseTxnProofs`: `Inv` relates the tag, the journal and what each run remembers at
  each of its steps. Results: types, the journal agrees with the tag, only the winner
  publishes, a release that is done is published, and the refinement of `Release`.
  `ClosedIsTrue`: what the journal says of an issue is so unless GitHub refused that
  very call, which the ports answer as done. `ClosingInv` says that the winner of a
  recorded package is at its effects, or through with them, or was killed there
  (`Attended`); with it, `OpenIssuesHaveCause`.

- `HermeticProofs`: `IInv` says what `record` leaves in an epoch (`WellRecorded`), that a
  job past its preflight satisfies it, and that every lockfile is `Frozen(e, ep)`, which
  depends on the epoch alone. The crux is `SeenFrozen`: each adapter either hands its
  resolver a field that the gate insists on, or insists on one `record` cannot fill in
  (`AdapterFacts`). Lockfiles are frozen only if no cutoff of the epoch is in the future
  (`NoFuture`), where it freezes nothing yet. Results: types, green results agree, the
  exit code is sound.

- `QuarantineProofs`: `BlameInv` says what the report of the batch and the verdicts of
  isolation so far have ruled out: past phase 1 no member alone fails for good, and in
  phase 2 neither does any prefix judged, so that when the scan ends without a culprit
  the whole batch must have raced. `MaskInv` adds that a failure count of the flaky log,
  also one read before, comes from a race or a failure of some past trunk, and that no
  past trunk has a PR that is still queued. Results: types; where no report is missing
  (`NoneMissing`), nothing broken lands, nobody is blamed in vain, and what is excused has
  raced or failed without the batch. `QuarantineNoReport` is what happens without the
  premise. That no race is masked (`RaceNeverMasked`) takes another one, that no hotfix
  breaks a test for good (`HotfixesBreakNothing`): the flaky log adds up the failures of
  one trunk and the passes of another. It is a theorem only, `NoRaceMasked`, for a hotfix
  of `QuarantineEvidence` does break a test.
- `LedgerProofs`: `PlanInv` = every started plan avoids the plans its fence saw, a plan
  that is done has no fragment left, and a plan seen by a fenced job is behind its fence
  or gone; the last part is what makes the fence work although a done plan leaves it.
  `ReadInv` = what a reader has read is a part of what there is, and what `verify` owed
  when it began it would still complain about (`StaysGood`: no step of a planner, a
  committer or a human pays such a debt, for a change of a started plan never lands
  again and an issue recorded closed is not closed twice). `VersionInv` = every plan is
  one that `build_plan` makes, over versions not below the first ones, and a tag is of a
  first version, or its release is in the journal, in the hands of the run that won it,
  or it is orphaned (`TagInv`). So a bumped version is above every first one, and a tag
  of it that a run passed over is one of the last three: `PartialHasCause`. `ThinInv` = the
  ledger names only changes that are or were on trunk, and a writer nobody overtook is
  about to write at least what the ledger has (`Whole`): `NeverThinned`.
  `PlanSound` rests on lemmas about the operators: the loop of `propagate` ends closed
  under the graph and with no more than needed (`BumpedIsClosed`), likewise `Reach`
  (`ReachIsClosed`), so that the bumped are those that reach a bumped one
  (`BumpedIsReachable`), in cyclic graphs too; the fold takes maxima (`RawIsWanted`) and
  `bump` raises a version (`BumpRaises`). Results: the fence, the soundness of every
  plan, what is left partial, the honesty of ledger and traces, what a write may take, the
  soundness of the audit, for any number of jobs, readers, changes, force-pushes and
  faults, any fragments and any graph of finitely many components. `LandChange` does not
  land a change of a started plan again, and the caller removes the fragments before it
  finalizes: these two assumptions about callers outside the repository carry the proofs
  of the fence and the audit.

- `AdmissionProofs`: `IInv` = types (in a report with a text at least one repetition
  ran), `Line` (ranks are the order of the first enqueues, and who has a rank has a frozen
  head), `Batch` (where the job is, and that what is judged is pending), `Alone` (under the
  tick job, as long as nothing has upset it, only the PR whose turn it is is pending, with
  the head listed), `Grounds` (what the verdicts and the guard have established of the
  batch so far), and the three properties. `Alone` carries the tick job: the report is
  fetched by the head listed and the batch built from the head frozen, and only if nobody
  else is pending are they one. `Grounds` works because a job keeps the report it fetched,
  though CI may replace it, and the rest of what a verdict finds is a fact about a head
  that no step takes back (`NextGrows`, `FactsStay`): an approval stays, a closed issue
  stays closed, a PR keeps the head it froze. What was against a member of the batch is
  kept from the first verdict (`against`) to the second, in the history `ejections`.
  It rests on lemmas about the verifier: `V1Is` (the fold of the declared and the
  inferred level fails exactly if a file that may be API is not covered), `DecisionIs`,
  and both directions of the fold of the checks, `NotFailedIsSound` and
  `FailedIsUnsound`. The second one is false of a `Sound` that says nothing of a change
  without files whose footprint matches nothing: V4 fails it (`verifier.py:37-46`), so
  `Sound` excludes a dead glob. Results: types; `LandedIsVerified`, of the files that the
  diff names, `JudgedByItsOwnReport` and `EjectedForCause`, for any finite set of PRs, any
  heads, changes, reports, approvals, lookups that fail, re-admissions and kills. There
  are no more PRs than `NBarrier`, so that no barrier runs: an assumption of the module,
  for what a barrier makes of a missing report is `Quarantine`'s subject.

Types are proved, and are no property of a run, where a module has a `TypeOK`.
The induction the provers cannot do is replaced by the least-number principle
and by what follows from it for one given finite set: a strict order on it has a top
(`TopExists`), a numbering a largest element (`LargestExists`). The library states that
principle for sets, so that no operator has to be instantiated. A recursive function on
`0..N` is reached the same way: the numbers up to which it exists are all of them
(`CountedUp`, `IterationExists`), and one that only adds to a subset of a finite set has
stopped after as many steps as the set has elements (`StopsGrowing`).

Only model-checked: liveness (`EveryPRSettles`, `OrphansReclaimed`, `SomebodyWorks`,
`CompletesUnlessOrphaned`, `Converges`, `ReadySettles`) is out of the prover's reach.
`SameFileSameLane` and `StrandedResolves` of `Dispatcher` speak of walks through its
forest: `Halved` and `Find` are recursive functions over forests, which exist and end
only because parents are smaller, and `Joined` folds them over a sorted sequence. What
they compute for every forest is an induction over data that is not worked out here.
Every other safety and action property of a passing run is a theorem.

## Findings

1. `MergeQueueHotfixRace`: `record_land` takes a land for unconfirmed when trunk moved
   again before its own `ls-remote` (`land.py:70`); the batch is retried and lands twice.
2. `QuarantineNoReport`: a missing report becomes an established flake
   (`ci_verdict.py:50`, `flaky.py:41`), and PRs land untested.

Other divergences met while modelling, in the model as the code has them. Where a
property says "unless", the exception is one of these:

- The re-check of `acquire` orders tokens by expiry and name (`governor.py:67`), not "by
  acquire order" (`governor.py:65`): a later token displaces one already kept, and more
  lanes work than the budget allows (`BudgetUnlessOutOfOrder`).
- A kill between the tag and its journal entry (`release_txn.py:118`) leaves a release
  that no run completes, against `release_txn.py:8-11` (`CompletesUnlessOrphaned`), and
  so does a push of the tag whose answer was lost. A plan with that package stays partial
  for ever (`PartialHasCause`).
- A close that GitHub refuses is answered "already-closed" (`gh_ports.py:48`), a comment
  it refuses "error" (`gh_ports.py:57`), and the journal records the issue as closed by
  the package either way, while `gh_ports.py:7-8` has it that only what is already done
  is mapped to success (`ClosedMeansCommented` excepts refused calls); only `verify`
  finds it out. A comment whose look-up fails is made again.
- A release is recorded done before its issues are closed, and a later run returns at
  once (`release_txn.py:106-107, 142`): a winner that is killed at its issues, or is
  refused the close, leaves them open for ever (`LeftOpenForCause`).
- Two jobs that read the fence before either starts consume the same fragments
  (`CountedTwiceOnlyIfRaced`), may compute the same version of a package, and then the
  second finalizes without having shipped it. The plan hash covers the fragments only,
  while the versions depend on the tags and the graph, against the "pure cache" that
  "replays byte-identically" of `versionplan.py:4-5`.
- A fragment with the bump `none` puts a component into the plan with its present
  version; if that is tagged already, outside the journal, the release stays partial for
  ever (`PartialHasCause`).
- A failed fetch of the journal reads as an empty one: `verify` then passes, and a
  rebuild writes a ledger in which nothing is released, against the fail-closed rule of
  `ssot.py:13-16` (`AuditSound`, `NeverThinned` except it). The lease of a rebuild
  covers only its own fetch and push, so a slow one replaces a newer ledger until the
  next rebuild. A `git revert` leaves the commit on the first-parent list: `verify` does
  not see it, against `ssot.py:12-13`.
- A commit that GitHub ties to no PR, as a direct push to trunk is, reads as an outage
  (`ssot.py:85`): every rebuild stops at it, and the ledger, which `docs/adr/0010` calls
  "fully rebuildable", is never written again (`Converges` excepts such a trunk).
- The diff is taken with git's detection of renames, and of a rename only the new path is
  kept (`gitutil.py:173`). The API that the old path took with it, its footprint and its
  risk are nobody's business, against "the verified name-set == the landed name-set" of
  `verifier.py:5-6` (`LandedIsVerified` is about the files named).
- A check-run that is completed without a text is read as `{}` (`tick_runner.py:49`),
  whose defaults are deterministic and no repetition, and that passes
  (`ci_verdict.py:30-37`): a head lands of which no test is known to have run
  (`JudgedByItsOwnReport` excepts `NoText`). `_ci` is taken for it only if there is no
  completed check-run at all, or its text does not parse.
- CI runs again when a PR is reopened or labelled (`conductor-ci.yml:13`), and its report
  replaces the one of the same head: what the tick was told and what is posted when the
  land is pushed may differ.
- A failed link lookup is a FAIL, not unknown (`issues.py:78`): if it fails in both
  verdicts of a PR, a good one is ejected for ever (`EjectedForCause` asks for something
  in each verdict, and takes such a failure for something).
- The job fetches the report of the PR whose turn it is: after a retry or a re-admission
  a PR is judged by another's (`tick_runner.py:87`, against `conductor-tick.yml:2`), and
  lands or is ejected by it (`JudgedByItsOwnReport` and `EjectedForCause` except a PR that
  was left pending or re-admitted). It is a report of the PR's head and not of the tree
  that lands: `EveryTipGreen` is about the engine, with a verdict of the tree. It wires no gate, no guard and no regenerator.
- `_mechanical_human` is two outcomes, [True, False], which a barrier that ran the
  overlay would feed to the flaky log as a flake of that test, against `verifier.py:126`.

- Equal events appended to one tip are one commit, so two callers share a slot
  (`statelog.py:63-68`); `OwnSlot` therefore assumes distinct events.
- The reconciler compares an intent with the current tip only, and abandons an advanced
  one when another lane or a hotfix has moved trunk (`reconciler.py:34`), against "If
  trunk != spec_tip the advance never happened" of `reconciler.py:9-10`
  (`LostOnlyIfOvertaken` excepts it). The PRs stay pending, and land once more.
- `tick_runner.py:76` never completes intents, though `conductor-tick.yml:3` says the
  tick job recovers.
- Two jobs of one lane can land a PR twice, when one has read the lane before, and reads
  trunk after, the land of the other (`batch_engine.py:79-84`): the lease then holds.
  Only the concurrency group of `conductor-tick.yml` excludes it, which `DESIGN.md:99-101`
  calls "never a correctness boundary". No run has two jobs of one lane.
- The `kept` PR of an interaction is the first of the batch, not the one the ejected PR
  fails with (`batch_engine.py:162`).
- The flaky log adds up the evidence of different trees (`flaky.py:41-47`): a test that a
  hotfix broke for good and another mended has failed and passed, counts as flaky, and a
  race that a batch then brings in is excused, against "so a real race is never masked as
  a flake" of `tools/conductor/README.md:108` (`FailureSeenWithoutIt` is what is left of
  it). A barrier excuses a test by the outcomes it has itself just fed
  (`batch_engine.py:183`).
- `scope.py:18` says the most specific rule wins; every matching rule adds its scope. A
  file that no rule matches has no scope next to files that have one, so that two PRs
  that share only that file may be in two lanes. And a PR that changes a shared path goes
  to the global lane with all its files, while one that shares another file with it goes
  to the lane of that file (`SameFileSameLane` excepts both).
- `_isolate` builds its trees without the prebuild hook, and `HermeticBlocked` raised
  there comes after `batch_formed`, which contradicts `lane_engine.py:42`. A blocked
  batch appends a hold of nobody and keeps its window, so one PR whose lock cannot be
  regenerated stops the lane, with all PRs behind it, for as long as it is pending
  (`ReadySettles` excepts them).
- A cutoff in the future is absolute for `hermetic.py:57-62` and is recorded as given
  (`hermetic.py:571-574`), but freezes nothing until then (`NoFuture` in `GreenAgree`);
  and nothing requires the registry of pnpm, yarn or go to be a snapshot (`NoLive`). Versions are
  compared by `x.y.z` only; libc is recorded and not compared. `yarnPath` in the tree
  beats the yarn whose version was checked, a residual that `YarnAdapter` names.
- `record` has no argument for poetry's `snapshot_id` and pip-tools' `index_url`, so
  these two fail closed always; a tree with a `package.json` is detected as npm, pnpm
  and yarn at once, so that a gate not given an ecosystem fails unless all are there.
- `verify` (the verifier's), `build_plan`, `make_prebuild` and the at-land guard are
  wired in tests only; no entry point of the conductor calls them.
- A PR routed again after a merge is enqueued in two lanes, and the re-routing that
  `dispatcher.py:5-8` describes is in no code.

## Plan

Done, most important first: the log everything stands on (`StateLog`), the merge queue,
the verdicts it acts on (`Quarantine`), the budget (`Governor`, `GovernorOrder`), the
release transaction, the dispatcher, the hermetic gate; the planner and the ledger over
it (`Versions`, `Planner`, `Ledger`); admission (`Verifier`, `Admission`); proofs about
all of them but the dispatcher.

Left, in this order:

1. Proofs: `SameFileSameLane` and `StrandedResolves` of `Dispatcher`, with a lemma that
   the walks exist and end, and that a union joins two trees and nothing else.
2. A composition of `Dispatcher` and `MergeQueue`: a PR that is in two lanes lands once,
   or not. No code calls the two together yet.
3. A run with two jobs of one lane, and what the engine promises without a concurrency
   group.

## Not modelled, and why

- `measure-f` is an offline script: it shares no state with the system.
- What a differ makes of the text of a language (`differs.py`, `shelldiff.py`): the model
  takes any answer, certain or not, and any crash, and models what is made of them.
- The grammars of changeset fragments, trailers and rule files, and the text of the
  changelog and of comments: parsing and wording. A fragment parses or is `Malformed`.
- `adapters.py` edits the version line of a manifest; nothing calls it.
- `ghapp.py`, `attest.py` and most of `gh_ports.py` wrap `gh` and signing; what the core
  relies on of the ports is in `ReleaseTxn` and `Ledger`. The advisory reviewer blocks
  nothing and is left out, the approvals it lives beside are in `Verifier`.
- `landed` and `quarantine` events, which nothing but tests appends; `--no-version-check`
  and `plan` of the hermetic gate; dry runs and labels of the tick runner.
- The caller of the planner, and of an engine with all the gates, is not in the
  repository: both are marked external, and the assumptions about them are stated where
  they are made (`Planner`, `Admission`).
- Wall-clock time is relative and discrete in `Governor`, and absent elsewhere.
