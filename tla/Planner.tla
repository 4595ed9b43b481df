------------------------------ MODULE Planner -------------------------------
(***************************************************************************)
(* release_planner.py over the release journal: jobs that read the fence   *)
(* (in_flight_consumed), build a plan from the changeset fragments that    *)
(* are left, and release it, while changes land with their fragments.      *)
(*                                                                         *)
(* One plan and its runs, with every read and every re-entry, is           *)
(* ReleaseTxn; here several plans are in flight at once, and what matters  *)
(* is which fragments and which versions they share.  A run goes through   *)
(* its packages one by one and can be killed anywhere; a killed run is not *)
(* entered again.  The plan hash is the set of the consumed fragments,     *)
(* which is what fragment_set_hash digests.                                *)
(*                                                                         *)
(* The caller of the planner is not in the repository.  Assumed of it, and *)
(* marked external: it reads the current version of a component as the     *)
(* highest one tagged; and it removes the fragments a plan consumes after  *)
(* the plan is built and before it is recorded done, where its fence ends. *)
(***************************************************************************)
EXTENDS Versions, Sequences

CONSTANTS Jobs,            \* release jobs
          Ulids,           \* fragments, one per change
          Fragment,        \* the fragment of each
          Identified,      \* the fragments that carry a change_id
          InitialVersion,  \* the version of each component at the start
          Rank,            \* where the name of each component sorts
          Settings         \* the repositories considered (see setting)

ASSUME PlannerAssumption ==
    /\ \A u \in Ulids : WellFormed(Fragment[u]) /\ Declared(Fragment[u]) \in Bumps
    /\ Identified \subseteq Ulids
    /\ InitialVersion \in [Components -> Version]
    /\ Rank \in [Components -> Nat]
    /\ \A c, d \in Components : Rank[c] = Rank[d] => c = d
    /\ \A s \in Settings : /\ s.deps \in Graph /\ s.jobs \subseteq Jobs
                          /\ s.single \in BOOLEAN /\ s.tagged \in BOOLEAN
                          /\ s.mishaps \in Nat
    /\ Default \in Components /\ IsFiniteSet(Components)

VARIABLES trunk,       \* the changes on trunk, oldest first
          fragments,   \* the fragments that are there to be planned
          setting,     \* the repository: its graph, its mode, whether the versions it
                       \* starts with are tagged, which release jobs it runs, and how
                       \* often one is killed or does not hear of its tag (a bound)
          tags,        \* the version tags on the remote
          orphans,     \* the tags whose run was killed, or did not hear that it won,
                       \* before the release was recorded (a history)
          mishaps,     \* how often that was
          journal,     \* what reduce_release makes of the release journal
          job          \* where each release job is
plannerVars == <<trunk, fragments, setting, tags, orphans, mishaps, journal, job>>

\* started: the plans with a release_started event, each with the plans whose
\* own event its fence had seen (a history that no code reads);
\* index: change_id_index, the last started plan that consumed a change;
\* closed: the issue of the release is recorded closed.
EmptyJournal ==
    [started |-> {}, done |-> {}, released |-> {}, closed |-> FALSE, index |-> <<>>]

\* todo: the packages that the run has still to come to; key: the one it has won.
NoPlan  == [consumed |-> {}, bumps |-> <<>>, versions |-> <<>>, base |-> <<>>]
IdleJob == [pc |-> "idle", fence |-> {}, saw |-> {}, plan |-> NoPlan,
            todo |-> {}, key |-> <<>>]

StartedPlans(j) == {s.plan : s \in j.started}

\* The current versions the caller hands to build_plan.
Current ==
    [c \in Components |->
        LET all == {InitialVersion[c]} \cup {k[2] : k \in {t \in tags : t[1] = c}}
        IN  CHOOSE v \in all : \A w \in all : ~Below(v, w)]

\* Mutant of InFlight: the plans that are done are fenced, not the others.
InFlightOfDone(j) == UNION j.done

\* in_flight_consumed: the fence of the next plan.
InFlight(j) == UNION (StartedPlans(j) \ j.done)

KeysOf(p) == {<<c, p.versions[c]>> : c \in DOMAIN p.versions}
OnTrunk   == {trunk[i] : i \in DOMAIN trunk}

PlannerInit ==
    /\ trunk = <<>>
    /\ fragments = {}
    /\ setting \in Settings
    /\ tags = IF setting.tagged THEN {<<c, InitialVersion[c]>> : c \in Components} ELSE {}
    /\ orphans = {} /\ mishaps = 0
    /\ journal = EmptyJournal
    /\ job = [j \in Jobs |-> IdleJob]

\* A change lands, and its fragment with it.
LandChange(u) ==
    /\ u \notin OnTrunk
    /\ u \notin UNION StartedPlans(journal)
    /\ trunk' = Append(trunk, u)
    /\ fragments' = fragments \cup {u}
    /\ UNCHANGED <<setting, tags, orphans, mishaps, journal, job>>

(***************************************************************************)
(* A release job                                                           *)
(***************************************************************************)

\* in_flight_consumed reads the journal.
ReadFence(j) ==
    /\ job[j].pc = "idle"
    /\ job' = [job EXCEPT ![j] = [IdleJob EXCEPT !.pc = "fenced",
                                                 !.fence = InFlight(journal),
                                                 !.saw = StartedPlans(journal)]]
    /\ UNCHANGED <<trunk, fragments, setting, tags, orphans, mishaps, journal>>

\* build_plan on the fragments that are there; a cycle raises, and a plan of
\* nothing is not released.
Build(j) ==
    LET active == fragments \ job[j].fence
        raises == Cyclic(setting.deps, Components)
        plan   == BuildPlan(active, [u \in Ulids |-> Declared(Fragment[u])], Current,
                            setting.deps, setting.single)
    IN  /\ job[j].pc = "fenced"
        /\ job' = [job EXCEPT ![j] =
                    IF raises \/ active = {} THEN IdleJob
                    ELSE [@ EXCEPT !.pc = "built", !.plan = plan]]
        /\ UNCHANGED <<trunk, fragments, setting, tags, orphans, mishaps, journal>>

\* run_release returns at once when the plan is done; otherwise it records that
\* it starts, with what it consumes.
Start(j) ==
    LET h == job[j].plan.consumed
    IN  /\ job[j].pc = "built"
        /\ IF h \in journal.done
           THEN job' = [job EXCEPT ![j] = IdleJob] /\ UNCHANGED journal
           ELSE /\ journal' = [journal EXCEPT
                        !.started = @ \cup {[plan |-> h, saw |-> job[j].saw]},
                        !.index = [u \in DOMAIN @ \cup (h \cap Identified) |->
                                      IF u \in h \cap Identified THEN h ELSE @[u]]]
                /\ job' = [job EXCEPT ![j].pc = "packages", ![j].todo = KeysOf(job[j].plan)]
        /\ UNCHANGED <<trunk, fragments, setting, tags, orphans, mishaps>>

\* The caller removes the consumed fragments.
Retire(j) ==
    /\ job[j].pc \in {"built", "packages", "won", "released"}
    /\ job[j].plan.consumed \cap fragments # {}
    /\ fragments' = fragments \ job[j].plan.consumed
    /\ UNCHANGED <<trunk, setting, tags, orphans, mishaps, journal, job>>

\* The next package: they are gone through as their names sort.
Turn(j, k) ==
    /\ job[j].pc = "packages" /\ k \in job[j].todo
    /\ \A q \in job[j].todo : Rank[k[1]] <= Rank[q[1]]

\* Mutant of PassOver: a tag that is taken ends the run.
PassOverAll(j, k) ==
    /\ Turn(j, k) /\ k \in tags
    /\ job' = [job EXCEPT ![j].todo = {}]
    /\ UNCHANGED <<trunk, fragments, setting, tags, orphans, mishaps, journal>>

\* A package whose tag is taken is somebody else's.
PassOver(j, k) ==
    /\ Turn(j, k) /\ k \in tags
    /\ job' = [job EXCEPT ![j].todo = @ \ {k}]
    /\ UNCHANGED <<trunk, fragments, setting, tags, orphans, mishaps, journal>>

\* The tag is free: the run has won the package and records so.
Win(j, k) ==
    /\ Turn(j, k) /\ k \notin tags
    /\ tags' = tags \cup {k}
    /\ job' = [job EXCEPT ![j].pc = "won", ![j].key = k, ![j].todo = @ \ {k}]
    /\ UNCHANGED <<trunk, fragments, setting, orphans, mishaps, journal>>

\* The tag is created, but the push is reported as failed: the run takes it for
\* somebody else's.
WinUnheard(j, k) ==
    /\ Turn(j, k) /\ k \notin tags
    /\ mishaps < setting.mishaps /\ mishaps' = mishaps + 1
    /\ tags' = tags \cup {k} /\ orphans' = orphans \cup {k}
    /\ job' = [job EXCEPT ![j].todo = @ \ {k}]
    /\ UNCHANGED <<trunk, fragments, setting, journal>>

\* The winner publishes, and records it.
RecordReleased(j) ==
    /\ job[j].pc = "won"
    /\ journal' = [journal EXCEPT !.released = @ \cup {job[j].key}]
    /\ job' = [job EXCEPT ![j].pc = "released"]
    /\ UNCHANGED <<trunk, fragments, setting, tags, orphans, mishaps>>

\* The winner has GitHub close the issue (see Ledger), and records it.
CloseIssue(j) ==
    /\ job[j].pc = "released"
    /\ journal' = [journal EXCEPT !.closed = TRUE]
    /\ job' = [job EXCEPT ![j].pc = "packages", ![j].key = <<>>]
    /\ UNCHANGED <<trunk, fragments, setting, tags, orphans, mishaps>>

\* The release is done when every package of the plan is released, by whomever;
\* otherwise it stays "partial".
Finalize(j) ==
    LET p == job[j].plan
    IN  /\ job[j].pc = "packages" /\ job[j].todo = {}
        /\ p.consumed \cap fragments = {}
        /\ journal' = IF KeysOf(p) \subseteq journal.released
                      THEN [journal EXCEPT !.done = @ \cup {p.consumed}] ELSE journal
        /\ job' = [job EXCEPT ![j] = IdleJob]
        /\ UNCHANGED <<trunk, fragments, setting, tags, orphans, mishaps>>

Kill(j) ==
    /\ job[j].pc # "idle"
    /\ mishaps < setting.mishaps /\ mishaps' = mishaps + 1
    /\ orphans' = IF job[j].pc = "won" THEN orphans \cup {job[j].key} ELSE orphans
    /\ job' = [job EXCEPT ![j] = IdleJob]
    /\ UNCHANGED <<trunk, fragments, setting, tags, journal>>

\* Every step of a job but CloseIssue, which takes two (see Ledger).
JobStep(j) ==
    \/ ReadFence(j) \/ Build(j) \/ Start(j) \/ Retire(j)
    \/ \E k \in job[j].todo : PassOver(j, k) \/ Win(j, k) \/ WinUnheard(j, k)
    \/ RecordReleased(j) \/ Finalize(j) \/ Kill(j)

PlannerNext ==
    \/ \E u \in Ulids : LandChange(u)
    \/ \E j \in setting.jobs : JobStep(j)

(***************************************************************************)
(* Properties                                                              *)
(***************************************************************************)

\* A fragment is counted in two releases only if both plans were made before
\* either was started: the fence (release_planner.py:36-45) keeps every later
\* plan off it.
CountedTwiceOnlyIfRaced ==
    \A s, t \in journal.started :
        (s.plan # t.plan /\ s.plan \cap t.plan # {})
            => (s.plan \notin t.saw /\ t.plan \notin s.saw)

\* What a plan raises, from first principles: a component is in it because a
\* fragment names it or because it depends, along any path, on one that is
\* bumped; it has the largest level declared for it, or PATCH if that is more;
\* its version is larger than every version it was made from, and a MAJOR bump
\* leaves the range its dependents accept while a PATCH stays in it
\* (versionplan.py:23-74, semver.py:26-38).
Wanted(p) ==
    LET F == {Declared(Fragment[u]) : u \in p.consumed}
    IN  IF setting.single
        THEN {<<Default, l>> : l \in {MaxOf(UNION {{b[c] : c \in DOMAIN b} : b \in F})}}
        ELSE UNION {{<<c, b[c]>> : c \in DOMAIN b} : b \in F}
PlanSound ==
    \A j \in Jobs :
        LET p    == job[j].plan
            W    == Wanted(p)
            Hit(c) == \E w \in W : w[2] > NONE /\ w[1] \in Reach(setting.deps, Components, c)
        IN  p.consumed # {} =>
            /\ \A c \in Components :
                /\ c \in DOMAIN p.bumps <=> (Hit(c) \/ \E w \in W : w[1] = c)
                /\ c \in DOMAIN p.bumps =>
                    p.bumps[c] = MaxOf({w[2] : w \in {x \in W : x[1] = c}}
                                       \cup (IF Hit(c) THEN {PATCH} ELSE {NONE}))
            /\ \A c \in DOMAIN p.versions :
                /\ p.bumps[c] > NONE <=> Below(p.base[c], p.versions[c])
                /\ p.bumps[c] = MAJOR => ~Compatible(p.base[c], p.versions[c])
                /\ p.bumps[c] = PATCH => Compatible(p.base[c], p.versions[c])

\* When a run has been through its packages, each of them is released, or still in
\* the hands of the run that won it, or has one of two causes to be left "partial":
\* its tag is orphaned, that is, its winner was killed or did not hear that it won
\* (release_txn.py:116-121), or the plan does not bump it, and build_plan gives it
\* its current version, whose tag may be older than the journal
\* (release_planner.py:26-29).
InHand == {job[j].key : j \in {i \in Jobs : job[i].pc = "won"}}
PartialHasCause ==
    \A j \in Jobs :
        (job[j].pc = "packages" /\ job[j].todo = {}) =>
            \A k \in KeysOf(job[j].plan) \ (journal.released \cup InHand \cup orphans) :
                job[j].plan.bumps[k[1]] = NONE
=============================================================================
