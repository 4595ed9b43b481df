------------------------------ MODULE Hermetic ------------------------------
(***************************************************************************)
(* The hermetic resolution gate (tools/hermetic/hermetic.py): an operator  *)
(* records a resolution epoch, and CI jobs, each on some host, regenerate  *)
(* lockfiles under it and compare, while the registries go on publishing.  *)
(*                                                                         *)
(* What a resolver writes is modelled by what it depends on: the tree, its *)
(* own and its runtime's version, the platform if its adapter says so, and *)
(* the publications it gets to see.  That a registry changes what it once  *)
(* published, a residual the adapters document, is left out.  Jobs share   *)
(* nothing but the epoch file, so they run one after the other here.       *)
(***************************************************************************)
EXTENDS Integers, Sequences

CONSTANTS Host,         \* machines: versions of tools and runtimes, a platform
          Tree,         \* work trees
          Files,        \* the manifests in each
          Version, Platform,
          Unknown,      \* a version that cannot be read: tool not installed
          FormatOf,     \* the lockfile format a version of a tool writes
          Written,      \* the versions that left lockfiles behind, or none
          Named,        \* the ecosystems that jobs are started for by name
          Args,         \* the arguments an operator gives to record
          NoEpoch, NoEco,
          MaxPublished, MaxEpochs, MaxJobs   \* bounds

-----------------------------------------------------------------------------
(* The adapters.  required: fields of registry_snapshot the gate insists on; *)
(* passed: fields that build_invocation hands to the resolver; recorded:     *)
(* fields that cmd_record can fill in.  "before" is exclude_newer for uv.    *)

Npm ==
    [manifests |-> {"package.json"}, required |-> {"before", "registry"},
     passed |-> {"before", "registry"}, recorded |-> {"before", "registry"},
     has |-> {"timeFreeze", "runtime", "format"}]

Pnpm ==
    [manifests |-> {"package.json", "pnpm-workspace.yaml"}, required |-> {"registry"},
     passed |-> {"registry"}, recorded |-> {"registry"},
     has |-> {"runtime", "platform", "format"}]

Yarn ==
    [manifests |-> {"package.json", ".yarnrc.yml"}, required |-> {"registry"},
     passed |-> {"registry"}, recorded |-> {"registry"},
     has |-> {"runtime", "platform", "format"}]

\* Its cache is fresh and it may not use the network.
Cargo ==
    [manifests |-> {"Cargo.toml"}, required |-> {"index_commit"},
     passed |-> {}, recorded |-> {"index_commit"}, has |-> {"offline", "runtime", "format"}]

Go ==
    [manifests |-> {"go.mod"}, required |-> {"goproxy"},
     passed |-> {"goproxy"}, recorded |-> {"goproxy"}, has |-> {}]

Uv ==
    [manifests |-> {"pyproject.toml", "uv.lock"}, required |-> {"before"},
     passed |-> {"before"}, recorded |-> {"before"},
     has |-> {"timeFreeze", "runtime", "platform", "format"}]

Poetry ==
    [manifests |-> {"pyproject.toml", "poetry.lock"}, required |-> {"snapshot_id"},
     passed |-> {}, recorded |-> {}, has |-> {"runtime", "platform"}]

PipTools ==
    [manifests |-> {"requirements.in"}, required |-> {"index_url"},
     passed |-> {"index_url"}, recorded |-> {}, has |-> {"runtime", "platform"}]

Adapter == [npm |-> Npm, pnpm |-> Pnpm, yarn |-> Yarn, cargo |-> Cargo, go |-> Go,
            uv |-> Uv, poetry |-> Poetry, piptools |-> PipTools]

Eco == DOMAIN Adapter

\* REAL_ADAPTERS, in the order in which a job goes through them.
Listed == <<"npm", "pnpm", "yarn", "cargo", "go", "uv", "poetry", "piptools">>
Field == {"before", "registry", "index_commit", "goproxy", "snapshot_id", "index_url"}

\* A cutoff is absolute or relative; a registry is an immutable snapshot or live.
Kind == {"absent", "absolute", "relative", "snapshot", "live"}
Absent == [kind |-> "absent", at |-> 0]

Detect(t) == {e \in Eco : Adapter[e].manifests \cap Files[t] # {}}

ASSUME HermeticAssumption ==
    /\ Unknown \notin Version
    /\ Host \subseteq [tool : [Eco -> Version \cup {Unknown}],
                       runtime : [Eco -> Version \cup {Unknown}], platform : Platform]
    /\ \A h \in Host, e \in Eco : h.tool[e] # Unknown => h.runtime[e] # Unknown
    /\ DOMAIN FormatOf = Version /\ \A v \in Version : FormatOf[v] # Unknown
    /\ Written \subseteq Version \cup {Unknown}
    /\ Named \subseteq Eco
    /\ Args \subseteq [Field -> Kind]
    /\ \A args \in Args, f \in Field : args[f] = "relative" => f = "before"
    /\ Host # {} /\ Tree # {}
    /\ MaxPublished \in Nat /\ MaxEpochs \in Nat /\ MaxJobs \in Nat

VARIABLES now,      \* how much the registries have published
          epoch,    \* the epoch file
          epochs,   \* how often it was written
          pc,       \* where the job is
          job,      \* its host, tree, the epoch it loaded, and what is left to do
          first,    \* the lockfile of the first of the two runs
          greens,   \* history: every green result, with its lockfile
          exit,     \* history: the job that has just ended, with its exit code
          jobs      \* how many jobs were started

vars == <<now, epoch, epochs, pc, job, first, greens, exit, jobs>>

NoJob == [host |-> CHOOSE h \in Host : TRUE, tree |-> CHOOSE t \in Tree : TRUE,
          loaded |-> NoEpoch, asked |-> {}, todo |-> {}, eco |-> NoEco, ok |-> TRUE]
NoLock == [tool |-> Unknown, seen |-> {}]

-----------------------------------------------------------------------------
Init ==
    /\ now = 0
    /\ epoch = NoEpoch
    /\ epochs = 0
    /\ pc = "idle"
    /\ job = NoJob
    /\ first = NoLock
    /\ greens = {}
    /\ exit = NoJob
    /\ jobs = 0

\* Somebody publishes a package.
Publish ==
    /\ now < MaxPublished
    /\ now' = now + 1
    /\ UNCHANGED <<epoch, epochs, pc, job, first, greens, exit, jobs>>

\* record: the operator captures host h for tree t, in which a tool of version
\* written has left its lockfiles (none, if Unknown).  A snapshot is taken now; a
\* date is stored as it is given, one in the future too, and is modelled by how
\* much will have been published by then.
Record(h, t, args, date, written) ==
    /\ epochs < MaxEpochs
    /\ epoch' =
         [version  |-> [e \in Eco |-> IF e \in Detect(t) THEN h.tool[e] ELSE Unknown],
          runtime  |-> [e \in Eco |-> IF e \in Detect(t) /\ "runtime" \in Adapter[e].has
                                     THEN h.runtime[e] ELSE Unknown],
          platform |-> h.platform,
          snapshot |-> [e \in Eco |-> [f \in Field |->
                          IF e \in Detect(t) /\ f \in Adapter[e].recorded
                             /\ args[f] # "absent"
                          THEN [kind |-> args[f],
                                at |-> IF args[f] = "absolute" THEN date ELSE now]
                          ELSE Absent]],
          format   |-> [e \in Eco |->
                          IF /\ e \in Detect(t) /\ "format" \in Adapter[e].has
                             /\ written # Unknown
                          THEN FormatOf[written] ELSE Unknown],
          \* history: what was published when it was recorded
          recorded |-> now]
    /\ epochs' = epochs + 1
    /\ UNCHANGED <<now, pc, job, first, greens, exit, jobs>>

-----------------------------------------------------------------------------
(* A job: gate or probe, of one ecosystem or of all that are detected. *)

Start(h, t) ==
    /\ pc = "idle"
    /\ jobs < MaxJobs
    /\ epoch # NoEpoch
    /\ \E asked \in {Detect(t)} \cup {{e} : e \in Named} :
          /\ asked # {}
          /\ job' = [host |-> h, tree |-> t, loaded |-> epoch, asked |-> asked,
                     todo |-> asked, eco |-> NoEco, ok |-> TRUE]
    /\ exit' = NoJob
    /\ jobs' = jobs + 1
    /\ pc' = "next"
    /\ UNCHANGED <<now, epoch, epochs, first, greens>>

\* The adapter whose turn it is.
InTurn(e) ==
    \E i \in DOMAIN Listed :
        Listed[i] = e /\ e \in job.todo /\ \A k \in 1 .. i - 1 : Listed[k] \notin job.todo

\* Mutant of Fails: relative cutoffs are accepted.
FailsButRelative(e, ep, h) ==
    \/ ep.version[e] = Unknown
    \/ \E f \in Adapter[e].required : ep.snapshot[e][f] = Absent
    \/ h.tool[e] # ep.version[e]
    \/ ep.runtime[e] # Unknown /\ h.runtime[e] # ep.runtime[e]
    \/ "platform" \in Adapter[e].has /\ h.platform # ep.platform

\* preflight: whether a precondition of adapter e under epoch ep misses on h.
Fails(e, ep, h) ==
    \/ ep.version[e] = Unknown
    \/ \E f \in Adapter[e].required : ep.snapshot[e][f] = Absent
    \/ "timeFreeze" \in Adapter[e].has /\ ep.snapshot[e]["before"].kind # "absolute"
    \/ h.tool[e] # ep.version[e]
    \/ ep.runtime[e] # Unknown /\ h.runtime[e] # ep.runtime[e]
    \/ "platform" \in Adapter[e].has /\ h.platform # ep.platform

\* Mutant of Verdict: the exit code is that of the last adapter.
LastVerdict(ok) == [job EXCEPT !.eco = NoEco, !.ok = ok]

\* The result of the ecosystem at hand; one failure fails the job.
Verdict(ok) == [job EXCEPT !.eco = NoEco, !.ok = job.ok /\ ok]

Red ==
    /\ job' = Verdict(FALSE)
    /\ first' = NoLock
    /\ pc' = "next"
    /\ UNCHANGED <<now, epoch, epochs, greens, exit, jobs>>

Preflight(e) ==
    /\ pc = "next"
    /\ InTurn(e)
    /\ ~Fails(e, job.loaded, job.host)
    /\ job' = [job EXCEPT !.eco = e, !.todo = @ \ {e}]
    /\ pc' = "run1"
    /\ UNCHANGED <<now, epoch, epochs, first, greens, exit, jobs>>

PreflightFails(e) ==
    /\ pc = "next"
    /\ InTurn(e)
    /\ Fails(e, job.loaded, job.host)
    /\ job' = [Verdict(FALSE) EXCEPT !.todo = @ \ {e}]
    /\ UNCHANGED <<now, epoch, epochs, pc, first, greens, exit, jobs>>

\* The publications adapter e sees under epoch ep; a relative cutoff moves on.
Seen(e, ep) ==
    IF "offline" \in Adapter[e].has THEN {}
    ELSE {n \in 1 .. now : \A f \in Adapter[e].passed :
             ep.snapshot[e][f].kind \in {"absolute", "snapshot"} => n <= ep.snapshot[e][f].at}

\* The lockfile that regenerate() writes for the ecosystem at hand.
Regenerated ==
    LET e == job.eco
        has == Adapter[e].has
    IN  [tool |-> job.host.tool[e], seen |-> Seen(e, job.loaded),
         runtime |-> IF "runtime" \in has THEN job.host.runtime[e] ELSE Unknown,
         platform |-> IF "platform" \in has THEN job.host.platform ELSE "any"]

FirstRun ==
    /\ pc = "run1"
    /\ first' = Regenerated
    /\ pc' = "run2"
    /\ UNCHANGED <<now, epoch, epochs, job, greens, exit, jobs>>

\* The resolver exits with an error, or leaves no lockfile.
ResolverFails == pc \in {"run1", "run2"} /\ Red

Differs == Regenerated # first

\* The format of the lockfile is not the recorded one.
FormatDrift ==
    /\ "format" \in Adapter[job.eco].has
    /\ job.loaded.format[job.eco] # Unknown
    /\ FormatOf[first.tool] # job.loaded.format[job.eco]

\* The second run, and what the gate makes of the two.
SecondRunRed == pc = "run2" /\ (Differs \/ FormatDrift) /\ Red

SecondRunGreen ==
    /\ pc = "run2"
    /\ ~Differs /\ ~FormatDrift
    /\ greens' = greens \cup {[eco |-> job.eco, tree |-> job.tree, epoch |-> job.loaded,
                               lock |-> first]}
    /\ job' = Verdict(TRUE)
    /\ first' = NoLock
    /\ pc' = "next"
    /\ UNCHANGED <<now, epoch, epochs, exit, jobs>>

\* All are through: the exit code is 0 if none failed.
Exit ==
    /\ pc = "next"
    /\ job.todo = {}
    /\ exit' = job
    /\ job' = NoJob
    /\ first' = NoLock
    /\ pc' = "idle"
    /\ UNCHANGED <<now, epoch, epochs, greens, jobs>>

Next ==
    \/ Publish
    \/ \E h \in Host, t \in Tree, args \in Args, written \in Written :
          \E date \in 0 .. MaxPublished : Record(h, t, args, date, written)
    \/ \E h \in Host, t \in Tree : Start(h, t)
    \/ \E e \in Eco : Preflight(e) \/ PreflightFails(e)
    \/ FirstRun \/ ResolverFails \/ SecondRunRed \/ SecondRunGreen
    \/ Exit

Spec == Init /\ [][Next]_vars

-----------------------------------------------------------------------------
(* Properties *)

VersionOrNone == Version \cup {Unknown}

Epoch == [version : [Eco -> VersionOrNone], runtime : [Eco -> VersionOrNone],
          platform : Platform,
          snapshot : [Eco -> [Field -> [kind : Kind, at : 0 .. MaxPublished]]],
          format : [Eco -> {FormatOf[v] : v \in Version} \cup {Unknown}],
          recorded : 0 .. MaxPublished]

JobType == [host : Host, tree : Tree, loaded : Epoch \cup {NoEpoch}, asked : SUBSET Eco,
            todo : SUBSET Eco, eco : Eco \cup {NoEco}, ok : BOOLEAN]

Lock == [tool : VersionOrNone, seen : SUBSET (1 .. MaxPublished),
         runtime : VersionOrNone, platform : Platform \cup {"any"}]

TypeOK ==
    /\ now \in 0 .. MaxPublished /\ epochs \in 0 .. MaxEpochs /\ jobs \in 0 .. MaxJobs
    /\ epoch \in Epoch \cup {NoEpoch}
    /\ pc \in {"idle", "next", "run1", "run2"}
    /\ job \in JobType
    /\ first \in Lock \cup {NoLock}
    /\ greens \subseteq [eco : Eco, tree : Tree, epoch : Epoch, lock : Lock]
    /\ exit \in JobType

\* The registries that the operator gave are immutable snapshots.
NoLive(ep) == \A e \in Eco, f \in Field : ep.snapshot[e][f].kind # "live"

\* No date of the epoch was in the future when it was recorded.
NoFuture(ep) ==
    \A e \in Eco, f \in Field :
        ep.snapshot[e][f].kind = "absolute" => ep.snapshot[e][f].at <= ep.recorded

SameQuestion(g, h) == g.eco = h.eco /\ g.tree = h.tree /\ g.epoch = h.epoch

\* Whatever is published in between, and on whatever hosts: two green results
\* for one tree under one epoch are one lockfile (hermetic.py:8-14), unless the
\* operator named a live registry, or gave record a date in the future.  In
\* particular an adapter that hands nothing of the epoch to its resolver is
\* never green.
GreenAgree ==
    \A g, h \in greens :
        SameQuestion(g, h) /\ NoLive(g.epoch) /\ NoFuture(g.epoch) => g.lock = h.lock

\* A job that exits with 0 has seen every ecosystem it was asked for green,
\* under the epoch it loaded: one failure of several is not forgotten
\* (hermetic.py:633-651).
ExitSound ==
    exit.ok => \A e \in exit.asked : \E g \in greens :
                   g.eco = e /\ g.tree = exit.tree /\ g.epoch = exit.loaded
=============================================================================
