--------------------------- MODULE HermeticProofs ---------------------------
(***************************************************************************)
(* That two green results for one tree and epoch are one lockfile: each is *)
(* Frozen(e, ep), which only depends on the epoch.                         *)
(***************************************************************************)
EXTENDS Hermetic, TLAPS

\* What the table of adapters has to satisfy: a field the resolver gets is one
\* the gate insists on; an online adapter whose resolver gets nothing insists
\* on a field that is never recorded; a cutoff is checked to be absolute.
LEMMA AdapterFacts ==
    ASSUME NEW e \in Eco
    PROVE  /\ Adapter[e].passed \subseteq Adapter[e].required
           /\ Adapter[e].required \subseteq Field
           /\ "before" \in Adapter[e].passed => "timeFreeze" \in Adapter[e].has
           /\ "offline" \in Adapter[e].has \/ Adapter[e].passed # {}
              \/ \E f \in Adapter[e].required : f \notin Adapter[e].recorded
  <1>1. e \in {"npm", "pnpm", "yarn", "cargo", "go", "uv", "poetry", "piptools"}
    BY DEF Eco, Adapter
  <1>2. CASE e = "npm"       BY <1>2 DEF Adapter, Npm, Field
  <1>3. CASE e = "pnpm"      BY <1>3 DEF Adapter, Pnpm, Field
  <1>4. CASE e = "yarn"      BY <1>4 DEF Adapter, Yarn, Field
  <1>5. CASE e = "cargo"     BY <1>5 DEF Adapter, Cargo, Field
  <1>6. CASE e = "go"        BY <1>6 DEF Adapter, Go, Field
  <1>7. CASE e = "uv"        BY <1>7 DEF Adapter, Uv, Field
  <1>8. CASE e = "poetry"    BY <1>8 DEF Adapter, Poetry, Field
  <1>9. CASE e = "piptools"  BY <1>9 DEF Adapter, PipTools, Field
  <1> QED  BY <1>1, <1>2, <1>3, <1>4, <1>5, <1>6, <1>7, <1>8, <1>9

-----------------------------------------------------------------------------
(* Types *)

LEMMA NoJobType == NoJob \in JobType
  <1>1. (CHOOSE h \in Host : TRUE) \in Host /\ (CHOOSE t \in Tree : TRUE) \in Tree
    BY HermeticAssumption
  <1> QED  BY <1>1 DEF NoJob, JobType

LEMMA TypeInit == Init => TypeOK
  BY NoJobType, HermeticAssumption DEF Init, TypeOK

LEMMA RecordType ==
    ASSUME TypeOK, NEW h \in Host, NEW t \in Tree, NEW args \in Args, NEW written \in Written,
           NEW date \in 0 .. MaxPublished, Record(h, t, args, date, written)
    PROVE  epoch' \in Epoch
  <1>1. now \in 0 .. MaxPublished  BY DEF TypeOK
  <1>2. /\ h.tool \in [Eco -> VersionOrNone] /\ h.runtime \in [Eco -> VersionOrNone]
        /\ h.platform \in Platform
    BY HermeticAssumption DEF VersionOrNone
  <1>3. args \in [Field -> Kind]  BY HermeticAssumption
  <1>4. written # Unknown => FormatOf[written] \in {FormatOf[v] : v \in Version}
    BY HermeticAssumption
  <1>5. epoch'.version \in [Eco -> VersionOrNone]  BY <1>2 DEF Record, VersionOrNone
  <1>6. epoch'.runtime \in [Eco -> VersionOrNone]  BY <1>2 DEF Record, VersionOrNone
  <1>7. epoch'.platform \in Platform  BY <1>2 DEF Record
  <1>8. epoch'.snapshot \in [Eco -> [Field -> [kind : Kind, at : 0 .. MaxPublished]]]
    <2>1. Absent \in [kind : Kind, at : 0 .. MaxPublished]
      BY HermeticAssumption DEF Absent, Kind
    <2>2. \A f \in Field :
             [kind |-> args[f], at |-> IF args[f] = "absolute" THEN date ELSE now]
               \in [kind : Kind, at : 0 .. MaxPublished]
      BY <1>1, <1>3
    <2> QED  BY <2>1, <2>2 DEF Record
  <1>9. epoch'.format \in [Eco -> {FormatOf[v] : v \in Version} \cup {Unknown}]
    BY <1>4 DEF Record
  <1>10. epoch' = [version |-> epoch'.version, runtime |-> epoch'.runtime,
                   platform |-> epoch'.platform, snapshot |-> epoch'.snapshot,
                   format |-> epoch'.format, recorded |-> now]
    BY DEF Record
  <1> QED  BY <1>1, <1>5, <1>6, <1>7, <1>8, <1>9, <1>10 DEF Epoch

-----------------------------------------------------------------------------
(* The inductive invariant *)

\* A job beyond its start has an epoch; beyond its preflight, an ecosystem
\* whose preconditions hold.
Shape ==
    /\ pc # "idle" => job.loaded # NoEpoch
    /\ pc \in {"run1", "run2"} => /\ job.eco \in Eco
                                  /\ ~Fails(job.eco, job.loaded, job.host)
    /\ pc = "run2" => first \in Lock

\* What record leaves in an epoch.
WellRecorded(ep) ==
    /\ ep.recorded <= now
    /\ \A e \in Eco :
        /\ ep.version[e] # Unknown /\ "runtime" \in Adapter[e].has => ep.runtime[e] # Unknown
        /\ \A f \in Field :
              /\ ep.snapshot[e][f].kind = "absolute" \/ ep.snapshot[e][f].at <= now
              /\ f \notin Adapter[e].recorded => ep.snapshot[e][f] = Absent
              /\ ep.snapshot[e][f].kind = "absent" => ep.snapshot[e][f] = Absent
              /\ ep.snapshot[e][f].kind = "relative" => f = "before"

Recorded ==
    /\ epoch # NoEpoch => WellRecorded(epoch)
    /\ job.loaded # NoEpoch => WellRecorded(job.loaded)

\* The lockfile of e under the epoch, whoever writes it and whenever.
Frozen(e, ep) ==
    [tool |-> ep.version[e],
     seen |-> IF "offline" \in Adapter[e].has THEN {}
              ELSE {n \in Nat \ {0} : \A f \in Adapter[e].passed : n <= ep.snapshot[e][f].at},
     runtime |-> IF "runtime" \in Adapter[e].has THEN ep.runtime[e] ELSE Unknown,
     platform |-> IF "platform" \in Adapter[e].has THEN ep.platform ELSE "any"]

\* An epoch whose registries and dates freeze what they are given for.
Freezes(ep) == NoLive(ep) /\ NoFuture(ep)

Locks ==
    /\ pc = "run2" /\ Freezes(job.loaded) => first = Frozen(job.eco, job.loaded)
    /\ \A g \in greens : Freezes(g.epoch) => g.lock = Frozen(g.eco, g.epoch)

\* The results of a job that has not failed so far.
Green(e, j) == \E g \in greens : g.eco = e /\ g.tree = j.tree /\ g.epoch = j.loaded

SoFar ==
    pc # "idle" /\ job.ok =>
        \A e \in job.asked \ job.todo :
            (pc \in {"run1", "run2"} /\ e = job.eco) \/ Green(e, job)

IInv == TypeOK /\ Shape /\ Recorded /\ Locks /\ SoFar /\ ExitSound

LEMMA InitIInv == Init => IInv
  BY TypeInit DEF Init, IInv, Shape, Recorded, Locks, SoFar, ExitSound, NoJob

\* What a resolver that passed the preflight sees is what was recorded.
LEMMA SeenFrozen ==
    ASSUME TypeOK, NEW e \in Eco, NEW ep \in Epoch, NEW h \in Host,
           WellRecorded(ep), Freezes(ep), ~Fails(e, ep, h)
    PROVE  "offline" \notin Adapter[e].has =>
             Seen(e, ep) = {n \in Nat \ {0} :
                              \A f \in Adapter[e].passed : n <= ep.snapshot[e][f].at}
  <1> SUFFICES ASSUME "offline" \notin Adapter[e].has
               PROVE  Seen(e, ep) = {n \in Nat \ {0} :
                              \A f \in Adapter[e].passed : n <= ep.snapshot[e][f].at}
    OBVIOUS
  <1>1. /\ Adapter[e].passed \subseteq Field
        /\ Adapter[e].passed \subseteq Adapter[e].required
        /\ "before" \in Adapter[e].passed => "timeFreeze" \in Adapter[e].has
    BY AdapterFacts
  <1>2. \A f \in Field : /\ ep.snapshot[e][f].kind \in Kind
                         /\ ep.snapshot[e][f].at \in Nat
                         /\ ep.snapshot[e][f].at <= now
    <2> TAKE f \in Field
    <2>1. ep.snapshot[e][f] \in [kind : Kind, at : 0 .. MaxPublished]  BY DEF Epoch
    <2>2. ep.recorded \in Nat /\ ep.recorded <= now /\ now \in Nat
      BY DEF Epoch, WellRecorded, TypeOK
    <2>3. CASE ep.snapshot[e][f].kind = "absolute"
      <3>1. ep.snapshot[e][f].at <= ep.recorded  BY <2>3 DEF Freezes, NoFuture
      <3> QED  BY <2>1, <2>2, <3>1
    <2>4. CASE ep.snapshot[e][f].kind # "absolute"
      BY <2>1, <2>4 DEF WellRecorded
    <2> QED  BY <2>3, <2>4
  <1>3. \A f \in Adapter[e].passed : ep.snapshot[e][f].kind \in {"absolute", "snapshot"}
    <2> SUFFICES ASSUME NEW f \in Adapter[e].passed
                 PROVE  ep.snapshot[e][f].kind \in {"absolute", "snapshot"}
      OBVIOUS
    <2>1. f \in Field  BY <1>1
    <2>2. ep.snapshot[e][f] # Absent  BY <1>1 DEF Fails
    <2>3. ep.snapshot[e][f].kind # "absent"  BY <2>1, <2>2 DEF WellRecorded
    <2>4. ep.snapshot[e][f].kind # "live"  BY <2>1 DEF Freezes, NoLive
    <2>5. ep.snapshot[e][f].kind # "relative"
      BY <1>1, <2>1 DEF WellRecorded, Fails
    <2> QED  BY <1>2, <2>1, <2>3, <2>4, <2>5 DEF Kind
  <1>4. PICK f \in Adapter[e].passed : TRUE
    <2>1. \A f \in Adapter[e].required : f \in Adapter[e].recorded
      <3> SUFFICES ASSUME NEW f \in Adapter[e].required
                   PROVE  f \in Adapter[e].recorded
        OBVIOUS
      <3>1. f \in Field  BY AdapterFacts
      <3> QED  BY <3>1 DEF WellRecorded, Fails
    <2> QED  BY <2>1, AdapterFacts
  <1>5. Seen(e, ep) = {n \in 1 .. now : \A g \in Adapter[e].passed : n <= ep.snapshot[e][g].at}
    BY <1>3 DEF Seen
  <1>6. \A n \in Nat \ {0} : n <= ep.snapshot[e][f].at => n \in 1 .. now
    BY <1>1, <1>2, <1>4 DEF TypeOK
  <1>7. \A n \in 1 .. now : n \in Nat \ {0}  BY DEF TypeOK
  <1> QED  BY <1>4, <1>5, <1>6, <1>7

\* The lockfile that a job writes.
LEMMA RegeneratedType ==
    ASSUME TypeOK, Shape, pc \in {"run1", "run2"}
    PROVE  Regenerated \in Lock
  <1>1. job.eco \in Eco /\ job.host \in Host  BY DEF Shape, TypeOK, JobType
  <1>2. /\ job.host.tool[job.eco] \in VersionOrNone
        /\ job.host.runtime[job.eco] \in VersionOrNone
        /\ job.host.platform \in Platform
    BY <1>1, HermeticAssumption DEF VersionOrNone
  <1>3. Seen(job.eco, job.loaded) \subseteq 1 .. MaxPublished
    <2>1. now \in 0 .. MaxPublished /\ MaxPublished \in Nat  BY HermeticAssumption DEF TypeOK
    <2>2. \A n \in 1 .. now : n \in 1 .. MaxPublished  BY <2>1
    <2> QED  BY <2>2 DEF Seen
  <1> QED  BY <1>2, <1>3 DEF Regenerated, Lock, VersionOrNone

LEMMA RegeneratedFrozen ==
    ASSUME TypeOK, Shape, Recorded, pc \in {"run1", "run2"}, Freezes(job.loaded)
    PROVE  Regenerated = Frozen(job.eco, job.loaded)
  <1>1. /\ job.eco \in Eco /\ job.host \in Host /\ job.loaded \in Epoch
        /\ ~Fails(job.eco, job.loaded, job.host) /\ WellRecorded(job.loaded)
    BY DEF Shape, TypeOK, JobType, Recorded
  <1>2. "offline" \notin Adapter[job.eco].has =>
          Seen(job.eco, job.loaded) =
            {n \in Nat \ {0} : \A f \in Adapter[job.eco].passed :
                                  n <= job.loaded.snapshot[job.eco][f].at}
    BY <1>1, SeenFrozen
  <1>3. "offline" \in Adapter[job.eco].has => Seen(job.eco, job.loaded) = {}
    BY DEF Seen
  <1>4. job.host.tool[job.eco] = job.loaded.version[job.eco]  BY <1>1 DEF Fails
  <1>5. "runtime" \in Adapter[job.eco].has =>
          job.host.runtime[job.eco] = job.loaded.runtime[job.eco]
    BY <1>1 DEF Fails, WellRecorded
  <1>6. "platform" \in Adapter[job.eco].has => job.host.platform = job.loaded.platform
    BY <1>1 DEF Fails
  <1> QED  BY <1>2, <1>3, <1>4, <1>5, <1>6 DEF Regenerated, Frozen

-----------------------------------------------------------------------------
(* Steps.  Those that leave the epochs and the registries alone keep Recorded *)
(* if they keep the epoch of the job.                                         *)

LEMMA RecordedKept ==
    ASSUME Recorded, UNCHANGED <<now, epoch>>, job'.loaded \in {job.loaded, NoEpoch}
    PROVE  Recorded'
  BY DEF Recorded, WellRecorded

LEMMA TwoFields ==
    ASSUME NEW j \in JobType, NEW x \in Eco \cup {NoEco}, NEW y
    PROVE  [j EXCEPT !.eco = x, !.ok = y] =
             [host |-> j.host, tree |-> j.tree, loaded |-> j.loaded,
              asked |-> j.asked, todo |-> j.todo, eco |-> x, ok |-> y]
  <1> DEFINE a == [j EXCEPT !.eco = x]
  <1>1. a = [host |-> j.host, tree |-> j.tree, loaded |-> j.loaded,
             asked |-> j.asked, todo |-> j.todo, eco |-> x, ok |-> j.ok]
    BY DEF JobType
  <1> HIDE DEF a
  <1>2. [a EXCEPT !.ok = y] =
             [host |-> j.host, tree |-> j.tree, loaded |-> j.loaded,
              asked |-> j.asked, todo |-> j.todo, eco |-> x, ok |-> y]
    BY <1>1
  <1> QED  BY <1>2 DEF a

LEMMA VerdictFalse ==
    ASSUME TypeOK
    PROVE  /\ Verdict(FALSE) \in JobType
           /\ Verdict(FALSE) =
                [host |-> job.host, tree |-> job.tree, loaded |-> job.loaded,
                 asked |-> job.asked, todo |-> job.todo, eco |-> NoEco, ok |-> FALSE]
  <1>1. job \in JobType  BY DEF TypeOK
  <1>2. (job.ok /\ FALSE) = FALSE  OBVIOUS
  <1>3. Verdict(FALSE) = [job EXCEPT !.eco = NoEco, !.ok = FALSE]  BY <1>2, Zenon DEF Verdict
  <1> DEFINE v == Verdict(FALSE)
  <1>4. v = [host |-> job.host, tree |-> job.tree, loaded |-> job.loaded,
             asked |-> job.asked, todo |-> job.todo, eco |-> NoEco, ok |-> FALSE]
    BY <1>1, <1>3, TwoFields, Zenon
  <1> HIDE DEF v
  <1>5. v \in JobType  BY <1>1, <1>4 DEF JobType
  <1> QED  BY <1>4, <1>5 DEF v

LEMMA VerdictTrue ==
    ASSUME TypeOK
    PROVE  /\ Verdict(TRUE) \in JobType
           /\ Verdict(TRUE) =
                [host |-> job.host, tree |-> job.tree, loaded |-> job.loaded,
                 asked |-> job.asked, todo |-> job.todo, eco |-> NoEco, ok |-> job.ok]
  <1>1. job \in JobType /\ job.ok \in BOOLEAN  BY DEF TypeOK, JobType
  <1>2. (job.ok /\ TRUE) = job.ok  BY <1>1
  <1>3. Verdict(TRUE) = [job EXCEPT !.eco = NoEco, !.ok = job.ok]  BY <1>2, Zenon DEF Verdict
  <1> DEFINE v == Verdict(TRUE)
  <1>4. v = [host |-> job.host, tree |-> job.tree, loaded |-> job.loaded,
             asked |-> job.asked, todo |-> job.todo, eco |-> NoEco, ok |-> job.ok]
    BY <1>1, <1>3, TwoFields, Zenon
  <1> HIDE DEF v
  <1>5. v \in JobType  BY <1>1, <1>4 DEF JobType
  <1> QED  BY <1>4, <1>5 DEF v

LEMMA RedStep ==
    ASSUME IInv, Red, pc \in {"run1", "run2"}
    PROVE  IInv'
  <1>1. TypeOK /\ job \in JobType /\ job'.loaded = job.loaded /\ job'.ok = FALSE /\ job' \in JobType
    <2> DEFINE v == Verdict(FALSE)
    <2>1. /\ v \in JobType
          /\ v = [host |-> job.host, tree |-> job.tree, loaded |-> job.loaded,
                  asked |-> job.asked, todo |-> job.todo, eco |-> NoEco, ok |-> FALSE]
      BY VerdictFalse DEF IInv
    <2>2. job' = v  BY DEF Red
    <2> HIDE DEF v
    <2> QED  BY <2>1, <2>2 DEF IInv, TypeOK
  <1>2. TypeOK'  BY <1>1 DEF Red, TypeOK
  <1>3. Shape'  BY <1>1 DEF IInv, Shape, Red
  <1>4. Recorded'  BY <1>1, RecordedKept DEF IInv, Red
  <1>5. Locks'  BY DEF IInv, Locks, Red
  <1>6. SoFar'  BY <1>1 DEF SoFar
  <1>7. ExitSound'  BY DEF IInv, ExitSound, Red
  <1> QED  BY <1>2, <1>3, <1>4, <1>5, <1>6, <1>7 DEF IInv

LEMMA PublishStep ==
    ASSUME IInv, Publish
    PROVE  IInv'
  <1>1. now \in 0 .. MaxPublished /\ now' = now + 1 /\ now' \in 0 .. MaxPublished
    BY HermeticAssumption DEF IInv, TypeOK, Publish
  <1>2. TypeOK'  BY <1>1 DEF IInv, TypeOK, Publish
  <1>3. Shape'  BY DEF IInv, Shape, Publish, Fails
  <1>4. Recorded'
    <2>1. ASSUME NEW ep \in Epoch, WellRecorded(ep)
          PROVE  WellRecorded(ep)'
      <3>1. \A e \in Eco, f \in Field : ep.snapshot[e][f].at \in Nat
        <4> TAKE e \in Eco, f \in Field
        <4>1. ep.snapshot[e][f] \in [kind : Kind, at : 0 .. MaxPublished]  BY DEF Epoch
        <4> QED  BY <4>1
      <3>2. \A e \in Eco, f \in Field :
               ep.snapshot[e][f].kind = "absolute" \/ ep.snapshot[e][f].at <= now'
        BY <1>1, <2>1, <3>1 DEF WellRecorded
      <3>3. ep.recorded <= now'
        BY <1>1, <2>1 DEF WellRecorded, Epoch
      <3> QED  BY <2>1, <3>2, <3>3 DEF WellRecorded
    <2>2. epoch # NoEpoch => epoch \in Epoch  BY DEF IInv, TypeOK
    <2>3. job.loaded # NoEpoch => job.loaded \in Epoch  BY DEF IInv, TypeOK, JobType
    <2>4. epoch' = epoch /\ job' = job  BY DEF Publish
    <2> QED  BY <2>1, <2>2, <2>3, <2>4 DEF IInv, Recorded
  <1>5. Locks'  BY DEF IInv, Locks, Publish, Frozen, Freezes, NoLive, NoFuture
  <1>6. SoFar'  BY DEF IInv, SoFar, Publish, Green
  <1>7. ExitSound'  BY DEF IInv, ExitSound, Publish
  <1> QED  BY <1>2, <1>3, <1>4, <1>5, <1>6, <1>7 DEF IInv

LEMMA RecordStep ==
    ASSUME IInv, NEW h \in Host, NEW t \in Tree, NEW args \in Args, NEW written \in Written,
           NEW date \in 0 .. MaxPublished, Record(h, t, args, date, written)
    PROVE  IInv'
  <1>1. TypeOK /\ epoch' \in Epoch /\ epochs' \in 0 .. MaxEpochs
    <2>1. epochs \in 0 .. MaxEpochs /\ epochs < MaxEpochs /\ epochs' = epochs + 1
      BY DEF IInv, TypeOK, Record
    <2> QED  BY <2>1, RecordType, HermeticAssumption DEF IInv
  <1>2. TypeOK'  BY <1>1 DEF TypeOK, Record
  <1>3. Shape'  BY DEF IInv, Shape, Record, Fails
  <1>4. WellRecorded(epoch)'
    <2> SUFFICES ASSUME NEW e \in Eco
                 PROVE  /\ epoch'.version[e] # Unknown /\ "runtime" \in Adapter[e].has
                             => epoch'.runtime[e] # Unknown
                        /\ \A f \in Field :
                             /\ \/ epoch'.snapshot[e][f].kind = "absolute"
                                \/ epoch'.snapshot[e][f].at <= now'
                             /\ f \notin Adapter[e].recorded => epoch'.snapshot[e][f] = Absent
                             /\ epoch'.snapshot[e][f].kind = "absent"
                                  => epoch'.snapshot[e][f] = Absent
                             /\ epoch'.snapshot[e][f].kind = "relative" => f = "before"
      <3>1. epoch'.recorded = now /\ now' = now /\ now <= now
        BY DEF IInv, TypeOK, Record
      <3> QED  BY <3>1 DEF WellRecorded
    <2>1. epoch'.version[e] # Unknown /\ "runtime" \in Adapter[e].has
             => epoch'.runtime[e] # Unknown
      <3>1. h.tool[e] # Unknown => h.runtime[e] # Unknown  BY HermeticAssumption
      <3> QED  BY <3>1 DEF Record
    <2>2. ASSUME NEW f \in Field
          PROVE  /\ \/ epoch'.snapshot[e][f].kind = "absolute"
                    \/ epoch'.snapshot[e][f].at <= now'
                 /\ f \notin Adapter[e].recorded => epoch'.snapshot[e][f] = Absent
                 /\ epoch'.snapshot[e][f].kind = "absent" => epoch'.snapshot[e][f] = Absent
                 /\ epoch'.snapshot[e][f].kind = "relative" => f = "before"
      <3>1. now' = now /\ now \in Nat  BY DEF IInv, TypeOK, Record
      <3>2. epoch'.snapshot[e][f] =
              IF e \in Detect(t) /\ f \in Adapter[e].recorded /\ args[f] # "absent"
              THEN [kind |-> args[f], at |-> IF args[f] = "absolute" THEN date ELSE now]
              ELSE Absent
        BY DEF Record
      <3>3. args[f] = "relative" => f = "before"  BY HermeticAssumption
      <3>4. CASE e \in Detect(t) /\ f \in Adapter[e].recorded /\ args[f] # "absent"
        BY <3>1, <3>2, <3>3, <3>4
      <3>5. CASE ~(e \in Detect(t) /\ f \in Adapter[e].recorded /\ args[f] # "absent")
        BY <3>1, <3>2, <3>5 DEF Absent
      <3> QED  BY <3>4, <3>5
    <2> QED  BY <2>1, <2>2
  <1>5. Recorded'
    <2>1. now' = now /\ job' = job  BY DEF Record
    <2> QED  BY <1>4, <2>1 DEF IInv, Recorded, WellRecorded
  <1>6. Locks'  BY DEF IInv, Locks, Record
  <1>7. SoFar'  BY DEF IInv, SoFar, Record, Green
  <1>8. ExitSound'  BY DEF IInv, ExitSound, Record
  <1> QED  BY <1>2, <1>3, <1>5, <1>6, <1>7, <1>8 DEF IInv

LEMMA StartStep ==
    ASSUME IInv, NEW h \in Host, NEW t \in Tree, Start(h, t)
    PROVE  IInv'
  <1>1. PICK asked \in {Detect(t)} \cup {{e} : e \in Named} :
           job' = [host |-> h, tree |-> t, loaded |-> epoch, asked |-> asked,
                   todo |-> asked, eco |-> NoEco, ok |-> TRUE]
    BY DEF Start
  <1>2. asked \subseteq Eco  BY HermeticAssumption DEF Detect
  <1>3. TypeOK'
    <2>1. job' \in JobType  BY <1>1, <1>2 DEF IInv, TypeOK, JobType
    <2>2. jobs' \in 0 .. MaxJobs  BY HermeticAssumption DEF IInv, TypeOK, Start
    <2> QED  BY <2>1, <2>2, NoJobType DEF IInv, TypeOK, Start
  <1>4. Shape'  BY <1>1 DEF Shape, Start
  <1>5. Recorded'
    <2>1. job'.loaded = epoch  BY <1>1
    <2> QED  BY <2>1 DEF IInv, Recorded, WellRecorded, Start
  <1>6. Locks'  BY DEF IInv, Locks, Start
  <1>7. SoFar'
    <2>1. job'.asked \ job'.todo = {}  BY <1>1
    <2> QED  BY <2>1 DEF SoFar
  <1>8. ExitSound'  BY DEF ExitSound, Start, NoJob
  <1> QED  BY <1>3, <1>4, <1>5, <1>6, <1>7, <1>8 DEF IInv

LEMMA PreflightStep ==
    ASSUME IInv, NEW e \in Eco, Preflight(e)
    PROVE  IInv'
  <1>1. job' = [host |-> job.host, tree |-> job.tree, loaded |-> job.loaded,
                asked |-> job.asked, todo |-> job.todo \ {e}, eco |-> e, ok |-> job.ok]
    BY DEF IInv, TypeOK, JobType, Preflight
  <1>2. TypeOK'
    <2>1. job' \in JobType  BY <1>1 DEF IInv, TypeOK, JobType
    <2>2. UNCHANGED <<now, epoch, epochs, first, greens, exit, jobs>> /\ pc' = "run1"
      BY DEF Preflight
    <2>3. TypeOK  BY DEF IInv
    <2> QED  BY <2>1, <2>2, <2>3 DEF TypeOK
  <1>3. Shape'  BY <1>1 DEF IInv, Shape, Preflight, Fails
  <1>4. Recorded'  BY <1>1, RecordedKept DEF IInv, Preflight
  <1>5. Locks'  BY DEF IInv, Locks, Preflight
  <1>6. SoFar'  BY <1>1 DEF IInv, SoFar, Preflight, Green
  <1>7. ExitSound'  BY DEF IInv, ExitSound, Preflight
  <1> QED  BY <1>2, <1>3, <1>4, <1>5, <1>6, <1>7 DEF IInv

LEMMA PreflightFailsStep ==
    ASSUME IInv, NEW e \in Eco, PreflightFails(e)
    PROVE  IInv'
  <1>1. job' = [host |-> job.host, tree |-> job.tree, loaded |-> job.loaded,
                asked |-> job.asked, todo |-> job.todo \ {e}, eco |-> NoEco, ok |-> FALSE]
    <2> DEFINE v == Verdict(FALSE)
    <2>1. v = [host |-> job.host, tree |-> job.tree, loaded |-> job.loaded,
               asked |-> job.asked, todo |-> job.todo, eco |-> NoEco, ok |-> FALSE]
      BY VerdictFalse DEF IInv
    <2>2. job' = [v EXCEPT !.todo = @ \ {e}]  BY DEF PreflightFails
    <2> HIDE DEF v
    <2> QED  BY <2>1, <2>2
  <1>2. TypeOK'
    <2>1. job' \in JobType  BY <1>1 DEF IInv, TypeOK, JobType
    <2> QED  BY <2>1 DEF IInv, TypeOK, PreflightFails
  <1>3. Shape'
    <2>1. pc' = "next" /\ pc = "next"  BY DEF PreflightFails
    <2>2. job'.loaded = job.loaded  BY <1>1
    <2> QED  BY <2>1, <2>2 DEF IInv, Shape
  <1>4. Recorded'
    <2>1. UNCHANGED <<now, epoch>>  BY DEF PreflightFails
    <2>2. job'.loaded = job.loaded  BY <1>1
    <2> QED  BY <2>1, <2>2, RecordedKept DEF IInv
  <1>5. Locks'  BY DEF IInv, Locks, PreflightFails
  <1>6. SoFar'  BY <1>1 DEF SoFar
  <1>7. ExitSound'  BY DEF IInv, ExitSound, PreflightFails
  <1> QED  BY <1>2, <1>3, <1>4, <1>5, <1>6, <1>7 DEF IInv

LEMMA FirstRunStep ==
    ASSUME IInv, FirstRun
    PROVE  IInv'
  <1>1. first' \in Lock  BY RegeneratedType DEF IInv, FirstRun
  <1>2. Freezes(job.loaded) => first' = Frozen(job.eco, job.loaded)
    BY RegeneratedFrozen DEF IInv, FirstRun
  <1>3. TypeOK'  BY <1>1 DEF IInv, TypeOK, FirstRun
  <1>4. Shape'  BY <1>1 DEF IInv, Shape, FirstRun, Fails
  <1>5. Recorded'  BY RecordedKept DEF IInv, FirstRun
  <1>6. Locks'  BY <1>2 DEF IInv, Locks, FirstRun
  <1>7. SoFar'  BY DEF IInv, SoFar, FirstRun, Green
  <1>8. ExitSound'  BY DEF IInv, ExitSound, FirstRun
  <1> QED  BY <1>3, <1>4, <1>5, <1>6, <1>7, <1>8 DEF IInv

LEMMA SecondRunGreenStep ==
    ASSUME IInv, SecondRunGreen
    PROVE  IInv'
  <1> DEFINE new == [eco |-> job.eco, tree |-> job.tree, epoch |-> job.loaded, lock |-> first]
  <1>1. job' = [host |-> job.host, tree |-> job.tree, loaded |-> job.loaded,
                asked |-> job.asked, todo |-> job.todo, eco |-> NoEco, ok |-> job.ok]
    BY VerdictTrue DEF IInv, SecondRunGreen
  <1>2. greens' = greens \cup {new}  BY DEF SecondRunGreen
  <1>3. TypeOK'
    <2>1. job' \in JobType  BY VerdictTrue DEF IInv, SecondRunGreen
    <2>2. /\ job.eco \in Eco /\ job.tree \in Tree /\ job.loaded \in Epoch /\ first \in Lock
      BY DEF IInv, Shape, TypeOK, JobType, SecondRunGreen
    <2>3. new \in [eco : Eco, tree : Tree, epoch : Epoch, lock : Lock]  BY <2>2
    <2> QED  BY <1>2, <2>1, <2>3 DEF IInv, TypeOK, SecondRunGreen
  <1>4. Shape'
    <2>1. pc' = "next" /\ pc = "run2"  BY DEF SecondRunGreen
    <2>2. job'.loaded = job.loaded  BY <1>1
    <2> QED  BY <2>1, <2>2 DEF IInv, Shape
  <1>5. Recorded'
    <2>1. UNCHANGED <<now, epoch>>  BY DEF SecondRunGreen
    <2>2. job'.loaded = job.loaded  BY <1>1
    <2> QED  BY <2>1, <2>2, RecordedKept DEF IInv
  <1>6. Locks'
    <2>1. Freezes(new.epoch) => new.lock = Frozen(new.eco, new.epoch)
      BY DEF IInv, Locks, SecondRunGreen
    <2>2. pc' = "next"  BY DEF SecondRunGreen
    <2> QED  BY <1>2, <2>1, <2>2 DEF IInv, Locks
  <1>7. SoFar'
    <2> SUFFICES ASSUME job'.ok, NEW e \in job'.asked \ job'.todo
                 PROVE  Green(e, job)'
      BY DEF SoFar
    <2>1. /\ job.ok /\ e \in job.asked \ job.todo
          /\ job'.tree = job.tree /\ job'.loaded = job.loaded
      BY <1>1
    <2>2. pc = "run2"  BY DEF SecondRunGreen
    <2>3. e = job.eco \/ Green(e, job)  BY <2>1, <2>2 DEF IInv, SoFar
    <2>4. CASE e = job.eco
      <3>1. new \in greens' /\ new.eco = e /\ new.tree = job'.tree /\ new.epoch = job'.loaded
        BY <1>2, <2>1, <2>4
      <3> QED  BY <3>1 DEF Green
    <2>5. CASE Green(e, job)  BY <1>2, <2>1, <2>5 DEF Green
    <2> QED  BY <2>3, <2>4, <2>5
  <1>8. ExitSound'  BY <1>2 DEF IInv, ExitSound, SecondRunGreen
  <1> QED  BY <1>3, <1>4, <1>5, <1>6, <1>7, <1>8 DEF IInv

LEMMA ExitStep ==
    ASSUME IInv, Exit
    PROVE  IInv'
  <1>1. TypeOK'  BY NoJobType DEF IInv, TypeOK, Exit
  <1>2. Shape'  BY DEF Shape, Exit
  <1>3. Recorded'
    <2>1. job'.loaded = NoEpoch  BY DEF Exit, NoJob
    <2> QED  BY <2>1, RecordedKept DEF IInv, Exit
  <1>4. Locks'  BY DEF IInv, Locks, Exit
  <1>5. SoFar'  BY DEF SoFar, Exit
  <1>6. ExitSound'  BY DEF IInv, SoFar, Green, ExitSound, Exit
  <1> QED  BY <1>1, <1>2, <1>3, <1>4, <1>5, <1>6 DEF IInv

LEMMA NextIInv == IInv /\ [Next]_vars => IInv'
  <1> SUFFICES ASSUME IInv, [Next]_vars
               PROVE  IInv'
    OBVIOUS
  <1>1. CASE Publish  BY <1>1, PublishStep
  <1>2. CASE \E h \in Host, t \in Tree, args \in Args, written \in Written :
                \E date \in 0 .. MaxPublished : Record(h, t, args, date, written)
    BY <1>2, RecordStep
  <1>3. CASE \E h \in Host, t \in Tree : Start(h, t)  BY <1>3, StartStep
  <1>4. CASE \E e \in Eco : Preflight(e) \/ PreflightFails(e)
    BY <1>4, PreflightStep, PreflightFailsStep
  <1>5. CASE FirstRun  BY <1>5, FirstRunStep
  <1>6. CASE ResolverFails  BY <1>6, RedStep DEF ResolverFails
  <1>7. CASE SecondRunRed  BY <1>7, RedStep DEF SecondRunRed
  <1>8. CASE SecondRunGreen  BY <1>8, SecondRunGreenStep
  <1>9. CASE Exit  BY <1>9, ExitStep
  <1>10. CASE UNCHANGED vars
    <2>1. TypeOK' /\ Shape' /\ Locks'  BY <1>10 DEF vars, IInv, TypeOK, Shape, Locks
    <2>2. Recorded'  BY <1>10 DEF vars, IInv, Recorded, WellRecorded
    <2>3. SoFar'  BY <1>10 DEF vars, IInv, SoFar, Green, Fails
    <2>4. ExitSound'  BY <1>10 DEF vars, IInv, ExitSound, Green, Fails
    <2> QED  BY <2>1, <2>2, <2>3, <2>4 DEF IInv
  <1> QED  BY <1>1, <1>2, <1>3, <1>4, <1>5, <1>6, <1>7, <1>8, <1>9, <1>10 DEF Next

-----------------------------------------------------------------------------
(* The theorems *)

\* Every variable of the gate has its type, for any hosts, trees and bounds.
THEOREM TypeCorrect == Spec => []TypeOK
  <1>1. IInv => TypeOK  BY DEF IInv
  <1> QED  BY InitIInv, NextIInv, <1>1, PTL DEF Spec

\* Two green results for one tree under one epoch are one lockfile, unless the
\* operator named a registry that is not a snapshot, or gave record a date in the
\* future (hermetic.py:57-62, 570-574).
THEOREM GreensAgree == Spec => []GreenAgree
  <1>1. IInv => GreenAgree  BY DEF IInv, Locks, Freezes, SameQuestion, GreenAgree
  <1> QED  BY InitIInv, NextIInv, <1>1, PTL DEF Spec

\* A job that exits with 0 has seen every ecosystem it was asked for green.
THEOREM ExitIsSound == Spec => []ExitSound
  <1>1. IInv => ExitSound  BY DEF IInv
  <1> QED  BY InitIInv, NextIInv, <1>1, PTL DEF Spec
=============================================================================
