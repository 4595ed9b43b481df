--------------------------- MODULE AdmissionProofs ---------------------------
(***************************************************************************)
(* Nothing lands without its grounds, and nobody is ejected without a      *)
(* cause, for any PRs, heads, changes, reports, approvals, lookups and     *)
(* kills.  The argument follows a batch through the job: what a verdict    *)
(* establishes is a fact about a report and about a head; the job holds    *)
(* the report, and the head of a PR is frozen.                             *)
(***************************************************************************)
EXTENDS Admission, FiniteSetTheorems, TLAPS

-----------------------------------------------------------------------------
(* The inductive invariant *)

Report  == [deterministic : BOOLEAN, reps : (SUBSET BOOLEAN) \ {{}}]
Checked == Report \cup {NoReport, NoText}
Landing == [pr : PR, head : Commit, by : Commit, report : Checked, seen : SUBSET Issue,
            upset : BOOLEAN]
LaneType ==
    [rank : [PR -> Nat], done : SUBSET PR, landed : SUBSET PR,
     ejected : SUBSET [pr : PR, why : {"culprit"}, kept : {NoPR}], held : SUBSET PR,
     age : [PR -> Nat], prepared : {{}}, m : Int, atRisk : Nat, formed : Nat]
JobType ==
    [pc : {"off", "turn", "tick", "judge", "isolate", "guard", "advance"},
     listed : [PR -> Commit \cup {NoHead}], todo : SUBSET PR, turn : PR \cup {NoPR},
     members : SUBSET PR, seen : SUBSET Issue, report : Checked, against : SUBSET Reasons]

TypeOK ==
    /\ case \in Cases
    /\ pushed \in [PR -> Nat] /\ \A p \in PR : pushed[p] \in 1..Len(Heads[p])
    /\ checks \in [Commit -> Checked]
    /\ open \in SUBSET Issue
    /\ lane \in LaneType
    /\ frozen \in [PR -> Commit \cup {NoHead}]
    /\ trunk \in Seq(Landing)
    /\ job \in JobType
    /\ outages \in Nat /\ upset \in BOOLEAN

Queued(p)  == lane.rank[p] # 0
ChangeOf(p) == case.content[frozen[p]]

\* The ranks are the order of the first enqueues, and each froze a head.
Line ==
    /\ \A p, q \in PR : Queued(p) /\ lane.rank[p] = lane.rank[q] => p = q
    /\ \A p \in PR : lane.rank[p] <= Cardinality({q \in PR : Queued(q)})
    /\ \A p \in PR : Queued(p) <=> frozen[p] # NoHead
    /\ \A e \in lane.ejected : Queued(e.pr)

Ticking == job.pc \in {"tick", "judge", "isolate", "guard", "advance"}
Judging == job.pc \in {"judge", "isolate", "guard", "advance"}

\* Where the job is.
Batch ==
    /\ job.pc # "off" => \A p \in PR : job.listed[p] \in Commit
    /\ Ticking => job.turn \in PR
    /\ Judging => job.members # {} /\ job.members \subseteq Pending(lane)
    /\ job.pc = "guard" => case.wiring = "gated"
    /\ Judging /\ case.wiring = "gated" => \E p \in PR : job.members = {p}

\* As long as nothing upsets the tick job, only the PR whose turn it is is pending,
\* and its head is the one listed.
Alone ==
    case.wiring = "tick" /\ ~upset =>
        /\ ~Ticking => Pending(lane) = {}
        /\ Ticking => \A p \in Pending(lane) : p = job.turn /\ frozen[p] = job.listed[p]

Cleared(p) ==
    /\ Sound(ChangeOf(p), Named(ChangeOf(p)))
    /\ NeedsHuman(Named(ChangeOf(p))) =>
          \E a \in approvals : a.head = frozen[p] /\ a.type # "agent"

\* What the verdicts have established of the batch.
Grounds ==
    /\ job.pc \in {"guard", "advance"} =>
          /\ job.report = NoText \/ Passes(job.report)
          /\ case.wiring = "gated" => \A p \in job.members : Cleared(p)
    /\ job.pc = "advance" /\ case.wiring = "gated" =>
          \A p \in job.members : Issues(ChangeOf(p)) \subseteq job.seen \cap Linked[p]
    /\ job.pc = "isolate" => job.against # {}

IInv ==
    /\ TypeOK
    /\ Line
    /\ Batch
    /\ Alone
    /\ Grounds
    /\ LandedIsVerified
    /\ JudgedByItsOwnReport
    /\ EjectedForCause

-----------------------------------------------------------------------------
(* The verifier *)

\* Levels have a largest one, and it is what MaxOf chooses.
LEMMA LargestLevel ==
    ASSUME NEW S \in SUBSET Level, S # {}
    PROVE  /\ MaxOf(S) \in S /\ MaxOf(S) \in Level /\ MaxOf(S) \in Int
           /\ \A l \in S : l <= MaxOf(S)
<1>1. \A l \in Level : l \in {0, 1, 2, 3} /\ l \in Int
  BY DEF Level, NONE, MAJOR
<1>2. \E x \in S : \A y \in S : y <= x
  <2>1. CASE 3 \in S
    BY <1>1, <2>1
  <2>2. CASE 3 \notin S /\ 2 \in S
    BY <1>1, <2>2
  <2>3. CASE 3 \notin S /\ 2 \notin S /\ 1 \in S
    BY <1>1, <2>3
  <2>4. CASE 3 \notin S /\ 2 \notin S /\ 1 \notin S
    BY <1>1, <2>4
  <2>5. QED
    BY <2>1, <2>2, <2>3, <2>4
<1>3. QED
  BY <1>1, <1>2 DEF MaxOf

\* A fragment that parses declares a level of something.
LEMMA DeclaredLevels ==
    ASSUME NEW f \in ParsedFragment
    PROVE  /\ DOMAIN Declared(f) # {}
           /\ \A d \in DOMAIN Declared(f) : Declared(f)[d] \in Level
<1>1. f.bumps \in Bumps /\ f.bump \in Level \cup {NoBump} /\ WellFormed(f)
  BY DEF ParsedFragment
<1>2. CASE DOMAIN f.bumps # {}
  <2>1. PICK S \in SUBSET Components : f.bumps \in [S -> Level]
    BY <1>1 DEF Bumps
  <2>2. QED
    BY <1>2, <2>1 DEF Declared
<1>3. CASE DOMAIN f.bumps = {}
  <2>1. Declared(f) = [d \in {f.component} |-> f.bump] /\ f.bump \in Level
    BY <1>1, <1>3 DEF Declared, WellFormed
  <2>2. QED
    BY <2>1
<1>4. QED
  BY <1>2, <1>3

\* Whatever the differs answer, and whoever crashes, a file has a level.
LEMMA DiffFileLevel ==
    ASSUME NEW f \in ChangedFile
    PROVE  DiffFile(f).level \in Level
<1> DEFINE answers == {Answer(d) : d \in f.differs}
           final   == {a \in answers : a.authoritative /\ ~a.unsure}
           others  == answers \ final
<1>1. NONE \in Level /\ MAJOR \in Level
  BY DEF Level, NONE, MAJOR
<1>2. \A a \in answers : a \in Answers
  <2>1. f.differs \subseteq Answers
    BY DEF ChangedFile
  <2>2. \A d \in Answers : Answer(d) \in Answers
    BY <1>1 DEF Answers, Answer
  <2>3. QED
    BY <2>1, <2>2
<1>3. CASE f.differs = {}
  BY <1>1, <1>3 DEF DiffFile
<1>4. CASE f.differs # {} /\ final # {}
  <2>1. (CHOOSE a \in final : TRUE) \in answers
    BY <1>4
  <2>2. (CHOOSE a \in final : TRUE).level \in Level
    BY <1>2, <2>1 DEF Answers
  <2>3. DiffFile(f) = [level |-> (CHOOSE a \in final : TRUE).level, unsure |-> FALSE]
    BY <1>4 DEF DiffFile
  <2>4. QED
    BY <2>2, <2>3
<1>5. CASE f.differs # {} /\ final = {}
  <2>1. DiffFile(f).level = MaxOf({a.level : a \in others})
    BY <1>5 DEF DiffFile
  <2>2. others = answers /\ answers # {}
    BY <1>5
  <2> HIDE DEF answers, final, others
  <2>3. \A a \in others : a.level \in Level
    BY <1>2, <2>2 DEF Answers
  <2>4. {a.level : a \in others} \in SUBSET Level /\ {a.level : a \in others} # {}
    BY <2>2, <2>3
  <2>5. QED
    BY <2>1, <2>4, LargestLevel
<1>6. QED
  BY <1>3, <1>4, <1>5

\* The inferred bump is the largest of the files that may be API, and as unsure as
\* any of them.
LEMMA InferBumpIs ==
    ASSUME NEW files \in SUBSET ChangedFile
    PROVE  LET l == InferBump(files).level
           IN  /\ l \in Level
               /\ \A f \in files : ~f.nonApi => DiffFile(f).level <= l
               /\ l = NONE \/ \E f \in files : ~f.nonApi /\ DiffFile(f).level = l
               /\ InferBump(files).unsure <=> \E f \in files : ~f.nonApi /\ DiffFile(f).unsure
<1> DEFINE api    == {g \in files : ~g.nonApi}
           diffs  == {DiffFile(f) : f \in api}
           levels == {NONE} \cup {d.level : d \in diffs}
<1>1. InferBump(files).level = MaxOf(levels)
  BY DEF InferBump
<1>2. InferBump(files).unsure <=> \E d \in diffs : d.unsure
  BY DEF InferBump
<1>3. \A l : l \in levels <=> l = NONE \/ \E f \in api : l = DiffFile(f).level
  <2>1. \A d : d \in diffs <=> \E f \in api : d = DiffFile(f)
    OBVIOUS
  <2> HIDE DEF diffs, api
  <2>2. \A l : l \in levels <=> l = NONE \/ \E d \in diffs : l = d.level
    OBVIOUS
  <2> HIDE DEF levels
  <2>3. QED
    BY <2>1, <2>2
<1>4. (\E d \in diffs : d.unsure) <=> \E f \in api : DiffFile(f).unsure
  OBVIOUS
<1>5. \A f : f \in api <=> f \in files /\ ~f.nonApi
  OBVIOUS
<1> HIDE DEF api, diffs, levels
<1>6. levels \in SUBSET Level /\ levels # {}
  <2>1. \A f \in api : DiffFile(f).level \in Level
    BY <1>5, DiffFileLevel
  <2>2. NONE \in Level
    BY DEF Level, NONE, MAJOR
  <2>3. QED
    BY <1>3, <2>1, <2>2
<1>7. MaxOf(levels) \in levels /\ MaxOf(levels) \in Level /\ \A l \in levels : l <= MaxOf(levels)
  BY <1>6, LargestLevel
<1>8. QED
  BY <1>1, <1>2, <1>3, <1>4, <1>5, <1>7

\* Some component is declared at the level of file f, or above.
Covers(c, f) == \E d \in DOMAIN Declared(c.fragment) : Declared(c.fragment)[d] >= DiffFile(f).level

\* V1 fails exactly when a file that may be API is not covered.
LEMMA V1Is ==
    ASSUME NEW c \in Change, c.fragment # Malformed
    PROVE  /\ V1(c) = "FAIL" <=> \E f \in Named(c) : ~f.nonApi /\ ~Covers(c, f)
           /\ V1(c) # "FAIL" =>
                (V1(c) = "NEEDS_HUMAN" <=> \E f \in Named(c) : ~f.nonApi /\ DiffFile(f).unsure)
<1> DEFINE bumps == Declared(c.fragment)
           D == {bumps[d] : d \in DOMAIN bumps}
           most == MaxOf(D)
           l == InferBump(Named(c)).level
<1>1. c.fragment \in ParsedFragment /\ Named(c) \in SUBSET ChangedFile
  BY DEF Change, Named
<1>2. DOMAIN bumps # {} /\ \A d \in DOMAIN bumps : bumps[d] \in Level
  BY <1>1, DeclaredLevels
<1>3. /\ l \in Level
      /\ \A f \in Named(c) : ~f.nonApi => DiffFile(f).level <= l
      /\ l = NONE \/ \E f \in Named(c) : ~f.nonApi /\ DiffFile(f).level = l
      /\ InferBump(Named(c)).unsure <=> \E f \in Named(c) : ~f.nonApi /\ DiffFile(f).unsure
  BY <1>1, InferBumpIs
<1>4. /\ V1(c) = "FAIL" <=> most < l
      /\ V1(c) # "FAIL" => (V1(c) = "NEEDS_HUMAN" <=> InferBump(Named(c)).unsure)
  BY DEF V1
<1>5. \A f \in Named(c) : Covers(c, f) <=> \E d \in DOMAIN bumps : bumps[d] >= DiffFile(f).level
  BY DEF Covers
<1>6. \A f \in Named(c) : DiffFile(f).level \in Level
  BY <1>1, DiffFileLevel
<1> HIDE DEF bumps, l
<1>7. D \in SUBSET Level /\ D # {}
  BY <1>2
<1>8. /\ \E d \in DOMAIN bumps : bumps[d] = most
      /\ \A d \in DOMAIN bumps : bumps[d] <= most
      /\ most \in Level
  <2>1. most \in D /\ most \in Level /\ \A x \in D : x <= most
    BY <1>7, LargestLevel
  <2>2. \A d \in DOMAIN bumps : bumps[d] \in D
    OBVIOUS
  <2>3. QED
    BY <2>1, <2>2
<1> HIDE DEF D, most
<1>9. \A x \in Level : x \in Int /\ NONE <= x
  BY DEF Level, NONE, MAJOR
<1>10. ASSUME most < l PROVE \E f \in Named(c) : ~f.nonApi /\ ~Covers(c, f)
  <2>1. l # NONE
    BY <1>3, <1>8, <1>9, <1>10 DEF NONE
  <2>2. PICK f \in Named(c) : ~f.nonApi /\ DiffFile(f).level = l
    BY <1>3, <2>1
  <2>3. ASSUME NEW d \in DOMAIN bumps PROVE ~(bumps[d] >= l)
    BY <1>2, <1>3, <1>8, <1>9, <1>10
  <2>4. QED
    BY <1>5, <2>2, <2>3
<1>11. ASSUME ~(most < l), NEW f \in Named(c), ~f.nonApi PROVE Covers(c, f)
  <2>1. PICK d \in DOMAIN bumps : bumps[d] = most
    BY <1>8
  <2>2. bumps[d] >= DiffFile(f).level
    BY <1>3, <1>6, <1>8, <1>9, <1>11, <2>1
  <2>3. QED
    BY <1>5, <2>2
<1>12. QED
  BY <1>3, <1>4, <1>10, <1>11

\* A change that the fold does not fail is sound, and one that needs a human is
\* said to; whatever the oracle answers on the issues.
LEMMA NotFailedIsSound ==
    ASSUME NEW c \in Change, NEW links, NEW state, NEW status \in Status(c, links, state),
           status # "FAIL"
    PROVE  Sound(c, Named(c)) /\ (NeedsHuman(Named(c)) => status = "NEEDS_HUMAN")
<1>1. PICK v3 \in V3(c, links, state) :
        status = IF "FAIL" \in {V1(c), V2(c), v3, V4(c), V5(c)} THEN "FAIL"
                 ELSE IF "NEEDS_HUMAN" \in {V1(c), V2(c), v3, V4(c), V5(c)} \/ IsRisk(Named(c))
                      THEN "NEEDS_HUMAN" ELSE "PASS"
  BY DEF Status
<1>2. V1(c) # "FAIL" /\ V2(c) # "FAIL" /\ V4(c) # "FAIL" /\ V5(c) # "FAIL"
  BY <1>1
<1>3. c.fragment # Malformed
  BY <1>2 DEF V2
<1>4. \A f \in Named(c) : ~f.nonApi => Covers(c, f)
  BY <1>2, <1>3, V1Is
<1>5. c.globs # "dead" /\ \A f \in Named(c) : c.globs = "live" /\ f.declared
  BY <1>2 DEF V4, Change
<1>6. c.signed /\ \A f \in Named(c) : ~(f.markers /\ f.status # "D")
  BY <1>2 DEF V5
<1>7. Sound(c, Named(c))
  BY <1>3, <1>4, <1>5, <1>6 DEF Sound, Covers
<1>8. ASSUME NeedsHuman(Named(c)) PROVE status = "NEEDS_HUMAN"
  <2>1. IsRisk(Named(c)) \/ V1(c) = "NEEDS_HUMAN"
    BY <1>2, <1>3, <1>8, V1Is DEF NeedsHuman
  <2>2. QED
    BY <1>1, <2>1
<1>9. QED
  BY <1>7, <1>8

\* And what the fold fails is unsound, or an issue of it is said not to be linked
\* or to be neither open nor unknown.
LEMMA FailedIsUnsound ==
    ASSUME NEW c \in Change, NEW links, NEW state, "FAIL" \in Status(c, links, state)
    PROVE  ~Sound(c, Named(c)) \/ \E n \in Issues(c) : ~links[n] \/ state[n] \notin {"open", "unknown"}
<1>1. PICK v3 \in V3(c, links, state) : "FAIL" \in {V1(c), V2(c), v3, V4(c), V5(c)}
  <2>1. PICK v3 \in V3(c, links, state) :
        "FAIL" = IF "FAIL" \in {V1(c), V2(c), v3, V4(c), V5(c)} THEN "FAIL"
                 ELSE IF "NEEDS_HUMAN" \in {V1(c), V2(c), v3, V4(c), V5(c)} \/ IsRisk(Named(c))
                      THEN "NEEDS_HUMAN" ELSE "PASS"
    BY DEF Status
  <2>2. QED
    BY <2>1
<1>2. CASE v3 = "FAIL"
  <2> DEFINE bad == {n \in Issues(c) : ~links[n] \/ state[n] # "open"}
  <2>1. V3(c, links, state) =
          IF bad = {} THEN {"PASS"}
          ELSE {IF links[n] /\ state[n] = "unknown" THEN "NEEDS_HUMAN" ELSE "FAIL" : n \in bad}
    BY DEF V3
  <2>2. PICK n \in bad : "FAIL" = IF links[n] /\ state[n] = "unknown" THEN "NEEDS_HUMAN" ELSE "FAIL"
    BY <1>1, <1>2, <2>1
  <2>3. n \in Issues(c) /\ (~links[n] \/ state[n] # "open") /\ ~(links[n] /\ state[n] = "unknown")
    BY <2>2
  <2>4. QED
    BY <2>3
<1>3. CASE V2(c) = "FAIL"
  BY <1>3 DEF V2, Sound
<1>4. CASE V1(c) = "FAIL" /\ V2(c) # "FAIL"
  <2>1. c.fragment # Malformed
    BY <1>4 DEF V2
  <2>2. PICK f \in Named(c) : ~f.nonApi /\ ~Covers(c, f)
    BY <1>4, <2>1, V1Is
  <2>3. QED
    BY <2>2 DEF Sound, Covers
<1>5. CASE V4(c) = "FAIL"
  BY <1>5 DEF V4, Sound
<1>6. CASE V5(c) = "FAIL"
  BY <1>6 DEF V5, Sound
<1>7. QED
  BY <1>1, <1>2, <1>3, <1>4, <1>5, <1>6

\* What a change closes are issues, whether its trailers or its fragment name them.
LEMMA IssuesOfChange ==
    ASSUME NEW c \in Change
    PROVE  Issues(c) \subseteq Issue
  BY DEF Change, ParsedFragment, Issues

-----------------------------------------------------------------------------
(* The verdict *)

\* What a decision says of the report it is made from, and of what the verifier
\* adds to it.
LEMMA DecisionIs ==
    ASSUME NEW report \in Checked, NEW extra \in {{}, {{FALSE}}, {{TRUE, FALSE}}}
    PROVE  /\ Decision({SuiteVerdict(report)} \cup extra) = "green" =>
                (report = NoText \/ Passes(report)) /\ extra = {}
           /\ Decision({SuiteVerdict(report)} \cup extra) = "red" =>
                Fails(report) \/ extra = {{FALSE}}
<1> DEFINE suite == SuiteVerdict(report)
<1>1. \A S \in SUBSET BOOLEAN : S = {} \/ S = {TRUE} \/ S = {FALSE} \/ S = {TRUE, FALSE}
  OBVIOUS
<1>2. report \notin {NoReport, NoText} =>
        report.deterministic \in BOOLEAN /\ report.reps \in {{TRUE}, {FALSE}, {TRUE, FALSE}}
  BY <1>1 DEF Checked, Report
<1>3. suite = IF report = NoReport THEN {TRUE, FALSE}
              ELSE IF report = NoText THEN {}
              ELSE IF ~report.deterministic THEN {FALSE} ELSE report.reps
  BY DEF SuiteVerdict
<1> HIDE DEF suite
<1>4. /\ Decision({suite} \cup extra) = "green" => suite # {FALSE} /\ suite # {TRUE, FALSE} /\ extra = {}
      /\ Decision({suite} \cup extra) = "red" => suite = {FALSE} \/ extra = {{FALSE}}
  <2>1. \A tests : /\ Decision(tests) = "green" => {FALSE} \notin tests /\ {TRUE, FALSE} \notin tests
                   /\ Decision(tests) = "red" => {FALSE} \in tests
    BY DEF Decision
  <2>2. CASE extra = {}
    BY <2>1, <2>2, Zenon
  <2>3. CASE extra = {{FALSE}}
    <3>1. {FALSE} \in {suite} \cup extra
      BY <2>3
    <3>2. QED
      BY <2>1, <2>3, <3>1
  <2>4. CASE extra = {{TRUE, FALSE}}
    <3>1. {TRUE, FALSE} \in {suite} \cup extra
      BY <2>4
    <3>2. {FALSE} # {TRUE, FALSE}
      OBVIOUS
    <3>3. {FALSE} \in {suite} \cup extra => suite = {FALSE}
      BY <2>4, <3>2
    <3>4. QED
      BY <2>1, <3>1, <3>3
  <2>5. QED
    BY <2>2, <2>3, <2>4
<1>5. CASE report = NoReport
  <2>1. suite = {TRUE, FALSE} /\ {FALSE} # {TRUE, FALSE}
    BY <1>3, <1>5
  <2>2. QED
    BY <1>4, <2>1 DEF suite
<1>6. CASE report = NoText /\ report # NoReport
  <2>1. suite = {} /\ suite # {FALSE}
    BY <1>3, <1>6
  <2>2. QED
    BY <1>4, <1>6, <2>1 DEF suite
<1>7. CASE report \notin {NoReport, NoText} /\ ~report.deterministic
  <2>1. suite = {FALSE} /\ Fails(report)
    BY <1>3, <1>7 DEF Fails
  <2>2. QED
    BY <1>4, <2>1 DEF suite
<1>8. CASE report \notin {NoReport, NoText} /\ report.deterministic
  <2>1. suite = report.reps /\ suite \in {{TRUE}, {FALSE}, {TRUE, FALSE}}
    BY <1>2, <1>3, <1>8
  <2>2. (suite = {TRUE} => Passes(report)) /\ (suite = {FALSE} => Fails(report))
    BY <1>8, <2>1 DEF Passes, Fails
  <2>3. QED
    BY <1>4, <2>1, <2>2 DEF suite
<1>9. QED
  BY <1>5, <1>6, <1>7, <1>8

\* The first of one is that one.
LEMMA FirstOfOne ==
    ASSUME lane \in LaneType, NEW p \in PR
    PROVE  /\ \A ps : p \in ps /\ FirstN(lane, ps, 1) = {p} =>
                \A q \in ps : FirstN(lane, ps, 1) = {q} => q = p
           /\ FirstN(lane, {p}, 1) = {p} /\ First({p}) = p
           /\ Cardinality(UpTo(lane, {p}, p)) = 1
<1>1. lane.rank[p] \in Nat
  BY DEF LaneType
<1>2. UpTo(lane, {p}, p) = {p} /\ Cardinality({p}) = 1
  BY <1>1, FS_Singleton DEF UpTo
<1>3. FirstN(lane, {p}, 1) = {p}
  BY <1>2 DEF FirstN
<1>4. First({p}) = p
  BY <1>3 DEF First
<1>5. QED
  BY <1>2, <1>3, <1>4

\* Under the gates a green verdict clears the PR, and a red one has something
\* against it.
LEMMA GatedVerdict ==
    ASSUME TypeOK, case.wiring = "gated", NEW p \in PR, job.members = {p}, frozen[p] \in Commit,
           NEW fails \in {"none", "links", "state"}, NEW decision \in Decisions(fails)
    PROVE  /\ Reported = frozen[p]
           /\ decision = "green" =>
                Cleared(p) /\ (checks[Reported] = NoText \/ Passes(checks[Reported]))
           /\ decision = "red" => Against(p, fails) # {}
<1> DEFINE h == frozen[p]
           c == ChangeOf(p)
           against == Against(p, fails)
<1>1. First(job.members) = p
  BY FirstOfOne DEF TypeOK
<1>2. Reported = h
  BY <1>1 DEF Reported
<1>3. c \in Change /\ checks[h] \in Checked
  BY AdmissionAssumption DEF TypeOK, ChangeOf
<1>4. PICK status \in Status(c, Links(p, fails), State(fails)) :
        decision = Decision({SuiteVerdict(checks[h])} \cup Overlay(status, h))
  <2>1. Decisions(fails) = {Decision({SuiteVerdict(checks[h])} \cup Overlay(status, h)) :
                              status \in Status(c, Links(p, fails), State(fails))}
    BY <1>1, <1>2 DEF Decisions, ChangeOf
  <2>2. QED
    BY <2>1
<1>5. /\ Overlay(status, h) \in {{}, {{FALSE}}, {{TRUE, FALSE}}}
      /\ Overlay(status, h) = {} =>
           status # "FAIL" /\ (status = "NEEDS_HUMAN" => ApprovalSatisfied(approvals, h))
      /\ Overlay(status, h) = {{FALSE}} => status = "FAIL"
  <2>1. {{FALSE}} # {{TRUE, FALSE}}
    <3>1. {FALSE} # {TRUE, FALSE}
      OBVIOUS
    <3>2. QED
      BY <3>1
  <2>2. QED
    BY <2>1 DEF Overlay
<1>6. /\ Fails(checks[h]) => "tests" \in against
      /\ ~Sound(c, Named(c)) => "content" \in against
      /\ ~(Issues(c) \subseteq open \cap Linked[p]) => "issues" \in against
      /\ fails # "none" => "lookup" \in against
  BY <1>2 DEF Against, Reasons, ChangeOf
<1> DEFINE extra == Overlay(status, h)
<1> HIDE DEF h, c, extra, against
<1>7. /\ decision = "green" => (checks[h] = NoText \/ Passes(checks[h])) /\ extra = {}
      /\ decision = "red" => Fails(checks[h]) \/ extra = {{FALSE}}
  BY <1>3, <1>4, <1>5, DecisionIs DEF extra
<1>8. ASSUME decision = "green" PROVE Cleared(p)
  <2>1. Sound(c, Named(c)) /\ (NeedsHuman(Named(c)) => status = "NEEDS_HUMAN")
    BY <1>3, <1>5, <1>7, <1>8, NotFailedIsSound DEF extra
  <2>2. NeedsHuman(Named(c)) => \E a \in approvals : a.head = h /\ a.type # "agent"
    BY <1>5, <1>7, <1>8, <2>1 DEF extra, ApprovalSatisfied, EligibleApprovers
  <2>3. QED
    BY <2>1, <2>2 DEF Cleared, h, c
<1>9. ASSUME decision = "red" PROVE against # {}
  <2>1. CASE Fails(checks[h]) \/ fails # "none"
    BY <1>6, <2>1
  <2>2. CASE ~Fails(checks[h]) /\ fails = "none"
    <3>1. status = "FAIL"
      BY <1>5, <1>7, <1>9, <2>2 DEF extra
    <3>2. ~Sound(c, Named(c)) \/ \E n \in Issues(c) :
            ~Links(p, fails)[n] \/ State(fails)[n] \notin {"open", "unknown"}
      BY <1>3, <1>4, <3>1, FailedIsUnsound
    <3>3. \A n \in Issues(c) : /\ Links(p, fails)[n] = (n \in Linked[p])
                               /\ State(fails)[n] = IF n \in open THEN "open" ELSE "closed"
      BY <1>3, <2>2, IssuesOfChange DEF Links, State
    <3>4. ~Sound(c, Named(c)) \/ ~(Issues(c) \subseteq open \cap Linked[p])
      BY <3>2, <3>3
    <3>5. QED
      BY <1>6, <3>4
  <2>3. QED
    BY <2>1, <2>2
<1>10. QED
  BY <1>2, <1>7, <1>8, <1>9 DEF h, against

-----------------------------------------------------------------------------
(* The lane *)

\* What each event leaves alone, and what it adds.
LEMMA HeldIs ==
    ASSUME NEW s \in LaneType, NEW ps \in SUBSET PR
    PROVE  /\ Held(s, ps) \in LaneType
           /\ Held(s, ps).rank = s.rank /\ Held(s, ps).done = s.done
           /\ Held(s, ps).ejected = s.ejected /\ Held(s, ps).held = s.held \cup ps
  BY DEF Held, LaneType

\* Aging a batch settles nobody, and moves nobody in the queue.
LEMMA AgedIs ==
    ASSUME NEW s \in LaneType, NEW ps \in SUBSET PR
    PROVE  /\ Aged(s, ps) \in LaneType
           /\ Aged(s, ps).rank = s.rank /\ Aged(s, ps).done = s.done
           /\ Aged(s, ps).ejected = s.ejected /\ Aged(s, ps).held = s.held
<1> DEFINE age == [p \in PR |-> IF p \in ps /\ s.age[p] < ForceSoloK THEN s.age[p] + 1 ELSE s.age[p]]
<1>1. age \in [PR -> Nat]
  BY DEF LaneType
<1>2. Aged(s, ps) = [s EXCEPT !.age = age]
  BY DEF Aged
<1> HIDE DEF age
<1>3. QED
  BY <1>1, <1>2 DEF LaneType

\* Nor does tuning the window.
LEMMA WindowTunedIs ==
    ASSUME NEW s \in LaneType, NEW m \in Int
    PROVE  /\ WindowTuned(s, m) \in LaneType
           /\ WindowTuned(s, m).rank = s.rank /\ WindowTuned(s, m).done = s.done
           /\ WindowTuned(s, m).ejected = s.ejected /\ WindowTuned(s, m).held = s.held
  BY DEF WindowTuned, LaneType

\* An ejection adds its entry, and takes one PR out of the queue.
LEMMA EjectedIs ==
    ASSUME NEW s \in LaneType, NEW p \in PR
    PROVE  LET e == [pr |-> p, why |-> "culprit", kept |-> NoPR]
               t == Ejected(s, p, "culprit", NoPR)
           IN  /\ t \in LaneType /\ t.rank = s.rank /\ t.held = s.held
               /\ t.done = s.done \cup {p} /\ t.ejected = s.ejected \cup {e}
<1> DEFINE es == s.ejected \cup {[pr |-> p, why |-> "culprit", kept |-> NoPR]}
           ds == s.done \cup {p}
<1>1. es \in SUBSET [pr : PR, why : {"culprit"}, kept : {NoPR}] /\ ds \in SUBSET PR
  BY DEF LaneType
<1>2. Ejected(s, p, "culprit", NoPR) = [s EXCEPT !.ejected = es, !.done = ds]
  BY DEF Ejected
<1> DEFINE t == [s EXCEPT !.ejected = es, !.done = ds]
<1> HIDE DEF es, ds
<1>3. /\ t \in LaneType /\ t.rank = s.rank /\ t.held = s.held
      /\ t.done = ds /\ t.ejected = es
  BY <1>1 DEF LaneType
<1>4. QED
  BY <1>2, <1>3 DEF es, ds

\* A land takes its members out of the queue, and ejects nobody.
LEMMA BatchLandedIs ==
    ASSUME NEW s \in LaneType, NEW ps \in SUBSET PR
    PROVE  /\ BatchLanded(s, ps, 0) \in LaneType
           /\ BatchLanded(s, ps, 0).rank = s.rank /\ BatchLanded(s, ps, 0).held = s.held
           /\ BatchLanded(s, ps, 0).ejected = s.ejected
           /\ BatchLanded(s, ps, 0).done = s.done \cup ps
<1> DEFINE fresh == ps \ s.done
           n == Cardinality(fresh)
           left == {j \in s.prepared : j.no # 0}
<1>1. n \in Nat
  <2>1. IsFiniteSet(fresh)
    BY AdmissionAssumption, FS_Subset
  <2>2. QED
    BY <2>1, FS_CardinalityType
<1>2. left = {} /\ s.prepared = {}
  BY DEF LaneType
<1>3. BatchLanded(s, ps, 0) =
        [s EXCEPT !.landed = s.landed \cup fresh, !.done = s.done \cup fresh,
                  !.atRisk = s.atRisk + n, !.prepared = left]
  BY DEF BatchLanded
<1>4. s.done \cup fresh = s.done \cup ps
  OBVIOUS
<1>5. s.landed \cup fresh \in SUBSET PR /\ s.done \cup fresh \in SUBSET PR /\ s.atRisk + n \in Nat
  BY <1>1 DEF LaneType
<1> DEFINE ls == s.landed \cup fresh
           ds == s.done \cup fresh
           k  == s.atRisk + n
           t  == [s EXCEPT !.landed = ls, !.done = ds, !.atRisk = k, !.prepared = {}]
<1>6. BatchLanded(s, ps, 0) = t /\ ds = s.done \cup ps
  BY <1>2, <1>3, <1>4
<1>7. ls \in SUBSET PR /\ ds \in SUBSET PR /\ k \in Nat
  BY <1>5
<1> HIDE DEF fresh, n, left, ls, ds, k
<1>8. /\ t \in LaneType /\ t.rank = s.rank /\ t.held = s.held
      /\ t.ejected = s.ejected /\ t.done = ds
  BY <1>7 DEF LaneType
<1>9. QED
  BY <1>6, <1>8

\* The window stays a number, whether it shrinks or grows.
LEMMA Tuned ==
    ASSUME lane \in LaneType, NEW s \in LaneType, NEW w \in {"tick", "gated"}
    PROVE  /\ Shrunk(s) \in LaneType
           /\ Shrunk(s).rank = s.rank /\ Shrunk(s).done = s.done
           /\ Shrunk(s).ejected = s.ejected /\ Shrunk(s).held = s.held
           /\ Larger(1, Smaller(Budget[w], lane.m + 1)) \in Int
<1>1. lane.m \in Int
  BY DEF LaneType
<1>2. lane.m \div 2 \in Int
  BY <1>1
<1>3. Larger(1, lane.m \div 2) \in Int
  BY <1>2 DEF Larger
<1>4. Larger(1, Smaller(Budget[w], lane.m + 1)) \in Int
  BY <1>1, AdmissionAssumption DEF Larger, Smaller
<1>5. QED
  BY <1>3, <1>4, WindowTunedIs DEF Shrunk

-----------------------------------------------------------------------------
(* What no step takes back *)

Grows ==
    /\ case' = case
    /\ approvals \subseteq approvals' /\ open' \subseteq open
    /\ \A p \in PR : frozen[p] # NoHead => frozen'[p] = frozen[p]

\* Approvals and frozen heads stay, and closed issues stay closed.
LEMMA NextGrows ==
    ASSUME TypeOK, Next
    PROVE  Grows
<1>1. CASE UNCHANGED <<case, approvals, open, frozen>>
  BY <1>1 DEF Grows
<1>2. CASE \E p \in PR : ForcePush(p) \/ Unhold(p)
  BY <1>1, <1>2 DEF ForcePush, Unhold, world
<1>3. CASE \E h \in Commit : PostReport(h) \/ PostNoText(h)
  BY <1>1, <1>3 DEF PostReport, PostNoText, Posted
<1>4. CASE \E a \in case.approvals : Approve(a)
  BY <1>4 DEF Approve, Grows
<1>5. CASE \E n \in Issue : CloseIssue(n)
  BY <1>5 DEF CloseIssue, Grows
<1>6. CASE \E p \in PR : TakeTurn(p)
  <2>1. PICK p \in PR : TakeTurn(p)
    BY <1>6
  <2>2. frozen \in [PR -> Commit \cup {NoHead}]
        /\ frozen' = [frozen EXCEPT ![p] = IF @ = NoHead THEN job.listed[p] ELSE @]
        /\ UNCHANGED <<case, approvals, open>>
    BY <2>1 DEF TakeTurn, TypeOK, world
  <2>3. QED
    BY <2>2 DEF Grows
<1>7. CASE ListPRs \/ JobEnds \/ NoWork \/ FormBatch \/ Advance \/ AlwaysBlocked \/ BlockedOnce
           \/ Retried \/ Kill
  BY <1>1, <1>7 DEF ListPRs, JobEnds, NoWork, FormBatch, Advance, AlwaysBlocked, BlockedOnce,
     HermeticBlocked, Retried, Kill, world
<1>8. CASE \E fails \in {"none", "links", "state"} : Judge(fails) \/ Isolate(fails) \/ Guard(fails)
  BY <1>1, <1>8 DEF Judge, Isolate, Guard, world
<1>9. QED
  BY <1>2, <1>3, <1>4, <1>5, <1>6, <1>7, <1>8 DEF Next, JobStep, Trouble, World

\* What a verdict has established of the PR that froze a head stays so.
LEMMA FactsStay ==
    ASSUME TypeOK, Grows, NEW p \in PR, frozen[p] # NoHead
    PROVE  /\ frozen[p] \in Commit /\ frozen'[p] = frozen[p] /\ ChangeOf(p)' = ChangeOf(p)
           /\ Cleared(p) => Cleared(p)'
<1>1. frozen[p] \in Commit /\ frozen'[p] = frozen[p] /\ ChangeOf(p)' = ChangeOf(p)
  BY DEF TypeOK, Grows, ChangeOf
<1>2. approvals \subseteq approvals'
  BY DEF Grows
<1>3. QED
  BY <1>1, <1>2 DEF Cleared

\* So what has landed, and who is ejected, keeps its grounds.
LEMMA HistoryStays ==
    ASSUME Grows
    PROVE  /\ LandedIsVerified /\ trunk' = trunk => LandedIsVerified'
           /\ JudgedByItsOwnReport /\ trunk' = trunk => JudgedByItsOwnReport'
           /\ EjectedForCause /\ ejections' = ejections /\ lane'.ejected = lane.ejected =>
                EjectedForCause'
<1>1. case' = case /\ approvals \subseteq approvals'
  BY DEF Grows
<1>2. ASSUME LandedIsVerified, trunk' = trunk PROVE LandedIsVerified'
  BY <1>1, <1>2 DEF LandedIsVerified, VerifiedAs
<1>3. ASSUME JudgedByItsOwnReport, trunk' = trunk PROVE JudgedByItsOwnReport'
  BY <1>1, <1>3 DEF JudgedByItsOwnReport
<1>4. ASSUME EjectedForCause, ejections' = ejections, lane'.ejected = lane.ejected
      PROVE  EjectedForCause'
  BY <1>1, <1>4 DEF EjectedForCause
<1>5. QED
  BY <1>2, <1>3, <1>4

-----------------------------------------------------------------------------
(* What a step keeps of the lane, the job and the batch *)

Inner == TypeOK /\ Line /\ Batch /\ Alone /\ Grounds

\* The parts of the type that an event of the lane or a move of the job may touch.
LEMMA TypeStays ==
    ASSUME TypeOK, UNCHANGED <<case, world>>, lane' \in LaneType, job' \in JobType,
           frozen' \in [PR -> Commit \cup {NoHead}], trunk' \in Seq(Landing),
           outages' \in Nat, upset' \in BOOLEAN
    PROVE  TypeOK'
  BY DEF TypeOK, world

\* The order of the queue, when nobody is enqueued.
LEMMA LineStays ==
    ASSUME Line, UNCHANGED frozen, lane'.rank = lane.rank,
           \A e \in lane'.ejected : e \in lane.ejected \/ Queued(e.pr)
    PROVE  Line'
<1>1. \A p : Queued(p)' <=> Queued(p)
  BY DEF Queued
<1>2. {q \in PR : Queued(q)}' = {q \in PR : Queued(q)}
  BY <1>1
<1>3. QED
  BY <1>1, <1>2 DEF Line

\* Between two turns the job has neither a batch nor a verdict.
LEMMA TurnEndsIs ==
    ASSUME TypeOK, TurnEnds
    PROVE  /\ job' \in JobType /\ job'.pc = "turn" /\ job'.listed = job.listed
           /\ ~Ticking' /\ ~Judging' /\ Grounds'
<1>1. /\ job' = [Idle EXCEPT !.pc = "turn", !.listed = job.listed, !.todo = job.todo]
      /\ job.listed \in [PR -> Commit \cup {NoHead}] /\ job.todo \in SUBSET PR
  BY DEF TypeOK, TurnEnds, JobType
<1>2. job' \in JobType /\ job'.pc = "turn" /\ job'.listed = job.listed
  BY <1>1 DEF JobType, Idle, Checked
<1>3. QED
  BY <1>2 DEF Ticking, Judging, Grounds

\* A turn that ends leaves nobody pending, or else the job is upset.
LEMMA EndedTurn ==
    ASSUME Inner, TurnEnds, UNCHANGED <<case, world, frozen>>, lane' \in LaneType,
           lane'.rank = lane.rank, Ticking,
           \A e \in lane'.ejected : e \in lane.ejected \/ Queued(e.pr),
           trunk' \in Seq(Landing), outages' \in Nat, upset' \in BOOLEAN,
           upset' \/ case.wiring = "gated" \/ Pending(lane)' = {}
    PROVE  Inner'
<1>1. /\ job' \in JobType /\ job'.pc = "turn" /\ job'.listed = job.listed
      /\ ~Ticking' /\ ~Judging' /\ Grounds'
  BY TurnEndsIs DEF Inner
<1>2. TypeOK'
  <2>1. frozen' \in [PR -> Commit \cup {NoHead}]
    BY DEF Inner, TypeOK
  <2>2. QED
    BY <1>1, <2>1, TypeStays DEF Inner
<1>3. Line'
  BY LineStays DEF Inner
<1>4. Batch'
  <2>1. job.pc # "off"
    BY DEF Ticking
  <2>2. QED
    BY <1>1, <2>1 DEF Inner, Batch
<1>5. Alone'
  BY <1>1 DEF Alone
<1>6. QED
  BY <1>1, <1>2, <1>3, <1>4, <1>5 DEF Inner

\* The grounds do not depend on more than what stays.
LEMMA GroundsStay ==
    ASSUME Inner, Grows, UNCHANGED job
    PROVE  Grounds'
<1>1. \A p \in job.members : Judging => p \in PR /\ frozen[p] # NoHead
  BY DEF Inner, Batch, Line, Pending, Queued
<1>2. ASSUME job.pc \in {"guard", "advance"}, case.wiring = "gated", NEW p \in job.members
      PROVE  Cleared(p)'
  BY <1>1, <1>2, FactsStay DEF Inner, Grounds, Judging
<1>3. ASSUME job.pc = "advance", case.wiring = "gated", NEW p \in job.members
      PROVE  (Issues(ChangeOf(p)) \subseteq job.seen \cap Linked[p])'
  <2>1. ChangeOf(p)' = ChangeOf(p)
    BY <1>1, <1>3, FactsStay DEF Inner, Judging
  <2>2. QED
    BY <1>3, <2>1 DEF Inner, Grounds
<1>4. /\ job.pc \in {"guard", "advance"} => (job.report = NoText \/ Passes(job.report))'
      /\ job.pc = "isolate" => (job.against # {})'
  BY DEF Inner, Grounds, Passes
<1>5. case' = case
  BY DEF Grows
<1>6. QED
  BY <1>2, <1>3, <1>4, <1>5 DEF Grounds

\* Whatever GitHub and its users do meanwhile.
LEMMA WorldStep ==
    ASSUME Inner, World
    PROVE  Inner' /\ UNCHANGED past /\ lane'.ejected = lane.ejected
<1>1. UNCHANGED <<case, frozen, past, job, outages>>
  BY DEF World, ForcePush, Approve, CloseIssue, PostReport, PostNoText, Posted, Unhold, world,
     budgets
<1>2. lane' \in LaneType /\ lane'.rank = lane.rank /\ lane'.ejected = lane.ejected
      /\ lane'.done = lane.done /\ lane'.held \subseteq lane.held
  <2>1. lane \in LaneType
    BY DEF Inner, TypeOK
  <2>2. lane' = lane \/ \E p \in PR : lane' = [lane EXCEPT !.held = lane.held \ {p}]
    BY DEF World, ForcePush, Approve, CloseIssue, PostReport, PostNoText, Posted, Unhold
  <2>3. CASE lane' = lane
    BY <2>1, <2>3
  <2>4. ASSUME NEW p \in PR, lane' = [lane EXCEPT !.held = lane.held \ {p}]
        PROVE  lane' \in LaneType /\ lane'.rank = lane.rank /\ lane'.ejected = lane.ejected
               /\ lane'.done = lane.done /\ lane'.held = lane.held \ {p}
    BY <2>1, <2>4 DEF LaneType
  <2>5. QED
    BY <2>2, <2>3, <2>4
<1>3. Grows
  BY NextGrows DEF Inner, Next
<1>4. upset' \in BOOLEAN /\ (upset' \/ (UNCHANGED <<lane, upset>>))
  BY DEF Inner, TypeOK, World, ForcePush, Approve, CloseIssue, PostReport, PostNoText, Posted,
     Unhold
<1>5. checks' \in [Commit -> Checked]
  <2>1. checks \in [Commit -> Checked]
    BY DEF Inner, TypeOK
  <2>2. CASE UNCHANGED checks
    BY <2>1, <2>2
  <2>3. ASSUME NEW h \in Commit, PostReport(h) PROVE checks' \in [Commit -> Checked]
    <3>1. PICK det \in (IF h \in Stable THEN {TRUE} ELSE BOOLEAN),
               reps \in UNION {RunReps(h, asked) : asked \in RepsAsked} :
            checks' = [checks EXCEPT ![h] = [deterministic |-> det, reps |-> reps]]
      BY <2>3 DEF PostReport, Posted
    <3>2. det \in BOOLEAN /\ reps \in (SUBSET BOOLEAN) \ {{}}
      <4>1. PICK asked \in RepsAsked : reps \in RunReps(h, asked)
        OBVIOUS
      <4>2. reps \in SUBSET Runs[h] /\ reps # {} /\ Runs[h] \in SUBSET BOOLEAN
        BY <4>1, AdmissionAssumption DEF RunReps
      <4>3. QED
        BY <4>2
    <3>3. [deterministic |-> det, reps |-> reps] \in Checked
      BY <3>2 DEF Checked, Report
    <3>4. QED
      BY <2>1, <3>1, <3>3
  <2>4. ASSUME NEW h \in Commit, PostNoText(h) PROVE checks' \in [Commit -> Checked]
    BY <2>1, <2>4 DEF PostNoText, Posted, Checked
  <2>5. QED
    BY <2>2, <2>3, <2>4 DEF World, ForcePush, Approve, CloseIssue, Unhold, world
<1>6. pushed' \in [PR -> Nat] /\ \A p \in PR : pushed'[p] \in 1..Len(Heads[p])
  <2>1. pushed \in [PR -> Nat] /\ \A p \in PR : pushed[p] \in 1..Len(Heads[p])
    BY DEF Inner, TypeOK
  <2>2. CASE UNCHANGED pushed
    BY <2>1, <2>2
  <2>3. CASE \E p \in PR : ForcePush(p)
    <3>1. PICK p \in PR : pushed[p] < Len(Heads[p]) /\ pushed' = [pushed EXCEPT ![p] = @ + 1]
      BY <2>3 DEF ForcePush
    <3>2. Len(Heads[p]) \in Nat
      BY AdmissionAssumption
    <3>3. pushed[p] + 1 \in 1..Len(Heads[p]) /\ pushed[p] + 1 \in Nat
      BY <2>1, <3>1, <3>2
    <3>4. QED
      BY <2>1, <3>1, <3>3
  <2>4. QED
    BY <2>2, <2>3 DEF World, Approve, CloseIssue, PostReport, PostNoText, Posted, Unhold, world
<1>7. TypeOK'
  <2>1. open' \in SUBSET Issue
    BY <1>3 DEF Inner, TypeOK, Grows
  <2>2. QED
    BY <1>1, <1>2, <1>4, <1>5, <1>6, <2>1 DEF Inner, TypeOK, past
<1>8. Line'
  BY <1>1, <1>2, LineStays DEF Inner
<1>9. Batch'
  <2>1. Pending(lane) \subseteq Pending(lane')
    BY <1>2 DEF Pending
  <2>2. QED
    BY <1>1, <2>1 DEF Inner, Batch, Ticking, Judging
<1>10. Alone'
  BY <1>1, <1>4 DEF Inner, Alone, Ticking
<1>11. Grounds'
  BY <1>1, <1>3, GroundsStay
<1>12. QED
  BY <1>1, <1>2, <1>7, <1>8, <1>9, <1>10, <1>11 DEF Inner

\* A PR that is enqueued for the first time comes last.
LEMMA EnqueuedIs ==
    ASSUME TypeOK, Line, NEW p \in PR,
           lane' = Enqueued(lane, p), NEW h \in Commit,
           frozen' = [frozen EXCEPT ![p] = IF @ = NoHead THEN h ELSE @]
    PROVE  /\ lane' \in LaneType /\ lane'.ejected = lane.ejected /\ Line'
           /\ frozen' \in [PR -> Commit \cup {NoHead}]
           /\ Pending(lane') \subseteq Pending(lane) \cup {p}
           /\ frozen[p] = NoHead => frozen'[p] = h
           /\ frozen[p] # NoHead => Pending(lane') = Pending(lane)
<1> DEFINE Q == {q \in PR : lane.rank[q] # 0}
           n == Cardinality(Q)
<1>1. IsFiniteSet(Q) /\ n \in Nat
  BY AdmissionAssumption, FS_Subset, FS_CardinalityType
<1>2. lane \in LaneType /\ frozen \in [PR -> Commit \cup {NoHead}]
  BY DEF TypeOK
<1>3. frozen' \in [PR -> Commit \cup {NoHead}] /\ (frozen[p] = NoHead => frozen'[p] = h)
  BY <1>2
<1>4. \A q \in PR : frozen'[q] # NoHead <=> frozen[q] # NoHead \/ q = p
  BY <1>2, AdmissionAssumption
<1>5. CASE lane.rank[p] # 0
  <2>1. lane' = lane /\ frozen[p] # NoHead
    BY <1>5 DEF Enqueued, Line, Queued
  <2>2. frozen' = frozen
    BY <1>2, <2>1
  <2>3. Line'
    BY <2>1, <2>2, LineStays
  <2>4. QED
    BY <1>2, <1>3, <2>1, <2>3
<1>6. CASE lane.rank[p] = 0
  <2>1. lane' = [lane EXCEPT !.rank[p] = 1 + n]
    BY <1>6 DEF Enqueued
  <2> DEFINE rank == [lane.rank EXCEPT ![p] = 1 + n]
  <2> HIDE DEF n
  <2>2. rank \in [PR -> Nat] /\ lane' = [lane EXCEPT !.rank = rank]
    BY <1>1, <1>2, <2>1 DEF LaneType
  <2>3. \A q \in PR : rank[q] = IF q = p THEN 1 + n ELSE lane.rank[q]
    BY <1>2 DEF LaneType
  <2> HIDE DEF rank
  <2>4. /\ lane' \in LaneType /\ lane'.rank = rank /\ lane'.ejected = lane.ejected
        /\ lane'.done = lane.done /\ lane'.held = lane.held
    BY <1>2, <2>2 DEF LaneType
  <2>5. \A q \in PR : lane.rank[q] <= n /\ lane.rank[q] \in Nat
    BY <1>2 DEF Line, Queued, n, LaneType
  <2>6. \A q \in PR : Queued(q)' <=> Queued(q) \/ q = p
    BY <1>1, <2>3, <2>4, <2>5 DEF Queued
  <2>7. \A q, r \in PR : Queued(q)' /\ lane'.rank[q] = lane'.rank[r] => q = r
    <3>1. SUFFICES ASSUME NEW q \in PR, NEW r \in PR, rank[q] # 0, rank[q] = rank[r]
                   PROVE  q = r
      BY <2>4 DEF Queued
    <3>2. CASE q = p \/ r = p
      BY <1>1, <2>3, <2>5, <3>1, <3>2
    <3>3. CASE q # p /\ r # p
      BY <2>3, <3>1, <3>3 DEF Line, Queued
    <3>4. QED
      BY <3>2, <3>3
  <2>8. \A q \in PR : lane'.rank[q] <= Cardinality({r \in PR : Queued(r)'})
    <3>1. {r \in PR : Queued(r)'} = Q \cup {p} /\ p \notin Q
      BY <1>6, <2>6 DEF Queued
    <3>2. Cardinality({r \in PR : Queued(r)'}) = n + 1
      BY <1>1, <3>1, FS_AddElement DEF n
    <3>3. \A q \in PR : rank[q] <= n + 1
      BY <1>1, <2>3, <2>5
    <3>4. QED
      BY <2>4, <3>2, <3>3
  <2>9. \A q \in PR : Queued(q)' <=> frozen'[q] # NoHead
    BY <1>4, <2>6 DEF Line
  <2>10. \A e \in lane'.ejected : Queued(e.pr)'
    <3>1. \A e \in lane.ejected : e.pr \in PR /\ Queued(e.pr)
      BY <1>2 DEF LaneType, Line
    <3>2. QED
      BY <2>4, <2>6, <3>1
  <2>11. Line'
    BY <2>7, <2>8, <2>9, <2>10 DEF Line
  <2>12. Pending(lane') \subseteq Pending(lane) \cup {p}
    BY <2>3, <2>4 DEF Pending
  <2>13. frozen[p] = NoHead
    BY <1>6 DEF Line, Queued
  <2>14. QED
    BY <1>3, <2>4, <2>11, <2>12, <2>13
<1>7. QED
  BY <1>5, <1>6

\* The job begins: every head it lists is one that was pushed.
LEMMA ListPRsStep ==
    ASSUME Inner, ListPRs
    PROVE  Inner' /\ UNCHANGED past /\ lane'.ejected = lane.ejected
<1> DEFINE heads == [p \in PR |-> HeadOf(p)]
<1>1. /\ UNCHANGED <<case, world, lane, frozen, past, budgets, upset>> /\ job.pc = "off"
      /\ job' = [Idle EXCEPT !.pc = "turn", !.listed = heads, !.todo = PR]
  BY DEF ListPRs
<1>2. heads \in [PR -> Commit]
  <2>1. ASSUME NEW p \in PR PROVE HeadOf(p) \in Commit
    <3>1. Heads[p] \in Seq(Commit) /\ pushed[p] \in 1..Len(Heads[p])
      BY AdmissionAssumption DEF Inner, TypeOK
    <3>2. QED
      BY <3>1 DEF HeadOf
  <2>2. QED
    BY <2>1
<1> HIDE DEF heads
<1>3. job' \in JobType /\ job'.pc = "turn" /\ job'.listed = heads
  BY <1>1, <1>2 DEF Idle, JobType, Checked
<1>4. TypeOK'
  BY <1>1, <1>3, TypeStays DEF Inner, TypeOK, budgets, past
<1>5. Line'
  BY <1>1, LineStays DEF Inner
<1>6. Batch' /\ Grounds'
  BY <1>2, <1>3 DEF Batch, Grounds, Ticking, Judging
<1>7. Alone'
  BY <1>1, <1>3 DEF Inner, Alone, Ticking
<1>8. QED
  BY <1>1, <1>4, <1>5, <1>6, <1>7 DEF Inner

\* A turn begins: if nobody was pending, now at most the PR whose turn it is.
LEMMA TakeTurnStep ==
    ASSUME Inner, NEW p \in PR, TakeTurn(p)
    PROVE  Inner' /\ UNCHANGED past /\ lane'.ejected = lane.ejected
<1>1. /\ UNCHANGED <<case, world, past, budgets, upset>> /\ job.pc = "turn"
      /\ lane' = Enqueued(lane, p)
      /\ frozen' = [frozen EXCEPT ![p] = IF @ = NoHead THEN job.listed[p] ELSE @]
      /\ job' = [job EXCEPT !.pc = "tick", !.turn = p, !.todo = @ \ {p}]
  BY DEF TakeTurn
<1>2. job.listed[p] \in Commit /\ job \in JobType
  BY <1>1 DEF Inner, Batch, TypeOK
<1>3. job' \in JobType /\ job'.pc = "tick" /\ job'.turn = p /\ job'.listed = job.listed
  BY <1>1, <1>2 DEF JobType
<1>4. /\ lane' \in LaneType /\ lane'.ejected = lane.ejected /\ Line'
      /\ frozen' \in [PR -> Commit \cup {NoHead}]
      /\ Pending(lane') \subseteq Pending(lane) \cup {p}
      /\ frozen[p] = NoHead => frozen'[p] = job.listed[p]
      /\ frozen[p] # NoHead => Pending(lane') = Pending(lane)
  BY <1>1, <1>2, EnqueuedIs DEF Inner
<1>5. TypeOK'
  BY <1>1, <1>3, <1>4, TypeStays DEF Inner, TypeOK, budgets, past
<1>6. Batch' /\ Grounds'
  BY <1>1, <1>3 DEF Inner, Batch, Grounds, Ticking, Judging
<1>7. Alone'
  <2>1. SUFFICES ASSUME case.wiring = "tick", ~upset, NEW q \in Pending(lane')
                 PROVE  q = p /\ frozen'[q] = job.listed[q]
    BY <1>1, <1>3 DEF Alone, Ticking
  <2>2. Pending(lane) = {}
    BY <1>1, <2>1 DEF Inner, Alone, Ticking
  <2>3. QED
    BY <1>4, <2>1, <2>2
<1>8. QED
  BY <1>1, <1>4, <1>5, <1>6, <1>7 DEF Inner

\* Queued PRs have the positions 1, 2, ... among each other, and one each.
LEMMA Positions ==
    ASSUME lane \in LaneType, Line, NEW ps \in SUBSET PR, \A p \in ps : Queued(p)
    PROVE  /\ Cardinality(ps) \in Nat
           /\ \A p \in ps : Cardinality(UpTo(lane, ps, p)) \in 1..Cardinality(ps)
           /\ \A p, q \in ps :
                Cardinality(UpTo(lane, ps, p)) = Cardinality(UpTo(lane, ps, q)) => p = q
           /\ \A i \in 1..Cardinality(ps) : \E p \in ps : Cardinality(UpTo(lane, ps, p)) = i
<1> DEFINE upto(p) == UpTo(lane, ps, p)
           at == [p \in ps |-> Cardinality(upto(p))]
           n == Cardinality(ps)
<1>1. IsFiniteSet(ps) /\ n \in Nat
  BY AdmissionAssumption, FS_Subset, FS_CardinalityType
<1>2. \A p \in ps : lane.rank[p] \in Nat
  BY DEF LaneType
<1>3. \A p \in ps : upto(p) \in SUBSET ps /\ p \in upto(p)
  BY <1>2 DEF UpTo
<1>4. \A p \in ps : IsFiniteSet(upto(p)) /\ Cardinality(upto(p)) \in Nat /\ Cardinality(upto(p)) <= n
  BY <1>1, <1>3, FS_Subset, FS_CardinalityType
<1>5. \A p \in ps : Cardinality(upto(p)) # 0
  BY <1>3, <1>4, FS_EmptySet
<1>6. \A p \in ps : at[p] = Cardinality(upto(p)) /\ at[p] \in 1..n
  BY <1>1, <1>4, <1>5
<1>7. ASSUME NEW p \in ps, NEW q \in ps, lane.rank[p] < lane.rank[q]
      PROVE  Cardinality(upto(p)) # Cardinality(upto(q))
  <2>1. upto(p) \subseteq upto(q) /\ q \notin upto(p)
    BY <1>2, <1>7 DEF UpTo
  <2>2. upto(p) # upto(q)
    BY <1>3, <2>1
  <2>3. QED
    BY <1>4, <2>1, <2>2, FS_Subset
<1>8. ASSUME NEW p \in ps, NEW q \in ps, at[p] = at[q] PROVE p = q
  <2>1. ~(lane.rank[p] < lane.rank[q]) /\ ~(lane.rank[q] < lane.rank[p])
    BY <1>6, <1>7, <1>8
  <2>2. lane.rank[p] = lane.rank[q]
    BY <1>2, <2>1
  <2>3. QED
    BY <2>2 DEF Line
<1>9. IsFiniteSet(1..n) /\ Cardinality(1..n) = n
  BY <1>1, FS_Interval
<1> HIDE DEF at, upto, n
<1>10. at \in [ps -> 1..n]
  BY <1>6 DEF at
<1>11. at \in Injection(ps, 1..n)
  BY <1>8, <1>10 DEF Injection, IsInjective
<1>12. at \in Surjection(ps, 1..n)
  BY <1>9, <1>11, FS_Injection DEF n
<1>13. \A i \in 1..n : \E p \in ps : at[p] = i
  BY <1>12 DEF Surjection
<1>14. QED
  BY <1>1, <1>6, <1>8, <1>13 DEF upto, n

\* So one of them is the first, and belongs to the first n.
LEMMA FirstIs ==
    ASSUME lane \in LaneType, Line, NEW ps \in SUBSET PR, ps # {}, \A p \in ps : Queued(p)
    PROVE  \E p \in ps : /\ FirstN(lane, ps, 1) = {p} /\ First(ps) = p
                         /\ \A n \in Int : n >= 1 => p \in FirstN(lane, ps, n)
<1> DEFINE at(p) == Cardinality(UpTo(lane, ps, p))
<1>1. /\ Cardinality(ps) \in Nat
      /\ \A p \in ps : at(p) \in 1..Cardinality(ps)
      /\ \A p, q \in ps : at(p) = at(q) => p = q
      /\ \A i \in 1..Cardinality(ps) : \E p \in ps : at(p) = i
  BY Positions
<1>2. \A n : FirstN(lane, ps, n) = {p \in ps : at(p) <= n}
  BY DEF FirstN
<1> HIDE DEF at
<1>3. 1 \in 1..Cardinality(ps)
  <2>1. PICK p \in ps : TRUE
    OBVIOUS
  <2>2. at(p) \in 1..Cardinality(ps)
    BY <1>1
  <2>3. QED
    BY <1>1, <2>2
<1>4. PICK p \in ps : at(p) = 1
  BY <1>1, <1>3
<1>5. \A q \in ps : at(q) \in Int /\ 1 <= at(q)
  BY <1>1
<1>6. \A q \in ps : at(q) <= 1 => q = p
  BY <1>1, <1>4, <1>5
<1>7. FirstN(lane, ps, 1) = {p}
  BY <1>2, <1>4, <1>6
<1>8. First(ps) = p
  BY <1>7 DEF First
<1>9. \A n \in Int : n >= 1 => p \in FirstN(lane, ps, n)
  BY <1>2, <1>4
<1>10. QED
  BY <1>7, <1>8, <1>9

\* The batch is of pending PRs, and under the gates of one.
LEMMA FormBatchStep ==
    ASSUME Inner, FormBatch
    PROVE  Inner' /\ UNCHANGED past /\ lane'.ejected = lane.ejected
<1> DEFINE pending == Pending(lane)
           most    == Smaller(Smaller(lane.m, Budget[case.wiring]), Cardinality(pending))
           target  == IF ForcedSolo(lane, First(pending)) THEN 1 ELSE Larger(1, most)
           members == FirstN(lane, pending, target)
<1>1. /\ UNCHANGED <<case, world, lane, frozen, past, budgets, upset>>
      /\ job.pc = "tick" /\ pending # {}
      /\ job' = [job EXCEPT !.pc = "judge", !.members = members]
  BY DEF FormBatch
<1>2. target \in Int /\ target >= 1 /\ (case.wiring = "gated" => target = 1)
  <2>1. Cardinality(pending) \in Nat
    <3>1. IsFiniteSet(pending)
      BY AdmissionAssumption, FS_Subset DEF Pending
    <3>2. QED
      BY <3>1, FS_CardinalityType
  <2>2. case.wiring \in {"tick", "gated"} /\ lane.m \in Int
    BY AdmissionAssumption DEF Inner, TypeOK, LaneType
  <2>3. Budget[case.wiring] \in Nat /\ (case.wiring = "gated" => Budget[case.wiring] = 1)
    BY <2>2, AdmissionAssumption
  <2> HIDE DEF pending
  <2>4. most \in Int /\ (case.wiring = "gated" => most <= 1)
    BY <2>1, <2>2, <2>3 DEF Smaller
  <2> HIDE DEF most
  <2>5. QED
    BY <2>4 DEF Larger
<1>3. /\ members \subseteq pending /\ members # {}
      /\ case.wiring = "gated" => \E p \in PR : members = {p}
  <2>1. pending \subseteq PR /\ \A p \in pending : Queued(p)
    BY DEF Pending, Queued
  <2>2. /\ \E p \in pending : FirstN(lane, pending, 1) = {p}
        /\ \A n \in Int : n >= 1 => FirstN(lane, pending, n) # {}
    <3>1. lane \in LaneType /\ Line /\ pending # {}
      BY <1>1 DEF Inner, TypeOK
    <3> HIDE DEF pending
    <3>2. QED
      BY <2>1, <3>1, FirstIs
  <2> HIDE DEF pending, target
  <2>3. members \subseteq pending
    BY DEF FirstN
  <2>4. QED
    BY <1>2, <2>1, <2>2, <2>3
<1>4. pending \subseteq PR /\ job \in JobType
  BY DEF Pending, Inner, TypeOK
<1> HIDE DEF members, target, most
<1>5. /\ job' \in JobType /\ job'.pc = "judge" /\ job'.members = members
      /\ job'.turn = job.turn /\ job'.listed = job.listed
  BY <1>1, <1>3, <1>4 DEF JobType
<1>6. TypeOK'
  BY <1>1, <1>5, TypeStays DEF Inner, TypeOK, budgets, past
<1>7. Line'
  BY <1>1, LineStays DEF Inner
<1>8. Batch'
  BY <1>1, <1>3, <1>5 DEF Inner, Batch, Ticking, Judging
<1>9. Alone'
  BY <1>1, <1>5 DEF Inner, Alone, Ticking
<1>10. Grounds'
  BY <1>5 DEF Grounds
<1>11. QED
  BY <1>1, <1>6, <1>7, <1>8, <1>9, <1>10 DEF Inner

\* A job that is killed, or has nothing left to do.
LEMMA OffStep ==
    ASSUME Inner, JobEnds \/ Kill
    PROVE  Inner' /\ UNCHANGED past /\ lane'.ejected = lane.ejected
<1>1. /\ UNCHANGED <<case, world, lane, frozen, past, outages>>
      /\ job' = Idle /\ upset' \in BOOLEAN /\ (upset => upset')
      /\ upset' \/ Pending(lane) = {} \/ ~Ticking
  BY DEF JobEnds, Kill, budgets, Inner, TypeOK, Ticking
<1>2. job' \in JobType /\ job'.pc = "off"
  <2>1. [p \in PR |-> NoHead] \in [PR -> Commit \cup {NoHead}]
    OBVIOUS
  <2>2. QED
    BY <1>1, <2>1 DEF Idle, JobType, Checked
<1>3. TypeOK'
  BY <1>1, <1>2, TypeStays DEF Inner, TypeOK, past
<1>4. Line'
  BY <1>1, LineStays DEF Inner
<1>5. Batch' /\ Grounds'
  BY <1>2 DEF Batch, Grounds, Ticking, Judging
<1>6. Alone'
  BY <1>1, <1>2 DEF Inner, Alone, Ticking
<1>7. QED
  BY <1>1, <1>3, <1>4, <1>5, <1>6 DEF Inner

\* A tick that finds nothing to do, whose lockfiles are blocked, or whose land has to
\* be tried again.
LEMMA IdleTurnStep ==
    ASSUME Inner, NoWork \/ AlwaysBlocked \/ BlockedOnce \/ Retried
    PROVE  Inner' /\ UNCHANGED past /\ lane'.ejected = lane.ejected
<1>1. /\ UNCHANGED <<case, world, frozen, past, outages>> /\ Ticking /\ TurnEnds
      /\ upset' \in BOOLEAN /\ (upset' \/ Pending(lane) = {})
  BY DEF NoWork, AlwaysBlocked, BlockedOnce, HermeticBlocked, Retried, budgets, Inner, TypeOK,
     Ticking
<1>2. lane \in LaneType
  BY DEF Inner, TypeOK
<1>3. /\ lane' \in LaneType /\ lane'.rank = lane.rank /\ lane'.done = lane.done
      /\ lane'.ejected = lane.ejected /\ lane'.held = lane.held
  <2>1. lane' = lane \/ lane' = Held(lane, {})
    BY DEF NoWork, AlwaysBlocked, BlockedOnce, HermeticBlocked, Retried
  <2>2. lane.held \cup {} = lane.held /\ {} \in SUBSET PR
    OBVIOUS
  <2>3. /\ Held(lane, {}) \in LaneType
        /\ Held(lane, {}).rank = lane.rank /\ Held(lane, {}).done = lane.done
        /\ Held(lane, {}).ejected = lane.ejected /\ Held(lane, {}).held = lane.held
    BY <1>2, <2>2, HeldIs
  <2>4. QED
    BY <1>2, <2>1, <2>3
<1>4. Pending(lane') = Pending(lane)
  BY <1>3 DEF Pending
<1>5. trunk' \in Seq(Landing) /\ outages' \in Nat
  BY <1>1 DEF Inner, TypeOK, past
<1>6. upset' \/ case.wiring = "gated" \/ Pending(lane') = {}
  BY <1>1, <1>4
<1>7. Inner'
  BY <1>1, <1>3, <1>5, <1>6, EndedTurn
<1>8. QED
  BY <1>1, <1>3, <1>7

-----------------------------------------------------------------------------
(* The verdict on the batch, and what becomes of it *)

\* Under the tick job the verdict is about the report of the head that was listed.
LEMMA TickVerdict ==
    ASSUME TypeOK, case.wiring = "tick", job.listed[job.turn] \in Commit,
           NEW p, NEW fails, NEW decision \in Decisions(fails)
    PROVE  /\ Reported = job.listed[job.turn]
           /\ decision = "green" => checks[Reported] = NoText \/ Passes(checks[Reported])
           /\ decision = "red" => Against(p, fails) # {}
<1> DEFINE h == Reported
           suite == SuiteVerdict(checks[h])
<1>1. h = job.listed[job.turn]
  BY DEF Reported
<1>2. decision = Decision({suite})
  BY DEF Decisions
<1>3. Fails(checks[h]) => "tests" \in Against(p, fails)
  BY DEF Against, Reasons
<1> HIDE DEF h
<1>4. checks[h] \in Checked
  BY <1>1 DEF TypeOK
<1>5. {suite} \cup {} = {suite} /\ {{FALSE}} # {}
  OBVIOUS
<1>6. LET extra == {}
      IN  /\ Decision({suite} \cup extra) = "green" =>
               checks[h] = NoText \/ Passes(checks[h])
          /\ Decision({suite} \cup extra) = "red" => Fails(checks[h]) \/ extra = {{FALSE}}
  BY <1>4, DecisionIs
<1>7. QED
  BY <1>1, <1>2, <1>3, <1>5, <1>6 DEF h

\* Whose turn it is has been listed, and what is in the batch is pending.
LEMMA InBatch ==
    ASSUME Inner, Judging
    PROVE  /\ job.turn \in PR /\ job.listed[job.turn] \in Commit /\ Ticking
           /\ job.members \in SUBSET PR /\ job.members # {}
           /\ case.wiring \in {"tick", "gated"} /\ lane \in LaneType
           /\ \A p \in job.members : Queued(p) /\ frozen[p] \in Commit /\ frozen[p] # NoHead
           /\ case.wiring = "gated" => \E p \in PR : job.members = {p} /\ First(job.members) = p
           /\ First(job.members) \in job.members
           /\ case.wiring = "tick" /\ ~upset =>
                /\ Pending(lane) = {job.turn} /\ job.members = {job.turn}
                /\ First(job.members) = job.turn
                /\ frozen[job.turn] = job.listed[job.turn]
<1>1. Ticking /\ job.turn \in PR /\ job.listed[job.turn] \in Commit
  BY DEF Inner, Batch, Judging, Ticking
<1>2. /\ case.wiring \in {"tick", "gated"} /\ lane \in LaneType
      /\ frozen \in [PR -> Commit \cup {NoHead}]
  BY AdmissionAssumption DEF Inner, TypeOK
<1>3. /\ job.members # {} /\ job.members \subseteq Pending(lane)
      /\ case.wiring = "gated" => \E p \in PR : job.members = {p}
  BY DEF Inner, Batch
<1>4. job.members \in SUBSET PR /\ \A p \in job.members : Queued(p)
  BY <1>3 DEF Pending, Queued
<1>5. \A p \in job.members : frozen[p] \in Commit /\ frozen[p] # NoHead
  BY <1>2, <1>4 DEF Inner, Line
<1>6. First(job.members) \in job.members
  BY <1>2, <1>3, <1>4, FirstIs DEF Inner
<1>7. ASSUME case.wiring = "tick", ~upset
      PROVE  /\ Pending(lane) = {job.turn} /\ job.members = {job.turn}
             /\ First(job.members) = job.turn
             /\ frozen[job.turn] = job.listed[job.turn]
  <2>1. \A p \in Pending(lane) : p = job.turn /\ frozen[p] = job.listed[p]
    BY <1>1, <1>7 DEF Inner, Alone
  <2>2. QED
    BY <1>3, <1>6, <2>1
<1>8. ASSUME case.wiring = "gated"
      PROVE  \E p \in PR : job.members = {p} /\ First(job.members) = p
  BY <1>3, <1>6, <1>8
<1>9. QED
  BY <1>1, <1>2, <1>3, <1>4, <1>5, <1>6, <1>7, <1>8

\* A lookup that fails is counted.
LEMMA OutageIs ==
    ASSUME TypeOK, NEW fails, Outage(fails)
    PROVE  outages' \in Nat
  BY DEF TypeOK, Outage

\* The verdict: green gives the batch its grounds, red the suspicion.
LEMMA JudgeStep ==
    ASSUME Inner, Grows, NEW fails \in {"none", "links", "state"}, Judge(fails)
    PROVE  Inner' /\ UNCHANGED past /\ lane'.ejected = lane.ejected
<1>1. /\ UNCHANGED <<case, world, frozen, past, upset>> /\ job.pc = "judge" /\ Outage(fails)
  BY DEF Judge
<1>2. PICK decision \in Decisions(fails) :
        \/ /\ decision = "green"
           /\ job' = [job EXCEPT !.pc = IF case.wiring = "gated" THEN "guard" ELSE "advance",
                                 !.report = checks[Reported]]
           /\ UNCHANGED lane
        \/ /\ decision = "hold"
           /\ lane' = Held(Shrunk(Aged(lane, job.members)), job.members)
           /\ TurnEnds
        \/ /\ decision = "red"
           /\ lane' = Shrunk(Aged(lane, job.members))
           /\ job' = [job EXCEPT !.pc = "isolate",
                                 !.against = Against(First(job.members), fails)]
  BY DEF Judge
<1>3. Judging /\ Ticking
  BY <1>1 DEF Judging, Ticking
<1>4. /\ job.turn \in PR /\ job.listed[job.turn] \in Commit /\ Ticking
      /\ job.members \in SUBSET PR /\ job.members # {}
      /\ case.wiring \in {"tick", "gated"} /\ lane \in LaneType
      /\ \A p \in job.members : Queued(p) /\ frozen[p] \in Commit /\ frozen[p] # NoHead
      /\ case.wiring = "gated" => \E p \in PR : job.members = {p} /\ First(job.members) = p
      /\ case.wiring = "tick" /\ ~upset => Pending(lane) = {job.turn} /\ job.members = {job.turn}
  BY <1>3, InBatch
<1>5. outages' \in Nat
  BY <1>1, OutageIs DEF Inner
<1>6. job \in JobType /\ trunk' \in Seq(Landing) /\ upset' \in BOOLEAN
      /\ frozen' \in [PR -> Commit \cup {NoHead}]
  BY <1>1 DEF Inner, TypeOK, past
<1> DEFINE aged == Shrunk(Aged(lane, job.members))
<1>7. /\ aged \in LaneType /\ aged.rank = lane.rank /\ aged.done = lane.done
      /\ aged.ejected = lane.ejected /\ aged.held = lane.held
  <2>1. /\ Aged(lane, job.members) \in LaneType /\ Aged(lane, job.members).rank = lane.rank
        /\ Aged(lane, job.members).done = lane.done
        /\ Aged(lane, job.members).ejected = lane.ejected
        /\ Aged(lane, job.members).held = lane.held
    BY <1>4, AgedIs
  <2> HIDE DEF aged
  <2>2. QED
    BY <1>4, <2>1, Tuned DEF aged
<1> HIDE DEF aged
<1>8. CASE /\ decision = "hold"
           /\ lane' = Held(aged, job.members)
           /\ TurnEnds
  <2>1. /\ lane' \in LaneType /\ lane'.rank = lane.rank /\ lane'.done = lane.done
        /\ lane'.ejected = lane.ejected /\ lane'.held = lane.held \cup job.members
    BY <1>4, <1>7, <1>8, HeldIs
  <2>2. Pending(lane') = Pending(lane) \ job.members
    BY <2>1 DEF Pending
  <2>3. upset' \/ case.wiring = "gated" \/ Pending(lane') = {}
    BY <1>1, <1>4, <2>2
  <2>4. Inner'
    BY <1>1, <1>4, <1>5, <1>6, <1>8, <2>1, <2>3, EndedTurn
  <2>5. QED
    BY <1>1, <2>1, <2>4
<1>9. CASE decision \in {"green", "red"}
  <2>1. /\ lane' \in LaneType /\ lane'.rank = lane.rank /\ lane'.done = lane.done
        /\ lane'.ejected = lane.ejected /\ lane'.held = lane.held
    BY <1>2, <1>4, <1>7, <1>9 DEF aged
  <2>2. Pending(lane') = Pending(lane)
    BY <2>1 DEF Pending
  <2>3. /\ job' \in JobType /\ job'.turn = job.turn /\ job'.listed = job.listed
        /\ job'.members = job.members
        /\ job'.pc = IF decision = "red" THEN "isolate"
                     ELSE IF case.wiring = "gated" THEN "guard" ELSE "advance"
        /\ decision = "green" => job'.report = checks[Reported]
        /\ decision = "red" => job'.against = Against(First(job.members), fails)
    <3>1. Reported \in Commit /\ checks[Reported] \in Checked
      BY <1>3, <1>4, InBatch DEF Reported, Inner, TypeOK
    <3>2. Against(First(job.members), fails) \in SUBSET Reasons
      BY DEF Against
    <3>3. CASE decision = "green"
      BY <1>2, <1>6, <3>1, <3>3 DEF JobType
    <3>4. CASE decision = "red"
      BY <1>2, <1>6, <3>2, <3>4 DEF JobType
    <3>5. QED
      BY <1>9, <3>3, <3>4
  <2>4. Judging' /\ Ticking'
    BY <2>3 DEF Judging, Ticking
  <2>5. TypeOK'
    BY <1>1, <1>5, <1>6, <2>1, <2>3, TypeStays DEF Inner
  <2>6. Line'
    BY <1>1, <2>1, LineStays DEF Inner
  <2>7. Batch'
    BY <1>1, <1>3, <1>4, <2>2, <2>3, <2>4 DEF Inner, Batch
  <2>8. Alone'
    BY <1>1, <1>3, <2>2, <2>3, <2>4 DEF Inner, Alone
  <2>9. Grounds'
    <3>1. /\ decision = "green" =>
               /\ checks[Reported] = NoText \/ Passes(checks[Reported])
               /\ case.wiring = "gated" => \A p \in job.members : Cleared(p)
          /\ decision = "red" => Against(First(job.members), fails) # {}
      <4>1. CASE case.wiring = "tick"
        BY <1>4, <4>1, TickVerdict DEF Inner
      <4>2. CASE case.wiring = "gated"
        <5>1. PICK p \in PR : job.members = {p} /\ First(job.members) = p
          BY <1>4, <4>2
        <5>2. frozen[p] \in Commit
          BY <1>4, <5>1
        <5>3. QED
          BY <4>2, <5>1, <5>2, GatedVerdict DEF Inner
      <4>3. QED
        BY <1>4, <4>1, <4>2
    <3>2. \A p \in job.members : Cleared(p) => Cleared(p)'
      BY <1>4, FactsStay DEF Inner
    <3>3. case' = case
      BY <1>1
    <3>4. CASE decision = "green"
      <4>1. /\ job'.report = NoText \/ Passes(job'.report)
            /\ case.wiring = "gated" => \A p \in job'.members : Cleared(p)'
            /\ job'.pc = IF case.wiring = "gated" THEN "guard" ELSE "advance"
        BY <2>3, <3>1, <3>2, <3>4
      <4>2. QED
        BY <3>3, <4>1 DEF Grounds, Passes
    <3>5. CASE decision = "red"
      BY <2>3, <3>1, <3>5 DEF Grounds
    <3>6. QED
      BY <1>9, <3>4, <3>5
  <2>10. QED
    BY <1>1, <2>1, <2>5, <2>6, <2>7, <2>8, <2>9 DEF Inner
<1>10. QED
  BY <1>2, <1>8, <1>9 DEF aged

\* The guard: it lets the batch pass only with all its issues linked and open.
LEMMA GuardStep ==
    ASSUME Inner, Grows, NEW fails \in {"none", "links", "state"}, Guard(fails)
    PROVE  Inner' /\ UNCHANGED past /\ lane'.ejected = lane.ejected
<1> DEFINE first == First(job.members)
           ok == RecheckAtLand(Issues(case.content[frozen[first]]), Links(first, fails), State(fails))
<1>1. /\ UNCHANGED <<case, world, frozen, past, upset>> /\ job.pc = "guard" /\ Outage(fails)
      /\ IF ok
         THEN job' = [job EXCEPT !.pc = "advance", !.seen = open] /\ UNCHANGED lane
         ELSE lane' = Shrunk(Held(lane, job.members)) /\ TurnEnds
  BY DEF Guard
<1>2. Judging /\ Ticking /\ case.wiring = "gated"
  BY <1>1 DEF Judging, Ticking, Inner, Batch
<1>3. PICK p \in PR :
        /\ job.members \in SUBSET PR /\ lane \in LaneType /\ first = p
        /\ job.members = {p} /\ frozen[p] \in Commit /\ frozen[p] # NoHead
  BY <1>2, InBatch
<1>4. outages' \in Nat
  BY <1>1, OutageIs DEF Inner, TypeOK
<1>5. job \in JobType /\ trunk' \in Seq(Landing) /\ upset' \in BOOLEAN
      /\ frozen' \in [PR -> Commit \cup {NoHead}] /\ open \in SUBSET Issue
  BY <1>1 DEF Inner, TypeOK, past
<1>6. CASE ~ok
  <2>1. /\ Held(lane, job.members) \in LaneType /\ Held(lane, job.members).rank = lane.rank
        /\ Held(lane, job.members).ejected = lane.ejected
    BY <1>3, HeldIs
  <2>2. lane' = Shrunk(Held(lane, job.members)) /\ TurnEnds
    BY <1>1, <1>6
  <2>3. lane' \in LaneType /\ lane'.rank = lane.rank /\ lane'.ejected = lane.ejected
    BY <1>2, <1>3, <2>1, <2>2, Tuned
  <2>4. Inner'
    BY <1>1, <1>2, <1>4, <1>5, <2>2, <2>3, EndedTurn
  <2>5. QED
    BY <1>1, <2>3, <2>4
<1>7. CASE ok
  <2>1. job' = [job EXCEPT !.pc = "advance", !.seen = open] /\ UNCHANGED lane
    BY <1>1, <1>7
  <2>2. /\ job' \in JobType /\ job'.pc = "advance" /\ job'.members = job.members
        /\ job'.seen = open /\ job'.turn = job.turn /\ job'.listed = job.listed
        /\ job'.report = job.report
    BY <1>5, <2>1 DEF JobType
  <2>3. Issues(ChangeOf(p)) \subseteq open \cap Linked[p]
    <3>1. ChangeOf(p) \in Change
      BY <1>3, AdmissionAssumption DEF Inner, TypeOK, ChangeOf
    <3>2. \A n \in Issues(ChangeOf(p)) : Links(p, fails)[n] /\ State(fails)[n] = "open"
      BY <1>3, <1>7 DEF RecheckAtLand, ChangeOf
    <3>3. ASSUME NEW n \in Issues(ChangeOf(p)) PROVE n \in open /\ n \in Linked[p]
      <4>1. n \in Issue
        BY <3>1, IssuesOfChange
      <4>2. Links(p, fails)[n] => n \in Linked[p]
        BY <4>1 DEF Links
      <4>3. State(fails)[n] = "open" => n \in open
        BY <4>1 DEF State
      <4>4. QED
        BY <3>2, <4>2, <4>3
    <3>4. QED
      BY <3>3
  <2>4. TypeOK'
    BY <1>1, <1>3, <1>4, <1>5, <2>1, <2>2, TypeStays DEF Inner
  <2>5. Line'
    BY <1>1, <2>1, LineStays DEF Inner
  <2>6. Batch' /\ Alone'
    BY <1>1, <1>2, <2>1, <2>2 DEF Inner, Batch, Alone, Judging, Ticking
  <2>7. Grounds'
    <3>1. Cleared(p) /\ (job.report = NoText \/ Passes(job.report))
      BY <1>1, <1>2, <1>3 DEF Inner, Grounds
    <3>2. Cleared(p)' /\ ChangeOf(p)' = ChangeOf(p)
      BY <1>3, <3>1, FactsStay DEF Inner
    <3>3. \A q \in job'.members : q = p
      BY <1>3, <2>2
    <3>4. (Issues(ChangeOf(p)) \subseteq job.seen \cap Linked[p])'
      BY <2>2, <2>3, <3>2
    <3>5. case'.wiring = "gated"
      BY <1>1, <1>2
    <3>6. job'.report = NoText \/ Passes(job'.report)
      BY <2>2, <3>1
    <3>7. QED
      BY <2>2, <3>2, <3>3, <3>4, <3>5, <3>6 DEF Grounds, Passes
  <2>8. QED
    BY <1>1, <2>1, <2>4, <2>5, <2>6, <2>7 DEF Inner
<1>8. QED
  BY <1>6, <1>7

\* Whoever is ejected is so for a cause: the first verdict had something against it,
\* and so has the second.
LEMMA IsolateStep ==
    ASSUME Inner, Grows, EjectedForCause, NEW fails \in {"none", "links", "state"}, Isolate(fails)
    PROVE  Inner' /\ trunk' = trunk /\ EjectedForCause'
<1>1. /\ UNCHANGED <<case, world, frozen, trunk, upset>> /\ job.pc = "isolate"
      /\ Outage(fails) /\ TurnEnds
  BY DEF Isolate
<1>2. PICK decision \in Decisions(fails) :
        IF decision = "red"
        THEN /\ lane' = Ejected(lane, First(job.members), "culprit", NoPR)
             /\ ejections' = ejections \cup {Ejection(First(job.members), fails)}
        ELSE lane' = Held(lane, {First(job.members)}) /\ UNCHANGED ejections
  BY DEF Isolate
<1>3. Judging /\ Ticking
  BY <1>1 DEF Judging, Ticking
<1>4. PICK p \in PR :
        /\ job.listed[job.turn] \in Commit /\ case.wiring \in {"tick", "gated"}
        /\ lane \in LaneType /\ First(job.members) = p /\ p \in job.members
        /\ Queued(p) /\ frozen[p] \in Commit /\ frozen[p] # NoHead
        /\ case.wiring = "gated" => job.members = {p}
        /\ case.wiring = "tick" /\ ~upset =>
             Pending(lane) = {p} /\ p = job.turn /\ frozen[p] = job.listed[job.turn]
  BY <1>3, InBatch
<1>5. outages' \in Nat
  BY <1>1, OutageIs DEF Inner
<1>6. trunk' \in Seq(Landing) /\ upset' \in BOOLEAN
  BY <1>1 DEF Inner, TypeOK
<1> DEFINE new == [pr |-> p, why |-> "culprit", kept |-> NoPR]
<1>7. /\ lane' \in LaneType /\ lane'.rank = lane.rank
      /\ Pending(lane') = Pending(lane) \ {p}
      /\ lane'.ejected = IF decision = "red" THEN lane.ejected \cup {new} ELSE lane.ejected
  <2>1. CASE decision = "red"
    <3>1. /\ lane' \in LaneType /\ lane'.rank = lane.rank /\ lane'.held = lane.held
          /\ lane'.done = lane.done \cup {p} /\ lane'.ejected = lane.ejected \cup {new}
      BY <1>2, <1>4, <2>1, EjectedIs
    <3>2. Pending(lane') = Pending(lane) \ {p}
      BY <3>1 DEF Pending
    <3>3. QED
      BY <2>1, <3>1, <3>2
  <2>2. CASE decision # "red"
    <3>1. /\ lane' \in LaneType /\ lane'.rank = lane.rank /\ lane'.done = lane.done
          /\ lane'.ejected = lane.ejected /\ lane'.held = lane.held \cup {p}
      <4>1. {p} \in SUBSET PR /\ lane' = Held(lane, {p})
        BY <1>2, <1>4, <2>2
      <4>2. QED
        BY <1>4, <4>1, HeldIs
    <3>2. Pending(lane') = Pending(lane) \ {p}
      BY <3>1 DEF Pending
    <3>3. QED
      BY <2>2, <3>1, <3>2
  <2>3. QED
    BY <2>1, <2>2
<1>8. upset' \/ case.wiring = "gated" \/ Pending(lane') = {}
  BY <1>1, <1>4, <1>7
<1>9. \A e \in lane'.ejected : e \in lane.ejected \/ Queued(e.pr)
  BY <1>4, <1>7
<1>10. Inner'
  BY <1>1, <1>3, <1>5, <1>6, <1>7, <1>8, <1>9, EndedTurn
<1> DEFINE why == Ejection(p, fails)
<1>11. ASSUME decision = "red"
       PROVE  /\ why.pr = p /\ why.first # {} /\ why.second # {}
              /\ ~why.own => case.wiring = "tick" /\ why.upset
  <2>1. /\ why.pr = p /\ why.first = job.against /\ why.second = Against(p, fails)
        /\ why.own = (Reported = frozen[p]) /\ why.upset = upset
    BY DEF Ejection
  <2>2. job.against # {}
    BY <1>1 DEF Inner, Grounds
  <2>3. CASE case.wiring = "tick"
    <3>1. Reported = job.listed[job.turn] /\ Against(p, fails) # {}
      BY <1>4, <1>11, <2>3, TickVerdict DEF Inner
    <3>2. upset \/ Reported = frozen[p]
      BY <1>4, <2>3, <3>1
    <3>3. QED
      BY <2>1, <2>2, <2>3, <3>1, <3>2
  <2>4. CASE case.wiring = "gated"
    <3>1. Reported = frozen[p] /\ Against(p, fails) # {}
      BY <1>4, <1>11, <2>4, GatedVerdict DEF Inner
    <3>2. QED
      BY <2>1, <2>2, <3>1
  <2>5. QED
    BY <1>4, <2>3, <2>4
<1>12. EjectedForCause'
  <2>1. case' = case /\ ejections \subseteq ejections'
        /\ (decision = "red" => why \in ejections')
    BY <1>1, <1>2, <1>4
  <2> HIDE DEF why
  <2>2. ASSUME NEW e \in lane.ejected
        PROVE  \E g \in ejections' :
                  /\ g.pr = e.pr /\ g.first # {} /\ g.second # {}
                  /\ ~g.own => case'.wiring = "tick" /\ g.upset
    BY <2>1 DEF EjectedForCause
  <2>3. ASSUME decision = "red"
        PROVE  \E g \in ejections' :
                  /\ g.pr = new.pr /\ g.first # {} /\ g.second # {}
                  /\ ~g.own => case'.wiring = "tick" /\ g.upset
    <3>1. new.pr = p
      OBVIOUS
    <3> HIDE DEF new
    <3>2. QED
      BY <1>11, <2>1, <2>3, <3>1
  <2>4. QED
    BY <1>7, <2>2, <2>3 DEF EjectedForCause
<1>13. QED
  BY <1>1, <1>10, <1>12

\* What lands has its grounds by then: the verdict and the guard have given them.
LEMMA AdvanceStep ==
    ASSUME Inner, Grows, LandedIsVerified, JudgedByItsOwnReport, Advance
    PROVE  /\ Inner' /\ LandedIsVerified' /\ JudgedByItsOwnReport'
           /\ UNCHANGED ejections /\ lane'.ejected = lane.ejected
<1> DEFINE n         == Cardinality(job.members)
           landed(p) == [pr |-> p, head |-> frozen[p], by |-> Reported,
                         report |-> job.report, seen |-> job.seen, upset |-> upset]
           member(i) == CHOOSE p \in job.members :
                            Cardinality(UpTo(lane, job.members, p)) = i
           inOrder   == [i \in 1..n |-> landed(member(i))]
           grown     == Larger(1, Smaller(Budget[case.wiring], lane.m + 1))
<1>1. /\ UNCHANGED <<case, world, frozen, ejections, outages, upset>> /\ job.pc = "advance"
      /\ trunk' = trunk \o inOrder /\ TurnEnds
      /\ lane' = WindowTuned(BatchLanded(lane, job.members, 0), grown)
  BY DEF Advance, budgets
<1>2. Judging /\ Ticking
  BY <1>1 DEF Judging, Ticking
<1>3. /\ job.turn \in PR /\ job.listed[job.turn] \in Commit
      /\ job.members \in SUBSET PR /\ First(job.members) \in job.members
      /\ case.wiring \in {"tick", "gated"} /\ lane \in LaneType
      /\ \A p \in job.members : Queued(p) /\ frozen[p] \in Commit /\ frozen[p] # NoHead
      /\ case.wiring = "gated" => \E p \in PR : job.members = {p} /\ First(job.members) = p
      /\ case.wiring = "tick" /\ ~upset =>
           /\ Pending(lane) = {job.turn} /\ job.members = {job.turn}
           /\ frozen[job.turn] = job.listed[job.turn]
  BY <1>2, InBatch
<1>4. /\ trunk \in Seq(Landing) /\ job.report \in Checked
      /\ job.seen \in SUBSET Issue /\ upset \in BOOLEAN /\ outages \in Nat
  BY DEF Inner, TypeOK, JobType
<1>5. n \in Nat /\ \A i \in 1..n : member(i) \in job.members
  BY <1>3, Positions DEF Inner
<1>6. Reported \in Commit
  BY <1>3, <1>4 DEF Reported
<1>7. \A p \in job.members : landed(p) \in Landing
  BY <1>3, <1>4, <1>6 DEF Landing
<1>8. inOrder \in Seq(Landing) /\ Len(inOrder) = n
      /\ \A i \in 1..n : \E p \in job.members : inOrder[i] = landed(p)
  <2> HIDE DEF n, landed, member
  <2>1. inOrder \in [1..n -> Landing]
    BY <1>5, <1>7
  <2>2. QED
    BY <1>5, <2>1
<1> HIDE DEF inOrder, n
<1>9. /\ trunk' \in Seq(Landing)
      /\ \A i \in DOMAIN trunk' :
            \/ i \in DOMAIN trunk /\ trunk'[i] = trunk[i]
            \/ \E p \in job.members : trunk'[i] = landed(p)
  <2> HIDE DEF landed, member
  <2>1. Len(trunk) \in Nat /\ DOMAIN trunk = 1..Len(trunk)
    BY <1>4
  <2>2. ASSUME NEW i \in 1..(Len(trunk) + n)
        PROVE  \/ i \in DOMAIN trunk /\ trunk'[i] = trunk[i]
               \/ \E p \in job.members : trunk'[i] = landed(p)
    <3>1. CASE i <= Len(trunk)
      BY <1>1, <1>4, <1>8, <2>1, <3>1
    <3>2. CASE i > Len(trunk)
      <4>1. i - Len(trunk) \in 1..n /\ trunk'[i] = inOrder[i - Len(trunk)]
        BY <1>1, <1>4, <1>5, <1>8, <2>1, <3>2
      <4>2. QED
        BY <1>8, <4>1
    <3>3. QED
      BY <2>1, <3>1, <3>2
  <2>3. trunk' \in Seq(Landing) /\ DOMAIN trunk' = 1..(Len(trunk) + n)
    <3>1. trunk \in Seq(Landing) /\ inOrder \in Seq(Landing) /\ trunk' = trunk \o inOrder
      BY <1>1, <1>4, <1>8
    <3>2. trunk' \in Seq(Landing) /\ Len(trunk') = Len(trunk) + Len(inOrder)
      BY <3>1
    <3>3. DOMAIN trunk' = 1..Len(trunk')
      BY <3>2
    <3>4. QED
      BY <1>8, <3>2, <3>3
  <2>4. QED
    BY <2>2, <2>3
<1>10. /\ lane' \in LaneType /\ lane'.rank = lane.rank /\ lane'.held = lane.held
       /\ lane'.ejected = lane.ejected /\ lane'.done = lane.done \cup job.members
  <2>1. /\ BatchLanded(lane, job.members, 0) \in LaneType
        /\ BatchLanded(lane, job.members, 0).rank = lane.rank
        /\ BatchLanded(lane, job.members, 0).held = lane.held
        /\ BatchLanded(lane, job.members, 0).ejected = lane.ejected
        /\ BatchLanded(lane, job.members, 0).done = lane.done \cup job.members
    BY <1>3, BatchLandedIs
  <2>2. grown \in Int
    BY <1>3, Tuned
  <2> HIDE DEF grown
  <2>3. QED
    BY <1>1, <2>1, <2>2, WindowTunedIs
<1>11. upset' \/ case.wiring = "gated" \/ Pending(lane') = {}
  <2>1. Pending(lane') = Pending(lane) \ job.members
    BY <1>10 DEF Pending
  <2>2. QED
    BY <1>1, <1>3, <2>1
<1>12. Inner'
  BY <1>1, <1>2, <1>4, <1>9, <1>10, <1>11, EndedTurn
<1>13. LandedIsVerified'
  <2>1. SUFFICES ASSUME case.wiring = "gated", NEW i \in DOMAIN trunk'
                 PROVE  VerifiedAs(trunk'[i], Named(case.content[trunk'[i].head]))
    <3>1. UNCHANGED <<case, approvals>>
      BY <1>1 DEF world
    <3>2. QED
      BY <3>1 DEF LandedIsVerified, VerifiedAs
  <2>2. CASE i \in DOMAIN trunk /\ trunk'[i] = trunk[i]
    BY <2>1, <2>2 DEF LandedIsVerified
  <2>3. ASSUME NEW p \in job.members, trunk'[i] = landed(p)
        PROVE  VerifiedAs(trunk'[i], Named(case.content[trunk'[i].head]))
    <3>1. Cleared(p) /\ Issues(ChangeOf(p)) \subseteq job.seen \cap Linked[p]
      BY <1>1, <2>1 DEF Inner, Grounds
    <3>2. trunk'[i].head = frozen[p] /\ trunk'[i].pr = p /\ trunk'[i].seen = job.seen
      BY <2>3
    <3>3. QED
      BY <3>1, <3>2 DEF Cleared, ChangeOf, VerifiedAs
  <2>4. QED
    BY <1>9, <2>2, <2>3
<1>14. JudgedByItsOwnReport'
  <2>1. SUFFICES ASSUME NEW i \in DOMAIN trunk', case.wiring = "gated" \/ ~trunk'[i].upset
                 PROVE  LET e == trunk'[i]
                        IN  e.by = e.head /\ (e.report = NoText \/ Passes(e.report))
    BY <1>1 DEF JudgedByItsOwnReport
  <2>2. CASE i \in DOMAIN trunk /\ trunk'[i] = trunk[i]
    BY <2>1, <2>2 DEF JudgedByItsOwnReport
  <2>3. ASSUME NEW p \in job.members, trunk'[i] = landed(p)
        PROVE  LET e == trunk'[i]
               IN  e.by = e.head /\ (e.report = NoText \/ Passes(e.report))
    <3>1. /\ trunk'[i].head = frozen[p] /\ trunk'[i].by = Reported
          /\ trunk'[i].report = job.report /\ trunk'[i].upset = upset
      BY <2>3
    <3>2. job.report = NoText \/ Passes(job.report)
      BY <1>1 DEF Inner, Grounds
    <3>3. CASE case.wiring = "gated"
      <4>1. Reported = frozen[p]
        BY <1>3, <3>3 DEF Reported
      <4>2. QED
        BY <3>1, <3>2, <4>1
    <3>4. CASE case.wiring = "tick" /\ ~upset
      <4>1. p = job.turn /\ frozen[p] = job.listed[job.turn] /\ Reported = frozen[p]
        BY <1>3, <3>4 DEF Reported
      <4>2. QED
        BY <3>1, <3>2, <4>1
    <3>5. QED
      BY <1>3, <2>1, <3>1, <3>3, <3>4
  <2>4. QED
    BY <1>9, <2>2, <2>3
<1>15. QED
  BY <1>1, <1>10, <1>12, <1>13, <1>14

-----------------------------------------------------------------------------
(* The invariant holds initially, and every step preserves it *)

\* Nothing is queued, landed or ejected at first.
LEMMA InitIInv ==
    ASSUME Init
    PROVE  IInv
<1>1. /\ case \in Cases /\ pushed = [p \in PR |-> 1] /\ checks = [h \in Commit |-> NoReport]
      /\ open = UNION {Issues(case.content[h]) : h \in Commit}
      /\ lane = EmptyLane /\ frozen = [p \in PR |-> NoHead] /\ trunk = <<>> /\ job = Idle
      /\ outages = 0 /\ upset = FALSE
  BY DEF Init
<1>2. \A p \in PR : pushed[p] \in 1..Len(Heads[p])
  <2>1. ASSUME NEW p \in PR PROVE 1 \in 1..Len(Heads[p])
    <3>1. Heads[p] \in Seq(Commit) /\ Heads[p] # <<>>
      BY AdmissionAssumption
    <3>2. QED
      BY <3>1
  <2>2. QED
    BY <1>1, <2>1
<1>3. open \in SUBSET Issue
  <2>1. \A h \in Commit : case.content[h] \in Change
    BY <1>1, AdmissionAssumption
  <2>2. \A h \in Commit : Issues(case.content[h]) \subseteq Issue
    BY <2>1, IssuesOfChange
  <2>3. QED
    BY <1>1, <2>2
<1>4. lane \in LaneType
  BY <1>1 DEF EmptyLane, LaneType
<1>5. job \in JobType /\ job.pc = "off"
  <2>1. [p \in PR |-> NoHead] \in [PR -> Commit \cup {NoHead}]
    OBVIOUS
  <2>2. QED
    BY <1>1, <2>1 DEF Idle, JobType, Checked
<1>6. TypeOK
  <2>1. checks \in [Commit -> Checked] /\ pushed \in [PR -> Nat]
        /\ frozen \in [PR -> Commit \cup {NoHead}] /\ trunk \in Seq(Landing)
    BY <1>1 DEF Checked
  <2>2. QED
    BY <1>1, <1>2, <1>3, <1>4, <1>5, <2>1 DEF TypeOK
<1>7. \A p \in PR : ~Queued(p) /\ lane.rank[p] = 0 /\ frozen[p] = NoHead
  BY <1>1 DEF EmptyLane, Queued
<1>8. Line
  <2>1. {q \in PR : Queued(q)} = {}
    BY <1>7
  <2>2. Cardinality({q \in PR : Queued(q)}) = 0
    BY <2>1, FS_EmptySet
  <2>3. lane.ejected = {}
    BY <1>1 DEF EmptyLane
  <2>4. QED
    BY <1>7, <2>2, <2>3 DEF Line
<1>9. Batch /\ Alone /\ Grounds
  <2>1. Pending(lane) = {}
    BY <1>7 DEF Pending
  <2>2. QED
    BY <1>5, <2>1 DEF Batch, Alone, Grounds, Ticking, Judging
<1>10. LandedIsVerified /\ JudgedByItsOwnReport /\ EjectedForCause
  <2>1. DOMAIN trunk = {} /\ lane.ejected = {}
    BY <1>1 DEF EmptyLane
  <2>2. QED
    BY <2>1 DEF LandedIsVerified, JudgedByItsOwnReport, EjectedForCause
<1>11. QED
  BY <1>6, <1>8, <1>9, <1>10 DEF IInv

\* Every step of the job, every trouble and every move of the world preserves it.
LEMMA NextIInv ==
    ASSUME IInv, [Next]_vars
    PROVE  IInv'
<1>1. Inner /\ LandedIsVerified /\ JudgedByItsOwnReport /\ EjectedForCause
  BY DEF IInv, Inner
<1>2. CASE UNCHANGED vars
  <2>1. UNCHANGED <<case, pushed, checks, approvals, open, lane, frozen, trunk, ejections,
                    job, outages, trouble, unholds, reruns, upset>>
    BY <1>2 DEF vars
  <2>2. TypeOK' /\ Line' /\ Batch' /\ Alone'
    BY <1>1, <2>1 DEF Inner, TypeOK, Line, Queued, Batch, Alone, Ticking, Judging
  <2>3. Grounds'
    BY <1>1, <2>1 DEF Inner, Grounds, Cleared, Passes, ChangeOf
  <2>4. LandedIsVerified' /\ JudgedByItsOwnReport' /\ EjectedForCause'
    BY <1>1, <2>1 DEF LandedIsVerified, VerifiedAs, JudgedByItsOwnReport, EjectedForCause
  <2>5. QED
    BY <2>2, <2>3, <2>4 DEF IInv
<1>3. CASE Next
  <2>1. Grows
    BY <1>1, <1>3, NextGrows DEF Inner
  <2>2. ASSUME Inner', UNCHANGED past, lane'.ejected = lane.ejected
        PROVE  IInv'
    <3>1. LandedIsVerified' /\ JudgedByItsOwnReport' /\ EjectedForCause'
      BY <1>1, <2>1, <2>2, HistoryStays DEF past
    <3>2. QED
      BY <2>2, <3>1 DEF IInv, Inner
  <2>3. CASE World
    BY <1>1, <2>2, <2>3, WorldStep
  <2>4. CASE ListPRs
    BY <1>1, <2>2, <2>4, ListPRsStep
  <2>5. CASE \E p \in PR : TakeTurn(p)
    BY <1>1, <2>2, <2>5, TakeTurnStep
  <2>6. CASE FormBatch
    BY <1>1, <2>2, <2>6, FormBatchStep
  <2>7. CASE JobEnds \/ Kill
    BY <1>1, <2>2, <2>7, OffStep
  <2>8. CASE NoWork \/ AlwaysBlocked \/ BlockedOnce \/ Retried
    BY <1>1, <2>2, <2>8, IdleTurnStep
  <2>9. CASE \E fails \in {"none", "links", "state"} : Judge(fails)
    BY <1>1, <2>1, <2>2, <2>9, JudgeStep
  <2>10. CASE \E fails \in {"none", "links", "state"} : Guard(fails)
    BY <1>1, <2>1, <2>2, <2>10, GuardStep
  <2>11. CASE \E fails \in {"none", "links", "state"} : Isolate(fails)
    <3>1. Inner' /\ trunk' = trunk /\ EjectedForCause'
      BY <1>1, <2>1, <2>11, IsolateStep
    <3>2. LandedIsVerified' /\ JudgedByItsOwnReport'
      BY <1>1, <2>1, <3>1, HistoryStays
    <3>3. QED
      BY <3>1, <3>2 DEF IInv, Inner
  <2>12. CASE Advance
    <3>1. /\ Inner' /\ LandedIsVerified' /\ JudgedByItsOwnReport'
          /\ UNCHANGED ejections /\ lane'.ejected = lane.ejected
      BY <1>1, <2>1, <2>12, AdvanceStep
    <3>2. EjectedForCause'
      BY <1>1, <2>1, <3>1, HistoryStays
    <3>3. QED
      BY <3>1, <3>2 DEF IInv, Inner
  <2>13. QED
    BY <1>3, <2>3, <2>4, <2>5, <2>6, <2>7, <2>8, <2>9, <2>10, <2>11, <2>12
       DEF Next, JobStep, Trouble
<1>4. QED
  BY <1>2, <1>3

\* So it holds in every behaviour.
LEMMA AlwaysIInv == Spec => []IInv
<1>1. QED
  BY InitIInv, NextIInv, PTL DEF Spec

-----------------------------------------------------------------------------
(* The theorems *)

\* Whatever is pushed, posted, approved, closed, killed or fails, the job holds heads
\* of its PRs, a batch that is pending, and a report in which some repetition ran, or
\* one without a text; and the lane queues PRs in the order of their first enqueues (tick_runner.py:67-91,
\* reducer.py:138-168, hermetic_test.py:56-59).
THEOREM TypeCorrect == Spec => [](TypeOK /\ Line /\ Batch)
<1>1. IInv => TypeOK /\ Line /\ Batch
  BY DEF IInv
<1>2. QED
  BY <1>1, AlwaysIInv, PTL

\* For any PRs and heads, and changes of any files: under the gates what lands is what
\* the verifier would not fail, of all files but the old paths of renames, has the
\* approval that these need of the very head that lands, and closes issues that were
\* open and linked when the guard looked (verifier.py:67-131, gitutil.py:164-174,
\* advisory.py:69-96, issues.py:84-95, land.py:62-66).
THEOREM OnlyVerifiedLands == Spec => []LandedIsVerified
<1>1. IInv => LandedIsVerified
  BY DEF IInv
<1>2. QED
  BY <1>1, AlwaysIInv, PTL

\* For any reports, in any order and replaced at any time: what lands has been judged
\* by a report of its own head that passed, or had no text, under the tick job as long
\* as nothing has left a PR pending; of no more PRs than call for a barrier, for no
\* barrier then runs (tick_runner.py:80-89, ci_verdict.py:30-51, batch_engine.py:86).
THEOREM LandsOnItsOwnReport == Spec => []JudgedByItsOwnReport
<1>1. IInv => JudgedByItsOwnReport
  BY DEF IInv
<1>2. QED
  BY <1>1, AlwaysIInv, PTL

\* For any change, any reports and any lookups that fail: who is ejected had something
\* against it in each of two verdicts, its tests, its content, its issues or a lookup
\* that failed in that very verdict; and the tests were its own, except under the tick
\* job once something has left a PR pending (issues.py:74-81, batch_engine.py:104-147,
\* tick_runner.py:80-89).
THEOREM EjectionsHaveCause == Spec => []EjectedForCause
<1>1. IInv => EjectedForCause
  BY DEF IInv
<1>2. QED
  BY <1>1, AlwaysIInv, PTL
=============================================================================
