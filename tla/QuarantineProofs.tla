-------------------------- MODULE QuarantineProofs --------------------------
(***************************************************************************)
(* Flaky-quarantine for any PRs, hotfixes, tests, races, repetitions and   *)
(* batch sizes, with jobs that are killed anywhere.                        *)
(*                                                                         *)
(* What lands and who is blamed is proved where every fetch finds its      *)
(* report (NoneMissing): the run QuarantineNoReport shows what happens     *)
(* where it does not.  That races are not masked takes one thing more,     *)
(* that humans who push to trunk break no test for good.                   *)
(***************************************************************************)
EXTENDS Quarantine, FiniteSetTheorems, TLAPS

NoneMissing == ~MayBePending

\* No test fails on the empty trunk, and none fails in every run because of a hotfix.
HotfixesBreakNothing ==
    \A t \in Test :
        /\ {} \notin FailsOn[t]
        /\ \A T \in SUBSET Change, h \in Hotfix :
               T \cup {h} \in FailsOn[t] => T \in FailsOn[t]

(***************************************************************************)
(* Runs                                                                    *)
(***************************************************************************)

\* A deterministic failure is a failure or a race of the tree, an unresolved test a
\* race of it, and a test that fails in every run is seen to fail.
LEMMA RunFacts ==
    ASSUME NEW tr, NEW r \in Runs(tr)
    PROVE  /\ r.of = tr /\ DOMAIN r.per = Test
           /\ \A t \in DetFail(r) : t \in Test /\ tr \in FailsOn[t] \cup RacesOn[t]
           /\ \A t \in Unresolved(r) : t \in Test /\ tr \in RacesOn[t]
           /\ \A t \in Test : tr \in FailsOn[t] => t \in DetFail(r)
           /\ \A t \in Test : /\ r.per[t].pass \in Nat /\ r.per[t].fail \in Nat
                              /\ r.per[t].fail > 0 => tr \in FailsOn[t] \cup RacesOn[t]
<1>1. PICK f \in [Test -> 0..Reps] :
          /\ \A t \in Test : f[t] \in Passes(t, tr)
          /\ r = [of |-> tr, per |-> [t \in Test |-> [pass |-> f[t], fail |-> Reps - f[t]]]]
    BY DEF Runs
<1>2. Reps \in Nat /\ Reps > 0
    BY QuarantineAssumption
<1>3. \A t \in Test : r.per[t].pass = f[t] /\ r.per[t].fail = Reps - f[t]
    BY <1>1
<1>4. \A t \in Test : /\ f[t] \in 0..Reps
                      /\ tr \in FailsOn[t] => f[t] = 0
                      /\ tr \notin FailsOn[t] \cup RacesOn[t] => f[t] = Reps
    BY <1>1 DEF Passes
<1>5. r.of = tr /\ DOMAIN r.per = Test
    BY <1>1
<1>6. \A t \in Test : tr \in FailsOn[t] => tr \notin RacesOn[t]
    BY QuarantineAssumption
<1>7. \A t \in DetFail(r) : t \in Test /\ tr \in FailsOn[t] \cup RacesOn[t]
    BY <1>2, <1>3, <1>4, <1>5 DEF DetFail
<1>8. \A t \in Unresolved(r) : t \in Test /\ tr \in RacesOn[t]
    BY <1>2, <1>3, <1>4, <1>5 DEF Unresolved
<1>9. \A t \in Test : tr \in FailsOn[t] => t \in DetFail(r)
    BY <1>2, <1>3, <1>4, <1>5 DEF DetFail
<1>10. \A t \in Test : /\ r.per[t].pass \in Nat /\ r.per[t].fail \in Nat
                       /\ r.per[t].fail > 0 => tr \in FailsOn[t] \cup RacesOn[t]
    BY <1>2, <1>3, <1>4
<1>11. QED
    BY <1>5, <1>7, <1>8, <1>9, <1>10

LEMMA ReportsAreRuns == ASSUME NoneMissing, NEW tr PROVE Reports(tr) = Runs(tr)
    BY DEF NoneMissing, Reports

\* What each decision says of the report it is made on.
LEMMA DecideFacts ==
    ASSUME NEW r, NEW f
    PROVE  /\ Decide(r, f) \in {"red", "green", "hold"}
           /\ Decide(r, f) = "green" => DetFail(r) = {} /\ Unexcused(r, f) = {}
           /\ Decide(r, f) = "hold" => DetFail(r) = {} /\ Unexcused(r, f) # {}
           /\ Decide(r, f) = "red" => DetFail(r) # {} \/ Unresolved(r) # {}
<1>1. Unexcused(r, f) \subseteq Unresolved(r)
    BY DEF Unexcused
<1>2. QED
    BY <1>1 DEF Decide

(***************************************************************************)
(* Types                                                                   *)
(***************************************************************************)

LEMMA ReportCounts ==
    ASSUME NEW tr, NEW r \in Reports(tr), NEW t \in DOMAIN r.per
    PROVE  r.per[t] \in [Outcome -> Nat]
<1>1. CASE r \in Runs(tr)
  <2>1. PICK f \in [Test -> 0..Reps] :
            r = [of |-> tr, per |-> [u \in Test |-> [pass |-> f[u], fail |-> Reps - f[u]]]]
    BY <1>1 DEF Runs
  <2>2. t \in Test /\ r.per[t] = [pass |-> f[t], fail |-> Reps - f[t]]
    BY <2>1
  <2>3. f[t] \in Nat /\ Reps - f[t] \in Nat
    BY <2>1, <2>2, QuarantineAssumption
  <2>4. QED
    BY <2>2, <2>3 DEF Outcome
<1>2. CASE r = Absent(tr)
  <2>1. t = CI /\ r.per[t] = [pass |-> 1, fail |-> 1]
    BY <1>2 DEF Absent
  <2>2. QED
    BY <2>1 DEF Outcome
<1>3. QED
    BY <1>1, <1>2 DEF Reports

LEMMA TypesInit == Init => TypeOK
<1> SUFFICES ASSUME Init PROVE TypeOK
    OBVIOUS
<1>1. None \in [Outcome -> 0..NObs]
    BY QuarantineAssumption DEF None
<1>2. pa \in Evidence /\ seen \in Evidence /\ todo \in [TestId -> [Outcome -> Nat]]
    BY <1>1 DEF Init, Evidence
<1>3. QED
    BY <1>2 DEF Init, TypeOK

LEMMA Counted ==
    ASSUME NEW f \in Evidence, NEW t \in TestId, NEW o \in Outcome
    PROVE  /\ Observed(f, t, o) \in Evidence
           /\ \A u \in TestId : Observed(f, t, o)[u].fail > 0
                                    => f[u].fail > 0 \/ (u = t /\ o = "fail")
<1>1. NObs \in Nat
    BY QuarantineAssumption
<1> DEFINE n == IF f[t][o] < NObs THEN f[t][o] + 1 ELSE f[t][o]
           g == [f[t] EXCEPT ![o] = n]
<1>2. f[t] \in [Outcome -> 0..NObs] /\ f[t][o] \in 0..NObs
    BY DEF Evidence
<1>3. n \in 0..NObs
    BY <1>1, <1>2
<1>4. Observed(f, t, o) = [f EXCEPT ![t] = g]
    BY DEF Observed
<1> HIDE DEF n
<1>5. g \in [Outcome -> 0..NObs] /\ (o # "fail" => g.fail = f[t].fail)
    BY <1>2, <1>3 DEF Outcome
<1> HIDE DEF g
<1>6. QED
    BY <1>4, <1>5 DEF Evidence

LEMMA Owed ==
    ASSUME NEW f \in [TestId -> [Outcome -> Nat]], NEW t \in TestId, NEW o \in Outcome,
           f[t][o] > 0, NEW g, g = [f EXCEPT ![t][o] = f[t][o] - 1]
    PROVE  /\ g \in [TestId -> [Outcome -> Nat]]
           /\ \A u \in TestId : g[u].fail > 0 => f[u].fail > 0
<1> DEFINE n == f[t][o] - 1
           h == [f[t] EXCEPT ![o] = n]
<1>1. n \in Nat
    OBVIOUS
<1>2. g = [f EXCEPT ![t] = h]
    OBVIOUS
<1> HIDE DEF n
<1>3. h \in [Outcome -> Nat] /\ (o # "fail" => h.fail = f[t].fail)
    BY <1>1 DEF Outcome
<1> HIDE DEF h
<1>4. QED
    BY <1>2, <1>3 DEF Outcome

\* The working state of a job that has ended.
LEMMA Finished ==
    ASSUME Finish
    PROVE  /\ pc' = "idle" /\ base' = {} /\ batch' = {} /\ judged' = {}
           /\ seen' = [t \in TestId |-> None] /\ seen' \in Evidence
           /\ todo' = [t \in TestId |-> None] /\ todo' \in [TestId -> [Outcome -> Nat]]
<1>1. None \in [Outcome -> 0..NObs] /\ None \in [Outcome -> Nat]
    BY QuarantineAssumption DEF None
<1>2. QED
    BY <1>1 DEF Finish, Evidence

LEMMA BlamedTypes ==
    ASSUME TypeOK, NEW p \in PR
    PROVE  Judged(p) \in Blamed
    BY DEF TypeOK, Judged, Blamed

\* A rejection changes the queue, and who is held or ejected.
LEMMA RejectTypes ==
    ASSUME TypeOK, Finish, UNCHANGED <<tree, pa>>,
           (\E prs \in SUBSET PR : Hold(prs)) \/ (\E p \in PR : Eject(p))
    PROVE  TypeOK'
<1>1. /\ queue' \in SUBSET PR /\ UNCHANGED <<since, atRisk>>
      /\ held' \subseteq Blamed /\ ejected' \subseteq Blamed
  <2>1. CASE \E prs \in SUBSET PR : Hold(prs)
    BY <2>1, BlamedTypes DEF TypeOK, Hold
  <2>2. CASE \E p \in PR : Eject(p)
    BY <2>2, BlamedTypes DEF TypeOK, Eject
  <2>3. QED
    BY <2>1, <2>2
<1>2. QED
    BY <1>1, Finished DEF TypeOK

LEMMA TypesNext == TypeOK /\ [Next]_vars => TypeOK'
<1> SUFFICES ASSUME TypeOK, [Next]_vars PROVE TypeOK'
    OBVIOUS
<1>a. IsFiniteSet(PR)
    BY QuarantineAssumption
<1>b. \A S \in SUBSET PR : Cardinality(S) \in Nat
    BY <1>a, FS_Subset, FS_CardinalityType
<1>1. ASSUME NEW p \in PR, Enqueue(p) PROVE TypeOK'
  <2>1. {q \in PR : since[q] > 0} \in SUBSET PR
    OBVIOUS
  <2>2. Cardinality({q \in PR : since[q] > 0}) + 1 \in Nat
    BY <1>b, <2>1
  <2>3. QED
    BY <1>1, <2>2 DEF Enqueue, TypeOK, job
<1>2. ASSUME NEW h \in Hotfix, PushHotfix(h) PROVE TypeOK'
    BY <1>2 DEF PushHotfix, TypeOK, lanes, job, Change
<1>3. CASE TickRead
    BY <1>3 DEF TickRead, TypeOK, lanes, history
<1>4. CASE TickReadTrunk
    BY <1>4 DEF TickReadTrunk, TypeOK, lanes
<1>5. CASE BarrierRun
  <2>1. \A t \in DOMAIN report'.per : report'.per[t] \in [Outcome -> Nat]
    BY <1>5, ReportCounts DEF BarrierRun
  <2>2. None \in [Outcome -> Nat]
    BY DEF None
  <2>3. todo' \in [TestId -> [Outcome -> Nat]]
    BY <1>5, <2>1, <2>2 DEF BarrierRun
  <2>4. QED
    BY <1>5, <2>3 DEF BarrierRun, TypeOK, lanes
<1>6. CASE Feed
  <2>1. PICK t \in TestId, o \in Outcome :
            /\ todo[t][o] > 0
            /\ todo' = [todo EXCEPT ![t][o] = todo[t][o] - 1]
            /\ pa' = Observed(pa, t, o)
    BY <1>6 DEF Feed, Outcome
  <2>2. todo' \in [TestId -> [Outcome -> Nat]]
    BY <2>1, Owed DEF TypeOK
  <2>3. pa' \in Evidence
    BY <2>1, Counted DEF TypeOK
  <2>4. QED
    BY <1>6, <2>2, <2>3 DEF Feed, TypeOK, lanes
<1>7. CASE BarrierFails
    BY <1>7, Finished DEF BarrierFails, TypeOK, lanes
<1>8. CASE BarrierPasses
    BY <1>8 DEF BarrierPasses, TypeOK
<1>9. CASE Judge
  <2>1. pc' \in {"red", "green", "hold"}
    BY <1>9, DecideFacts DEF Judge
  <2>2. batch' \in SUBSET PR
    BY <1>9 DEF Judge, TypeOK
  <2>3. QED
    BY <1>9, <2>1, <2>2 DEF Judge, TypeOK, lanes
<1>10. CASE HoldBatch
    BY <1>10, RejectTypes DEF HoldBatch, TypeOK
<1>11. CASE LandBatch
    BY <1>11, <1>b, Finished DEF LandBatch, TypeOK, Change
<1>12. CASE LandRetried
    BY <1>12, Finished DEF LandRetried, TypeOK, lanes
<1>13. CASE Isolate
    BY <1>13 DEF Isolate, TypeOK, lanes
<1>14. CASE Unisolated
    BY <1>14, RejectTypes DEF Unisolated, TypeOK
<1>15. ASSUME NEW p \in PR, JudgeAlone(p) PROVE TypeOK'
  <2>1. p \in batch /\ UNCHANGED <<tree, pa>>
    BY <1>15 DEF JudgeAlone, IsFirst
  <2>2. CASE Finish
    <3>1. Eject(p) \/ Hold({p}) \/ UNCHANGED pc
      BY <1>15 DEF JudgeAlone
    <3>2. pc = "alone" /\ pc' = "idle"
      BY <1>15, <2>2 DEF JudgeAlone, Finish
    <3>3. QED
      BY <2>1, <2>2, <3>1, <3>2, RejectTypes
  <2>3. CASE ~Finish
    <3>1. judged' = judged \cup {p} /\ UNCHANGED <<lanes, pc, seen, base, batch, report, todo>>
      BY <1>15, <2>3 DEF JudgeAlone
    <3>2. QED
      BY <2>1, <3>1 DEF TypeOK, lanes
  <2>4. QED
    BY <2>2, <2>3
<1>16. ASSUME NEW p \in PR, NobodyAlone(p) PROVE TypeOK'
    BY <1>16 DEF NobodyAlone, IsFirst, TypeOK, lanes
<1>17. ASSUME NEW p \in PR, JudgePrefix(p) PROVE TypeOK'
  <2>1. p \in batch /\ UNCHANGED <<tree, pa>>
    BY <1>17 DEF JudgePrefix, IsFirst
  <2>2. CASE Finish
    <3>1. Eject(p) \/ UNCHANGED pc
      BY <1>17 DEF JudgePrefix
    <3>2. pc = "prefix" /\ pc' = "idle"
      BY <1>17, <2>2 DEF JudgePrefix, Finish
    <3>3. QED
      BY <2>1, <2>2, <3>1, <3>2, RejectTypes
  <2>3. CASE ~Finish
    <3>1. judged' = judged \cup {p} /\ UNCHANGED <<lanes, pc, seen, base, batch, report, todo>>
      BY <1>17, <2>3 DEF JudgePrefix
    <3>2. QED
      BY <2>1, <3>1 DEF TypeOK, lanes
  <2>4. QED
    BY <2>2, <2>3
<1>18. CASE Crash
    BY <1>18, Finished DEF Crash, TypeOK, lanes
<1>19. CASE UNCHANGED vars
    BY <1>19 DEF vars, lanes, job, TypeOK
<1>20. QED
    BY <1>1, <1>2, <1>3, <1>4, <1>5, <1>6, <1>7, <1>8, <1>9, <1>10, <1>11, <1>12, <1>13,
       <1>14, <1>15, <1>16, <1>17, <1>18, <1>19 DEF Next, Tick

(***************************************************************************)
(* Blame                                                                   *)
(***************************************************************************)

AfterVerdict == {"green", "hold", "red", "alone", "prefix"}

\* The report of a batch that has been judged, and what isolation has ruled out.
Judging ==
    /\ pc \in AfterVerdict => batch \subseteq queue /\ report \in Runs(base \cup batch)
    /\ pc = "green" => DetFail(report) = {} /\ Unexcused(report, seen) = {}
    /\ pc = "hold" => Unexcused(report, seen) # {}
    /\ pc \in {"red", "alone", "prefix"} => DetFail(report) # {} \/ Unresolved(report) # {}
    /\ pc = "alone" => \A p \in judged, t \in Test : base \cup {p} \notin FailsOn[t]
    /\ pc = "prefix" => /\ judged \subseteq batch
                        /\ \A t \in Test : base \cup judged \notin FailsOn[t]

BlameInv == TypeOK /\ Judging /\ BrokenNeverLands /\ BlameJustified

RaceBehind(e) == \E t \in Test, qs \in SUBSET e.in : e.of \cup qs \cup {e.pr} \in RacesOn[t]
FaultBehind(e) ==
    \E t \in Test, qs \in SUBSET e.in : e.of \cup qs \cup {e.pr} \in FailsOn[t] \cup RacesOn[t]

\* A job that ends without landing, and rejects only whom it may.
LEMMA EndsJustly ==
    ASSUME BlameInv, TypeOK', Finish, UNCHANGED lands,
           \A e \in held' \ held : RaceBehind(e),
           \A e \in ejected' \ ejected : FaultBehind(e)
    PROVE  BlameInv'
<1>1. Judging'
    BY Finished DEF Judging, AfterVerdict
<1>2. BrokenNeverLands'
    BY DEF BlameInv, BrokenNeverLands
<1>3. BlameJustified'
    BY DEF BlameInv, BlameJustified, RaceBehind, FaultBehind
<1>4. QED
    BY <1>1, <1>2, <1>3 DEF BlameInv

\* A step that rejects nobody and lands nothing.
LEMMA GoesOn ==
    ASSUME BlameInv, TypeOK', Judging', UNCHANGED <<held, ejected, lands>>
    PROVE  BlameInv'
    BY DEF BlameInv, BrokenNeverLands, BlameJustified

LEMMA BlameInit == Init => BlameInv
    BY TypesInit DEF Init, BlameInv, Judging, AfterVerdict, BrokenNeverLands, BlameJustified

LEMMA LandsSound ==
    ASSUME BlameInv, LandBatch, TypeOK'
    PROVE  BlameInv'
<1>1. pc = "green" /\ Finish /\ UNCHANGED <<held, ejected>>
    BY DEF LandBatch
<1>2. report \in Runs(base \cup batch) /\ DetFail(report) = {}
    BY <1>1 DEF BlameInv, Judging, AfterVerdict
<1>3. \A t \in Test : base \cup batch \notin FailsOn[t]
    BY <1>2, RunFacts
<1>4. \A x \in lands' \ lands : x.on = base /\ x.prs = batch
    BY DEF LandBatch
<1>5. BrokenNeverLands'
    BY <1>3, <1>4 DEF BlameInv, BrokenNeverLands
<1>6. BlameJustified'
    BY <1>1 DEF BlameInv, BlameJustified
<1>7. Judging'
    BY <1>1, Finished DEF Judging, AfterVerdict
<1>8. QED
    BY <1>5, <1>6, <1>7 DEF BlameInv

LEMMA HoldSound ==
    ASSUME BlameInv, HoldBatch, TypeOK'
    PROVE  BlameInv'
<1>1. pc = "hold" /\ Finish /\ UNCHANGED lands /\ Hold(batch)
    BY DEF HoldBatch, history
<1>2. report \in Runs(base \cup batch) /\ Unexcused(report, seen) # {}
    BY <1>1 DEF BlameInv, Judging, AfterVerdict
<1>3. PICK t \in Test : base \cup batch \in RacesOn[t]
    BY <1>2, RunFacts DEF Unexcused
<1>4. \A e \in held' \ held : RaceBehind(e)
  <2>1. SUFFICES ASSUME NEW p \in batch PROVE RaceBehind(Judged(p))
    BY <1>1 DEF Hold
  <2>2. base \cup batch \cup {p} = base \cup batch
    BY <2>1
  <2>3. QED
    BY <1>3, <2>2 DEF RaceBehind, Judged
<1>5. ejected' = ejected
    BY <1>1 DEF Hold
<1>6. QED
    BY <1>1, <1>4, <1>5, EndsJustly

LEMMA UnisolatedSound ==
    ASSUME BlameInv, Unisolated, TypeOK'
    PROVE  BlameInv'
<1>1. pc = "prefix" /\ judged = batch /\ Finish /\ UNCHANGED lands /\ Hold(batch)
    BY DEF Unisolated, history, MorePrefixes
<1>2. /\ report \in Runs(base \cup batch) /\ (DetFail(report) # {} \/ Unresolved(report) # {})
      /\ \A t \in Test : base \cup batch \notin FailsOn[t]
    BY <1>1 DEF BlameInv, Judging, AfterVerdict
<1>3. PICK t \in Test : base \cup batch \in RacesOn[t]
    BY <1>2, RunFacts
<1>4. \A e \in held' \ held : RaceBehind(e)
  <2>1. SUFFICES ASSUME NEW p \in batch PROVE RaceBehind(Judged(p))
    BY <1>1 DEF Hold
  <2>2. base \cup batch \cup {p} = base \cup batch
    BY <2>1
  <2>3. QED
    BY <1>3, <2>2 DEF RaceBehind, Judged
<1>5. ejected' = ejected
    BY <1>1 DEF Hold
<1>6. QED
    BY <1>1, <1>4, <1>5, EndsJustly

LEMMA AloneSound ==
    ASSUME NoneMissing, BlameInv, NEW p \in PR, JudgeAlone(p), TypeOK'
    PROVE  BlameInv'
<1>1. pc = "alone" /\ p \in batch /\ UNCHANGED lands
    BY DEF JudgeAlone, IsFirst, history
<1>2. PICK r \in Runs(base \cup {p}) :
          \/ DetFail(r) # {} /\ Eject(p) /\ Finish
          \/ DetFail(r) = {} /\ Unexcused(r, seen) # {} /\ Hold({p}) /\ Finish
          \/ /\ DetFail(r) = {} /\ judged' = judged \cup {p}
             /\ UNCHANGED <<lanes, pc, seen, base, batch, report, todo>>
    BY ReportsAreRuns DEF JudgeAlone
<1>3. {} \in SUBSET batch /\ base \cup {} \cup {p} = base \cup {p}
    OBVIOUS
<1>4. CASE DetFail(r) # {} /\ Eject(p) /\ Finish
  <2>1. PICK t \in Test : base \cup {p} \in FailsOn[t] \cup RacesOn[t]
    BY <1>2, <1>4, RunFacts
  <2>2. FaultBehind(Judged(p))
    BY <1>3, <2>1 DEF FaultBehind, Judged
  <2>3. held' = held /\ ejected' = ejected \cup {Judged(p)}
    BY <1>4 DEF Eject
  <2>4. QED
    BY <1>1, <1>4, <2>2, <2>3, EndsJustly
<1>5. CASE Unexcused(r, seen) # {} /\ Hold({p}) /\ Finish
  <2>1. PICK t \in Test : base \cup {p} \in RacesOn[t]
    BY <1>2, <1>5, RunFacts DEF Unexcused
  <2>2. RaceBehind(Judged(p))
    BY <1>3, <2>1 DEF RaceBehind, Judged
  <2>3. ejected' = ejected /\ held' = held \cup {Judged(p)}
    BY <1>5 DEF Hold
  <2>4. QED
    BY <1>1, <1>5, <2>2, <2>3, EndsJustly
<1>6. CASE /\ DetFail(r) = {} /\ judged' = judged \cup {p}
           /\ UNCHANGED <<lanes, pc, seen, base, batch, report, todo>>
  <2>1. \A t \in Test : base \cup {p} \notin FailsOn[t]
    BY <1>2, <1>6, RunFacts
  <2>2. Judging'
    BY <1>1, <1>6, <2>1 DEF BlameInv, Judging, AfterVerdict, lanes
  <2>3. QED
    BY <1>1, <1>6, <2>2, GoesOn DEF lanes
<1>7. QED
    BY <1>2, <1>4, <1>5, <1>6

LEMMA PrefixSound ==
    ASSUME NoneMissing, BlameInv, NEW p \in PR, JudgePrefix(p), TypeOK'
    PROVE  BlameInv'
<1>1. pc = "prefix" /\ p \in batch \ judged /\ UNCHANGED lands
    BY DEF JudgePrefix, IsFirst, history
<1>2. PICK r \in Runs(base \cup judged \cup {p}) :
          \/ DetFail(r) # {} /\ Eject(p) /\ Finish
          \/ /\ DetFail(r) = {} /\ judged' = judged \cup {p}
             /\ UNCHANGED <<lanes, pc, seen, base, batch, report, todo>>
    BY ReportsAreRuns DEF JudgePrefix
<1>3. CASE DetFail(r) # {} /\ Eject(p) /\ Finish
  <2>1. PICK t \in Test : base \cup judged \cup {p} \in FailsOn[t] \cup RacesOn[t]
    BY <1>2, <1>3, RunFacts
  <2>2. FaultBehind(Judged(p))
    <3>1. judged \in SUBSET batch
      BY <1>1 DEF BlameInv, Judging
    <3>2. QED
      BY <2>1, <3>1 DEF FaultBehind, Judged
  <2>3. held' = held /\ ejected' = ejected \cup {Judged(p)}
    BY <1>3 DEF Eject
  <2>4. QED
    BY <1>1, <1>3, <2>2, <2>3, EndsJustly
<1>4. CASE /\ DetFail(r) = {} /\ judged' = judged \cup {p}
           /\ UNCHANGED <<lanes, pc, seen, base, batch, report, todo>>
  <2>1. \A t \in Test : base \cup judged \cup {p} \notin FailsOn[t]
    BY <1>2, <1>4, RunFacts
  <2>2. base \cup judged' = base \cup judged \cup {p}
    BY <1>4
  <2>3. Judging'
    BY <1>1, <1>4, <2>1, <2>2 DEF BlameInv, Judging, AfterVerdict, lanes
  <2>4. QED
    BY <1>1, <1>4, <2>3, GoesOn DEF lanes
<1>5. QED
    BY <1>2, <1>3, <1>4

\* The other steps of a job, and the world's.
LEMMA QuietSound ==
    ASSUME NoneMissing, BlameInv, TypeOK',
           \/ \E p \in PR : Enqueue(p) \/ NobodyAlone(p)
           \/ \E h \in Hotfix : PushHotfix(h)
           \/ TickRead \/ TickReadTrunk \/ BarrierRun \/ Feed \/ BarrierPasses \/ Judge \/ Isolate
    PROVE  BlameInv'
<1>1. UNCHANGED <<held, ejected, lands>>
    BY DEF Enqueue, NobodyAlone, PushHotfix, TickRead, TickReadTrunk, BarrierRun, Feed,
           BarrierPasses, Judge, Isolate, lanes, history
<1>2. Judging'
  <2>1. ASSUME NEW p \in PR, Enqueue(p) PROVE Judging'
    BY <2>1 DEF Enqueue, BlameInv, Judging, AfterVerdict, job
  <2>2. ASSUME NEW h \in Hotfix, PushHotfix(h) PROVE Judging'
    BY <2>2 DEF PushHotfix, BlameInv, Judging, AfterVerdict, job, lanes
  <2>3. ASSUME NEW p \in PR, NobodyAlone(p) PROVE Judging'
    <3>1. pc = "alone" /\ p \in batch /\ judged = batch /\ pc' = "prefix" /\ judged' = {p}
      BY <2>3 DEF NobodyAlone, IsFirst
    <3>2. \A t \in Test : base \cup {p} \notin FailsOn[t]
      BY <3>1 DEF BlameInv, Judging
    <3>3. QED
      BY <2>3, <3>1, <3>2 DEF NobodyAlone, BlameInv, Judging, AfterVerdict, lanes
  <2>4. CASE TickRead \/ TickReadTrunk \/ BarrierRun \/ Feed \/ BarrierPasses
    BY <2>4 DEF TickRead, TickReadTrunk, BarrierRun, Feed, BarrierPasses, Judging, AfterVerdict
  <2>5. CASE Judge
    <3>1. batch' \subseteq queue' /\ report' \in Runs(base' \cup batch') /\ UNCHANGED seen
      BY <2>5, ReportsAreRuns DEF Judge, lanes
    <3>2. pc' = Decide(report', seen)
      BY <2>5 DEF Judge
    <3>3. /\ pc' = "green" => DetFail(report') = {} /\ Unexcused(report', seen) = {}
          /\ pc' = "hold" => Unexcused(report', seen) # {}
          /\ pc' = "red" => DetFail(report') # {} \/ Unresolved(report') # {}
          /\ pc' \in {"red", "green", "hold"}
      BY <3>2, DecideFacts
    <3>4. QED
      BY <3>1, <3>3 DEF Judging, AfterVerdict
  <2>6. CASE Isolate
    BY <2>6 DEF Isolate, BlameInv, Judging, AfterVerdict, lanes
  <2>7. QED
    BY <2>1, <2>2, <2>3, <2>4, <2>5, <2>6
<1>3. QED
    BY <1>1, <1>2, GoesOn

LEMMA BlameNext ==
    ASSUME NoneMissing, BlameInv, [Next]_vars
    PROVE  BlameInv'
<1>1. TypeOK'
    BY TypesNext DEF BlameInv
<1>2. CASE Next
  <2>1. CASE BarrierFails \/ LandRetried \/ Crash
    <3>1. Finish /\ UNCHANGED <<held, ejected, lands>>
      BY <2>1 DEF BarrierFails, LandRetried, Crash, lanes, history
    <3>2. QED
      BY <1>1, <3>1, EndsJustly
  <2>2. QED
    BY <1>1, <1>2, <2>1, LandsSound, HoldSound, UnisolatedSound, AloneSound, PrefixSound,
       QuietSound DEF Next, Tick
<1>3. CASE UNCHANGED vars
  <2>1. Judging' /\ UNCHANGED <<held, ejected, lands>>
    BY <1>3 DEF BlameInv, Judging, AfterVerdict, vars, lanes, job, history
  <2>2. QED
    BY <1>1, <2>1, GoesOn
<1>4. QED
    BY <1>2, <1>3

(***************************************************************************)
(* Races                                                                   *)
(***************************************************************************)

\* A test that has failed without the PRs of the queue races on some trunk, or fails.
Failed(f) ==
    \A t \in Test : f[t].fail > 0 => \E T \in trees : T \in RacesOn[t] \cup FailsOn[t]

MaskInv ==
    /\ tree \in trees /\ trees \subseteq SUBSET Change
    /\ pc \notin {"idle", "trunk"} => base \in trees
    /\ \A T \in trees : /\ T \cap queue = {}
                        /\ \A p \in T \cap PR : since[p] > 0
    /\ \A p \in queue : since[p] > 0
    /\ Failed(pa) /\ Failed(seen)
    /\ pc = "feed" => \A t \in Test : todo[t].fail > 0 => base \in RacesOn[t] \cup FailsOn[t]
    /\ FailureSeenWithoutIt

RaceInv == BlameInv /\ MaskInv

LEMMA MaskInit == Init => RaceInv
<1> SUFFICES ASSUME Init PROVE RaceInv
    OBVIOUS
<1>1. Failed(pa) /\ Failed(seen)
    BY DEF Init, Failed, None, Outcome, TestId
<1>2. QED
    BY <1>1, BlameInit DEF Init, RaceInv, MaskInv, FailureSeenWithoutIt

\* A step that leaves trunk alone and adds nothing to the queue.
LEMMA MaskKept ==
    ASSUME RaceInv, BlameInv', UNCHANGED <<tree, trees, lands, since>>, queue' \subseteq queue,
           pc' \notin {"idle", "trunk"} => base' \in trees,
           Failed(pa'), Failed(seen'),
           pc' = "feed" => \A t \in Test : todo'[t].fail > 0 => base' \in RacesOn[t] \cup FailsOn[t]
    PROVE  RaceInv'
<1>1. Failed(pa)' /\ Failed(seen)'
    BY DEF Failed
<1>2. FailureSeenWithoutIt'
    BY DEF RaceInv, MaskInv, FailureSeenWithoutIt
<1>3. QED
    BY <1>1, <1>2 DEF RaceInv, MaskInv

LEMMA MaskEnds ==
    ASSUME RaceInv, BlameInv', Finish, UNCHANGED <<tree, trees, lands, since, pa>>,
           queue' \subseteq queue
    PROVE  RaceInv'
<1>1. Failed(seen')
    BY Finished DEF Failed, None, Outcome, TestId
<1>2. Failed(pa')
    BY DEF RaceInv, MaskInv
<1>3. pc' = "idle"
    BY Finished
<1>4. QED
    BY <1>1, <1>2, <1>3, MaskKept

\* Steps of a job in which it neither lands, reads, feeds nor ends.
LEMMA MaskGoesOn ==
    ASSUME RaceInv, BlameInv', UNCHANGED <<tree, trees, lands, since, queue, pa, seen>>,
           pc \notin {"idle", "trunk"}, UNCHANGED base, pc' # "feed"
    PROVE  RaceInv'
    BY MaskKept DEF RaceInv, MaskInv

LEMMA MaskLands ==
    ASSUME RaceInv, BlameInv', LandBatch
    PROVE  RaceInv'
<1>1. /\ pc = "green" /\ tree = base /\ Finish /\ tree' = base \cup batch
      /\ trees' = trees \cup {tree'} /\ queue' = queue \ batch /\ UNCHANGED <<since, pa>>
    BY DEF LandBatch
<1>2. /\ batch \subseteq queue /\ report \in Runs(base \cup batch)
      /\ DetFail(report) = {} /\ Unexcused(report, seen) = {} /\ queue \subseteq PR
    BY <1>1 DEF RaceInv, BlameInv, Judging, AfterVerdict, TypeOK
<1>4. tree' \subseteq Change /\ tree' \cap queue' = {} /\ \A p \in tree' \cap PR : since[p] > 0
    BY <1>1, <1>2 DEF RaceInv, MaskInv, Change
<1>5. \A x \in lands' \ lands :
          \A t \in x.excused \cap Test : \E T \in trees : T \in RacesOn[t] \cup FailsOn[t] /\ T \cap x.prs = {}
  <2>1. SUFFICES ASSUME NEW t \in Unresolved(report) \cap Test
                 PROVE  \E T \in trees : T \in RacesOn[t] \cup FailsOn[t] /\ T \cap batch = {}
    BY DEF LandBatch
  <2>2. seen[t].fail > 0
    <3>1. EstablishedFlaky(seen, t)
      BY <1>2, <2>1 DEF Unexcused
    <3>2. seen[t].fail \in Nat
      BY <2>1, QuarantineAssumption DEF RaceInv, BlameInv, TypeOK, Evidence, TestId, Outcome
    <3>3. QED
      BY <3>1, <3>2 DEF EstablishedFlaky
  <2>3. PICK T \in trees : T \in RacesOn[t] \cup FailsOn[t]
    BY <2>1, <2>2 DEF RaceInv, MaskInv, Failed
  <2>4. QED
    BY <1>2, <2>3 DEF RaceInv, MaskInv
<1>6. FailureSeenWithoutIt'
    BY <1>1, <1>5 DEF RaceInv, MaskInv, FailureSeenWithoutIt
<1>7. Failed(pa)' /\ Failed(seen)'
  <2>1. \A t \in Test : seen'[t].fail = 0
    BY <1>1, Finished DEF None, Outcome, TestId
  <2>2. QED
    BY <1>1, <2>1 DEF RaceInv, MaskInv, Failed
<1>8. pc' = "idle"
    BY <1>1, Finished
<1>9. QED
    BY <1>1, <1>4, <1>6, <1>7, <1>8 DEF RaceInv, MaskInv

LEMMA MaskHotfix ==
    ASSUME RaceInv, BlameInv', NEW h \in Hotfix, PushHotfix(h)
    PROVE  RaceInv'
<1>1. /\ tree' = tree \cup {h} /\ trees' = trees \cup {tree'}
      /\ UNCHANGED <<queue, since, pa, pc, seen, base, todo, lands>>
    BY DEF PushHotfix, lanes, job
<1>2. h \notin PR /\ tree \in trees /\ tree \in SUBSET Change /\ queue \subseteq PR
    BY QuarantineAssumption DEF RaceInv, MaskInv, BlameInv, TypeOK
<1>4. /\ tree' \subseteq Change /\ tree' \cap queue = {}
      /\ \A p \in tree' \cap PR : since[p] > 0
    BY <1>1, <1>2 DEF RaceInv, MaskInv, Change
<1>5. Failed(pa)' /\ Failed(seen)' /\ FailureSeenWithoutIt'
    BY <1>1 DEF RaceInv, MaskInv, Failed, FailureSeenWithoutIt
<1>6. QED
    BY <1>1, <1>4, <1>5 DEF RaceInv, MaskInv

LEMMA MaskEnqueue ==
    ASSUME RaceInv, BlameInv', NEW p \in PR, Enqueue(p)
    PROVE  RaceInv'
<1> DEFINE n == Cardinality({q \in PR : since[q] > 0}) + 1
<1>1. /\ since[p] = 0 /\ since' = [since EXCEPT ![p] = n] /\ queue' = queue \cup {p}
      /\ UNCHANGED <<tree, trees, pa, pc, seen, base, todo, lands>>
    BY DEF Enqueue, job, history
<1>2. n > 0
  <2>1. {q \in PR : since[q] > 0} \in SUBSET PR
    OBVIOUS
  <2>2. Cardinality({q \in PR : since[q] > 0}) \in Nat
    BY <2>1, QuarantineAssumption, FS_Subset, FS_CardinalityType
  <2>3. QED
    BY <2>2
<1> HIDE DEF n
<1>3. since \in [PR -> Nat] /\ queue \subseteq PR
    BY DEF RaceInv, BlameInv, TypeOK
<1>4. \A T \in trees : T \cap queue' = {} /\ \A q \in T \cap PR : since'[q] > 0
    BY <1>1, <1>2, <1>3 DEF RaceInv, MaskInv
<1>5. \A q \in queue' : since'[q] > 0
    BY <1>1, <1>2, <1>3 DEF RaceInv, MaskInv
<1>6. Failed(pa)' /\ Failed(seen)' /\ FailureSeenWithoutIt'
    BY <1>1 DEF RaceInv, MaskInv, Failed, FailureSeenWithoutIt
<1>7. QED
    BY <1>1, <1>4, <1>5, <1>6 DEF RaceInv, MaskInv

\* The steps that read trunk and the flaky log, and those that feed it.
LEMMA MaskReads ==
    ASSUME NoneMissing, RaceInv, BlameInv',
           TickRead \/ TickReadTrunk \/ BarrierRun \/ Feed
    PROVE  RaceInv'
<1>1. UNCHANGED <<tree, trees, lands, since, queue>>
    BY DEF TickRead, TickReadTrunk, BarrierRun, Feed, lanes, history
<1>2. CASE TickRead
    BY <1>1, <1>2, MaskKept DEF TickRead, RaceInv, MaskInv
<1>3. CASE TickReadTrunk
  <2>1. base' \in trees /\ UNCHANGED <<pa, seen>> /\ pc' # "feed"
    BY <1>3 DEF TickReadTrunk, RaceInv, MaskInv
  <2>2. QED
    BY <1>1, <2>1, MaskKept DEF RaceInv, MaskInv
<1>4. CASE BarrierRun
  <2>1. base \in trees /\ UNCHANGED <<pa, seen, base>> /\ report' \in Runs(base)
    BY <1>4, ReportsAreRuns DEF BarrierRun, RaceInv, MaskInv
  <2>2. \A t \in Test : todo'[t] = report'.per[t]
    BY <1>4, <2>1, RunFacts DEF BarrierRun, TestId
  <2>3. \A t \in Test : todo'[t].fail > 0 => base' \in RacesOn[t] \cup FailsOn[t]
    BY <2>1, <2>2, RunFacts DEF RaceInv, MaskInv
  <2>4. QED
    BY <1>1, <2>1, <2>3, MaskKept DEF RaceInv, MaskInv
<1>5. CASE Feed
  <2>1. PICK t \in TestId, o \in Outcome :
            /\ todo[t][o] > 0
            /\ todo' = [todo EXCEPT ![t][o] = todo[t][o] - 1]
            /\ pa' = Observed(pa, t, o)
    BY <1>5 DEF Feed, Outcome
  <2>2. pc = "feed" /\ UNCHANGED <<pc, seen, base>> /\ base \in trees
    BY <1>5 DEF Feed, RaceInv, MaskInv
  <2>3. todo \in [TestId -> [Outcome -> Nat]] /\ pa \in Evidence
    BY DEF RaceInv, BlameInv, TypeOK
  <2>4. \A u \in TestId : todo'[u].fail > 0 => todo[u].fail > 0
    BY <2>1, <2>3, Owed
  <2>5. \A u \in TestId : pa'[u].fail > 0 => pa[u].fail > 0 \/ (u = t /\ o = "fail")
    BY <2>1, <2>3, Counted
  <2>6. \A u \in Test : todo[u].fail > 0 => base \in RacesOn[u] \cup FailsOn[u]
    BY <2>2 DEF RaceInv, MaskInv
  <2>7. Failed(pa')
    <3>1. o = "fail" => todo[t].fail > 0
      BY <2>1
    <3>2. QED
      BY <2>2, <2>5, <2>6, <3>1 DEF RaceInv, MaskInv, Failed, TestId
  <2>8. \A u \in Test : todo'[u].fail > 0 => base' \in RacesOn[u] \cup FailsOn[u]
    BY <2>2, <2>4, <2>6 DEF TestId
  <2>9. Failed(seen')
    BY <2>2 DEF RaceInv, MaskInv
  <2>10. QED
    BY <1>1, <2>2, <2>7, <2>8, <2>9, MaskKept
<1>6. QED
    BY <1>2, <1>3, <1>4, <1>5

LEMMA MaskIsolates ==
    ASSUME RaceInv, BlameInv', NEW p \in PR, JudgeAlone(p) \/ JudgePrefix(p)
    PROVE  RaceInv'
<1>1. UNCHANGED <<tree, trees, lands, pa>> /\ pc \in {"alone", "prefix"}
    BY DEF JudgeAlone, JudgePrefix, history
<1>2. CASE Finish
  <2>1. queue' \subseteq queue /\ UNCHANGED since
    <3>1. pc' = "idle"
      BY <1>2, Finished
    <3>2. Eject(p) \/ Hold({p}) \/ UNCHANGED pc
      BY DEF JudgeAlone, JudgePrefix
    <3>3. QED
      BY <1>1, <3>1, <3>2 DEF Eject, Hold
  <2>2. QED
    BY <1>1, <1>2, <2>1, MaskEnds
<1>3. CASE ~Finish
  <2>1. UNCHANGED <<queue, since, pc, seen, base>>
    BY <1>3 DEF JudgeAlone, JudgePrefix, lanes
  <2>2. QED
    BY <1>1, <2>1, MaskGoesOn
<1>4. QED
    BY <1>2, <1>3

LEMMA MaskNext ==
    ASSUME NoneMissing, RaceInv, [Next]_vars
    PROVE  RaceInv'
<1>1. BlameInv'
    BY BlameNext DEF RaceInv
<1>2. CASE BarrierFails \/ LandRetried \/ Crash \/ HoldBatch \/ Unisolated
  <2>1. Finish /\ UNCHANGED <<tree, trees, lands, since, pa>> /\ queue' \subseteq queue
    BY <1>2 DEF BarrierFails, LandRetried, Crash, HoldBatch, Unisolated, Hold, lanes, history
  <2>2. QED
    BY <1>1, <2>1, MaskEnds
<1>3. CASE BarrierPasses \/ Judge \/ Isolate \/ \E p \in PR : NobodyAlone(p)
  <2>1. /\ UNCHANGED <<tree, trees, lands, since, queue, pa, seen, base>>
        /\ pc \notin {"idle", "trunk"}
    BY <1>3, DecideFacts DEF BarrierPasses, Judge, Isolate, NobodyAlone, lanes, history, Fed
  <2>2. pc' # "feed"
    BY <1>3, DecideFacts DEF BarrierPasses, Judge, Isolate, NobodyAlone
  <2>3. QED
    BY <1>1, <2>1, <2>2, MaskGoesOn
<1>4. CASE UNCHANGED vars
  <2>1. UNCHANGED <<tree, trees, lands, since, queue, pa, seen, base, todo, pc>>
    BY <1>4 DEF vars, lanes, job, history
  <2>2. QED
    BY <1>1, <2>1, MaskKept DEF RaceInv, MaskInv
<1>5. QED
    BY <1>1, <1>2, <1>3, <1>4, MaskLands, MaskHotfix, MaskEnqueue, MaskReads, MaskIsolates
       DEF Next, Tick

(***************************************************************************)
(* Where no hotfix breaks a test for good                                  *)
(***************************************************************************)

\* Nothing trunk has held fails a test in every run.
TrunkHealthy == \A T \in trees : \A t \in Test : T \notin FailsOn[t]

LEMMA StaysHealthy ==
    ASSUME NoneMissing, HotfixesBreakNothing, RaceInv, TrunkHealthy, [Next]_vars
    PROVE  TrunkHealthy'
<1>1. CASE LandBatch
  <2>1. /\ pc = "green" /\ tree' = base \cup batch
        /\ trees' = trees \cup {tree'}
    BY <1>1 DEF LandBatch
  <2>2. report \in Runs(base \cup batch) /\ DetFail(report) = {}
    BY <2>1 DEF RaceInv, BlameInv, Judging, AfterVerdict, TypeOK
  <2>3. \A t \in Test : tree' \notin FailsOn[t]
    BY <2>1, <2>2, RunFacts
  <2>4. QED
    BY <2>1, <2>3 DEF TrunkHealthy
<1>2. CASE \E h \in Hotfix : PushHotfix(h)
  <2>1. PICK h \in Hotfix : tree' = tree \cup {h} /\ trees' = trees \cup {tree'}
    BY <1>2 DEF PushHotfix
  <2>2. tree \in trees /\ tree \in SUBSET Change
    BY DEF RaceInv, MaskInv, BlameInv, TypeOK
  <2>3. \A t \in Test : tree' \notin FailsOn[t]
    BY <2>1, <2>2 DEF HotfixesBreakNothing, TrunkHealthy
  <2>4. QED
    BY <2>1, <2>3 DEF TrunkHealthy
<1>3. CASE UNCHANGED trees
    BY <1>3 DEF TrunkHealthy
<1>4. LandBatch \/ (\E h \in Hotfix : PushHotfix(h)) \/ UNCHANGED trees
    BY DEF Next, Tick, vars, history, Enqueue, TickRead, TickReadTrunk, BarrierRun, Feed,
           BarrierFails, BarrierPasses, Judge, HoldBatch, LandRetried, Isolate, Unisolated,
           JudgeAlone, NobodyAlone, JudgePrefix, Crash
<1>5. QED
    BY <1>1, <1>2, <1>3, <1>4

(***************************************************************************)
(* Theorems                                                                *)
(***************************************************************************)

\* The types of Quarantine, whether reports are missing or not.
THEOREM QuarantineTypes == Spec => []TypeOK
    BY TypesInit, TypesNext, PTL DEF Spec

THEOREM BlameInvariant == NoneMissing => (Spec => []BlameInv)
<1> SUFFICES ASSUME NoneMissing PROVE Spec => []BlameInv
    OBVIOUS
<1>1. BlameInv /\ [Next]_vars => BlameInv'
    BY BlameNext
<1>2. QED
    BY <1>1, BlameInit, PTL DEF Spec

\* A DET_FAIL is never excused (verdict.py:49-73): where no report is missing, what
\* lands does not fail any test in every run.
THEOREM NothingBrokenLands == NoneMissing => (Spec => []BrokenNeverLands)
<1>1. BlameInv => BrokenNeverLands
    BY DEF BlameInv
<1>2. QED
    BY <1>1, BlameInvariant, PTL

\* Isolation blames nobody without a race or a failure behind it, for any batch and
\* any flakes (batch_engine.py:132-168).
THEOREM NobodyBlamedInVain == NoneMissing => (Spec => []BlameJustified)
<1>1. BlameInv => BlameJustified
    BY DEF BlameInv
<1>2. QED
    BY <1>1, BlameInvariant, PTL

\* What the flaky log excuses has raced or failed without the batch (flaky.py:41-44),
\* whatever hotfixes break or mend.
THEOREM FlakesSeenElsewhere == NoneMissing => (Spec => []FailureSeenWithoutIt)
<1> SUFFICES ASSUME NoneMissing PROVE Spec => []FailureSeenWithoutIt
    OBVIOUS
<1>1. RaceInv /\ [Next]_vars => RaceInv'
    BY MaskNext
<1>2. RaceInv => FailureSeenWithoutIt
    BY DEF RaceInv, MaskInv
<1>3. QED
    BY <1>1, <1>2, MaskInit, PTL DEF Spec

\* And has raced, if hotfixes break nothing: the log adds up outcomes of different trees.
THEOREM NoRaceMasked ==
    NoneMissing /\ HotfixesBreakNothing => (Spec => []RaceNeverMasked)
<1> SUFFICES ASSUME NoneMissing, HotfixesBreakNothing PROVE Spec => []RaceNeverMasked
    OBVIOUS
<1>1. Init => RaceInv /\ TrunkHealthy
    BY MaskInit DEF Init, TrunkHealthy, HotfixesBreakNothing
<1>2. RaceInv /\ TrunkHealthy /\ [Next]_vars => (RaceInv /\ TrunkHealthy)'
    BY MaskNext, StaysHealthy
<1>3. RaceInv /\ TrunkHealthy => RaceNeverMasked
    BY DEF RaceInv, MaskInv, TrunkHealthy, FailureSeenWithoutIt, RaceNeverMasked
<1>4. QED
    BY <1>1, <1>2, <1>3, PTL DEF Spec
=============================================================================
