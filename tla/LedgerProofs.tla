---------------------------- MODULE LedgerProofs ----------------------------
(***************************************************************************)
(* The fence and the plans of the planner, and the honesty of the ledger,  *)
(* its writes and its audit, for all graphs, fragments, jobs, readers and  *)
(* faults.                                                                 *)
(***************************************************************************)
EXTENDS Ledger, FiniteSetTheorems, WellFoundedInduction, TLAPS

-----------------------------------------------------------------------------
(* Numbers, finite sets and what is defined step by step *)

\* The least-number principle.
LEMMA LeastNumber ==
    ASSUME NEW S \in SUBSET Nat, S # {}
    PROVE  \E n \in S : \A m \in S : n <= m
<1>1. PICK n \in S : \A m \in S : <<m, n>> \notin OpToRel(<, Nat)
  BY NatLessThanWellFounded, WFMin
<1>2. \A m \in S : ~(m < n)
  BY <1>1 DEF OpToRel
<1>3. QED
  BY <1>2

\* A relation without infinite chains: among finitely many things, one has nothing
\* above it, if being above is transitive and nothing is above itself.
LEMMA TopExists ==
    ASSUME NEW S, IsFiniteSet(S), S # {}, NEW R,
           \A x \in S : <<x, x>> \notin R,
           \A x, y, z \in S : <<x, y>> \in R /\ <<y, z>> \in R => <<x, z>> \in R
    PROVE  \E x \in S : \A y \in S : <<x, y>> \notin R
<1> DEFINE Above(x) == {y \in S : <<x, y>> \in R}
           T == {Above(x) : x \in S}
<1>1. FiniteSubsetsOf(S) = SUBSET S
  BY FS_FiniteSubsetsOfFinite
<1>2. T \subseteq FiniteSubsetsOf(S) /\ T # {}
  <2>1. \A x \in S : Above(x) \in SUBSET S
    OBVIOUS
  <2>2. PICK x \in S : TRUE
    OBVIOUS
  <2> HIDE DEF Above
  <2>3. Above(x) \in T
    OBVIOUS
  <2>4. T \subseteq SUBSET S
    BY <2>1
  <2>5. QED
    BY <1>1, <2>3, <2>4
<1>3. IsWellFoundedOn(StrictSubsetOrdering(S), FiniteSubsetsOf(S))
  BY FS_StrictSubsetOrderingWellFounded
<1>4. PICK A \in T : \A B \in T : <<B, A>> \notin StrictSubsetOrdering(S)
  BY <1>2, <1>3, WFMin
<1>5. PICK x \in S : A = Above(x)
  BY <1>4
<1>6. SUFFICES ASSUME NEW y \in S, <<x, y>> \in R PROVE FALSE
  OBVIOUS
<1>7. y \in Above(x) /\ y \notin Above(y) /\ Above(y) \subseteq Above(x)
  BY <1>6
<1>8. Above(y) \in T /\ Above(y) \in SUBSET S /\ Above(x) \in SUBSET S
  OBVIOUS
<1>9. <<Above(y), Above(x)>> \in StrictSubsetOrdering(S)
  BY <1>7, <1>8 DEF StrictSubsetOrdering
<1>10. QED
  BY <1>4, <1>5, <1>8, <1>9

\* What a function makes of finitely many things is finitely many.
LEMMA ImageIsFinite ==
    ASSUME NEW S, IsFiniteSet(S), NEW f
    PROVE  IsFiniteSet({f[x] : x \in S})
<1> DEFINE T == {f[x] : x \in S}
           g == [x \in S |-> f[x]]
<1>1. g \in Surjection(S, T)
  <2>1. g \in [S -> T]
    OBVIOUS
  <2>2. \A y \in T : \E x \in S : g[x] = y
    OBVIOUS
  <2> HIDE DEF g, T
  <2>3. QED
    BY <2>1, <2>2 DEF Surjection
<1> HIDE DEF g, T
<1>2. IsFiniteSet(T)
  BY <1>1, FS_Surjection
<1>3. QED
  BY <1>2 DEF T

\* A set of numbers that has 0, and with each number the next, has all up to N.
LEMMA CountedUp ==
    ASSUME NEW N \in Nat, NEW S, 0 \in S, \A n \in 0 .. N - 1 : n \in S => n + 1 \in S
    PROVE  \A n \in 0 .. N : n \in S
<1> DEFINE T == {n \in 0 .. N : n \notin S}
<1>1. SUFFICES ASSUME T # {} PROVE FALSE
  OBVIOUS
<1>2. T \in SUBSET Nat
  OBVIOUS
<1>3. PICK n \in T : \A m \in T : n <= m
  <2> HIDE DEF T
  <2>1. QED
    BY <1>1, <1>2, LeastNumber
<1>4. n # 0 /\ n - 1 \in 0 .. N - 1 /\ n - 1 \notin T
  BY <1>3
<1>5. QED
  BY <1>3, <1>4

\* f goes from a on by the operation step, inside S, N times.
Iterates(f, S, a, step, N) ==
    /\ \A n \in 0..N : f[n] \in S
    /\ f[0] = a
    /\ \A n \in 1..N : f[n] = step[f[n - 1]]

\* What is defined step by step from the step before exists.
LEMMA IterationExists ==
    ASSUME NEW S, NEW a \in S, NEW step \in [S -> S], NEW N \in Nat
    PROVE  \E f : Iterates(f, S, a, step, N)
<1> DEFINE Follows(f, m) == \A n \in 0..m : f[n] = IF n = 0 THEN a ELSE step[f[n - 1]]
           M == {m \in 0..N : \E f \in [0..m -> S] : Follows(f, m)}
<1>1. 0 \in M
  <2>1. PICK f \in [0..0 -> S] : f[0] = a
    <3>1. [n \in 0..0 |-> a] \in [0..0 -> S] /\ [n \in 0..0 |-> a][0] = a
      OBVIOUS
    <3>2. QED
      BY <3>1
  <2>2. Follows(f, 0)
    BY <2>1, 0..0 = {0}
  <2> HIDE DEF Follows
  <2>3. QED
    BY <2>2
<1>2. ASSUME NEW m \in 0 .. N - 1, m \in M PROVE m + 1 \in M
  <2>1. PICK f \in [0..m -> S] : Follows(f, m)
    BY <1>2
  <2> DEFINE g == [n \in 0 .. m + 1 |-> IF n = m + 1 THEN step[f[m]] ELSE f[n]]
  <2>2. g \in [0 .. m + 1 -> S]
    <3>1. ASSUME NEW n \in 0 .. m + 1, n # m + 1 PROVE n \in 0 .. m
      BY <3>1
    <3>2. m \in 0 .. m
      OBVIOUS
    <3>3. QED
      BY <3>1, <3>2
  <2>3. ASSUME NEW n \in 0 .. m + 1
        PROVE  g[n] = IF n = 0 THEN a ELSE step[g[n - 1]]
    <3>1. CASE n = m + 1
      <4>1. n # 0 /\ n - 1 = m /\ m \in 0 .. m + 1 /\ m # m + 1
        BY <3>1
      <4>2. g[n] = step[f[m]] /\ g[n - 1] = f[m]
        BY <3>1, <4>1
      <4> HIDE DEF g
      <4>3. QED
        BY <4>1, <4>2
    <3>2. CASE n # m + 1
      <4>1. n \in 0..m /\ g[n] = f[n]
        BY <3>2
      <4>2. n # 0 => n - 1 \in 0 .. m + 1 /\ n - 1 # m + 1
        BY <4>1
      <4>3. n # 0 => g[n - 1] = f[n - 1]
        BY <4>2
      <4> HIDE DEF g
      <4>4. QED
        BY <2>1, <4>1, <4>3
    <3>3. QED
      BY <3>1, <3>2
  <2> HIDE DEF g
  <2>4. Follows(g, m + 1)
    BY <2>3
  <2> HIDE DEF Follows
  <2>5. m + 1 \in 0..N
    OBVIOUS
  <2>6. QED
    BY <2>2, <2>4, <2>5
<1> HIDE DEF M
<1>3. N \in M
  BY <1>1, <1>2, CountedUp
<1>4. PICK f \in [0..N -> S] : Follows(f, N)
  BY <1>3 DEF M
<1>5. 0 \in 0..N /\ \A n \in 1..N : n \in 0..N /\ n # 0
  OBVIOUS
<1>6. \A n \in 0..N : f[n] \in S
  BY <1>4
<1>7. f[0] = a /\ \A n \in 1..N : f[n] = step[f[n - 1]]
  BY <1>4, <1>5
<1>8. QED
  BY <1>6, <1>7 DEF Iterates

\* An operation on the subsets of C that adds to them, but nothing to nothing.
Grows(step, C) ==
    /\ step \in [SUBSET C -> SUBSET C]
    /\ step[{}] = {}
    /\ \A B \in SUBSET C : B \subseteq step[B]

\* Such an operation on the subsets of a finite set, begun with one of them and
\* repeated as often as the set has elements, less one, changes nothing more.
LEMMA StopsGrowing ==
    ASSUME NEW C, IsFiniteSet(C), NEW step, Grows(step, C),
           NEW K \in Nat, Cardinality(C) <= K + 1,
           NEW f, NEW a, Iterates(f, SUBSET C, a, step, K)
    PROVE  step[f[K]] = f[K]
<1>0. /\ \A n \in 0..K : f[n] \in SUBSET C
      /\ \A n \in 1..K : f[n] = step[f[n - 1]]
      /\ step \in [SUBSET C -> SUBSET C] /\ step[{}] = {}
      /\ \A B \in SUBSET C : B \subseteq step[B]
  BY DEF Iterates, Grows
<1>1. Cardinality(C) \in Nat /\ \A B \in SUBSET C : IsFiniteSet(B) /\ Cardinality(B) \in Nat
  BY FS_CardinalityType, FS_Subset
<1>2. \A n \in 0 .. K - 1 : f[n + 1] = step[f[n]]
  <2>1. \A n \in 0 .. K - 1 : n + 1 \in 1..K /\ (n + 1) - 1 = n
    OBVIOUS
  <2>2. QED
    BY <1>0, <2>1
<1>3. SUFFICES ASSUME step[f[K]] # f[K] PROVE FALSE
  OBVIOUS
<1>4. ASSUME NEW n \in 0..K PROVE step[f[n]] # f[n]
  <2> DEFINE S == {m \in 0..K : m >= n => f[m] = f[n]}
  <2>1. SUFFICES ASSUME step[f[n]] = f[n] PROVE FALSE
    OBVIOUS
  <2>2. 0 \in S
    OBVIOUS
  <2>3. ASSUME NEW m \in 0 .. K - 1, m \in S PROVE m + 1 \in S
    <3>1. m + 1 \in 0..K /\ f[m + 1] = step[f[m]]
      BY <1>2
    <3>2. m + 1 >= n => m >= n \/ m + 1 = n
      OBVIOUS
    <3>3. QED
      BY <2>1, <2>3, <3>1, <3>2
  <2> HIDE DEF S
  <2>4. \A m \in 0..K : m \in S
    BY <2>2, <2>3, CountedUp
  <2>5. f[K] = f[n]
    <3>1. K \in 0..K /\ K >= n
      OBVIOUS
    <3>2. QED
      BY <2>4, <3>1 DEF S
  <2>6. QED
    BY <1>3, <2>1, <2>5
<1>5. \A n \in 0..K : f[n] \in SUBSET C /\ f[n] \subseteq step[f[n]] /\ step[f[n]] \in SUBSET C
  BY <1>0
<1>6. ASSUME NEW n \in 0..K PROVE Cardinality(f[n]) < Cardinality(step[f[n]])
  <2>1. f[n] \subseteq step[f[n]] /\ f[n] # step[f[n]] /\ IsFiniteSet(step[f[n]])
    BY <1>1, <1>4, <1>5
  <2>2. Cardinality(f[n]) <= Cardinality(step[f[n]])
        /\ (Cardinality(f[n]) = Cardinality(step[f[n]]) => f[n] = step[f[n]])
    BY <2>1, FS_Subset
  <2>3. Cardinality(f[n]) \in Nat /\ Cardinality(step[f[n]]) \in Nat
    BY <1>1, <1>5
  <2>4. QED
    BY <2>1, <2>2, <2>3
<1> DEFINE S == {n \in 0..K : Cardinality(f[n]) >= n + 1}
<1>7. 0 \in S
  <2>1. 0 \in 0..K /\ f[0] \in SUBSET C
    BY <1>0
  <2>2. f[0] # {} /\ IsFiniteSet(f[0]) /\ Cardinality(f[0]) \in Nat
    BY <1>0, <1>1, <1>4, <2>1
  <2>3. Cardinality(f[0]) # 0
    BY <2>2, FS_EmptySet
  <2>4. QED
    BY <2>2, <2>3
<1>8. ASSUME NEW n \in 0 .. K - 1, n \in S PROVE n + 1 \in S
  <2>1. n \in 0..K /\ n + 1 \in 0..K /\ f[n + 1] = step[f[n]]
    BY <1>2
  <2>2. Cardinality(f[n]) < Cardinality(f[n + 1])
    BY <1>6, <2>1
  <2>3. Cardinality(f[n]) \in Nat /\ Cardinality(f[n + 1]) \in Nat /\ Cardinality(f[n]) >= n + 1
    BY <1>1, <1>5, <1>8, <2>1
  <2>4. QED
    BY <2>1, <2>2, <2>3
<1> HIDE DEF S
<1>9. \A n \in 0..K : n \in S
  BY <1>7, <1>8, CountedUp
<1>10. Cardinality(f[K]) >= K + 1 /\ Cardinality(f[K]) < Cardinality(step[f[K]])
  <2>1. K \in 0..K
    OBVIOUS
  <2>2. QED
    BY <1>6, <1>9, <2>1 DEF S
<1>11. Cardinality(step[f[K]]) <= Cardinality(C)
  BY <1>5, FS_Subset
<1>12. Cardinality(f[K]) \in Nat /\ Cardinality(step[f[K]]) \in Nat
  BY <1>1, <1>5
<1>13. QED
  BY <1>1, <1>10, <1>11, <1>12

\* The steps do not leave T.
Keeps(step, C, T) == \A B \in SUBSET C : B \subseteq T => step[B] \subseteq T

\* What f does step by step stays in every set that the steps do not leave, and
\* keeps what it began with if they only add.
LEMMA IterationStays ==
    ASSUME NEW C, NEW step, Grows(step, C), NEW N \in Nat, NEW a, NEW f,
           Iterates(f, SUBSET C, a, step, N)
    PROVE  /\ f[N] \in SUBSET C
           /\ a \subseteq f[N]
           /\ \A T : a \subseteq T /\ Keeps(step, C, T) => f[N] \subseteq T
<1>1. /\ \A n \in 0..N : f[n] \in SUBSET C
      /\ f[0] = a
      /\ \A n \in 1..N : f[n] = step[f[n - 1]]
    BY DEF Iterates
<1>2. /\ N \in 0..N /\ 0 \in 0..N
      /\ \A n \in 0 .. N - 1 : n \in 0..N /\ n + 1 \in 0..N /\ n + 1 \in 1..N /\ (n + 1) - 1 = n
    OBVIOUS
<1>3. \A n \in 0 .. N - 1 : f[n + 1] = step[f[n]]
    BY <1>1, <1>2
<1>4. a \subseteq f[N]
  <2> DEFINE S == {n \in 0..N : a \subseteq f[n]}
  <2>1. 0 \in S
    BY <1>1, <1>2
  <2>2. ASSUME NEW n \in 0 .. N - 1, n \in S PROVE n + 1 \in S
    BY <1>1, <1>2, <1>3, <2>2 DEF Grows
  <2> HIDE DEF S
  <2>3. \A n \in 0..N : n \in S
    BY <2>1, <2>2, CountedUp
  <2>4. QED
    BY <1>2, <2>3 DEF S
<1>5. ASSUME NEW T, a \subseteq T, Keeps(step, C, T)
      PROVE  f[N] \subseteq T
  <2> DEFINE S == {n \in 0..N : f[n] \subseteq T}
  <2>1. 0 \in S
    BY <1>1, <1>2, <1>5
  <2>2. ASSUME NEW n \in 0 .. N - 1, n \in S PROVE n + 1 \in S
    <3>1. f[n] \in SUBSET C /\ f[n] \subseteq T /\ n + 1 \in 0..N /\ f[n + 1] = step[f[n]]
      BY <1>1, <1>2, <1>3, <2>2
    <3>2. step[f[n]] \subseteq T
      BY <1>5, <3>1 DEF Keeps
    <3>3. QED
      BY <3>1, <3>2
  <2> HIDE DEF S
  <2>3. \A n \in 0..N : n \in S
    BY <2>1, <2>2, CountedUp
  <2>4. QED
    BY <1>2, <2>3 DEF S
<1>6. QED
    BY <1>1, <1>2, <1>4, <1>5

(***************************************************************************)
(* The invariant                                                           *)
(***************************************************************************)

IsJournal(j) == DOMAIN j = {"started", "done", "released", "closed", "index"}
IsJob(w)     == DOMAIN w = {"pc", "fence", "saw", "plan", "todo", "key"}
IsReader(w)  == DOMAIN w = {"pc", "kind", "journal", "blind", "since", "owed", "records",
                            "tip", "answer", "told"}

\* What the planner's variables look like.
Shape ==
    /\ trunk \in Seq(Ulids)
    /\ fragments \subseteq Ulids
    /\ setting \in Settings
    /\ IsJournal(journal)
    /\ StartedPlans(journal) \subseteq SUBSET Ulids
    /\ job = [j \in Jobs |-> job[j]]
    /\ \A j \in Jobs : IsJob(job[j])

\* A plan avoids every plan its fence saw.
Avoids(plan, saw) == \A q \in saw : q \cap plan = {}

\* A plan that is done is one that was started, and its fragments are gone.
DoneGone ==
    /\ journal.done \subseteq StartedPlans(journal)
    /\ \A q \in journal.done : q \cap fragments = {}

\* What a job that has read its fence has seen is behind the fence, or gone.
Fenced(j) ==
    job[j].pc = "fenced" =>
        /\ job[j].saw \subseteq StartedPlans(journal)
        /\ \A q \in job[j].saw : q \subseteq job[j].fence \/ q \cap fragments = {}
Planned(j) ==
    job[j].pc \in {"built", "packages", "won", "released"} =>
        /\ job[j].plan.consumed \subseteq Ulids
        /\ Avoids(job[j].plan.consumed, job[j].saw)
        /\ job[j].pc # "built" => job[j].plan.consumed \in StartedPlans(journal)

\* An entry of the index is a started plan with that change in it.
Honest(index) ==
    \A u \in DOMAIN index : index[u] \in StartedPlans(journal) /\ u \in index[u]

PlanInv ==
    /\ Shape
    /\ \A s \in journal.started : Avoids(s.plan, s.saw)
    /\ DoneGone
    /\ \A j \in Jobs : Fenced(j) /\ Planned(j)
    /\ Honest(journal.index)

(***************************************************************************)
(* The planner                                                             *)
(***************************************************************************)

LEMMA PlanInit == PlannerInit => PlanInv
<1> USE DEF PlannerInit, EmptyJournal, IdleJob, NoPlan
<1> SUFFICES ASSUME PlannerInit PROVE PlanInv
    OBVIOUS
<1>1. Shape
    BY DEF Shape, IsJournal, IsJob, StartedPlans
<1>2. QED
    BY <1>1 DEF PlanInv, Avoids, DoneGone, Fenced, Planned, Honest, StartedPlans

\* What is on trunk when one more change lands, or the last is taken off.
LEMMA OnTrunkAppend ==
    ASSUME NEW u \in Ulids, trunk \in Seq(Ulids), trunk' = Append(trunk, u)
    PROVE  trunk' \in Seq(Ulids) /\ OnTrunk' = OnTrunk \cup {u}
    BY DEF OnTrunk

LEMMA OnTrunkCut ==
    ASSUME trunk \in Seq(Ulids), trunk # <<>>, trunk' = SubSeq(trunk, 1, Len(trunk) - 1)
    PROVE  trunk' \in Seq(Ulids) /\ OnTrunk' \subseteq OnTrunk
<1>1. Len(trunk) \in Nat /\ Len(trunk) > 0
    OBVIOUS
<1>2. QED
    BY <1>1 DEF OnTrunk

LEMMA LandChangeInv ==
    ASSUME PlanInv, NEW u \in Ulids, LandChange(u)
    PROVE  PlanInv'
<1> USE DEF PlanInv, LandChange
<1>1. Shape'
    BY OnTrunkAppend DEF Shape, StartedPlans
<1>2. DoneGone'
    BY DEF DoneGone, StartedPlans
<1>3. \A j \in Jobs : Fenced(j)' /\ Planned(j)'
    BY DEF Fenced, Planned, StartedPlans
<1>4. Honest(journal.index)'
    BY DEF Honest, StartedPlans
<1>5. \A s \in journal'.started : Avoids(s.plan, s.saw)'
    BY DEF Avoids
<1>6. QED
    BY <1>1, <1>2, <1>3, <1>4, <1>5

\* A step that moves one job, takes nothing but fragments away and only adds plans
\* to the journal.
LEMMA Moves ==
    ASSUME PlanInv, NEW j \in Jobs, NEW w,
           job' = [job EXCEPT ![j] = w], IsJob(w), Fenced(j)', Planned(j)',
           UNCHANGED <<trunk, setting>>, fragments' \subseteq fragments,
           IsJournal(journal)', StartedPlans(journal) \subseteq StartedPlans(journal)',
           StartedPlans(journal)' \subseteq SUBSET Ulids,
           \A s \in journal'.started : Avoids(s.plan, s.saw),
           DoneGone', Honest(journal.index)'
    PROVE  PlanInv'
<1>1. job'[j] = w /\ \A k \in Jobs \ {j} : job'[k] = job[k]
    BY DEF PlanInv, Shape
<1>2. Shape'
    BY <1>1 DEF PlanInv, Shape
<1>3. \A k \in Jobs : Fenced(k)' /\ Planned(k)'
  <2>1. SUFFICES ASSUME NEW k \in Jobs \ {j} PROVE Fenced(k)' /\ Planned(k)'
    OBVIOUS
  <2>2. job'[k] = job[k] /\ Fenced(k) /\ Planned(k)
    BY <1>1, <2>1 DEF PlanInv
  <2>3. QED
    BY <2>2 DEF Fenced, Planned, Avoids
<1>4. QED
    BY <1>2, <1>3 DEF PlanInv

LEMMA JobMoves ==
    ASSUME PlanInv, NEW j \in Jobs, NEW w,
           job' = [job EXCEPT ![j] = w], IsJob(w), Fenced(j)', Planned(j)',
           UNCHANGED <<trunk, setting, journal>>, fragments' \subseteq fragments
    PROVE  PlanInv'
<1>1. /\ IsJournal(journal)' /\ StartedPlans(journal) \subseteq StartedPlans(journal)'
      /\ StartedPlans(journal)' \subseteq SUBSET Ulids
    BY DEF PlanInv, Shape, IsJournal, StartedPlans
<1>2. \A s \in journal'.started : Avoids(s.plan, s.saw)
    BY DEF PlanInv
<1>3. DoneGone' /\ Honest(journal.index)'
    BY DEF PlanInv, DoneGone, Honest, StartedPlans
<1>4. QED
    BY <1>1, <1>2, <1>3, Moves

LEMMA ReadFenceInv ==
    ASSUME PlanInv, NEW j \in Jobs, ReadFence(j)
    PROVE  PlanInv'
<1> DEFINE w == [IdleJob EXCEPT !.pc = "fenced", !.fence = InFlight(journal),
                                !.saw = StartedPlans(journal)]
<1>1. job' = [job EXCEPT ![j] = w]
    BY DEF ReadFence
<1>2. /\ IsJob(w) /\ w.pc = "fenced"
      /\ w.fence = InFlight(journal) /\ w.saw = StartedPlans(journal)
    BY DEF IsJob, IdleJob
<1> HIDE DEF w
<1>3. job'[j] = w
    BY <1>1 DEF PlanInv, Shape
<1>4. UNCHANGED <<trunk, setting, journal>> /\ fragments' \subseteq fragments
    BY DEF ReadFence
<1>5. Fenced(j)'
  <2>1. \A q \in StartedPlans(journal) : q \subseteq InFlight(journal) \/ q \cap fragments = {}
    BY DEF PlanInv, DoneGone, InFlight
  <2>2. QED
    BY <1>2, <1>3, <1>4, <2>1 DEF Fenced, StartedPlans
<1>6. Planned(j)'
    BY <1>2, <1>3 DEF Planned
<1>7. QED
    BY <1>1, <1>2, <1>4, <1>5, <1>6, JobMoves

LEMMA BuildInv ==
    ASSUME PlanInv, NEW j \in Jobs, Build(j)
    PROVE  PlanInv'
<1> DEFINE active == fragments \ job[j].fence
           plan   == BuildPlan(active, [u \in Ulids |-> Declared(Fragment[u])], Current,
                               setting.deps, setting.single)
           raises == Cyclic(setting.deps, Components)
           built  == [job[j] EXCEPT !.pc = "built", !.plan = plan]
           w      == IF raises \/ active = {} THEN IdleJob ELSE built
<1>1. plan.consumed = active
    BY DEF BuildPlan
<1>2. job[j].pc = "fenced" /\ IsJob(job[j])
    BY DEF Build, PlanInv, Shape
<1>3. job' = [job EXCEPT ![j] = w]
    BY DEF Build
<1>4. UNCHANGED <<trunk, setting, journal>> /\ fragments' \subseteq fragments
    BY DEF Build
<1> HIDE DEF plan, raises
<1>5. /\ IsJob(built) /\ built.pc = "built"
      /\ built.saw = job[j].saw /\ built.plan = plan
    BY <1>2 DEF IsJob
<1>6. Avoids(active, job[j].saw) /\ active \subseteq Ulids
    BY <1>2 DEF PlanInv, Shape, Fenced, Avoids
<1> HIDE DEF active, built
<1>7. IsJob(w)
    BY <1>5 DEF IsJob, IdleJob
<1>8. job'[j] = w
    BY <1>3 DEF PlanInv, Shape
<1>9. Fenced(j)' /\ Planned(j)'
  <2>1. CASE w = IdleJob
    BY <1>8, <2>1 DEF Fenced, Planned, IdleJob
  <2>2. CASE w = built
    BY <1>1, <1>5, <1>6, <1>8, <2>2 DEF Fenced, Planned, Avoids
  <2>3. QED
    BY <2>1, <2>2
<1> HIDE DEF w
<1>10. QED
    BY <1>3, <1>4, <1>7, <1>9, JobMoves

LEMMA StartInv ==
    ASSUME PlanInv, NEW j \in Jobs, Start(j)
    PROVE  PlanInv'
<1> DEFINE h == job[j].plan.consumed
           s == [plan |-> h, saw |-> job[j].saw]
           w == [job[j] EXCEPT !.pc = "packages", !.todo = KeysOf(job[j].plan)]
<1>1. job[j].pc = "built" /\ IsJob(job[j]) /\ IsJournal(journal)
    BY DEF Start, PlanInv, Shape
<1>2. UNCHANGED <<trunk, setting>> /\ fragments' \subseteq fragments
    BY DEF Start
<1>3. h \subseteq Ulids /\ Avoids(h, job[j].saw)
    BY <1>1 DEF PlanInv, Planned
<1>4. CASE h \in journal.done
  <2>1. job' = [job EXCEPT ![j] = IdleJob] /\ UNCHANGED journal
    BY <1>4 DEF Start
  <2>2. job'[j] = IdleJob
    BY <2>1 DEF PlanInv, Shape
  <2>3. IsJob(IdleJob) /\ Fenced(j)' /\ Planned(j)'
    BY <2>2 DEF IsJob, IdleJob, Fenced, Planned
  <2>4. QED
    BY <1>2, <2>1, <2>3, JobMoves
<1>5. CASE h \notin journal.done
  <2>1. /\ journal'.started = journal.started \cup {s}
        /\ journal'.done = journal.done
        /\ journal'.index = [u \in DOMAIN journal.index \cup (h \cap Identified) |->
                                IF u \in h \cap Identified THEN h ELSE journal.index[u]]
        /\ IsJournal(journal')
    BY <1>1, <1>5 DEF Start, IsJournal
  <2>2. job' = [job EXCEPT ![j] = w]
    BY <1>1, <1>5 DEF Start, PlanInv, Shape
  <2>3. IsJob(w) /\ w.pc = "packages" /\ w.saw = job[j].saw /\ w.plan = job[j].plan
    BY <1>1 DEF IsJob
  <2> HIDE DEF w
  <2>4. job'[j] = w
    BY <2>2 DEF PlanInv, Shape
  <2>5. StartedPlans(journal)' = StartedPlans(journal) \cup {h}
    <3>1. s.plan = h
      OBVIOUS
    <3> HIDE DEF s, h
    <3>2. QED
      BY <2>1, <3>1 DEF StartedPlans
  <2>6. Fenced(j)' /\ Planned(j)'
    BY <1>3, <2>3, <2>4, <2>5 DEF Fenced, Planned
  <2>7. \A t \in journal'.started : Avoids(t.plan, t.saw)
    BY <1>3, <2>1 DEF PlanInv
  <2>8. DoneGone'
    BY <1>2, <2>1, <2>5 DEF PlanInv, DoneGone
  <2>9. Honest(journal.index)'
    BY <2>1, <2>5 DEF PlanInv, Honest
  <2>10. StartedPlans(journal)' \subseteq SUBSET Ulids
    BY <1>3, <2>5 DEF PlanInv, Shape
  <2> HIDE DEF s
  <2>11. QED
    BY <1>2, <2>1, <2>2, <2>3, <2>5, <2>6, <2>7, <2>8, <2>9, <2>10, Moves
<1>6. QED
    BY <1>4, <1>5

LEMMA RetireInv ==
    ASSUME PlanInv, NEW j \in Jobs, Retire(j)
    PROVE  PlanInv'
<1>1. UNCHANGED <<trunk, setting, journal, job>> /\ fragments' \subseteq fragments
    BY DEF Retire
<1>2. job' = [job EXCEPT ![j] = job[j]] /\ IsJob(job[j])
    BY <1>1 DEF PlanInv, Shape
<1>3. Fenced(j)' /\ Planned(j)'
    BY <1>1 DEF PlanInv, Fenced, Planned, Avoids, StartedPlans
<1>4. QED
    BY <1>1, <1>2, <1>3, JobMoves

\* A run goes on with its packages; of the journal it changes at most what is
\* released and what is closed.
Onward(j, w) ==
    /\ job[j].pc \in {"packages", "won", "released"}
    /\ w.pc \in {"packages", "won", "released"}
    /\ IsJob(w) /\ w.saw = job[j].saw /\ w.plan = job[j].plan
SamePlans ==
    /\ IsJournal(journal')
    /\ journal'.started = journal.started /\ journal'.done = journal.done
    /\ journal'.index = journal.index

LEMMA OnwardInv ==
    ASSUME PlanInv, NEW j \in Jobs, NEW w, Onward(j, w), job' = [job EXCEPT ![j] = w],
           UNCHANGED <<trunk, fragments, setting>>, SamePlans
    PROVE  PlanInv'
<1> USE DEF SamePlans
<1>1. job'[j] = w
    BY DEF PlanInv, Shape
<1>2. StartedPlans(journal)' = StartedPlans(journal)
    BY DEF StartedPlans
<1>3. IsJob(w) /\ Fenced(j)' /\ Planned(j)'
    BY <1>1, <1>2 DEF PlanInv, Fenced, Planned, Onward
<1>4. DoneGone' /\ Honest(journal.index)'
    BY <1>2 DEF PlanInv, DoneGone, Honest
<1>5. /\ \A s \in journal'.started : Avoids(s.plan, s.saw)
      /\ StartedPlans(journal)' \subseteq SUBSET Ulids
    BY <1>2 DEF PlanInv, Shape
<1>6. QED
    BY <1>2, <1>3, <1>4, <1>5, Moves

\* The package at which a job stands, and what it does about it.
Chooses(j) == \E k \in job[j].todo : PassOver(j, k) \/ Win(j, k) \/ WinUnheard(j, k)

LEMMA ChoosesInv ==
    ASSUME PlanInv, NEW j \in Jobs, Chooses(j)
    PROVE  PlanInv'
<1>1. PICK k \in job[j].todo : PassOver(j, k) \/ Win(j, k) \/ WinUnheard(j, k)
    BY DEF Chooses
<1>2. /\ UNCHANGED <<trunk, fragments, setting, journal>>
      /\ job[j].pc = "packages" /\ IsJob(job[j]) /\ IsJournal(journal)
    BY <1>1 DEF PassOver, Win, WinUnheard, Turn, PlanInv, Shape
<1>3. SamePlans
    BY <1>2 DEF SamePlans, IsJournal
<1> DEFINE past == [job[j] EXCEPT !.todo = @ \ {k}]
           won  == [job[j] EXCEPT !.pc = "won", !.key = k, !.todo = @ \ {k}]
<1>4. job' = [job EXCEPT ![j] = past] \/ job' = [job EXCEPT ![j] = won]
    BY <1>1 DEF PassOver, Win, WinUnheard, PlanInv, Shape
<1>5. Onward(j, past) /\ Onward(j, won)
    BY <1>2 DEF IsJob, Onward
<1> HIDE DEF past, won
<1>6. QED
    BY <1>2, <1>3, <1>4, <1>5, OnwardInv

LEMMA RecordReleasedInv ==
    ASSUME PlanInv, NEW j \in Jobs, RecordReleased(j)
    PROVE  PlanInv'
<1> DEFINE w == [job[j] EXCEPT !.pc = "released"]
<1>1. job[j].pc = "won" /\ IsJob(job[j]) /\ IsJournal(journal)
    BY DEF RecordReleased, PlanInv, Shape
<1>2. UNCHANGED <<trunk, fragments, setting>> /\ SamePlans
    BY <1>1 DEF RecordReleased, IsJournal, SamePlans
<1>3. job' = [job EXCEPT ![j] = w]
    BY DEF RecordReleased, PlanInv, Shape
<1>4. Onward(j, w)
    BY <1>1 DEF IsJob, Onward
<1> HIDE DEF w
<1>5. QED
    BY <1>2, <1>3, <1>4, OnwardInv

LEMMA CloseIssueInv ==
    ASSUME PlanInv, NEW j \in Jobs, CloseIssue(j)
    PROVE  PlanInv'
<1> DEFINE w == [job[j] EXCEPT !.pc = "packages", !.key = <<>>]
<1>1. job[j].pc = "released" /\ IsJob(job[j]) /\ IsJournal(journal)
    BY DEF CloseIssue, PlanInv, Shape
<1>2. UNCHANGED <<trunk, fragments, setting>> /\ SamePlans
    BY <1>1 DEF CloseIssue, IsJournal, SamePlans
<1>3. job' = [job EXCEPT ![j] = w]
    BY DEF CloseIssue, PlanInv, Shape
<1>4. Onward(j, w)
    BY <1>1 DEF IsJob, Onward
<1> HIDE DEF w
<1>5. QED
    BY <1>2, <1>3, <1>4, OnwardInv

LEMMA KillInv ==
    ASSUME PlanInv, NEW j \in Jobs, Kill(j)
    PROVE  PlanInv'
<1>1. UNCHANGED <<trunk, setting, journal, fragments>> /\ job' = [job EXCEPT ![j] = IdleJob]
    BY DEF Kill
<1>2. job'[j] = IdleJob
    BY <1>1 DEF PlanInv, Shape
<1>3. IsJob(IdleJob) /\ Fenced(j)' /\ Planned(j)'
    BY <1>2 DEF IsJob, IdleJob, Fenced, Planned
<1>4. QED
    BY <1>1, <1>3, JobMoves

LEMMA FinalizeInv ==
    ASSUME PlanInv, NEW j \in Jobs, Finalize(j)
    PROVE  PlanInv'
<1> DEFINE h == job[j].plan.consumed
<1>1. job[j].pc = "packages" /\ h \cap fragments = {} /\ IsJournal(journal)
    BY DEF Finalize, PlanInv, Shape
<1>2. UNCHANGED <<trunk, setting, fragments>> /\ job' = [job EXCEPT ![j] = IdleJob]
    BY DEF Finalize
<1>3. /\ journal'.started = journal.started
      /\ journal'.done = journal.done \/ journal'.done = journal.done \cup {h}
      /\ journal'.index = journal.index /\ IsJournal(journal')
    BY <1>1 DEF Finalize, IsJournal
<1>4. job'[j] = IdleJob
    BY <1>2 DEF PlanInv, Shape
<1>5. IsJob(IdleJob) /\ Fenced(j)' /\ Planned(j)'
    BY <1>4 DEF IsJob, IdleJob, Fenced, Planned
<1>6. StartedPlans(journal)' = StartedPlans(journal)
    BY <1>3 DEF StartedPlans
<1>7. h \in StartedPlans(journal)
    BY <1>1 DEF PlanInv, Planned
<1>8. DoneGone' /\ Honest(journal.index)'
    BY <1>1, <1>2, <1>3, <1>6, <1>7 DEF PlanInv, DoneGone, Honest
<1>9. /\ \A s \in journal'.started : Avoids(s.plan, s.saw)
      /\ StartedPlans(journal)' \subseteq SUBSET Ulids
    BY <1>3, <1>6 DEF PlanInv, Shape
<1>10. QED
    BY <1>2, <1>3, <1>5, <1>6, <1>8, <1>9, Moves

LEMMA PlannerKeeps ==
    ASSUME PlanInv, PlannerNext
    PROVE  PlanInv'
<1>1. setting.jobs \subseteq Jobs
    BY PlannerAssumption DEF PlanInv, Shape
<1>2. CASE \E u \in Ulids : LandChange(u)
    BY <1>2, LandChangeInv
<1>3. CASE \E j \in setting.jobs : JobStep(j)
    BY <1>1, <1>3, ReadFenceInv, BuildInv, StartInv, RetireInv, ChoosesInv,
       RecordReleasedInv, FinalizeInv, KillInv
       DEF JobStep, Chooses
<1>4. QED
    BY <1>2, <1>3 DEF PlannerNext

\* What a step of the planner never takes back, and what it may do to trunk.
LEMMA PlannerGrows ==
    ASSUME PlanInv, PlannerNext
    PROVE  /\ StartedPlans(journal) \subseteq StartedPlans(journal)'
           /\ journal.done \subseteq journal'.done
           /\ journal.closed => journal'.closed
           /\ OnTrunk' \cap UNION StartedPlans(journal) \subseteq OnTrunk
<1>1. IsJournal(journal) /\ trunk \in Seq(Ulids)
    BY DEF PlanInv, Shape
<1>2. CASE \E u \in Ulids : LandChange(u)
  <2>1. PICK u \in Ulids : LandChange(u)
    BY <1>2
  <2>2. trunk' = Append(trunk, u) /\ UNCHANGED journal /\ u \notin UNION StartedPlans(journal)
    BY <2>1 DEF LandChange
  <2>3. OnTrunk' = OnTrunk \cup {u}
    BY <1>1, <2>2, OnTrunkAppend
  <2>4. QED
    BY <2>2, <2>3 DEF StartedPlans
<1>3. CASE \E j \in setting.jobs : JobStep(j)
  <2>1. PICK j \in setting.jobs : JobStep(j)
    BY <1>3
  <2>2. /\ journal.started \subseteq journal'.started
        /\ journal.done \subseteq journal'.done
        /\ journal.closed => journal'.closed
    <3>1. DOMAIN journal = {"started", "done", "released", "closed", "index"}
      BY <1>1 DEF IsJournal
    <3>2. CASE ReadFence(j) \/ Build(j) \/ Retire(j) \/ Chooses(j) \/ Kill(j)
      BY <3>2 DEF ReadFence, Build, Retire, Chooses, PassOver, Win, WinUnheard, Kill
    <3>3. CASE Start(j)
      BY <3>1, <3>3 DEF Start
    <3>4. CASE RecordReleased(j)
      BY <3>1, <3>4 DEF RecordReleased
    <3>5. CASE Finalize(j)
      BY <3>1, <3>5 DEF Finalize
    <3>6. QED
      BY <2>1, <3>2, <3>3, <3>4, <3>5 DEF JobStep, Chooses
  <2>3. UNCHANGED trunk
    BY <2>1 DEF JobStep, ReadFence, Build, Start, Retire, PassOver, Win, WinUnheard,
       RecordReleased, Finalize, Kill
  <2>4. QED
    BY <2>2, <2>3 DEF StartedPlans, OnTrunk
<1>4. QED
    BY <1>2, <1>3 DEF PlannerNext

LEMMA ForcePushInv ==
    ASSUME PlanInv, ForcePush
    PROVE  PlanInv' /\ OnTrunk' \subseteq OnTrunk
<1>1. /\ trunk # <<>> /\ trunk' = SubSeq(trunk, 1, Len(trunk) - 1)
      /\ fragments' \subseteq fragments /\ UNCHANGED <<setting, journal, job>>
    BY DEF ForcePush
<1>2. trunk \in Seq(Ulids)
    BY DEF PlanInv, Shape
<1>3. trunk' \in Seq(Ulids) /\ OnTrunk' \subseteq OnTrunk
    BY <1>1, <1>2, OnTrunkCut
<1>4. Shape'
    BY <1>1, <1>3 DEF PlanInv, Shape, StartedPlans
<1>5. DoneGone' /\ Honest(journal.index)'
    BY <1>1 DEF PlanInv, DoneGone, Honest, StartedPlans
<1>6. \A j \in Jobs : Fenced(j)' /\ Planned(j)'
    BY <1>1 DEF PlanInv, Fenced, Planned, StartedPlans, Avoids
<1>7. QED
    BY <1>1, <1>3, <1>4, <1>5, <1>6 DEF PlanInv, Avoids

LEMMA StillPlanned ==
    ASSUME PlanInv, UNCHANGED plannerVars
    PROVE  PlanInv'
<1>1. UNCHANGED <<trunk, fragments, setting, journal, job>>
    BY DEF plannerVars
<1>2. Shape' /\ DoneGone' /\ Honest(journal.index)'
    BY <1>1 DEF PlanInv, Shape, DoneGone, Honest, StartedPlans
<1>3. \A j \in Jobs : Fenced(j)' /\ Planned(j)'
    BY <1>1 DEF PlanInv, Fenced, Planned, StartedPlans, Avoids
<1>4. QED
    BY <1>1, <1>2, <1>3 DEF PlanInv, Avoids

(***************************************************************************)
(* The readers                                                             *)
(***************************************************************************)

\* A record that names a plan names a started one with its change in it.
HonestRecords(recs) ==
    \A i \in DOMAIN recs :
        recs[i].plan # Unresolved =>
            recs[i].plan \in StartedPlans(journal) /\ recs[i].change \in recs[i].plan

\* What verify would complain about now, with the journal j.
Owing(j) == (ReleasedChanges(j) \ OnTrunk)
            \cup (IF j.closed /\ issue # "closed" THEN {"issue"} ELSE {})

\* What a reader has read is a part of what there is to read; what verify owed when
\* it began it would still complain about.
Good(w) ==
    /\ IsReader(w) /\ w.blind \in BOOLEAN
    /\ w.journal.done \subseteq journal.done
    /\ w.journal.closed => journal.closed
    /\ Honest(w.journal.index)
    /\ HonestRecords(w.records)
    /\ w.told \subseteq UNION journal.done
    /\ (w.pc = "trunk" /\ w.kind = "verify" /\ ~w.blind) => w.owed \subseteq Owing(w.journal)
    /\ w.pc = "trunk" => w.answer = "none"
    /\ (w.answer = "ok" /\ ~w.blind) => w.owed = {}

ReadInv ==
    /\ reader = [r \in Readers |-> reader[r]]
    /\ \A r \in Readers : Good(reader[r])
    /\ HonestRecords(ledger.records)

LedgerInv == PlanInv /\ ReadInv

\* A reader stays good while the journal grows, changes that no started plan has
\* land, and the recorded issue is not closed a second time.
LEMMA StaysGood ==
    ASSUME PlanInv,
           StartedPlans(journal) \subseteq StartedPlans(journal)',
           journal.done \subseteq journal'.done,
           journal.closed => journal'.closed,
           OnTrunk' \cap UNION StartedPlans(journal) \subseteq OnTrunk,
           (journal.closed /\ issue # "closed") => issue' # "closed",
           NEW w, Good(w)
    PROVE  Good(w)'
<1>1. Honest(w.journal.index)' /\ HonestRecords(w.records)'
    BY DEF Good, Honest, HonestRecords
<1>2. Owing(w.journal) \subseteq Owing(w.journal)'
  <2>1. w.journal.done \subseteq StartedPlans(journal)
    BY DEF Good, PlanInv, DoneGone
  <2>2. ReleasedChanges(w.journal) \ OnTrunk \subseteq ReleasedChanges(w.journal) \ OnTrunk'
    BY <2>1 DEF ReleasedChanges
  <2>3. (w.journal.closed /\ issue # "closed") => issue' # "closed"
    BY DEF Good
  <2>4. QED
    BY <2>2, <2>3 DEF Owing, ReleasedChanges
<1>3. w.told \subseteq UNION journal'.done
    BY DEF Good
<1>4. QED
    BY <1>1, <1>2, <1>3 DEF Good

LEMMA StaysHonest ==
    ASSUME NEW recs, HonestRecords(recs),
           StartedPlans(journal) \subseteq StartedPlans(journal)'
    PROVE  HonestRecords(recs)'
    BY DEF HonestRecords

LEMMA LedgerInit == Init => LedgerInv
<1> SUFFICES ASSUME Init PROVE LedgerInv
    OBVIOUS
<1>1. PlanInv
    BY PlanInit DEF Init
<1>2. journal.done = {} /\ reader = [r \in Readers |-> IdleReader] /\ ledger.records = <<>>
    BY DEF Init, PlannerInit, EmptyJournal
<1>3. Good(IdleReader)
    BY DEF Good, IsReader, IdleReader, EmptyJournal, Honest, HonestRecords
<1>4. QED
    BY <1>1, <1>2, <1>3 DEF LedgerInv, ReadInv, HonestRecords

\* A step of the world around the readers.
LEMMA AroundReaders ==
    ASSUME LedgerInv, PlanInv', UNCHANGED <<reader, ledger>>,
           StartedPlans(journal) \subseteq StartedPlans(journal)',
           journal.done \subseteq journal'.done,
           journal.closed => journal'.closed,
           OnTrunk' \cap UNION StartedPlans(journal) \subseteq OnTrunk,
           (journal.closed /\ issue # "closed") => issue' # "closed"
    PROVE  LedgerInv'
<1>1. \A r \in Readers : Good(reader[r])'
  <2>1. SUFFICES ASSUME NEW r \in Readers PROVE Good(reader[r])'
    OBVIOUS
  <2>2. Good(reader[r])
    BY DEF LedgerInv, ReadInv
  <2>3. PICK w : w = reader[r]
    OBVIOUS
  <2>4. Good(w)'
    BY <2>2, <2>3, StaysGood DEF LedgerInv
  <2>5. QED
    BY <2>3, <2>4 DEF Good, Owing
<1>2. HonestRecords(ledger.records)'
    BY DEF LedgerInv, ReadInv, HonestRecords
<1>3. QED
    BY <1>1, <1>2 DEF LedgerInv, ReadInv

\* A step of one reader.
LEMMA ReaderMoves ==
    ASSUME LedgerInv, NEW r \in Readers, NEW w, reader' = [reader EXCEPT ![r] = w], Good(w),
           UNCHANGED <<plannerVars, issue>>, HonestRecords(ledger'.records)
    PROVE  LedgerInv'
<1>1. PlanInv'
    BY StillPlanned DEF LedgerInv
<1>2. UNCHANGED <<trunk, journal, issue>>
    BY DEF plannerVars
<1>3. \A v : Good(v) => Good(v)'
    BY <1>2 DEF Good, Owing, OnTrunk, Honest, HonestRecords, StartedPlans, ReleasedChanges
<1>4. \A s \in Readers : reader'[s] = IF s = r THEN w ELSE reader[s]
    BY DEF LedgerInv, ReadInv
<1>5. \A s \in Readers : Good(reader[s])'
  <2>1. SUFFICES ASSUME NEW s \in Readers PROVE Good(reader[s])'
    OBVIOUS
  <2>2. PICK v : v = reader'[s]
    OBVIOUS
  <2>3. Good(v)
    BY <1>4, <2>2 DEF LedgerInv, ReadInv
  <2>4. Good(v)'
    BY <1>3, <2>3
  <2>5. QED
    BY <2>2, <2>4 DEF Good, Owing
<1>6. HonestRecords(ledger.records)'
    BY <1>2 DEF HonestRecords, StartedPlans
<1>7. reader' = [s \in Readers |-> reader'[s]]
    BY DEF LedgerInv, ReadInv
<1>8. QED
    BY <1>1, <1>5, <1>6, <1>7 DEF LedgerInv, ReadInv

LEMMA PlannerStepInv ==
    ASSUME LedgerInv, PlannerStep
    PROVE  LedgerInv'
<1>1. PlannerNext /\ UNCHANGED <<reader, ledger, issue>>
    BY DEF PlannerStep, ledgerVars
<1>2. PlanInv'
    BY <1>1, PlannerKeeps DEF LedgerInv
<1>3. /\ StartedPlans(journal) \subseteq StartedPlans(journal)'
      /\ journal.done \subseteq journal'.done
      /\ journal.closed => journal'.closed
      /\ OnTrunk' \cap UNION StartedPlans(journal) \subseteq OnTrunk
    BY <1>1, PlannerGrows DEF LedgerInv
<1>4. (journal.closed /\ issue # "closed") => issue' # "closed"
    BY <1>1
<1>5. QED
    BY <1>1, <1>2, <1>3, <1>4, AroundReaders

\* A reader stays good when the issue is closed that it owed.
LEMMA ClosingGood ==
    ASSUME NEW w, Good(w), UNCHANGED trunk, issue' = "closed",
           journal'.started = journal.started, journal'.done = journal.done,
           journal'.closed
    PROVE  Good([w EXCEPT !.owed = @ \ {"issue"}])'
<1> DEFINE v == [w EXCEPT !.owed = @ \ {"issue"}]
<1>1. /\ IsReader(v) /\ v.blind = w.blind /\ v.journal = w.journal /\ v.records = w.records
      /\ v.told = w.told /\ v.pc = w.pc /\ v.kind = w.kind /\ v.answer = w.answer
      /\ v.owed = w.owed \ {"issue"}
    BY DEF Good, IsReader
<1> HIDE DEF v
<1>2. w.owed \subseteq Owing(w.journal) => v.owed \subseteq Owing(v.journal)'
    BY <1>1 DEF Owing, ReleasedChanges, OnTrunk
<1>3. Honest(v.journal.index)' /\ HonestRecords(v.records)'
    BY <1>1 DEF Good, Honest, HonestRecords, StartedPlans
<1>4. Good(v)'
    BY <1>1, <1>2, <1>3 DEF Good
<1>5. QED
    BY <1>4 DEF v

LEMMA CloseStepInv ==
    ASSUME LedgerInv, NEW j \in Jobs, NEW fails \in BOOLEAN, CloseStep(j, fails)
    PROVE  LedgerInv'
<1>1. CloseIssue(j) /\ UNCHANGED ledger /\ IsJournal(journal)
    BY DEF CloseStep, LedgerInv, PlanInv, Shape
<1>2. PlanInv'
    BY <1>1, CloseIssueInv DEF LedgerInv
<1>3. /\ journal'.started = journal.started /\ journal'.done = journal.done
      /\ journal'.closed /\ UNCHANGED trunk
    BY <1>1 DEF CloseIssue, IsJournal
<1>4. CASE fails
  <2>1. UNCHANGED <<reader, issue>>
    BY <1>4 DEF CloseStep
  <2>2. /\ StartedPlans(journal) \subseteq StartedPlans(journal)'
        /\ OnTrunk' \cap UNION StartedPlans(journal) \subseteq OnTrunk
    BY <1>3 DEF StartedPlans, OnTrunk
  <2>3. QED
    BY <1>1, <1>2, <1>3, <2>1, <2>2, AroundReaders
<1>5. CASE ~fails
  <2>1. /\ issue' = "closed"
        /\ reader' = [r \in Readers |-> [reader[r] EXCEPT !.owed = @ \ {"issue"}]]
    BY <1>5 DEF CloseStep
  <2>2. \A r \in Readers : Good(reader[r])'
    <3>1. SUFFICES ASSUME NEW r \in Readers PROVE Good(reader[r])'
      OBVIOUS
    <3>2. PICK w : w = reader[r]
      OBVIOUS
    <3>3. PICK v : v = [w EXCEPT !.owed = @ \ {"issue"}]
      OBVIOUS
    <3>4. Good(w)
      BY <3>2 DEF LedgerInv, ReadInv
    <3>5. Good(v)'
      BY <1>3, <2>1, <3>3, <3>4, ClosingGood
    <3>6. reader'[r] = v
      BY <2>1, <3>2, <3>3
    <3>7. QED
      BY <3>5, <3>6 DEF Good, Owing
  <2>3. HonestRecords(ledger.records)'
    BY <1>1, <1>3 DEF LedgerInv, ReadInv, HonestRecords, StartedPlans
  <2>4. QED
    BY <1>2, <2>1, <2>2, <2>3 DEF LedgerInv, ReadInv
<1>6. QED
    BY <1>4, <1>5

LEMMA ForcePushKeeps ==
    ASSUME LedgerInv, ForcePush
    PROVE  LedgerInv'
<1>1. PlanInv' /\ OnTrunk' \subseteq OnTrunk
    BY ForcePushInv DEF LedgerInv
<1>2. UNCHANGED <<reader, ledger, journal, issue>>
    BY DEF ForcePush
<1>3. /\ StartedPlans(journal) \subseteq StartedPlans(journal)'
      /\ journal.done \subseteq journal'.done /\ (journal.closed => journal'.closed)
    BY <1>2 DEF StartedPlans
<1>4. QED
    BY <1>1, <1>2, <1>3, AroundReaders

LEMMA ReopenKeeps ==
    ASSUME LedgerInv, Reopen
    PROVE  LedgerInv'
<1>1. UNCHANGED <<plannerVars, reader, ledger>> /\ issue' # "closed"
    BY DEF Reopen
<1>2. PlanInv'
    BY <1>1, StillPlanned DEF LedgerInv
<1>3. UNCHANGED <<trunk, journal>>
    BY <1>1 DEF plannerVars
<1>4. /\ StartedPlans(journal) \subseteq StartedPlans(journal)'
      /\ journal.done \subseteq journal'.done /\ (journal.closed => journal'.closed)
      /\ OnTrunk' \cap UNION StartedPlans(journal) \subseteq OnTrunk
    BY <1>3 DEF StartedPlans, OnTrunk
<1>5. QED
    BY <1>1, <1>2, <1>4, AroundReaders

\* An idle reader is good whatever it has answered, as long as the answer is.
LEMMA IdleGood == Good(IdleReader)
    BY DEF Good, IsReader, IdleReader, EmptyJournal, Honest, HonestRecords

LEMMA SameLedger ==
    ASSUME LedgerInv, UNCHANGED ledger
    PROVE  HonestRecords(ledger'.records)
    BY DEF LedgerInv, ReadInv

LEMMA ReadJournalInv ==
    ASSUME LedgerInv, NEW r \in Readers, NEW kind, NEW fails \in BOOLEAN,
           ReadJournal(r, kind, fails)
    PROVE  LedgerInv'
<1> DEFINE j == IF fails THEN EmptyJournal ELSE journal
           owed == IF kind = "verify" THEN Owed ELSE {}
           since == IF kind = "rebuild" THEN ledger.writes ELSE 0
           w == [IdleReader EXCEPT !.pc = "trunk", !.kind = kind, !.blind = fails,
                    !.journal = j, !.since = since, !.owed = owed]
<1>1. reader' = [reader EXCEPT ![r] = w] /\ UNCHANGED <<plannerVars, issue, ledger>>
    BY DEF ReadJournal
<1>2. /\ j.done \subseteq journal.done
      /\ j.closed => journal.closed
      /\ Honest(j.index)
    BY DEF EmptyJournal, Honest, LedgerInv, PlanInv
<1>3. ~fails /\ kind = "verify" => owed \subseteq Owing(j)
    BY DEF Owed, Owing
<1> HIDE DEF j, owed, since
<1>4. Good(w)
  <2>1. /\ IsReader(w) /\ w.blind = fails /\ w.journal = j /\ w.records = <<>> /\ w.told = {}
        /\ w.kind = kind /\ w.owed = owed /\ w.answer = "none"
    BY DEF IsReader, IdleReader
  <2> HIDE DEF w
  <2>2. QED
    BY <1>2, <1>3, <2>1 DEF Good, HonestRecords
<1> HIDE DEF w
<1>5. HonestRecords(ledger'.records)
    BY <1>1, SameLedger
<1>6. QED
    BY <1>1, <1>4, <1>5, ReaderMoves

\* What build_ledger joins is honest if the index is.
LEMMA ProjectionHonest ==
    ASSUME NEW commits, NEW j, Honest(j.index)
    PROVE  HonestRecords(Projection(commits, j))
    BY DEF HonestRecords, Projection, Join, Honest

LEMMA ProjectInv ==
    ASSUME LedgerInv, NEW r \in Readers, Project(r)
    PROVE  LedgerInv'
<1> DEFINE recs == Projection(trunk, reader[r].journal)
           moved == [reader[r] EXCEPT !.pc = "push", !.records = recs, !.tip = ledger.writes]
           w == IF ledger.writes > 0 /\ ledger.records = recs THEN IdleReader ELSE moved
<1>1. reader' = [reader EXCEPT ![r] = w] /\ UNCHANGED <<plannerVars, issue, ledger>>
    BY DEF Project
<1>2. Good(reader[r]) /\ reader[r].pc = "trunk"
    BY DEF LedgerInv, ReadInv, Project
<1>3. HonestRecords(recs)
    BY <1>2, ProjectionHonest DEF Good
<1> HIDE DEF recs
<1>4. Good(moved)
  <2>1. /\ IsReader(moved) /\ moved.pc = "push" /\ moved.records = recs
        /\ moved.blind = reader[r].blind /\ moved.journal = reader[r].journal
        /\ moved.told = reader[r].told /\ moved.answer = reader[r].answer
        /\ moved.owed = reader[r].owed
    BY <1>2 DEF Good, IsReader
  <2> HIDE DEF moved
  <2>2. QED
    BY <1>2, <1>3, <2>1 DEF Good
<1>5. Good(w)
    BY <1>4, IdleGood
<1> HIDE DEF w
<1>6. HonestRecords(ledger'.records)
    BY <1>1, SameLedger
<1>7. QED
    BY <1>1, <1>5, <1>6, ReaderMoves

LEMMA OutageInv ==
    ASSUME LedgerInv, NEW r \in Readers, Outage(r) \/ Unlinked(r)
    PROVE  LedgerInv'
<1>1. reader' = [reader EXCEPT ![r] = IdleReader] /\ UNCHANGED <<plannerVars, issue, ledger>>
    BY DEF Outage, Unlinked
<1>2. HonestRecords(ledger'.records)
    BY <1>1, SameLedger
<1>3. QED
    BY <1>1, <1>2, IdleGood, ReaderMoves

LEMMA FetchTipInv ==
    ASSUME LedgerInv, NEW r \in Readers, FetchTip(r)
    PROVE  LedgerInv'
<1> DEFINE w == [reader[r] EXCEPT !.tip = ledger.writes]
<1>1. Good(reader[r])
    BY DEF LedgerInv, ReadInv
<1>2. reader' = [reader EXCEPT ![r] = w] /\ UNCHANGED <<plannerVars, issue, ledger>>
    BY DEF FetchTip, LedgerInv, ReadInv
<1>3. Good(w)
  <2>1. /\ IsReader(w) /\ w.pc = reader[r].pc /\ w.records = reader[r].records
        /\ w.blind = reader[r].blind /\ w.journal = reader[r].journal
        /\ w.told = reader[r].told /\ w.answer = reader[r].answer
        /\ w.owed = reader[r].owed /\ w.kind = reader[r].kind
    BY <1>1 DEF Good, IsReader
  <2> HIDE DEF w
  <2>2. QED
    BY <1>1, <2>1 DEF Good
<1> HIDE DEF w
<1>4. HonestRecords(ledger'.records)
    BY <1>2, SameLedger
<1>5. QED
    BY <1>2, <1>3, <1>4, ReaderMoves

LEMMA PushLedgerInv ==
    ASSUME LedgerInv, NEW r \in Readers, PushLedger(r)
    PROVE  LedgerInv'
<1>1. reader' = [reader EXCEPT ![r] = IdleReader] /\ UNCHANGED <<plannerVars, issue>>
    BY DEF PushLedger
<1>2. ledger'.records = reader[r].records \/ ledger'.records = ledger.records
    BY DEF PushLedger
<1>3. HonestRecords(ledger'.records)
    BY <1>2 DEF LedgerInv, ReadInv, Good
<1>4. QED
    BY <1>1, <1>3, IdleGood, ReaderMoves

\* verify says "ok" only when nothing is owed.
LEMMA VerifyInv ==
    ASSUME LedgerInv, NEW r \in Readers, NEW unknown \in BOOLEAN, Verify(r, unknown)
    PROVE  LedgerInv'
<1> DEFINE j  == reader[r].journal
           ok == /\ ReleasedChanges(j) \subseteq OnTrunk
                 /\ j.closed => issue = "closed" /\ ~unknown
           answer == IF ok THEN "ok" ELSE "violations"
           w == [IdleReader EXCEPT !.answer = answer,
                    !.blind = reader[r].blind, !.owed = reader[r].owed]
<1>1. reader' = [reader EXCEPT ![r] = w] /\ UNCHANGED <<plannerVars, issue, ledger>>
    BY DEF Verify
<1>2. Good(reader[r]) /\ reader[r].pc = "trunk" /\ reader[r].kind = "verify"
    BY DEF LedgerInv, ReadInv, Verify
<1>3. answer = "ok" => Owing(j) = {}
    BY DEF Owing
<1> HIDE DEF answer
<1>4. Good(w)
  <2>1. /\ IsReader(w) /\ w.pc = "idle" /\ w.records = <<>> /\ w.told = {}
        /\ w.blind = reader[r].blind /\ w.owed = reader[r].owed /\ w.answer = answer
        /\ w.journal = EmptyJournal
    BY DEF IsReader, IdleReader
  <2>2. (answer = "ok" /\ ~reader[r].blind) => reader[r].owed = {}
    BY <1>2, <1>3 DEF Good
  <2>3. reader[r].blind \in BOOLEAN
    BY <1>2 DEF Good
  <2> HIDE DEF w
  <2>4. QED
    BY <2>1, <2>2, <2>3 DEF Good, EmptyJournal, Honest, HonestRecords
<1> HIDE DEF w
<1>5. HonestRecords(ledger'.records)
    BY <1>1, SameLedger
<1>6. QED
    BY <1>1, <1>4, <1>5, ReaderMoves

\* What trace tells released is in a plan that is done.
LEMMA TraceInv ==
    ASSUME LedgerInv, NEW r \in Readers, Trace(r)
    PROVE  LedgerInv'
<1> DEFINE j == reader[r].journal
           told == {u \in OnTrunk : Join(u, j) \in j.done}
           w == [IdleReader EXCEPT !.told = told]
<1>1. reader' = [reader EXCEPT ![r] = w] /\ UNCHANGED <<plannerVars, issue, ledger>>
    BY DEF Trace
<1>2. Good(reader[r])
    BY DEF LedgerInv, ReadInv
<1>3. Unresolved \notin j.done
    BY <1>2, LedgerAssumption DEF Good, LedgerInv, PlanInv, DoneGone, Shape
<1>4. told \subseteq UNION journal.done
    BY <1>2, <1>3 DEF Join, Good, Honest
<1> HIDE DEF told
<1>5. Good(w)
  <2>1. /\ IsReader(w) /\ w.pc = "idle" /\ w.records = <<>> /\ w.told = told
        /\ w.blind = FALSE /\ w.answer = "none" /\ w.journal = EmptyJournal
    BY DEF IsReader, IdleReader
  <2> HIDE DEF w
  <2>2. w.told \subseteq UNION journal.done
    BY <1>4, <2>1
  <2>3. w.journal.done = {} /\ ~w.journal.closed /\ Honest(w.journal.index)
    BY <2>1 DEF EmptyJournal, Honest
  <2>4. HonestRecords(w.records)
    BY <2>1 DEF HonestRecords
  <2>5. QED
    BY <2>1, <2>2, <2>3, <2>4 DEF Good
<1> HIDE DEF w
<1>6. HonestRecords(ledger'.records)
    BY <1>1, SameLedger
<1>7. QED
    BY <1>1, <1>5, <1>6, ReaderMoves

LEMMA ReaderKeeps ==
    ASSUME LedgerInv, NEW r \in Readers, ReaderStep(r)
    PROVE  LedgerInv'
    BY ReadJournalInv, ProjectInv, OutageInv, FetchTipInv, PushLedgerInv, VerifyInv, TraceInv
       DEF ReaderStep

LEMMA NextKeeps == LedgerInv /\ [Next]_vars => LedgerInv'
<1> SUFFICES ASSUME LedgerInv, [Next]_vars PROVE LedgerInv'
    OBVIOUS
<1>0. setting.jobs \subseteq Jobs
    BY PlannerAssumption DEF LedgerInv, PlanInv, Shape
<1>1. CASE PlannerStep \/ \E j \in setting.jobs, fails \in BOOLEAN : CloseStep(j, fails)
    BY <1>0, <1>1, PlannerStepInv, CloseStepInv
<1>2. CASE ForcePush
    BY <1>2, ForcePushKeeps
<1>3. CASE Reopen
    BY <1>3, ReopenKeeps
<1>4. CASE \E r \in setting.readers : ReaderStep(r)
  <2>1. setting.readers \subseteq Readers
    BY LedgerAssumption DEF LedgerInv, PlanInv, Shape
  <2>2. QED
    BY <1>4, <2>1, ReaderKeeps
<1>5. CASE UNCHANGED vars
  <2>1. UNCHANGED <<plannerVars, reader, ledger, issue>>
    BY <1>5 DEF vars, ledgerVars
  <2>2. UNCHANGED <<trunk, journal>>
    BY <2>1 DEF plannerVars
  <2>3. PlanInv'
    BY <2>1, StillPlanned DEF LedgerInv
  <2>4. /\ StartedPlans(journal) \subseteq StartedPlans(journal)'
        /\ journal.done \subseteq journal'.done /\ (journal.closed => journal'.closed)
        /\ OnTrunk' \cap UNION StartedPlans(journal) \subseteq OnTrunk
    BY <2>2 DEF StartedPlans, OnTrunk
  <2>5. QED
    BY <2>1, <2>3, <2>4, AroundReaders
<1>6. QED
    BY <1>1, <1>2, <1>3, <1>4, <1>5 DEF Next

(***************************************************************************)
(* The propagation of bumps, and the dependency graph                      *)
(***************************************************************************)

Seed(raw) == {c \in DOMAIN raw : raw[c] > NONE}
PassOf(deps) == [B \in SUBSET Components |-> Pass(deps, B)]

LEMMA PassGrows ==
    ASSUME NEW deps
    PROVE  Grows(PassOf(deps), Components)
    BY DEF Grows, PassOf, Pass

\* The function that the loop of propagate computes exists, so that Bumped is what
\* the loop ends with.
LEMMA BumpedByPasses ==
    ASSUME IsFiniteSet(Components), NEW deps, NEW raw, DOMAIN raw \subseteq Components
    PROVE  \E f : /\ Iterates(f, SUBSET Components, Seed(raw), PassOf(deps),
                              Cardinality(Components))
                  /\ Bumped(deps, raw) = f[Cardinality(Components)]
<1> DEFINE A == {c \in DOMAIN raw : raw[c] > NONE}
           N == Cardinality(Components)
           f == CHOOSE g : g = [n \in 0..N |-> IF n = 0 THEN A ELSE Pass(deps, g[n - 1])]
           step == PassOf(deps)
           P == SUBSET Components
<1>1. N \in Nat /\ A \in P /\ step \in [P -> P]
    BY FS_CardinalityType, PassGrows DEF Grows
<1>2. Bumped(deps, raw) = f[N] /\ Seed(raw) = A
    BY DEF Bumped, Seed
<1>3. \A B \in P : step[B] = Pass(deps, B)
    BY DEF PassOf
<1>4. /\ \A n \in 0..N : n # 0 => n \in 1..N /\ n - 1 \in 0..N
      /\ 0 \in 0..N /\ \A n \in 1..N : n \in 0..N /\ n # 0 /\ n - 1 \in 0..N
    BY <1>1
<1> HIDE DEF A, N, P, step
<1>5. PICK h : Iterates(h, P, A, step, N)
    BY <1>1, IterationExists
<1>6. /\ \A n \in 0..N : h[n] \in P
      /\ h[0] = A
      /\ \A n \in 1..N : h[n] = step[h[n - 1]]
    BY <1>5 DEF Iterates
<1>7. \A n \in 0..N : h[n] = IF n = 0 THEN A ELSE Pass(deps, h[n - 1])
    BY <1>3, <1>4, <1>6
<1> DEFINE g == [n \in 0..N |-> h[n]]
<1>8. g = [n \in 0..N |-> IF n = 0 THEN A ELSE Pass(deps, g[n - 1])]
    BY <1>4, <1>7
<1> HIDE DEF g
<1>9. f = [n \in 0..N |-> IF n = 0 THEN A ELSE Pass(deps, f[n - 1])]
    BY <1>8
<1> HIDE DEF f
<1>10. \A n \in 0..N : f[n] = IF n = 0 THEN A ELSE Pass(deps, f[n - 1])
    BY <1>9
<1>11. f[0] = A /\ \A n \in 1..N : f[n] = Pass(deps, f[n - 1])
    BY <1>4, <1>10
<1>12. \A n \in 0..N : f[n] \in P
  <2> DEFINE S == {n \in 0..N : f[n] \in P}
  <2>1. 0 \in S
    BY <1>1, <1>4, <1>11
  <2>2. ASSUME NEW n \in 0 .. N - 1, n \in S PROVE n + 1 \in S
    <3>1. n + 1 \in 1..N /\ n + 1 \in 0..N /\ (n + 1) - 1 = n
      BY <1>1
    <3>2. f[n + 1] = Pass(deps, f[n])
      BY <1>11, <3>1
    <3>3. QED
      BY <2>2, <3>1, <3>2 DEF Pass, P
  <2> HIDE DEF S
  <2>3. \A n \in 0..N : n \in S
    BY <1>1, <2>1, <2>2, CountedUp
  <2>4. QED
    BY <2>3 DEF S
<1>13. \A n \in 1..N : f[n] = step[f[n - 1]]
    BY <1>3, <1>4, <1>11, <1>12
<1>14. Iterates(f, P, A, step, N)
    BY <1>11, <1>12, <1>13 DEF Iterates
<1>15. QED
    BY <1>2, <1>14 DEF N, P, step

\* Nothing is left to propagate when the loop ends, and no more than needed is
\* bumped.
LEMMA BumpedIsClosed ==
    ASSUME IsFiniteSet(Components), NEW deps, NEW raw, DOMAIN raw \subseteq Components
    PROVE  /\ Bumped(deps, raw) \subseteq Components
           /\ Seed(raw) \subseteq Bumped(deps, raw)
           /\ Pass(deps, Bumped(deps, raw)) = Bumped(deps, raw)
           /\ \A T : Seed(raw) \subseteq T /\ Pass(deps, T) = T => Bumped(deps, raw) \subseteq T
<1> DEFINE N == Cardinality(Components)
<1>1. PICK f : /\ Iterates(f, SUBSET Components, Seed(raw), PassOf(deps), N)
               /\ Bumped(deps, raw) = f[N]
    BY BumpedByPasses
<1>2. N \in Nat
    BY FS_CardinalityType
<1>3. N <= N + 1
    BY <1>2
<1>4. PassOf(deps)[f[N]] = f[N]
    BY <1>1, <1>2, <1>3, PassGrows, StopsGrowing
<1> HIDE DEF N
<1>5. /\ f[N] \in SUBSET Components /\ Seed(raw) \subseteq f[N]
      /\ \A T : Seed(raw) \subseteq T /\ Keeps(PassOf(deps), Components, T) => f[N] \subseteq T
  <2> DEFINE A == Seed(raw)
             step == PassOf(deps)
  <2>1. Iterates(f, SUBSET Components, A, step, N) /\ Grows(step, Components)
    BY <1>1, PassGrows
  <2> HIDE DEF A, step
  <2>2. /\ f[N] \in SUBSET Components /\ A \subseteq f[N]
        /\ \A T : A \subseteq T /\ Keeps(step, Components, T) => f[N] \subseteq T
    BY <1>2, <2>1, IterationStays
  <2>3. QED
    BY <2>2 DEF A, step
<1>6. \A B \in SUBSET Components : PassOf(deps)[B] = Pass(deps, B)
    BY DEF PassOf
<1>7. ASSUME NEW T, Pass(deps, T) = T
      PROVE  Keeps(PassOf(deps), Components, T)
  <2>1. \A B : B \subseteq T => Pass(deps, B) \subseteq Pass(deps, T)
    BY DEF Pass
  <2>2. QED
    BY <1>6, <1>7, <2>1 DEF Keeps
<1>8. QED
    BY <1>1, <1>4, <1>5, <1>6, <1>7

\* One step along the dependencies.
Deeper(deps) ==
    [B \in SUBSET Components |-> B \cup (Components \cap UNION {deps[c] : c \in B})]

LEMMA DeeperGrows ==
    ASSUME NEW deps
    PROVE  Grows(Deeper(deps), Components)
    BY DEF Grows, Deeper

\* The paths that Reach follows, one step longer each time.
LEMMA ReachBySteps ==
    ASSUME IsFiniteSet(Components), Components # {}, NEW deps, NEW from
    PROVE  \E K \in Nat : \E f :
               /\ K + 1 = Cardinality(Components)
               /\ Iterates(f, SUBSET Components, deps[from] \cap Components, Deeper(deps), K)
               /\ Reach(deps, Components, from) = f[K]
<1> DEFINE A == deps[from] \cap Components
           N == Cardinality(Components)
           K == N - 1
           u == CHOOSE g : g = [n \in 1..N |->
                    IF n = 1 THEN A
                    ELSE g[n - 1] \cup (Components \cap UNION {deps[c] : c \in g[n - 1]})]
           step == Deeper(deps)
           P == SUBSET Components
<1>1. N \in Nat /\ N # 0 /\ A \in P /\ step \in [P -> P]
    BY FS_CardinalityType, FS_EmptySet, DeeperGrows DEF Grows
<1>2. Reach(deps, Components, from) = u[N]
    BY DEF Reach
<1>3. \A B \in P : step[B] = B \cup (Components \cap UNION {deps[c] : c \in B})
    BY DEF Deeper
<1>4. /\ K \in Nat /\ K + 1 = N /\ N \in 1..N /\ 1 \in 1..N
      /\ \A n \in 1..N : n - 1 \in 0..K /\ (n # 1 => n - 1 \in 1..K /\ n - 1 \in 1..N)
      /\ \A n \in 0..K : n + 1 \in 1..N /\ (n + 1) - 1 = n
      /\ \A n \in 1..K : n - 1 \in 0..K /\ (n - 1) + 1 = n /\ n + 1 # 1
    BY <1>1
<1> HIDE DEF A, N, K, P, step
<1>5. PICK h : Iterates(h, P, A, step, K)
    BY <1>1, <1>4, IterationExists
<1>6. /\ \A n \in 0..K : h[n] \in P
      /\ h[0] = A
      /\ \A n \in 1..K : h[n] = step[h[n - 1]]
    BY <1>5 DEF Iterates
<1> DEFINE Next1(B) == B \cup (Components \cap UNION {deps[c] : c \in B})
           g == [n \in 1..N |-> h[n - 1]]
<1>7. \A n \in 1..N : g[n] = IF n = 1 THEN A ELSE Next1(g[n - 1])
  <2>1. SUFFICES ASSUME NEW n \in 1..N PROVE g[n] = IF n = 1 THEN A ELSE Next1(g[n - 1])
    OBVIOUS
  <2>2. g[n] = h[n - 1] /\ (n # 1 => g[n - 1] = h[(n - 1) - 1])
    BY <1>4
  <2> HIDE DEF g, Next1
  <2>3. CASE n = 1
    BY <1>6, <2>2, <2>3
  <2>4. CASE n # 1
    <3>1. h[n - 1] = step[h[(n - 1) - 1]] /\ h[(n - 1) - 1] \in P
      BY <1>4, <1>6, <2>4
    <3>2. QED
      BY <1>3, <2>2, <2>4, <3>1 DEF Next1
  <2>5. QED
    BY <2>3, <2>4
<1>8. g = [n \in 1..N |-> IF n = 1 THEN A ELSE Next1(g[n - 1])]
  <2>1. g = [n \in 1..N |-> g[n]]
    OBVIOUS
  <2> HIDE DEF g, Next1
  <2>2. QED
    BY <1>7, <2>1
<1> HIDE DEF g
<1>9. u = [n \in 1..N |-> IF n = 1 THEN A ELSE Next1(u[n - 1])]
    BY <1>8
<1> HIDE DEF u
<1>10. \A n \in 1..N : u[n] = IF n = 1 THEN A ELSE Next1(u[n - 1])
  <2> HIDE DEF Next1
  <2>1. QED
    BY <1>9
<1>11. \A n \in 1..N : u[n] = h[n - 1]
  <2> DEFINE S == {n \in 0..K : u[n + 1] = h[n]}
  <2>1. 0 \in S
    <3>1. 0 + 1 = 1 /\ 0 \in 0..K
      BY <1>4
    <3>2. u[1] = A
      BY <1>4, <1>10
    <3>3. QED
      BY <1>6, <3>1, <3>2
  <2>2. ASSUME NEW n \in 0 .. K - 1, n \in S PROVE n + 1 \in S
    <3>1. /\ n + 1 \in 0..K /\ n + 1 \in 1..K /\ (n + 1) + 1 \in 1..N /\ (n + 1) + 1 # 1
          /\ ((n + 1) + 1) - 1 = n + 1 /\ (n + 1) - 1 = n /\ n \in 0..K
      BY <1>4
    <3>2. u[(n + 1) + 1] = Next1(u[n + 1])
      BY <1>10, <3>1
    <3>3. h[n + 1] = step[h[n]] /\ h[n] \in P
      BY <1>6, <3>1
    <3>4. u[n + 1] = h[n]
      BY <2>2
    <3>5. QED
      BY <1>3, <3>1, <3>2, <3>3, <3>4
  <2> HIDE DEF S
  <2>3. \A n \in 0..K : n \in S
    BY <1>4, <2>1, <2>2, CountedUp
  <2>4. ASSUME NEW n \in 1..N PROVE u[n] = h[n - 1]
    <3>1. n - 1 \in S /\ (n - 1) + 1 = n
      BY <1>4, <2>3
    <3>2. QED
      BY <3>1 DEF S
  <2>5. QED
    BY <2>4
<1>12. u[N] = h[K]
    BY <1>4, <1>11
<1>13. QED
    BY <1>2, <1>4, <1>5, <1>12 DEF A, N, P, step

\* What is reached is closed under the dependencies, and no more than needed.
LEMMA ReachIsClosed ==
    ASSUME IsFiniteSet(Components), Components # {}, NEW deps, NEW from
    PROVE  LET R == Reach(deps, Components, from)
           IN  /\ R \subseteq Components
               /\ deps[from] \cap Components \subseteq R
               /\ \A c \in R : deps[c] \cap Components \subseteq R
               /\ \A T : deps[from] \cap Components \subseteq T
                          /\ (\A c \in T : deps[c] \cap Components \subseteq T)
                             => R \subseteq T
<1> DEFINE A == deps[from] \cap Components
           R == Reach(deps, Components, from)
<1>0. PICK K \in Nat : \E f :
          /\ K + 1 = Cardinality(Components)
          /\ Iterates(f, SUBSET Components, A, Deeper(deps), K)
          /\ R = f[K]
    BY ReachBySteps
<1>1. PICK f :
          /\ K + 1 = Cardinality(Components)
          /\ Iterates(f, SUBSET Components, A, Deeper(deps), K)
          /\ R = f[K]
    BY <1>0
<1> HIDE DEF R, A
<1>2. Cardinality(Components) <= K + 1
    BY <1>1
<1>3. Deeper(deps)[R] = R
    BY <1>1, <1>2, DeeperGrows, StopsGrowing
<1>4. /\ R \in SUBSET Components /\ A \subseteq R
      /\ \A T : A \subseteq T /\ Keeps(Deeper(deps), Components, T) => R \subseteq T
    BY <1>1, DeeperGrows, IterationStays
<1>5. \A B \in SUBSET Components :
          Deeper(deps)[B] = B \cup (Components \cap UNION {deps[c] : c \in B})
    BY DEF Deeper
<1>6. \A c \in R : deps[c] \cap Components \subseteq R
    BY <1>3, <1>4, <1>5
<1>7. ASSUME NEW T, \A c \in T : deps[c] \cap Components \subseteq T
      PROVE  Keeps(Deeper(deps), Components, T)
    BY <1>5, <1>7 DEF Keeps
<1>8. QED
    BY <1>4, <1>6, <1>7 DEF A, R

\* Who is bumped: whoever a fragment bumps, or depends on one of those along any
\* path, in any graph, also one with a cycle.
LEMMA BumpedIsReachable ==
    ASSUME IsFiniteSet(Components), Components # {}, NEW deps, NEW raw,
           DOMAIN raw \subseteq Components, NEW c \in Components
    PROVE  c \in Bumped(deps, raw)
               <=> c \in Seed(raw) \/ Reach(deps, Components, c) \cap Seed(raw) # {}
<1> DEFINE B == Bumped(deps, raw)
           R(d) == Reach(deps, Components, d)
           Hit == {d \in Components : d \in Seed(raw) \/ R(d) \cap Seed(raw) # {}}
<1>1. /\ B \subseteq Components /\ Seed(raw) \subseteq B /\ Pass(deps, B) = B
      /\ \A T : Seed(raw) \subseteq T /\ Pass(deps, T) = T => B \subseteq T
    BY BumpedIsClosed
<1>2. ASSUME NEW d \in Components
      PROVE  /\ R(d) \subseteq Components
             /\ deps[d] \cap Components \subseteq R(d)
             /\ \A e \in R(d) : deps[e] \cap Components \subseteq R(d)
             /\ \A T : deps[d] \cap Components \subseteq T
                        /\ (\A e \in T : deps[e] \cap Components \subseteq T)
                           => R(d) \subseteq T
    BY ReachIsClosed
<1> HIDE DEF B, R
<1>3. ASSUME c \notin B PROVE c \notin Hit
  <2> DEFINE T == Components \ B
  <2>1. \A d \in T : deps[d] \cap Components \subseteq T
    BY <1>1 DEF Pass
  <2>2. deps[c] \cap Components \subseteq T
    BY <1>3, <2>1
  <2>3. R(c) \subseteq T
    BY <1>2, <2>1, <2>2
  <2>4. QED
    BY <1>1, <1>3, <2>3
<1>4. B \subseteq Hit
  <2>1. Seed(raw) \subseteq Hit
    BY <1>1
  <2>2. ASSUME NEW d \in Components, NEW e \in deps[d] \cap Hit PROVE d \in Hit
    <3>1. e \in R(d) /\ e \in Components
      BY <1>2, <2>2
    <3>2. deps[e] \cap Components \subseteq R(d)
      BY <1>2, <3>1
    <3>3. R(e) \subseteq R(d)
      BY <1>2, <3>1, <3>2
    <3>4. QED
      BY <2>2, <3>1, <3>3
  <2>3. Pass(deps, Hit) = Hit
    <3> HIDE DEF Hit
    <3>1. QED
      BY <2>2 DEF Pass
  <2> HIDE DEF Hit
  <2>4. QED
    BY <1>1, <2>1, <2>3
<1>5. QED
    BY <1>3, <1>4 DEF B, R

(***************************************************************************)
(* A plan                                                                  *)
(***************************************************************************)

\* Levels have a largest one, and it is what MaxOf chooses.
LEMMA MaxLevel ==
    ASSUME NEW S \in SUBSET Level, S # {}
    PROVE  /\ MaxOf(S) \in S /\ MaxOf(S) \in Level
           /\ \A y \in S : y <= MaxOf(S)
           /\ \A x \in S : (\A y \in S : y <= x) => MaxOf(S) = x
<1>1. S \subseteq Nat
    BY DEF Level, NONE, MAJOR
<1>2. \E x \in S : \A y \in S : y <= x
  <2>1. \A x, y \in Level : x \in {0, 1, 2, 3} /\ x \in Int
    BY DEF Level, NONE, MAJOR
  <2>2. CASE 3 \in S
    BY <2>1, <2>2
  <2>3. CASE 3 \notin S /\ 2 \in S
    BY <2>1, <2>3
  <2>4. CASE 3 \notin S /\ 2 \notin S /\ 1 \in S
    BY <2>1, <2>4
  <2>5. CASE 3 \notin S /\ 2 \notin S /\ 1 \notin S
    BY <2>1, <2>5
  <2>6. QED
    BY <2>2, <2>3, <2>4, <2>5
<1>3. MaxOf(S) \in S /\ \A y \in S : y <= MaxOf(S)
    BY <1>2 DEF MaxOf
<1>4. ASSUME NEW x \in S, \A y \in S : y <= x PROVE MaxOf(S) = x
  <2>1. MaxOf(S) <= x /\ x <= MaxOf(S) /\ x \in Nat /\ MaxOf(S) \in Nat
    BY <1>1, <1>3, <1>4
  <2>2. QED
    BY <2>1
<1>5. QED
    BY <1>3, <1>4

\* What is asked of c.
Ask(W, c) == {w[2] : w \in {x \in W : x[1] = c}}
LEMMA AskIs ==
    ASSUME NEW W, NEW c, NEW y
    PROVE  y \in Ask(W, c) <=> \E w \in W : w[1] = c /\ w[2] = y
    BY DEF Ask

\* What the fragments of a set F declare for c.
LevelsOf(F, c) == {b[c] : b \in {x \in F : c \in DOMAIN x}}

\* The fold, per component.
LEMMA FoldIs ==
    ASSUME NEW F \in SUBSET Bumps
    PROVE  /\ DOMAIN Fold(F) = UNION {DOMAIN b : b \in F}
           /\ DOMAIN Fold(F) \subseteq Components
           /\ \A c \in DOMAIN Fold(F) :
                  /\ LevelsOf(F, c) \in SUBSET Level /\ LevelsOf(F, c) # {}
                  /\ Fold(F)[c] = MaxOf(LevelsOf(F, c))
                  /\ Fold(F)[c] \in Level
<1>1. \A b \in F : DOMAIN b \subseteq Components /\ \A c \in DOMAIN b : b[c] \in Level
    BY DEF Bumps
<1>2. DOMAIN Fold(F) = UNION {DOMAIN b : b \in F}
    BY DEF Fold
<1>3. ASSUME NEW c \in DOMAIN Fold(F)
      PROVE  /\ LevelsOf(F, c) \in SUBSET Level /\ LevelsOf(F, c) # {}
             /\ Fold(F)[c] = MaxOf(LevelsOf(F, c))
  <2>1. PICK b \in F : c \in DOMAIN b
    BY <1>2, <1>3
  <2>2. b[c] \in LevelsOf(F, c)
    BY <2>1 DEF LevelsOf
  <2>3. Fold(F)[c] = MaxOf(LevelsOf(F, c))
    BY <1>2, <1>3 DEF Fold, LevelsOf
  <2>4. QED
    BY <1>1, <2>2, <2>3 DEF LevelsOf
<1>4. QED
    BY <1>1, <1>2, <1>3, MaxLevel

\* What the fragments F, or in single-version mode their join, ask for.
WantedOf(F, single) ==
    IF single THEN {<<Default, l>> : l \in {MaxOf(UNION {{b[c] : c \in DOMAIN b} : b \in F})}}
    ELSE UNION {{<<c, b[c]>> : c \in DOMAIN b} : b \in F}
RawOf(F, single) == IF single THEN Collapse(Fold(F)) ELSE Fold(F)

\* The fold, in either mode, is per component the maximum that is asked of it.
LEMMA RawIsWanted ==
    ASSUME NEW F \in SUBSET Bumps, \E b \in F : DOMAIN b # {}, Default \in Components,
           NEW single \in BOOLEAN
    PROVE  LET W   == WantedOf(F, single)
               raw == RawOf(F, single)
           IN  /\ W \subseteq Components \X Level
               /\ DOMAIN raw = {w[1] : w \in W}
               /\ \A c \in DOMAIN raw : raw[c] = MaxOf(Ask(W, c)) /\ raw[c] \in Level
<1> DEFINE W   == WantedOf(F, single)
           raw == RawOf(F, single)
           all == UNION {{b[c] : c \in DOMAIN b} : b \in F}
           folded == Fold(F)
<1>1. \A b \in F : DOMAIN b \subseteq Components /\ \A c \in DOMAIN b : b[c] \in Level
    BY DEF Bumps
<1>2. /\ DOMAIN folded = UNION {DOMAIN b : b \in F}
      /\ \A c \in DOMAIN folded : /\ LevelsOf(F, c) \in SUBSET Level /\ LevelsOf(F, c) # {}
                                  /\ folded[c] = MaxOf(LevelsOf(F, c)) /\ folded[c] \in Level
    BY FoldIs
<1>3. CASE ~single
  <2>1. W = UNION {{<<c, b[c]>> : c \in DOMAIN b} : b \in F} /\ raw = folded
    BY <1>3 DEF WantedOf, RawOf
  <2>2. \A w : w \in W <=> \E b \in F : \E c \in DOMAIN b : w = <<c, b[c]>>
    BY <2>1
  <2> HIDE DEF W, folded, raw
  <2>3. W \subseteq Components \X Level
    BY <1>1, <2>2
  <2>4. DOMAIN raw = {w[1] : w \in W}
    <3>1. \A c : c \in DOMAIN raw <=> \E b \in F : c \in DOMAIN b
      BY <1>2, <2>1
    <3>2. \A c : c \in {w[1] : w \in W} <=> \E w \in W : w[1] = c
      OBVIOUS
    <3>3. \A b \in F : \A c \in DOMAIN b : <<c, b[c]>> \in W /\ <<c, b[c]>>[1] = c
      BY <2>2
    <3>4. \A w \in W : \E b \in F : w[1] \in DOMAIN b
      BY <2>2
    <3>5. \A c : c \in DOMAIN raw <=> c \in {w[1] : w \in W}
      BY <3>1, <3>2, <3>3, <3>4
    <3>6. QED
      BY <3>5
  <2>5. ASSUME NEW c PROVE Ask(W, c) = LevelsOf(F, c)
    <3>1. ASSUME NEW y, y \in Ask(W, c) PROVE y \in LevelsOf(F, c)
      <4>1. PICK w \in W : w[1] = c /\ w[2] = y
        BY <3>1, AskIs
      <4>2. PICK b \in F : \E d \in DOMAIN b : w = <<d, b[d]>>
        BY <2>2
      <4>3. c \in DOMAIN b /\ b[c] = y
        BY <4>1, <4>2
      <4>4. QED
        BY <4>3 DEF LevelsOf
    <3>2. ASSUME NEW y, y \in LevelsOf(F, c) PROVE y \in Ask(W, c)
      <4>1. PICK b \in F : c \in DOMAIN b /\ b[c] = y
        BY <3>2 DEF LevelsOf
      <4>2. <<c, y>> \in W /\ <<c, y>>[1] = c /\ <<c, y>>[2] = y
        BY <2>2, <4>1
      <4>3. QED
        BY <4>2, AskIs
    <3>3. QED
      BY <3>1, <3>2
  <2>6. QED
    BY <1>2, <2>1, <2>3, <2>4, <2>5 DEF W, raw
<1>4. CASE single
  <2>1. all \in SUBSET Level /\ all # {}
    BY <1>1
  <2>2. /\ MaxOf(all) \in all /\ MaxOf(all) \in Level /\ \A y \in all : y <= MaxOf(all)
    BY <2>1, MaxLevel
  <2>3. W = {<<Default, MaxOf(all)>>} /\ raw = Collapse(folded)
    BY <1>4 DEF WantedOf, RawOf
  <2> DEFINE maxes == {folded[d] : d \in DOMAIN folded}
  <2>4. maxes \in SUBSET Level /\ maxes # {} /\ DOMAIN folded # {}
    <3>1. DOMAIN folded # {}
      <4>1. PICK b \in F : DOMAIN b # {}
        OBVIOUS
      <4>2. DOMAIN b \subseteq DOMAIN folded
        BY <1>2
      <4>3. QED
        BY <4>1, <4>2
    <3> HIDE DEF folded
    <3>2. maxes \subseteq Level
      BY <1>2
    <3>3. maxes # {}
      BY <3>1
    <3>4. QED
      BY <3>1, <3>2, <3>3
  <2>5. DOMAIN raw = {Default} /\ raw[Default] = MaxOf(maxes)
    BY <2>3, <2>4 DEF Collapse
  <2>6. MaxOf(maxes) = MaxOf(all)
    <3>1. MaxOf(all) \in maxes
      <4>0. PICK b \in F : \E c \in DOMAIN b : b[c] = MaxOf(all)
        BY <2>2
      <4>1. PICK c \in DOMAIN b : b[c] = MaxOf(all)
        BY <4>0
      <4>2. c \in DOMAIN folded /\ MaxOf(all) \in LevelsOf(F, c)
        BY <1>2, <4>1 DEF LevelsOf
      <4>3. \A y \in LevelsOf(F, c) : y <= MaxOf(all)
        BY <2>2 DEF LevelsOf
      <4>4. folded[c] = MaxOf(all)
        BY <1>2, <4>2, <4>3, MaxLevel
      <4>5. QED
        BY <4>2, <4>4
    <3>2. \A y \in maxes : y \in all
      <4>1. ASSUME NEW d \in DOMAIN folded PROVE folded[d] \in all
        <5>1. folded[d] \in LevelsOf(F, d)
          BY <1>2, MaxLevel
        <5>2. QED
          BY <5>1 DEF LevelsOf
      <4>2. QED
        BY <4>1
    <3>3. \A y \in maxes : y <= MaxOf(all)
      BY <2>2, <3>2
    <3> HIDE DEF maxes, all
    <3>4. QED
      BY <2>4, <3>1, <3>3, MaxLevel
  <2>7. Ask(W, Default) = {MaxOf(all)}
    <3>1. \A w \in W : w[1] = Default /\ w[2] = MaxOf(all)
      BY <2>3
    <3>2. W # {}
      BY <2>3
    <3> HIDE DEF W, all
    <3>3. \A y : y \in Ask(W, Default) <=> y = MaxOf(all)
      BY <3>1, <3>2, AskIs
    <3>4. QED
      BY <3>3
  <2>8. MaxOf({MaxOf(all)}) = MaxOf(all)
    <3>1. {MaxOf(all)} \in SUBSET Level
      BY <2>2
    <3>2. QED
      BY <3>1, MaxLevel
  <2> HIDE DEF W, raw, all, maxes
  <2>9. W \subseteq Components \X Level /\ DOMAIN raw = {w[1] : w \in W}
    BY <2>2, <2>3, <2>5
  <2>10. \A c \in DOMAIN raw : raw[c] = MaxOf(Ask(W, c)) /\ raw[c] \in Level
    BY <2>2, <2>5, <2>6, <2>7, <2>8
  <2>11. QED
    BY <2>9, <2>10 DEF W, raw
<1>5. QED
    BY <1>3, <1>4

\* What propagate makes of the folded levels.
LEMMA PropagateIs ==
    ASSUME IsFiniteSet(Components), NEW deps, NEW raw, DOMAIN raw \subseteq Components,
           \A c \in DOMAIN raw : raw[c] \in Level
    PROVE  LET bumps == Propagate(deps, raw)
               B     == Bumped(deps, raw)
           IN  /\ DOMAIN bumps = DOMAIN raw \cup B /\ B \subseteq Components
               /\ \A c \in DOMAIN bumps :
                   /\ bumps[c] \in Level
                   /\ c \in B <=> bumps[c] > NONE
                   /\ c \in DOMAIN raw => raw[c] <= bumps[c]
                   /\ bumps[c] = PATCH \/ (c \in DOMAIN raw /\ bumps[c] = raw[c])
<1> DEFINE bumps == Propagate(deps, raw)
           B == Bumped(deps, raw)
<1>1. B \subseteq Components /\ Seed(raw) \subseteq B
    BY BumpedIsClosed
<1>2. /\ DOMAIN bumps = DOMAIN raw \cup B
      /\ \A c \in DOMAIN bumps :
            bumps[c] = IF c \in B /\ LevelOf(raw, c) < PATCH THEN PATCH ELSE raw[c]
    BY DEF Propagate
<1> HIDE DEF bumps, B
<1>3. ASSUME NEW c \in DOMAIN bumps
      PROVE  /\ bumps[c] \in Level
             /\ c \in B <=> bumps[c] > NONE
             /\ c \in DOMAIN raw => raw[c] <= bumps[c]
             /\ bumps[c] = PATCH \/ (c \in DOMAIN raw /\ bumps[c] = raw[c])
  <2>1. \A l \in Level : l \in {0, 1, 2, 3}
    BY DEF Level, NONE, MAJOR
  <2>2. \A l \in {0, 1, 2, 3} : l \in Level
    BY DEF Level, NONE, MAJOR
  <2>3. NONE = 0 /\ PATCH = 1
    BY DEF NONE, PATCH
  <2>4. CASE c \in DOMAIN raw
    <3>1. raw[c] \in {0, 1, 2, 3}
      BY <2>1, <2>4
    <3>2. bumps[c] = IF c \in B /\ raw[c] < 1 THEN 1 ELSE raw[c]
      BY <1>2, <2>3, <2>4 DEF LevelOf
    <3>3. raw[c] > 0 => c \in B
      BY <1>1, <2>3, <2>4 DEF Seed
    <3>4. bumps[c] \in {0, 1, 2, 3}
      BY <3>1, <3>2
    <3>5. c \in B <=> bumps[c] > 0
      BY <3>1, <3>2, <3>3
    <3>6. raw[c] <= bumps[c] /\ (bumps[c] = 1 \/ bumps[c] = raw[c])
      BY <3>1, <3>2
    <3>7. QED
      BY <2>2, <2>3, <2>4, <3>4, <3>5, <3>6
  <2>5. CASE c \notin DOMAIN raw
    <3>1. c \in B /\ bumps[c] = 1
      BY <1>2, <2>3, <2>5 DEF LevelOf
    <3>2. QED
      BY <2>2, <2>3, <2>5, <3>1
  <2>6. QED
    BY <2>4, <2>5
<1>4. QED
    BY <1>1, <1>2, <1>3 DEF bumps, B

\* A bump raises a version if and only if it is one, and the range a dependent
\* accepts tells MAJOR from PATCH.
LEMMA BumpRaises ==
    ASSUME NEW v \in Version, NEW l \in Level
    PROVE  LET w == BumpVersion(v, l)
           IN  /\ w \in Version
               /\ l > NONE <=> Below(v, w)
               /\ l = MAJOR => ~Compatible(v, w)
               /\ l = PATCH => Compatible(v, w)
<1>1. PICK a \in Nat, b \in Nat, c \in Nat : v = <<a, b, c>>
    BY DEF Version
<1>2. v[1] = a /\ v[2] = b /\ v[3] = c
    BY <1>1
<1>3. NONE = 0 /\ PATCH = 1 /\ MINOR = 2 /\ MAJOR = 3 /\ l \in {0, 1, 2, 3}
    BY DEF NONE, PATCH, MINOR, MAJOR, Level
<1>4. CASE l = 0
  <2>1. BumpVersion(v, l) = v
    BY <1>3, <1>4 DEF BumpVersion
  <2>2. ~Below(v, v)
    BY <1>2 DEF Below
  <2>3. QED
    BY <1>3, <1>4, <2>1, <2>2
<1>5. CASE l = 1
  <2>1. BumpVersion(v, l) = <<a, b, c + 1>>
    BY <1>2, <1>3, <1>5 DEF BumpVersion
  <2>2. <<a, b, c + 1>> \in Version /\ Below(v, <<a, b, c + 1>>) /\ Compatible(v, <<a, b, c + 1>>)
    BY <1>2 DEF Version, Below, Compatible
  <2>3. QED
    BY <1>3, <1>5, <2>1, <2>2
<1>6. CASE l = 2
  <2>1. BumpVersion(v, l) = <<a, b + 1, 0>>
    BY <1>2, <1>3, <1>6 DEF BumpVersion
  <2>2. <<a, b + 1, 0>> \in Version /\ Below(v, <<a, b + 1, 0>>)
    BY <1>2 DEF Version, Below
  <2>3. QED
    BY <1>3, <1>6, <2>1, <2>2
<1>7. CASE l = 3 /\ a = 0
  <2>1. BumpVersion(v, l) = <<0, b + 1, 0>>
    BY <1>2, <1>3, <1>7 DEF BumpVersion
  <2>2. /\ <<0, b + 1, 0>> \in Version /\ Below(v, <<0, b + 1, 0>>)
        /\ ~Compatible(v, <<0, b + 1, 0>>)
    BY <1>2, <1>7 DEF Version, Below, Compatible
  <2>3. QED
    BY <1>3, <1>7, <2>1, <2>2
<1>8. CASE l = 3 /\ a # 0
  <2>1. BumpVersion(v, l) = <<a + 1, 0, 0>>
    BY <1>2, <1>3, <1>8 DEF BumpVersion
  <2>2. /\ <<a + 1, 0, 0>> \in Version /\ Below(v, <<a + 1, 0, 0>>)
        /\ ~Compatible(v, <<a + 1, 0, 0>>)
    BY <1>2, <1>8 DEF Version, Below, Compatible
  <2>3. QED
    BY <1>3, <1>8, <2>1, <2>2
<1>9. QED
    BY <1>3, <1>4, <1>5, <1>6, <1>7, <1>8

\* The plan that a repository s makes of the fragments active over the versions base.
PlanOf(s, active, base) ==
    BuildPlan(active, [u \in Ulids |-> Declared(Fragment[u])], base, s.deps, s.single)

\* Component c is named, or reached from one that is bumped.
Hit(W, c)   == \E w \in W : w[2] > NONE /\ w[1] \in Reach(setting.deps, Components, c)
Named(W, c) == \E w \in W : w[1] = c

LEMMA SettingIs ==
    ASSUME setting \in Settings
    PROVE  setting.deps \in Graph /\ setting.single \in BOOLEAN
    BY PlannerAssumption

\* The levels of a plan, component by component.
LEMMA BumpsAreSound ==
    ASSUME setting \in Settings, NEW active \in SUBSET Ulids, active # {},
           NEW base
    PROVE  LET p == PlanOf(setting, active, base)
               W == Wanted(p)
           IN  /\ DOMAIN p.bumps \subseteq Components
               /\ \A c \in DOMAIN p.bumps : p.bumps[c] \in Level
               /\ \A c \in Components :
                    /\ c \in DOMAIN p.bumps <=> (Hit(W, c) \/ Named(W, c))
                    /\ c \in DOMAIN p.bumps =>
                        p.bumps[c] = MaxOf(Ask(W, c) \cup (IF Hit(W, c) THEN {PATCH} ELSE {NONE}))
<1> DEFINE p == PlanOf(setting, active, base)
           W == Wanted(p)
           F == {Declared(Fragment[u]) : u \in active}
           raw == RawOf(F, setting.single)
           bumps == Propagate(setting.deps, raw)
           B == Bumped(setting.deps, raw)
<1>1. p.consumed = active /\ p.bumps = bumps
  <2>1. F = {[v \in Ulids |-> Declared(Fragment[v])][u] : u \in active}
    OBVIOUS
  <2>2. QED
    BY <2>1 DEF PlanOf, BuildPlan, RawOf
<1>2. W = WantedOf(F, setting.single)
    BY <1>1 DEF Wanted, WantedOf
<1>3. F \in SUBSET Bumps /\ \E b \in F : DOMAIN b # {}
  <2>1. F \in SUBSET Bumps
    BY PlannerAssumption
  <2>2. PICK u \in active : TRUE
    OBVIOUS
  <2>3. DOMAIN Declared(Fragment[u]) # {}
    BY DEF Declared
  <2>4. QED
    BY <2>1, <2>2, <2>3
<1>4. IsFiniteSet(Components) /\ Default \in Components /\ setting.single \in BOOLEAN
    BY PlannerAssumption, SettingIs
<1> HIDE DEF F
<1>5. /\ W \subseteq Components \X Level
      /\ DOMAIN raw = {w[1] : w \in W}
      /\ \A c \in DOMAIN raw : raw[c] = MaxOf(Ask(W, c)) /\ raw[c] \in Level
  <2>1. PICK single \in BOOLEAN : single = setting.single
    BY <1>4
  <2>2. W = WantedOf(F, single) /\ raw = RawOf(F, single)
    BY <1>2, <2>1
  <2> HIDE DEF p, W, raw, bumps, B
  <2>3. LET V == WantedOf(F, single)
            R == RawOf(F, single)
        IN  /\ V \subseteq Components \X Level
            /\ DOMAIN R = {w[1] : w \in V}
            /\ \A c \in DOMAIN R : R[c] = MaxOf(Ask(V, c)) /\ R[c] \in Level
    <3>1. F \in SUBSET Bumps
      BY <1>3
    <3>2. \E b \in F : DOMAIN b # {}
      BY <1>3
    <3>3. Default \in Components
      BY <1>4
    <3>4. QED
      BY <3>1, <3>2, <3>3, RawIsWanted
  <2>4. QED
    BY ONLY <2>2, <2>3
<1> HIDE DEF p, W, raw
<1>6. /\ \A c : c \in DOMAIN raw <=> Named(W, c)
      /\ DOMAIN raw \subseteq Components
    BY <1>5 DEF Named
<1>7. /\ DOMAIN bumps = DOMAIN raw \cup B /\ B \subseteq Components
      /\ \A c \in DOMAIN bumps :
          /\ bumps[c] \in Level
          /\ c \in B <=> bumps[c] > NONE
          /\ c \in DOMAIN raw => raw[c] <= bumps[c]
          /\ bumps[c] = PATCH \/ (c \in DOMAIN raw /\ bumps[c] = raw[c])
  <2>1. \A c \in DOMAIN raw : raw[c] \in Level
    BY <1>5
  <2>2. IsFiniteSet(Components) /\ DOMAIN raw \subseteq Components
    BY <1>4, <1>6
  <2>3. QED
    BY ONLY <2>1, <2>2, PropagateIs
<1>8. ASSUME NEW c PROVE Ask(W, c) \in SUBSET Level /\ (Ask(W, c) # {} <=> Named(W, c))
  <2>1. \A y : y \in Ask(W, c) <=> \E w \in W : w[1] = c /\ w[2] = y
    BY AskIs
  <2>2. \A w \in W : w[2] \in Level
    BY <1>5
  <2>3. QED
    BY <2>1, <2>2 DEF Named
<1>9. \A c : c \in Seed(raw) <=> \E w \in W : w[1] = c /\ w[2] > NONE
  <2>1. SUFFICES ASSUME NEW c PROVE c \in Seed(raw) <=> \E w \in W : w[1] = c /\ w[2] > NONE
    OBVIOUS
  <2>2. CASE c \in DOMAIN raw
    <3>1. Ask(W, c) \in SUBSET Level /\ Ask(W, c) # {} /\ raw[c] = MaxOf(Ask(W, c))
      BY <1>5, <1>6, <1>8, <2>2
    <3>2. raw[c] \in Ask(W, c) /\ \A y \in Ask(W, c) : y <= raw[c]
      BY <3>1, MaxLevel
    <3>3. \A y \in Level : y \in Int
      BY DEF Level, NONE, MAJOR
    <3>4. raw[c] > NONE <=> \E y \in Ask(W, c) : y > NONE
      BY <3>1, <3>2, <3>3 DEF NONE
    <3>5. QED
      BY <2>2, <3>4, AskIs DEF Seed
  <2>3. CASE c \notin DOMAIN raw
    BY <1>6, <2>3 DEF Named, Seed
  <2>4. QED
    BY <2>2, <2>3
<1>10. \A c : Reach(setting.deps, Components, c) \cap Seed(raw) # {} <=> Hit(W, c)
    BY <1>9 DEF Hit
<1>11. \A c \in Components : c \in B <=> c \in Seed(raw) \/ Hit(W, c)
    BY <1>4, <1>6, <1>10, BumpedIsReachable
<1>12. \A c : c \in Seed(raw) => Named(W, c)
    BY <1>9 DEF Named
<1> HIDE DEF bumps, B
<1>13. ASSUME NEW c \in DOMAIN bumps, NEW d \in {PATCH, NONE},
              d = PATCH <=> Hit(W, c)
       PROVE  bumps[c] = MaxOf(Ask(W, c) \cup {d})
  <2> DEFINE S == Ask(W, c) \cup {d}
  <2>1. c \in Components /\ bumps[c] \in Level
    BY <1>6, <1>7
  <2>2. NONE = 0 /\ PATCH = 1 /\ d \in Level /\ \A l \in Level : l \in Int /\ 0 <= l
    BY DEF NONE, PATCH, Level, MAJOR
  <2>3. S \in SUBSET Level
    BY <1>8, <2>2
  <2>4. \A y \in S : y <= bumps[c]
    <3>1. \A y \in Ask(W, c) : y <= bumps[c]
      <4>1. ASSUME NEW y \in Ask(W, c) PROVE y <= bumps[c]
        <5>1. c \in DOMAIN raw /\ raw[c] = MaxOf(Ask(W, c)) /\ Ask(W, c) \in SUBSET Level
          BY <1>5, <1>6, <1>8
        <5>2. y <= raw[c] /\ raw[c] <= bumps[c] /\ raw[c] \in Level /\ y \in Level
          BY <1>5, <1>7, <5>1, MaxLevel
        <5>3. y \in Int /\ raw[c] \in Int /\ bumps[c] \in Int
          BY <2>1, <2>2, <5>2
        <5>4. QED
          BY <5>2, <5>3
      <4>2. QED
        BY <4>1
    <3>2. d <= bumps[c]
      <4>1. Hit(W, c) => c \in B
        BY <1>11, <2>1
      <4>2. d = PATCH => bumps[c] > NONE
        BY <1>7, <1>13, <4>1
      <4>3. d = PATCH \/ d = NONE
        OBVIOUS
      <4>4. bumps[c] \in Int /\ 0 <= bumps[c] /\ NONE = 0 /\ PATCH = 1
        BY <2>1, <2>2
      <4>5. QED
        BY <4>2, <4>3, <4>4
    <3>3. QED
      BY <3>1, <3>2
  <2>5. bumps[c] \in S
    <3>1. CASE c \in DOMAIN raw /\ bumps[c] = raw[c]
      <4>1. raw[c] = MaxOf(Ask(W, c)) /\ Ask(W, c) \in SUBSET Level /\ Ask(W, c) # {}
        BY <1>5, <1>6, <1>8, <3>1
      <4>2. QED
        BY <3>1, <4>1, MaxLevel
    <3>2. CASE bumps[c] = PATCH /\ ~(c \in DOMAIN raw /\ bumps[c] = raw[c])
      <4>1. c \in B
        BY <1>7, <2>2, <3>2
      <4>2. CASE Hit(W, c)
        BY <1>13, <3>2, <4>2
      <4>3. CASE c \in Seed(raw)
        <5>1. c \in DOMAIN raw /\ raw[c] > NONE /\ raw[c] <= bumps[c] /\ raw[c] \in Level
          BY <1>5, <1>7, <4>3 DEF Seed
        <5>2. raw[c] = bumps[c]
          <6>1. raw[c] \in Int /\ raw[c] > 0 /\ raw[c] <= 1 /\ bumps[c] = 1
            BY <2>2, <3>2, <5>1
          <6>2. QED
            BY <6>1
        <5>3. QED
          BY <3>2, <5>1, <5>2
      <4>4. QED
        BY <1>11, <2>1, <4>1, <4>2, <4>3
    <3>3. QED
      BY <1>7, <3>1, <3>2
  <2> HIDE DEF S
  <2>6. bumps[c] = MaxOf(S)
    BY <2>3, <2>4, <2>5, MaxLevel
  <2>7. QED
    BY <2>6 DEF S
<1>14. ASSUME NEW c \in DOMAIN bumps
       PROVE  bumps[c] = MaxOf(Ask(W, c) \cup (IF Hit(W, c) THEN {PATCH} ELSE {NONE}))
  <2>1. PATCH # NONE
    BY DEF PATCH, NONE
  <2>2. CASE Hit(W, c)
    BY <1>13, <2>1, <2>2
  <2>3. CASE ~Hit(W, c)
    BY <1>13, <2>1, <2>3
  <2>4. QED
    BY <2>2, <2>3
<1>15. \A c \in Components : c \in DOMAIN bumps <=> Hit(W, c) \/ Named(W, c)
    BY <1>6, <1>7, <1>11, <1>12
<1>16. QED
    BY <1>1, <1>6, <1>7, <1>14, <1>15 DEF p, W

\* Some version of a finite set of them is below no other.
LEMMA TopVersion ==
    ASSUME NEW V \in SUBSET Version, IsFiniteSet(V), V # {}
    PROVE  \E v \in V : \A w \in V : ~Below(v, w)
<1> DEFINE R == {p \in V \X V : Below(p[1], p[2])}
<1>1. \A v, w \in V : <<v, w>> \in R <=> Below(v, w)
    OBVIOUS
<1>2. \A v \in Version : v[1] \in Nat /\ v[2] \in Nat /\ v[3] \in Nat
    BY DEF Version
<1>3. \A v \in V : ~Below(v, v)
    BY <1>2 DEF Below
<1>4. \A u, v, w \in V : Below(u, v) /\ Below(v, w) => Below(u, w)
  <2>1. SUFFICES ASSUME NEW u \in V, NEW v \in V, NEW w \in V, Below(u, v), Below(v, w)
                 PROVE  Below(u, w)
    OBVIOUS
  <2>2. /\ u[1] \in Nat /\ u[2] \in Nat /\ u[3] \in Nat
        /\ v[1] \in Nat /\ v[2] \in Nat /\ v[3] \in Nat
        /\ w[1] \in Nat /\ w[2] \in Nat /\ w[3] \in Nat
    BY <1>2
  <2>3. QED
    BY <2>1, <2>2 DEF Below
<1> HIDE DEF R
<1>5. \A v \in V : <<v, v>> \notin R
    BY <1>1, <1>3
<1>6. \A u, v, w \in V : <<u, v>> \in R /\ <<v, w>> \in R => <<u, w>> \in R
    BY <1>1, <1>4
<1>7. \E v \in V : \A w \in V : <<v, w>> \notin R
    BY <1>5, <1>6, TopExists
<1>8. QED
    BY <1>1, <1>7

\* The versions of a plan, from its levels.
LEMMA VersionsAreSound ==
    ASSUME setting \in Settings, NEW active \in SUBSET Ulids, active # {},
           NEW base \in [Components -> Version]
    PROVE  LET p == PlanOf(setting, active, base)
           IN  /\ p.consumed = active /\ p.base = base
               /\ DOMAIN p.versions = DOMAIN p.bumps /\ DOMAIN p.versions \subseteq Components
               /\ \A c \in DOMAIN p.versions :
                    /\ p.versions[c] \in Version
                    /\ p.bumps[c] \in Level
                    /\ p.bumps[c] > NONE <=> Below(base[c], p.versions[c])
                    /\ p.bumps[c] = MAJOR => ~Compatible(base[c], p.versions[c])
                    /\ p.bumps[c] = PATCH => Compatible(base[c], p.versions[c])
<1> DEFINE p == PlanOf(setting, active, base)
<1>1. /\ p.consumed = active /\ p.base = base
      /\ p.versions = [c \in DOMAIN p.bumps |-> BumpVersion(base[c], p.bumps[c])]
    BY DEF PlanOf, BuildPlan
<1>2. DOMAIN p.bumps \subseteq Components /\ \A c \in DOMAIN p.bumps : p.bumps[c] \in Level
    BY BumpsAreSound
<1> HIDE DEF p
<1>3. ASSUME NEW c \in DOMAIN p.bumps
      PROVE  /\ p.versions[c] \in Version
             /\ p.bumps[c] > NONE <=> Below(base[c], p.versions[c])
             /\ p.bumps[c] = MAJOR => ~Compatible(base[c], p.versions[c])
             /\ p.bumps[c] = PATCH => Compatible(base[c], p.versions[c])
  <2>1. base[c] \in Version /\ p.bumps[c] \in Level
    BY <1>2
  <2>2. p.versions[c] = BumpVersion(base[c], p.bumps[c])
    BY <1>1
  <2>3. QED
    BY <2>1, <2>2, BumpRaises
<1>4. QED
    BY <1>1, <1>2, <1>3 DEF p

(***************************************************************************)
(* The versions                                                            *)
(***************************************************************************)

\* A plan is one that build_plan makes, over versions that are not below the first.
IsBuilt(s, p) ==
    /\ p.consumed \in SUBSET Ulids /\ p.consumed # {}
    /\ p.base \in [Components -> Version]
    /\ \A c \in Components : ~Below(p.base[c], InitialVersion[c])
    /\ p = PlanOf(s, p.consumed, p.base)

\* A tag is one of a version that was there at the start, or its release is in the
\* journal, whoever won it, or in the hands of its winner, or it is orphaned.  The
\* packages that a run has been through are tagged.
FirstTags == {<<c, InitialVersion[c]>> : c \in Components}
TagInv ==
    /\ tags \subseteq Components \X Version /\ IsFiniteSet(tags)
    /\ tags \subseteq journal.released \cup FirstTags \cup orphans \cup InHand
Gone(w, T) ==
    w.pc \in {"packages", "won", "released"} =>
        /\ w.todo \subseteq KeysOf(w.plan)
        /\ KeysOf(w.plan) \ w.todo \subseteq T
VersionInv ==
    /\ \A j \in Jobs : job[j].plan = NoPlan \/ IsBuilt(setting, job[j].plan)
    /\ \A j \in Jobs : Gone(job[j], tags)
    /\ TagInv

\* What is said of build_plan, of a plan that it made.
LEMMA BuiltIsSound ==
    ASSUME setting \in Settings, NEW p, IsBuilt(setting, p)
    PROVE  LET W == Wanted(p)
           IN  /\ DOMAIN p.versions \subseteq Components
               /\ \A c \in Components :
                    /\ c \in DOMAIN p.bumps <=> (Hit(W, c) \/ Named(W, c))
                    /\ c \in DOMAIN p.bumps =>
                        p.bumps[c] = MaxOf(Ask(W, c) \cup (IF Hit(W, c) THEN {PATCH} ELSE {NONE}))
               /\ \A c \in DOMAIN p.versions :
                    /\ p.versions[c] \in Version
                    /\ p.bumps[c] \in Level
                    /\ p.bumps[c] > NONE <=> Below(p.base[c], p.versions[c])
                    /\ p.bumps[c] = MAJOR => ~Compatible(p.base[c], p.versions[c])
                    /\ p.bumps[c] = PATCH => Compatible(p.base[c], p.versions[c])
<1>1. PICK active \in SUBSET Ulids, base \in [Components -> Version] :
          active # {} /\ p = PlanOf(setting, active, base)
    BY DEF IsBuilt
<1> DEFINE q == PlanOf(setting, active, base)
<1>2. \A c \in Components :
          /\ c \in DOMAIN q.bumps <=> (Hit(Wanted(q), c) \/ Named(Wanted(q), c))
          /\ c \in DOMAIN q.bumps =>
              q.bumps[c] = MaxOf(Ask(Wanted(q), c)
                                 \cup (IF Hit(Wanted(q), c) THEN {PATCH} ELSE {NONE}))
    BY <1>1, BumpsAreSound
<1>3. /\ q.base = base
      /\ DOMAIN q.versions \subseteq Components
      /\ \A c \in DOMAIN q.versions :
          /\ q.versions[c] \in Version
          /\ q.bumps[c] \in Level
          /\ q.bumps[c] > NONE <=> Below(base[c], q.versions[c])
          /\ q.bumps[c] = MAJOR => ~Compatible(base[c], q.versions[c])
          /\ q.bumps[c] = PATCH => Compatible(base[c], q.versions[c])
    BY <1>1, VersionsAreSound
<1>4. p = q
    BY <1>1
<1> HIDE DEF q
<1>5. QED
    BY <1>2, <1>3, <1>4

\* The current version of a component exists and is not below its first.
LEMMA CurrentIs ==
    ASSUME TagInv
    PROVE  /\ Current \in [Components -> Version]
           /\ \A c \in Components : ~Below(Current[c], InitialVersion[c])
<1>1. SUFFICES ASSUME NEW c \in Components
               PROVE  Current[c] \in Version /\ ~Below(Current[c], InitialVersion[c])
    BY DEF Current
<1> DEFINE mine == {t \in tags : t[1] = c}
           V == {InitialVersion[c]} \cup {k[2] : k \in mine}
<1>2. IsFiniteSet(mine)
    BY FS_Subset DEF TagInv
<1>3. IsFiniteSet({k[2] : k \in mine})
  <2> DEFINE f == [k \in mine |-> k[2]]
  <2>1. {k[2] : k \in mine} = {f[k] : k \in mine}
    OBVIOUS
  <2> HIDE DEF mine, V, f
  <2>2. IsFiniteSet({f[k] : k \in mine})
    BY ONLY <1>2, ImageIsFinite
  <2>3. QED
    BY ONLY <2>1, <2>2
<1>4. V \subseteq Version
  <2>1. InitialVersion[c] \in Version
    BY PlannerAssumption
  <2>2. \A k \in mine : k[2] \in Version
    BY DEF TagInv
  <2> HIDE DEF mine
  <2>3. QED
    BY <2>1, <2>2
<1>5. IsFiniteSet(V)
  <2> DEFINE U == {k[2] : k \in mine}
  <2>1. V = U \cup {InitialVersion[c]}
    OBVIOUS
  <2> HIDE DEF U, V
  <2>2. QED
    BY <1>3, <2>1, FS_AddElement DEF U
<1>6. InitialVersion[c] \in V
    OBVIOUS
<1>7. Current[c] = CHOOSE v \in V : \A w \in V : ~Below(v, w)
    BY DEF Current
<1> HIDE DEF V
<1>8. \E v \in V : \A w \in V : ~Below(v, w)
    BY <1>4, <1>5, <1>6, TopVersion
<1>9. Current[c] \in V /\ \A w \in V : ~Below(Current[c], w)
    BY <1>7, <1>8
<1>10. QED
    BY <1>4, <1>6, <1>9

\* What a plan releases are finitely many versions of components.
LEMMA KeysAreTags ==
    ASSUME setting \in Settings, NEW p, p = NoPlan \/ IsBuilt(setting, p)
    PROVE  KeysOf(p) \subseteq Components \X Version /\ IsFiniteSet(KeysOf(p))
<1>1. CASE p = NoPlan
  <2>1. KeysOf(p) = {}
    BY <1>1 DEF KeysOf, NoPlan
  <2>2. QED
    BY <2>1, FS_EmptySet
<1>2. CASE IsBuilt(setting, p)
  <2>1. /\ DOMAIN p.versions \subseteq Components
        /\ \A c \in DOMAIN p.versions : p.versions[c] \in Version
    BY <1>2, BuiltIsSound
  <2>2. IsFiniteSet(DOMAIN p.versions)
    BY <2>1, PlannerAssumption, FS_Subset
  <2>3. IsFiniteSet(KeysOf(p))
    <3> DEFINE f == [c \in DOMAIN p.versions |-> <<c, p.versions[c]>>]
    <3>1. KeysOf(p) = {f[c] : c \in DOMAIN p.versions}
      BY DEF KeysOf
    <3> HIDE DEF f
    <3>2. QED
      BY <2>2, <3>1, ImageIsFinite
  <2>4. QED
    BY <2>1, <2>3 DEF KeysOf
<1>3. QED
    BY <1>1, <1>2

LEMMA VersionInit == PlannerInit => VersionInv
<1> SUFFICES ASSUME PlannerInit PROVE VersionInv
    OBVIOUS
<1>1. \A j \in Jobs : job[j].plan = NoPlan /\ job[j].pc = "idle"
    BY DEF PlannerInit, IdleJob
<1>2. tags \subseteq FirstTags
    BY DEF PlannerInit, FirstTags
<1>3. FirstTags \subseteq Components \X Version
    BY PlannerAssumption DEF FirstTags
<1>4. IsFiniteSet(FirstTags)
  <2> DEFINE f == [c \in Components |-> <<c, InitialVersion[c]>>]
  <2>1. FirstTags = {f[c] : c \in Components}
    BY DEF FirstTags
  <2> HIDE DEF f
  <2>2. QED
    BY <2>1, PlannerAssumption, ImageIsFinite
<1>5. IsFiniteSet(tags)
    BY <1>2, <1>4, FS_Subset
<1>6. QED
    BY <1>1, <1>2, <1>3, <1>5 DEF VersionInv, TagInv, Gone

\* A step that moves one job, and takes no tag away: what it held is released or
\* orphaned, and what it tags it holds or orphans.
LEMMA VersionMoves ==
    ASSUME PlanInv, VersionInv, NEW j \in Jobs, NEW w,
           job' = [job EXCEPT ![j] = w],
           w.plan = NoPlan \/ IsBuilt(setting, w.plan), Gone(w, tags'),
           tags \subseteq tags', UNCHANGED setting,
           tags' \subseteq Components \X Version, IsFiniteSet(tags'),
           journal.released \subseteq journal'.released, orphans \subseteq orphans',
           job[j].pc = "won" => job[j].key \in journal'.released \cup orphans',
           \A t \in tags' \ tags : t \in orphans' \/ (w.pc = "won" /\ t = w.key)
    PROVE  VersionInv'
<1>1. \A k \in Jobs : job'[k] = IF k = j THEN w ELSE job[k]
    BY DEF PlanInv, Shape
<1>2. \A k \in Jobs : job'[k].plan = NoPlan \/ IsBuilt(setting, job'[k].plan)
    BY <1>1 DEF VersionInv
<1>3. \A k \in Jobs : Gone(job'[k], tags')
    BY <1>1 DEF VersionInv, Gone
<1>4. InHand \subseteq journal'.released \cup orphans' \cup InHand'
    BY <1>1 DEF InHand
<1>5. w.pc = "won" => w.key \in InHand'
    BY <1>1 DEF InHand
<1>6. TagInv'
    BY <1>4, <1>5 DEF VersionInv, TagInv, FirstTags
<1>7. QED
    BY <1>2, <1>3, <1>6 DEF VersionInv, Gone

\* One that holds nothing and tags nothing.
LEMMA TaglessMoves ==
    ASSUME PlanInv, VersionInv, NEW j \in Jobs, NEW w,
           job' = [job EXCEPT ![j] = w],
           w.plan = NoPlan \/ IsBuilt(setting, w.plan), Gone(w, tags),
           UNCHANGED <<tags, setting, orphans>>, journal'.released = journal.released,
           job[j].pc # "won"
    PROVE  VersionInv'
    BY VersionMoves DEF VersionInv, TagInv

LEMMA StillVersions ==
    ASSUME VersionInv, UNCHANGED <<setting, tags, orphans, journal, job>>
    PROVE  VersionInv'
    BY DEF VersionInv, TagInv, Gone, InHand

\* The plan that a job builds.
LEMMA BuildVersions ==
    ASSUME PlanInv, VersionInv, NEW j \in Jobs, Build(j)
    PROVE  VersionInv'
<1> DEFINE active == fragments \ job[j].fence
           raises == Cyclic(setting.deps, Components)
           plan   == PlanOf(setting, active, Current)
           w      == IF raises \/ active = {} THEN IdleJob
                     ELSE [job[j] EXCEPT !.pc = "built", !.plan = plan]
<1>1. /\ job' = [job EXCEPT ![j] = w] /\ UNCHANGED <<setting, tags, orphans, journal>>
      /\ job[j].pc = "fenced"
    BY DEF Build, PlanOf
<1>2. IsJob(job[j]) /\ active \subseteq Ulids
    BY DEF PlanInv, Shape
<1>3. /\ Current \in [Components -> Version]
      /\ \A c \in Components : ~Below(Current[c], InitialVersion[c])
    BY CurrentIs DEF VersionInv
<1>4. plan.consumed = active /\ plan.base = Current
    BY DEF PlanOf, BuildPlan
<1>5. active # {} => IsBuilt(setting, plan)
  <2> DEFINE p == plan
  <2>1. p = PlanOf(setting, p.consumed, p.base)
    BY <1>4
  <2> HIDE DEF plan, active
  <2>2. QED
    BY <1>2, <1>3, <1>4, <2>1 DEF IsBuilt
<1> HIDE DEF raises, plan, active
<1>6. w.plan = NoPlan \/ IsBuilt(setting, w.plan)
    BY <1>2, <1>5 DEF IdleJob, IsJob
<1>7. Gone(w, tags)
    BY <1>2 DEF IdleJob, IsJob, Gone
<1> HIDE DEF w
<1>8. QED
    BY <1>1, <1>6, <1>7, TaglessMoves

\* The package that a run comes to: it is tagged by whoever was there first, or by
\* the run itself, which then holds it or takes it for somebody else's.
LEMMA ChoosesVersions ==
    ASSUME PlanInv, VersionInv, NEW j \in Jobs, Chooses(j)
    PROVE  VersionInv'
<1>1. PICK k \in job[j].todo : PassOver(j, k) \/ Win(j, k) \/ WinUnheard(j, k)
    BY DEF Chooses
<1>2. /\ UNCHANGED <<setting, journal>> /\ job[j].pc = "packages"
      /\ IsJob(job[j]) /\ setting \in Settings
    BY <1>1 DEF PassOver, Win, WinUnheard, Turn, PlanInv, Shape
<1>3. job[j].plan = NoPlan \/ IsBuilt(setting, job[j].plan)
    BY DEF VersionInv
<1>4. Gone(job[j], tags)
    BY DEF VersionInv
<1>5. k \in KeysOf(job[j].plan) /\ k \in Components \X Version
    BY <1>1, <1>2, <1>3, <1>4, KeysAreTags DEF Gone
<1> DEFINE past == [job[j] EXCEPT !.todo = @ \ {k}]
           won  == [job[j] EXCEPT !.pc = "won", !.key = k, !.todo = @ \ {k}]
<1>6. /\ past.pc = "packages" /\ past.todo = job[j].todo \ {k} /\ past.plan = job[j].plan
      /\ won.pc = "won" /\ won.todo = job[j].todo \ {k} /\ won.plan = job[j].plan
      /\ won.key = k
    BY <1>2 DEF IsJob
<1>7. \/ PassOver(j, k) /\ job' = [job EXCEPT ![j] = past]
      \/ Win(j, k) /\ job' = [job EXCEPT ![j] = won]
      \/ WinUnheard(j, k) /\ job' = [job EXCEPT ![j] = past]
    BY <1>1 DEF PassOver, Win, WinUnheard, PlanInv, Shape
<1> HIDE DEF past, won
<1>8. tags \subseteq Components \X Version /\ IsFiniteSet(tags)
    BY DEF VersionInv, TagInv
<1>9. IsFiniteSet(tags \cup {k})
    BY <1>8, FS_AddElement
<1>10. k \in tags' => Gone(past, tags') /\ Gone(won, tags')
  <2>1. tags \subseteq tags'
    BY <1>1 DEF PassOver, Win, WinUnheard
  <2>2. QED
    BY <1>2, <1>4, <1>6, <2>1 DEF Gone
<1>11. CASE PassOver(j, k) /\ job' = [job EXCEPT ![j] = past]
  <2>1. k \in tags /\ UNCHANGED <<tags, orphans>>
    BY <1>11 DEF PassOver
  <2>2. QED
    BY <1>2, <1>3, <1>6, <1>10, <1>11, <2>1, TaglessMoves
<1>12. CASE Win(j, k) /\ job' = [job EXCEPT ![j] = won]
  <2>1. tags' = tags \cup {k} /\ UNCHANGED orphans
    BY <1>12 DEF Win
  <2>2. k \in tags' /\ \A t \in tags' \ tags : t = won.key
    BY <1>6, <2>1
  <2>3. QED
    BY <1>2, <1>3, <1>5, <1>6, <1>8, <1>9, <1>10, <1>12, <2>1, <2>2, VersionMoves
<1>13. CASE WinUnheard(j, k) /\ job' = [job EXCEPT ![j] = past]
  <2>1. tags' = tags \cup {k} /\ orphans' = orphans \cup {k}
    BY <1>13 DEF WinUnheard
  <2>2. k \in tags' /\ \A t \in tags' \ tags : t \in orphans'
    BY <2>1
  <2>3. QED
    BY <1>2, <1>3, <1>5, <1>6, <1>8, <1>9, <1>10, <1>13, <2>1, <2>2, VersionMoves
<1>14. QED
    BY <1>7, <1>11, <1>12, <1>13

\* What a run wins it publishes, and goes on.
LEMMA WinnerVersions ==
    ASSUME PlanInv, VersionInv, NEW j \in Jobs, RecordReleased(j) \/ CloseIssue(j)
    PROVE  VersionInv'
<1> DEFINE v == [job[j] EXCEPT !.pc = "released"]
           w == [job[j] EXCEPT !.pc = "packages", !.key = <<>>]
<1>1. IsJob(job[j]) /\ IsJournal(journal) /\ UNCHANGED <<setting, tags, orphans>>
    BY DEF PlanInv, Shape, RecordReleased, CloseIssue
<1>2. /\ v.pc = "released" /\ v.todo = job[j].todo /\ v.plan = job[j].plan
      /\ w.pc = "packages" /\ w.todo = job[j].todo /\ w.plan = job[j].plan
    BY <1>1 DEF IsJob
<1>3. \/ RecordReleased(j) /\ job' = [job EXCEPT ![j] = v]
      \/ CloseIssue(j) /\ job' = [job EXCEPT ![j] = w]
    BY DEF RecordReleased, CloseIssue, PlanInv, Shape
<1> HIDE DEF v, w
<1>4. /\ job[j].plan = NoPlan \/ IsBuilt(setting, job[j].plan)
      /\ Gone(job[j], tags) /\ tags \subseteq Components \X Version /\ IsFiniteSet(tags)
    BY DEF VersionInv, TagInv
<1>5. CASE RecordReleased(j) /\ job' = [job EXCEPT ![j] = v]
  <2>1. job[j].pc = "won" /\ journal'.released = journal.released \cup {job[j].key}
    BY <1>1, <1>5 DEF RecordReleased, IsJournal
  <2>2. Gone(v, tags)
    BY <1>2, <1>4, <2>1 DEF Gone
  <2>3. QED
    BY <1>1, <1>2, <1>4, <1>5, <2>1, <2>2, VersionMoves
<1>6. CASE CloseIssue(j) /\ job' = [job EXCEPT ![j] = w]
  <2>1. job[j].pc = "released" /\ journal'.released = journal.released
    BY <1>1, <1>6 DEF CloseIssue, IsJournal
  <2>2. Gone(w, tags)
    BY <1>2, <1>4, <2>1 DEF Gone
  <2>3. QED
    BY <1>1, <1>2, <1>4, <1>6, <2>1, <2>2, TaglessMoves
<1>7. QED
    BY <1>3, <1>5, <1>6

\* A job at rest has no plan.
LEMMA IdlePlan == IdleJob.plan = NoPlan /\ IdleJob.pc = "idle" /\ \A T : Gone(IdleJob, T)
    BY DEF IdleJob, Gone

LEMMA KillVersions ==
    ASSUME PlanInv, VersionInv, NEW j \in Jobs, Kill(j)
    PROVE  VersionInv'
<1>1. job' = [job EXCEPT ![j] = IdleJob] /\ UNCHANGED <<setting, tags, journal>>
    BY DEF Kill
<1>2. orphans \subseteq orphans' /\ (job[j].pc = "won" => job[j].key \in orphans')
    BY DEF Kill
<1>3. tags \subseteq Components \X Version /\ IsFiniteSet(tags)
    BY DEF VersionInv, TagInv
<1>4. QED
    BY <1>1, <1>2, <1>3, IdlePlan, VersionMoves

LEMMA StartVersions ==
    ASSUME PlanInv, VersionInv, NEW j \in Jobs, Start(j)
    PROVE  VersionInv'
<1>1. IsJob(job[j]) /\ IsJournal(journal) /\ job[j].pc = "built"
    BY DEF PlanInv, Shape, Start
<1>2. journal'.released = journal.released /\ UNCHANGED <<setting, tags, orphans>>
    BY <1>1 DEF Start, IsJournal
<1>3. CASE job[j].plan.consumed \in journal.done
  <2>1. job' = [job EXCEPT ![j] = IdleJob]
    BY <1>3 DEF Start
  <2>2. QED
    BY <1>1, <1>2, <2>1, IdlePlan, TaglessMoves
<1>4. CASE job[j].plan.consumed \notin journal.done
  <2> DEFINE w == [job[j] EXCEPT !.pc = "packages", !.todo = KeysOf(job[j].plan)]
  <2>1. job' = [job EXCEPT ![j] = w]
    BY <1>4 DEF Start, PlanInv, Shape
  <2>2. w.pc = "packages" /\ w.plan = job[j].plan /\ w.todo = KeysOf(job[j].plan)
    BY <1>1 DEF IsJob
  <2> HIDE DEF w
  <2>3. w.plan = NoPlan \/ IsBuilt(setting, w.plan)
    BY <2>2 DEF VersionInv
  <2>4. Gone(w, tags)
    BY <2>2 DEF Gone
  <2>5. QED
    BY <1>1, <1>2, <2>1, <2>3, <2>4, TaglessMoves
<1>5. QED
    BY <1>3, <1>4

LEMMA FinalizeVersions ==
    ASSUME PlanInv, VersionInv, NEW j \in Jobs, Finalize(j)
    PROVE  VersionInv'
<1>1. IsJournal(journal)
    BY DEF PlanInv, Shape
<1>2. journal'.released = journal.released /\ UNCHANGED <<setting, tags, orphans>>
    BY <1>1 DEF Finalize, IsJournal
<1>3. job' = [job EXCEPT ![j] = IdleJob] /\ job[j].pc = "packages"
    BY DEF Finalize
<1>4. QED
    BY <1>2, <1>3, IdlePlan, TaglessMoves

LEMMA ReadFenceVersions ==
    ASSUME PlanInv, VersionInv, NEW j \in Jobs, ReadFence(j)
    PROVE  VersionInv'
<1> DEFINE w == [IdleJob EXCEPT !.pc = "fenced", !.fence = InFlight(journal),
                                !.saw = StartedPlans(journal)]
<1>1. /\ job' = [job EXCEPT ![j] = w] /\ UNCHANGED <<setting, tags, orphans, journal>>
      /\ job[j].pc = "idle"
    BY DEF ReadFence
<1>2. w.plan = NoPlan /\ Gone(w, tags)
    BY DEF IdleJob, Gone
<1> HIDE DEF w
<1>3. QED
    BY <1>1, <1>2, TaglessMoves

LEMMA VersionsKeep ==
    ASSUME PlanInv, VersionInv, [Next]_vars
    PROVE  VersionInv'
<1>0. setting.jobs \subseteq Jobs
    BY PlannerAssumption DEF PlanInv, Shape
<1>1. CASE PlannerStep
  <2>1. PlannerNext
    BY <1>1 DEF PlannerStep
  <2>2. CASE \E u \in Ulids : LandChange(u)
    BY <2>2, StillVersions DEF LandChange
  <2>3. CASE \E j \in setting.jobs : JobStep(j)
    <3>1. PICK j \in Jobs : JobStep(j)
      BY <1>0, <2>3
    <3>2. CASE Retire(j)
      BY <3>2, StillVersions DEF Retire
    <3>3. QED
      BY <3>1, <3>2, ReadFenceVersions, BuildVersions, StartVersions, ChoosesVersions,
         WinnerVersions, FinalizeVersions, KillVersions DEF JobStep, Chooses
  <2>4. QED
    BY <2>1, <2>2, <2>3 DEF PlannerNext
<1>10. CASE \E j \in setting.jobs, fails \in BOOLEAN : CloseStep(j, fails)
  <2>1. PICK j \in Jobs : CloseIssue(j)
    BY <1>0, <1>10 DEF CloseStep
  <2>2. QED
    BY <2>1, WinnerVersions
<1>2. CASE ForcePush
    BY <1>2, StillVersions DEF ForcePush
<1>3. CASE Reopen
    BY <1>3, StillVersions DEF Reopen, plannerVars
<1>4. CASE \E r \in setting.readers : ReaderStep(r)
  <2>1. UNCHANGED plannerVars
    BY <1>4 DEF ReaderStep, ReadJournal, Project, Outage, Unlinked, FetchTip, PushLedger, Verify,
       Trace
  <2>2. QED
    BY <2>1, StillVersions DEF plannerVars
<1>5. CASE UNCHANGED vars
    BY <1>5, StillVersions DEF vars, plannerVars
<1>6. QED
    BY <1>1, <1>10, <1>2, <1>3, <1>4, <1>5 DEF Next

(***************************************************************************)
(* What a write takes from the ledger                                      *)
(***************************************************************************)

\* The changes that records name, those they name a plan for, and those that a
\* journal has a plan for.
Changes(recs)  == {recs[i].change : i \in DOMAIN recs}
Resolved(recs) == {recs[i].change : i \in {k \in DOMAIN recs : recs[k].plan # Unresolved}}
Joinable(j)    == Identified \cap DOMAIN j.index

\* A reader that nobody overtook since it began, and that could read the journal,
\* is about to write at least what the ledger has, but for what was forced off.
Whole(w) ==
    /\ w.since \in Nat /\ w.since <= ledger.writes
    /\ Joinable(w.journal) \subseteq Joinable(journal)
    /\ w.pc = "push" =>
        /\ w.kind = "rebuild"
        /\ Changes(w.records) \subseteq OnTrunk \cup lost
        /\ Resolved(w.records) \subseteq Joinable(journal)
        /\ \A i \in DOMAIN w.records :
              w.records[i].plan = Join(w.records[i].change, w.journal)
    /\ w.pc = "push" /\ w.since = ledger.writes =>
        Changes(ledger.records) \subseteq Changes(w.records) \cup lost
    /\ w.pc \in {"trunk", "push"} /\ w.kind = "rebuild" /\ ~w.blind /\ w.since = ledger.writes =>
        Resolved(ledger.records) \subseteq Joinable(w.journal)

ThinInv ==
    /\ ledger.writes \in Nat
    /\ Changes(ledger.records) \subseteq OnTrunk \cup lost
    /\ Resolved(ledger.records) \subseteq Joinable(journal)
    /\ \A r \in Readers : Whole(reader[r])

\* A reader that is not about to write is whole as long as it owes nothing.
LEMMA AtRest ==
    ASSUME ThinInv, NEW w, w.since = 0, w.journal = EmptyJournal, w.pc = "idle"
    PROVE  Whole(w)
    BY DEF Whole, ThinInv, Joinable, EmptyJournal

LEMMA ThinInit == Init => ThinInv
<1> SUFFICES ASSUME Init PROVE ThinInv
    OBVIOUS
<1>1. /\ ledger.writes = 0 /\ ledger.records = <<>>
      /\ \A r \in Readers : reader[r] = IdleReader
    BY DEF Init
<1>2. Changes(ledger.records) = {} /\ Resolved(ledger.records) = {}
    BY <1>1 DEF Changes, Resolved
<1>3. Whole(IdleReader)
    BY <1>1 DEF Whole, IdleReader, Joinable, EmptyJournal
<1>4. QED
    BY <1>1, <1>2, <1>3 DEF ThinInv

\* A step of the world around the readers.
LEMMA ThinAround ==
    ASSUME ThinInv, UNCHANGED <<reader, ledger>>,
           OnTrunk \cup lost \subseteq OnTrunk' \cup lost', lost \subseteq lost',
           Joinable(journal) \subseteq Joinable(journal')
    PROVE  ThinInv'
<1>1. ASSUME NEW w, Whole(w) PROVE Whole(w)'
    BY <1>1 DEF Whole, Joinable, Changes, Resolved, Join
<1>2. \A r \in Readers : Whole(reader[r])'
  <2>1. SUFFICES ASSUME NEW r \in Readers PROVE Whole(reader[r])'
    OBVIOUS
  <2>2. PICK w : w = reader[r]
    OBVIOUS
  <2>3. Whole(w)'
    BY <1>1, <2>2 DEF ThinInv
  <2>4. QED
    BY <2>2, <2>3 DEF Whole
<1>3. QED
    BY <1>2 DEF ThinInv, Joinable, Changes, Resolved

\* A step of one reader that writes nothing.
LEMMA ThinMoves ==
    ASSUME LedgerInv, ThinInv, NEW r \in Readers, NEW w,
           reader' = [reader EXCEPT ![r] = w], Whole(w),
           UNCHANGED <<plannerVars, ledger, lost>>
    PROVE  ThinInv'
<1>1. UNCHANGED <<trunk, journal, ledger, lost>>
    BY DEF plannerVars
<1>2. \A s \in Readers : reader'[s] = IF s = r THEN w ELSE reader[s]
    BY DEF LedgerInv, ReadInv
<1>3. ASSUME NEW v, Whole(v) PROVE Whole(v)'
    BY <1>1, <1>3 DEF Whole, Joinable, Changes, Resolved, Join, OnTrunk
<1>4. \A s \in Readers : Whole(reader[s])'
  <2>1. SUFFICES ASSUME NEW s \in Readers PROVE Whole(reader[s])'
    OBVIOUS
  <2>2. PICK v : v = reader'[s]
    OBVIOUS
  <2>3. Whole(v)
    BY <1>2, <2>2 DEF ThinInv
  <2>4. Whole(v)'
    BY <1>3, <2>3
  <2>5. QED
    BY <2>2, <2>4 DEF Whole
<1>5. QED
    BY <1>1, <1>4 DEF ThinInv, Joinable, Changes, Resolved, OnTrunk

LEMMA ReadJournalThin ==
    ASSUME LedgerInv, ThinInv, NEW r \in Readers, NEW kind, NEW fails \in BOOLEAN,
           ReadJournal(r, kind, fails)
    PROVE  ThinInv'
<1> DEFINE j == IF fails THEN EmptyJournal ELSE journal
           owed == IF kind = "verify" THEN Owed ELSE {}
           since == IF kind = "rebuild" THEN ledger.writes ELSE 0
           w == [IdleReader EXCEPT !.pc = "trunk", !.kind = kind, !.blind = fails,
                    !.journal = j, !.since = since, !.owed = owed]
<1>1. reader' = [reader EXCEPT ![r] = w] /\ UNCHANGED <<plannerVars, ledger, lost>>
    BY DEF ReadJournal
<1>2. since \in Nat /\ since <= ledger.writes
    BY DEF ThinInv
<1>3. Joinable(j) \subseteq Joinable(journal)
    BY DEF Joinable, EmptyJournal
<1>4. ~fails => j = journal
    OBVIOUS
<1> HIDE DEF j, owed, since
<1>5. w.since = since /\ w.journal = j /\ w.pc = "trunk" /\ w.kind = kind /\ w.blind = fails
    BY DEF IdleReader
<1> HIDE DEF w
<1>6. Whole(w)
    BY <1>2, <1>3, <1>4, <1>5 DEF Whole, ThinInv
<1>7. QED
    BY <1>1, <1>6, ThinMoves

\* What is projected from trunk.
LEMMA ProjectionIs ==
    ASSUME NEW j
    PROVE  LET recs == Projection(trunk, j)
           IN  /\ Changes(recs) = OnTrunk
               /\ Resolved(recs) \subseteq Joinable(j)
               /\ \A i \in DOMAIN recs : recs[i].plan = Join(recs[i].change, j)
<1> DEFINE recs == Projection(trunk, j)
<1>1. /\ DOMAIN recs = DOMAIN trunk
      /\ \A i \in DOMAIN trunk : recs[i].change = trunk[i] /\ recs[i].plan = Join(trunk[i], j)
    BY DEF Projection
<1> HIDE DEF recs
<1>2. Changes(recs) = OnTrunk
    BY <1>1 DEF Changes, OnTrunk
<1>3. Resolved(recs) \subseteq Joinable(j)
    BY <1>1 DEF Resolved, Join, Joinable
<1>4. QED
    BY <1>1, <1>2, <1>3 DEF recs

LEMMA ProjectThin ==
    ASSUME LedgerInv, ThinInv, NEW r \in Readers, Project(r)
    PROVE  ThinInv'
<1> DEFINE records == Projection(trunk, reader[r].journal)
           pushing == [reader[r] EXCEPT !.pc = "push", !.records = records, !.tip = ledger.writes]
           same == ledger.writes > 0 /\ ledger.records = records
           w == IF same THEN IdleReader ELSE pushing
<1>1. /\ reader' = [reader EXCEPT ![r] = w] /\ UNCHANGED <<plannerVars, ledger, lost>>
      /\ reader[r].pc = "trunk" /\ reader[r].kind = "rebuild"
    BY DEF Project
<1>2. IsReader(reader[r]) /\ Whole(reader[r])
    BY DEF LedgerInv, ReadInv, Good, ThinInv
<1>3. /\ Changes(records) = OnTrunk
      /\ Resolved(records) \subseteq Joinable(reader[r].journal)
      /\ \A i \in DOMAIN records : records[i].plan = Join(records[i].change, reader[r].journal)
    BY ProjectionIs
<1> HIDE DEF records, same
<1>4. /\ pushing.pc = "push" /\ pushing.kind = "rebuild" /\ pushing.records = records
      /\ pushing.since = reader[r].since /\ pushing.journal = reader[r].journal
      /\ pushing.blind = reader[r].blind
    BY <1>1, <1>2 DEF IsReader
<1> HIDE DEF pushing
<1>5. Whole(pushing)
  <2>1. /\ pushing.since \in Nat /\ pushing.since <= ledger.writes
        /\ Joinable(pushing.journal) \subseteq Joinable(journal)
    BY <1>2, <1>4 DEF Whole
  <2>2. /\ Changes(pushing.records) \subseteq OnTrunk \cup lost
        /\ Resolved(pushing.records) \subseteq Joinable(journal)
        /\ Changes(ledger.records) \subseteq Changes(pushing.records) \cup lost
    BY <1>3, <1>4, <2>1 DEF ThinInv
  <2>3. \A i \in DOMAIN pushing.records :
            pushing.records[i].plan = Join(pushing.records[i].change, pushing.journal)
    BY <1>3, <1>4
  <2>4. ~pushing.blind /\ pushing.since = ledger.writes =>
            Resolved(ledger.records) \subseteq Joinable(pushing.journal)
    BY <1>1, <1>2, <1>4 DEF Whole
  <2>5. QED
    BY <1>4, <2>1, <2>2, <2>3, <2>4 DEF Whole
<1>6. Whole(IdleReader)
    BY AtRest DEF IdleReader
<1>7. Whole(w)
    BY <1>5, <1>6
<1> HIDE DEF w
<1>8. QED
    BY <1>1, <1>7, ThinMoves

LEMMA FetchTipThin ==
    ASSUME LedgerInv, ThinInv, NEW r \in Readers, FetchTip(r)
    PROVE  ThinInv'
<1> DEFINE w == [reader[r] EXCEPT !.tip = ledger.writes]
<1>1. IsReader(reader[r]) /\ Whole(reader[r])
    BY DEF LedgerInv, ReadInv, Good, ThinInv
<1>2. reader' = [reader EXCEPT ![r] = w] /\ UNCHANGED <<plannerVars, ledger, lost>>
    BY DEF FetchTip, LedgerInv, ReadInv
<1>3. /\ w.pc = reader[r].pc /\ w.kind = reader[r].kind /\ w.records = reader[r].records
      /\ w.since = reader[r].since /\ w.journal = reader[r].journal /\ w.blind = reader[r].blind
    BY <1>1 DEF IsReader
<1> HIDE DEF w
<1>4. Whole(w)
    BY <1>1, <1>3 DEF Whole
<1>5. QED
    BY <1>2, <1>4, ThinMoves

\* The steps that end with an answer, or with nothing.
LEMMA AnswerThin ==
    ASSUME LedgerInv, ThinInv, NEW r \in Readers,
           Outage(r) \/ Unlinked(r) \/ (\E unknown \in BOOLEAN : Verify(r, unknown)) \/ Trace(r)
    PROVE  ThinInv'
<1>1. UNCHANGED <<plannerVars, ledger, lost>>
    BY DEF Outage, Unlinked, Verify, Trace
<1>2. CASE Outage(r) \/ Unlinked(r)
  <2>1. reader' = [reader EXCEPT ![r] = IdleReader]
    BY <1>2 DEF Outage, Unlinked
  <2>2. Whole(IdleReader)
    BY AtRest DEF IdleReader
  <2>3. QED
    BY <1>1, <2>1, <2>2, ThinMoves
<1>3. CASE \E unknown \in BOOLEAN : Verify(r, unknown)
  <2>1. PICK unknown \in BOOLEAN : Verify(r, unknown)
    BY <1>3
  <2>2. PICK answer : reader' = [reader EXCEPT ![r] =
            [IdleReader EXCEPT !.answer = answer,
                               !.blind = reader[r].blind, !.owed = reader[r].owed]]
    BY <2>1 DEF Verify
  <2> DEFINE w == [IdleReader EXCEPT !.answer = answer,
                                     !.blind = reader[r].blind, !.owed = reader[r].owed]
  <2>3. w.since = 0 /\ w.journal = EmptyJournal /\ w.pc = "idle"
    BY DEF IdleReader
  <2>4. reader' = [reader EXCEPT ![r] = w]
    BY <2>2
  <2> HIDE DEF w
  <2>5. QED
    BY <1>1, <2>3, <2>4, AtRest, ThinMoves
<1>4. CASE Trace(r)
  <2>1. PICK told : reader' = [reader EXCEPT ![r] = [IdleReader EXCEPT !.told = told]]
    BY <1>4 DEF Trace
  <2> DEFINE w == [IdleReader EXCEPT !.told = told]
  <2>2. w.since = 0 /\ w.journal = EmptyJournal /\ w.pc = "idle"
    BY DEF IdleReader
  <2>3. reader' = [reader EXCEPT ![r] = w]
    BY <2>1
  <2> HIDE DEF w
  <2>4. QED
    BY <1>1, <2>2, <2>3, AtRest, ThinMoves
<1>5. QED
    BY <1>2, <1>3, <1>4

LEMMA PushLedgerThin ==
    ASSUME LedgerInv, ThinInv, NEW r \in Readers, PushLedger(r)
    PROVE  ThinInv'
<1>1. /\ reader' = [reader EXCEPT ![r] = IdleReader] /\ UNCHANGED <<plannerVars, lost>>
      /\ reader[r].pc = "push"
    BY DEF PushLedger
<1>2. Whole(IdleReader)
    BY AtRest DEF IdleReader
<1>3. CASE reader[r].tip # ledger.writes
  <2>1. UNCHANGED ledger
    BY <1>3 DEF PushLedger
  <2>2. QED
    BY <1>1, <1>2, <2>1, ThinMoves
<1>4. CASE reader[r].tip = ledger.writes
  <2>1. /\ ledger'.writes = ledger.writes + 1 /\ ledger'.records = reader[r].records
    BY <1>4 DEF PushLedger
  <2>2. UNCHANGED <<trunk, journal, lost>>
    BY <1>1 DEF plannerVars
  <2>3. /\ Changes(ledger'.records) \subseteq OnTrunk \cup lost
        /\ Resolved(ledger'.records) \subseteq Joinable(journal)
    BY <1>1, <2>1 DEF ThinInv, Whole
  <2>4. ASSUME NEW w, Whole(w) PROVE Whole(w)'
    <3>1. /\ w.since \in Nat /\ w.since <= ledger'.writes /\ w.since # ledger'.writes
      BY <2>1, <2>4 DEF Whole, ThinInv
    <3>2. QED
      BY <2>2, <2>4, <3>1 DEF Whole, Joinable, Changes, Resolved, Join, OnTrunk
  <2>5. \A s \in Readers : reader'[s] = IF s = r THEN IdleReader ELSE reader[s]
    BY <1>1 DEF LedgerInv, ReadInv
  <2>6. \A s \in Readers : Whole(reader[s])'
    <3>1. SUFFICES ASSUME NEW s \in Readers PROVE Whole(reader[s])'
      OBVIOUS
    <3>2. PICK v : v = reader'[s]
      OBVIOUS
    <3>3. Whole(v)'
      BY <1>2, <2>4, <2>5, <3>2 DEF ThinInv
    <3>4. QED
      BY <3>2, <3>3 DEF Whole
  <2>7. ledger'.writes \in Nat
    BY <2>1 DEF ThinInv
  <2>8. QED
    BY <2>2, <2>3, <2>6, <2>7 DEF ThinInv, Joinable, Changes, Resolved, OnTrunk
<1>5. QED
    BY <1>3, <1>4

LEMMA PlannerThin ==
    ASSUME PlanInv, ThinInv, PlannerStep
    PROVE  ThinInv'
<1>1. PlannerNext /\ UNCHANGED <<reader, ledger, lost>>
    BY DEF PlannerStep, ledgerVars
<1>2. IsJournal(journal) /\ trunk \in Seq(Ulids)
    BY DEF PlanInv, Shape
<1>3. OnTrunk \subseteq OnTrunk' /\ Joinable(journal) \subseteq Joinable(journal')
  <2>1. CASE \E u \in Ulids : LandChange(u)
    BY <1>2, <2>1, OnTrunkAppend DEF LandChange
  <2>2. CASE \E j \in setting.jobs : JobStep(j)
    <3>1. UNCHANGED trunk
      BY <2>2 DEF JobStep, ReadFence, Build, Start, Retire, PassOver, Win, WinUnheard,
         RecordReleased, Finalize, Kill
    <3>2. DOMAIN journal.index \subseteq DOMAIN journal'.index
      <4>1. PICK j \in setting.jobs : JobStep(j)
        BY <2>2
      <4>2. CASE Start(j)
        <5> DEFINE h == job[j].plan.consumed
                   index == [u \in DOMAIN journal.index \cup (h \cap Identified) |->
                                IF u \in h \cap Identified THEN h ELSE journal.index[u]]
        <5>1. CASE h \in journal.done
          BY <4>2, <5>1 DEF Start
        <5>2. CASE h \notin journal.done
          <6>1. journal'.index = index
            BY <1>2, <4>2, <5>2 DEF Start, IsJournal
          <6>2. QED
            BY <6>1
        <5>3. QED
          BY <5>1, <5>2
      <4>3. CASE ~Start(j)
        BY <1>2, <4>1, <4>3
           DEF JobStep, ReadFence, Build, Retire, PassOver, Win, WinUnheard, RecordReleased,
               Finalize, Kill, IsJournal
      <4>4. QED
        BY <4>2, <4>3
    <3>3. QED
      BY <3>1, <3>2 DEF OnTrunk, Joinable
  <2>3. QED
    BY <1>1, <2>1, <2>2 DEF PlannerNext
<1>4. QED
    BY <1>1, <1>3, ThinAround

\* The history of what is owed is nothing to a write.
LEMMA CloseStepThin ==
    ASSUME LedgerInv, ThinInv, NEW j \in Jobs, NEW fails \in BOOLEAN, CloseStep(j, fails)
    PROVE  ThinInv'
<1>1. CloseIssue(j) /\ UNCHANGED <<ledger, lost>> /\ IsJournal(journal)
    BY DEF CloseStep, LedgerInv, PlanInv, Shape
<1>2. UNCHANGED trunk /\ journal'.index = journal.index
    BY <1>1 DEF CloseIssue, IsJournal
<1>3. \A r \in Readers : Whole(reader[r])'
  <2>1. SUFFICES ASSUME NEW r \in Readers PROVE Whole(reader[r])'
    OBVIOUS
  <2>2. PICK w : w = reader[r]
    OBVIOUS
  <2>3. PICK v : v = reader'[r]
    OBVIOUS
  <2>4. IsReader(w) /\ Whole(w)
    BY <2>2 DEF LedgerInv, ReadInv, Good, ThinInv
  <2>5. v = w \/ v = [w EXCEPT !.owed = @ \ {"issue"}]
    BY <2>2, <2>3 DEF CloseStep
  <2>6. /\ v.pc = w.pc /\ v.kind = w.kind /\ v.records = w.records /\ v.since = w.since
        /\ v.journal = w.journal /\ v.blind = w.blind
    BY <2>4, <2>5 DEF IsReader
  <2>7. Whole(v)'
    BY <1>1, <1>2, <2>4, <2>6 DEF Whole, Joinable, Changes, Resolved, Join, OnTrunk
  <2>8. QED
    BY <2>3, <2>7 DEF Whole
<1>4. QED
    BY <1>1, <1>2, <1>3 DEF ThinInv, Joinable, Changes, Resolved, OnTrunk

LEMMA ForcePushThin ==
    ASSUME PlanInv, ThinInv, ForcePush
    PROVE  ThinInv'
<1>1. /\ trunk # <<>> /\ trunk' = SubSeq(trunk, 1, Len(trunk) - 1) /\ trunk \in Seq(Ulids)
      /\ lost' = lost \cup {trunk[Len(trunk)]}
      /\ UNCHANGED <<reader, ledger, journal>>
    BY DEF ForcePush, PlanInv, Shape
<1>2. OnTrunk \subseteq OnTrunk' \cup {trunk[Len(trunk)]}
  <2>1. Len(trunk) \in Nat /\ Len(trunk) > 0 /\ DOMAIN trunk = 1..Len(trunk)
    BY <1>1
  <2>2. \A i \in 1 .. Len(trunk) - 1 : i \in DOMAIN trunk' /\ trunk'[i] = trunk[i]
    BY <1>1, <2>1
  <2>3. \A n \in Nat : \A i \in 1..n : i = n \/ i \in 1 .. n - 1
    OBVIOUS
  <2>4. QED
    BY <2>1, <2>2, <2>3 DEF OnTrunk
<1>3. QED
    BY <1>1, <1>2, ThinAround DEF Joinable

LEMMA ThinKeeps ==
    ASSUME LedgerInv, ThinInv, [Next]_vars
    PROVE  ThinInv'
<1>0. setting.jobs \subseteq Jobs
    BY PlannerAssumption DEF LedgerInv, PlanInv, Shape
<1>1. CASE PlannerStep \/ \E j \in setting.jobs, fails \in BOOLEAN : CloseStep(j, fails)
    BY <1>0, <1>1, PlannerThin, CloseStepThin DEF LedgerInv
<1>2. CASE ForcePush
    BY <1>2, ForcePushThin DEF LedgerInv
<1>3. CASE Reopen \/ UNCHANGED vars
    BY <1>3, ThinAround DEF Reopen, vars, ledgerVars, plannerVars, OnTrunk, Joinable
<1>4. CASE \E r \in setting.readers : ReaderStep(r)
  <2>1. setting.readers \subseteq Readers
    BY LedgerAssumption DEF LedgerInv, PlanInv, Shape
  <2>2. PICK r \in Readers : ReaderStep(r)
    BY <1>4, <2>1
  <2>3. QED
    BY <2>2, ReadJournalThin, ProjectThin, FetchTipThin, PushLedgerThin, AnswerThin
       DEF ReaderStep
<1>5. QED
    BY <1>1, <1>2, <1>3, <1>4 DEF Next

(***************************************************************************)
(* Theorems                                                                *)
(***************************************************************************)

\* The invariant holds in every behaviour.
THEOREM LedgerInvariant == Spec => []LedgerInv
    BY LedgerInit, NextKeeps, PTL DEF Spec

\* The fence (release_planner.py:36-45) holds for every number of jobs: a fragment
\* is counted in two releases only if both were planned before either started.
THEOREM FenceHolds == Spec => []CountedTwiceOnlyIfRaced
<1>1. LedgerInv => CountedTwiceOnlyIfRaced
  <2>1. SUFFICES ASSUME LedgerInv, NEW s \in journal.started, NEW t \in journal.started,
                        s.plan # t.plan, s.plan \cap t.plan # {}
                 PROVE  s.plan \notin t.saw /\ t.plan \notin s.saw
    BY DEF CountedTwiceOnlyIfRaced
  <2>2. Avoids(s.plan, s.saw) /\ Avoids(t.plan, t.saw)
    BY <2>1 DEF LedgerInv, PlanInv
  <2>3. QED
    BY <2>1, <2>2 DEF Avoids
<1>2. QED
    BY <1>1, LedgerInvariant, PTL

\* No ledger, however many writers raced on it, and no trace makes a release up
\* (ssot.py:127-147, 185-199).
THEOREM LedgerHonest == Spec => []NothingFabricated
<1>1. LedgerInv => NothingFabricated
    BY DEF LedgerInv, ReadInv, Good, HonestRecords, NothingFabricated
<1>2. QED
    BY <1>1, LedgerInvariant, PTL

\* verify passes over nothing that was wrong before it began and has not been put right
\* since, whatever lands, is released or is taken off trunk while it reads, unless it
\* could not read the journal (ssot.py:204-235).
THEOREM VerifySound == Spec => []AuditSound
<1>1. LedgerInv => AuditSound
    BY DEF LedgerInv, ReadInv, Good, AuditSound
<1>2. QED
    BY <1>1, LedgerInvariant, PTL

\* The plans and the tags stay sound in every behaviour.
LEMMA VersionInvariant == Spec => []VersionInv
<1>1. Init => VersionInv
    BY VersionInit DEF Init
<1>2. LedgerInv /\ VersionInv /\ [Next]_vars => VersionInv'
    BY VersionsKeep DEF LedgerInv
<1>3. QED
    BY <1>1, <1>2, LedgerInvariant, PTL DEF Spec

\* What a plan raises is right for every dependency graph, however large and with
\* cycles too, and for every set of fragments: whoever is reached along any path is
\* bumped, by the level that is due, to a version above the current one
\* (versionplan.py:23-74, semver.py:26-38, release_planner.py:21-30).
THEOREM EveryPlanIsSound == Spec => []PlanSound
<1>1. LedgerInv /\ VersionInv => PlanSound
  <2>1. SUFFICES ASSUME LedgerInv, VersionInv PROVE PlanSound
    OBVIOUS
  <2>2. setting \in Settings
    BY <2>1 DEF LedgerInv, PlanInv, Shape
  <2>3. ASSUME NEW j \in Jobs, job[j].plan.consumed # {}
        PROVE  LET p == job[j].plan
                   W == Wanted(p)
               IN  /\ \A c \in Components :
                        /\ c \in DOMAIN p.bumps <=> (Hit(W, c) \/ Named(W, c))
                        /\ c \in DOMAIN p.bumps =>
                             p.bumps[c] = MaxOf(Ask(W, c)
                                                \cup (IF Hit(W, c) THEN {PATCH} ELSE {NONE}))
                   /\ \A c \in DOMAIN p.versions :
                        /\ p.bumps[c] > NONE <=> Below(p.base[c], p.versions[c])
                        /\ p.bumps[c] = MAJOR => ~Compatible(p.base[c], p.versions[c])
                        /\ p.bumps[c] = PATCH => Compatible(p.base[c], p.versions[c])
    <3>1. IsBuilt(setting, job[j].plan)
      <4>1. NoPlan.consumed = {}
        BY DEF NoPlan
      <4>2. QED
        BY <2>1, <2>3, <4>1 DEF VersionInv
    <3>2. PICK p : p = job[j].plan
      OBVIOUS
    <3>3. QED
      BY <2>2, <3>1, <3>2, BuiltIsSound
  <2>4. QED
    BY <2>3 DEF PlanSound, Hit, Named, Ask
<1>2. QED
    BY <1>1, LedgerInvariant, VersionInvariant, PTL

\* Whatever plans are in flight and whichever runs are killed, a release is left
\* partial only for a cause: a version that a plan bumps was not there at the start,
\* so a taken tag of it is one that the journal has as released, that its winner
\* holds, or that is orphaned (release_planner.py:26-29, release_txn.py:111-131).
THEOREM PartialOnlyForCause == Spec => []PartialHasCause
<1>1. LedgerInv /\ VersionInv => PartialHasCause
  <2>1. SUFFICES ASSUME LedgerInv, VersionInv, NEW j \in Jobs,
                        job[j].pc = "packages", job[j].todo = {},
                        NEW k \in KeysOf(job[j].plan),
                        k \notin journal.released \cup InHand \cup orphans
                 PROVE  job[j].plan.bumps[k[1]] = NONE
    BY DEF PartialHasCause
  <2>2. setting \in Settings
    BY <2>1 DEF LedgerInv, PlanInv, Shape
  <2>3. PICK p : p = job[j].plan
    OBVIOUS
  <2>4. p # NoPlan
    BY <2>1, <2>3 DEF KeysOf, NoPlan
  <2>5. IsBuilt(setting, p)
    BY <2>1, <2>3, <2>4 DEF VersionInv
  <2>6. /\ DOMAIN p.versions \subseteq Components
        /\ \A c \in DOMAIN p.versions :
              p.bumps[c] \in Level /\ (p.bumps[c] > NONE <=> Below(p.base[c], p.versions[c]))
    BY <2>2, <2>5, BuiltIsSound
  <2>7. \A c \in Components : ~Below(p.base[c], InitialVersion[c])
    BY <2>5 DEF IsBuilt
  <2>8. k \in FirstTags
    BY <2>1 DEF VersionInv, TagInv, Gone
  <2>9. PICK c \in DOMAIN p.versions : k = <<c, p.versions[c]>>
    BY <2>1, <2>3 DEF KeysOf
  <2>10. p.versions[c] = InitialVersion[c] /\ c \in Components
    BY <2>6, <2>8, <2>9 DEF FirstTags
  <2>11. p.bumps[c] \in Level /\ ~(p.bumps[c] > NONE)
    BY <2>6, <2>7, <2>9, <2>10
  <2>12. p.bumps[c] = NONE
    BY <2>11 DEF Level, NONE, MAJOR
  <2>13. QED
    BY <2>3, <2>9, <2>12
<1>2. QED
    BY <1>1, LedgerInvariant, VersionInvariant, PTL

\* No write takes from the ledger a change that stayed on trunk, or its plan,
\* unless its writer was blind or overtaken: any number of writers, failures and
\* force-pushes beside it (ssot.py:160-172).
THEOREM LedgerKeepsWhatStays == Spec => NeverThinned
<1>1. Init => ThinInv
    BY ThinInit
<1>2. LedgerInv /\ ThinInv /\ [Next]_vars => ThinInv'
    BY ThinKeeps
<1> DEFINE Excused == \E r \in Readers :
                          /\ reader[r].pc = "push" /\ reader'[r].pc = "idle"
                          /\ reader[r].blind \/ reader[r].since # ledger.writes
           Step == (\E u \in Ulids : Thins(u)) => Excused
<1>3. LedgerInv /\ ThinInv /\ [Next]_vars => [Step]_vars
  <2>1. SUFFICES ASSUME LedgerInv, ThinInv, Next, NEW u \in Ulids, Thins(u) PROVE Excused
    OBVIOUS
  <2>2. ledger' # ledger
    BY <2>1 DEF Thins, Says
  <2>3. PICK r \in Readers : PushLedger(r)
    <3>1. setting.readers \subseteq Readers
      BY <2>1, LedgerAssumption DEF LedgerInv, PlanInv, Shape
    <3>2. QED
      BY <2>1, <2>2, <3>1 DEF Next, PlannerStep, CloseStep, ledgerVars, ForcePush, Reopen,
         ReaderStep, ReadJournal, Project, Outage, Unlinked, FetchTip, Verify, Trace
  <2> DEFINE w == reader[r]
  <2>4. /\ w.pc = "push" /\ reader'[r].pc = "idle" /\ ledger'.records = w.records
    <3>1. w.pc = "push" /\ ledger'.records = w.records
      BY <2>2, <2>3 DEF PushLedger
    <3>2. reader'[r] = IdleReader
      BY <2>1, <2>3 DEF PushLedger, LedgerInv, ReadInv
    <3>3. QED
      BY <3>1, <3>2 DEF IdleReader
  <2>5. SUFFICES ASSUME ~w.blind, w.since = ledger.writes PROVE FALSE
    BY <2>4
  <2>6. /\ Whole(w) /\ Good(w)
    BY <2>1 DEF LedgerInv, ReadInv, ThinInv
  <2> HIDE DEF w
  <2>7. /\ Changes(ledger.records) \subseteq Changes(w.records) \cup lost
        /\ Resolved(ledger.records) \subseteq Joinable(w.journal)
        /\ \A i \in DOMAIN w.records :
              w.records[i].plan = Join(w.records[i].change, w.journal)
    BY <2>4, <2>5, <2>6 DEF Whole
  <2>8. u \notin lost
    BY <2>1 DEF Thins
  <2>9. CASE Says(ledger, u) # {} /\ Says(ledger', u) = {}
    <3>1. u \in Changes(ledger.records)
      BY <2>9 DEF Says, Changes
    <3>2. u \in Changes(w.records)
      BY <2>7, <2>8, <3>1
    <3>3. QED
      BY <2>4, <2>9, <3>2 DEF Says, Changes
  <2>10. CASE Says(ledger, u) \notin {{}, {Unresolved}} /\ Says(ledger', u) = {Unresolved}
    <3>1. u \in Resolved(ledger.records)
      <4>1. PICK p \in Says(ledger, u) : p # Unresolved
        BY <2>10
      <4>2. QED
        BY <4>1 DEF Says, Resolved
    <3>2. PICK i \in DOMAIN w.records : w.records[i].change = u /\ w.records[i].plan = Unresolved
      BY <2>4, <2>10 DEF Says
    <3>3. Join(u, w.journal) = Unresolved
      BY <2>7, <3>2
    <3>4. u \in Identified /\ u \in DOMAIN w.journal.index
      BY <2>7, <3>1 DEF Joinable
    <3>5. w.journal.index[u] \in SUBSET Ulids
      BY <2>1, <2>6, <3>4 DEF Good, Honest, LedgerInv, PlanInv, Shape
    <3>6. QED
      BY <3>3, <3>4, <3>5, LedgerAssumption DEF Join
  <2>11. QED
    BY <2>1, <2>9, <2>10 DEF Thins
<1>4. QED
    BY <1>1, <1>2, <1>3, LedgerInvariant, PTL DEF Spec, NeverThinned
=============================================================================
