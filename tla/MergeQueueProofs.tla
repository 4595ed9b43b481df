-------------------------- MODULE MergeQueueProofs --------------------------
(* Proofs about MergeQueue, for any PRs, lanes, runners, verdicts and       *)
(* bounds.                                                                  *)
EXTENDS MergeQueue, FiniteSetTheorems, WellFoundedInduction, TLAPS

-----------------------------------------------------------------------------
(* Finite sets *)

\* A relation without infinite chains: among finitely many things, one has nothing
\* above it, if being above is transitive and nothing is above itself.
LEMMA TopExists ==
    ASSUME NEW S, IsFiniteSet(S), S # {}, NEW R,
           \A x \in S : <<x, x>> \notin R,
           \A x, y, z \in S : <<x, y>> \in R /\ <<y, z>> \in R => <<x, z>> \in R
    PROVE  \E x \in S : \A y \in S : <<x, y>> \notin R
<1> DEFINE Above(x) == {y \in S : <<x, y>> \in R}
           T == {Above(x) : x \in S}
<1>1. FiniteSubsetsOf(S) = SUBSET S
  BY FS_FiniteSubsetsOfFinite
<1>2. T \subseteq FiniteSubsetsOf(S) /\ T # {}
  <2>1. \A x \in S : Above(x) \in SUBSET S
    OBVIOUS
  <2>2. PICK x \in S : TRUE
    OBVIOUS
  <2> HIDE DEF Above
  <2>3. Above(x) \in T
    OBVIOUS
  <2>4. T \subseteq SUBSET S
    BY <2>1
  <2>5. QED
    BY <1>1, <2>3, <2>4
<1>3. IsWellFoundedOn(StrictSubsetOrdering(S), FiniteSubsetsOf(S))
  BY FS_StrictSubsetOrderingWellFounded
<1>4. PICK A \in T : \A B \in T : <<B, A>> \notin StrictSubsetOrdering(S)
  BY <1>2, <1>3, WFMin
<1>5. PICK x \in S : A = Above(x)
  BY <1>4
<1>6. SUFFICES ASSUME NEW y \in S, <<x, y>> \in R PROVE FALSE
  OBVIOUS
<1>7. y \in Above(x) /\ y \notin Above(y) /\ Above(y) \subseteq Above(x)
  BY <1>6
<1>8. Above(y) \in T /\ Above(y) \in SUBSET S /\ Above(x) \in SUBSET S
  OBVIOUS
<1>9. <<Above(y), Above(x)>> \in StrictSubsetOrdering(S)
  BY <1>7, <1>8 DEF StrictSubsetOrdering
<1>10. QED
  BY <1>4, <1>5, <1>8, <1>9

\* Among finitely many numbered things, one has the largest number.
LEMMA LargestExists ==
    ASSUME NEW S, IsFiniteSet(S), S # {}, NEW f, \A x \in S : f[x] \in Nat
    PROVE  \E x \in S : \A y \in S : f[y] <= f[x]
<1> DEFINE R == {xy \in S \X S : f[xy[1]] < f[xy[2]]}
<1>1. \A x, y \in S : <<x, y>> \in R <=> f[x] < f[y]
  OBVIOUS
<1> HIDE DEF R
<1>2. PICK x \in S : \A y \in S : <<x, y>> \notin R
  <2>1. \A x \in S : ~(f[x] < f[x])
    OBVIOUS
  <2>2. \A x, y, z \in S : f[x] < f[y] /\ f[y] < f[z] => f[x] < f[z]
    OBVIOUS
  <2>3. \A x \in S : <<x, x>> \notin R
    BY <1>1, <2>1
  <2>4. \A x, y, z \in S : <<x, y>> \in R /\ <<y, z>> \in R => <<x, z>> \in R
    BY <1>1, <2>2
  <2>5. QED
    BY <2>3, <2>4, TopExists
<1>3. ASSUME NEW y \in S PROVE f[y] <= f[x]
  <2>1. ~(f[x] < f[y])
    BY <1>1, <1>2
  <2>2. QED
    BY <2>1
<1>4. QED
  BY <1>3

-----------------------------------------------------------------------------
(* Prefixes *)

\* IsPrefix, index by index.
LEMMA PrefixByIndex ==
    ASSUME NEW S, NEW s \in Seq(S), NEW t \in Seq(S)
    PROVE  IsPrefix(s, t) <=>
             /\ Len(s) <= Len(t)
             /\ \A i \in 1..Len(s) : s[i] = t[i]
<1>1. ASSUME IsPrefix(s, t)
      PROVE  /\ Len(s) <= Len(t)
             /\ \A i \in 1..Len(s) : s[i] = t[i]
  <2>1. Len(s) <= Len(t) /\ SubSeq(s, 1, Len(s)) = SubSeq(t, 1, Len(s))
    BY <1>1 DEF IsPrefix
  <2>2. ASSUME NEW i \in 1..Len(s) PROVE s[i] = t[i]
    <3>1. SubSeq(s, 1, Len(s))[i] = s[i]
      OBVIOUS
    <3>2. SubSeq(t, 1, Len(s))[i] = t[i]
      BY <2>1
    <3>3. QED
      BY <2>1, <3>1, <3>2
  <2>3. QED
    BY <2>1, <2>2
<1>2. ASSUME Len(s) <= Len(t), \A i \in 1..Len(s) : s[i] = t[i]
      PROVE  IsPrefix(s, t)
  <2>1. SubSeq(s, 1, Len(s)) = SubSeq(t, 1, Len(s))
    BY <1>2
  <2>2. QED
    BY <1>2, <2>1 DEF IsPrefix
<1>3. QED
  BY <1>1, <1>2

\* A sequence is a prefix of itself.
LEMMA PrefixReflexive ==
    ASSUME NEW S, NEW s \in Seq(S)
    PROVE  IsPrefix(s, s)
BY PrefixByIndex

\* Prefixes of prefixes are prefixes.
LEMMA PrefixTransitive ==
    ASSUME NEW S, NEW s \in Seq(S), NEW t \in Seq(S), NEW u \in Seq(S),
           IsPrefix(s, t), IsPrefix(t, u)
    PROVE  IsPrefix(s, u)
<1>1. Len(s) \in Nat /\ Len(t) \in Nat /\ Len(u) \in Nat
  OBVIOUS
<1>2. Len(s) <= Len(t) /\ \A i \in 1..Len(s) : s[i] = t[i]
  BY PrefixByIndex
<1>3. Len(t) <= Len(u) /\ \A i \in 1..Len(t) : t[i] = u[i]
  BY PrefixByIndex
<1>4. Len(s) <= Len(u) /\ \A i \in 1..Len(s) : s[i] = u[i]
  BY <1>1, <1>2, <1>3
<1>5. QED
  BY <1>4, PrefixByIndex

\* The empty sequence is a prefix of every one.
LEMMA EmptyIsPrefix ==
    ASSUME NEW S, NEW s \in Seq(S)
    PROVE  IsPrefix(<<>>, s)
<1>1. <<>> \in Seq(S) /\ Len(<<>>) = 0 /\ Len(s) \in Nat
  OBVIOUS
<1>2. SubSeq(<<>>, 1, 0) = SubSeq(s, 1, 0)
  OBVIOUS
<1>3. QED
  BY <1>1, <1>2 DEF IsPrefix

\* Appending extends.
LEMMA PrefixOfAppend ==
    ASSUME NEW S, NEW s \in Seq(S), NEW e \in S
    PROVE  /\ Append(s, e) \in Seq(S)
           /\ Len(Append(s, e)) = Len(s) + 1
           /\ Append(s, e)[Len(s) + 1] = e
           /\ IsPrefix(s, Append(s, e))
<1>1. /\ Append(s, e) \in Seq(S)
      /\ Len(Append(s, e)) = Len(s) + 1
      /\ Append(s, e)[Len(s) + 1] = e
      /\ \A i \in 1..Len(s) : Append(s, e)[i] = s[i]
  OBVIOUS
<1>2. Len(s) \in Nat
  OBVIOUS
<1>3. Len(s) <= Len(Append(s, e))
  BY <1>1, <1>2
<1>4. IsPrefix(s, Append(s, e))
  <2> DEFINE t == Append(s, e)
  <2>1. /\ t \in Seq(S) /\ Len(s) <= Len(t)
        /\ \A i \in 1..Len(s) : s[i] = t[i]
    BY <1>1, <1>3
  <2> HIDE DEF t
  <2>2. IsPrefix(s, t)
    BY <2>1, PrefixByIndex
  <2>3. QED
    BY <2>2 DEF t
<1>5. QED
  BY <1>1, <1>4

\* An entry of a prefix is an entry of the whole, at the same place.
LEMMA PrefixKeepsEntries ==
    ASSUME NEW S, NEW s \in Seq(S), NEW t \in Seq(S), IsPrefix(s, t),
           NEW i \in DOMAIN s
    PROVE  i \in DOMAIN t /\ t[i] = s[i]
<1>1. /\ DOMAIN s = 1..Len(s) /\ DOMAIN t = 1..Len(t)
      /\ Len(s) \in Nat /\ Len(t) \in Nat
  OBVIOUS
<1>2. QED
  BY <1>1, PrefixByIndex

\* A prefix is a subsequence from the beginning,
LEMMA PrefixIsSubSeq ==
    ASSUME NEW S, NEW s \in Seq(S), NEW t \in Seq(S), IsPrefix(s, t)
    PROVE  Len(s) \in 0 .. Len(t) /\ s = SubSeq(t, 1, Len(s))
<1>1. Len(s) \in Nat /\ Len(t) \in Nat
  OBVIOUS
<1>2. Len(s) <= Len(t) /\ SubSeq(s, 1, Len(s)) = SubSeq(t, 1, Len(s))
  BY DEF IsPrefix
<1>3. SubSeq(s, 1, Len(s)) = s
  OBVIOUS
<1>4. QED
  BY <1>1, <1>2, <1>3

\* and a prefix of a sequence with one more entry is that, or one of the old ones.
LEMMA PrefixOfAppended ==
    ASSUME NEW S, NEW s \in Seq(S), NEW t \in Seq(S), NEW e \in S,
           IsPrefix(t, Append(s, e))
    PROVE  t = Append(s, e) \/ IsPrefix(t, s)
<1> DEFINE u == Append(s, e)
<1>1. /\ u \in Seq(S) /\ Len(u) = Len(s) + 1 /\ Len(s) \in Nat /\ Len(t) \in Nat
      /\ \A i \in 1 .. Len(s) : u[i] = s[i]
  OBVIOUS
<1> HIDE DEF u
<1>2. Len(t) <= Len(u) /\ \A i \in 1 .. Len(t) : t[i] = u[i]
  <2>1. IsPrefix(t, u)
    BY DEF u
  <2>2. QED
    BY <1>1, <2>1, PrefixByIndex
<1>3. CASE Len(t) = Len(u)
  <2>1. t = u
    BY <1>1, <1>2, <1>3
  <2>2. QED
    BY <2>1 DEF u
<1>4. CASE Len(t) # Len(u)
  <2>1. Len(t) <= Len(s) /\ \A i \in 1 .. Len(t) : t[i] = s[i]
    BY <1>1, <1>2, <1>4
  <2>2. QED
    BY <2>1, PrefixByIndex
<1>5. QED
  BY <1>3, <1>4

-----------------------------------------------------------------------------
(* The events keep the type of the fold they are appended to *)

\* A set of PRs has a number of members.
LEMMA CountIsNat ==
    ASSUME NEW S \in SUBSET PR
    PROVE  Cardinality(S) \in Nat
BY MergeQueueAssumption, FS_Subset, FS_CardinalityType

\* Field by field.
LEMMA FieldUpdates ==
    ASSUME NEW s \in LaneType, NEW ps \in SUBSET PR, NEW n \in Nat,
           NEW es \in SUBSET Ejection, NEW is \in SUBSET Intent
    PROVE  /\ [s EXCEPT !.done = ps] \in LaneType
           /\ [s EXCEPT !.landed = ps] \in LaneType
           /\ [s EXCEPT !.ejected = es] \in LaneType
           /\ [s EXCEPT !.atRisk = n] \in LaneType
           /\ [s EXCEPT !.prepared = is] \in LaneType
BY DEF LaneType

\* The fold of the empty log is a lane state.
LEMMA EmptyLaneType == EmptyLane \in LaneType
BY MergeQueueAssumption DEF EmptyLane, LaneType

\* An enqueue keeps the lane state typed.
LEMMA EnqueuedType ==
    ASSUME NEW s \in LaneType, NEW p \in PR
    PROVE  Enqueued(s, p) \in LaneType
<1> DEFINE n == Cardinality({q \in PR : s.rank[q] # 0})
<1>1. n \in Nat
  BY CountIsNat
<1> HIDE DEF n
<1>2. Enqueued(s, p) = IF s.rank[p] # 0 THEN s
                       ELSE [s EXCEPT !.rank[p] = 1 + n]
  BY DEF Enqueued, n
<1>3. QED
  BY <1>1, <1>2 DEF LaneType

\* So does a formed batch,
LEMMA BatchFormedType ==
    ASSUME NEW s \in LaneType
    PROVE  BatchFormed(s) \in LaneType
BY DEF BatchFormed, LaneType

\* a prepared intent,
LEMMA IntentPreparedType ==
    ASSUME NEW s \in LaneType, NEW i \in Intent
    PROVE  IntentPrepared(s, i) \in LaneType
BY DEF IntentPrepared, LaneType

\* a landed batch, of PRs in whatever state,
LEMMA BatchLandedType ==
    ASSUME NEW s \in LaneType, NEW prs \in SUBSET PR, NEW no
    PROVE  BatchLanded(s, prs, no) \in LaneType
<1> DEFINE n == Cardinality(prs \ s.done)
           done == s.done \cup (prs \ s.done)
           landed == s.landed \cup (prs \ s.done)
           prepared == {j \in s.prepared : j.no # no}
<1>1. n \in Nat /\ s.atRisk \in Nat
  BY CountIsNat DEF LaneType
<1>2. done \in SUBSET PR /\ landed \in SUBSET PR
  BY DEF LaneType
<1>3. prepared \in SUBSET Intent
  BY DEF LaneType
<1> HIDE DEF n, done, landed, prepared
<1> DEFINE s1 == [s EXCEPT !.landed = landed]
           s2 == [s1 EXCEPT !.done = done]
           k == s.atRisk + n
           s3 == [s2 EXCEPT !.atRisk = k]
           s4 == [s3 EXCEPT !.prepared = prepared]
<1>4. s1 \in LaneType
  BY <1>2, FieldUpdates
<1>5. s2 \in LaneType
  <2> HIDE DEF s1
  <2> QED BY <1>2, <1>4, FieldUpdates
<1>6. s3 \in LaneType
  <2>1. k \in Nat
    BY <1>1
  <2> HIDE DEF s2, k
  <2>2. QED BY <2>1, <1>5, FieldUpdates
<1>7. s4 \in LaneType
  <2> HIDE DEF s3
  <2> QED BY <1>3, <1>6, FieldUpdates
<1>8. BatchLanded(s, prs, no) = s4
  BY DEF BatchLanded, LaneType, n, done, landed, prepared
<1>9. QED
  BY <1>7, <1>8

\* an ejection,
LEMMA EjectedType ==
    ASSUME NEW s \in LaneType, NEW p \in PR, NEW k \in PR \cup {NoPR},
           NEW why \in {"merge conflict", "regression", "incompatible"}
    PROVE  Ejected(s, p, why, k) \in LaneType
<1> DEFINE e == [pr |-> p, why |-> why, kept |-> k]
<1>1. e \in Ejection
  BY DEF Ejection
<1> HIDE DEF e
<1> DEFINE es == s.ejected \cup {e}
           ps == s.done \cup {p}
           s1 == [s EXCEPT !.ejected = es]
<1>2. es \in SUBSET Ejection /\ ps \in SUBSET PR
  BY <1>1 DEF LaneType
<1>3. s1 \in LaneType
  <2> HIDE DEF es
  <2> QED BY <1>2, FieldUpdates
<1>4. [s1 EXCEPT !.done = ps] \in LaneType
  <2> HIDE DEF s1, ps
  <2> QED BY <1>2, <1>3, FieldUpdates
<1>5. Ejected(s, p, why, k) = [s1 EXCEPT !.done = ps]
  BY DEF Ejected, LaneType, e
<1>6. QED
  BY <1>4, <1>5

\* a hold,
LEMMA HeldType ==
    ASSUME NEW s \in LaneType, NEW prs \in SUBSET PR
    PROVE  Held(s, prs) \in LaneType
BY DEF Held, LaneType

\* aging, which stays below the cap,
LEMMA AgedType ==
    ASSUME NEW s \in LaneType, NEW prs \in SUBSET PR
    PROVE  Aged(s, prs) \in LaneType
BY DEF Aged, LaneType

\* a tuned window, when it is within the budget,
LEMMA WindowTunedType ==
    ASSUME NEW s \in LaneType, NEW m \in 1 .. Budget
    PROVE  WindowTuned(s, m) \in LaneType
BY DEF WindowTuned, LaneType

\* and a passed barrier.
LEMMA BarrierPassedType ==
    ASSUME NEW s \in LaneType
    PROVE  BarrierPassed(s) \in LaneType
BY DEF BarrierPassed, LaneType

\* The clamp keeps every window the code computes in range.
LEMMA TunedInRange ==
    ASSUME NEW m \in 1 .. Budget
    PROVE  /\ Tuned(m + 1) \in 1 .. Budget
           /\ Tuned(m \div 2) \in 1 .. Budget
BY MergeQueueAssumption DEF Tuned

-----------------------------------------------------------------------------
(* Trees *)

\* A change is in a tree when some land brought it.
LEMMA InTree ==
    ASSUME NEW t, NEW c
    PROVE  c \in Tree(t) <=> \E i \in DOMAIN t : c \in t[i].prs
BY DEF Tree

\* A land adds its PRs to the tree.
LEMMA TreeOfAppend ==
    ASSUME NEW t \in TrunkType, NEW x \in LandType
    PROVE  /\ Append(t, x) \in TrunkType
           /\ Tree(Append(t, x)) = Tree(t) \cup x.prs
<1>1. Append(t, x) \in TrunkType
  BY DEF TrunkType
<1>2. /\ Len(t) \in Nat /\ DOMAIN t = 1 .. Len(t)
      /\ DOMAIN Append(t, x) = 1 .. Len(t) + 1
      /\ \A i \in 1 .. Len(t) : Append(t, x)[i] = t[i]
      /\ Append(t, x)[Len(t) + 1] = x
  BY DEF TrunkType
<1>3. 1 .. Len(t) + 1 = (1 .. Len(t)) \cup {Len(t) + 1}
  BY <1>2
<1>4. ASSUME NEW c
      PROVE  c \in Tree(Append(t, x)) <=> c \in Tree(t) \/ c \in x.prs
  <2>1. (\E i \in 1 .. Len(t) + 1 : c \in Append(t, x)[i].prs)
           <=> (\E i \in 1 .. Len(t) : c \in t[i].prs) \/ c \in x.prs
    BY <1>2, <1>3
  <2>2. QED
    BY <1>2, <2>1, InTree
<1>5. QED
  BY <1>1, <1>4

\* A longer trunk has a larger tree.
LEMMA TreeMonotone ==
    ASSUME NEW s \in TrunkType, NEW t \in TrunkType, IsPrefix(s, t)
    PROVE  Tree(s) \subseteq Tree(t)
<1>1. \A i \in DOMAIN s : i \in DOMAIN t /\ t[i] = s[i]
  BY PrefixKeepsEntries DEF TrunkType
<1>2. QED
  BY <1>1 DEF Tree

\* A tree is a set of changes.
LEMMA TreeOfChanges ==
    ASSUME NEW t \in TrunkType
    PROVE  Tree(t) \subseteq Change
<1> SUFFICES ASSUME NEW c \in Tree(t) PROVE c \in Change
  OBVIOUS
<1>1. PICK i \in DOMAIN t : c \in t[i].prs
  BY InTree
<1>2. t[i] \in LandType
  BY DEF TrunkType
<1>3. QED
  BY <1>1, <1>2 DEF LandType

-----------------------------------------------------------------------------
(* Type correctness *)

\* What a runner remembers is typed.
LEMMA RunnerTypes ==
    ASSUME TypeOK, NEW r \in Runner
    PROVE  /\ LaneOf[r] \in Lane
           /\ Here(r) \in LaneType
           /\ snap[r] \in LaneType
           /\ base[r] \in TrunkType
           /\ work[r] \in WorkType
           /\ work[r].prs \in SUBSET PR
           /\ work[r].no \in Nat
           /\ work[r].m \in 1 .. Budget
<1>1. LaneOf[r] \in Lane
  BY MergeQueueAssumption
<1>2. work[r] \in WorkType
  BY DEF TypeOK
<1>3. QED
  BY <1>1, <1>2 DEF TypeOK, Here, WorkType

\* The spec tip a runner builds is a trunk.
LEMMA SpecType ==
    ASSUME TypeOK, NEW r \in Runner
    PROVE  /\ Land(LaneOf[r], work[r]) \in LandType
           /\ Land(LaneOf[r], work[r]).prs = work[r].prs
           /\ Spec(r) \in TrunkType
           /\ Tree(Spec(r)) = SpecTree(r)
<1> DEFINE x == Land(LaneOf[r], work[r])
<1>1. x \in LandType /\ x.prs = work[r].prs
  BY RunnerTypes DEF Land, LandType, Change
<1> HIDE DEF x
<1>2. base[r] \in TrunkType
  BY RunnerTypes
<1>3. Append(base[r], x) \in TrunkType
      /\ Tree(Append(base[r], x)) = Tree(base[r]) \cup x.prs
  BY <1>1, <1>2, TreeOfAppend
<1>4. QED
  BY <1>1, <1>3 DEF Spec, SpecTree, x

\* Appending to the log keeps the lanes typed.
LEMMA LogKeepsType ==
    ASSUME TypeOK, NEW r \in Runner, NEW s \in LaneType, Log(r, s)
    PROVE  lane' \in [Lane -> LaneType]
BY RunnerTypes DEF TypeOK, Log

\* The end of a job keeps the types.
LEMMA FinishKeepsType ==
    ASSUME TypeOK, NEW r \in Runner, Finish(r)
    PROVE  /\ pc' \in [Runner -> Phase]
           /\ snap' \in [Runner -> LaneType]
           /\ base' \in [Runner -> TrunkType]
           /\ work' \in [Runner -> WorkType]
<1>1. "idle" \in Phase /\ <<>> \in TrunkType
  BY DEF Phase, TrunkType
<1>2. NoWork \in WorkType
  BY MergeQueueAssumption DEF NoWork, WorkType
<1>3. QED
  BY <1>1, <1>2, EmptyLaneType DEF TypeOK, Finish, Goto

\* So does moving on.
LEMMA GotoKeepsType ==
    ASSUME TypeOK, NEW r \in Runner, NEW phase \in Phase, Goto(r, phase)
    PROVE  pc' \in [Runner -> Phase]
BY DEF TypeOK, Goto

\* The initial state is typed.
LEMMA InitTyped == Init => TypeOK
<1>1. <<>> \in TrunkType /\ "idle" \in Phase
  BY DEF TrunkType, Phase
<1>2. NoWork \in WorkType
  BY MergeQueueAssumption DEF NoWork, WorkType
<1>3. QED
  BY <1>1, <1>2, EmptyLaneType DEF Init, TypeOK

\* Enqueues, hotfixes and starts keep the types.
LEMMA EnvironmentTyped ==
    ASSUME TypeOK,
           \/ \E l \in Lane, p \in PR : Enqueue(l, p)
           \/ \E h \in Hotfix : PushHotfix(h)
    PROVE  TypeOK'
<1>1. ASSUME NEW l \in Lane, NEW p \in PR, Enqueue(l, p) PROVE TypeOK'
  <2>1. lane[l] \in LaneType
    BY DEF TypeOK
  <2>2. Enqueued(lane[l], p) \in LaneType
    BY <2>1, EnqueuedType
  <2>3. QED
    BY <1>1, <2>2 DEF Enqueue, TypeOK, local, aux
<1>2. ASSUME NEW h \in Hotfix, PushHotfix(h) PROVE TypeOK'
  <2> DEFINE x == [lane |-> NoLane, no |-> 0, prs |-> {h}]
  <2>1. x \in LandType
    BY DEF LandType, Change
  <2>2. trunk' \in TrunkType
    <3> HIDE DEF x
    <3>1. Append(trunk, x) \in TrunkType
      BY <2>1, TreeOfAppend DEF TypeOK
    <3>2. QED
      BY <3>1, <1>2 DEF PushHotfix, x
  <2>3. QED
    BY <1>2, <2>2 DEF PushHotfix, TypeOK, local, aux
<1>3. QED
  BY <1>1, <1>2

\* An action that appends an event and ends the job, or goes on.
LEMMA LogFinishTyped ==
    ASSUME TypeOK, NEW r \in Runner, NEW s \in LaneType,
           Log(r, s), Finish(r), UNCHANGED <<trunk, aux>>
    PROVE  TypeOK'
BY LogKeepsType, FinishKeepsType DEF TypeOK, aux

\* So do steps that log an event and move on,
LEMMA LogGotoTyped ==
    ASSUME TypeOK, NEW r \in Runner, NEW s \in LaneType, NEW phase \in Phase,
           Log(r, s), Goto(r, phase), UNCHANGED <<trunk, local, aux>>
    PROVE  TypeOK'
BY LogKeepsType, GotoKeepsType DEF TypeOK, local, aux

\* An action that writes nothing.
LEMMA FinishTyped ==
    ASSUME TypeOK, NEW r \in Runner, Finish(r), UNCHANGED <<trunk, lane, aux>>
    PROVE  TypeOK'
BY FinishKeepsType DEF TypeOK, aux

\* and steps that only move on.
LEMMA GotoTyped ==
    ASSUME TypeOK, NEW r \in Runner, NEW phase \in Phase,
           Goto(r, phase), UNCHANGED <<trunk, lane, local, aux>>
    PROVE  TypeOK'
BY GotoKeepsType DEF TypeOK, local, aux

\* Recovery keeps the types.
LEMMA RecoverTyped ==
    ASSUME TypeOK, NEW r \in Runner, Start(r) \/ Recover(r)
    PROVE  TypeOK'
<1>1. CASE Start(r)
  BY <1>1, GotoTyped DEF Start, Phase
<1>2. CASE RecoverRead(r)
  BY <1>2, RunnerTypes, GotoKeepsType DEF RecoverRead, Phase, TypeOK, aux
<1>3. CASE RecoverReadTrunk(r)
  BY <1>3, GotoKeepsType DEF RecoverReadTrunk, Phase, TypeOK, aux
<1>4. CASE Complete(r)
  <2>1. lane' \in [Lane -> LaneType]
    <3>1. CASE UNCHANGED lane
      BY <3>1 DEF TypeOK
    <3>2. ASSUME NEW i \in snap[r].prepared,
                 Log(r, BatchLanded(Here(r), i.prs, i.no))
          PROVE  lane' \in [Lane -> LaneType]
      <4>1. i \in Intent
        BY RunnerTypes DEF LaneType
      <4>2. i.prs \in SUBSET PR
        BY <4>1 DEF Intent
      <4>3. BatchLanded(Here(r), i.prs, i.no) \in LaneType
        BY <4>2, RunnerTypes, BatchLandedType
      <4>4. QED
        BY <3>2, <4>3, LogKeepsType
    <3>3. QED
      BY <1>4, <3>1, <3>2 DEF Complete
  <2>2. pc' \in [Runner -> Phase]
    BY <1>4, GotoKeepsType DEF Complete, Phase
  <2>3. <<>> \in TrunkType
    BY DEF TrunkType
  <2>4. /\ snap' = [snap EXCEPT ![r] = EmptyLane]
        /\ base' = [base EXCEPT ![r] = <<>>]
        /\ UNCHANGED <<trunk, work, faults, checked>>
    BY <1>4 DEF Complete, aux
  <2>5. QED
    BY <2>1, <2>2, <2>3, <2>4, EmptyLaneType DEF TypeOK
<1>5. QED
  BY <1>1, <1>2, <1>3, <1>4 DEF Recover

\* A batch is a set of PRs.
LEMMA BatchIsPRs ==
    ASSUME NEW r \in Runner
    PROVE  Batch(r) \in SUBSET PR /\ Asked(r) \in SUBSET PR
<1>1. Pending(snap[r]) \subseteq PR
  BY DEF Pending
<1>2. Asked(r) \subseteq Pending(snap[r])
  BY DEF Asked, FirstN
<1>3. Batch(r) \subseteq Asked(r)
  BY DEF Batch, Built
<1>4. QED
  BY <1>1, <1>2, <1>3

\* Reading and the barrier keep the types.
LEMMA TickTyped ==
    ASSUME TypeOK, NEW r \in Runner,
           TickRead(r) \/ TickReadTrunk(r) \/ BarrierOk(r) \/ BarrierRed(r)
    PROVE  TypeOK'
<1>1. CASE TickRead(r)
  <2>1. CASE Pending(Here(r)) = {}
    BY <1>1, <2>1, FinishTyped DEF TickRead
  <2>2. CASE Pending(Here(r)) # {}
    BY <1>1, <2>2, RunnerTypes, GotoKeepsType DEF TickRead, Phase, TypeOK, aux
  <2>3. QED
    BY <2>1, <2>2
<1>2. CASE TickReadTrunk(r)
  <2>1. pc' \in [Runner -> Phase]
    <3>1. Goto(r, "barrier") \/ Goto(r, "form")
      BY <1>2 DEF TickReadTrunk
    <3>2. QED
      BY <3>1, GotoKeepsType DEF Phase
  <2>2. QED
    BY <1>2, <2>1 DEF TickReadTrunk, TypeOK, aux
<1>3. CASE BarrierOk(r)
  <2>1. lane' \in [Lane -> LaneType]
    BY <1>3, RunnerTypes, BarrierPassedType, LogKeepsType DEF BarrierOk
  <2>2. pc' \in [Runner -> Phase]
    BY <1>3, GotoKeepsType DEF BarrierOk, Phase
  <2>3. Len(base[r]) \in Nat
    BY RunnerTypes DEF TrunkType
  <2>4. QED
    BY <1>3, <2>1, <2>2, <2>3 DEF BarrierOk, TypeOK, local
<1>4. CASE BarrierRed(r)
  BY <1>4, FinishTyped DEF BarrierRed
<1>5. QED
  BY <1>1, <1>2, <1>3, <1>4

\* Forming a batch and its verdict keep the types.
LEMMA BatchTyped ==
    ASSUME TypeOK, NEW r \in Runner,
           EjectHead(r) \/ Form(r) \/ VerdictGreen(r) \/ VerdictNotGreen(r)
    PROVE  TypeOK'
<1>1. CASE EjectHead(r)
  <2>1. PICK p \in FirstN(snap[r], Asked(r), 1) :
           Log(r, Ejected(Here(r), p, "merge conflict", NoPR))
    BY <1>1 DEF EjectHead
  <2>2. p \in PR
    BY BatchIsPRs DEF FirstN
  <2>3. Ejected(Here(r), p, "merge conflict", NoPR) \in LaneType
    BY <2>2, RunnerTypes, EjectedType
  <2>4. QED
    BY <1>1, <2>1, <2>3, LogFinishTyped DEF EjectHead
<1>2. CASE Form(r)
  <2>1. lane' \in [Lane -> LaneType]
    BY <1>2, RunnerTypes, BatchFormedType, LogKeepsType DEF Form
  <2>2. pc' \in [Runner -> Phase]
    BY <1>2, GotoKeepsType DEF Form, Phase
  <2> DEFINE w == [prs |-> Batch(r), no |-> snap[r].formed + 1,
                   m |-> snap[r].m, dec |-> "none"]
  <2>3. w \in WorkType
    <3>1. snap[r].formed \in Nat /\ snap[r].m \in 1 .. Budget
      BY RunnerTypes DEF LaneType
    <3>2. QED
      BY <3>1, BatchIsPRs DEF WorkType
  <2>4. work' \in [Runner -> WorkType]
    <3> HIDE DEF w
    <3>1. work' = [work EXCEPT ![r] = w]
      BY <1>2 DEF Form, w
    <3>2. QED
      BY <3>1, <2>3 DEF TypeOK
  <2>5. QED
    BY <1>2, <2>1, <2>2, <2>4 DEF Form, TypeOK, aux
<1>3. CASE VerdictGreen(r)
  <2> DEFINE i == [no |-> work[r].no, prs |-> work[r].prs, spec |-> Spec(r)]
  <2>1. i \in Intent
    BY RunnerTypes, SpecType DEF Intent
  <2> HIDE DEF i
  <2>2. IntentPrepared(Here(r), i) \in LaneType
    BY <2>1, RunnerTypes, IntentPreparedType
  <2>3. Log(r, IntentPrepared(Here(r), i))
    BY <1>3 DEF VerdictGreen, i
  <2>4. QED
    BY <1>3, <2>2, <2>3, LogGotoTyped DEF VerdictGreen, Phase
<1>4. CASE VerdictNotGreen(r)
  <2>1. lane' \in [Lane -> LaneType]
    BY <1>4, RunnerTypes, AgedType, LogKeepsType DEF VerdictNotGreen
  <2>2. pc' \in [Runner -> Phase]
    BY <1>4, GotoKeepsType DEF VerdictNotGreen, Phase
  <2>3. PICK d \in Outcomes(SpecTree(r)) \ {"green"} :
           work' = [work EXCEPT ![r].dec = d]
    BY <1>4 DEF VerdictNotGreen
  <2>4. d \in {"hold", "red"}
    BY <2>3 DEF Outcomes
  <2>5. work' \in [Runner -> WorkType]
    BY <2>3, <2>4 DEF TypeOK, WorkType
  <2>6. QED
    BY <1>4, <2>1, <2>2, <2>5 DEF VerdictNotGreen, TypeOK, aux
<1>5. QED
  BY <1>1, <1>2, <1>3, <1>4

\* Isolation keeps the types.
LEMMA RejectTyped ==
    ASSUME TypeOK, NEW r \in Runner,
           ShrinkWindow(r) \/ HoldBatch(r) \/ Isolate(r)
    PROVE  TypeOK'
<1> USE RunnerTypes
<1>1. CASE ShrinkWindow(r)
  <2>1. WindowTuned(Here(r), Tuned(work[r].m \div 2)) \in LaneType
    BY TunedInRange, WindowTunedType
  <2>2. QED
    BY <1>1, <2>1, LogGotoTyped DEF ShrinkWindow, Phase
<1>2. CASE HoldBatch(r)
  BY <1>2, HeldType, LogFinishTyped DEF HoldBatch
<1>3. CASE EjectCulprit(r)
  <2>1. PICK p \in work[r].prs :
           Log(r, Ejected(Here(r), p, "regression", NoPR))
    BY <1>3 DEF EjectCulprit
  <2>2. Ejected(Here(r), p, "regression", NoPR) \in LaneType
    BY EjectedType
  <2>3. QED
    BY <1>3, <2>1, <2>2, LogFinishTyped DEF EjectCulprit
<1>4. CASE HoldCandidate(r)
  <2>1. PICK p \in work[r].prs : Log(r, Held(Here(r), {p}))
    BY <1>4 DEF HoldCandidate
  <2>2. Held(Here(r), {p}) \in LaneType
    BY HeldType
  <2>3. QED
    BY <1>4, <2>1, <2>2, LogFinishTyped DEF HoldCandidate
<1>5. CASE EjectIncompatible(r)
  <2>1. PICK p \in work[r].prs, k \in FirstN(snap[r], work[r].prs, 1) :
           Log(r, Ejected(Here(r), p, "incompatible", k))
    BY <1>5 DEF EjectIncompatible
  <2>2. k \in PR
    BY DEF FirstN
  <2>3. Ejected(Here(r), p, "incompatible", k) \in LaneType
    BY <2>2, EjectedType
  <2>4. QED
    BY <1>5, <2>1, <2>3, LogFinishTyped DEF EjectIncompatible
<1>6. CASE HoldUnisolated(r)
  BY <1>6, HeldType, LogFinishTyped DEF HoldUnisolated
<1>7. QED
  BY <1>1, <1>2, <1>3, <1>4, <1>5, <1>6 DEF Isolate

\* Landing keeps the types.
LEMMA LandTyped ==
    ASSUME TypeOK, NEW r \in Runner,
           RecordLand(r) \/ AdvanceUnheard(r) \/ Crash(r)
    PROVE  TypeOK'
<1> USE RunnerTypes
<1>1. CASE GuardRefuses(r)
  BY <1>1, HeldType, LogGotoTyped DEF GuardRefuses, Phase
<1>2. CASE TuneGuarded(r)
  <2>1. WindowTuned(Here(r), Tuned(work[r].m \div 2)) \in LaneType
    BY TunedInRange, WindowTunedType
  <2>2. QED
    BY <1>2, <2>1, LogFinishTyped DEF TuneGuarded
<1>3. CASE Advance(r)
  BY <1>3, SpecType, GotoKeepsType DEF Advance, Phase, TypeOK, local, aux
<1>4. CASE AdvanceRejected(r)
  BY <1>4, FinishTyped DEF AdvanceRejected
<1>5. CASE Confirm(r)
  BY <1>5, GotoTyped DEF Confirm, Phase
<1>6. CASE Unconfirmed(r)
  BY <1>6, FinishTyped DEF Unconfirmed
<1>7. CASE Record(r)
  BY <1>7, BatchLandedType, LogGotoTyped DEF Record, Phase
<1>8. CASE GrowWindow(r)
  <2>1. WindowTuned(Here(r), Tuned(work[r].m + 1)) \in LaneType
    BY TunedInRange, WindowTunedType
  <2>2. QED
    BY <1>8, <2>1, LogFinishTyped DEF GrowWindow
<1>9. CASE AdvanceUnheard(r)
  BY <1>9, SpecType, FinishKeepsType DEF AdvanceUnheard, TypeOK
<1>10. CASE Crash(r)
  BY <1>10, FinishKeepsType DEF Crash, TypeOK
<1>11. QED
  BY <1>1, <1>2, <1>3, <1>4, <1>5, <1>6, <1>7, <1>8, <1>9, <1>10
     DEF RecordLand

\* Every step keeps the types.
LEMMA NextTyped ==
    ASSUME TypeOK, [Next]_vars
    PROVE  TypeOK'
<1>1. CASE UNCHANGED vars
  BY <1>1 DEF TypeOK, vars
<1>2. CASE \/ \E l \in Lane, p \in PR : Enqueue(l, p)
           \/ \E h \in Hotfix : PushHotfix(h)
  BY <1>2, EnvironmentTyped
<1>3. ASSUME NEW r \in Runner, Run(r) \/ AdvanceUnheard(r) \/ Crash(r)
      PROVE  TypeOK'
  BY <1>3, RecoverTyped, TickTyped, BatchTyped, RejectTyped, LandTyped
     DEF Run, Speculate
<1>4. QED
  BY <1>1, <1>2, <1>3 DEF Next

\* Every window, count, batch and intent keeps its type: in particular the
\* AIMD window never leaves 1 .. Budget (BatchEngine._tune), whatever land,
\* verdict or fault tunes it.
THEOREM TypeCorrect == Behaviour => []TypeOK
BY InitTyped, NextTyped, PTL DEF Behaviour

-----------------------------------------------------------------------------
(* Trunk: linear, green at every tip, and holding what is recorded *)

\* What a runner builds on is a point of trunk's past.
BaseIsPast == \A r \in Runner : IsPrefix(base[r], trunk)

\* An intent names PRs its spec tip holds, where a lane keeps it and where
\* the reconciler has read it.
IntentsHonest ==
    /\ \A l \in Lane : \A i \in lane[l].prepared : i.prs \subseteq Tree(i.spec)
    /\ \A r \in Runner : \A i \in snap[r].prepared :
           i.prs \subseteq Tree(i.spec)

\* A runner pushes only what its verdict called green, and records only
\* what it has seen on trunk.
LandsGreen == \A r \in Runner : pc[r] = "land" => SpecTree(r) \notin Red
RecordsSeen == \A r \in Runner : pc[r] = "record" => work[r].prs \subseteq OnTrunk

TrunkInv ==
    /\ TypeOK
    /\ BaseIsPast
    /\ IntentsHonest
    /\ LandsGreen
    /\ RecordsSeen
    /\ EveryTipGreen
    /\ RecordedIsOnTrunk

\* The trunk invariant holds initially.
LEMMA InitTrunk == Init => TrunkInv
<1> SUFFICES ASSUME Init PROVE TrunkInv
  OBVIOUS
<1>1. TypeOK
  BY InitTyped
<1>2. <<>> \in TrunkType
  BY DEF TrunkType
<1>3. BaseIsPast
  BY <1>2, EmptyIsPrefix DEF Init, BaseIsPast, TrunkType
<1>4. IntentsHonest /\ RecordedIsOnTrunk
  BY DEF Init, IntentsHonest, RecordedIsOnTrunk, Landed, EmptyLane
<1>5. LandsGreen /\ RecordsSeen /\ EveryTipGreen
  BY DEF Init, LandsGreen, RecordsSeen, EveryTipGreen
<1>6. QED
  BY <1>1, <1>3, <1>4, <1>5 DEF TrunkInv

\* The runner moves on to a phase that neither pushes nor records, what it
\* appends lands nothing and prepares nothing, and trunk stays.
HarmlessBy(r) ==
    /\ trunk' = trunk
    /\ \A l \in Lane : /\ lane'[l].landed = lane[l].landed
                       /\ lane'[l].prepared = lane[l].prepared
    /\ \A q \in Runner \ {r} :
          /\ pc'[q] = pc[q]
          /\ snap'[q] = snap[q]
          /\ base'[q] = base[q]
          /\ work'[q] = work[q]
    /\ pc'[r] \notin {"land", "record"}
    /\ base'[r] \in {base[r], trunk, <<>>}
    /\ snap'[r].prepared \in {snap[r].prepared, Here(r).prepared, {}}

\* A step that leaves trunk, the intents and what is landed alone keeps it.
LEMMA HarmlessTrunk ==
    ASSUME TrunkInv, TypeOK', NEW r \in Runner, HarmlessBy(r)
    PROVE  TrunkInv'
<1> USE DEF TrunkInv, HarmlessBy
<1>1. trunk \in TrunkType /\ LaneOf[r] \in Lane
  BY RunnerTypes DEF TypeOK
<1>2. BaseIsPast'
  <2>1. IsPrefix(<<>>, trunk) /\ IsPrefix(trunk, trunk)
    BY <1>1, EmptyIsPrefix, PrefixReflexive DEF TrunkType
  <2>2. QED
    BY <2>1 DEF BaseIsPast
<1>3. IntentsHonest'
  BY <1>1 DEF IntentsHonest, Here
<1>4. LandsGreen'
  BY DEF LandsGreen, SpecTree
<1>5. RecordsSeen'
  BY DEF RecordsSeen, OnTrunk
<1>6. EveryTipGreen' /\ RecordedIsOnTrunk'
  BY DEF EveryTipGreen, RecordedIsOnTrunk, Landed, OnTrunk
<1>7. QED
  BY <1>2, <1>3, <1>4, <1>5, <1>6

\* Which events are harmless.
LEMMA HarmlessEvents ==
    ASSUME NEW s \in LaneType
    PROVE  /\ \A p \in PR : /\ Enqueued(s, p).landed = s.landed
                            /\ Enqueued(s, p).prepared = s.prepared
           /\ BatchFormed(s).landed = s.landed
           /\ BatchFormed(s).prepared = s.prepared
           /\ \A p, k, why : /\ Ejected(s, p, why, k).landed = s.landed
                            /\ Ejected(s, p, why, k).prepared = s.prepared
           /\ \A prs : /\ Held(s, prs).landed = s.landed
                       /\ Held(s, prs).prepared = s.prepared
                       /\ Aged(s, prs).landed = s.landed
                       /\ Aged(s, prs).prepared = s.prepared
           /\ \A m : /\ WindowTuned(s, m).landed = s.landed
                     /\ WindowTuned(s, m).prepared = s.prepared
           /\ BarrierPassed(s).landed = s.landed
           /\ BarrierPassed(s).prepared = s.prepared
BY DEF LaneType, Enqueued, BatchFormed, Ejected, Held, Aged, WindowTuned,
       BarrierPassed

\* s is the fold of the runner's lane with a harmless event more.
Harmless(r, s) == /\ s.landed = Here(r).landed
                  /\ s.prepared = Here(r).prepared

\* Logging an event of another kind is harmless,
LEMMA LogHarmless ==
    ASSUME TypeOK, NEW r \in Runner, NEW s, Log(r, s), Harmless(r, s)
    PROVE  \A l \in Lane : /\ lane'[l].landed = lane[l].landed
                          /\ lane'[l].prepared = lane[l].prepared
BY RunnerTypes DEF TypeOK, Log, Harmless, Here

\* ending the job is,
LEMMA FinishHarmless ==
    ASSUME TypeOK, NEW r \in Runner, Finish(r), trunk' = trunk,
           \/ UNCHANGED lane
           \/ \E s : Log(r, s) /\ Harmless(r, s)
    PROVE  HarmlessBy(r)
<1>1. \A l \in Lane : /\ lane'[l].landed = lane[l].landed
                      /\ lane'[l].prepared = lane[l].prepared
  BY LogHarmless
<1>2. EmptyLane.prepared = {}
  BY DEF EmptyLane
<1>3. QED
  BY <1>1, <1>2 DEF HarmlessBy, Finish, Goto, TypeOK

\* and moving on is.
LEMMA GotoHarmless ==
    ASSUME TypeOK, NEW r \in Runner, NEW phase \in Phase \ {"land", "record"},
           Goto(r, phase), trunk' = trunk, UNCHANGED <<snap, base>>,
           \A q \in Runner \ {r} : work'[q] = work[q],
           \/ UNCHANGED lane
           \/ \E s : Log(r, s) /\ Harmless(r, s)
    PROVE  HarmlessBy(r)
<1>1. \A l \in Lane : /\ lane'[l].landed = lane[l].landed
                      /\ lane'[l].prepared = lane[l].prepared
  BY LogHarmless
<1>2. QED
  BY <1>1 DEF HarmlessBy, Goto, TypeOK

\* The actions that neither push, nor confirm, prepare or record a land.
HarmlessAction(r) ==
    \/ Start(r) \/ RecoverRead(r) \/ RecoverReadTrunk(r)
    \/ TickRead(r) \/ TickReadTrunk(r) \/ BarrierOk(r) \/ BarrierRed(r)
    \/ EjectHead(r) \/ Form(r) \/ VerdictNotGreen(r)
    \/ ShrinkWindow(r) \/ HoldBatch(r) \/ Isolate(r)
    \/ GuardRefuses(r) \/ TuneGuarded(r)
    \/ AdvanceRejected(r) \/ Unconfirmed(r) \/ GrowWindow(r) \/ Crash(r)

\* The actions that are harmless in this sense.
LEMMA HarmlessActions ==
    ASSUME TypeOK, NEW r \in Runner, HarmlessAction(r)
    PROVE  HarmlessBy(r)
<1> USE RunnerTypes DEF aux, local
<1> DEFINE h == Here(r)
<1>0. /\ Harmless(r, BatchFormed(h))
      /\ Harmless(r, BarrierPassed(h))
      /\ \A p, k, why : Harmless(r, Ejected(h, p, why, k))
      /\ \A prs : Harmless(r, Held(h, prs)) /\ Harmless(r, Aged(h, prs))
      /\ \A m : Harmless(r, WindowTuned(h, m))
  BY HarmlessEvents DEF Harmless
<1>1. CASE Start(r)
  BY <1>1, GotoHarmless DEF Start, Phase
<1>2. CASE RecoverRead(r) \/ RecoverReadTrunk(r) \/ TickReadTrunk(r)
  BY <1>2 DEF RecoverRead, RecoverReadTrunk, TickReadTrunk, HarmlessBy, Goto,
              TypeOK
<1>3. CASE TickRead(r)
  <2>1. CASE Pending(Here(r)) = {}
    BY <1>3, <2>1, FinishHarmless DEF TickRead
  <2>2. CASE Pending(Here(r)) # {}
    BY <1>3, <2>2 DEF TickRead, HarmlessBy, Goto, TypeOK
  <2>3. QED
    BY <2>1, <2>2
<1>4. CASE BarrierOk(r)
  BY <1>0, <1>4, GotoHarmless DEF BarrierOk, Phase
<1>5. CASE Form(r)
  <2>1. \A q \in Runner \ {r} : work'[q] = work[q]
    BY <1>5 DEF Form, TypeOK
  <2>2. QED
    BY <1>0, <1>5, <2>1, GotoHarmless DEF Form, Phase
<1>6. CASE VerdictNotGreen(r)
  <2>1. \A q \in Runner \ {r} : work'[q] = work[q]
    BY <1>6 DEF VerdictNotGreen, TypeOK
  <2>2. QED
    BY <1>0, <1>6, <2>1, GotoHarmless DEF VerdictNotGreen, Phase
<1>7. CASE ShrinkWindow(r) \/ GuardRefuses(r)
  BY <1>0, <1>7, GotoHarmless DEF ShrinkWindow, GuardRefuses, Phase
<1>8. CASE \/ BarrierRed(r) \/ AdvanceRejected(r) \/ Unconfirmed(r)
           \/ Crash(r)
  BY <1>8, FinishHarmless
     DEF BarrierRed, AdvanceRejected, Unconfirmed, Crash
<1>9. CASE EjectHead(r) \/ EjectCulprit(r) \/ EjectIncompatible(r)
  <2>1. \E s : Log(r, s) /\ Harmless(r, s)
    BY <1>0, <1>9 DEF EjectHead, EjectCulprit, EjectIncompatible
  <2>2. Finish(r) /\ trunk' = trunk
    BY <1>9 DEF EjectHead, EjectCulprit, EjectIncompatible
  <2>3. QED
    BY <2>1, <2>2, FinishHarmless
<1>10. CASE HoldBatch(r) \/ HoldCandidate(r) \/ HoldUnisolated(r)
  <2>1. \E s : Log(r, s) /\ Harmless(r, s)
    BY <1>0, <1>10 DEF HoldBatch, HoldCandidate, HoldUnisolated
  <2>2. Finish(r) /\ trunk' = trunk
    BY <1>10 DEF HoldBatch, HoldCandidate, HoldUnisolated
  <2>3. QED
    BY <2>1, <2>2, FinishHarmless
<1>11. CASE TuneGuarded(r) \/ GrowWindow(r)
  <2>1. \E s : Log(r, s) /\ Harmless(r, s)
    BY <1>0, <1>11 DEF TuneGuarded, GrowWindow
  <2>2. Finish(r) /\ trunk' = trunk
    BY <1>11 DEF TuneGuarded, GrowWindow
  <2>3. QED
    BY <2>1, <2>2, FinishHarmless
<1>12. QED
  BY <1>1, <1>2, <1>3, <1>4, <1>5, <1>6, <1>7, <1>8, <1>9, <1>10, <1>11
     DEF HarmlessAction, Isolate

\* The pushes: trunk grows by one land, of a green tree or a human's.
LEMMA GrowthKeepsGreen ==
    ASSUME TypeOK, EveryTipGreen, NEW x \in LandType,
           trunk' = Append(trunk, x),
           x.lane # NoLane => Tree(trunk) \cup x.prs \notin Red
    PROVE  EveryTipGreen'
<1>1. /\ trunk \in TrunkType
      /\ Len(trunk) \in Nat
      /\ DOMAIN trunk = 1 .. Len(trunk)
  BY DEF TypeOK, TrunkType
<1>2. /\ trunk' \in Seq(LandType)
      /\ Len(trunk') = Len(trunk) + 1
      /\ DOMAIN trunk' = 1 .. Len(trunk) + 1
      /\ \A i \in 1 .. Len(trunk) : trunk'[i] = trunk[i]
      /\ trunk'[Len(trunk) + 1] = x
  BY <1>1 DEF TrunkType
<1>3. ASSUME NEW i \in 1 .. Len(trunk)
      PROVE  SubSeq(trunk', 1, i) = SubSeq(trunk, 1, i)
  <2>1. /\ SubSeq(trunk', 1, i) \in Seq(LandType)
        /\ SubSeq(trunk, 1, i) \in Seq(LandType)
        /\ Len(SubSeq(trunk', 1, i)) = i
        /\ Len(SubSeq(trunk, 1, i)) = i
        /\ \A j \in 1 .. i : SubSeq(trunk', 1, i)[j] = SubSeq(trunk, 1, i)[j]
    BY <1>1, <1>2 DEF TrunkType
  <2>2. QED
    BY <2>1
<1>4. SubSeq(trunk', 1, Len(trunk) + 1) = trunk'
  BY <1>1, <1>2
<1>5. Tree(trunk') = Tree(trunk) \cup x.prs
  BY <1>1, TreeOfAppend
<1>6. ASSUME NEW i \in DOMAIN trunk', trunk'[i].lane # NoLane
      PROVE  Tree(SubSeq(trunk', 1, i)) \notin Red
  <2>1. CASE i \in 1 .. Len(trunk)
    BY <1>1, <1>2, <1>3, <1>6, <2>1 DEF EveryTipGreen
  <2>2. CASE i = Len(trunk) + 1
    BY <1>2, <1>4, <1>5, <1>6, <2>2
  <2>3. QED
    BY <1>1, <1>2, <2>1, <2>2
<1>7. QED
  BY <1>6 DEF EveryTipGreen

\* Growing trunk disturbs no fact about its past.
LEMMA GrowthKeepsPast ==
    ASSUME TrunkInv, NEW x \in LandType, trunk' = Append(trunk, x)
    PROVE  /\ trunk' \in TrunkType
           /\ IsPrefix(trunk, trunk')
           /\ OnTrunk \subseteq OnTrunk'
           /\ \A t \in TrunkType : IsPrefix(t, trunk) => IsPrefix(t, trunk')
<1>1. trunk \in TrunkType
  BY DEF TrunkInv, TypeOK
<1>2. trunk' \in TrunkType /\ Tree(trunk') = Tree(trunk) \cup x.prs
  BY <1>1, TreeOfAppend
<1>3. IsPrefix(trunk, trunk')
  BY <1>1, PrefixOfAppend DEF TrunkType
<1>4. ASSUME NEW t \in TrunkType, IsPrefix(t, trunk) PROVE IsPrefix(t, trunk')
  BY <1>1, <1>2, <1>3, <1>4, PrefixTransitive DEF TrunkType
<1>5. QED
  BY <1>2, <1>3, <1>4 DEF OnTrunk

\* A push under its lease keeps the invariant: the tip is the tree judged.
LEMMA PushTrunk ==
    ASSUME TrunkInv, TypeOK', NEW r \in Runner,
           Advance(r) \/ AdvanceUnheard(r)
    PROVE  TrunkInv'
<1> DEFINE x == Land(LaneOf[r], work[r])
<1>1. x \in LandType /\ x.prs = work[r].prs
  BY SpecType DEF TrunkInv
<1>2. /\ pc[r] = "land"
      /\ \/ trunk = base[r] /\ trunk' = Append(trunk, x)
         \/ trunk' = trunk
  BY DEF Advance, AdvanceUnheard, LeaseHolds, Spec
<1> HIDE DEF x
<1>3. ASSUME trunk = base[r] PROVE Tree(trunk) \cup x.prs \notin Red
  BY <1>1, <1>2, <1>3 DEF TrunkInv, LandsGreen, SpecTree
<1>4. EveryTipGreen'
  <2>1. CASE trunk = base[r] /\ trunk' = Append(trunk, x)
    BY <1>1, <1>3, <2>1, GrowthKeepsGreen DEF TrunkInv
  <2>2. CASE trunk' = trunk
    BY <2>2 DEF TrunkInv, EveryTipGreen
  <2>3. QED
    BY <1>2, <2>1, <2>2
<1>5. /\ trunk' \in TrunkType
      /\ OnTrunk \subseteq OnTrunk'
      /\ \A t \in TrunkType : IsPrefix(t, trunk) => IsPrefix(t, trunk')
  <2>1. CASE trunk = base[r] /\ trunk' = Append(trunk, x)
    BY <1>1, <2>1, GrowthKeepsPast
  <2>2. CASE trunk' = trunk
    BY <2>2 DEF OnTrunk, TrunkInv, TypeOK
  <2>3. QED
    BY <1>2, <2>1, <2>2
<1>6. \A q \in Runner : /\ base'[q] \in {base[q], <<>>}
                        /\ snap'[q].prepared \in {snap[q].prepared, {}}
                        /\ pc'[q] \in {"confirm", "idle"} \/
                              (pc'[q] = pc[q] /\ work'[q] = work[q]
                               /\ base'[q] = base[q])
  <2>1. EmptyLane.prepared = {}
    BY DEF EmptyLane
  <2>2. CASE Advance(r)
    BY <2>2 DEF Advance, Goto, local, aux, TrunkInv, TypeOK
  <2>3. CASE AdvanceUnheard(r)
    BY <2>1, <2>3 DEF AdvanceUnheard, Finish, Goto, TrunkInv, TypeOK
  <2>4. QED
    BY <2>2, <2>3
<1>7. lane' = lane
  BY DEF Advance, AdvanceUnheard
<1>8. BaseIsPast'
  <2>1. IsPrefix(<<>>, trunk')
    BY <1>5, EmptyIsPrefix DEF TrunkType
  <2>2. QED
    BY <1>5, <1>6, <2>1, RunnerTypes DEF TrunkInv, BaseIsPast
<1>9. IntentsHonest'
  BY <1>6, <1>7 DEF TrunkInv, IntentsHonest
<1>10. LandsGreen'
  BY <1>6 DEF TrunkInv, LandsGreen, SpecTree
<1>11. RecordsSeen'
  BY <1>5, <1>6 DEF TrunkInv, RecordsSeen
<1>12. RecordedIsOnTrunk'
  BY <1>5, <1>7 DEF TrunkInv, RecordedIsOnTrunk, Landed
<1>13. QED
  BY <1>4, <1>8, <1>9, <1>10, <1>11, <1>12 DEF TrunkInv

\* A hotfix keeps it.
LEMMA HotfixTrunk ==
    ASSUME TrunkInv, TypeOK', NEW h \in Hotfix, PushHotfix(h)
    PROVE  TrunkInv'
<1> DEFINE x == [lane |-> NoLane, no |-> 0, prs |-> {h}]
<1>1. x \in LandType /\ x.lane = NoLane
  BY DEF LandType, Change
<1>2. trunk' = Append(trunk, x)
  BY DEF PushHotfix
<1> HIDE DEF x
<1>3. EveryTipGreen'
  BY <1>1, <1>2, GrowthKeepsGreen DEF TrunkInv
<1>4. /\ OnTrunk \subseteq OnTrunk'
      /\ \A t \in TrunkType : IsPrefix(t, trunk) => IsPrefix(t, trunk')
  BY <1>1, <1>2, GrowthKeepsPast
<1>5. UNCHANGED <<lane, pc, snap, base, work>>
  BY DEF PushHotfix, local
<1>6. BaseIsPast'
  BY <1>4, <1>5, RunnerTypes DEF TrunkInv, BaseIsPast
<1>7. IntentsHonest' /\ LandsGreen'
  BY <1>5 DEF TrunkInv, IntentsHonest, LandsGreen, SpecTree
<1>8. RecordsSeen' /\ RecordedIsOnTrunk'
  BY <1>4, <1>5 DEF TrunkInv, RecordsSeen, RecordedIsOnTrunk, Landed
<1>9. QED
  BY <1>3, <1>6, <1>7, <1>8 DEF TrunkInv

\* An enqueue keeps it.
LEMMA EnqueueTrunk ==
    ASSUME TrunkInv, TypeOK', NEW l \in Lane, NEW p \in PR, Enqueue(l, p)
    PROVE  TrunkInv'
<1>1. \A k \in Lane : /\ lane'[k].landed = lane[k].landed
                      /\ lane'[k].prepared = lane[k].prepared
  BY HarmlessEvents DEF Enqueue, TrunkInv, TypeOK
<1>2. UNCHANGED <<trunk, pc, snap, base, work>>
  BY DEF Enqueue, local
<1>3. QED
  BY <1>1, <1>2 DEF TrunkInv, BaseIsPast, IntentsHonest, LandsGreen, SpecTree,
                    RecordsSeen, OnTrunk, EveryTipGreen, RecordedIsOnTrunk,
                    Landed

\* What appending batch_landed does to the facts about the lane.
LEMMA LandRecorded ==
    ASSUME TrunkInv, NEW r \in Runner, NEW prs \in SUBSET PR, NEW no,
           prs \subseteq OnTrunk, Log(r, BatchLanded(Here(r), prs, no))
    PROVE  \A l \in Lane :
              /\ lane'[l].landed \subseteq OnTrunk
              /\ lane'[l].prepared \subseteq lane[l].prepared
<1>1. /\ LaneOf[r] \in Lane
      /\ Here(r) = lane[LaneOf[r]]
      /\ Here(r) \in LaneType
  BY RunnerTypes DEF TrunkInv, Here
<1>2. BatchLanded(Here(r), prs, no).landed \subseteq Here(r).landed \cup prs
  BY <1>1 DEF BatchLanded, LaneType
<1>3. BatchLanded(Here(r), prs, no).prepared \subseteq Here(r).prepared
  BY <1>1 DEF BatchLanded, LaneType
<1>4. QED
  BY <1>1, <1>2, <1>3
     DEF Log, TrunkInv, TypeOK, RecordedIsOnTrunk, Landed

\* A completed intent keeps it: its spec is a tip trunk had.
LEMMA CompleteTrunk ==
    ASSUME TrunkInv, TypeOK', NEW r \in Runner, Complete(r)
    PROVE  TrunkInv'
<1> USE RunnerTypes DEF TrunkInv
<1>1. /\ trunk' = trunk
      /\ pc' = [pc EXCEPT ![r] = "readLane"]
      /\ snap' = [snap EXCEPT ![r] = EmptyLane]
      /\ base' = [base EXCEPT ![r] = <<>>]
      /\ work' = work
  BY DEF Complete, Goto
<1>2. \A l \in Lane : /\ lane'[l].landed \subseteq OnTrunk
                      /\ lane'[l].prepared \subseteq lane[l].prepared
  <2>1. CASE UNCHANGED lane
    BY <2>1 DEF RecordedIsOnTrunk, Landed
  <2>2. ASSUME NEW i \in snap[r].prepared, i \notin Abandoned(r),
               Log(r, BatchLanded(Here(r), i.prs, i.no))
        PROVE  \A l \in Lane :
                  /\ lane'[l].landed \subseteq OnTrunk
                  /\ lane'[l].prepared \subseteq lane[l].prepared
    <3>1. i.prs \in SUBSET PR
      BY DEF LaneType, Intent
    <3>2. i.prs \subseteq Tree(base[r])
      BY <2>2 DEF Abandoned, IntentsHonest
    <3>3. Tree(base[r]) \subseteq OnTrunk
      BY TreeMonotone DEF BaseIsPast, TypeOK, OnTrunk
    <3>4. QED
      BY <2>2, <3>1, <3>2, <3>3, LandRecorded
  <2>3. QED
    BY <2>1, <2>2 DEF Complete
<1>3. BaseIsPast'
  <2>1. IsPrefix(<<>>, trunk)
    BY EmptyIsPrefix DEF TypeOK, TrunkType
  <2>2. QED
    BY <1>1, <2>1 DEF BaseIsPast, TypeOK
<1>4. EmptyLane.prepared = {}
  BY DEF EmptyLane
<1>5. IntentsHonest'
  BY <1>1, <1>2, <1>4 DEF IntentsHonest, TypeOK
<1>6. LandsGreen' /\ RecordsSeen'
  BY <1>1 DEF LandsGreen, RecordsSeen, SpecTree, OnTrunk, TypeOK
<1>7. EveryTipGreen' /\ RecordedIsOnTrunk'
  BY <1>1, <1>2 DEF EveryTipGreen, RecordedIsOnTrunk, Landed, OnTrunk
<1>8. QED
  BY <1>3, <1>5, <1>6, <1>7

\* A recorded land keeps it.
LEMMA RecordTrunk ==
    ASSUME TrunkInv, TypeOK', NEW r \in Runner, Record(r)
    PROVE  TrunkInv'
<1> USE RunnerTypes DEF TrunkInv
<1>1. /\ UNCHANGED <<trunk, snap, base, work>>
      /\ pc' = [pc EXCEPT ![r] = "tuneUp"]
      /\ work[r].prs \subseteq OnTrunk
  BY DEF Record, Goto, local, RecordsSeen
<1>2. \A l \in Lane : /\ lane'[l].landed \subseteq OnTrunk
                      /\ lane'[l].prepared \subseteq lane[l].prepared
  BY <1>1, LandRecorded DEF Record
<1>3. BaseIsPast' /\ IntentsHonest'
  BY <1>1, <1>2 DEF BaseIsPast, IntentsHonest
<1>4. LandsGreen' /\ RecordsSeen'
  BY <1>1 DEF LandsGreen, RecordsSeen, SpecTree, OnTrunk, TypeOK
<1>5. EveryTipGreen' /\ RecordedIsOnTrunk'
  BY <1>1, <1>2 DEF EveryTipGreen, RecordedIsOnTrunk, Landed, OnTrunk
<1>6. QED
  BY <1>3, <1>4, <1>5

\* A confirmation keeps it.
LEMMA ConfirmTrunk ==
    ASSUME TrunkInv, TypeOK', NEW r \in Runner, Confirm(r)
    PROVE  TrunkInv'
<1> USE DEF TrunkInv
<1>1. /\ UNCHANGED <<trunk, lane, snap, base, work>>
      /\ pc' = [pc EXCEPT ![r] = "record"]
      /\ trunk = Spec(r)
  BY DEF Confirm, Confirms, Goto, local
<1>2. work[r].prs \subseteq OnTrunk
  BY <1>1, SpecType DEF OnTrunk, SpecTree
<1>3. RecordsSeen'
  BY <1>1, <1>2 DEF RecordsSeen, OnTrunk, TypeOK
<1>4. BaseIsPast' /\ IntentsHonest' /\ LandsGreen'
  BY <1>1 DEF BaseIsPast, IntentsHonest, LandsGreen, SpecTree, TypeOK
<1>5. EveryTipGreen' /\ RecordedIsOnTrunk'
  BY <1>1 DEF EveryTipGreen, RecordedIsOnTrunk, Landed, OnTrunk
<1>6. QED
  BY <1>3, <1>4, <1>5

\* A prepared intent keeps it: its spec was judged green.
LEMMA PrepareTrunk ==
    ASSUME TrunkInv, TypeOK', NEW r \in Runner, VerdictGreen(r)
    PROVE  TrunkInv'
<1> USE RunnerTypes DEF TrunkInv
<1> DEFINE i == [no |-> work[r].no, prs |-> work[r].prs, spec |-> Spec(r)]
<1>1. /\ UNCHANGED <<trunk, snap, base, work>>
      /\ pc' = [pc EXCEPT ![r] = "land"]
      /\ Log(r, IntentPrepared(Here(r), i))
      /\ "green" \in Outcomes(SpecTree(r))
  BY DEF VerdictGreen, Goto, local
<1>2. i.prs \subseteq Tree(i.spec)
  BY SpecType DEF SpecTree
<1> HIDE DEF i
<1>3. \A l \in Lane : /\ lane'[l].landed = lane[l].landed
                      /\ lane'[l].prepared \subseteq lane[l].prepared \cup {i}
  <2> DEFINE s == Here(r)
  <2>1. LaneOf[r] \in Lane /\ s \in LaneType /\ lane \in [Lane -> LaneType]
    BY DEF Here, TypeOK
  <2>2. lane' = [lane EXCEPT ![LaneOf[r]] = IntentPrepared(s, i)] /\ s = lane[LaneOf[r]]
    BY <1>1 DEF Log, Here
  <2> HIDE DEF s
  <2>3. /\ IntentPrepared(s, i).landed = s.landed
        /\ IntentPrepared(s, i).prepared \subseteq s.prepared \cup {i}
    BY <2>1 DEF IntentPrepared, LaneType
  <2>4. QED
    BY ONLY <2>1, <2>2, <2>3
<1>4. IntentsHonest' /\ BaseIsPast'
  BY <1>1, <1>2, <1>3 DEF IntentsHonest, BaseIsPast
<1>5. SpecTree(r) \notin Red
  BY <1>1 DEF Outcomes
<1>6. LandsGreen' /\ RecordsSeen'
  BY <1>1, <1>5 DEF LandsGreen, RecordsSeen, SpecTree, OnTrunk, TypeOK
<1>7. EveryTipGreen' /\ RecordedIsOnTrunk'
  BY <1>1, <1>3 DEF EveryTipGreen, RecordedIsOnTrunk, Landed, OnTrunk
<1>8. QED
  BY <1>4, <1>6, <1>7

\* Every step keeps the trunk invariant.
LEMMA NextTrunk ==
    ASSUME TrunkInv, [Next]_vars
    PROVE  TrunkInv'
<1>1. TypeOK'
  BY NextTyped DEF TrunkInv
<1>2. CASE UNCHANGED vars
  BY <1>2 DEF vars, TrunkInv, TypeOK, BaseIsPast, IntentsHonest, LandsGreen,
              SpecTree, RecordsSeen, OnTrunk, EveryTipGreen,
              RecordedIsOnTrunk, Landed
<1>3. CASE \/ \E l \in Lane, p \in PR : Enqueue(l, p)
           \/ \E h \in Hotfix : PushHotfix(h)
  BY <1>1, <1>3, EnqueueTrunk, HotfixTrunk
<1>4. ASSUME NEW r \in Runner, Run(r) \/ AdvanceUnheard(r) \/ Crash(r)
      PROVE  TrunkInv'
  <2>1. CASE HarmlessAction(r)
    BY <1>1, <2>1, HarmlessActions, HarmlessTrunk DEF TrunkInv
  <2>2. CASE Complete(r) \/ VerdictGreen(r) \/ Confirm(r) \/ Record(r)
    BY <1>1, <2>2, CompleteTrunk, PrepareTrunk, ConfirmTrunk, RecordTrunk
  <2>3. CASE Advance(r) \/ AdvanceUnheard(r)
    BY <1>1, <2>3, PushTrunk
  <2>4. QED
    BY <1>4, <2>1, <2>2, <2>3
       DEF Run, Recover, Speculate, RecordLand, HarmlessAction
<1>5. QED
  BY <1>2, <1>3, <1>4 DEF Next

\* The inductive invariant behind the three theorems below holds throughout.
THEOREM TrunkInvariance == Behaviour => []TrunkInv
BY InitTrunk, NextTrunk, PTL DEF Behaviour

\* No runner, of whatever lane, ever moves trunk to a tip that fails.
THEOREM TipsStayGreen == Behaviour => []EveryTipGreen
<1>1. TrunkInv => EveryTipGreen
  BY DEF TrunkInv
<1>2. QED
  BY <1>1, TrunkInvariance, PTL

\* Neither a runner nor the reconciler records a land that trunk lacks.
THEOREM RecordsAreTrue == Behaviour => []RecordedIsOnTrunk
<1>1. TrunkInv => RecordedIsOnTrunk
  BY DEF TrunkInv
<1>2. QED
  BY <1>1, TrunkInvariance, PTL

\* Every step leaves trunk alone or makes one land.
LEMMA TrunkSteps ==
    ASSUME TrunkInv, [Next]_vars
    PROVE  trunk' = trunk \/ \E x \in LandType : trunk' = Append(trunk, x)
<1>1. CASE UNCHANGED vars
  BY <1>1 DEF vars
<1>2. ASSUME NEW h \in Hotfix, PushHotfix(h)
      PROVE  \E x \in LandType : trunk' = Append(trunk, x)
  <2>1. [lane |-> NoLane, no |-> 0, prs |-> {h}] \in LandType
    BY DEF LandType, Change
  <2>2. QED
    BY <1>2, <2>1 DEF PushHotfix
<1>3. ASSUME NEW r \in Runner, Advance(r) \/ AdvanceUnheard(r)
      PROVE  \/ trunk' = trunk
             \/ \E x \in LandType : trunk' = Append(trunk, x)
  <2>1. Land(LaneOf[r], work[r]) \in LandType
    BY SpecType DEF TrunkInv
  <2>2. QED
    BY <1>3, <2>1 DEF Advance, AdvanceUnheard, LeaseHolds, Spec
<1>4. ASSUME NEW r \in Runner, Run(r) \/ Crash(r), ~Advance(r)
      PROVE  trunk' = trunk
  <2>1. CASE HarmlessAction(r)
    BY <2>1, HarmlessActions DEF TrunkInv, HarmlessBy
  <2>2. CASE Complete(r) \/ VerdictGreen(r) \/ Confirm(r) \/ Record(r)
    BY <2>2 DEF Complete, VerdictGreen, Confirm, Record
  <2>3. QED
    BY <1>4, <2>1, <2>2
       DEF Run, Recover, Speculate, RecordLand, HarmlessAction
<1>5. ASSUME NEW l \in Lane, NEW p \in PR, Enqueue(l, p)
      PROVE  trunk' = trunk
  BY <1>5 DEF Enqueue
<1>6. QED
  BY <1>1, <1>2, <1>3, <1>4, <1>5 DEF Next

\* No push, of whatever runner in whatever order, takes a land of anybody back
\* (trunk.py, force-with-lease).
THEOREM TrunkOnlyGrows == Behaviour => [][IsPrefix(trunk, trunk')]_trunk
<1>1. ASSUME TrunkInv, [Next]_vars
      PROVE  [IsPrefix(trunk, trunk')]_trunk
  <2>1. CASE trunk' = trunk
    BY <2>1
  <2>2. ASSUME NEW x \in LandType, trunk' = Append(trunk, x)
        PROVE  IsPrefix(trunk, trunk')
    BY <1>1, <2>2, GrowthKeepsPast
  <2>3. QED
    BY <1>1, <2>1, <2>2, TrunkSteps
<1>2. QED
  BY <1>1, TrunkInvariance, PTL DEF Behaviour

-----------------------------------------------------------------------------
(* The queue: places are given out once, and in order *)

\* The PRs that have a place.
Queued(s) == {p \in PR : s.rank[p] # 0}

InLine(s) ==
    /\ \A p \in PR : s.rank[p] <= Cardinality(Queued(s))
    /\ \A p, q \in Queued(s) : s.rank[p] = s.rank[q] => p = q

\* t is s with more PRs enqueued.
Follows(s, t) ==
    /\ s.done = t.done /\ s.held = t.held
    /\ \A p \in Queued(s) : t.rank[p] = s.rank[p]
    /\ \A p \in Queued(t) \ Queued(s), q \in PR : s.rank[q] < t.rank[p]

\* The fields that only enqueues, verdicts and lands change.
SameBooks(s, t) ==
    /\ t.rank = s.rank /\ t.done = s.done /\ t.landed = s.landed
    /\ t.ejected = s.ejected /\ t.held = s.held
    /\ t.prepared = s.prepared /\ t.atRisk = s.atRisk

\* What each event but an enqueue leaves alone.
LEMMA EventFields ==
    ASSUME NEW s \in LaneType
    PROVE  /\ SameBooks(s, BatchFormed(s))
           /\ \A prs : SameBooks(s, Aged(s, prs))
           /\ \A m : SameBooks(s, WindowTuned(s, m))
           /\ SameBooks([s EXCEPT !.atRisk = 0], BarrierPassed(s))
           /\ \A i : LET t == IntentPrepared(s, i) IN
                /\ SameBooks([s EXCEPT !.prepared = t.prepared], t)
                /\ t.prepared = {j \in s.prepared : j.no # i.no} \cup {i}
           /\ \A prs : LET t == Held(s, prs) IN
                /\ SameBooks([s EXCEPT !.held = t.held], t)
                /\ t.held = s.held \cup prs
           /\ \A p, why, k : LET t == Ejected(s, p, why, k) IN
                /\ SameBooks([s EXCEPT !.ejected = t.ejected, !.done = t.done], t)
                /\ t.ejected = s.ejected \cup {[pr |-> p, why |-> why, kept |-> k]}
                /\ t.done = s.done \cup {p}
           /\ \A prs, no : LET t == BatchLanded(s, prs, no)
                               fresh == prs \ s.done IN
                /\ t.rank = s.rank /\ t.ejected = s.ejected /\ t.held = s.held
                /\ t.done = s.done \cup fresh /\ t.landed = s.landed \cup fresh
                /\ t.atRisk = s.atRisk + Cardinality(fresh)
                /\ t.prepared = {j \in s.prepared : j.no # no}
BY DEF LaneType, SameBooks, BatchFormed, Aged, WindowTuned, BarrierPassed,
       IntentPrepared, Held, Ejected, BatchLanded

\* What becomes of a lane's intents.
LEMMA IntentFields ==
    ASSUME NEW s \in LaneType
    PROVE  /\ \A i : IntentPrepared(s, i).prepared
                    = {j \in s.prepared : j.no # i.no} \cup {i}
           /\ \A prs, no : BatchLanded(s, prs, no).prepared
                          = {j \in s.prepared : j.no # no}
BY DEF LaneType, IntentPrepared, BatchLanded

\* Whoever is enqueued comes last.
LEMMA EnqueuedLast ==
    ASSUME NEW s \in LaneType, InLine(s), NEW p \in PR
    PROVE  LET t == Enqueued(s, p) IN
           /\ InLine(t) /\ Follows(s, t)
           /\ t.landed = s.landed /\ t.ejected = s.ejected
           /\ t.prepared = s.prepared /\ t.atRisk = s.atRisk
<1> DEFINE t == Enqueued(s, p)
           n == Cardinality(Queued(s))
<1>1. s.rank \in [PR -> Nat] /\ n \in Nat
  BY CountIsNat DEF LaneType, Queued
<1>2. CASE s.rank[p] # 0
  <2>1. t = s
    BY <1>2 DEF Enqueued
  <2>2. QED
    BY <2>1 DEF Follows
<1>3. CASE s.rank[p] = 0
  <2>1. /\ t.rank = [s.rank EXCEPT ![p] = n + 1]
        /\ t.done = s.done /\ t.held = s.held
        /\ t.landed = s.landed /\ t.ejected = s.ejected
        /\ t.prepared = s.prepared /\ t.atRisk = s.atRisk
    BY <1>1, <1>3 DEF Enqueued, LaneType, Queued
  <2> HIDE DEF t
  <2>2. Queued(t) = Queued(s) \cup {p} /\ p \notin Queued(s)
    <3>1. \A q \in PR : t.rank[q] # 0 <=> q = p \/ s.rank[q] # 0
      BY <1>1, <2>1
    <3>2. QED
      BY <1>3, <3>1 DEF Queued
  <2>3. Cardinality(Queued(t)) = n + 1
    <3>1. IsFiniteSet(Queued(s))
      BY MergeQueueAssumption, FS_Subset DEF Queued
    <3>2. QED
      BY <2>2, <3>1, FS_AddElement
  <2>4. \A q \in PR : s.rank[q] <= n
    BY DEF InLine
  <2>5. \A q \in PR : t.rank[q] = IF q = p THEN n + 1 ELSE s.rank[q]
    BY <1>1, <2>1
  <2>6. InLine(t)
    <3>1. \A q \in PR : t.rank[q] <= n + 1
      BY <1>1, <2>4, <2>5
    <3>2. ASSUME NEW a \in Queued(t), NEW b \in Queued(t), t.rank[a] = t.rank[b]
          PROVE  a = b
      <4>1. a \in PR /\ b \in PR
        BY DEF Queued
      <4>2. CASE a = p \/ b = p
        BY <1>1, <2>4, <2>5, <3>2, <4>1, <4>2
      <4>3. CASE a # p /\ b # p
        BY <2>2, <2>5, <3>2, <4>1, <4>3 DEF InLine
      <4>4. QED
        BY <4>2, <4>3
    <3>3. QED
      BY <2>3, <3>1, <3>2 DEF InLine
  <2>7. Follows(s, t)
    <3>1. \A q \in Queued(s) : t.rank[q] = s.rank[q]
      BY <2>2, <2>5 DEF Queued
    <3>2. \A q \in Queued(t) \ Queued(s), a \in PR : s.rank[a] < t.rank[q]
      BY <1>1, <2>2, <2>4, <2>5
    <3>3. QED
      BY <2>1, <3>1, <3>2 DEF Follows
  <2>8. QED
    BY <2>1, <2>6, <2>7 DEF t
<1>4. QED
  BY <1>2, <1>3

\* Every lane keeps its places, and so does what a runner has read of it.
Lines == /\ \A l \in Lane : InLine(lane[l])
         /\ \A r \in Runner : InLine(snap[r])

\* The places of the empty lane.
LEMMA EmptyLine == InLine(EmptyLane)
<1>1. Queued(EmptyLane) = {} /\ \A p \in PR : EmptyLane.rank[p] = 0
  BY DEF Queued, EmptyLane
<1>2. QED
  BY <1>1, FS_EmptySet DEF InLine

\* No step of a runner gives or takes a place, and what it reads is its lane.
LEMMA RunnersKeepPlaces ==
    ASSUME TypeOK, NEW r \in Runner, Run(r) \/ AdvanceUnheard(r) \/ Crash(r)
    PROVE  /\ \A l \in Lane : lane'[l].rank = lane[l].rank
           /\ \A q \in Runner : snap'[q] \in {snap[q], Here(q), EmptyLane}
<1> DEFINE h == Here(r)
<1>1. /\ LaneOf[r] \in Lane /\ h \in LaneType
      /\ lane \in [Lane -> LaneType] /\ snap \in [Runner -> LaneType]
  BY RunnerTypes DEF TypeOK
<1>2. ASSUME NEW s, Log(r, s), s.rank = h.rank
      PROVE  \A l \in Lane : lane'[l].rank = lane[l].rank
  BY <1>1, <1>2 DEF Log, Here
<1>3. /\ BatchFormed(h).rank = h.rank /\ BarrierPassed(h).rank = h.rank
      /\ \A prs : Held(h, prs).rank = h.rank /\ Aged(h, prs).rank = h.rank
      /\ \A m : WindowTuned(h, m).rank = h.rank
      /\ \A i : IntentPrepared(h, i).rank = h.rank
      /\ \A p, why, k : Ejected(h, p, why, k).rank = h.rank
      /\ \A prs, no : BatchLanded(h, prs, no).rank = h.rank
  BY <1>1 DEF LaneType, BatchFormed, Aged, WindowTuned, BarrierPassed,
       IntentPrepared, Held, Ejected, BatchLanded
<1>4. \/ lane' = lane
      \/ \E s : Log(r, s) /\ s.rank = h.rank
  <2> USE <1>3
  <2>1. CASE Start(r) \/ RecoverRead(r) \/ RecoverReadTrunk(r) \/ AdvanceUnheard(r) \/ Crash(r)
    BY <2>1 DEF Start, RecoverRead, RecoverReadTrunk, AdvanceUnheard, Crash
  <2>2. CASE Complete(r)
    BY <2>2 DEF Complete
  <2>3. CASE TickRead(r) \/ TickReadTrunk(r) \/ BarrierOk(r) \/ BarrierRed(r)
    BY <2>3 DEF TickRead, TickReadTrunk, BarrierOk, BarrierRed
  <2>4. CASE EjectHead(r) \/ Form(r) \/ VerdictGreen(r) \/ VerdictNotGreen(r)
    BY <2>4 DEF EjectHead, Form, VerdictGreen, VerdictNotGreen
  <2>5. CASE ShrinkWindow(r) \/ HoldBatch(r) \/ Isolate(r)
    <3>1. CASE EjectCulprit(r)
      BY <3>1 DEF EjectCulprit
    <3>2. CASE EjectIncompatible(r)
      BY <3>2 DEF EjectIncompatible
    <3>3. CASE HoldCandidate(r)
      BY <3>3 DEF HoldCandidate
    <3>4. CASE ShrinkWindow(r) \/ HoldBatch(r) \/ HoldUnisolated(r)
      BY <3>4 DEF ShrinkWindow, HoldBatch, HoldUnisolated
    <3>5. QED
      BY <2>5, <3>1, <3>2, <3>3, <3>4 DEF Isolate
  <2>6. CASE RecordLand(r)
    BY <2>6 DEF RecordLand, GuardRefuses, TuneGuarded, Advance, AdvanceRejected,
                Confirm, Unconfirmed, Record, GrowWindow
  <2>7. QED
    BY <2>1, <2>2, <2>3, <2>4, <2>5, <2>6 DEF Run, Recover, Speculate
<1>5. \/ snap' = snap
      \/ snap' = [snap EXCEPT ![r] = h] \/ snap' = [snap EXCEPT ![r] = EmptyLane]
  <2>1. CASE Start(r) \/ RecoverRead(r) \/ RecoverReadTrunk(r) \/ AdvanceUnheard(r) \/ Crash(r)
    BY <2>1 DEF Start, RecoverRead, RecoverReadTrunk, AdvanceUnheard, Crash, Finish, local
  <2>2. CASE Complete(r)
    BY <2>2 DEF Complete
  <2>3. CASE TickRead(r) \/ TickReadTrunk(r) \/ BarrierOk(r) \/ BarrierRed(r)
    BY <2>3 DEF TickRead, TickReadTrunk, BarrierOk, BarrierRed, Finish, local
  <2>4. CASE EjectHead(r) \/ Form(r) \/ VerdictGreen(r) \/ VerdictNotGreen(r)
    BY <2>4 DEF EjectHead, Form, VerdictGreen, VerdictNotGreen, Finish, local
  <2>5. CASE ShrinkWindow(r) \/ HoldBatch(r) \/ Isolate(r)
    BY <2>5 DEF ShrinkWindow, HoldBatch, Isolate, EjectCulprit, HoldCandidate,
                EjectIncompatible, HoldUnisolated, Finish, local
  <2>6. CASE RecordLand(r)
    BY <2>6 DEF RecordLand, GuardRefuses, TuneGuarded, Advance, AdvanceRejected,
                Confirm, Unconfirmed, Record, GrowWindow, Finish, local
  <2>7. QED
    BY <2>1, <2>2, <2>3, <2>4, <2>5, <2>6 DEF Run, Recover, Speculate
<1>6. QED
  BY <1>1, <1>2, <1>4, <1>5

\* Places depend on ranks only.
LEMMA SameRankInLine ==
    ASSUME NEW s, NEW t, t.rank = s.rank, InLine(s)
    PROVE  InLine(t)
BY DEF InLine, Queued

\* Every step keeps the lines.
LEMMA NextLines ==
    ASSUME TypeOK, Lines, [Next]_vars
    PROVE  Lines'
<1>1. CASE UNCHANGED vars
  BY <1>1 DEF vars, Lines
<1>2. ASSUME NEW l \in Lane, NEW p \in PR, Enqueue(l, p) PROVE Lines'
  <2>1. InLine(Enqueued(lane[l], p))
    BY EnqueuedLast DEF Lines, TypeOK
  <2>2. lane' = [lane EXCEPT ![l] = Enqueued(lane[l], p)] /\ snap' = snap
    BY <1>2 DEF Enqueue, local
  <2>3. QED
    BY <2>1, <2>2 DEF Lines, TypeOK
<1>3. ASSUME NEW h \in Hotfix, PushHotfix(h) PROVE Lines'
  BY <1>3 DEF PushHotfix, local, Lines
<1>4. ASSUME NEW r \in Runner, Run(r) \/ AdvanceUnheard(r) \/ Crash(r) PROVE Lines'
  <2>1. \A l \in Lane : InLine(lane'[l])
    BY <1>4, RunnersKeepPlaces, SameRankInLine DEF Lines
  <2>2. \A q \in Runner : InLine(snap'[q])
    BY <1>4, RunnersKeepPlaces, RunnerTypes, EmptyLine DEF Lines, Here
  <2>3. QED
    BY <2>1, <2>2 DEF Lines
<1>5. QED
  BY <1>1, <1>2, <1>3, <1>4 DEF Next

-----------------------------------------------------------------------------
(* Ejections: nobody is ejected for someone else's failure *)

\* Trunk starts green, and hotfixes break nothing on a green trunk.
HotfixesBreakNothing ==
    /\ {} \notin Red
    /\ \A t \in SUBSET Change, h \in Hotfix : t \notin Red => t \cup {h} \notin Red

\* Then every point of trunk's past is green, those that a human made too.
AlwaysGreen == \A t \in TrunkType : IsPrefix(t, trunk) => Tree(t) \notin Red

\* What is being judged had its place when the runner read the lane.
JudgedAreQueued ==
    \A r \in Runner : pc[r] \in {"verdict", "aged", "tuned"}
                          => work[r].prs \subseteq Queued(snap[r])

Justified(e) ==
    \/ e.why = "regression" /\ \E t \in Greens : t \cup {e.pr} \in Red
    \/ /\ e.why = "incompatible"
       /\ \E t \in Greens, qs \in SUBSET PR :
              t \cup qs \notin Red /\ t \cup qs \cup {e.pr} \in Red
    \/ e.why = "merge conflict" /\ ~Clean(OnTrunk, e.pr)

BlameInv ==
    /\ TrunkInv
    /\ Lines
    /\ AlwaysGreen
    /\ JudgedAreQueued
    /\ \A l \in Lane : \A e \in lane[l].ejected : Justified(e)

\* A point of trunk's past is one of its green trees.
LEMMA PastIsGreen ==
    ASSUME TypeOK, AlwaysGreen, NEW t \in TrunkType, IsPrefix(t, trunk)
    PROVE  Tree(t) \in Greens
<1>1. trunk \in Seq(LandType) /\ t \in Seq(LandType)
  BY DEF TypeOK, TrunkType
<1>2. Len(t) \in 0 .. Len(trunk) /\ t = SubSeq(trunk, 1, Len(t))
  BY <1>1, PrefixIsSubSeq
<1>3. Tree(t) \in {Tree(SubSeq(trunk, 1, i)) : i \in 0 .. Len(trunk)}
  <2> DEFINE n == Len(t)
  <2>1. n \in 0 .. Len(trunk) /\ Tree(t) = Tree(SubSeq(trunk, 1, n))
    BY <1>2
  <2> HIDE DEF n
  <2>2. QED
    BY <2>1
<1>4. Tree(t) \notin Red
  BY DEF AlwaysGreen
<1>5. QED
  BY <1>3, <1>4 DEF Greens

\* What justifies an ejection stays so, as trunk grows.
LEMMA JustifiedForGood ==
    ASSUME TypeOK, NEW e, Justified(e),
           trunk' = trunk \/ \E x \in LandType : trunk' = Append(trunk, x)
    PROVE  Justified(e)'
<1>1. CASE trunk' = trunk
  BY <1>1 DEF Justified, Greens, OnTrunk
<1>2. ASSUME NEW x \in LandType, trunk' = Append(trunk, x) PROVE Justified(e)'
  <2>1. trunk \in Seq(LandType) /\ Len(trunk) \in Nat
    BY DEF TypeOK, TrunkType
  <2>2. Len(trunk') = Len(trunk) + 1
    BY <1>2, <2>1
  <2>3. ASSUME NEW i \in 0 .. Len(trunk)
        PROVE  SubSeq(trunk', 1, i) = SubSeq(trunk, 1, i)
    <3>1. \A j \in 1 .. Len(trunk) : trunk'[j] = trunk[j]
      BY <1>2, <2>1
    <3>2. trunk' \in Seq(LandType)
      BY <1>2, <2>1
    <3>3. /\ SubSeq(trunk', 1, i) \in Seq(LandType) /\ SubSeq(trunk, 1, i) \in Seq(LandType)
          /\ Len(SubSeq(trunk', 1, i)) = i /\ Len(SubSeq(trunk, 1, i)) = i
          /\ \A j \in 1 .. i : SubSeq(trunk', 1, i)[j] = SubSeq(trunk, 1, i)[j]
      BY <2>1, <2>2, <3>1, <3>2
    <3>4. QED
      BY <3>3
  <2>4. Greens \subseteq Greens'
    <3>1. ASSUME NEW t \in Greens PROVE t \in Greens'
      <4>1. PICK i \in 0 .. Len(trunk) : t = Tree(SubSeq(trunk, 1, i))
        BY DEF Greens
      <4>2. t \notin Red
        BY DEF Greens
      <4>3. i \in 0 .. Len(trunk')
        BY <2>1, <2>2, <4>1
      <4>4. SubSeq(trunk', 1, i) = SubSeq(trunk, 1, i)
        BY <2>3, <4>1
      <4>5. t = Tree(SubSeq(trunk', 1, i))
        BY <4>1, <4>4
      <4>6. QED
        BY <4>2, <4>3, <4>5 DEF Greens
    <3>2. QED
      BY <3>1
  <2>5. OnTrunk \subseteq OnTrunk'
    BY <1>2, TreeOfAppend DEF TypeOK, OnTrunk
  <2>6. ~Clean(OnTrunk, e.pr) => ~Clean(OnTrunk', e.pr)
    BY <2>5 DEF Clean
  <2>7. QED
    BY <2>4, <2>6 DEF Justified
<1>3. QED
  BY <1>1, <1>2

\* The first of the PRs that a tick asks for conflicts with trunk itself, if
\* nothing can be built.
LEMMA HeadConflicts ==
    ASSUME TypeOK, NEW r \in Runner, Batch(r) = {},
           NEW p \in FirstN(snap[r], Asked(r), 1)
    PROVE  ~Clean(Tree(base[r]), p)
<1> DEFINE U(q) == UpTo(snap[r], Asked(r), q)
<1>1. p \in Asked(r) /\ Cardinality(U(p)) <= 1
  BY DEF FirstN
<1>2. p \in U(p) /\ U(p) \subseteq PR /\ IsFiniteSet(U(p))
  <2>1. Asked(r) \subseteq PR /\ snap[r].rank[p] \in Nat
    BY <1>1, BatchIsPRs, RunnerTypes DEF LaneType
  <2>2. p \in U(p) /\ U(p) \subseteq PR
    BY <1>1, <2>1 DEF UpTo
  <2>3. QED
    BY <2>2, MergeQueueAssumption, FS_Subset
<1> HIDE DEF U
<1>3. U(p) = {p}
  <2>1. ASSUME NEW q \in U(p), q # p PROVE FALSE
    <3>1. Cardinality(U(p) \ {p}) = Cardinality(U(p)) - 1 /\ IsFiniteSet(U(p) \ {p})
      BY <1>2, FS_RemoveElement
    <3>2. Cardinality(U(p)) \in Nat /\ Cardinality(U(p) \ {p}) \in Nat
      BY <1>2, <3>1, FS_CardinalityType
    <3>3. Cardinality(U(p) \ {p}) = 0
      BY <1>1, <3>1, <3>2
    <3>4. U(p) \ {p} = {}
      BY <3>1, <3>3, FS_EmptySet
    <3>5. QED
      BY <2>1, <3>4
  <2>2. QED
    BY <1>2, <2>1
<1>4. PICK q \in U(p) : ~Clean(Tree(base[r]) \cup (U(q) \ {q}), q)
  BY <1>1 DEF Batch, Built, U
<1>5. q = p /\ U(q) \ {q} = {}
  BY <1>3, <1>4
<1>6. QED
  BY <1>4, <1>5

\* What isolation calls incompatible turns a green prefix of the batch red.
LEMMA PrefixTurnsRed ==
    ASSUME TypeOK, Lines, NEW r \in Runner, work[r].prs \subseteq Queued(snap[r]),
           NoCulprit(r), NEW p \in work[r].prs, RedUpTo(r, p),
           \A q \in Earlier(r, p) : ~RedUpTo(r, q)
    PROVE  /\ Earlier(r, p) \in SUBSET PR
           /\ Tree(base[r]) \cup Earlier(r, p) \notin Red
           /\ Tree(base[r]) \cup Earlier(r, p) \cup {p} \in Red
<1> DEFINE rank == snap[r].rank
           P(q) == Prefix(r, q)
           E == Earlier(r, p)
<1>1. /\ work[r].prs \subseteq PR /\ rank \in [PR -> Nat]
      /\ \A a, b \in work[r].prs : rank[a] = rank[b] => a = b
  BY RunnerTypes DEF LaneType, Lines, InLine
<1>2. \A a, b \in work[r].prs : b \in P(a) <=> rank[b] <= rank[a]
  BY DEF Prefix, UpTo
<1>3. /\ \A a \in work[r].prs : P(a) \subseteq work[r].prs /\ a \in P(a)
      /\ E = P(p) \ {p}
  BY <1>1 DEF Prefix, UpTo, Earlier
<1>4. /\ Cardinality(P(p)) >= 2
      /\ Tree(base[r]) \cup P(p) \in Red
      /\ \A q \in E : Cardinality(P(q)) >= 2 => Tree(base[r]) \cup P(q) \notin Red
  <2>1. Cardinality(P(p)) >= 2 /\ Tree(base[r]) \cup P(p) \in Red
    BY DEF RedUpTo
  <2>2. ASSUME NEW q \in E, Cardinality(P(q)) >= 2 PROVE Tree(base[r]) \cup P(q) \notin Red
    BY <2>2 DEF RedUpTo
  <2>3. QED
    BY <2>1, <2>2
<1>5. \A q \in work[r].prs : Tree(base[r]) \cup {q} \notin Red
  BY DEF NoCulprit, RedAlone
<1> HIDE DEF P, E, rank
<1>6. E \subseteq work[r].prs /\ IsFiniteSet(E) /\ IsFiniteSet(P(p))
  <2>1. E \subseteq PR /\ P(p) \subseteq PR /\ E \subseteq work[r].prs
    BY <1>1, <1>3
  <2>2. QED
    BY <2>1, MergeQueueAssumption, FS_Subset
<1>7. E # {}
  <2>1. ASSUME E = {} PROVE FALSE
    <3>1. P(p) = {p}
      BY <1>3, <2>1
    <3>2. Cardinality(P(p)) = 1
      BY <3>1, FS_Singleton
    <3>3. QED
      BY <1>4, <3>2
  <2>2. QED
    BY <2>1
<1>8. PICK q \in E : \A x \in E : rank[x] <= rank[q]
  BY <1>1, <1>6, <1>7, LargestExists
<1>9. P(q) = E
  <2>1. ASSUME NEW x \in E PROVE x \in P(q)
    BY <1>2, <1>6, <1>8
  <2>2. ASSUME NEW x \in P(q) PROVE x \in E
    <3>1. q \in work[r].prs /\ q \in P(p) /\ q # p
      BY <1>3, <1>6
    <3>2. x \in work[r].prs /\ rank[x] <= rank[q] /\ rank[q] <= rank[p]
      BY <1>2, <1>3, <3>1
    <3>3. {rank[x], rank[q], rank[p]} \subseteq Nat
      BY <1>1, <3>1, <3>2
    <3>4. x \in P(p) /\ x # p
      BY <1>1, <1>2, <3>1, <3>2, <3>3
    <3>5. QED
      BY <1>3, <3>4
  <2>3. QED
    BY <2>1, <2>2
<1>10. Tree(base[r]) \cup E \notin Red
  <2>1. CASE Cardinality(P(q)) >= 2
    BY <1>4, <1>9, <2>1
  <2>2. CASE ~(Cardinality(P(q)) >= 2)
    <3>1. E = {q}
      <4>1. Cardinality(E) \in Nat /\ Cardinality(E) <= 1
        BY <1>6, <1>9, <2>2, FS_CardinalityType
      <4>2. Cardinality(E \ {q}) = Cardinality(E) - 1 /\ IsFiniteSet(E \ {q})
        BY <1>6, FS_RemoveElement
      <4>3. Cardinality(E \ {q}) \in Nat
        BY <4>2, FS_CardinalityType
      <4>4. Cardinality(E \ {q}) = 0
        BY <4>1, <4>2, <4>3
      <4>5. E \ {q} = {}
        BY <4>2, <4>4, FS_EmptySet
      <4>6. QED
        BY <4>5
    <3>2. QED
      BY <1>5, <1>6, <3>1
  <2>3. QED
    BY <2>1, <2>2
<1>11. Tree(base[r]) \cup E \cup {p} \in Red
  <2>1. E \cup {p} = P(p)
    BY <1>3
  <2>2. QED
    BY <1>4, <2>1
<1>12. E \in SUBSET PR
  BY <1>1, <1>6
<1>13. QED
  BY <1>10, <1>11, <1>12 DEF E

\* Ejections and verdicts, by action: what is new in a lane's books.
Blames(r) == EjectHead(r) \/ EjectCulprit(r) \/ EjectIncompatible(r)

\* An ejection is justified at the step that makes it.
LEMMA BlameIsJustified ==
    ASSUME BlameInv, NEW r \in Runner, Blames(r)
    PROVE  \E e \in Ejection :
               Justified(e) /\ Log(r, Ejected(Here(r), e.pr, e.why, e.kept))
<1> USE DEF BlameInv, TrunkInv
<1>1. Tree(base[r]) \in Greens
  <2>1. base[r] \in TrunkType /\ IsPrefix(base[r], trunk)
    BY RunnerTypes DEF BaseIsPast
  <2>2. QED
    BY <2>1, PastIsGreen
<1>2. work[r].prs \subseteq PR
  BY RunnerTypes
<1>3. CASE EjectHead(r)
  <2>1. PICK p \in FirstN(snap[r], Asked(r), 1) :
            Log(r, Ejected(Here(r), p, "merge conflict", NoPR))
    BY <1>3 DEF EjectHead
  <2> DEFINE e == [pr |-> p, why |-> "merge conflict", kept |-> NoPR]
  <2>2. ~Clean(Tree(base[r]), p) /\ Batch(r) = {}
    BY <1>3, <2>1, HeadConflicts DEF EjectHead
  <2>3. Tree(base[r]) \subseteq OnTrunk
    BY RunnerTypes, TreeMonotone DEF BaseIsPast, OnTrunk, TypeOK
  <2>4. ~Clean(OnTrunk, p)
    BY <2>2, <2>3 DEF Clean
  <2>5. e \in Ejection
    <3>1. p \in PR
      BY <2>1, BatchIsPRs DEF FirstN
    <3>2. QED
      BY <3>1 DEF Ejection
  <2>6. QED
    BY <2>1, <2>4, <2>5 DEF Justified
<1>4. CASE EjectCulprit(r)
  <2>1. PICK p \in work[r].prs :
            Culprit(r, p) /\ Log(r, Ejected(Here(r), p, "regression", NoPR))
    BY <1>4 DEF EjectCulprit
  <2> DEFINE e == [pr |-> p, why |-> "regression", kept |-> NoPR]
  <2>2. Tree(base[r]) \cup {p} \in Red
    BY <2>1 DEF Culprit, RedAlone
  <2>3. e \in Ejection
    BY <1>2, <2>1 DEF Ejection
  <2>4. Justified(e)
    BY <1>1, <2>2 DEF Justified
  <2>5. QED
    BY <2>1, <2>3, <2>4
<1>5. CASE EjectIncompatible(r)
  <2>1. PICK p \in work[r].prs :
            /\ RedUpTo(r, p)
            /\ \A q \in Earlier(r, p) : ~RedUpTo(r, q)
            /\ \E k \in FirstN(snap[r], work[r].prs, 1) :
                  Log(r, Ejected(Here(r), p, "incompatible", k))
    BY <1>5 DEF EjectIncompatible
  <2>2. PICK k \in FirstN(snap[r], work[r].prs, 1) :
            Log(r, Ejected(Here(r), p, "incompatible", k))
    BY <2>1
  <2> DEFINE e == [pr |-> p, why |-> "incompatible", kept |-> k]
  <2>3. /\ NoCulprit(r) /\ work[r].prs \subseteq Queued(snap[r])
    BY <1>5 DEF EjectIncompatible, Isolating, JudgedAreQueued
  <2>4. /\ Earlier(r, p) \in SUBSET PR
        /\ Tree(base[r]) \cup Earlier(r, p) \notin Red
        /\ Tree(base[r]) \cup Earlier(r, p) \cup {p} \in Red
    BY <2>1, <2>3, PrefixTurnsRed
  <2>5. e \in Ejection
    BY <1>2, <2>1, <2>2 DEF Ejection, FirstN
  <2>6. Justified(e)
    BY <1>1, <2>4 DEF Justified
  <2>7. QED
    BY <2>2, <2>5, <2>6
<1>6. QED
  BY <1>3, <1>4, <1>5 DEF Blames

\* No other step ejects anybody.
LEMMA OnlyBlamesEject ==
    ASSUME TypeOK, [Next]_vars, \A r \in Runner : ~Blames(r)
    PROVE  \A l \in Lane : lane'[l].ejected = lane[l].ejected
<1>1. CASE UNCHANGED vars \/ \E h \in Hotfix : PushHotfix(h)
  BY <1>1 DEF vars, PushHotfix
<1>2. ASSUME NEW l \in Lane, NEW p \in PR, Enqueue(l, p)
      PROVE  \A k \in Lane : lane'[k].ejected = lane[k].ejected
  <2>1. lane[l] \in LaneType /\ lane \in [Lane -> LaneType]
    BY DEF TypeOK
  <2>2. Enqueued(lane[l], p).ejected = lane[l].ejected
    BY <2>1 DEF Enqueued, LaneType
  <2>3. QED
    BY <1>2, <2>1, <2>2 DEF Enqueue
<1>3. ASSUME NEW r \in Runner, Run(r) \/ AdvanceUnheard(r) \/ Crash(r)
      PROVE  \A l \in Lane : lane'[l].ejected = lane[l].ejected
  <2> DEFINE h == Here(r)
  <2>1. h \in LaneType /\ LaneOf[r] \in Lane /\ lane \in [Lane -> LaneType]
    BY RunnerTypes DEF TypeOK
  <2>2. ASSUME NEW s, Log(r, s), s.ejected = h.ejected
        PROVE  \A l \in Lane : lane'[l].ejected = lane[l].ejected
    BY <2>1, <2>2 DEF Log, Here
  <2>3. /\ BatchFormed(h).ejected = h.ejected /\ BarrierPassed(h).ejected = h.ejected
        /\ \A prs : Held(h, prs).ejected = h.ejected /\ Aged(h, prs).ejected = h.ejected
        /\ \A m : WindowTuned(h, m).ejected = h.ejected
        /\ \A i : IntentPrepared(h, i).ejected = h.ejected
        /\ \A prs, no : BatchLanded(h, prs, no).ejected = h.ejected
    BY <2>1 DEF LaneType, BatchFormed, Aged, WindowTuned, BarrierPassed,
       IntentPrepared, Held, BatchLanded
  <2>4. lane' = lane \/ \E s : Log(r, s) /\ s.ejected = h.ejected
    <3> USE <2>3
    <3>1. CASE Start(r) \/ RecoverRead(r) \/ RecoverReadTrunk(r) \/ AdvanceUnheard(r) \/ Crash(r)
      BY <3>1 DEF Start, RecoverRead, RecoverReadTrunk, AdvanceUnheard, Crash
    <3>2. CASE Complete(r)
      BY <3>2 DEF Complete
    <3>3. CASE TickRead(r) \/ TickReadTrunk(r) \/ BarrierOk(r) \/ BarrierRed(r)
      BY <3>3 DEF TickRead, TickReadTrunk, BarrierOk, BarrierRed
    <3>4. CASE Form(r) \/ VerdictGreen(r) \/ VerdictNotGreen(r)
      BY <3>4 DEF Form, VerdictGreen, VerdictNotGreen
    <3>5. CASE ShrinkWindow(r) \/ HoldBatch(r) \/ HoldUnisolated(r)
      BY <3>5 DEF ShrinkWindow, HoldBatch, HoldUnisolated
    <3>6. CASE HoldCandidate(r)
      BY <3>6 DEF HoldCandidate
    <3>7. CASE RecordLand(r)
      BY <3>7 DEF RecordLand, GuardRefuses, TuneGuarded, Advance, AdvanceRejected,
                  Confirm, Unconfirmed, Record, GrowWindow
    <3>8. ~Blames(r)
      OBVIOUS
    <3>9. QED
      BY <1>3, <3>1, <3>2, <3>3, <3>4, <3>5, <3>6, <3>7, <3>8
         DEF Run, Recover, Speculate, Isolate, Blames
  <2>5. QED
    BY <2>2, <2>4
<1>4. QED
  BY <1>1, <1>2, <1>3 DEF Next

\* A land without a lane is a hotfix.
LEMMA HotfixMade ==
    ASSUME TypeOK, [Next]_vars, NEW x, x.lane = NoLane, trunk' = Append(trunk, x)
    PROVE  \E h \in Hotfix : PushHotfix(h)
<1>1. trunk \in Seq(LandType) /\ Len(trunk) \in Nat
  BY DEF TypeOK, TrunkType
<1>2. trunk' # trunk
  <2>1. Len(trunk') = Len(trunk) + 1
    BY <1>1
  <2>2. QED
    BY <1>1, <2>1
<1>3. ASSUME NEW r \in Runner, Advance(r) \/ AdvanceUnheard(r) PROVE FALSE
  <2>1. trunk' = Spec(r) /\ LeaseHolds(r)
    BY <1>3 DEF Advance, AdvanceUnheard
  <2>2. trunk = base[r]
    BY <1>2, <2>1 DEF LeaseHolds
  <2>3. trunk' = Append(trunk, Land(LaneOf[r], work[r]))
    BY <2>1, <2>2 DEF Spec
  <2>4. x = Land(LaneOf[r], work[r])
    <3>1. Append(trunk, x)[Len(trunk) + 1] = x
      BY <1>1
    <3>2. Append(trunk, Land(LaneOf[r], work[r]))[Len(trunk) + 1] = Land(LaneOf[r], work[r])
      BY <1>1
    <3>3. QED
      BY <2>3, <3>1, <3>2
  <2>5. QED
    BY <2>4, MergeQueueAssumption DEF Land
<1>4. ASSUME NEW r \in Runner, Run(r) \/ Crash(r), ~Advance(r) PROVE FALSE
  <2>1. CASE HarmlessAction(r)
    BY <1>2, <2>1, HarmlessActions DEF HarmlessBy
  <2>2. CASE Complete(r) \/ VerdictGreen(r) \/ Confirm(r) \/ Record(r)
    BY <1>2, <2>2 DEF Complete, VerdictGreen, Confirm, Record
  <2>3. QED
    BY <1>4, <2>1, <2>2
       DEF Run, Recover, Speculate, RecordLand, HarmlessAction
<1>5. QED
  BY <1>2, <1>3, <1>4 DEF Next, vars, Enqueue

\* Trunk stays green in all its past, hotfixes included.
LEMMA GreenForGood ==
    ASSUME HotfixesBreakNothing, TrunkInv, TrunkInv', AlwaysGreen, [Next]_vars
    PROVE  AlwaysGreen'
<1>1. CASE trunk' = trunk
  BY <1>1 DEF AlwaysGreen
<1>2. ASSUME NEW x \in LandType, trunk' = Append(trunk, x) PROVE AlwaysGreen'
  <2>1. ASSUME NEW t \in TrunkType, IsPrefix(t, trunk')
        PROVE  Tree(t) \notin Red
    <3>1. CASE IsPrefix(t, trunk)
      BY <3>1 DEF AlwaysGreen
    <3>2. CASE t = trunk'
      <4>1. trunk \in TrunkType /\ IsPrefix(trunk, trunk) /\ Tree(trunk) \subseteq Change
        BY PrefixReflexive, TreeOfChanges DEF TrunkInv, TypeOK, TrunkType
      <4>2. Tree(trunk) \notin Red
        BY <4>1 DEF AlwaysGreen
      <4>3. CASE x.lane = NoLane
        <5>1. PICK h \in Hotfix : PushHotfix(h)
          BY <1>2, <4>3, HotfixMade DEF TrunkInv
        <5>2. x.prs = {h}
          <6>1. trunk' = Append(trunk, [lane |-> NoLane, no |-> 0, prs |-> {h}])
            BY <5>1 DEF PushHotfix
          <6>2. trunk \in Seq(LandType)
            BY <4>1 DEF TrunkType
          <6>3. /\ Append(trunk, x)[Len(trunk) + 1] = x
                /\ Append(trunk, [lane |-> NoLane, no |-> 0, prs |-> {h}])[Len(trunk) + 1]
                       = [lane |-> NoLane, no |-> 0, prs |-> {h}]
            BY <6>2
          <6>4. QED
            BY <1>2, <6>1, <6>3
        <5>3. Tree(trunk') = Tree(trunk) \cup {h}
          BY <1>2, <4>1, <5>2, TreeOfAppend
        <5>4. QED
          BY <3>2, <4>1, <4>2, <5>3 DEF HotfixesBreakNothing
      <4>4. CASE x.lane # NoLane
        <5>1. /\ trunk' \in Seq(LandType) /\ Len(trunk') \in DOMAIN trunk'
              /\ trunk'[Len(trunk')] = x
          BY <1>2, <4>1 DEF TrunkType
        <5>2. SubSeq(trunk', 1, Len(trunk')) = trunk'
          BY <5>1
        <5>3. QED
          BY <3>2, <4>4, <5>1, <5>2 DEF TrunkInv, EveryTipGreen
      <4>5. QED
        BY <4>3, <4>4
    <3>3. QED
      BY <1>2, <2>1, <3>1, <3>2, PrefixOfAppended DEF TrunkInv, TypeOK, TrunkType
  <2>2. QED
    BY <2>1 DEF AlwaysGreen
<1>3. QED
  BY <1>1, <1>2, TrunkSteps

\* What a runner judges, it has read in its lane.
LEMMA NextJudged ==
    ASSUME TypeOK, JudgedAreQueued, [Next]_vars
    PROVE  JudgedAreQueued'
<1>1. CASE UNCHANGED vars
  BY <1>1 DEF vars, JudgedAreQueued
<1>2. CASE (\E l \in Lane, p \in PR : Enqueue(l, p)) \/ (\E h \in Hotfix : PushHotfix(h))
  BY <1>2 DEF Enqueue, PushHotfix, local, JudgedAreQueued
<1>3. ASSUME NEW r \in Runner, Run(r) \/ AdvanceUnheard(r) \/ Crash(r)
      PROVE  JudgedAreQueued'
  <2> USE DEF JudgedAreQueued
  <2>1. /\ pc \in [Runner -> Phase] /\ work \in [Runner -> WorkType]
        /\ snap \in [Runner -> LaneType]
    BY DEF TypeOK
  <2>2. CASE Finish(r)
    <3>1. /\ pc'[r] = "idle"
          /\ \A q \in Runner \ {r} :
                pc'[q] = pc[q] /\ snap'[q] = snap[q] /\ work'[q] = work[q]
      BY <2>1, <2>2 DEF Finish, Goto
    <3>2. QED
      BY <3>1
  <2>3. CASE Start(r) \/ RecoverRead(r) \/ RecoverReadTrunk(r) \/ Complete(r)
    BY <2>1, <2>3 DEF Start, RecoverRead, RecoverReadTrunk, Complete, Goto, local
  <2>4. CASE TickRead(r) \/ TickReadTrunk(r) \/ BarrierOk(r)
    BY <2>1, <2>2, <2>4 DEF TickRead, TickReadTrunk, BarrierOk, Goto, local
  <2>5. CASE Form(r)
    <3>1. Batch(r) \subseteq Queued(snap[r])
      BY DEF Batch, Built, Asked, FirstN, Pending, Queued
    <3>2. /\ snap' = snap /\ work'[r].prs = Batch(r)
          /\ \A q \in Runner \ {r} : work'[q] = work[q] /\ pc'[q] = pc[q]
      BY <2>1, <2>5 DEF Form, Goto
    <3>3. QED
      BY <3>1, <3>2
  <2>6. CASE VerdictGreen(r) \/ VerdictNotGreen(r) \/ ShrinkWindow(r)
    <3>1. /\ snap' = snap /\ \A q \in Runner : work'[q].prs = work[q].prs
          /\ pc[r] \in {"verdict", "aged"}
          /\ \A q \in Runner \ {r} : pc'[q] = pc[q]
      BY <2>1, <2>6 DEF VerdictGreen, VerdictNotGreen, ShrinkWindow, Goto, local, WorkType
    <3>2. QED
      BY <3>1
  <2>7. CASE GuardRefuses(r) \/ Advance(r) \/ Confirm(r) \/ Record(r)
    BY <2>1, <2>7 DEF GuardRefuses, Advance, Confirm, Record, Goto, local
  <2>8. CASE \/ BarrierRed(r) \/ EjectHead(r) \/ HoldBatch(r) \/ Isolate(r)
              \/ TuneGuarded(r) \/ AdvanceRejected(r) \/ Unconfirmed(r) \/ GrowWindow(r)
              \/ AdvanceUnheard(r) \/ Crash(r)
    BY <2>2, <2>8 DEF BarrierRed, EjectHead, HoldBatch, Isolate, EjectCulprit,
       HoldCandidate, EjectIncompatible, HoldUnisolated, TuneGuarded,
       AdvanceRejected, Unconfirmed, GrowWindow, AdvanceUnheard, Crash
  <2>9. QED
    BY <1>3, <2>3, <2>4, <2>5, <2>6, <2>7, <2>8 DEF Run, Recover, Speculate, RecordLand
<1>4. QED
  BY <1>2, <1>3, <1>1 DEF Next

\* Every step keeps the blame invariant.
LEMMA NextBlame ==
    ASSUME HotfixesBreakNothing, BlameInv, [Next]_vars
    PROVE  BlameInv'
<1>1. TrunkInv' /\ Lines' /\ AlwaysGreen' /\ JudgedAreQueued'
  BY NextTrunk, NextLines, GreenForGood, NextJudged DEF BlameInv, TrunkInv
<1>2. ASSUME NEW e, Justified(e) PROVE Justified(e)'
  BY <1>2, TrunkSteps, JustifiedForGood DEF BlameInv, TrunkInv
<1>3. CASE \A r \in Runner : ~Blames(r)
  BY <1>1, <1>2, <1>3, OnlyBlamesEject DEF BlameInv, TrunkInv
<1>4. ASSUME NEW r \in Runner, Blames(r) PROVE BlameInv'
  <2>1. PICK e \in Ejection :
            Justified(e) /\ Log(r, Ejected(Here(r), e.pr, e.why, e.kept))
    BY <1>4, BlameIsJustified
  <2>2. /\ Here(r) \in LaneType /\ LaneOf[r] \in Lane /\ lane \in [Lane -> LaneType]
    BY RunnerTypes DEF BlameInv, TrunkInv, TypeOK
  <2>3. Ejected(Here(r), e.pr, e.why, e.kept).ejected = Here(r).ejected \cup {e}
    BY <2>2 DEF Ejected, LaneType, Ejection
  <2>4. \A l \in Lane : lane'[l].ejected \subseteq lane[l].ejected \cup {e}
    BY <2>1, <2>2, <2>3 DEF Log, Here
  <2>5. QED
    BY <1>1, <1>2, <2>1, <2>4 DEF BlameInv
<1>5. QED
  BY <1>3, <1>4

\* Initially nobody has been blamed, and trunk is empty.
LEMMA InitBlame ==
    ASSUME HotfixesBreakNothing, Init
    PROVE  BlameInv
<1>1. TrunkInv
  BY InitTrunk
<1>2. Lines
  BY EmptyLine, MergeQueueAssumption DEF Init, Lines
<1>3. AlwaysGreen
  <2>1. ASSUME NEW t \in TrunkType, IsPrefix(t, trunk) PROVE Tree(t) \notin Red
    <3>1. Len(t) \in 0 .. Len(trunk) /\ trunk = <<>> /\ t \in Seq(LandType)
      BY <1>1, <2>1, PrefixIsSubSeq DEF Init, TrunkInv, TypeOK, TrunkType
    <3>2. t = <<>>
      BY <3>1
    <3>3. Tree(t) = {}
      BY <3>2 DEF Tree
    <3>4. QED
      BY <3>3 DEF HotfixesBreakNothing
  <2>2. QED
    BY <2>1 DEF AlwaysGreen
<1>4. JudgedAreQueued
  BY DEF Init, JudgedAreQueued
<1>5. \A l \in Lane : lane[l].ejected = {}
  BY DEF Init, EmptyLane
<1>6. QED
  BY <1>1, <1>2, <1>3, <1>4, <1>5 DEF BlameInv

\* However many lanes and runners share trunk, and whatever is killed or lost
\* between a verdict and its ejection: whoever is ejected is to blame, as long as
\* the commits that bypass the queue do not break trunk under it.
THEOREM EjectedAreToBlame ==
    HotfixesBreakNothing => (Behaviour => []EjectionsJustified)
<1>1. BlameInv => EjectionsJustified
  BY DEF BlameInv, Justified, EjectionsJustified
<1> HIDE DEF BlameInv
<1>2. SUFFICES ASSUME HotfixesBreakNothing PROVE Behaviour => []EjectionsJustified
  OBVIOUS
<1>3. Init => BlameInv
  BY <1>2, InitBlame
<1>4. BlameInv /\ [Next]_vars => BlameInv'
  BY <1>2, NextBlame
<1>5. QED
  BY <1>1, <1>3, <1>4, PTL DEF Behaviour

-----------------------------------------------------------------------------
(* One tick job at a time *)

\* What the concurrency group of the tick workflow is there for: one job at a
\* time, which recovers before it ticks, on a trunk nobody else pushes to.
Solo(r) == Runner = {r} /\ Hotfix = {} /\ RecoverFirst
Alone == \E r \in Runner : Solo(r)

\* Whoever is ahead of the PRs ps is done, held, or one of them.
AheadOf(s, ps) ==
    \A q \in ps, p \in PR :
        0 < s.rank[p] /\ s.rank[p] < s.rank[q] => p \in s.done \cup s.held \cup ps

RejectedBy(s) == {e.pr : e \in s.ejected} \cup s.held

\* A fold gives each PR one fate, and lands in order.
Orderly(s) ==
    /\ s.landed \cup {e.pr : e \in s.ejected} \subseteq s.done
    /\ s.landed \cap RejectedBy(s) = {}
    /\ s.landed \subseteq Queued(s)
    /\ AheadOf(s, s.landed)

\* ps may land: it is pending, overtakes nobody, and is no larger than a batch.
MayLand(s, ps) == /\ ps \subseteq Pending(s)
                  /\ AheadOf(s, ps)
                  /\ Cardinality(ps) <= Budget

\* What landed behind the last barrier, up to the n-th land.
Behind(n) == UNION {trunk[i].prs : i \in checked + 1 .. n}

\* The books of the lane agree with trunk,
AllRecorded(r) == /\ OnTrunk \subseteq Here(r).landed
                  /\ Cardinality(Behind(Len(trunk))) <= Here(r).atRisk

\* or trunk is one land ahead, which an intent still names.
LastUnrecorded(r) ==
    /\ checked < Len(trunk)
    /\ \A i \in 1 .. Len(trunk) - 1 : trunk[i].prs \subseteq Here(r).landed
    /\ MayLand(Here(r), trunk[Len(trunk)].prs)
    /\ \E i \in Here(r).prepared : i.spec = trunk
    /\ Here(r).atRisk < NBarrier
    /\ Cardinality(Behind(Len(trunk) - 1)) <= Here(r).atRisk

\* An intent names the tip that its own land is on top of.
NamesTip(r, i) ==
    /\ i.spec # <<>>
    /\ i.spec[Len(i.spec)] = [lane |-> LaneOf[r], no |-> i.no, prs |-> i.prs]

\* Of the intents in the books, only one for trunk's tip was ever advanced.
IntentsOpen(r) ==
    \A i \in Here(r).prepared :
        NamesTip(r, i) /\ (IsPrefix(i.spec, trunk) => i.spec = trunk)

Books(r) ==
    /\ \A i \in DOMAIN trunk : trunk[i].lane = LaneOf[r]
    /\ \A l \in Lane \ {LaneOf[r]} : lane[l].landed = {} /\ RejectedBy(lane[l]) = {}
    /\ Orderly(Here(r))
    /\ IntentsOpen(r)
    /\ AllRecorded(r) \/ LastUnrecorded(r)
    /\ Here(r).atRisk <= NBarrier - 1 + Budget
    /\ checked <= Len(trunk)

\* The books are closed: there is nothing left to recover.
Closed(r) == /\ AllRecorded(r)
             /\ \A i \in Here(r).prepared : ~IsPrefix(i.spec, trunk)

\* The phases in which the job works on trunk's tip, and with its batch.
OnTip == {"complete", "barrier", "form", "verdict", "aged", "tuned", "land"}
WithBatch == {"verdict", "aged", "tuned", "land"}

\* What the job knows at each of its steps.
Knows(r) ==
    /\ pc[r] \notin {"idle", "recover", "recoverTrunk", "complete", "confirm", "record"}
            => Closed(r)
    /\ pc[r] \in OnTip => base[r] = trunk
    /\ pc[r] \in {"recoverTrunk", "complete"} => snap[r].prepared = Here(r).prepared
    /\ pc[r] \in {"readTrunk", "barrier", "form"} => Follows(snap[r], Here(r))
    /\ pc[r] = "readTrunk" => snap[r].atRisk = Here(r).atRisk
    /\ pc[r] \in WithBatch \cup {"form"} => Here(r).atRisk < NBarrier
    /\ pc[r] \in WithBatch => MayLand(Here(r), work[r].prs)
    /\ pc[r] = "land" => \E i \in Here(r).prepared : i.spec = Spec(r)
    /\ pc[r] \in {"confirm", "record"} => trunk = Spec(r)

SoloInv(r) ==
    /\ TrunkInv
    /\ Lines
    /\ LandedOnce
    /\ Books(r)
    /\ Knows(r)

\* No more than n are the first n.
LEMMA FirstNCount ==
    ASSUME NEW s \in LaneType, NEW ps \in SUBSET PR, NEW n \in Nat
    PROVE  Cardinality(FirstN(s, ps, n)) <= n
<1> DEFINE F == FirstN(s, ps, n)
<1>1. F \subseteq ps /\ IsFiniteSet(F) /\ IsFiniteSet(ps)
  BY MergeQueueAssumption, FS_Subset DEF FirstN
<1>2. CASE F = {}
  BY <1>2, FS_EmptySet
<1>3. CASE F # {}
  <2>1. s.rank \in [PR -> Nat]
    BY DEF LaneType
  <2>2. PICK q \in F : \A p \in F : s.rank[p] <= s.rank[q]
    <3> DEFINE f == s.rank
    <3>1. \A p \in F : f[p] \in Nat
      BY <1>1, <2>1
    <3> HIDE DEF f, F
    <3>2. \E q \in F : \A p \in F : f[p] <= f[q]
      BY <1>1, <1>3, <3>1, LargestExists
    <3>3. QED
      BY <3>2 DEF f
  <2>3. F \subseteq UpTo(s, ps, q) /\ UpTo(s, ps, q) \subseteq ps
    BY <1>1, <2>2 DEF UpTo
  <2>4. IsFiniteSet(UpTo(s, ps, q)) /\ Cardinality(UpTo(s, ps, q)) <= n
    BY <1>1, <2>2, <2>3, FS_Subset DEF FirstN
  <2>5. Cardinality(F) <= Cardinality(UpTo(s, ps, q))
    BY <2>3, <2>4, FS_Subset
  <2>6. Cardinality(F) \in Nat /\ Cardinality(UpTo(s, ps, q)) \in Nat
    BY <1>1, <2>4, FS_CardinalityType
  <2>7. QED
    BY <2>4, <2>5, <2>6
<1>4. QED
  BY <1>2, <1>3

\* A tick asks for no more than a batch.
LEMMA TargetInBudget ==
    ASSUME NEW s \in LaneType
    PROVE  Target(s) \in 1 .. Budget
<1>1. s.m \in 1 .. Budget /\ Budget \in Nat \ {0}
  BY MergeQueueAssumption DEF LaneType
<1>2. QED
  BY <1>1 DEF Target

\* What a tick builds a spec of is pending, and nobody pending is ahead of it
\* and left out: the queue is cut, not thinned.
LEMMA BatchIsHead ==
    ASSUME TypeOK, NEW r \in Runner
    PROVE  MayLand(snap[r], Batch(r))
<1> DEFINE s == snap[r]
           ps == Pending(s)
           A == Asked(r)
           T == Tree(base[r])
<1>1. /\ s \in LaneType /\ ps \in SUBSET PR /\ s.rank \in [PR -> Nat]
      /\ Target(s) \in 1 .. Budget /\ Target(s) \in Nat
  BY RunnerTypes, TargetInBudget DEF Pending, LaneType
<1>2. /\ A = FirstN(s, ps, Target(s)) /\ A \subseteq ps
      /\ Batch(r) = Built(s, T, A) /\ Batch(r) \subseteq A
  BY DEF Asked, Batch, FirstN, Built
<1> HIDE DEF s, A, T, ps
<1>3. ASSUME NEW p \in ps, NEW q \in A, s.rank[p] < s.rank[q] PROVE p \in A
  <2>1. q \in ps /\ {s.rank[p], s.rank[q]} \subseteq Nat
    BY <1>1, <1>2
  <2>2. UpTo(s, ps, p) \subseteq UpTo(s, ps, q) /\ UpTo(s, ps, q) \subseteq PR
    <3>1. ASSUME NEW x \in UpTo(s, ps, p) PROVE x \in UpTo(s, ps, q)
      <4>1. x \in ps /\ s.rank[x] <= s.rank[p] /\ s.rank[x] \in Nat
        BY <1>1 DEF UpTo
      <4>2. QED
        BY <1>3, <2>1, <4>1 DEF UpTo
    <3>2. QED
      BY <1>1, <3>1 DEF UpTo
  <2>3. IsFiniteSet(UpTo(s, ps, q)) /\ IsFiniteSet(UpTo(s, ps, p))
    BY <2>2, MergeQueueAssumption, FS_Subset
  <2>4. /\ Cardinality(UpTo(s, ps, p)) <= Cardinality(UpTo(s, ps, q))
        /\ Cardinality(UpTo(s, ps, p)) \in Nat /\ Cardinality(UpTo(s, ps, q)) \in Nat
    BY <2>2, <2>3, FS_Subset, FS_CardinalityType
  <2>5. Cardinality(UpTo(s, ps, q)) <= Target(s)
    BY <1>2 DEF FirstN
  <2>6. QED
    BY <1>1, <1>2, <2>4, <2>5 DEF FirstN
<1>4. ASSUME NEW p \in A, NEW q \in Batch(r), s.rank[p] < s.rank[q]
      PROVE  p \in Batch(r)
  <2>1. q \in A /\ {s.rank[p], s.rank[q]} \subseteq Nat
    BY <1>1, <1>2
  <2>2. \A x \in UpTo(s, A, p) : x \in UpTo(s, A, q)
    <3>1. ASSUME NEW x \in UpTo(s, A, p) PROVE x \in UpTo(s, A, q)
      <4>1. x \in A /\ s.rank[x] <= s.rank[p] /\ s.rank[x] \in Nat
        BY <1>1, <1>2 DEF UpTo
      <4>2. QED
        BY <1>4, <2>1, <4>1 DEF UpTo
    <3>2. QED
      BY <3>1
  <2>3. QED
    BY <1>2, <2>2 DEF Built
<1>5. AheadOf(s, Batch(r))
  <2>1. ASSUME NEW q \in Batch(r), NEW p \in PR,
               0 < s.rank[p], s.rank[p] < s.rank[q]
        PROVE  p \in s.done \cup s.held \cup Batch(r)
    <3>1. CASE p \in s.done \cup s.held
      BY <3>1
    <3>2. CASE p \notin s.done \cup s.held
      <4>1. p \in ps
        BY <1>1, <2>1, <3>2 DEF ps, Pending
      <4>2. QED
        BY <1>2, <1>3, <1>4, <2>1, <4>1
    <3>3. QED
      BY <3>1, <3>2
  <2>2. QED
    BY <2>1 DEF AheadOf
<1>6. Cardinality(Batch(r)) <= Budget
  <2>1. IsFiniteSet(A) /\ IsFiniteSet(Batch(r))
    BY <1>1, <1>2, MergeQueueAssumption, FS_Subset
  <2>2. Cardinality(Batch(r)) <= Cardinality(A) /\ Cardinality(A) <= Target(s)
    BY <1>1, <1>2, <2>1, FS_Subset, FirstNCount
  <2>3. {Cardinality(Batch(r)), Cardinality(A), Budget} \subseteq Nat
    BY <2>1, FS_CardinalityType, MergeQueueAssumption
  <2>4. QED
    BY <1>1, <2>2, <2>3
<1>7. QED
  BY <1>2, <1>5, <1>6 DEF MayLand, s, ps
\* What may land may land, when more PRs are enqueued behind it.
LEMMA FollowsKeeps ==
    ASSUME NEW s \in LaneType, NEW t \in LaneType, Follows(s, t)
    PROVE  /\ Queued(s) \subseteq Queued(t)
           /\ Pending(s) \subseteq Pending(t)
           /\ \A ps \in SUBSET Queued(s) : AheadOf(s, ps) => AheadOf(t, ps)
           /\ \A ps : MayLand(s, ps) => MayLand(t, ps)
<1>1. s.rank \in [PR -> Nat] /\ t.rank \in [PR -> Nat]
  BY DEF LaneType
<1>2. Queued(s) \subseteq Queued(t)
  BY <1>1 DEF Follows, Queued
<1>3. Pending(s) \subseteq Pending(t) /\ Pending(s) \subseteq Queued(s)
  BY <1>2 DEF Follows, Pending, Queued
<1>4. ASSUME NEW ps \in SUBSET Queued(s), AheadOf(s, ps) PROVE AheadOf(t, ps)
  <2>1. ASSUME NEW q \in ps, NEW p \in PR, 0 < t.rank[p], t.rank[p] < t.rank[q]
        PROVE  p \in t.done \cup t.held \cup ps
    <3>1. q \in PR /\ s.rank[q] = t.rank[q]
      BY DEF Follows, Queued
    <3>2. CASE p \in Queued(s)
      BY <1>4, <2>1, <3>1, <3>2 DEF AheadOf, Follows
    <3>3. CASE p \notin Queued(s)
      <4>1. p \in Queued(t)
        BY <1>1, <2>1 DEF Queued
      <4>2. s.rank[q] < t.rank[p]
        BY <3>1, <3>3, <4>1 DEF Follows
      <4>3. QED
        BY <1>1, <2>1, <3>1, <4>2
    <3>4. QED
      BY <3>2, <3>3
  <2>2. QED
    BY <2>1 DEF AheadOf
<1>5. QED
  BY <1>2, <1>3, <1>4 DEF MayLand

LEMMA FollowsTransitive ==
    ASSUME NEW s \in LaneType, NEW t \in LaneType, NEW u \in LaneType,
           Follows(s, t), Follows(t, u)
    PROVE  Follows(s, u)
<1>1. s.rank \in [PR -> Nat] /\ t.rank \in [PR -> Nat] /\ u.rank \in [PR -> Nat]
  BY DEF LaneType
<1>2. Queued(s) \subseteq Queued(t) /\ Queued(t) \subseteq Queued(u)
  BY FollowsKeeps
<1>3. \A q \in PR : s.rank[q] <= t.rank[q]
  BY <1>1 DEF Follows, Queued
<1>4. ASSUME NEW p \in Queued(u) \ Queued(s), NEW q \in PR
      PROVE  s.rank[q] < u.rank[p]
  <2>1. p \in PR
    BY DEF Queued
  <2>2. CASE p \in Queued(t)
    <3>1. s.rank[q] < t.rank[p] /\ t.rank[p] = u.rank[p]
      BY <2>2 DEF Follows
    <3>2. QED
      BY <3>1
  <2>3. CASE p \notin Queued(t)
    <3>1. t.rank[q] < u.rank[p]
      BY <2>3 DEF Follows
    <3>2. QED
      BY <1>1, <1>3, <2>1, <3>1
  <2>4. QED
    BY <2>2, <2>3
<1>5. \A p \in Queued(s) : u.rank[p] = s.rank[p]
  BY <1>2 DEF Follows
<1>6. QED
  BY <1>4, <1>5 DEF Follows

\* A lane whose books are the same follows itself.
LEMMA SameBooksFollow ==
    ASSUME NEW s, NEW t, SameBooks(s, t)
    PROVE  Follows(s, t)
BY DEF SameBooks, Follows, Queued

\* The books of s are still true of t: at most somebody was enqueued.
BooksStand(s, t) ==
    /\ Follows(s, t)
    /\ t.landed = s.landed /\ t.ejected = s.ejected
    /\ t.prepared = s.prepared /\ t.atRisk = s.atRisk

\* A step that neither lands, ejects, holds, prepares nor checks anything.
Quiet == /\ trunk' = trunk
         /\ checked' = checked
         /\ \A l \in Lane : BooksStand(lane[l], lane'[l])

\* It keeps the books, and what the job knows of its lane.
LEMMA QuietBooks ==
    ASSUME TypeOK, TypeOK', NEW r \in Runner, Books(r), Quiet
    PROVE  /\ Books(r)'
           /\ Closed(r) => Closed(r)'
           /\ AllRecorded(r) => AllRecorded(r)'
           /\ \A ps : MayLand(Here(r), ps) => MayLand(Here(r)', ps)
           /\ \A s \in LaneType : Follows(s, Here(r)) => Follows(s, Here(r)')
           /\ Here(r)'.prepared = Here(r).prepared
           /\ Here(r)'.atRisk = Here(r).atRisk
<1> DEFINE s == Here(r)
           t == Here(r)'
<1>1. s \in LaneType /\ t \in LaneType /\ LaneOf[r] \in Lane
  BY RunnerTypes, MergeQueueAssumption DEF TypeOK, Here
<1>2. BooksStand(s, t)
  BY <1>1 DEF Quiet, Here
<1>3. trunk' = trunk /\ checked' = checked
  BY DEF Quiet
<1>4. \A ps : MayLand(s, ps) => MayLand(t, ps)
  BY <1>1, <1>2, FollowsKeeps DEF BooksStand
<1>5. \A u \in LaneType : Follows(u, s) => Follows(u, t)
  BY <1>1, <1>2, FollowsTransitive DEF BooksStand
<1>6. \A n : Behind(n)' = Behind(n)
  BY <1>3 DEF Behind
<1>7. AllRecorded(r) => AllRecorded(r)'
  BY <1>2, <1>3, <1>6 DEF AllRecorded, BooksStand, OnTrunk
<1>8. Closed(r) => Closed(r)'
  BY <1>2, <1>3, <1>7 DEF Closed, BooksStand
<1>9. LastUnrecorded(r) => LastUnrecorded(r)'
  BY <1>2, <1>3, <1>4, <1>6 DEF LastUnrecorded, BooksStand
<1>10. Orderly(t)
  <2>1. Orderly(s) /\ t.done = s.done /\ t.held = s.held
    BY <1>2 DEF Books, BooksStand, Follows
  <2>2. Queued(s) \subseteq Queued(t) /\ AheadOf(t, t.landed)
    BY <1>1, <1>2, <2>1, FollowsKeeps DEF BooksStand, Orderly
  <2>3. QED
    BY <1>2, <2>1, <2>2 DEF Orderly, BooksStand, RejectedBy
<1>11. \A l \in Lane \ {LaneOf[r]} :
          lane'[l].landed = {} /\ RejectedBy(lane'[l]) = {}
  BY DEF Books, Quiet, BooksStand, Follows, RejectedBy
<1>12. IntentsOpen(r)'
  BY <1>2, <1>3 DEF Books, IntentsOpen, NamesTip, BooksStand
<1>13. Books(r)'
  BY <1>2, <1>3, <1>7, <1>9, <1>10, <1>11, <1>12 DEF Books, BooksStand
<1>14. QED
  BY <1>2, <1>4, <1>5, <1>7, <1>8, <1>13 DEF BooksStand

\* Nothing else changes in a lane when r logs an event that keeps its books.
LEMMA QuietLog ==
    ASSUME TypeOK, NEW r \in Runner, trunk' = trunk, checked' = checked,
           lane' = lane \/ \E t : Log(r, t) /\ SameBooks(Here(r), t)
    PROVE  Quiet
<1>1. LaneOf[r] \in Lane /\ lane \in [Lane -> LaneType]
  BY MergeQueueAssumption DEF TypeOK
<1>2. \A l \in Lane : SameBooks(lane[l], lane'[l])
  BY <1>1 DEF Log, Here, SameBooks
<1>3. QED
  BY <1>2, SameBooksFollow DEF Quiet, BooksStand, SameBooks

\* An enqueue is quiet.
LEMMA QuietEnqueue ==
    ASSUME TypeOK, Lines, NEW l \in Lane, NEW p \in PR, Enqueue(l, p)
    PROVE  Quiet
<1>1. lane \in [Lane -> LaneType] /\ \A k \in Lane : BooksStand(lane[k], lane[k])
  BY DEF TypeOK, BooksStand, Follows
<1>2. BooksStand(lane[l], Enqueued(lane[l], p))
  BY <1>1, EnqueuedLast DEF Lines, BooksStand
<1>3. QED
  BY <1>1, <1>2 DEF Enqueue, Quiet, aux

\* The lane with more behind the last barrier, and the count of a union.
LEMMA BehindGrows ==
    ASSUME trunk \in TrunkType, checked \in Nat, Hotfix = {},
           NEW n \in 0 .. Len(trunk)
    PROVE  /\ Behind(n) \in SUBSET PR
           /\ n \in 1 .. Len(trunk) /\ checked < n
                 => Behind(n) = Behind(n - 1) \cup trunk[n].prs
           /\ Cardinality(Behind(n)) \in Nat
<1>1. \A i \in 1 .. Len(trunk) : trunk[i].prs \in SUBSET PR
  <2>1. ASSUME NEW i \in 1 .. Len(trunk) PROVE trunk[i].prs \in SUBSET PR
    <3>1. trunk[i] \in LandType
      BY DEF TrunkType
    <3>2. QED
      BY <3>1 DEF LandType, Change
  <2>2. QED
    BY <2>1
<1>2. Len(trunk) \in Nat
  BY DEF TrunkType
<1>3. \A i \in checked + 1 .. n : i \in 1 .. Len(trunk)
  BY <1>2
<1>4. Behind(n) \in SUBSET PR
  BY <1>1, <1>3 DEF Behind
<1>5. ASSUME n \in 1 .. Len(trunk), checked < n
      PROVE  Behind(n) = Behind(n - 1) \cup trunk[n].prs
  <2>1. checked + 1 .. n = (checked + 1 .. n - 1) \cup {n}
    BY <1>5
  <2>2. QED
    BY <2>1 DEF Behind
<1>6. IsFiniteSet(Behind(n))
  BY <1>4, MergeQueueAssumption, FS_Subset
<1>7. QED
  BY <1>4, <1>5, <1>6, FS_CardinalityType

LEMMA CountOfUnion ==
    ASSUME NEW A \in SUBSET PR, NEW B \in SUBSET PR
    PROVE  /\ Cardinality(A \cup B) <= Cardinality(A) + Cardinality(B)
           /\ Cardinality(A) \in Nat /\ Cardinality(B) \in Nat
           /\ Cardinality(A \cup B) \in Nat
<1>1. IsFiniteSet(A) /\ IsFiniteSet(B) /\ IsFiniteSet(A \cup B) /\ IsFiniteSet(A \cap B)
  BY MergeQueueAssumption, FS_Subset
<1>2. Cardinality(A \cup B) = Cardinality(A) + Cardinality(B) - Cardinality(A \cap B)
  BY <1>1, FS_Union
<1>3. {Cardinality(A), Cardinality(B), Cardinality(A \cup B), Cardinality(A \cap B)} \subseteq Nat
  BY <1>1, FS_CardinalityType
<1>4. QED
  BY <1>2, <1>3
\* Rejecting PRs that are pending keeps the books closed.
LEMMA RejectBooks ==
    ASSUME TypeOK, TypeOK', NEW r \in Runner, Books(r), Closed(r),
           NEW t, Log(r, t), trunk' = trunk, checked' = checked,
           NEW R \in SUBSET Pending(Here(r)),
           \/ \E e : /\ SameBooks([Here(r) EXCEPT !.ejected = t.ejected,
                                                  !.done = t.done], t)
                     /\ t.ejected = Here(r).ejected \cup {e}
                     /\ t.done = Here(r).done \cup {e.pr}
                     /\ e.pr \in R
           \/ /\ SameBooks([Here(r) EXCEPT !.held = t.held], t)
              /\ t.held = Here(r).held \cup R
    PROVE  Books(r)' /\ Closed(r)'
<1> DEFINE s == Here(r)
<1>1. /\ s \in LaneType /\ LaneOf[r] \in Lane /\ lane \in [Lane -> LaneType]
      /\ lane' = [lane EXCEPT ![LaneOf[r]] = t] /\ Here(r)' = t
  BY RunnerTypes, MergeQueueAssumption DEF TypeOK, Here, Log
<1>2. /\ t.rank = s.rank /\ t.landed = s.landed /\ t.prepared = s.prepared
      /\ t.atRisk = s.atRisk
      /\ s.done \subseteq t.done /\ s.held \subseteq t.held
      /\ {e.pr : e \in t.ejected} \subseteq {e.pr : e \in s.ejected} \cup R
      /\ {e.pr : e \in t.ejected} \subseteq {e.pr : e \in s.ejected} \cup t.done
      /\ t.held \subseteq s.held \cup R
  <2>1. CASE \E e : /\ SameBooks([s EXCEPT !.ejected = t.ejected, !.done = t.done], t)
                    /\ t.ejected = s.ejected \cup {e}
                    /\ t.done = s.done \cup {e.pr}
                    /\ e.pr \in R
    BY <1>1, <2>1 DEF SameBooks, LaneType
  <2>2. CASE /\ SameBooks([s EXCEPT !.held = t.held], t)
             /\ t.held = s.held \cup R
    BY <1>1, <2>2 DEF SameBooks, LaneType
  <2>3. QED
    BY <2>1, <2>2
<1> HIDE DEF s
<1>3. Orderly(s) /\ R \cap s.done = {}
  BY DEF Books, Pending, s
<1>4. Orderly(t)
  <2>1. t.landed \cup {e.pr : e \in t.ejected} \subseteq t.done
    BY <1>2, <1>3 DEF Orderly
  <2>2. RejectedBy(t) \subseteq RejectedBy(s) \cup R
    BY <1>2 DEF RejectedBy
  <2>3. t.landed \cap RejectedBy(t) = {}
    BY <1>2, <1>3, <2>2 DEF Orderly
  <2>4. t.landed \subseteq Queued(t)
    BY <1>2, <1>3 DEF Orderly, Queued
  <2>5. AheadOf(t, t.landed)
    BY <1>2, <1>3 DEF Orderly, AheadOf
  <2>6. QED
    BY <2>1, <2>3, <2>4, <2>5 DEF Orderly
<1>5. \A l \in Lane \ {LaneOf[r]} : lane'[l] = lane[l]
  BY <1>1
<1>6. \A n : Behind(n)' = Behind(n)
  BY DEF Behind
<1>7. Closed(r)'
  BY <1>1, <1>2, <1>6 DEF Closed, AllRecorded, OnTrunk, s
<1>8. IntentsOpen(r)'
  BY <1>1, <1>2 DEF Books, IntentsOpen, NamesTip, s
<1>9. Books(r)'
  BY <1>1, <1>2, <1>4, <1>5, <1>7, <1>8 DEF Books, Closed, s
<1>10. QED
  BY <1>7, <1>9

\* Recording trunk's tip closes the books, whoever does it, and again.
LEMMA RecordBooks ==
    ASSUME TypeOK, TypeOK', Hotfix = {}, NEW r \in Runner, Books(r),
           trunk # <<>>, NEW prs, NEW no,
           trunk[Len(trunk)] = [lane |-> LaneOf[r], no |-> no, prs |-> prs],
           Log(r, BatchLanded(Here(r), prs, no)), trunk' = trunk, checked' = checked
    PROVE  Books(r)' /\ Closed(r)'
<1> DEFINE s == Here(r)
           t == BatchLanded(s, prs, no)
           n == Len(trunk)
           fresh == prs \ s.done
<1>1. /\ s \in LaneType /\ LaneOf[r] \in Lane /\ lane \in [Lane -> LaneType]
      /\ lane' = [lane EXCEPT ![LaneOf[r]] = t] /\ Here(r)' = t
  BY RunnerTypes, MergeQueueAssumption DEF TypeOK, Here, Log
<1>2. /\ t.rank = s.rank /\ t.ejected = s.ejected /\ t.held = s.held
      /\ t.done = s.done \cup fresh /\ t.landed = s.landed \cup fresh
      /\ t.atRisk = s.atRisk + Cardinality(fresh)
      /\ t.prepared = {j \in s.prepared : j.no # no}
  BY <1>1 DEF BatchLanded, LaneType
<1>3. n \in 1 .. Len(trunk) /\ n \in Nat /\ trunk \in Seq(LandType)
  BY DEF TypeOK, TrunkType
<1>4. trunk[n].prs = prs /\ prs \subseteq OnTrunk /\ prs \in SUBSET PR
  <2>1. trunk[n].prs = prs /\ trunk[n] \in LandType
    BY <1>3
  <2>2. prs \subseteq OnTrunk
    BY <1>3, <2>1 DEF OnTrunk, Tree
  <2>3. QED
    BY <2>1, <2>2 DEF LandType, Change
<1>5. s.atRisk \in Nat /\ checked \in Nat
  BY <1>1 DEF LaneType, TypeOK
<1>6. \A i \in 1 .. n : trunk[i].prs \subseteq s.landed \cup prs
  <2>1. CASE AllRecorded(r)
    BY <1>3, <2>1 DEF AllRecorded, OnTrunk, Tree
  <2>2. CASE LastUnrecorded(r)
    <3>1. \A i \in 1 .. n - 1 : trunk[i].prs \subseteq s.landed
      BY <2>2 DEF LastUnrecorded
    <3>2. QED
      BY <1>3, <1>4, <3>1
  <2>3. QED
    BY <2>1, <2>2 DEF Books
<1> HIDE DEF s, t
<1>7. \/ prs \subseteq s.landed /\ fresh = {} /\ AllRecorded(r)
      \/ fresh = prs /\ LastUnrecorded(r)
  <2>1. CASE AllRecorded(r)
    BY <1>4, <2>1 DEF AllRecorded, Books, Orderly, s
  <2>2. CASE LastUnrecorded(r)
    BY <1>4, <2>2 DEF LastUnrecorded, MayLand, Pending, s
  <2>3. QED
    BY <2>1, <2>2 DEF Books
<1>8. \A m : Behind(m)' = Behind(m)
  BY DEF Behind
<1>9. OnTrunk \subseteq t.landed
  <2>1. OnTrunk = UNION {trunk[i].prs : i \in 1 .. n}
    BY <1>3 DEF OnTrunk, Tree
  <2>2. prs \subseteq t.landed /\ s.landed \subseteq t.landed
    BY <1>2, <1>7
  <2>3. QED
    BY <1>6, <2>1, <2>2
<1>10. Cardinality(Behind(n)) <= t.atRisk /\ t.atRisk <= NBarrier - 1 + Budget
  <2> NBarrier \in Nat /\ Budget \in Nat
    BY MergeQueueAssumption
  <2>1. CASE fresh = {} /\ AllRecorded(r)
    <3>1. Cardinality(fresh) = 0
      BY <2>1, FS_EmptySet
    <3>2. t.atRisk = s.atRisk
      BY <1>2, <1>5, <3>1
    <3>3. QED
      BY <2>1, <3>2 DEF AllRecorded, Books, s
  <2>2. CASE fresh = prs /\ LastUnrecorded(r)
    <3>1. /\ checked < n /\ Cardinality(Behind(n - 1)) <= s.atRisk
          /\ s.atRisk < NBarrier /\ Cardinality(prs) <= Budget
      BY <1>4, <2>2 DEF LastUnrecorded, MayLand, s
    <3>2. Behind(n) = Behind(n - 1) \cup prs /\ Behind(n - 1) \in SUBSET PR
      BY <1>3, <1>4, <1>5, <3>1, BehindGrows DEF TypeOK
    <3>3. /\ Cardinality(Behind(n)) <= Cardinality(Behind(n - 1)) + Cardinality(prs)
          /\ {Cardinality(Behind(n)), Cardinality(Behind(n - 1)), Cardinality(prs)}
                 \subseteq Nat
      BY <1>4, <3>2, CountOfUnion
    <3>4. t.atRisk = s.atRisk + Cardinality(prs)
      BY <1>2, <2>2
    <3>5. QED
      BY <1>5, <3>1, <3>3, <3>4
  <2>3. QED
    BY <1>7, <2>1, <2>2
<1>11. Orderly(t)
  <2>1. Orderly(s)
    BY DEF Books, s
  <2>2. fresh \subseteq Pending(s) /\ AheadOf(s, s.landed \cup fresh)
    <3>1. CASE fresh = {}
      BY <2>1, <3>1 DEF Orderly
    <3>2. CASE fresh = prs /\ LastUnrecorded(r)
      <4>1. MayLand(s, fresh)
        BY <1>4, <3>2 DEF LastUnrecorded, s
      <4>2. QED
        BY <2>1, <4>1 DEF MayLand, Orderly, AheadOf
    <3>3. QED
      BY <1>7, <3>1, <3>2
  <2>3. fresh \subseteq Queued(s) /\ fresh \cap s.held = {}
    BY <2>2 DEF Pending, Queued
  <2>4. t.landed \cap RejectedBy(t) = {} /\ t.landed \subseteq Queued(t)
    BY <1>2, <2>1, <2>3 DEF Orderly, RejectedBy, Queued
  <2>5. AheadOf(t, t.landed)
    BY <1>2, <2>2 DEF AheadOf
  <2>6. QED
    BY <1>2, <2>1, <2>4, <2>5 DEF Orderly
<1>12. ASSUME NEW i \in t.prepared PROVE NamesTip(r, i) /\ ~IsPrefix(i.spec, trunk)
  <2>1. i \in s.prepared /\ i.no # no
    BY <1>2
  <2>2. NamesTip(r, i) /\ (IsPrefix(i.spec, trunk) => i.spec = trunk)
    BY <2>1 DEF Books, IntentsOpen, s
  <2>3. ASSUME i.spec = trunk PROVE FALSE
    BY <2>1, <2>2, <2>3 DEF NamesTip
  <2>4. QED
    BY <2>2, <2>3
<1>13. Closed(r)' /\ IntentsOpen(r)'
  BY <1>1, <1>8, <1>9, <1>10, <1>12
     DEF Closed, AllRecorded, IntentsOpen, NamesTip, OnTrunk
<1>14. \A l \in Lane \ {LaneOf[r]} : lane'[l] = lane[l]
  BY <1>1
<1>15. Books(r)'
  BY <1>1, <1>10, <1>11, <1>13, <1>14 DEF Books, Closed
<1>16. QED
  BY <1>13, <1>15
\* The end of a job leaves nothing to know, and the end of the job's first
\* operations neither.
LEMMA NothingKnown ==
    ASSUME NEW r \in Runner, pc'[r] \in {"idle", "recover"}
    PROVE  Knows(r)'
BY DEF Knows, OnTip, WithBatch

\* What a step leaves to be shown, the rest being shown for all lanes.
SoloStep(r) == Books(r)' /\ Knows(r)'

\* The local state of r after a step that moves it on, or ends its job.
LEMMA LocalState ==
    ASSUME TypeOK, NEW r \in Runner
    PROVE  /\ \A phase : Goto(r, phase) => pc'[r] = phase
           /\ Finish(r) => pc'[r] = "idle"
           /\ \A s : Log(r, s) => Here(r)' = s
BY RunnerTypes DEF TypeOK, Goto, Finish, Log, Here

\* Enqueues are quiet, and change nothing the job knows.
LEMMA SoloEnqueue ==
    ASSUME NEW r \in Runner, SoloInv(r), TypeOK',
           NEW l \in Lane, NEW p \in PR, Enqueue(l, p)
    PROVE  SoloStep(r)
<1>1. TypeOK /\ Lines /\ Books(r) /\ Knows(r)
  BY DEF SoloInv, TrunkInv
<1>2. Quiet /\ pc' = pc /\ snap' = snap /\ base' = base /\ work' = work /\ trunk' = trunk
  BY <1>1, QuietEnqueue DEF Enqueue, local
<1>3. snap[r] \in LaneType
  BY <1>1, RunnerTypes
<1>4. /\ Books(r)'
      /\ Closed(r) => Closed(r)'
      /\ MayLand(Here(r), work[r].prs) => MayLand(Here(r)', work[r].prs)
      /\ Follows(snap[r], Here(r)) => Follows(snap[r], Here(r)')
      /\ Here(r)'.prepared = Here(r).prepared
      /\ Here(r)'.atRisk = Here(r).atRisk
  BY <1>1, <1>2, <1>3, QuietBooks
<1>5. Spec(r)' = Spec(r)
  BY <1>2 DEF Spec
<1>6. Knows(r)'
  BY <1>1, <1>2, <1>4, <1>5 DEF Knows
<1>7. QED
  BY <1>4, <1>6 DEF SoloStep

\* The recovery: it reads lane and trunk, and closes the books.
LEMMA SoloRecover ==
    ASSUME NEW r \in Runner, Solo(r), SoloInv(r), TypeOK', Start(r) \/ Recover(r)
    PROVE  SoloStep(r)
<1>1. TypeOK /\ Books(r) /\ Knows(r) /\ pc[r] \in Phase
  BY DEF SoloInv, TrunkInv, TypeOK
<1>2. /\ pc \in [Runner -> Phase] /\ snap \in [Runner -> LaneType]
      /\ base \in [Runner -> TrunkType]
  BY <1>1 DEF TypeOK
<1>3. ASSUME trunk' = trunk, checked' = checked, lane' = lane
      PROVE  Books(r)' /\ (Closed(r) => Closed(r)') /\ Here(r)' = Here(r)
  BY <1>1, <1>3, QuietLog, QuietBooks DEF Here
<1>4. CASE Start(r)
  <2>1. pc'[r] = "recover"
    BY <1>1, <1>4, LocalState DEF Start, Solo
  <2>2. QED
    BY <1>3, <1>4, <2>1, NothingKnown DEF Start, aux, SoloStep
<1>5. CASE RecoverRead(r)
  <2>1. pc'[r] = "recoverTrunk" /\ snap'[r] = Here(r)
    BY <1>1, <1>2, <1>5, LocalState DEF RecoverRead
  <2>2. QED
    BY <1>3, <1>5, <2>1 DEF RecoverRead, aux, SoloStep, Knows, OnTip, WithBatch
<1>6. CASE RecoverReadTrunk(r)
  <2>1. pc'[r] = "complete" /\ base'[r] = trunk /\ snap' = snap
    BY <1>1, <1>2, <1>6, LocalState DEF RecoverReadTrunk
  <2>2. snap[r].prepared = Here(r).prepared
    BY <1>1, <1>6 DEF RecoverReadTrunk, Knows
  <2>3. QED
    BY <1>3, <1>6, <2>1, <2>2
       DEF RecoverReadTrunk, aux, SoloStep, Knows, OnTip, WithBatch
<1>7. CASE Complete(r)
  <2>1. /\ pc'[r] = "readLane" /\ trunk' = trunk /\ checked' = checked
        /\ base[r] = trunk /\ snap[r].prepared = Here(r).prepared
    BY <1>1, <1>7, LocalState DEF Complete, aux, Knows, OnTip
  <2>2. Closed(r)' => Knows(r)'
    BY <2>1 DEF Knows, OnTip, WithBatch
  <2>3. ASSUME NEW i \in snap[r].prepared \ Abandoned(r),
               Log(r, BatchLanded(Here(r), i.prs, i.no))
        PROVE  SoloStep(r)
    <3>1. i \in Here(r).prepared /\ i.spec = trunk
      BY <2>1, <2>3 DEF Abandoned
    <3>2. /\ trunk # <<>>
          /\ trunk[Len(trunk)] = [lane |-> LaneOf[r], no |-> i.no, prs |-> i.prs]
      BY <1>1, <3>1 DEF Books, IntentsOpen, NamesTip
    <3>3. Books(r)' /\ Closed(r)'
      BY <1>1, <2>1, <2>3, <3>2, RecordBooks DEF Solo
    <3>4. QED
      BY <2>2, <3>3 DEF SoloStep
  <2>4. CASE snap[r].prepared \subseteq Abandoned(r) /\ UNCHANGED lane
    <3>1. \A i \in Here(r).prepared : i.spec # trunk
      BY <2>1, <2>4 DEF Abandoned
    <3>2. Closed(r)
      BY <1>1, <3>1 DEF Books, IntentsOpen, LastUnrecorded, Closed
    <3>3. QED
      BY <1>3, <2>1, <2>2, <2>4, <3>2 DEF SoloStep
  <2>5. QED
    BY <1>7, <2>3, <2>4 DEF Complete
<1>8. QED
  BY <1>4, <1>5, <1>6, <1>7 DEF Recover

\* Steps that end the job, or tune its window, without touching the books.
LEMMA SoloEnds ==
    ASSUME NEW r \in Runner, SoloInv(r), TypeOK',
           \/ BarrierRed(r) \/ TuneGuarded(r) \/ AdvanceRejected(r)
           \/ Unconfirmed(r) \/ GrowWindow(r) \/ Crash(r)
    PROVE  SoloStep(r)
<1>1. TypeOK /\ Books(r) /\ Here(r) \in LaneType
  BY RunnerTypes DEF SoloInv, TrunkInv
<1>2. /\ Finish(r) /\ trunk' = trunk /\ checked' = checked
      /\ lane' = lane \/ \E m : Log(r, WindowTuned(Here(r), m))
  BY DEF BarrierRed, TuneGuarded, AdvanceRejected, Unconfirmed, GrowWindow, Crash, aux
<1>3. Quiet
  BY <1>1, <1>2, QuietLog, EventFields
<1>4. Books(r)'
  BY <1>1, <1>3, QuietBooks
<1>5. QED
  BY <1>1, <1>2, <1>4, LocalState, NothingKnown DEF SoloStep

\* The reads of a tick, and its barrier.
LEMMA SoloReads ==
    ASSUME NEW r \in Runner, SoloInv(r), TypeOK',
           TickRead(r) \/ TickReadTrunk(r) \/ BarrierOk(r)
    PROVE  SoloStep(r)
<1>1. TypeOK /\ Books(r) /\ Knows(r) /\ Here(r) \in LaneType /\ snap[r] \in LaneType
  BY RunnerTypes DEF SoloInv, TrunkInv
<1>2. /\ pc \in [Runner -> Phase] /\ snap \in [Runner -> LaneType]
      /\ base \in [Runner -> TrunkType]
  BY <1>1 DEF TypeOK
<1>3. ASSUME trunk' = trunk, checked' = checked, lane' = lane
      PROVE  Books(r)' /\ (Closed(r) => Closed(r)') /\ Here(r)' = Here(r)
  BY <1>1, <1>3, QuietLog, QuietBooks DEF Here
<1>4. CASE TickRead(r)
  <2>1. trunk' = trunk /\ checked' = checked /\ lane' = lane /\ pc[r] = "readLane"
    BY <1>4 DEF TickRead, aux
  <2>2. Books(r)' /\ Closed(r)' /\ Here(r)' = Here(r)
    BY <1>1, <1>3, <2>1 DEF Knows
  <2>3. CASE Finish(r)
    BY <1>1, <2>2, <2>3, LocalState, NothingKnown DEF SoloStep
  <2>4. CASE ~Finish(r)
    <3>1. pc'[r] = "readTrunk" /\ snap'[r] = Here(r)
      BY <1>1, <1>2, <1>4, <2>4, LocalState DEF TickRead
    <3>2. Follows(Here(r), Here(r))
      BY DEF Follows
    <3>3. QED
      BY <2>2, <3>1, <3>2 DEF SoloStep, Knows, OnTip, WithBatch
  <2>5. QED
    BY <2>3, <2>4
<1>5. CASE TickReadTrunk(r)
  <2>1. /\ trunk' = trunk /\ checked' = checked /\ lane' = lane /\ snap' = snap
        /\ base'[r] = trunk /\ pc[r] = "readTrunk"
        /\ pc'[r] = IF BarrierDue(snap[r]) THEN "barrier" ELSE "form"
    BY <1>1, <1>2, <1>5, LocalState DEF TickReadTrunk, aux
  <2>2. Books(r)' /\ Closed(r)' /\ Here(r)' = Here(r)
    BY <1>1, <1>3, <2>1 DEF Knows
  <2>3. Follows(snap[r], Here(r)) /\ snap[r].atRisk = Here(r).atRisk
    BY <1>1, <2>1 DEF Knows
  <2>4. ~BarrierDue(snap[r]) => Here(r).atRisk < NBarrier
    <3>1. Here(r).atRisk \in Nat /\ NBarrier \in Nat
      BY <1>1, MergeQueueAssumption DEF LaneType
    <3>2. QED
      BY <2>3, <3>1 DEF BarrierDue
  <2>5. QED
    BY <2>1, <2>2, <2>3, <2>4 DEF SoloStep, Knows, OnTip, WithBatch
<1>6. CASE BarrierOk(r)
  <2> DEFINE t == BarrierPassed(Here(r))
  <2>1. /\ trunk' = trunk /\ base' = base /\ snap' = snap /\ base[r] = trunk
        /\ checked' = Len(trunk) /\ pc'[r] = "form" /\ Log(r, t) /\ Here(r)' = t
        /\ Closed(r) /\ Follows(snap[r], Here(r))
    BY <1>1, <1>6, LocalState DEF BarrierOk, local, Knows, OnTip
  <2>2. /\ t \in LaneType /\ t.rank = Here(r).rank /\ t.done = Here(r).done
        /\ t.landed = Here(r).landed /\ t.ejected = Here(r).ejected
        /\ t.held = Here(r).held /\ t.prepared = Here(r).prepared /\ t.atRisk = 0
    <3>1. t \in LaneType
      BY <1>1, BarrierPassedType
    <3>2. QED
      BY <1>1, <3>1 DEF BarrierPassed, LaneType
  <2> HIDE DEF t
  <2>3. Cardinality(Behind(Len(trunk)))' = 0
    <3>1. Len(trunk) \in Nat
      BY <1>1 DEF TypeOK, TrunkType
    <3>2. checked' + 1 .. Len(trunk') = {}
      BY <2>1, <3>1
    <3>3. Behind(Len(trunk))' = {}
      BY <3>2 DEF Behind
    <3>4. QED
      BY <3>3, FS_EmptySet
  <2>4. Closed(r)'
    BY <2>1, <2>2, <2>3 DEF Closed, AllRecorded, OnTrunk
  <2>5. Orderly(t)
    BY <1>1, <2>2 DEF Books, Orderly, AheadOf, RejectedBy, Queued
  <2>6. IntentsOpen(r)'
    BY <1>1, <2>1, <2>2 DEF Books, IntentsOpen, NamesTip
  <2>7. \A l \in Lane \ {LaneOf[r]} : lane'[l] = lane[l]
    BY <1>1, <2>1, RunnerTypes DEF Log, TypeOK
  <2>8. /\ t.atRisk <= NBarrier - 1 + Budget /\ t.atRisk < NBarrier
        /\ checked' <= Len(trunk')
    <3>1. NBarrier \in Nat \ {0} /\ Budget \in Nat /\ Len(trunk) \in Nat
      BY <1>1, MergeQueueAssumption DEF TypeOK, TrunkType
    <3>2. QED
      BY <2>1, <2>2, <3>1
  <2>9. Books(r)'
    BY <1>1, <2>1, <2>4, <2>5, <2>6, <2>7, <2>8 DEF Books, Closed
  <2>10. Follows(snap[r], t)
    BY <2>1, <2>2 DEF Follows, Queued
  <2>11. QED
    BY <2>1, <2>4, <2>8, <2>9, <2>10 DEF SoloStep, Knows, OnTip, WithBatch
<1>7. QED
  BY <1>4, <1>5, <1>6
\* A batch is formed, and judged, on the trunk it may land on.
LEMMA SoloJudges ==
    ASSUME NEW r \in Runner, SoloInv(r), TypeOK',
           Form(r) \/ VerdictNotGreen(r) \/ ShrinkWindow(r)
    PROVE  SoloStep(r)
<1>1. /\ TypeOK /\ Books(r) /\ Knows(r)
      /\ Here(r) \in LaneType /\ snap[r] \in LaneType
  BY RunnerTypes DEF SoloInv, TrunkInv
<1>2. work \in [Runner -> WorkType]
  BY <1>1 DEF TypeOK
<1>3. /\ trunk' = trunk /\ checked' = checked /\ base' = base
      /\ \E t : Log(r, t) /\ SameBooks(Here(r), t)
  <2>1. /\ SameBooks(Here(r), BatchFormed(Here(r)))
        /\ \A prs : SameBooks(Here(r), Aged(Here(r), prs))
        /\ \A m : SameBooks(Here(r), WindowTuned(Here(r), m))
    BY <1>1, EventFields
  <2>2. /\ trunk' = trunk /\ checked' = checked /\ base' = base
        /\ \/ Log(r, BatchFormed(Here(r)))
           \/ Log(r, Aged(Here(r), work[r].prs))
           \/ Log(r, WindowTuned(Here(r), Tuned(work[r].m \div 2)))
    BY DEF Form, VerdictNotGreen, ShrinkWindow, aux, local
  <2>3. QED
    BY <2>1, <2>2
<1>4. Quiet
  BY <1>1, <1>3, QuietLog
<1>5. /\ pc[r] \in {"form", "verdict", "aged"} /\ pc'[r] \in {"verdict", "aged", "tuned"}
      /\ MayLand(Here(r), work'[r].prs)
  <2>1. CASE Form(r)
    <3>1. /\ pc[r] = "form" /\ pc'[r] = "verdict" /\ work'[r].prs = Batch(r)
      BY <1>1, <1>2, <2>1, LocalState DEF Form
    <3>2. MayLand(snap[r], Batch(r)) /\ Follows(snap[r], Here(r))
      BY <1>1, <3>1, BatchIsHead DEF Knows
    <3>3. MayLand(Here(r), Batch(r))
      BY <1>1, <3>2, FollowsKeeps
    <3>4. QED
      BY <3>1, <3>3
  <2>2. CASE VerdictNotGreen(r) \/ ShrinkWindow(r)
    <3>1. /\ pc[r] \in {"verdict", "aged"} /\ pc'[r] \in {"aged", "tuned"}
          /\ work'[r].prs = work[r].prs
      BY <1>1, <1>2, <2>2, LocalState DEF VerdictNotGreen, ShrinkWindow, local, WorkType
    <3>2. MayLand(Here(r), work[r].prs)
      BY <1>1, <3>1 DEF Knows, WithBatch
    <3>3. QED
      BY <3>1, <3>2
  <2>3. QED
    BY <2>1, <2>2
<1>6. Closed(r) /\ base[r] = trunk /\ Here(r).atRisk < NBarrier
  BY <1>1, <1>5 DEF Knows, OnTip, WithBatch
<1>7. /\ Books(r)' /\ Closed(r)' /\ Here(r)'.atRisk = Here(r).atRisk
      /\ MayLand(Here(r)', work'[r].prs)
  BY <1>1, <1>4, <1>5, <1>6, QuietBooks
<1>8. Knows(r)'
  BY <1>3, <1>5, <1>6, <1>7 DEF Knows, OnTip, WithBatch
<1>9. QED
  BY <1>7, <1>8 DEF SoloStep

\* Only PRs that are pending are ejected or held.
LEMMA SoloRejects ==
    ASSUME NEW r \in Runner, SoloInv(r), TypeOK',
           EjectHead(r) \/ HoldBatch(r) \/ Isolate(r) \/ GuardRefuses(r)
    PROVE  SoloStep(r)
<1> DEFINE h == Here(r)
<1>1. /\ TypeOK /\ Books(r) /\ Knows(r)
      /\ h \in LaneType /\ snap[r] \in LaneType
  BY RunnerTypes DEF SoloInv, TrunkInv
<1>2. /\ pc[r] \in {"form", "tuned", "land"} /\ Closed(r)
      /\ trunk' = trunk /\ checked' = checked
  BY <1>1 DEF EjectHead, HoldBatch, Isolate, GuardRefuses, aux, Knows, Isolating,
              EjectCulprit, HoldCandidate, EjectIncompatible, HoldUnisolated
<1>3. pc'[r] = "idle" \/ pc'[r] = "guarded"
  BY <1>1, LocalState
     DEF EjectHead, HoldBatch, Isolate, GuardRefuses,
         EjectCulprit, HoldCandidate, EjectIncompatible, HoldUnisolated
<1>4. pc[r] \in {"tuned", "land"} => work[r].prs \subseteq Pending(h)
  BY <1>1 DEF Knows, WithBatch, MayLand
<1>5. ASSUME NEW p \in Pending(h), NEW why, NEW k, Log(r, Ejected(h, p, why, k))
      PROVE  Books(r)' /\ Closed(r)'
  <2> DEFINE t == Ejected(h, p, why, k)
             e == [pr |-> p, why |-> why, kept |-> k]
  <2>1. /\ SameBooks([h EXCEPT !.ejected = t.ejected, !.done = t.done], t)
        /\ t.ejected = h.ejected \cup {e}
        /\ t.done = h.done \cup {p}
    BY <1>1 DEF Ejected, LaneType, SameBooks
  <2>2. e.pr = p
    OBVIOUS
  <2> HIDE DEF t, e
  <2>3. {p} \in SUBSET Pending(h) /\ e.pr \in {p} /\ t.done = h.done \cup {e.pr}
    BY <2>1, <2>2
  <2>4. Log(r, t)
    BY <1>5 DEF t
  <2>5. QED
    BY <1>1, <1>2, <2>1, <2>3, <2>4, RejectBooks
<1>6. ASSUME NEW R \in SUBSET Pending(h), Log(r, Held(h, R))
      PROVE  Books(r)' /\ Closed(r)'
  <2> DEFINE t == Held(h, R)
  <2>1. SameBooks([h EXCEPT !.held = t.held], t) /\ t.held = h.held \cup R
    BY <1>1 DEF Held, LaneType, SameBooks
  <2> HIDE DEF t
  <2>2. QED
    BY <1>1, <1>2, <1>6, <2>1, RejectBooks DEF t
<1>7. Books(r)' /\ Closed(r)'
  <2>1. CASE EjectHead(r)
    <3>1. PICK p \in FirstN(snap[r], Asked(r), 1) :
              Log(r, Ejected(h, p, "merge conflict", NoPR))
      BY <2>1 DEF EjectHead
    <3>2. p \in Pending(snap[r])
      BY DEF FirstN, Asked
    <3>3. Follows(snap[r], h)
      BY <1>1, <2>1 DEF Knows, EjectHead
    <3>4. p \in Pending(h)
      BY <1>1, <3>2, <3>3, FollowsKeeps
    <3>5. QED
      BY <1>5, <3>1, <3>4
  <2>2. CASE HoldBatch(r) \/ HoldUnisolated(r) \/ GuardRefuses(r)
    <3>1. Log(r, Held(h, work[r].prs)) /\ pc[r] \in {"tuned", "land"}
      BY <2>2 DEF HoldBatch, HoldUnisolated, GuardRefuses, Isolating
    <3>2. QED
      BY <1>4, <1>6, <3>1
  <2>3. CASE EjectCulprit(r)
    <3>1. PICK p \in work[r].prs : Log(r, Ejected(h, p, "regression", NoPR))
      BY <2>3 DEF EjectCulprit
    <3>2. QED
      BY <1>4, <1>5, <2>3, <3>1 DEF EjectCulprit, Isolating
  <2>4. CASE HoldCandidate(r)
    <3>1. PICK p \in work[r].prs : Log(r, Held(h, {p}))
      BY <2>4 DEF HoldCandidate
    <3>2. QED
      BY <1>4, <1>6, <2>4, <3>1 DEF HoldCandidate, Isolating
  <2>5. CASE EjectIncompatible(r)
    <3>1. PICK p \in work[r].prs :
              \E k \in FirstN(snap[r], work[r].prs, 1) :
                  Log(r, Ejected(h, p, "incompatible", k))
      BY <2>5 DEF EjectIncompatible
    <3>2. PICK k : Log(r, Ejected(h, p, "incompatible", k))
      BY <3>1
    <3>3. QED
      BY <1>4, <1>5, <2>5, <3>2 DEF EjectIncompatible, Isolating
  <2>6. QED
    BY <2>1, <2>2, <2>3, <2>4, <2>5 DEF Isolate
<1>8. Knows(r)'
  BY <1>3, <1>7 DEF Knows, OnTip, WithBatch
<1>9. QED
  BY <1>7, <1>8 DEF SoloStep

\* The intent names a tip that trunk does not have yet.
LEMMA SoloPrepares ==
    ASSUME NEW r \in Runner, SoloInv(r), TypeOK', VerdictGreen(r)
    PROVE  SoloStep(r)
<1> DEFINE i == [no |-> work[r].no, prs |-> work[r].prs, spec |-> Spec(r)]
           s == Here(r)
           t == IntentPrepared(s, i)
<1>1. /\ TypeOK /\ Books(r) /\ Knows(r) /\ s \in LaneType
      /\ LaneOf[r] \in Lane /\ lane \in [Lane -> LaneType] /\ trunk \in Seq(LandType)
  BY RunnerTypes DEF SoloInv, TrunkInv, TypeOK, TrunkType
<1>2. /\ trunk' = trunk /\ checked' = checked /\ base' = base /\ work' = work
      /\ pc[r] = "verdict" /\ pc'[r] = "land"
      /\ lane' = [lane EXCEPT ![LaneOf[r]] = t] /\ Here(r)' = t
  BY <1>1, LocalState DEF VerdictGreen, local, aux, Log
<1>3. /\ Closed(r) /\ base[r] = trunk /\ s.atRisk < NBarrier
      /\ MayLand(s, work[r].prs)
  BY <1>1, <1>2 DEF Knows, OnTip, WithBatch
<1>4. /\ t.rank = s.rank /\ t.done = s.done /\ t.landed = s.landed
      /\ t.ejected = s.ejected /\ t.held = s.held /\ t.atRisk = s.atRisk
      /\ t.prepared = {j \in s.prepared : j.no # i.no} \cup {i}
  BY <1>1 DEF IntentPrepared, LaneType
<1>5. i.spec = Spec(r) /\ Spec(r)' = Spec(r)
  BY <1>2 DEF Spec
<1>6. NamesTip(r, i) /\ ~IsPrefix(i.spec, trunk)
  <2> DEFINE x == Land(LaneOf[r], work[r])
  <2>1. x \in LandType /\ i.spec = Append(trunk, x)
    BY <1>1, <1>3, SpecType DEF Spec
  <2>2. x = [lane |-> LaneOf[r], no |-> i.no, prs |-> i.prs]
    BY DEF Land
  <2> HIDE DEF x, i
  <2>3. /\ Len(i.spec) = Len(trunk) + 1 /\ i.spec[Len(trunk) + 1] = x
        /\ i.spec \in Seq(LandType) /\ Len(trunk) \in Nat
    BY <1>1, <2>1
  <2>4. i.spec # <<>>
    BY <2>3
  <2>5. ~IsPrefix(i.spec, trunk)
    <3>1. ASSUME IsPrefix(i.spec, trunk) PROVE FALSE
      <4>1. Len(i.spec) \in 0 .. Len(trunk)
        BY <1>1, <2>3, <3>1, PrefixIsSubSeq
      <4>2. QED
        BY <2>3, <4>1
    <3>2. QED
      BY <3>1
  <2>6. QED
    BY <2>2, <2>3, <2>4, <2>5 DEF NamesTip
<1> HIDE DEF t, i, s
<1>7. \A n : Behind(n)' = Behind(n)
  BY <1>2 DEF Behind
<1>8. \A j \in t.prepared : j = i \/ j \in s.prepared
  BY <1>4
<1>9. Closed(r)' /\ IntentsOpen(r)'
  <2>1. AllRecorded(r)'
    BY <1>2, <1>3, <1>4, <1>7 DEF Closed, AllRecorded, OnTrunk, s
  <2>2. ASSUME NEW j \in t.prepared PROVE NamesTip(r, j) /\ ~IsPrefix(j.spec, trunk)
    BY <1>1, <1>3, <1>6, <1>8 DEF Closed, Books, IntentsOpen, s
  <2>3. QED
    BY <1>2, <2>1, <2>2 DEF Closed, IntentsOpen, NamesTip
<1>10. Orderly(t) /\ MayLand(t, work[r].prs)
  BY <1>1, <1>3, <1>4
     DEF Books, Orderly, AheadOf, RejectedBy, Queued, MayLand, Pending, s
<1>11. \A l \in Lane \ {LaneOf[r]} : lane'[l] = lane[l]
  BY <1>1, <1>2
<1>12. Books(r)'
  BY <1>1, <1>2, <1>4, <1>9, <1>10, <1>11 DEF Books, Closed, s
<1>13. \E j \in t.prepared : j.spec = Spec(r)'
  BY <1>4, <1>5
<1>14. Knows(r)'
  BY <1>2, <1>3, <1>4, <1>9, <1>10, <1>13 DEF Knows, OnTip, WithBatch, s
<1>15. QED
  BY <1>12, <1>14 DEF SoloStep

\* The push leaves trunk one land ahead of the books.
LEMMA SoloAdvances ==
    ASSUME NEW r \in Runner, Solo(r), SoloInv(r), TypeOK', Advance(r) \/ AdvanceUnheard(r)
    PROVE  SoloStep(r) /\ LandedOnce'
<1> DEFINE x == Land(LaneOf[r], work[r])
           s == Here(r)
<1>0. TypeOK /\ Books(r) /\ Knows(r) /\ LandedOnce
  BY DEF SoloInv, TrunkInv
<1>1. /\ s \in LaneType /\ trunk \in Seq(LandType) /\ x \in LandType
      /\ x.lane = LaneOf[r] /\ x.prs = work[r].prs /\ checked \in Nat
  <2>1. x \in LandType /\ s \in LaneType
    BY <1>0, SpecType, RunnerTypes
  <2>2. QED
    BY <1>0, <2>1 DEF TypeOK, TrunkType, Land
<1>n. PICK n \in Nat : n = Len(trunk)
  BY <1>1
<1>2. /\ lane' = lane /\ checked' = checked /\ pc[r] = "land" /\ trunk' = Spec(r)
      /\ \/ pc'[r] = "idle"
         \/ pc'[r] = "confirm" /\ base' = base /\ work' = work
  BY <1>0, LocalState DEF Advance, AdvanceUnheard, aux, local
<1>3. /\ Closed(r) /\ base[r] = trunk /\ s.atRisk < NBarrier
      /\ MayLand(s, x.prs) /\ \E i \in s.prepared : i.spec = trunk'
  BY <1>0, <1>1, <1>2 DEF Knows, OnTip, WithBatch
<1>4. trunk' = Append(trunk, x)
  BY <1>2, <1>3 DEF Spec
<1> HIDE DEF x
<1>5. /\ Len(trunk') = n + 1 /\ trunk'[n + 1] = x
      /\ \A i \in 1 .. n : trunk'[i] = trunk[i]
      /\ DOMAIN trunk = 1 .. n /\ DOMAIN trunk' = 1 .. n + 1
      /\ trunk' \in Seq(LandType)
  BY <1>1, <1>n, <1>4
<1>6. Here(r)' = s
  BY <1>2 DEF Here
<1> HIDE DEF s
<1>7. \A i \in 1 .. n : trunk[i].prs \subseteq s.landed
  BY <1>3, <1>5 DEF Closed, AllRecorded, OnTrunk, Tree, s
<1>8. LandedOnce'
  <2>1. \A i \in 1 .. n : trunk[i].prs \cap x.prs = {}
    <3>1. s.landed \cap x.prs = {}
      BY <1>0, <1>3 DEF Books, Orderly, MayLand, Pending, s
    <3>2. QED
      BY <1>7, <3>1
  <2>2. ASSUME NEW i \in 1 .. n + 1, NEW j \in 1 .. n + 1,
               trunk'[i].prs \cap trunk'[j].prs # {}
        PROVE  i = j
    <3>1. CASE i \in 1 .. n /\ j \in 1 .. n
      <4>1. trunk[i].prs \cap trunk[j].prs # {}
        BY <1>5, <2>2, <3>1
      <4>2. QED
        BY <1>0, <1>1, <1>5, <1>n, <3>1, <4>1 DEF LandedOnce
    <3>2. CASE i = n + 1 /\ j \in 1 .. n
      <4>1. x.prs \cap trunk[j].prs # {}
        BY <1>5, <2>2, <3>2
      <4>2. QED
        BY <2>1, <3>2, <4>1
    <3>3. CASE i \in 1 .. n /\ j = n + 1
      <4>1. trunk[i].prs \cap x.prs # {}
        BY <1>5, <2>2, <3>3
      <4>2. QED
        BY <2>1, <3>3, <4>1
    <3>4. CASE i = n + 1 /\ j = n + 1
      BY <3>4
    <3>5. i \in 1 .. n \/ i = n + 1
      BY <1>1, <1>n
    <3>6. j \in 1 .. n \/ j = n + 1
      BY <1>1, <1>n
    <3>7. QED
      BY <3>1, <3>2, <3>3, <3>4, <3>5, <3>6
  <2>3. QED
    BY <1>5, <2>2 DEF LandedOnce
<1>9. \A i \in DOMAIN trunk' : trunk'[i].lane = LaneOf[r]
  <2>1. ASSUME NEW i \in 1 .. n + 1 PROVE trunk'[i].lane = LaneOf[r]
    <3>1. CASE i \in 1 .. n
      BY <1>0, <1>1, <1>5, <1>n, <3>1 DEF Books
    <3>2. CASE i = n + 1
      BY <1>0, <1>1, <1>5, <1>n, <3>2
    <3>3. i \in 1 .. n \/ i = n + 1
      BY <1>1, <1>n
    <3>4. QED
      BY <3>1, <3>2, <3>3
  <2>2. QED
    BY <1>5, <2>1
<1>10. IntentsOpen(r)'
  <2>1. ASSUME NEW i \in s.prepared, IsPrefix(i.spec, trunk') PROVE i.spec = trunk'
    <3>1. i.spec \in Seq(LandType)
      BY <1>1 DEF LaneType, Intent, TrunkType, s
    <3>2. IsPrefix(i.spec, trunk) \/ i.spec = trunk'
      BY <1>1, <1>n, <1>4, <2>1, <3>1, PrefixOfAppended
    <3>3. QED
      BY <1>3, <3>2 DEF Closed, s
  <2>2. QED
    BY <1>0, <1>1, <1>6, <2>1 DEF Books, IntentsOpen, NamesTip, s
<1>11. Behind(n)' = Behind(n)
  <2>1. \A i \in checked + 1 .. n : i \in 1 .. n
    BY <1>1
  <2>2. \A i \in checked + 1 .. n : trunk'[i] = trunk[i]
    BY <1>5, <2>1
  <2>3. QED
    BY <1>2, <2>2 DEF Behind
<1>12. LastUnrecorded(r)'
  <2>1. checked' < Len(trunk') /\ Len(trunk') - 1 = n
    BY <1>0, <1>1, <1>2, <1>5 DEF Books
  <2>2. \A i \in 1 .. n : trunk'[i].prs \subseteq s.landed
    BY <1>5, <1>7
  <2>3. MayLand(s, trunk'[Len(trunk')].prs)
    BY <1>3, <1>5
  <2>4. Cardinality(Behind(n)') <= s.atRisk
    BY <1>3, <1>11, <1>n DEF Closed, AllRecorded, s
  <2>5. Behind(Len(trunk) - 1)' = Behind(n)'
    BY <1>n, <2>1 DEF Behind
  <2>6. QED
    BY <1>3, <1>6, <2>1, <2>2, <2>3, <2>4, <2>5 DEF LastUnrecorded
<1>13. Books(r)'
  <2>1. checked' <= Len(trunk')
    BY <1>0, <1>1, <1>2, <1>5 DEF Books
  <2>2. QED
    BY <1>0, <1>1, <1>2, <1>6, <1>9, <1>10, <1>12, <2>1 DEF Books, s
<1>14. Knows(r)'
  <2>1. CASE pc'[r] = "idle"
    BY <2>1, NothingKnown
  <2>2. CASE pc'[r] = "confirm" /\ base' = base /\ work' = work
    <3>1. trunk' = Spec(r)'
      BY <1>2, <2>2 DEF Spec
    <3>2. QED
      BY <2>2, <3>1 DEF Knows, OnTip, WithBatch
  <2>3. QED
    BY <1>2, <2>1, <2>2
<1>15. QED
  BY <1>8, <1>13, <1>14 DEF SoloStep
\* The confirmation, and the record that closes the books again.
LEMMA SoloRecords ==
    ASSUME NEW r \in Runner, Solo(r), SoloInv(r), TypeOK', Confirm(r) \/ Record(r)
    PROVE  SoloStep(r)
<1>1. TypeOK /\ Books(r) /\ Knows(r)
  BY DEF SoloInv, TrunkInv
<1>2. CASE Confirm(r)
  <2>1. /\ trunk' = trunk /\ checked' = checked /\ lane' = lane
        /\ base' = base /\ work' = work /\ pc'[r] = "record"
    BY <1>1, <1>2, LocalState DEF Confirm, aux, local
  <2>2. trunk' = Spec(r)'
    BY <1>2, <2>1 DEF Confirm, Confirms, Spec
  <2>3. Books(r)'
    BY <1>1, <2>1, QuietLog, QuietBooks
  <2>4. Knows(r)'
    BY <2>1, <2>2 DEF Knows, OnTip, WithBatch
  <2>5. QED
    BY <2>3, <2>4 DEF SoloStep
<1>3. CASE Record(r)
  <2>1. /\ trunk' = trunk /\ checked' = checked /\ pc'[r] = "tuneUp"
        /\ trunk = Spec(r)
        /\ Log(r, BatchLanded(Here(r), work[r].prs, work[r].no))
    BY <1>1, <1>3, LocalState DEF Record, aux, Knows
  <2>2. /\ trunk # <<>>
        /\ trunk[Len(trunk)]
              = [lane |-> LaneOf[r], no |-> work[r].no, prs |-> work[r].prs]
    <3> DEFINE x == Land(LaneOf[r], work[r])
    <3>1. x \in LandType /\ base[r] \in Seq(LandType) /\ trunk = Append(base[r], x)
      BY <1>1, <2>1, SpecType, RunnerTypes DEF Spec, TrunkType
    <3>2. x = [lane |-> LaneOf[r], no |-> work[r].no, prs |-> work[r].prs]
      BY DEF Land
    <3> HIDE DEF x
    <3>3. Len(trunk) = Len(base[r]) + 1 /\ trunk[Len(base[r]) + 1] = x
          /\ Len(base[r]) \in Nat
      BY <3>1
    <3>4. QED
      BY <3>2, <3>3
  <2>3. Books(r)' /\ Closed(r)'
    BY <1>1, <2>1, <2>2, RecordBooks DEF Solo
  <2>4. Knows(r)'
    BY <2>1, <2>3 DEF Knows, OnTip, WithBatch
  <2>5. QED
    BY <2>3, <2>4 DEF SoloStep
<1>4. QED
  BY <1>2, <1>3

\* Every step of the one job, and every enqueue under it, keeps the invariant.
LEMMA NextSolo ==
    ASSUME NEW r \in Runner, Solo(r), SoloInv(r), [Next]_vars
    PROVE  SoloInv(r)'
<1>1. TrunkInv' /\ Lines' /\ TypeOK' /\ TypeOK
  BY NextTrunk, NextLines DEF SoloInv, TrunkInv
<1>2. trunk' = trunk => LandedOnce'
  BY DEF SoloInv, LandedOnce
<1>3. CASE UNCHANGED vars
  <2>1. Books(r)' = Books(r)
    BY <1>3 DEF vars, Books, Orderly, IntentsOpen, AllRecorded,
                LastUnrecorded, Behind, Here, OnTrunk, NamesTip
  <2>2. Knows(r)' = Knows(r)
    BY <1>3 DEF vars, local, Knows, AllRecorded, Behind, Closed, Here, OnTrunk, Spec
  <2>3. QED
    BY <1>1, <1>2, <1>3, <2>1, <2>2 DEF vars, SoloInv
<1>4. ASSUME NEW l \in Lane, NEW p \in PR, Enqueue(l, p) PROVE SoloInv(r)'
  BY <1>1, <1>2, <1>4, SoloEnqueue DEF Enqueue, SoloInv, SoloStep
<1>5. ASSUME NEW h \in Hotfix PROVE FALSE
  BY DEF Solo
<1>6. CASE Advance(r) \/ AdvanceUnheard(r)
  BY <1>1, <1>6, SoloAdvances DEF SoloInv, SoloStep
<1>7. CASE (Run(r) \/ Crash(r)) /\ ~Advance(r)
  <2>1. SoloStep(r)
    BY <1>1, <1>7, SoloRecover, SoloEnds, SoloReads, SoloJudges, SoloRejects,
       SoloPrepares, SoloRecords DEF Run, Speculate, RecordLand
  <2>2. trunk' = trunk
    <3>1. CASE HarmlessAction(r)
      BY <1>1, <3>1, HarmlessActions DEF HarmlessBy
    <3>2. CASE Complete(r) \/ VerdictGreen(r) \/ Confirm(r) \/ Record(r)
      BY <3>2 DEF Complete, VerdictGreen, Confirm, Record
    <3>3. QED
      BY <1>7, <3>1, <3>2
         DEF Run, Recover, Speculate, RecordLand, HarmlessAction
  <2>3. QED
    BY <1>1, <1>2, <2>1, <2>2 DEF SoloInv, SoloStep
<1>8. QED
  BY <1>3, <1>4, <1>5, <1>6, <1>7 DEF Next, Solo

LEMMA InitSolo ==
    ASSUME NEW r \in Runner, Init
    PROVE  SoloInv(r)
<1>1. TrunkInv
  BY InitTrunk
<1>2. Lines
  BY EmptyLine, MergeQueueAssumption DEF Init, Lines
<1>3. /\ trunk = <<>> /\ checked = 0 /\ LaneOf[r] \in Lane /\ Here(r) = EmptyLane
      /\ \A l \in Lane : lane[l] = EmptyLane
  BY MergeQueueAssumption DEF Init, Here
<1>4. /\ EmptyLane.landed = {} /\ EmptyLane.ejected = {} /\ EmptyLane.held = {}
      /\ EmptyLane.done = {} /\ EmptyLane.prepared = {} /\ EmptyLane.atRisk = 0
  BY DEF EmptyLane
<1>5. OnTrunk = {} /\ Behind(Len(trunk)) = {} /\ DOMAIN trunk = {} /\ Len(trunk) = 0
  BY <1>3 DEF OnTrunk, Tree, Behind
<1>6. AllRecorded(r)
  <2>1. Cardinality(Behind(Len(trunk))) = 0
    BY <1>5, FS_EmptySet
  <2>2. QED
    BY <1>3, <1>4, <1>5, <2>1 DEF AllRecorded
<1>7. Orderly(EmptyLane) /\ RejectedBy(EmptyLane) = {}
  BY <1>4 DEF Orderly, RejectedBy, AheadOf
<1>8. EmptyLane.atRisk <= NBarrier - 1 + Budget
  BY <1>4, MergeQueueAssumption
<1>9. Books(r)
  BY <1>3, <1>4, <1>5, <1>6, <1>7, <1>8 DEF Books, IntentsOpen
<1>10. Knows(r)
  BY DEF Init, Knows, OnTip, WithBatch
<1>11. LandedOnce
  BY <1>5 DEF LandedOnce
<1>12. QED
  BY <1>1, <1>2, <1>9, <1>10, <1>11 DEF SoloInv

\* What the invariant says of the properties.
LEMMA SoloSays ==
    ASSUME NEW r \in Runner, Solo(r), SoloInv(r)
    PROVE  /\ LandedOnce
           /\ LandHasWitness
           /\ BlastRadius
           /\ RejectedStayOff
           /\ NoOvertaking
<1> DEFINE h == Here(r)
           n == Len(trunk)
<1>1. TypeOK /\ Books(r) /\ Knows(r) /\ LandedOnce
  BY DEF SoloInv, TrunkInv
<1>2. /\ h \in LaneType /\ trunk \in Seq(LandType) /\ n \in Nat
      /\ DOMAIN trunk = 1 .. n /\ checked \in Nat /\ LaneOf[r] \in Lane
  BY <1>1, RunnerTypes DEF TypeOK, TrunkType
<1>3. LandHasWitness
  <2>1. ASSUME NEW i \in 1 .. n
        PROVE  \/ trunk[i].prs \subseteq h.landed
               \/ \E j \in h.prepared : j.spec = SubSeq(trunk, 1, i)
    <3>1. CASE AllRecorded(r)
      BY <1>2, <3>1 DEF AllRecorded, OnTrunk, Tree
    <3>2. CASE LastUnrecorded(r) /\ i = n
      <4>1. SubSeq(trunk, 1, n) = trunk
        BY <1>2
      <4>2. QED
        BY <3>2, <4>1 DEF LastUnrecorded
    <3>3. CASE LastUnrecorded(r) /\ i # n
      <4> HIDE DEF n
      <4>1. i \in 1 .. n - 1
        BY <1>2, <3>3
      <4>2. QED
        BY <3>3, <4>1 DEF LastUnrecorded, n
    <3>4. QED
      BY <1>1, <3>1, <3>2, <3>3 DEF Books
  <2>2. \A i \in DOMAIN trunk : lane[trunk[i].lane] = h
    BY <1>1 DEF Books, Here
  <2>3. QED
    BY <1>2, <2>1, <2>2 DEF LandHasWitness
<1>5. BlastRadius
  <2>1. Tree(SubSeq(trunk, checked + 1, n)) = Behind(n)
    <3>1. checked <= n
      BY <1>1 DEF Books
    <3> DEFINE t == SubSeq(trunk, checked + 1, n)
    <3>2. /\ DOMAIN t = 1 .. n - checked
          /\ \A i \in 1 .. n - checked : t[i] = trunk[checked + i]
      BY <1>2, <3>1
    <3> HIDE DEF t
    <3>3. ASSUME NEW p \in Tree(t) PROVE p \in Behind(n)
      <4>1. PICK i \in 1 .. n - checked : p \in t[i].prs
        BY <3>2 DEF Tree
      <4>2. checked + i \in checked + 1 .. n /\ p \in trunk[checked + i].prs
        BY <1>2, <3>1, <3>2, <4>1
      <4>3. QED
        BY <4>2 DEF Behind
    <3>4. ASSUME NEW p \in Behind(n) PROVE p \in Tree(t)
      <4>1. PICK i \in checked + 1 .. n : p \in trunk[i].prs
        BY DEF Behind
      <4>2. i - checked \in 1 .. n - checked /\ checked + (i - checked) = i
        BY <1>2, <3>1, <4>1
      <4>3. p \in t[i - checked].prs
        BY <3>2, <4>1, <4>2
      <4>4. QED
        BY <3>2, <4>2, <4>3 DEF Tree
    <3>5. QED
      BY <3>3, <3>4 DEF t
  <2>2. NBarrier \in Nat /\ Budget \in Nat /\ h.atRisk \in Nat
    BY <1>2, MergeQueueAssumption DEF LaneType
  <2>3. Cardinality(Behind(n)) \in Nat
    BY <1>1, <1>2, BehindGrows DEF Solo, TypeOK
  <2>4. CASE AllRecorded(r)
    BY <1>1, <2>1, <2>2, <2>3, <2>4 DEF AllRecorded, Books, BlastRadius
  <2>5. CASE LastUnrecorded(r)
    <3>1. /\ checked < n /\ Cardinality(Behind(n - 1)) <= h.atRisk
          /\ h.atRisk < NBarrier /\ Cardinality(trunk[n].prs) <= Budget
          /\ trunk[n].prs \in SUBSET PR
      BY <2>5 DEF LastUnrecorded, MayLand, Pending
    <3>2. n \in 1 .. n /\ n - 1 \in 0 .. n
      BY <1>2, <3>1
    <3>3. Behind(n) = Behind(n - 1) \cup trunk[n].prs /\ Behind(n - 1) \in SUBSET PR
      BY <1>1, <1>2, <3>1, <3>2, BehindGrows DEF Solo, TypeOK
    <3>4. /\ Cardinality(Behind(n)) <= Cardinality(Behind(n - 1)) + Cardinality(trunk[n].prs)
          /\ {Cardinality(Behind(n - 1)), Cardinality(trunk[n].prs)} \subseteq Nat
      BY <3>1, <3>3, CountOfUnion
    <3>5. Cardinality(Behind(n)) <= NBarrier - 1 + Budget
      BY <2>2, <2>3, <3>1, <3>4
    <3>6. QED
      BY <2>1, <3>5 DEF BlastRadius
  <2>6. QED
    BY <1>1, <2>4, <2>5 DEF Books
<1>6. RejectedStayOff
  <2>1. h.landed \cap RejectedBy(h) = {} /\ RejectedBy(h) \subseteq h.done \cup h.held
    BY <1>1 DEF Books, Orderly, RejectedBy
  <2>2. RejectedBy(h) \cap OnTrunk = {}
    <3>1. CASE AllRecorded(r)
      BY <2>1, <3>1 DEF AllRecorded
    <3>2. CASE LastUnrecorded(r)
      <4>1. trunk[n].prs \cap (h.done \cup h.held) = {}
        BY <3>2 DEF LastUnrecorded, MayLand, Pending
      <4>2. \A i \in 1 .. n : i = n \/ trunk[i].prs \subseteq h.landed
        <5> HIDE DEF n
        <5>1. \A i \in 1 .. n : i = n \/ i \in 1 .. n - 1
          BY <1>2
        <5>2. QED
          BY <3>2, <5>1 DEF LastUnrecorded, n
      <4>3. QED
        BY <1>2, <2>1, <4>1, <4>2 DEF OnTrunk, Tree
    <3>3. QED
      BY <1>1, <3>1, <3>2 DEF Books
  <2>3. \A l \in Lane : RejectedBy(lane[l]) \cap OnTrunk = {}
    BY <1>1, <2>2 DEF Books, Here
  <2>4. QED
    BY <2>3 DEF RejectedStayOff, RejectedBy, EjectedFrom
<1>7. NoOvertaking
  <2>1. ASSUME NEW q \in h.landed, NEW p \in PR, 0 < h.rank[p], h.rank[p] < h.rank[q]
        PROVE  p \in h.done \cup h.held
    BY <1>1, <2>1 DEF Books, Orderly, AheadOf
  <2>2. \A l \in Lane : l = LaneOf[r] \/ lane[l].landed = {}
    BY <1>1 DEF Books
  <2>3. QED
    BY <2>1, <2>2 DEF NoOvertaking, Landed, Here
<1>8. QED
  BY <1>1, <1>3, <1>5, <1>6, <1>7

\* One job at a time keeps its books: the invariant behind the theorems below.
LEMMA SoloInvariance ==
    ASSUME NEW r \in Runner, Solo(r)
    PROVE  Behaviour => [](SoloInv(r))
<1>1. Init => SoloInv(r)
  BY InitSolo
<1>2. SoloInv(r) /\ [Next]_vars => SoloInv(r)'
  BY NextSolo
<1>3. QED
  BY <1>1, <1>2, PTL DEF Behaviour

\* With one job at a time, whatever is killed or lost on the way and whoever is
\* enqueued meanwhile, no PR lands twice.
THEOREM LandsOnce == Alone => (Behaviour => []LandedOnce)
<1>1. SUFFICES ASSUME NEW r \in Runner, Solo(r) PROVE Behaviour => []LandedOnce
  BY DEF Alone
<1>2. SoloInv(r) => LandedOnce
  BY <1>1, SoloSays
<1>3. QED
  BY <1>1, <1>2, SoloInvariance, PTL
\* From the push on, a recovery can find every land: the books have it, or an
\* intent still names that very tip.
THEOREM NoLandIsLost == Alone => (Behaviour => []LandHasWitness)
<1>1. SUFFICES ASSUME NEW r \in Runner, Solo(r) PROVE Behaviour => []LandHasWitness
  BY DEF Alone
<1>2. SoloInv(r) => LandHasWitness
  BY <1>1, SoloSays
<1>3. QED
  BY <1>1, <1>2, SoloInvariance, PTL

\* Lands that are recorded late, by a recovery, do not enlarge the blast radius:
\* the barrier bounds what lies on trunk and not only what the lane has counted.
THEOREM BlastRadiusHolds == Alone => (Behaviour => []BlastRadius)
<1>1. SUFFICES ASSUME NEW r \in Runner, Solo(r) PROVE Behaviour => []BlastRadius
  BY DEF Alone
<1>2. SoloInv(r) => BlastRadius
  BY <1>1, SoloSays
<1>3. QED
  BY <1>1, <1>2, SoloInvariance, PTL

\* What is ejected or held is not on trunk, also when its land was not recorded
\* yet as the lane judged it.
THEOREM SettledOneWay == Alone => (Behaviour => []RejectedStayOff)
<1>1. SUFFICES ASSUME NEW r \in Runner, Solo(r) PROVE Behaviour => []RejectedStayOff
  BY DEF Alone
<1>2. SoloInv(r) => RejectedStayOff
  BY <1>1, SoloSays
<1>3. QED
  BY <1>1, <1>2, SoloInvariance, PTL

\* Nobody overtakes: conflicts cut the queue and do not thin it, and PRs enqueued
\* between a tick's read and its land come last.
THEOREM QueueIsFair == Alone => (Behaviour => []NoOvertaking)
<1>1. SUFFICES ASSUME NEW r \in Runner, Solo(r) PROVE Behaviour => []NoOvertaking
  BY DEF Alone
<1>2. SoloInv(r) => NoOvertaking
  BY <1>1, SoloSays
<1>3. QED
  BY <1>1, <1>2, SoloInvariance, PTL

-----------------------------------------------------------------------------
(* What a recovery can find, beside other lanes and hotfixes *)

\* Each lane has one job at a time, which recovers before it ticks.
OneJobPerLane ==
    /\ RecoverFirst
    /\ \A q, r \in Runner : LaneOf[q] = LaneOf[r] => q = r

\* An intent names the land its spec tip ends with.
Named(l, i) ==
    /\ i.spec # <<>>
    /\ i.spec[Len(i.spec)] = [lane |-> l, no |-> i.no, prs |-> i.prs]

\* No land that an intent of the lane still names has one of its lane on top.
Unburied(l) ==
    \A i \in lane[l].prepared :
        /\ Named(l, i)
        /\ IsPrefix(i.spec, trunk) =>
              \/ i.spec = trunk
              \/ \E x \in LandOnTop(i, trunk) : x.lane # l

\* Since the runner read trunk, its lane has not landed.
OnlyOthersSince(r) ==
    \A k \in DOMAIN trunk : k > Len(base[r]) => trunk[k].lane # LaneOf[r]

OnBase == {"barrier", "form", "verdict", "land"}

\* The runner has read the intents there are, and builds on none of them.
Recovered(r) ==
    /\ pc[r] \in {"recoverTrunk", "complete"} => snap[r].prepared = Here(r).prepared
    /\ pc[r] \in OnBase \cup {"complete"} => OnlyOthersSince(r)
    /\ pc[r] \in {"readLane", "readTrunk"} =>
          \A i \in Here(r).prepared : i.spec # trunk
    /\ pc[r] \in OnBase => \A i \in Here(r).prepared : i.spec # base[r]

BuriedInv ==
    /\ TrunkInv
    /\ \A l \in Lane : Unburied(l)
    /\ \A r \in Runner : Recovered(r)

\* Trunk grows by a land of x.lane, or stays.
Grows(x) == trunk' = trunk \/ trunk' = Append(trunk, x)

\* What a prefix shorter than the whole looks like, and what an entry on top of
\* it is once there are more.
LEMMA GrowthOnTop ==
    ASSUME NEW t \in TrunkType, NEW u \in TrunkType, NEW x \in LandType,
           u = Append(t, x)
    PROVE  /\ DOMAIN t = 1 .. Len(t) /\ DOMAIN u = 1 .. Len(t) + 1
           /\ Len(t) \in Nat /\ Len(u) = Len(t) + 1 /\ u # t
           /\ u[Len(t) + 1] = x
           /\ \A k \in DOMAIN t : k \in DOMAIN u /\ u[k] = t[k]
BY DEF TrunkType

\* A tip that is not on top of the lane's own intents buries none of them.
LEMMA StaysUnburied ==
    ASSUME TypeOK, TypeOK', NEW l \in Lane, Unburied(l),
           lane'[l].prepared \subseteq lane[l].prepared,
           NEW x \in LandType, Grows(x),
           x.lane = l => \A i \in lane'[l].prepared : i.spec # trunk
    PROVE  Unburied(l)'
<1>1. SUFFICES ASSUME NEW i \in lane'[l].prepared
               PROVE  /\ Named(l, i)
                      /\ IsPrefix(i.spec, trunk') =>
                            \/ i.spec = trunk'
                            \/ \E y \in LandOnTop(i, trunk)' : y.lane # l
  BY DEF Unburied, Named, LandOnTop
<1>2. /\ Named(l, i)
      /\ IsPrefix(i.spec, trunk) => \/ i.spec = trunk
                                    \/ \E y \in LandOnTop(i, trunk) : y.lane # l
  BY DEF Unburied
<1>3. CASE trunk' = trunk
  BY <1>2, <1>3 DEF LandOnTop
<1>4. CASE trunk' = Append(trunk, x)
  <2>1. trunk \in TrunkType /\ trunk' \in TrunkType /\ i.spec \in TrunkType
    BY DEF TypeOK, LaneType, Intent
  <2>2. /\ DOMAIN trunk' = 1 .. Len(trunk) + 1 /\ trunk'[Len(trunk) + 1] = x
        /\ \A k \in DOMAIN trunk : k \in DOMAIN trunk' /\ trunk'[k] = trunk[k]
        /\ Len(trunk) \in Nat
    BY <1>4, <2>1, GrowthOnTop
  <2>3. SUFFICES ASSUME IsPrefix(i.spec, trunk), i.spec # trunk'
                 PROVE  \E k \in DOMAIN trunk' : /\ k = Len(i.spec) + 1
                                                 /\ trunk'[k].lane # l
    BY <1>2, <1>4, <2>1, PrefixOfAppended DEF TrunkType, LandOnTop
  <2>4. CASE i.spec = trunk
    BY <1>1, <2>2, <2>4
  <2>5. CASE i.spec # trunk
    <3>1. PICK k \in DOMAIN trunk : k = Len(i.spec) + 1 /\ trunk[k].lane # l
      BY <1>2, <2>3, <2>5 DEF LandOnTop
    <3>2. QED
      BY <2>2, <3>1
  <2>6. QED
    BY <2>4, <2>5
<1>5. QED
  BY <1>3, <1>4 DEF Grows

\* A runner whose lane does not land meanwhile keeps what it knows.
LEMMA StaysRecovered ==
    ASSUME TypeOK, TypeOK', NEW q \in Runner, Recovered(q), Unburied(LaneOf[q]),
           pc'[q] = pc[q], snap'[q] = snap[q], base'[q] = base[q],
           Here(q).prepared = Here(q)'.prepared,
           NEW x \in LandType, Grows(x), trunk' = trunk \/ x.lane # LaneOf[q]
    PROVE  Recovered(q)'
<1>1. /\ trunk \in TrunkType /\ trunk' \in TrunkType /\ LaneOf[q] \in Lane
      /\ \A i \in Here(q).prepared : i.spec \in TrunkType
  BY RunnerTypes DEF TypeOK, Here, LaneType, Intent
<1>2. CASE trunk' = trunk
  BY <1>2 DEF Recovered, OnlyOthersSince
<1>3. CASE trunk' = Append(trunk, x) /\ x.lane # LaneOf[q]
  <2>1. /\ DOMAIN trunk = 1 .. Len(trunk) /\ DOMAIN trunk' = 1 .. Len(trunk) + 1
        /\ trunk'[Len(trunk) + 1] = x
        /\ \A k \in DOMAIN trunk : trunk'[k] = trunk[k]
        /\ Len(trunk) \in Nat /\ Len(trunk') = Len(trunk) + 1
    BY <1>1, <1>3, GrowthOnTop
  <2>2. OnlyOthersSince(q) => OnlyOthersSince(q)'
    <3>1. ASSUME OnlyOthersSince(q), NEW k \in DOMAIN trunk', k > Len(base[q])
          PROVE  trunk'[k].lane # LaneOf[q]
      <4>1. CASE k \in DOMAIN trunk
        <5>1. trunk'[k] = trunk[k]
          BY <2>1, <4>1
        <5>2. trunk[k].lane # LaneOf[q]
          BY <3>1, <4>1 DEF OnlyOthersSince
        <5>3. QED
          BY <5>1, <5>2
      <4>2. CASE k = Len(trunk) + 1
        BY <1>3, <2>1, <4>2
      <4>3. QED
        BY <2>1, <3>1, <4>1, <4>2
    <3>2. QED
      BY <3>1 DEF OnlyOthersSince
  <2>3. \A i \in Here(q).prepared : i.spec # trunk'
    <3>1. ASSUME NEW i \in Here(q).prepared, i.spec = trunk' PROVE FALSE
      <4>1. i.spec[Len(i.spec)] = [lane |-> LaneOf[q], no |-> i.no, prs |-> i.prs]
        BY DEF Unburied, Named, Here
      <4>2. i.spec[Len(i.spec)].lane = LaneOf[q]
        BY <4>1
      <4>3. i.spec[Len(i.spec)] = x
        BY <2>1, <3>1
      <4>4. QED
        BY <1>3, <4>2, <4>3
    <3>2. QED
      BY <3>1
  <2>4. QED
    BY <2>2, <2>3 DEF Recovered
<1>4. QED
  BY <1>2, <1>3 DEF Grows

\* A phase in which the runner has to know nothing.
LEMMA NothingRecovered ==
    ASSUME NEW r \in Runner,
           pc'[r] \in {"idle", "recover", "aged", "tuned", "guarded", "confirm",
                      "record", "tuneUp"}
    PROVE  Recovered(r)'
BY DEF Recovered, OnBase

\* A point of trunk's past that it has not left is trunk, or is shorter.
LEMMA PastIsShorter ==
    ASSUME NEW t \in TrunkType, NEW u \in TrunkType, IsPrefix(t, u), t # u
    PROVE  Len(u) \in DOMAIN u /\ Len(t) < Len(u)
<1>1. Len(t) \in 0 .. Len(u) /\ t = SubSeq(u, 1, Len(t)) /\ Len(u) \in Nat
  BY PrefixIsSubSeq DEF TrunkType
<1>2. SubSeq(u, 1, Len(u)) = u
  BY DEF TrunkType
<1>3. Len(t) # Len(u)
  BY <1>1, <1>2
<1>4. DOMAIN u = 1 .. Len(u)
  BY DEF TrunkType
<1>5. Len(t) < Len(u)
  BY <1>1, <1>3
<1>6. Len(u) \in 1 .. Len(u)
  BY <1>1, <1>5
<1>7. QED
  BY <1>4, <1>5, <1>6

\* The harmless steps: reads, holds, ejections and ends.
LEMMA HarmlessRecovered ==
    ASSUME OneJobPerLane, BuriedInv, TypeOK', NEW r \in Runner, HarmlessAction(r)
    PROVE  Recovered(r)'
<1>1. TypeOK /\ Recovered(r) /\ HarmlessBy(r) /\ LaneOf[r] \in Lane
  BY HarmlessActions, RunnerTypes DEF BuriedInv, TrunkInv
<1>2. /\ trunk' = trunk /\ Here(r)'.prepared = Here(r).prepared
      /\ trunk \in TrunkType
  BY <1>1 DEF HarmlessBy, Here, TypeOK
<1>3. /\ pc \in [Runner -> Phase] /\ snap \in [Runner -> LaneType]
      /\ base \in [Runner -> TrunkType]
  BY <1>1 DEF TypeOK
<1>4. CASE Start(r)
  <2>1. pc'[r] = "recover"
    BY <1>1, <1>4, LocalState DEF Start, OneJobPerLane
  <2>2. QED
    BY <2>1, NothingRecovered
<1>5. CASE RecoverRead(r)
  <2>1. pc'[r] = "recoverTrunk" /\ snap'[r] = Here(r)
    BY <1>1, <1>3, <1>5, LocalState DEF RecoverRead
  <2>2. QED
    BY <1>2, <2>1 DEF Recovered, OnBase
<1>6. CASE RecoverReadTrunk(r)
  <2>1. /\ pc[r] = "recoverTrunk" /\ pc'[r] = "complete" /\ snap' = snap
        /\ base'[r] = trunk
    BY <1>1, <1>3, <1>6, LocalState DEF RecoverReadTrunk
  <2>2. OnlyOthersSince(r)'
    BY <1>2, <2>1 DEF OnlyOthersSince, TrunkType
  <2>3. QED
    BY <1>1, <1>2, <2>1, <2>2 DEF Recovered, OnBase
<1>7. CASE TickRead(r)
  <2>1. pc[r] = "readLane" /\ pc'[r] \in {"idle", "readTrunk"}
    BY <1>1, <1>7, LocalState DEF TickRead
  <2>2. QED
    BY <1>1, <1>2, <2>1, NothingRecovered DEF Recovered, OnBase
<1>8. CASE TickReadTrunk(r)
  <2>1. /\ pc[r] = "readTrunk" /\ pc'[r] \in {"barrier", "form"}
        /\ base'[r] = trunk
    BY <1>1, <1>3, <1>8, LocalState DEF TickReadTrunk
  <2>2. OnlyOthersSince(r)'
    BY <1>2, <2>1 DEF OnlyOthersSince, TrunkType
  <2>3. QED
    BY <1>1, <1>2, <2>1, <2>2 DEF Recovered, OnBase
<1>9. CASE BarrierOk(r) \/ Form(r)
  <2>1. /\ pc[r] \in {"barrier", "form"} /\ pc'[r] \in {"form", "verdict"}
        /\ base' = base
    BY <1>1, <1>9, LocalState DEF BarrierOk, Form, local
  <2>2. OnlyOthersSince(r) => OnlyOthersSince(r)'
    BY <1>2, <2>1 DEF OnlyOthersSince
  <2>3. QED
    BY <1>1, <1>2, <2>1, <2>2 DEF Recovered, OnBase
<1>10. CASE \/ BarrierRed(r) \/ EjectHead(r) \/ HoldBatch(r) \/ Isolate(r)
            \/ TuneGuarded(r) \/ AdvanceRejected(r) \/ Unconfirmed(r)
            \/ GrowWindow(r) \/ Crash(r)
  <2>1. Finish(r)
    BY <1>10 DEF BarrierRed, EjectHead, HoldBatch, Isolate, EjectCulprit,
                 HoldCandidate, EjectIncompatible, HoldUnisolated, TuneGuarded,
                 AdvanceRejected, Unconfirmed, GrowWindow, Crash
  <2>2. QED
    BY <1>1, <2>1, LocalState, NothingRecovered
<1>11. CASE VerdictNotGreen(r) \/ ShrinkWindow(r) \/ GuardRefuses(r)
  <2>1. pc'[r] \in {"aged", "tuned", "guarded"}
    BY <1>1, <1>11, LocalState DEF VerdictNotGreen, ShrinkWindow, GuardRefuses
  <2>2. QED
    BY <2>1, NothingRecovered
<1>12. QED
  BY <1>4, <1>5, <1>6, <1>7, <1>8, <1>9, <1>10, <1>11 DEF HarmlessAction

\* The recovery: what is left of the intents is not what trunk shows.
LEMMA CompleteRecovered ==
    ASSUME BuriedInv, TypeOK', NEW r \in Runner, Complete(r)
    PROVE  Recovered(r)' /\ Here(r)'.prepared \subseteq Here(r).prepared
<1>1. /\ TypeOK /\ Recovered(r) /\ LaneOf[r] \in Lane /\ Unburied(LaneOf[r])
      /\ IsPrefix(base[r], trunk) /\ Here(r) \in LaneType
      /\ base[r] \in TrunkType /\ trunk \in TrunkType
  BY RunnerTypes DEF BuriedInv, TrunkInv, BaseIsPast, TypeOK, Here
<1>2. /\ pc[r] = "complete" /\ pc'[r] = "readLane" /\ trunk' = trunk
      /\ snap[r].prepared = Here(r).prepared /\ OnlyOthersSince(r)
  BY <1>1, LocalState DEF Complete, Recovered, OnBase
<1>3. ASSUME NEW i \in Here(r).prepared
      PROVE  i.spec[Len(i.spec)] = [lane |-> LaneOf[r], no |-> i.no, prs |-> i.prs]
  BY <1>1 DEF Unburied, Named, Here
<1>4. ASSUME NEW i \in Here(r).prepared, i.spec # base[r] PROVE i.spec # trunk
  <2>1. CASE base[r] = trunk
    BY <1>4, <2>1
  <2>2. CASE base[r] # trunk
    <3>1. trunk[Len(trunk)].lane # LaneOf[r]
      BY <1>1, <1>2, <2>2, PastIsShorter DEF OnlyOthersSince
    <3>2. i.spec[Len(i.spec)] = [lane |-> LaneOf[r], no |-> i.no, prs |-> i.prs]
      BY <1>3, <1>4
    <3>3. i.spec[Len(i.spec)].lane = LaneOf[r]
      BY <3>2
    <3>4. QED
      BY <3>1, <3>3
  <2>3. QED
    BY <2>1, <2>2
<1>5. /\ Here(r)'.prepared \subseteq Here(r).prepared
      /\ \A i \in Here(r)'.prepared : i.spec # base[r]
  <2>1. ASSUME NEW j \in snap[r].prepared \ Abandoned(r),
               Log(r, BatchLanded(Here(r), j.prs, j.no))
        PROVE  /\ Here(r)'.prepared \subseteq Here(r).prepared
               /\ \A i \in Here(r)'.prepared : i.spec # base[r]
    <3>1. Here(r)'.prepared = {i \in Here(r).prepared : i.no # j.no}
      <4>1. Here(r)' = BatchLanded(Here(r), j.prs, j.no)
        BY <1>1, <2>1, LocalState
      <4>2. QED
        BY <1>1, <4>1, IntentFields
    <3>2. j \in Here(r).prepared /\ j.spec = base[r]
      BY <1>2, <2>1 DEF Abandoned
    <3>3. ASSUME NEW i \in Here(r).prepared, i.spec = base[r] PROVE i.no = j.no
      <4>1. /\ i.spec[Len(i.spec)] = [lane |-> LaneOf[r], no |-> i.no, prs |-> i.prs]
            /\ j.spec[Len(j.spec)] = [lane |-> LaneOf[r], no |-> j.no, prs |-> j.prs]
        BY <1>3, <3>2, <3>3
      <4>2. i.spec[Len(i.spec)] = j.spec[Len(j.spec)]
        BY <3>2, <3>3
      <4>3. QED
        BY <4>1, <4>2
    <3>4. QED
      BY <3>1, <3>3
  <2>2. CASE snap[r].prepared \subseteq Abandoned(r) /\ UNCHANGED lane
    <3>1. \A i \in Here(r).prepared : i.spec # base[r]
      BY <1>2, <2>2 DEF Abandoned
    <3>2. QED
      BY <2>2, <3>1 DEF Here
  <2>3. QED
    BY <2>1, <2>2 DEF Complete
<1>6. QED
  BY <1>2, <1>4, <1>5 DEF Recovered, OnBase

\* The intent is prepared on a base none of the lane's lands is on top of.
LEMMA PrepareUnburied ==
    ASSUME BuriedInv, TypeOK', NEW r \in Runner, VerdictGreen(r)
    PROVE  Recovered(r)' /\ Unburied(LaneOf[r])'
<1> DEFINE x == Land(LaneOf[r], work[r])
           n == [no |-> work[r].no, prs |-> work[r].prs, spec |-> Spec(r)]
<1>1. /\ TypeOK /\ Recovered(r) /\ LaneOf[r] \in Lane /\ Unburied(LaneOf[r])
      /\ Here(r) \in LaneType /\ base[r] \in TrunkType /\ trunk \in TrunkType
  BY RunnerTypes DEF BuriedInv, TrunkInv, TypeOK, Here
<1>2. /\ pc[r] = "verdict" /\ pc'[r] = "land" /\ trunk' = trunk /\ base' = base
      /\ OnlyOthersSince(r) /\ \A i \in Here(r).prepared : i.spec # base[r]
  BY <1>1, LocalState DEF VerdictGreen, local, Recovered, OnBase
<1>3. Here(r)'.prepared = {i \in Here(r).prepared : i.no # n.no} \cup {n}
  <2>1. Here(r)' = IntentPrepared(Here(r), n)
    BY <1>1, LocalState DEF VerdictGreen
  <2>2. QED
    BY <1>1, <2>1, IntentFields
<1>4. x \in LandType /\ x = [lane |-> LaneOf[r], no |-> n.no, prs |-> n.prs]
  BY <1>1, SpecType DEF Land
<1>5. n.spec = Append(base[r], x) /\ n.spec \in TrunkType
  BY <1>1, SpecType DEF Spec
<1> HIDE DEF x, n
<1>6. /\ Len(n.spec) = Len(base[r]) + 1 /\ n.spec[Len(base[r]) + 1] = x
      /\ n.spec # base[r] /\ DOMAIN n.spec = 1 .. Len(base[r]) + 1
      /\ Len(base[r]) \in Nat
  BY <1>1, <1>4, <1>5, GrowthOnTop
<1>7. Named(LaneOf[r], n)
  BY <1>4, <1>6 DEF Named
<1>8. ~IsPrefix(n.spec, trunk)
  <2>1. SUFFICES ASSUME IsPrefix(n.spec, trunk) PROVE FALSE
    OBVIOUS
  <2>2. /\ Len(base[r]) + 1 \in DOMAIN trunk
        /\ trunk[Len(base[r]) + 1] = n.spec[Len(base[r]) + 1]
    <3>1. n.spec \in Seq(LandType) /\ trunk \in Seq(LandType)
      BY <1>1, <1>5 DEF TrunkType
    <3>2. Len(base[r]) + 1 \in DOMAIN n.spec
      BY <1>6
    <3>3. QED
      BY <2>1, <3>1, <3>2, PrefixKeepsEntries
  <2>3. x.lane = LaneOf[r]
    BY <1>4
  <2>4. QED
    BY <1>2, <1>6, <2>2, <2>3 DEF OnlyOthersSince
<1>9. Unburied(LaneOf[r])'
  <2>1. ASSUME NEW i \in Here(r)'.prepared
        PROVE  /\ Named(LaneOf[r], i)
               /\ IsPrefix(i.spec, trunk) =>
                     \/ i.spec = trunk
                     \/ \E y \in LandOnTop(i, trunk) : y.lane # LaneOf[r]
    BY <1>1, <1>3, <1>7, <1>8 DEF Unburied, Here
  <2>2. QED
    BY <1>2, <2>1 DEF Unburied, Named, LandOnTop, Here
<1>10. OnlyOthersSince(r)'
  BY <1>2 DEF OnlyOthersSince
<1>11. \A i \in Here(r)'.prepared : i.spec # base[r]
  BY <1>2, <1>3, <1>6
<1>12. QED
  BY <1>2, <1>9, <1>10, <1>11 DEF Recovered, OnBase

\* A land of nobody's lane, to stand for a trunk that stays.
NoLand == [lane |-> NoLane, no |-> 0, prs |-> {}]

\* What a step of r leaves to be shown, since it touches its own lane only.
LEMMA OthersStay ==
    ASSUME OneJobPerLane, BuriedInv, TrunkInv', NEW r \in Runner,
           Recovered(r)', Unburied(LaneOf[r])',
           \A q \in Runner \ {r} : /\ pc'[q] = pc[q] /\ snap'[q] = snap[q]
                                   /\ base'[q] = base[q],
           \A l \in Lane \ {LaneOf[r]} : lane'[l].prepared = lane[l].prepared,
           NEW x \in LandType, Grows(x), x.lane \in {NoLane, LaneOf[r]}
    PROVE  BuriedInv'
<1>1. TypeOK /\ TypeOK' /\ NoLane \notin Lane
  BY MergeQueueAssumption DEF BuriedInv, TrunkInv
<1>2. ASSUME NEW l \in Lane, l # LaneOf[r] PROVE Unburied(l)'
  BY <1>1, <1>2, StaysUnburied DEF BuriedInv
<1>3. ASSUME NEW q \in Runner, q # r PROVE Recovered(q)'
  <2>1. LaneOf[q] \in Lane /\ LaneOf[q] # LaneOf[r] /\ x.lane # LaneOf[q]
    BY <1>1, <1>3, RunnerTypes DEF OneJobPerLane
  <2>2. Here(q).prepared = Here(q)'.prepared
    BY <2>1 DEF Here
  <2>3. Recovered(q) /\ Unburied(LaneOf[q])
    BY <2>1 DEF BuriedInv
  <2>4. QED
    BY <1>1, <1>3, <2>1, <2>2, <2>3, StaysRecovered
<1>4. QED
  BY <1>2, <1>3 DEF BuriedInv

\* A push: on top of nothing that the lane has left to recover.
LEMMA AdvanceUnburied ==
    ASSUME OneJobPerLane, BuriedInv, TrunkInv', NEW r \in Runner,
           Advance(r) \/ AdvanceUnheard(r)
    PROVE  BuriedInv'
<1> DEFINE x == Land(LaneOf[r], work[r])
<1>1. /\ TypeOK /\ TypeOK' /\ Recovered(r) /\ LaneOf[r] \in Lane
      /\ Unburied(LaneOf[r]) /\ NoLane \notin Lane
  BY RunnerTypes, MergeQueueAssumption DEF BuriedInv, TrunkInv
<1>2. x \in LandType /\ x.lane = LaneOf[r]
  BY <1>1, SpecType DEF Land
<1>3. /\ pc[r] = "land" /\ lane' = lane
      /\ \/ trunk = base[r] /\ trunk' = Append(trunk, x)
         \/ trunk' = trunk
  BY DEF Advance, AdvanceUnheard, LeaseHolds, Spec, local
<1> HIDE DEF x
<1>4. /\ pc'[r] \in {"idle", "confirm"}
      /\ \A q \in Runner \ {r} : /\ pc'[q] = pc[q] /\ snap'[q] = snap[q]
                                /\ base'[q] = base[q]
  BY <1>1 DEF Advance, AdvanceUnheard, Finish, Goto, local, TypeOK
<1>5. Recovered(r)'
  BY <1>4, NothingRecovered
<1>6. NoLand \in LandType /\ NoLand.lane = NoLane
  BY DEF NoLand, LandType
<1>7. CASE trunk' = trunk
  <2>1. Unburied(LaneOf[r])' /\ Grows(NoLand)
    BY <1>1, <1>3, <1>6, <1>7, StaysUnburied DEF Grows
  <2>2. QED
    BY <1>3, <1>4, <1>5, <1>6, <2>1, OthersStay
<1>8. CASE trunk = base[r] /\ trunk' = Append(trunk, x)
  <2>1. \A i \in lane'[LaneOf[r]].prepared : i.spec # trunk
    BY <1>1, <1>3, <1>8 DEF Recovered, OnBase, Here
  <2>2. Unburied(LaneOf[r])' /\ Grows(x)
    BY <1>1, <1>2, <1>3, <1>8, <2>1, StaysUnburied DEF Grows
  <2>3. QED
    BY <1>2, <1>3, <1>4, <1>5, <2>2, OthersStay
<1>9. QED
  BY <1>3, <1>7, <1>8

LEMMA NextBuried ==
    ASSUME OneJobPerLane, BuriedInv, [Next]_vars
    PROVE  BuriedInv'
<1>1. /\ TrunkInv' /\ TypeOK' /\ TypeOK /\ NoLane \notin Lane
      /\ \A l \in Lane : Unburied(l)
      /\ \A r \in Runner : Recovered(r) /\ LaneOf[r] \in Lane
  BY NextTrunk, RunnerTypes, MergeQueueAssumption DEF BuriedInv, TrunkInv
<1>2. NoLand \in LandType /\ NoLand.lane = NoLane
  BY DEF NoLand, LandType
<1>3. ASSUME trunk' = trunk, pc' = pc, snap' = snap, base' = base,
             \A l \in Lane : lane'[l].prepared = lane[l].prepared
      PROVE  BuriedInv'
  <2>1. Grows(NoLand)
    BY <1>3 DEF Grows
  <2>2. \A l \in Lane : Unburied(l)'
    BY <1>1, <1>2, <1>3, <2>1, StaysUnburied
  <2>3. ASSUME NEW r \in Runner PROVE Recovered(r)'
    <3>1. Here(r)'.prepared = Here(r).prepared
      BY <1>1, <1>3 DEF Here
    <3>2. QED
      BY <1>1, <1>2, <1>3, <2>1, <3>1, StaysRecovered
  <2>4. QED
    BY <1>1, <2>2, <2>3 DEF BuriedInv
<1>4. CASE UNCHANGED vars
  BY <1>3, <1>4 DEF vars, local
<1>5. ASSUME NEW l \in Lane, NEW p \in PR, Enqueue(l, p) PROVE BuriedInv'
  <2>1. \A k \in Lane : lane'[k].prepared = lane[k].prepared
    BY <1>1, <1>5, HarmlessEvents DEF Enqueue, TypeOK
  <2>2. QED
    BY <1>3, <1>5, <2>1 DEF Enqueue, local
<1>6. ASSUME NEW h \in Hotfix, PushHotfix(h) PROVE BuriedInv'
  <2> DEFINE x == [lane |-> NoLane, no |-> 0, prs |-> {h}]
  <2>1. x \in LandType /\ x.lane = NoLane
    BY DEF LandType, Change
  <2>2. Grows(x)
    BY <1>6 DEF PushHotfix, Grows
  <2> HIDE DEF x
  <2>3. lane' = lane /\ pc' = pc /\ snap' = snap /\ base' = base
    BY <1>6 DEF PushHotfix, local
  <2>4. \A l \in Lane : Unburied(l)'
    BY <1>1, <2>1, <2>2, <2>3, StaysUnburied
  <2>5. ASSUME NEW r \in Runner PROVE Recovered(r)'
    <3>1. Here(r)'.prepared = Here(r).prepared /\ x.lane # LaneOf[r]
      BY <1>1, <2>1, <2>3 DEF Here
    <3>2. QED
      BY <1>1, <2>1, <2>2, <2>3, <3>1, StaysRecovered
  <2>6. QED
    BY <1>1, <2>4, <2>5 DEF BuriedInv
<1>7. ASSUME NEW r \in Runner, Run(r) \/ AdvanceUnheard(r) \/ Crash(r)
      PROVE  BuriedInv'
  <2>1. CASE Advance(r) \/ AdvanceUnheard(r)
    BY <1>1, <2>1, AdvanceUnburied
  <2>2. ASSUME trunk' = trunk, Recovered(r)', Unburied(LaneOf[r])',
               \A q \in Runner \ {r} : /\ pc'[q] = pc[q] /\ snap'[q] = snap[q]
                                       /\ base'[q] = base[q],
               \A l \in Lane \ {LaneOf[r]} : lane'[l].prepared = lane[l].prepared
        PROVE  BuriedInv'
    BY <1>1, <1>2, <2>2, OthersStay DEF Grows
  <2>3. ASSUME trunk' = trunk,
               lane'[LaneOf[r]].prepared \subseteq lane[LaneOf[r]].prepared
        PROVE  Unburied(LaneOf[r])'
    BY <1>1, <1>2, <2>3, StaysUnburied DEF Grows
  <2>4. CASE HarmlessAction(r)
    <3>1. HarmlessBy(r) /\ Recovered(r)'
      BY <1>1, <2>4, HarmlessActions, HarmlessRecovered
    <3>2. QED
      BY <1>1, <2>2, <2>3, <3>1 DEF HarmlessBy
  <2>5. CASE Complete(r) \/ VerdictGreen(r) \/ Confirm(r) \/ Record(r)
    <3>1. /\ trunk' = trunk
          /\ \A q \in Runner \ {r} : /\ pc'[q] = pc[q] /\ snap'[q] = snap[q]
                                    /\ base'[q] = base[q]
          /\ \A l \in Lane \ {LaneOf[r]} : lane'[l].prepared = lane[l].prepared
      <4>1. lane' = lane \/ \E s : Log(r, s)
        BY <2>5 DEF Complete, VerdictGreen, Confirm, Record
      <4>2. \A l \in Lane \ {LaneOf[r]} : lane'[l] = lane[l]
        BY <1>1, <4>1 DEF Log, TypeOK
      <4>3. QED
        BY <1>1, <2>5, <4>2
           DEF Complete, VerdictGreen, Confirm, Record, Goto, local, TypeOK
    <3>2. CASE Complete(r)
      BY <1>1, <2>2, <2>3, <3>1, <3>2, CompleteRecovered DEF Here
    <3>3. CASE VerdictGreen(r)
      BY <1>1, <2>2, <3>1, <3>3, PrepareUnburied
    <3>4. CASE Confirm(r) \/ Record(r)
      <4>1. pc'[r] \in {"record", "tuneUp"}
        BY <1>1, <3>4, LocalState DEF Confirm, Record
      <4>2. Here(r) \in LaneType
        BY <1>1 DEF Here, TypeOK
      <4>3. lane'[LaneOf[r]].prepared \subseteq lane[LaneOf[r]].prepared
        <5>1. CASE Confirm(r)
          BY <5>1 DEF Confirm
        <5>2. CASE Record(r)
          <6>1. Here(r)'.prepared = {j \in Here(r).prepared : j.no # work[r].no}
            <7>1. Here(r)' = BatchLanded(Here(r), work[r].prs, work[r].no)
              BY <1>1, <5>2, LocalState DEF Record
            <7>2. QED
              BY <4>2, <7>1, IntentFields
          <6>2. QED
            BY <6>1 DEF Here
        <5>3. QED
          BY <3>4, <5>1, <5>2
      <4>4. QED
        BY <2>2, <2>3, <3>1, <4>1, <4>3, NothingRecovered
    <3>5. QED
      BY <2>5, <3>2, <3>3, <3>4
  <2>6. QED
    BY <1>7, <2>1, <2>4, <2>5
       DEF Run, Recover, Speculate, RecordLand, HarmlessAction
<1>8. QED
  BY <1>4, <1>5, <1>6, <1>7 DEF Next

\* What the invariant says of an intent that is given up.
LEMMA BuriedSays == BuriedInv => LostOnlyIfOvertaken
<1>1. SUFFICES ASSUME BuriedInv, NEW r \in Runner, pc[r] = "complete",
                      NEW i \in Abandoned(r), IsPrefix(i.spec, base[r])
               PROVE  \E x \in LandOnTop(i, base[r]) : x.lane # LaneOf[r]
  BY DEF LostOnlyIfOvertaken
<1>2. /\ TypeOK /\ Recovered(r) /\ LaneOf[r] \in Lane /\ Unburied(LaneOf[r])
      /\ IsPrefix(base[r], trunk) /\ Here(r) \in LaneType
      /\ base[r] \in TrunkType /\ trunk \in TrunkType
  BY <1>1, RunnerTypes DEF BuriedInv, TrunkInv, BaseIsPast, TypeOK, Here
<1>3. /\ i \in Here(r).prepared /\ i.spec # base[r] /\ i.spec \in TrunkType
  BY <1>1, <1>2 DEF Recovered, Abandoned, LaneType, Intent
<1>4. Len(base[r]) \in DOMAIN base[r] /\ Len(i.spec) < Len(base[r])
  BY <1>1, <1>2, <1>3, PastIsShorter
<1>5. IsPrefix(i.spec, trunk)
  BY <1>1, <1>2, <1>3, PrefixTransitive DEF TrunkType
<1>6. Len(base[r]) \in 0 .. Len(trunk) /\ Len(i.spec) \in Nat /\ Len(trunk) \in Nat
  BY <1>2, <1>3, PrefixIsSubSeq DEF TrunkType
<1>7. i.spec # trunk
  BY <1>4, <1>6
<1>8. PICK k \in DOMAIN trunk : k = Len(i.spec) + 1 /\ trunk[k].lane # LaneOf[r]
  BY <1>2, <1>3, <1>5, <1>7 DEF Unburied, LandOnTop, Here
<1>9. k \in DOMAIN base[r]
  BY <1>2, <1>4, <1>6, <1>8 DEF TrunkType
<1>10. trunk[k] = base[r][k]
  BY <1>2, <1>9, PrefixKeepsEntries DEF TrunkType
<1>11. QED
  BY <1>8, <1>9, <1>10 DEF LandOnTop

\* An advance is lost to the recovery only by a land of another lane, or a hotfix,
\* right on top of it: a lane that recovers before each tick never buries a land
\* of its own, whatever is killed, unheard or pushed beside it.
THEOREM LostToOthersOnly ==
    OneJobPerLane => (Behaviour => []LostOnlyIfOvertaken)
<1>1. SUFFICES ASSUME OneJobPerLane PROVE Behaviour => []LostOnlyIfOvertaken
  OBVIOUS
<1>2. Init => BuriedInv
  <2>1. Init => TrunkInv
    BY InitTrunk
  <2>2. EmptyLane.prepared = {}
    BY DEF EmptyLane
  <2>3. Init => (\A l \in Lane : Unburied(l)) /\ (\A r \in Runner : Recovered(r))
    BY <2>2 DEF Init, Unburied, Recovered, OnBase
  <2>4. QED
    BY <2>1, <2>3 DEF BuriedInv
<1>3. BuriedInv /\ [Next]_vars => BuriedInv'
  BY <1>1, NextBuried
<1>4. QED
  BY <1>2, <1>3, BuriedSays, PTL DEF Behaviour
=============================================================================
