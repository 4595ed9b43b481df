--------------------------- MODULE GovernorProofs ---------------------------
(***************************************************************************)
(* The ledger is never ahead of the lanes: with a time-to-live that covers *)
(* acquiring and ticking together, no token is reaped while its lane still *)
(* ticks - for any number of lanes, overlapping calls and killed jobs; and *)
(* the budget is kept unless tokens sort against the order of the log.     *)
(***************************************************************************)
EXTENDS GovernorOrder, FiniteSetTheorems, WellFoundedInduction, TLAPS

-----------------------------------------------------------------------------
(* Finite sets *)

\* A relation without infinite chains: among finitely many things, one has nothing
\* above it, if being above is transitive and nothing is above itself.
LEMMA TopExists ==
    ASSUME NEW S, IsFiniteSet(S), S # {}, NEW R,
           \A x \in S : <<x, x>> \notin R,
           \A x, y, z \in S : <<x, y>> \in R /\ <<y, z>> \in R => <<x, z>> \in R
    PROVE  \E x \in S : \A y \in S : <<x, y>> \notin R
<1> DEFINE Above(x) == {y \in S : <<x, y>> \in R}
           T == {Above(x) : x \in S}
<1>1. FiniteSubsetsOf(S) = SUBSET S
  BY FS_FiniteSubsetsOfFinite
<1>2. T \subseteq FiniteSubsetsOf(S) /\ T # {}
  <2>1. \A x \in S : Above(x) \in SUBSET S
    OBVIOUS
  <2>2. PICK x \in S : TRUE
    OBVIOUS
  <2> HIDE DEF Above
  <2>3. Above(x) \in T
    OBVIOUS
  <2>4. T \subseteq SUBSET S
    BY <2>1
  <2>5. QED
    BY <1>1, <2>3, <2>4
<1>3. IsWellFoundedOn(StrictSubsetOrdering(S), FiniteSubsetsOf(S))
  BY FS_StrictSubsetOrderingWellFounded
<1>4. PICK A \in T : \A B \in T : <<B, A>> \notin StrictSubsetOrdering(S)
  BY <1>2, <1>3, WFMin
<1>5. PICK x \in S : A = Above(x)
  BY <1>4
<1>6. SUFFICES ASSUME NEW y \in S, <<x, y>> \in R PROVE FALSE
  OBVIOUS
<1>7. y \in Above(x) /\ y \notin Above(y) /\ Above(y) \subseteq Above(x)
  BY <1>6
<1>8. Above(y) \in T /\ Above(y) \in SUBSET S /\ Above(x) \in SUBSET S
  OBVIOUS
<1>9. <<Above(y), Above(x)>> \in StrictSubsetOrdering(S)
  BY <1>7, <1>8 DEF StrictSubsetOrdering
<1>10. QED
  BY <1>4, <1>5, <1>8, <1>9

-----------------------------------------------------------------------------
\* The constants are natural numbers.
LEMMA Numbers ==
    /\ TTL \in Nat /\ MaxCI \in Nat /\ AcquireMax \in Nat
    /\ MaxTokens \in Nat /\ MaxCrashes \in Nat
BY GovernorAssumption DEF GovernorAssumption

\* The initial state is typed.
LEMMA TypeInit == Init => TypeOK
BY Numbers DEF Init, TypeOK, Phase

\* A call that returns leaves a typed state.
LEMMA ReturnTypes ==
    ASSUME TypeOK, NEW p \in Proc, Return(p)
    PROVE  /\ pc' \in [Proc -> Phase]
           /\ age' \in [Proc -> 0 .. AcquireMax]
           /\ seen' \in [Proc -> SUBSET Token]
           /\ full' \in [Proc -> BOOLEAN]
           /\ tok' \in [Proc -> Token \cup {NoToken}]
           /\ spent' \in [Proc -> 0 .. MaxCI]
BY Numbers DEF TypeOK, Return, Phase

\* So does one that drops a lease.
LEMMA DropTypes ==
    ASSUME TypeOK, NEW t, Drop(t)
    PROVE  acquired' \subseteq Token /\ left' \in [Token -> Int]
<1>1. acquired' \subseteq Token
  BY DEF TypeOK, Drop
<1>2. left' = [u \in Token |-> IF u = t THEN 0 ELSE left[u]]
  BY Zenon DEF TypeOK, Drop
<1> QED
  BY <1>1, <1>2 DEF TypeOK

\* The clock keeps the types: no lease is ever due further than TTL away.
LEMMA TypeTick == TypeOK /\ Tick => TypeOK'
<1> SUFFICES ASSUME TypeOK, Tick PROVE TypeOK'
  OBVIOUS
<1>1. left' \in [Token -> Int]
  BY Numbers DEF TypeOK, Tick, Elapse
<1>2. age' \in [Proc -> 0 .. AcquireMax]
  BY Numbers DEF TypeOK, Tick, Elapse
<1>3. spent' \in [Proc -> 0 .. MaxCI]
  BY Numbers DEF TypeOK, Tick, Elapse
<1> QED
  BY <1>1, <1>2, <1>3 DEF TypeOK, Tick, Elapse

\* Every step of a process keeps the types.
LEMMA TypeProc ==
    ASSUME TypeOK, NEW p \in Proc, Step(p) \/ Crash(p)
    PROVE  TypeOK'
<1> USE DEF ledger, local
<1>1. CASE ReadClock(p)
  BY <1>1 DEF TypeOK, ReadClock, Phase
<1>2. CASE ReadLog(p)
  <2>1. Expired(p) \subseteq Token
    BY DEF TypeOK, Expired
  <2> QED
    BY <1>2, <2>1 DEF TypeOK, ReadLog, Phase
<1>3. CASE Reap(p)
  BY <1>3, DropTypes DEF TypeOK, Reap
<1>4. CASE ReapDone(p)
  BY <1>4, ReturnTypes DEF TypeOK, ReapDone
<1>5. ASSUME p \in Holder, Issue(p) PROVE TypeOK'
  <2>1. PICK t \in Fresh(p) : /\ acquired' = acquired \cup {t}
                              /\ left' = [left EXCEPT ![t] = Expiry(p)]
                              /\ tok' = [tok EXCEPT ![p] = t]
    BY <1>5 DEF Issue
  <2>2. t \in Token
    BY <1>5 DEF Fresh, Token
  <2>3. Expiry(p) \in Int
    BY Numbers DEF TypeOK, Expiry
  <2> QED
    BY <1>5, <2>1, <2>2, <2>3 DEF TypeOK, Issue, Phase
<1>6. CASE Keep(p)
  BY <1>6, Numbers DEF TypeOK, Keep, Phase
<1>7. CASE GiveUp(p)
  BY <1>7 DEF TypeOK, GiveUp, Phase
<1>8. CASE Undo(p)
  BY <1>8, DropTypes, ReturnTypes DEF TypeOK, Undo
<1>9. CASE Release(p)
  BY <1>9, DropTypes, ReturnTypes DEF TypeOK, Release
<1>10. CASE Crash(p)
  <2>1. crashes' \in 0 .. MaxCrashes
    BY <1>10, Numbers DEF TypeOK, Crash
  <2> QED
    BY <1>10, <2>1, ReturnTypes DEF TypeOK, Crash
<1> QED
  BY <1>1, <1>2, <1>3, <1>4, <1>5, <1>6, <1>7, <1>8, <1>9, <1>10
  DEF Step, Acquire

\* Every step keeps the types.
LEMMA TypeStep == TypeOK /\ [Next]_vars => TypeOK'
<1> SUFFICES ASSUME TypeOK, [Next]_vars PROVE TypeOK'
  OBVIOUS
<1>1. CASE UNCHANGED vars
  BY <1>1 DEF TypeOK, vars
<1> QED
  BY <1>1, TypeTick, TypeProc DEF Next

\* Every variable of the governor keeps its type (governor.py).
THEOREM GovernorTypes == Spec => []TypeOK
BY TypeInit, TypeStep, PTL DEF Spec

-----------------------------------------------------------------------------
(* A token in the hand of its lane *)

Owns(h) == pc[h] \in {"recheck", "undo", "work"}
Holds(h) == pc[h] \in {"recheck", "work"}

\* The token is of the lane's own numbering.
OwnToken == \A h \in Holder : Owns(h) => tok[h] \in Token /\ tok[h][1] = h

\* A held token is in the ledger, and nobody is about to reap it.
HeldIsLogged ==
    \A h \in Holder : Holds(h) =>
        tok[h] \in acquired /\ \A p \in Proc : tok[h] \notin seen[p]

\* It has not lost more time than its lane has used.
HeldHasTime ==
    \A h \in Holder :
        /\ pc[h] = "recheck" => left[tok[h]] >= TTL - age[h]
        /\ pc[h] = "work" => left[tok[h]] >= TTL - AcquireMax - spent[h]

HeldInv == TypeOK /\ OwnToken /\ HeldIsLogged /\ HeldHasTime

\* The strengthening of HolderNeverReaped holds initially.
LEMMA HeldInit == Init => HeldInv
BY TypeInit DEF Init, HeldInv, OwnToken, HeldIsLogged, HeldHasTime, Owns, Holds,
                Proc

\* What a step may do to the ledger without touching a lane's token.
LEMMA DropsOther ==
    ASSUME HeldInv, NEW h \in Holder, Holds(h), NEW t, Drop(t), t # tok[h]
    PROVE  tok[h] \in acquired' /\ left'[tok[h]] = left[tok[h]]
BY DEF HeldInv, TypeOK, OwnToken, HeldIsLogged, Drop, Owns, Holds

\* A lane's token is live for every process.
LEMMA HeldIsLive ==
    ASSUME TTL > MaxCI + AcquireMax, HeldInv,
           NEW h \in Holder, Holds(h), NEW p \in Proc
    PROVE  tok[h] \notin Expired(p)
<1>1. left[tok[h]] > 0
  BY Numbers DEF HeldInv, TypeOK, HeldHasTime, OwnToken, Owns, Holds, Proc
<1>2. age[p] >= 0 /\ age[p] \in Int
  BY Numbers DEF HeldInv, TypeOK
<1>3. tok[h] \in acquired /\ left[tok[h]] \in Int
  BY DEF HeldInv, TypeOK, HeldIsLogged, OwnToken, Owns, Holds
<1> QED
  BY <1>1, <1>2, <1>3 DEF Expired, Live

\* The passing of time keeps it: a CI run ends before its lease expires.
LEMMA HeldTick == HeldInv /\ Tick => HeldInv'
<1> SUFFICES ASSUME HeldInv, Tick PROVE HeldInv'
  OBVIOUS
<1>1. TypeOK'
  BY TypeTick DEF HeldInv
<1>2. OwnToken' /\ HeldIsLogged'
  BY DEF HeldInv, OwnToken, HeldIsLogged, Owns, Holds, Tick, Elapse
<1>3. ASSUME NEW h \in Holder
      PROVE  /\ pc'[h] = "recheck" => left'[tok'[h]] >= TTL - age'[h]
             /\ pc'[h] = "work" => left'[tok'[h]] >= TTL - AcquireMax - spent'[h]
  <2>1. h \in Proc /\ pc' = pc /\ tok' = tok
    BY DEF Proc, Tick, Elapse
  <2>2. ASSUME Holds(h)
        PROVE  left'[tok[h]] >= left[tok[h]] - 1 /\ left[tok[h]] \in Int
                 /\ left'[tok[h]] \in Int
    <3>1. tok[h] \in Token
      BY <2>2 DEF HeldInv, OwnToken, Owns, Holds
    <3> QED
      BY <3>1, Numbers DEF HeldInv, TypeOK, Tick, Elapse
  <2>3. age[h] \in Nat /\ spent[h] \in Nat
    BY <2>1, Numbers DEF HeldInv, TypeOK
  <2>4. CASE pc[h] = "recheck"
    <3>1. age'[h] = age[h] + 1
      BY <2>1, <2>4 DEF Tick, Elapse, Acquiring
    <3> QED
      BY <2>1, <2>2, <2>3, <2>4, <3>1, Numbers DEF HeldInv, HeldHasTime, Holds
  <2>5. CASE pc[h] = "work"
    <3>1. spent'[h] = spent[h] + 1
      BY <2>1, <2>5 DEF Tick, Elapse
    <3> QED
      BY <2>1, <2>2, <2>3, <2>5, <3>1, Numbers DEF HeldInv, HeldHasTime, Holds
  <2> QED
    BY <2>1, <2>4, <2>5
<1> QED
  BY <1>1, <1>2, <1>3 DEF HeldInv, HeldHasTime

\* What a step of p leaves to the others.
LEMMA Bystanders ==
    ASSUME HeldInv, NEW p \in Proc, Step(p) \/ Crash(p), NEW q \in Proc \ {p}
    PROVE  /\ pc'[q] = pc[q] /\ tok'[q] = tok[q] /\ seen'[q] = seen[q]
           /\ age'[q] = age[q] /\ spent'[q] = spent[q]
<1> USE DEF HeldInv, TypeOK, ledger, local
<1>1. CASE ReadClock(p) \/ ReadLog(p) \/ Reap(p)
  BY <1>1 DEF ReadClock, ReadLog, Reap
<1>2. CASE ReapDone(p) \/ Undo(p) \/ Release(p) \/ Crash(p)
  BY <1>2 DEF ReapDone, Undo, Release, Crash, Return
<1>3. CASE Issue(p) \/ Keep(p) \/ GiveUp(p)
  BY <1>3 DEF Issue, Keep, GiveUp
<1> QED
  BY <1>1, <1>2, <1>3 DEF Step, Acquire

\* A step of p takes no other lane's token out of the ledger.
LEMMA OthersKeepTheirs ==
    ASSUME HeldInv, NEW p \in Proc, Step(p) \/ Crash(p),
           NEW h \in Holder \ {p}, Holds(h)
    PROVE  tok[h] \in acquired' /\ left'[tok[h]] = left[tok[h]]
<1> USE DEF ledger, local
<1>1. h \in Holder /\ tok[h] \in acquired /\ tok[h] \in Token /\ tok[h][1] = h
  BY DEF HeldInv, HeldIsLogged, OwnToken, Owns, Holds
<1>2. CASE ReadClock(p) \/ ReadLog(p) \/ ReapDone(p) \/ Keep(p) \/ GiveUp(p) \/ Crash(p)
  BY <1>1, <1>2 DEF ReadClock, ReadLog, ReapDone, Keep, GiveUp, Crash
<1>3. CASE Reap(p)
  <2>1. PICK t \in seen[p] : Drop(t)
    BY <1>3 DEF Reap
  <2>2. t # tok[h]
    BY <1>1, <2>1 DEF HeldInv, HeldIsLogged
  <2> QED
    BY <1>1, <2>1, <2>2, DropsOther
<1>4. CASE p \in Holder /\ (Undo(p) \/ Release(p))
  <2>1. Drop(tok[p])
    BY <1>4 DEF Undo, Release
  <2>2. tok[p] # tok[h]
    BY <1>1, <1>4 DEF HeldInv, OwnToken, Owns, Undo, Release
  <2> QED
    BY <1>1, <2>1, <2>2, DropsOther
<1>5. CASE p \in Holder /\ Issue(p)
  <2>1. PICK t \in Fresh(p) : /\ acquired' = acquired \cup {t}
                              /\ left' = [left EXCEPT ![t] = Expiry(p)]
    BY <1>5 DEF Issue
  <2>2. t # tok[h]
    BY <1>1, <2>1 DEF Fresh, InUse
  <2> QED
    BY <1>1, <2>1, <2>2 DEF HeldInv, TypeOK
<1> QED
  BY <1>2, <1>3, <1>4, <1>5 DEF Step, Acquire

\* What p may reap next was on its list or has expired.
LEMMA SeenGrowth ==
    ASSUME HeldInv, NEW p \in Proc, Step(p) \/ Crash(p)
    PROVE  seen'[p] \subseteq seen[p] \cup Expired(p)
<1> USE DEF HeldInv, TypeOK, ledger, local
<1>1. CASE ReadClock(p) \/ ReadLog(p) \/ Reap(p)
  BY <1>1 DEF ReadClock, ReadLog, Reap
<1>2. CASE ReapDone(p) \/ Undo(p) \/ Release(p) \/ Crash(p)
  BY <1>2 DEF ReapDone, Undo, Release, Crash, Return
<1>3. CASE Issue(p) \/ Keep(p) \/ GiveUp(p)
  BY <1>3 DEF Issue, Keep, GiveUp
<1> QED
  BY <1>1, <1>2, <1>3 DEF Step, Acquire

\* What the invariant says of one lane.
HeldBy(h) ==
    /\ Owns(h) => tok[h] \in Token /\ tok[h][1] = h
    /\ Holds(h) => tok[h] \in acquired /\ \A q \in Proc : tok[h] \notin seen[q]
    /\ pc[h] = "recheck" => left[tok[h]] >= TTL - age[h]
    /\ pc[h] = "work" => left[tok[h]] >= TTL - AcquireMax - spent[h]

\* The lane that takes the step.
LEMMA OwnStep ==
    ASSUME HeldInv, NEW p \in Holder, Step(p) \/ Crash(p)
    PROVE  HeldBy(p)'
<1> USE DEF ledger, local
<1>1. p \in Proc
  BY DEF Proc
<1>2. CASE ReadClock(p) \/ ReadLog(p) \/ Reap(p)
  BY <1>1, <1>2 DEF HeldInv, TypeOK, HeldBy, Owns, Holds, ReadClock, ReadLog, Reap
<1>3. CASE ReapDone(p) \/ Undo(p) \/ Release(p) \/ Crash(p)
  <2>1. pc'[p] = "idle"
    BY <1>1, <1>3 DEF HeldInv, TypeOK, ReapDone, Undo, Release, Crash, Return
  <2> QED
    BY <2>1 DEF HeldBy, Owns, Holds
<1>4. CASE Issue(p)
  <2>1. PICK t \in Fresh(p) : /\ acquired' = acquired \cup {t}
                              /\ left' = [left EXCEPT ![t] = Expiry(p)]
                              /\ tok' = [tok EXCEPT ![p] = t]
    BY <1>4 DEF Issue
  <2>2. t \in Token /\ t[1] = p /\ \A q \in Proc : t \notin seen[q]
    BY <2>1 DEF Fresh, InUse, Token
  <2>3. tok'[p] = t /\ pc'[p] = "recheck" /\ seen' = seen /\ age' = age
    BY <1>1, <1>4, <2>1 DEF HeldInv, TypeOK, Issue
  <2>4. left'[t] = TTL - age[p] /\ left'[t] \in Int
    BY <1>1, <2>1, <2>2, Numbers DEF HeldInv, TypeOK, Expiry
  <2> QED
    BY <2>1, <2>2, <2>3, <2>4 DEF HeldBy, Owns, Holds
<1>5. CASE Keep(p)
  <2>1. pc[p] = "recheck" /\ pc'[p] = "work" /\ tok' = tok /\ seen' = seen
          /\ acquired' = acquired /\ left' = left /\ spent' = spent
    BY <1>1, <1>5 DEF HeldInv, TypeOK, Keep
  <2>2. tok[p] \in Token /\ tok[p][1] = p /\ tok[p] \in acquired
          /\ \A q \in Proc : tok[p] \notin seen[q]
    BY <2>1 DEF HeldInv, OwnToken, HeldIsLogged, Owns, Holds
  <2>3. left[tok[p]] >= TTL - age[p]
    BY <2>1 DEF HeldInv, HeldHasTime
  <2>4. left[tok[p]] >= TTL - AcquireMax - spent[p]
    <3>1. age[p] \in 0 .. AcquireMax /\ spent[p] \in Nat /\ left[tok[p]] \in Int
      BY <1>1, <2>2, Numbers DEF HeldInv, TypeOK
    <3> QED
      BY <2>3, <3>1, Numbers
  <2> QED
    BY <2>1, <2>2, <2>4 DEF HeldBy, Owns, Holds
<1>6. CASE GiveUp(p)
  <2>1. pc[p] = "recheck" /\ pc'[p] = "undo" /\ tok' = tok
    BY <1>1, <1>6 DEF HeldInv, TypeOK, GiveUp
  <2> QED
    BY <2>1 DEF HeldInv, OwnToken, HeldBy, Owns, Holds
<1> QED
  BY <1>2, <1>3, <1>4, <1>5, <1>6 DEF Step, Acquire

\* Every step of a holder or of the reconciler keeps it.
LEMMA HeldProc ==
    ASSUME TTL > MaxCI + AcquireMax, HeldInv,
           NEW p \in Proc, Step(p) \/ Crash(p)
    PROVE  HeldInv'
<1>1. TypeOK'
  BY TypeProc DEF HeldInv
<1>2. ASSUME NEW h \in Holder PROVE HeldBy(h)'
  <2>1. CASE h = p
    BY <2>1, OwnStep
  <2>2. CASE h # p
    <3>1. h \in Proc \ {p} /\ h \in Holder \ {p}
      BY <2>2 DEF Proc
    <3>2. /\ pc'[h] = pc[h] /\ tok'[h] = tok[h]
          /\ age'[h] = age[h] /\ spent'[h] = spent[h]
      BY <3>1, Bystanders
    <3>3. Holds(h) => tok[h] \in acquired' /\ left'[tok[h]] = left[tok[h]]
      BY <3>1, OthersKeepTheirs
    <3>4. ASSUME Holds(h), NEW q \in Proc PROVE tok[h] \notin seen'[q]
      <4>1. tok[h] \notin seen[q] /\ tok[h] \notin Expired(p)
        BY <3>4, HeldIsLive DEF HeldInv, HeldIsLogged
      <4>2. CASE q = p
        BY <4>1, <4>2, SeenGrowth
      <4>3. CASE q # p
        BY <4>1, <4>3, Bystanders
      <4> QED
        BY <4>2, <4>3
    <3> QED
      BY <3>2, <3>3, <3>4
      DEF HeldInv, OwnToken, HeldHasTime, HeldBy, Owns, Holds
  <2> QED
    BY <2>1, <2>2
<1> QED
  BY <1>1, <1>2 DEF HeldInv, OwnToken, HeldIsLogged, HeldHasTime, HeldBy, Owns, Holds

\* Every step keeps it.
LEMMA HeldStep ==
    ASSUME TTL > MaxCI + AcquireMax
    PROVE  HeldInv /\ [Next]_vars => HeldInv'
<1> SUFFICES ASSUME HeldInv, [Next]_vars PROVE HeldInv'
  OBVIOUS
<1>1. CASE UNCHANGED vars
  BY <1>1 DEF vars, HeldInv, TypeOK, OwnToken, HeldIsLogged, HeldHasTime, Owns, Holds
<1> QED
  BY <1>1, HeldTick, HeldProc DEF Next

\* The token of a ticking lane stays in the ledger, so its slot is not issued
\* again, if the time-to-live covers the acquisition as well as the tick: more
\* than WriteGovernor's assertion asks for (governor.py:36-37).
THEOREM NeverReaped ==
    ASSUME TTL > MaxCI + AcquireMax
    PROVE  Spec => []HolderNeverReaped
<1>1. HeldInv => HolderNeverReaped
  BY DEF HeldInv, HeldIsLogged, HolderNeverReaped, Working, Holds
<1> QED
  BY <1>1, HeldInit, HeldStep, PTL DEF Spec

-----------------------------------------------------------------------------
(* The budget, and the order of the log *)

\* The log orders the tokens of the fold, and no others.
LogOrder ==
    /\ IsFiniteSet(acquired)
    /\ older \subseteq acquired \X acquired
    /\ \A a, b \in acquired : a = b \/ <<a, b>> \in older \/ <<b, a>> \in older

\* The tokens that lanes hold, are older than the one of h, and sort before it.
Elders(h) ==
    {tok[g] : g \in {k \in Holder : /\ Holds(k)
                                    /\ <<tok[k], tok[h]>> \in older
                                    /\ Before(tok[k], tok[h])}}

\* What the re-check of a ticking lane has seen: fewer of them than the budget.
EldersFit == \A h \in Working : Cardinality(Elders(h)) < Budget

OrderInv == HeldInv /\ LogOrder /\ EldersFit

\* A held token is one of the fold, and of its lane alone.
LEMMA HeldTokens ==
    ASSUME HeldInv, NEW h \in Holder, Holds(h)
    PROVE  /\ tok[h] \in acquired /\ tok[h] \in Token /\ tok[h][1] = h
           /\ left[tok[h]] \in Int
BY DEF HeldInv, HeldIsLogged, OwnToken, Owns, Holds, TypeOK

\* The elders are finitely many.
LEMMA EldersFinite ==
    ASSUME HeldInv, LogOrder, NEW h
    PROVE  IsFiniteSet(Elders(h)) /\ Cardinality(Elders(h)) \in Nat
<1>1. Elders(h) \subseteq acquired
  BY HeldTokens DEF Elders
<1>2. QED
  BY <1>1, FS_Subset, FS_CardinalityType DEF LogOrder

\* At most one token is appended or dropped by a step.
LEMMA LedgerSteps ==
    ASSUME [Next]_vars
    PROVE  \/ acquired' = acquired
           \/ \E t : acquired' = acquired \ {t}
           \/ \E t : acquired' = acquired \cup {t}
<1>1. CASE UNCHANGED vars \/ Tick
  BY <1>1 DEF vars, Tick, Elapse
<1>2. ASSUME NEW p \in Proc, Step(p) \/ Crash(p)
      PROVE  \/ acquired' = acquired
             \/ \E t : acquired' = acquired \ {t}
             \/ \E t : acquired' = acquired \cup {t}
  <2> USE DEF ledger
  <2>1. CASE ReadClock(p) \/ ReadLog(p) \/ ReapDone(p) \/ Keep(p) \/ GiveUp(p) \/ Crash(p)
    BY <2>1 DEF ReadClock, ReadLog, ReapDone, Keep, GiveUp, Crash
  <2>2. CASE Reap(p) \/ Undo(p) \/ Release(p)
    BY <2>2 DEF Reap, Undo, Release, Drop
  <2>3. CASE Issue(p)
    BY <2>3 DEF Issue
  <2>4. QED
    BY <1>2, <2>1, <2>2, <2>3 DEF Step, Acquire
<1>3. QED
  BY <1>1, <1>2 DEF Next

\* The log keeps its order.
LEMMA NextLogOrder ==
    ASSUME LogOrder, [OrderNext]_ordered
    PROVE  LogOrder'
<1>1. CASE UNCHANGED ordered
  BY <1>1 DEF ordered, vars, LogOrder
<1>2. CASE Next /\ Recorded
  <2>1. IsFiniteSet(acquired')
    <3>1. CASE acquired' = acquired
      BY <3>1 DEF LogOrder
    <3>2. ASSUME NEW t, acquired' = acquired \ {t} PROVE IsFiniteSet(acquired')
      BY <3>2, FS_RemoveElement, FS_Subset DEF LogOrder
    <3>3. ASSUME NEW t, acquired' = acquired \cup {t} PROVE IsFiniteSet(acquired')
      BY <3>3, FS_AddElement DEF LogOrder
    <3>4. QED
      BY <1>2, <3>1, <3>2, <3>3, LedgerSteps
  <2>2. older' \subseteq acquired' \X acquired'
    BY <1>2 DEF Recorded, LogOrder
  <2>3. ASSUME NEW a \in acquired', NEW b \in acquired', a # b
        PROVE  <<a, b>> \in older' \/ <<b, a>> \in older'
    <3>1. CASE a \in acquired /\ b \in acquired
      BY <1>2, <2>3, <3>1 DEF Recorded, LogOrder
    <3>2. CASE a \in acquired /\ b \notin acquired
      BY <1>2, <2>3, <3>2 DEF Recorded
    <3>3. CASE a \notin acquired /\ b \in acquired
      BY <1>2, <2>3, <3>3 DEF Recorded
    <3>4. a \in acquired \/ b \in acquired
      BY <1>2, <2>3, LedgerSteps
    <3>5. QED
      BY <3>1, <3>2, <3>3, <3>4
  <2>4. QED
    BY <2>1, <2>2, <2>3 DEF LogOrder
<1>3. QED
  BY <1>1, <1>2 DEF OrderNext

\* Time passes for all held tokens alike: they sort as before.
LEMMA TickKeepsElders ==
    ASSUME TTL > MaxCI + AcquireMax, HeldInv, Tick, Recorded, LogOrder,
           NEW h \in Holder, Holds(h)
    PROVE  Elders(h)' \subseteq Elders(h)
<1>1. acquired' = acquired /\ pc' = pc /\ tok' = tok
  BY DEF Tick, Elapse
<1>2. older' \subseteq older
  BY <1>1 DEF Recorded
<1>3. ASSUME NEW g \in Holder, Holds(g) PROVE left'[tok[g]] = left[tok[g]] - 1
  <2>1. g \in Proc /\ tok[g] \in Token /\ tok[g] \in acquired /\ left[tok[g]] \in Int
    BY <1>3, HeldTokens DEF Proc
  <2>2. left[tok[g]] > 0
    BY <1>3, <2>1, Numbers DEF HeldInv, TypeOK, HeldHasTime, Holds
  <2>3. QED
    BY <2>1, <2>2, Numbers DEF Tick, Elapse
<1>4. ASSUME NEW g \in Holder, Holds(g), Before(tok[g], tok[h])'
      PROVE  Before(tok[g], tok[h])
  <2>1. /\ left'[tok[g]] = left[tok[g]] - 1 /\ left[tok[g]] \in Int
        /\ left'[tok[h]] = left[tok[h]] - 1 /\ left[tok[h]] \in Int
    BY <1>3, <1>4, HeldTokens
  <2>2. QED
    BY <1>1, <1>4, <2>1 DEF Before
<1>5. QED
  BY <1>1, <1>2, <1>4 DEF Elders, Holds

\* Whoever has kept its token in this step or before holds it already.
LEMMA ElderBefore ==
    ASSUME HeldInv, NEW p \in Proc, Step(p) \/ Crash(p),
           NEW g \in Holder, Holds(g)', tok'[g] \in acquired
    PROVE  Holds(g) /\ tok'[g] = tok[g] /\ left'[tok[g]] = left[tok[g]]
<1> g \in Proc
  BY DEF Proc
<1>1. CASE g # p
  <2>1. Holds(g) /\ tok'[g] = tok[g]
    BY <1>1, Bystanders DEF Holds
  <2>2. QED
    BY <1>1, <2>1, OthersKeepTheirs
<1>2. CASE g = p
  <2> USE DEF HeldInv, TypeOK, Holds, ledger, local
  <2>1. CASE ReadClock(p) \/ ReadLog(p) \/ Reap(p)
    BY <1>2, <2>1 DEF ReadClock, ReadLog, Reap
  <2>2. CASE ReapDone(p) \/ Undo(p) \/ Release(p) \/ Crash(p)
    BY <1>2, <2>2 DEF ReapDone, Undo, Release, Crash, Return
  <2>3. CASE Issue(p)
    <3>1. PICK t \in Fresh(p) : tok' = [tok EXCEPT ![p] = t]
      BY <2>3 DEF Issue
    <3>2. tok'[p] = t /\ t \notin acquired
      BY <3>1 DEF Fresh, InUse
    <3>3. QED
      BY <1>2, <3>2
  <2>4. CASE Keep(p) \/ GiveUp(p)
    BY <1>2, <2>4 DEF Keep, GiveUp
  <2>5. QED
    BY <2>1, <2>2, <2>3, <2>4 DEF Step, Acquire
<1>3. QED
  BY <1>1, <1>2

\* The elders of a ticking lane only become fewer; when it starts to tick, its
\* re-check has counted them.
LEMMA StepKeepsElders ==
    ASSUME TTL > MaxCI + AcquireMax, HeldInv, HeldInv', LogOrder, Recorded,
           NEW p \in Proc, Step(p) \/ Crash(p), NEW h \in Holder, pc'[h] = "work"
    PROVE  \/ pc[h] = "work" /\ Elders(h)' \subseteq Elders(h)
           \/ Keep(h) /\ Elders(h)' \subseteq {t \in Live(h) : Before(t, tok[h])}
<1>1. Holds(h)' /\ tok'[h] \in acquired' /\ h \in Proc
  BY HeldTokens DEF Holds, HeldInv, HeldIsLogged, Proc
<1>2. \/ pc[h] = "work"
      \/ h = p /\ Keep(h)
  <2>1. CASE h # p
    BY <1>1, <2>1, Bystanders
  <2>2. CASE h = p
    <3> USE DEF HeldInv, TypeOK, ledger, local
    <3>1. CASE ReadClock(p) \/ ReadLog(p) \/ Reap(p)
      BY <2>2, <3>1 DEF ReadClock, ReadLog, Reap
    <3>2. CASE ReapDone(p) \/ Undo(p) \/ Release(p) \/ Crash(p)
      BY <2>2, <3>2 DEF ReapDone, Undo, Release, Crash, Return
    <3>3. CASE Issue(p) \/ GiveUp(p)
      BY <2>2, <3>3 DEF Issue, GiveUp
    <3>4. QED
      BY <2>2, <3>1, <3>2, <3>3 DEF Step, Acquire
  <2>3. QED
    BY <2>1, <2>2
<1>3. Holds(h) /\ tok'[h] = tok[h] /\ left'[tok[h]] = left[tok[h]] /\ tok[h] \in acquired
  <2>1. Holds(h)
    BY <1>2 DEF Holds, Keep
  <2>2. tok[h] \in acquired
    BY <2>1, HeldTokens
  <2>3. tok'[h] = tok[h]
    <3>1. CASE Keep(h)
      BY <3>1 DEF Keep
    <3>2. CASE pc[h] = "work" /\ h # p
      BY <1>1, <3>2, Bystanders
    <3>3. CASE pc[h] = "work" /\ h = p
      <4> USE DEF HeldInv, TypeOK, ledger, local
      <4>1. CASE Release(p) \/ Crash(p)
        BY <3>3, <4>1 DEF Release, Crash, Return
      <4>2. QED
        BY <3>3, <4>1 DEF Step, Acquire, ReadClock, ReadLog, Reap, ReapDone, Issue,
                          Keep, GiveUp, Undo
    <3>4. QED
      BY <1>2, <3>1, <3>2, <3>3
  <2>4. QED
    BY <1>1, <2>1, <2>2, <2>3, ElderBefore
<1>4. ASSUME NEW t \in Elders(h)'
      PROVE  t \in Elders(h) /\ t \in acquired
  <2>1. PICK g \in Holder : /\ t = tok'[g] /\ Holds(g)'
                            /\ <<tok'[g], tok'[h]>> \in older'
                            /\ Before(tok[g], tok[h])'
    BY DEF Elders
  <2>2. <<tok'[g], tok'[h]>> \in older /\ tok'[g] \in acquired
    BY <1>3, <2>1 DEF Recorded, LogOrder
  <2>3. Holds(g) /\ tok'[g] = tok[g] /\ left'[tok[g]] = left[tok[g]]
    BY <2>1, <2>2, ElderBefore
  <2>4. Before(tok[g], tok[h])
    BY <1>3, <2>1, <2>3 DEF Before
  <2>5. QED
    BY <1>3, <2>1, <2>2, <2>3, <2>4 DEF Elders
<1>5. ASSUME NEW t \in Elders(h) PROVE t \in Live(h) /\ Before(t, tok[h])
  <2>1. PICK g \in Holder : t = tok[g] /\ Holds(g) /\ Before(tok[g], tok[h])
    BY DEF Elders
  <2>2. t \in acquired /\ t \notin Expired(h)
    BY <1>1, <2>1, HeldTokens, HeldIsLive
  <2>3. QED
    BY <2>1, <2>2 DEF Expired
<1>6. QED
  BY <1>2, <1>4, <1>5

\* Every step keeps the order invariant.
LEMMA NextOrder ==
    ASSUME TTL > MaxCI + AcquireMax, OrderInv, [OrderNext]_ordered
    PROVE  OrderInv'
<1>1. HeldInv' /\ LogOrder' /\ HeldInv /\ LogOrder
  BY HeldStep, NextLogOrder DEF OrderInv, OrderNext, ordered, vars
<1>2. CASE UNCHANGED ordered
  BY <1>1, <1>2 DEF ordered, vars, OrderInv, EldersFit, Working, Elders, Holds, Before
<1>3. CASE OrderNext
  <2>1. ASSUME NEW h \in Working' PROVE Cardinality(Elders(h)') < Budget
    <3>1. h \in Holder /\ pc'[h] = "work" /\ Next /\ Recorded
      BY <1>3 DEF Working, OrderNext
    <3>2. CASE h \in Working /\ Elders(h)' \subseteq Elders(h)
      <4>1. Cardinality(Elders(h)') <= Cardinality(Elders(h))
        BY <1>1, <3>2, EldersFinite, FS_Subset
      <4>2. IsFiniteSet(Elders(h)') /\ Cardinality(Elders(h)) < Budget
        BY <1>1, <3>2, EldersFinite, FS_Subset DEF OrderInv, EldersFit
      <4>3. {Cardinality(Elders(h)'), Cardinality(Elders(h)), Budget} \subseteq Nat
        BY <1>1, <4>2, EldersFinite, FS_CardinalityType, GovernorAssumption
      <4>4. QED
        BY <4>1, <4>2, <4>3
    <3>3. CASE Keep(h) /\ Elders(h)' \subseteq {t \in Live(h) : Before(t, tok[h])}
      <4> DEFINE L == {t \in Live(h) : Before(t, tok[h])}
      <4>1. L \subseteq acquired
        BY DEF Live
      <4>2. IsFiniteSet(L)
        BY <1>1, <4>1, FS_Subset DEF LogOrder
      <4>3. Cardinality(L) < Budget
        BY <3>3 DEF Keep, Kept
      <4> HIDE DEF L
      <4>4. /\ Cardinality(Elders(h)') <= Cardinality(L)
            /\ IsFiniteSet(Elders(h)')
        BY <3>3, <4>2, FS_Subset DEF L
      <4>5. {Cardinality(Elders(h)'), Cardinality(L), Budget} \subseteq Nat
        BY <4>2, <4>4, FS_CardinalityType, GovernorAssumption
      <4>6. QED
        BY <4>3, <4>4, <4>5
    <3>4. CASE Tick
      <4>1. pc' = pc
        BY <3>4 DEF Tick, Elapse
      <4>2. h \in Working /\ Holds(h)
        BY <3>1, <4>1 DEF Working, Holds
      <4>3. QED
        BY <1>1, <3>1, <3>2, <3>4, <4>2, TickKeepsElders
    <3>5. ASSUME NEW p \in Proc, Step(p) \/ Crash(p)
          PROVE  Cardinality(Elders(h)') < Budget
      BY <1>1, <3>1, <3>2, <3>3, <3>5, StepKeepsElders DEF Working
    <3>6. QED
      BY <3>1, <3>4, <3>5 DEF Next
  <2>2. QED
    BY <1>1, <2>1 DEF OrderInv, EldersFit
<1>4. QED
  BY <1>2, <1>3

\* If the working lanes' tokens sort as the log has them, the last of them sees
\* all the others.
LEMMA OrderSays ==
    ASSUME OrderInv
    PROVE  BudgetUnlessOutOfOrder
<1>1. HeldInv /\ LogOrder /\ EldersFit
  BY DEF OrderInv
<1>2. SUFFICES ASSUME \A g, h \in Working :
                          ~(<<tok[g], tok[h]>> \in older /\ Before(tok[h], tok[g]))
               PROVE  Cardinality(Working) <= Budget
  BY DEF BudgetUnlessOutOfOrder, BudgetNeverExceeded
<1> DEFINE T == {tok[g] : g \in Working}
           R == {e \in T \X T : Before(e[1], e[2])}
<1>3. \A g \in Working : /\ g \in Holder /\ Holds(g) /\ tok[g] \in acquired
                         /\ tok[g] \in Token /\ tok[g][1] = g /\ left[tok[g]] \in Int
  BY <1>1, HeldTokens DEF Working, Holds
<1>4. /\ T \subseteq acquired /\ IsFiniteSet(T)
      /\ Working = {t[1] : t \in T}
  <2>1. T \subseteq acquired
    BY <1>3
  <2>2. Working = {t[1] : t \in T}
    BY <1>3
  <2>3. QED
    BY <1>1, <2>1, <2>2, FS_Subset DEF LogOrder
<1>5. Cardinality(Working) <= Cardinality(T) /\ IsFiniteSet(Working)
  <2> DEFINE f == [t \in T |-> t[1]]
  <2>1. f \in Surjection(T, Working)
    <3>1. \A t \in T : f[t] \in Working
      BY <1>3
    <3>2. \A g \in Working : tok[g] \in T /\ f[tok[g]] = g
      BY <1>3
    <3> HIDE DEF T
    <3>3. f \in [T -> Working]
      BY <3>1
    <3> HIDE DEF f
    <3>4. QED
      BY <3>2, <3>3 DEF Surjection
  <2> HIDE DEF f, T
  <2>2. QED
    BY <1>4, <2>1, FS_Surjection
<1>6. CASE Working = {}
  BY <1>6, FS_EmptySet, GovernorAssumption
<1>7. CASE Working # {}
  <2>1. \A a, b \in T : <<a, b>> \in R <=> Before(a, b)
    OBVIOUS
  <2>2. ASSUME NEW a \in T, NEW b \in T
        PROVE  /\ left[a] \in Int /\ left[b] \in Int /\ a[1] \in Nat /\ b[1] \in Nat
               /\ a[2] \in Nat /\ b[2] \in Nat
               /\ a # b => Before(a, b) \/ Before(b, a)
    <3>1. /\ a \in Holder \X (1 .. MaxTokens) /\ left[a] \in Int
          /\ b \in Holder \X (1 .. MaxTokens) /\ left[b] \in Int
      BY <1>3 DEF Token
    <3>2. a[1] \in Nat /\ b[1] \in Nat /\ a[2] \in Nat /\ b[2] \in Nat
      <4>1. Holder \subseteq Nat /\ MaxTokens \in Nat
        BY GovernorAssumption
      <4>2. a[1] \in Holder /\ b[1] \in Holder /\ a[2] \in 1 .. MaxTokens
            /\ b[2] \in 1 .. MaxTokens
        BY <3>1
      <4>3. \A n \in 1 .. MaxTokens : n \in Nat
        BY <4>1
      <4>4. QED
        BY <4>1, <4>2, <4>3
    <3>3. a = <<a[1], a[2]>> /\ b = <<b[1], b[2]>>
      BY <3>1
    <3>4. a # b => a[1] # b[1] \/ a[2] # b[2]
      BY <3>3
    <3>5. QED
      BY <3>1, <3>2, <3>4 DEF Before
  <2>3. \A a \in T : <<a, a>> \notin R
    BY <2>1, <2>2 DEF Before
  <2>4. ASSUME NEW a \in T, NEW b \in T, NEW c \in T, Before(a, b), Before(b, c)
        PROVE  Before(a, c)
    BY <2>2, <2>4 DEF Before
  <2>5. T # {}
    BY <1>7
  <2> HIDE DEF R, T
  <2>6. PICK last \in T : \A b \in T : <<last, b>> \notin R
    BY <1>4, <2>1, <2>3, <2>4, <2>5, TopExists
  <2>7. PICK h \in Working : last = tok[h]
    BY DEF T
  <2>8. ASSUME NEW t \in T, t # last PROVE t \in Elders(h)
    <3>1. Before(t, last)
      BY <2>1, <2>2, <2>6, <2>8
    <3>2. PICK g \in Working : t = tok[g]
      BY DEF T
    <3>3. <<t, last>> \in older
      BY <1>1, <1>2, <1>3, <2>7, <2>8, <3>1, <3>2 DEF LogOrder
    <3>4. QED
      BY <1>3, <2>7, <3>1, <3>2, <3>3 DEF Elders
  <2>9. T \subseteq Elders(h) \cup {last}
    BY <2>8
  <2>10. Cardinality(Elders(h)) < Budget /\ IsFiniteSet(Elders(h))
         /\ Cardinality(Elders(h)) \in Nat
    BY <1>1, <2>7, EldersFinite DEF EldersFit
  <2>11. /\ Cardinality(Elders(h) \cup {last}) <= Cardinality(Elders(h)) + 1
         /\ IsFiniteSet(Elders(h) \cup {last})
    <3> DEFINE E == Elders(h)
    <3> HIDE DEF E
    <3>1. IsFiniteSet(E) /\ Cardinality(E) \in Nat
      BY <2>10 DEF E
    <3>2. /\ IsFiniteSet(E \cup {last})
          /\ Cardinality(E \cup {last})
                 = IF last \in E THEN Cardinality(E) ELSE Cardinality(E) + 1
      BY <3>1, FS_AddElement
    <3>3. Cardinality(E \cup {last}) <= Cardinality(E) + 1
      BY <3>1, <3>2
    <3>4. QED
      BY <3>2, <3>3 DEF E
  <2>12. Cardinality(T) <= Cardinality(Elders(h) \cup {last})
    BY <2>9, <2>11, FS_Subset
  <2>13. {Cardinality(T), Cardinality(Working), Cardinality(Elders(h) \cup {last}), Budget}
            \subseteq Nat
    BY <1>4, <1>5, <2>11, FS_CardinalityType, GovernorAssumption
  <2>14. QED
    BY <1>5, <2>10, <2>11, <2>12, <2>13
<1>8. QED
  BY <1>6, <1>7

\* The budget holds for any number of lanes, overlapping acquires, kills and
\* reaps, unless two ticking lanes hold tokens whose order in the log is not the
\* order they sort in: the re-check of the last one has counted all the others.
THEOREM BudgetByLogOrder ==
    ASSUME TTL > MaxCI + AcquireMax
    PROVE  OrderBehaviour => []BudgetUnlessOutOfOrder
<1>1. OrderInit => OrderInv
  <2>1. SUFFICES ASSUME OrderInit PROVE OrderInv
    OBVIOUS
  <2>2. HeldInv /\ acquired = {} /\ older = {}
    BY <2>1, HeldInit DEF OrderInit, Init
  <2>3. EldersFit
    BY <2>1 DEF OrderInit, Init, EldersFit, Working, Proc
  <2>4. LogOrder
    BY <2>2, FS_EmptySet DEF LogOrder
  <2>5. QED
    BY <2>2, <2>3, <2>4 DEF OrderInv
<1>2. OrderInv /\ [OrderNext]_ordered => OrderInv'
  BY NextOrder
<1>3. OrderInv => BudgetUnlessOutOfOrder
  BY OrderSays
<1>4. QED
  BY <1>1, <1>2, <1>3, PTL DEF OrderBehaviour
=============================================================================
