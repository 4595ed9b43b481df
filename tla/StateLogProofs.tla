--------------------------- MODULE StateLogProofs ---------------------------
(* Proofs about StateLog, for any writers, bounds, events and faults. *)
EXTENDS StateLog, FiniteSetTheorems, SequenceTheorems, TLAPS

-----------------------------------------------------------------------------
(* Prefixes *)

\* IsPrefix, index by index.
LEMMA PrefixByIndex ==
    ASSUME NEW S, NEW s \in Seq(S), NEW t \in Seq(S)
    PROVE  IsPrefix(s, t) <=>
             /\ Len(s) <= Len(t)
             /\ \A i \in 1..Len(s) : s[i] = t[i]
<1>1. ASSUME IsPrefix(s, t)
      PROVE  /\ Len(s) <= Len(t)
             /\ \A i \in 1..Len(s) : s[i] = t[i]
  <2>1. Len(s) <= Len(t) /\ SubSeq(s, 1, Len(s)) = SubSeq(t, 1, Len(s))
    BY <1>1 DEF IsPrefix
  <2>2. ASSUME NEW i \in 1..Len(s) PROVE s[i] = t[i]
    <3>1. SubSeq(s, 1, Len(s))[i] = s[i]
      OBVIOUS
    <3>2. SubSeq(t, 1, Len(s))[i] = t[i]
      BY <2>1
    <3>3. QED
      BY <2>1, <3>1, <3>2
  <2>3. QED
    BY <2>1, <2>2
<1>2. ASSUME Len(s) <= Len(t), \A i \in 1..Len(s) : s[i] = t[i]
      PROVE  IsPrefix(s, t)
  <2>1. SubSeq(s, 1, Len(s)) = SubSeq(t, 1, Len(s))
    BY <1>2
  <2>2. QED
    BY <1>2, <2>1 DEF IsPrefix
<1>3. QED
  BY <1>1, <1>2

\* A sequence is a prefix of itself.
LEMMA PrefixReflexive ==
    ASSUME NEW S, NEW s \in Seq(S)
    PROVE  IsPrefix(s, s)
BY PrefixByIndex

\* Prefixes of prefixes are prefixes.
LEMMA PrefixTransitive ==
    ASSUME NEW S, NEW s \in Seq(S), NEW t \in Seq(S), NEW u \in Seq(S),
           IsPrefix(s, t), IsPrefix(t, u)
    PROVE  IsPrefix(s, u)
<1>1. Len(s) \in Nat /\ Len(t) \in Nat /\ Len(u) \in Nat
  OBVIOUS
<1>2. Len(s) <= Len(t) /\ \A i \in 1..Len(s) : s[i] = t[i]
  BY PrefixByIndex
<1>3. Len(t) <= Len(u) /\ \A i \in 1..Len(t) : t[i] = u[i]
  BY PrefixByIndex
<1>4. Len(s) <= Len(u) /\ \A i \in 1..Len(s) : s[i] = u[i]
  BY <1>1, <1>2, <1>3
<1>5. QED
  BY <1>4, PrefixByIndex

\* The empty sequence is a prefix of every one.
LEMMA EmptyIsPrefix ==
    ASSUME NEW S, NEW s \in Seq(S)
    PROVE  IsPrefix(<<>>, s)
<1>1. <<>> \in Seq(S) /\ Len(<<>>) = 0 /\ Len(s) \in Nat
  OBVIOUS
<1>2. SubSeq(<<>>, 1, 0) = SubSeq(s, 1, 0)
  OBVIOUS
<1>3. QED
  BY <1>1, <1>2 DEF IsPrefix

\* Appending extends.
LEMMA PrefixOfAppend ==
    ASSUME NEW S, NEW s \in Seq(S), NEW e \in S
    PROVE  /\ Append(s, e) \in Seq(S)
           /\ Len(Append(s, e)) = Len(s) + 1
           /\ Append(s, e)[Len(s) + 1] = e
           /\ IsPrefix(s, Append(s, e))
<1>1. /\ Append(s, e) \in Seq(S)
      /\ Len(Append(s, e)) = Len(s) + 1
      /\ Append(s, e)[Len(s) + 1] = e
      /\ \A i \in 1..Len(s) : Append(s, e)[i] = s[i]
  OBVIOUS
<1>2. Len(s) \in Nat
  OBVIOUS
<1>3. Len(s) <= Len(Append(s, e))
  BY <1>1, <1>2
<1>4. IsPrefix(s, Append(s, e))
  <2> DEFINE t == Append(s, e)
  <2>1. /\ t \in Seq(S) /\ Len(s) <= Len(t)
        /\ \A i \in 1..Len(s) : s[i] = t[i]
    BY <1>1, <1>3
  <2> HIDE DEF t
  <2>2. IsPrefix(s, t)
    BY <2>1, PrefixByIndex
  <2>3. QED
    BY <2>2 DEF t
<1>5. QED
  BY <1>1, <1>4

\* An entry of a prefix is an entry of the whole, at the same place.
LEMMA PrefixKeepsEntries ==
    ASSUME NEW S, NEW s \in Seq(S), NEW t \in Seq(S), IsPrefix(s, t),
           NEW i \in DOMAIN s
    PROVE  i \in DOMAIN t /\ t[i] = s[i]
<1>1. /\ DOMAIN s = 1..Len(s) /\ DOMAIN t = 1..Len(t)
      /\ Len(s) \in Nat /\ Len(t) \in Nat
  OBVIOUS
<1>2. QED
  BY <1>1, PrefixByIndex

-----------------------------------------------------------------------------
\* Every writer inside append() is at an append of its own ...
BusyHasNumber ==
    \A w \in Writer : pc[w] \in {"read", "push"} => no[w] \in 1..MaxAppends

\* ... which has not returned yet; what returned was begun before.
BusyNotAcked ==
    \A a \in acked :
        /\ a.no <= no[a.writer]
        /\ pc[a.writer] \in {"read", "push"} => a.no # no[a.writer]

\* The tip an attempt builds on is a point of the log's own past.
TipIsPast == \A w \in Writer : pc[w] = "push" => IsPrefix(tip[w], ref)

IInv ==
    /\ TypeOK
    /\ BusyHasNumber
    /\ BusyNotAcked
    /\ TipIsPast
    /\ AckedStaysLogged

-----------------------------------------------------------------------------

\* What a push that git accepts does to the ref.
LEMMA AcceptedPush ==
    ASSUME IInv, NEW w \in Writer, pc[w] = "push", Accepts(w)
    PROVE  /\ <<w, no[w]>> \in Ops
           /\ EventNow(w) \in Event
           /\ Candidate(w) \in Seq(Event)
           /\ IsPrefix(ref, Candidate(w))
           /\ Len(Candidate(w)) = Len(tip[w]) + 1
           /\ Candidate(w)[Len(tip[w]) + 1] = EventNow(w)
           /\ Len(Candidate(w)) \in Nat \ {0}
<1> USE StateLogAssumption
<1>1. <<w, no[w]>> \in Ops
  BY DEF IInv, BusyHasNumber, Ops
<1>2. EventNow(w) \in Event
  BY <1>1 DEF EventNow
<1>3. ref \in Seq(Event) /\ tip[w] \in Seq(Event)
  BY DEF IInv, TypeOK
<1>4. /\ Candidate(w) \in Seq(Event)
      /\ Len(Candidate(w)) = Len(tip[w]) + 1
      /\ Candidate(w)[Len(tip[w]) + 1] = EventNow(w)
      /\ IsPrefix(tip[w], Candidate(w))
  BY <1>2, <1>3, PrefixOfAppend DEF Candidate
<1>5. IsPrefix(ref, Candidate(w))
  <2>1. CASE tip[w] = NoTip
    BY <2>1 DEF Accepts, LeasePushAccepts, FFPushAccepts
  <2>2. CASE tip[w] # NoTip /\ ref = tip[w]
    BY <2>2, <1>4
  <2>3. CASE tip[w] # NoTip /\ ref = Candidate(w)
    BY <2>3, <1>4, PrefixReflexive
  <2>4. QED
    BY <2>1, <2>2, <2>3 DEF Accepts, LeasePushAccepts
<1>6. Len(tip[w]) \in Nat
  BY <1>3
<1>7. QED
  BY <1>1, <1>2, <1>4, <1>5, <1>6

\* Extending the ref disturbs no fact about its past.
LEMMA ExtensionKeepsPast ==
    ASSUME IInv, ref' \in Seq(Event), IsPrefix(ref, ref')
    PROVE  /\ \A s \in Seq(Event) : IsPrefix(s, ref) => IsPrefix(s, ref')
           /\ \A a \in acked : /\ a.pos \in DOMAIN ref'
                               /\ ref'[a.pos] = EventOf[<<a.writer, a.no>>]
<1>1. ref \in Seq(Event)
  BY DEF IInv, TypeOK
<1>2. ASSUME NEW s \in Seq(Event), IsPrefix(s, ref) PROVE IsPrefix(s, ref')
  BY <1>1, <1>2, PrefixTransitive
<1>3. ASSUME NEW a \in acked
      PROVE  /\ a.pos \in DOMAIN ref'
             /\ ref'[a.pos] = EventOf[<<a.writer, a.no>>]
  <2>1. a.pos \in DOMAIN ref /\ ref[a.pos] = EventOf[<<a.writer, a.no>>]
    BY DEF IInv, AckedStaysLogged
  <2>2. QED
    BY <1>1, <2>1, PrefixKeepsEntries
<1>4. QED
  BY <1>2, <1>3

-----------------------------------------------------------------------------

\* The inductive invariant holds initially.
LEMMA InitEstablishes == Init => IInv
<1> SUFFICES ASSUME Init PROVE IInv
  OBVIOUS
<1> USE StateLogAssumption DEF Init
<1>1. TypeOK
  BY DEF TypeOK, Phase, NoTip
<1>2. BusyHasNumber /\ BusyNotAcked /\ TipIsPast /\ AckedStaysLogged
  BY DEF BusyHasNumber, BusyNotAcked, TipIsPast, AckedStaysLogged
<1>3. QED
  BY <1>1, <1>2 DEF IInv

\* Entering append keeps it.
LEMMA BeginPreserves ==
    ASSUME IInv, NEW w \in Writer, Begin(w) PROVE IInv'
<1> USE StateLogAssumption DEF IInv
<1>1. TypeOK'
  BY DEF TypeOK, Begin, Phase
<1>2. BusyHasNumber'
  BY DEF TypeOK, Begin, BusyHasNumber
<1>3. BusyNotAcked'
  BY DEF TypeOK, Begin, BusyNotAcked, Ack
<1>4. TipIsPast' /\ AckedStaysLogged'
  BY DEF TypeOK, Begin, TipIsPast, AckedStaysLogged
<1>5. QED
  BY <1>1, <1>2, <1>3, <1>4

\* A read, good or failed, keeps it.
LEMMA ReadPreserves ==
    ASSUME IInv, NEW w \in Writer, Read(w) \/ ReadFails(w) PROVE IInv'
<1> USE StateLogAssumption DEF IInv
<1>0. ref \in Seq(Event) /\ NoTip \in Seq(Event)
  BY DEF TypeOK, NoTip
<1>1. TypeOK'
  BY <1>0 DEF TypeOK, Read, ReadFails, Phase
<1>2. BusyHasNumber' /\ BusyNotAcked' /\ AckedStaysLogged'
  BY DEF TypeOK, Read, ReadFails, BusyHasNumber, BusyNotAcked,
         AckedStaysLogged, Ack
<1>3. IsPrefix(ref, ref) /\ IsPrefix(NoTip, ref)
  BY <1>0, PrefixReflexive, EmptyIsPrefix DEF NoTip
<1>4. TipIsPast'
  BY <1>3 DEF TypeOK, Read, ReadFails, TipIsPast
<1>5. QED
  BY <1>1, <1>2, <1>4

\* An acknowledged push keeps it.
LEMMA PushOkPreserves ==
    ASSUME IInv, NEW w \in Writer, PushOk(w) PROVE IInv'
<1> USE StateLogAssumption
<1> DEFINE n == Len(tip[w]) + 1
           mine == [writer |-> w, no |-> no[w], pos |-> n]
<1>1. pc[w] = "push" /\ Accepts(w) /\ ref' = Candidate(w)
  BY DEF PushOk
<1>2. /\ <<w, no[w]>> \in Ops
      /\ ref' \in Seq(Event)
      /\ IsPrefix(ref, ref')
      /\ Len(ref') = n
      /\ ref'[n] = EventOf[<<w, no[w]>>]
      /\ n \in Nat \ {0}
  BY <1>1, AcceptedPush DEF EventNow
<1>3. acked' = acked \cup {mine}
  BY <1>1, <1>2 DEF PushOk
<1>4. TypeOK'
  <2>1. mine \in Ack
    BY <1>2 DEF Ack, Ops
  <2>2. QED
    BY <1>2, <1>3, <2>1 DEF IInv, TypeOK, PushOk, Phase
<1>5. BusyHasNumber'
  BY DEF IInv, TypeOK, PushOk, BusyHasNumber
<1>6. BusyNotAcked'
  <2>1. pc' = [pc EXCEPT ![w] = "idle"] /\ no' = no
    BY DEF PushOk
  <2>2. no[w] \in 0..MaxAppends
    BY DEF IInv, TypeOK
  <2>3. QED
    BY <1>3, <2>1, <2>2 DEF IInv, TypeOK, BusyNotAcked, Ack
<1>7. TipIsPast'
  BY <1>2, ExtensionKeepsPast DEF IInv, TypeOK, PushOk, TipIsPast
<1>8. AckedStaysLogged'
  <2>1. \A a \in acked : /\ a.pos \in DOMAIN ref'
                         /\ ref'[a.pos] = EventOf[<<a.writer, a.no>>]
    BY <1>2, ExtensionKeepsPast
  <2>2. n \in DOMAIN ref'
    BY <1>2
  <2>3. ASSUME NEW a \in acked'
        PROVE  /\ a.pos \in DOMAIN ref'
               /\ ref'[a.pos] = EventOf[<<a.writer, a.no>>]
    <3>1. CASE a \in acked
      BY <3>1, <2>1
    <3>2. CASE a = mine
      BY <3>2, <2>2, <1>2
    <3>3. QED
      BY <1>3, <3>1, <3>2
  <2>4. QED
    BY <2>3 DEF AckedStaysLogged
<1>9. QED
  BY <1>4, <1>5, <1>6, <1>7, <1>8 DEF IInv

\* The common part of the two outcomes that send append() round its loop.
LEMMA RetryPreserves ==
    ASSUME IInv, NEW w \in Writer, pc[w] = "push", Retry(w),
           ref' \in Seq(Event), IsPrefix(ref, ref')
    PROVE  IInv'
<1> USE StateLogAssumption DEF IInv
<1>1. TypeOK'
  <2>1. UNCHANGED <<no, tip, acked>>
    BY DEF Retry
  <2>2. CASE attempt[w] < MaxRetries
    <3>1. attempt[w] + 1 \in 0..MaxRetries
      BY <2>2 DEF TypeOK
    <3>2. QED
      BY <2>1, <2>2, <3>1 DEF TypeOK, Retry, Phase
  <2>3. CASE ~(attempt[w] < MaxRetries)
    BY <2>1, <2>3 DEF TypeOK, Retry, Phase
  <2>4. QED
    BY <2>2, <2>3
<1>2. BusyHasNumber' /\ BusyNotAcked'
  BY DEF TypeOK, Retry, BusyHasNumber, BusyNotAcked, Ack
<1>3. TipIsPast'
  BY ExtensionKeepsPast DEF TypeOK, Retry, TipIsPast
<1>4. AckedStaysLogged'
  BY ExtensionKeepsPast DEF Retry, AckedStaysLogged
<1>5. QED
  BY <1>1, <1>2, <1>3, <1>4

\* A killed writer keeps it.
LEMMA CrashPreserves ==
    ASSUME IInv, NEW w \in Writer, Crash(w) PROVE IInv'
<1> USE StateLogAssumption DEF IInv
<1>1. TypeOK'
  BY DEF TypeOK, Crash, Phase
<1>2. BusyHasNumber' /\ BusyNotAcked' /\ TipIsPast' /\ AckedStaysLogged'
  BY DEF TypeOK, Crash, BusyHasNumber, BusyNotAcked, TipIsPast,
         AckedStaysLogged, Ack
<1>3. QED
  BY <1>1, <1>2

\* Every step keeps it.
LEMMA StepPreserves == IInv /\ [Next]_vars => IInv'
<1> SUFFICES ASSUME IInv, [Next]_vars PROVE IInv'
  OBVIOUS
<1>1. ASSUME NEW w \in Writer, Begin(w) PROVE IInv'
  BY <1>1, BeginPreserves
<1>2. ASSUME NEW w \in Writer, Read(w) \/ ReadFails(w) PROVE IInv'
  BY <1>2, ReadPreserves
<1>3. ASSUME NEW w \in Writer, PushOk(w) PROVE IInv'
  BY <1>3, PushOkPreserves
<1>4. ASSUME NEW w \in Writer, PushRejected(w) PROVE IInv'
  <2>1. ref' \in Seq(Event) /\ IsPrefix(ref, ref')
    BY <1>4, PrefixReflexive DEF PushRejected, IInv, TypeOK
  <2>2. QED
    BY <1>4, <2>1, RetryPreserves DEF PushRejected
<1>5. ASSUME NEW w \in Writer, PushUnheard(w) PROVE IInv'
  <2>1. ref' \in Seq(Event) /\ IsPrefix(ref, ref')
    BY <1>5, AcceptedPush DEF PushUnheard
  <2>2. QED
    BY <1>5, <2>1, RetryPreserves DEF PushUnheard
<1>6. ASSUME NEW w \in Writer, Crash(w) PROVE IInv'
  BY <1>6, CrashPreserves
<1>7. CASE UNCHANGED vars
  BY <1>7 DEF vars, IInv, TypeOK, BusyHasNumber, BusyNotAcked, TipIsPast,
              AckedStaysLogged
<1>8. QED
  BY <1>1, <1>2, <1>3, <1>4, <1>5, <1>6, <1>7 DEF Next

-----------------------------------------------------------------------------

\* The inductive invariant of the log (statelog.py:62-78).
THEOREM Invariance == Spec => []IInv
BY InitEstablishes, StepPreserves, PTL DEF Spec

\* Type correctness of the log's variables.
THEOREM TypeCorrect == Spec => []TypeOK
<1>1. IInv => TypeOK
  BY DEF IInv
<1>2. QED
  BY <1>1, Invariance, PTL

\* No append that returned is ever lost (statelog.py:63), whatever the
\* contention, the failed fetches, the lost answers and the crashes.
THEOREM NoLostUpdate == Spec => []AckedStaysLogged
<1>1. IInv => AckedStaysLogged
  BY DEF IInv
<1>2. QED
  BY <1>1, Invariance, PTL

\* No two appends carry the same event.
Injective == \A p, q \in Ops : EventOf[p] = EventOf[q] => p = q

\* When no two appends carry the same event, each has a slot to itself.
THEOREM DistinctEventsOwnSlots ==
    ASSUME Injective PROVE Spec => []OwnSlot
<1>1. IInv => OwnSlot
  <2> SUFFICES ASSUME IInv, NEW a \in acked, NEW b \in acked, a.pos = b.pos
               PROVE  a = b
    BY DEF OwnSlot
  <2>1. a \in Ack /\ b \in Ack
    BY DEF IInv, TypeOK
  <2>2. <<a.writer, a.no>> \in Ops /\ <<b.writer, b.no>> \in Ops
    BY <2>1 DEF Ack, Ops
  <2>3. EventOf[<<a.writer, a.no>>] = EventOf[<<b.writer, b.no>>]
    BY DEF IInv, AckedStaysLogged
  <2>4. <<a.writer, a.no>> = <<b.writer, b.no>>
    BY <2>2, <2>3 DEF Injective
  <2>5. QED
    BY <2>1, <2>4 DEF Ack
<1>2. QED
  BY <1>1, Invariance, PTL

\* The ref only ever grows by extension (statelog.py:9-12).
THEOREM OnlyAppends == Spec => AppendOnly
<1>1. IInv /\ [Next]_vars => [IsPrefix(ref, ref')]_ref
  <2> SUFFICES ASSUME IInv, [Next]_vars
               PROVE  IsPrefix(ref, ref') \/ UNCHANGED ref
    OBVIOUS
  <2>1. ASSUME NEW w \in Writer, PushOk(w) \/ PushUnheard(w)
        PROVE  IsPrefix(ref, ref')
    BY <2>1, AcceptedPush DEF PushOk, PushUnheard
  <2>2. ASSUME NEW w \in Writer,
               \/ Begin(w) \/ Read(w) \/ ReadFails(w)
               \/ PushRejected(w) \/ Crash(w)
        PROVE  UNCHANGED ref
    BY <2>2 DEF Begin, Read, ReadFails, PushRejected, Crash
  <2>3. CASE UNCHANGED vars
    BY <2>3 DEF vars
  <2>4. QED
    BY <2>1, <2>2, <2>3 DEF Next
<1>2. QED
  BY <1>1, Invariance, PTL DEF Spec, AppendOnly

-----------------------------------------------------------------------------
(* StateLog implements EventLog when no two appends carry the same event.  *)

\* An accepted push either extends the tip it read, or finds its commit there.
LEMMA AcceptedTips ==
    ASSUME IInv, NEW w \in Writer, pc[w] = "push", Accepts(w)
    PROVE  ref = tip[w] \/ ref = Candidate(w)
<1>1. CASE tip[w] = NoTip
  <2> DEFINE e == EventNow(w)
             c == Append(NoTip, e)
  <2>1. /\ ref \in Seq(Event)
        /\ e \in Event
        /\ IsPrefix(ref, c)
    BY <1>1, AcceptedPush DEF IInv, TypeOK, Candidate
  <2>2. c = <<e>> /\ c \in Seq(Event) /\ Len(c) = 1
    BY <2>1 DEF NoTip
  <2>3. /\ Len(ref) \in Nat /\ Len(ref) <= 1
        /\ \A i \in 1..Len(ref) : ref[i] = c[i]
    BY <2>1, <2>2, PrefixByIndex
  <2>4. CASE Len(ref) = 0
    BY <1>1, <2>1, <2>4 DEF NoTip
  <2>5. CASE Len(ref) = 1
    <3>1. \A i \in 1..Len(ref) : ref[i] = c[i]
      BY <2>3
    <3>2. ref = c
      BY <2>1, <2>2, <2>5, <3>1, SeqEqual
    <3>3. QED
      BY <1>1, <3>2 DEF Candidate
  <2>6. Len(ref) = 0 \/ Len(ref) = 1
    <3> DEFINE k == Len(ref)
    <3>1. k \in Nat /\ k <= 1
      BY <2>3
    <3> HIDE DEF k
    <3>2. k = 0 \/ k = 1
      BY <3>1
    <3>3. QED
      BY <3>2 DEF k
  <2>7. QED
    BY <2>4, <2>5, <2>6
<1>2. CASE tip[w] # NoTip
  BY <1>2 DEF Accepts, LeasePushAccepts
<1>3. QED
  BY <1>1, <1>2

\* An append under way has not returned before.
LEMMA NotYetAcked ==
    ASSUME IInv, NEW w \in Writer, pc[w] = "push"
    PROVE  ~Abstract!Acked(<<w, no[w]>>)
BY DEF IInv, BusyNotAcked, Abstract!Acked

\* An acknowledged push commits, or confirms, in EventLog.
LEMMA PushOkImplements ==
    ASSUME Injective, IInv, NEW w \in Writer, PushOk(w)
    PROVE  Abstract!Next
<1> DEFINE op == <<w, no[w]>>
           n == Len(tip[w]) + 1
<1>1. pc[w] = "push" /\ Accepts(w) /\ ref' = Candidate(w)
  BY DEF PushOk
<1>2. /\ op \in Ops
      /\ Len(Candidate(w)) = n
      /\ Candidate(w)[n] = EventOf[op]
      /\ n \in Nat \ {0}
      /\ Candidate(w) \in Seq(Event)
  BY <1>1, AcceptedPush DEF EventNow
<1>3. ~Abstract!Acked(op)
  BY <1>1, NotYetAcked
<1>4. acked' = acked \cup {Abstract!Slot(op, n)}
  BY <1>1, <1>2 DEF PushOk, Abstract!Slot
<1>5. CASE ref = tip[w]
  <2>1. ref' = Append(ref, EventOf[op])
    BY <1>1, <1>5 DEF Candidate, EventNow
  <2>2. Abstract!Commit(op)
    BY <1>3, <1>4, <1>5, <2>1 DEF Abstract!Commit
  <2>3. QED
    BY <1>2, <2>2 DEF Abstract!Next, Abstract!Ops, Ops
<1>6. CASE ref = Candidate(w)
  <2>1. n \in DOMAIN ref /\ ref[n] = EventOf[op] /\ ref' = ref
    BY <1>1, <1>2, <1>6
  <2>2. \A a \in acked : a.pos # n
    <3> SUFFICES ASSUME NEW a \in acked, a.pos = n PROVE FALSE
      OBVIOUS
    <3>1. a \in Ack /\ <<a.writer, a.no>> \in Ops
      BY DEF IInv, TypeOK, Ack, Ops
    <3>2. EventOf[<<a.writer, a.no>>] = EventOf[op]
      BY <2>1 DEF IInv, AckedStaysLogged
    <3>3. <<a.writer, a.no>> = op
      BY <1>2, <3>1, <3>2 DEF Injective
    <3>4. QED
      BY <1>3, <3>3 DEF Abstract!Acked
  <2>3. Abstract!Confirm(op)
    BY <1>3, <1>4, <2>1, <2>2 DEF Abstract!Confirm
  <2>4. QED
    BY <1>2, <2>3 DEF Abstract!Next, Abstract!Ops, Ops
<1>7. QED
  BY <1>1, <1>5, <1>6, AcceptedTips

\* An unheard push commits unheard, or stutters, in EventLog.
LEMMA PushUnheardImplements ==
    ASSUME IInv, NEW w \in Writer, PushUnheard(w)
    PROVE  Abstract!Next \/ UNCHANGED <<ref, acked>>
<1> DEFINE op == <<w, no[w]>>
<1>1. /\ pc[w] = "push" /\ Accepts(w) /\ ref' = Candidate(w)
      /\ LossyAcks /\ UNCHANGED acked
  BY DEF PushUnheard, Retry
<1>2. op \in Ops /\ ~Abstract!Acked(op)
  BY <1>1, AcceptedPush, NotYetAcked
<1>3. CASE ref = tip[w]
  <2>1. Abstract!CommitUnheard(op)
    BY <1>1, <1>2, <1>3 DEF Abstract!CommitUnheard, Candidate, EventNow
  <2>2. QED
    BY <1>2, <2>1 DEF Abstract!Next, Abstract!Ops, Ops
<1>4. CASE ref = Candidate(w)
  BY <1>1, <1>4
<1>5. QED
  BY <1>1, <1>3, <1>4, AcceptedTips

\* StateLog implements EventLog: retries, stale tips, failed fetches, lost
\* answers and crashes are invisible to a caller that appends distinct events.
THEOREM Refinement == ASSUME Injective PROVE Spec => ImplementsEventLog
<1>1. Init => Abstract!Init
  BY DEF Init, Abstract!Init, NoTip
<1>2. IInv /\ [Next]_vars => [Abstract!Next]_<<ref, acked>>
  <2> SUFFICES ASSUME IInv, [Next]_vars
               PROVE  Abstract!Next \/ UNCHANGED <<ref, acked>>
    OBVIOUS
  <2>1. ASSUME NEW w \in Writer, PushOk(w) PROVE Abstract!Next
    BY <2>1, PushOkImplements
  <2>2. ASSUME NEW w \in Writer, PushUnheard(w)
        PROVE  Abstract!Next \/ UNCHANGED <<ref, acked>>
    BY <2>2, PushUnheardImplements
  <2>3. ASSUME NEW w \in Writer,
               \/ Begin(w) \/ Read(w) \/ ReadFails(w)
               \/ PushRejected(w) \/ Crash(w)
        PROVE  UNCHANGED <<ref, acked>>
    BY <2>3 DEF Begin, Read, ReadFails, PushRejected, Retry, Crash
  <2>4. CASE UNCHANGED vars
    BY <2>4 DEF vars
  <2>5. QED
    BY <2>1, <2>2, <2>3, <2>4 DEF Next
<1>3. QED
  BY <1>1, <1>2, Invariance, PTL
  DEF Spec, ImplementsEventLog, Abstract!Spec, Abstract!EventLogVars
=============================================================================
