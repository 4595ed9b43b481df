-------------------------- MODULE ReleaseTxnProofs --------------------------
(***************************************************************************)
(* The release is exactly-once for any number of packages, issues and      *)
(* tokens, wherever runs are killed: the remote tag alone decides who may  *)
(* publish, and every other record follows it.                             *)
(***************************************************************************)
EXTENDS ReleaseTxn, TLAPS

\* A run is past the election of its package only with its own tag.
Winning == {"record", "state", "publish", "published", "close", "comment", "closed"}
InLoop == Winning \cup {"winner", "push", "lost"}

AtPkg == \A r \in Releaser : pc[r] \in InLoop => at[r] \in Pkg

WinnersHoldTags == \A r \in Releaser : pc[r] \in Winning => tag[at[r]] = r

PublishedByOwner == \A p \in Pkg : published[p] \in {Nobody, tag[p]}

ReleasedArePublished ==
    /\ \A p \in released : published[p] # Nobody
    /\ \A r \in Releaser : pc[r] = "published" => published[at[r]] # Nobody

\* What package p has done about issue i, or has been refused.
Closes(p, i) == i \notin open \/ <<"close", p, i>> \in failed
Comments(p, i) == <<i, p>> \in comments \/ <<"comment", p, i>> \in failed

\* The issue a run is at is closed, then commented, then journalled.
IssueInHand ==
    \A r \in Releaser : \A i \in Issue : First(r, i) =>
        /\ pc[r] \in {"comment", "closed"} => Closes(at[r], i)
        /\ pc[r] = "closed" => Comments(at[r], i)

Inv ==
    /\ TypeOK
    /\ AtPkg
    /\ JournalAgreesWithTag
    /\ WinnersHoldTags
    /\ PublishedByOwner
    /\ ReleasedArePublished
    /\ DoneMeansPublished
    /\ IssueInHand
    /\ ClosedMeansCommented

\* The inductive invariant holds initially.
LEMMA InvInit == Init => Inv
<1> SUFFICES ASSUME Init PROVE Inv
  OBVIOUS
<1>1. TypeOK
  <2>1. 1 \in 1 .. NPkg + 1 /\ 0 \in 0 .. MaxFaults
    BY ReleaseTxnAssumption DEF ReleaseTxnAssumption
  <2>2. pc \in [Releaser -> Phase]
    BY DEF Init, Phase
  <2> QED
    BY <2>1, <2>2 DEF Init, TypeOK
<1> QED
  BY <1>1 DEF Init, Inv, AtPkg, JournalAgreesWithTag, WinnersHoldTags,
     PublishedByOwner, ReleasedArePublished, DoneMeansPublished, IssueInHand,
     ClosedMeansCommented, Winning, InLoop

\* Where a run may go without touching anything but itself.
LEMMA Moves ==
    ASSUME Inv, NEW r \in Releaser, NEW phase, NEW place,
           UNCHANGED <<effects, tagged, released, closed, done, mishaps>>,
           started' \subseteq Releaser,
           pc' = [pc EXCEPT ![r] = phase],
           at' = [at EXCEPT ![r] = place],
           todo' \in [Releaser -> SUBSET Issue],
           \A s \in Releaser : s # r => todo'[s] = todo[s],
           phase \in Phase \ {"published", "comment", "closed"},
           place \in 1 .. NPkg + 1,
           phase \in InLoop => place \in Pkg,
           phase \in Winning => tag[place] = r
    PROVE  Inv'
<1> USE DEF effects
<1>1. TypeOK'
  BY DEF Inv, TypeOK, mishaps
<1>2. pc \in [Releaser -> Phase] /\ at \in [Releaser -> 1 .. NPkg + 1]
  BY DEF Inv, TypeOK
<1>3. /\ pc'[r] = phase /\ at'[r] = place
      /\ \A s \in Releaser : s # r => pc'[s] = pc[s] /\ at'[s] = at[s]
  BY <1>2
<1>4. AtPkg'
  BY <1>3 DEF Inv, AtPkg
<1>5. WinnersHoldTags'
  BY <1>3 DEF Inv, WinnersHoldTags
<1>6. ReleasedArePublished'
  BY <1>3 DEF Inv, ReleasedArePublished
<1>7. IssueInHand'
  BY <1>3 DEF Inv, IssueInHand, First, Closes, Comments
<1>8. JournalAgreesWithTag' /\ PublishedByOwner' /\ DoneMeansPublished' /\ ClosedMeansCommented'
  BY DEF Inv, JournalAgreesWithTag, PublishedByOwner, DoneMeansPublished,
         ClosedMeansCommented
<1> QED
  BY <1>1, <1>4, <1>5, <1>6, <1>7, <1>8 DEF Inv

\* To a package the loop may be at, or past the last one.
LEMMA MovesToPkg ==
    ASSUME Inv, NEW r \in Releaser, NEW p \in 1 .. NPkg + 1, GotoPkg(r, p),
           UNCHANGED <<effects, tagged, released, closed, done, mishaps, todo>>,
           started' \subseteq Releaser
    PROVE  Inv'
<1>1. ASSUME p \in Pkg PROVE Inv'
  BY <1>1, Moves DEF GotoPkg, Goto, Inv, TypeOK, Phase, Winning, InLoop
<1>2. ASSUME p \notin Pkg PROVE Inv'
  BY <1>2, Moves DEF GotoPkg, Goto, Inv, TypeOK, Phase, Winning, InLoop
<1> QED
  BY <1>1, <1>2

\* What follows the answer to "who won?".
LEMMA Proceeds ==
    ASSUME Inv, NEW r \in Releaser, pc[r] \in {"winner", "lost"},
           Proceed(r, tagged[at[r]]),
           UNCHANGED <<effects, journal, mishaps, todo>>
    PROVE  Inv'
<1>1. at[r] \in Pkg /\ at[r] \in 1 .. NPkg + 1 /\ at[r] + 1 \in 1 .. NPkg + 1
  BY ReleaseTxnAssumption
  DEF Inv, AtPkg, InLoop, Pkg, TypeOK, ReleaseTxnAssumption
<1>2. started' \subseteq Releaser /\ UNCHANGED <<tagged, released, closed, done>>
  BY DEF Inv, TypeOK, journal
<1>3. CASE Mine(r, tagged[at[r]])
  <2>1. tag[at[r]] = r
    BY <1>1, <1>3, ReleaseTxnAssumption
    DEF Inv, JournalAgreesWithTag, Mine, ReleaseTxnAssumption
  <2>2. pc' = [pc EXCEPT ![r] = "state"] /\ at' = [at EXCEPT ![r] = at[r]]
    BY <1>3 DEF Proceed, Goto, Inv, TypeOK
  <2> QED
    BY <1>1, <1>2, <2>1, <2>2, Moves DEF Inv, TypeOK, Phase, Winning, InLoop
<1>4. CASE ~Mine(r, tagged[at[r]])
  <2>1. GotoPkg(r, at[r] + 1)
    BY <1>4 DEF Proceed
  <2> HIDE DEF GotoPkg
  <2> QED
    BY <1>1, <1>2, <2>1, MovesToPkg
<1> QED
  BY <1>3, <1>4

\* The tag push that wins: nobody was past the election of that package.
LEMMA Wins ==
    ASSUME Inv, NEW r \in Releaser, CreateTag(r),
           NEW phase \in {"record", "lost"}, Goto(r, phase)
    PROVE  Inv'
<1>1. at[r] \in Pkg
  BY DEF Inv, AtPkg, InLoop, CreateTag
<1>2. /\ tag[at[r]] = Nobody /\ tag' = [tag EXCEPT ![at[r]] = r]
      /\ pc' = [pc EXCEPT ![r] = phase]
      /\ UNCHANGED <<published, open, comments, failed, journal, at, todo, mishaps>>
  BY DEF CreateTag, TagFree, Goto
<1>3. /\ pc'[r] = phase /\ tag'[at[r]] = r
      /\ \A s \in Releaser : s # r => pc'[s] = pc[s]
      /\ \A p \in Pkg : p # at[r] => tag'[p] = tag[p]
  BY <1>1, <1>2 DEF Inv, TypeOK
<1>4. TypeOK'
  BY <1>2 DEF Inv, TypeOK, Phase, journal, mishaps
<1>5. AtPkg'
  BY <1>1, <1>2, <1>3 DEF Inv, AtPkg
<1>6. JournalAgreesWithTag' /\ PublishedByOwner'
  BY <1>1, <1>2, <1>3 DEF Inv, JournalAgreesWithTag, PublishedByOwner, journal
<1>7. WinnersHoldTags'
  <2> SUFFICES ASSUME NEW s \in Releaser, pc'[s] \in Winning
               PROVE  tag'[at[s]] = s
    BY <1>2 DEF WinnersHoldTags
  <2>1. CASE s = r
    BY <2>1, <1>3
  <2>2. CASE s # r
    <3>1. pc[s] \in Winning /\ tag[at[s]] = s /\ at[s] \in Pkg
      BY <1>3, <2>2 DEF Inv, WinnersHoldTags, AtPkg, InLoop
    <3>2. at[s] # at[r]
      BY <1>2, <3>1, ReleaseTxnAssumption DEF ReleaseTxnAssumption
    <3> QED
      BY <1>3, <3>1, <3>2
  <2> QED
    BY <2>1, <2>2
<1>8. ReleasedArePublished' /\ DoneMeansPublished'
  BY <1>2, <1>3 DEF Inv, ReleasedArePublished, DoneMeansPublished, journal
<1>9. IssueInHand' /\ ClosedMeansCommented'
  BY <1>2, <1>3 DEF Inv, IssueInHand, ClosedMeansCommented, First, Closes, Comments, journal
<1> QED
  BY <1>4, <1>5, <1>6, <1>7, <1>8, <1>9 DEF Inv

\* The winner's appends and side effects, one package at a time.
LEMMA WinnerActs ==
    ASSUME Inv, NEW r \in Releaser,
           \/ RecordTag(r) \/ Publish(r) \/ RecordReleased(r)
           \/ CloseIssue(r) \/ CloseIssueFails(r) \/ Comment(r) \/ CommentFails(r)
           \/ RecordClosed(r)
    PROVE  Inv'
<1> USE DEF effects, journal, mishaps
<1>1. pc[r] \in Winning /\ at[r] \in Pkg /\ tag[at[r]] = r /\ r # Nobody
  BY ReleaseTxnAssumption
  DEF RecordTag, Publish, RecordReleased, CloseIssue, CloseIssueFails, Comment,
      CommentFails, RecordClosed, Inv, AtPkg, WinnersHoldTags, Winning, InLoop, ReleaseTxnAssumption
<1>2. ASSUME NEW phase, pc' = [pc EXCEPT ![r] = phase]
      PROVE  /\ pc'[r] = phase
             /\ \A s \in Releaser : s # r => pc'[s] = pc[s]
  BY <1>2 DEF Inv, TypeOK
<1>3. CASE RecordTag(r)
  <2>1. /\ tagged' = [tagged EXCEPT ![at[r]] = r]
        /\ pc' = [pc EXCEPT ![r] = "state"]
        /\ UNCHANGED <<effects, started, released, closed, done, at, todo, mishaps>>
    BY <1>3 DEF RecordTag, Goto
  <2>2. pc'[r] = "state" /\ \A s \in Releaser : s # r => pc'[s] = pc[s]
    BY <1>2, <2>1
  <2>3. TypeOK'
    BY <1>1, <2>1 DEF Inv, TypeOK, Phase
  <2>4. JournalAgreesWithTag'
    BY <1>1, <2>1 DEF Inv, JournalAgreesWithTag, TypeOK
  <2>5. AtPkg' /\ WinnersHoldTags'
    BY <1>1, <2>1, <2>2 DEF Inv, AtPkg, WinnersHoldTags
  <2> QED
    BY <2>1, <2>2, <2>3, <2>4, <2>5
    DEF Inv, PublishedByOwner, ReleasedArePublished, DoneMeansPublished,
        IssueInHand, First, Closes, Comments, ClosedMeansCommented
<1>4. CASE Publish(r)
  <2>1. /\ published' = [published EXCEPT
                            ![at[r]] = IF published[at[r]] = Nobody THEN r
                                       ELSE published[at[r]]]
        /\ pc' = [pc EXCEPT ![r] = "published"]
        /\ UNCHANGED <<tag, open, comments, failed, journal, at, todo, mishaps>>
    BY <1>4 DEF Publish, Goto
  <2>2. pc'[r] = "published" /\ \A s \in Releaser : s # r => pc'[s] = pc[s]
    BY <1>2, <2>1
  <2>3. /\ published'[at[r]] = tag[at[r]] /\ published'[at[r]] # Nobody
        /\ \A p \in Pkg : published[p] # Nobody => published'[p] # Nobody
        /\ \A p \in Pkg : p # at[r] => published'[p] = published[p]
    BY <1>1, <2>1 DEF Inv, TypeOK, PublishedByOwner
  <2>4. TypeOK'
    BY <1>1, <2>1 DEF Inv, TypeOK, Phase
  <2>5. AtPkg' /\ WinnersHoldTags'
    BY <1>1, <2>1, <2>2 DEF Inv, AtPkg, WinnersHoldTags
  <2>6. PublishedByOwner' /\ DoneMeansPublished'
    BY <2>1, <2>3 DEF Inv, PublishedByOwner, DoneMeansPublished
  <2>7. ReleasedArePublished'
    <3>1. \A p \in released : published'[p] # Nobody
      BY <2>3 DEF Inv, TypeOK, ReleasedArePublished
    <3>2. ASSUME NEW s \in Releaser, pc'[s] = "published"
          PROVE  published'[at[s]] # Nobody
      <4>1. CASE s = r
        BY <4>1, <2>3
      <4>2. CASE s # r
        BY <4>2, <3>2, <2>2, <2>3
        DEF Inv, ReleasedArePublished, AtPkg, InLoop, Winning
      <4> QED
        BY <4>1, <4>2
    <3> QED
      BY <2>1, <3>1, <3>2 DEF ReleasedArePublished
  <2> QED
    BY <2>1, <2>2, <2>4, <2>5, <2>6, <2>7
    DEF Inv, JournalAgreesWithTag, IssueInHand, First, Closes, Comments,
        ClosedMeansCommented
<1>5. CASE RecordReleased(r)
  <2>1. /\ pc[r] = "published" /\ released' = released \cup {at[r]}
        /\ pc' = [pc EXCEPT ![r] = "close"]
        /\ UNCHANGED <<effects, started, tagged, closed, done, at, todo, mishaps>>
    BY <1>5 DEF RecordReleased, Goto
  <2>2. pc'[r] = "close" /\ \A s \in Releaser : s # r => pc'[s] = pc[s]
    BY <1>2, <2>1
  <2>3. TypeOK'
    BY <1>1, <2>1 DEF Inv, TypeOK, Phase
  <2>4. AtPkg' /\ WinnersHoldTags' /\ ReleasedArePublished'
    BY <1>1, <2>1, <2>2 DEF Inv, AtPkg, WinnersHoldTags, ReleasedArePublished
  <2> QED
    BY <2>1, <2>2, <2>3, <2>4
    DEF Inv, JournalAgreesWithTag, PublishedByOwner, DoneMeansPublished,
        IssueInHand, First, Closes, Comments, ClosedMeansCommented
<1>6. CASE CloseIssue(r) \/ CloseIssueFails(r) \/ Comment(r) \/ CommentFails(r)
  <2>1. /\ \/ pc[r] = "close" /\ pc' = [pc EXCEPT ![r] = "comment"]
           \/ pc[r] = "comment" /\ pc' = [pc EXCEPT ![r] = "closed"]
        /\ open' \subseteq open
        /\ comments \subseteq comments' /\ failed \subseteq failed'
        /\ faults' \in 0 .. MaxFaults
        /\ UNCHANGED <<tag, published, journal, at, todo, cut>>
    <3> USE DEF mishaps
    <3>1. CASE CloseIssue(r)
      BY <3>1 DEF CloseIssue, Goto, Inv, TypeOK
    <3>2. CASE Comment(r)
      BY <3>2 DEF Comment, Goto, Inv, TypeOK
    <3>3. CASE CloseIssueFails(r)
      BY <3>3, ReleaseTxnAssumption
      DEF CloseIssueFails, Goto, Inv, TypeOK, ReleaseTxnAssumption
    <3>4. CASE CommentFails(r)
      BY <3>4, ReleaseTxnAssumption
      DEF CommentFails, Goto, Inv, TypeOK, ReleaseTxnAssumption
    <3> QED
      BY <1>6, <3>1, <3>2, <3>3, <3>4
  <2>2. PICK i \in Issue :
          /\ First(r, i)
          /\ pc[r] = "close" => i \notin open' \/ <<"close", at[r], i>> \in failed'
          /\ pc[r] = "comment" =>
                <<i, at[r]>> \in comments' \/ <<"comment", at[r], i>> \in failed'
          /\ comments' \subseteq comments \cup {<<i, at[r]>>}
          /\ failed' \subseteq failed \cup {<<"close", at[r], i>>, <<"comment", at[r], i>>}
    BY <1>6 DEF CloseIssue, CloseIssueFails, Comment, CommentFails
  <2>3. \A s \in Releaser : s # r => pc'[s] = pc[s]
    BY <2>1, <1>2
  <2>4. \/ pc[r] = "close" /\ pc'[r] = "comment"
        \/ pc[r] = "comment" /\ pc'[r] = "closed"
    BY <2>1, <1>2
  <2>5. TypeOK'
    <3>1. failed' \subseteq {"close", "comment"} \X Pkg \X Issue
      BY <1>1, <2>2 DEF Inv, TypeOK
    <3>2. comments' \subseteq Issue \X Pkg
      BY <1>1, <2>2 DEF Inv, TypeOK
    <3> QED
      BY <2>1, <3>1, <3>2 DEF Inv, TypeOK, Phase
  <2>6. AtPkg' /\ WinnersHoldTags' /\ ReleasedArePublished'
    BY <1>1, <2>1, <2>3, <2>4 DEF Inv, AtPkg, WinnersHoldTags, ReleasedArePublished
  <2>7. IssueInHand'
    <3> SUFFICES ASSUME NEW s \in Releaser, NEW j \in Issue, First(s, j)
                 PROVE  /\ pc'[s] \in {"comment", "closed"} => Closes(at[s], j)'
                        /\ pc'[s] = "closed" => Comments(at[s], j)'
      BY <2>1 DEF IssueInHand, First, Closes, Comments
    <3>1. CASE s = r
      <4>1. j = i
        <5>1. i <= j /\ j <= i /\ i \in Nat /\ j \in Nat
          BY <2>2, <3>1, ReleaseTxnAssumption DEF First, ReleaseTxnAssumption
        <5> QED
          BY <5>1
      <4>2. CASE pc[r] = "close" /\ pc'[r] = "comment"
        BY <2>1, <2>2, <3>1, <4>1, <4>2 DEF Closes
      <4>3. CASE pc[r] = "comment" /\ pc'[r] = "closed"
        <5>1. Closes(at[r], i)
          BY <2>2, <4>3 DEF Inv, IssueInHand
        <5> QED
          BY <2>1, <2>2, <3>1, <4>1, <4>3, <5>1 DEF Closes, Comments
      <4> QED
        BY <2>4, <4>2, <4>3
    <3>2. CASE s # r
      BY <2>1, <2>3, <3>2 DEF Inv, IssueInHand, Closes, Comments
    <3> QED
      BY <3>1, <3>2
  <2>8. ClosedMeansCommented'
    BY <2>1 DEF Inv, ClosedMeansCommented
  <2> QED
    BY <2>1, <2>5, <2>6, <2>7, <2>8
    DEF Inv, JournalAgreesWithTag, PublishedByOwner, DoneMeansPublished
<1>7. CASE RecordClosed(r)
  <2>1. PICK i \in Issue : /\ First(r, i)
                           /\ closed' = closed \cup {<<at[r], i>>}
                           /\ todo' = [todo EXCEPT ![r] = @ \ {i}]
    BY <1>7 DEF RecordClosed
  <2>2. /\ pc[r] = "closed" /\ pc' = [pc EXCEPT ![r] = "close"]
        /\ UNCHANGED <<effects, started, tagged, released, done, at, mishaps>>
    BY <1>7 DEF RecordClosed, Goto
  <2>3. pc'[r] = "close" /\ \A s \in Releaser : s # r => pc'[s] = pc[s]
    BY <1>2, <2>2
  <2>4. TypeOK'
    BY <1>1, <2>1, <2>2 DEF Inv, TypeOK, Phase
  <2>5. AtPkg' /\ WinnersHoldTags' /\ ReleasedArePublished'
    BY <1>1, <2>2, <2>3 DEF Inv, AtPkg, WinnersHoldTags, ReleasedArePublished
  <2>6. IssueInHand'
    BY <2>1, <2>2, <2>3 DEF Inv, TypeOK, IssueInHand, First, Closes, Comments
  <2>7. ClosedMeansCommented'
    <3>1. Closes(at[r], i) /\ Comments(at[r], i)
      BY <2>1, <2>2 DEF Inv, IssueInHand
    <3> SUFFICES ASSUME NEW c \in closed'
                 PROVE  /\ c[2] \notin open \/ <<"close", c[1], c[2]>> \in failed
                        /\ \/ <<c[2], c[1]>> \in comments
                           \/ <<"comment", c[1], c[2]>> \in failed
      BY <2>2 DEF ClosedMeansCommented
    <3>2. CASE c \in closed
      BY <3>2 DEF Inv, ClosedMeansCommented
    <3>3. CASE c = <<at[r], i>>
      BY <3>1, <3>3 DEF Closes, Comments
    <3> QED
      BY <2>1, <3>2, <3>3
  <2> QED
    BY <2>2, <2>4, <2>5, <2>6, <2>7
    DEF Inv, JournalAgreesWithTag, PublishedByOwner, DoneMeansPublished
<1> QED
  BY <1>3, <1>4, <1>5, <1>6, <1>7

\* A run that ends keeps it.
LEMMA Finishes ==
    ASSUME Inv, NEW r \in Releaser, Finalize(r)
    PROVE  Inv'
<1> USE DEF effects
<1>1. /\ pc' = [pc EXCEPT ![r] = "idle"] /\ at' = [at EXCEPT ![r] = 1]
      /\ todo' = [todo EXCEPT ![r] = {}] /\ done' = (done \/ AllReleased)
      /\ UNCHANGED <<effects, started, tagged, released, closed, mishaps>>
  BY DEF Finalize, Return, Goto
<1>2. /\ pc'[r] = "idle"
      /\ \A s \in Releaser : s # r =>
            pc'[s] = pc[s] /\ at'[s] = at[s] /\ todo'[s] = todo[s]
  BY <1>1 DEF Inv, TypeOK
<1>3. TypeOK'
  <2>1. 1 \in 1 .. NPkg + 1
    BY ReleaseTxnAssumption DEF ReleaseTxnAssumption
  <2> QED
    BY <1>1, <2>1 DEF Inv, TypeOK, Phase, mishaps
<1>4. DoneMeansPublished'
  BY <1>1 DEF Inv, DoneMeansPublished, ReleasedArePublished, AllReleased
<1>5. AtPkg' /\ WinnersHoldTags' /\ ReleasedArePublished' /\ IssueInHand'
  BY <1>1, <1>2 DEF Inv, AtPkg, WinnersHoldTags, ReleasedArePublished, IssueInHand,
                    First, Closes, Comments, Winning, InLoop
<1> QED
  BY <1>1, <1>3, <1>4, <1>5
  DEF Inv, JournalAgreesWithTag, PublishedByOwner, ClosedMeansCommented

\* A killed run keeps it.
LEMMA Dies ==
    ASSUME Inv, NEW r \in Releaser, Crash(r)
    PROVE  Inv'
<1> USE DEF effects, journal, mishaps
<1>1. /\ pc' = [pc EXCEPT ![r] = "idle"] /\ at' = [at EXCEPT ![r] = 1]
      /\ todo' = [todo EXCEPT ![r] = {}]
      /\ UNCHANGED <<effects, journal>>
  BY DEF Crash, Return, Goto
<1>2. /\ pc'[r] = "idle"
      /\ \A s \in Releaser : s # r =>
            pc'[s] = pc[s] /\ at'[s] = at[s] /\ todo'[s] = todo[s]
  BY <1>1 DEF Inv, TypeOK
<1>3. TypeOK'
  <2>1. 1 \in 1 .. NPkg + 1
    BY ReleaseTxnAssumption DEF ReleaseTxnAssumption
  <2>2. faults' \in 0 .. MaxFaults /\ cut' \subseteq Pkg
    BY ReleaseTxnAssumption
    DEF Inv, TypeOK, AtPkg, Crash, Effects, InLoop, Winning, ReleaseTxnAssumption
  <2> QED
    BY <1>1, <2>1, <2>2 DEF Inv, TypeOK, Phase
<1>4. AtPkg' /\ WinnersHoldTags' /\ ReleasedArePublished' /\ IssueInHand'
  BY <1>1, <1>2 DEF Inv, AtPkg, WinnersHoldTags, ReleasedArePublished, IssueInHand,
                    First, Closes, Comments, Winning, InLoop
<1> QED
  BY <1>1, <1>3, <1>4
  DEF Inv, JournalAgreesWithTag, PublishedByOwner, DoneMeansPublished,
      ClosedMeansCommented

\* Every step of a run keeps it.
LEMMA InvRun ==
    ASSUME Inv, NEW r \in Releaser, Run(r) PROVE Inv'
<1> USE DEF journal
<1>1. 1 \in 1 .. NPkg + 1
  BY ReleaseTxnAssumption DEF ReleaseTxnAssumption
<1>2. /\ at[r] \in 1 .. NPkg + 1 /\ at = [at EXCEPT ![r] = at[r]]
      /\ started \subseteq Releaser /\ todo \in [Releaser -> SUBSET Issue]
  BY DEF Inv, TypeOK
<1>3. CASE Enter(r)
  <2>1. CASE r \in started
    <3>1. GotoPkg(r, 1) /\ UNCHANGED <<effects, journal, todo, mishaps>>
      BY <1>3, <2>1 DEF Enter
    <3> HIDE DEF GotoPkg
    <3> QED
      BY <1>1, <1>2, <3>1, MovesToPkg
  <2>2. CASE r \notin started
    BY <1>2, <1>3, <2>2, Moves DEF Enter, Goto, Phase, Winning, InLoop
  <2> QED
    BY <2>1, <2>2
<1>4. CASE Start(r)
  <2>1. /\ started' \subseteq Releaser /\ GotoPkg(r, 1)
        /\ UNCHANGED <<effects, tagged, released, closed, done, todo, mishaps>>
    BY <1>2, <1>4 DEF Start
  <2> HIDE DEF GotoPkg
  <2> QED
    BY <1>1, <2>1, MovesToPkg
<1>5. CASE ReadWinner(r) \/ ReadLost(r)
  <2>1. CASE pc[r] = "winner" /\ Goto(r, "push") /\ ReadWinner(r)
              /\ UNCHANGED <<effects, journal, at, todo, mishaps>>
    <3>1. at[r] \in Pkg
      BY <2>1 DEF Inv, AtPkg, InLoop
    <3> QED
      BY <1>2, <2>1, <3>1, Moves DEF Goto, Phase, Winning, InLoop
  <2>2. CASE /\ pc[r] \in {"winner", "lost"} /\ Proceed(r, tagged[at[r]])
             /\ UNCHANGED <<effects, journal, todo, mishaps>>
    BY <2>2, Proceeds
  <2> QED
    BY <1>5, <2>1, <2>2 DEF ReadWinner, ReadLost
<1>6. CASE PushTag(r) \/ PushTagUnheard(r)
  BY <1>6, Wins DEF PushTag, PushTagUnheard
<1>7. CASE PushTagLost(r)
  <2>1. at[r] \in Pkg
    BY <1>7 DEF PushTagLost, Inv, AtPkg, InLoop
  <2> QED
    BY <1>2, <1>7, <2>1, Moves DEF PushTagLost, Goto, Phase, Winning, InLoop
<1>8. CASE ReadState(r)
  <2>1. at[r] \in Pkg /\ tag[at[r]] = r
    BY <1>8 DEF ReadState, Inv, AtPkg, WinnersHoldTags, InLoop, Winning
  <2>2. PICK phase \in {"close", "publish"} : pc' = [pc EXCEPT ![r] = phase]
    BY <1>8 DEF ReadState, Goto
  <2>3. /\ todo' \in [Releaser -> SUBSET Issue]
        /\ \A s \in Releaser : s # r => todo'[s] = todo[s]
        /\ UNCHANGED <<effects, journal, at, mishaps>>
    BY <1>2, <1>8 DEF ReadState, StillToClose
  <2> QED
    BY <1>2, <2>1, <2>2, <2>3, Moves DEF Phase, Winning, InLoop
<1>9. CASE NextPkg(r)
  <2>1. at[r] + 1 \in 1 .. NPkg + 1
    BY <1>9, ReleaseTxnAssumption
    DEF NextPkg, Inv, AtPkg, InLoop, Winning, Pkg, ReleaseTxnAssumption
  <2>2. GotoPkg(r, at[r] + 1) /\ UNCHANGED <<effects, journal, todo, mishaps>>
    BY <1>9 DEF NextPkg
  <2> HIDE DEF GotoPkg
  <2> QED
    BY <1>2, <2>1, <2>2, MovesToPkg
<1> QED
  BY <1>3, <1>4, <1>5, <1>6, <1>7, <1>8, <1>9, WinnerActs, Finishes DEF Run

\* Every step keeps it.
LEMMA InvStep == Inv /\ [Next]_vars => Inv'
<1> SUFFICES ASSUME Inv, [Next]_vars PROVE Inv'
  OBVIOUS
<1>1. CASE UNCHANGED vars
  BY <1>1 DEF vars, effects, journal, mishaps, Inv, TypeOK, AtPkg, JournalAgreesWithTag,
     WinnersHoldTags, PublishedByOwner, ReleasedArePublished, DoneMeansPublished,
     IssueInHand, First, Closes, Comments, ClosedMeansCommented
<1> QED
  BY <1>1, InvRun, Dies DEF Next

\* The inductive invariant of the release transaction.
THEOREM ReleaseInvariance == Spec => []Inv
BY InvInit, InvStep, PTL DEF Spec

-----------------------------------------------------------------------------
\* Every variable of the release keeps its type (release_txn.py).
THEOREM ReleaseTypes == Spec => []TypeOK
<1>1. Inv => TypeOK
  BY DEF Inv
<1> QED
  BY <1>1, ReleaseInvariance, PTL

\* What the journal says of a winner, the remote tag says too: the tag is the
\* mutex (release_txn.py:3-6).
THEOREM TagIsTheMutex == Spec => []JournalAgreesWithTag
<1>1. Inv => JournalAgreesWithTag
  BY DEF Inv
<1> QED
  BY <1>1, ReleaseInvariance, PTL

\* Side effects are gated on winning (release_txn.py:7-9).
THEOREM EffectsAreTheWinners == Spec => []OnlyWinnerPublishes
<1>1. Inv => OnlyWinnerPublishes
  BY DEF Inv, OnlyWinnerPublishes, PublishedByOwner, WinnersHoldTags, Winning
<1> QED
  BY <1>1, ReleaseInvariance, PTL

\* A release is never finalized before all of it is published, whoever
\* finalizes it (release_txn.py:11-13, 139-143).
THEOREM NeverFalselyFinal == Spec => []DoneMeansPublished
<1>1. Inv => DoneMeansPublished
  BY DEF Inv
<1> QED
  BY <1>1, ReleaseInvariance, PTL

\* An issue the journal says a package closed is closed and commented, but for
\* the very calls GitHub refused: their failures are journalled as done
\* (release_txn.py:132-137, gh_ports.py:43-57).
THEOREM ClosedIsTrue == Spec => []ClosedMeansCommented
<1>1. Inv => ClosedMeansCommented
  BY DEF Inv
<1> QED
  BY <1>1, ReleaseInvariance, PTL

-----------------------------------------------------------------------------
(* What becomes of the issues *)

\* Only a package whose winner is recorded gets to its effects.
EffectsAreRecorded ==
    /\ \A r \in Releaser : pc[r] \in Effects => tagged[at[r]] # Nobody
    /\ \A p \in released : tagged[p] # Nobody
    /\ done => Pkg \subseteq released

\* The winner of a package has closed its issues for it, or is about to.
Attended(p) ==
    \/ \A i \in Issue : <<p, i>> \in closed
    \/ /\ at[tag[p]] = p /\ pc[tag[p]] \in Effects
       /\ pc[tag[p]] = "state" \/ \A i \in Issue : i \in todo[tag[p]] \/ <<p, i>> \in closed

ClosingInv ==
    /\ EffectsAreRecorded
    /\ \A p \in Pkg : tagged[p] # Nobody /\ p \notin cut => Attended(p)

\* The effects of a package follow its record.
LEMMA RecordFirst ==
    ASSUME Inv, EffectsAreRecorded, NEW r \in Releaser, Run(r) \/ Crash(r)
    PROVE  EffectsAreRecorded'
<1> USE DEF EffectsAreRecorded
<1>1. /\ pc \in [Releaser -> Phase] /\ at \in [Releaser -> 1 .. NPkg + 1]
      /\ tagged \in [Pkg -> Releaser \cup {Nobody}]
      /\ \A s \in Releaser : pc[s] \in Effects => at[s] \in Pkg
      /\ pc[r] = "record" => at[r] \in Pkg
      /\ r # Nobody
  BY ReleaseTxnAssumption
  DEF Inv, TypeOK, AtPkg, Effects, InLoop, Winning, ReleaseTxnAssumption
<1>2. CASE Enter(r) \/ Start(r) \/ PushTagLost(r) \/ NextPkg(r) \/ Crash(r)
  BY <1>1, <1>2 DEF Enter, Start, PushTagLost, NextPkg, Crash, Return, GotoPkg, Goto,
                    Effects, journal
<1>3. CASE PushTag(r) \/ PushTagUnheard(r)
  BY <1>1, <1>3 DEF PushTag, PushTagUnheard, CreateTag, Goto, Effects, journal
<1>4. CASE ReadWinner(r) \/ ReadLost(r)
  BY <1>1, <1>4 DEF ReadWinner, ReadLost, Proceed, Mine, GotoPkg, Goto, Effects, journal
<1>5. CASE RecordTag(r)
  BY <1>1, <1>5 DEF RecordTag, Goto, Effects
<1>6. CASE ReadState(r) \/ Publish(r)
  BY <1>1, <1>6 DEF ReadState, Publish, Goto, Effects, journal
<1>7. CASE RecordReleased(r)
  BY <1>1, <1>7 DEF RecordReleased, Goto, Effects
<1>8. CASE CloseIssue(r) \/ CloseIssueFails(r) \/ Comment(r) \/ CommentFails(r)
  BY <1>1, <1>8 DEF CloseIssue, CloseIssueFails, Comment, CommentFails, Goto, Effects,
                    journal
<1>9. CASE RecordClosed(r)
  BY <1>1, <1>9 DEF RecordClosed, Goto, Effects
<1>10. CASE Finalize(r)
  BY <1>1, <1>10 DEF Finalize, Return, Goto, Effects, AllReleased
<1> QED
  BY <1>2, <1>3, <1>4, <1>5, <1>6, <1>7, <1>8, <1>9, <1>10 DEF Run

\* A step of another run leaves the winner where it is.
LEMMA OthersStayAway ==
    ASSUME Inv, NEW r \in Releaser, Run(r) \/ Crash(r), NEW s \in Releaser, s # r
    PROVE  pc'[s] = pc[s] /\ at'[s] = at[s] /\ todo'[s] = todo[s]
<1> USE DEF Inv, TypeOK, Goto, GotoPkg, Return
<1>1. CASE Enter(r) \/ Start(r) \/ ReadWinner(r) \/ ReadLost(r)
  BY <1>1 DEF Enter, Start, ReadWinner, ReadLost, Proceed
<1>2. CASE PushTag(r) \/ PushTagUnheard(r) \/ PushTagLost(r) \/ RecordTag(r)
  BY <1>2 DEF PushTag, PushTagUnheard, CreateTag, PushTagLost, RecordTag
<1>3. CASE ReadState(r) \/ Publish(r) \/ RecordReleased(r)
  BY <1>3 DEF ReadState, Publish, RecordReleased
<1>4. CASE CloseIssue(r) \/ CloseIssueFails(r) \/ Comment(r) \/ CommentFails(r)
  BY <1>4 DEF CloseIssue, CloseIssueFails, Comment, CommentFails
<1>5. CASE RecordClosed(r) \/ NextPkg(r) \/ Finalize(r) \/ Crash(r)
  BY <1>5 DEF RecordClosed, NextPkg, Finalize, Crash
<1> QED
  BY <1>1, <1>2, <1>3, <1>4, <1>5 DEF Run

\* What is recorded stays: winners, tags, closes and cuts.
LEMMA BooksGrow ==
    ASSUME Inv, NEW r \in Releaser, Run(r) \/ Crash(r)
    PROVE  /\ closed \subseteq closed' /\ cut \subseteq cut'
           /\ \A p \in Pkg : tag[p] # Nobody => tag'[p] = tag[p]
           /\ \A p \in Pkg : tagged'[p] # Nobody =>
                 \/ tagged[p] # Nobody
                 \/ RecordTag(r) /\ at[r] = p
<1> USE DEF Inv, TypeOK, effects, journal, mishaps
<1>1. CASE Enter(r) \/ Start(r) \/ ReadWinner(r) \/ ReadLost(r) \/ ReadState(r) \/ NextPkg(r)
  BY <1>1 DEF Enter, Start, ReadWinner, ReadLost, ReadState, NextPkg
<1>2. CASE PushTag(r) \/ PushTagUnheard(r) \/ PushTagLost(r)
  BY <1>2 DEF PushTag, PushTagUnheard, CreateTag, TagFree, PushTagLost
<1>3. CASE RecordTag(r) \/ Publish(r) \/ RecordReleased(r) \/ RecordClosed(r)
  BY <1>3 DEF RecordTag, Publish, RecordReleased, RecordClosed
<1>4. CASE CloseIssue(r) \/ CloseIssueFails(r) \/ Comment(r) \/ CommentFails(r)
  BY <1>4 DEF CloseIssue, CloseIssueFails, Comment, CommentFails
<1>5. CASE Finalize(r) \/ Crash(r)
  BY <1>5 DEF Finalize, Crash
<1> QED
  BY <1>1, <1>2, <1>3, <1>4, <1>5 DEF Run

\* A winner that is not killed does not leave a package before its issues.
LEMMA StaysUntilClosed ==
    ASSUME Inv, NEW r \in Releaser, Run(r) \/ Crash(r),
           NEW p \in Pkg, p \notin cut', tag[p] = r, at[r] = p, pc[r] \in Effects,
           pc[r] = "state" \/ \A i \in Issue : i \in todo[r] \/ <<p, i>> \in closed
    PROVE  \/ \A i \in Issue : <<p, i>> \in closed'
           \/ /\ at'[r] = p /\ pc'[r] \in Effects
              /\ pc'[r] = "state" \/ \A i \in Issue : i \in todo'[r] \/ <<p, i>> \in closed'
<1> USE DEF Inv, TypeOK, Goto, Effects, journal
<1>1. CASE ReadState(r)
  BY <1>1 DEF ReadState, StillToClose
<1>2. CASE Publish(r) \/ RecordReleased(r)
  BY <1>2 DEF Publish, RecordReleased
<1>3. CASE CloseIssue(r) \/ CloseIssueFails(r) \/ Comment(r) \/ CommentFails(r)
  BY <1>3 DEF CloseIssue, CloseIssueFails, Comment, CommentFails
<1>4. CASE RecordClosed(r)
  <2>1. PICK i \in Issue : /\ closed' = closed \cup {<<p, i>>}
                           /\ todo' = [todo EXCEPT ![r] = @ \ {i}]
    BY <1>4 DEF RecordClosed
  <2>2. at'[r] = p /\ pc'[r] = "close" /\ pc[r] = "closed"
    BY <1>4 DEF RecordClosed
  <2>3. \A j \in Issue : j \in todo'[r] \/ <<p, j>> \in closed'
    BY <2>1, <2>2
  <2> QED
    BY <2>2, <2>3
<1>5. CASE NextPkg(r)
  BY <1>5 DEF NextPkg
<1>6. CASE Crash(r)
  BY <1>6 DEF Crash
<1>7. CASE Enter(r) \/ Start(r) \/ ReadWinner(r) \/ ReadLost(r) \/ PushTag(r)
           \/ PushTagUnheard(r) \/ PushTagLost(r) \/ RecordTag(r) \/ Finalize(r)
  BY <1>7 DEF Enter, Start, ReadWinner, ReadLost, PushTag, PushTagUnheard, CreateTag,
              PushTagLost, RecordTag, Finalize
<1> QED
  BY <1>1, <1>2, <1>3, <1>4, <1>5, <1>6, <1>7 DEF Run

\* Every step keeps it.
LEMMA ClosingStep ==
    ASSUME Inv, ClosingInv, [Next]_vars
    PROVE  ClosingInv'
<1>1. CASE UNCHANGED vars
  BY <1>1 DEF vars, effects, journal, mishaps, ClosingInv, EffectsAreRecorded, Attended
<1>2. ASSUME NEW r \in Releaser, Run(r) \/ Crash(r)
      PROVE  ClosingInv'
  <2> SUFFICES ASSUME NEW p \in Pkg, tagged'[p] # Nobody, p \notin cut'
               PROVE  Attended(p)'
    BY <1>2, RecordFirst DEF ClosingInv
  <2>1. CASE RecordTag(r) /\ at[r] = p
    <3>1. tag'[p] = r /\ at'[r] = p /\ pc'[r] = "state"
      BY <2>1 DEF RecordTag, Goto, Inv, TypeOK, WinnersHoldTags, Winning, effects
    <3> QED
      BY <3>1 DEF Attended, Effects
  <2>2. CASE tagged[p] # Nobody
    <3>1. /\ tag[p] # Nobody /\ tag[p] \in Releaser /\ tag'[p] = tag[p]
          /\ closed \subseteq closed' /\ Attended(p)
      BY <1>2, <2>2, BooksGrow DEF Inv, TypeOK, JournalAgreesWithTag, ClosingInv
    <3>2. CASE \A i \in Issue : <<p, i>> \in closed
      BY <3>1, <3>2 DEF Attended
    <3>3. CASE ~ \A i \in Issue : <<p, i>> \in closed
      <4>1. CASE tag[p] = r
        BY <1>2, <3>1, <3>3, <4>1, StaysUntilClosed DEF Attended
      <4>2. CASE tag[p] # r
        <5>1. /\ pc'[tag[p]] = pc[tag[p]] /\ at'[tag[p]] = at[tag[p]]
              /\ todo'[tag[p]] = todo[tag[p]]
          BY <1>2, <3>1, <4>2, OthersStayAway
        <5> QED
          BY <3>1, <3>3, <5>1 DEF Attended
      <4> QED
        BY <4>1, <4>2
    <3> QED
      BY <3>2, <3>3
  <2> QED
    BY <1>2, <2>1, <2>2, BooksGrow
<1> QED
  BY <1>1, <1>2 DEF Next

\* An issue is open after the release only for a cause: for every package, its
\* winner is still at work, was killed at that package, or was refused the
\* close (release_txn.py:106-107, 132-143; gh_ports.py:43-44).
THEOREM OpenIssuesHaveCause == Spec => []LeftOpenForCause
<1>1. Init => ClosingInv
  BY DEF Init, ClosingInv, EffectsAreRecorded, Effects
<1>2. Inv /\ ClosingInv /\ [Next]_vars => ClosingInv'
  BY ClosingStep
<1>3. Inv /\ ClosingInv => LeftOpenForCause
  <2> SUFFICES ASSUME Inv, ClosingInv, done, NEW p \in Pkg, NEW i \in open,
                      p \notin cut, <<"close", p, i>> \notin failed
               PROVE  pc[tag[p]] # "idle"
    BY DEF LeftOpenForCause
  <2>1. i \in Issue /\ Attended(p)
    BY DEF Inv, TypeOK, ClosingInv, EffectsAreRecorded
  <2>2. <<p, i>> \notin closed
    BY DEF Inv, ClosedMeansCommented
  <2> QED
    BY <2>1, <2>2 DEF Attended, Effects
<1> QED
  BY <1>1, <1>2, <1>3, ReleaseInvariance, PTL DEF Spec

-----------------------------------------------------------------------------
(* ReleaseTxn implements Release *)

\* Every step implements a step of Release, or a stutter.
LEMMA AbstractStep ==
    ASSUME Inv, [Next]_vars
    PROVE  [Abstract!Next]_(Abstract!ReleaseVars)
<1> USE DEF Abstract!ReleaseVars
<1>1. CASE UNCHANGED vars
  BY <1>1 DEF vars, effects, journal
<1>2. ASSUME NEW r \in Releaser, Run(r) \/ Crash(r)
      PROVE  [Abstract!Next]_(Abstract!ReleaseVars)
  <2>1. CASE CreateTag(r)
    <3>1. at[r] \in Pkg
      BY <2>1 DEF Inv, AtPkg, InLoop, CreateTag
    <3>2. Abstract!Elect(at[r], r)
      BY <2>1 DEF CreateTag, TagFree, journal, Abstract!Elect
    <3> QED
      BY <3>1, <3>2 DEF Abstract!Next
  <2>2. CASE Publish(r)
    <3>1. at[r] \in Pkg /\ tag[at[r]] = r /\ r # Nobody
      BY <2>2, ReleaseTxnAssumption
      DEF Publish, Inv, AtPkg, WinnersHoldTags, InLoop, Winning, ReleaseTxnAssumption
    <3>2. CASE published[at[r]] = Nobody
      <4>1. Abstract!Publish(at[r])
        BY <2>2, <3>1, <3>2 DEF Publish, journal, Abstract!Publish
      <4> QED
        BY <3>1, <4>1 DEF Abstract!Next
    <3>3. CASE published[at[r]] # Nobody
      <4>1. published' = published
        BY <2>2, <3>1, <3>3 DEF Publish, Inv, TypeOK
      <4> QED
        BY <2>2, <4>1 DEF Publish, journal
    <3> QED
      BY <3>2, <3>3
  <2>3. CASE Finalize(r)
    <3>1. CASE AllReleased
      <4>1. \A p \in Pkg : published[p] # Nobody
        BY <3>1 DEF Inv, ReleasedArePublished, AllReleased
      <4>2. done' = TRUE
        BY <2>3, <3>1 DEF Finalize
      <4>3. Abstract!Finish
        BY <2>3, <4>1, <4>2 DEF Finalize, effects, Abstract!Finish
      <4> QED
        BY <4>3 DEF Abstract!Next
    <3>2. CASE ~AllReleased
      BY <2>3, <3>2 DEF Finalize, effects, Inv, TypeOK
    <3> QED
      BY <3>1, <3>2
  <2>4. CASE ~(CreateTag(r) \/ Publish(r) \/ Finalize(r))
    <3>1. CASE Enter(r) \/ Start(r) \/ ReadWinner(r) \/ PushTagLost(r) \/ RecordTag(r)
               \/ ReadLost(r)
      BY <3>1 DEF Enter, Start, ReadWinner, PushTagLost, RecordTag, ReadLost,
                  effects, journal
    <3>2. CASE ReadState(r) \/ RecordReleased(r) \/ CloseIssue(r)
               \/ CloseIssueFails(r) \/ Comment(r) \/ CommentFails(r) \/ RecordClosed(r) \/ NextPkg(r) \/ Crash(r)
      BY <3>2 DEF ReadState, RecordReleased, CloseIssue, CloseIssueFails, Comment,
                  CommentFails, RecordClosed, NextPkg, Crash, effects, journal
    <3> QED
      BY <1>2, <2>4, <3>1, <3>2 DEF Run, PushTag, PushTagUnheard
  <2> QED
    BY <2>1, <2>2, <2>3, <2>4
<1> QED
  BY <1>1, <1>2 DEF Next

\* The journalled transaction is the release its docstring promises: one
\* owner per package, one publication by its owner, finished when all are
\* published (release_txn.py:1-15).
THEOREM ReleaseRefinement == Spec => ImplementsRelease
<1>1. Init => Abstract!Init
  BY DEF Init, Abstract!Init
<1>2. Inv /\ [Next]_vars => [Abstract!Next]_(Abstract!ReleaseVars)
  BY AbstractStep
<1> QED
  BY <1>1, <1>2, ReleaseInvariance, PTL DEF Spec, ImplementsRelease, Abstract!Spec
=============================================================================
