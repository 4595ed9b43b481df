----------------------------- MODULE ReleaseTxn -----------------------------
(***************************************************************************)
(* One release, run by several releasers (tools/conductor/release_txn.py,  *)
(* with the tag push of gitutil.py).  A releaser is a token: a killed run  *)
(* may be started again with the same token.  Every read or append of the  *)
(* journal and every side effect is a step; the journal is modelled by its *)
(* fold, a package and its version by its place in the sorted plan.        *)
(***************************************************************************)
EXTENDS Naturals

CONSTANTS NPkg,           \* how many packages the plan releases
          Releaser,       \* the tokens
          Nobody,         \* no tag, no winner in the journal, not published
          Issue,          \* verified_issues, numbered as they are listed
          MaxFaults       \* bound: killed runs, and calls that GitHub refuses

Pkg == 1 .. NPkg

ASSUME ReleaseTxnAssumption ==
    /\ NPkg \in Nat
    /\ Nobody \notin Releaser
    /\ Issue \subseteq Nat
    /\ MaxFaults \in Nat

VARIABLES tag,        \* the remote tags: whose nonce each carries
          published,  \* the registry: who published each package
          open,       \* the issues still open
          comments,   \* the comments made, by issue and package
          failed,     \* history: the calls GitHub refused, by package and issue
          started, tagged, released, closed, done,  \* the journal's fold
          pc,         \* where each run is
          at,         \* the package it is at
          todo,       \* the issues it still has to close for that package
          faults,     \* killed runs and refused calls so far
          cut         \* history: the packages whose winner was killed at them

journal == <<started, tagged, released, closed, done>>
effects == <<tag, published, open, comments, failed>>
mishaps == <<faults, cut>>
vars == <<effects, journal, pc, at, todo, mishaps>>

Phase == {"idle", "start", "winner", "push", "record", "lost", "state",
          "publish", "published", "close", "comment", "closed", "final"}

\* At the effects of a package that one has won.
Effects == {"state", "publish", "published", "close", "comment", "closed"}

Goto(r, phase) == pc' = [pc EXCEPT ![r] = phase]

\* To package p, or to the end of the loop.
GotoPkg(r, p) ==
    /\ at' = [at EXCEPT ![r] = p]
    /\ Goto(r, IF p \in Pkg THEN "winner" ELSE "final")

Return(r) ==
    /\ Goto(r, "idle")
    /\ at' = [at EXCEPT ![r] = 1]
    /\ todo' = [todo EXCEPT ![r] = {}]

-----------------------------------------------------------------------------
Init ==
    /\ tag = [p \in Pkg |-> Nobody]
    /\ published = [p \in Pkg |-> Nobody]
    /\ open = Issue
    /\ comments = {}
    /\ failed = {}
    /\ started = {}
    /\ tagged = [p \in Pkg |-> Nobody]
    /\ released = {}
    /\ closed = {}
    /\ done = FALSE
    /\ pc = [r \in Releaser |-> "idle"]
    /\ at = [r \in Releaser |-> 1]
    /\ todo = [r \in Releaser |-> {}]
    /\ faults = 0
    /\ cut = {}

\* Mutant of Enter: a token that has started is not run again.
EnterOnce(r) ==
    /\ pc[r] = "idle"
    /\ ~done /\ r \notin started
    /\ Goto(r, "start")
    /\ UNCHANGED <<effects, journal, at, todo, mishaps>>

\* A run of a release that is done returns "already-done" at once.
Enter(r) ==
    /\ pc[r] = "idle"
    /\ ~done
    /\ IF r \in started THEN GotoPkg(r, 1) ELSE Goto(r, "start") /\ UNCHANGED at
    /\ UNCHANGED <<effects, journal, todo, mishaps>>

Start(r) ==
    /\ pc[r] = "start"
    /\ started' = started \cup {r}
    /\ GotoPkg(r, 1)
    /\ UNCHANGED <<effects, tagged, released, closed, done, todo, mishaps>>

\* Mutant of Mine: the effects are gated on the election, not on winning it.
AnybodysWin(r, winner) == winner # Nobody

Mine(r, winner) == winner = r

\* The effects are the winner's; anybody else goes on to the next package.
Proceed(r, winner) ==
    IF Mine(r, winner) THEN Goto(r, "state") /\ UNCHANGED at
                       ELSE GotoPkg(r, at[r] + 1)

ReadWinner(r) ==
    /\ pc[r] = "winner"
    /\ IF tagged[at[r]] = Nobody
       THEN Goto(r, "push") /\ UNCHANGED at
       ELSE Proceed(r, tagged[at[r]])
    /\ UNCHANGED <<effects, journal, todo, mishaps>>

\* Mutant of TagFree: a forced push of the tag.
TagForced(p) == TRUE

\* Create-only: a tag that exists, even one's own, is not a "[new tag]".
TagFree(p) == tag[p] = Nobody

CreateTag(r) ==
    /\ pc[r] = "push"
    /\ TagFree(at[r])
    /\ tag' = [tag EXCEPT ![at[r]] = r]
    /\ UNCHANGED <<published, open, comments, failed, journal, at, todo, mishaps>>

PushTag(r) == CreateTag(r) /\ Goto(r, "record")

\* The tag is created, but the push is reported as failed.
PushTagUnheard(r) == CreateTag(r) /\ Goto(r, "lost")

PushTagLost(r) ==
    /\ pc[r] = "push"
    /\ ~TagFree(at[r])
    /\ Goto(r, "lost")
    /\ UNCHANGED <<effects, journal, at, todo, mishaps>>

RecordTag(r) ==
    /\ pc[r] = "record"
    /\ tagged' = [tagged EXCEPT ![at[r]] = r]
    /\ Goto(r, "state")
    /\ UNCHANGED <<effects, started, released, closed, done, at, todo, mishaps>>

\* The loser reads who won: nobody it knows of if that is not recorded yet.
ReadLost(r) ==
    /\ pc[r] = "lost"
    /\ Proceed(r, tagged[at[r]])
    /\ UNCHANGED <<effects, journal, todo, mishaps>>

-----------------------------------------------------------------------------
(* The winner's side effects *)

\* Mutant of StillToClose: an issue that some package closed is closed.
ClosedByNone(p) == {i \in Issue : \A q \in Pkg : <<q, i>> \notin closed}

\* issue_closed is journalled for each package and issue.
StillToClose(p) == {i \in Issue : <<p, i>> \notin closed}

ReadState(r) ==
    /\ pc[r] = "state"
    /\ todo' = [todo EXCEPT ![r] = StillToClose(at[r])]
    /\ Goto(r, IF at[r] \in released THEN "close" ELSE "publish")
    /\ UNCHANGED <<effects, journal, at, mishaps>>

\* publish_if_absent, and the GitHub release on the tag.
Publish(r) ==
    /\ pc[r] = "publish"
    /\ published' = [published EXCEPT ![at[r]] = IF @ = Nobody THEN r ELSE @]
    /\ Goto(r, "published")
    /\ UNCHANGED <<tag, open, comments, failed, journal, at, todo, mishaps>>

RecordReleased(r) ==
    /\ pc[r] = "published"
    /\ released' = released \cup {at[r]}
    /\ Goto(r, "close")
    /\ UNCHANGED <<effects, started, tagged, closed, done, at, todo, mishaps>>

\* The next issue: they are gone through as they are listed.
First(r, i) == i \in todo[r] /\ \A j \in todo[r] : i <= j

\* Mutant of CloseIssue: the comment is left out.
CloseSilently(r) ==
    /\ pc[r] = "close"
    /\ \E i \in Issue : First(r, i) /\ open' = open \ {i}
    /\ Goto(r, "closed")
    /\ UNCHANGED <<tag, published, comments, failed, journal, at, todo, mishaps>>

CloseIssue(r) ==
    /\ pc[r] = "close"
    /\ \E i \in Issue : First(r, i) /\ open' = open \ {i}
    /\ Goto(r, "comment")
    /\ UNCHANGED <<tag, published, comments, failed, journal, at, todo, mishaps>>

\* The call fails and is answered "already-closed": the issue stays as it is.
CloseIssueFails(r) ==
    /\ pc[r] = "close"
    /\ faults < MaxFaults
    /\ faults' = faults + 1
    /\ \E i \in Issue :
          First(r, i) /\ failed' = failed \cup {<<"close", at[r], i>>}
    /\ Goto(r, "comment")
    /\ UNCHANGED <<tag, published, open, comments, journal, at, todo, cut>>

\* A comment that is there already is not made again, unless the look for it
\* fails; how often it is made is left out.
Comment(r) ==
    /\ pc[r] = "comment"
    /\ \E i \in Issue :
          First(r, i) /\ comments' = comments \cup {<<i, at[r]>>}
    /\ Goto(r, "closed")
    /\ UNCHANGED <<tag, published, open, failed, journal, at, todo, mishaps>>

\* The call answers "error", and the run goes on all the same.
CommentFails(r) ==
    /\ pc[r] = "comment"
    /\ faults < MaxFaults
    /\ faults' = faults + 1
    /\ \E i \in Issue :
          First(r, i) /\ failed' = failed \cup {<<"comment", at[r], i>>}
    /\ Goto(r, "closed")
    /\ UNCHANGED <<tag, published, open, comments, journal, at, todo, cut>>

RecordClosed(r) ==
    /\ pc[r] = "closed"
    /\ \E i \in Issue :
          /\ First(r, i)
          /\ closed' = closed \cup {<<at[r], i>>}
          /\ todo' = [todo EXCEPT ![r] = @ \ {i}]
    /\ Goto(r, "close")
    /\ UNCHANGED <<effects, started, tagged, released, done, at, mishaps>>

NextPkg(r) ==
    /\ pc[r] = "close"
    /\ todo[r] = {}
    /\ GotoPkg(r, at[r] + 1)
    /\ UNCHANGED <<effects, journal, todo, mishaps>>

-----------------------------------------------------------------------------
\* Mutant of AllReleased: one package is taken for all.
AnyReleased == released # {}

AllReleased == Pkg \subseteq released

\* "released", or "partial"; the read and the append are two steps, but
\* nothing leaves released.
Finalize(r) ==
    /\ pc[r] = "final"
    /\ done' = (done \/ AllReleased)
    /\ Return(r)
    /\ UNCHANGED <<effects, started, tagged, released, closed, mishaps>>

\* A run is killed.
Crash(r) ==
    /\ pc[r] # "idle"
    /\ faults < MaxFaults
    /\ faults' = faults + 1
    /\ cut' = IF pc[r] \in Effects THEN cut \cup {at[r]} ELSE cut
    /\ Return(r)
    /\ UNCHANGED <<effects, journal>>

Run(r) ==
    \/ Enter(r) \/ Start(r) \/ ReadWinner(r)
    \/ PushTag(r) \/ PushTagUnheard(r) \/ PushTagLost(r)
    \/ RecordTag(r) \/ ReadLost(r) \/ ReadState(r)
    \/ Publish(r) \/ RecordReleased(r)
    \/ CloseIssue(r) \/ CloseIssueFails(r) \/ Comment(r) \/ CommentFails(r)
    \/ RecordClosed(r) \/ NextPkg(r)
    \/ Finalize(r)

Next == \E r \in Releaser : Run(r) \/ Crash(r)

Spec == Init /\ [][Next]_vars

\* Every token is run again until the release is done.
FairSpec == Spec /\ \A r \in Releaser : WF_vars(Run(r))

-----------------------------------------------------------------------------
(* Properties *)

TypeOK ==
    /\ tag \in [Pkg -> Releaser \cup {Nobody}]
    /\ published \in [Pkg -> Releaser \cup {Nobody}]
    /\ open \subseteq Issue
    /\ comments \subseteq Issue \X Pkg
    /\ failed \subseteq {"close", "comment"} \X Pkg \X Issue
    /\ started \subseteq Releaser
    /\ tagged \in [Pkg -> Releaser \cup {Nobody}]
    /\ released \subseteq Pkg
    /\ closed \subseteq Pkg \X Issue
    /\ done \in BOOLEAN
    /\ pc \in [Releaser -> Phase]
    /\ at \in [Releaser -> 1 .. NPkg + 1]
    /\ todo \in [Releaser -> SUBSET Issue]
    /\ faults \in 0 .. MaxFaults
    /\ cut \subseteq Pkg

\* The journal never names a winner that the tag does not name: the tag push
\* is the mutex, whoever crashes or loses (release_txn.py:3-6).
JournalAgreesWithTag == \A p \in Pkg : tagged[p] \in {Nobody, tag[p]}

\* "SIDE-EFFECTS GATED ON WINNING": whoever published a package, or is about
\* to, is the one whose tag it carries (release_txn.py:7-9).
OnlyWinnerPublishes ==
    /\ \A p \in Pkg : published[p] \in {Nobody, tag[p]}
    /\ \A r \in Releaser :
           pc[r] \in {"publish", "published"} => tag[at[r]] = r

\* "never falsely finalized by a loser": a release that is done has every
\* package tagged and published (release_txn.py:11-13).
DoneMeansPublished == done => \A p \in Pkg : published[p] # Nobody

\* An issue that the journal says a package closed is closed, and has that
\* package's comment, wherever runs were killed in between, unless GitHub
\* refused that very call (release_txn.py:132-137).
ClosedMeansCommented ==
    \A c \in closed :
        /\ c[2] \notin open \/ <<"close", c[1], c[2]>> \in failed
        /\ <<c[2], c[1]>> \in comments \/ <<"comment", c[1], c[2]>> \in failed

\* "Released commits auto-close their issues" (DESIGN.md:89).  A release is
\* done before its winners have come to their issues, and no run of it starts
\* again (release_txn.py:106-107, 139-143); yet an issue is left open only if, for
\* every package, its winner is still at work, or was killed at that package, or
\* GitHub refused the close.
LeftOpenForCause ==
    done => \A p \in Pkg, i \in open :
                \/ pc[tag[p]] # "idle" \/ p \in cut
                \/ <<"close", p, i>> \in failed

\* A tag whose winner never recorded it: nobody will act on it any more.
Orphaned(p) ==
    /\ tag[p] # Nobody /\ tagged[p] = Nobody
    /\ ~ \E r \in Releaser : tag[p] = r /\ at[r] = p /\ pc[r] = "record"

\* The release is finished in the end, but for that: kills and lost answers at any
\* other point are made up for by the next run of the winner's token
\* (release_txn.py:8-13).
CompletesUnlessOrphaned == <>(done \/ \E p \in Pkg : Orphaned(p))

\* ReleaseTxn implements Release.
Abstract == INSTANCE Release WITH owner <- tag, finished <- done
ImplementsRelease == Abstract!Spec
=============================================================================
