------------------------------- MODULE Ledger -------------------------------
(***************************************************************************)
(* ssot.py over the planner: the provenance ledger, a projection of trunk  *)
(* and of the release journal kept on a ref of its own.  Readers rebuild   *)
(* it, verify the journal against trunk and GitHub, and trace a closed     *)
(* issue to its release, each by several reads while trunk, the journal    *)
(* and the issue move on.                                                  *)
(*                                                                         *)
(* A commit of trunk is the change it landed; the identity of a change is  *)
(* its Change-Id trailer, if it has one.  A read of the journal whose      *)
(* fetch fails is the empty journal (statelog.py:55-57), and a lookup at   *)
(* GitHub that fails is "unknown" or None (ssot.py:57-87).                 *)
(***************************************************************************)
EXTENDS Planner

CONSTANTS Readers,      \* processes of `conductor ssot`; the setting says which of
                        \* them run, and what commands
          Unresolved    \* the plan of a record that joins with none

ASSUME LedgerAssumption ==
    /\ \A h \in SUBSET Ulids : Unresolved # h
    /\ \A s \in Settings : /\ s.readers \subseteq Readers /\ s.linked \subseteq Ulids
                          /\ s.commands \subseteq {"rebuild", "verify", "trace"}
                          /\ {s.forces, s.faults} \subseteq Nat

VARIABLES ledger,    \* the ledger ref: how often it was written, and its records
          issue,     \* the issue of the release at GitHub
          lost,      \* the changes a force-push took off trunk (some may have landed again)
          forces, faults,
          reader     \* where each reader is
ledgerVars == <<ledger, issue, lost, forces, faults, reader>>
vars == <<plannerVars, ledgerVars>>

\* kind: rebuild, verify or trace; journal: what it read; blind: whether that
\* read failed; since: how often the ledger was written when it began, and tip: when
\* it last looked; owed: what was wrong when it began and has not been put right
\* (since and owed are histories).
IdleReader ==
    [pc |-> "idle", kind |-> "none", journal |-> EmptyJournal, blind |-> FALSE,
     since |-> 0, owed |-> {}, records |-> <<>>, tip |-> 0, answer |-> "none", told |-> {}]

Init ==
    /\ PlannerInit
    /\ ledger = [writes |-> 0, records |-> <<>>]
    /\ issue = "open"
    /\ lost = {}
    /\ forces = 0 /\ faults = 0
    /\ reader = [r \in Readers |-> IdleReader]

(***************************************************************************)
(* The projection                                                          *)
(***************************************************************************)

\* Mutant of Join: a change without an identity is guessed into some plan.
JoinByGuess(u, j) ==
    IF DOMAIN j.index = {} THEN Unresolved
    ELSE IF u \in DOMAIN j.index THEN j.index[u]
    ELSE j.index[CHOOSE w \in DOMAIN j.index : TRUE]

\* The join of a commit with its plan, through the change_id map of the journal
\* and never by a guess.
Join(u, j) ==
    IF u \in Identified /\ u \in DOMAIN j.index THEN j.index[u] ELSE Unresolved

\* build_ledger: one record per first-parent commit, oldest first.
Projection(commits, j) ==
    [i \in DOMAIN commits |-> [change |-> commits[i], plan |-> Join(commits[i], j)]]

\* What INV-1 of verify asks for: the changes of the released plans.
ReleasedChanges(j) == UNION j.done \cap Identified

(***************************************************************************)
(* The world around it                                                     *)
(***************************************************************************)

\* Somebody takes the last commit off trunk, and its fragment with it.
ForcePush ==
    /\ forces < setting.forces /\ trunk # <<>>
    /\ forces' = forces + 1
    /\ LET last == trunk[Len(trunk)]
       IN  /\ lost' = lost \cup {last}
           /\ fragments' = fragments \ {last}
    /\ trunk' = SubSeq(trunk, 1, Len(trunk) - 1)
    /\ UNCHANGED <<setting, tags, orphans, mishaps, journal, job, ledger, issue, faults, reader>>

\* Somebody opens the issue again that a release has closed; only an audit looks.
Reopen ==
    /\ issue = "closed" /\ "verify" \in setting.commands
    /\ issue' = "reopened"
    /\ UNCHANGED <<plannerVars, ledger, lost, forces, faults, reader>>

\* The planner's steps.
PlannerStep ==
    /\ PlannerNext
    /\ UNCHANGED ledgerVars

\* A release closes the issue; when the call to GitHub fails, close_if_open answers
\* "already-closed" all the same, and the journal records it closed.
CloseStep(j, fails) ==
    /\ CloseIssue(j)
    /\ fails => faults < setting.faults
    /\ faults' = IF fails THEN faults + 1 ELSE faults
    /\ issue' = IF fails THEN issue ELSE "closed"
    /\ reader' = IF fails THEN reader
                 ELSE [r \in Readers |-> [reader[r] EXCEPT !.owed = @ \ {"issue"}]]
    /\ UNCHANGED <<ledger, lost, forces>>

(***************************************************************************)
(* A reader                                                                *)
(***************************************************************************)

\* What a sound audit that begins now must not pass over.
Owed == ((lost \ OnTrunk) \cap ReleasedChanges(journal))
        \cup (IF journal.closed /\ issue # "closed" THEN {"issue"} ELSE {})

\* Every command reads the journal first; a failed fetch reads nothing.
ReadJournal(r, kind, fails) ==
    /\ reader[r].pc = "idle"
    /\ fails => faults < setting.faults
    /\ faults' = IF fails THEN faults + 1 ELSE faults
    /\ reader' = [reader EXCEPT ![r] =
            [IdleReader EXCEPT !.pc = "trunk", !.kind = kind, !.blind = fails,
                !.journal = IF fails THEN EmptyJournal ELSE journal,
                !.since = IF kind = "rebuild" THEN ledger.writes ELSE 0,
                !.owed = IF kind = "verify" THEN Owed ELSE {}]]
    /\ UNCHANGED <<plannerVars, ledger, issue, lost, forces>>

\* Mutant of Project: the ledger is compared by its length.
ProjectIfLonger(r) ==
    LET records == Projection(trunk, reader[r].journal)
    IN  /\ reader[r].pc = "trunk" /\ reader[r].kind = "rebuild"
        /\ OnTrunk \subseteq setting.linked
        /\ reader' = [reader EXCEPT ![r] =
                IF Len(ledger.records) = Len(records) THEN IdleReader
                ELSE [@ EXCEPT !.pc = "push", !.records = records, !.tip = ledger.writes]]
        /\ UNCHANGED <<plannerVars, ledger, issue, lost, forces, faults>>

\* rebuild: the records of the trunk of now and the journal of before.  Nothing is
\* written when the ledger says this already, nor when GitHub knows of no PR for
\* one of the commits, which is taken for an outage (see Unlinked).
Project(r) ==
    LET records == Projection(trunk, reader[r].journal)
    IN  /\ reader[r].pc = "trunk" /\ reader[r].kind = "rebuild"
        /\ OnTrunk \subseteq setting.linked
        /\ reader' = [reader EXCEPT ![r] =
                IF ledger.writes > 0 /\ ledger.records = records THEN IdleReader
                ELSE [@ EXCEPT !.pc = "push", !.records = records, !.tip = ledger.writes]]
        /\ UNCHANGED <<plannerVars, ledger, issue, lost, forces, faults>>

\* Mutant of Outage: the records read before the outage are written.
OutageWrites(r) ==
    /\ reader[r].pc = "trunk" /\ reader[r].kind = "rebuild"
    /\ faults < setting.faults /\ trunk # <<>>
    /\ faults' = faults + 1
    /\ reader' = [reader EXCEPT ![r].pc = "push", ![r].tip = ledger.writes]
    /\ UNCHANGED <<plannerVars, ledger, issue, lost, forces>>

\* One lookup of a PR fails: the rebuild ends and nothing is written.
Outage(r) ==
    /\ reader[r].pc = "trunk" /\ reader[r].kind = "rebuild"
    /\ faults < setting.faults /\ trunk # <<>>
    /\ faults' = faults + 1
    /\ reader' = [reader EXCEPT ![r] = IdleReader]
    /\ UNCHANGED <<plannerVars, ledger, issue, lost, forces>>

\* A commit that GitHub ties to no PR (a hotfix pushed to trunk) has no PR at any
\* lookup, and that is an outage at every rebuild.
Unlinked(r) ==
    /\ reader[r].pc = "trunk" /\ reader[r].kind = "rebuild"
    /\ ~(OnTrunk \subseteq setting.linked)
    /\ reader' = [reader EXCEPT ![r] = IdleReader]
    /\ UNCHANGED <<plannerVars, ledger, issue, lost, forces, faults>>

\* The tip that the lease names is fetched again just before the push.
FetchTip(r) ==
    /\ reader[r].pc = "push" /\ reader[r].tip # ledger.writes
    /\ reader' = [reader EXCEPT ![r].tip = ledger.writes]
    /\ UNCHANGED <<plannerVars, ledger, issue, lost, forces, faults>>

PushLedger(r) ==
    /\ reader[r].pc = "push"
    /\ ledger' = IF reader[r].tip = ledger.writes
                 THEN [writes |-> ledger.writes + 1, records |-> reader[r].records]
                 ELSE ledger
    /\ reader' = [reader EXCEPT ![r] = IdleReader]
    /\ UNCHANGED <<plannerVars, issue, lost, forces, faults>>

\* Mutant of Verify: an issue whose state is unknown counts as closed.
VerifyTrusting(r, unknown) ==
    LET j   == reader[r].journal
        ok  == /\ ReleasedChanges(j) \subseteq OnTrunk
               /\ j.closed => issue = "closed" \/ unknown
    IN  /\ reader[r].pc = "trunk" /\ reader[r].kind = "verify"
        /\ unknown => faults < setting.faults
        /\ faults' = IF unknown THEN faults + 1 ELSE faults
        /\ reader' = [reader EXCEPT ![r] =
                [IdleReader EXCEPT !.answer = IF ok THEN "ok" ELSE "violations",
                                   !.blind = reader[r].blind, !.owed = reader[r].owed]]
        /\ UNCHANGED <<plannerVars, ledger, issue, lost, forces>>

\* verify: every change of a released plan is on trunk (INV-1), and every issue
\* recorded closed is closed at GitHub, where unknown is not closed (INV-2).
Verify(r, unknown) ==
    LET j   == reader[r].journal
        ok  == /\ ReleasedChanges(j) \subseteq OnTrunk
               /\ j.closed => issue = "closed" /\ ~unknown
    IN  /\ reader[r].pc = "trunk" /\ reader[r].kind = "verify"
        /\ unknown => faults < setting.faults
        /\ faults' = IF unknown THEN faults + 1 ELSE faults
        /\ reader' = [reader EXCEPT ![r] =
                [IdleReader EXCEPT !.answer = IF ok THEN "ok" ELSE "violations",
                                   !.blind = reader[r].blind, !.owed = reader[r].owed]]
        /\ UNCHANGED <<plannerVars, ledger, issue, lost, forces>>

\* trace: the commits of the closing PRs that are on trunk, each told released
\* if the plan it joins with is done.
Trace(r) ==
    LET j        == reader[r].journal
        released == {u \in OnTrunk : Join(u, j) \in j.done}
    IN  /\ reader[r].pc = "trunk" /\ reader[r].kind = "trace"
        /\ reader' = [reader EXCEPT ![r] = [IdleReader EXCEPT !.told = released]]
        /\ UNCHANGED <<plannerVars, ledger, issue, lost, forces, faults>>

ReaderStep(r) ==
    \/ \E kind \in setting.commands, fails \in BOOLEAN : ReadJournal(r, kind, fails)
    \/ Project(r) \/ Outage(r) \/ Unlinked(r) \/ FetchTip(r) \/ PushLedger(r)
    \/ \E unknown \in BOOLEAN : Verify(r, unknown)
    \/ Trace(r)

Next ==
    \/ PlannerStep
    \/ \E j \in setting.jobs, fails \in BOOLEAN : CloseStep(j, fails)
    \/ ForcePush
    \/ Reopen
    \/ \E r \in setting.readers : ReaderStep(r)

\* A reader is run again and again (the CLI is the caller's to schedule), and one
\* that runs comes to its end.
Fairness ==
    \A r \in Readers :
        /\ SF_vars(/\ r \in setting.readers /\ "rebuild" \in setting.commands
                   /\ ReadJournal(r, "rebuild", FALSE))
        /\ WF_vars(Project(r)) /\ WF_vars(Unlinked(r)) /\ WF_vars(PushLedger(r))
        /\ WF_vars(Verify(r, FALSE)) /\ WF_vars(Trace(r))

Spec == Init /\ [][Next]_vars /\ Fairness

(***************************************************************************)
(* Properties                                                              *)
(***************************************************************************)

\* Nothing that the ledger or a trace says is made up: a record names a plan
\* only if that plan was started with that change in it, and a change is told
\* released only if its plan is done (ssot.py:127-147, 185-199).
NothingFabricated ==
    /\ \A i \in DOMAIN ledger.records :
        LET rec == ledger.records[i]
        IN  rec.plan # Unresolved =>
                rec.plan \in StartedPlans(journal) /\ rec.change \in rec.plan
    /\ \A r \in Readers : reader[r].told \subseteq UNION journal.done

\* verify never passes over what was wrong before it began and has not been put
\* right since, a released change that a force-push took off trunk, or an issue
\* recorded closed that was opened again or that GitHub failed to close
\* (gh_ports.py:43-44), unless it could not read the journal (ssot.py:204-235).
AuditSound ==
    \A r \in Readers :
        (reader[r].answer = "ok" /\ ~reader[r].blind) => reader[r].owed = {}

\* A write takes from the ledger a change that has been on trunk all the time, or
\* its plan, only if the writer could not read the journal, or another writer was
\* faster (ssot.py:160-172).
Says(l, u) == {l.records[i].plan : i \in {k \in DOMAIN l.records : l.records[k].change = u}}
Thins(u) ==
    /\ u \in OnTrunk \ lost
    /\ \/ Says(ledger, u) # {} /\ Says(ledger', u) = {}
       \/ Says(ledger, u) \notin {{}, {Unresolved}} /\ Says(ledger', u) = {Unresolved}
NeverThinned ==
    [][ (\E u \in Ulids : Thins(u)) =>
            \E r \in Readers : /\ reader[r].pc = "push" /\ reader'[r].pc = "idle"
                               /\ reader[r].blind \/ reader[r].since # ledger.writes ]_vars

\* When trunk and the journal come to rest, the ledger comes to be their
\* projection and stays it, whatever failed before, if GitHub ties every commit of
\* trunk to a PR.
Rebuilt(l) == l.records = Projection(trunk, journal)
Converges ==
    (setting.readers # {} /\ "rebuild" \in setting.commands)
        => <>[](OnTrunk \subseteq setting.linked => Rebuilt(ledger))
=============================================================================
