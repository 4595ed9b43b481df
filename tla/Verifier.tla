------------------------------ MODULE Verifier ------------------------------
(***************************************************************************)
(* The mechanical verifier (verifier.py) and what it asks: the inferred    *)
(* bump (apidiff.py, and the fold of differs.py), the risk tier            *)
(* (risktier.py), the changeset (changeset.py), the issue oracle           *)
(* (issues.py) and the approvals (advisory.py).  Pure functions.           *)
(*                                                                         *)
(* A change is:                                                            *)
(*   files     one record per changed path: its status, whether it is on   *)
(*             the non-API list or on a risk glob, whether a glob of the   *)
(*             footprint matches it, whether it holds conflict markers,    *)
(*             what each differ that claims its extension answers, and     *)
(*             whether it is the old path of what git takes for a rename   *)
(*   globs     "none", "live", or "dead" when a glob matches no path       *)
(*   fragment  its changeset fragment, Malformed when it does not parse    *)
(*   closes    the issues its Closes trailers name                         *)
(*   signed    whether it has the Change-Id and Agent-Id trailers          *)
(***************************************************************************)
EXTENDS Versions

CONSTANTS Issue,      \* the issues of the repository
          Malformed

\* What each of these is in the code.
Answers        == [crashes : BOOLEAN, level : Level, unsure : BOOLEAN, authoritative : BOOLEAN]
ChangedFile    == [status : STRING, nonApi : BOOLEAN, risky : BOOLEAN, declared : BOOLEAN,
                   markers : BOOLEAN, differs : SUBSET Answers, moved : BOOLEAN]
ParsedFragment == {f \in [bumps : Bumps, bump : Level \cup {NoBump}, component : Components,
                          issues : SUBSET Issue] : WellFormed(f)}
Change         == {c \in [files : SUBSET ChangedFile, globs : {"none", "live", "dead"},
                          fragment : ParsedFragment \cup {Malformed}, closes : SUBSET Issue,
                          signed : BOOLEAN] :
                     (\E f \in c.files : f.moved) =>
                        \E f \in c.files : f.status = "R" /\ ~f.moved}

\* diff_name_status: a rename has one line, and the last path on it is the new one.
Named(c) == {f \in c.files : ~f.moved}

(***************************************************************************)
(* The inferred bump                                                       *)
(***************************************************************************)

\* _safe: a differ that crashes has the answer (MAJOR, uncertain).
Answer(d) == IF d.crashes THEN [d EXCEPT !.level = MAJOR, !.unsure = TRUE] ELSE d

\* diff_file: what nobody claims is MAJOR and uncertain; a certain answer of an
\* authoritative differ overrules the others, which are folded.
DiffFile(f) ==
    LET answers == {Answer(d) : d \in f.differs}
        final   == {a \in answers : a.authoritative /\ ~a.unsure}
        others  == answers \ final
    IN  IF f.differs = {} THEN [level |-> MAJOR, unsure |-> TRUE]
        ELSE IF final # {} THEN [level |-> (CHOOSE a \in final : TRUE).level, unsure |-> FALSE]
        ELSE [level  |-> MaxOf({a.level : a \in others}),
              unsure |-> \E a \in others : a.unsure]

\* infer_bump: only the files on the list of non-API files are skipped.
InferBump(files) ==
    LET diffs == {DiffFile(f) : f \in {g \in files : ~g.nonApi}}
    IN  [level  |-> MaxOf({NONE} \cup {d.level : d \in diffs}),
         unsure |-> \E d \in diffs : d.unsure]

IsRisk(files) == \E f \in files : f.risky

(***************************************************************************)
(* The checks                                                              *)
(***************************************************************************)

\* What the trailers name; without trailers, what the fragment names.
Issues(c) ==
    IF c.closes # {} THEN c.closes
    ELSE IF c.fragment = Malformed THEN {} ELSE c.fragment.issues

V1(c) ==
    LET inferred == InferBump(Named(c))
        bumps    == Declared(c.fragment)
    IN  IF c.fragment = Malformed THEN "FAIL"
        ELSE IF MaxOf({bumps[d] : d \in DOMAIN bumps}) < inferred.level THEN "FAIL"
        ELSE IF inferred.unsure THEN "NEEDS_HUMAN" ELSE "PASS"

V2(c) == IF c.fragment = Malformed THEN "FAIL" ELSE "PASS"

\* The oracle answers links(n), whether n is linked to the PR, and state(n); the
\* first issue that is not in order decides, in an order of the author's.
V3(c, links, state) ==
    LET bad == {n \in Issues(c) : ~links[n] \/ state[n] # "open"}
    IN  IF bad = {} THEN {"PASS"}
        ELSE {IF links[n] /\ state[n] = "unknown" THEN "NEEDS_HUMAN" ELSE "FAIL" : n \in bad}

\* _footprint: the globs are to match every path, and each of them some path.
V4(c) ==
    IF c.globs = "none" THEN IF Named(c) # {} THEN "FAIL" ELSE "PASS"
    ELSE IF c.globs = "dead" \/ \E f \in Named(c) : ~f.declared THEN "FAIL" ELSE "PASS"

V5(c) ==
    IF ~c.signed \/ \E f \in Named(c) : f.status # "D" /\ f.markers THEN "FAIL" ELSE "PASS"

\* The fold of the checks, for each answer V3 may give.
Status(c, links, state) ==
    {LET checks == {V1(c), V2(c), v3, V4(c), V5(c)}
     IN  IF "FAIL" \in checks THEN "FAIL"
         ELSE IF "NEEDS_HUMAN" \in checks \/ IsRisk(Named(c)) THEN "NEEDS_HUMAN"
         ELSE "PASS" : v3 \in V3(c, links, state)}

(***************************************************************************)
(* The approval gate                                                       *)
(***************************************************************************)

EligibleApprovers == {"human", "reviewer-app"}

\* Mutant of ApprovalSatisfied: an approval of any head counts.
ApprovalOfAnyHead(approvals, head) ==
    \E a \in approvals : a.type \in EligibleApprovers

ApprovalSatisfied(approvals, head) ==
    \E a \in approvals : a.head = head /\ a.type \in EligibleApprovers

\* recheck_at_land: ok only if every issue is linked and open.
RecheckAtLand(issues, links, state) ==
    \A n \in issues : links[n] /\ state[n] = "open"
=============================================================================
