---------------------------- MODULE MCDispatcher ----------------------------
(* Dispatcher on four scopes, and PRs that bridge them. *)
EXTENDS Dispatcher, TLC

CONSTANTS p1, p2, p3, j1, j2, fa, fb, fc, fd, lock, readme

ThreePRs == {p1, p2, p3}
TwoJobs == {j1, j2}
Files == {fa, fb, fc, fd, lock, readme}
Shared == {lock}

\* The files fa and fb of scope 1 and 2, fc of both 3 and 4, fd of 4; readme
\* has no rule.
FileRules == {[files |-> {fa}, scope |-> 1], [files |-> {fb}, scope |-> 2],
              [files |-> {fc}, scope |-> 3], [files |-> {fc, fd}, scope |-> 4]}
FiveScopes == 0 .. 4
SomeDiffs == {{fc}, {fd}, {fb, fd}, {fa, fb, fd}, {fd, lock}, {readme}}

\* The PRs are alike, and so are the jobs.
Alike == {a @@ b : a \in Permutations(PR), b \in Permutations(Job)}
=============================================================================
