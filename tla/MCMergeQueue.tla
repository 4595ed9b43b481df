---------------------------- MODULE MCMergeQueue ----------------------------
(* MergeQueue on a few PRs, lanes and runners. *)
EXTENDS MergeQueue, TLC

CONSTANTS p1, p2, p3, p4, h1, l1, l2, r1, r2

TwoPRs == {p1, p2}
FourPRs == {p1, p2, p3, p4}
NoHotfix == {}
OneHotfix == {h1}
OneLane == {l1}
TwoLanes == {l1, l2}
OneRunner == {r1}
TwoRunners == {r1, r2}

SingleRunner == [r \in OneRunner |-> l1]
RunnerPerLane == r1 :> l1 @@ r2 :> l2

\* Nothing fails and everything merges.
NoneRed == {}
NoConflicts == {}

\* p1 and p2 do not work together; p2 and p4 do not merge.
PairRed == {t \in SUBSET Change : {p1, p2} \subseteq t}
OneConflict == {{p2, p4}}

\* The symmetries: of the PRs, and of the lanes, each with its runner.
LaneSwap == l1 :> l2 @@ l2 :> l1 @@ r1 :> r2 @@ r2 :> r1
LanesAlike == {a @@ b : a \in Permutations(PR),
                        b \in {LaneSwap, [x \in {l1, l2, r1, r2} |-> x]}}
=============================================================================
