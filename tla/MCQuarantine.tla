---------------------------- MODULE MCQuarantine ----------------------------
(* Quarantine on a few PRs and tests. *)
EXTENDS Quarantine

CONSTANTS p1, p2, p3, h1, h2, t1, t2

ThreePRs == {p1, p2, p3}
NoHotfix == {}
TwoHotfixes == {h1, h2}
OneTest == {t1}
TwoTests == {t1, t2}

\* h1 breaks t1 until h2 mends it, and p2 and p3 together break t2.
Breaks ==
    [t \in Test |-> IF t = t1 THEN {T \in SUBSET Change : h1 \in T /\ h2 \notin T}
                    ELSE {T \in SUBSET Change : {p2, p3} \subseteq T}]

\* p1 makes t1 race, and so does h2 if it comes before h1.
Races ==
    [t \in Test |-> {T \in SUBSET Change :
                        t = t1 /\ (p1 \in T \/ (h2 \in T /\ h1 \notin T))} \ Breaks[t]]

\* Nothing fails, nothing races.
NoneFails == [t \in Test |-> {}]
NoneRaces == [t \in Test |-> {}]
=============================================================================
