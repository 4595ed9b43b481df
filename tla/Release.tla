------------------------------ MODULE Release -------------------------------
(***************************************************************************)
(* What release_txn.py promises of one release (its docstring): each       *)
(* package has one owner, elected once and for all; a package is published *)
(* once, and by its owner; the release is finished once all are published. *)
(***************************************************************************)
CONSTANTS Pkg, Releaser, Nobody

VARIABLES owner, published, finished

ReleaseVars == <<owner, published, finished>>

Init ==
    /\ owner = [p \in Pkg |-> Nobody]
    /\ published = [p \in Pkg |-> Nobody]
    /\ finished = FALSE

Elect(p, r) ==
    /\ owner[p] = Nobody
    /\ owner' = [owner EXCEPT ![p] = r]
    /\ UNCHANGED <<published, finished>>

Publish(p) ==
    /\ owner[p] # Nobody
    /\ published[p] = Nobody
    /\ published' = [published EXCEPT ![p] = owner[p]]
    /\ UNCHANGED <<owner, finished>>

Finish ==
    /\ \A p \in Pkg : published[p] # Nobody
    /\ finished' = TRUE
    /\ UNCHANGED <<owner, published>>

Next ==
    \/ \E p \in Pkg, r \in Releaser : Elect(p, r)
    \/ \E p \in Pkg : Publish(p)
    \/ Finish

Spec == Init /\ [][Next]_ReleaseVars
=============================================================================
