----------------------------- MODULE MCStateLog -----------------------------
(* StateLog on two writers. *)
EXTENDS StateLog

CONSTANTS w1, w2

TwoWriters == {w1, w2}

\* Every append has an event of its own.
Distinct == [op \in Ops |-> op]
DistinctEvents == Ops
=============================================================================
