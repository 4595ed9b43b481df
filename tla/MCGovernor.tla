----------------------------- MODULE MCGovernor -----------------------------
(* Governor on three lanes. *)
EXTENDS GovernorOrder

CONSTANT reconciler

ThreeHolders == 1 .. 3
=============================================================================
