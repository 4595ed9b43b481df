---------------------------- MODULE MCReleaseTxn ----------------------------
(* ReleaseTxn with a few tokens, packages and issues. *)
EXTENDS ReleaseTxn

CONSTANTS a, b, c

ThreeTokens == {a, b, c}
OneIssue == {1}
=============================================================================
