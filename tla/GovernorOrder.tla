--------------------------- MODULE GovernorOrder ----------------------------
(***************************************************************************)
(* The governor with the order of its log, which acquire() means to keep   *)
(* the budget by ("keep only if within budget by acquire order",           *)
(* governor.py:65) but does not read: it sorts by expiry and name.         *)
(***************************************************************************)
EXTENDS Governor

VARIABLE older   \* history: <<a, b>> if a was appended before b, for a, b in the fold

ordered == <<vars, older>>

\* A token is appended behind all those in the fold, and forgotten with its release.
Recorded ==
    older' = {e \in older \cup acquired \X (acquired' \ acquired) :
                  {e[1], e[2]} \subseteq acquired'}

OrderInit == Init /\ older = {}
OrderNext == Next /\ Recorded

OrderBehaviour == OrderInit /\ [][OrderNext]_ordered

OrderSpec ==
    /\ OrderBehaviour
    /\ WF_vars(Tick) /\ \A p \in Proc : WF_vars(Step(p))

\* More lanes tick than the budget allows only if two of them hold tokens whose
\* order in the log is not that of their expiry and names, which is what acquire
\* re-checks (governor.py:61-72).  That it does happen then is why
\* BudgetNeverExceeded is not an invariant of the code.
BudgetUnlessOutOfOrder ==
    \/ BudgetNeverExceeded
    \/ \E g, h \in Working : <<tok[g], tok[h]>> \in older /\ Before(tok[h], tok[g])
=============================================================================
