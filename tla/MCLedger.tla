------------------------------ MODULE MCLedger ------------------------------
(* A repository of three components and two changes, planned by two jobs.   *)
EXTENDS Ledger, TLC

CONSTANTS web, lib, docs, default, u1, u2, j1, j2, r1, r2

MCComponents == {web, lib, docs, default}

NoDeps == [c \in MCComponents |-> {}]
Chain  == [NoDeps EXCEPT ![docs] = {web}, ![web] = {lib}]
Cycle  == [Chain EXCEPT ![lib] = {docs}]
Repository == [deps |-> Chain, single |-> FALSE, tagged |-> TRUE,
               jobs |-> {j1, j2}, readers |-> {}, commands |-> {}, linked |-> {u1, u2},
               mishaps |-> 0, forces |-> 0, faults |-> 0]

Reading == [Repository EXCEPT !.tagged = FALSE, !.jobs = {j1}, !.readers = {r1},
                              !.forces = 1, !.faults = 1]

MCRank == docs :> 0 @@ lib :> 1 @@ web :> 2 @@ default :> 3

\* Two jobs beside each other, under each graph and mode, with and without a
\* mishap; one job and a reader that rebuilds or one that audits (neither reads
\* what the other writes); two that rebuild from a trunk nothing is released
\* from; one that rebuilds when GitHub ties one of the changes to no PR.
MCSettings ==
    { Repository,
      [Repository EXCEPT !.tagged = FALSE],
      [Repository EXCEPT !.deps = Cycle],
      [Repository EXCEPT !.deps = NoDeps, !.single = TRUE, !.mishaps = 1],
      [Reading EXCEPT !.commands = {"rebuild"}],
      [Reading EXCEPT !.commands = {"verify", "trace"}],
      [Reading EXCEPT !.jobs = {}, !.readers = {r1, r2}, !.commands = {"rebuild"}],
      [Reading EXCEPT !.jobs = {}, !.commands = {"rebuild"}, !.linked = {u1}] }

\* One change breaks the API of lib and says so in a block, which also names
\* docs with "none"; the other is a patch of web by the single form.
MCFragment ==
    u1 :> [bumps |-> (lib :> MAJOR) @@ (docs :> NONE), bump |-> NoBump, component |-> default]
    @@ u2 :> [bumps |-> <<>>, bump |-> PATCH, component |-> web]

MCInitialVersion == [c \in MCComponents |-> IF c = lib THEN <<0, 3, 1>> ELSE <<1, 0, 0>>]
=============================================================================
