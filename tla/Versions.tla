------------------------------ MODULE Versions ------------------------------
(***************************************************************************)
(* What a release plan is computed from: the bumps a changeset fragment    *)
(* declares (changeset.py), their fold and their propagation to dependents *)
(* (versionplan.py), the arithmetic of versions (semver.py) and build_plan *)
(* (release_planner.py).  Everything here is a pure function.              *)
(*                                                                         *)
(* A dict from components to levels is a function whose domain is the keys *)
(* of the dict: a key with level NONE is not an absent key, because        *)
(* build_plan gives it a version.  A version is a triple.                  *)
(***************************************************************************)
EXTENDS Integers, FiniteSets

CONSTANTS Components,   \* the components a fragment or a graph may name
          Default       \* the component "_default"

NONE  == 0
PATCH == 1
MINOR == 2
MAJOR == 3
Level == NONE..MAJOR

Version == Nat \X Nat \X Nat
Bumps   == UNION {[S -> Level] : S \in SUBSET Components}
Graph   == [Components -> SUBSET Components]   \* what each component depends on

MaxOf(S) == CHOOSE x \in S : \A y \in S : y <= x

(***************************************************************************)
(* Fragments                                                               *)
(***************************************************************************)

\* A fragment carries a "bumps:" block, a single "bump:" with an optional
\* "component:", or neither; the block wins.
NoBump == -1
WellFormed(f) == DOMAIN f.bumps # {} \/ f.bump # NoBump
Declared(f) ==
    IF DOMAIN f.bumps # {} THEN f.bumps ELSE [c \in {f.component} |-> f.bump]

\* The fold: per component, the maximum over the fragments that name it.
Fold(F) ==
    [c \in UNION {DOMAIN b : b \in F} |->
        MaxOf({b[c] : b \in {x \in F : c \in DOMAIN x}})]

\* Single-version mode: one node, the join of all bumps.
Collapse(raw) ==
    [c \in {Default} |->
        IF DOMAIN raw = {} THEN NONE ELSE MaxOf({raw[d] : d \in DOMAIN raw})]

(***************************************************************************)
(* The dependency graph                                                    *)
(***************************************************************************)

LevelOf(b, c) == IF c \in DOMAIN b THEN b[c] ELSE NONE

\* One pass of the loop of propagate: whoever depends on a bumped component is
\* bumped too.
Pass(deps, bumped) == bumped \cup {c \in Components : deps[c] \cap bumped # {}}

\* Mutant of Bumped: one pass only.
BumpedOnce(deps, raw) == Pass(deps, {c \in DOMAIN raw : raw[c] > NONE})

\* All that are bumped when nothing changes any more.  A pass that changes
\* something adds a component, so there are at most as many passes as components.
Bumped(deps, raw) ==
    LET after[n \in 0..Cardinality(Components)] ==
            IF n = 0 THEN {c \in DOMAIN raw : raw[c] > NONE}
            ELSE LET before == after[n - 1] IN Pass(deps, before)
    IN  after[Cardinality(Components)]

\* propagate: a bumped dependency forces each dependent to PATCH or more.
Propagate(deps, raw) ==
    LET bumped == Bumped(deps, raw)
    IN  [c \in DOMAIN raw \cup bumped |->
            IF c \in bumped /\ LevelOf(raw, c) < PATCH THEN PATCH ELSE raw[c]]

\* What `from` depends on, directly or along a path inside `within`.
Reach(deps, within, from) ==
    LET upto[n \in 1..Cardinality(Components)] ==
            IF n = 1 THEN deps[from] \cap within
            ELSE LET nearer == upto[n - 1]
                 IN  nearer \cup (within \cap UNION {deps[c] : c \in nearer})
    IN  upto[Cardinality(Components)]

\* _assert_acyclic follows the dependencies among the components that have a
\* version, and raises on a cycle.
Cyclic(deps, known) ==
    \E c \in known : c \in Reach(deps, known, c)

(***************************************************************************)
(* Versions                                                                *)
(***************************************************************************)

\* apply of semver.py with zero_major at its default, FALSE: a MAJOR bump of a
\* 0.x version raises the minor.
BumpVersion(v, level) ==
    CASE level = MAJOR -> IF v[1] = 0 THEN <<0, v[2] + 1, 0>> ELSE <<v[1] + 1, 0, 0>>
      [] level = MINOR -> <<v[1], v[2] + 1, 0>>
      [] level = PATCH -> <<v[1], v[2], v[3] + 1>>
      [] OTHER         -> v

Below(v, w) ==
    \/ v[1] < w[1]
    \/ v[1] = w[1] /\ v[2] < w[2]
    \/ v[1] = w[1] /\ v[2] = w[2] /\ v[3] < w[3]

\* A dependent that accepts v accepts w too: the caret range of semver.
Compatible(v, w) ==
    IF v[1] > 0 THEN w[1] = v[1] ELSE w[1] = 0 /\ w[2] = v[2]

(***************************************************************************)
(* The plan                                                                *)
(***************************************************************************)

\* build_plan over the fragments that are active (not excluded); bumpsOf maps a
\* fragment to the bumps it declares, base a component to its current version.
BuildPlan(active, bumpsOf, base, deps, single) ==
    LET folded == Fold({bumpsOf[u] : u \in active})
        bumps  == Propagate(deps, IF single THEN Collapse(folded) ELSE folded)
    IN  [consumed |-> active,
         bumps    |-> bumps,
         versions |-> [c \in DOMAIN bumps |-> BumpVersion(base[c], bumps[c])],
         base     |-> base]
=============================================================================
