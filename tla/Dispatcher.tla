----------------------------- MODULE Dispatcher -----------------------------
(***************************************************************************)
(* Routing PRs to lanes (dispatcher.py and scope.py of tools/conductor),   *)
(* by several jobs at a time.                                              *)
(*                                                                         *)
(* The registry log is modelled by what is read out of it: the union-find  *)
(* forest that _uf folds the routed scopes into, and the last record of    *)
(* every PR.  An append is atomic (StateLog).  Scopes are numbered in the  *)
(* lexicographic order of their names; the lane of component "L:s" is s.   *)
(***************************************************************************)
EXTENDS Integers, Sequences, SequencesExt, FiniteSets, FiniteSetsExt

CONSTANTS PR,
          Job,         \* jobs that route
          Path,        \* the files of the repository
          GlobalPath,  \* the shared ones: lockfiles, manifests, CI, generated
          Rule,        \* ScopeMap's rules: the files a glob matches, a scope
          Scope,       \* all scopes, <root> among them
          Root,        \* "<root>", the scope of files no rule matches
          Diffs,       \* the sets of files a PR may change
          Global,      \* GLOBAL_LANE
          NoLane,      \* not routed, or not yet
          NoPR,        \* a job that routes nothing
          MaxRoutes    \* bound: records in the registry

ASSUME DispatcherAssumption ==
    /\ Scope \subseteq Nat /\ IsFiniteSet(Scope) /\ Root \in Scope
    /\ GlobalPath \subseteq Path
    /\ Rule \subseteq [files : SUBSET Path, scope : Scope \ {Root}]
    /\ Diffs \subseteq SUBSET Path
    /\ NoPR \notin PR /\ Global # NoLane /\ {Global, NoLane} \cap Scope = {}
    /\ MaxRoutes \in Nat

VARIABLES parent,   \* the forest of the registry's records
          rec,      \* the last record of each PR
          pc,       \* where each job is in route()
          work,     \* the PR it routes, its files, and the lane it found
          groups,   \* history: the scope sets of the records of scoped lanes
          routed    \* the number of records

vars == <<parent, rec, pc, work, groups, routed>>

NoRecord == [lane |-> NoLane, scopes |-> {Root}, paths |-> {}]
NoWork == [pr |-> NoPR, paths |-> {}, lane |-> NoLane]

-----------------------------------------------------------------------------
(* scope.ScopeMap, dispatcher.touches_global *)

ScopesFor(paths) ==
    LET out == {r.scope : r \in {x \in Rule : x.files \cap paths # {}}}
    IN  IF out = {} THEN {Root} ELSE out

TouchesGlobal(paths) == paths \cap GlobalPath # {}

-----------------------------------------------------------------------------
(* dispatcher._UF *)

\* The forest after find(x), which halves the path it walks.
Halved(par, x) ==
    LET walk[q \in [Scope -> Scope] \X Scope] ==
            LET p == q[1]
                y == q[2]
                h == [p EXCEPT ![y] = p[p[y]]]
            IN  IF p[y] = y THEN p ELSE walk[<<h, h[y]>>]
    IN  walk[<<par, x>>]

\* What find(x) returns.
Find(par, x) ==
    LET up[y \in Scope] == IF par[y] = y THEN y ELSE up[par[y]]
    IN  up[x]

\* Mutant of Union: the scopes are linked instead of their roots.
UnionOfLeaves(par, a, b) == [par EXCEPT ![Max({a, b})] = Min({a, b})]

Union(par, a, b) ==
    LET h == Halved(Halved(par, a), b)
        roots == {Find(h, a), Find(h, b)}
    IN  [h EXCEPT ![Max(roots)] = Min(roots)]

\* Mutant of Rest: the slice stops one short.
RestButLast(scopes) == scopes \ {Min(scopes), Max(scopes)}

\* The scopes that are joined to the first one, in their order.
Rest(scopes) == scopes \ {Min(scopes)}

Joined(par, scopes) ==
    FoldLeft(LAMBDA f, s : Union(f, Min(scopes), s), par,
             SetToSortSeq(Rest(scopes), LAMBDA s, t : s < t))

-----------------------------------------------------------------------------
Init ==
    /\ parent = [s \in Scope |-> s]
    /\ rec = [p \in PR |-> NoRecord]
    /\ pc = [j \in Job |-> "idle"]
    /\ work = [j \in Job |-> NoWork]
    /\ groups = {}
    /\ routed = 0

\* A job lists a PR with the files it changes by now, and routes it.  A shared
\* file decides at once; else the registry is read.
Route(j) ==
    /\ pc[j] = "idle"
    /\ routed < MaxRoutes
    /\ \E p \in PR, d \in Diffs :
          IF TouchesGlobal(d)
          THEN /\ work' = [work EXCEPT ![j] = [pr |-> p, paths |-> d, lane |-> Global]]
               /\ pc' = [pc EXCEPT ![j] = "append"]
          ELSE /\ work' = [work EXCEPT ![j] = [pr |-> p, paths |-> d, lane |-> NoLane]]
               /\ pc' = [pc EXCEPT ![j] = "read"]
    /\ UNCHANGED <<parent, rec, groups, routed>>

Scopes(j) == ScopesFor(work[j].paths)

\* lane_for_scopes: the component of the PR's scopes in what was read.
LaneForScopes(j) ==
    /\ pc[j] = "read"
    /\ work' = [work EXCEPT ![j].lane =
                    Find(Joined(parent, Scopes(j)), Min(Scopes(j)))]
    /\ pc' = [pc EXCEPT ![j] = "append"]
    /\ UNCHANGED <<parent, rec, groups, routed>>

\* Append the record; it joins its scopes for every later reader, unless it
\* is one of the global lane.
Record(j) ==
    /\ pc[j] = "append"
    /\ LET w == work[j]
       IN  /\ rec' = [rec EXCEPT ![w.pr] =
                         [lane |-> w.lane, scopes |-> Scopes(j), paths |-> w.paths]]
           /\ IF w.lane = Global
              THEN UNCHANGED <<parent, groups>>
              ELSE /\ parent' = Joined(parent, Scopes(j))
                   /\ groups' = groups \cup {Scopes(j)}
    /\ routed' = routed + 1
    /\ pc' = [pc EXCEPT ![j] = "idle"]
    /\ work' = [work EXCEPT ![j] = NoWork]

\* The job is killed.
Crash(j) ==
    /\ pc[j] # "idle"
    /\ pc' = [pc EXCEPT ![j] = "idle"]
    /\ work' = [work EXCEPT ![j] = NoWork]
    /\ UNCHANGED <<parent, rec, groups, routed>>

Next ==
    \E j \in Job : Route(j) \/ LaneForScopes(j) \/ Record(j) \/ Crash(j)

Spec == Init /\ [][Next]_vars

-----------------------------------------------------------------------------
\* The lane a routed PR is in now, whatever has merged since.
CurrentLane(p) ==
    IF rec[p].lane \in {NoLane, Global} THEN rec[p].lane
    ELSE Find(parent, Min(rec[p].scopes))

(* Properties *)

\* The scopes connected to s by the records, by definition.
Component(s) ==
    {t \in Scope : \A T \in SUBSET Scope :
         (s \in T /\ \A g \in groups : g \cap T # {} => g \subseteq T) => t \in T}

Covered(f) == f \in GlobalPath \/ \E r \in Rule : f \in r.files

\* Two PRs routed with a file in common are in one lane, although each was
\* routed on an older registry, or its component was merged away since.  Two
\* exceptions: the file is one that no rule matches and nothing shared; or one
\* of the two changes a shared path besides, and the other does not: it goes to
\* the global lane and the other to a scoped one (dispatcher.py:87-90, scope.py
\* overlap).
SameFileSameLane ==
    \A p, q \in PR :
        /\ NoLane \notin {rec[p].lane, rec[q].lane}
        /\ \E f \in rec[p].paths \cap rec[q].paths : Covered(f)
        /\ TouchesGlobal(rec[p].paths) = TouchesGlobal(rec[q].paths)
        => CurrentLane(p) = CurrentLane(q)

\* A stranded PR finds its lane: the lane it was given, which may have lost
\* its name in a merge or have been found in a stale registry, resolves to
\* the lane it is in now, and every reader names that one alike, by the smallest
\* scope connected to its own, whatever the order in which the records came in
\* (dispatcher.py:9-12).
StrandedResolves ==
    \A p \in PR : rec[p].lane \notin {Global, NoLane} =>
        /\ Find(parent, rec[p].lane) = CurrentLane(p)
        /\ CurrentLane(p) = Min(Component(Min(rec[p].scopes)))
=============================================================================
