SPECIFICATION Spec
CONSTANTS
  web = web
  lib = lib
  docs = docs
  default = default
  u1 = u1
  u2 = u2
  j1 = j1
  j2 = j2
  r1 = r1
  r2 = r2
  Components <- MCComponents
  Default = default
  Jobs = {j1, j2}
  Ulids = {u1, u2}
  Fragment <- MCFragment
  Identified = {u1}
  InitialVersion <- MCInitialVersion
  Rank <- MCRank
  Settings <- MCSettings
  Readers = {r1, r2}
  Unresolved = Unresolved
INVARIANT CountedTwiceOnlyIfRaced
INVARIANT PlanSound
INVARIANT PartialHasCause
INVARIANT NothingFabricated
INVARIANT AuditSound
PROPERTY NeverThinned
PROPERTY Converges
CHECK_DEADLOCK FALSE
