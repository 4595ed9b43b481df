SPECIFICATION Spec
CONSTANTS
  p1 = p1
  p2 = p2
  a1 = a1
  a2 = a2
  b1 = b1
  i1 = i1
  web = web
  default = default
  Components = {web, default}
  Default = default
  Malformed = Malformed
  PR = {p1, p2}
  ForceSoloK = 2
  NoPR = NoPR
  Commit = {a1, a2, b1}
  NoHead = NoHead
  NoReport = NoReport
  NoText = NoText
  NBarrier = 10
  Heads <- MCHeads
  Runs <- MCRuns
  Stable = {a1, a2}
  RepsAsked = {0, 3}
  Issue = {i1}
  Linked <- MCLinked
  Cases <- MCCases
  Budget <- MCBudget
INVARIANT LandedIsVerified
INVARIANT JudgedByItsOwnReport
INVARIANT EjectedForCause
PROPERTY ReadySettles
CHECK_DEADLOCK FALSE
