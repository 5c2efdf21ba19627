SPECIFICATION Spec
CONSTANTS
  p1 = p1
  p2 = p2
  k1 = k1
  k2 = k2
  None = None
  Callers = {p1, p2}
  BuildKeys = {k1, k2}
  Sources <- MCSources
  ProjectId <- MCProjectId
  Cases <- MCCases
  SourceOf <- MCSourceOf
  Holds <- MCHolds
  bark = bark
  leaf = leaf
  Assets = {bark, leaf}
  Shows <- MCShows
  Broad <- MCBroad
  Covers <- MCCovers
  MaxRuns <- MCMaxRuns
  MaxVersions = 2
  MaxReviews = 2
  MaxTimes = 1
  MaxBegun = 5
SYMMETRY Interchangeable
INVARIANTS
  PointerConsistent
  OneVersionPerKey
  NoLockCycle
PROPERTIES
  BuildIsCurrent
  SwitchIsAuthorized
  ReviewsChain
CHECK_DEADLOCK FALSE
