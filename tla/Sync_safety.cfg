SPECIFICATION Spec
CONSTANTS
  Sources <- TwoSources
  Runners <- TwoSources
  Serves <- OneEach
  MaxRev = 2
  Cases <- TwoContents
  Defective = {}
  MaxVersions = 2
  Limits <- SafetyLimits
INVARIANTS
  CompletedIsPublic
  RemovalsAreWitnessed
