SPECIFICATION Spec
CONSTANTS
  Sources <- OneSource
  Runners <- OneSource
  Serves <- OneEach1
  MaxRev = 3
  Cases <- ThreeCommits
  Defective = {}
  MaxVersions = 3
  Limits <- ResetLimits
PROPERTIES
  ForwardOnly
