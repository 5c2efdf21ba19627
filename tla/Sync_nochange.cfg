SPECIFICATION Spec
CONSTANTS
  Sources <- OneSource
  Runners <- OneSource
  Serves <- OneEach1
  MaxRev = 2
  Cases <- TwoCommits
  Defective = {}
  MaxVersions = 2
  Limits <- CrashLimits
PROPERTIES
  NoChangeIsSettled
