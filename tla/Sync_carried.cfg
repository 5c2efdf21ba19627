SPECIFICATION Spec
CONSTANTS
  Sources <- TwoSources
  Runners <- TwoSources
  Serves <- OneEach
  MaxRev = 2
  Cases <- TwoContents
  Defective = {}
  MaxVersions = 4
  Limits <- NoLimits
PROPERTIES
  CarriedForward
