SPECIFICATION FairSpec
CONSTANTS
  Sources <- OneSource
  Runners <- Both
  Serves <- OneForBoth
  MaxRev = 2
  Cases <- TwoCommits
  Defective = {}
  MaxVersions = 3
  Limits <- LiveLimits
PROPERTIES
  NoPublicLoss
  HeadSettles
