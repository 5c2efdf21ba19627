SPECIFICATION FairSpec
CONSTANTS
  Conditions = {unready, stuck}
  Monitors = {container, probe}
  Deployed = {container}
  MaxChanges = 5
  MaxFaults = 2
INVARIANTS
  MarkedWasPosted
  RepeatsExplained
PROPERTIES
  LedgerFollows
