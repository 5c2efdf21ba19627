SPECIFICATION FairSpec
CONSTANTS
  Workers <- TwoWorkers
  Keys <- AllKeys
  Commit <- OneCommit
  CasesOf <- SomeCases
  FilesOf <- SomeFiles
  ImagesOf <- SomeImages
  Registered = "first"
  Courses <- SomeCourses
INVARIANTS
  ReadyIsBacked
  TidyUnlessKilled
PROPERTIES
  EvidenceIsFinal
  ReplayConflictsOnlyAfterEdit
  ImportSettles
