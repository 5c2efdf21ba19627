SPECIFICATION Spec
CONSTANTS
  Browsers <- TwoBrowsers
  Scripted <- OneFile
  Accounts <- TwoSettings
  Limit = 2
  Earlier = 1
  Window = 2
  Ttl = 2
  LastTick = 2
  Versions <- ThreeVersions
  RevisionOf <- Revisions
  Facts <- SomeFacts
  Forms <- SomeForms
  KeysOf <- KeyEach
  FileTimes = {1}
  Ledgers <- BlockAndDrift
  MaxBatches <- ReviewsOfScene
  Readers <- OneReader
  CaseOf <- Cases
  HashOf <- Images
  Examples <- FourExamples
  KeyOf <- TwoKeys
  Lacks <- SomeLacks
  AssetsOf <- ExampleImages
  About <- SomeAbout
  RightsForms <- SomeRights
  Asks <- SomeAsks
  Takedowns <- SomeTakedowns
  MaxEvents = 5
  MaxPublished = 2
  PreviewCases <- SomePreviewCases
  Releases <- SomeReleases
  MaxReleases = 3
  Horizon <- Scenes
  SignedIn <- PageIsRita
  Recorded1 <- SomeRightsReviews
  Recorded2 <- SomeReviews
  Selections <- SomeSelections
  Documents <- SomeDocuments
  Canonicalizers <- SyncAndCommand
  Importers <- TwoImporters
  Pictures <- OnePicture
  Buckets <- SomeBuckets
  Strays <- SomeStrays
  MaxChanges = 1
  worker = worker
  manual = manual
  Gits <- TwoGits
  Commits <- ThreeCommits
  ParentOf <- Parents
  FixedCommit = 1
  Filtered = {3}
  MaxMoves = 1
SYMMETRY EitherGit
INVARIANTS
  ThrottleBounds
  AcknowledgedIsRecorded
  QueueIsCandidate
  AnswersAreCurrent
  PagesAreWhole
  ServedIsApproved
  PreviewIsEligible
  CanonicalIsWhole
  ViewsAgree
  StoredIsVerified
  EvidenceStays
