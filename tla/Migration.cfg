SPECIFICATION Spec
CONSTANTS
  WordMax = 7
  MaxEntries = 2
  MaxCompressed = 3
  MaxEntry = 4
  MaxDecompressed = 5
  MaxRatio = 3
  Chunk = 2
  Drives = {"C:"}
  Archives = {1, 2}
  Conversations = {1, 2}
  Projects = {3}
  Operators = {o1, o2}
  Operations = {1}
  Targets <- MCTargets
  None = none
  Builds <- MCBuilds
  Mode = "manual"
  Upload <- MCUpload
  Files <- MCFiles
  Reading <- MCReading
  Release <- MCRelease
  MaxCommands = 2
  MaxDeletions = 1
  MaxFaults = 1
  none = none
  x = x
  y = y
INVARIANTS
  TypeOK
  OnlySafeFilesAreRead
  ExtractionIsBounded
  VersionsAreOrdered
  ReparseUpgrades
  ReportsAreHonest
  CallersAgree
  ErasedArchivesStayErased
PROPERTY OnlyDeletionTakesEvidence
CHECK_DEADLOCK FALSE
SYMMETRY OperatorSymmetry
