SPECIFICATION FairSpec
CONSTANTS
  WorldSize = 2
  Modes <- MCModes
  FirstSteps = 1
  ResumedSteps = 2
  MaxAttempts = 2
  MaxFailures = 2
INVARIANTS
  TypeOK
  AttemptsDoNotMix
  ReadyMeansComplete
  FilesAfterVerdict
  HealthyAttemptPasses
PROPERTIES
  RefinesVerdict
  LauncherEnds
CHECK_DEADLOCK FALSE
