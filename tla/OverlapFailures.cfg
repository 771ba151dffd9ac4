\* Two ranks, two buckets, three steps, two failures.
SPECIFICATION Spec
CONSTANTS
  Models <- MCModels
  Limits <- MCLimits
  Ranks = {r1, r2}
  Uses <- MCUses
  Ranges <- MCRanges
  MaxSteps = 3
  MaxFailures = 2
INVARIANTS
  TypeOK
  CollectivesAgree
  GradientsAreGlobal
  AllBucketsEnqueued
  RanksInLockstep
  RangesAreBuckets
  FewestCollectives
PROPERTIES
  UnwindingEnds
  GroupEnds
CHECK_DEADLOCK FALSE
