\* Both writers: one module of a proposal, two files of a metadata plan.
SPECIFICATION FairSpec
CONSTANTS
  Files = 2
INVARIANTS
  OriginalSurvives
  StatusIsTrue
  RecoveryIsAccepted
PROPERTIES
  OthersBytesKept
  NeverReplayed
  Recovers
