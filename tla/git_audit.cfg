\* One service over several lifetimes; HEAD and the sources move under it.
SPECIFICATION FairSpec
CONSTANTS
  c1 = c1
  c2 = c2
  c3 = c3
  Commits = {c1, c2, c3}
  FirstCommit = c1
  Descends <- Fork
  Edited = Edited
  NoCommit = NoCommit
  NoSnapshot = NoSnapshot
  Capacity = 1
  MaxSource = 2
  MaxMoves = 3
  MaxLives = 2
  MaxFaults = 1
INVARIANTS
  LineageKept
  EvidenceBound
  SuccessIsEvidenced
  AnnouncedOnce
  SilenceIsExplained
CHECK_DEADLOCK FALSE
PROPERTY KeepsUp
