\* The operator recovers the journal of a service that died at any moment.
SPECIFICATION Spec
CONSTANTS
  c1 = c1
  c2 = c2
  c3 = c3
  Commits = {c1, c2, c3}
  FirstCommit = c1
  Descends <- Fork
  Edited = Edited
  NoCommit = NoCommit
  NoSnapshot = NoSnapshot
  Capacity = 1
  MaxSource = 1
  MaxMoves = 0
  MaxLives = 2
  MaxFaults = 1
INVARIANT RecoveryIsNeverRefused
CHECK_DEADLOCK FALSE
