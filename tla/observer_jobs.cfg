\* Two workers of one profile, another publisher, a changing tree, errors and deaths.
SPECIFICATION FairSpec
CONSTANTS
  Workers = {w1, w2}
  Contents = {c1, c2}
  NoSnapshot = NoSnapshot
  MaxJobs = 3
  Others <- OtherOperations
  MaxSource = 2
  MaxChanges = 2
  MaxFaults = 3
INVARIANTS
  ReportsChain
  PublicationIsAccountedFor
PROPERTIES
  CatchesUp
