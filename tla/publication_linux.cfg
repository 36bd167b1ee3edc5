\* The Linux backend, its gate around every stage, up to the last revision.
SPECIFICATION Spec
CONSTANTS
  Writers = {w1, w2}
  Operations = {o1, o2}
  Layouts = {l1, l2}
  Contents = {c1}
  Generations = {g1, g2}
  NoSnapshot = NoSnapshot
  NoGeneration = NoGeneration
  NoOperation = NoOperation
  MaxRevision = 1
  MaxSource = 2
  Backend = "linux"
SYMMETRY WriterSymmetry
INVARIANTS
  PublishedUnderItsConfiguration
