\* Three publications in a row under two callers: a content comes back, or is published again
\* over itself, while an older capture of it still waits to commit.
SPECIFICATION Spec
CONSTANTS
  Writers = {w1, w2}
  Operations = {o1, o2, o3}
  Layouts = {l1}
  Contents = {c1, c2}
  Generations = {g1, g2, g3}
  NoSnapshot = NoSnapshot
  NoGeneration = NoGeneration
  NoOperation = NoOperation
  MaxRevision = 3
  MaxSource = 1
  Backend = "portable"
SYMMETRY WriterSymmetry
CONSTRAINT EarlyRevocation
INVARIANTS
  NeverCorrupt
  CatalogComplete
  AttributionSound
  AnswersAreTrue
  CapturedAtExpectedHead
PROPERTY ImplementsPromise
