\* Two runs of two administrators upgrade a state of schema 1 or 2.
SPECIFICATION Spec
CONSTANTS
  Runs = {r1, r2}
  Operations = {o1, o2}
  Actors = {a1, a2}
  Origins = {1, 2}
  NoReceipt = NoReceipt
  NoCopy = NoCopy
  MaxCalls = 3
  MaxWrites = 1
  MaxFaults = 1
SYMMETRY Symmetry
INVARIANTS
  UpgradesAreBackedUp
  AnswersAreTrue
\* An upgrade is called a few times only: everybody may be done.
CHECK_DEADLOCK FALSE
