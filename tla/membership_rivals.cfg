\* Two local administrators and a remote one change each other, with retries.
SPECIFICATION Spec
CONSTANTS
  Callers = {w1, w2}
  p1 = p1
  p2 = p2
  p3 = p3
  Principals = {p1, p2, p3}
  Local = {p1, p2}
  Owner = p1
  Operations = {o1, o2, o3}
  NoOperation = NoOperation
  NoRequest = NoRequest
  NoMember = NoMember
  Changes <- Rivals
  MaxRevision = 3
SYMMETRY Symmetry
INVARIANTS
  AdministratorRemains
  ReceiptsExplainAccess
  AnswersAreTrue
PROPERTY ImplementsLog
