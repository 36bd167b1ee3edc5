\* One principal in two processes, so that a retry meets the attempt it repeats, an operation
\* id that is not a draft's, archived drafts that are restored and saved again, and revisions
\* added between two pages of the client that reads the history.
SPECIFICATION Spec
CONSTANTS
  w1 = w1
  w2 = w2
  alice = alice
  c1 = c1
  c2 = c2
  o1 = o1
  o2 = o2
  Callers = {w1, w2}
  Readers = {r1}
  PrincipalOf <- OnePrincipal
  Drafts = {d1}
  Contents = {c1, c2}
  SourceOf <- Sources
  Operations = {o1, o2, o3, o4}
  Foreign = {o4}
  NoOperation = NoOperation
  NoContent = NoContent
  NoRequest = NoRequest
  NoDraft = NoDraft
  PageSize = 1
  MaxRevision = 3
SYMMETRY Symmetry
CONSTRAINT Bounds
INVARIANTS
  HistoryIsBound
  HistoryIsOneDraft
  AnswersAreTrue
  HistoryIsPagedWhole
PROPERTY ImplementsLog
