\* What the documentation warns against: a consumer without the journal beside one
\* that has it, and an outbox that is deleted under a journal that knows its ids.
SPECIFICATION Spec
CONSTANTS
  Consumers = {c1, c2}
  Events = {e1, e2}
  Journaled = {c1}
  MaxNotifications = 2
  MaxEvents = 2
  MaxReceipts = 2
  Policies = {2}
  BaseDelay = 1
  MaxDelay = 1
  Limit = 2
  MaxFaults = 2
  Recreated = TRUE
  NoNotification = NoNotification
SYMMETRY Symmetry
INVARIANTS
  AckedWasAccepted
  NeverResent
