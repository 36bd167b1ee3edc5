\* A host that keeps running: a lowered retry policy, two faults anywhere, a receiver at its limit.
SPECIFICATION HostedSpec
CONSTANTS
  Consumers = {c1}
  Events = {e1, e2}
  Journaled = {c1}
  MaxNotifications = 2
  MaxEvents = 2
  MaxReceipts = 1
  Policies = {1, 3}
  BaseDelay = 2
  MaxDelay = 2
  Limit = 2
  MaxFaults = 2
  Recreated = FALSE
  NoNotification = NoNotification
INVARIANTS
  NoFalseConflict
  BudgetKept
PROPERTY EventSettles
