SPECIFICATION SpecQueue
CONSTANTS
  a = a
  k1 = k1
  c1 = c1
  d1 = d1
  d2 = d2
  l1 = l1
  l2 = l2
  s1 = s1
  SessionId = {s1}
  LeaseId = {l1, l2}
  Scope = {a}
  conflictKeyOf <- MCConflictKeyOf
  Ttl = {1}
  ApprovalTtl = {1}
  MaxTime = 0
  Handler = {h1, h2}
  CommandId = {c1}
  DedupKey = {d1, d2}
  Request <- DeployRequests
  Unread = {}
  MaxCalls = 3
  MaxChanges = 1
  MaxEvents = 4
  MaxAttempts = 2
  Failures = {}
SYMMETRY HandlerSymmetry
VIEW QueueView
PROPERTIES RejectedDeployNeedsACommand
CHECK_DEADLOCK FALSE
