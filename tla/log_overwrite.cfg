SPECIFICATION Spec
CONSTANTS
  a = a
  b = b
  k1 = k1
  k2 = k2
  c1 = c1
  d1 = d1
  l1 = l1
  l2 = l2
  l3 = l3
  s1 = s1
  SessionId = {s1}
  LeaseId = {l1}
  Scope = {a}
  conflictKeyOf <- MCConflictKeyOf
  Ttl = {1}
  ApprovalTtl = {1}
  MaxTime = 0
  Handler = {h1, h2}
  CommandId = {c1}
  DedupKey = {d1}
  Request <- RivalRequests
  Unread = {}
  MaxCalls = 3
  MaxChanges = 0
  MaxEvents = 3
PROPERTIES LogIsAppendOnly
CHECK_DEADLOCK FALSE
