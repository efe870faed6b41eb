SPECIFICATION Spec
CONSTANTS
  a = a
  b = b
  k1 = k1
  k2 = k2
  c1 = c1
  d1 = d1
  l1 = l1
  l2 = l2
  l3 = l3
  s1 = s1
  SessionId = {s1}
  LeaseId = {l1, l2, l3}
  Scope = {a}
  conflictKeyOf <- MCConflictKeyOf
  Ttl = {2}
  ApprovalTtl = {1}
  MaxTime = 1
  Handler = {h1, h2}
  CommandId = {c1}
  DedupKey = {d1}
  Request <- RivalRequests
  Unread = {"leases", "dedup", "approvals"}
  MaxCalls = 2
  MaxChanges = 2
  MaxEvents = 3
SYMMETRY KernelSymmetry
INVARIANTS TypeOK RecordNeverAheadOfLog CompletionIsDeduplicated LiveDeployIsAuthorised
PROPERTIES NoExecutionWhileBarred
CHECK_DEADLOCK FALSE
