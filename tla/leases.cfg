SPECIFICATION Spec
CONSTANTS
  a = a
  b = b
  k1 = k1
  k2 = k2
  SessionId = {s1}
  LeaseId = {l1, l2}
  Scope = {a}
  conflictKeyOf <- MCConflictKeyOf
  Handler = {h1, h2}
  Ttl = {1}
  MaxTime = 1
  ListFaults = TRUE
SYMMETRY HandlerSymmetry
INVARIANTS TypeOK DoubleGrantOnlyUnseen GrantWithinSessionLifetime
PROPERTIES ImplementsLeaseStore
CHECK_DEADLOCK FALSE
