SPECIFICATION FairSpec
CONSTANTS
  Handler = {h1, h2}
  RequestId = {r1, r2}
  Owner = {o1, o2}
  NoOwner = NoOwner
  Update = {"planning", "completed", "received"}
  Outcome = {"queued", "completed", "rejected"}
  MaxAttempts = 2
  MaxCalls = 3
  Failures = {"store", "read", "publish", "evicted"}
INVARIANTS TypeOK DoubleClaimOnlyUnseen OwnerIsLastHolder
PROPERTIES ReopenedOnlyOnPurpose EveryRequestIsDispatched
CHECK_DEADLOCK FALSE
