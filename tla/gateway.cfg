SPECIFICATION Spec
CONSTANTS
  a1 = a1
  Handler = {h1, h2}
  Alert = {a1}
  Approval = {}
  Grant = {}
  NoGrant = NoGrant
  NoOverlay = NoOverlay
  Uri = {"alerts://current", "requests://active"}
  Client = {c1}
  History = 1
  Posting <- SomePostings
  ReadFaults = TRUE
  MaxCalls = 2
  Credential = {"operatorToken", "viewerToken", "none"}
SYMMETRY HandlerSymmetry
INVARIANTS TypeOK NoLostWakeup SubscribersAreTold
PROPERTIES OnlyOperatorsMutate ImplementsEventStream
