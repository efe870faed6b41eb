SPECIFICATION ControlSpec
CONSTANTS
  Handler = {h1, h2, h3}
  Alert = {a1}
  Approval = {p1}
  Grant = {short, long}
  NoGrant = NoGrant
  NoOverlay = NoOverlay
  ReadFaults = TRUE
  MaxCalls = 4
SYMMETRY HandlerSymmetry
INVARIANTS ControlTypeOK ConsoleShowsTheStore
PROPERTIES DismissalIsFinal
