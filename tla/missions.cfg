SPECIFICATION Spec
CONSTANTS
  w1 = w1
  w2 = w2
  Handler = {h1, h2}
  Worker = {w1, w2}
  NoWorker = NoWorker
  Handoff = {x1}
  Update <- MixedUpdates
  MaxMissed = 1
  MaxCalls = 3
SYMMETRY HandlerSymmetry
INVARIANTS TypeOK StatusFollowsWorkers PlaybackReproducesGraph RoomIsCurrent
CHECK_DEADLOCK FALSE
