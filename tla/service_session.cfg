SPECIFICATION Spec
CONSTANTS
  h1 = h1  h2 = h2
  Last = 2
  Handlers = {h1, h2}
  PausedOps = {}
  Deltas <- BackAndForth
  MaxNow = 2
  MaxPauses = 1
  MaxTaken = 1
  MaxAsked = 4
INVARIANTS TypeOK NeverLongerThanService
PROPERTIES FollowsRunningOrder
SYMMETRY Symmetry
CHECK_DEADLOCK FALSE
