SPECIFICATION FairSpec
CONSTANTS
  r1 = r1  r2 = r2
  Plans = {"free", "pro"}
  Offers <- ClosedOrOnce
  NoLimit = NoLimit
  Requests = {r1, r2}
  Nothing = Nothing
  MaxChanges = 2
  MaxCreated = 3
INVARIANTS TypeOK CountWithinLimit UsesWereMade
PROPERTIES PlanTakesEffect
