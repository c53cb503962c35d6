SPECIFICATION FairSpec
CONSTANTS
  c1 = c1  c2 = c2  x1 = x1  h1 = h1  h2 = h2
  Churches = {c1}
  Plans = {"free", "pro"}
  Free = "free"
  Sessions = {x1}
  Buyer <- BoughtByFirst
  Bought <- BoughtPro
  Handlers = {h1, h2}
  Requests = {}
  Nobody = Nobody  NoDay = NoDay  NoCode = NoCode  NoSub = NoSub  NoRef = NoRef
  Period = 1
  Grace = 1
  Enabled = {"recur", "cancel", "stop", "cron"}
  MaxDay = 2
  MaxCrashes = 1
INVARIANTS TypeOK CreditedOnce PastDueHasEnd
PROPERTIES LapsedSettles
