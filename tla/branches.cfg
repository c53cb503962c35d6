SPECIFICATION Spec
CONSTANTS
  c1 = c1  c2 = c2  x1 = x1  h1 = h1  h2 = h2
  Churches = {c1, c2}
  Plans = {"free", "pro"}
  Free = "free"
  Sessions = {x1}
  Buyer <- BoughtByFirst
  Bought <- BoughtPro
  Handlers = {h1, h2}
  Requests = {q1}
  Nobody = Nobody  NoDay = NoDay  NoCode = NoCode  NoSub = NoSub  NoRef = NoRef
  Period = 1
  Grace = 1
  Enabled = {"decline", "refund", "grant", "discount", "edit"}
  MaxDay = 0
  MaxCrashes = 0
SYMMETRY Symmetry
INVARIANTS  PlanIsFunded LinkedByConsent
