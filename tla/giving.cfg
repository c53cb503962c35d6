SPECIFICATION FairSpec
CONSTANTS
  g1 = g1  c1 = c1  p1 = p1  v1 = v1  h1 = h1  h2 = h2
  Gifts = {g1}
  Claims = {c1}
  Pledges = {p1}
  General = General
  Toward <- ToOne
  Amount <- OneEach
  Total <- Two
  Providers = {v1}
  Handlers = {h1, h2}
  Nothing = Nothing
INVARIANTS TypeOK RecordedOnce CompletedWasPaid
PROPERTIES PaidIsCredited
