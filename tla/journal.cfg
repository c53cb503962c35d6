SPECIFICATION Spec
CONSTANTS
  k1 = k1  k2 = k2  bank = bank  income = income  alice = alice  bob = bob
  h1 = h1  h2 = h2
  Keys = {k1, k2}
  Accounts = {bank, income}
  Lines <- InAndOut
  Admins = {alice, bob}
  Author <- ByAlice
  Handlers = {h1, h2}
  Edited = {income}
  MaxReversals = 1
  MaxSubmits <- Submits
  Nothing = Nothing
INVARIANTS TypeOK ApprovedAsSubmitted VoidedIsReversed PostedHasLines
PROPERTIES NoPostingLost
SYMMETRY Symmetry
