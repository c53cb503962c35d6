SPECIFICATION Spec
CONSTANTS
  t1 = t1  t2 = t2  t3 = t3  s1 = s1  s2 = s2  r1 = r1  r2 = r2  r3 = r3  k1 = k1
  TenantIds = {t1}
  Subdomains = {s1}
  Requests = {r1, r2}
  Asks <- AnySubdomain
  Tokens = {k1}
  SponsorTokens = {k1}
  Worker = Worker
  NoTenant = NoTenant  NoToken = NoToken  NoRow = NoRow  NoSubdomain = NoSubdomain
  Unsubscribed = Unsubscribed
  Ops = {"create", "edit"}
  Faults <- AllSteps
  MaxCrashes = 1
  MaxQueue = 2
SYMMETRY Symmetry
INVARIANTS TypeOK ServedIsComplete
PROPERTIES InviteSpentOnSuccess
