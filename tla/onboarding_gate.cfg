SPECIFICATION Spec
CONSTANTS
  t1 = t1  t2 = t2  t3 = t3  s1 = s1  s2 = s2  r1 = r1  r2 = r2  r3 = r3  k1 = k1
  TenantIds = {t1, t2}
  Subdomains = {s1}
  Requests = {r1, r2}
  Asks <- AnySubdomain
  Tokens = {k1}
  SponsorTokens = {}
  Worker = Worker
  NoTenant = NoTenant  NoToken = NoToken  NoRow = NoRow  NoSubdomain = NoSubdomain
  Unsubscribed = Unsubscribed
  Ops = {"create", "cli", "delete", "gate", "reapprove", "revoke"}
  Faults = {"seed"}
  MaxCrashes = 0
  MaxQueue = 2
SYMMETRY Symmetry
INVARIANTS ApprovalGate
