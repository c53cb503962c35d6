SPECIFICATION FairSpec
CONSTANTS
  t1 = t1  t2 = t2  t3 = t3  s1 = s1  s2 = s2  r1 = r1  r2 = r2  r3 = r3  k1 = k1
  TenantIds = {t1, t2}
  Subdomains = {s1, s2}
  Requests = {r1, r2}
  Asks <- OwnSubdomain
  Tokens = {k1}
  SponsorTokens = {}
  Worker = Worker
  NoTenant = NoTenant  NoToken = NoToken  NoRow = NoRow  NoSubdomain = NoSubdomain
  Unsubscribed = Unsubscribed
  Ops = {"create", "cli", "gate", "revoke"}
  Faults <- BeforeLive
  MaxCrashes = 0
  MaxQueue = 2
PROPERTIES FollowsLifecycle SignupsSettle
