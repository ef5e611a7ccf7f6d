CONSTANTS
  a1 = a1  a2 = a2  b1 = b1
  A = A  B = B
  Tenants = {A, B}
  OnusOf <- TwoTenants
  TenantCap = 2
  GlobalCap = 4
  MayTimeOut = TRUE
  Hung = {a1}
  Ticks = {k1, k2}
  NoTick = NoTick
SPECIFICATION FairSpec
INVARIANTS TypeOK FlagFollowsRace VisitedOncePerTick
PROPERTIES OthersAreVisited
