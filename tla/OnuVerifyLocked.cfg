SPECIFICATION Spec
CONSTANTS
  Onus = {o1}
  UserTasks = {u1, u2}
  PollTasks = {p1, p2}
  Requests = {"start", "manual", "kick", "force", "apply", "plan", "dbasync", "recheck", "restart"}
  HealMax = 2
  Window = 1
  NeedsTraffic = {o1}
  MayThrow = {u1, u2, p1, p2}
  MaxRequests = 2
  MaxDied = 1
  Never = Never
SYMMETRY Symmetry
INVARIANTS TypeOK MutualExclusion HealBudget
PROPERTIES FreshUnlessCrossed OkKept PollerSparesClosed FailNeedsLaterVisit
