SPECIFICATION FairSpec
CONSTANTS
  Onus = {o1}
  UserTasks = {u1}
  PollTasks = {p1}
  Requests = {"start", "manual", "kick", "force", "apply", "plan", "dbasync", "recheck", "restart"}
  HealMax = 2
  Window = 1
  NeedsTraffic = {o1}
  MayThrow = {u1}
  MaxDied = 1
  MaxRequests = 2
  Never = Never
PROPERTIES LockGranted TestResolves
