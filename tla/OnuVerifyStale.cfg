SPECIFICATION Spec
CONSTANTS
  Onus = {o1}
  UserTasks = {u1, u2}
  PollTasks = {p1}
  Requests = {"apply"}
  HealMax = 2
  Window = 2
  NeedsTraffic = {o1}
  MayThrow = {}
  MaxDied = 1
  MaxRequests = 2
  Never = Never
PROPERTIES FreshVerdict
