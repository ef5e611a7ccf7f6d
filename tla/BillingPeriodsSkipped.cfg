SPECIFICATION Spec
CONSTANTS
  s1 = s1  s2 = s2  c1 = c1
  Services = {s1, s2}
  ClientOf <- OneClient
  Edits = {e1}
  LastDate = 2
  MaxEdits = 0
  MaxFaults = 0
  MaxQueue = 1
  MaxOverdue = 2
  MaxCount = 2
INVARIANT EveryPeriodInvoiced
