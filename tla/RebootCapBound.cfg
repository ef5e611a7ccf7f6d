CONSTANTS
  Applies = {a1}
  Savers = {s1}
  MaxReboots = 2
  MinGap = 2
  ReportsProgress = {TRUE, FALSE}
  MayBeLate = TRUE
  MayDie = TRUE
  MaxClicks = 1
  MaxOrders = 4
  Never = Never
SPECIFICATION Spec
VIEW CopiesInUse
INVARIANTS TypeOK CapBound
PROPERTIES GapKept
