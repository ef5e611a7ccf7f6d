SPECIFICATION FairSpec
CONSTANTS
  u1 = u1  u2 = u2  u3 = u3  b1 = b1  b2 = b2  v1 = v1
  d1 = d1  d2 = d2
  Calls = {u1, u2, u3, b1, b2, v1}
  Devices = {d1, d2}
  DeviceOf <- CallDevice
  Background = {b1, b2}
INVARIANTS TypeOK WaitingIsQueued
PROPERTIES TakesTurns UrgentServed BackgroundServed
