\* A shutdown while a publisher is on its way.
SPECIFICATION Spec
CONSTANTS
  r1 = r1
  r2 = r2
  r3 = r3
  d1 = d1
  d2 = d2
  Request = {r1, r2}
  DeviceId = {d1, d2}
  Ops = {"create", "update", "delete"}
  Body <- OneBody
  InitialDevices <- OneDevice
  MaxRetries = 1
  WriterCopies = 1
  MaxStarts = 1
  NoRow = NoRow
PROPERTIES ShutdownFlushes
CHECK_DEADLOCK FALSE
