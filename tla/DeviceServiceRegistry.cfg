\* Two requests over a table with one device; a crash, a shutdown and a restart.
SPECIFICATION Spec
CONSTANTS
  r1 = r1
  r2 = r2
  r3 = r3
  d1 = d1
  d2 = d2
  Request = {r1, r2}
  DeviceId = {d1, d2}
  Ops = {"create", "update", "delete", "get", "list"}
  Body <- Bodies
  InitialDevices <- OneDevice
  MaxRetries = 2
  WriterCopies = 1
  MaxStarts = 2
  NoRow = NoRow
SYMMETRY Symmetry
INVARIANTS TypeOK
PROPERTIES ReadsAreCurrent ImplementsRegistry
CHECK_DEADLOCK FALSE
