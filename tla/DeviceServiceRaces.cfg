\* Three requests over a table with one device, a crash and a shutdown.
SPECIFICATION Spec
CONSTANTS
  r1 = r1
  r2 = r2
  r3 = r3
  d1 = d1
  d2 = d2
  Request = {r1, r2, r3}
  DeviceId = {d1, d2}
  Ops = {"create", "update", "delete"}
  Body <- OneBody
  InitialDevices <- OneDevice
  MaxRetries = 1
  WriterCopies = 1
  MaxStarts = 1
  NoRow = NoRow
SYMMETRY Symmetry
INVARIANTS EventsAreTrue LifecycleOrder AnswersMatchTable CreatedStampedFirst
CHECK_DEADLOCK FALSE
