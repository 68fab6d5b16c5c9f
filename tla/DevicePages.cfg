\* No device to begin with: one comes by a form or by another client.
SPECIFICATION FairSpec
CONSTANTS
  d1 = d1
  i1 = i1
  i2 = i2
  None = None
  Device = {d1}
  Slot = {i1, i2}
  Worlds = {{}}
  MaxSubmits = 2
  MaxTroubles = 1
INVARIANTS TypeOK OwnWritesShown DeletionsShown DialogIsOfPendingDeletion ProgressIsReal
PROPERTIES LoadsRunDown PagesComeToRest
