SPECIFICATION FairSpec
CONSTANTS
  Pairs = 2
  Known = {pwr}
  Unknown = {other}
  Terminals = {usb, uart}
  Chunks = 2
  MaxLosses = 1
  MaxRot = 2
  Blank = Blank
  Mixed = Mixed
  Magic = Magic
  V1Std = V1Std
  Fallback = Fallback
  Unbranded = Unbranded
INVARIANTS TypeOK FallbackNeverArmed ChangedIsNotIntact
PROPERTIES BrandApplies RotIsFound
CHECK_DEADLOCK FALSE
