CONSTANTS
  a = a
  b = b
  Vars = {a, b}
  VarTab <- MCVarTab
  Values = {Zero, Blank}
  Blank = Blank
  None = None
  Slots = 3
  MaxLosses = 2
  LossAnywhere = TRUE
SPECIFICATION Spec
INVARIANT FormatsBlankOnly
