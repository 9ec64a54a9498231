CONSTANTS
  a = a
  b = b
  Vars = {a, b}
  VarTab <- MCVarTab
  Values = {Zero, Blank}
  Blank = Blank
  None = None
  Slots = 7
  MaxLosses = 2
  LossAnywhere = FALSE
SPECIFICATION Spec
INVARIANTS TypeOK ReadsStored
PROPERTY ImplementsStore
