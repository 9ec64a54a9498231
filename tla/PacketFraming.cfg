SPECIFICATION Spec
CONSTANTS
  Packets <- MCPackets
  Base = 4
  MaxPl = 4
  CrcBytes <- MCCrcBytes
  Noise = {0, 1, 2, 3}
  MaxSent = 3
  MaxHarm = 2
  None = None
INVARIANTS TypeOK NoneSkipped NeverOutOfSpace PromptWhenClean
PROPERTY ImplementsChannel
CHECK_DEADLOCK FALSE
