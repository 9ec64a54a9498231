CONSTANTS
  Motors = {1}
  Clients = {c1, tt}
  Thread = tt
  Commands = {"duty"}
  Codes = {Drv}
  Drv = Drv
  NoFault = NoFault
  StopTicks = 1
  EstopTicks = {}
  MinIsZero = FALSE
  KillInputs = {"ext"}
  HasTimeout = FALSE
  KillTicks = 2
  Period = 1
SPECIFICATION TFairSpec
PROPERTY KillDisables
