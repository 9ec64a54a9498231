CONSTANTS
  Motors = {1}
  Clients = {c1, tt}
  Thread = tt
  Commands = {"duty"}
  Codes = {Drv}
  Drv = Drv
  NoFault = NoFault
  StopTicks = 1
  EstopTicks = {}
  MinIsZero = FALSE
  KillInputs = {"ext"}
  HasTimeout = TRUE
  KillTicks = 1
  Period = 0
SPECIFICATION TFairSpec
PROPERTIES TimeoutReleases KillReleases
INVARIANTS TTypeOK ConfigRestored
