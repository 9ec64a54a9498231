CONSTANTS
  Motors = {1}
  Clients = {c1}
  Commands = {"duty", "zero"}
  Codes = {Drv, Oc}
  Drv = Drv
  NoFault = NoFault
  StopTicks = 1
  EstopTicks = {1}
  MinIsZero = FALSE
SPECIFICATION FairSpec
INVARIANTS TypeOK PersistentBlocksPwm
PROPERTIES ClosedGateHolds FaultStopsMotor FaultsClear
