SPECIFICATION FairSpec
CONSTANTS
  Receivers = {usb, can}
  Motors = {1}
  Cmds = {detect}
  None = None
INVARIANTS TypeOK RunsOneCallWithoutClash
PROPERTIES AcceptsAgain AcceptedRuns
