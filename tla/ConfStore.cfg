SPECIFICATION ConfSpec
CONSTANTS
  Vars = {"hi", "lo", "id", "rest", "crc", "odometer", "can_id"}
  Values = {0, 1, 2, 3}
  None = None
  Threads = {t1, t2}
  Words = {0, 1}
  Others = {1}
  DefaultId = 0
INVARIANTS ConfTypeOK ConfirmedReads ConfWhole IdSurvives
