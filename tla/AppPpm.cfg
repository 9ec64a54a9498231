SPECIFICATION FairSpec
CONSTANTS
  MinPulses = 2
  Types = {"current", "smart_rev", "rev_hyst", "set", "pos", "none"}
INVARIANTS TypeOK VerifiedDriveButSmart LossHoldsAll ReverseNeedsIdle
PROPERTY SafeStartEnds
