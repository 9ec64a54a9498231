SPECIFICATION Spec
CONSTANTS
  MinPulses = 3
  Types = {"current", "smart_rev"}
INVARIANT VerifiedDrive
