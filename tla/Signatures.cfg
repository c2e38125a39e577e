\* Each part runs its steps once.
SPECIFICATION Spec
CONSTANTS
  Parts = {"tower", "fors", "cross", "uov", "pivots", "kem", "gcm"}
  Other = other
  Off = Off
INVARIANTS
  SignedIsAccepted
  OthersRejected
  UsedOnce
CHECK_DEADLOCK FALSE
