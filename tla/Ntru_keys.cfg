\* The receiver's session key.
SPECIFICATION Spec
CONSTANTS
  Parts = {"kem"}
  Other = other
  Off = Off
INVARIANT
  KeysAgree
CHECK_DEADLOCK FALSE
