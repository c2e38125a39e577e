\* A call ends with its answer.
SPECIFICATION Spec
CONSTANTS
  Parts = {"stream", "hash", "strings", "sort", "tables", "binary", "coding", "poly"}
  Off = Off
INVARIANTS
  HashInputs
  StringsRight
  WordsRight
PROPERTY ImplementsHashStream
CHECK_DEADLOCK FALSE
