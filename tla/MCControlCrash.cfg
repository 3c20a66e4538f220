SPECIFICATION Spec
CONSTANTS
  Messages = 3
  MaxChars = 2
INVARIANT NoNullDeref
CHECK_DEADLOCK FALSE
