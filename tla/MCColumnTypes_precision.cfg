CONSTANTS
  Inputs <- MCClosedInputs
  Nil = Nil
  ParseErr = ParseErr
SPECIFICATION Spec
CHECK_DEADLOCK FALSE
INVARIANT
  AcceptedPrecisionAsDocumented
