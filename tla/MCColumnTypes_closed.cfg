CONSTANTS
  Inputs <- MCInputs
  Nil = Nil
  ParseErr = ParseErr
SPECIFICATION Spec
CHECK_DEADLOCK FALSE
INVARIANT
  AcceptedDecimalIsClosed
