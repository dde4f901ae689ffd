CONSTANTS
  RegisterNr = 2
  Key = {0, 1}
  Arguments = 1
  ArrayArgument = 0
  CallbackArgument = 1
  Programs <- OnlyEdge
  MaxFields = 2
  StaleFields = FALSE
  CollectPastEnd = TRUE
SPECIFICATION Spec
INVARIANT TypeofFindsNoForwarding
CHECK_DEADLOCK FALSE
