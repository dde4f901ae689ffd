CONSTANTS
  RegisterNr = 2
  Key = {0, 1}
  Arguments = 1
  ArrayArgument = 0
  CallbackArgument = 1
  Programs <- OnlyTables
  MaxFields = 2
  StaleFields = TRUE
  CollectPastEnd = FALSE
SPECIFICATION Spec
INVARIANT TypeofFindsNoForwarding
CHECK_DEADLOCK FALSE
