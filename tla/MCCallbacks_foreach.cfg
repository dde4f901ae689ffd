CONSTANTS
  RegisterNr = 2
  Key = {0, 1}
  Arguments = 1
  ArrayArgument = 0
  CallbackArgument = 1
  Programs <- Cramped
  MaxFields = 2
  StaleFields = FALSE
  CollectPastEnd = FALSE
  CollectInForeach = TRUE
SPECIFICATION CallbacksSpec
INVARIANT LocalsLive
CHECK_DEADLOCK FALSE
