CONSTANTS
  RegisterNr = 2
  Key = {0, 1}
  Arguments = 1
  ArrayArgument = 0
  CallbackArgument = 1
  Programs <- AllPrograms
  MaxFields = 2
  StaleFields = FALSE
  CollectPastEnd = FALSE
  CollectInForeach = FALSE
SPECIFICATION CallbacksSpec
INVARIANTS TypeOK NoDangling ReplacementFits ForwardingInjective CopiesReached
PROPERTY ImplementsMachine
CHECK_DEADLOCK FALSE
