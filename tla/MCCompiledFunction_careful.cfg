CONSTANTS
  Undefined = Undefined
  Params <- NoArguments
  Locals = {"x"}
  Enclosing <- OuterNames
  Values <- SomeValues
  Conds <- SomeConds
  Results <- SomeResults
  MaxStatements = 5
  MaxDepth = 3
  Careful = TRUE
  Inputs = {}
  Outer = {0, 2}
  MaxBlocks = 12
SPECIFICATION CallSpec
INVARIANTS TypeOK MeansAsWritten SharedConstantsHold KnownNumbersHold BlocksEndOnce
CHECK_DEADLOCK FALSE
