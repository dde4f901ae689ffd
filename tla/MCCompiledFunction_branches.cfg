CONSTANTS
  Undefined = Undefined
  Params <- ArgumentNames
  Locals = {"x"}
  Enclosing <- NoNames
  Values <- Constants
  Conds <- Parameter
  Results <- NoExpression
  MaxStatements = 4
  MaxDepth = 2
  Careful = FALSE
  Inputs = {0, 2}
  Outer = {1}
  MaxBlocks = 10
SPECIFICATION CallSpec
INVARIANT MeansAsWritten
CHECK_DEADLOCK FALSE
