\* Every graph of three blocks, empty ones among them.
SPECIFICATION Spec
CONSTANTS
  N = 3
  Sizes = {0, 1}
INVARIANTS TypeOK ChainsComplete LinkedAsBuilt
PROPERTIES ChainDescends
\* The linker returns.
CHECK_DEADLOCK FALSE
