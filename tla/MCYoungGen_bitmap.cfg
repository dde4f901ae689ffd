CONSTANTS
  Id = {a, b, c, d}
  BlockSize = 96
  HeaderSize = 10
  TableSizes = {7, 9}
  UserdataSize = 5
  WordBytes = 4
SYMMETRY Names
SPECIFICATION Spec
INVARIANTS TypeOK BitmapNamesUserdata DestructedOnceDead
PROPERTY UserdataManaged
