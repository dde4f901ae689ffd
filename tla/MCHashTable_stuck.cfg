CONSTANTS
  Key <- FiveKeys
  Val = {a}
  Null = Null
  Undefined = Undefined
  MinCapacity = 4
  InitCapacity = {4}
SPECIFICATION FairSpec
PROPERTY FindReturns
