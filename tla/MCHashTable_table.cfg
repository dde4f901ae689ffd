CONSTANTS
  Key <- FourKeys
  Val = {a, b}
  Null = Null
  Undefined = Undefined
  MinCapacity = 4
  InitCapacity = {1, 2, 4}
SPECIFICATION FairSpec
INVARIANTS TypeOK KeysUnique SizeIsLive ChainsUnbroken SearchOnChain RehashCopiesPrefix
PROPERTIES ImplementsMap SearchWithRoomEnds ResizingEnds
