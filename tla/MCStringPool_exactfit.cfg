\* Texts that fill a page to its last byte.
SPECIFICATION Spec
CONSTANTS
  t1 = t1
  t2 = t2
  t3 = t3
  t4 = t4
  t5 = t5
  t6 = t6
  Text = {t1, t2, t3, t4, t5, t6}
  Length <- FullWords
  Hash <- SixHashes
  DefaultCapacity = 2
  PageSize = 64
  PageHeader = 16
  Word = 4
  SizeLimit = 65536
INVARIANTS StringsIntact
