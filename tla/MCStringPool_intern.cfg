\* Every order of inserting six texts; the table grows twice, pages fill.
SPECIFICATION Spec
CONSTANTS
  t1 = t1
  t2 = t2
  t3 = t3
  t4 = t4
  t5 = t5
  t6 = t6
  Text = {t1, t2, t3, t4, t5, t6}
  Length <- SixLengths
  Hash <- SixHashes
  DefaultCapacity = 2
  PageSize = 68
  PageHeader = 16
  Word = 4
  SizeLimit = 65536
INVARIANTS TypeOK SearchEnds StringsIntact
PROPERTIES Interns
