CONSTANTS
  x = x
  y = y
  r1 = r1
  r2 = r2
  r3 = r3
  m1 = m1
  m2 = m2
  Subjects <- MCSubjects
  Rows <- MCRows
  Messages <- MCMessages
  PerPage = 2
  Null = Null
  MaxOpens = 2
  MaxChanges = 1
SPECIFICATION ListsSpec
SYMMETRY MCSymmetry
INVARIANT ListsTypeOK
INVARIANT SteadyWalkSeesAll
PROPERTY RedrawnPageHasRows
CHECK_DEADLOCK FALSE
