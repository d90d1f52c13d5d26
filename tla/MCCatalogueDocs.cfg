CONSTANTS
  a = a
  b = b
  s = s
  t = t
  v = v
  w = w
  Admins <- MCAdmins
  Slots <- MCSlots
  Values <- MCValues
  Cats = {c1}
  Games = Games
  Books = Books
  CatNames <- MCCatNames
  Items = {i1}
  Sword = Sword
  Shield = Shield
  ItemNames <- MCItemNames
  Promos = {p1}
  Codes = {SALE}
  Free = Free
  Gone = Gone
  Null = Null
  MaxStarts = 2
SPECIFICATION Spec
SYMMETRY MCSymmetry
PROPERTY DeletionCascades
CHECK_DEADLOCK FALSE
