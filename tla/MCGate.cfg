CONSTANTS
  Users = {u1}
  Owners = {}
  Slots = {s1, s2}
  Ops = {o1, o2}
  Limit = 1
  Window = 2
  Ban = 3
  Actions <- MCActions
  ActionLimit <- MCActionLimit
  ActionWindow <- MCActionWindow
  Kinds <- MCKinds
  Action <- MCAction
  Console = {"console"}
SPECIFICATION Spec
PROPERTY BanEnds
INVARIANT TypeOK OnlyWaitingGetThrough MemoryAgrees
