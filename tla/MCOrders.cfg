SPECIFICATION Spec
CONSTANTS
  Users = {u1}
  Orders = {1, 2}
  Batch = {2}
  Requests = {}
  Owner <- MCOwner
  Price = 1
  InitBalance = 2
  MaxPolls = 1
  MaxFaults = 1
  MaxScripts = 0
INVARIANT TypeOK
INVARIANT BalanceNonNegative
INVARIANT FailedMoneyReturns
CHECK_DEADLOCK FALSE
