SPECIFICATION FairSpec
CONSTANTS
  Users = {u1}
  Orders = {1}
  Batch = {}
  Requests = {r1}
  Owner <- MCOwner
  Price = 1
  InitBalance = 1
  MaxPolls = 1
  MaxFaults = 2
  MaxScripts = 1
INVARIANT CompletedIsDelivered
INVARIANT FailedMoneyReturns
PROPERTY ReconcilerRefundsOnce
PROPERTY AcceptedOrdersSettle
CHECK_DEADLOCK FALSE
