SPECIFICATION Spec
CONSTANTS
  Users = {u1}
  Orders = {1}
  Batch = {}
  Requests = {}
  Owner <- MCOwner
  Price = 1
  InitBalance = 1
  MaxPolls = 1
  MaxFaults = 0
  MaxScripts = 0
INVARIANT RefundExactlyOnce
CHECK_DEADLOCK FALSE
