SPECIFICATION FairSpec
CONSTANTS
  Users <- MCUsers
  Platega = {p1}
  Crypto = {c1}
  Hooks = {h1, h2}
  Checks = {k1}
  Adjusts = {a1}
  Null = Null
  Owner <- MCOwner
  Referrer <- MCReferrer
  Amount <- MCAmount
  HookOf <- MCHookOf
  CheckOf <- MCCheckOf
  AdjustOf <- MCAdjustOf
  AdjustBy <- MCAdjustBy
  Percent = 150
  InitBalance = 0
  Debits = {10}
  MaxFaults = 2
INVARIANT TypeOK
INVARIANT SettledIsCredited
INVARIANT CreditedOnce
PROPERTY PaidIsCredited
CHECK_DEADLOCK FALSE
