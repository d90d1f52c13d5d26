SPECIFICATION FairSpec
CONSTANTS
  Users <- MCUsers
  Goods <- MCGoods
  Values <- MCValues
  Promos <- MCPromos
  Lines <- MCLines
  Sessions = {s1, s2}
  Requests <- MCRequests
  Null = Null
  ItemOf <- MCItemOf
  Infinite <- MCInfinite
  LineUser <- MCLineUser
  LineItem <- MCLineItem
  LinePromo <- MCLinePromo
  Type <- MCType
  Worth <- MCWorth
  MaxUses <- MCMaxUses
  Bound <- MCBound
  InitCart <- MCInitCart
  InitStock <- MCInitStock
  InitBalance = 110
  Prices <- MCPrices
  InitPrice <- MCInitPrice
  Amounts <- MCAmounts
  CartMax = 2
  MaxFaults = 1
  MaxOps = 1
INVARIANT TypeOK
INVARIANT NoLostUpdate
INVARIANT NoOverdraft
INVARIANT SoldOnce
INVARIANT PromoCounted
INVARIANT DeadlockTakesAnotherOrder
PROPERTY KeepsPromise
PROPERTY LateLinesKept
PROPERTY TransactionsEnd
CHECK_DEADLOCK FALSE
