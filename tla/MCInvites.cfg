SPECIFICATION Spec
CONSTANTS
  Users <- MCUsers
  Starts <- MCStarts
  StartBy <- MCStartBy
  StartOf <- MCStartOf
  Admins = {a1, a2}
  Claimers = {c1, c2}
  ClaimBy <- MCClaimBy
  Null = Null
  PerReward = 2
  MaxFaults = 2
INVARIANT RewardsEarned
 
PROPERTY FirstReferrerStays
SYMMETRY MCSessions
CHECK_DEADLOCK FALSE
