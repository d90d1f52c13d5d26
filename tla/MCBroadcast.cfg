CONSTANTS
  ann = ann
  first = first
  second = second
  u1 = u1
  u2 = u2
  u3 = u3
  Admins <- MCAdmins
  Broadcasts <- MCBroadcasts
  All <- MCAll
  Unblocked <- MCUnblocked
  BatchSize = 2
  Retries = 3
  Null = Null
  MaxRestarts = 1
SPECIFICATION Spec
INVARIANT TypeOK
INVARIANT CountsAgree
INVARIANT CancelStops
PROPERTY BroadcastsEnd
CHECK_DEADLOCK FALSE
