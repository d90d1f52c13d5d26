SPECIFICATION Spec
CONSTANTS
  Users = {ann, bob}
  Actors = {ann, bob}
  Visitors = {bob}
  Perms = {"manage", "own", "use"}
  Manage = "manage"
  Rows = {1, 2, 3, 4}
  Names = {"USER", "OWNER", "BOSS", "NEW"}
  Builtin = {"USER", "OWNER"}
  Default = "USER"
  Owner = "OWNER"
  BuiltinPerms <- MCBuiltinPerms
  Free = "free"
  Gone = "gone"
  Null = 0
  InitRole <- MCRoleOf
  InitName <- MCName
  InitPerms <- MCPerms
  TTL = 1
  MaxDelay = 0
  MaxFaults = 1
  MaxEdits = 2
INVARIANT TypeOK
INVARIANT GrantsAreRecent
INVARIANT NoEscalation
CHECK_DEADLOCK FALSE
