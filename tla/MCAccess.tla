------------------------------ MODULE MCAccess ------------------------------
(* An instance of Access for TLC: a manager and a helper with the right to   *)
(* manage roles; the owner's role has a permission neither of them has, and   *)
(* the owner took the permission to use the bot from the role USER.          *)
EXTENDS Access

MCRoleOf == [u \in Users |-> IF u \in Actors THEN 3 ELSE 1]
MCName == [r \in Rows |-> CASE r = 1 -> "USER" [] r = 2 -> "OWNER" [] r = 3 -> "BOSS" [] OTHER -> "free"]
MCPerms == [r \in Rows |-> CASE r = 2 -> {"manage", "own"} [] r = 3 -> {"manage"} [] OTHER -> {}]
MCBuiltinPerms == [n \in Builtin |-> IF n = "OWNER" THEN {"manage", "own"} ELSE {"use"}]
=============================================================================
