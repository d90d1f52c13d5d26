-------------------------------- MODULE Gate --------------------------------
(***************************************************************************)
(* What an update passes before its handler runs: the rate limiter, the    *)
(* authentication middleware and the security middleware, in the order in  *)
(* which aiogram calls them, the first registered one outermost.  Several  *)
(* updates are under way at once, each held up where a middleware awaits.  *)
(*                                                                         *)
(* Blocking writes the table users and then a set in memory; the set is    *)
(* what the middleware looks at, and only a start of the bot reads it from *)
(* the table.  Time passes in ticks and is kept as ages.  The roles and    *)
(* their caches are the module Access: here a role read may return         *)
(* anything, or fail.                                                      *)
(***************************************************************************)
EXTENDS Integers, Sequences, FiniteSets

CONSTANTS
  Users,      \* the users who send updates
  Owners,     \* those whom the bot refuses to block
  Slots,      \* bound: updates under way at once
  Ops,        \* bound: blocking and unblocking calls under way at once
  Limit, Window, \* RateLimitConfig.global_limit and global_window
  Ban,        \* RateLimitConfig.ban_duration
  Actions,    \* actions with a limit of their own
  ActionLimit, ActionWindow, \* RateLimitConfig.action_limits
  Kinds,      \* kinds of updates
  Action,     \* _get_action_from_event, of each kind
  Console     \* kinds that start with admin, console or send_message

ASSUME LimitsAssumption ==
  /\ Limit \in Nat \ {0} /\ Window \in Nat \ {0} /\ Ban \in Nat
  /\ ActionLimit \in [Actions -> Nat] /\ ActionWindow \in [Actions -> Nat \ {0}]
ASSUME KindsAssumption ==
  /\ Owners \subseteq Users /\ Console \subseteq Kinds
  /\ DOMAIN Action = Kinds
  /\ IsFiniteSet(Slots)

VARIABLES
  requests, \* user_requests: ages of the counted updates
  actions,  \* user_actions, likewise
  ban,      \* banned_users: age of the ban, Ban + 1 without one
  update,   \* an update under way: where, whose and what
  isBlocked, \* users.is_blocked
  blocked,  \* AuthenticationMiddleware.blocked_users
  op,       \* block_user, unblock_user and toggle_block under way
  maintenance, \* AuthenticationMiddleware._maintenance_mode
  through,  \* history: updates the limiter let through since the last ban
  apart     \* history: why memory may differ from the table

limits == <<requests, actions, ban, through>>
blocks == <<isBlocked, blocked, op, apart>>
vars == <<requests, actions, ban, update, isBlocked, blocked, op, maintenance,
          through, apart>>

NoUpdate == [at |-> "none"]
NoOp == [at |-> "none"]

Init ==
  /\ requests = [u \in Users |-> <<>>]
  /\ actions = [a \in Actions |-> [u \in Users |-> <<>>]]
  /\ ban = [u \in Users |-> Ban + 1]
  /\ update = [s \in Slots |-> NoUpdate]
  /\ isBlocked = [u \in Users |-> FALSE] /\ blocked = {}
  /\ op = [o \in Ops |-> NoOp]
  /\ maintenance = FALSE
  /\ through = [u \in Users |-> 0] /\ apart = [u \in Users |-> {}]

-----------------------------------------------------------------------------
(* RateLimitMiddleware *)

\* is_banned
Banned(u) == ban[u] <= Ban

Goto(s, at) == update' = [update EXCEPT ![s].at = at]
Drop(s) == update' = [update EXCEPT ![s] = NoUpdate]

\* Mutant of Arrive: the ban is not looked at.
ArriveAnyway(s) ==
  /\ update[s] = NoUpdate
  /\ \E u \in Users, k \in Kinds :
       update' = [update EXCEPT ![s] = [at |-> "bypass", user |-> u, kind |-> k]]
  /\ UNCHANGED <<limits, blocks, maintenance>>

\* An update that finds its user banned is answered and gone; another one waits
\* for the role of its user in _check_admin_bypass.
Arrive(s) ==
  /\ update[s] = NoUpdate
  /\ \E u \in Users, k \in Kinds :
       /\ ~ Banned(u)
       /\ update' = [update EXCEPT ![s] = [at |-> "bypass", user |-> u, kind |-> k]]
  /\ UNCHANGED <<limits, blocks, maintenance>>

\* check_action_limit: the requests of the action if the update may pass.
WithinAction(u, k) ==
  Action[k] \in Actions => Len(actions[Action[k]][u]) < ActionLimit[Action[k]]
CountAction(u, k) ==
  actions' = IF Action[k] \in Actions
               THEN [actions EXCEPT ![Action[k]][u] = Append(@, 0)] ELSE actions

\* The authentication middleware runs at once behind the limiter: a blocked
\* user is refused, and the role is read in maintenance mode and for Console.
Authenticate(s) ==
  LET u == update[s].user
      k == update[s].kind
  IN CASE u \in blocked -> Drop(s)
       [] u \notin blocked /\ maintenance -> Goto(s, "maintenance")
       [] u \notin blocked /\ ~ maintenance /\ k \in Console -> Goto(s, "console")
       [] OTHER -> Goto(s, "security")

\* An administrator passes uncounted.
Bypass(s) ==
  /\ update[s].at = "bypass" /\ Authenticate(s)
  /\ UNCHANGED <<limits, blocks, maintenance>>

\* check_global_limit fails: the user is banned from now on, once more if an
\* update that had waited meanwhile is refused.
Refuse(s) ==
  LET u == update[s].user IN
  /\ update[s].at = "bypass" /\ Len(requests[u]) >= Limit
  /\ ban' = [ban EXCEPT ![u] = 0] /\ through' = [through EXCEPT ![u] = 0]
  /\ Drop(s)
  /\ UNCHANGED <<requests, actions, blocks, maintenance>>

\* Both limits are checked and counted.  One that fails the second check has
\* been counted by the first one.
Count(s) ==
  LET u == update[s].user
      k == update[s].kind
  IN /\ update[s].at = "bypass" /\ Len(requests[u]) < Limit
     /\ requests' = [requests EXCEPT ![u] = Append(@, 0)]
     /\ IF WithinAction(u, k)
          THEN /\ CountAction(u, k) /\ Authenticate(s)
               /\ through' = [through EXCEPT ![u] = IF Banned(u) THEN @ + 1 ELSE 0]
          ELSE Drop(s) /\ UNCHANGED <<actions, through>>
     /\ UNCHANGED <<ban, blocks, maintenance>>

-----------------------------------------------------------------------------
(* AuthenticationMiddleware and SecurityMiddleware *)

\* get_user_role_cached returns a role with a permission of administrators, ...
Admit(s) ==
  /\ update[s].at \in {"maintenance", "console"}
  /\ Goto(s, IF update[s].at = "maintenance" /\ update[s].kind \in Console
               THEN "console" ELSE "security")
  /\ UNCHANGED <<limits, blocks, maintenance>>

\* ... or one without, or it fails and the update is lost.
TurnAway(s) ==
  /\ update[s].at \in {"maintenance", "console"} /\ Drop(s)
  /\ UNCHANGED <<limits, blocks, maintenance>>

\* The audit log is written.  A button of a protected kind on a message older
\* than an hour is refused here, suspicious data is, and the handler of any
\* other update begins: other modules.
Secure(s) ==
  /\ update[s].at = "security" /\ Drop(s)
  /\ UNCHANGED <<limits, blocks, maintenance>>

\* toggle_maintenance_handler, without an await between reading and writing
ToggleMaintenance ==
  /\ maintenance' = ~ maintenance
  /\ UNCHANGED <<limits, update, blocks>>

-----------------------------------------------------------------------------
(* Blocking *)

Pending(u) == {o \in Ops : op[o].at = "committed" /\ op[o].user = u}

\* block_user and unblock_user: set_user_blocked commits ...
CommitBlock(o) ==
  /\ op[o] = NoOp
  /\ \E u \in Users, to \in BOOLEAN :
       /\ to => u \notin Owners
       /\ isBlocked' = [isBlocked EXCEPT ![u] = to]
       /\ op' = [op EXCEPT ![o] = [at |-> "committed", user |-> u, to |-> to]]
       /\ apart' = [apart EXCEPT ![u] = IF Pending(u) = {} THEN {} ELSE @ \cup {"overlap"}]
  /\ UNCHANGED <<limits, update, blocked, maintenance>>

\* Mutant of Remember: unblocking forgets the set in memory.
RememberBlocks(o) ==
  LET u == op[o].user IN
  /\ op[o].at = "committed" /\ op' = [op EXCEPT ![o] = NoOp]
  /\ blocked' = blocked \cup {u}
  /\ UNCHANGED <<limits, update, isBlocked, apart, maintenance>>

\* ... and the set in memory follows.
Remember(o) ==
  LET u == op[o].user IN
  /\ op[o].at = "committed" /\ op' = [op EXCEPT ![o] = NoOp]
  /\ blocked' = IF op[o].to THEN blocked \cup {u} ELSE blocked \ {u}
  /\ UNCHANGED <<limits, update, isBlocked, apart, maintenance>>

\* toggle_block of the admin API reads the row and commits its negation; the
\* set in memory is not told.
ReadToggle(o) ==
  /\ op[o] = NoOp
  /\ \E u \in Users : op' = [op EXCEPT ![o] = [at |-> "read", user |-> u, to |-> ~ isBlocked[u]]]
  /\ UNCHANGED <<limits, update, isBlocked, blocked, apart, maintenance>>
CommitToggle(o) ==
  LET u == op[o].user IN
  /\ op[o].at = "read" /\ op' = [op EXCEPT ![o] = NoOp]
  /\ isBlocked' = [isBlocked EXCEPT ![u] = op[o].to]
  /\ apart' = [apart EXCEPT ![u] = @ \cup {"api"}]
  /\ UNCHANGED <<limits, update, blocked, maintenance>>

-----------------------------------------------------------------------------
\* load_blocked_users.  If the query fails nobody is blocked; the maintenance
\* mode is off, because there is no cache manager yet to read it from.
Reset ==
  /\ \/ /\ blocked' = {u \in Users : isBlocked[u]}
        /\ apart' = [u \in Users |-> {}]
     \/ /\ blocked' = {} /\ apart' = [u \in Users |-> {"load"}]
  /\ maintenance' = FALSE

Restart ==
  /\ requests' = [u \in Users |-> <<>>]
  /\ actions' = [a \in Actions |-> [u \in Users |-> <<>>]]
  /\ ban' = [u \in Users |-> Ban + 1] /\ through' = [u \in Users |-> 0]
  /\ update' = [s \in Slots |-> NoUpdate] /\ op' = [o \in Ops |-> NoOp]
  /\ Reset /\ UNCHANGED isBlocked

\* Mutant of Aged: a request is counted until its age exceeds the window.
AgedLonger(ages, window) ==
  LET kept[n \in 0..Len(ages)] ==
        IF n = 0 THEN <<>>
        ELSE kept[n - 1] \o (IF ages[n] + 1 <= window THEN <<ages[n] + 1>> ELSE <<>>)
  IN kept[Len(ages)]

\* _clean_old_requests: what a check sees of the requests one tick later.
Aged(ages, window) ==
  LET kept[n \in 0..Len(ages)] ==
        IF n = 0 THEN <<>>
        ELSE kept[n - 1] \o (IF ages[n] + 1 < window THEN <<ages[n] + 1>> ELSE <<>>)
  IN kept[Len(ages)]

\* Mutant of Tick: the age of a ban never exceeds its duration.
TickBanKept ==
  /\ requests' = [u \in Users |-> Aged(requests[u], Window)]
  /\ actions' = [a \in Actions |-> [u \in Users |-> Aged(actions[a][u], ActionWindow[a])]]
  /\ ban' = [u \in Users |-> IF ban[u] < Ban THEN ban[u] + 1 ELSE ban[u]]
  /\ UNCHANGED <<update, through, blocks, maintenance>>

Tick ==
  /\ requests' = [u \in Users |-> Aged(requests[u], Window)]
  /\ actions' = [a \in Actions |-> [u \in Users |-> Aged(actions[a][u], ActionWindow[a])]]
  /\ ban' = [u \in Users |-> IF Banned(u) THEN ban[u] + 1 ELSE ban[u]]
  /\ UNCHANGED <<update, through, blocks, maintenance>>

Next ==
  \/ \E s \in Slots : \/ Arrive(s) \/ Bypass(s) \/ Refuse(s) \/ Count(s)
                      \/ Admit(s) \/ TurnAway(s) \/ Secure(s)
  \/ \E o \in Ops : CommitBlock(o) \/ Remember(o) \/ ReadToggle(o) \/ CommitToggle(o)
  \/ ToggleMaintenance \/ Restart \/ Tick

\* The clock goes on.
Fairness == WF_vars(Tick)

Spec == Init /\ [][Next]_vars /\ Fairness
-----------------------------------------------------------------------------
(* Properties *)

Places == {"bypass", "maintenance", "console", "security"}

\* Type invariant.
TypeOK ==
  /\ requests \in [Users -> Seq(0..Window - 1)]
  /\ actions \in [Actions -> [Users -> Seq(Nat)]]
  /\ \A a \in Actions : actions[a] \in [Users -> Seq(0..ActionWindow[a] - 1)]
  /\ ban \in [Users -> 0..Ban + 1]
  /\ update \in [Slots -> {NoUpdate} \cup
                          [at : Places, user : Users, kind : Kinds]]
  /\ isBlocked \in [Users -> BOOLEAN] /\ blocked \subseteq Users
  /\ op \in [Ops -> {NoOp} \cup [at : {"committed", "read"}, user : Users, to : BOOLEAN]]
  /\ maintenance \in BOOLEAN /\ through \in [Users -> Nat]
  /\ apart \in [Users -> SUBSET {"api", "overlap", "load"}]

Waiting(u) == {s \in Slots : update[s].at = "bypass" /\ update[s].user = u}

\* The ban is looked at before the role is awaited and the requests are counted
\* behind it.  So a banned user still gets updates through: those that were
\* waiting when the ban began, but never one more.
OnlyWaitingGetThrough ==
  \A u \in Users : Banned(u) => through[u] + Cardinality(Waiting(u)) < Cardinality(Slots)

\* A ban ends, however many updates its user goes on sending: one refused for
\* the ban does not begin it anew.
BanEnds == \A u \in Users : ban[u] = 0 ~> ~ Banned(u)

\* The middleware looks at the set in memory only.  Between the calls that
\* change it, it holds exactly the users whom the table says are blocked,
\* except where a call of the admin API, two overlapping calls or a start that
\* could not read the table have made them differ.
MemoryAgrees ==
  \A u \in Users : apart[u] = {} /\ Pending(u) = {} => (u \in blocked <=> isBlocked[u])

=============================================================================
