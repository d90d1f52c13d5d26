------------------------------- MODULE Access -------------------------------
(***************************************************************************)
(* Roles and permissions: the tables users and roles, the two caches that  *)
(* permissions are read through (Redis for the filters of the handlers,    *)
(* memory for the middleware), the dialogs in which administrators create, *)
(* edit, delete and assign roles, and restarts of the bot.                 *)
(*                                                                         *)
(* A read-through is a step for the SELECT and a step for the store, and   *)
(* an invalidation is a task that runs later.  Time passes in ticks; a     *)
(* cached value carries the ticks it has left.                             *)
(***************************************************************************)
EXTENDS Integers, FiniteSets

CONSTANTS
  Users,     \* the users whose roles are managed
  Actors,    \* those among them who operate the dialogs
  Visitors,  \* bound: the users whose updates the middleware looks up
  Perms,     \* permission bits
  Manage,    \* ADMINS_MANAGE, the bit that opens the dialogs
  Rows,      \* ids of the table roles, given or still free
  Names,     \* names a role may have
  Builtin,   \* "USER", "ADMIN", "OWNER": reset at every start, never deleted
  Default,   \* "USER"
  Owner,     \* "OWNER"
  BuiltinPerms, \* what insert_roles gives to each of them
  Free, Gone,   \* an id that is not given yet, or no longer
  Null,         \* no role
  InitRole, InitName, InitPerms, \* the tables at the start
  TTL,       \* ticks a permission may be cached
  MaxDelay,  \* bound: ticks between a SELECT and the store of its result
  MaxFaults, \* bound: restarts and failures of Redis
  MaxEdits   \* bound: dialogs begun

ASSUME RolesAssumption ==
  /\ Actors \subseteq Users /\ Visitors \subseteq Users /\ Manage \in Perms /\ Null \notin Rows
  /\ {Default, Owner} \subseteq Builtin /\ Builtin \subseteq Names
  /\ Free \notin Names /\ Gone \notin Names /\ Free # Gone
  /\ BuiltinPerms \in [Builtin -> SUBSET Perms]

\* The tables as the owner left them, who may have renamed and edited any role,
\* the builtin ones among them.
ASSUME InitAssumption ==
  /\ InitName \in [Rows -> Names \cup {Free}] /\ InitPerms \in [Rows -> SUBSET Perms]
  /\ InitRole \in [Users -> {r \in Rows : InitName[r] # Free}]
  /\ \A r, s \in Rows : InitName[r] = InitName[s] /\ InitName[r] # Free => r = s

ASSUME TimesAssumption ==
  /\ TTL \in Nat \ {0} /\ MaxDelay \in Nat /\ MaxFaults \in Nat /\ MaxEdits \in Nat

VARIABLES
  role,     \* users.role_id
  name,     \* roles.name
  perms,    \* roles.permissions
  default,  \* the rows of roles with the flag default
  redis,    \* role:{id} of Redis: value and ticks left
  memory,   \* AuthenticationMiddleware.admin_cache, likewise
  fetch,    \* check_role_cached between SELECT and store: value and age
  load,     \* get_user_role_cached between SELECT and store, likewise
  stale,    \* users whose invalidation task has yet to run
  up,       \* Redis answers
  healthy,  \* CacheManager._healthy
  dialog,   \* a dialog: where it is, what it read and what it will write
  gone,     \* history: ticks since a user last had a permission, capped
  faults, edits

tables == <<role, name, perms, default>>
caches == <<redis, memory, fetch, load, stale, up, healthy>>
vars == <<role, name, perms, default, redis, memory, fetch, load, stale, up, healthy,
          dialog, gone, faults, edits>>

Empty == [val |-> {}, left |-> 0]
NoRead == [on |-> FALSE, val |-> {}, age |-> 0]
NoDialog == [at |-> "idle", caller |-> {}, row |-> Null, user |-> Null, name |-> Free, perms |-> {}]

Exists(r) == r \in Rows /\ name[r] \in Names

\* check_role: nothing without a role.
Granted(u) == IF Exists(role[u]) THEN perms[role[u]] ELSE {}
GrantedNow == [u \in Users |-> Granted(u)]

Init ==
  /\ role = InitRole /\ name = InitName /\ perms = InitPerms
  /\ default = {r \in Rows : InitName[r] = Default}
  /\ redis = [u \in Users |-> Empty] /\ memory = [u \in Users |-> Empty]
  /\ fetch = [u \in Users |-> NoRead] /\ load = [u \in Users |-> NoRead]
  /\ stale = {} /\ up = TRUE /\ healthy = TRUE
  /\ dialog = [a \in Actors |-> NoDialog]
  /\ gone = [u \in Users |-> [p \in Perms |-> IF p \in Granted(u) THEN 0 ELSE TTL + MaxDelay]]
  /\ faults = 0 /\ edits = 0

\* The history after a change of the tables: who has a permission now, or
\* had it until this step, lost it no tick ago.
Record ==
  gone' = [u \in Users |-> [p \in Perms |->
             IF p \in GrantedNow[u] \cup GrantedNow'[u] THEN 0 ELSE gone[u][p]]]

-----------------------------------------------------------------------------
(* CacheManager and the permissions cached in Redis *)

Hit(u) == healthy /\ up /\ redis[u].left > 0

\* A call that finds Redis gone marks the cache unhealthy if the client raises
\* a built-in ConnectionError, TimeoutError or OSError, and not otherwise.
Notice == healthy' \in IF healthy /\ ~ up THEN BOOLEAN ELSE {healthy}

\* check_role_cached: a hit is the value, a miss begins a read-through.
Check(u, v) ==
  /\ ~ fetch[u].on /\ Notice
  /\ IF Hit(u) THEN v = redis[u].val /\ UNCHANGED fetch
               ELSE v = Granted(u) /\ fetch' = [fetch EXCEPT ![u] = [on |-> TRUE, val |-> v, age |-> 0]]

\* Any update of a user that a permission filter looks at.
Filter(u) ==
  /\ \E v \in {redis[u].val, Granted(u)} : Check(u, v)
  /\ UNCHANGED <<tables, redis, memory, load, stale, up, dialog, gone, faults, edits>>

\* Mutant of Store: a value is kept for longer than its time to live.
StoreLonger(u) ==
  /\ fetch[u].on /\ Notice
  /\ redis' = IF healthy /\ up
                THEN [redis EXCEPT ![u] = [val |-> fetch[u].val, left |-> TTL + 1]] ELSE redis
  /\ fetch' = [fetch EXCEPT ![u] = NoRead]
  /\ UNCHANGED <<tables, memory, load, stale, up, dialog, gone, faults, edits>>

\* cache.set, whatever was invalidated since the SELECT.
Store(u) ==
  /\ fetch[u].on /\ Notice
  /\ redis' = IF healthy /\ up
                THEN [redis EXCEPT ![u] = [val |-> fetch[u].val, left |-> TTL]] ELSE redis
  /\ fetch' = [fetch EXCEPT ![u] = NoRead]
  /\ UNCHANGED <<tables, memory, load, stale, up, dialog, gone, faults, edits>>

\* The task of invalidate_user_cache: dropped while the cache is unhealthy.
Invalidate(u) ==
  /\ u \in stale /\ stale' = stale \ {u} /\ Notice
  /\ redis' = IF healthy /\ up THEN [redis EXCEPT ![u] = Empty] ELSE redis
  /\ UNCHANGED <<tables, memory, fetch, load, up, dialog, gone, faults, edits>>

\* Redis stops answering, or answers again, with the entries it had.
RedisFails ==
  /\ up /\ faults < MaxFaults /\ faults' = faults + 1 /\ up' = FALSE
  /\ UNCHANGED <<tables, redis, memory, fetch, load, stale, healthy, dialog, gone, edits>>
RedisReturns ==
  /\ ~ up /\ up' = TRUE
  /\ UNCHANGED <<tables, redis, memory, fetch, load, stale, healthy, dialog, gone, faults, edits>>

\* The ping of the recovery loop re-enables the cache with what is in it.
CheckHealth ==
  /\ healthy # up /\ healthy' = up
  /\ UNCHANGED <<tables, redis, memory, fetch, load, stale, up, dialog, gone, faults, edits>>

-----------------------------------------------------------------------------
(* AuthenticationMiddleware.get_user_role_cached *)

Load(u) ==
  /\ memory[u].left = 0 /\ ~ load[u].on
  /\ load' = [load EXCEPT ![u] = [on |-> TRUE, val |-> Granted(u), age |-> 0]]
  /\ UNCHANGED <<tables, redis, memory, fetch, stale, up, healthy, dialog, gone, faults, edits>>

Remember(u) ==
  /\ load[u].on
  /\ memory' = [memory EXCEPT ![u] = [val |-> load[u].val, left |-> TTL]]
  /\ load' = [load EXCEPT ![u] = NoRead]
  /\ UNCHANGED <<tables, redis, fetch, stale, up, healthy, dialog, gone, faults, edits>>

-----------------------------------------------------------------------------
(* The dialogs.  An actor waits for its own read-through. *)

Ready(a, at) == dialog[a].at = at /\ ~ fetch[a].on
Goto(a, d) == dialog' = [dialog EXCEPT ![a] = d]
At(at) == [NoDialog EXCEPT !.at = at]

\* HasPermissionFilter(ADMINS_MANAGE) on role_new and on role_e_, role_dc_, asr_.
Press(a) ==
  /\ Ready(a, "idle") /\ edits < MaxEdits /\ edits' = edits + 1
  /\ \E v \in {redis[a].val, Granted(a)} : Check(a, v) /\ Manage \in v
  /\ \E at \in {"name", "caller"} : Goto(a, At(at))
  /\ UNCHANGED <<tables, redis, memory, load, stale, up, gone, faults>>

\* The handlers read the permissions of the caller once more and keep them;
\* role_create_name does so whenever the name is sent, behind no filter.
Caller(a) ==
  /\ \E v \in {redis[a].val, Granted(a)} : Check(a, v) /\
       \/ Ready(a, "caller") /\ Goto(a, [At("choose") EXCEPT !.caller = v])
       \/ Ready(a, "name") /\ \E n \in Names :
            Goto(a, [At("create") EXCEPT !.caller = v, !.name = n])
  /\ UNCHANGED <<tables, redis, memory, load, stale, up, gone, faults, edits>>

\* Mutant of Within: any role may be chosen.
WithinAny(a, r) == Exists(r)

\* Permission.is_subset(role['permissions'], caller_perms)
Within(a, r) == Exists(r) /\ perms[r] \subseteq dialog[a].caller

IsOwner(u) == Exists(role[u]) /\ name[role[u]] = Owner

\* role_edit_start and role_edit_name, assign_role_confirm, role_delete_confirm
Choose(a) ==
  /\ Ready(a, "choose")
  /\ \E r \in Rows : LET d == [dialog[a] EXCEPT !.row = r] IN
       \/ ~ Within(a, r) /\ Goto(a, NoDialog)
       \/ Within(a, r) /\
            \/ \E n \in Names : Goto(a, [d EXCEPT !.at = "edit", !.name = n, !.perms = perms[r]])
            \/ \E u \in Users : Goto(a, IF IsOwner(u) THEN NoDialog
                                         ELSE [d EXCEPT !.at = "assign", !.user = u])
            \/ Goto(a, [d EXCEPT !.at = "count"])
  /\ UNCHANGED <<tables, caches, gone, faults, edits>>

\* _toggle_perm, any number of times
Toggle(a) ==
  /\ dialog[a].at \in {"create", "edit"}
  /\ \E p \in dialog[a].caller :
       Goto(a, [dialog[a] EXCEPT !.perms = IF p \in @ THEN @ \ {p} ELSE @ \cup {p}])
  /\ UNCHANGED <<tables, caches, gone, faults, edits>>

Put(r, n, ps) == name' = [name EXCEPT ![r] = n] /\ perms' = [perms EXCEPT ![r] = ps]

\* _perms_done, update_role and create_role: the caller's permissions are
\* those the dialog began with; no cache is told.
Update(a) ==
  LET d == dialog[a]
      ok == /\ d.perms \subseteq d.caller /\ Exists(d.row)
            /\ \A s \in Rows \ {d.row} : name[s] # d.name
  IN /\ d.at = "edit" /\ Goto(a, NoDialog)
     /\ IF ok THEN Put(d.row, d.name, d.perms) ELSE UNCHANGED <<name, perms>>
     /\ UNCHANGED <<role, default, caches, faults, edits>> /\ Record
Create(a) ==
  LET d == dialog[a]
      ok == d.perms \subseteq d.caller /\ \A s \in Rows : name[s] # d.name
  IN /\ d.at = "create" /\ Goto(a, NoDialog)
     /\ IF ok THEN \E r \in Rows : name[r] = Free /\ Put(r, d.name, d.perms)
              ELSE UNCHANGED <<name, perms>>
     /\ UNCHANGED <<role, default, caches, faults, edits>> /\ Record

\* set_role, its invalidation task, and the entry of the middleware; a role
\* that is gone violates the foreign key.
Assign(a) ==
  LET d == dialog[a] IN
  /\ d.at = "assign" /\ Goto(a, NoDialog)
  /\ IF Exists(d.row)
       THEN /\ role' = [role EXCEPT ![d.user] = d.row]
            /\ stale' = stale \cup {d.user}
            /\ memory' = [memory EXCEPT ![d.user] = Empty]
       ELSE UNCHANGED <<role, stale, memory>>
  /\ UNCHANGED <<name, perms, default, redis, fetch, load, up, healthy, faults, edits>>
  /\ Record

\* delete_role: the row is read and its users are counted, and then the flush
\* unlinks the users who were assigned the role since.
Count(a) ==
  LET r == dialog[a].row IN
  /\ dialog[a].at = "count"
  /\ IF Exists(r) /\ r \notin default /\ name[r] \notin Builtin /\ \A u \in Users : role[u] # r
       THEN Goto(a, [dialog[a] EXCEPT !.at = "delete"]) ELSE Goto(a, NoDialog)
  /\ UNCHANGED <<tables, caches, gone, faults, edits>>
Delete(a) ==
  LET r == dialog[a].row IN
  /\ dialog[a].at = "delete" /\ Goto(a, NoDialog)
  /\ name' = [name EXCEPT ![r] = Gone] /\ perms' = [perms EXCEPT ![r] = {}]
  /\ default' = default \ {r}
  /\ role' = [u \in Users |-> IF role[u] = r THEN Null ELSE role[u]]
  /\ UNCHANGED <<caches, faults, edits>> /\ Record

\* The user turns to another menu, which clears the state.
Cancel(a) ==
  /\ dialog[a].at \in {"name", "create", "edit"} /\ Goto(a, NoDialog)
  /\ UNCHANGED <<tables, caches, gone, faults, edits>>

-----------------------------------------------------------------------------
\* insert_roles: each builtin name has its row, found by name or added, with
\* the permissions it is meant to have.
Home(f) == /\ \A n \in Builtin : name[f[n]] = n \/ (name[f[n]] = Free /\ \A r \in Rows : name[r] # n)
           /\ \A n, m \in Builtin : f[n] = f[m] => n = m
InsertRoles(f) ==
  LET named(r, n) == f[n] = r IN
  /\ name' = [r \in Rows |-> IF \E n \in Builtin : named(r, n)
                               THEN CHOOSE n \in Builtin : named(r, n) ELSE name[r]]
  /\ perms' = [r \in Rows |-> IF \E n \in Builtin : named(r, n)
                                THEN BuiltinPerms[CHOOSE n \in Builtin : named(r, n)] ELSE perms[r]]
  /\ default' = (default \ {f[n] : n \in Builtin}) \cup {f[Default]}

\* The bot starts again with empty memory and lost tasks.  A dialog that waits
\* for the user is kept by the FSM storage if that is Redis.
Restart ==
  /\ faults < MaxFaults /\ faults' = faults + 1
  /\ \E f \in [Builtin -> Rows] : Home(f) /\ InsertRoles(f)
  /\ memory' = [u \in Users |-> Empty]
  /\ fetch' = [u \in Users |-> NoRead] /\ load' = [u \in Users |-> NoRead]
  /\ stale' = {} /\ healthy' = TRUE
  /\ \E K \in SUBSET {a \in Actors : dialog[a].at \in {"name", "create", "edit"}} :
       dialog' = [a \in Actors |-> IF a \in K THEN dialog[a] ELSE NoDialog]
  /\ UNCHANGED <<role, redis, up, edits>> /\ Record

\* Mutant of Older: nobody looks at the age of an entry.
OlderKept(c) == [u \in Users |-> IF c[u].left <= 1 THEN c[u] ELSE [c[u] EXCEPT !.left = @ - 1]]

Older(c) == [u \in Users |-> IF c[u].left <= 1 THEN Empty ELSE [c[u] EXCEPT !.left = @ - 1]]
Aged(f) == [u \in Users |-> IF f[u].on THEN [f[u] EXCEPT !.age = @ + 1] ELSE f[u]]

Tick ==
  /\ \A u \in Users : fetch[u].age < MaxDelay \/ ~ fetch[u].on
  /\ \A u \in Users : load[u].age < MaxDelay \/ ~ load[u].on
  /\ redis' = Older(redis) /\ memory' = Older(memory)
  /\ fetch' = Aged(fetch) /\ load' = Aged(load)
  /\ gone' = [u \in Users |-> [p \in Perms |->
                IF p \in Granted(u) THEN 0
                ELSE IF gone[u][p] < TTL + MaxDelay THEN gone[u][p] + 1 ELSE gone[u][p]]]
  /\ UNCHANGED <<tables, stale, up, healthy, dialog, faults, edits>>

Next ==
  \/ \E u \in Users : Filter(u) \/ Store(u) \/ Invalidate(u)
  \/ \E u \in Visitors : Load(u) \/ Remember(u)
  \/ \E a \in Actors : \/ Press(a) \/ Caller(a) \/ Choose(a) \/ Toggle(a)
                       \/ Update(a) \/ Create(a) \/ Assign(a)
                       \/ Count(a) \/ Delete(a) \/ Cancel(a)
  \/ RedisFails \/ RedisReturns \/ CheckHealth \/ Restart \/ Tick

Spec == Init /\ [][Next]_vars
-----------------------------------------------------------------------------
(* Properties *)

Entry == [val : SUBSET Perms, left : 0..TTL]
Read == [on : BOOLEAN, val : SUBSET Perms, age : 0..MaxDelay]
Places == {"idle", "name", "caller", "choose", "create", "edit", "assign", "count", "delete"}
Fields == [at : Places, caller : SUBSET Perms, row : Rows \cup {Null}, user : Users \cup {Null},
           name : Names \cup {Free}, perms : SUBSET Perms]
Dialog == {d \in Fields : /\ d.at = "assign" => d.user \in Users
                          /\ d.at = "edit" => d.name \in Names}

\* Type invariant.
TypeOK ==
  /\ role \in [Users -> Rows \cup {Null}] /\ name \in [Rows -> Names \cup {Free, Gone}]
  /\ perms \in [Rows -> SUBSET Perms] /\ default \subseteq Rows
  /\ redis \in [Users -> Entry] /\ memory \in [Users -> Entry]
  /\ fetch \in [Users -> Read] /\ load \in [Users -> Read]
  /\ stale \subseteq Users /\ up \in BOOLEAN /\ healthy \in BOOLEAN
  /\ dialog \in [Actors -> Dialog]
  /\ gone \in [Users -> [Perms -> 0..TTL + MaxDelay]]
  /\ faults \in 0..MaxFaults /\ edits \in 0..MaxEdits

\* g says how long ago the permissions were last had.  An entry shows none
\* that was lost longer ago than the entry is old and its read took, and a
\* value on its way into the cache none that was lost before its read.
EntryRecent(e, g) == \A p \in Perms : e.left > 0 /\ p \in e.val => g[p] + e.left <= TTL + MaxDelay
ReadRecent(f, g) == \A p \in Perms : f.on /\ p \in f.val => g[p] <= f.age

\* What the filters and the middleware are answered from a cache is a set of
\* permissions the user had within the last TTL + MaxDelay, although edits of
\* a role tell no cache, invalidations are overtaken by reads that began
\* before them, dropped while Redis is away, and lost in a restart.
GrantsAreRecent == \A u \in Users :
  /\ EntryRecent(redis[u], gone[u]) /\ ReadRecent(fetch[u], gone[u])
  /\ EntryRecent(memory[u], gone[u]) /\ ReadRecent(load[u], gone[u])

\* The builtin roles that are not as insert_roles left them.
Edited ==
  {n \in Builtin : \A r \in Rows : InitName[r] = n => InitPerms[r] # BuiltinPerms[n]}

\* What the operators of the dialogs have between them, and what the next start
\* gives back to a role that was edited: who holds it has it then.
Ceiling == UNION ({InitPerms[InitRole[a]] : a \in Actors} \cup {BuiltinPerms[n] : n \in Edited})

\* Nobody gains a permission that no operator of the dialogs has: not by
\* assigning or editing a role, not through a dialog that outlives its
\* operator's rights or a restart, and not by renaming roles before a restart
\* gives the builtin ones their permissions again.  Only a builtin role that the
\* owner had edited, or renamed, brings in more: what the restart gives it back.
NoEscalation == \A u \in Users : Granted(u) \subseteq Ceiling \cup InitPerms[InitRole[u]]
=============================================================================
