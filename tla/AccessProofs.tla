---------------------------- MODULE AccessProofs ----------------------------
(***************************************************************************)
(* Theorems about Access: what a cache serves is recent, and the dialogs   *)
(* hand out nothing their operators do not have.                           *)
(***************************************************************************)
EXTENDS Access, TLAPS

-----------------------------------------------------------------------------
(* Type correctness *)

\* The tables are of their types at the start.
LEMMA InitTypes == Init => TypeOK
<1> SUFFICES ASSUME Init PROVE TypeOK
  OBVIOUS
<1> USE RolesAssumption, InitAssumption, TimesAssumption DEF Init
<1>1. /\ role \in [Users -> Rows \cup {Null}] /\ name \in [Rows -> Names \cup {Free, Gone}]
      /\ perms \in [Rows -> SUBSET Perms] /\ default \subseteq Rows
  OBVIOUS
<1>2. Empty \in Entry /\ NoRead \in Read
  BY DEF Empty, Entry, NoRead, Read
<1>3. NoDialog \in Dialog
  BY DEF NoDialog, Dialog, Fields, Places
<1>4. gone \in [Users -> [Perms -> 0..TTL + MaxDelay]]
  OBVIOUS
<1>5. faults \in 0..MaxFaults /\ edits \in 0..MaxEdits
  OBVIOUS
<1> QED BY <1>1, <1>2, <1>3, <1>4, <1>5 DEF TypeOK

\* A user has permissions of the table.
LEMMA GrantedType == ASSUME TypeOK, NEW u \in Users PROVE Granted(u) \in SUBSET Perms
  BY DEF TypeOK, Granted, Exists

\* The history keeps its type.
LEMMA RecordType ==
  ASSUME TypeOK, Record PROVE gone' \in [Users -> [Perms -> 0..TTL + MaxDelay]]
<1>1. TTL + MaxDelay \in Nat
  BY TimesAssumption
<1>2. \A u \in Users : \A p \in Perms : gone[u][p] \in 0..TTL + MaxDelay
  BY DEF TypeOK
<1> QED BY <1>1, <1>2, TimesAssumption DEF Record

\* Every step keeps the types.
LEMMA StepTypes == TypeOK /\ [Next]_vars => TypeOK'
<1> SUFFICES ASSUME TypeOK, [Next]_vars PROVE TypeOK'
  OBVIOUS
<1> USE RolesAssumption, TimesAssumption
<1> DEFINE Keep(f) == \A a \in Actors : f[a] \in Dialog
<1>d. ASSUME NEW a \in Actors, NEW d \in Dialog, Goto(a, d)
      PROVE dialog' \in [Actors -> Dialog]
  BY <1>d DEF Goto, TypeOK
<1>n. NoDialog \in Dialog
  BY DEF NoDialog, Dialog, Fields, Places
<1>e. Empty \in Entry /\ NoRead \in Read
  BY DEF Empty, Entry, NoRead, Read
<1>g. \A u \in Users : Granted(u) \in SUBSET Perms
  BY GrantedType
<1>h. Notice => healthy' \in BOOLEAN
  BY DEF Notice, TypeOK
<1>c. ASSUME NEW u \in Users, NEW v \in {redis[u].val, Granted(u)}, Check(u, v)
      PROVE /\ v \in SUBSET Perms /\ fetch' \in [Users -> Read] /\ healthy' \in BOOLEAN
  <2>1. v \in SUBSET Perms
    BY <1>g DEF TypeOK, Entry
  <2>2. [on |-> TRUE, val |-> v, age |-> 0] \in Read
    BY <2>1 DEF Read
  <2>3. CASE fetch' = fetch
    BY <1>c, <1>h, <2>1, <2>3 DEF Check, TypeOK
  <2>4. CASE fetch' = [fetch EXCEPT ![u] = [on |-> TRUE, val |-> v, age |-> 0]]
    BY <1>c, <1>h, <2>1, <2>2, <2>4 DEF Check, TypeOK
  <2> QED BY <1>c, <2>3, <2>4 DEF Check
<1>1. ASSUME NEW u \in Users, Filter(u) PROVE TypeOK'
  BY <1>1, <1>c DEF Filter, TypeOK, tables
<1>2. ASSUME NEW u \in Users, Store(u) PROVE TypeOK'
  <2>1. [val |-> fetch[u].val, left |-> TTL] \in Entry
    BY DEF TypeOK, Entry, Read
  <2> QED BY <1>2, <1>e, <1>h, <2>1 DEF Store, TypeOK, tables
<1>3. ASSUME NEW u \in Users, Invalidate(u) PROVE TypeOK'
  BY <1>3, <1>e, <1>h DEF Invalidate, TypeOK, tables
<1>4. ASSUME NEW u \in Visitors, Load(u) PROVE TypeOK'
  <2>1. [on |-> TRUE, val |-> Granted(u), age |-> 0] \in Read
    BY <1>g DEF Read
  <2> QED BY <1>4, <2>1 DEF Load, TypeOK, tables
<1>5. ASSUME NEW u \in Visitors, Remember(u) PROVE TypeOK'
  <2>1. [val |-> load[u].val, left |-> TTL] \in Entry
    BY DEF TypeOK, Entry, Read
  <2> QED BY <1>5, <1>e, <2>1 DEF Remember, TypeOK, tables
<1>6. ASSUME NEW a \in Actors, Press(a) PROVE TypeOK'
  <2>1. \A at \in {"name", "caller"} : At(at) \in Dialog
    BY DEF At, NoDialog, Dialog, Fields, Places
  <2>2. dialog' \in [Actors -> Dialog]
    BY <1>6, <1>d, <2>1 DEF Press
  <2>3. fetch' \in [Users -> Read] /\ healthy' \in BOOLEAN
    BY <1>6, <1>c DEF Press
  <2>4. edits' \in 0..MaxEdits
    BY <1>6 DEF Press, TypeOK
  <2> QED BY <1>6, <2>2, <2>3, <2>4 DEF Press, TypeOK, tables
<1>7. ASSUME NEW a \in Actors, Caller(a) PROVE TypeOK'
  <2>1. \A v \in SUBSET Perms : [At("choose") EXCEPT !.caller = v] \in Dialog
    BY DEF At, NoDialog, Dialog, Fields, Places
  <2>2. \A v \in SUBSET Perms, n \in Names : [At("create") EXCEPT !.caller = v, !.name = n] \in Dialog
    BY DEF At, NoDialog, Dialog, Fields, Places
  <2>3. PICK v \in {redis[a].val, Granted(a)} : Check(a, v) /\
          \/ Goto(a, [At("choose") EXCEPT !.caller = v])
          \/ \E n \in Names : Goto(a, [At("create") EXCEPT !.caller = v, !.name = n])
    BY <1>7 DEF Caller
  <2>4. v \in SUBSET Perms /\ fetch' \in [Users -> Read] /\ healthy' \in BOOLEAN
    BY <1>c, <2>3
  <2>5. dialog' \in [Actors -> Dialog]
    BY <1>d, <2>1, <2>2, <2>3, <2>4
  <2> QED BY <1>7, <2>4, <2>5 DEF Caller, TypeOK, tables
<1>8. ASSUME NEW a \in Actors, Choose(a) PROVE TypeOK'
  <2>1. dialog[a] \in Dialog
    BY DEF TypeOK
  <2>2. ASSUME NEW r \in Rows PROVE
          LET d == [dialog[a] EXCEPT !.row = r] IN
            /\ \A n \in Names : [d EXCEPT !.at = "edit", !.name = n, !.perms = perms[r]] \in Dialog
            /\ \A u \in Users : [d EXCEPT !.at = "assign", !.user = u] \in Dialog
            /\ [d EXCEPT !.at = "count"] \in Dialog
    BY <2>1 DEF Dialog, Fields, Places, TypeOK
  <2>3. dialog' \in [Actors -> Dialog]
    BY <1>8, <1>d, <1>n, <2>2 DEF Choose
  <2> QED BY <1>8, <2>3 DEF Choose, TypeOK, tables, caches
<1>9. ASSUME NEW a \in Actors, Toggle(a) PROVE TypeOK'
  <2>1. dialog[a] \in Dialog
    BY DEF TypeOK
  <2>2. \A p \in dialog[a].caller :
          [dialog[a] EXCEPT !.perms = IF p \in @ THEN @ \ {p} ELSE @ \cup {p}] \in Dialog
    BY <2>1 DEF Dialog, Fields
  <2>3. dialog' \in [Actors -> Dialog]
    BY <1>9, <1>d, <2>2 DEF Toggle
  <2> QED BY <1>9, <2>3 DEF Toggle, TypeOK, tables, caches
<1>p. ASSUME NEW r \in Rows, NEW n \in Names, NEW ps \in SUBSET Perms, Put(r, n, ps)
      PROVE name' \in [Rows -> Names \cup {Free, Gone}] /\ perms' \in [Rows -> SUBSET Perms]
  BY <1>p DEF Put, TypeOK
<1>10. ASSUME NEW a \in Actors, Update(a) PROVE TypeOK'
  <2>1. dialog[a] \in Dialog
    BY DEF TypeOK
  <2>2. name' \in [Rows -> Names \cup {Free, Gone}] /\ perms' \in [Rows -> SUBSET Perms]
    <3>1. CASE UNCHANGED <<name, perms>>
      BY <3>1 DEF TypeOK
    <3>2. CASE Exists(dialog[a].row) /\ Put(dialog[a].row, dialog[a].name, dialog[a].perms)
      <4>1. dialog[a].row \in Rows /\ dialog[a].perms \in SUBSET Perms /\ dialog[a].name \in Names \cup {Free}
        BY <2>1, <3>2 DEF Dialog, Fields, Exists
      <4> QED BY <3>2, <4>1 DEF Put, TypeOK
    <3> QED BY <1>10, <3>1, <3>2 DEF Update
  <2>3. dialog' \in [Actors -> Dialog]
    BY <1>10, <1>d, <1>n DEF Update
  <2>4. gone' \in [Users -> [Perms -> 0..TTL + MaxDelay]]
    BY <1>10, RecordType DEF Update
  <2> QED BY <1>10, <2>2, <2>3, <2>4 DEF Update, TypeOK, caches
<1>11. ASSUME NEW a \in Actors, Create(a) PROVE TypeOK'
  <2>1. dialog[a] \in Dialog
    BY DEF TypeOK
  <2>2. name' \in [Rows -> Names \cup {Free, Gone}] /\ perms' \in [Rows -> SUBSET Perms]
    <3>1. CASE UNCHANGED <<name, perms>>
      BY <3>1 DEF TypeOK
    <3>2. CASE \E r \in Rows : Put(r, dialog[a].name, dialog[a].perms)
      BY <2>1, <3>2 DEF Put, TypeOK, Dialog, Fields
    <3> QED BY <1>11, <3>1, <3>2 DEF Create
  <2>3. dialog' \in [Actors -> Dialog]
    BY <1>11, <1>d, <1>n DEF Create
  <2>4. gone' \in [Users -> [Perms -> 0..TTL + MaxDelay]]
    BY <1>11, RecordType DEF Create
  <2> QED BY <1>11, <2>2, <2>3, <2>4 DEF Create, TypeOK, caches
<1>12. ASSUME NEW a \in Actors, Assign(a) PROVE TypeOK'
  <2>1. dialog' \in [Actors -> Dialog]
    BY <1>12, <1>d, <1>n DEF Assign
  <2>2. gone' \in [Users -> [Perms -> 0..TTL + MaxDelay]]
    BY <1>12, RecordType DEF Assign
  <2>3. dialog[a].user \in Users
    <3>1. dialog[a] \in Dialog
      BY DEF TypeOK
    <3>2. dialog[a].at = "assign"
      BY <1>12 DEF Assign
    <3> QED BY <3>1, <3>2 DEF Dialog
  <2>4. CASE UNCHANGED <<role, stale, memory>>
    BY <1>12, <2>1, <2>2, <2>4 DEF Assign, TypeOK
  <2>5. CASE /\ Exists(dialog[a].row) /\ dialog[a].user \in Users
             /\ role' = [role EXCEPT ![dialog[a].user] = dialog[a].row]
             /\ stale' = stale \cup {dialog[a].user}
             /\ memory' = [memory EXCEPT ![dialog[a].user] = Empty]
    <3>1. role' \in [Users -> Rows \cup {Null}] /\ memory' \in [Users -> Entry] /\ stale' \subseteq Users
      BY <1>e, <2>5 DEF TypeOK, Exists
    <3> QED BY <1>12, <2>1, <2>2, <3>1 DEF Assign, TypeOK
  <2> QED BY <1>12, <2>3, <2>4, <2>5 DEF Assign
<1>13. ASSUME NEW a \in Actors, Count(a) PROVE TypeOK'
  <2>1. [dialog[a] EXCEPT !.at = "delete"] \in Dialog
    <3>1. dialog[a] \in Dialog
      BY DEF TypeOK
    <3> QED BY <3>1 DEF Dialog, Fields, Places
  <2>2. dialog' \in [Actors -> Dialog]
    BY <1>13, <1>d, <1>n, <2>1 DEF Count
  <2> QED BY <1>13, <2>2 DEF Count, TypeOK, tables, caches
<1>14. ASSUME NEW a \in Actors, Delete(a) PROVE TypeOK'
  <2>1. dialog' \in [Actors -> Dialog]
    BY <1>14, <1>d, <1>n DEF Delete
  <2>2. gone' \in [Users -> [Perms -> 0..TTL + MaxDelay]]
    BY <1>14, RecordType DEF Delete
  <2>3. role' \in [Users -> Rows \cup {Null}] /\ name' \in [Rows -> Names \cup {Free, Gone}]
        /\ perms' \in [Rows -> SUBSET Perms] /\ default' \subseteq Rows
    BY <1>14 DEF Delete, TypeOK
  <2> QED BY <1>14, <2>1, <2>2, <2>3 DEF Delete, TypeOK, caches
<1>15. ASSUME NEW a \in Actors, Cancel(a) PROVE TypeOK'
  BY <1>15, <1>d, <1>n DEF Cancel, TypeOK, tables, caches
<1>16. ASSUME RedisFails \/ RedisReturns \/ CheckHealth PROVE TypeOK'
  <2>1. CASE RedisFails
    <3>1. faults' \in 0..MaxFaults
      BY <2>1 DEF RedisFails, TypeOK
    <3> QED BY <2>1, <3>1, Zenon DEF RedisFails, TypeOK, tables
  <2>2. CASE RedisReturns
    BY <2>2 DEF RedisReturns, TypeOK, tables
  <2>3. CASE CheckHealth
    BY <2>3 DEF CheckHealth, TypeOK, tables
  <2> QED BY <1>16, <2>1, <2>2, <2>3
<1>17. ASSUME Restart PROVE TypeOK'
  <2>1. PICK f \in [Builtin -> Rows] : InsertRoles(f)
    BY <1>17 DEF Restart
  <2>2. name' \in [Rows -> Names \cup {Free, Gone}] /\ perms' \in [Rows -> SUBSET Perms]
        /\ default' \subseteq Rows
    BY <2>1 DEF InsertRoles, TypeOK
  <2>3. gone' \in [Users -> [Perms -> 0..TTL + MaxDelay]]
    BY <1>17, RecordType DEF Restart
  <2>4. dialog' \in [Actors -> Dialog]
    BY <1>17, <1>n DEF Restart, TypeOK
  <2> QED BY <1>17, <1>e, <2>2, <2>3, <2>4 DEF Restart, TypeOK
<1>18. ASSUME Tick PROVE TypeOK'
  <2>1. ASSUME NEW c \in [Users -> Entry] PROVE Older(c) \in [Users -> Entry]
    <3>1. \A u \in Users : c[u].left > 1 => [c[u] EXCEPT !.left = @ - 1] \in Entry
      BY DEF Entry
    <3> QED BY <1>e, <3>1 DEF Older, Entry
  <2>2. ASSUME NEW f \in [Users -> Read], \A u \in Users : f[u].age < MaxDelay \/ ~ f[u].on
        PROVE Aged(f) \in [Users -> Read]
    BY <2>2 DEF Aged, Read
  <2>3. gone' \in [Users -> [Perms -> 0..TTL + MaxDelay]]
    BY <1>18 DEF Tick, TypeOK
  <2> QED BY <1>18, <2>1, <2>2, <2>3 DEF Tick, TypeOK, tables
<1>19. CASE UNCHANGED vars
  BY <1>19 DEF vars, TypeOK
<1> QED
  BY <1>1, <1>2, <1>3, <1>4, <1>5, <1>6, <1>7, <1>8, <1>9, <1>10, <1>11, <1>12,
     <1>13, <1>14, <1>15, <1>16, <1>17, <1>18, <1>19 DEF Next

\* The variables keep their types, whatever the users, roles and bounds are.
THEOREM TypeCorrect == Spec => []TypeOK
  BY InitTypes, StepTypes, PTL DEF Spec

-----------------------------------------------------------------------------
(* What a cache serves is recent *)

\* Permissions a user has were had no tick ago.
Held == \A u \in Users : \A p \in Granted(u) : gone[u][p] = 0

\* The inductive invariant behind GrantsAreRecent: a read is recent because
\* what it reads is held.
RInv == TypeOK /\ Held /\ GrantsAreRecent

Past == [Perms -> 0..TTL + MaxDelay]

\* An entry or a read stays recent when permissions turn out to be had later.
LEMMA Later ==
  ASSUME NEW g \in Past, NEW h \in Past, \A p \in Perms : h[p] <= g[p]
  PROVE /\ \A e \in Entry : EntryRecent(e, g) => EntryRecent(e, h)
        /\ \A f \in Read : ReadRecent(f, g) => ReadRecent(f, h)
  BY TimesAssumption DEF Past, Entry, Read, EntryRecent, ReadRecent

\* An empty entry and no read show nothing.
LEMMA NothingIsRecent == ASSUME NEW g PROVE EntryRecent(Empty, g) /\ ReadRecent(NoRead, g)
  BY DEF EntryRecent, ReadRecent, Empty, NoRead

\* What is read now is recent.
LEMMA NowIsRecent ==
  ASSUME RInv, NEW u \in Users
  PROVE ReadRecent([on |-> TRUE, val |-> Granted(u), age |-> 0], gone[u])
  BY DEF RInv, Held, ReadRecent

\* A value is recent when it is stored.
LEMMA StoredIsRecent ==
  ASSUME NEW f \in Read, NEW g \in Past, f.on, ReadRecent(f, g)
  PROVE EntryRecent([val |-> f.val, left |-> TTL], g)
  BY TimesAssumption DEF Past, Read, EntryRecent, ReadRecent

\* A step that leaves tables and history alone need only keep caches recent.
LEMMA QuietStep ==
  ASSUME RInv, TypeOK', UNCHANGED <<role, name, perms, gone>>,
         \A u \in Users : EntryRecent(redis'[u], gone[u]) /\ ReadRecent(fetch'[u], gone[u]),
         \A u \in Users : EntryRecent(memory'[u], gone[u]) /\ ReadRecent(load'[u], gone[u])
  PROVE RInv'
<1>1. Held'
  BY DEF RInv, Held, Granted, Exists
<1>2. GrantsAreRecent'
  BY DEF GrantsAreRecent
<1> QED BY <1>1, <1>2 DEF RInv

\* A step that changes the tables, records it and adds nothing to the caches.
LEMMA RecordStep ==
  ASSUME RInv, TypeOK', Record,
         \A u \in Users : redis'[u] \in {redis[u], Empty} /\ fetch'[u] \in {fetch[u], NoRead},
         \A u \in Users : memory'[u] \in {memory[u], Empty} /\ load'[u] \in {load[u], NoRead}
  PROVE RInv'
<1>1. ASSUME NEW u \in Users PROVE
        /\ gone[u] \in Past /\ gone'[u] \in Past
        /\ \A p \in Perms : gone'[u][p] <= gone[u][p]
        /\ \A p \in Granted(u)' : gone'[u][p] = 0
  <2>1. gone[u] \in Past /\ gone'[u] \in Past
    BY DEF RInv, TypeOK, Past
  <2>2. Granted(u)' \in SUBSET Perms
    BY DEF TypeOK, Granted, Exists
  <2>3. \A p \in Perms : gone'[u][p] = 0 \/ gone'[u][p] = gone[u][p]
    BY DEF Record
  <2>4. \A p \in Granted(u)' : gone'[u][p] = 0
    BY <2>2 DEF Record, GrantedNow
  <2>5. \A p \in Perms : gone'[u][p] <= gone[u][p]
    BY <2>1, <2>3, TimesAssumption DEF Past
  <2> QED BY <2>1, <2>4, <2>5
<1>2. Held'
  BY <1>1 DEF Held
<1>3. ASSUME NEW u \in Users PROVE
        /\ EntryRecent(redis'[u], gone'[u]) /\ ReadRecent(fetch'[u], gone'[u])
        /\ EntryRecent(memory'[u], gone'[u]) /\ ReadRecent(load'[u], gone'[u])
  <2>1. redis[u] \in Entry /\ memory[u] \in Entry /\ fetch[u] \in Read /\ load[u] \in Read
    BY DEF RInv, TypeOK
  <2>2. /\ EntryRecent(redis[u], gone[u]) /\ ReadRecent(fetch[u], gone[u])
        /\ EntryRecent(memory[u], gone[u]) /\ ReadRecent(load[u], gone[u])
    BY DEF RInv, GrantsAreRecent
  <2>3. /\ EntryRecent(redis[u], gone'[u]) /\ ReadRecent(fetch[u], gone'[u])
        /\ EntryRecent(memory[u], gone'[u]) /\ ReadRecent(load[u], gone'[u])
    BY <1>1, <2>1, <2>2, Later
  <2> QED BY <2>3, NothingIsRecent
<1> QED BY <1>2, <1>3 DEF RInv, GrantsAreRecent

\* A tick takes from what an entry has left what it adds to the past.
LEMMA TickStep == ASSUME RInv, TypeOK', Tick PROVE RInv'
<1>1. Held'
  <2>1. \A u \in Users : Granted(u)' = Granted(u) /\ Granted(u) \in SUBSET Perms
    BY GrantedType DEF Tick, tables, RInv, Granted, Exists
  <2> QED BY <2>1 DEF Tick, Held
<1>2. ASSUME NEW u \in Users PROVE
        /\ gone[u] \in Past /\ gone'[u] \in Past
        /\ \A p \in Perms : gone'[u][p] <= gone[u][p] + 1
  <2>1. gone[u] \in Past /\ gone'[u] \in Past
    BY DEF RInv, TypeOK, Past
  <2>2. \A p \in Perms : gone'[u][p] \in {0, gone[u][p], gone[u][p] + 1}
    BY DEF Tick
  <2> QED BY <2>1, <2>2, TimesAssumption DEF Past
<1>3. ASSUME NEW u \in Users, NEW c \in [Users -> Entry], EntryRecent(c[u], gone[u])
      PROVE EntryRecent(Older(c)[u], gone'[u])
  <2>1. CASE c[u].left <= 1
    BY <2>1, NothingIsRecent DEF Older
  <2>2. CASE ~ c[u].left <= 1
    <3>1. Older(c)[u].val = c[u].val /\ Older(c)[u].left = c[u].left - 1 /\ c[u].left \in Nat
      BY <2>2, TimesAssumption DEF Older, Entry
    <3> QED BY <1>2, <1>3, <2>2, <3>1, TimesAssumption DEF EntryRecent, Past
  <2> QED BY <2>1, <2>2
<1>4. ASSUME NEW u \in Users, NEW f \in [Users -> Read], ReadRecent(f[u], gone[u])
      PROVE ReadRecent(Aged(f)[u], gone'[u])
  <2>1. CASE f[u].on
    <3>1. Aged(f)[u].val = f[u].val /\ Aged(f)[u].age = f[u].age + 1 /\ f[u].age \in Nat
      BY <2>1, TimesAssumption DEF Aged, Read
    <3> QED BY <1>2, <1>4, <2>1, <3>1, TimesAssumption DEF ReadRecent, Past
  <2>2. CASE ~ f[u].on
    BY <2>2 DEF Aged, ReadRecent
  <2> QED BY <2>1, <2>2
<1>5. GrantsAreRecent'
  BY <1>3, <1>4 DEF RInv, TypeOK, GrantsAreRecent, Tick
<1> QED BY <1>1, <1>5 DEF RInv

\* Every step keeps the invariant.
LEMMA StepRecent == RInv /\ [Next]_vars => RInv'
<1> SUFFICES ASSUME RInv, [Next]_vars PROVE RInv'
  OBVIOUS
<1>t. TypeOK'
  BY StepTypes DEF RInv
<1>r. \A u \in Users :
        /\ EntryRecent(redis[u], gone[u]) /\ ReadRecent(fetch[u], gone[u])
        /\ EntryRecent(memory[u], gone[u]) /\ ReadRecent(load[u], gone[u])
        /\ gone[u] \in Past /\ fetch[u] \in Read /\ load[u] \in Read
  BY DEF RInv, TypeOK, GrantsAreRecent, Past
<1>f. fetch \in [Users -> Read] /\ load \in [Users -> Read]
      /\ redis \in [Users -> Entry] /\ memory \in [Users -> Entry]
  BY DEF RInv, TypeOK
<1>c. ASSUME NEW u \in Users, NEW v, Check(u, v)
      PROVE \A w \in Users : ReadRecent(fetch'[w], gone[w])
  <2>1. CASE fetch' = fetch
    BY <1>r, <2>1
  <2>2. CASE fetch' = [fetch EXCEPT ![u] = [on |-> TRUE, val |-> Granted(u), age |-> 0]]
    BY <1>f, <1>r, <2>2, NowIsRecent
  <2> QED BY <1>c, <2>1, <2>2 DEF Check
<1>1. ASSUME NEW u \in Users, Filter(u) PROVE RInv'
  BY <1>1, <1>c, <1>r, <1>t, QuietStep DEF Filter, tables
<1>2. ASSUME NEW u \in Users, Store(u) PROVE RInv'
  <2>1. \A w \in Users : EntryRecent(redis'[w], gone[w])
    <3>1. EntryRecent([val |-> fetch[u].val, left |-> TTL], gone[u])
      BY <1>2, <1>r, StoredIsRecent DEF Store
    <3>2. CASE redis' = redis
      BY <1>r, <3>2
    <3>3. CASE redis' = [redis EXCEPT ![u] = [val |-> fetch[u].val, left |-> TTL]]
      BY <1>f, <1>r, <3>1, <3>3
    <3> QED BY <1>2, <3>2, <3>3 DEF Store
  <2>2. \A w \in Users : ReadRecent(fetch'[w], gone[w])
    BY <1>2, <1>f, <1>r, NothingIsRecent DEF Store
  <2> QED BY <1>2, <1>r, <1>t, <2>1, <2>2, QuietStep DEF Store, tables
<1>3. ASSUME NEW u \in Users, Invalidate(u) PROVE RInv'
  <2>1. \A w \in Users : EntryRecent(redis'[w], gone[w])
    BY <1>3, <1>f, <1>r, NothingIsRecent DEF Invalidate
  <2> QED BY <1>3, <1>r, <1>t, <2>1, QuietStep DEF Invalidate, tables
<1>4. ASSUME NEW u \in Visitors, Load(u) PROVE RInv'
  <2>1. \A w \in Users : ReadRecent(load'[w], gone[w])
    BY <1>4, <1>f, <1>r, NowIsRecent, RolesAssumption DEF Load
  <2> QED BY <1>4, <1>r, <1>t, <2>1, QuietStep DEF Load, tables
<1>5. ASSUME NEW u \in Visitors, Remember(u) PROVE RInv'
  <2>1. EntryRecent([val |-> load[u].val, left |-> TTL], gone[u])
    BY <1>5, <1>r, StoredIsRecent, RolesAssumption DEF Remember
  <2>2. \A w \in Users : EntryRecent(memory'[w], gone[w]) /\ ReadRecent(load'[w], gone[w])
    BY <1>5, <1>f, <1>r, <2>1, NothingIsRecent DEF Remember
  <2> QED BY <1>5, <1>r, <1>t, <2>2, QuietStep DEF Remember, tables
<1>6. ASSUME NEW a \in Actors, Press(a) PROVE RInv'
  BY <1>6, <1>c, <1>r, <1>t, QuietStep, RolesAssumption DEF Press, tables
<1>7. ASSUME NEW a \in Actors, Caller(a) PROVE RInv'
  BY <1>7, <1>c, <1>r, <1>t, QuietStep, RolesAssumption DEF Caller, tables
<1>8. ASSUME NEW a \in Actors, Choose(a) \/ Toggle(a) \/ Count(a) \/ Cancel(a) PROVE RInv'
  BY <1>8, <1>r, <1>t, QuietStep DEF Choose, Toggle, Count, Cancel, tables, caches
<1>9. ASSUME NEW a \in Actors, Update(a) \/ Create(a) \/ Delete(a) PROVE RInv'
  BY <1>9, <1>t, RecordStep DEF Update, Create, Delete, caches
<1>10. ASSUME NEW a \in Actors, Assign(a) PROVE RInv'
  <2>1. \A u \in Users : memory'[u] \in {memory[u], Empty}
    BY <1>10, <1>f DEF Assign
  <2> QED BY <1>10, <1>t, <2>1, RecordStep DEF Assign
<1>11. ASSUME RedisFails \/ RedisReturns \/ CheckHealth PROVE RInv'
  BY <1>11, <1>r, <1>t, QuietStep DEF RedisFails, RedisReturns, CheckHealth, tables
<1>12. ASSUME Restart PROVE RInv'
  BY <1>12, <1>t, RecordStep DEF Restart
<1>13. ASSUME Tick PROVE RInv'
  BY <1>13, <1>t, TickStep
<1>14. CASE UNCHANGED vars
  BY <1>14, <1>r, <1>t, QuietStep DEF vars
<1> QED
  BY <1>1, <1>2, <1>3, <1>4, <1>5, <1>6, <1>7, <1>8, <1>9, <1>10, <1>11, <1>12,
     <1>13, <1>14 DEF Next

\* A cache serves a permission only to users who had it within the last
\* TTL + MaxDelay, for every set of users and roles and every time to live.
THEOREM ServedIsRecent == Spec => []GrantsAreRecent
<1>1. Init => RInv
  <2> SUFFICES ASSUME Init PROVE RInv
    OBVIOUS
  <2>1. TypeOK
    BY InitTypes
  <2>2. Held
    BY <2>1, GrantedType DEF Init, Held
  <2>3. GrantsAreRecent
    BY NothingIsRecent DEF Init, GrantsAreRecent
  <2> QED BY <2>1, <2>2, <2>3 DEF RInv
<1>2. RInv => GrantsAreRecent
  BY DEF RInv
<1> QED BY <1>1, <1>2, StepRecent, PTL DEF Spec

-----------------------------------------------------------------------------
(* The dialogs hand out nothing their operators do not have *)

Low(r) == perms[r] \subseteq Ceiling
Reserved(n) == ~ BuiltinPerms[n] \subseteq Ceiling

\* Two roles do not have the same name.
NamesDiffer == \A r, s \in Rows : name[r] = name[s] /\ name[r] \in Names => r = s

\* A role beyond the ceiling is as it was at the start, and the row of a
\* builtin name whose permissions are beyond it still has the name.
HighUntouched == \A r \in Rows : Low(r) \/ (perms[r] = InitPerms[r] /\ name[r] = InitName[r])
ReservedKept == \A n \in Builtin : Reserved(n) => \E r \in Rows : name[r] = n /\ perms[r] = BuiltinPerms[n]

\* Users have the role they began with, one below the ceiling, or none.
UsersLow == \A u \in Users : role[u] \in {InitRole[u], Null} \/ Low(role[u])

\* What an operator is told, and a dialog remembers, is below the ceiling.
CachesLow == \A a \in Actors : redis[a].val \subseteq Ceiling /\ fetch[a].val \subseteq Ceiling
DialogsLow == \A a \in Actors :
  /\ dialog[a].caller \subseteq Ceiling
  /\ dialog[a].at \in {"edit", "assign", "count", "delete"} => dialog[a].row \in Rows /\ Low(dialog[a].row)

TablesLow == NamesDiffer /\ HighUntouched /\ ReservedKept /\ UsersLow

\* The inductive invariant behind NoEscalation.
EInv == TypeOK /\ TablesLow /\ CachesLow /\ DialogsLow

\* Users have what they began with, or something below the ceiling.
LEMMA GrantedLow ==
  ASSUME TypeOK, HighUntouched, UsersLow, NEW u \in Users
  PROVE Granted(u) \subseteq Ceiling \cup InitPerms[InitRole[u]]
<1>1. CASE Exists(role[u]) /\ role[u] = InitRole[u]
  BY <1>1 DEF Granted, Exists, HighUntouched, Low
<1>2. CASE Exists(role[u]) /\ role[u] # InitRole[u]
  BY <1>2, RolesAssumption DEF Granted, Exists, UsersLow, Low
<1>3. CASE ~ Exists(role[u])
  BY <1>3 DEF Granted
<1> QED BY <1>1, <1>2, <1>3

\* Operators began below the ceiling.
LEMMA ActorsLow ==
  ASSUME EInv, NEW a \in Actors PROVE Granted(a) \subseteq Ceiling
<1>1. a \in Users /\ InitPerms[InitRole[a]] \subseteq Ceiling
  BY RolesAssumption DEF Ceiling
<1> QED BY <1>1, GrantedLow DEF EInv, TablesLow

\* A read of an operator's permissions, whatever answers it.
LEMMA CheckLow ==
  ASSUME EInv, NEW u \in Users, NEW v, Check(u, v), UNCHANGED redis
  PROVE CachesLow' /\ (u \in Actors => v \subseteq Ceiling)
<1>1. CASE v = redis[u].val /\ fetch' = fetch
  BY <1>1 DEF EInv, CachesLow
<1>2. CASE v = Granted(u) /\ fetch' = [fetch EXCEPT ![u] = [on |-> TRUE, val |-> v, age |-> 0]]
  <2>1. \A a \in Actors : a = u => v \subseteq Ceiling
    BY <1>2, ActorsLow
  <2>2. fetch \in [Users -> Read] /\ Actors \subseteq Users
    BY RolesAssumption DEF EInv, TypeOK
  <2>3. \A a \in Actors : fetch'[a].val \subseteq Ceiling
    BY <1>2, <2>1, <2>2 DEF EInv, CachesLow
  <2> QED BY <2>1, <2>3 DEF EInv, CachesLow
<1> QED BY <1>1, <1>2 DEF Check

\* A step that leaves the tables alone.
LEMMA SameTables ==
  ASSUME EInv, TypeOK', UNCHANGED <<role, name, perms>>, CachesLow', DialogsLow' PROVE EInv'
  BY DEF EInv, TablesLow, NamesDiffer, HighUntouched, ReservedKept, UsersLow, Low

\* A dialog that goes on as its operator may.
LEMMA GotoLow ==
  ASSUME EInv, NEW a \in Actors, NEW d, Goto(a, d), UNCHANGED perms,
         d.caller \subseteq Ceiling,
         d.at \in {"edit", "assign", "count", "delete"} => d.row \in Rows /\ Low(d.row)
  PROVE DialogsLow'
<1>1. dialog \in [Actors -> Dialog]
  BY DEF EInv, TypeOK
<1>2. \A b \in Actors : dialog'[b] = IF b = a THEN d ELSE dialog[b]
  BY <1>1 DEF Goto
<1> QED BY <1>2 DEF EInv, DialogsLow, Low

\* A dialog that ends, while rows below the ceiling stay below it.
LEMMA GotoEnd ==
  ASSUME EInv, NEW a \in Actors, Goto(a, NoDialog), \A r \in Rows : Low(r) => Low(r)'
  PROVE DialogsLow'
<1>1. dialog \in [Actors -> Dialog]
  BY DEF EInv, TypeOK
<1>2. \A b \in Actors : dialog'[b] = IF b = a THEN NoDialog ELSE dialog[b]
  BY <1>1 DEF Goto
<1> QED BY <1>2 DEF EInv, DialogsLow, NoDialog

\* Writing a row: one that is low, or an id that is free, becomes low.
LEMMA PutLow ==
  ASSUME EInv, NEW r \in Rows, NEW n \in Names, NEW ps \in SUBSET Perms, Put(r, n, ps), UNCHANGED role,
         ps \subseteq Ceiling, Low(r) \/ name[r] = Free,
         \A s \in Rows \ {r} : name[s] # n
  PROVE TablesLow' /\ \A s \in Rows : Low(s) => Low(s)'
<1>1. \A s \in Rows : name'[s] = (IF s = r THEN n ELSE name[s])
                      /\ perms'[s] = (IF s = r THEN ps ELSE perms[s])
  BY DEF Put, EInv, TypeOK
<1>2. \A s \in Rows : Low(s) => Low(s)'
  BY <1>1 DEF Low
<1>3. NamesDiffer'
  BY <1>1 DEF EInv, TablesLow, NamesDiffer
<1>4. HighUntouched'
  BY <1>1 DEF EInv, TablesLow, HighUntouched, Low
<1>5. ReservedKept'
  <2>1. ASSUME NEW m \in Builtin, Reserved(m), NEW s \in Rows, name[s] = m, perms[s] = BuiltinPerms[m]
        PROVE s # r
    BY <2>1, RolesAssumption DEF Reserved, Low
  <2> QED BY <1>1, <2>1 DEF EInv, TablesLow, ReservedKept, Reserved
<1>6. UsersLow'
  BY <1>2, RolesAssumption DEF EInv, TypeOK, TablesLow, UsersLow
<1> QED BY <1>2, <1>3, <1>4, <1>5, <1>6 DEF TablesLow

\* A restart writes builtin permissions to rows that have them already, or
\* permissions below the ceiling.
LEMMA RestartLow ==
  ASSUME EInv, Restart PROVE TablesLow' /\ \A r \in Rows : Low(r) => Low(r)'
<1>1. PICK f \in [Builtin -> Rows] : Home(f) /\ InsertRoles(f)
  BY DEF Restart
<1>2. ASSUME NEW n \in Builtin PROVE
        /\ f[n] \in Rows /\ name'[f[n]] = n /\ perms'[f[n]] = BuiltinPerms[n]
        /\ \A m \in Builtin : f[m] = f[n] => m = n
  BY <1>1 DEF Home, InsertRoles
<1>3. ASSUME NEW r \in Rows, \A n \in Builtin : f[n] # r
      PROVE name'[r] = name[r] /\ perms'[r] = perms[r]
  BY <1>1, <1>3 DEF InsertRoles
<1>4. ASSUME NEW n \in Builtin, Reserved(n)
      PROVE name[f[n]] = n /\ perms[f[n]] = BuiltinPerms[n]
  <2>1. PICK r \in Rows : name[r] = n /\ perms[r] = BuiltinPerms[n]
    BY <1>4 DEF EInv, TablesLow, ReservedKept
  <2>2. f[n] = r
    BY <1>1, <1>2, <2>1, RolesAssumption DEF Home, EInv, TablesLow, NamesDiffer
  <2> QED BY <2>1, <2>2
<1>5. ASSUME NEW r \in Rows
      PROVE \/ perms'[r] \subseteq Ceiling
            \/ perms'[r] = perms[r] /\ name'[r] = name[r]
  <2>1. CASE \E n \in Builtin : f[n] = r
    <3>1. PICK n \in Builtin : f[n] = r
      BY <2>1
    <3> QED BY <1>2, <1>4, <3>1 DEF Reserved
  <2>2. CASE \A n \in Builtin : f[n] # r
    BY <1>3, <2>2
  <2> QED BY <2>1, <2>2
<1>6. \A r \in Rows : Low(r) => Low(r)'
  BY <1>5 DEF Low
<1>7. NamesDiffer'
  <2>1. ASSUME NEW r \in Rows, NEW n \in Builtin, name'[r] = n PROVE r = f[n]
    <3>1. CASE \E m \in Builtin : f[m] = r
      BY <1>2, <2>1, <3>1
    <3>2. CASE \A m \in Builtin : f[m] # r
      <4>1. name[r] = n
        BY <1>3, <2>1, <3>2
      <4>2. name[f[n]] = n
        BY <1>1, <4>1 DEF Home
      <4> QED BY <1>2, <4>1, <4>2, RolesAssumption DEF EInv, TablesLow, NamesDiffer
    <3> QED BY <3>1, <3>2
  <2>2. ASSUME NEW r \in Rows, NEW s \in Rows, name'[r] = name'[s], name'[r] \in Names,
               name'[r] \notin Builtin
        PROVE r = s
    BY <1>2, <1>3, <2>2 DEF EInv, TablesLow, NamesDiffer
  <2> QED BY <2>1, <2>2 DEF NamesDiffer
<1>8. HighUntouched'
  BY <1>5 DEF EInv, TablesLow, HighUntouched, Low
<1>9. ReservedKept'
  BY <1>2 DEF ReservedKept
<1>10. UsersLow'
  <2>1. role' = role
    BY DEF Restart
  <2> QED BY <1>6, <2>1 DEF EInv, TypeOK, TablesLow, UsersLow
<1> QED BY <1>6, <1>7, <1>8, <1>9, <1>10 DEF TablesLow

\* Every step keeps the invariant.
LEMMA StepLow == EInv /\ [Next]_vars => EInv'
<1> SUFFICES ASSUME EInv, [Next]_vars PROVE EInv'
  OBVIOUS
<1>t. TypeOK /\ TypeOK'
  BY StepTypes DEF EInv
<1>y. /\ redis \in [Users -> Entry] /\ fetch \in [Users -> Read]
      /\ dialog \in [Actors -> Dialog] /\ Actors \subseteq Users
  BY <1>t, RolesAssumption DEF TypeOK
<1>s. ASSUME UNCHANGED <<redis, fetch>> PROVE CachesLow'
  BY <1>s DEF EInv, CachesLow
<1>d. ASSUME UNCHANGED <<dialog, perms>> PROVE DialogsLow'
  BY <1>d DEF EInv, DialogsLow, Low
<1>k. ASSUME UNCHANGED <<name, perms>>, UsersLow' PROVE TablesLow' /\ \A r \in Rows : Low(r) => Low(r)'
  BY <1>k DEF EInv, TablesLow, NamesDiffer, HighUntouched, ReservedKept, Low
<1>1. ASSUME NEW u \in Users, Filter(u) PROVE EInv'
  <2>1. CachesLow'
    BY <1>1, CheckLow DEF Filter
  <2> QED BY <1>1, <1>d, <1>t, <2>1, SameTables DEF Filter, tables
<1>2. ASSUME NEW u \in Users, Store(u) \/ Invalidate(u) PROVE EInv'
  <2>1. \A a \in Actors : redis'[a].val \in {redis[a].val, fetch[a].val, {}}
                          /\ fetch'[a].val \in {fetch[a].val, {}}
    BY <1>2, <1>y DEF Store, Invalidate, Empty, NoRead
  <2>2. CachesLow'
    BY <2>1 DEF EInv, CachesLow
  <2> QED BY <1>2, <1>d, <1>t, <2>2, SameTables DEF Store, Invalidate, tables
<1>3. ASSUME NEW u \in Visitors, Load(u) \/ Remember(u) PROVE EInv'
  BY <1>3, <1>d, <1>s, <1>t, SameTables DEF Load, Remember, tables
<1>4. ASSUME NEW a \in Actors, Press(a) PROVE EInv'
  <2>1. CachesLow'
    BY <1>4, <1>y, CheckLow DEF Press
  <2>2. DialogsLow'
    BY <1>4, GotoLow DEF Press, At, NoDialog, tables
  <2> QED BY <1>4, <1>t, <2>1, <2>2, SameTables DEF Press, tables
<1>5. ASSUME NEW a \in Actors, Caller(a) PROVE EInv'
  <2>1. PICK v \in {redis[a].val, Granted(a)} : Check(a, v) /\
          \/ Goto(a, [At("choose") EXCEPT !.caller = v])
          \/ \E n \in Names : Goto(a, [At("create") EXCEPT !.caller = v, !.name = n])
    BY <1>5 DEF Caller
  <2>2. CachesLow' /\ v \subseteq Ceiling
    BY <1>5, <1>y, <2>1, CheckLow DEF Caller
  <2>3. DialogsLow'
    BY <1>5, <2>1, <2>2, GotoLow DEF Caller, At, NoDialog, tables
  <2> QED BY <1>5, <1>t, <2>2, <2>3, SameTables DEF Caller, tables
<1>6. ASSUME NEW a \in Actors, Choose(a) PROVE EInv'
  <2>1. dialog[a].caller \subseteq Ceiling /\ dialog[a] \in Dialog
    BY <1>y DEF EInv, DialogsLow
  <2>2. DialogsLow'
    <3>1. CASE Goto(a, NoDialog)
      BY <1>6, <3>1, GotoEnd DEF Choose, tables, Low
    <3>2. ASSUME NEW r \in Rows, Within(a, r), NEW d, Goto(a, d), d.row = r, d.caller = dialog[a].caller
          PROVE DialogsLow'
      <4>1. Low(r)
        BY <2>1, <3>2 DEF Within, Low
      <4> QED BY <1>6, <2>1, <3>2, <4>1, GotoLow DEF Choose, tables
    <3>3. PICK r \in Rows : LET d == [dialog[a] EXCEPT !.row = r] IN
            \/ Goto(a, NoDialog)
            \/ Within(a, r) /\
                 \/ \E n \in Names : Goto(a, [d EXCEPT !.at = "edit", !.name = n, !.perms = perms[r]])
                 \/ \E u \in Users : Goto(a, [d EXCEPT !.at = "assign", !.user = u])
                 \/ Goto(a, [d EXCEPT !.at = "count"])
      BY <1>6 DEF Choose
    <3>4. LET d == [dialog[a] EXCEPT !.row = r] IN
            /\ \A n \in Names : LET e == [d EXCEPT !.at = "edit", !.name = n, !.perms = perms[r]] IN
                 e.row = r /\ e.caller = dialog[a].caller
            /\ \A u \in Users : LET e == [d EXCEPT !.at = "assign", !.user = u] IN
                 e.row = r /\ e.caller = dialog[a].caller
            /\ LET e == [d EXCEPT !.at = "count"] IN e.row = r /\ e.caller = dialog[a].caller
      BY <2>1 DEF Dialog, Fields
    <3> QED BY <3>1, <3>2, <3>3, <3>4
  <2> QED BY <1>6, <1>s, <1>t, <2>2, SameTables DEF Choose, tables, caches
<1>7. ASSUME NEW a \in Actors, Toggle(a) PROVE EInv'
  <2>1. PICK ps : Goto(a, [dialog[a] EXCEPT !.perms = ps])
    BY <1>7 DEF Toggle
  <2>2. LET e == [dialog[a] EXCEPT !.perms = ps] IN
          e.caller = dialog[a].caller /\ e.at = dialog[a].at /\ e.row = dialog[a].row
    BY <1>y DEF Dialog, Fields
  <2>3. DialogsLow'
    BY <1>7, <2>1, <2>2, GotoLow DEF Toggle, tables, EInv, DialogsLow
  <2> QED BY <1>7, <1>s, <1>t, <2>3, SameTables DEF Toggle, tables, caches
<1>8. ASSUME NEW a \in Actors, Update(a) PROVE EInv'
  <2>1. dialog[a] \in Dialog /\ dialog[a].caller \subseteq Ceiling /\ dialog[a].at = "edit"
        /\ dialog[a].row \in Rows /\ Low(dialog[a].row)
    BY <1>8, <1>y DEF Update, EInv, DialogsLow
  <2>2. TablesLow' /\ \A r \in Rows : Low(r) => Low(r)'
    <3>1. CASE UNCHANGED <<name, perms>>
      BY <1>8, <1>k, <3>1 DEF Update, EInv, TablesLow, UsersLow, Low
    <3>2. CASE /\ dialog[a].perms \subseteq dialog[a].caller /\ Exists(dialog[a].row)
               /\ \A s \in Rows \ {dialog[a].row} : name[s] # dialog[a].name
               /\ Put(dialog[a].row, dialog[a].name, dialog[a].perms)
      <4>1. dialog[a].perms \in SUBSET Perms /\ dialog[a].name \in Names
        BY <2>1 DEF Dialog, Fields
      <4> QED BY <1>8, <2>1, <3>2, <4>1, PutLow DEF Update
    <3> QED BY <1>8, <3>1, <3>2 DEF Update
  <2>3. DialogsLow'
    BY <1>8, <2>2, GotoEnd DEF Update
  <2> QED BY <1>8, <1>s, <1>t, <2>2, <2>3 DEF Update, caches, EInv
<1>9. ASSUME NEW a \in Actors, Create(a) PROVE EInv'
  <2>1. dialog[a] \in Dialog /\ dialog[a].caller \subseteq Ceiling
    BY <1>y DEF EInv, DialogsLow
  <2>2. TablesLow' /\ \A r \in Rows : Low(r) => Low(r)'
    <3>1. CASE UNCHANGED <<name, perms>>
      BY <1>9, <1>k, <3>1 DEF Create, EInv, TablesLow, UsersLow, Low
    <3>2. CASE /\ dialog[a].perms \subseteq dialog[a].caller
               /\ \A s \in Rows : name[s] # dialog[a].name
               /\ \E r \in Rows : name[r] = Free /\ Put(r, dialog[a].name, dialog[a].perms)
      <4>1. dialog[a].perms \in SUBSET Perms /\ dialog[a].name \in Names
        BY <1>9, <2>1, <3>2 DEF Dialog, Fields
      <4> QED BY <1>9, <2>1, <3>2, <4>1, PutLow DEF Create
    <3> QED BY <1>9, <3>1, <3>2 DEF Create
  <2>3. DialogsLow'
    BY <1>9, <2>2, GotoEnd DEF Create
  <2> QED BY <1>9, <1>s, <1>t, <2>2, <2>3 DEF Create, caches, EInv
<1>10. ASSUME NEW a \in Actors, Assign(a) PROVE EInv'
  <2>1. dialog[a].row \in Rows /\ Low(dialog[a].row)
    BY <1>10 DEF Assign, EInv, DialogsLow
  <2>2. role \in [Users -> Rows \cup {Null}]
    BY <1>t DEF TypeOK
  <2>3. \A u \in Users : role'[u] = role[u] \/ Low(role'[u])
    BY <1>10, <2>1, <2>2 DEF Assign
  <2>4. UsersLow'
    BY <1>10, <2>3 DEF Assign, EInv, TablesLow, UsersLow, Low
  <2>5. TablesLow' /\ \A r \in Rows : Low(r) => Low(r)'
    BY <1>10, <1>k, <2>4 DEF Assign
  <2>6. DialogsLow'
    BY <1>10, <2>5, GotoEnd DEF Assign
  <2> QED BY <1>10, <1>s, <1>t, <2>5, <2>6 DEF Assign, EInv
<1>11. ASSUME NEW a \in Actors, Count(a) PROVE EInv'
  <2>1. LET e == [dialog[a] EXCEPT !.at = "delete"] IN
          e.caller = dialog[a].caller /\ e.row = dialog[a].row
    BY <1>y DEF Dialog, Fields
  <2>2. CASE Goto(a, NoDialog)
    BY <1>11, <1>s, <1>t, <2>2, GotoEnd, SameTables DEF Count, tables, caches, Low
  <2>3. CASE Goto(a, [dialog[a] EXCEPT !.at = "delete"])
    <3>1. DialogsLow'
      BY <1>11, <2>1, <2>3, GotoLow DEF Count, tables, EInv, DialogsLow
    <3> QED BY <1>11, <1>s, <1>t, <3>1, SameTables DEF Count, tables, caches
  <2> QED BY <1>11, <2>2, <2>3 DEF Count
<1>12. ASSUME NEW a \in Actors, Delete(a) PROVE EInv'
  <2> DEFINE r == dialog[a].row
  <2>1. r \in Rows /\ Low(r)
    BY <1>12 DEF Delete, EInv, DialogsLow
  <2>2. \A s \in Rows : name'[s] = (IF s = r THEN Gone ELSE name[s])
                        /\ perms'[s] = (IF s = r THEN {} ELSE perms[s])
    BY <1>12, <1>t DEF Delete, TypeOK
  <2>3. \A u \in Users : role'[u] \in {role[u], Null}
    BY <1>12 DEF Delete
  <2>4. \A s \in Rows : Low(s) => Low(s)'
    BY <2>2 DEF Low
  <2>5. NamesDiffer'
    BY <2>2, RolesAssumption DEF EInv, TablesLow, NamesDiffer
  <2>6. HighUntouched'
    BY <2>2 DEF EInv, TablesLow, HighUntouched, Low
  <2>7. ReservedKept'
    <3>1. ASSUME NEW n \in Builtin, Reserved(n), NEW s \in Rows, perms[s] = BuiltinPerms[n]
          PROVE s # r
      BY <2>1, <3>1 DEF Reserved, Low
    <3> QED BY <2>2, <3>1 DEF EInv, TablesLow, ReservedKept, Reserved
  <2>8. UsersLow'
    BY <1>t, <2>3, <2>4 DEF EInv, TypeOK, TablesLow, UsersLow
  <2>9. DialogsLow'
    BY <1>12, <2>4, GotoEnd DEF Delete
  <2> QED BY <1>12, <1>s, <1>t, <2>5, <2>6, <2>7, <2>8, <2>9 DEF Delete, caches, EInv, TablesLow
<1>13. ASSUME NEW a \in Actors, Cancel(a) PROVE EInv'
  BY <1>13, <1>s, <1>t, GotoEnd, SameTables DEF Cancel, tables, caches, Low
<1>14. ASSUME RedisFails \/ RedisReturns \/ CheckHealth PROVE EInv'
  BY <1>14, <1>d, <1>s, <1>t, SameTables DEF RedisFails, RedisReturns, CheckHealth, tables
<1>15. ASSUME Restart PROVE EInv'
  <2>1. TablesLow' /\ \A r \in Rows : Low(r) => Low(r)'
    BY <1>15, RestartLow
  <2>2. CachesLow'
    BY <1>15, <1>y DEF Restart, EInv, CachesLow, NoRead
  <2>3. \A a \in Actors : dialog'[a] \in {dialog[a], NoDialog}
    BY <1>15 DEF Restart
  <2>4. DialogsLow'
    BY <2>1, <2>3 DEF EInv, DialogsLow, NoDialog
  <2> QED BY <1>t, <2>1, <2>2, <2>4 DEF EInv
<1>16. ASSUME Tick PROVE EInv'
  <2>1. \A a \in Actors : redis'[a].val \in {redis[a].val, {}} /\ fetch'[a].val = fetch[a].val
    BY <1>16, <1>y DEF Tick, Older, Aged, Empty, Entry, Read
  <2>2. CachesLow'
    BY <2>1 DEF EInv, CachesLow
  <2> QED BY <1>16, <1>d, <1>t, <2>2, SameTables DEF Tick, tables
<1>17. CASE UNCHANGED vars
  BY <1>17, <1>d, <1>s, <1>t, SameTables DEF vars
<1> QED
  BY <1>1, <1>2, <1>3, <1>4, <1>5, <1>6, <1>7, <1>8, <1>9, <1>10, <1>11, <1>12,
     <1>13, <1>14, <1>15, <1>16, <1>17 DEF Next

\* Nobody gains a permission beyond what the operators of the dialogs began
\* with and what a restart gives back to builtin roles the owner had edited,
\* whatever they rename, edit, assign and delete and whenever the bot restarts.
THEOREM NobodyEscalates == Spec => []NoEscalation
<1>1. Init => EInv
  <2> SUFFICES ASSUME Init PROVE EInv
    OBVIOUS
  <2>1. TypeOK
    BY InitTypes
  <2>2. ReservedKept
    <3>1. ASSUME NEW n \in Builtin, Reserved(n)
          PROVE \E r \in Rows : InitName[r] = n /\ InitPerms[r] = BuiltinPerms[n]
      <4>1. n \notin Edited
        BY <3>1 DEF Reserved, Ceiling
      <4> QED BY <4>1 DEF Edited
    <3> QED BY <3>1 DEF Init, ReservedKept
  <2>4. TablesLow
    BY <2>2, InitAssumption, RolesAssumption
    DEF Init, TablesLow, NamesDiffer, HighUntouched, UsersLow
  <2>3. CachesLow /\ DialogsLow
    BY RolesAssumption DEF Init, CachesLow, DialogsLow, Empty, NoRead, NoDialog
  <2> QED BY <2>1, <2>3, <2>4 DEF EInv
<1>2. EInv => NoEscalation
  BY GrantedLow DEF EInv, TablesLow, NoEscalation
<1> QED BY <1>1, <1>2, StepLow, PTL DEF Spec
=============================================================================
