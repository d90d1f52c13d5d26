------------------------------- MODULE Orders -------------------------------
(***************************************************************************)
(* The life of a TipzyOrder: the user pays from the balance, the bot sends *)
(* the order to TipzySMM, and a per-order watcher, the background          *)
(* OrderReconciler, the admin API and an operator's script all bring the   *)
(* row to the status TipzySMM reports and refund it when it failed.        *)
(*                                                                         *)
(* The database is PostgreSQL at READ COMMITTED.  A transaction that takes *)
(* every row it touches with FOR UPDATE and calls nothing outside while it *)
(* holds them is one step.  One that reads without a lock is a step per    *)
(* SELECT and a step for the COMMIT, which writes the values computed from *)
(* what was read and has to wait for a row another transaction locked.     *)
(* Only the reconciler keeps locks over several steps.                     *)
(***************************************************************************)
EXTENDS Integers, FiniteSets

CONSTANTS
  Users,       \* Telegram users
  Orders,      \* rows of tipzy_orders the model has room for
  Batch,       \* the orders one confirmation of a mass order creates
  Requests,    \* requests of the admin API, each served once
  Owner,       \* Owner[o]: the user who places o
  Price,       \* price_paid of every order
  InitBalance, \* users.balance at the start
  MaxPolls,    \* polls of a watcher (20 in the code)
  MaxFaults,   \* bound: crashes and failing calls of a behaviour
  MaxScripts   \* bound: runs of scripts/reconcile_orders.py

ASSUME OwnerAssumption == Owner \in [Orders -> Users]
ASSUME BatchAssumption ==
  /\ Orders \subseteq Nat /\ Orders # {} /\ IsFiniteSet(Orders)
  /\ Batch \subseteq Orders
  /\ \A o, p \in Batch : Owner[o] = Owner[p]
ASSUME RequestsAssumption == Requests \cap Orders = {}
ASSUME BoundsAssumption ==
  /\ Price \in Nat \ {0} /\ InitBalance \in Nat
  /\ MaxPolls \in Nat /\ MaxFaults \in Nat /\ MaxScripts \in Nat

VARIABLES
  balance,  \* users.balance
  order,    \* tipzy_orders: the columns that steer the code
  remote,   \* what TipzySMM says of the order whose id the bot was given
  pc,       \* where the handler or watcher of an order, or a request, is
  target,   \* the order a request of the admin API names
  snap,     \* the order row a session read
  bal,      \* the balance a session read
  seen,     \* the status a session was told by TipzySMM
  polls,    \* polls the watcher of an order has made
  rec,      \* the reconciler: its row locks and what it will write
  script,   \* scripts/reconcile_orders.py: what it read and will write
  faults, scripts, \* counters of the two bounds
  credits,     \* history: how often a refund of an order was written
  overwritten, \* history: money of a user that refunds computed from an
               \* older balance wrote over
  scripted     \* history: the rows the script marked failed

db    == <<balance, order, credits, overwritten>>
local == <<target, snap, bal, seen, polls>>
loops == <<rec, script, scripts, scripted>>
vars  == <<balance, order, credits, overwritten, remote, pc, target, snap,
           bal, seen, polls, rec, script, scripts, scripted, faults>>

Sessions == Orders \cup Requests
Active   == {"pending", "in_progress"}   \* "processing" is never written
Settled  == {"completed", "failed", "refunded"}
NoRow    == [status |-> "none", tid |-> "null", refunded |-> FALSE]
Idle     == [on |-> FALSE, rows |-> {}, todo |-> {}, users |-> {},
             bal |-> [u \in Users |-> 0],
             set |-> [o \in Orders |-> "keep"]]
Asleep   == [on |-> FALSE, todo |-> {}, set |-> [o \in Orders |-> "keep"]]

Init ==
  /\ balance = [u \in Users |-> InitBalance]
  /\ order = [o \in Orders |-> NoRow]
  /\ credits = [o \in Orders |-> 0]
  /\ overwritten = [u \in Users |-> 0]
  /\ remote = [o \in Orders |-> "none"]
  /\ pc = [x \in Sessions |-> "idle"]
  /\ target = [r \in Requests |-> CHOOSE o \in Orders : TRUE]
  /\ snap = [x \in Sessions |-> NoRow]
  /\ bal = [x \in Sessions |-> 0]
  /\ seen = [x \in Sessions |-> "none"]
  /\ polls = [o \in Orders |-> 0]
  /\ rec = Idle /\ script = Asleep
  /\ faults = 0 /\ scripts = 0 /\ scripted = {}

-----------------------------------------------------------------------------
At(x)  == IF x \in Orders THEN x ELSE target[x]
Goto(x, where) == pc' = [pc EXCEPT ![x] = where]
Go(x, from, to) == pc[x] = from /\ Goto(x, to)
Fault == faults < MaxFaults /\ faults' = faults + 1

\* Mutant of OrderFree: the reconciler selects its rows without FOR UPDATE.
OrderNeverLocked(o) == o \in Orders

\* The rows the reconciler's transaction has locked: writers wait for them.
OrderFree(o) == ~ rec.on \/ o \notin rec.rows
UserFree(u)  == u \notin rec.users

\* SELECT without a lock: the session keeps what it saw.
ReadOrder(x) == snap' = [snap EXCEPT ![x] = order[At(x)]]
ReadUser(x)  == bal' = [bal EXCEPT ![x] = balance[Owner[At(x)]]]
AskTipzy(x)  == seen' = [seen EXCEPT ![x] = remote[At(x)]]

\* The unit of work writes a column only when the session changed it.
Column(x, s) == IF snap[x].status = s THEN order[At(x)].status ELSE s

\* user.balance = float(user.balance) + price_paid, computed from the read:
\* what was added to the balance since the read is lost.
PayBack(x) ==
  LET u == Owner[At(x)]
      lost == IF balance[u] > bal[x] THEN balance[u] - bal[x] ELSE 0 IN
  /\ UserFree(u)
  /\ balance' = [balance EXCEPT ![u] = bal[x] + Price]
  /\ overwritten' = [overwritten EXCEPT ![u] = @ + lost]
  /\ credits' = [credits EXCEPT ![At(x)] = @ + 1]

-----------------------------------------------------------------------------
(* The handler of a confirmed order. *)

\* Mutant of Confirm: the form is neither cleared nor its total compared with
\* the balance, so further clicks debit again.
ConfirmAgain(o) ==
  /\ o \notin Batch /\ UserFree(Owner[o])
  /\ pc[o] \in {"idle", "send"} /\ Goto(o, "send")
  /\ balance' = [balance EXCEPT ![Owner[o]] = @ - Price]
  /\ order' = [order EXCEPT ![o].status = "pending"]
  /\ UNCHANGED <<credits, overwritten, remote, local, loops, faults>>

\* cb_confirm_order: the user row is locked, so check, debit and insert are
\* one step.
Confirm(o) ==
  /\ o \notin Batch
  /\ UserFree(Owner[o]) /\ balance[Owner[o]] >= Price
  /\ Go(o, "idle", "send")
  /\ balance' = [balance EXCEPT ![Owner[o]] = @ - Price]
  /\ order' = [order EXCEPT ![o].status = "pending"]
  /\ UNCHANGED <<credits, overwritten, remote, local, loops, faults>>

\* cb_confirm_mass: one debit for all the links, one row per link.
ConfirmMass ==
  LET total == Price * Cardinality(Batch) IN
  /\ Batch # {} /\ \A o \in Batch : pc[o] = "idle"
  /\ pc' = [x \in Sessions |-> IF x \in Batch THEN "send" ELSE pc[x]]
  /\ \E u \in {Owner[o] : o \in Batch} :
       /\ UserFree(u) /\ balance[u] >= total
       /\ balance' = [balance EXCEPT ![u] = @ - total]
  /\ order' = [o \in Orders |-> IF o \in Batch
                 THEN [order[o] EXCEPT !.status = "pending"] ELSE order[o]]
  /\ UNCHANGED <<credits, overwritten, remote, local, loops, faults>>

\* The mass handler sends its orders one after the other.
InHandler == {"send", "record", "back.user", "back.commit"}
Turn(o) == \A p \in Batch : o \in Batch /\ p < o => pc[p] \notin InHandler

\* tipzy_create_order answered, with an order id (seen is then "active") or
\* without one, which the handler saves as the string "None".
Send(o) ==
  /\ Turn(o) /\ Go(o, "send", "record")
  /\ \/ /\ seen' = [seen EXCEPT ![o] = "active"]
        /\ remote' = [remote EXCEPT ![o] = "active"]
        /\ UNCHANGED faults
     \/ Fault /\ UNCHANGED <<seen, remote>>
  /\ UNCHANGED <<db, target, snap, bal, polls, loops>>

\* Three attempts failed, each of which may have placed an order TipzySMM
\* knows and the bot has no id of, or the id could not be saved.  The mass
\* handler marks its row failed in a transaction of its own.
SendFails(o) ==
  /\ Turn(o) /\ pc[o] \in {"send", "record"} /\ Fault
  /\ \/ o \notin Batch /\ Goto(o, "fail.user") /\ UNCHANGED order
     \/ /\ o \in Batch /\ OrderFree(o) /\ Goto(o, "back.user")
        /\ order' = [order EXCEPT ![o].status = "failed"]
  /\ UNCHANGED <<balance, credits, overwritten, remote, local, loops>>

Record(o) ==
  /\ OrderFree(o)
  /\ Go(o, "record", IF o \in Batch THEN "poll" ELSE "answer")
  /\ order' = [order EXCEPT ![o].status = "in_progress",
                            ![o].tid = IF seen[o] = "none" THEN "None" ELSE "id"]
  /\ UNCHANGED <<balance, credits, overwritten, remote, local, loops, faults>>

\* The message to the user, after which the watcher is started; when the
\* message cannot be delivered the handler takes its failure path.
Answer(o) ==
  /\ \/ Go(o, "answer", "poll") /\ UNCHANGED faults
     \/ Go(o, "answer", "fail.user") /\ Fault
  /\ UNCHANGED <<db, remote, local, loops>>

\* except: read the user, read the order, pay back and mark it failed.  The
\* refunded column is not touched.
FailUser(o) ==
  /\ Go(o, "fail.user", "fail.order") /\ ReadUser(o)
  /\ UNCHANGED <<db, remote, target, snap, seen, polls, loops, faults>>

FailOrder(o) ==
  /\ Go(o, "fail.order", "fail.commit") /\ ReadOrder(o)
  /\ UNCHANGED <<db, remote, target, bal, seen, polls, loops, faults>>

\* Mutant of FailCommit: the row is marked failed, the money is not paid back.
FailCommitUnpaid(o) ==
  /\ OrderFree(o) /\ Go(o, "fail.commit", "done")
  /\ order' = [order EXCEPT ![o].status = "failed"]
  /\ UNCHANGED <<balance, credits, overwritten, remote, local, loops, faults>>

FailCommit(o) ==
  /\ OrderFree(o) /\ Go(o, "fail.commit", "done") /\ PayBack(o)
  /\ order' = [order EXCEPT ![o].status = Column(o, "failed")]
  /\ UNCHANGED <<remote, local, loops, faults>>

\* The mass handler pays back in a second transaction.
BackUser(o) ==
  /\ Go(o, "back.user", "back.commit") /\ ReadUser(o)
  /\ UNCHANGED <<db, remote, target, snap, seen, polls, loops, faults>>

BackCommit(o) ==
  /\ Go(o, "back.commit", "done") /\ PayBack(o)
  /\ UNCHANGED <<order, remote, local, loops, faults>>

-----------------------------------------------------------------------------
(* _watch_tipzy_status *)

\* Mutant of Poll: the watcher polls for ever.
PollForever(o) ==
  /\ Go(o, "poll", "watch.order") /\ AskTipzy(o)
  /\ polls' = [polls EXCEPT ![o] = @ + 1]
  /\ UNCHANGED <<db, remote, target, snap, bal, loops, faults>>

\* A poll: after MaxPolls of them, or without an id, the watcher ends.
Poll(o) ==
  /\ pc[o] = "poll"
  /\ IF polls[o] = MaxPolls \/ seen[o] = "none"
       THEN Goto(o, "done") /\ UNCHANGED <<seen, polls>>
       ELSE /\ polls' = [polls EXCEPT ![o] = @ + 1]
            /\ AskTipzy(o) /\ Goto(o, "watch.order")
  /\ UNCHANGED <<db, remote, target, snap, bal, loops, faults>>

WatchOrder(o) ==
  /\ Go(o, "watch.order",
        IF seen[o] = "fail" /\ ~ order[o].refunded
          THEN "watch.user" ELSE "watch.commit")
  /\ ReadOrder(o)
  /\ UNCHANGED <<db, remote, target, bal, seen, polls, loops, faults>>

WatchUser(o) ==
  /\ Go(o, "watch.user", "watch.commit") /\ ReadUser(o)
  /\ UNCHANGED <<db, remote, target, snap, seen, polls, loops, faults>>

\* What a watcher and a refresh write for the status they were told.
Apply(x) ==
  LET o == At(x) IN
  /\ OrderFree(o)
  /\ \/ /\ seen[x] = "fail" /\ ~ snap[x].refunded /\ PayBack(x)
        /\ order' = [order EXCEPT ![o].status = Column(x, "failed"),
                                  ![o].refunded = TRUE]
     \/ /\ seen[x] = "fail" /\ snap[x].refunded
        /\ order' = [order EXCEPT ![o].status = Column(x, "failed")]
        /\ UNCHANGED <<balance, credits, overwritten>>
     \/ /\ seen[x] = "done"
        /\ order' = [order EXCEPT ![o].status = Column(x, "completed")]
        /\ UNCHANGED <<balance, credits, overwritten>>
     \/ seen[x] = "active" /\ UNCHANGED db

WatchCommit(o) ==
  /\ Go(o, "watch.commit", IF seen[o] = "active" THEN "poll" ELSE "done")
  /\ Apply(o)
  /\ UNCHANGED <<remote, local, loops, faults>>

\* An exception of the poll or of its transaction (a deadlock victim): the
\* watcher logs it and polls again.
WatchFails(o) ==
  /\ pc[o] \in {"watch.order", "watch.user", "watch.commit"} /\ Fault
  /\ Goto(o, "poll")
  /\ UNCHANGED <<db, remote, local, loops>>

-----------------------------------------------------------------------------
(* The admin API *)

\* refund_order: refuses a row that is marked refunded.
RefundOrder(r) ==
  /\ \E o \in Orders :
       /\ order[o].status \notin {"none", "refunded"} /\ ~ order[o].refunded
       /\ target' = [target EXCEPT ![r] = o]
       /\ snap' = [snap EXCEPT ![r] = order[o]]
  /\ Go(r, "idle", "refund.user")
  /\ UNCHANGED <<db, remote, bal, seen, polls, loops, faults>>

RefundUser(r) ==
  /\ Go(r, "refund.user", "refund.commit") /\ ReadUser(r)
  /\ UNCHANGED <<db, remote, target, snap, seen, polls, loops, faults>>

RefundCommit(r) ==
  /\ OrderFree(target[r])
  /\ Go(r, "refund.commit", "done") /\ PayBack(r)
  /\ order' = [order EXCEPT ![target[r]].status = "refunded",
                            ![target[r]].refunded = TRUE]
  /\ UNCHANGED <<remote, local, loops, faults>>

\* refresh_order: reads the row, then asks TipzySMM, then writes.
RefreshOrder(r) ==
  /\ \E o \in Orders :
       /\ order[o].tid = "id"
       /\ target' = [target EXCEPT ![r] = o]
       /\ snap' = [snap EXCEPT ![r] = order[o]]
  /\ Go(r, "idle", "refresh.ask")
  /\ UNCHANGED <<db, remote, bal, seen, polls, loops, faults>>

RefreshAsk(r) ==
  /\ Go(r, "refresh.ask",
        IF remote[target[r]] = "fail" /\ ~ snap[r].refunded
          THEN "refresh.user" ELSE "refresh.commit")
  /\ AskTipzy(r)
  /\ UNCHANGED <<db, remote, target, snap, bal, polls, loops, faults>>

RefreshUser(r) ==
  /\ Go(r, "refresh.user", "refresh.commit") /\ ReadUser(r)
  /\ UNCHANGED <<db, remote, target, snap, seen, polls, loops, faults>>

RefreshCommit(r) ==
  /\ Go(r, "refresh.commit", "done") /\ Apply(r)
  /\ UNCHANGED <<remote, local, loops, faults>>

-----------------------------------------------------------------------------
(* OrderReconciler.reconcile_once: one transaction, committed at the end. *)

\* Mutant of RecBegin: only rows that were never sent are selected.
RecBeginPending ==
  LET rows == {o \in Orders : order[o].status = "pending" /\ ~ order[o].refunded}
  IN
  /\ ~ rec.on /\ rows # {}
  /\ rec' = [Idle EXCEPT !.on = TRUE, !.rows = rows, !.todo = rows]
  /\ UNCHANGED <<db, remote, pc, local, script, scripts, scripted, faults>>

RecBegin ==
  LET rows == {o \in Orders : order[o].status \in Active /\ ~ order[o].refunded}
  IN
  /\ ~ rec.on /\ rows # {}
  /\ rec' = [Idle EXCEPT !.on = TRUE, !.rows = rows, !.todo = rows]
  /\ UNCHANGED <<db, remote, pc, local, script, scripts, scripted, faults>>

\* The verdict on one row; a row without a usable id, and one whose status
\* cannot be fetched, is passed over.
RecSkip(o) ==
  /\ o \in rec.todo
  /\ order[o].tid # "id" \/ remote[o] = "active"
  /\ rec' = [rec EXCEPT !.todo = @ \ {o}]
  /\ UNCHANGED <<db, remote, pc, local, script, scripts, scripted, faults>>

RecFetchFails(o) ==
  /\ o \in rec.todo /\ order[o].tid = "id" /\ Fault
  /\ rec' = [rec EXCEPT !.todo = @ \ {o}]
  /\ UNCHANGED <<db, remote, pc, local, script, scripts, scripted>>

\* Mutant of RecDone: every status but a failure counts as delivered.
RecDoneEager(o) ==
  /\ o \in rec.todo /\ order[o].tid = "id" /\ remote[o] # "fail"
  /\ rec' = [rec EXCEPT !.todo = @ \ {o}, !.set[o] = "completed"]
  /\ UNCHANGED <<db, remote, pc, local, script, scripts, scripted, faults>>

RecDone(o) ==
  /\ o \in rec.todo /\ order[o].tid = "id" /\ remote[o] = "done"
  /\ rec' = [rec EXCEPT !.todo = @ \ {o}, !.set[o] = "completed"]
  /\ UNCHANGED <<db, remote, pc, local, script, scripts, scripted, faults>>

\* _refund: locks the user; a second order of a user this transaction has
\* locked adds to the balance it already computed.
RecRefund(o) ==
  LET u == Owner[o] IN
  /\ o \in rec.todo /\ order[o].tid = "id" /\ remote[o] = "fail"
  /\ rec' = [rec EXCEPT
        !.todo = @ \ {o}, !.set[o] = "failed", !.users = @ \cup {u},
        !.bal[u] = (IF u \in rec.users THEN @ ELSE balance[u]) + Price]
  /\ UNCHANGED <<db, remote, pc, local, script, scripts, scripted, faults>>

RecCommit ==
  /\ rec.on /\ rec.todo = {}
  /\ order' = [o \in Orders |-> CASE rec.set[o] = "keep" -> order[o]
        [] rec.set[o] = "completed" -> [order[o] EXCEPT !.status = "completed"]
        [] rec.set[o] = "failed" ->
             [order[o] EXCEPT !.status = "failed", !.refunded = TRUE]]
  /\ balance' = [u \in Users |->
                   IF u \in rec.users THEN rec.bal[u] ELSE balance[u]]
  /\ credits' = [o \in Orders |->
                   IF rec.set[o] = "failed" THEN credits[o] + 1 ELSE credits[o]]
  /\ rec' = Idle
  /\ UNCHANGED <<overwritten, remote, pc, local, script, scripts, scripted, faults>>

\* A database error (a deadlock victim) rolls the whole cycle back.
RecAbort ==
  /\ rec.on /\ Fault /\ rec' = Idle
  /\ UNCHANGED <<db, remote, pc, local, script, scripts, scripted>>

-----------------------------------------------------------------------------
(* scripts/reconcile_orders.py: no lock, no refund, one commit at the end. *)

ScriptBegin ==
  /\ ~ script.on /\ scripts < MaxScripts
  /\ scripts' = scripts + 1
  /\ script' = [Asleep EXCEPT !.on = TRUE, !.todo =
       {o \in Orders : order[o].status \in Active /\ order[o].tid = "id"}]
  /\ UNCHANGED <<db, remote, pc, local, rec, scripted, faults>>

ScriptAsk(o) ==
  /\ o \in script.todo
  /\ script' = [script EXCEPT !.todo = @ \ {o},
        !.set[o] = CASE remote[o] = "done" -> "completed"
                     [] remote[o] = "fail" -> "failed"
                     [] OTHER -> "keep"]
  /\ UNCHANGED <<db, remote, pc, local, rec, scripts, scripted, faults>>

ScriptCommit ==
  /\ script.on /\ script.todo = {}
  /\ \A o \in Orders : script.set[o] # "keep" => OrderFree(o)
  /\ order' = [o \in Orders |-> IF script.set[o] = "keep" THEN order[o]
                 ELSE [order[o] EXCEPT !.status = script.set[o]]]
  /\ scripted' = scripted \cup {o \in Orders : script.set[o] = "failed"}
  /\ script' = Asleep
  /\ UNCHANGED <<balance, credits, overwritten, remote, pc, local, rec, scripts, faults>>

-----------------------------------------------------------------------------
\* TipzySMM settles an order it has accepted.
RemoteSettles(o) ==
  /\ remote[o] = "active"
  /\ \E s \in {"done", "fail"} : remote' = [remote EXCEPT ![o] = s]
  /\ UNCHANGED <<db, pc, local, loops, faults>>

\* The bot process dies: its handlers, watchers, requests and reconciler are
\* gone, open transactions are rolled back.
Crash ==
  /\ Fault
  /\ pc' = [x \in Sessions |-> IF pc[x] \in {"idle", "done"} THEN pc[x] ELSE "dead"]
  /\ rec' = Idle
  /\ UNCHANGED <<db, remote, local, script, scripts, scripted>>

\* One handler dies of an exception nothing catches (a message that cannot
\* be edited after the debit, a database error of its failure path).
HandlerDies(o) ==
  /\ pc[o] \in {"send", "fail.user", "fail.order", "fail.commit",
                "back.user", "back.commit"}
  /\ Turn(o) /\ Fault
  /\ pc' = [x \in Sessions |->
              IF x = o \/ (o \in Batch /\ x \in Batch /\ pc[x] = "send")
                THEN "dead" ELSE pc[x]]
  /\ UNCHANGED <<db, remote, local, loops>>

Handler(o) ==
  \/ Confirm(o) \/ Send(o) \/ SendFails(o) \/ Record(o) \/ Answer(o)
  \/ FailUser(o) \/ FailOrder(o) \/ FailCommit(o)
  \/ BackUser(o) \/ BackCommit(o) \/ HandlerDies(o)
Watcher(o) ==
  Poll(o) \/ WatchOrder(o) \/ WatchUser(o) \/ WatchCommit(o) \/ WatchFails(o)
Admin(r) ==
  \/ RefundOrder(r) \/ RefundUser(r) \/ RefundCommit(r)
  \/ RefreshOrder(r) \/ RefreshAsk(r) \/ RefreshUser(r) \/ RefreshCommit(r)
RecRow(o) == RecSkip(o) \/ RecDone(o) \/ RecRefund(o)
Reconciler == RecBegin \/ RecCommit \/ \E o \in Orders : RecRow(o)
Script == ScriptBegin \/ ScriptCommit \/ \E o \in Orders : ScriptAsk(o)

Next ==
  \/ \E o \in Orders : Handler(o) \/ Watcher(o) \/ RemoteSettles(o)
  \/ \E o \in Orders : RecFetchFails(o)
  \/ \E r \in Requests : Admin(r)
  \/ ConfirmMass \/ Reconciler \/ RecAbort \/ Script \/ Crash

Spec == Init /\ [][Next]_vars

\* The reconciler is a loop of the bot's lifetime, restarted with the bot,
\* and TipzySMM settles what it accepted.  Nothing else has to happen: a
\* watcher or a handler may be gone after a crash.
Fairness ==
  /\ WF_vars(RecBegin) /\ WF_vars(RecCommit)
  /\ \A o \in Orders : WF_vars(RecRow(o)) /\ WF_vars(RemoteSettles(o))
FairSpec == Spec /\ Fairness
-----------------------------------------------------------------------------
(* Properties *)

Statuses == {"none"} \cup Active \cup Settled
Row == [status : Statuses, tid : {"null", "None", "id"}, refunded : BOOLEAN]
Seen == {"none", "active", "done", "fail"}
Places == {"idle", "send", "record", "answer", "fail.user", "fail.order",
           "fail.commit", "back.user", "back.commit", "poll", "watch.order",
           "watch.user", "watch.commit", "refund.user", "refund.commit",
           "refresh.ask", "refresh.user", "refresh.commit", "done", "dead"}

TablesOK ==
  /\ balance \in [Users -> Int]
  /\ order \in [Orders -> Row]
  /\ credits \in [Orders -> Nat]
  /\ overwritten \in [Users -> Nat]
  /\ remote \in [Orders -> Seen]

SessionsOK ==
  /\ pc \in [Sessions -> Places]
  /\ target \in [Requests -> Orders]
  /\ snap \in [Sessions -> Row]
  /\ bal \in [Sessions -> Int]
  /\ seen \in [Sessions -> Seen]
  /\ polls \in [Orders -> 0..MaxPolls]

Outcomes == [Orders -> {"keep", "completed", "failed"}]
LoopsOK ==
  /\ rec \in [on : BOOLEAN, rows : SUBSET Orders, todo : SUBSET Orders,
              users : SUBSET Users, bal : [Users -> Int], set : Outcomes]
  /\ script \in [on : BOOLEAN, todo : SUBSET Orders, set : Outcomes]
  /\ faults \in 0..MaxFaults /\ scripts \in 0..MaxScripts
  /\ scripted \subseteq Orders

\* Type invariant of the tables, the sessions and the two batch jobs.
TypeOK == TablesOK /\ SessionsOK /\ LoopsOK

\* No interleaving of debits, refunds and stale writes drives a balance
\* below zero: the debit of cb_confirm_order and cb_confirm_mass is checked
\* under the user's lock, and a stale write still adds to a balance that
\* was not negative.
BalanceNonNegative == \A u \in Users : balance[u] >= 0

\* The orders whose price the bot may have: those that did not fail, those
\* the script marked failed, and those of a mass handler that marks the row
\* first and pays back in a second transaction, or died before it.
MayKeep(o) ==
  \/ order[o].status \notin {"none", "failed", "refunded"} /\ ~ order[o].refunded
  \/ o \in scripted
  \/ o \in Batch /\ order[o].tid = "null" /\ pc[o] \in {"back.user", "back.commit", "dead"}
Kept(u) == {o \in Orders : Owner[o] = u /\ order[o].status # "none" /\ MayKeep(o)}

\* Money of a failed order is back in the balance, whoever wrote the row and
\* however stale what he read was: a balance is what the user had less the
\* prices of the orders the bot may keep.  The one other way to lose money is
\* a refund computed from a balance read before another refund of that user.
FailedMoneyReturns ==
  \A u \in Users :
    balance[u] + overwritten[u] >= InitBalance - Price * Cardinality(Kept(u))

\* The reconciler never pays back a row that is already marked refunded, and
\* marks every row it pays back in the same commit: its decision, taken when
\* the cycle began, is still valid at the commit because the rows are locked.
ReconcilerRefundsOnce ==
  [][rec.on /\ ~ rec'.on => \A o \in Orders : credits'[o] # credits[o] =>
        /\ ~ order[o].refunded /\ order'[o].refunded
        /\ credits'[o] = credits[o] + 1]_vars

\* An order says "completed" only when TipzySMM delivered it, whatever stale
\* statuses watcher, reconciler, script and refresh write over each other.
CompletedIsDelivered ==
  \A o \in Orders : order[o].status = "completed" => remote[o] = "done"

\* An order TipzySMM accepted, whose id was saved and that nobody refunded,
\* leaves the active statuses although its watcher may be gone.
AcceptedOrdersSettle ==
  \A o \in Orders :
    order[o].status \in Active /\ order[o].tid = "id" ~>
      order[o].status \in Settled \/ order[o].refunded

(* What the repository says and the code does not do. *)

\* shop_and_goods.py:267 "Refund on failure, exactly once".
RefundExactlyOnce == \A o \in Orders : credits[o] <= 1

=============================================================================
