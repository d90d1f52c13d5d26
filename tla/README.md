# SMM Shop Bot in TLA+

A Telegram shop in Python: one process runs the aiogram bot, background loops and
the web application (`bot/main.py:117-165`), next to PostgreSQL, an optional Redis,
and three external services: TipzySMM (places SMM orders), Platega and CryptoPay
(take payments). This directory holds a TLA+ model of the parts of it that move
money and goods or hand out permissions, the TLC configurations that check it, and TLAPS proofs.

Paths below are relative to the repository.

## 1 Inventory

### Parts, their state, and what makes them correct

| part | state | operations | hard because | correct when |
| --- | --- | --- | --- | --- |
| TipzySMM orders (`handlers/user/shop_and_goods.py`, `misc/services/order_reconciler.py`, refund and refresh in `web/api_admin.py`, `scripts/reconcile_orders.py`) | `tipzy_orders`, `users.balance`, one task per handler and per watcher, the transaction of the reconciler | confirm, mass confirm, place, poll, refund, refresh, reconcile | five writers of one row, most without a lock; two external calls between reads and writes; crashes | failed orders are paid back, once; completed means delivered; balances stay non-negative; accepted orders settle |
| Purchases, carts, promo codes (`database/methods/transactions.py`, `create.py`, `update.py`, `delete.py`, `handlers/user/profile.py`) | `users`, `goods`, `item_values`, `promo_codes`, `promo_code_usages`, `cart_items`, `bought_goods`, row locks | buy, checkout, redeem, code from the profile, add to cart, change a balance, administer | statement-by-statement interleaving under READ COMMITTED, absolute balance writes, deadlocks | a purchase is atomic, paid in full, sells a row once, counts each code |
| Deposits (`web/platega.py`, `handlers/user/balance_and_payment.py`, `misc/services/recovery.py`, `process_payment_with_referral`, balance adjustment in `web/api_admin.py`) | `payments`, `users.balance`, `referral_earnings`, the invoice at the gateway | create invoice, webhook, check, recovery, adjust | repeated webhooks, unlocked reads across calls of the gateway, crash between paying and marking | what was paid is credited, once, and nothing else is |
| Invite rewards (`misc/invite_rewards.py`, `handlers/user/invite_rewards.py`, approvals in `web/api_admin.py`) | `referral_invites`, `referral_rewards` | record, verify, approve, reject, grant, claim | check-then-insert, counts in unlocked queries, deliver then mark | rewards are earned, delivered, delivered once |
| Roles and permissions (`filters/main.py`, role dialogs, `insert_roles`) | `roles`, `users.role_id`, two caches, dialog data | check, assign, create, update, delete role | two caches with different lives; dialogs with old permissions | nobody keeps or gains a permission for longer than a cache lives |
| Cache (`misc/caching/*`) | Redis entries, `_healthy` | read-through, invalidate, health check | computation against invalidation, dropped invalidations | an entry is not older than its time to live |
| Middleware (`middleware/*`) | windows of requests, bans, blocked users in the table and in memory, maintenance flag | admit or refuse an update, block, unblock, load at the start | awaits between checks; a table and a copy of it; overlapping calls | hardly anything passes a ban, and it ends; memory follows the table |
| Catalogue administration (`handlers/admin/*_states.py` of goods, positions, categories and promo codes, the same tables in `web/api_admin.py`) | `categories`, `goods`, `item_values`, `promo_codes`, cached names, FSM state and data of every administrator | every dialog, from its menu to its last transaction; create, rename, delete by API | data of one dialog is there in the next; handlers of several transactions that others cut through; foreign keys | nothing refers to what is gone; bindings are the chosen ones; endless and finite stock do not mix |
| Lists (`misc/lazy_paginator.py`, `database/methods/lazy_queries.py` and the handlers of ten lists) | the messages that show a list, the totals and names in the FSM data | open, turn a page, show a row, go back, delete | number and rows are queried apart; totals of different subjects share a key; old messages keep their buttons | paging shows every row; no page is empty |
| Broadcasts (`misc/services/broadcast_system.py`, `handlers/admin/broadcast.py`, `web/api_admin.py`) | recipients left, tries, statistics, cancelled, the manager made last, FSM state | send, retry, cancel | cancellation at every moment; a second broadcast while the first runs | everyone is counted once; cancelling stops it; it ends |
| Circuit breaker, retries (`misc/services/payment.py`, `utils/retry.py`) | failure count, state, time | call, succeed, fail | little: see 6 | opens after the threshold |
| User administration, panels, exports, metrics, texts, keyboards, validators, migrations | single rows | single queries and updates | little | - |

### How they interact

All money is the one column `users.balance`. The transactions of the shop and the
reconciler change it under the user's row lock; the watcher of an order, the
refund and refresh of the admin API, the webhook and the manual adjustment read it
without a lock and write an absolute value. `Orders` and `Deposits` each model
their writers together with the ones they race with; `Transactions` models the
locking ones among themselves. Caches are invalidated by tasks started after a
commit and hold no money. Every in-memory state ends with the process; loops are
started again with it.

### What is hard to test

`PROJECT.json` lists the hazards with their lines and the properties aimed at them.

## 2 Modules

| module | models | level of detail |
| --- | --- | --- |
| `Orders`, `MCOrders` | orders placed at TipzySMM, all five writers, crashes | one step per SELECT, call and COMMIT |
| `Transactions` | the locking transactions of the shop | one step per locking statement; row locks, waiting, deadlock victims, rollback, crash |
| `Shop` | what the shop promises: a purchase happens at one moment | abstract |
| `TransactionsShop`, `MCTransactions` | refinement of `Shop` by `Transactions`; instances | |
| `Deposits`, `MCDeposits` | webhook, check, adjustment, recovery, gateways, crashes | one step per SELECT, call and COMMIT |
| `Invites`, `MCInvites` | invites, approvals, rewards, claims, crashes | one step per SELECT and COMMIT |
| `Access`, `MCAccess` | roles, their dialogs, the two caches of permissions, restarts | SELECT and store of a cached read apart, invalidations as tasks, time in ticks |
| `Gate`, `MCGate` | what an update passes before its handler, and who is blocked | one step per await of a middleware, COMMIT and memory apart, time in ages |
| `Catalogue`, `MCCatalogue` | the dialogs on categories, positions, stock and promo codes | one step per prompt and answer, one per transaction of the handler that ends a dialog on a position, one per await of those that create a promo code |
| `Lists`, `MCLists` | ten paginated lists | one step per query of a handler |
| `Broadcast`, `MCBroadcast` | both implementations of broadcasts | one step per batch, try and await |
| `OrdersProofs`, `TransactionsProofs`, `AccessProofs`, `UpdateProofs`, `CatalogueProofs`, `DepositsProofs`, `InvitesProofs`, `BroadcastProofs` | theorems about these modules; `UpdateProofs` has those about `Gate` and about `Lists` | |

`MC*` modules only give the constants their values. Every component has its own
instance of the world it shares with others, reduced to what they do to it: `Debit` in
`Deposits` is any purchase, a role read in `Gate` may return anything (`Access` says
what), deletions in `Transactions` are what the dialogs of `Catalogue` end in.

### Orders

`order[o]` is the row of `tipzy_orders` (status, `tipzy_order_id`, `refunded`),
`remote[o]` what TipzySMM knows of it, `balance` the column. A session (`pc`,
`snap`, `bal`, `seen`) is a coroutine: the handler of an order and later its
watcher, or a request of the admin API; `snap` and `bal` are the objects its ORM
session holds, so a later write is a write of what was read. `rec` is the
transaction of `reconcile_once` with the rows it locked (`FOR UPDATE SKIP LOCKED`),
`script` the transaction of `scripts/reconcile_orders.py`. Three variables are history:
`credits[o]`, how often a refund of the order was written; `overwritten[u]`, the money that
refunds computed from an older balance of the user wrote over; `scripted`, the rows the
script marked failed. A refund written is not money: of two refunds that read the same
balance one is lost, so that `FailedMoneyReturns` is about `balance` and `overwritten`. SQLAlchemy writes only
changed columns, and so do the commits of the model. A user who presses the button twice places two orders,
another `Confirm`.

### Transactions and Shop

A session runs one request from its first lock to its commit. `tx[s]` has the place in
the code, the locks held and the values read. PostgreSQL is READ COMMITTED: a locked
row is read as committed, `FOR UPDATE` waits for the holder, an insert into a table
with a foreign key waits for a lock on the parent row, and a deadlock aborts one
transaction of the cycle. A `FOR UPDATE` over several rows locks them at once in the
model. Prices are cents, percentages hundredths, and discounts are rounded half to even as
`Decimal.quantize` does. `ledger` is history: the sum of the committed changes. The deletion of an
item loads its stock again when it flushes and sets `item_id` of what was added after its own
`DELETE` to NULL, which NOT NULL refuses: `LoadDropped` ends such a deletion in a rollback.
`Shop` has no transactions at all; `KeepsPromise` says that every commit is one of its
steps and every other step is invisible.

### Deposits

`payment[p]` is `payments.status`, `invoice[p]` the truth at the gateway; an invoice that is
paid or expired stays so. The row of a payment is committed before the user sees the
link, so the branch of the webhook that inserts a missing row cannot be taken and is left
out. `process_payment_with_referral` locks what it reads and is one step; its
`already_processed` is the guard `Payable`. `credits[p]` and `overlaps[p]` are history: how often
the payment was credited, and how many deliveries of its webhook began while another one was
under way. A purchase is
`Debit`, whose lock and check `Transactions` is about.

### Invites

`invite[x]` is the row of `referral_invites` of the invited user, `rewards` the table
`referral_rewards` in order of creation. The transaction that marks a reward after its
delivery may fail (`FulfillFails`), and the bot may crash before it. `approved`, `raced` and `given` are
history: the invites ever approved; the rewards granted on a count of rewards that another session
had outdated; the deliveries of a reward, by claims begun `alone` and by claims begun `beside` another one
of the same reward. `verify_invite` never comes past its eligibility check (see 5), so the code
after it is not modelled.

### Access

`role`, `name`, `perms` and `default` are the columns of `users` and `roles`; an id is free, given
or gone for ever. A user's permissions are read through Redis by the filters
(`fetch`, `redis`) and through memory by the middleware (`load`, `memory`); each entry has the ticks
it has left, and a read the ticks since its SELECT. `stale` are the invalidation tasks
that have yet to run. A `dialog` keeps the permissions its operator had when it began, as the
FSM data does, and an operator who waits at a question is kept over a restart.
`Restart` is `insert_roles`, which finds the builtin roles by their names, plus the loss of memory and
tasks. `gone[u][p]` is history: the ticks since user u last had permission p. A lost connection to Redis sets
`_healthy` to false only if the client raises one of Python's built-in errors; the errors of
redis-py are others, so `Notice` allows both. One read-through per user and cache is under
way at a time. The operators are not the owner, whose permissions have no ceiling. The
tables may hold builtin roles the owner edited before (`Edited`): a restart gives their holders
back what `insert_roles` writes, which therefore belongs to the `Ceiling` of `NoEscalation`.

### Gate

The order of the middlewares is that of aiogram, the first registered outermost:
limiter, then authentication, then security. `update[s]` is an update held up where one of
them awaits: at the role that lets administrators bypass the limiter, at the maintenance check, at the
console's permission, at the last check. `requests`, `actions` and `ban` are ages, so
that a `Tick` stands for any time and the state stays finite; requests older than their
window are forgotten by `Count`, as the code filters its lists when it counts, with its own
comparisons. `op[o]` is a `block_user`, `unblock_user` or `toggle_block` between its commit
and what follows; `apart[u]` is history: why memory may differ from the table.

### Catalogue

`dialog[a]` is FSM state and FSM data together: `state.clear()` makes it `Idle`,
`set_state` changes only `at`. The handler that ends a dialog on a position is `task[t]`,
which goes on while other updates are handled: it deletes stock, adds rows and renames, a
transaction each, and `Abort` ends it anywhere. The creation of a promo code is `answer[t]`: it asks
whether the name exists, puts the binding into the FSM data, reads the data again, writes the row
and clears the dialog, with a step for each, so that two answers of one administrator overlap there as
they can. `update_data` of the storage, a get and a set, is one step. `known` are the names for which a
cached "exists" may be served. Foreign keys are guards of the deletions: the ORM
empties `goods.category_id` and `item_values.item_id` before it deletes the parent, which
NOT NULL refuses. `chosen`, `failed` and `shared` are history. Several answers of one
prompt (`Collect`) are taken one at a time. The ends of the dialogs that add and change a position are
modelled by their handlers, although no button offered now leads there (see 5): the model
does more than the program.

### Lists

A list is a record: how its query orders new rows, whether rows move or go, which handlers it
has. One behaviour is about one list, and `ListsInit` chooses it (`Gate` and `Lists` share
no name, so that one module can extend both). `message[m]` is a message of the chat
with what its buttons say, `fsm` the data of the one who looks, `call[m]` the handler
between two queries or before it stores its total, a step after the message is
edited (`Display`, `Store`); `walk[m]` is history: what somebody who only presses "next" has yet to
see, and whether anything has disturbed them. Handlers of two messages overlap anywhere; a message takes its next button
when its handler has ended. The list "all earnings" of a user is modelled as
its handler has it, although the keyboard leads elsewhere (see 5).

### Broadcast

`cast[b]` is a broadcast with its own list of users, `from` the first index after
the batches that have ended, `left` the tries of the batch under way. A try is delivered, refused, or lost
with or without having arrived. In the chat the handler is the broadcast, so the
FSM state goes on accepting texts, and `manager` is the one that "cancel" reaches. The code
has no await between making the manager and the first batch; the model allows steps there,
which is more than can happen.

## 3 Runs

| run | question | bounds |
| --- | --- | --- |
| `orders` | the balance and the money of failed orders under all interleavings of handler, mass handler, watchers, reconciler, with a crash | one user, an order of its own and a mass order, one poll per watcher, 1 fault. Every race of two writers of one row, and of two rows over one balance, fits in |
| `orders_admin` | refresh or refund of the admin API and the script next to watcher and reconciler: the money of a failed order, the reconciler's decisions, liveness | one order, one request, one script, 2 faults |
| `orders_once`, `catalogue_docs` | a statement of the repository that the code does not keep, each | smallest instance of `Orders`; the instance of `catalogue` |
| `transactions` | money, stock, codes and lines under interleavings of purchases, checkouts, redemptions, additions to the cart and the deletion of an item; deadlocks, termination, refinement of `Shop` | two buyers, two sessions, two finite keys of which one is added later, an endless gift, carts that name the same single-use code for different items, one with a line that comes later, a crash, one administrative change |
| `deposits` | webhook, check, adjustment, recovery, purchases, crashes, and that paid invoices are credited | one invoice per gateway, two deliveries of the webhook that may overlap, payer with a referrer, REFERRAL_PERCENT 150, 2 faults: a crash during the recovery from a crash |
| `invites` | three invited users, two links pressed by one of them, two administrators, two claims of one referrer, crashes and failing marks | a reward per two invites, so that one is earned and another nearly; 2 faults, so that a reward is delivered again and again fails to be marked |
| `access` | how long a permission outlives its loss, and whether the dialogs can be used to gain one | two operators, one role beyond them, the role USER edited by the owner, one free id, two dialogs, entries of one tick, reads that end in the tick in which they began, one restart or failure of Redis, one user seen by the middleware. A read that an invalidation overtakes, and a role that is renamed and assigned before or after a restart, fit in; reads that take ticks, and the race of `Delete` with an assignment, which needs a third dialog, are left to the proofs. |
| `gate` | how much passes a ban, whether it ends, whether memory follows the table | one user, two updates and two blocking calls at once, limit 1 in 2 ticks, an action with limit 1 in 3, a ban of 3: the windows end at different times and before the ban |
| `catalogue` | two administrators in any two dialogs or calls of the API, two handlers on positions and two on promo codes under way, from every catalogue | one category, one position, one promo code, two names, contents, handlers; 2 dialogs opened. One dialog after another by one administrator, two side by side, and a dialog next to the API fit in |
| `lists` | whether paging shows every row and pages have rows, for each of the ten lists | two messages, two subjects, three rows, two on a page, 2 openings, 1 change: a full page, a page more, a page that a deletion empties |
| `broadcast` | statistics, cancellation and end of two broadcasts at once | three users, one blocked, batches of two (so that the last is short), three tries, 1 restart |

Two writers and one stale read are enough for every race the code has: a
session reads and writes each row once. Runs with more sessions were tried
while the modules were written and showed nothing new; they take hours.

`CHECK_DEADLOCK FALSE` is said because these instances have finitely many requests and stop when
they are done; that nothing stops before is the matter of `TransactionsEnd`,
`AcceptedOrdersSettle`, `PaidIsCredited` and `BroadcastsEnd`. `Gate` never stops, and
deadlock is checked there.

### Fairness

- `Orders`: the reconciler loop runs as long as the bot, is restarted with it, and
  ends its cycles; TipzySMM settles what it accepted. No fairness for handlers,
  watchers and requests, which may be gone.
- `Transactions`: a transaction that has begun is carried on by its coroutine, and
  PostgreSQL looks for deadlocks.
- `Deposits`: Platega delivers a webhook until it is answered, the recovery loop runs,
  time passes. Users need not check.
- `Gate`: the clock goes on, and nothing else: a ban must end whatever updates come.
- `Broadcast`: a coroutine goes on, and Telegram answers in some way, an error or a
  timeout included. Texts, cancellations and restarts need not come.
- `Access`, `Invites`, `Catalogue`, `Lists`: none; their properties are safety.

Faults are bounded, so a service that fails for ever is not a behaviour.

## 4 Proofs

Proved for every value of the constants, from the assumptions the modules name:

- `OrdersProofs`: `TypeCorrect`; `NoNegativeBalance`, whose inductive invariant says that
  what a session or the reconciler has read is not negative; `ReconcilerOnce`, whose
  invariant says that rows of a cycle are active, not refunded and locked until it
  ends: nobody else could write them. `OnlyDelivered`, whose invariant `DoneInv` says that
  whoever was told "done", or is about to write "completed", was told so of an order
  TipzySMM delivered, and that it knows nothing of an order that was not sent.
  `MoneyComesBack`, about the money and not the refunds written, from two invariants. `PaidInv`: a
  row that is failed, refunded or marked refunded has had a refund written, or is one of those the
  property names (marked failed by the script, or a mass order whose handler has not come to, or died before, its second
  transaction), and what a session saw refunded is among them. `LedgerInv`: a balance, with what was written
  over, is not less than what the user began with without the prices of the orders no refund
  was written for, and the balance the reconciler will write exceeds the balance by the prices of what it will pay
  back, since nobody writes the user's row while it holds it.
- `TransactionsProofs`: `TypeCorrect`, rounding included; `UpdatesKept`, by an
  invariant that the balance a session has read is the balance of the table while it
  holds the row, and that locks are exclusive; `NeverOverdrawn` from the same
  invariant; `NeverSoldTwice`, by an invariant about the rows a session has claimed;
  `CodesCounted`, whose invariant `PromoInv` says that a session holds the codes it will
  record, with the counts of the table, below the limit and not used by its user;
  `LinesKept`, whose invariant `CartInv` says that a checkout holds its user and has seen
  every line of his; `OneOrder`, whose invariant `OrderInv` says that whoever holds stock holds its
  item, and that users, items and codes are taken in this order until a checkout comes to
  another line: then nobody in a circle waits for stock, nobody for a code, for an item or a user.
  `PromiseKept`: `Transactions` implements `Shop`. The purchases of `Shop` are sold when the
  transaction commits, so a commit of a purchase or a checkout maps to `Buy`, one of a code to
  `Redeem`, what administrators and the cart do outside of sessions to `Manage`, and every other
  step to none (`StepShop`, `AdminShop`). For it the commit must have what `Buy` asks for: its
  rows in the stock, its codes usable, the sum in the balance, and prices that are those of the
  items, reduced by codes that are still active. `ShopInv` is all the invariants above with
  `PricedInv`: the prices and codes a session has read are still those of the tables, since it
  holds their rows, and what it will pay is the sum of what it has claimed. The
  sum is a fold over a finite set; that one more claim adds its price (`PaidMore`) is
  proved from the recursive function it is defined by, by the smallest counterexample.
- `AccessProofs`: `TypeCorrect`; `ServedIsRecent`, whose invariant says that permissions a
  user has were had no tick ago, so that a read is recent when it begins, an entry when
  it is stored, and a tick takes from an entry what it adds to the past;
  `NobodyEscalates`, whose invariant says that a role beyond the operators is as it was at the
  start and a builtin name beyond them still belongs to its row: so `insert_roles` cannot
  write such permissions to a row that somebody was assigned. "Beyond" is meant of what the operators
  have and what a restart gives back to builtin roles that were edited; nothing is
  assumed of the tables at the start but types and names that differ.
- `UpdateProofs`, about `Gate`: `OnlyWaiting`, for any number of updates at once, with cardinalities:
  `OnlyWaitingGetThrough` is inductive, since an update that gets through stops waiting and one
  that begins a ban was waiting and does not get through. `MemoryFollows`, whose
  invariant says that a call between commit and memory is about to make them agree. `TypeCorrect`
  adds the types of the windows: the list comprehension that drops old requests is a recursive
  function (`Aged`), and what it keeps is shown by its smallest counterexample.
- `UpdateProofs`, about `Lists`: `ListsTypeCorrect`, `WalkSeesAll` and `RedrawnHasRows`, for any
  page size and any number of subjects, rows, messages and changes. The inductive invariant
  `ListsInv` says for each message what its handler and its walk know of the rows (`Fit`).
  A handler that nobody has disturbed knows the number of rows, the rows of its first page,
  or that its page exists (`Knows`). What a walk has not seen lies behind the page of the message,
  and the message has a "next" button for it (`Walked`); a handler under way leads at most one page
  on, with a page that holds what is left there (`Goes`). A step of one message leaves the others
  with the walks they had or none (`AloneKeeps`); a row that comes, goes or moves
  ends what handlers know (`FitDisturbed`), and the walks there too, unless it comes at the end
  (`FitGrown`).
  `ListsAssumption` has the rows finite, `PerPage` not 0, and `Null` none of the values.
- `CatalogueProofs`: `TypeCorrect`, with the references;
  `Bound`, whose invariant (`Choices`) says that the data a dialog will bind to is what was
  chosen, in every state of the dialog that leads there, for administrators without a failure and without
  another answer under way, and that what a handler read or will write is what it was told;
  `NeverMixed`, whose invariant (`Overlaps`) says of every position that is not shared that at
  most one dialog or handler is about to fill it, and that what it will add fits the stock
  that will be there.
- `DepositsProofs`: `TypeCorrect`, together with `Known`: nobody asks about an invoice the
  gateway does not know. `Settled`, whose invariant `Books` says that a webhook or recovery about to
  pay has a paid invoice, that one about to fail has an expired one, and that the recovery
  holds each payment in one place: then nobody overwrites a settled status. `CreditsOnce`, for any
  number of deliveries at once, whose invariant `Once` says that the credits of a payment and its deliveries
  under way are together one more at most than its deliveries that began beside another one.
- `InvitesProofs`: `FirstStays`, from the types alone. `NeverTooMany`, for any number of
  administrators, whose invariant `Earned` says that the invites an administrator counted are not more than
  those ever approved; the quotient is monotonic, so that an old count grants too little at most, and a
  grant on an old number of rewards is one of those `raced` counts.
  `OnceButForFaults`, for any number of claims at once, whose invariant `Delivered` says that of two claims of a
  reward under way one was begun beside the other, and that those begun alone have
  delivered a reward neither marked nor about to be marked by one of them at most as often as there were faults.
- `BroadcastProofs`: `TypeCorrect`, `Counted` and `Stopping`, from one invariant `Fine` of each
  broadcast: the users tried are a prefix of the list plus those of the batch under way who are
  not waited for, and what is counted is as long as the prefix. The list is a sequence without
  repetitions (`BroadcastAssumption`), so a prefix has as many users as places, by a bijection.

Every invariant and action property of the runs that pass is stated by a theorem, and no theorem
assumes more than what the modules say of their constants. Where the code lets two sessions do
harm, the property says how much and the theorem proves it: `FailedMoneyReturns` the refunds
written over (`overwritten`), `CreditedOnce` the overlapping deliveries (`overlaps`), `RewardsEarned` the grants that
raced (`raced`), `DeliveredThenMarked` the claims begun beside another (`beside`). Only
model-checked: liveness (`AcceptedOrdersSettle`, `TransactionsEnd`, `PaidIsCredited`, `BanEnds`,
`BroadcastsEnd`), since fairness and ENABLED are out of the prover's reach.

## 5 Where the repository and the code disagree

With a run (see `findings` in `PROJECT.json`):

- `orders_once`: a refund can happen twice, against the comment "exactly once"
  (`shop_and_goods.py:267`).
- `catalogue_docs`: `delete_category` says in its docstring that the positions go, too
  (`delete.py:37`); the ORM sets their `category_id` to NULL before (`:53`), NOT NULL makes the
  deletion fail, and all of them are still there.

Met while reading, without a run. Money and orders:

- Orders without an id stay pending: `order_reconciler.py:85` passes over them, while its
  docstring (`:9-11`) says it "reconciles any stuck order".
- "Check payment" cannot credit: it passes a float, which is added to a Decimal
  (`balance_and_payment.py:160-166`); the `TypeError` rolls back.
- Two overlapping deliveries of a webhook credit twice (`platega.py:75-76`); `CreditedOnce` allows a
  further credit for nothing else.
- Two refunds of one user that overlap write absolute balances from the same read
  (`shop_and_goods.py:269-271`, and those of the other writers): one of them is lost, while both rows say
  "refunded". `FailedMoneyReturns` bounds the loss by what such writes wrote over.
- After a success the balance dialog calls `get_chat`, which may raise before the state is cleared: the next
  number the user sends tops up again.
- An endless stock row claimed for one line is excluded for the next line of the same item
  (`transactions.py:341`): a cart with the item twice buys it once, and the other line goes
  to `items_to_remove` although the item can still be sold.
- `shop_and_goods.py:345` pays back without setting `refunded`, so that the guard of
  `api_admin.py:172`, "a failed order auto-refunds and sets refunded=True", does not see it.
- `scripts/reconcile_orders.py:45` writes "failed" without paying back, and takes the order
  from the reconciler, which would. `FailedMoneyReturns` lets off the rows it marked failed.
- `retry.py:30` repeats the placement of an order after a timeout, although the first request may
  have been accepted: the order may be placed twice and is paid for once.
- `create.py:170` counts and inserts without a lock: two insertions pass the limit of
  the cart.
- `platega.py:109-117` and `api_admin.py:330-338` write absolute balances from unlocked
  reads and can lose an update of anyone else: `NoLostUpdate` is about the transactions
  that lock.
- `recovery.py:136` and the update to "completed" write whatever the status is by then;
  `SettledIsCredited` shows that this overwrites nothing.

Invites and roles:

- An invited user's own check always rejects the invite (`invite_rewards.py:100`, against `:7-8`).
- Two administrators who approve at once grant a reward twice; an approved invite can be
  rejected by a check that was running; a double click on "claim" delivers
  twice. `RewardsEarned` and `DeliveredThenMarked` bound what this does by `raced` and `beside`.
- `invite_rewards.py`: the docstring says 5 invites, `INVITES_PER_REWARD` is 3.
- `delete_role` counts users and deletes a statement later (`delete.py:69-74`): a user assigned
  in between is left without a role, although the role "fails if users are assigned".
- "so new permissions take effect immediately" (`role_management_states.py:404`): a read that began
  before the assignment is stored after the invalidation and lives for 300 seconds, and
  `update_role` invalidates nothing. `GrantsAreRecent` is what holds.
- A restart undoes every edit of a builtin role (`models/main.py:72`): permissions the owner took
  from such a role come back to its holders, also where the operators of the dialogs have none of
  them (`Edited`).
- `cache.py:50` catches Python's built-in `ConnectionError` and `TimeoutError`, which are not those of
  redis-py.

Middleware:

- aiogram calls the middlewares in the order RateLimit, Analytics, Auth, Security, AutoAnswer,
  which the comment at `main.py:101-102` has otherwise.
- A failure to load the blocked users leaves the set empty, though `security.py:242` says the
  bot falls back to the table. `toggle_block` of the admin API changes the table only.
- The maintenance flag is never restored: `main.py:79` loads it before `main.py:120` makes the cache
  manager, against the comment at `security.py:244`.
- The panel's `LoginRateLimiter` looks for an attribute of the cache manager that does not
  exist. The clean-up manager is local to `__on_start_up`, so that the shutdown never stops it.

Catalogue and lists:

- `question_buttons` offers `yes_<question>` and the way back (`keyboards/inline.py:245-250`), while
  the handlers of the answers listen to `infinity_` (`adding_position_states.py:98`) and `change_`
  (`update_position_states.py:222`, whose docstring at `:226-231` expects `change_..._yes` and
  `change_..._no`). Only the unused `_orig_inline.py:186-195` offers `<question>_yes`. So
  no button that is offered leads to the end of the dialog that adds a position, nor to that which changes one
  between endless and finite stock.
- At that step the dialog that changes a position would report success and change nothing: it passes the id of the
  category as its name. The admin API's `create_good` always raises a `TypeError`.
- Deleting an item unbinds its promo codes (`models/main.py:315`, `SET NULL`), which then hold for
  every item (`transactions.py:81`).
- After a failed creation the bindings stay in the FSM data and bind the next code, if no menu was
  opened between (`failed` in `BoundAsChosen`). Two answers of one administrator that overlap
  (`promo_management_states.py:307-360`) bind what the data then holds; `BoundAsChosen` lets them off.
- The keyboard offers `view_earnings` (`inline.py:274`), the handler listens to
  `view_all_earnings` (`referral_system.py:186`).
- The totals of different subjects share one key of the FSM data; "next" of the earnings of one
  referral, of the administrator's view of them, and of bought goods has no handler; a newest-first list hides
  its last row while a row comes; the list of referrals is ordered by a sum without a tie-break.
- An old message of a position falls back to the position opened last (`goods_management_states.py:153-160`, `:186-190`), and
  a deletion redraws the list of the row shown last.

Broadcasts:

- No keyboard offers `cancel_broadcast`. It reaches the manager made last: an earlier broadcast that
  still runs cannot be cancelled, and before a new manager exists it reaches the old one.
- The FSM state is still "waiting for a message" while a broadcast runs, so that a second text
  starts another; the clearing at its end ends whatever dialog is open by then.
- A message is tried again after any unknown exception and may come three times. The bot sends to blocked
  users, the admin API does not.

`cleanup.py` calls `limit` on a `delete` statement, which SQLAlchemy 2.0 does not
have: the error is logged and nothing is deleted.

## 6 Not modelled, and the plan

Abstracted everywhere: texts, notifications, audit log, metrics. Money is an integer of
cents; `float` columns of orders are taken as exact. A user is never deleted. In `Transactions`, renaming an item,
creating items and bindings of codes to categories are left out; `Catalogue` has them, without
prices. TipzySMM takes a
retried placement for one order. The retry of a `unique_id` collision is a rollback.

Not worth a module:

- The circuit breaker (`payment.py:128`): all of it runs between awaits of one thread, its lock
  is never contended, and it is a counter with a clock.
- The login limiter of the panel: one counter per address, in memory only.
- Levels, price tiers, validators: tables and formats.
- Panels, exports, metrics: queries and single updates.

Next:

- The race of `Delete` with an assignment, and the cached user row of the OWNER check, in `Access`.
