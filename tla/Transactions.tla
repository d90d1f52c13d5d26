---------------------------- MODULE Transactions ----------------------------
(***************************************************************************)
(* The shop's database transactions: purchase of an item, checkout of a    *)
(* cart, promo codes, the administrator's changes, on PostgreSQL at READ   *)
(* COMMITTED.                                                              *)
(*                                                                         *)
(* A SELECT ... FOR UPDATE waits for the transactions that hold its rows,  *)
(* then reads them and holds them until the end.  What a transaction read  *)
(* it keeps in its session, and it writes the values computed from it at   *)
(* the commit.  A transaction that locks one row only is one step.  An     *)
(* INSERT takes a share lock on the row its foreign key names and so waits *)
(* for a FOR UPDATE on it.  The purchases and checkouts differ only in     *)
(* their requests, so any mixture of them can be checked.                  *)
(***************************************************************************)
EXTENDS Integers, FiniteSets

CONSTANTS
  Users, Goods, Values, Promos, Lines,  \* rows the model has room for
  Sessions,   \* sessions of the database, each serves one request
  Requests,   \* the requests that may be made
  Null,
  ItemOf,     \* ItemOf[v]: the item whose stock row v is
  Infinite,   \* stock rows that are not used up
  LineUser, LineItem, LinePromo,  \* the columns of a cart line
  Type, Worth, MaxUses, Bound,    \* the columns of a promo code at its creation
  InitCart, InitStock, InitBalance,
  Prices, InitPrice,              \* prices in cents an item may be given
  Amounts,    \* what an administrator adds or deducts
  CartMax,    \* CART_MAX_ITEMS (10 in the code)
  MaxFaults,  \* bound: failing statements of a behaviour
  MaxOps      \* bound: changes the administrator and the clock make

Kinds == {"checkout", "buy", "redeem", "input", "add", "delete"}
Request == [kind : Kinds, user : Users, item : Goods \cup {Null},
            promo : Promos \cup {Null}, line : Lines \cup {Null}]
Rows == Users \cup Goods \cup Values \cup Promos

ASSUME RowsAssumption ==
  /\ IsFiniteSet(Users) /\ IsFiniteSet(Promos)
  /\ Users \cap (Goods \cup Values \cup Promos) = {}
  /\ Goods \cap (Values \cup Promos) = {} /\ Values \cap Promos = {}
  /\ Null \notin Rows \cup Lines \cup Sessions
ASSUME StockAssumption ==
  /\ ItemOf \in [Values -> Goods] /\ Infinite \subseteq Values
  /\ InitStock \subseteq Values
ASSUME CartAssumption ==
  /\ LineUser \in [Lines -> Users] /\ LineItem \in [Lines -> Goods]
  /\ LinePromo \in [Lines -> Promos \cup {Null}]
  /\ InitCart \subseteq Lines /\ CartMax \in Nat
ASSUME PromoAssumption ==
  /\ Type \in [Promos -> {"percent", "fixed", "balance"}]
  /\ Worth \in [Promos -> Nat] /\ MaxUses \in [Promos -> Nat]
  /\ Bound \in [Promos -> Goods \cup {Null}]
  /\ \A p \in Promos : Type[p] = "percent" => Worth[p] <= 10000
\* A checkout names no item; a request for a code or an item names it.
ASSUME RequestsAssumption ==
  \A q \in Requests :
    /\ q \in Request
    /\ q.kind \in {"redeem", "input"} => q.promo # Null
    /\ q.kind \in {"buy", "delete"} => q.item # Null
    /\ q.kind = "add" => q.line # Null
ASSUME MoneyAssumption ==
  /\ InitBalance \in Nat /\ Prices \subseteq Nat
  /\ InitPrice \in [Goods -> Prices] /\ Amounts \subseteq Int
  /\ MaxFaults \in Nat /\ MaxOps \in Nat

VARIABLES
  balance,  \* users.balance, in cents
  price,    \* goods.price
  listed,   \* the rows of goods
  stock,    \* the rows of item_values
  fresh,    \* ids of item_values not handed out yet
  promo,    \* promo_codes
  expired,  \* promo codes whose expires_at has passed
  used,     \* promo_code_usages
  cart,     \* the rows of cart_items
  sold,     \* bought_goods
  tx,       \* the sessions
  faults, ops, \* counters of the two bounds
  ledger    \* history: what the committed changes of a balance add up to

goodsVars == <<price, listed, stock, fresh>>
promoVars == <<promo, expired, used>>
db   == <<balance, goodsVars, promoVars, cart, sold, ledger>>
vars == <<db, tx, faults, ops>>

Fresh(at) == [at |-> at, req |-> Null, rows |-> {}, bal |-> 0,
              uses |-> [p \in Promos |-> 0], todo |-> {}, line |-> Null,
              value |-> Null, cost |-> 0, got |-> {}, drop |-> {}, total |-> 0]

Init ==
  /\ balance = [u \in Users |-> InitBalance]
  /\ ledger = [u \in Users |-> InitBalance]
  /\ price = InitPrice /\ listed = Goods
  /\ stock = InitStock /\ fresh = Values \ InitStock
  /\ promo = [p \in Promos |-> [row |-> TRUE, active |-> TRUE, uses |-> 0,
                                item |-> Bound[p]]]
  /\ expired = {} /\ used = {} /\ cart = InitCart /\ sold = {}
  /\ tx = [s \in Sessions |-> Fresh("idle")]
  /\ faults = 0 /\ ops = 0

-----------------------------------------------------------------------------
(* Amounts *)

\* Decimal.quantize("0.01") and round(x, 2) of n / d: half to even.
HalfEven(n, d) ==
  LET q == n \div d  r == n % d IN
  IF 2 * r > d \/ (2 * r = d /\ q % 2 = 1) THEN q + 1 ELSE q

\* Mutant of Reduced: a fixed discount may exceed the price.
ReducedBelowZero(c, p) ==
  IF p = Null THEN c
  ELSE IF Type[p] = "percent" THEN HalfEven(c * (10000 - Worth[p]), 10000)
  ELSE c - Worth[p]

\* The price c after the discount of promo code p.
Reduced(c, p) ==
  IF p = Null THEN c
  ELSE IF Type[p] = "percent" THEN HalfEven(c * (10000 - Worth[p]), 10000)
  ELSE IF c > Worth[p] THEN c - Worth[p] ELSE 0

\* What promo_code_input adds to the balance b.
Bonus(b, p) ==
  IF Type[p] = "percent" THEN HalfEven(b * Worth[p], 10000) ELSE Worth[p]

-----------------------------------------------------------------------------
(* Row locks *)

User(s)  == tx[s].req.user
Kind(s)  == tx[s].req.kind
Item(s)  == IF Kind(s) = "checkout" THEN LineItem[tx[s].line] ELSE tx[s].req.item
Code(s)  == IF Kind(s) = "checkout" THEN LinePromo[tx[s].line] ELSE tx[s].req.promo
Claimed(s) == {g.value : g \in tx[s].got}

\* Mutant of Offer: the rows are not filtered by the item.
OfferOfAny(s) == stock \ Claimed(s)

\* The rows of item_values the statement of a purchase selects.
Offer(s) == {v \in stock : ItemOf[v] = Item(s)} \ Claimed(s)

\* The rows the next statement of the session locks: those that exist.
Wants(s) ==
  CASE tx[s].at = "user"        -> {User(s)}
    [] tx[s].at = "goods"       -> {Item(s)} \cap listed
    [] tx[s].at = "promo"       -> {p \in {Code(s)} \cap Promos : promo[p].row}
    [] tx[s].at = "values"      -> Offer(s)
    [] tx[s].at = "drop.values" -> Offer(s)
    [] tx[s].at = "drop.goods"  -> {Item(s)} \cap listed
    [] tx[s].at = "drop.promos" ->
         Offer(s) \cup {p \in Promos : promo[p].row /\ promo[p].item = Item(s)}
    [] OTHER                    -> {}

Held(R) == \E s \in Sessions : tx[s].rows \cap R # {}
Waits(s, t) == s # t /\ Wants(s) \cap tx[t].rows # {}

\* Mutant of Ready: SELECT without FOR UPDATE.
ReadyAlways(s) == tx[s].at # "done"

\* The statement does not have to wait.
Ready(s) == \A t \in Sessions : ~ Waits(s, t)

Put(s, r)  == tx' = [tx EXCEPT ![s] = r]

\* Mutant of End: an early return that neither commits nor rolls back.
EndHolding(s) == Put(s, [Fresh("done") EXCEPT !.rows = tx[s].rows])

\* Commit or rollback: the rows are released.
End(s) == Put(s, Fresh("done"))

\* Mutant of Locked: every statement is a transaction of its own.
LockedBriefly(s) == tx[s]

Locked(s)  == [tx[s] EXCEPT !.rows = @ \cup Wants(s)]
Rollback(s) == End(s) /\ UNCHANGED <<db, faults>>

Begin(s, q) ==
  /\ tx[s].at = "idle"
  /\ Put(s, [Fresh(CASE q.kind \in {"checkout", "buy", "redeem"} -> "user"
                     [] q.kind = "input"  -> "promo"
                     [] q.kind = "add"    -> "count"
                     [] q.kind = "delete" -> "drop.values")
             EXCEPT !.req = q])
  /\ UNCHANGED <<db, faults>>

-----------------------------------------------------------------------------
(* The statements that lock *)

\* SELECT users ... FOR UPDATE; a checkout then reads the cart.
LockUser(s) ==
  LET mine == IF Kind(s) = "checkout" THEN {l \in cart : LineUser[l] = User(s)} ELSE {}
      next == CASE Kind(s) = "checkout" -> "line" [] Kind(s) = "buy" -> "goods"
                [] Kind(s) = "redeem" -> "promo"  [] Kind(s) = "input" -> "pay"
  IN
  /\ tx[s].at = "user" /\ Ready(s)
  /\ IF Kind(s) = "checkout" /\ mine = {} THEN End(s)
     ELSE Put(s, [Locked(s) EXCEPT !.at = next, !.bal = balance[User(s)],
                                   !.todo = mine])
  /\ UNCHANGED <<db, faults>>

\* The cart is read without ORDER BY.
NextLine(s) ==
  /\ tx[s].at = "line"
  /\ \E l \in tx[s].todo :
       Put(s, [tx[s] EXCEPT !.at = "goods", !.line = l, !.todo = @ \ {l}])
  /\ UNCHANGED <<db, faults>>

\* An item that is gone or out of stock: a purchase fails, a checkout goes
\* on and will remove the line.
Unavailable(s) ==
  IF Kind(s) = "checkout"
    THEN Put(s, [tx[s] EXCEPT !.at = "line", !.drop = @ \cup {tx[s].line}])
    ELSE End(s)

LockGoods(s) ==
  /\ tx[s].at = "goods" /\ Ready(s)
  /\ IF Item(s) \notin listed THEN Unavailable(s)
     ELSE IF Kind(s) = "buy" /\ Code(s) = Null /\ tx[s].bal < price[Item(s)]
       THEN End(s)
     ELSE Put(s, [Locked(s) EXCEPT !.cost = price[Item(s)],
                    !.at = IF Kind(s) = "buy" /\ Code(s) # Null
                             THEN "promo" ELSE "values"])
  /\ UNCHANGED <<db, faults>>

\* r with the line at hand added to the purchases.
Claim(r, v, c, p) ==
  [r EXCEPT !.got = @ \cup {[line |-> r.line, value |-> v, price |-> c, promo |-> p]},
            !.total = @ + c]

\* SELECT item_values ... FOR UPDATE locks every row of the item that is not
\* claimed yet, and the first of them is taken.
LockValues(s) ==
  /\ tx[s].at = "values" /\ Ready(s)
  /\ \/ Offer(s) = {} /\ Unavailable(s)
     \/ \E v \in Offer(s) :
          Put(s, IF Kind(s) = "buy"
                   THEN [Claim(Locked(s), v, tx[s].cost, Code(s)) EXCEPT !.at = "pay"]
                 ELSE IF Code(s) # Null
                   THEN [Locked(s) EXCEPT !.value = v, !.at = "promo"]
                   ELSE [Claim(Locked(s), v, tx[s].cost, Null) EXCEPT !.at = "line"])
  /\ UNCHANGED <<db, faults>>

\* Mutant of Valid: neither the limit nor the usages are looked at.
ValidAgain(s, p) == promo[p].row /\ promo[p].active /\ p \notin expired

\* The checks of a promo code; those of the discount only where one is given.
Valid(s, p) ==
  /\ promo[p].row /\ promo[p].active /\ p \notin expired
  /\ MaxUses[p] > 0 => promo[p].uses < MaxUses[p]
  /\ <<p, User(s)>> \notin used
  /\ Kind(s) \in {"buy", "checkout"} =>
       Type[p] # "balance" /\ promo[p].item \in {Null, Item(s)}
  /\ Kind(s) = "redeem" => Type[p] = "balance"

\* SELECT promo_codes ... FOR UPDATE and the validation.
LockPromo(s) ==
  LET p == Code(s)
      reduced == Reduced(tx[s].cost, p)
      read == [Locked(s) EXCEPT !.uses[p] = promo[p].uses]
  IN
  /\ tx[s].at = "promo" /\ Ready(s)
  /\ IF ~ Valid(s, p) THEN End(s)
     ELSE CASE Kind(s) = "redeem" -> Put(s, [read EXCEPT !.at = "pay"])
            [] Kind(s) = "input"  -> Put(s, [read EXCEPT !.at = "user"])
            [] Kind(s) = "buy"    ->
                 IF tx[s].bal < reduced THEN End(s)
                 ELSE Put(s, [read EXCEPT !.cost = reduced, !.at = "values"])
            [] Kind(s) = "checkout" ->
                 Put(s, [Claim(read, tx[s].value, reduced, p) EXCEPT !.at = "line"])
  /\ UNCHANGED <<db, faults>>

-----------------------------------------------------------------------------
(* The commits *)

Codes(s) == {g.promo : g \in tx[s].got} \ {Null}

\* user.balance and promo.current_uses are written as computed from the read.
Write(s, amount, codes) ==
  /\ balance' = [balance EXCEPT ![User(s)] = tx[s].bal + amount]
  /\ ledger' = [ledger EXCEPT ![User(s)] = @ + amount]
  /\ promo' = [p \in Promos |-> IF p \in codes
                 THEN [promo[p] EXCEPT !.uses = tx[s].uses[p] + 1] ELSE promo[p]]
  /\ used' = used \cup (codes \X {User(s)})

\* Mutant of Sell: the rows sold stay in stock.
SellKept(s) ==
  /\ Write(s, 0 - tx[s].total, Codes(s))
  /\ sold' = sold \cup {[by |-> s, buyer |-> User(s), value |-> g.value,
                         price |-> g.price, promo |-> g.promo] : g \in tx[s].got}
  /\ UNCHANGED stock

Sell(s) ==
  /\ Write(s, 0 - tx[s].total, Codes(s))
  /\ sold' = sold \cup {[by |-> s, buyer |-> User(s), value |-> g.value,
                         price |-> g.price, promo |-> g.promo] : g \in tx[s].got}
  /\ stock' = stock \ (Claimed(s) \ Infinite)

\* buy_item_transaction
CommitBuy(s) ==
  /\ tx[s].at = "pay" /\ Kind(s) = "buy"
  /\ Sell(s) /\ End(s)
  /\ UNCHANGED <<price, listed, fresh, expired, cart, faults>>

\* checkout_cart_transaction.  Two lines with the same code break the
\* constraint uq_promo_usage_per_user; nothing is committed then.
Broke(s) ==
  \/ tx[s].bal < tx[s].total
  \/ \E g, h \in tx[s].got : g # h /\ g.promo = h.promo /\ g.promo # Null

\* Mutant of CommitCheckout: the purchases are not compared with the balance.
CommitCheckoutUnchecked(s) ==
  /\ tx[s].at = "line" /\ tx[s].todo = {} /\ tx[s].got # {}
  /\ Sell(s) /\ End(s)
  /\ cart' = {l \in cart : LineUser[l] # User(s)}
  /\ UNCHANGED <<price, listed, fresh, expired, faults>>

CommitCheckout(s) ==
  /\ tx[s].at = "line" /\ tx[s].todo = {} /\ tx[s].got # {} /\ ~ Broke(s)
  /\ Sell(s) /\ End(s)
  /\ cart' = {l \in cart : LineUser[l] # User(s)}
  /\ UNCHANGED <<price, listed, fresh, expired, faults>>

\* Nothing of the cart is available: its lines are removed.
CommitEmpty(s) ==
  /\ tx[s].at = "line" /\ tx[s].todo = {} /\ tx[s].got = {}
  /\ cart' = cart \ tx[s].drop /\ End(s)
  /\ UNCHANGED <<balance, goodsVars, promoVars, sold, ledger, faults>>

RefuseCheckout(s) ==
  /\ tx[s].at = "line" /\ tx[s].todo = {} /\ tx[s].got # {} /\ Broke(s)
  /\ Rollback(s)

\* redeem_balance_promo, and promo_code_input, which takes any type of code.
CommitPromo(s) ==
  /\ tx[s].at = "pay" /\ Kind(s) \in {"redeem", "input"}
  /\ Write(s, IF Kind(s) = "redeem" THEN Worth[Code(s)]
              ELSE Bonus(tx[s].bal, Code(s)), {Code(s)})
  /\ End(s)
  /\ UNCHANGED <<goodsVars, expired, cart, sold, faults>>

-----------------------------------------------------------------------------
(* The cart *)

\* add_to_cart counts the lines, then inserts.
CountLines(s) ==
  LET l == tx[s].req.line IN
  /\ tx[s].at = "count"
  /\ IF \/ Cardinality({m \in cart : LineUser[m] = LineUser[l]}) >= CartMax
        \/ LineItem[l] \notin listed
       THEN End(s) ELSE Put(s, [tx[s] EXCEPT !.at = "insert"])
  /\ UNCHANGED <<db, faults>>

\* Mutant of InsertLine: cart_items.user_id is no foreign key.
InsertLineAtOnce(s) ==
  /\ tx[s].at = "insert"
  /\ cart' = cart \cup {tx[s].req.line} /\ End(s)
  /\ UNCHANGED <<balance, goodsVars, promoVars, sold, ledger, faults>>

InsertLine(s) ==
  /\ tx[s].at = "insert" /\ ~ Held({LineUser[tx[s].req.line]})
  /\ cart' = cart \cup {tx[s].req.line} /\ End(s)
  /\ UNCHANGED <<balance, goodsVars, promoVars, sold, ledger, faults>>

\* remove_from_cart and clear_cart.
RemoveLines ==
  /\ \E l \in cart : cart' \in {cart \ {l}, {m \in cart : LineUser[m] # LineUser[l]}}
  /\ UNCHANGED <<balance, goodsVars, promoVars, sold, ledger, tx, faults>>

-----------------------------------------------------------------------------
(* The administrator *)

\* delete_item: the DELETE of the stock, which locks what it deletes, and at the
\* flush the DELETE of the item, for which the foreign keys to it remove what came
\* into stock since the flush began and set item_id of its promo codes to NULL.
LockDropped(s) ==
  /\ tx[s].at \in {"drop.values", "drop.goods"} /\ Ready(s)
  /\ IF Item(s) \notin listed THEN End(s)
     ELSE Put(s, [Locked(s) EXCEPT
            !.at = IF tx[s].at = "drop.values" THEN "drop.rest" ELSE "drop.promos"])
  /\ UNCHANGED <<db, faults>>

\* In between the flush loads the stock rows that are still there, to set their
\* item_id to NULL.  The column is NOT NULL: a row that came into stock since the
\* DELETE of the stock makes the deletion fail.
LoadDropped(s) ==
  /\ tx[s].at = "drop.rest"
  /\ IF Offer(s) \subseteq tx[s].rows THEN Put(s, [tx[s] EXCEPT !.at = "drop.goods"])
                                      ELSE End(s)
  /\ UNCHANGED <<db, faults>>

DropItem(s) ==
  LET g == Item(s) IN
  /\ tx[s].at = "drop.promos" /\ Ready(s) /\ End(s)
  /\ listed' = listed \ {g}
  /\ stock' = {v \in stock : ItemOf[v] # g}
  /\ promo' = [p \in Promos |-> IF promo[p].item = g
                 THEN [promo[p] EXCEPT !.item = Null] ELSE promo[p]]
  /\ UNCHANGED <<balance, price, fresh, expired, used, cart, sold, ledger, faults>>

\* admin_balance_change
AdminBalanceChange(u, a) ==
  /\ ~ Held({u}) /\ (a < 0 => balance[u] >= 0 - a)
  /\ balance' = [balance EXCEPT ![u] = @ + a]
  /\ ledger' = [ledger EXCEPT ![u] = @ + a]
  /\ UNCHANGED <<goodsVars, promoVars, cart, sold, tx, faults>>

\* update_item (the renaming is left out)
UpdateItem(g) ==
  /\ g \in listed /\ ~ Held({g})
  /\ \E c \in Prices : price' = [price EXCEPT ![g] = c]
  /\ UNCHANGED <<balance, listed, stock, fresh, promoVars, cart, sold, ledger, tx, faults>>

\* add_values_to_item
AddValue(v) ==
  /\ v \in fresh /\ ItemOf[v] \in listed /\ ~ Held({ItemOf[v]})
  /\ fresh' = fresh \ {v} /\ stock' = stock \cup {v}
  /\ UNCHANGED <<balance, price, listed, promoVars, cart, sold, ledger, tx, faults>>

\* delete_item_from_position and delete_only_items
DeleteValues ==
  /\ \E v \in stock : \E V \in {{v}, {w \in stock : ItemOf[w] = ItemOf[v]}} :
       ~ Held(V) /\ stock' = stock \ V
  /\ UNCHANGED <<balance, price, listed, fresh, promoVars, cart, sold, ledger, tx, faults>>

\* toggle_promo_code and delete_promo_code
TogglePromo(p) ==
  /\ promo[p].row /\ ~ Held({p})
  /\ promo' = [promo EXCEPT ![p].active = ~ @]
  /\ UNCHANGED <<balance, goodsVars, expired, used, cart, sold, ledger, tx, faults>>

DeletePromo(p) ==
  /\ promo[p].row /\ ~ Held({p})
  /\ promo' = [promo EXCEPT ![p].row = FALSE]
  /\ used' = {x \in used : x[1] # p}
  /\ UNCHANGED <<balance, goodsVars, expired, cart, sold, ledger, tx, faults>>

Expire(p) ==
  /\ p \notin expired /\ expired' = expired \cup {p}
  /\ UNCHANGED <<balance, goodsVars, promo, used, cart, sold, ledger, tx, faults>>

-----------------------------------------------------------------------------
\* Every transaction of C waits for another one of C, and one waits for it.
Cycle(C) == \A s \in C : /\ \E t \in C : Waits(s, t)
                         /\ \E t \in C : Waits(t, s)

\* PostgreSQL aborts one transaction of a deadlock; except: rollback.
Victim(s) ==
  /\ \E C \in SUBSET Sessions : s \in C /\ Cycle(C)
  /\ Rollback(s)

\* A failing statement, or the death of the bot: the transaction is gone.
Fail(s) ==
  /\ tx[s].at \notin {"idle", "done"}
  /\ faults < MaxFaults /\ faults' = faults + 1
  /\ End(s) /\ UNCHANGED db

Step(s) ==
  \/ LockUser(s) \/ NextLine(s) \/ LockGoods(s) \/ LockValues(s) \/ LockPromo(s)
  \/ CommitBuy(s) \/ CommitCheckout(s) \/ CommitEmpty(s) \/ RefuseCheckout(s)
  \/ CommitPromo(s) \/ CountLines(s) \/ InsertLine(s)
  \/ LockDropped(s) \/ LoadDropped(s) \/ DropItem(s)

Admin ==
  \/ \E u \in Users, a \in Amounts : AdminBalanceChange(u, a)
  \/ \E g \in Goods : UpdateItem(g)
  \/ \E v \in Values : AddValue(v)
  \/ DeleteValues \/ RemoveLines
  \/ \E p \in Promos : TogglePromo(p) \/ DeletePromo(p) \/ Expire(p)

Next ==
  \/ /\ \/ \E s \in Sessions : Step(s) \/ Victim(s) \/ Fail(s)
        \/ \E s \in Sessions, q \in Requests : Begin(s, q)
     /\ UNCHANGED ops
  \/ Admin /\ ops < MaxOps /\ ops' = ops + 1

Spec == Init /\ [][Next]_vars

\* A transaction that has begun is carried on by its coroutine, and the
\* database looks for deadlocks.
Fairness == \A s \in Sessions : /\ WF_vars(Step(s) /\ UNCHANGED ops)
                                /\ WF_vars(Victim(s) /\ UNCHANGED ops)
FairSpec == Spec /\ Fairness
-----------------------------------------------------------------------------
(* Properties *)

Places == {"idle", "count", "insert", "user", "line", "goods", "values", "promo",
           "pay", "drop.values", "drop.rest", "drop.goods", "drop.promos", "done"}
Purchase == [line : Lines \cup {Null}, value : Values, price : Nat,
             promo : Promos \cup {Null}]
Sale == [by : Sessions, buyer : Users, value : Values, price : Nat,
         promo : Promos \cup {Null}]
Tx == [at : Places, req : Requests \cup {Null}, rows : SUBSET Rows, bal : Int,
       uses : [Promos -> Nat], todo : SUBSET Lines, line : Lines \cup {Null},
       value : Values \cup {Null}, cost : Nat, got : SUBSET Purchase,
       drop : SUBSET Lines, total : Nat]
PromoRow == [row : BOOLEAN, active : BOOLEAN, uses : Nat, item : Goods \cup {Null}]

TablesOK ==
  /\ balance \in [Users -> Int] /\ ledger \in [Users -> Int]
  /\ price \in [Goods -> Nat] /\ listed \subseteq Goods
  /\ stock \subseteq Values /\ fresh \subseteq Values
  /\ promo \in [Promos -> PromoRow] /\ expired \subseteq Promos
  /\ used \subseteq Promos \X Users
  /\ cart \subseteq Lines /\ sold \subseteq Sale

\* Type invariant of the tables and the sessions.
TypeOK == TablesOK /\ tx \in [Sessions -> Tx] /\ faults \in 0..MaxFaults
          /\ ops \in 0..MaxOps

\* No update of a balance is lost: what a transaction writes, computed from a
\* read that may be many statements old, equals what the committed changes
\* of the balance add up to.
NoLostUpdate == balance = ledger

\* Checks against a balance read at the start of the transaction hold at its
\* end: no mixture of purchases, checkouts and deductions overdraws it.
NoOverdraft == \A u \in Users : balance[u] >= 0

\* A stock row is sold to one buyer, once, and is out of stock afterwards,
\* although purchase, checkout and the administrator pick from the same rows.
SoldOnce ==
  \A x \in sold : x.value \notin Infinite =>
    /\ x.value \notin stock
    /\ \A y \in sold : x.value = y.value => x = y

\* The counter of a promo code agrees with its usages and stays within the
\* limit, although a checkout increments it only at its end; and a user has one
\* purchase discounted by a code at most, however many lines of a cart name it.
PromoCounted ==
  \A p \in Promos : promo[p].row =>
    /\ promo[p].uses = Cardinality({x \in used : x[1] = p})
    /\ MaxUses[p] > 0 => promo[p].uses <= MaxUses[p]
    /\ \A x, y \in sold : x.promo = p /\ y.promo = p /\ x.buyer = y.buyer => x = y

\* A line put into the cart while the checkout runs is neither bought nor
\* lost: the insert waits for the user's row, and the final DELETE of all of
\* the user's lines finds only lines the checkout has looked at.
LateLinesKept ==
  [][\A s \in Sessions : tx[s].at = "line" /\ tx'[s].at = "done" =>
       cart \ cart' \subseteq tx[s].drop \cup {g.line : g \in tx[s].got}]_vars

\* Purchases, redemptions and the first line of a checkout lock user, item,
\* code and stock in one order and never wait for each other in a circle: a
\* deadlock takes promo_code_input, which locks the code before the user, a
\* deletion, which locks the stock before the item, or a checkout that has
\* come to another line with the locks of the lines before.
DeadlockTakesAnotherOrder ==
  \A C \in SUBSET Sessions : C # {} /\ Cycle(C) =>
    \E s \in C : \/ Kind(s) \in {"input", "delete"}
                \/ tx[s].got \cup tx[s].drop # {}

\* Every transaction that has begun ends, deadlocks included.
TransactionsEnd ==
  \A s \in Sessions : tx[s].at # "idle" ~> tx[s].at = "done"
=============================================================================
