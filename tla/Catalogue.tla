------------------------------ MODULE Catalogue ------------------------------
(***************************************************************************)
(* The catalogue and the dialogs in which administrators change it: the    *)
(* tables categories, goods, item_values and promo_codes, the cached       *)
(* answers the dialogs check names with, the admin API, and the FSM state  *)
(* and data of every administrator.  What a position costs and how it is   *)
(* described, and the value, uses and expiry of a promo code, are left out.*)
(*                                                                         *)
(* An administrator has one FSM state and one bag of data for all dialogs. *)
(* Opening a dialog sets the state and keeps the data; only the menus and  *)
(* the end of a dialog clear both.  A prompt and its answer is one step.   *)
(* The handlers that end a dialog on a position or a promo code run step   *)
(* by step, several of them at once, and any step of them may fail: then   *)
(* the handler is gone and the dialog stays as it was.                     *)
(***************************************************************************)
EXTENDS Integers, FiniteSets

CONSTANTS
  Admins,     \* administrators
  Slots,      \* bound: handlers that run at once
  Cats, CatNames,   \* ids and names of categories
  Items, ItemNames, \* ids and names of positions
  Values,     \* contents of stock rows
  Promos, Codes,    \* ids and codes of promo codes
  Free, Gone, \* an id that is not given yet, or no longer
  Null,
  MaxStarts   \* bound: dialogs opened and calls of the admin API

ASSUME CatalogueAssumption ==
  /\ Null \notin Cats \cup CatNames \cup Items \cup ItemNames \cup Promos \cup Codes
  /\ {Free, Gone} \cap (CatNames \cup ItemNames \cup Codes \cup Cats \cup {Null}) = {}
  /\ Free # Gone
  /\ Cats \cap CatNames = {} \* a number is not the name of a category
  /\ MaxStarts \in Nat

VARIABLES
  category, \* categories.name
  item,     \* goods: name and category_id
  stock,    \* item_values
  promo,    \* promo_codes: code and what it is bound to
  known,    \* names that were found: the cache may go on answering for them
  dialog,   \* FSM state and data of an administrator
  task,     \* a handler on its way through its transactions
  answer,   \* a handler that makes a promo code
  chosen,   \* history: what the administrator asked a promo code to be bound to
  failed,   \* history: administrators for whom making a promo code failed
  shared,   \* history: items that two dialogs or calls dealt with at once
  starts    \* dialogs opened and calls made

tables == <<category, item, stock, promo, chosen>>
vars == <<category, item, stock, promo, known, dialog, task, answer, chosen, failed,
          shared, starts>>

NoItem(mark) == [name |-> mark, cat |-> Null]
NoPromo(mark) == [code |-> mark, cat |-> Null, item |-> Null]
Unbound == [cat |-> Null, item |-> Null]

\* No state and no data, as state.clear() leaves it.
Idle == [at |-> "none", name |-> Null, old |-> Null, cat |-> Null, values |-> {},
         code |-> Null, binding |-> Null, boundCat |-> Null, boundItem |-> Null]
NoTask == [at |-> "none"]

\* Names are unique: the constraints of the tables.
Distinct(names, f) ==
  \A x, y \in DOMAIN f : f[x] = f[y] /\ f[x] \in names => x = y

\* The dialogs begin on any catalogue whose positions are endless or not, and
\* without promo codes.
Init ==
  /\ category \in [Cats -> CatNames \cup {Free}] /\ Distinct(CatNames, category)
  /\ \E name \in [Items -> ItemNames \cup {Free}], c \in Cats :
       /\ Distinct(ItemNames, name)
       /\ category[c] = Free => \A i \in Items : name[i] = Free
       /\ item = [i \in Items |-> IF name[i] = Free THEN NoItem(Free)
                                                   ELSE [name |-> name[i], cat |-> c]]
  /\ \E inf \in [Items -> BOOLEAN] :
       stock \in SUBSET {r \in [item : Items, value : Values, inf : BOOLEAN] :
                         item[r.item].name \in ItemNames /\ r.inf = inf[r.item]}
  /\ \A r, q \in stock : r.inf /\ r.item = q.item => r = q
  /\ promo = [p \in Promos |-> NoPromo(Free)]
  /\ known = {}
  /\ dialog = [a \in Admins |-> Idle]
  /\ task = [t \in Slots |-> NoTask] /\ answer = task
  /\ chosen = [p \in Promos |-> Unbound] /\ failed = {} /\ shared = {}
  /\ starts = 0

-----------------------------------------------------------------------------
(* The tables.  Names are unique, and so is a value within its item. *)

CatNamed(n) == {c \in Cats : category[c] = n}
ItemNamed(n) == {i \in Items : item[i].name = n}
PromoNamed(x) == {p \in Promos : promo[p].code = x}
ItemIn(c) == {i \in Items : item[i].cat = c}
RowsOf(i) == {r \in stock : r.item = i}

\* check_value
Infinite(n) == \E r \in stock : r.inf /\ r.item \in ItemNamed(n)

\* check_category_cached and get_item_info_cached: a name is found if it is in
\* the table.  One that no longer is may still be cached since an earlier check;
\* invalidations are tasks nobody waits for, and may fail.
There(n) == CatNamed(n) \cup ItemNamed(n) # {}
Check(n, found) ==
  /\ There(n) => found
  /\ found => There(n) \/ n \in known
  /\ known' = IF found THEN known \cup {n} ELSE known

\* A foreign key with ON DELETE SET NULL: the code is bound to nothing then.
\* The history follows, because nobody asked for that.
Unbind(c, i) ==
  LET Without(b) == [b EXCEPT !.cat = IF @ = c THEN Null ELSE @,
                              !.item = IF @ = i THEN Null ELSE @]
  IN /\ promo' = [p \in Promos |-> Without(promo[p])]
     /\ chosen' = [p \in Promos |-> Without(chosen[p])]

\* The ORM empties the foreign key of the children of a row it deletes before
\* the database could cascade, and the column is NOT NULL: a category with
\* positions and a position with stock are not deleted, the call fails.
CategoryDeletable(c) == ItemIn(c) = {}
ItemDeletable(i) == RowsOf(i) = {}

DropCategory(c) ==
  /\ CategoryDeletable(c)
  /\ category' = [category EXCEPT ![c] = Gone] /\ Unbind(c, Null)
  /\ UNCHANGED <<item, stock>>

\* Mutant of DropItem: the stock stays.
DropItemOnly(i) ==
  /\ item' = [item EXCEPT ![i] = NoItem(Gone)] /\ Unbind(Null, i)
  /\ UNCHANGED <<category, stock>>

DropItem(i) ==
  /\ item' = [item EXCEPT ![i] = NoItem(Gone)] /\ Unbind(Null, i)
  /\ stock' = stock \ RowsOf(i) /\ UNCHANGED category

-----------------------------------------------------------------------------
(* FSM *)

At(a, at) == dialog[a].at = at
Goto(a, at, d) == dialog' = [dialog EXCEPT ![a] = [d EXCEPT !.at = at]]
\* Mutant of Clear: the state is left and the data stays.
ClearState(a) == dialog' = [dialog EXCEPT ![a].at = "none"] /\ failed' = failed \ {a}

\* state.clear()
Clear(a) == dialog' = [dialog EXCEPT ![a] = Idle] /\ failed' = failed \ {a}

Starts == {"add_name", "amount_name", "upd_name", "del_item", "cat_add", "cat_del",
           "cat_old", "promo_code"}

\* add_item, update_item_amount, update_item, delete_item, add_category,
\* delete_category, update_category, promo_create: the data of an earlier
\* dialog stays.
Open(a) ==
  /\ starts < MaxStarts /\ starts' = starts + 1
  /\ \E at \in Starts : Goto(a, at, dialog[a])
  /\ UNCHANGED <<tables, known, task, failed, shared>>

\* console and goods_management; promo_mgmt does so while there is no code.
Menu(a) ==
  /\ dialog[a] # Idle /\ Clear(a)
  /\ UNCHANGED <<tables, known, task, shared, starts>>

\* The items that dialogs past the check of their name, and handlers, deal with.
InDialog(a) == CASE dialog[a].at \in {"add_category", "add_infinity", "add_values", "add_single",
                                      "amount_values"} -> {dialog[a].name}
                 [] dialog[a].at \in {"upd_decide", "upd_single", "upd_values"} -> {dialog[a].old}
                 [] OTHER -> {}
InTask(t) == IF task[t] = NoTask THEN {} ELSE {task[t].name}

\* History: one more dialog on item n begins.
Begin(a, n) ==
  shared' = IF n \in UNION ({InDialog(b) : b \in Admins \ {a}} \cup {InTask(t) : t \in Slots})
              THEN shared \cup {n} ELSE shared

-----------------------------------------------------------------------------
(* Positions: the prompts *)

\* check_item_name_for_add.  What comes next asks for a description and a price,
\* too.
CheckItemNameForAdd(a) ==
  /\ At(a, "add_name")
  /\ \E n \in ItemNames, found \in BOOLEAN :
       /\ Check(n, found)
       /\ IF found THEN UNCHANGED <<dialog, shared>>
          ELSE Goto(a, "add_category", [dialog[a] EXCEPT !.name = n]) /\ Begin(a, n)
  /\ UNCHANGED <<tables, task, failed, starts>>

\* check_item_name_for_amount_upd
CheckItemNameForAmount(a) ==
  /\ At(a, "amount_name")
  /\ \E n \in ItemNames, found \in BOOLEAN :
       /\ Check(n, found)
       /\ IF ~ found \/ Infinite(n) THEN UNCHANGED <<dialog, shared>>
          ELSE Goto(a, "amount_values", [dialog[a] EXCEPT !.name = n]) /\ Begin(a, n)
  /\ UNCHANGED <<tables, task, failed, starts>>

\* check_item_name_for_update and the prompts behind it; the id of the category
\* comes with the answer, which may be an old one.
CheckItemNameForUpdate(a) ==
  /\ At(a, "upd_name")
  /\ \E n \in ItemNames, found \in BOOLEAN :
       /\ Check(n, found)
       /\ IF ~ found THEN UNCHANGED <<dialog, shared>>
          ELSE /\ Begin(a, n)
               /\ \E c \in IF ItemNamed(n) = {} THEN {Null} ELSE {item[i].cat : i \in ItemNamed(n)} :
                    Goto(a, "upd_decide", [dialog[a] EXCEPT !.old = n, !.cat = c])
  /\ UNCHANGED <<tables, task, failed, starts>>

\* check_category_for_add_item
CheckCategoryForAddItem(a) ==
  /\ At(a, "add_category")
  /\ \E n \in CatNames, found \in BOOLEAN :
       /\ Check(n, found)
       /\ IF found THEN Goto(a, "add_infinity", [dialog[a] EXCEPT !.cat = n])
                   ELSE UNCHANGED dialog
  /\ UNCHANGED <<tables, task, failed, shared, starts>>

\* adding_value_to_position
AddingValueToPosition(a) ==
  /\ At(a, "add_infinity")
  /\ \E at \in {"add_values", "add_single"} : Goto(a, at, dialog[a])
  /\ UNCHANGED <<tables, known, task, failed, shared, starts>>

\* update_item_process: which of its two questions is answered depends on the
\* button, not on the state.  The answer no is Finish.
UpdateItemProcess(a) ==
  /\ At(a, "upd_decide")
  /\ \E at \in {"upd_values", "upd_single"} : Goto(a, at, dialog[a])
  /\ UNCHANGED <<tables, known, task, failed, shared, starts>>

Collecting == {"add_values", "amount_values", "upd_values"}

\* collect_item_value, updating_item_values, updating_item: onto the values that
\* are there, those of an earlier dialog, too.
Collect(a) ==
  /\ dialog[a].at \in Collecting
  /\ \E v \in Values : dialog' = [dialog EXCEPT ![a].values = @ \cup {v}]
  /\ UNCHANGED <<tables, known, task, failed, shared, starts>>

-----------------------------------------------------------------------------
(* Positions: the handlers that end a dialog *)

\* Slot t goes on with handler k, past the values once all are dealt with.
Resume(t, k) ==
  task' = [task EXCEPT ![t] =
             IF k.at # "fill" \/ k.left # {} THEN k
               ELSE [k EXCEPT !.at = IF k.kind = "update" THEN "meta" ELSE "clear"]]
Step(t, at) == Resume(t, [task[t] EXCEPT !.at = at])

Run(t, a, first, kind, values, inf) ==
  LET n == IF kind = "update" THEN dialog[a].old ELSE dialog[a].name IN
  /\ Resume(t, [at |-> first, admin |-> a, kind |-> kind, name |-> n,
                cat |-> dialog[a].cat, left |-> values, inf |-> inf])
  \* History: two handlers on the same item.
  /\ shared' = IF n \in UNION {InTask(s) : s \in Slots} THEN shared \cup {n} ELSE shared

\* Three end on a button, which a second press starts once more.
FinishAddingItems(a, t) ==
  At(a, "add_values") /\ Run(t, a, "create", "add", dialog[a].values, FALSE)
UpdatingItemAmount(a, t) ==
  At(a, "amount_values") /\ Run(t, a, "fill", "amount", dialog[a].values, FALSE)
UpdateItemNoInfinity(a, t) ==
  At(a, "upd_values") /\ Run(t, a, "purge", "update", dialog[a].values, FALSE)

\* Two on a message with the only value.
FinishAddingItem(a, t) ==
  At(a, "add_single") /\ \E v \in Values : Run(t, a, "create", "add", {v}, TRUE)
UpdateItemInfinity(a, t) ==
  At(a, "upd_single") /\ \E v \in Values : Run(t, a, "purge", "update", {v}, TRUE)

\* And update_item_process on the answer no: the stock stays.
Finish(a, t) ==
  /\ task[t] = NoTask /\ answer[t] = NoTask
  /\ \/ FinishAddingItems(a, t) \/ UpdatingItemAmount(a, t) \/ UpdateItemNoInfinity(a, t)
     \/ FinishAddingItem(a, t) \/ UpdateItemInfinity(a, t)
     \/ At(a, "upd_decide") /\ Run(t, a, "meta", "update", {}, FALSE)
  /\ UNCHANGED <<tables, known, dialog, failed, starts>>

\* create_item: nothing happens if the name is taken or the category gone.
CreateItem(t) ==
  LET k == task[t] IN
  /\ k.at = "create" /\ Step(t, "fill")
  /\ IF ItemNamed(k.name) = {} /\ CatNamed(k.cat) # {}
       THEN \E i \in Items, c \in CatNamed(k.cat) :
              /\ item[i].name = Free /\ item' = [item EXCEPT ![i] = [name |-> k.name, cat |-> c]]
       ELSE UNCHANGED item
  /\ UNCHANGED <<category, stock, promo, chosen, known, dialog, failed, shared, starts>>

\* Mutant of Purge: only endless rows are deleted.
PurgeEndless(t) ==
  LET k == task[t] IN
  /\ k.at = "purge" /\ Step(t, "fill")
  /\ stock' = {r \in stock : r.item \in ItemNamed(k.name) => ~ r.inf}
  /\ UNCHANGED <<category, item, promo, chosen, known, dialog, failed, shared, starts>>

\* delete_only_items: no cache is told.
Purge(t) ==
  LET k == task[t] IN
  /\ k.at = "purge" /\ Step(t, "fill")
  /\ stock' = {r \in stock : r.item \notin ItemNamed(k.name)}
  /\ UNCHANGED <<category, item, promo, chosen, known, dialog, failed, shared, starts>>

\* add_values_to_item: a value that the item has, and one without an item, is
\* skipped.
AddValue(t) ==
  LET k == task[t] IN
  /\ k.at = "fill"
  /\ \E v \in k.left :
       /\ Resume(t, [k EXCEPT !.left = @ \ {v}])
       /\ LET new == {i \in ItemNamed(k.name) : \A r \in RowsOf(i) : r.value # v}
          IN stock' = stock \cup {[item |-> i, value |-> v, inf |-> k.inf] : i \in new}
  /\ UNCHANGED <<category, item, promo, chosen, known, dialog, failed, shared, starts>>

\* The category update_item looks for has the name it is given, ...
CategoryOf(n) == CatNamed(n)

\* ... but the dialog gives it category_id.  update_item changes nothing if the
\* category is not there or the new name is taken, and the dialog says success.
UpdateItem(t) ==
  LET k == task[t] IN
  /\ k.at = "meta" /\ Step(t, "clear")
  /\ \E new \in ItemNames :
       IF /\ ItemNamed(k.name) # {} /\ CategoryOf(k.cat) # {}
          /\ new = k.name \/ ItemNamed(new) = {}
         THEN \E i \in ItemNamed(k.name), c \in CategoryOf(k.cat) :
                item' = [item EXCEPT ![i] = [name |-> new, cat |-> c]]
         ELSE UNCHANGED item
  /\ UNCHANGED <<category, stock, promo, chosen, known, dialog, failed, shared, starts>>

\* state.clear() at the end: whatever dialog is open now.
Finished(t) ==
  /\ task[t].at = "clear" /\ Clear(task[t].admin)
  /\ task' = [task EXCEPT ![t] = NoTask]
  /\ UNCHANGED <<tables, known, shared, starts>>

\* A statement or a message to Telegram fails, the second insertion of a value
\* that two handlers add at once among them, or the bot restarts.
Abort(t) ==
  /\ task[t] # NoTask
  /\ task' = [task EXCEPT ![t] = NoTask]
  /\ UNCHANGED <<tables, known, dialog, failed, shared, starts>>

\* delete_str_item: delete_item empties the stock first.  It fails if stock comes
\* in before the position goes, and the dialog stays open.
DeleteItem(a) ==
  /\ At(a, "del_item")
  /\ \E n \in ItemNames :
       \/ ~ There(n) /\ Clear(a) /\ UNCHANGED <<tables, known>>
       \/ /\ \E i \in ItemNamed(n) : DropItem(i)
          /\ Clear(a) /\ Check(n, TRUE)
       \/ ItemNamed(n) # {} /\ Check(n, TRUE) /\ UNCHANGED <<tables, dialog, failed>>
  /\ UNCHANGED <<task, shared, starts>>

\* process_delete_item_from_position: one row, by its id.  A purchase
\* (Transactions) takes a row that is not endless.
DeleteValue ==
  /\ \E r \in stock : stock' = stock \ {r}
  /\ UNCHANGED <<category, item, promo, chosen, known, dialog, task, failed, shared, starts>>

-----------------------------------------------------------------------------
(* Categories *)

NewCategory(n) ==
  \E c \in Cats : category[c] = Free /\ category' = [category EXCEPT ![c] = n]

\* process_category_for_add and create_category
AddCategory(a) ==
  /\ At(a, "cat_add") /\ Clear(a)
  /\ \E n \in CatNames, found \in BOOLEAN :
       /\ Check(n, found)
       /\ IF ~ found THEN NewCategory(n) ELSE UNCHANGED category
  /\ UNCHANGED <<item, stock, promo, chosen, task, shared, starts>>

\* process_category_for_delete and delete_category.  A deletion that fails
\* leaves the dialog open.
DeleteNamed(a, n) ==
  /\ At(a, "cat_del")
  /\ \/ ~ There(n) /\ Clear(a) /\ UNCHANGED <<tables, known>>
     \/ /\ \E c \in CatNamed(n) : DropCategory(c)
        /\ Clear(a) /\ Check(n, TRUE)
     \/ /\ \E c \in CatNamed(n) : ~ CategoryDeletable(c)
        /\ Check(n, TRUE) /\ UNCHANGED <<tables, dialog, failed>>
  /\ UNCHANGED <<task, shared, starts>>

DeleteCategory(a) == \E n \in CatNames : DeleteNamed(a, n)

\* check_category_for_update
CheckCategoryForUpdate(a) ==
  /\ At(a, "cat_old")
  /\ \E n \in CatNames, found \in BOOLEAN :
       /\ Check(n, found)
       /\ IF found THEN Goto(a, "cat_new", [dialog[a] EXCEPT !.old = n]) /\ UNCHANGED failed
                   ELSE Clear(a)
  /\ UNCHANGED <<tables, task, shared, starts>>

\* check_category_name_for_update and update_category, which fails if the
\* category is gone and leaves the dialog open.
RenameCategory(a) ==
  /\ At(a, "cat_new")
  /\ \E n \in CatNames, found \in BOOLEAN : LET old == dialog[a].old IN
       /\ Check(n, found)
       /\ \/ (found \/ CatNamed(old) # {}) /\ Clear(a)
          \/ ~ found /\ CatNamed(old) = {} /\ UNCHANGED <<dialog, failed>>
       /\ category' = [c \in Cats |-> IF ~ found /\ c \in CatNamed(old) THEN n ELSE category[c]]
  /\ UNCHANGED <<item, stock, promo, chosen, task, shared, starts>>

-----------------------------------------------------------------------------
(* Promo codes *)

\* promo_receive_code; then the type, the value, the uses and the expiry.  A
\* code for the balance is bound to nothing and made at once: see AnswerPromo.
PromoCode(a) ==
  /\ At(a, "promo_code")
  /\ \E x \in Codes : /\ PromoNamed(x) = {}
                      /\ Goto(a, "promo_binding", [dialog[a] EXCEPT !.code = x])
  /\ UNCHANGED <<tables, known, task, failed, shared, starts>>

\* promo_binding_type_chosen
PromoBinding(a) ==
  /\ At(a, "promo_binding")
  /\ \E b \in {"category", "item"} : Goto(a, "promo_name", [dialog[a] EXCEPT !.binding = b])
  /\ UNCHANGED <<tables, known, task, failed, shared, starts>>

\* create_promo_code with a row x; wish is what was asked for.
CreatePromo(x, wish) ==
  IF PromoNamed(x.code) # {} THEN UNCHANGED <<promo, chosen>>
    ELSE \E p \in Promos :
           /\ promo[p].code = Free
           \* the foreign keys
           /\ x.cat # Null => category[x.cat] \in CatNames
           /\ x.item # Null => item[x.item].name \in ItemNames
           /\ promo' = [promo EXCEPT ![p] = x]
           /\ chosen' = [chosen EXCEPT ![p] = wish]

\* update_data with what was answered; nothing is taken back.
Bind(d, b) == [d EXCEPT !.boundCat = IF b.cat = Null THEN @ ELSE b.cat,
                        !.boundItem = IF b.item = Null THEN @ ELSE b.item]

\* History: no answer of theirs has failed, none is under way.
Alone(a) == a \notin failed /\ \A s \in Slots : answer[s] # NoTask => answer[s].admin # a

\* Slot t goes on with k.
Goes(t, k) == answer' = [answer EXCEPT ![t] = k]

\* A handler that was told a name, and the data it should find in the end.
Told(a, b) ==
  [at |-> "bind", admin |-> a, choice |-> b,
   told |-> IF Alone(a) THEN [choice |-> b, data |-> Bind(dialog[a], b)] ELSE Null]

\* A handler that has read the data d, and what the code should be bound to.
Making(a, d, sure, b) ==
  [at |-> "make", admin |-> a, row |-> [code |-> d.code, cat |-> d.boundCat, item |-> d.boundItem],
   wish |-> IF sure THEN b ELSE [cat |-> d.boundCat, item |-> d.boundItem]]

\* promo_receive_expires for the balance and promo_binding_type_chosen for none,
\* which read the data at once, and promo_receive_binding_name up to the check.
AnswerPromo(a, t) ==
  /\ task[t] = NoTask /\ answer[t] = NoTask
  /\ \/ At(a, "promo_binding") /\ Goes(t, Making(a, dialog[a], Alone(a), Unbound))
     \/ /\ At(a, "promo_name") /\ dialog[a].binding = "category"
        /\ \E c \in Cats : /\ category[c] \in CatNames
                           /\ Goes(t, Told(a, [cat |-> c, item |-> Null]))
     \/ /\ At(a, "promo_name") /\ dialog[a].binding # "category"
        /\ \E i \in Items : /\ item[i].name \in ItemNames
                            /\ Goes(t, Told(a, [cat |-> Null, item |-> i]))
  /\ UNCHANGED <<tables, known, dialog, task, failed, shared, starts>>

\* update_data: whatever dialog is open now.
BindPromo(t) ==
  LET k == answer[t] IN
  /\ k.at = "bind"
  /\ dialog' = [dialog EXCEPT ![k.admin] = Bind(@, k.choice)]
  /\ Goes(t, [at |-> "read", admin |-> k.admin, told |-> k.told])
  /\ UNCHANGED <<tables, known, task, failed, shared, starts>>

\* _finalize_promo_creation, get_data: without a code it fails.
ReadPromo(t) ==
  LET k == answer[t]
      d == dialog[k.admin]
  IN /\ k.at = "read" /\ d.code # Null
     /\ \/ /\ k.told # Null /\ k.told.data = d
           /\ Goes(t, Making(k.admin, d, TRUE, k.told.choice))
        \/ /\ k.told # Null => k.told.data # d
           /\ Goes(t, Making(k.admin, d, FALSE, Unbound))
     /\ UNCHANGED <<tables, known, dialog, task, failed, shared, starts>>

\* create_promo_code
MakePromo(t) ==
  LET k == answer[t] IN
  /\ k.at = "make" /\ CreatePromo(k.row, k.wish)
  /\ Goes(t, [at |-> "clear", admin |-> k.admin])
  /\ UNCHANGED <<category, item, stock, known, dialog, task, failed, shared, starts>>

\* state.clear()
EndPromo(t) ==
  /\ answer[t].at = "clear" /\ Clear(answer[t].admin)
  /\ Goes(t, NoTask)
  /\ UNCHANGED <<tables, known, task, shared, starts>>

\* A statement or a message fails, or the bot restarts; what is bound stays.
AbandonPromo(t) ==
  /\ answer[t] # NoTask /\ Goes(t, NoTask)
  /\ failed' = IF answer[t].at = "bind" THEN failed ELSE failed \cup {answer[t].admin}
  /\ UNCHANGED <<tables, known, dialog, task, shared, starts>>

\* delete_promo_confirmed and delete_promo
DeletePromo ==
  /\ \E p \in Promos : /\ promo[p].code \in Codes
                       /\ promo' = [promo EXCEPT ![p] = NoPromo(Gone)]
                       /\ chosen' = [chosen EXCEPT ![p] = Unbound]
  /\ UNCHANGED <<category, item, stock, known, dialog, task, failed, shared, starts>>

-----------------------------------------------------------------------------
\* The admin API tells no cache.  create_good fails before it reaches the
\* database: Goods takes no is_infinity.

ApiCategory ==
  /\ \/ \E n \in CatNames : /\ CatNamed(n) = {} /\ NewCategory(n)
                            /\ UNCHANGED <<item, stock, promo, chosen>>
     \/ \E c \in Cats, n \in CatNames :
          /\ category[c] \in CatNames /\ CatNamed(n) = {}
          /\ category' = [category EXCEPT ![c] = n] /\ UNCHANGED <<item, stock, promo, chosen>>
     \/ \E c \in Cats : category[c] \in CatNames /\ DropCategory(c)
  /\ UNCHANGED shared

\* A new name of a position may be one that a dialog deals with.
ApiGood ==
  \/ \E i \in Items, n \in ItemNames, c \in Cats :
       /\ item[i].name \in ItemNames /\ ItemNamed(n) \subseteq {i} /\ category[c] \in CatNames
       /\ item' = [item EXCEPT ![i] = [name |-> n, cat |-> c]]
       /\ shared' = shared \cup {item[i].name, n}
       /\ UNCHANGED <<category, stock, promo, chosen>>
  \/ \E i \in Items : item[i].name \in ItemNames /\ ItemDeletable(i) /\ DropItem(i) /\ UNCHANGED shared

\* create_promo binds to nothing; update_promo binds to what it is told.
ApiPromo ==
  /\ \/ \E x \in Codes : CreatePromo([code |-> x, cat |-> Null, item |-> Null], Unbound)
     \/ \E p \in Promos, b \in [cat : {c \in Cats : category[c] \in CatNames} \cup {Null},
                               item : {i \in Items : item[i].name \in ItemNames} \cup {Null}] :
          /\ promo[p].code \in Codes
          /\ promo' = [promo EXCEPT ![p].cat = b.cat, ![p].item = b.item]
          /\ chosen' = [chosen EXCEPT ![p] = b]
  /\ UNCHANGED <<category, item, stock, shared>>

Api ==
  /\ starts < MaxStarts /\ starts' = starts + 1
  /\ ApiCategory \/ ApiGood \/ ApiPromo
  /\ UNCHANGED <<known, dialog, task, failed>>

Dialog(a) ==
  \/ Open(a) \/ Menu(a) \/ CheckItemNameForAdd(a) \/ CheckItemNameForAmount(a)
  \/ CheckItemNameForUpdate(a) \/ CheckCategoryForAddItem(a) \/ AddingValueToPosition(a)
  \/ UpdateItemProcess(a) \/ Collect(a) \/ DeleteItem(a) \/ AddCategory(a)
  \/ DeleteCategory(a) \/ CheckCategoryForUpdate(a) \/ RenameCategory(a)
  \/ PromoCode(a) \/ PromoBinding(a) \/ \E t \in Slots : Finish(a, t)
Handle(t) ==
  CreateItem(t) \/ Purge(t) \/ AddValue(t) \/ UpdateItem(t) \/ Finished(t) \/ Abort(t)
Answering(t) ==
  \/ \E a \in Admins : AnswerPromo(a, t)
  \/ BindPromo(t) \/ ReadPromo(t) \/ MakePromo(t) \/ EndPromo(t) \/ AbandonPromo(t)

Next ==
  \/ \E a \in Admins : Dialog(a) /\ UNCHANGED answer
  \/ \E t \in Slots : Handle(t) /\ UNCHANGED answer
  \/ (DeleteValue \/ DeletePromo \/ Api) /\ UNCHANGED answer
  \/ \E t \in Slots : Answering(t)

Spec == Init /\ [][Next]_vars
-----------------------------------------------------------------------------
(* Properties *)

\* Type invariant, with what refers to a row: no deletion, by a dialog or by the
\* API, in the middle of whatever handler, leaves anything behind.
TypeOK ==
  /\ category \in [Cats -> CatNames \cup {Free, Gone}]
  /\ item \in [Items -> [name : ItemNames \cup {Free, Gone}, cat : Cats \cup {Null}]]
  /\ stock \subseteq [item : Items, value : Values, inf : BOOLEAN]
  /\ promo \in [Promos -> [code : Codes \cup {Free, Gone}, cat : Cats \cup {Null},
                          item : Items \cup {Null}]]
  /\ known \subseteq CatNames \cup ItemNames /\ shared \subseteq ItemNames
  /\ \A a \in Admins : dialog[a].values \subseteq Values
  /\ \A t \in Slots : task[t] = NoTask \/ task[t].left \subseteq Values
  /\ \A t \in Slots : answer[t] = NoTask \/ answer[t].admin \in Admins
  /\ failed \subseteq Admins /\ starts \in 0..MaxStarts
  /\ \A i \in Items : item[i].name \in ItemNames => category[item[i].cat] \in CatNames
  /\ \A r \in stock : item[r.item].name \in ItemNames
  /\ \A p \in Promos : /\ promo[p].cat # Null => category[promo[p].cat] \in CatNames
                       /\ promo[p].item # Null => item[promo[p].item].name \in ItemNames

\* A promo code is bound to what its dialog was told to bind it to, whatever
\* dialogs its administrator opened and left before, and whatever cuts in between
\* the answer and the insertion.  Three cases are let off, where it is bound to
\* what the data happens to hold: another answer of theirs was under way, an
\* answer of theirs had failed and no menu was opened since, or the data was
\* changed before it was read again.
BoundAsChosen ==
  \A p \in Promos : chosen[p] = [cat |-> promo[p].cat, item |-> promo[p].item]

\* An endless row makes a position endless, and its other rows would never be
\* sold.  Both kinds of rows come together only where two dialogs or handlers
\* dealt with the position at once, or the API renamed it.
MixedOnlyByOverlap ==
  \A r, q \in stock : r.item = q.item /\ r.inf /\ ~ q.inf => item[r.item].name \in shared

\* delete.py:37: "Delete a category and all products/stock inside it (CASCADE
\* handles items)".  So a category that is there when it is to be deleted is gone
\* then, with the positions in it.
DeletionCascades ==
  [][\A a \in Admins, n \in CatNames : DeleteNamed(a, n) /\ CatNamed(n) # {} =>
       \A c \in CatNamed(n) : /\ category'[c] = Gone
                               /\ \A i \in ItemIn(c) : item'[i].name = Gone]_vars

=============================================================================
