--------------------------- MODULE CatalogueProofs ---------------------------
(***************************************************************************)
(* Theorems about Catalogue: nothing refers to what is gone, promo codes   *)
(* are bound as chosen, and both kinds of stock come together only by an   *)
(* overlap.                                                                *)
(***************************************************************************)
EXTENDS Catalogue, TLAPS

-----------------------------------------------------------------------------
(* Types: of a dialog and of a handler, by the place they are at. *)

AddPlaces == {"add_category", "add_infinity", "add_values", "add_single"}
UpdPlaces == {"upd_decide", "upd_single", "upd_values"}
PromoPlaces == {"promo_binding", "promo_name"}
Places == {"none", "cat_new", "amount_values"} \cup Starts \cup AddPlaces \cup UpdPlaces
            \cup PromoPlaces

Fields == [at : Places, name : ItemNames \cup {Null}, old : ItemNames \cup CatNames \cup {Null},
           cat : Cats \cup CatNames \cup {Null}, values : SUBSET Values,
           code : Codes \cup {Null}, binding : {Null, "category", "item"},
           boundCat : Cats \cup {Null}, boundItem : Items \cup {Null}]

\* What the data holds where it is used.
Fits(d) ==
  /\ d.at \in AddPlaces \cup {"amount_values"} => d.name \in ItemNames
  /\ d.at \in AddPlaces \ {"add_category"} => d.cat \in CatNames
  /\ d.at \in UpdPlaces => d.old \in ItemNames /\ d.cat \in Cats \cup {Null}
  /\ d.at \in PromoPlaces => d.code \in Codes
Dialogs == {d \in Fields : Fits(d)}

Handler == [at : {"create", "purge", "fill", "meta", "clear"}, admin : Admins,
            kind : {"add", "amount", "update"}, name : ItemNames,
            cat : Cats \cup CatNames \cup {Null}, left : SUBSET Values, inf : BOOLEAN]
Suits(k) ==
  /\ k.at = "create" => k.kind = "add" /\ k.cat \in CatNames
  /\ k.at \in {"purge", "meta"} => k.kind = "update"
  /\ k.kind = "update" => k.cat \in Cats \cup {Null}
Handlers == {k \in Handler : Suits(k)}

Row == [item : Items, value : Values, inf : BOOLEAN]
Position == [name : ItemNames \cup {Free, Gone}, cat : Cats \cup {Null}]
Code == [code : Codes \cup {Free, Gone}, cat : Cats \cup {Null}, item : Items \cup {Null}]
Binding == [cat : Cats \cup {Null}, item : Items \cup {Null}]

\* A handler that makes a promo code, place by place.
Asks == {Null} \cup [choice : Binding, data : Fields]
Answers == [at : {"bind"}, admin : Admins, choice : Binding, told : Asks]
     \cup [at : {"read"}, admin : Admins, told : Asks]
     \cup [at : {"make"}, admin : Admins, row : Code, wish : Binding]
     \cup [at : {"clear"}, admin : Admins]

TableTypes ==
  /\ category \in [Cats -> CatNames \cup {Free, Gone}]
  /\ item \in [Items -> Position]
  /\ stock \subseteq Row
  /\ promo \in [Promos -> Code] /\ chosen \in [Promos -> Binding]
OtherTypes ==
  /\ known \subseteq CatNames \cup ItemNames /\ shared \subseteq ItemNames
  /\ failed \subseteq Admins /\ starts \in 0..MaxStarts
ActorTypes ==
  /\ dialog \in [Admins -> Dialogs]
  /\ task \in [Slots -> {NoTask} \cup Handlers]
AnswerTypes == answer \in [Slots -> {NoTask} \cup Answers]
Types == TableTypes /\ OtherTypes /\ ActorTypes /\ AnswerTypes

\* Nothing refers to a row that is not there.
Refs ==
  /\ \A i \in Items : item[i].name \in ItemNames =>
       item[i].cat \in Cats /\ category[item[i].cat] \in CatNames
  /\ \A r \in stock : item[r.item].name \in ItemNames
  /\ \A p \in Promos : /\ promo[p].cat # Null => category[promo[p].cat] \in CatNames
                       /\ promo[p].item # Null => item[promo[p].item].name \in ItemNames

-----------------------------------------------------------------------------
(* Overlaps: what holds of a position that only one dialog or handler deals *)
(* with.                                                                    *)

RowKinds(n) == {r.inf : r \in {q \in stock : item[q.item].name = n}}

\* What a dialog with data d, and a handler k, deal with.
Deals(d) == CASE d.at \in AddPlaces \cup {"amount_values"} -> {d.name}
              [] d.at \in UpdPlaces -> {d.old}
              [] OTHER -> {}
Works(k) == IF k = NoTask THEN {} ELSE {k.name}

\* A dialog that deals with n, next to its own handler.
Matches(at, k) ==
  /\ at \notin {"add_category", "add_infinity"}
  /\ at \in {"add_values", "amount_values"} => k.kind # "update" /\ ~ k.inf
  /\ at = "add_single" => k.kind # "update" /\ k.inf
  /\ at \in UpdPlaces => k.kind = "update"

\* The rows n may have while a dialog is at some place, or a handler.
Expects(at, n) ==
  /\ at \in {"add_category", "add_infinity"} => ItemNamed(n) = {}
  /\ at \in {"add_values", "amount_values"} => TRUE \notin RowKinds(n)
  /\ at = "add_single" => FALSE \notin RowKinds(n)
Fills(k, n) == k.at \in {"create", "fill"} => (~ k.inf) \notin RowKinds(n)

Orderly(n) ==
  /\ \A t, s \in Slots : n \in InTask(t) \cap InTask(s) => t = s
  /\ \A a, b \in Admins : n \in InDialog(a) \cap InDialog(b) => a = b
  /\ \A a \in Admins, t \in Slots :
       n \in InDialog(a) \cap InTask(t) => Matches(dialog[a].at, task[t])
  /\ \A a \in Admins : n \in InDialog(a) => Expects(dialog[a].at, n)
  /\ \A t \in Slots : n \in InTask(t) => Fills(task[t], n)
  /\ ~ BOOLEAN \subseteq RowKinds(n)
Overlaps == \A n \in ItemNames \ shared : Orderly(n)

\* Promo codes are bound as chosen; those whose answers left nothing behind have
\* nothing in their data; and a handler asks for what it is going to make.
Tidy == {a \in Admins \ failed :
           \A t \in Slots : answer[t] # NoTask /\ answer[t].admin = a => answer[t].at = "bind"}
Held == \A a \in Tidy : dialog[a].boundCat = Null /\ dialog[a].boundItem = Null
Honest(k) ==
  /\ k.at \in {"bind", "read"} /\ k.told # Null =>
       k.told.choice = [cat |-> k.told.data.boundCat, item |-> k.told.data.boundItem]
  /\ k.at = "make" => k.wish = [cat |-> k.row.cat, item |-> k.row.item]
Fine == BoundAsChosen /\ Held
Choices == Fine /\ \A t \in Slots : Honest(answer[t])

-----------------------------------------------------------------------------
(* Types are kept. *)

\* The catalogue begins with its types, and with nothing that refers nowhere.
LEMMA InitTypes == Init => Types /\ Refs
<1> SUFFICES ASSUME Init PROVE Types /\ Refs
  OBVIOUS
<1> USE CatalogueAssumption
<1>1. PICK name \in [Items -> ItemNames \cup {Free}], c \in Cats :
        /\ category[c] = Free => \A i \in Items : name[i] = Free
        /\ item = [i \in Items |-> IF name[i] = Free THEN NoItem(Free)
                                                     ELSE [name |-> name[i], cat |-> c]]
  BY DEF Init
<1>2. item \in [Items -> Position]
  BY <1>1 DEF NoItem, Position
<1>3. \A i \in Items : item[i].name \in ItemNames => item[i].cat = c /\ category[c] # Free
  BY <1>1 DEF NoItem
<1>4. /\ stock \subseteq Row /\ category \in [Cats -> CatNames \cup {Free}]
      /\ \A r \in stock : item[r.item].name \in ItemNames
  BY DEF Init, Row
<1>5. promo = [p \in Promos |-> NoPromo(Free)] /\ chosen = [p \in Promos |-> Unbound]
  BY DEF Init
<1>6. promo \in [Promos -> Code] /\ chosen \in [Promos -> Binding]
  BY <1>5 DEF NoPromo, Unbound, Code, Binding
<1>7. Idle \in Dialogs
  BY DEF Idle, Dialogs, Fields, Fits, Places, AddPlaces, UpdPlaces, PromoPlaces, Starts
<1>8. ActorTypes /\ AnswerTypes
  BY <1>7 DEF Init, ActorTypes, AnswerTypes
<1>9. OtherTypes
  BY DEF Init, OtherTypes
<1>10. Refs
  <2>1. \A i \in Items : item[i].name \in ItemNames =>
          item[i].cat \in Cats /\ category[item[i].cat] \in CatNames
    BY <1>3, <1>4
  <2>2. \A p \in Promos : promo[p].cat = Null /\ promo[p].item = Null
    BY <1>5 DEF NoPromo
  <2> QED BY <1>4, <2>1, <2>2 DEF Refs
<1> QED BY <1>2, <1>4, <1>6, <1>8, <1>9, <1>10 DEF Types, TableTypes

\* A name that was found may be kept.
LEMMA CheckTypes ==
  ASSUME OtherTypes, NEW n \in CatNames \cup ItemNames, NEW found \in BOOLEAN, Check(n, found)
  PROVE known' \subseteq CatNames \cup ItemNames
  BY DEF OtherTypes, Check

\* A dialog goes on to a place where its data fits.
LEMMA GotoTypes ==
  ASSUME ActorTypes, NEW a \in Admins, NEW at \in Places, NEW d \in Fields,
         Fits([d EXCEPT !.at = at]), Goto(a, at, d)
  PROVE dialog' \in [Admins -> Dialogs]
<1>1. [d EXCEPT !.at = at] \in Dialogs
  BY DEF Dialogs, Fields
<1> QED BY <1>1 DEF Goto, ActorTypes

\* Nothing is left of it when it is cleared.
LEMMA ClearTypes ==
  ASSUME ActorTypes, OtherTypes, NEW a \in Admins, Clear(a)
  PROVE dialog' \in [Admins -> Dialogs] /\ failed' \subseteq Admins
<1>1. Idle \in Dialogs
  BY CatalogueAssumption
     DEF Idle, Dialogs, Fields, Fits, Places, AddPlaces, UpdPlaces, PromoPlaces, Starts
<1> QED BY <1>1 DEF Clear, ActorTypes, OtherTypes

\* An administrator's data.
LEMMA DataTypes ==
  ASSUME ActorTypes, NEW a \in Admins PROVE dialog[a] \in Fields /\ Fits(dialog[a])
  BY DEF ActorTypes, Dialogs

\* The start of a dialog, the menu, and the prompts keep the types.
LEMMA PromptTypes ==
  ASSUME Types, NEW a \in Admins,
         \/ Open(a) \/ Menu(a) \/ CheckItemNameForAdd(a) \/ CheckItemNameForAmount(a)
         \/ CheckItemNameForUpdate(a) \/ CheckCategoryForAddItem(a)
         \/ AddingValueToPosition(a) \/ UpdateItemProcess(a) \/ Collect(a)
         \/ CheckCategoryForUpdate(a) \/ PromoCode(a) \/ PromoBinding(a)
  PROVE ActorTypes' /\ OtherTypes'
<1> DEFINE d == dialog[a]
<1>d. d \in Fields /\ Fits(d) /\ ActorTypes /\ OtherTypes /\ TableTypes
  BY DataTypes DEF Types
<1>s. starts + 1 \in Nat /\ starts \in Nat
  BY <1>d, CatalogueAssumption DEF OtherTypes
<1>b. ASSUME NEW n \in ItemNames, Begin(a, n) PROVE shared' \subseteq ItemNames
  BY <1>b, <1>d DEF Begin, OtherTypes
<1>1. CASE Open(a)
  <2>1. PICK at \in Starts : Goto(a, at, d)
    BY <1>1 DEF Open
  <2>2. at \in Places /\ Fits([d EXCEPT !.at = at])
    BY <1>d DEF Starts, Places, Fits, Fields, AddPlaces, UpdPlaces, PromoPlaces
  <2>3. dialog' \in [Admins -> Dialogs]
    BY <1>d, <2>1, <2>2, GotoTypes
  <2>4. starts' \in 0..MaxStarts
    BY <1>1, <1>s, CatalogueAssumption DEF Open
  <2> QED BY <1>1, <1>d, <2>3, <2>4 DEF Open, ActorTypes, OtherTypes
<1>2. CASE Menu(a)
  BY <1>2, <1>d, ClearTypes DEF Menu, ActorTypes, OtherTypes
<1>3. CASE CheckItemNameForAdd(a)
  <2>1. PICK n \in ItemNames, found \in BOOLEAN :
          /\ Check(n, found)
          /\ IF found THEN UNCHANGED <<dialog, shared>>
             ELSE Goto(a, "add_category", [d EXCEPT !.name = n]) /\ Begin(a, n)
    BY <1>3 DEF CheckItemNameForAdd
  <2>2. known' \subseteq CatNames \cup ItemNames /\ shared' \subseteq ItemNames
    BY <1>b, <1>d, <2>1, CheckTypes DEF OtherTypes
  <2>3. dialog' \in [Admins -> Dialogs]
    <3> DEFINE e == [d EXCEPT !.name = n]
    <3>1. e \in Fields /\ Fits([e EXCEPT !.at = "add_category"]) /\ "add_category" \in Places
      BY <1>d DEF Fields, Fits, Places, AddPlaces, UpdPlaces, PromoPlaces
    <3> HIDE DEF e
    <3>2. Goto(a, "add_category", e) => dialog' \in [Admins -> Dialogs]
      BY <1>d, <3>1, GotoTypes
    <3> QED BY <1>d, <2>1, <3>2 DEF e, ActorTypes
  <2> QED BY <1>3, <1>d, <2>2, <2>3 DEF CheckItemNameForAdd, ActorTypes, OtherTypes
<1>4. CASE CheckItemNameForAmount(a)
  <2>1. PICK n \in ItemNames, found \in BOOLEAN :
          /\ Check(n, found)
          /\ IF ~ found \/ Infinite(n) THEN UNCHANGED <<dialog, shared>>
             ELSE Goto(a, "amount_values", [d EXCEPT !.name = n]) /\ Begin(a, n)
    BY <1>4 DEF CheckItemNameForAmount
  <2>2. known' \subseteq CatNames \cup ItemNames /\ shared' \subseteq ItemNames
    BY <1>b, <1>d, <2>1, CheckTypes DEF OtherTypes
  <2>3. dialog' \in [Admins -> Dialogs]
    <3> DEFINE e == [d EXCEPT !.name = n]
    <3>1. e \in Fields /\ Fits([e EXCEPT !.at = "amount_values"]) /\ "amount_values" \in Places
      BY <1>d DEF Fields, Fits, Places, AddPlaces, UpdPlaces, PromoPlaces
    <3> HIDE DEF e
    <3>2. Goto(a, "amount_values", e) => dialog' \in [Admins -> Dialogs]
      BY <1>d, <3>1, GotoTypes
    <3> QED BY <1>d, <2>1, <3>2 DEF e, ActorTypes
  <2> QED BY <1>4, <1>d, <2>2, <2>3 DEF CheckItemNameForAmount, ActorTypes, OtherTypes
<1>5. CASE CheckItemNameForUpdate(a)
  <2>1. PICK n \in ItemNames, found \in BOOLEAN :
          /\ Check(n, found)
          /\ IF ~ found THEN UNCHANGED <<dialog, shared>>
             ELSE /\ Begin(a, n)
                  /\ \E c \in IF ItemNamed(n) = {} THEN {Null}
                               ELSE {item[i].cat : i \in ItemNamed(n)} :
                       Goto(a, "upd_decide", [d EXCEPT !.old = n, !.cat = c])
    BY <1>5 DEF CheckItemNameForUpdate
  <2>2. known' \subseteq CatNames \cup ItemNames /\ shared' \subseteq ItemNames
    BY <1>b, <1>d, <2>1, CheckTypes DEF OtherTypes
  <2>3. ASSUME NEW c \in Cats \cup {Null}, Goto(a, "upd_decide", [d EXCEPT !.old = n, !.cat = c])
        PROVE dialog' \in [Admins -> Dialogs]
    <3> DEFINE e == [d EXCEPT !.old = n, !.cat = c]
    <3>1. e \in Fields /\ e.old = n /\ e.cat = c
      BY <1>d DEF Fields
    <3>2. Goto(a, "upd_decide", e)
      BY <2>3
    <3> HIDE DEF e
    <3>3. Fits([e EXCEPT !.at = "upd_decide"]) /\ "upd_decide" \in Places
      BY <3>1 DEF Fields, Fits, Places, AddPlaces, UpdPlaces, PromoPlaces
    <3> QED BY <1>d, <3>1, <3>2, <3>3, GotoTypes
  <2>4. (IF ItemNamed(n) = {} THEN {Null} ELSE {item[i].cat : i \in ItemNamed(n)})
          \subseteq Cats \cup {Null}
    BY <1>d DEF TableTypes, Position, ItemNamed
  <2>5. dialog' \in [Admins -> Dialogs]
    BY <1>d, <2>1, <2>3, <2>4 DEF ActorTypes
  <2> QED BY <1>5, <1>d, <2>2, <2>5 DEF CheckItemNameForUpdate, ActorTypes, OtherTypes
<1>6. CASE CheckCategoryForAddItem(a)
  <2>1. PICK n \in CatNames, found \in BOOLEAN :
          /\ Check(n, found)
          /\ IF found THEN Goto(a, "add_infinity", [d EXCEPT !.cat = n]) ELSE UNCHANGED dialog
    BY <1>6 DEF CheckCategoryForAddItem
  <2>2. known' \subseteq CatNames \cup ItemNames
    BY <1>d, <2>1, CheckTypes
  <2>3. dialog' \in [Admins -> Dialogs]
    <3> DEFINE e == [d EXCEPT !.cat = n]
    <3>1. e \in Fields /\ Fits([e EXCEPT !.at = "add_infinity"]) /\ "add_infinity" \in Places
      BY <1>6, <1>d
         DEF CheckCategoryForAddItem, At, Fields, Fits, Places, AddPlaces, UpdPlaces, PromoPlaces
    <3> HIDE DEF e
    <3>2. Goto(a, "add_infinity", e) => dialog' \in [Admins -> Dialogs]
      BY <1>d, <3>1, GotoTypes
    <3> QED BY <1>d, <2>1, <3>2 DEF e, ActorTypes
  <2> QED BY <1>6, <1>d, <2>2, <2>3 DEF CheckCategoryForAddItem, ActorTypes, OtherTypes
<1>7. CASE AddingValueToPosition(a) \/ UpdateItemProcess(a)
  <2>1. PICK at \in AddPlaces \cup UpdPlaces :
          Goto(a, at, d) /\ at \in Places /\ Fits([d EXCEPT !.at = at])
    BY <1>7, <1>d DEF AddingValueToPosition, UpdateItemProcess, At, Fields, Fits, Places,
                      AddPlaces, UpdPlaces, PromoPlaces
  <2>2. dialog' \in [Admins -> Dialogs]
    BY <1>d, <2>1, GotoTypes
  <2> QED BY <1>7, <1>d, <2>2 DEF AddingValueToPosition, UpdateItemProcess, ActorTypes, OtherTypes
<1>8. CASE Collect(a)
  <2>1. PICK v \in Values : dialog' = [dialog EXCEPT ![a].values = @ \cup {v}]
    BY <1>8 DEF Collect
  <2>2. [d EXCEPT !.values = @ \cup {v}] \in Dialogs
    BY <1>d DEF Dialogs, Fields, Fits
  <2>3. dialog' \in [Admins -> Dialogs]
    BY <1>d, <2>1, <2>2 DEF ActorTypes
  <2> QED BY <1>8, <1>d, <2>3 DEF Collect, ActorTypes, OtherTypes
<1>9. CASE CheckCategoryForUpdate(a)
  <2>1. PICK n \in CatNames, found \in BOOLEAN :
          /\ Check(n, found)
          /\ IF found THEN Goto(a, "cat_new", [d EXCEPT !.old = n]) /\ UNCHANGED failed
                      ELSE Clear(a)
    BY <1>9 DEF CheckCategoryForUpdate
  <2>2. known' \subseteq CatNames \cup ItemNames
    BY <1>d, <2>1, CheckTypes
  <2>3. dialog' \in [Admins -> Dialogs] /\ failed' \subseteq Admins
    <3> DEFINE e == [d EXCEPT !.old = n]
    <3>1. e \in Fields /\ Fits([e EXCEPT !.at = "cat_new"]) /\ "cat_new" \in Places
      BY <1>d DEF Fields, Fits, Places, AddPlaces, UpdPlaces, PromoPlaces
    <3> HIDE DEF e
    <3>2. Goto(a, "cat_new", e) => dialog' \in [Admins -> Dialogs]
      BY <1>d, <3>1, GotoTypes
    <3> QED BY <1>d, <2>1, <3>2, ClearTypes DEF e, OtherTypes
  <2> QED BY <1>9, <1>d, <2>2, <2>3 DEF CheckCategoryForUpdate, ActorTypes, OtherTypes
<1>10. CASE PromoCode(a)
  <2>1. PICK x \in Codes : Goto(a, "promo_binding", [d EXCEPT !.code = x])
    BY <1>10 DEF PromoCode
  <2>2. dialog' \in [Admins -> Dialogs]
    <3> DEFINE e == [d EXCEPT !.code = x]
    <3>1. e \in Fields /\ Fits([e EXCEPT !.at = "promo_binding"]) /\ "promo_binding" \in Places
      BY <1>d DEF Fields, Fits, Places, AddPlaces, UpdPlaces, PromoPlaces
    <3>2. Goto(a, "promo_binding", e)
      BY <2>1
    <3> HIDE DEF e
    <3> QED BY <1>d, <3>1, <3>2, GotoTypes
  <2> QED BY <1>10, <1>d, <2>2 DEF PromoCode, ActorTypes, OtherTypes
<1>11. CASE PromoBinding(a)
  <2>1. PICK x \in {"category", "item"} : Goto(a, "promo_name", [d EXCEPT !.binding = x])
    BY <1>11 DEF PromoBinding
  <2>2. dialog' \in [Admins -> Dialogs]
    <3> DEFINE e == [d EXCEPT !.binding = x]
    <3>1. e \in Fields /\ Fits([e EXCEPT !.at = "promo_name"]) /\ "promo_name" \in Places
      BY <1>11, <1>d DEF PromoBinding, At, Fields, Fits, Places, AddPlaces, UpdPlaces, PromoPlaces
    <3>2. Goto(a, "promo_name", e)
      BY <2>1
    <3> HIDE DEF e
    <3> QED BY <1>d, <3>1, <3>2, GotoTypes
  <2> QED BY <1>11, <1>d, <2>2 DEF PromoBinding, ActorTypes, OtherTypes
<1> QED BY <1>1, <1>2, <1>3, <1>4, <1>5, <1>6, <1>7, <1>8, <1>9, <1>10, <1>11

-----------------------------------------------------------------------------
(* The tables: types, and nothing that refers nowhere *)

Tables == TableTypes /\ Refs

\* What no step touches keeps its types, and what it refers to.
LEMMA SameTables == ASSUME Tables, UNCHANGED tables PROVE Tables'
  BY DEF Tables, TableTypes, Refs, tables

\* A foreign key to c or i becomes Null, and every other one stays.
LEMMA UnbindResult ==
  ASSUME TableTypes, NEW c \in Cats \cup {Null}, NEW i \in Items \cup {Null}, Unbind(c, i)
  PROVE /\ promo' \in [Promos -> Code] /\ chosen' \in [Promos -> Binding]
        /\ \A p \in Promos :
             /\ promo'[p].cat = IF promo[p].cat = c THEN Null ELSE promo[p].cat
             /\ promo'[p].item = IF promo[p].item = i THEN Null ELSE promo[p].item
             /\ promo'[p].code = promo[p].code
             /\ chosen'[p].cat = IF chosen[p].cat = c THEN Null ELSE chosen[p].cat
             /\ chosen'[p].item = IF chosen[p].item = i THEN Null ELSE chosen[p].item
<1> DEFINE New(b) == [b EXCEPT !.cat = IF @ = c THEN Null ELSE @,
                               !.item = IF @ = i THEN Null ELSE @]
<1>1. promo' = [p \in Promos |-> New(promo[p])] /\ chosen' = [p \in Promos |-> New(chosen[p])]
  BY DEF Unbind
<1>2. \A b \in Code : /\ New(b) \in Code /\ New(b).code = b.code
                      /\ New(b).cat = IF b.cat = c THEN Null ELSE b.cat
                      /\ New(b).item = IF b.item = i THEN Null ELSE b.item
  BY DEF Code
<1>3. \A b \in Binding : /\ New(b) \in Binding
                         /\ New(b).cat = IF b.cat = c THEN Null ELSE b.cat
                         /\ New(b).item = IF b.item = i THEN Null ELSE b.item
  BY DEF Binding
<1>4. \A p \in Promos : promo[p] \in Code /\ chosen[p] \in Binding
  BY DEF TableTypes
<1> HIDE DEF New
<1> QED BY <1>1, <1>2, <1>3, <1>4

\* A category goes only when no position refers to it.
LEMMA DropCategoryTables ==
  ASSUME Tables, NEW c \in Cats, DropCategory(c) PROVE Tables'
<1> USE CatalogueAssumption
<1>1. TableTypes /\ Refs /\ Unbind(c, Null)
  BY DEF Tables, DropCategory
<1>2. TableTypes'
  BY <1>1, UnbindResult DEF DropCategory, TableTypes
<1>3. \A i \in Items : item'[i] = item[i] /\ item[i].cat # c
  BY <1>1 DEF DropCategory, CategoryDeletable, ItemIn
<1>4. \A e \in Cats \ {c} : category'[e] = category[e]
  BY <1>1 DEF DropCategory, TableTypes
<1>5. \A i \in Items : item'[i].name \in ItemNames =>
        item'[i].cat \in Cats /\ category'[item'[i].cat] \in CatNames
  BY <1>1, <1>3, <1>4 DEF Refs
<1>6. \A p \in Promos : /\ promo'[p].cat \in Cats \cup {Null} /\ promo'[p].cat # c
                        /\ promo'[p].cat # Null => promo'[p].cat = promo[p].cat
                        /\ promo'[p].item = promo[p].item
  BY <1>1, UnbindResult DEF TableTypes, Code
<1>7. \A p \in Promos : promo'[p].cat # Null => category'[promo'[p].cat] \in CatNames
  BY <1>1, <1>4, <1>6 DEF Refs
<1> QED BY <1>1, <1>2, <1>5, <1>6, <1>7 DEF Tables, Refs, DropCategory

\* A position goes with its stock, and the codes made for it are unbound.
LEMMA DropItemTables ==
  ASSUME Tables, NEW i \in Items, DropItem(i) PROVE Tables'
<1> USE CatalogueAssumption
<1>1. TableTypes /\ Refs /\ Unbind(Null, i)
  BY DEF Tables, DropItem
<1>2. NoItem(Gone) \in Position /\ NoItem(Gone).name = Gone
  BY DEF NoItem, Position
<1>3. TableTypes'
  BY <1>1, <1>2, UnbindResult DEF DropItem, TableTypes
<1>4. /\ item'[i].name = Gone /\ \A e \in Items \ {i} : item'[e] = item[e]
      /\ category' = category /\ stock' = {r \in stock : r.item # i}
  BY <1>1, <1>2 DEF DropItem, TableTypes, RowsOf
<1>5. \A r \in stock' : item'[r.item].name \in ItemNames
  BY <1>1, <1>4 DEF Refs, TableTypes, Row
<1>6. \A p \in Promos : /\ promo'[p].item \in Items \cup {Null} /\ promo'[p].item # i
                        /\ promo'[p].item # Null => promo'[p].item = promo[p].item
                        /\ promo'[p].cat = promo[p].cat
  BY <1>1, UnbindResult DEF TableTypes, Code
<1>7. \A p \in Promos : promo'[p].item # Null => item'[promo'[p].item].name \in ItemNames
  BY <1>1, <1>4, <1>6 DEF Refs
<1>8. \A e \in Items : item'[e].name \in ItemNames =>
        item'[e].cat \in Cats /\ category'[item'[e].cat] \in CatNames
  BY <1>1, <1>4 DEF Refs
<1> QED BY <1>1, <1>3, <1>4, <1>5, <1>6, <1>7, <1>8 DEF Tables, Refs

\* A category that is there may get another name, and a new one may come.
LEMMA NameCategoryTables ==
  ASSUME Tables, UNCHANGED <<item, stock, promo, chosen>>,
         category' \in [Cats -> CatNames \cup {Free, Gone}],
         \A c \in Cats : category[c] \in CatNames => category'[c] \in CatNames
  PROVE Tables'
<1> USE CatalogueAssumption
<1>1. TableTypes'
  BY DEF Tables, TableTypes
<1>2. \A p \in Promos : promo[p].cat \in Cats \cup {Null}
  BY DEF Tables, TableTypes, Code
<1> QED BY <1>1, <1>2 DEF Tables, Refs

\* A position is made, or gets another name, in a category that is there.
LEMMA PlaceItemTables ==
  ASSUME Tables, NEW i \in Items, NEW n \in ItemNames, NEW c \in Cats, category[c] \in CatNames,
         item' = [item EXCEPT ![i] = [name |-> n, cat |-> c]],
         UNCHANGED <<category, stock, promo, chosen>>
  PROVE Tables'
<1>1. [name |-> n, cat |-> c] \in Position
  BY DEF Position
<1>2. TableTypes'
  BY <1>1 DEF Tables, TableTypes
<1>3. item'[i] = [name |-> n, cat |-> c] /\ \A e \in Items \ {i} : item'[e] = item[e]
  BY DEF Tables, TableTypes
<1>4. \A r \in stock : r.item \in Items
  BY DEF Tables, TableTypes, Row
<1>5. \A p \in Promos : promo[p].item \in Items \cup {Null}
  BY DEF Tables, TableTypes, Code
<1> QED BY <1>2, <1>3, <1>4, <1>5 DEF Tables, Refs

\* Rows come only to positions that are there.
LEMMA StockTables ==
  ASSUME Tables, stock' \subseteq Row, \A r \in stock' : item[r.item].name \in ItemNames,
         UNCHANGED <<category, item, promo, chosen>>
  PROVE Tables'
  BY DEF Tables, TableTypes, Refs

\* A code is made with foreign keys to what is there.
LEMMA CreatePromoTables ==
  ASSUME Tables, NEW x \in Code, NEW wish \in Binding, CreatePromo(x, wish),
         UNCHANGED <<category, item, stock>>
  PROVE Tables'
<1>1. CASE PromoNamed(x.code) # {}
  BY <1>1, SameTables DEF CreatePromo, tables
<1>2. CASE PromoNamed(x.code) = {}
  <2>1. PICK p \in Promos :
          /\ x.cat # Null => category[x.cat] \in CatNames
          /\ x.item # Null => item[x.item].name \in ItemNames
          /\ promo' = [promo EXCEPT ![p] = x] /\ chosen' = [chosen EXCEPT ![p] = wish]
    BY <1>2 DEF CreatePromo
  <2>2. TableTypes'
    BY <2>1 DEF Tables, TableTypes
  <2>3. promo'[p] = x /\ \A q \in Promos \ {p} : promo'[q] = promo[q]
    BY <2>1 DEF Tables, TableTypes
  <2> QED BY <2>1, <2>2, <2>3 DEF Tables, Refs
<1> QED BY <1>1, <1>2

\* A code that is there is bound to what is there, or to nothing.
LEMMA BindTables ==
  ASSUME Tables, NEW p \in Promos, NEW x \in Code, NEW b \in Binding,
         x.cat # Null => category[x.cat] \in CatNames,
         x.item # Null => item[x.item].name \in ItemNames,
         promo' = [promo EXCEPT ![p] = x], chosen' = [chosen EXCEPT ![p] = b],
         UNCHANGED <<category, item, stock>>
  PROVE Tables'
<1>1. TableTypes'
  BY DEF Tables, TableTypes
<1>2. promo'[p] = x /\ \A q \in Promos \ {p} : promo'[q] = promo[q]
  BY DEF Tables, TableTypes
<1> QED BY <1>1, <1>2 DEF Tables, Refs

\* Nothing is found by an id where names are: update_item changes no position.
LEMMA UpdateItemIdles ==
  ASSUME Types, NEW t \in Slots, UpdateItem(t) PROVE UNCHANGED item
<1>1. task[t] \in Handlers /\ task[t].at = "meta"
  BY DEF UpdateItem, Types, ActorTypes, NoTask
<1>2. task[t].cat \in Cats \cup {Null}
  BY <1>1 DEF Handlers, Suits
<1>3. CategoryOf(task[t].cat) = {}
  BY <1>2, CatalogueAssumption DEF CategoryOf, CatNamed, Types, TableTypes
<1> QED BY <1>3 DEF UpdateItem

\* A handler that is at work has its data.
LEMMA TaskTypes ==
  ASSUME Types, NEW t \in Slots, task[t].at # "none"
  PROVE task[t] \in Handlers /\ task[t] # NoTask
  BY DEF Types, ActorTypes, NoTask

\* The transactions of the handlers.
LEMMA HandlerTables ==
  ASSUME Types, Refs, NEW t \in Slots,
         \/ CreateItem(t) \/ Purge(t) \/ AddValue(t) \/ UpdateItem(t)
         \/ Finished(t) \/ Abort(t)
  PROVE Tables'
<1>0. Tables /\ TableTypes
  BY DEF Tables, Types
<1> DEFINE k == task[t]
<1>1. CASE CreateItem(t)
  <2>1. k \in Handlers /\ k.at = "create"
    BY <1>1, TaskTypes DEF CreateItem
  <2>2. CASE UNCHANGED item
    BY <1>0, <1>1, <2>2, SameTables DEF CreateItem, tables
  <2>3. ASSUME NEW i \in Items, NEW c \in CatNamed(k.cat),
               item' = [item EXCEPT ![i] = [name |-> k.name, cat |-> c]]
        PROVE Tables'
    <3>1. c \in Cats /\ category[c] \in CatNames /\ k.name \in ItemNames
      BY <2>1 DEF CatNamed, Handlers, Handler, Suits
    <3> QED BY <1>0, <1>1, <2>3, <3>1, PlaceItemTables DEF CreateItem
  <2> QED BY <1>1, <2>2, <2>3 DEF CreateItem
<1>2. CASE Purge(t)
  BY <1>0, <1>2, StockTables DEF Purge, Tables, TableTypes, Refs
<1>3. CASE AddValue(t)
  <2>1. k \in Handlers
    BY <1>3, TaskTypes DEF AddValue
  <2>2. k.left \subseteq Values /\ k.inf \in BOOLEAN /\ k.name \in ItemNames
    BY <2>1 DEF Handlers, Handler
  <2>3. PICK v \in k.left :
          LET new == {i \in ItemNamed(k.name) : \A r \in RowsOf(i) : r.value # v}
          IN stock' = stock \cup {[item |-> i, value |-> v, inf |-> k.inf] : i \in new}
    BY <1>3 DEF AddValue
  <2>4. \A i \in ItemNamed(k.name) : i \in Items /\ item[i].name \in ItemNames
    BY <2>2 DEF ItemNamed
  <2>5. stock' \subseteq Row
    BY <1>0, <2>2, <2>3, <2>4 DEF TableTypes, Row
  <2>6. \A r \in stock' : item[r.item].name \in ItemNames
    BY <2>3, <2>4 DEF Refs
  <2> QED BY <1>0, <1>3, <2>5, <2>6, StockTables DEF AddValue
<1>4. CASE UpdateItem(t)
  BY <1>0, <1>4, UpdateItemIdles, SameTables DEF UpdateItem, tables
<1>5. CASE Finished(t) \/ Abort(t)
  BY <1>0, <1>5, SameTables DEF Finished, Abort
<1> QED BY <1>1, <1>2, <1>3, <1>4, <1>5

\* The dialogs that delete, and those about categories.
LEMMA CategoryTables ==
  ASSUME Types, Refs,
         \/ \E a \in Admins : \/ DeleteItem(a) \/ AddCategory(a) \/ DeleteCategory(a)
                              \/ RenameCategory(a)
         \/ DeleteValue
  PROVE Tables'
<1>0. Tables /\ TableTypes
  BY DEF Tables, Types
<1>n. ASSUME NEW n \in CatNames, NewCategory(n), UNCHANGED <<item, stock, promo, chosen>>
      PROVE Tables'
  <2>1. PICK c \in Cats : category[c] = Free /\ category' = [category EXCEPT ![c] = n]
    BY <1>n DEF NewCategory
  <2>2. category' \in [Cats -> CatNames \cup {Free, Gone}]
    BY <1>0, <2>1 DEF TableTypes
  <2>3. \A e \in Cats : category[e] \in CatNames => category'[e] \in CatNames
    BY <1>0, <2>1 DEF TableTypes
  <2> QED BY <1>0, <1>n, <2>2, <2>3, NameCategoryTables
<1>1. ASSUME NEW a \in Admins, DeleteItem(a) PROVE Tables'
  BY <1>0, <1>1, SameTables, DropItemTables DEF DeleteItem, ItemNamed
<1>2. ASSUME NEW a \in Admins, AddCategory(a) PROVE Tables'
  BY <1>0, <1>2, <1>n, SameTables DEF AddCategory, tables
<1>3. ASSUME NEW a \in Admins, DeleteCategory(a) PROVE Tables'
  BY <1>0, <1>3, SameTables, DropCategoryTables DEF DeleteCategory, DeleteNamed, CatNamed
<1>4. ASSUME NEW a \in Admins, RenameCategory(a) PROVE Tables'
  <2>1. PICK n \in CatNames, found \in BOOLEAN :
          category' = [c \in Cats |-> IF ~ found /\ c \in CatNamed(dialog[a].old)
                                        THEN n ELSE category[c]]
    BY <1>4 DEF RenameCategory
  <2>2. category' \in [Cats -> CatNames \cup {Free, Gone}]
    BY <1>0, <2>1 DEF TableTypes
  <2>3. \A e \in Cats : category[e] \in CatNames => category'[e] \in CatNames
    BY <2>1
  <2> QED BY <1>0, <1>4, <2>2, <2>3, NameCategoryTables DEF RenameCategory
<1>5. CASE DeleteValue
  BY <1>0, <1>5, StockTables DEF DeleteValue, TableTypes, Refs
<1> QED BY <1>1, <1>2, <1>3, <1>4, <1>5

\* A promo code that is deleted takes what it is bound to with it.
LEMMA DeletePromoTables ==
  ASSUME Types, Refs, DeletePromo PROVE Tables'
<1>1. Tables
  BY DEF Tables, Types
<1>2. PICK p \in Promos : /\ promo' = [promo EXCEPT ![p] = NoPromo(Gone)]
                          /\ chosen' = [chosen EXCEPT ![p] = Unbound]
  BY DEF DeletePromo
<1>3. /\ NoPromo(Gone) \in Code /\ NoPromo(Gone).cat = Null /\ NoPromo(Gone).item = Null
      /\ Unbound \in Binding
  BY DEF NoPromo, Code, Unbound, Binding
<1> QED BY <1>1, <1>2, <1>3, BindTables DEF DeletePromo

\* The admin API.
LEMMA ApiTables ==
  ASSUME Types, Refs, Api PROVE Tables'
<1> USE CatalogueAssumption
<1>0. Tables /\ TableTypes
  BY DEF Tables, Types
<1>1. CASE ApiCategory
  <2>1. ASSUME NEW n \in CatNames, NEW c \in Cats, category' = [category EXCEPT ![c] = n],
               UNCHANGED <<item, stock, promo, chosen>>
        PROVE Tables'
    <3>1. category' \in [Cats -> CatNames \cup {Free, Gone}]
      BY <1>0, <2>1 DEF TableTypes
    <3>2. \A e \in Cats : category[e] \in CatNames => category'[e] \in CatNames
      BY <1>0, <2>1 DEF TableTypes
    <3> QED BY <1>0, <2>1, <3>1, <3>2, NameCategoryTables
  <2> QED BY <1>0, <1>1, <2>1, DropCategoryTables DEF ApiCategory, NewCategory
<1>2. CASE ApiGood
  BY <1>0, <1>2, PlaceItemTables, DropItemTables DEF ApiGood
<1>3. CASE ApiPromo
  <2>1. ASSUME NEW x \in Codes, CreatePromo([code |-> x, cat |-> Null, item |-> Null], Unbound)
        PROVE Tables'
    <3> DEFINE new == [code |-> x, cat |-> Null, item |-> Null]
    <3>1. new \in Code /\ Unbound \in Binding
      BY DEF Code, Unbound, Binding
    <3>2. CreatePromo(new, Unbound) /\ UNCHANGED <<category, item, stock>>
      BY <1>3, <2>1 DEF ApiPromo
    <3> HIDE DEF new
    <3> QED BY <1>0, <3>1, <3>2, CreatePromoTables
  <2>2. ASSUME NEW p \in Promos,
               NEW b \in [cat : {c \in Cats : category[c] \in CatNames} \cup {Null},
                          item : {i \in Items : item[i].name \in ItemNames} \cup {Null}],
               promo' = [promo EXCEPT ![p].cat = b.cat, ![p].item = b.item],
               chosen' = [chosen EXCEPT ![p] = b]
        PROVE Tables'
    <3> DEFINE x == [promo[p] EXCEPT !.cat = b.cat, !.item = b.item]
    <3>1. promo[p] \in Code /\ b \in Binding
      BY <1>0 DEF TableTypes, Binding
    <3>2. x \in Code /\ x.cat = b.cat /\ x.item = b.item
      BY <3>1 DEF Code, Binding
    <3>3. promo' = [promo EXCEPT ![p] = x]
      BY <1>0, <2>2 DEF TableTypes
    <3> HIDE DEF x
    <3>4. /\ x.cat # Null => category[x.cat] \in CatNames
          /\ x.item # Null => item[x.item].name \in ItemNames
      BY <3>2
    <3> QED BY <1>0, <1>3, <2>2, <3>1, <3>2, <3>3, <3>4, BindTables DEF ApiPromo
  <2> QED BY <1>3, <2>1, <2>2 DEF ApiPromo
<1> QED BY <1>1, <1>2, <1>3 DEF Api

-----------------------------------------------------------------------------
(* The dialogs and the handlers *)

\* A handler that goes on is of its type, if it was given what its place needs.
LEMMA ResumeTypes ==
  ASSUME ActorTypes, NEW t \in Slots, NEW k \in Handlers, Resume(t, k)
  PROVE task' \in [Slots -> {NoTask} \cup Handlers]
<1> DEFINE e == IF k.at # "fill" \/ k.left # {} THEN k
                  ELSE [k EXCEPT !.at = IF k.kind = "update" THEN "meta" ELSE "clear"]
<1>1. e \in Handlers
  <2>1. k \in Handler /\ Suits(k)
    BY DEF Handlers
  <2>2. CASE k.at = "fill" /\ k.kind = "update"
    <3> DEFINE u == [k EXCEPT !.at = "meta"]
    <3>1. u \in Handler /\ u.at = "meta" /\ u.kind = "update" /\ u.cat = k.cat
      BY <2>1, <2>2 DEF Handler
    <3> HIDE DEF u
    <3>2. u \in Handlers
      BY <2>1, <2>2, <3>1 DEF Handlers, Suits
    <3> QED BY <2>2, <3>2 DEF u
  <2>3. CASE k.at = "fill" /\ k.kind # "update"
    <3> DEFINE u == [k EXCEPT !.at = "clear"]
    <3>1. u \in Handler /\ u.at = "clear" /\ u.kind = k.kind
      BY <2>1, <2>3 DEF Handler
    <3> HIDE DEF u
    <3>2. u \in Handlers
      BY <2>1, <2>3, <3>1 DEF Handlers, Suits
    <3> QED BY <2>3, <3>2 DEF u
  <2> QED BY <2>2, <2>3
<1>2. task' = [task EXCEPT ![t] = e]
  BY DEF Resume
<1> HIDE DEF e
<1> QED BY <1>1, <1>2 DEF ActorTypes

\* A dialog has what the handler that ends it needs.
LEMMA FinishTypes ==
  ASSUME Types, NEW a \in Admins, NEW t \in Slots, Finish(a, t)
  PROVE ActorTypes' /\ OtherTypes'
<1> DEFINE d == dialog[a]
<1>0. d \in Fields /\ Fits(d) /\ ActorTypes /\ OtherTypes
  BY DataTypes DEF Types
<1>1. ASSUME NEW first \in {"create", "purge", "fill", "meta"},
             NEW kind \in {"add", "amount", "update"}, NEW values \in SUBSET Values,
             NEW inf \in BOOLEAN, Run(t, a, first, kind, values, inf),
             kind = "update" => d.at \in UpdPlaces,
             kind # "update" => d.at \in AddPlaces \cup {"amount_values"},
             first = "create" => kind = "add" /\ d.at \in AddPlaces \ {"add_category"},
             first \in {"purge", "meta"} => kind = "update"
      PROVE task' \in [Slots -> {NoTask} \cup Handlers] /\ shared' \subseteq ItemNames
  <2> DEFINE n == IF kind = "update" THEN d.old ELSE d.name
             k == [at |-> first, admin |-> a, kind |-> kind, name |-> n, cat |-> d.cat,
                   left |-> values, inf |-> inf]
  <2>1. n \in ItemNames
    BY <1>0, <1>1 DEF Fits
  <2>2. /\ Resume(t, k)
        /\ shared' = IF n \in UNION {InTask(s) : s \in Slots} THEN shared \cup {n} ELSE shared
    BY <1>1 DEF Run
  <2>3. k \in Handlers
    <3>1. k \in Handler
      BY <1>0, <2>1 DEF Handler, Fields
    <3>2. Suits(k)
      BY <1>0, <1>1 DEF Suits, Fits
    <3> QED BY <3>1, <3>2 DEF Handlers
  <2> HIDE DEF k, n
  <2> QED BY <1>0, <2>1, <2>2, <2>3, ResumeTypes DEF OtherTypes
<1>2. task' \in [Slots -> {NoTask} \cup Handlers] /\ shared' \subseteq ItemNames
  <2>0. d.values \in SUBSET Values
    BY <1>0 DEF Fields
  <2>1. CASE FinishAddingItems(a, t)
    BY <1>1, <2>0, <2>1 DEF FinishAddingItems, At, AddPlaces
  <2>2. CASE UpdatingItemAmount(a, t)
    BY <1>1, <2>0, <2>2 DEF UpdatingItemAmount, At
  <2>3. CASE UpdateItemNoInfinity(a, t)
    BY <1>1, <2>0, <2>3 DEF UpdateItemNoInfinity, At, UpdPlaces
  <2>4. CASE FinishAddingItem(a, t)
    <3>1. PICK v \in Values : Run(t, a, "create", "add", {v}, TRUE)
      BY <2>4 DEF FinishAddingItem
    <3>2. {v} \in SUBSET Values
      OBVIOUS
    <3> QED BY <1>1, <2>4, <3>1, <3>2 DEF FinishAddingItem, At, AddPlaces
  <2>5. CASE UpdateItemInfinity(a, t)
    <3>1. PICK v \in Values : Run(t, a, "purge", "update", {v}, TRUE)
      BY <2>5 DEF UpdateItemInfinity
    <3>2. {v} \in SUBSET Values
      OBVIOUS
    <3> QED BY <1>1, <2>5, <3>1, <3>2 DEF UpdateItemInfinity, At, UpdPlaces
  <2>6. CASE At(a, "upd_decide") /\ Run(t, a, "meta", "update", {}, FALSE)
    BY <1>1, <2>6 DEF At, UpdPlaces
  <2> QED BY <2>1, <2>2, <2>3, <2>4, <2>5, <2>6 DEF Finish
<1> QED BY <1>0, <1>2 DEF Finish, ActorTypes, OtherTypes

\* The steps of a handler keep it of its type.
LEMMA HandlerTypes ==
  ASSUME Types, NEW t \in Slots,
         \/ CreateItem(t) \/ Purge(t) \/ AddValue(t) \/ UpdateItem(t)
         \/ Finished(t) \/ Abort(t)
  PROVE ActorTypes' /\ OtherTypes'
<1> DEFINE k == task[t]
<1>0. ActorTypes /\ OtherTypes
  BY DEF Types
<1>1. CASE CreateItem(t) \/ Purge(t)
  <2>1. k \in Handlers
    BY <1>1, TaskTypes DEF CreateItem, Purge
  <2> DEFINE e == [k EXCEPT !.at = "fill"]
  <2>2. e \in Handler /\ e.at = "fill" /\ e.kind = k.kind /\ e.cat = k.cat
    BY <2>1 DEF Handlers, Handler
  <2>3. Resume(t, e)
    BY <1>1 DEF CreateItem, Purge, Step
  <2> HIDE DEF e
  <2>4. e \in Handlers
    BY <2>1, <2>2 DEF Handlers, Suits
  <2>5. task' \in [Slots -> {NoTask} \cup Handlers]
    BY <1>0, <2>3, <2>4, ResumeTypes
  <2> QED BY <1>0, <1>1, <2>5 DEF CreateItem, Purge, ActorTypes, OtherTypes
<1>2. CASE AddValue(t)
  <2>1. k \in Handlers /\ k.at = "fill"
    BY <1>2, TaskTypes DEF AddValue
  <2>2. PICK v \in k.left : Resume(t, [k EXCEPT !.left = @ \ {v}])
    BY <1>2 DEF AddValue
  <2> DEFINE e == [k EXCEPT !.left = @ \ {v}]
  <2>3. e \in Handler /\ e.at = "fill" /\ e.kind = k.kind /\ e.cat = k.cat
    BY <2>1 DEF Handlers, Handler
  <2>4. Resume(t, e)
    BY <2>2
  <2> HIDE DEF e
  <2>5. e \in Handlers
    BY <2>1, <2>3 DEF Handlers, Suits
  <2>6. task' \in [Slots -> {NoTask} \cup Handlers]
    BY <1>0, <2>4, <2>5, ResumeTypes
  <2> QED BY <1>0, <1>2, <2>6 DEF AddValue, ActorTypes, OtherTypes
<1>3. CASE UpdateItem(t)
  <2>1. k \in Handlers
    BY <1>3, TaskTypes DEF UpdateItem
  <2> DEFINE e == [k EXCEPT !.at = "clear"]
  <2>2. e \in Handler /\ e.at = "clear" /\ e.kind = k.kind /\ e.cat = k.cat
    BY <2>1 DEF Handlers, Handler
  <2>3. Resume(t, e)
    BY <1>3 DEF UpdateItem, Step
  <2> HIDE DEF e
  <2>4. e \in Handlers
    BY <2>1, <2>2 DEF Handlers, Suits
  <2>5. task' \in [Slots -> {NoTask} \cup Handlers]
    BY <1>0, <2>3, <2>4, ResumeTypes
  <2> QED BY <1>0, <1>3, <2>5 DEF UpdateItem, ActorTypes, OtherTypes
<1>4. CASE Finished(t)
  <2>1. k.admin \in Admins
    BY <1>4, TaskTypes DEF Finished, Handlers, Handler
  <2>2. dialog' \in [Admins -> Dialogs] /\ failed' \subseteq Admins
    BY <1>0, <1>4, <2>1, ClearTypes DEF Finished
  <2> QED BY <1>0, <1>4, <2>2 DEF Finished, ActorTypes, OtherTypes
<1>5. CASE Abort(t)
  BY <1>0, <1>5 DEF Abort, ActorTypes, OtherTypes
<1> QED BY <1>1, <1>2, <1>3, <1>4, <1>5

\* So do the other ends of a dialog, the deletions and the API.
LEMMA EndTypes ==
  ASSUME Types,
         \/ \E a \in Admins : \/ DeleteItem(a) \/ AddCategory(a) \/ DeleteCategory(a)
                              \/ RenameCategory(a)
         \/ DeleteValue \/ DeletePromo \/ Api
  PROVE ActorTypes' /\ OtherTypes'
<1>0. ActorTypes /\ OtherTypes /\ TableTypes
  BY DEF Types
<1>k. ASSUME NEW n \in CatNames \cup ItemNames, NEW found \in BOOLEAN, Check(n, found)
      PROVE known' \subseteq CatNames \cup ItemNames
  BY <1>0, <1>k, CheckTypes
<1>c. ASSUME NEW a \in Admins, Clear(a) \/ UNCHANGED <<dialog, failed>>
      PROVE dialog' \in [Admins -> Dialogs] /\ failed' \subseteq Admins
  BY <1>0, <1>c, ClearTypes DEF ActorTypes, OtherTypes
<1>1. ASSUME NEW a \in Admins, DeleteItem(a) PROVE ActorTypes' /\ OtherTypes'
  <2>1. known' \subseteq CatNames \cup ItemNames
    BY <1>0, <1>1, <1>k DEF DeleteItem, OtherTypes
  <2> QED BY <1>0, <1>1, <1>c, <2>1 DEF DeleteItem, ActorTypes, OtherTypes
<1>2. ASSUME NEW a \in Admins, AddCategory(a) PROVE ActorTypes' /\ OtherTypes'
  <2>1. known' \subseteq CatNames \cup ItemNames
    BY <1>2, <1>k DEF AddCategory
  <2> QED BY <1>0, <1>2, <1>c, <2>1 DEF AddCategory, ActorTypes, OtherTypes
<1>3. ASSUME NEW a \in Admins, DeleteCategory(a) PROVE ActorTypes' /\ OtherTypes'
  <2>1. known' \subseteq CatNames \cup ItemNames
    BY <1>0, <1>3, <1>k DEF DeleteCategory, DeleteNamed, OtherTypes
  <2> QED BY <1>0, <1>3, <1>c, <2>1 DEF DeleteCategory, DeleteNamed, ActorTypes, OtherTypes
<1>4. ASSUME NEW a \in Admins, RenameCategory(a) PROVE ActorTypes' /\ OtherTypes'
  <2>1. known' \subseteq CatNames \cup ItemNames
    BY <1>4, <1>k DEF RenameCategory
  <2> QED BY <1>0, <1>4, <1>c, <2>1 DEF RenameCategory, ActorTypes, OtherTypes
<1>6. CASE DeleteValue \/ DeletePromo
  BY <1>0, <1>6 DEF DeleteValue, DeletePromo, ActorTypes, OtherTypes
<1>7. CASE Api
  <2>1. shared' \subseteq ItemNames
    BY <1>0, <1>7 DEF Api, ApiCategory, ApiGood, ApiPromo, OtherTypes
  <2>2. starts' \in 0..MaxStarts
    BY <1>0, <1>7, CatalogueAssumption DEF Api, OtherTypes
  <2> QED BY <1>0, <1>7, <2>1, <2>2 DEF Api, ActorTypes, OtherTypes
<1> QED BY <1>1, <1>2, <1>3, <1>4, <1>6, <1>7

\* An answer puts into the data what was chosen, and nothing else.
LEMMA BindTypes ==
  ASSUME NEW d \in Dialogs, NEW b \in Binding
  PROVE /\ Bind(d, b) \in Dialogs
        /\ \A f \in {"at", "name", "old", "cat", "code"} : Bind(d, b)[f] = d[f]
        /\ Bind(d, b).boundCat = IF b.cat = Null THEN d.boundCat ELSE b.cat
        /\ Bind(d, b).boundItem = IF b.item = Null THEN d.boundItem ELSE b.item
<1>1. d \in Fields /\ Fits(d)
  BY DEF Dialogs
<1>2. b.cat \in Cats \cup {Null} /\ b.item \in Items \cup {Null}
  BY DEF Binding
<1> DEFINE e == Bind(d, b)
<1>3. e \in Fields
  <2> DEFINE c == IF b.cat = Null THEN d.boundCat ELSE b.cat
             i == IF b.item = Null THEN d.boundItem ELSE b.item
  <2>1. c \in Cats \cup {Null} /\ i \in Items \cup {Null}
    BY <1>1, <1>2 DEF Fields
  <2>2. e = [d EXCEPT !.boundCat = c, !.boundItem = i]
    BY DEF Bind
  <2> HIDE DEF c, i
  <2> QED BY <1>1, <2>1, <2>2 DEF Fields
<1>4. /\ e.at = d.at /\ e.name = d.name /\ e.old = d.old /\ e.cat = d.cat /\ e.code = d.code
      /\ e.boundCat = IF b.cat = Null THEN d.boundCat ELSE b.cat
      /\ e.boundItem = IF b.item = Null THEN d.boundItem ELSE b.item
  BY <1>1 DEF Bind, Fields
<1> HIDE DEF e
<1>5. Fits(e)
  BY <1>1, <1>4 DEF Fits
<1> QED BY <1>3, <1>4, <1>5 DEF Dialogs, e

\* A handler that was told something, or that has read the data.
LEMMA RecordTypes ==
  ASSUME NEW a \in Admins, NEW b \in Binding
  PROVE /\ ActorTypes => Told(a, b) \in Answers
        /\ \A d \in Fields, sure \in BOOLEAN :
             d.code \in Codes => Making(a, d, sure, b) \in Answers
<1>1. ASSUME ActorTypes PROVE Told(a, b) \in Answers
  <2>1. Bind(dialog[a], b) \in Fields
    BY <1>1, BindTypes DEF ActorTypes, Dialogs
  <2>2. (IF Alone(a) THEN [choice |-> b, data |-> Bind(dialog[a], b)] ELSE Null) \in Asks
    BY <2>1 DEF Asks
  <2> QED BY <2>2 DEF Told, Answers
<1>2. ASSUME NEW d \in Fields, NEW sure \in BOOLEAN, d.code \in Codes
      PROVE Making(a, d, sure, b) \in Answers
  <2>1. d.boundCat \in Cats \cup {Null} /\ d.boundItem \in Items \cup {Null}
    BY DEF Fields
  <2>2. [code |-> d.code, cat |-> d.boundCat, item |-> d.boundItem] \in Code
    BY <1>2, <2>1 DEF Code
  <2>3. (IF sure THEN b ELSE [cat |-> d.boundCat, item |-> d.boundItem]) \in Binding
    BY <2>1 DEF Binding
  <2> QED BY <2>2, <2>3 DEF Making, Answers
<1> QED BY <1>1, <1>2

\* What an answer begins with, and where it is given.
LEMMA AnswerBegins ==
  ASSUME NEW a, NEW t, AnswerPromo(a, t)
  PROVE \/ At(a, "promo_binding") /\ Goes(t, Making(a, dialog[a], Alone(a), Unbound))
        \/ \E b \in Binding : Goes(t, Told(a, b))
<1>1. /\ \A c \in Cats : [cat |-> c, item |-> Null] \in Binding
      /\ \A i \in Items : [cat |-> Null, item |-> i] \in Binding
  BY DEF Binding
<1> QED BY <1>1 DEF AnswerPromo

\* A handler that makes a promo code keeps the types on its way.
LEMMA AnswerSteps ==
  ASSUME Types, Refs, NEW t \in Slots, Answering(t) PROVE Types' /\ Refs'
<1>0. Tables /\ TableTypes /\ ActorTypes /\ OtherTypes /\ AnswerTypes
  BY DEF Tables, Types
<1> DEFINE k == answer[t]
<1>k. /\ k # NoTask => k \in Answers
      /\ k.at \in {"bind", "read", "make", "clear"} => k # NoTask
  BY <1>0 DEF AnswerTypes, NoTask
<1>a. k # NoTask => k.admin \in Admins
  BY <1>k DEF Answers
<1>g. ASSUME NEW q \in {NoTask} \cup Answers, Goes(t, q) PROVE AnswerTypes'
  BY <1>0, <1>g DEF AnswerTypes, Goes
<1>1. ASSUME NEW a \in Admins, AnswerPromo(a, t) PROVE Types' /\ Refs'
  <2>1. Unbound \in Binding /\ Alone(a) \in BOOLEAN /\ dialog[a] \in Fields /\ Fits(dialog[a])
    BY <1>0, DataTypes DEF Unbound, Binding, Alone
  <2>2. At(a, "promo_binding") => dialog[a].code \in Codes
    BY <2>1 DEF At, Fits, PromoPlaces
  <2>3. AnswerTypes'
    BY <1>0, <1>1, <1>g, <2>1, <2>2, AnswerBegins, RecordTypes
  <2> QED BY <1>0, <1>1, <2>3, SameTables
          DEF AnswerPromo, Types, Tables, ActorTypes, OtherTypes
<1>2. CASE BindPromo(t)
  <2>1. k \in Answers /\ k.at = "bind"
    BY <1>2, <1>k DEF BindPromo
  <2>2. k.admin \in Admins /\ k.choice \in Binding /\ k.told \in Asks
    BY <2>1 DEF Answers
  <2>3. [at |-> "read", admin |-> k.admin, told |-> k.told] \in Answers
    BY <2>2 DEF Answers
  <2>4. AnswerTypes'
    BY <1>2, <1>g, <2>3 DEF BindPromo
  <2>5. dialog' \in [Admins -> Dialogs]
    <3>1. Bind(dialog[k.admin], k.choice) \in Dialogs
      BY <1>0, <2>2, BindTypes DEF ActorTypes
    <3> QED BY <1>0, <1>2, <2>2, <3>1 DEF BindPromo, ActorTypes
  <2> QED BY <1>0, <1>2, <2>4, <2>5, SameTables
          DEF BindPromo, Types, Tables, ActorTypes, OtherTypes
<1>3. CASE ReadPromo(t)
  <2>1. k \in Answers /\ k.at = "read"
    BY <1>3, <1>k DEF ReadPromo
  <2>2. k.admin \in Admins /\ k.told \in Asks
    BY <2>1 DEF Answers
  <2>3. dialog[k.admin] \in Fields /\ dialog[k.admin].code \in Codes
    <3>1. dialog[k.admin] \in Fields
      BY <1>0, <2>2, DataTypes
    <3>2. dialog[k.admin].code \in Codes \cup {Null}
      BY <3>1 DEF Fields
    <3> QED BY <1>3, <3>1, <3>2 DEF ReadPromo
  <2>4. k.told # Null => k.told.choice \in Binding
    BY <2>2 DEF Asks
  <2>5. Unbound \in Binding
    BY DEF Unbound, Binding
  <2>6. \E b \in Binding, sure \in BOOLEAN : Goes(t, Making(k.admin, dialog[k.admin], sure, b))
    BY <1>3, <2>4, <2>5 DEF ReadPromo
  <2>7. AnswerTypes'
    BY <1>g, <2>2, <2>3, <2>6, RecordTypes
  <2> QED BY <1>0, <1>3, <2>7, SameTables
          DEF ReadPromo, Types, Tables, ActorTypes, OtherTypes
<1>4. CASE MakePromo(t)
  <2>1. k \in Answers /\ k.at = "make"
    BY <1>4, <1>k DEF MakePromo
  <2>2. k.admin \in Admins /\ k.row \in Code /\ k.wish \in Binding
    BY <2>1 DEF Answers
  <2>3. Tables'
    BY <1>0, <1>4, <2>2, CreatePromoTables DEF MakePromo
  <2>4. [at |-> "clear", admin |-> k.admin] \in Answers
    BY <2>2 DEF Answers
  <2>5. AnswerTypes'
    BY <1>4, <1>g, <2>4 DEF MakePromo
  <2> QED BY <1>0, <1>4, <2>3, <2>5 DEF MakePromo, Types, Tables, ActorTypes, OtherTypes
<1>5. CASE EndPromo(t)
  <2>1. k.admin \in Admins
    BY <1>5, <1>k, <1>a DEF EndPromo
  <2>2. dialog' \in [Admins -> Dialogs] /\ failed' \subseteq Admins
    BY <1>0, <1>5, <2>1, ClearTypes DEF EndPromo
  <2>3. AnswerTypes'
    BY <1>5, <1>g DEF EndPromo
  <2> QED BY <1>0, <1>5, <2>2, <2>3, SameTables
          DEF EndPromo, Types, Tables, ActorTypes, OtherTypes
<1>6. CASE AbandonPromo(t)
  <2>1. failed' \subseteq Admins
    BY <1>0, <1>6, <1>a DEF AbandonPromo, OtherTypes
  <2>2. AnswerTypes'
    BY <1>6, <1>g DEF AbandonPromo
  <2> QED BY <1>0, <1>6, <2>1, <2>2, SameTables
          DEF AbandonPromo, Types, Tables, ActorTypes, OtherTypes
<1> QED BY <1>1, <1>2, <1>3, <1>4, <1>5, <1>6 DEF Answering

\* Every step keeps the types, and leaves nothing that refers to what is gone.
LEMMA StepTypes ==
  ASSUME Types, Refs, [Next]_vars PROVE Types' /\ Refs'
<1>0. Tables /\ ActorTypes /\ OtherTypes /\ AnswerTypes
  BY DEF Tables, Types
<1>a. ASSUME UNCHANGED answer PROVE AnswerTypes'
  BY <1>a, <1>0 DEF AnswerTypes
<1>1. ASSUME NEW a \in Admins, UNCHANGED answer,
             \/ Open(a) \/ Menu(a) \/ CheckItemNameForAdd(a) \/ CheckItemNameForAmount(a)
             \/ CheckItemNameForUpdate(a) \/ CheckCategoryForAddItem(a)
             \/ AddingValueToPosition(a) \/ UpdateItemProcess(a) \/ Collect(a)
             \/ CheckCategoryForUpdate(a) \/ PromoCode(a) \/ PromoBinding(a)
      PROVE Types' /\ Refs'
  <2>1. UNCHANGED tables
    BY <1>1 DEF Open, Menu, CheckItemNameForAdd, CheckItemNameForAmount,
                CheckItemNameForUpdate, CheckCategoryForAddItem, AddingValueToPosition,
                UpdateItemProcess, Collect, CheckCategoryForUpdate, PromoCode, PromoBinding
  <2> QED BY <1>0, <1>1, <1>a, <2>1, PromptTypes, SameTables DEF Types, Tables
<1>2. ASSUME NEW a \in Admins, NEW t \in Slots, Finish(a, t), UNCHANGED answer
      PROVE Types' /\ Refs'
  <2>1. UNCHANGED tables
    BY <1>2 DEF Finish
  <2> QED BY <1>0, <1>2, <1>a, <2>1, FinishTypes, SameTables DEF Types, Tables
<1>3. ASSUME NEW t \in Slots, Handle(t), UNCHANGED answer PROVE Types' /\ Refs'
  BY <1>3, <1>a, HandlerTypes, HandlerTables DEF Handle, Types, Tables
<1>4. ASSUME UNCHANGED answer,
             \/ \E a \in Admins : \/ DeleteItem(a) \/ AddCategory(a) \/ DeleteCategory(a)
                                  \/ RenameCategory(a)
             \/ DeleteValue
      PROVE Types' /\ Refs'
  BY <1>4, <1>a, EndTypes, CategoryTables DEF Types, Tables
<1>5. ASSUME DeletePromo \/ Api, UNCHANGED answer PROVE Types' /\ Refs'
  BY <1>5, <1>a, EndTypes, DeletePromoTables, ApiTables DEF Types, Tables
<1>6. ASSUME NEW t \in Slots, Answering(t) PROVE Types' /\ Refs'
  BY <1>6, AnswerSteps
<1>7. CASE UNCHANGED vars
  BY <1>0, <1>7, <1>a, SameTables DEF vars, tables, Types, Tables, ActorTypes, OtherTypes
<1> QED BY <1>1, <1>2, <1>3, <1>4, <1>5, <1>6, <1>7 DEF Next, Dialog

\* The catalogue's types are kept and nothing refers to what is gone: whatever
\* dialogs, handlers and calls of the API run at once, and wherever they fail.
THEOREM TypeCorrect == Spec => []TypeOK
<1>1. Init => Types /\ Refs
  BY InitTypes
<1>2. Types /\ Refs /\ [Next]_vars => Types' /\ Refs'
  BY StepTypes
<1>3. Types /\ Refs => TypeOK
  <2> SUFFICES ASSUME Types, Refs PROVE TypeOK
    OBVIOUS
  <2>1. \A a \in Admins : dialog[a].values \subseteq Values
    BY DEF Types, ActorTypes, Dialogs, Fields
  <2>2. \A t \in Slots : /\ task[t] = NoTask \/ task[t].left \subseteq Values
                         /\ answer[t] = NoTask \/ answer[t].admin \in Admins
    BY DEF Types, ActorTypes, Handlers, Handler, AnswerTypes, Answers
  <2>3. /\ item \in [Items -> [name : ItemNames \cup {Free, Gone}, cat : Cats \cup {Null}]]
        /\ stock \subseteq [item : Items, value : Values, inf : BOOLEAN]
        /\ promo \in [Promos -> [code : Codes \cup {Free, Gone}, cat : Cats \cup {Null},
                                 item : Items \cup {Null}]]
        /\ category \in [Cats -> CatNames \cup {Free, Gone}]
    BY DEF Types, TableTypes, Position, Row, Code
  <2> QED BY <2>1, <2>2, <2>3 DEF Types, OtherTypes, Refs, TypeOK
<1> QED BY <1>1, <1>2, <1>3, PTL DEF Spec

-----------------------------------------------------------------------------
(* Promo codes are bound as chosen. *)

\* Two records of the same bindings stay so when a foreign key is emptied.
LEMMA UnbindAgrees ==
  ASSUME TableTypes, NEW c \in Cats \cup {Null}, NEW i \in Items \cup {Null}, Unbind(c, i),
         BoundAsChosen
  PROVE BoundAsChosen'
<1>1. \A p \in Promos : promo[p] \in Code /\ chosen[p] \in Binding /\ chosen'[p] \in Binding
                        /\ promo'[p] \in Code
  BY UnbindResult DEF TableTypes
<1>2. \A p \in Promos : chosen[p].cat = promo[p].cat /\ chosen[p].item = promo[p].item
  <2> TAKE p \in Promos
  <2>1. chosen[p] = [cat |-> promo[p].cat, item |-> promo[p].item]
    BY DEF BoundAsChosen
  <2> QED BY <2>1
<1>3. \A p \in Promos : chosen'[p].cat = promo'[p].cat /\ chosen'[p].item = promo'[p].item
  BY <1>2, UnbindResult
<1>4. \A b \in Binding : b = [cat |-> b.cat, item |-> b.item]
  BY DEF Binding
<1> QED BY <1>1, <1>3, <1>4 DEF BoundAsChosen

\* A code that is made with what was asked for is bound so.
LEMMA CreateAgrees ==
  ASSUME TableTypes, NEW x \in Code, BoundAsChosen,
         CreatePromo(x, [cat |-> x.cat, item |-> x.item])
  PROVE BoundAsChosen'
<1>1. CASE UNCHANGED <<promo, chosen>>
  BY <1>1 DEF BoundAsChosen
<1>2. ASSUME NEW p \in Promos, promo' = [promo EXCEPT ![p] = x],
             chosen' = [chosen EXCEPT ![p] = [cat |-> x.cat, item |-> x.item]]
      PROVE BoundAsChosen'
  BY <1>2 DEF BoundAsChosen, TableTypes
<1> QED BY <1>1, <1>2 DEF CreatePromo

\* Clearing an administrator's data, or leaving it, keeps nothing bound in it.
LEMMA ClearedHoldsNothing ==
  ASSUME ActorTypes, NEW a \in Admins, Clear(a) \/ UNCHANGED <<dialog, failed>>, Held,
         UNCHANGED answer
  PROVE Held'
<1>1. CASE Clear(a)
  <2>1. dialog'[a] = Idle /\ \A b \in Admins \ {a} : dialog'[b] = dialog[b]
    BY <1>1 DEF Clear, ActorTypes
  <2>2. failed' = failed \ {a}
    BY <1>1 DEF Clear
  <2> QED BY <2>1, <2>2 DEF Idle, Held, Tidy
<1>2. CASE UNCHANGED <<dialog, failed>>
  BY <1>2 DEF Held, Tidy
<1> QED BY <1>1, <1>2

\* A dialog that goes on with what it holds binds nothing.
LEMMA GotoHoldsNothing ==
  ASSUME ActorTypes, NEW a \in Admins, NEW at, NEW d \in Fields, Goto(a, at, d),
         d.boundCat = dialog[a].boundCat, d.boundItem = dialog[a].boundItem, failed' = failed,
         Held, UNCHANGED answer
  PROVE Held'
<1>1. dialog'[a] = [d EXCEPT !.at = at] /\ \A b \in Admins \ {a} : dialog'[b] = dialog[b]
  BY DEF Goto, ActorTypes
<1>2. dialog'[a].boundCat = d.boundCat /\ dialog'[a].boundItem = d.boundItem
  BY <1>1 DEF Fields
<1> QED BY <1>1, <1>2 DEF Held, Tidy

\* While no answer goes on, codes stay bound as chosen, and the data holds nothing.
LEMMA OtherChoices ==
  ASSUME Types, Refs, Fine, UNCHANGED answer,
         \/ \E a \in Admins : Dialog(a)
         \/ \E t \in Slots : Handle(t)
         \/ DeleteValue \/ DeletePromo \/ Api \/ UNCHANGED vars
  PROVE Fine'
<1>0. TableTypes /\ ActorTypes /\ OtherTypes /\ BoundAsChosen /\ Held
  BY DEF Types, Fine
<1>s. ASSUME UNCHANGED <<promo, chosen>> PROVE BoundAsChosen'
  BY <1>0, <1>s DEF BoundAsChosen
<1>h. ASSUME NEW a \in Admins, Clear(a) \/ UNCHANGED <<dialog, failed>> PROVE Held'
  BY <1>0, <1>h, ClearedHoldsNothing
<1>f. ASSUME UNCHANGED <<dialog, failed>> PROVE Held'
  BY <1>0, <1>f DEF Held, Tidy
<1>g. ASSUME NEW a \in Admins, NEW at, NEW d \in Fields, Goto(a, at, d),
             d.boundCat = dialog[a].boundCat, d.boundItem = dialog[a].boundItem, failed' = failed
      PROVE Held'
  BY <1>0, <1>g, GotoHoldsNothing
<1>d. \A a \in Admins : dialog[a] \in Fields
  BY <1>0, DataTypes
<1>1. ASSUME NEW a \in Admins,
             \/ Open(a) \/ Menu(a) \/ CheckItemNameForAdd(a) \/ CheckItemNameForAmount(a)
             \/ CheckItemNameForUpdate(a) \/ CheckCategoryForAddItem(a)
             \/ AddingValueToPosition(a) \/ UpdateItemProcess(a) \/ Collect(a)
             \/ CheckCategoryForUpdate(a) \/ PromoCode(a) \/ PromoBinding(a)
      PROVE Fine'
  <2> DEFINE d == dialog[a]
  <2>d. d \in Fields
    BY <1>d
  <2>1. UNCHANGED <<promo, chosen>>
    BY <1>1 DEF tables, Open, Menu, CheckItemNameForAdd, CheckItemNameForAmount,
                CheckItemNameForUpdate, CheckCategoryForAddItem, AddingValueToPosition,
                UpdateItemProcess, Collect, CheckCategoryForUpdate, PromoCode, PromoBinding
  <2>e. /\ \A n : /\ [d EXCEPT !.name = n].boundCat = d.boundCat
                  /\ [d EXCEPT !.name = n].boundItem = d.boundItem
        /\ \A n : /\ [d EXCEPT !.cat = n].boundCat = d.boundCat
                  /\ [d EXCEPT !.cat = n].boundItem = d.boundItem
        /\ \A n : /\ [d EXCEPT !.old = n].boundCat = d.boundCat
                  /\ [d EXCEPT !.old = n].boundItem = d.boundItem
        /\ \A n : /\ [d EXCEPT !.code = n].boundCat = d.boundCat
                  /\ [d EXCEPT !.code = n].boundItem = d.boundItem
        /\ \A n : /\ [d EXCEPT !.binding = n].boundCat = d.boundCat
                  /\ [d EXCEPT !.binding = n].boundItem = d.boundItem
    BY <2>d DEF Fields
  <2>t. /\ \A n \in ItemNames : [d EXCEPT !.name = n] \in Fields
        /\ \A n \in CatNames : [d EXCEPT !.cat = n] \in Fields
        /\ \A n \in CatNames : [d EXCEPT !.old = n] \in Fields
        /\ \A x \in Codes : [d EXCEPT !.code = x] \in Fields
        /\ \A x \in {"category", "item"} : [d EXCEPT !.binding = x] \in Fields
    BY <2>d DEF Fields
  <2>2. CASE Open(a) \/ AddingValueToPosition(a) \/ UpdateItemProcess(a)
    <3>1. failed' = failed /\ \E at : Goto(a, at, d)
      BY <2>2 DEF Open, AddingValueToPosition, UpdateItemProcess
    <3> QED BY <1>g, <1>s, <2>1, <2>d, <3>1 DEF Fine
  <2>3. CASE Menu(a)
    BY <1>h, <1>s, <2>1, <2>3 DEF Menu, Fine
  <2>4. CASE CheckItemNameForAdd(a) \/ CheckItemNameForAmount(a)
    <3>1. /\ failed' = failed
          /\ \/ dialog' = dialog
             \/ \E n \in ItemNames, at \in Places : Goto(a, at, [d EXCEPT !.name = n])
      BY <2>4 DEF CheckItemNameForAdd, CheckItemNameForAmount, Places, AddPlaces
    <3>2. Held'
      BY <1>f, <1>g, <2>e, <2>t, <3>1
    <3> QED BY <1>s, <2>1, <3>2 DEF Fine
  <2>5. CASE CheckItemNameForUpdate(a)
    <3>1. PICK n \in ItemNames, found \in BOOLEAN :
            IF ~ found THEN UNCHANGED <<dialog, shared>>
            ELSE \E c \in IF ItemNamed(n) = {} THEN {Null} ELSE {item[i].cat : i \in ItemNamed(n)} :
                   Goto(a, "upd_decide", [d EXCEPT !.old = n, !.cat = c])
      BY <2>5 DEF CheckItemNameForUpdate
    <3>2. (IF ItemNamed(n) = {} THEN {Null} ELSE {item[i].cat : i \in ItemNamed(n)})
            \subseteq Cats \cup {Null}
      BY <1>0 DEF TableTypes, Position, ItemNamed
    <3>3. failed' = failed
      BY <2>5 DEF CheckItemNameForUpdate
    <3>4. CASE ~ found
      BY <1>f, <1>s, <2>1, <3>1, <3>3, <3>4 DEF Fine
    <3>5. CASE found
      <4>1. PICK c \in Cats \cup {Null} : Goto(a, "upd_decide", [d EXCEPT !.old = n, !.cat = c])
        BY <3>1, <3>2, <3>5
      <4> DEFINE e == [d EXCEPT !.old = n, !.cat = c]
      <4>2. e \in Fields /\ e.boundCat = d.boundCat /\ e.boundItem = d.boundItem
        BY <2>d DEF Fields
      <4>3. Goto(a, "upd_decide", e)
        BY <4>1
      <4> HIDE DEF e
      <4>4. Held'
        BY <1>g, <3>3, <4>2, <4>3
      <4> QED BY <1>s, <2>1, <4>4 DEF Fine
    <3> QED BY <3>4, <3>5
  <2>6. CASE CheckCategoryForAddItem(a)
    <3>1. /\ failed' = failed
          /\ \/ dialog' = dialog
             \/ \E n \in CatNames : Goto(a, "add_infinity", [d EXCEPT !.cat = n])
      BY <2>6 DEF CheckCategoryForAddItem
    <3>2. Held'
      BY <1>f, <1>g, <2>e, <2>t, <3>1
    <3> QED BY <1>s, <2>1, <3>2 DEF Fine
  <2>7. CASE CheckCategoryForUpdate(a)
    <3>1. \/ Clear(a)
          \/ failed' = failed /\ \E n \in CatNames : Goto(a, "cat_new", [d EXCEPT !.old = n])
      BY <2>7 DEF CheckCategoryForUpdate
    <3>2. Held'
      BY <1>g, <1>h, <2>e, <2>t, <3>1
    <3> QED BY <1>s, <2>1, <3>2 DEF Fine
  <2>8. CASE PromoCode(a)
    <3>1. failed' = failed /\ \E n \in Codes : Goto(a, "promo_binding", [d EXCEPT !.code = n])
      BY <2>8 DEF PromoCode
    <3>2. Held'
      BY <1>g, <2>e, <2>t, <3>1
    <3> QED BY <1>s, <2>1, <3>2 DEF Fine
  <2>9. CASE PromoBinding(a)
    <3>1. /\ failed' = failed
          /\ \E n \in {"category", "item"} : Goto(a, "promo_name", [d EXCEPT !.binding = n])
      BY <2>9 DEF PromoBinding
    <3>2. Held'
      BY <1>g, <2>e, <2>t, <3>1
    <3> QED BY <1>s, <2>1, <3>2 DEF Fine
  <2>10. CASE Collect(a)
    <3>1. PICK v \in Values : dialog' = [dialog EXCEPT ![a].values = @ \cup {v}]
      BY <2>10 DEF Collect
    <3>2. /\ dialog'[a] = [d EXCEPT !.values = @ \cup {v}]
          /\ \A b \in Admins \ {a} : dialog'[b] = dialog[b]
      BY <1>0, <3>1 DEF ActorTypes
    <3>3. dialog'[a].boundCat = d.boundCat /\ dialog'[a].boundItem = d.boundItem
      BY <2>d, <3>2 DEF Fields
    <3>4. failed' = failed
      BY <2>10 DEF Collect
    <3>5. Held'
      BY <1>0, <3>2, <3>3, <3>4 DEF Held, Tidy
    <3> QED BY <1>s, <2>1, <3>5 DEF Fine
  <2> QED BY <1>1, <2>2, <2>3, <2>4, <2>5, <2>6, <2>7, <2>8, <2>9, <2>10
<1>2. ASSUME NEW t \in Slots, \/ CreateItem(t) \/ Purge(t) \/ AddValue(t) \/ UpdateItem(t)
                              \/ Abort(t) \/ \E a \in Admins : Finish(a, t)
      PROVE Fine'
  BY <1>2, <1>f, <1>s
     DEF CreateItem, Purge, AddValue, UpdateItem, Abort, Finish, tables, Fine
<1>3. ASSUME NEW t \in Slots, Finished(t) PROVE Fine'
  <2>1. task[t].admin \in Admins /\ Clear(task[t].admin) /\ UNCHANGED <<promo, chosen>>
    BY <1>3, TaskTypes DEF Finished, Handlers, Handler, tables
  <2> QED BY <1>h, <1>s, <2>1 DEF Fine
<1>4. CASE DeleteValue \/ UNCHANGED vars
  BY <1>4, <1>f, <1>s DEF DeleteValue, vars, tables, Fine
<1>5. ASSUME NEW a \in Admins, DeleteItem(a) \/ AddCategory(a) \/ DeleteCategory(a)
                               \/ RenameCategory(a)
      PROVE Fine'
  <2>1. Held'
    BY <1>5, <1>h DEF DeleteItem, AddCategory, DeleteCategory, DeleteNamed, RenameCategory
  <2>2. \/ UNCHANGED <<promo, chosen>>
        \/ \E c \in Cats \cup {Null}, i \in Items \cup {Null} : Unbind(c, i)
    BY <1>5 DEF DeleteItem, AddCategory, DeleteCategory, DeleteNamed, RenameCategory, DropItem,
                DropCategory, CatNamed, ItemNamed, tables
  <2>3. BoundAsChosen'
    BY <1>0, <1>s, <2>2, UnbindAgrees
  <2> QED BY <2>1, <2>3 DEF Fine
<1>7. CASE DeletePromo
  <2>1. PICK p \in Promos : /\ promo' = [promo EXCEPT ![p] = NoPromo(Gone)]
                            /\ chosen' = [chosen EXCEPT ![p] = Unbound]
    BY <1>7 DEF DeletePromo
  <2>2. BoundAsChosen'
    BY <1>0, <2>1 DEF BoundAsChosen, NoPromo, Unbound, TableTypes
  <2>3. Held'
    BY <1>7, <1>f DEF DeletePromo
  <2> QED BY <2>2, <2>3 DEF Fine
<1>8. CASE Api
  <2>1. Held'
    BY <1>8, <1>f DEF Api
  <2>2. BoundAsChosen'
    <3>1. CASE ApiCategory \/ ApiGood
      <4>1. \/ UNCHANGED <<promo, chosen>>
            \/ \E c \in Cats \cup {Null}, i \in Items \cup {Null} : Unbind(c, i)
        BY <3>1 DEF ApiCategory, ApiGood, DropItem, DropCategory
      <4> QED BY <1>0, <1>s, <4>1, UnbindAgrees
    <3>2. ASSUME NEW x \in Codes, CreatePromo([code |-> x, cat |-> Null, item |-> Null], Unbound)
          PROVE BoundAsChosen'
      <4> DEFINE new == [code |-> x, cat |-> Null, item |-> Null]
      <4>1. new \in Code /\ Unbound = [cat |-> new.cat, item |-> new.item]
        BY DEF Code, Unbound
      <4>2. CreatePromo(new, Unbound)
        BY <3>2
      <4> HIDE DEF new
      <4> QED BY <1>0, <4>1, <4>2, CreateAgrees
    <3>3. ASSUME NEW p \in Promos,
                 NEW b \in [cat : {c \in Cats : category[c] \in CatNames} \cup {Null},
                            item : {i \in Items : item[i].name \in ItemNames} \cup {Null}],
                 promo' = [promo EXCEPT ![p].cat = b.cat, ![p].item = b.item],
                 chosen' = [chosen EXCEPT ![p] = b]
          PROVE BoundAsChosen'
      <4>1. promo[p] \in Code /\ b = [cat |-> b.cat, item |-> b.item]
        BY <1>0 DEF TableTypes
      <4>2. promo'[p].cat = b.cat /\ promo'[p].item = b.item /\ chosen'[p] = b
        BY <1>0, <3>3, <4>1 DEF TableTypes, Code
      <4>3. \A q \in Promos \ {p} : promo'[q] = promo[q] /\ chosen'[q] = chosen[q]
        BY <1>0, <3>3 DEF TableTypes
      <4> QED BY <1>0, <4>1, <4>2, <4>3 DEF BoundAsChosen
    <3> QED BY <1>8, <3>1, <3>2, <3>3 DEF Api, ApiPromo
  <2> QED BY <2>1, <2>2 DEF Fine
<1> QED BY <1>1, <1>2, <1>3, <1>4, <1>5, <1>7, <1>8 DEF Dialog, Handle

\* A slot that goes on with k, honestly, leaves the others as they are.
LEMMA GoesHonest ==
  ASSUME AnswerTypes, NEW t \in Slots, NEW k, Goes(t, k), Honest(k),
         \A s \in Slots : Honest(answer[s])
  PROVE /\ \A s \in Slots : Honest(answer'[s])
        /\ answer'[t] = k /\ \A s \in Slots \ {t} : answer'[s] = answer[s]
<1>1. answer'[t] = k /\ \A s \in Slots \ {t} : answer'[s] = answer[s]
  BY DEF Goes, AnswerTypes
<1> QED BY <1>1

\* What is made of the data is bound as it says; and so it is, whatever happened,
\* where the data is what the handler had left in it.
LEMMA MakingHonest ==
  ASSUME NEW a, NEW d \in Fields, NEW sure \in BOOLEAN, NEW b,
         sure => b = [cat |-> d.boundCat, item |-> d.boundItem]
  PROVE Honest(Making(a, d, sure, b))
  BY DEF Honest, Making

\* Who has no handler under way, and failed in none, has nothing in the data.
LEMMA AloneHoldsNothing ==
  ASSUME Held, NEW a \in Admins, Alone(a)
  PROVE dialog[a].boundCat = Null /\ dialog[a].boundItem = Null
  BY DEF Alone, Held, Tidy

\* The handlers that make promo codes do what they were told.
LEMMA AnswerChoices ==
  ASSUME Types, Choices, NEW t \in Slots, Answering(t) PROVE Choices'
<1>0. /\ TableTypes /\ ActorTypes /\ OtherTypes /\ AnswerTypes /\ BoundAsChosen /\ Held
      /\ \A s \in Slots : Honest(answer[s])
  BY DEF Types, Choices, Fine
<1>s. ASSUME UNCHANGED <<promo, chosen>> PROVE BoundAsChosen'
  BY <1>0, <1>s DEF BoundAsChosen
<1> DEFINE k == answer[t]
<1>k. /\ k # NoTask => k \in Answers /\ k.admin \in Admins
      /\ k.at \in {"bind", "read", "make", "clear"} => k # NoTask
  BY <1>0 DEF AnswerTypes, NoTask, Answers
<1>n. Honest(NoTask)
  BY DEF Honest, NoTask
<1>1. ASSUME NEW a \in Admins, AnswerPromo(a, t) PROVE Choices'
  <2>1. Unbound \in Binding /\ Alone(a) \in BOOLEAN /\ dialog[a] \in Dialogs /\ dialog[a] \in Fields
    BY <1>0, DataTypes DEF Unbound, Binding, Alone, ActorTypes
  <2>2. Honest(Making(a, dialog[a], Alone(a), Unbound))
    BY <1>0, <2>1, AloneHoldsNothing, MakingHonest DEF Unbound
  <2>3. ASSUME NEW b \in Binding PROVE Honest(Told(a, b))
    <3>1. b.cat \in Cats \cup {Null} /\ b.item \in Items \cup {Null} /\ b = [cat |-> b.cat, item |-> b.item]
      BY DEF Binding
    <3> DEFINE e == Bind(dialog[a], b)
    <3>2. /\ e.boundCat = IF b.cat = Null THEN dialog[a].boundCat ELSE b.cat
          /\ e.boundItem = IF b.item = Null THEN dialog[a].boundItem ELSE b.item
      BY <2>1, BindTypes
    <3>3. Alone(a) => b = [cat |-> e.boundCat, item |-> e.boundItem]
      BY <1>0, <3>1, <3>2, AloneHoldsNothing
    <3> HIDE DEF e
    <3>4. Told(a, b) = [at |-> "bind", admin |-> a, choice |-> b,
                        told |-> IF Alone(a) THEN [choice |-> b, data |-> e] ELSE Null]
      BY DEF Told, e
    <3> QED BY <3>3, <3>4 DEF Honest
  <2>4. PICK q : Goes(t, q) /\ Honest(q) /\ q.admin = a
    <3>1. CASE Goes(t, Making(a, dialog[a], Alone(a), Unbound))
      BY <2>2, <3>1 DEF Making
    <3>2. CASE \E b \in Binding : Goes(t, Told(a, b))
      BY <2>3, <3>2 DEF Told
    <3> QED BY <1>1, <3>1, <3>2, AnswerBegins
  <2>5. /\ \A s \in Slots : Honest(answer'[s])
        /\ answer'[t] = q /\ \A s \in Slots \ {t} : answer'[s] = answer[s]
    BY <1>0, <2>4, GoesHonest
  <2>6. UNCHANGED <<promo, chosen, dialog, failed>> /\ answer[t] = NoTask
    BY <1>1 DEF AnswerPromo, tables
  <2>7. Tidy' \subseteq Tidy
    BY <2>5, <2>6 DEF Tidy
  <2> QED BY <1>0, <1>s, <2>5, <2>6, <2>7 DEF Choices, Fine, Held
<1>2. CASE BindPromo(t)
  <2>1. k \in Answers /\ k.at = "bind" /\ k.admin \in Admins
    BY <1>2, <1>k DEF BindPromo
  <2> DEFINE q == [at |-> "read", admin |-> k.admin, told |-> k.told]
  <2>2. Goes(t, q)
    BY <1>2 DEF BindPromo
  <2>3. Honest(q) /\ q.admin = k.admin /\ q.at = "read" /\ q # NoTask
    BY <1>0, <2>1 DEF Honest, NoTask
  <2> HIDE DEF q
  <2>4. /\ \A s \in Slots : Honest(answer'[s])
        /\ answer'[t] = q /\ \A s \in Slots \ {t} : answer'[s] = answer[s]
    BY <1>0, <2>2, <2>3, GoesHonest
  <2>5. \A b \in Admins \ {k.admin} : dialog'[b] = dialog[b]
    BY <1>0, <1>2 DEF BindPromo, ActorTypes
  <2>6. UNCHANGED <<promo, chosen, failed>>
    BY <1>2 DEF BindPromo, tables
  <2>7. k.admin \notin Tidy'
    BY <2>3, <2>4 DEF Tidy
  <2>8. Tidy' \subseteq Tidy
    BY <2>1, <2>3, <2>4, <2>6 DEF Tidy
  <2> QED BY <1>0, <1>s, <2>4, <2>5, <2>6, <2>7, <2>8 DEF Choices, Fine, Held, Tidy
<1>3. CASE ReadPromo(t)
  <2>1. k \in Answers /\ k.at = "read" /\ k.admin \in Admins
    BY <1>3, <1>k DEF ReadPromo
  <2>2. dialog[k.admin] \in Fields
    BY <1>0, <2>1, DataTypes
  <2>u. Unbound \in Binding /\ (k.told # Null => k.told.choice \in Binding)
    BY <2>1 DEF Unbound, Binding, Answers, Asks
  <2>3. PICK b \in Binding, sure \in BOOLEAN :
          /\ Goes(t, Making(k.admin, dialog[k.admin], sure, b))
          /\ sure => k.told # Null /\ k.told.data = dialog[k.admin] /\ b = k.told.choice
    <3>1. ASSUME k.told # Null, k.told.data = dialog[k.admin],
                 Goes(t, Making(k.admin, dialog[k.admin], TRUE, k.told.choice))
          PROVE \E b \in Binding, sure \in BOOLEAN :
                  /\ Goes(t, Making(k.admin, dialog[k.admin], sure, b))
                  /\ sure => k.told # Null /\ k.told.data = dialog[k.admin] /\ b = k.told.choice
      BY <2>u, <3>1
    <3>2. ASSUME Goes(t, Making(k.admin, dialog[k.admin], FALSE, Unbound))
          PROVE \E b \in Binding, sure \in BOOLEAN :
                  /\ Goes(t, Making(k.admin, dialog[k.admin], sure, b))
                  /\ sure => k.told # Null /\ k.told.data = dialog[k.admin] /\ b = k.told.choice
      BY <2>u, <3>2
    <3> QED BY <1>3, <3>1, <3>2 DEF ReadPromo
  <2>4. sure => b = [cat |-> dialog[k.admin].boundCat, item |-> dialog[k.admin].boundItem]
    BY <1>0, <2>1, <2>3 DEF Honest
  <2> DEFINE q == Making(k.admin, dialog[k.admin], sure, b)
  <2>5. Honest(q)
    BY <2>2, <2>4, MakingHonest
  <2>6. q.admin = k.admin /\ q.at = "make"
    BY DEF Making
  <2>7. Goes(t, q)
    BY <2>3
  <2> HIDE DEF q
  <2>8. /\ \A s \in Slots : Honest(answer'[s])
        /\ answer'[t] = q /\ \A s \in Slots \ {t} : answer'[s] = answer[s]
    BY <1>0, <2>5, <2>7, GoesHonest
  <2>9. UNCHANGED <<promo, chosen, failed, dialog>>
    BY <1>3 DEF ReadPromo, tables
  <2>10. q # NoTask
    BY <2>6 DEF NoTask
  <2>11. Tidy' \subseteq Tidy
    BY <2>1, <2>6, <2>8, <2>9, <2>10 DEF Tidy
  <2> QED BY <1>0, <1>s, <2>8, <2>9, <2>11 DEF Choices, Fine, Held
<1>4. CASE MakePromo(t)
  <2>1. k \in Answers /\ k.at = "make" /\ k.admin \in Admins
    BY <1>4, <1>k DEF MakePromo
  <2>2. k.row \in Code /\ k.wish = [cat |-> k.row.cat, item |-> k.row.item]
    BY <1>0, <2>1 DEF Answers, Honest
  <2>3. BoundAsChosen'
    BY <1>0, <1>4, <2>2, CreateAgrees DEF MakePromo
  <2> DEFINE q == [at |-> "clear", admin |-> k.admin]
  <2>4. Goes(t, q)
    BY <1>4 DEF MakePromo
  <2>5. Honest(q) /\ q.admin = k.admin /\ q.at = "clear" /\ q # NoTask
    BY DEF Honest, NoTask
  <2> HIDE DEF q
  <2>6. /\ \A s \in Slots : Honest(answer'[s])
        /\ answer'[t] = q /\ \A s \in Slots \ {t} : answer'[s] = answer[s]
    BY <1>0, <2>4, <2>5, GoesHonest
  <2>7. UNCHANGED <<failed, dialog>>
    BY <1>4 DEF MakePromo
  <2>8. Tidy' \subseteq Tidy
    BY <2>1, <2>5, <2>6, <2>7 DEF Tidy
  <2> QED BY <1>0, <2>3, <2>6, <2>7, <2>8 DEF Choices, Fine, Held
<1>5. CASE EndPromo(t)
  <2>1. k.admin \in Admins /\ Clear(k.admin) /\ Goes(t, NoTask)
    BY <1>5, <1>k DEF EndPromo
  <2>2. /\ \A s \in Slots : Honest(answer'[s])
        /\ answer'[t] = NoTask /\ \A s \in Slots \ {t} : answer'[s] = answer[s]
    BY <1>0, <1>n, <2>1, GoesHonest
  <2>3. dialog'[k.admin] = Idle /\ \A b \in Admins \ {k.admin} : dialog'[b] = dialog[b]
    BY <1>0, <2>1 DEF Clear, ActorTypes
  <2>4. failed' = failed \ {k.admin}
    BY <2>1 DEF Clear
  <2>5. Tidy' \subseteq Tidy \cup {k.admin}
    BY <2>2, <2>4 DEF Tidy
  <2>6. Held'
    BY <1>0, <2>3, <2>5 DEF Held, Idle, Tidy
  <2>7. UNCHANGED <<promo, chosen>>
    BY <1>5 DEF EndPromo, tables
  <2> QED BY <1>s, <2>2, <2>6, <2>7 DEF Choices, Fine
<1>6. CASE AbandonPromo(t)
  <2>1. k \in Answers /\ k.admin \in Admins /\ Goes(t, NoTask)
    BY <1>6, <1>k DEF AbandonPromo
  <2>2. /\ \A s \in Slots : Honest(answer'[s])
        /\ answer'[t] = NoTask /\ \A s \in Slots \ {t} : answer'[s] = answer[s]
    BY <1>0, <1>n, <2>1, GoesHonest
  <2>3. UNCHANGED <<promo, chosen, dialog>>
    BY <1>6 DEF AbandonPromo, tables
  <2>4. failed' = IF k.at = "bind" THEN failed ELSE failed \cup {k.admin}
    BY <1>6 DEF AbandonPromo
  <2>5. Tidy' \subseteq Tidy
    BY <2>2, <2>4 DEF Tidy
  <2> QED BY <1>0, <1>s, <2>2, <2>3, <2>5 DEF Choices, Fine, Held
<1> QED BY <1>1, <1>2, <1>3, <1>4, <1>5, <1>6 DEF Answering

\* Every step keeps what codes are bound to, and what the data holds.
LEMMA StepChoices ==
  ASSUME Types, Refs, Choices, [Next]_vars PROVE Choices'
<1>1. ASSUME NEW t \in Slots, Answering(t) PROVE Choices'
  BY <1>1, AnswerChoices
<1>2. ASSUME UNCHANGED answer,
             \/ \E a \in Admins : Dialog(a)
             \/ \E t \in Slots : Handle(t)
             \/ DeleteValue \/ DeletePromo \/ Api \/ UNCHANGED vars
      PROVE Choices'
  <2>1. Fine'
    BY <1>2, OtherChoices DEF Choices
  <2>2. (\A t \in Slots : Honest(answer[t]))'
    BY <1>2 DEF Choices
  <2> QED BY <2>1, <2>2 DEF Choices
<1> QED BY <1>1, <1>2 DEF Next, vars

\* A promo code is bound to what its dialog was told, whatever dialogs, handlers
\* and calls run at once: the data of an earlier dialog is never bound to, unless an
\* answer of the administrator's had failed, another one was under way, or the data
\* was changed behind the handler's back.
THEOREM Bound == Spec => []BoundAsChosen
<1>1. Init => Types /\ Refs /\ Choices
  <2> SUFFICES ASSUME Init PROVE Choices
    BY InitTypes
  <2>1. BoundAsChosen
    BY DEF Init, BoundAsChosen, NoPromo, Unbound
  <2>2. Held
    BY DEF Init, Idle, Held, Tidy
  <2>3. \A t \in Slots : Honest(answer[t])
    BY DEF Init, NoTask, Honest
  <2> QED BY <2>1, <2>2, <2>3 DEF Choices, Fine
<1>2. Types /\ Refs /\ Choices /\ [Next]_vars => Types' /\ Refs' /\ Choices'
  BY StepTypes, StepChoices
<1>3. Choices => BoundAsChosen
  BY DEF Choices, Fine
<1> QED BY <1>1, <1>2, <1>3, PTL DEF Spec

-----------------------------------------------------------------------------
(* Both kinds of stock come together only by an overlap. *)

\* What a dialog and a handler deal with, by their data.
LEMMA DealsWorks ==
  /\ \A a : InDialog(a) = Deals(dialog[a]) /\ InDialog(a)' = Deals(dialog'[a])
  /\ \A t : InTask(t) = Works(task[t]) /\ InTask(t)' = Works(task'[t])
  BY DEF InDialog, InTask, Deals, Works, AddPlaces, UpdPlaces

\* The catalogue begins with one kind of stock per position.
LEMMA InitOverlaps == Init => Overlaps
<1> SUFFICES ASSUME Init, NEW n \in ItemNames PROVE Orderly(n)
  BY DEF Overlaps
<1>1. \A a \in Admins : InDialog(a) = {}
  BY DEF Init, InDialog, Idle
<1>2. \A t \in Slots : InTask(t) = {}
  BY DEF Init, InTask
<1>3. ~ BOOLEAN \subseteq RowKinds(n)
  <2> SUFFICES ASSUME TRUE \in RowKinds(n), FALSE \in RowKinds(n) PROVE FALSE
    OBVIOUS
  <2>1. PICK r \in stock, q \in stock :
          item[r.item].name = n /\ item[q.item].name = n /\ r.inf = TRUE /\ q.inf = FALSE
    BY DEF RowKinds
  <2>2. PICK name \in [Items -> ItemNames \cup {Free}], c \in Cats :
          /\ Distinct(ItemNames, name)
          /\ item = [i \in Items |-> IF name[i] = Free THEN NoItem(Free)
                                                       ELSE [name |-> name[i], cat |-> c]]
    BY DEF Init
  <2>3. PICK inf \in [Items -> BOOLEAN] :
          stock \in SUBSET {x \in Row : item[x.item].name \in ItemNames /\ x.inf = inf[x.item]}
    BY DEF Init, Row
  <2>4. r \in Row /\ q \in Row /\ r.inf = inf[r.item] /\ q.inf = inf[q.item]
    BY <2>3
  <2>5. \A i \in Items : item[i].name = name[i]
    BY <2>2 DEF NoItem
  <2>6. r.item \in Items /\ q.item \in Items
    BY <2>4 DEF Row
  <2>7. r.item = q.item
    BY <2>1, <2>2, <2>5, <2>6 DEF Distinct
  <2> QED BY <2>1, <2>4, <2>7
<1> QED BY <1>1, <1>2, <1>3 DEF Orderly

\* A position stays in order while those that deal with it stay the same kind,
\* and its rows are what they expect.
LEMMA Kept ==
  ASSUME NEW n \in ItemNames, Orderly(n),
         \A a \in Admins : n \in InDialog(a)' =>
           n \in InDialog(a) /\ dialog'[a].at = dialog[a].at /\ Expects(dialog[a].at, n)',
         \A t \in Slots : n \in InTask(t)' =>
           /\ n \in InTask(t) /\ task'[t].kind = task[t].kind /\ task'[t].inf = task[t].inf
           /\ Fills(task[t], n)',
         ~ BOOLEAN \subseteq RowKinds(n)'
  PROVE Orderly(n)'
<1>1. \A t, s \in Slots : n \in InTask(t)' \cap InTask(s)' => t = s
  BY DEF Orderly
<1>2. \A a, b \in Admins : n \in InDialog(a)' \cap InDialog(b)' => a = b
  BY DEF Orderly
<1>3. \A a \in Admins, t \in Slots :
        n \in InDialog(a)' \cap InTask(t)' => Matches(dialog'[a].at, task'[t])
  BY DEF Orderly, Matches
<1> QED BY <1>1, <1>2, <1>3 DEF Orderly

\* So it does while nothing comes to it.
LEMMA Fewer ==
  ASSUME NEW n \in ItemNames, Orderly(n),
         \A a \in Admins : n \in InDialog(a)' =>
           n \in InDialog(a) /\ dialog'[a].at = dialog[a].at,
         \A t \in Slots : n \in InTask(t)' => n \in InTask(t) /\ task'[t] = task[t],
         ItemNamed(n)' \subseteq ItemNamed(n), RowKinds(n)' \subseteq RowKinds(n)
  PROVE Orderly(n)'
<1>1. \A a \in Admins : n \in InDialog(a)' => Expects(dialog[a].at, n)'
  BY DEF Orderly, Expects
<1>2. \A t \in Slots : n \in InTask(t)' => Fills(task[t], n)'
  BY DEF Orderly, Fills
<1>3. ~ BOOLEAN \subseteq RowKinds(n)'
  BY DEF Orderly
<1> QED BY <1>1, <1>2, <1>3, Kept

\* A dialog goes on to data e, which expects what is there.
LEMMA DialogMoves ==
  ASSUME NEW n \in ItemNames, Orderly(n), ActorTypes, NEW a \in Admins, NEW e,
         dialog' = [dialog EXCEPT ![a] = e], UNCHANGED <<item, stock, task>>,
         n \in Deals(e) =>
           /\ Expects(e.at, n)
           /\ \A t \in Slots : n \in InTask(t) => Matches(e.at, task[t])
           /\ n \in InDialog(a) \/ \A b \in Admins \ {a} : n \notin InDialog(b)
  PROVE Orderly(n)'
<1>1. dialog'[a] = e /\ \A b \in Admins \ {a} : dialog'[b] = dialog[b]
  BY DEF ActorTypes
<1>2. ItemNamed(n)' = ItemNamed(n) /\ RowKinds(n)' = RowKinds(n)
  BY DEF ItemNamed, RowKinds
<1>3. \A t \in Slots : InTask(t)' = InTask(t) /\ task'[t] = task[t]
  BY DEF InTask
<1>4. InDialog(a)' = Deals(e) /\ \A b \in Admins \ {a} : InDialog(b)' = InDialog(b)
  BY <1>1, DealsWorks
<1>5. \A b, c \in Admins : n \in InDialog(b)' \cap InDialog(c)' => b = c
  BY <1>4 DEF Orderly
<1>6. \A b \in Admins, t \in Slots :
        n \in InDialog(b)' \cap InTask(t)' => Matches(dialog'[b].at, task'[t])
  BY <1>1, <1>3, <1>4 DEF Orderly
<1>7. \A b \in Admins : n \in InDialog(b)' => Expects(dialog'[b].at, n)
  BY <1>1, <1>4 DEF Orderly
<1>8. \A b \in Admins : n \in InDialog(b)' => Expects(dialog[b].at, n)'
  BY <1>2, <1>7 DEF Expects
<1>9. \A t \in Slots : n \in InTask(t)' => Fills(task[t], n)'
  BY <1>2, <1>3 DEF Orderly, Fills
<1> QED BY <1>2, <1>3, <1>5, <1>6, <1>8, <1>9 DEF Orderly

\* A slot gets handler k, or is free, and what is there is what k fills up.
LEMMA TaskMoves ==
  ASSUME NEW n \in ItemNames, Orderly(n), ActorTypes, NEW t \in Slots, NEW k,
         task' = [task EXCEPT ![t] = k], UNCHANGED <<item, stock, dialog>>,
         n \in Works(k) =>
           /\ Fills(k, n)
           /\ \A a \in Admins : n \in InDialog(a) => Matches(dialog[a].at, k)
           /\ n \in InTask(t) \/ \A s \in Slots \ {t} : n \notin InTask(s)
  PROVE Orderly(n)'
<1>1. task'[t] = k /\ \A s \in Slots \ {t} : task'[s] = task[s]
  BY DEF ActorTypes
<1>2. ItemNamed(n)' = ItemNamed(n) /\ RowKinds(n)' = RowKinds(n)
  BY DEF ItemNamed, RowKinds
<1>3. \A a \in Admins : InDialog(a)' = InDialog(a) /\ dialog'[a] = dialog[a]
  BY DEF InDialog
<1>4. InTask(t)' = Works(k) /\ \A s \in Slots \ {t} : InTask(s)' = InTask(s)
  BY <1>1, DealsWorks
<1>5. \A s, u \in Slots : n \in InTask(s)' \cap InTask(u)' => s = u
  BY <1>4 DEF Orderly
<1>6. \A a \in Admins, s \in Slots :
        n \in InDialog(a)' \cap InTask(s)' => Matches(dialog'[a].at, task'[s])
  BY <1>1, <1>3, <1>4 DEF Orderly
<1>7. \A a \in Admins : n \in InDialog(a)' => Expects(dialog[a].at, n)'
  BY <1>2, <1>3 DEF Orderly, Expects
<1>8. \A s \in Slots : n \in InTask(s)' => Fills(task'[s], n)
  BY <1>1, <1>4 DEF Orderly
<1>9. \A s \in Slots : n \in InTask(s)' => Fills(task[s], n)'
  BY <1>2, <1>8 DEF Fills
<1> QED BY <1>2, <1>3, <1>5, <1>6, <1>7, <1>9 DEF Orderly

\* What two dialogs or handlers dealt with at once is remembered.
LEMMA SharedGrows == ASSUME [Next]_vars PROVE shared \subseteq shared'
<1>b. ASSUME NEW a, NEW n, Begin(a, n) PROVE shared \subseteq shared'
  BY <1>b DEF Begin
<1>r. ASSUME NEW t, NEW a, NEW first, NEW kind, NEW values, NEW inf,
             Run(t, a, first, kind, values, inf)
      PROVE shared \subseteq shared'
  BY <1>r DEF Run
<1>1. ASSUME NEW a \in Admins, CheckItemNameForAdd(a) \/ CheckItemNameForAmount(a)
                               \/ CheckItemNameForUpdate(a)
      PROVE shared \subseteq shared'
  BY <1>1, <1>b DEF CheckItemNameForAdd, CheckItemNameForAmount, CheckItemNameForUpdate
<1>2. ASSUME NEW a \in Admins, NEW t \in Slots, Finish(a, t) PROVE shared \subseteq shared'
  BY <1>2, <1>r DEF Finish, FinishAddingItems, UpdatingItemAmount, UpdateItemNoInfinity,
                    FinishAddingItem, UpdateItemInfinity
<1>3. CASE Api
  BY <1>3 DEF Api, ApiCategory, ApiGood, ApiPromo
<1>4. ASSUME NEW a \in Admins,
             \/ Open(a) \/ Menu(a) \/ CheckCategoryForAddItem(a) \/ AddingValueToPosition(a)
             \/ UpdateItemProcess(a) \/ Collect(a) \/ CheckCategoryForUpdate(a)
             \/ PromoCode(a) \/ PromoBinding(a) \/ DeleteItem(a) \/ AddCategory(a)
             \/ DeleteCategory(a) \/ RenameCategory(a)
      PROVE shared' = shared
  BY <1>4 DEF Open, Menu, CheckCategoryForAddItem, AddingValueToPosition, UpdateItemProcess,
              Collect, CheckCategoryForUpdate, PromoCode, PromoBinding, DeleteItem,
              AddCategory, DeleteCategory, DeleteNamed, RenameCategory
<1>5. ASSUME NEW t \in Slots, Handle(t) \/ Answering(t) PROVE shared' = shared
  BY <1>5 DEF Handle, CreateItem, Purge, AddValue, UpdateItem, Finished, Abort, Answering,
              AnswerPromo, BindPromo, ReadPromo, MakePromo, EndPromo, AbandonPromo
<1>6. CASE DeleteValue \/ DeletePromo \/ UNCHANGED vars
  BY <1>6 DEF DeleteValue, DeletePromo, vars
<1> QED BY <1>1, <1>2, <1>3, <1>4, <1>5, <1>6 DEF Next, Dialog

\* A dialog begins on n where no other one, and no handler, deals with n.
LEMMA BeginAlone ==
  ASSUME NEW a \in Admins, NEW n \in ItemNames, Begin(a, n), n \notin shared'
  PROVE /\ \A b \in Admins \ {a} : n \notin InDialog(b)
        /\ \A t \in Slots : n \notin InTask(t)
  BY DEF Begin

\* The start of a dialog, the menu and the prompts.
LEMMA PromptOverlaps ==
  ASSUME Types, NEW n \in ItemNames, Orderly(n), n \notin shared', NEW a \in Admins,
         \/ Open(a) \/ Menu(a) \/ CheckItemNameForAdd(a) \/ CheckItemNameForAmount(a)
         \/ CheckItemNameForUpdate(a) \/ CheckCategoryForAddItem(a)
         \/ AddingValueToPosition(a) \/ UpdateItemProcess(a) \/ Collect(a)
         \/ CheckCategoryForUpdate(a) \/ PromoCode(a) \/ PromoBinding(a)
  PROVE Orderly(n)'
<1> DEFINE d == dialog[a]
<1>0. ActorTypes /\ TableTypes /\ d \in Fields
  BY DataTypes DEF Types
<1>s. UNCHANGED <<item, stock, task>>
  BY DEF tables, Open, Menu, CheckItemNameForAdd, CheckItemNameForAmount,
         CheckItemNameForUpdate, CheckCategoryForAddItem, AddingValueToPosition,
         UpdateItemProcess, Collect, CheckCategoryForUpdate, PromoCode, PromoBinding
<1>f. ASSUME dialog' = dialog PROVE Orderly(n)'
  <2>1. ItemNamed(n)' = ItemNamed(n) /\ RowKinds(n)' = RowKinds(n)
    BY <1>s DEF ItemNamed, RowKinds
  <2>2. /\ \A b \in Admins : InDialog(b)' = InDialog(b)
        /\ \A t \in Slots : InTask(t)' = InTask(t)
    BY <1>f, <1>s DEF InDialog, InTask
  <2> QED BY <1>f, <1>s, <2>1, <2>2, Fewer
\* The dialog deals with nothing.
<1>g. ASSUME NEW at \in Places, NEW e \in Fields, Goto(a, at, e),
             at \notin AddPlaces \cup {"amount_values"} \cup UpdPlaces
      PROVE Orderly(n)'
  <2> DEFINE u == [e EXCEPT !.at = at]
  <2>1. dialog' = [dialog EXCEPT ![a] = u] /\ u.at = at
    BY <1>g DEF Goto, Fields
  <2> HIDE DEF u
  <2>2. Deals(u) = {}
    BY <1>g, <2>1 DEF Deals
  <2> QED BY <1>0, <1>s, <2>1, <2>2, DialogMoves
\* The dialog begins on m.
<1>b. ASSUME NEW at \in Places, NEW e \in Fields, NEW m \in ItemNames, Goto(a, at, e), Begin(a, m),
             \/ at \in {"add_category", "amount_values"} /\ e.name = m
             \/ at = "upd_decide" /\ e.old = m,
             m = n => Expects(at, n)
      PROVE Orderly(n)'
  <2> DEFINE u == [e EXCEPT !.at = at]
  <2>1. /\ dialog' = [dialog EXCEPT ![a] = u] /\ u.at = at
        /\ u.name = e.name /\ u.old = e.old
    BY <1>b DEF Goto, Fields
  <2> HIDE DEF u
  <2>2. Deals(u) = {m}
    BY <1>b, <2>1 DEF Deals, AddPlaces, UpdPlaces
  <2>3. n \in Deals(u) =>
          /\ Expects(u.at, n)
          /\ \A t \in Slots : n \in InTask(t) => Matches(u.at, task[t])
          /\ \A b \in Admins \ {a} : n \notin InDialog(b)
    BY <1>b, <2>1, <2>2, BeginAlone
  <2> QED BY <1>0, <1>s, <2>1, <2>3, DialogMoves
\* The dialog goes on with what it deals with.
<1>m. ASSUME NEW at \in Places, NEW e \in Fields, Goto(a, at, e), e.name = d.name, e.old = d.old,
             \/ At(a, "add_category") /\ at = "add_infinity"
             \/ At(a, "add_infinity") /\ at \in {"add_values", "add_single"}
             \/ At(a, "upd_decide") /\ at \in {"upd_values", "upd_single"}
      PROVE Orderly(n)'
  <2> DEFINE u == [e EXCEPT !.at = at]
  <2>1. /\ dialog' = [dialog EXCEPT ![a] = u] /\ u.at = at
        /\ u.name = d.name /\ u.old = d.old
    BY <1>m DEF Goto, Fields
  <2> HIDE DEF u
  <2>2. Deals(u) = Deals(d)
    BY <1>m, <2>1 DEF Deals, AddPlaces, UpdPlaces, At
  <2>3. n \in Deals(u) => n \in InDialog(a)
    BY <2>2, DealsWorks
  <2>4. ASSUME n \in InDialog(a) PROVE Expects(at, n)
    <3>1. Expects(d.at, n)
      BY <2>4 DEF Orderly
    <3>2. ASSUME ItemNamed(n) = {} PROVE RowKinds(n) = {}
      BY <1>0, <3>2 DEF ItemNamed, RowKinds, TableTypes, Row
    <3> QED BY <1>m, <3>1, <3>2 DEF Expects, At
  <2>5. ASSUME n \in InDialog(a), NEW t \in Slots, n \in InTask(t) PROVE Matches(at, task[t])
    <3>1. Matches(d.at, task[t])
      BY <2>5 DEF Orderly
    <3> QED BY <1>m, <3>1 DEF Matches, At, UpdPlaces
  <2> QED BY <1>0, <1>s, <2>1, <2>3, <2>4, <2>5, DialogMoves
<1>1. CASE Open(a)
  BY <1>0, <1>1, <1>g DEF Open, Starts, Places, AddPlaces, UpdPlaces
<1>2. CASE Menu(a)
  <2>1. dialog' = [dialog EXCEPT ![a] = Idle]
    BY <1>2 DEF Menu, Clear
  <2>2. Deals(Idle) = {}
    BY DEF Deals, Idle, AddPlaces, UpdPlaces
  <2> QED BY <1>0, <1>s, <2>1, <2>2, DialogMoves
<1>3. CASE CheckItemNameForAdd(a)
  <2>1. PICK m \in ItemNames, found \in BOOLEAN :
          /\ Check(m, found)
          /\ IF found THEN UNCHANGED <<dialog, shared>>
             ELSE Goto(a, "add_category", [d EXCEPT !.name = m]) /\ Begin(a, m)
    BY <1>3 DEF CheckItemNameForAdd
  <2>2. CASE ~ found
    <3> DEFINE e == [d EXCEPT !.name = m]
    <3>1. e \in Fields /\ e.name = m
      BY <1>0 DEF Fields
    <3>2. Goto(a, "add_category", e) /\ Begin(a, m)
      BY <2>1, <2>2
    <3>3. ItemNamed(m) = {}
      BY <2>1, <2>2 DEF Check, There
    <3>4. Expects("add_category", m) /\ "add_category" \in Places
      BY <3>3 DEF Expects, Places, AddPlaces
    <3> HIDE DEF e
    <3> QED BY <1>b, <3>1, <3>2, <3>4
  <2> QED BY <1>f, <2>1, <2>2
<1>4. CASE CheckItemNameForAmount(a)
  <2>1. PICK m \in ItemNames, found \in BOOLEAN :
          IF ~ found \/ Infinite(m) THEN UNCHANGED <<dialog, shared>>
             ELSE Goto(a, "amount_values", [d EXCEPT !.name = m]) /\ Begin(a, m)
    BY <1>4 DEF CheckItemNameForAmount
  <2>2. CASE found /\ ~ Infinite(m)
    <3> DEFINE e == [d EXCEPT !.name = m]
    <3>1. e \in Fields /\ e.name = m
      BY <1>0 DEF Fields
    <3>2. Goto(a, "amount_values", e) /\ Begin(a, m)
      BY <2>1, <2>2
    <3>3. TRUE \notin RowKinds(m)
      BY <1>0, <2>2 DEF Infinite, ItemNamed, RowKinds, TableTypes, Row
    <3>4. Expects("amount_values", m) /\ "amount_values" \in Places
      BY <3>3 DEF Expects, Places
    <3> HIDE DEF e
    <3> QED BY <1>b, <3>1, <3>2, <3>4
  <2> QED BY <1>f, <2>1, <2>2
<1>5. CASE CheckItemNameForUpdate(a)
  <2>1. PICK m \in ItemNames, found \in BOOLEAN :
          IF ~ found THEN UNCHANGED <<dialog, shared>>
          ELSE /\ Begin(a, m)
               /\ \E c \in IF ItemNamed(m) = {} THEN {Null} ELSE {item[i].cat : i \in ItemNamed(m)} :
                    Goto(a, "upd_decide", [d EXCEPT !.old = m, !.cat = c])
    BY <1>5 DEF CheckItemNameForUpdate
  <2>2. CASE found
    <3>1. (IF ItemNamed(m) = {} THEN {Null} ELSE {item[i].cat : i \in ItemNamed(m)})
            \subseteq Cats \cup {Null}
      BY <1>0 DEF TableTypes, Position, ItemNamed
    <3>2. PICK c \in Cats \cup {Null} : Goto(a, "upd_decide", [d EXCEPT !.old = m, !.cat = c])
      BY <2>1, <2>2, <3>1
    <3> DEFINE e == [d EXCEPT !.old = m, !.cat = c]
    <3>3. e \in Fields /\ e.old = m
      BY <1>0 DEF Fields
    <3>4. Goto(a, "upd_decide", e) /\ Begin(a, m)
      BY <2>1, <2>2, <3>2
    <3>5. Expects("upd_decide", m) /\ "upd_decide" \in Places
      BY DEF Expects, Places, UpdPlaces
    <3> HIDE DEF e
    <3> QED BY <1>b, <3>3, <3>4, <3>5
  <2> QED BY <1>f, <2>1, <2>2
<1>6. CASE CheckCategoryForAddItem(a)
  <2>1. PICK c \in CatNames, found \in BOOLEAN :
          IF found THEN Goto(a, "add_infinity", [d EXCEPT !.cat = c]) ELSE UNCHANGED dialog
    BY <1>6 DEF CheckCategoryForAddItem
  <2>2. CASE found
    <3> DEFINE e == [d EXCEPT !.cat = c]
    <3>1. e \in Fields /\ e.name = d.name /\ e.old = d.old /\ "add_infinity" \in Places
      BY <1>0 DEF Fields, Places, AddPlaces
    <3>2. Goto(a, "add_infinity", e) /\ At(a, "add_category")
      BY <1>6, <2>1, <2>2 DEF CheckCategoryForAddItem
    <3> HIDE DEF e
    <3> QED BY <1>m, <3>1, <3>2
  <2> QED BY <1>f, <2>1, <2>2
<1>7. CASE AddingValueToPosition(a)
  BY <1>0, <1>7, <1>m DEF AddingValueToPosition, Places, AddPlaces
<1>8. CASE UpdateItemProcess(a)
  BY <1>0, <1>8, <1>m DEF UpdateItemProcess, Places, UpdPlaces
<1>9. CASE Collect(a)
  <2>1. PICK v \in Values : dialog' = [dialog EXCEPT ![a].values = @ \cup {v}]
    BY <1>9 DEF Collect
  <2>2. /\ dialog'[a].at = d.at /\ dialog'[a].name = d.name /\ dialog'[a].old = d.old
        /\ \A b \in Admins \ {a} : dialog'[b] = dialog[b]
    BY <1>0, <2>1 DEF ActorTypes, Fields
  <2>3. \A b \in Admins : InDialog(b)' = InDialog(b) /\ dialog'[b].at = dialog[b].at
    BY <2>2 DEF InDialog
  <2>4. ItemNamed(n)' = ItemNamed(n) /\ RowKinds(n)' = RowKinds(n)
    BY <1>s DEF ItemNamed, RowKinds
  <2>5. \A t \in Slots : InTask(t)' = InTask(t)
    BY <1>s DEF InTask
  <2> QED BY <1>s, <2>3, <2>4, <2>5, Fewer
<1>10. CASE CheckCategoryForUpdate(a)
  <2>1. PICK m \in CatNames, found \in BOOLEAN :
          IF found THEN Goto(a, "cat_new", [d EXCEPT !.old = m]) /\ UNCHANGED failed ELSE Clear(a)
    BY <1>10 DEF CheckCategoryForUpdate
  <2>2. CASE found
    <3>1. [d EXCEPT !.old = m] \in Fields
      BY <1>0 DEF Fields
    <3> QED BY <1>g, <2>1, <2>2, <3>1 DEF Places, AddPlaces, UpdPlaces
  <2>3. CASE ~ found
    <3>1. dialog' = [dialog EXCEPT ![a] = Idle]
      BY <2>1, <2>3 DEF Clear
    <3>2. Deals(Idle) = {}
      BY DEF Deals, Idle, AddPlaces, UpdPlaces
    <3> QED BY <1>0, <1>s, <3>1, <3>2, DialogMoves
  <2> QED BY <2>2, <2>3
<1>11. CASE PromoCode(a)
  <2>1. PICK x \in Codes : Goto(a, "promo_binding", [d EXCEPT !.code = x])
    BY <1>11 DEF PromoCode
  <2>2. [d EXCEPT !.code = x] \in Fields
    BY <1>0 DEF Fields
  <2> QED BY <1>g, <2>1, <2>2 DEF Places, AddPlaces, UpdPlaces, PromoPlaces
<1>12. CASE PromoBinding(a)
  <2>1. PICK x \in {"category", "item"} : Goto(a, "promo_name", [d EXCEPT !.binding = x])
    BY <1>12 DEF PromoBinding
  <2>2. [d EXCEPT !.binding = x] \in Fields
    BY <1>0 DEF Fields
  <2> QED BY <1>g, <2>1, <2>2 DEF Places, AddPlaces, UpdPlaces, PromoPlaces
<1> QED BY <1>1, <1>2, <1>3, <1>4, <1>5, <1>6, <1>7, <1>8, <1>9, <1>10, <1>11, <1>12

\* A handler that ends a dialog adds the rows the dialog expects.
LEMMA FinishOverlaps ==
  ASSUME Types, NEW n \in ItemNames, Orderly(n), n \notin shared', NEW a \in Admins,
         NEW t \in Slots, Finish(a, t)
  PROVE Orderly(n)'
<1> DEFINE d == dialog[a]
<1>0. ActorTypes /\ TableTypes /\ d \in Fields
  BY DataTypes DEF Types
<1>s. UNCHANGED <<item, stock, dialog>>
  BY DEF Finish, tables
<1>1. ASSUME NEW first \in {"create", "purge", "fill", "meta"},
             NEW kind \in {"add", "amount", "update"}, NEW values,
             NEW inf \in BOOLEAN, Run(t, a, first, kind, values, inf),
             \/ kind = "update" /\ d.at \in UpdPlaces
             \/ kind # "update" /\ d.at \in {"add_values", "amount_values"} /\ inf = FALSE
             \/ kind # "update" /\ d.at = "add_single" /\ inf = TRUE,
             first \in {"create", "fill"} =>
               \/ d.at \in {"add_values", "amount_values"} /\ inf = FALSE
               \/ d.at = "add_single" /\ inf = TRUE
      PROVE Orderly(n)'
  <2> DEFINE m == IF kind = "update" THEN d.old ELSE d.name
             k == [at |-> first, admin |-> a, kind |-> kind, name |-> m, cat |-> d.cat,
                   left |-> values, inf |-> inf]
             e == IF k.at # "fill" \/ k.left # {} THEN k
                    ELSE [k EXCEPT !.at = IF k.kind = "update" THEN "meta" ELSE "clear"]
  <2>1. /\ task' = [task EXCEPT ![t] = e]
        /\ shared' = IF m \in UNION {InTask(s) : s \in Slots} THEN shared \cup {m} ELSE shared
    BY <1>1 DEF Run, Resume
  <2>2. /\ e.name = m /\ e.kind = kind /\ e.inf = inf
        /\ e.at \in {"create", "fill"} => first \in {"create", "fill"}
    OBVIOUS
  <2>3. Deals(d) = {m}
    BY <1>1 DEF Deals, AddPlaces, UpdPlaces
  <2> HIDE DEF e, k, m
  <2>4. ASSUME n \in Works(e)
        PROVE /\ Fills(e, n)
              /\ \A b \in Admins : n \in InDialog(b) => Matches(dialog[b].at, e)
              /\ \A s \in Slots \ {t} : n \notin InTask(s)
    <3>1. n = m
      BY <2>2, <2>4 DEF Works
    <3>2. \A s \in Slots : n \notin InTask(s)
      BY <2>1, <3>1
    <3>3. n \in InDialog(a)
      BY <2>3, <3>1, DealsWorks
    <3>4. \A b \in Admins : n \in InDialog(b) => b = a
      BY <3>3 DEF Orderly
    <3>5. Matches(d.at, e)
      <4>1. CASE kind = "update" /\ d.at \in UpdPlaces
        BY <2>2, <4>1 DEF Matches, UpdPlaces
      <4>2. CASE kind # "update" /\ d.at \in {"add_values", "amount_values"} /\ inf = FALSE
        <5>1. e.kind # "update" /\ e.inf = FALSE
          BY <2>2, <4>2
        <5> QED BY <4>2, <5>1 DEF Matches, UpdPlaces
      <4>3. CASE kind # "update" /\ d.at = "add_single" /\ inf = TRUE
        <5>1. e.kind # "update" /\ e.inf = TRUE
          BY <2>2, <4>3
        <5> QED BY <4>3, <5>1 DEF Matches, UpdPlaces
      <4> QED BY <1>1, <4>1, <4>2, <4>3
    <3>6. Fills(e, n)
      <4> SUFFICES ASSUME e.at \in {"create", "fill"} PROVE (~ e.inf) \notin RowKinds(n)
        BY DEF Fills
      <4>1. Expects(d.at, n)
        BY <3>3 DEF Orderly
      <4>2. CASE d.at \in {"add_values", "amount_values"} /\ inf = FALSE
        <5>1. (~ e.inf) = TRUE
          BY <2>2, <4>2
        <5> QED BY <4>1, <4>2, <5>1 DEF Expects
      <4>3. CASE d.at = "add_single" /\ inf = TRUE
        <5>1. (~ e.inf) = FALSE
          BY <2>2, <4>3
        <5> QED BY <4>1, <4>3, <5>1 DEF Expects
      <4> QED BY <1>1, <2>2, <4>2, <4>3
    <3> QED BY <3>2, <3>4, <3>5, <3>6
  <2> QED BY <1>0, <1>s, <2>1, <2>4, TaskMoves
<1>2. CASE FinishAddingItems(a, t)
  <2>1. d.at = "add_values" /\ Run(t, a, "create", "add", d.values, FALSE)
    BY <1>2 DEF FinishAddingItems, At
  <2> QED BY <1>1, <2>1
<1>3. CASE UpdatingItemAmount(a, t)
  <2>1. d.at = "amount_values" /\ Run(t, a, "fill", "amount", d.values, FALSE)
    BY <1>3 DEF UpdatingItemAmount, At
  <2> QED BY <1>1, <2>1
<1>4. CASE UpdateItemNoInfinity(a, t)
  BY <1>1, <1>4 DEF UpdateItemNoInfinity, At, UpdPlaces
<1>5. CASE FinishAddingItem(a, t)
  BY <1>1, <1>5 DEF FinishAddingItem, At
<1>6. CASE UpdateItemInfinity(a, t)
  BY <1>1, <1>6 DEF UpdateItemInfinity, At, UpdPlaces
<1>7. CASE At(a, "upd_decide") /\ Run(t, a, "meta", "update", {}, FALSE)
  BY <1>1, <1>7 DEF At, UpdPlaces
<1> QED BY <1>2, <1>3, <1>4, <1>5, <1>6, <1>7 DEF Finish

\* The rows a handler adds are of its kind, and where it purges none stay.
LEMMA HandlerOverlaps ==
  ASSUME Types, Refs, NEW n \in ItemNames, Orderly(n), NEW t \in Slots,
         \/ CreateItem(t) \/ Purge(t) \/ AddValue(t) \/ UpdateItem(t)
         \/ Finished(t) \/ Abort(t)
  PROVE Orderly(n)'
<1> USE CatalogueAssumption
<1> DEFINE k == task[t]
<1>0. ActorTypes /\ TableTypes
  BY DEF Types
\* One more step of a handler that is at work leaves the others alone.
<1>d. ASSUME UNCHANGED dialog
      PROVE \A a \in Admins : InDialog(a)' = InDialog(a) /\ dialog'[a].at = dialog[a].at
  BY <1>d DEF InDialog
<1>t. ASSUME NEW e, task' = [task EXCEPT ![t] = e]
      PROVE /\ task'[t] = e /\ InTask(t)' = Works(e)
            /\ \A s \in Slots \ {t} : task'[s] = task[s] /\ InTask(s)' = InTask(s)
  BY <1>0, <1>t, DealsWorks DEF ActorTypes
<1>r. ASSUME NEW e \in Handler, Resume(t, e), e.name = k.name, k \in Handlers
      PROVE /\ \E u \in Handler : /\ task' = [task EXCEPT ![t] = u] /\ u.name = k.name
                                  /\ u.kind = e.kind /\ u.inf = e.inf /\ u # NoTask
                                  /\ u.at \in {"create", "fill"} => u.at = e.at
  <2> DEFINE u == IF e.at # "fill" \/ e.left # {} THEN e
                    ELSE [e EXCEPT !.at = IF e.kind = "update" THEN "meta" ELSE "clear"]
  <2>1. /\ task' = [task EXCEPT ![t] = u] /\ u \in Handler /\ u.name = e.name
        /\ u.kind = e.kind /\ u.inf = e.inf
        /\ u.at \in {"create", "fill"} => u.at = e.at
    BY <1>r DEF Resume, Handler
  <2>2. u # NoTask
    BY <2>1 DEF NoTask, Handler
  <2> HIDE DEF u
  <2> QED BY <1>r, <2>1, <2>2
\* The step of a handler on m: other positions keep their rows.
<1>o. ASSUME NEW u \in Handler, k \in Handlers, k.name # n, u.name = k.name, u # NoTask,
             task' = [task EXCEPT ![t] = u], UNCHANGED dialog,
             ItemNamed(n)' \subseteq ItemNamed(n), RowKinds(n)' \subseteq RowKinds(n)
      PROVE Orderly(n)'
  <2>1. n \notin InTask(t)'
    <3>1. InTask(t)' = Works(u)
      BY <1>o, <1>t
    <3>2. Works(u) = {k.name}
      BY <1>o DEF Works
    <3> QED BY <1>o, <3>1, <3>2
  <2>2. \A s \in Slots : n \in InTask(s)' => n \in InTask(s) /\ task'[s] = task[s]
    BY <1>o, <1>t, <2>1
  <2> QED BY <1>d, <1>o, <2>2, Fewer
\* And its own.
<1>m. ASSUME NEW u \in Handler, k \in Handlers, k.name = n, u.name = n, u # NoTask,
             u.kind = k.kind, u.inf = k.inf, task' = [task EXCEPT ![t] = u], UNCHANGED dialog,
             u.at \in {"create", "fill"} => (~ k.inf) \notin RowKinds(n)',
             ~ BOOLEAN \subseteq RowKinds(n)',
             \A a \in Admins : n \in InDialog(a) /\ Matches(dialog[a].at, k)
               => Expects(dialog[a].at, n)'
      PROVE Orderly(n)'
  <2>1. k # NoTask /\ n \in InTask(t)
    BY <1>m, DealsWorks DEF Works, NoTask, Handlers, Handler
  <2>2. \A s \in Slots \ {t} : n \notin InTask(s)
    BY <2>1 DEF Orderly
  <2>3. \A s \in Slots : n \in InTask(s)' => s = t
    <3>1. \A s \in Slots \ {t} : InTask(s)' = InTask(s)
      BY <1>m, <1>t
    <3> QED BY <2>2, <3>1
  <2>4. Fills(u, n)'
    BY <1>m DEF Fills
  <2>5. \A s \in Slots : n \in InTask(s)' =>
          /\ n \in InTask(s) /\ task'[s].kind = task[s].kind /\ task'[s].inf = task[s].inf
          /\ Fills(task[s], n)'
    BY <1>m, <1>t, <2>1, <2>3, <2>4 DEF Fills
  <2>6. \A a \in Admins : n \in InDialog(a)' =>
          n \in InDialog(a) /\ dialog'[a].at = dialog[a].at /\ Expects(dialog[a].at, n)'
    BY <1>d, <1>m, <2>1 DEF Orderly
  <2> QED BY <1>m, <2>5, <2>6, Kept
<1>1. CASE CreateItem(t)
  <2>1. k \in Handlers /\ k.at = "create" /\ k # NoTask /\ k.kind = "add"
    BY <1>1, TaskTypes DEF CreateItem, Handlers, Suits
  <2> DEFINE e == [k EXCEPT !.at = "fill"]
  <2>2. e \in Handler /\ e.name = k.name /\ e.kind = k.kind /\ e.inf = k.inf /\ e.at = "fill"
    BY <2>1 DEF Handlers, Handler
  <2>3. Resume(t, e)
    BY <1>1 DEF CreateItem, Step
  <2> HIDE DEF e
  <2>4. PICK u \in Handler : /\ task' = [task EXCEPT ![t] = u] /\ u.name = k.name
                             /\ u.kind = k.kind /\ u.inf = k.inf /\ u # NoTask
                             /\ u.at \in {"create", "fill"} => u.at = "fill"
    BY <1>r, <2>1, <2>2, <2>3
  <2>5. UNCHANGED <<stock, dialog>>
    BY <1>1 DEF CreateItem
  <2>6. \A r \in stock : item'[r.item].name = item[r.item].name
    <3>1. CASE UNCHANGED item
      BY <3>1
    <3>2. ASSUME NEW i \in Items, item[i].name = Free, NEW x, item' = [item EXCEPT ![i] = x]
          PROVE \A r \in stock : item'[r.item].name = item[r.item].name
      <4>1. \A r \in stock : r.item \in Items /\ r.item # i
        BY <1>0, <3>2 DEF TableTypes, Row, Refs
      <4> QED BY <1>0, <3>2, <4>1 DEF TableTypes
    <3> QED BY <1>1, <3>1, <3>2 DEF CreateItem
  <2>7. RowKinds(n)' = RowKinds(n)
    BY <2>5, <2>6 DEF RowKinds
  <2>8. CASE k.name # n
    <3>1. ItemNamed(n)' \subseteq ItemNamed(n)
      <4>1. CASE UNCHANGED item
        BY <4>1 DEF ItemNamed
      <4>2. ASSUME NEW i \in Items, NEW c, item' = [item EXCEPT ![i] = [name |-> k.name, cat |-> c]]
            PROVE ItemNamed(n)' \subseteq ItemNamed(n)
        BY <1>0, <2>8, <4>2 DEF ItemNamed, TableTypes
      <4> QED BY <1>1, <4>1, <4>2 DEF CreateItem
    <3> QED BY <1>o, <2>1, <2>4, <2>5, <2>7, <2>8, <3>1
  <2>9. CASE k.name = n
    <3>1. n \in InTask(t)
      BY <2>1, <2>9 DEF InTask
    <3>2. (~ k.inf) \notin RowKinds(n)
      BY <2>1, <3>1 DEF Orderly, Fills
    <3>3. \A a \in Admins : n \in InDialog(a) /\ Matches(dialog[a].at, k)
            => Expects(dialog[a].at, n)'
      BY <2>5, <2>7 DEF Orderly, Expects, Matches
    <3>4. ~ BOOLEAN \subseteq RowKinds(n)'
      BY <2>7 DEF Orderly
    <3> QED BY <1>m, <2>1, <2>4, <2>5, <2>7, <2>9, <3>2, <3>3, <3>4
  <2> QED BY <2>8, <2>9
<1>2. CASE Purge(t)
  <2>1. k \in Handlers /\ k.kind = "update"
    BY <1>2, TaskTypes DEF Purge, Handlers, Suits
  <2> DEFINE e == [k EXCEPT !.at = "fill"]
  <2>2. e \in Handler /\ e.name = k.name /\ e.kind = k.kind /\ e.inf = k.inf
    BY <2>1 DEF Handlers, Handler
  <2>3. Resume(t, e)
    BY <1>2 DEF Purge, Step
  <2> HIDE DEF e
  <2>4. PICK u \in Handler : /\ task' = [task EXCEPT ![t] = u] /\ u.name = k.name
                             /\ u.kind = k.kind /\ u.inf = k.inf /\ u # NoTask
    BY <1>r, <2>1, <2>2, <2>3
  <2>5. /\ UNCHANGED <<item, dialog>> /\ stock' \subseteq stock
        /\ \A r \in stock' : r.item \notin ItemNamed(k.name)
    BY <1>2 DEF Purge
  <2>6. ItemNamed(n)' = ItemNamed(n) /\ RowKinds(n)' \subseteq RowKinds(n)
    BY <2>5 DEF ItemNamed, RowKinds
  <2>7. CASE k.name # n
    BY <1>o, <2>1, <2>4, <2>5, <2>6, <2>7
  <2>8. CASE k.name = n
    <3>1. RowKinds(n)' = {}
      BY <1>0, <2>5, <2>8 DEF RowKinds, ItemNamed, TableTypes, Row
    <3>2. \A a \in Admins : n \in InDialog(a) => Expects(dialog[a].at, n)'
      BY <2>5, <2>6, <3>1 DEF Orderly, Expects
    <3> QED BY <1>m, <2>1, <2>4, <2>5, <2>8, <3>1, <3>2
  <2> QED BY <2>7, <2>8
<1>3. CASE AddValue(t)
  <2>1. k \in Handlers /\ k.at = "fill" /\ k # NoTask
    BY <1>3, TaskTypes DEF AddValue
  <2>2. PICK v \in k.left :
          /\ Resume(t, [k EXCEPT !.left = @ \ {v}])
          /\ LET new == {i \in ItemNamed(k.name) : \A r \in RowsOf(i) : r.value # v}
             IN stock' = stock \cup {[item |-> i, value |-> v, inf |-> k.inf] : i \in new}
    BY <1>3 DEF AddValue
  <2> DEFINE e == [k EXCEPT !.left = @ \ {v}]
  <2>3. e \in Handler /\ e.name = k.name /\ e.kind = k.kind /\ e.inf = k.inf
    BY <2>1 DEF Handlers, Handler
  <2>4. Resume(t, e)
    BY <2>2
  <2> HIDE DEF e
  <2>5. PICK u \in Handler : /\ task' = [task EXCEPT ![t] = u] /\ u.name = k.name
                             /\ u.kind = k.kind /\ u.inf = k.inf /\ u # NoTask
    BY <1>r, <2>1, <2>3, <2>4
  <2>6. UNCHANGED <<item, dialog>>
    BY <1>3 DEF AddValue
  <2>7. ItemNamed(n)' = ItemNamed(n)
    BY <2>6 DEF ItemNamed
  <2>8. \A r \in stock' : r \in stock \/ (item[r.item].name = k.name /\ r.inf = k.inf)
    BY <2>2 DEF ItemNamed
  <2>9. CASE k.name # n
    <3>1. RowKinds(n)' \subseteq RowKinds(n)
      BY <2>6, <2>8, <2>9 DEF RowKinds
    <3> QED BY <1>o, <2>1, <2>5, <2>6, <2>7, <2>9, <3>1
  <2>10. CASE k.name = n
    <3>1. n \in InTask(t) /\ k.inf \in BOOLEAN
      BY <2>1, <2>10 DEF InTask, Handlers, Handler
    <3>2. (~ k.inf) \notin RowKinds(n) /\ \A a \in Admins : n \in InDialog(a) => Matches(dialog[a].at, k)
      BY <2>1, <3>1 DEF Orderly, Fills
    <3>3. \A r \in stock : item[r.item].name = n => r.inf # ~ k.inf
      BY <3>2 DEF RowKinds
    <3>4. (~ k.inf) \notin RowKinds(n)'
      BY <2>6, <2>8, <2>10, <3>1, <3>3 DEF RowKinds
    <3>5. ASSUME NEW a \in Admins, n \in InDialog(a), Matches(dialog[a].at, k)
          PROVE Expects(dialog[a].at, n)'
      <4>1. dialog'[a].at = dialog[a].at
        BY <2>6
      <4>2. CASE dialog[a].at \in {"add_values", "amount_values"}
        <5>1. k.inf = FALSE
          BY <3>1, <3>5, <4>2 DEF Matches
        <5>2. TRUE \notin RowKinds(n)'
          BY <3>4, <5>1
        <5> QED BY <4>1, <4>2, <5>2 DEF Expects
      <4>3. CASE dialog[a].at = "add_single"
        <5>1. k.inf = TRUE
          BY <3>1, <3>5, <4>3 DEF Matches
        <5>2. FALSE \notin RowKinds(n)'
          BY <3>4, <5>1
        <5> QED BY <4>1, <4>3, <5>2 DEF Expects
      <4>4. CASE dialog[a].at \notin {"add_values", "amount_values", "add_single"}
        BY <3>5, <4>1, <4>4 DEF Expects, Matches
      <4> QED BY <4>2, <4>3, <4>4
    <3>6. ~ BOOLEAN \subseteq RowKinds(n)'
      BY <3>1, <3>4
    <3> QED BY <1>m, <2>1, <2>5, <2>6, <2>10, <3>4, <3>5, <3>6
  <2> QED BY <2>9, <2>10
<1>4. CASE UpdateItem(t)
  <2>1. k \in Handlers /\ k # NoTask
    BY <1>4, TaskTypes DEF UpdateItem
  <2> DEFINE e == [k EXCEPT !.at = "clear"]
  <2>2. /\ task' = [task EXCEPT ![t] = e]
        /\ e.at = "clear" /\ e.name = k.name /\ e.kind = k.kind /\ e.inf = k.inf /\ e \in Handler
    BY <1>4, <2>1 DEF UpdateItem, Step, Resume, Handlers, Handler
  <2> HIDE DEF e
  <2>3. UNCHANGED <<item, stock, dialog>>
    BY <1>4, UpdateItemIdles DEF UpdateItem
  <2>4. n \in Works(e) => n \in InTask(t) /\ Fills(e, n)
    BY <2>1, <2>2, DealsWorks DEF Works, Fills
  <2>5. \A a \in Admins : n \in Works(e) /\ n \in InDialog(a) => Matches(dialog[a].at, e)
    BY <2>2, <2>4 DEF Orderly, Matches
  <2> QED BY <1>0, <2>2, <2>3, <2>4, <2>5, TaskMoves
<1>5. CASE Finished(t) \/ Abort(t)
  <2>1. UNCHANGED <<item, stock>> /\ task' = [task EXCEPT ![t] = NoTask]
    BY <1>5 DEF Finished, Abort, tables
  <2>2. ItemNamed(n)' = ItemNamed(n) /\ RowKinds(n)' = RowKinds(n)
    BY <2>1 DEF ItemNamed, RowKinds
  <2>3. \A s \in Slots : n \in InTask(s)' => n \in InTask(s) /\ task'[s] = task[s]
    BY <1>t, <2>1 DEF Works
  <2>4. dialog' = dialog \/ \E a \in Admins : dialog' = [dialog EXCEPT ![a] = Idle]
    BY <1>5, TaskTypes DEF Finished, Abort, Clear, Handlers, Handler
  <2>5. \A a \in Admins : n \in InDialog(a)' => n \in InDialog(a) /\ dialog'[a].at = dialog[a].at
    BY <1>0, <2>4, DealsWorks DEF ActorTypes, Deals, Idle, AddPlaces, UpdPlaces
  <2> QED BY <2>2, <2>3, <2>5, Fewer
<1> QED BY <1>1, <1>2, <1>3, <1>4, <1>5

\* A row that is deleted, a position that is dropped, and one that the API gives
\* another name, whose old and new names are remembered.
LEMMA RestOverlaps ==
  ASSUME Types, NEW n \in ItemNames, Orderly(n), n \notin shared', UNCHANGED task,
         \/ \E a \in Admins : dialog' = [dialog EXCEPT ![a] = Idle]
         \/ dialog' = dialog,
         \/ item' = item /\ stock' \subseteq stock
         \/ \E i \in Items : DropItem(i)
         \/ ApiGood
  PROVE Orderly(n)'
<1> USE CatalogueAssumption
<1>0. ActorTypes /\ TableTypes
  BY DEF Types
<1>1. \A a \in Admins : n \in InDialog(a)' => n \in InDialog(a) /\ dialog'[a].at = dialog[a].at
  <2>1. Deals(Idle) = {}
    BY DEF Deals, Idle, AddPlaces, UpdPlaces
  <2>2. ASSUME NEW a \in Admins, dialog' = [dialog EXCEPT ![a] = Idle],
               NEW b \in Admins, n \in InDialog(b)'
        PROVE n \in InDialog(b) /\ dialog'[b].at = dialog[b].at
    <3>1. InDialog(b)' = Deals(dialog'[b]) /\ InDialog(b) = Deals(dialog[b])
      BY DealsWorks
    <3>2. b # a
      BY <1>0, <2>1, <2>2, <3>1 DEF ActorTypes
    <3>3. dialog'[b] = dialog[b]
      BY <1>0, <2>2, <3>2 DEF ActorTypes
    <3> QED BY <2>2, <3>1, <3>3
  <2>3. ASSUME dialog' = dialog, NEW b \in Admins, n \in InDialog(b)'
        PROVE n \in InDialog(b) /\ dialog'[b].at = dialog[b].at
    BY <2>3 DEF InDialog
  <2> QED BY <2>2, <2>3
<1>2. \A t \in Slots : InTask(t)' = InTask(t) /\ task'[t] = task[t]
  BY DEF InTask
<1>3. ItemNamed(n)' \subseteq ItemNamed(n) /\ RowKinds(n)' \subseteq RowKinds(n)
  <2>1. CASE item' = item /\ stock' \subseteq stock
    BY <2>1 DEF ItemNamed, RowKinds
  <2>2. ASSUME NEW i \in Items, DropItem(i)
        PROVE ItemNamed(n)' \subseteq ItemNamed(n) /\ RowKinds(n)' \subseteq RowKinds(n)
    <3>1. item' = [item EXCEPT ![i] = NoItem(Gone)] /\ stock' \subseteq stock
      BY <2>2 DEF DropItem
    <3>2. \A j \in Items : item'[j].name = n => item[j].name = n
      BY <1>0, <3>1 DEF TableTypes, NoItem
    <3>3. \A r \in stock' : r \in stock /\ r.item \in Items
      BY <1>0, <3>1 DEF TableTypes, Row
    <3> QED BY <3>2, <3>3 DEF ItemNamed, RowKinds
  <2>3. ASSUME NEW i \in Items, NEW m \in ItemNames, NEW c \in Cats,
               item' = [item EXCEPT ![i] = [name |-> m, cat |-> c]], stock' = stock,
               shared' = shared \cup {item[i].name, m}
        PROVE ItemNamed(n)' \subseteq ItemNamed(n) /\ RowKinds(n)' \subseteq RowKinds(n)
    <3>1. n # item[i].name /\ n # m
      BY <2>3
    <3>2. \A j \in Items : item'[j].name = n => item[j].name = n
      BY <1>0, <2>3, <3>1 DEF TableTypes
    <3>3. \A r \in stock : r.item \in Items
      BY <1>0 DEF TableTypes, Row
    <3> QED BY <2>3, <3>2, <3>3 DEF ItemNamed, RowKinds
  <2> QED BY <2>1, <2>2, <2>3 DEF ApiGood
<1> QED BY <1>1, <1>2, <1>3, Fewer

\* A handler that makes a promo code binds or clears data: the dialog that is open
\* stays where it is, or is over.
LEMMA AnswerOverlaps ==
  ASSUME Types, NEW n \in ItemNames, Orderly(n), n \notin shared', NEW t \in Slots, Answering(t)
  PROVE Orderly(n)'
<1>0. ActorTypes /\ AnswerTypes
  BY DEF Types
<1>1. UNCHANGED <<item, stock, task>>
  BY DEF Answering, AnswerPromo, BindPromo, ReadPromo, MakePromo, EndPromo, AbandonPromo, tables
<1>2. CASE BindPromo(t)
  <2> DEFINE k == answer[t]
             e == Bind(dialog[k.admin], k.choice)
  <2>1. k \in Answers /\ k.at = "bind"
    BY <1>0, <1>2 DEF BindPromo, AnswerTypes, NoTask
  <2>2. k.admin \in Admins /\ k.choice \in Binding /\ dialog[k.admin] \in Dialogs
    BY <1>0, <2>1 DEF Answers, ActorTypes
  <2>3. e.at = dialog[k.admin].at /\ e.name = dialog[k.admin].name /\ e.old = dialog[k.admin].old
    BY <2>2, BindTypes
  <2>4. dialog' = [dialog EXCEPT ![k.admin] = e]
    BY <1>0, <1>2, <2>2 DEF BindPromo, ActorTypes
  <2> HIDE DEF e
  <2>5. Deals(e) = InDialog(k.admin)
    BY <2>3, DealsWorks DEF Deals
  <2>6. n \in Deals(e) =>
          /\ Expects(e.at, n)
          /\ \A s \in Slots : n \in InTask(s) => Matches(e.at, task[s])
    BY <2>2, <2>3, <2>5 DEF Orderly
  <2> QED BY <1>0, <1>1, <2>2, <2>4, <2>5, <2>6, DialogMoves
<1>3. CASE EndPromo(t)
  <2>1. answer[t].admin \in Admins
    BY <1>0, <1>3 DEF EndPromo, AnswerTypes, NoTask, Answers
  <2>2. dialog' = [dialog EXCEPT ![answer[t].admin] = Idle]
    BY <1>3 DEF EndPromo, Clear
  <2> QED BY <1>1, <2>1, <2>2, RestOverlaps
<1>4. CASE dialog' = dialog
  BY <1>1, <1>4, RestOverlaps
<1>5. BindPromo(t) \/ EndPromo(t) \/ dialog' = dialog
  BY DEF Answering, AnswerPromo, ReadPromo, MakePromo, AbandonPromo
<1> QED BY <1>2, <1>3, <1>4, <1>5

\* Every step keeps the positions in order that only one deals with.
LEMMA StepOverlaps ==
  ASSUME Types, Refs, Overlaps, [Next]_vars PROVE Overlaps'
<1> SUFFICES ASSUME NEW n \in ItemNames, n \notin shared' PROVE Orderly(n)'
  BY DEF Overlaps
<1>0. Orderly(n)
  BY SharedGrows DEF Overlaps
<1>1. ASSUME NEW a \in Admins,
             \/ Open(a) \/ Menu(a) \/ CheckItemNameForAdd(a) \/ CheckItemNameForAmount(a)
             \/ CheckItemNameForUpdate(a) \/ CheckCategoryForAddItem(a)
             \/ AddingValueToPosition(a) \/ UpdateItemProcess(a) \/ Collect(a)
             \/ CheckCategoryForUpdate(a) \/ PromoCode(a) \/ PromoBinding(a)
      PROVE Orderly(n)'
  BY <1>0, <1>1, PromptOverlaps
<1>2. ASSUME NEW a \in Admins, NEW t \in Slots, Finish(a, t) PROVE Orderly(n)'
  BY <1>0, <1>2, FinishOverlaps
<1>3. ASSUME NEW t \in Slots, Handle(t) PROVE Orderly(n)'
  BY <1>0, <1>3, HandlerOverlaps DEF Handle
<1>4. ASSUME NEW a \in Admins, DeleteItem(a) PROVE Orderly(n)'
  BY <1>0, <1>4, RestOverlaps DEF DeleteItem, Clear, ItemNamed, tables
<1>5. ASSUME NEW a \in Admins, AddCategory(a) \/ RenameCategory(a) PROVE Orderly(n)'
  BY <1>0, <1>5, RestOverlaps DEF AddCategory, RenameCategory, Clear
<1>6. ASSUME NEW a \in Admins, DeleteCategory(a) PROVE Orderly(n)'
  BY <1>0, <1>6, RestOverlaps DEF DeleteCategory, DeleteNamed, DropCategory, Clear, tables
<1>7. ASSUME NEW t \in Slots, Answering(t) PROVE Orderly(n)'
  BY <1>0, <1>7, AnswerOverlaps
<1>8. CASE DeleteValue \/ DeletePromo
  BY <1>0, <1>8, RestOverlaps DEF DeleteValue, DeletePromo
<1>9. CASE Api
  BY <1>0, <1>9, RestOverlaps DEF Api, ApiCategory, ApiPromo, DropCategory
<1>10. CASE UNCHANGED vars
  BY <1>0, <1>10, RestOverlaps DEF vars, tables
<1> QED BY <1>1, <1>2, <1>3, <1>4, <1>5, <1>6, <1>7, <1>8, <1>9, <1>10 DEF Next, Dialog

\* Endless and other stock come together only at positions that two dialogs or
\* handlers dealt with at once, or that the API renamed: the checks at the start
\* of every dialog are enough for one administrator at a time.
THEOREM NeverMixed == Spec => []MixedOnlyByOverlap
<1>1. Init => Types /\ Refs /\ Overlaps
  BY InitTypes, InitOverlaps
<1>2. Types /\ Refs /\ Overlaps /\ [Next]_vars => Types' /\ Refs' /\ Overlaps'
  BY StepTypes, StepOverlaps
<1>3. Types /\ Refs /\ Overlaps => MixedOnlyByOverlap
  <2> SUFFICES ASSUME Types, Refs, Overlaps, NEW r \in stock, NEW q \in stock,
                      r.item = q.item, r.inf, ~ q.inf, item[r.item].name \notin shared
               PROVE FALSE
    BY DEF MixedOnlyByOverlap
  <2> DEFINE n == item[r.item].name
  <2>1. n \in ItemNames /\ r.inf \in BOOLEAN /\ q.inf \in BOOLEAN
    BY DEF Refs, Types, TableTypes, Row
  <2>2. ~ BOOLEAN \subseteq RowKinds(n)
    BY <2>1 DEF Overlaps, Orderly
  <2>3. r.inf \in RowKinds(n) /\ q.inf \in RowKinds(n)
    BY DEF RowKinds
  <2>4. r.inf = TRUE /\ q.inf = FALSE
    BY <2>1
  <2>5. TRUE \in RowKinds(n) /\ FALSE \in RowKinds(n)
    BY <2>3, <2>4
  <2> QED BY <2>2, <2>5
<1> QED BY <1>1, <1>2, <1>3, PTL DEF Spec

=============================================================================
