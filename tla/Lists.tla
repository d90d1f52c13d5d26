-------------------------------- MODULE Lists --------------------------------
(***************************************************************************)
(* The lists that are shown page by page, to users and administrators: the *)
(* paginator, the handlers that open a list, turn its pages, show a row    *)
(* and delete one, and what they keep in the FSM data of the one who looks.*)
(*                                                                         *)
(* A handler queries the number of rows and the rows of a page one after   *)
(* the other, and the table may change in between.  The FSM data keeps one *)
(* total for each list, not for each subject of the list: the user, the    *)
(* referral or the position whose rows it shows.  Messages stay in the     *)
(* chat with their buttons, so that several show the list at once.         *)
(*                                                                         *)
(* The lists use different keys, so one behaviour is about one list.       *)
(***************************************************************************)
EXTENDS Integers, Sequences, FiniteSets, SequencesExt

CONSTANTS
  Subjects,   \* whose rows
  Rows,       \* rows of all subjects
  Messages,   \* bound: messages that show the list
  PerPage,    \* per_page
  Null,
  MaxOpens,   \* bound: how often a list is opened
  MaxChanges  \* bound: changes of the tables

ASSUME ListsAssumption ==
  /\ IsFiniteSet(Rows) /\ PerPage \in Nat \ {0}
  /\ Null \notin Subjects \cup Nat \cup Seq(Rows)
  /\ MaxOpens \in Nat /\ MaxChanges \in Nat

-----------------------------------------------------------------------------
(* The queries: where a new row comes, whether the other rows change places,  *)
(* and whether rows go.                                                       *)

QueryAllUsers == [grows |-> "anywhere", moves |-> FALSE, shrinks |-> FALSE]
QueryItemsInPosition == [grows |-> "end", moves |-> FALSE, shrinks |-> TRUE]
QueryUserBoughtItems == [grows |-> "front", moves |-> FALSE, shrinks |-> FALSE]
\* By what they earned, in no order if that is the same.
QueryUserReferrals == [grows |-> "anywhere", moves |-> TRUE, shrinks |-> FALSE]
QueryReferralEarningsFromUser == [grows |-> "front", moves |-> FALSE, shrinks |-> FALSE]
QueryAllReferralEarnings == [grows |-> "front", moves |-> FALSE, shrinks |-> FALSE]
QueryPromoCodes == [grows |-> "front", moves |-> FALSE, shrinks |-> TRUE]

\* The lists: whether there are several subjects, what the handler that opens it
\* finds out first, "rows" or the "number" of rows, and whether it stops at none;
\* whether a handler turns pages; whether showing a row clears the FSM data, and
\* leads back to the page or to the beginning.
UserReferrals ==
  [query |-> QueryUserReferrals, many |-> FALSE, first |-> "number", stops |-> TRUE,
   turns |-> TRUE, row |-> "none"]
UserReferralEarnings ==
  [query |-> QueryReferralEarningsFromUser, many |-> TRUE, first |-> "number", stops |-> TRUE,
   turns |-> FALSE, row |-> "clears"]
UserAllEarnings ==
  [query |-> QueryAllReferralEarnings, many |-> FALSE, first |-> "number", stops |-> TRUE,
   turns |-> TRUE, row |-> "clears"]
AdminReferrals ==
  [query |-> QueryUserReferrals, many |-> TRUE, first |-> "number", stops |-> TRUE,
   turns |-> TRUE, row |-> "none"]
AdminReferralEarnings ==
  [query |-> QueryReferralEarningsFromUser, many |-> TRUE, first |-> "number", stops |-> TRUE,
   turns |-> FALSE, row |-> "shown"]
AdminAllEarnings ==
  [query |-> QueryAllReferralEarnings, many |-> TRUE, first |-> "number", stops |-> TRUE,
   turns |-> TRUE, row |-> "shown"]
AdminBoughtItems ==
  [query |-> QueryUserBoughtItems, many |-> TRUE, first |-> "rows", stops |-> FALSE,
   turns |-> FALSE, row |-> "none"]
UsersList ==
  [query |-> QueryAllUsers, many |-> FALSE, first |-> "rows", stops |-> FALSE,
   turns |-> TRUE, row |-> "shown"]
PromoList ==
  [query |-> QueryPromoCodes, many |-> FALSE, first |-> "rows", stops |-> TRUE,
   turns |-> TRUE, row |-> "shown"]
\* The name of the position is too long for a button: the FSM data keeps which
\* name a hash stands for, and the row that is shown.
Position ==
  [query |-> QueryItemsInPosition, many |-> TRUE, first |-> "number", stops |-> TRUE,
   turns |-> TRUE, row |-> "stored"]

AllLists == {UserReferrals, UserReferralEarnings, UserAllEarnings, AdminReferrals,
             AdminReferralEarnings, AdminAllEarnings, AdminBoughtItems, UsersList,
             PromoList, Position}

VARIABLES
  list,     \* the list of this behaviour
  subjects, \* all, or the only one it has
  rows,     \* what the query returns, for each subject
  message,  \* what a message shows, and what its buttons say
  call,     \* the handler that a message waits for
  fsm,      \* FSM data: total, and of Position the mapping, the name and the row
  walk,     \* history: what an undisturbed walk through the list has not seen
  opens, changes

table == <<list, subjects, rows>>
listsVars == <<list, subjects, rows, message, call, fsm, walk, opens, changes>>

NoMapping == [of |-> Null, name |-> Null]
NoDetail == [of |-> Null, name |-> Null, page |-> 0]
NoData == [total |-> Null, mapping |-> NoMapping, name |-> Null, detail |-> NoDetail]
Blank == [at |-> "none", of |-> Null, page |-> 0, rows |-> {}, prev |-> FALSE, next |-> FALSE,
          row |-> Null, back |-> "open"]
NoCall == [at |-> "none"]
NoWalk == [left |-> {}, number |-> Null]

ListsInit ==
  /\ list \in AllLists
  /\ subjects \in IF list.many THEN {Subjects} ELSE {{s} : s \in Subjects}
  /\ rows \in [Subjects -> {s \in BoundedSeq(Rows, Cardinality(Rows)) : IsInjective(s)}]
  /\ \A s, t \in Subjects : s # t => Range(rows[s]) \cap Range(rows[t]) = {}
  /\ \A s \in Subjects \ subjects : rows[s] = <<>>
  /\ message = [m \in Messages |-> Blank] /\ call = [m \in Messages |-> NoCall]
  /\ fsm = NoData
  /\ walk = [m \in Messages |-> NoWalk]
  /\ opens = 0 /\ changes = 0

-----------------------------------------------------------------------------
(* LazyPaginator *)

Smaller(x, y) == IF x < y THEN x ELSE y

\* get_page.  A paginator lives for one page, so its cache of pages is empty.
GetPage(s, page) == SubSeq(rows[s], page * PerPage + 1,
                           Smaller((page + 1) * PerPage, Len(rows[s])))

\* Mutant of TotalPages: a last page that is not full does not count.
FullPages(total) == IF total < PerPage THEN 1 ELSE total \div PerPage

\* get_total_pages
TotalPages(total) == IF total = 0 THEN 1 ELSE (total + PerPage - 1) \div PerPage

-----------------------------------------------------------------------------
(* A handler: the number of rows, the rows of the page, the answer. *)

\* A position is always counted first.
First(op) == IF list = Position \/ (op = "open" /\ list.first = "number") THEN "number" ELSE "rows"

Begin(m, op, of, from, page, total) ==
  call' = [call EXCEPT ![m] =
    [at |-> IF total = Null THEN First(op) ELSE "rows", op |-> op, of |-> of, from |-> from,
     page |-> page, total |-> total, rows |-> Null, quiet |-> TRUE]]

Stop(m) == call' = [call EXCEPT ![m] = NoCall]

\* Mutant of PrevShown: also on the first page.
PrevAlways(c) == TotalPages(c.total) > 1

\* lazy_paginated_keyboard
PrevShown(c) == TotalPages(c.total) > 1 /\ c.page > 0
NextShown(c) == TotalPages(c.total) > 1 /\ c.page < TotalPages(c.total) - 1

\* History: message m goes on with a total of another subject, or an old one.
Misled(m, c) ==
  c.op = "redraw" \/ c.from # message[m].of \/ c.total \notin walk[m].number..Len(rows[c.from])

\* Behind a row that is shown the list begins anew.
Forgets(c) == list \in {UsersList, PromoList} \/ (list # Position /\ c.op = "open")

\* The message is edited.
Display(m, c) ==
  /\ message' = [message EXCEPT ![m] =
       [Blank EXCEPT !.at = "list", !.of = c.of, !.page = c.page, !.rows = Range(c.rows),
                     !.prev = PrevShown(c), !.next = NextShown(c),
                     !.back = IF Forgets(c) THEN "open" ELSE "page"]]
  /\ walk' = [walk EXCEPT ![m] =
       IF c.op = "open"
         THEN IF c.quiet THEN [left |-> Range(rows[c.from]) \ Range(c.rows),
                               number |-> Len(rows[c.from])] ELSE NoWalk
       ELSE IF walk[m] = NoWalk \/ Misled(m, c) THEN NoWalk
       ELSE [walk[m] EXCEPT !.left = @ \ Range(c.rows)]]
  /\ call' = [call EXCEPT ![m] =
       [at |-> "store", of |-> c.of, from |-> c.from, total |-> c.total, named |-> c.op # "redraw"]]
  /\ UNCHANGED fsm

\* There is nothing to show, or no longer.
Nothing(m) ==
  /\ message' = [message EXCEPT ![m] = Blank] /\ walk' = [walk EXCEPT ![m] = NoWalk]
  /\ Stop(m)

\* update_data: others may have left another total meanwhile.
Store(m) ==
  LET c == call[m] IN
  /\ c.at = "store" /\ Stop(m)
  /\ fsm' = IF list # Position
              THEN [fsm EXCEPT !.total = c.total]
              ELSE [fsm EXCEPT !.total = c.total, !.mapping = [of |-> c.of, name |-> c.from],
                               !.name = IF c.named THEN c.from ELSE @]
  /\ UNCHANGED <<table, message, walk, opens, changes>>

\* Mutant of Clamped: the page that was left.
Unclamped(c, total) == c.page
\* After a deletion the page may be gone.
Clamped(c, total) == IF c.op = "redraw" THEN Smaller(c.page, (total - 1) \div PerPage) ELSE c.page

\* get_total_count
CountRows(m) ==
  LET c == call[m]
      total == Len(rows[c.from])
  IN /\ c.at = "number"
     /\ IF c.rows # Null THEN Display(m, [c EXCEPT !.total = total])
        ELSE IF total = 0 THEN /\ Nothing(m)
                               /\ fsm' = IF list = Position /\ c.op = "open" THEN NoData ELSE fsm
        ELSE /\ call' = [call EXCEPT ![m].at = "rows", ![m].total = total,
                                     ![m].page = Clamped(c, total)]
             \* show_str_item keeps the mapping before it queries the rows.
             /\ fsm' = IF list = Position /\ c.op = "open"
                         THEN [fsm EXCEPT !.mapping = [of |-> c.of, name |-> c.from],
                                          !.name = c.from]
                         ELSE fsm
             /\ UNCHANGED <<message, walk>>
     /\ UNCHANGED <<table, opens, changes>>

FetchRows(m) ==
  LET c == call[m]
      page == GetPage(c.from, c.page)
  IN /\ c.at = "rows"
     /\ IF list = PromoList /\ c.op = "open" /\ page = <<>>
          THEN Nothing(m) /\ fsm' = NoData
        ELSE IF c.total # Null THEN Display(m, [c EXCEPT !.rows = page])
        ELSE /\ call' = [call EXCEPT ![m].at = "number", ![m].rows = page]
             /\ UNCHANGED <<message, fsm, walk>>
     /\ UNCHANGED <<table, opens, changes>>

\* A query or the message fails.
Abort(m) ==
  /\ call[m] # NoCall /\ Stop(m)
  /\ UNCHANGED <<table, message, fsm, walk, opens, changes>>

-----------------------------------------------------------------------------
(* What is pressed.  Of a message, one button at a time. *)

\* The handlers that open a list begin with a new paginator.
Open(m) ==
  /\ call[m] = NoCall /\ opens < MaxOpens /\ opens' = opens + 1
  /\ \E s \in subjects : Begin(m, "open", s, s, 0, Null)
  /\ UNCHANGED <<table, message, fsm, walk, changes>>

\* The position that a hash stands for, else the one looked at last.
Named(of) ==
  IF list # Position THEN of
    ELSE IF fsm.mapping.name # Null /\ fsm.mapping.of = of THEN fsm.mapping.name ELSE fsm.name

\* The paginator of the page handlers begins with the total that is kept.
GoTo(m, page) ==
  /\ Named(message[m].of) # Null
  /\ Begin(m, "page", message[m].of, Named(message[m].of), page, fsm.total)

Turn(m) ==
  /\ call[m] = NoCall /\ message[m].at = "list" /\ list.turns
  /\ \/ message[m].prev /\ GoTo(m, message[m].page - 1)
     \/ message[m].next /\ GoTo(m, message[m].page + 1)
  /\ UNCHANGED <<table, message, fsm, walk, opens, changes>>

\* A row is shown.  item_info_callback_handler refuses one that is gone, and
\* keeps which position it is of.
View(m) ==
  /\ call[m] = NoCall /\ message[m].at = "list" /\ list.row # "none"
  /\ \E r \in message[m].rows :
       /\ message' = [message EXCEPT ![m].at = "detail", ![m].rows = {},
                                     ![m].row = IF list = Position THEN r ELSE Null]
       /\ \/ list.row = "shown" /\ UNCHANGED fsm
          \/ list.row = "clears" /\ fsm' = NoData
          \/ /\ list.row = "stored"
             /\ \E s \in Subjects :
                  /\ r \in Range(rows[s])
                  /\ fsm' = [fsm EXCEPT !.detail = [of |-> message[m].of, name |-> s,
                                                    page |-> message[m].page]]
  /\ UNCHANGED <<table, call, walk, opens, changes>>

\* And from there back, to the page or to the beginning.
Back(m) ==
  /\ call[m] = NoCall /\ message[m].at = "detail"
  /\ IF list = Position \/ message[m].back = "page"
       THEN GoTo(m, message[m].page) ELSE Begin(m, "open", message[m].of, message[m].of, 0, Null)
  /\ UNCHANGED <<table, message, fsm, walk, opens, changes>>

Vanish(s, i) == rows' = [rows EXCEPT ![s] = RemoveAt(@, i)]
\* History: the rows of subject s have changed.
Disturb(s) == walk' = [m \in Messages |-> IF message[m].of = s THEN NoWalk ELSE walk[m]]
\* History: and what c found out from them is not undisturbed.
Unquiet(c, s) ==
  IF c.at \in {"number", "rows"} /\ c.op # "page" /\ c.from = s THEN [c EXCEPT !.quiet = FALSE]
                                                              ELSE c

\* process_delete_item_from_position: the row of the button is deleted, and the
\* list of the row that was shown last is drawn again.
Delete(m) ==
  LET d == fsm.detail
      here == {s \in Subjects : message[m].row \in Range(rows[s])}
  IN /\ list = Position /\ call[m] = NoCall /\ message[m].at = "detail" /\ message[m].row # Null
     /\ \/ /\ here = {}
           /\ message' = [message EXCEPT ![m] = [Blank EXCEPT !.at = "detail", !.of = d.of,
                                                             !.page = d.page]]
           /\ walk' = [walk EXCEPT ![m] = NoWalk]
           /\ UNCHANGED <<rows, call>>
        \/ \E s \in here : \E i \in 1..Len(rows[s]) :
             /\ rows[s][i] = message[m].row /\ Vanish(s, i) /\ Disturb(s)
             /\ IF d # NoDetail
                  THEN /\ call' = [[x \in Messages |-> Unquiet(call[x], s)] EXCEPT ![m] =
                             [at |-> "number", op |-> "redraw", of |-> d.of, from |-> d.name,
                              page |-> d.page, total |-> Null, rows |-> Null, quiet |-> TRUE]]
                       /\ UNCHANGED message
                  ELSE /\ message' = [message EXCEPT ![m] = Blank]
                       /\ call' = [x \in Messages |-> Unquiet(call[x], s)]
     /\ UNCHANGED <<list, subjects, fsm, opens, changes>>

\* Any menu and the end of any dialog clear the FSM data.
Clear ==
  /\ fsm # NoData /\ fsm' = NoData
  /\ UNCHANGED <<table, message, call, walk, opens, changes>>

-----------------------------------------------------------------------------
(* The others: purchases, earnings, new users, other administrators. *)

Place(s, r, i) == rows' = [rows EXCEPT ![s] = InsertAt(@, i, r)]

\* A row at the end disturbs nobody who is on their way there.
Grow ==
  \E s \in subjects, r \in Rows \ UNION {Range(rows[t]) : t \in Subjects} :
    /\ \/ list.query.grows = "end" /\ Place(s, r, Len(rows[s]) + 1) /\ UNCHANGED walk
       \/ list.query.grows = "front" /\ Place(s, r, 1) /\ Disturb(s)
       \/ /\ list.query.grows = "anywhere" /\ Disturb(s)
          /\ \E i \in 1..Len(rows[s]) + 1 : Place(s, r, i)
    /\ call' = [m \in Messages |-> Unquiet(call[m], s)]

Shrink ==
  /\ list.query.shrinks
  /\ \E s \in subjects : \E i \in 1..Len(rows[s]) :
       /\ Vanish(s, i) /\ Disturb(s)
       /\ call' = [m \in Messages |-> Unquiet(call[m], s)]

Move ==
  /\ list.query.moves
  /\ \E s \in subjects : \E i \in 1..Len(rows[s]) - 1 :
       /\ rows' = [rows EXCEPT ![s][i] = rows[s][i + 1], ![s][i + 1] = rows[s][i]]
       /\ Disturb(s) /\ call' = [m \in Messages |-> Unquiet(call[m], s)]

Change ==
  /\ changes < MaxChanges /\ changes' = changes + 1
  /\ Grow \/ Shrink \/ Move
  /\ UNCHANGED <<list, subjects, message, fsm, opens>>

ListsNext ==
  \/ \E m \in Messages : \/ Open(m) \/ Turn(m) \/ View(m) \/ Back(m) \/ Delete(m)
                         \/ CountRows(m) \/ FetchRows(m) \/ Store(m) \/ Abort(m)
  \/ Clear \/ Change

ListsSpec == ListsInit /\ [][ListsNext]_listsVars
-----------------------------------------------------------------------------
(* Properties *)

Shown == [at : {"none", "list", "detail"}, of : Subjects \cup {Null}, page : Nat,
          rows : SUBSET Rows, prev : BOOLEAN, next : BOOLEAN, row : Rows \cup {Null},
          back : {"open", "page"}]
Call == [at : {"number", "rows"}, op : {"open", "page", "redraw"}, of : Subjects \cup {Null},
         from : Subjects, page : Nat, total : Nat \cup {Null}, rows : Seq(Rows) \cup {Null},
         quiet : BOOLEAN]
Kept == [at : {"store"}, of : Subjects \cup {Null}, from : Subjects, total : Nat,
         named : BOOLEAN]
Handlers == Call \cup Kept \cup {NoCall}
Data == [total : Nat \cup {Null}, name : Subjects \cup {Null},
         mapping : [of : Subjects \cup {Null}, name : Subjects \cup {Null}],
         detail : [of : Subjects \cup {Null}, name : Subjects, page : Nat] \cup {NoDetail}]

\* Type invariant.
ListsTypeOK ==
  /\ list \in AllLists /\ subjects \subseteq Subjects
  /\ rows \in [Subjects -> Seq(Rows)] /\ \A s \in Subjects : IsInjective(rows[s])
  /\ message \in [Messages -> Shown] /\ call \in [Messages -> Handlers]
  /\ fsm \in Data
  /\ walk \in [Messages -> [left : SUBSET Rows, number : Nat \cup {Null}]]
  /\ opens \in 0..MaxOpens /\ changes \in 0..MaxChanges

\* Who opens a list and presses next until there is no such button has seen every
\* row there was at the beginning, and the button never leads to a page without
\* rows, if nothing has disturbed them: rows in front of them that come, go or
\* change places, a row deleted from the list, and another message that left the
\* total of another subject or an older one.
SteadyWalkSeesAll ==
  \A m \in Messages : walk[m] # NoWalk /\ message[m].at = "list" =>
    /\ list.turns /\ ~ message[m].next => walk[m].left = {}
    /\ message[m].next => Len(rows[message[m].of]) > (message[m].page + 1) * PerPage

\* What is drawn after a deletion is a page that exists, whichever row of whichever
\* position the FSM data remembers, unless others change the rows meanwhile.
RedrawnPageHasRows ==
  [][\A m \in Messages :
       /\ call[m] # NoCall /\ message'[m] # message[m]
       /\ call[m].op = "redraw" /\ call[m].quiet /\ message'[m].at = "list"
       => message'[m].rows # {}]_listsVars

=============================================================================
