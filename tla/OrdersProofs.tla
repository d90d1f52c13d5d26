---------------------------- MODULE OrdersProofs ----------------------------
(* Proofs about Orders, for every set of orders and requests and every bound. *)
EXTENDS Orders, FiniteSetTheorems, TLAPS

LEMMA RowFacts ==
  /\ NoRow \in Row
  /\ \A r \in Row, s \in Statuses : [r EXCEPT !.status = s] \in Row
  /\ \A r \in Row, b \in BOOLEAN : [r EXCEPT !.refunded = b] \in Row
  /\ \A r \in Row, t \in {"null", "None", "id"} : [r EXCEPT !.tid = t] \in Row
  /\ \A r \in Row : r.status \in Statuses /\ r.refunded \in BOOLEAN
  /\ Statuses = {"none", "pending", "in_progress", "completed", "failed",
                 "refunded"}
BY DEF NoRow, Row, Statuses, Active, Settled

LEMMA BatchFinite == IsFiniteSet(Batch)
BY BatchAssumption, FS_Subset

LEMMA InitTypeOK == Init => TypeOK
<1> USE OwnerAssumption, BatchAssumption, BoundsAssumption
<1> SUFFICES ASSUME Init PROVE TypeOK
  OBVIOUS
<1>1. TablesOK
  <2>1. balance \in [Users -> Int] /\ order \in [Orders -> Row]
    BY RowFacts DEF Init
  <2>2. credits \in [Orders -> Nat] /\ overwritten \in [Users -> Nat]
        /\ remote \in [Orders -> Seen]
    BY DEF Init, Seen
  <2> QED
    BY <2>1, <2>2 DEF TablesOK
<1>2. SessionsOK
  <2>1. target \in [Requests -> Orders]
    <3>1. (CHOOSE o \in Orders : TRUE) \in Orders
      OBVIOUS
    <3> QED
      BY <3>1 DEF Init
  <2>2. pc \in [Sessions -> Places] /\ snap \in [Sessions -> Row]
    BY RowFacts DEF Init, Places
  <2>3. bal \in [Sessions -> Int] /\ seen \in [Sessions -> Seen]
    BY DEF Init, Seen
  <2>4. polls \in [Orders -> 0..MaxPolls]
    BY DEF Init
  <2> QED
    BY <2>1, <2>2, <2>3, <2>4 DEF SessionsOK
<1>3. LoopsOK
  BY DEF Init, Idle, Asleep, LoopsOK, Outcomes
<1> QED
  BY <1>1, <1>2, <1>3 DEF TypeOK

\* A refund: it adds the price to what was read, and what it writes over is kept account of.
LEMMA PayBackFacts ==
  ASSUME TypeOK, NEW x \in Sessions, At(x) \in Orders, PayBack(x)
  PROVE  /\ balance' \in [Users -> Int] /\ credits' \in [Orders -> Nat]
         /\ overwritten' \in [Users -> Nat]
         /\ UserFree(Owner[At(x)])
         /\ \A u \in Users : u # Owner[At(x)] =>
                balance'[u] = balance[u] /\ overwritten'[u] = overwritten[u]
         /\ balance'[Owner[At(x)]] + overwritten'[Owner[At(x)]] >=
              balance[Owner[At(x)]] + overwritten[Owner[At(x)]] + Price
         /\ \A o \in Orders : o # At(x) => credits'[o] = credits[o]
         /\ credits'[At(x)] = credits[At(x)] + 1
<1> DEFINE v == Owner[At(x)]
           lost == IF balance[v] > bal[x] THEN balance[v] - bal[x] ELSE 0
<1>1. v \in Users /\ Price \in Nat /\ bal[x] \in Int
  BY OwnerAssumption, BoundsAssumption DEF TypeOK, SessionsOK
<1>2. /\ balance \in [Users -> Int] /\ credits \in [Orders -> Nat]
      /\ overwritten \in [Users -> Nat]
  BY DEF TypeOK, TablesOK
<1>3. /\ UserFree(v)
      /\ balance' = [balance EXCEPT ![v] = bal[x] + Price]
      /\ overwritten' = [overwritten EXCEPT ![v] = @ + lost]
      /\ credits' = [credits EXCEPT ![At(x)] = @ + 1]
  BY DEF PayBack
<1>4. lost \in Nat /\ bal[x] + lost >= balance[v]
  BY <1>1, <1>2
<1> HIDE DEF lost
<1>5. balance' \in [Users -> Int] /\ overwritten' \in [Users -> Nat]
  BY <1>1, <1>2, <1>3, <1>4
<1>6. balance'[v] = bal[x] + Price /\ overwritten'[v] = overwritten[v] + lost
  BY <1>1, <1>2, <1>3
<1>7. balance'[v] + overwritten'[v] >= balance[v] + overwritten[v] + Price
  BY <1>1, <1>2, <1>4, <1>6
<1>8. credits' \in [Orders -> Nat]
  BY <1>2, <1>3
<1> QED
  BY <1>1, <1>2, <1>3, <1>5, <1>7, <1>8

\* A refund keeps the types of the balances and the history.
LEMMA PayBackTypeOK ==
  ASSUME TypeOK, NEW x \in Sessions, At(x) \in Orders, PayBack(x)
  PROVE  /\ balance' \in [Users -> Int] /\ credits' \in [Orders -> Nat]
         /\ overwritten' \in [Users -> Nat]
BY PayBackFacts

\* What a watcher or a refresh writes is a row again.
LEMMA ApplyTypeOK ==
  ASSUME TypeOK, NEW x \in Sessions, At(x) \in Orders, Apply(x)
  PROVE  /\ balance' \in [Users -> Int] /\ credits' \in [Orders -> Nat]
         /\ overwritten' \in [Users -> Nat] /\ order' \in [Orders -> Row]
<1> DEFINE o == At(x)
<1>1. \A s \in Statuses : Column(x, s) \in Statuses
  BY RowFacts DEF Column, TypeOK, TablesOK
<1>2. ASSUME NEW w \in Row, NEW s \in Statuses
      PROVE  [w EXCEPT !.status = s, !.refunded = TRUE] \in Row
  BY DEF Row
<1>3. {"failed", "completed"} \subseteq Statuses
  BY RowFacts
<1>4. order' \in [Orders -> Row]
  <2>1. order \in [Orders -> Row] /\ order[o] \in Row
    BY DEF TypeOK, TablesOK
  <2>2. PICK w \in Row : order' = [order EXCEPT ![o] = w]
    <3>1. CASE seen[x] = "fail" /\ ~ snap[x].refunded
      BY <1>1, <1>2, <1>3, <2>1, <3>1 DEF Apply
    <3>2. CASE seen[x] = "fail" /\ snap[x].refunded
      BY <1>1, <1>3, <2>1, <3>2, RowFacts DEF Apply
    <3>3. CASE seen[x] = "done"
      BY <1>1, <1>3, <2>1, <3>3, RowFacts DEF Apply
    <3>4. CASE seen[x] = "active"
      BY <2>1, <3>4 DEF Apply, db
    <3> QED
      BY <3>1, <3>2, <3>3, <3>4 DEF Apply
  <2> QED
    BY <2>1, <2>2
<1>5. /\ balance' \in [Users -> Int] /\ credits' \in [Orders -> Nat]
      /\ overwritten' \in [Users -> Nat]
  BY PayBackTypeOK DEF Apply, TypeOK, TablesOK, db
<1> QED
  BY <1>4, <1>5

LEMMA HandlerTypeOK ==
  ASSUME TypeOK, NEW o \in Orders, Handler(o)
  PROVE  TypeOK'
<1> o \in Sessions /\ At(o) = o
  BY DEF Sessions, At
<1>1. LoopsOK'
  BY BoundsAssumption DEF TypeOK, LoopsOK, Handler, loops, Fault, Confirm, Send, SendFails,
    Record, Answer, FailUser, FailOrder, FailCommit, BackUser, BackCommit,
    HandlerDies
<1>2. SessionsOK'
  <2> USE DEF TypeOK, SessionsOK, local, Go, Goto, Places
  <2>1. CASE Confirm(o)
    BY <2>1 DEF Confirm
  <2>2. CASE Send(o)
    BY <2>2 DEF Send, Seen
  <2>3. CASE SendFails(o)
    BY <2>3 DEF SendFails
  <2>4. CASE Record(o)
    BY <2>4 DEF Record
  <2>5. CASE Answer(o)
    BY <2>5 DEF Answer
  <2>6. CASE FailUser(o)
    BY <2>6, OwnerAssumption DEF FailUser, ReadUser, TablesOK
  <2>7. CASE FailOrder(o)
    BY <2>7 DEF FailOrder, ReadOrder, TablesOK
  <2>8. CASE FailCommit(o)
    BY <2>8 DEF FailCommit
  <2>9. CASE BackUser(o)
    BY <2>9, OwnerAssumption DEF BackUser, ReadUser, TablesOK
  <2>10. CASE BackCommit(o)
    BY <2>10 DEF BackCommit
  <2>11. CASE HandlerDies(o)
    BY <2>11 DEF HandlerDies
  <2> HIDE DEF TypeOK, SessionsOK, local, Go, Goto, Places
  <2> QED
    BY <2>1, <2>2, <2>3, <2>4, <2>5, <2>6, <2>7, <2>8, <2>9, <2>10,
       <2>11 DEF Handler
<1>3. TablesOK'
  <2> USE OwnerAssumption DEF TypeOK, TablesOK, db
  <2>1. CASE Confirm(o)
    <3>1. balance[Owner[o]] - Price \in Int
      BY BoundsAssumption
    <3>2. balance' \in [Users -> Int]
      BY <2>1, <3>1 DEF Confirm
    <3>3. [order[o] EXCEPT !.status = "pending"] \in Row
      BY RowFacts
    <3> QED
      BY <2>1, <3>2, <3>3 DEF Confirm
  <2>2. CASE Send(o)
    BY <2>2 DEF Send, Seen
  <2>3. CASE SendFails(o)
    <3>1. [order[o] EXCEPT !.status = "failed"] \in Row
      BY RowFacts
    <3> QED
      BY <2>3, <3>1 DEF SendFails
  <2>4. CASE Record(o)
    <3>1. ASSUME NEW r \in Row, NEW t \in {"None", "id"}
          PROVE  [r EXCEPT !.status = "in_progress", !.tid = t] \in Row
      BY DEF Row, Statuses, Active
    <3>2. order' \in [Orders -> Row]
      BY <2>4, <3>1 DEF Record
    <3> QED
      BY <2>4, <3>2 DEF Record
  <2>5. CASE Answer(o)
    BY <2>5 DEF Answer
  <2>6. CASE FailUser(o)
    BY <2>6 DEF FailUser
  <2>7. CASE FailOrder(o)
    BY <2>7 DEF FailOrder
  <2>8. CASE FailCommit(o)
    <3>1. Column(o, "failed") \in Statuses
      BY RowFacts DEF Column, SessionsOK
    <3> QED
      BY <2>8, <3>1, RowFacts, PayBackTypeOK DEF FailCommit
  <2>9. CASE BackUser(o)
    BY <2>9 DEF BackUser
  <2>10. CASE BackCommit(o)
    BY <2>10, PayBackTypeOK DEF BackCommit
  <2>11. CASE HandlerDies(o)
    BY <2>11 DEF HandlerDies
  <2> HIDE DEF TypeOK, TablesOK, db
  <2> QED
    BY <2>1, <2>2, <2>3, <2>4, <2>5, <2>6, <2>7, <2>8, <2>9, <2>10,
       <2>11 DEF Handler
<1> QED
  BY <1>1, <1>2, <1>3 DEF TypeOK

LEMMA WatcherTypeOK ==
  ASSUME TypeOK, NEW o \in Orders, Watcher(o)
  PROVE  TypeOK'
<1> o \in Sessions /\ At(o) = o
  BY DEF Sessions, At
<1>1. LoopsOK'
  BY BoundsAssumption DEF TypeOK, LoopsOK, Watcher, loops, Fault, Poll,
     WatchOrder, WatchUser, WatchCommit, WatchFails
<1>2. SessionsOK'
  <2> USE DEF TypeOK, SessionsOK, local, Go, Goto, Places
  <2>1. CASE Poll(o)
    BY <2>1, BoundsAssumption DEF Poll, AskTipzy, TablesOK
  <2>2. CASE WatchOrder(o)
    BY <2>2 DEF WatchOrder, ReadOrder, TablesOK
  <2>3. CASE WatchUser(o)
    BY <2>3, OwnerAssumption DEF WatchUser, ReadUser, TablesOK
  <2>4. CASE WatchCommit(o)
    BY <2>4 DEF WatchCommit
  <2>5. CASE WatchFails(o)
    BY <2>5 DEF WatchFails
  <2> HIDE DEF TypeOK, SessionsOK, local, Go, Goto, Places
  <2> QED
    BY <2>1, <2>2, <2>3, <2>4, <2>5 DEF Watcher
<1>3. TablesOK'
  <2>1. CASE WatchCommit(o)
    BY <2>1, ApplyTypeOK DEF WatchCommit, TypeOK, TablesOK
  <2>2. CASE ~ WatchCommit(o)
    BY <2>2 DEF Watcher, Poll, WatchOrder, WatchUser, WatchFails, TypeOK, TablesOK, db
  <2> QED
    BY <2>1, <2>2
<1> QED
  BY <1>1, <1>2, <1>3 DEF TypeOK

LEMMA AdminTypeOK ==
  ASSUME TypeOK, NEW r \in Requests, Admin(r)
  PROVE  TypeOK'
<1> r \in Sessions /\ At(r) = target[r] /\ target[r] \in Orders
  BY RequestsAssumption DEF Sessions, At, TypeOK, SessionsOK
<1>1. LoopsOK'
  BY DEF TypeOK, LoopsOK, Admin, loops, RefundOrder, RefundUser, RefundCommit,
     RefreshOrder, RefreshAsk, RefreshUser, RefreshCommit
<1>2. SessionsOK'
  <2> USE DEF TypeOK, SessionsOK, local, Go, Goto, Places
  <2>1. CASE RefundOrder(r)
    BY <2>1 DEF RefundOrder, TablesOK
  <2>2. CASE RefundUser(r)
    BY <2>2, OwnerAssumption DEF RefundUser, ReadUser, TablesOK
  <2>3. CASE RefundCommit(r)
    BY <2>3 DEF RefundCommit
  <2>4. CASE RefreshOrder(r)
    BY <2>4 DEF RefreshOrder, TablesOK
  <2>5. CASE RefreshAsk(r)
    BY <2>5 DEF RefreshAsk, AskTipzy, TablesOK
  <2>6. CASE RefreshUser(r)
    BY <2>6, OwnerAssumption DEF RefreshUser, ReadUser, TablesOK
  <2>7. CASE RefreshCommit(r)
    BY <2>7 DEF RefreshCommit
  <2> HIDE DEF TypeOK, SessionsOK, local, Go, Goto, Places
  <2> QED
    BY <2>1, <2>2, <2>3, <2>4, <2>5, <2>6, <2>7 DEF Admin
<1>3. TablesOK'
  <2>1. CASE RefundCommit(r)
    <3>1. ASSUME NEW w \in Row
          PROVE  [w EXCEPT !.status = "refunded", !.refunded = TRUE] \in Row
      BY DEF Row, Statuses, Settled
    <3>2. order' \in [Orders -> Row]
      BY <2>1, <3>1 DEF RefundCommit, TypeOK, TablesOK
    <3> QED
      BY <2>1, <3>2, PayBackTypeOK DEF RefundCommit, TypeOK, TablesOK
  <2>2. CASE RefreshCommit(r)
    BY <2>2, ApplyTypeOK DEF RefreshCommit, TypeOK, TablesOK
  <2>3. CASE ~ RefundCommit(r) /\ ~ RefreshCommit(r)
    BY <2>3 DEF Admin, RefundOrder, RefundUser, RefreshOrder, RefreshAsk,
       RefreshUser, TypeOK, TablesOK, db
  <2> QED
    BY <2>1, <2>2, <2>3
<1> QED
  BY <1>1, <1>2, <1>3 DEF TypeOK

LEMMA ReconcilerTypeOK ==
  ASSUME TypeOK, Reconciler \/ RecAbort \/ \E o \in Orders : RecFetchFails(o)
  PROVE  TypeOK'
<1> USE OwnerAssumption, BoundsAssumption
<1>1. Idle \in [on : BOOLEAN, rows : SUBSET Orders, todo : SUBSET Orders,
                users : SUBSET Users, bal : [Users -> Int], set : Outcomes]
  BY DEF Idle, Outcomes
<1>2. SessionsOK'
  BY DEF TypeOK, SessionsOK, local, Reconciler, RecAbort, RecFetchFails, RecBegin,
     RecCommit, RecRow, RecSkip, RecDone, RecRefund
<1>3. CASE RecBegin
  <2>1. LoopsOK'
    BY <1>1, <1>3 DEF RecBegin, TypeOK, LoopsOK
  <2> QED
    BY <1>2, <1>3, <2>1 DEF RecBegin, TypeOK, TablesOK, db
<1>4. CASE RecCommit
  <2>1. LoopsOK'
    BY <1>1, <1>4 DEF RecCommit, TypeOK, LoopsOK
  <2>2. ASSUME NEW w \in Row
        PROVE  /\ [w EXCEPT !.status = "failed", !.refunded = TRUE] \in Row
               /\ [w EXCEPT !.status = "completed"] \in Row
    BY DEF Row, Statuses, Settled
  <2>3. rec.set \in Outcomes /\ rec.bal \in [Users -> Int]
    BY DEF TypeOK, LoopsOK
  <2>4. order' \in [Orders -> Row]
    <3> SUFFICES ASSUME NEW o \in Orders
                 PROVE  (CASE rec.set[o] = "keep" -> order[o]
        [] rec.set[o] = "completed" -> [order[o] EXCEPT !.status = "completed"]
        [] rec.set[o] = "failed" ->
             [order[o] EXCEPT !.status = "failed", !.refunded = TRUE]) \in Row
      BY <1>4 DEF RecCommit
    <3> QED
      BY <2>2, <2>3 DEF Outcomes, TypeOK, TablesOK
  <2>5. TablesOK'
    <3>1. balance' \in [Users -> Int]
      BY <1>4, <2>3 DEF RecCommit, TypeOK, TablesOK
    <3>2. \A o \in Orders : credits[o] \in Nat /\ credits[o] + 1 \in Nat
      BY DEF TypeOK, TablesOK
    <3>3. credits' \in [Orders -> Nat]
      BY <1>4, <3>2 DEF RecCommit
    <3> QED
      BY <1>4, <2>4, <3>1, <3>3 DEF RecCommit, TypeOK, TablesOK
  <2> QED
    BY <1>2, <2>1, <2>5 DEF TypeOK
<1>5. CASE RecAbort
  <2>1. LoopsOK'
    BY <1>1, <1>5 DEF RecAbort, TypeOK, LoopsOK, Fault
  <2> QED
    BY <1>2, <1>5, <2>1 DEF RecAbort, TypeOK, TablesOK, db
<1>6. ASSUME NEW o \in Orders, RecRow(o) \/ RecFetchFails(o)
      PROVE  TypeOK'
  <2>1. LoopsOK'
    <3>1. CASE RecSkip(o)
      BY <3>1 DEF RecSkip, TypeOK, LoopsOK
    <3>2. CASE RecFetchFails(o)
      BY <3>2 DEF RecFetchFails, TypeOK, LoopsOK, Fault
    <3>3. CASE RecDone(o)
      BY <3>3 DEF RecDone, TypeOK, LoopsOK, Outcomes
    <3>4. CASE RecRefund(o)
      <4>1. Owner[o] \in Users /\ balance[Owner[o]] + Price \in Int
        BY DEF TypeOK, TablesOK
      <4>2. rec.bal[Owner[o]] + Price \in Int
        BY <4>1 DEF TypeOK, LoopsOK
      <4>3. rec.users \cup {Owner[o]} \in SUBSET Users
        BY <4>1 DEF TypeOK, LoopsOK
      <4>4. rec' \in [on : BOOLEAN, rows : SUBSET Orders, todo : SUBSET Orders,
                      users : SUBSET Users, bal : [Users -> Int], set : Outcomes]
        BY <3>4, <4>1, <4>2, <4>3 DEF RecRefund, TypeOK, LoopsOK, Outcomes
      <4> QED
        BY <3>4, <4>4 DEF RecRefund, TypeOK, LoopsOK
    <3> QED
      BY <1>6, <3>1, <3>2, <3>3, <3>4 DEF RecRow
  <2> QED
    BY <1>2, <1>6, <2>1 DEF RecRow, RecSkip, RecFetchFails, RecDone, RecRefund,
       TypeOK, TablesOK, db
<1> QED
  BY <1>3, <1>4, <1>5, <1>6 DEF Reconciler

LEMMA ScriptTypeOK ==
  ASSUME TypeOK, Script
  PROVE  TypeOK'
<1> USE BoundsAssumption
<1>1. SessionsOK'
  BY DEF TypeOK, SessionsOK, local, Script, ScriptBegin, ScriptAsk, ScriptCommit
<1>2. Asleep \in [on : BOOLEAN, todo : SUBSET Orders, set : Outcomes]
  BY DEF Asleep, Outcomes
<1>3. CASE ScriptBegin
  <2>1. scripts' \in 0..MaxScripts
    BY <1>3 DEF ScriptBegin, TypeOK, LoopsOK
  <2>2. LoopsOK'
    BY <1>2, <1>3, <2>1 DEF ScriptBegin, TypeOK, LoopsOK
  <2> QED
    BY <1>1, <1>3, <2>2 DEF ScriptBegin, TypeOK, TablesOK, db
<1>4. ASSUME NEW o \in Orders, ScriptAsk(o)
      PROVE  TypeOK'
  <2>1. LoopsOK'
    BY <1>4 DEF ScriptAsk, TypeOK, LoopsOK, Outcomes
  <2> QED
    BY <1>1, <1>4, <2>1 DEF ScriptAsk, TypeOK, TablesOK, db
<1>5. CASE ScriptCommit
  <2>1. LoopsOK'
    BY <1>2, <1>5 DEF ScriptCommit, TypeOK, LoopsOK
  <2>2. order' \in [Orders -> Row]
    BY <1>5, RowFacts DEF ScriptCommit, TypeOK, TablesOK, LoopsOK, Outcomes
  <2> QED
    BY <1>1, <1>5, <2>1, <2>2 DEF ScriptCommit, TypeOK, TablesOK
<1> QED
  BY <1>3, <1>4, <1>5 DEF Script

LEMMA StepTypeOK == TypeOK /\ [Next]_vars => TypeOK'
<1> SUFFICES ASSUME TypeOK, [Next]_vars PROVE TypeOK'
  OBVIOUS
<1>1. CASE UNCHANGED vars
  BY <1>1 DEF vars, TypeOK, TablesOK, SessionsOK, LoopsOK
<1>2. CASE \E o \in Orders : Handler(o)
  BY <1>2, HandlerTypeOK
<1>3. CASE \E o \in Orders : Watcher(o)
  BY <1>3, WatcherTypeOK
<1>4. CASE \E o \in Orders : RemoteSettles(o)
  BY <1>4 DEF RemoteSettles, TypeOK, TablesOK, SessionsOK, LoopsOK, Seen, db,
     local, loops
<1>5. CASE \E r \in Requests : Admin(r)
  BY <1>5, AdminTypeOK
<1>6. CASE Reconciler \/ RecAbort \/ \E o \in Orders : RecFetchFails(o)
  BY <1>6, ReconcilerTypeOK
<1>7. CASE Script
  BY <1>7, ScriptTypeOK
<1>8. CASE ConfirmMass
  <2>1. PICK u \in {Owner[o] : o \in Batch} :
          balance' = [balance EXCEPT ![u] = @ - Price * Cardinality(Batch)]
    BY <1>8 DEF ConfirmMass
  <2>2. Price * Cardinality(Batch) \in Int
    BY BatchFinite, BoundsAssumption, FS_CardinalityType
  <2>3. balance' \in [Users -> Int]
    <3> DEFINE total == Price * Cardinality(Batch)
    <3>1. u \in Users /\ balance \in [Users -> Int] /\ total \in Int
      BY <2>2, OwnerAssumption, BatchAssumption DEF TypeOK, TablesOK
    <3>2. balance' = [balance EXCEPT ![u] = @ - total]
      BY <2>1
    <3> HIDE DEF total
    <3> QED
      BY <3>1, <3>2
  <2>4. order' \in [Orders -> Row]
    BY <1>8, RowFacts DEF ConfirmMass, TypeOK, TablesOK
  <2>5. SessionsOK'
    BY <1>8 DEF ConfirmMass, TypeOK, SessionsOK, local, Places
  <2> QED
    BY <1>8, <2>3, <2>4, <2>5 DEF ConfirmMass, TypeOK, TablesOK, LoopsOK, loops
<1>9. CASE Crash
  <2>1. LoopsOK'
    BY <1>9, OwnerAssumption, BoundsAssumption DEF Crash, TypeOK, LoopsOK, Fault, Idle, Outcomes
  <2>2. SessionsOK'
    BY <1>9 DEF Crash, TypeOK, SessionsOK, local, Places
  <2> QED
    BY <1>9, <2>1, <2>2 DEF Crash, TypeOK, TablesOK, db
<1> QED
  BY <1>1, <1>2, <1>3, <1>4, <1>5, <1>6, <1>7, <1>8, <1>9 DEF Next

\* The tables, the sessions and the batch jobs keep their types in every
\* behaviour, for any number of orders, requests, polls and faults.
THEOREM TypeCorrect == Spec => []TypeOK
BY InitTypeOK, StepTypeOK, PTL DEF Spec

-----------------------------------------------------------------------------
(* Balances *)

\* Inductive: what a session or the reconciler read, and will add to, is not
\* negative either.
NonNegInv ==
  /\ BalanceNonNegative
  /\ \A x \in Sessions : bal[x] >= 0
  /\ \A u \in Users : rec.bal[u] >= 0

LEMMA StepNonNeg == TypeOK /\ NonNegInv /\ [Next]_vars => NonNegInv'
<1> SUFFICES ASSUME TypeOK, NonNegInv, [Next]_vars PROVE NonNegInv'
  OBVIOUS
<1> USE OwnerAssumption, BoundsAssumption
<1>1. /\ balance \in [Users -> Int] /\ bal \in [Sessions -> Int]
      /\ \A u \in Users : rec.bal[u] \in Int
  BY DEF TypeOK, TablesOK, SessionsOK, LoopsOK
<1>2. ASSUME NEW x \in Sessions, At(x) \in Orders, PayBack(x)
      PROVE  BalanceNonNegative'
  BY <1>1, <1>2 DEF PayBack, NonNegInv, BalanceNonNegative
<1>3. ASSUME NEW x \in Sessions, At(x) \in Orders, ReadUser(x)
      PROVE  \A y \in Sessions : bal'[y] >= 0
  BY <1>1, <1>3 DEF ReadUser, NonNegInv, BalanceNonNegative
<1>4. ASSUME NEW o \in Orders, Handler(o)
      PROVE  NonNegInv'
  <2> o \in Sessions /\ At(o) = o
    BY DEF Sessions, At
  <2>1. CASE Confirm(o)
    BY <1>1, <2>1 DEF Confirm, NonNegInv, BalanceNonNegative, local, loops
  <2>2. CASE FailUser(o) \/ BackUser(o)
    BY <1>3, <2>2 DEF FailUser, BackUser, NonNegInv, BalanceNonNegative, db, loops
  <2>3. CASE FailCommit(o) \/ BackCommit(o)
    BY <1>2, <2>3 DEF FailCommit, BackCommit, NonNegInv, local, loops
  <2>4. CASE Send(o) \/ SendFails(o) \/ Record(o) \/ Answer(o) \/ FailOrder(o)
             \/ HandlerDies(o)
    BY <2>4 DEF Send, SendFails, Record, Answer, FailOrder, HandlerDies,
       NonNegInv, BalanceNonNegative, db, local, loops
  <2> QED
    BY <1>4, <2>1, <2>2, <2>3, <2>4 DEF Handler
<1>5. ASSUME NEW o \in Orders, Watcher(o)
      PROVE  NonNegInv'
  <2> o \in Sessions /\ At(o) = o
    BY DEF Sessions, At
  <2>1. CASE WatchUser(o)
    BY <1>3, <2>1 DEF WatchUser, NonNegInv, BalanceNonNegative, db, loops
  <2>2. CASE WatchCommit(o)
    BY <1>2, <2>2 DEF WatchCommit, Apply, NonNegInv, BalanceNonNegative, db, local, loops
  <2>3. CASE Poll(o) \/ WatchOrder(o) \/ WatchFails(o)
    BY <2>3 DEF Poll, WatchOrder, WatchFails, NonNegInv, BalanceNonNegative,
       db, local, loops
  <2> QED
    BY <1>5, <2>1, <2>2, <2>3 DEF Watcher
<1>6. ASSUME NEW r \in Requests, Admin(r)
      PROVE  NonNegInv'
  <2> r \in Sessions /\ At(r) \in Orders
    BY RequestsAssumption DEF Sessions, At, TypeOK, SessionsOK
  <2>1. CASE RefundUser(r) \/ RefreshUser(r)
    BY <1>3, <2>1 DEF RefundUser, RefreshUser, NonNegInv, BalanceNonNegative, db, loops
  <2>2. CASE RefundCommit(r)
    BY <1>2, <2>2 DEF RefundCommit, NonNegInv, local, loops
  <2>3. CASE RefreshCommit(r)
    BY <1>2, <2>3 DEF RefreshCommit, Apply, NonNegInv, BalanceNonNegative, db, local, loops
  <2>4. CASE RefundOrder(r) \/ RefreshOrder(r) \/ RefreshAsk(r)
    BY <2>4 DEF RefundOrder, RefreshOrder, RefreshAsk, NonNegInv,
       BalanceNonNegative, db, loops
  <2> QED
    BY <1>6, <2>1, <2>2, <2>3, <2>4 DEF Admin
<1>7. ASSUME rec' = Idle, UNCHANGED <<balance, bal>>
      PROVE  NonNegInv'
  BY <1>7 DEF Idle, NonNegInv, BalanceNonNegative
<1>8. CASE RecCommit
  <2>1. balance' = [u \in Users |-> IF u \in rec.users THEN rec.bal[u] ELSE balance[u]]
        /\ rec' = Idle /\ UNCHANGED bal
    BY <1>8 DEF RecCommit, local
  <2>2. \A u \in Users : balance[u] >= 0 /\ rec.bal[u] >= 0
    BY DEF NonNegInv, BalanceNonNegative
  <2>3. \A u \in Users : balance'[u] >= 0
    BY <2>1, <2>2
  <2> QED
    BY <2>1, <2>3 DEF Idle, NonNegInv, BalanceNonNegative
<1>9. ASSUME NEW o \in Orders, RecRow(o) \/ RecFetchFails(o)
      PROVE  NonNegInv'
  <2>1. CASE RecRefund(o)
    <3>1. Owner[o] \in Users /\ balance[Owner[o]] + Price >= 0
          /\ rec.bal[Owner[o]] + Price >= 0
      BY <1>1 DEF NonNegInv, BalanceNonNegative
    <3>2. rec \in [on : BOOLEAN, rows : SUBSET Orders, todo : SUBSET Orders,
                  users : SUBSET Users, bal : [Users -> Int], set : Outcomes]
      BY DEF TypeOK, LoopsOK
    <3>3. \A u \in Users : rec'.bal[u] >= 0
      BY <2>1, <3>1, <3>2 DEF RecRefund, NonNegInv
    <3> QED
      BY <2>1, <3>3 DEF RecRefund, NonNegInv, BalanceNonNegative, db, local
  <2>2. CASE RecSkip(o) \/ RecDone(o) \/ RecFetchFails(o)
    BY <2>2 DEF RecSkip, RecDone, RecFetchFails, NonNegInv, BalanceNonNegative,
       db, local, TypeOK, LoopsOK
  <2> QED
    BY <1>9, <2>1, <2>2 DEF RecRow
<1>10. CASE RecBegin
  BY <1>10 DEF RecBegin, Idle, NonNegInv, BalanceNonNegative, db, local
<1>11. CASE RecAbort \/ Crash
  BY <1>7, <1>11 DEF RecAbort, Crash, db, local
<1>12. CASE Script
  BY <1>12 DEF Script, ScriptBegin, ScriptAsk, ScriptCommit, NonNegInv,
     BalanceNonNegative, db, local
<1>13. CASE ConfirmMass
  <2> DEFINE total == Price * Cardinality(Batch)
  <2>1. total \in Int
    BY BatchFinite, FS_CardinalityType
  <2>2. PICK u \in {Owner[o] : o \in Batch} :
          /\ balance[u] >= total
          /\ balance' = [balance EXCEPT ![u] = @ - total]
    BY <1>13 DEF ConfirmMass
  <2>3. u \in Users
    BY BatchAssumption
  <2> HIDE DEF total
  <2>4. BalanceNonNegative'
    BY <1>1, <2>1, <2>2, <2>3 DEF NonNegInv, BalanceNonNegative
  <2> QED
    BY <1>13, <2>4 DEF ConfirmMass, NonNegInv, local, loops
<1>14. CASE UNCHANGED vars \/ \E o \in Orders : RemoteSettles(o)
  BY <1>14 DEF vars, RemoteSettles, NonNegInv, BalanceNonNegative, db, local, loops
<1> QED
  BY <1>4, <1>5, <1>6, <1>8, <1>9, <1>10, <1>11, <1>12, <1>13, <1>14
  DEF Next, Reconciler

\* No balance is ever negative, whatever debits, refunds and stale writes
\* interleave.
THEOREM NoNegativeBalance == Spec => []BalanceNonNegative
<1>1. Init => NonNegInv
  BY OwnerAssumption, BoundsAssumption DEF Init, Idle, NonNegInv, BalanceNonNegative
<1>2. NonNegInv => BalanceNonNegative
  BY DEF NonNegInv
<1> QED
  BY <1>1, <1>2, StepNonNeg, TypeCorrect, PTL DEF Spec

-----------------------------------------------------------------------------
(* The reconciler's row locks *)

\* Inductive: what the reconciler will write concerns rows it has locked,
\* and none of them has been marked refunded since it locked them.
LockInv ==
  /\ rec.todo \subseteq rec.rows
  /\ \A o \in Orders : rec.set[o] # "keep" => o \in rec.rows
  /\ rec.on => \A o \in rec.rows : ~ order[o].refunded
  /\ ~ rec.on => rec.rows = {}

LEMMA StepLock == TypeOK /\ LockInv /\ [Next]_vars => LockInv'
<1> SUFFICES ASSUME TypeOK, LockInv, [Next]_vars PROVE LockInv'
  OBVIOUS
<1>1. rec \in [on : BOOLEAN, rows : SUBSET Orders, todo : SUBSET Orders,
               users : SUBSET Users, bal : [Users -> Int], set : Outcomes]
  BY DEF TypeOK, LoopsOK
<1>2. order \in [Orders -> Row] /\ \A o \in Orders : order[o].refunded \in BOOLEAN
  BY RowFacts DEF TypeOK, TablesOK
\* A writer that leaves the locked rows' refunded columns alone.
<1>3. ASSUME UNCHANGED rec,
             \A o \in rec.rows : order'[o].refunded = order[o].refunded
      PROVE  LockInv'
  BY <1>1, <1>3 DEF LockInv
<1>4. ASSUME UNCHANGED rec, UNCHANGED order
      PROVE  LockInv'
  BY <1>3, <1>4
<1>5. ASSUME NEW x \in Sessions, At(x) \in Orders, Apply(x), UNCHANGED rec
      PROVE  LockInv'
  <2>1. \A o \in Orders \ {At(x)} : order'[o] = order[o]
    BY <1>2, <1>5 DEF Apply, db
  <2>2. ~ rec.on \/ At(x) \notin rec.rows
    BY <1>5 DEF Apply, OrderFree
  <2> QED
    BY <1>1, <1>3, <1>5, <2>1, <2>2 DEF LockInv
<1>6. ASSUME NEW o \in Orders, Handler(o)
      PROVE  LockInv'
  <2>1. UNCHANGED rec
    BY <1>6 DEF Handler, loops, Confirm, Send, SendFails, Record, Answer,
       FailUser, FailOrder, FailCommit, BackUser, BackCommit, HandlerDies
  <2>2. ASSUME NEW p \in Orders PROVE order'[p].refunded = order[p].refunded
    <3>1. CASE UNCHANGED order
      BY <3>1
    <3>2. CASE Confirm(o)
      BY <1>2, <3>2 DEF Confirm, Row
    <3>3. CASE SendFails(o)
      BY <1>2, <3>3 DEF SendFails, Row
    <3>4. CASE Record(o)
      BY <1>2, <3>4 DEF Record, Row
    <3>5. CASE FailCommit(o)
      BY <1>2, <3>5 DEF FailCommit, Row
    <3> QED
      BY <1>6, <3>1, <3>2, <3>3, <3>4, <3>5 DEF Handler, db, Send, Answer,
         FailUser, FailOrder, BackUser, BackCommit, HandlerDies
  <2> QED
    BY <1>1, <1>3, <2>1, <2>2
<1>7. ASSUME NEW o \in Orders, Watcher(o)
      PROVE  LockInv'
  <2>1. CASE WatchCommit(o)
    BY <1>5, <2>1 DEF WatchCommit, loops, Sessions, At
  <2>2. CASE ~ WatchCommit(o)
    BY <1>4, <1>7, <2>2 DEF Watcher, Poll, WatchOrder, WatchUser, WatchFails, db, loops
  <2> QED
    BY <2>1, <2>2
<1>8. ASSUME NEW r \in Requests, Admin(r)
      PROVE  LockInv'
  <2> r \in Sessions /\ At(r) = target[r] /\ target[r] \in Orders
    BY RequestsAssumption DEF Sessions, At, TypeOK, SessionsOK
  <2>1. CASE RefundCommit(r)
    <3>1. \A o \in Orders \ {target[r]} : order'[o] = order[o]
      BY <1>2, <2>1 DEF RefundCommit
    <3>2. ~ rec.on \/ target[r] \notin rec.rows
      BY <2>1 DEF RefundCommit, OrderFree
    <3> QED
      BY <1>1, <1>3, <2>1, <3>1, <3>2 DEF RefundCommit, loops, LockInv
  <2>2. CASE RefreshCommit(r)
    BY <1>5, <2>2 DEF RefreshCommit, loops
  <2>3. CASE ~ RefundCommit(r) /\ ~ RefreshCommit(r)
    BY <1>4, <1>8, <2>3 DEF Admin, RefundOrder, RefundUser, RefreshOrder,
       RefreshAsk, RefreshUser, db, loops
  <2> QED
    BY <2>1, <2>2, <2>3
<1>9. CASE RecBegin
  <2> DEFINE rows == {o \in Orders : order[o].status \in Active /\ ~ order[o].refunded}
  <2>1. rec' = [Idle EXCEPT !.on = TRUE, !.rows = rows, !.todo = rows]
        /\ UNCHANGED order
    BY <1>9 DEF RecBegin, db
  <2> QED
    BY <2>1 DEF Idle, LockInv
<1>10. ASSUME rec' = Idle PROVE LockInv'
  BY <1>10 DEF Idle, LockInv
<1>11. CASE RecCommit \/ RecAbort \/ Crash
  BY <1>10, <1>11 DEF RecCommit, RecAbort, Crash
<1>12. ASSUME NEW o \in Orders, RecRow(o) \/ RecFetchFails(o)
       PROVE  LockInv'
  <2>1. /\ o \in rec.todo /\ UNCHANGED order
        /\ rec'.on = rec.on /\ rec'.rows = rec.rows /\ rec'.todo = rec.todo \ {o}
        /\ \A p \in Orders : p # o => rec'.set[p] = rec.set[p]
    <3>0. rec.set \in Outcomes
      BY <1>1
    <3>1. CASE RecSkip(o) \/ RecFetchFails(o)
      BY <1>1, <3>1 DEF RecSkip, RecFetchFails, db
    <3>2. CASE RecDone(o)
      BY <1>1, <3>0, <3>2 DEF RecDone, db, Outcomes
    <3>3. CASE RecRefund(o)
      BY <1>1, <3>0, <3>3 DEF RecRefund, db, Outcomes
    <3> QED
      BY <1>12, <3>1, <3>2, <3>3 DEF RecRow
  <2> QED
    BY <1>1, <2>1 DEF LockInv
<1>13. CASE Script
  <2>1. CASE ScriptCommit
    <3>1. \A o \in Orders : order'[o].refunded = order[o].refunded
      BY <1>2, <2>1 DEF ScriptCommit, Row
    <3> QED
      BY <1>1, <1>3, <2>1, <3>1 DEF ScriptCommit
  <2>2. CASE ~ ScriptCommit
    BY <1>4, <1>13, <2>2 DEF Script, ScriptBegin, ScriptAsk, db
  <2> QED
    BY <2>1, <2>2
<1>14. CASE ConfirmMass
  <2>1. \A o \in Orders : order'[o].refunded = order[o].refunded
    BY <1>2, <1>14 DEF ConfirmMass, Row
  <2> QED
    BY <1>1, <1>3, <1>14, <2>1 DEF ConfirmMass, loops
<1>15. CASE UNCHANGED vars \/ \E o \in Orders : RemoteSettles(o)
  BY <1>4, <1>15 DEF vars, RemoteSettles, db, loops
<1> QED
  BY <1>6, <1>7, <1>8, <1>9, <1>11, <1>12, <1>13, <1>14, <1>15
  DEF Next, Reconciler

LEMMA LockCorrect == Spec => []LockInv
<1>1. Init => LockInv
  BY DEF Init, Idle, LockInv
<1> QED
  BY <1>1, StepLock, TypeCorrect, PTL DEF Spec

\* However watchers, requests and the script write between the start of a
\* cycle and its commit, the reconciler pays a row back only if it is not
\* marked refunded at the commit, and marks it.
THEOREM ReconcilerOnce == Spec => ReconcilerRefundsOnce
<1> DEFINE Once == rec.on /\ ~ rec'.on =>
      \A o \in Orders : credits'[o] # credits[o] =>
        /\ ~ order[o].refunded /\ order'[o].refunded
        /\ credits'[o] = credits[o] + 1
<1>1. TypeOK /\ LockInv /\ [Next]_vars => [Once]_vars
  <2> SUFFICES ASSUME TypeOK, LockInv, Next, rec.on, ~ rec'.on,
                      NEW o \in Orders, credits'[o] # credits[o]
               PROVE  /\ ~ order[o].refunded /\ order'[o].refunded
                      /\ credits'[o] = credits[o] + 1
    OBVIOUS
  <2>1. RecCommit
    <3>1. rec' # rec
      OBVIOUS
    <3>2. CASE RecBegin
      BY <3>2 DEF RecBegin
    <3>3. ASSUME NEW p \in Orders, RecRow(p) \/ RecFetchFails(p) PROVE FALSE
      BY <3>3 DEF RecRow, RecSkip, RecDone, RecRefund, RecFetchFails, db
    <3>4. CASE RecAbort \/ Crash
      BY <3>4 DEF RecAbort, Crash, db
    <3>5. ASSUME NEW p \in Orders, Handler(p) PROVE FALSE
      BY <3>1, <3>5 DEF Handler, loops, Confirm, Send, SendFails, Record, Answer,
         FailUser, FailOrder, FailCommit, BackUser, BackCommit, HandlerDies
    <3>6. ASSUME NEW p \in Orders, Watcher(p) \/ RemoteSettles(p) PROVE FALSE
      BY <3>1, <3>6 DEF Watcher, loops, Poll, WatchOrder, WatchUser, WatchCommit,
         WatchFails, RemoteSettles
    <3>7. ASSUME NEW r \in Requests, Admin(r) PROVE FALSE
      BY <3>1, <3>7 DEF Admin, loops, RefundOrder, RefundUser, RefundCommit,
         RefreshOrder, RefreshAsk, RefreshUser, RefreshCommit
    <3>8. CASE Script \/ ConfirmMass
      BY <3>1, <3>8 DEF Script, ScriptBegin, ScriptAsk, ScriptCommit, ConfirmMass, loops
    <3> QED
      BY <3>2, <3>3, <3>4, <3>5, <3>6, <3>7, <3>8 DEF Next, Reconciler
  <2>2. rec.set \in Outcomes /\ order[o] \in Row
    BY DEF TypeOK, LoopsOK, TablesOK
  <2>3. credits' = [p \in Orders |->
                  IF rec.set[p] = "failed" THEN credits[p] + 1 ELSE credits[p]]
    BY <2>1 DEF RecCommit
  <2>4. rec.set[o] = "failed"
    BY <2>3
  <2>5. order'[o] = [order[o] EXCEPT !.status = "failed", !.refunded = TRUE]
    <3>1. rec.set[o] # "keep" /\ rec.set[o] # "completed"
      BY <2>4
    <3> QED
      BY <2>1, <2>4, <3>1, Zenon DEF RecCommit
  <2> QED
    BY <2>2, <2>3, <2>4, <2>5 DEF LockInv, Row
<1> QED
  BY <1>1, TypeCorrect, LockCorrect, PTL DEF Spec, ReconcilerRefundsOnce

-----------------------------------------------------------------------------
(* Completed orders *)

\* Inductive: whoever was told "done", or is about to write "completed", was told
\* so of an order TipzySMM delivered, and an order that was not sent is unknown to it.
DoneInv ==
  /\ CompletedIsDelivered
  /\ \A o \in Orders : pc[o] \in {"idle", "send"} => remote[o] = "none"
  /\ \A o \in Orders : seen[o] = "done" => remote[o] = "done"
  /\ \A r \in Requests : seen[r] = "done" => remote[target[r]] = "done" /\ pc[r] # "idle"
  /\ \A o \in Orders : rec.set[o] = "completed" => remote[o] = "done"
  /\ \A o \in Orders : script.set[o] = "completed" => remote[o] = "done"

\* What a watcher or a refresh writes keeps the completed orders delivered.
LEMMA ApplyDone ==
  ASSUME TypeOK, CompletedIsDelivered, NEW x \in Sessions, At(x) \in Orders, Apply(x),
         seen[x] = "done" => remote[At(x)] = "done", UNCHANGED remote
  PROVE  CompletedIsDelivered'
<1> DEFINE o == At(x)
<1>1. order \in [Orders -> Row]
  BY DEF TypeOK, TablesOK
<1>2. \A p \in Orders \ {o} : order'[p] = order[p]
  BY <1>1 DEF Apply, db
<1>3. order'[o].status = "completed" => order[o].status = "completed" \/ seen[x] = "done"
  BY <1>1 DEF Apply, Column, db, Row
<1> QED
  BY <1>2, <1>3 DEF CompletedIsDelivered

LEMMA StepDone == TypeOK /\ DoneInv /\ [Next]_vars => DoneInv'
<1> SUFFICES ASSUME TypeOK, DoneInv, [Next]_vars PROVE DoneInv'
  OBVIOUS
<1>1. /\ order \in [Orders -> Row] /\ remote \in [Orders -> Seen]
      /\ pc \in [Sessions -> Places] /\ seen \in [Sessions -> Seen]
      /\ target \in [Requests -> Orders]
      /\ rec.set \in Outcomes /\ script.set \in Outcomes
  BY DEF TypeOK, TablesOK, SessionsOK, LoopsOK
<1>2. rec \in [on : BOOLEAN, rows : SUBSET Orders, todo : SUBSET Orders,
               users : SUBSET Users, bal : [Users -> Int], set : Outcomes]
      /\ script \in [on : BOOLEAN, todo : SUBSET Orders, set : Outcomes]
  BY DEF TypeOK, LoopsOK
<1>3. Orders \subseteq Sessions /\ Requests \subseteq Sessions /\ Requests \cap Orders = {}
  BY RequestsAssumption DEF Sessions
<1>4. ASSUME NEW o \in Orders, Handler(o) PROVE DoneInv'
  <2>0. UNCHANGED <<rec, script, target>>
    BY <1>4 DEF Handler, loops, local, Confirm, Send, SendFails, Record, Answer,
       FailUser, FailOrder, FailCommit, BackUser, BackCommit, HandlerDies
  <2>1. CASE Send(o)
    <3>1. remote[o] = "none" /\ order[o].status # "completed"
      BY <2>1 DEF Send, Go, DoneInv, CompletedIsDelivered
    <3>2. /\ UNCHANGED order
          /\ \A p \in Orders : p # o => remote'[p] = remote[p]
          /\ \A x \in Sessions : x # o => seen'[x] = seen[x] /\ pc'[x] = pc[x]
          /\ pc'[o] = "record" /\ seen'[o] # "done"
      <4>1. seen[o] # "done"
        BY <3>1 DEF DoneInv
      <4> QED
        BY <1>1, <1>3, <2>1, <4>1 DEF Send, Go, Goto, db
    <3> QED
      BY <1>1, <1>3, <2>0, <3>1, <3>2 DEF DoneInv, CompletedIsDelivered
  <2>2. CASE ~ Send(o)
    <3>1. UNCHANGED <<remote, seen>>
      BY <1>4, <2>2 DEF Handler, local, Confirm, SendFails, Record, Answer,
         FailUser, FailOrder, FailCommit, BackUser, BackCommit, HandlerDies
    <3>2. \A x \in Sessions : pc'[x] \in {"idle", "send"} => pc[x] \in {"idle", "send"}
      BY <1>1, <1>3, <1>4, <2>2 DEF Handler, Go, Goto, Confirm, SendFails, Record, Answer,
         FailUser, FailOrder, FailCommit, BackUser, BackCommit, HandlerDies
    <3>3. \A r \in Requests : pc'[r] = "idle" => pc[r] = "idle"
      BY <1>1, <1>3, <1>4, <2>2 DEF Handler, Go, Goto, Confirm, SendFails, Record, Answer,
         FailUser, FailOrder, FailCommit, BackUser, BackCommit, HandlerDies
    <3>4. ASSUME NEW p \in Orders, order'[p].status = "completed"
          PROVE  order[p].status = "completed"
      <4>1. CASE UNCHANGED order
        BY <3>4, <4>1
      <4>2. CASE Confirm(o)
        BY <1>1, <3>4, <4>2 DEF Confirm, Row
      <4>3. CASE SendFails(o)
        BY <1>1, <3>4, <4>3 DEF SendFails, Row
      <4>4. CASE Record(o)
        BY <1>1, <3>4, <4>4 DEF Record, Row
      <4>5. CASE FailCommit(o)
        <5>1. At(o) = o
          BY DEF At
        <5> QED
          BY <1>1, <3>4, <4>5, <5>1 DEF FailCommit, Column, Row
      <4> QED
        BY <1>4, <2>2, <4>1, <4>2, <4>3, <4>4, <4>5 DEF Handler, db, Answer,
           FailUser, FailOrder, BackUser, BackCommit, HandlerDies
    <3> QED
      BY <1>3, <2>0, <3>1, <3>2, <3>3, <3>4 DEF DoneInv, CompletedIsDelivered
  <2> QED
    BY <2>1, <2>2
<1>5. ASSUME NEW o \in Orders, Watcher(o) PROVE DoneInv'
  <2>0. UNCHANGED <<rec, script, target, remote>> /\ At(o) = o /\ o \in Sessions
    BY <1>3, <1>5 DEF Watcher, loops, local, Poll, WatchOrder, WatchUser, WatchCommit,
       WatchFails, At
  <2>1. /\ \A x \in Sessions : pc'[x] \in {"idle", "send"} => pc[x] = pc'[x]
        /\ \A x \in Sessions : seen'[x] = seen[x] \/ (x = o /\ seen'[x] = remote[o])
    BY <1>1, <1>3, <1>5, <2>0 DEF Watcher, Go, Goto, local, Poll, AskTipzy, WatchOrder,
       WatchUser, WatchCommit, WatchFails
  <2>2. CompletedIsDelivered'
    <3>1. CASE WatchCommit(o)
      BY <2>0, <3>1, ApplyDone DEF WatchCommit, DoneInv
    <3>2. CASE ~ WatchCommit(o)
      BY <1>5, <2>0, <3>2 DEF Watcher, db, Poll, WatchOrder, WatchUser, WatchFails, DoneInv,
         CompletedIsDelivered
    <3> QED
      BY <3>1, <3>2
  <2> QED
    BY <1>3, <2>0, <2>1, <2>2 DEF DoneInv
<1>6. ASSUME NEW r \in Requests, Admin(r) PROVE DoneInv'
  <2>0. /\ UNCHANGED <<rec, script, remote>> /\ At(r) = target[r] /\ r \in Sessions
        /\ target[r] \in Orders
    BY <1>1, <1>3, <1>6 DEF Admin, loops, RefundOrder, RefundUser, RefundCommit, RefreshOrder,
       RefreshAsk, RefreshUser, RefreshCommit, At
  <2>1. /\ \A x \in Sessions : x # r => pc'[x] = pc[x] /\ seen'[x] = seen[x]
        /\ \A x \in Requests : x # r => target'[x] = target[x]
        /\ pc'[r] # "idle"
    BY <1>1, <1>3, <1>6, <2>0 DEF Admin, Go, Goto, local, AskTipzy, RefundOrder, RefundUser,
       RefundCommit, RefreshOrder, RefreshAsk, RefreshUser, RefreshCommit
  <2>2. seen'[r] = "done" => remote[target'[r]] = "done"
    <3>1. CASE RefundOrder(r) \/ RefreshOrder(r)
      BY <1>1, <3>1 DEF RefundOrder, RefreshOrder, Go, DoneInv
    <3>2. CASE RefreshAsk(r)
      BY <1>1, <2>0, <3>2 DEF RefreshAsk, AskTipzy
    <3>3. CASE RefundUser(r) \/ RefundCommit(r) \/ RefreshUser(r) \/ RefreshCommit(r)
      BY <3>3 DEF RefundUser, RefundCommit, RefreshUser, RefreshCommit, local, DoneInv
    <3> QED
      BY <1>6, <3>1, <3>2, <3>3 DEF Admin
  <2>3. CompletedIsDelivered'
    <3>1. CASE RefreshCommit(r)
      BY <2>0, <3>1, ApplyDone DEF RefreshCommit, DoneInv
    <3>2. CASE RefundCommit(r)
      BY <1>1, <2>0, <3>2 DEF RefundCommit, Row, DoneInv, CompletedIsDelivered
    <3>3. CASE ~ RefreshCommit(r) /\ ~ RefundCommit(r)
      BY <1>6, <2>0, <3>3 DEF Admin, db, RefundOrder, RefundUser, RefreshOrder,
         RefreshAsk, RefreshUser, DoneInv, CompletedIsDelivered
    <3> QED
      BY <3>1, <3>2, <3>3
  <2> QED
    BY <1>3, <2>0, <2>1, <2>2, <2>3 DEF DoneInv
<1>7. ASSUME rec' = Idle, UNCHANGED <<remote, local, script>>, CompletedIsDelivered',
             \A x \in Sessions : pc'[x] \in {pc[x], "dead"}
      PROVE  DoneInv'
  BY <1>3, <1>7 DEF DoneInv, Idle, local
<1>8. CASE RecCommit
  <2>1. \A o \in Orders : order'[o].status = "completed" =>
          order[o].status = "completed" \/ rec.set[o] = "completed"
    <3> SUFFICES ASSUME NEW o \in Orders, order'[o].status = "completed",
                        rec.set[o] # "completed"
                 PROVE  order[o].status = "completed"
      OBVIOUS
    <3>1. rec.set[o] \in {"keep", "failed"}
      BY <1>1 DEF Outcomes
    <3>2. order'[o] = CASE rec.set[o] = "keep" -> order[o]
        [] rec.set[o] = "completed" -> [order[o] EXCEPT !.status = "completed"]
        [] rec.set[o] = "failed" ->
             [order[o] EXCEPT !.status = "failed", !.refunded = TRUE]
      BY <1>8 DEF RecCommit
    <3>3. order[o] \in Row
      BY <1>1
    <3> QED
      BY <3>1, <3>2, <3>3 DEF Row
  <2> QED
    BY <1>7, <1>8, <2>1 DEF RecCommit, DoneInv, CompletedIsDelivered
<1>9. CASE RecAbort \/ Crash
  <2>1. UNCHANGED <<order, remote, local, script>> /\ rec' = Idle
    BY <1>9 DEF RecAbort, Crash, db
  <2>2. \A x \in Sessions : pc'[x] \in {pc[x], "dead"}
    BY <1>9 DEF RecAbort, Crash
  <2> QED
    BY <1>7, <2>1, <2>2 DEF DoneInv, CompletedIsDelivered
<1>10. ASSUME UNCHANGED <<order, remote, pc, seen, target>>,
              \A o \in Orders : rec'.set[o] = "completed" => remote[o] = "done",
              \A o \in Orders : script'.set[o] = "completed" => remote[o] = "done"
       PROVE  DoneInv'
  BY <1>10 DEF DoneInv, CompletedIsDelivered
<1>11. ASSUME NEW o \in Orders, RecRow(o) \/ RecFetchFails(o) PROVE DoneInv'
  <2>1. UNCHANGED <<order, remote, pc, seen, target, script>>
    BY <1>11 DEF RecRow, RecSkip, RecDone, RecRefund, RecFetchFails, db, local
  <2>2. ASSUME NEW p \in Orders, rec'.set[p] = "completed" PROVE remote[p] = "done"
    <3>1. CASE RecSkip(o) \/ RecFetchFails(o)
      BY <1>2, <2>2, <3>1 DEF RecSkip, RecFetchFails, DoneInv
    <3>2. CASE RecDone(o)
      BY <1>1, <1>2, <2>2, <3>2 DEF RecDone, DoneInv, Outcomes
    <3>3. CASE RecRefund(o)
      BY <1>1, <1>2, <2>2, <3>3 DEF RecRefund, DoneInv, Outcomes
    <3> QED
      BY <1>11, <3>1, <3>2, <3>3 DEF RecRow
  <2> QED
    BY <1>10, <2>1, <2>2 DEF DoneInv
<1>12. CASE RecBegin
  <2>1. UNCHANGED <<order, remote, pc, seen, target, script>>
        /\ \A o \in Orders : rec'.set[o] = "keep"
    BY <1>12 DEF RecBegin, Idle, db, local
  <2> QED
    BY <1>10, <2>1 DEF DoneInv
<1>13. CASE Script
  <2>1. UNCHANGED <<remote, pc, seen, target, rec>>
    BY <1>13 DEF Script, ScriptBegin, ScriptAsk, ScriptCommit, local
  <2>2. CASE ScriptBegin
    BY <1>10, <2>1, <2>2 DEF ScriptBegin, Asleep, db, DoneInv
  <2>3. ASSUME NEW o \in Orders, ScriptAsk(o) PROVE DoneInv'
    <3>1. \A p \in Orders : script'.set[p] = "completed" => remote[p] = "done"
      BY <1>1, <1>2, <2>3 DEF ScriptAsk, DoneInv, Outcomes
    <3> QED
      BY <1>10, <2>1, <2>3, <3>1 DEF ScriptAsk, db, DoneInv
  <2>4. CASE ScriptCommit
    <3>1. CompletedIsDelivered'
      BY <1>1, <2>1, <2>4 DEF ScriptCommit, Row, DoneInv, CompletedIsDelivered
    <3> QED
      BY <2>1, <2>4, <3>1 DEF ScriptCommit, Asleep, DoneInv
  <2> QED
    BY <1>13, <2>2, <2>3, <2>4 DEF Script
<1>14. CASE ConfirmMass
  <2>1. /\ UNCHANGED <<remote, seen, target, rec, script>>
        /\ \A p \in Orders : order'[p].status = "completed" => order[p].status = "completed"
        /\ \A x \in Sessions : pc'[x] \in {"idle", "send"} => pc[x] \in {"idle", "send"}
        /\ \A x \in Sessions : pc'[x] = "idle" => pc[x] = "idle"
    BY <1>1, <1>14, BatchAssumption, <1>3 DEF ConfirmMass, Row, local, loops
  <2> QED
    BY <1>3, <2>1 DEF DoneInv, CompletedIsDelivered
<1>15. ASSUME NEW o \in Orders, RemoteSettles(o) PROVE DoneInv'
  <2>1. /\ UNCHANGED <<order, pc, seen, target, rec, script>> /\ remote[o] = "active"
        /\ \A p \in Orders : p # o => remote'[p] = remote[p]
    BY <1>1, <1>15 DEF RemoteSettles, db, local, loops
  <2> QED
    BY <1>1, <2>1 DEF DoneInv, CompletedIsDelivered
<1>16. CASE UNCHANGED vars
  BY <1>16 DEF vars, DoneInv, CompletedIsDelivered
<1> QED
  BY <1>4, <1>5, <1>6, <1>8, <1>9, <1>11, <1>12, <1>13, <1>14, <1>15, <1>16
  DEF Next, Reconciler

\* Whatever stale statuses watchers, refreshes, the reconciler and the script
\* write over each other: an order says "completed" only when it was delivered.
THEOREM OnlyDelivered == Spec => []CompletedIsDelivered
<1>1. Init => DoneInv
  <2> SUFFICES ASSUME Init PROVE DoneInv
    OBVIOUS
  <2>1. Orders \subseteq Sessions /\ Requests \subseteq Sessions
    BY DEF Sessions
  <2> QED
    BY <2>1 DEF Init, Idle, Asleep, NoRow, DoneInv, CompletedIsDelivered
<1>2. DoneInv => CompletedIsDelivered
  BY DEF DoneInv
<1> QED
  BY <1>1, <1>2, StepDone, TypeCorrect, PTL DEF Spec

-----------------------------------------------------------------------------
(* Failed orders *)

\* Where an order is until its id is saved, and where the mass handler pays back.
Unsaved == {"idle", "send", "record", "back.user", "back.commit"}

\* Inductive: an order nobody confirmed has no row that a request, the reconciler or
\* the script could work on, and an id is saved only when TipzySMM has answered.
PlacedInv ==
  /\ \A o \in Orders : pc[o] = "idle" => order[o].status = "none" /\ credits[o] = 0
  /\ \A o \in Orders : pc[o] \in Unsaved => order[o].tid = "null"
  /\ \A r \in Requests : pc[r] # "idle" => pc[target[r]] # "idle"
  /\ \A o \in rec.rows : pc[o] # "idle"
  /\ \A o \in Orders : o \in script.todo \/ script.set[o] # "keep" => pc[o] # "idle"

\* A step that leaves unconfirmed orders alone.
LEMMA PlacedKept ==
  ASSUME TypeOK, TypeOK', PlacedInv,
         \A o \in Orders : pc'[o] = "idle" =>
            pc[o] = "idle" /\ order'[o].status = order[o].status /\ credits'[o] = credits[o],
         \A o \in Orders : pc'[o] \in Unsaved =>
            pc[o] \in Unsaved /\ order'[o].tid = order[o].tid,
         \A r \in Requests : pc'[r] # "idle" =>
            \/ pc[r] # "idle" /\ target'[r] = target[r]
            \/ pc[target'[r]] # "idle",
         \A o \in rec'.rows : o \in rec.rows \/ pc[o] # "idle",
         \A o \in Orders : o \in script'.todo \/ script'.set[o] # "keep" =>
            o \in script.todo \/ script.set[o] # "keep" \/ pc[o] # "idle"
  PROVE  PlacedInv'
<1>1. /\ rec.rows \subseteq Orders /\ rec'.rows \subseteq Orders
      /\ \A r \in Requests : target'[r] \in Orders
  BY DEF TypeOK, SessionsOK, LoopsOK
<1> QED
  BY <1>1 DEF PlacedInv

\* An order somebody works on was confirmed; a request works on its target.
LEMMA AtPlaced ==
  ASSUME TypeOK, PlacedInv, NEW x \in Sessions, At(x) \in Orders, pc[x] # "idle"
  PROVE  pc[At(x)] # "idle"
BY RequestsAssumption DEF PlacedInv, At, Sessions

\* What a watcher or a refresh writes concerns one row, and not its id.
LEMMA ApplyWrites ==
  ASSUME TypeOK, NEW x \in Sessions, At(x) \in Orders, Apply(x)
  PROVE  /\ \A o \in Orders : o # At(x) => order'[o] = order[o] /\ credits'[o] = credits[o]
         /\ \A o \in Orders : order'[o].tid = order[o].tid
         /\ \A o \in Orders : order[o].status # "none" => order'[o].status # "none"
<1>1. order \in [Orders -> Row]
  BY DEF TypeOK, TablesOK
<1>2. \A o \in Orders : o # At(x) => order'[o] = order[o] /\ credits'[o] = credits[o]
  BY <1>1, PayBackFacts DEF Apply, db
<1>3. order'[At(x)].tid = order[At(x)].tid
  BY <1>1 DEF Apply, db, Row
<1>4. order[At(x)].status # "none" => order'[At(x)].status # "none"
  BY <1>1 DEF Apply, db, Column, Row
<1> QED
  BY <1>2, <1>3, <1>4

LEMMA StepPlaced == TypeOK /\ TypeOK' /\ LockInv /\ PlacedInv /\ [Next]_vars => PlacedInv'
<1> SUFFICES ASSUME TypeOK, TypeOK', LockInv, PlacedInv, [Next]_vars PROVE PlacedInv'
  OBVIOUS
<1>1. /\ order \in [Orders -> Row] /\ pc \in [Sessions -> Places]
      /\ target \in [Requests -> Orders] /\ rec.set \in Outcomes /\ rec.rows \subseteq Orders
      /\ rec \in [on : BOOLEAN, rows : SUBSET Orders, todo : SUBSET Orders,
                  users : SUBSET Users, bal : [Users -> Int], set : Outcomes]
      /\ script \in [on : BOOLEAN, todo : SUBSET Orders, set : Outcomes]
  BY DEF TypeOK, TablesOK, SessionsOK, LoopsOK
<1>2. Orders \subseteq Sessions /\ Requests \subseteq Sessions /\ Requests \cap Orders = {}
      /\ Batch \subseteq Orders
  BY RequestsAssumption, BatchAssumption DEF Sessions
<1>3. ASSUME NEW o \in Orders, Handler(o) PROVE PlacedInv'
  <2>1. UNCHANGED <<rec, script, target>> /\ At(o) = o /\ o \in Sessions
    BY <1>2, <1>3 DEF Handler, loops, local, Confirm, Send, SendFails, Record, Answer,
       FailUser, FailOrder, FailCommit, BackUser, BackCommit, HandlerDies, At
  <2>2. \A p \in Orders : p # o => order'[p] = order[p] /\ credits'[p] = credits[p]
    BY <1>1, <1>3, <2>1, PayBackFacts DEF Handler, db, Confirm, Send, SendFails, Record,
       Answer, FailUser, FailOrder, FailCommit, BackUser, BackCommit, HandlerDies
  <2>3. /\ pc'[o] # "idle"
        /\ \A x \in Sessions : x # o => pc'[x] = pc[x] \/ (pc[x] = "send" /\ pc'[x] = "dead")
    BY <1>1, <1>2, <1>3, <2>1 DEF Handler, Go, Goto, Confirm, Send, SendFails, Record,
       Answer, FailUser, FailOrder, FailCommit, BackUser, BackCommit, HandlerDies
  <2>4. pc'[o] \in Unsaved => pc[o] \in Unsaved /\ order'[o].tid = order[o].tid
    <3>1. CASE Confirm(o) \/ SendFails(o)
      BY <1>1, <1>2, <2>1, <3>1 DEF Confirm, SendFails, Go, Goto, Unsaved, Row
    <3>2. CASE Record(o) \/ Answer(o) \/ FailUser(o) \/ FailOrder(o) \/ FailCommit(o)
               \/ HandlerDies(o)
      BY <1>1, <1>2, <2>1, <3>2 DEF Record, Answer, FailUser, FailOrder, FailCommit,
         HandlerDies, Go, Goto, Unsaved
    <3>3. CASE Send(o) \/ BackUser(o) \/ BackCommit(o)
      BY <1>1, <1>2, <2>1, <3>3 DEF Send, BackUser, BackCommit, Go, Goto, Unsaved, db
    <3> QED
      BY <1>3, <3>1, <3>2, <3>3 DEF Handler
  <2>5. \A p \in Orders : p # o => pc'[p] = pc[p] \/ pc'[p] = "dead"
    BY <1>2, <2>3
  <2>6. \A r \in Requests : pc'[r] # "idle" => pc[r] # "idle"
    BY <1>2, <2>3
  <2> QED
    BY <2>1, <2>2, <2>3, <2>4, <2>5, <2>6, PlacedKept DEF Unsaved
<1>4. ASSUME NEW o \in Orders, Watcher(o) PROVE PlacedInv'
  <2>1. UNCHANGED <<rec, script, target>> /\ At(o) = o /\ o \in Sessions
    BY <1>2, <1>4 DEF Watcher, loops, local, Poll, WatchOrder, WatchUser, WatchCommit,
       WatchFails, At
  <2>2. /\ pc'[o] \notin Unsaved
        /\ \A x \in Sessions : x # o => pc'[x] = pc[x]
    BY <1>1, <1>2, <1>4, <2>1 DEF Watcher, Go, Goto, Poll, WatchOrder, WatchUser, WatchCommit,
       WatchFails, Unsaved
  <2>3. \A p \in Orders : p # o => order'[p] = order[p] /\ credits'[p] = credits[p]
    BY <1>1, <1>4, <2>1, ApplyWrites DEF Watcher, db, Poll, WatchOrder, WatchUser,
       WatchCommit, WatchFails
  <2>4. "idle" \in Unsaved
    BY DEF Unsaved
  <2>5. /\ \A p \in Orders : pc'[p] \in Unsaved =>
             p # o /\ pc'[p] = pc[p] /\ order'[p] = order[p] /\ credits'[p] = credits[p]
        /\ \A r \in Requests : pc'[r] = pc[r]
    BY <1>2, <2>2, <2>3
  <2> QED
    BY <2>1, <2>4, <2>5, PlacedKept
<1>5. ASSUME NEW r \in Requests, Admin(r) PROVE PlacedInv'
  <2>1. /\ UNCHANGED <<rec, script>> /\ At(r) = target[r] /\ r \in Sessions
        /\ target[r] \in Orders /\ r \notin Orders
    BY <1>1, <1>2, <1>5 DEF Admin, loops, RefundOrder, RefundUser, RefundCommit, RefreshOrder,
       RefreshAsk, RefreshUser, RefreshCommit, At
  <2>2. /\ \A x \in Sessions : x # r => pc'[x] = pc[x]
        /\ \A p \in Orders : pc'[p] = pc[p]
        /\ \A q \in Requests : q # r => pc'[q] = pc[q] /\ target'[q] = target[q]
    BY <1>1, <1>2, <1>5, <2>1 DEF Admin, Go, Goto, local, RefundOrder, RefundUser,
       RefundCommit, RefreshOrder, RefreshAsk, RefreshUser, RefreshCommit
  <2>3. CASE RefundOrder(r) \/ RefreshOrder(r)
    <3>1. PICK o \in Orders : target' = [target EXCEPT ![r] = o]
                              /\ (order[o].status # "none" \/ order[o].tid = "id")
      BY <2>3 DEF RefundOrder, RefreshOrder
    <3>2. pc[o] # "idle"
      BY <3>1 DEF PlacedInv, Unsaved
    <3>3. UNCHANGED <<order, credits>>
      BY <2>3 DEF RefundOrder, RefreshOrder, db
    <3>4. pc[target'[r]] # "idle"
      BY <1>1, <3>1, <3>2
    <3> QED
      BY <2>1, <2>2, <3>3, <3>4, PlacedKept
  <2>4. CASE ~ RefundOrder(r) /\ ~ RefreshOrder(r)
    <3>1. UNCHANGED target /\ pc[r] # "idle"
      BY <1>5, <2>4 DEF Admin, Go, local, RefundUser, RefundCommit, RefreshAsk, RefreshUser,
         RefreshCommit
    <3>2. pc[target[r]] # "idle"
      BY <3>1 DEF PlacedInv
    <3>3. CASE RefundCommit(r)
      <4>1. /\ \A p \in Orders : p # target[r] =>
                 order'[p] = order[p] /\ credits'[p] = credits[p]
            /\ order'[target[r]].tid = order[target[r]].tid
        BY <1>1, <2>1, <3>3, PayBackFacts DEF RefundCommit, Row
      <4>2. /\ \A p \in Orders : order'[p].tid = order[p].tid
            /\ \A p \in Orders : pc'[p] = "idle" => p # target[r]
        BY <2>2, <3>2, <4>1
      <4> QED
        BY <2>1, <2>2, <3>1, <4>1, <4>2, PlacedKept
    <3>4. CASE RefreshCommit(r)
      <4>1. /\ \A p \in Orders : p # target[r] =>
                 order'[p] = order[p] /\ credits'[p] = credits[p]
            /\ \A p \in Orders : order'[p].tid = order[p].tid
        BY <2>1, <3>4, ApplyWrites DEF RefreshCommit
      <4> QED
        BY <2>1, <2>2, <3>1, <3>2, <4>1, PlacedKept
    <3>5. CASE ~ RefundCommit(r) /\ ~ RefreshCommit(r)
      <4>1. UNCHANGED <<order, credits>>
        BY <1>5, <2>4, <3>5 DEF Admin, db, RefundUser, RefreshAsk, RefreshUser
      <4> QED
        BY <2>1, <2>2, <3>1, <4>1, PlacedKept
    <3> QED
      BY <3>3, <3>4, <3>5
  <2> QED
    BY <2>3, <2>4
<1>6. CASE RecBegin
  <2>1. /\ \A o \in rec'.rows : o \in Orders /\ order[o].status \in Active
        /\ UNCHANGED <<order, credits, pc, target, script>>
    BY <1>6 DEF RecBegin, Idle, db, local
  <2>2. \A o \in rec'.rows : pc[o] # "idle"
    BY <2>1 DEF PlacedInv, Active
  <2> QED
    BY <2>1, <2>2, PlacedKept
<1>7. CASE RecCommit
  <2>1. UNCHANGED <<pc, target, script>> /\ rec'.rows = {}
    BY <1>7 DEF RecCommit, local, Idle
  <2>2. ASSUME NEW o \in Orders, pc[o] = "idle"
        PROVE  order'[o] = order[o] /\ credits'[o] = credits[o]
    <3>1. rec.set[o] = "keep"
      BY <2>2 DEF PlacedInv, LockInv
    <3> QED
      BY <1>7, <3>1 DEF RecCommit
  <2>3. ASSUME NEW o \in Orders
        PROVE  order'[o].tid = order[o].tid
    <3>1. order'[o] = CASE rec.set[o] = "keep" -> order[o]
        [] rec.set[o] = "completed" -> [order[o] EXCEPT !.status = "completed"]
        [] rec.set[o] = "failed" ->
             [order[o] EXCEPT !.status = "failed", !.refunded = TRUE]
      BY <1>7 DEF RecCommit
    <3>2. order[o] \in Row /\ rec.set[o] \in {"keep", "completed", "failed"}
      BY <1>1 DEF Outcomes
    <3> QED
      BY <3>1, <3>2 DEF Row
  <2> QED
    BY <2>1, <2>2, <2>3, PlacedKept
<1>8. ASSUME NEW o \in Orders, RecRow(o) \/ RecFetchFails(o) PROVE PlacedInv'
  <2>1. UNCHANGED <<order, credits, pc, target, script>> /\ rec'.rows = rec.rows
    BY <1>1, <1>8 DEF RecRow, RecSkip, RecDone, RecRefund, RecFetchFails, db, local
  <2> QED
    BY <2>1, PlacedKept
<1>9. ASSUME UNCHANGED <<order, credits, target, script>>, rec' = rec \/ rec' = Idle,
             \A x \in Sessions : pc'[x] = pc[x] \/ (pc'[x] = "dead" /\ pc[x] # "idle")
      PROVE  PlacedInv'
  <2>1. \A o \in rec'.rows : o \in rec.rows
    BY <1>9 DEF Idle
  <2>2. \A x \in Sessions : pc'[x] \in Unsaved => pc'[x] = pc[x]
    BY <1>9 DEF Unsaved
  <2>3. \A x \in Sessions : pc'[x] = "idle" <=> pc[x] = "idle"
    BY <1>9
  <2> QED
    BY <1>2, <1>9, <2>1, <2>2, <2>3, PlacedKept
<1>10. CASE RecAbort \/ Crash \/ UNCHANGED vars \/ \E o \in Orders : RemoteSettles(o)
  BY <1>1, <1>9, <1>10 DEF RecAbort, Crash, vars, RemoteSettles, db, local, loops
<1>11. CASE Script
  <2>0. UNCHANGED <<pc, target, rec, credits>>
    BY <1>11 DEF Script, ScriptBegin, ScriptAsk, ScriptCommit, db, local
  <2>1. CASE ScriptBegin
    <3>1. \A o \in Orders : o \in script'.todo \/ script'.set[o] # "keep" => order[o].status \in Active
      BY <2>1 DEF ScriptBegin, Asleep
    <3>2. \A o \in Orders : order[o].status \in Active => pc[o] # "idle"
      BY DEF PlacedInv, Active
    <3> QED
      BY <2>0, <2>1, <3>1, <3>2, PlacedKept DEF ScriptBegin, db
  <2>2. ASSUME NEW o \in Orders, ScriptAsk(o) PROVE PlacedInv'
    <3>1. /\ o \in script.todo /\ script'.todo \subseteq script.todo
          /\ \A p \in Orders : p # o => script'.set[p] = script.set[p]
      BY <1>1, <2>2 DEF ScriptAsk, Outcomes
    <3> QED
      BY <2>0, <2>2, <3>1, PlacedKept DEF ScriptAsk, db
  <2>3. CASE ScriptCommit
    <3>1. /\ \A o \in Orders : script.set[o] = "keep" => order'[o] = order[o]
          /\ \A o \in Orders : order'[o].tid = order[o].tid
      BY <1>1, <2>3 DEF ScriptCommit, Row
    <3>2. \A o \in Orders : pc[o] = "idle" => script.set[o] = "keep"
      BY DEF PlacedInv
    <3>3. \A o \in Orders : ~ (o \in script'.todo \/ script'.set[o] # "keep")
      BY <2>3 DEF ScriptCommit, Asleep
    <3> QED
      BY <2>0, <3>1, <3>2, <3>3, PlacedKept
  <2> QED
    BY <1>11, <2>1, <2>2, <2>3 DEF Script
<1>12. CASE ConfirmMass
  <2>1. /\ UNCHANGED <<credits, target, rec, script>>
        /\ \A o \in Orders : order'[o].tid = order[o].tid
        /\ \A o \in Orders \ Batch : order'[o] = order[o]
        /\ \A x \in Sessions : pc'[x] = IF x \in Batch THEN "send" ELSE pc[x]
        /\ \A o \in Batch : pc[o] = "idle"
    BY <1>1, <1>2, <1>12 DEF ConfirmMass, local, loops, Row
  <2> QED
    BY <1>2, <2>1, PlacedKept DEF Unsaved
<1> QED
  BY <1>3, <1>4, <1>5, <1>6, <1>7, <1>8, <1>10, <1>11, <1>12 DEF Next, Reconciler

LEMMA PlacedCorrect == Spec => []PlacedInv
<1>1. Init => PlacedInv
  <2> SUFFICES ASSUME Init PROVE PlacedInv
    OBVIOUS
  <2>1. Orders \subseteq Sessions /\ Requests \subseteq Sessions
    BY DEF Sessions
  <2> QED
    BY <2>1 DEF Init, Idle, Asleep, NoRow, PlacedInv
<1> QED
  BY <1>1, StepPlaced, TypeCorrect, LockCorrect, PTL DEF Spec

\* A refund was written, or the order is one of those that may have none.
Paid(o) ==
  \/ credits[o] > 0
  \/ o \in scripted
  \/ o \in Batch /\ order[o].tid = "null" /\ pc[o] \in {"back.user", "back.commit", "dead"}

\* Once paid back a row stays so, and a session that saw it marked refunded saw
\* that: the sets of the rows of which each holds.
PaidRows == {o \in Orders : Paid(o)}
SeenRefunded ==
  {o \in Orders : snap[o].refunded} \cup {target[r] : r \in {q \in Requests : snap[q].refunded}}

\* Inductive.
PaidInv ==
  /\ \A o \in Orders :
       order[o].status \in {"failed", "refunded"} \/ order[o].refunded => o \in PaidRows
  /\ SeenRefunded \subseteq PaidRows

\* A step that forgets no payment, marks none but paid rows, and sees only the rows
\* there are.
LEMMA PaidKept ==
  ASSUME TypeOK, TypeOK', PaidInv, PaidRows \subseteq PaidRows',
         \A o \in Orders \ PaidRows' :
           /\ order'[o].status \in {"failed", "refunded"} =>
                order[o].status \in {"failed", "refunded"}
           /\ order'[o].refunded => order[o].refunded,
         SeenRefunded' \subseteq SeenRefunded \cup {o \in Orders : order[o].refunded}
  PROVE  PaidInv'
BY DEF PaidInv

\* A payment is remembered, by whomever and whenever it is made.
LEMMA NoneForgotten ==
  ASSUME TypeOK, TypeOK', \A o \in Orders : credits'[o] >= credits[o],
         scripted \subseteq scripted',
         \A o \in Orders : order'[o].tid = order[o].tid \/ pc[o] = "record",
         \A o \in Batch : \/ pc'[o] = pc[o]
                          \/ pc[o] \notin {"back.user", "back.commit", "dead"}
                          \/ pc'[o] \in {"back.user", "back.commit", "dead"}
                          \/ credits'[o] > 0
  PROVE  PaidRows \subseteq PaidRows'
<1>1. \A o \in Orders : credits[o] \in Nat /\ credits'[o] \in Nat
  BY DEF TypeOK, TablesOK
<1>2. ASSUME NEW o \in Orders, Paid(o) PROVE Paid(o)'
  BY <1>1, <1>2 DEF Paid
<1> QED
  BY <1>2 DEF PaidRows

LEMMA PayBackPays ==
  ASSUME TypeOK, NEW x \in Sessions, At(x) \in Orders, PayBack(x)
  PROVE  /\ \A o \in Orders : credits'[o] >= credits[o]
         /\ credits'[At(x)] > 0
BY PayBackFacts DEF TypeOK, TablesOK

LEMMA StepPaid ==
  TypeOK /\ TypeOK' /\ PlacedInv /\ PaidInv /\ [Next]_vars => PaidInv'
<1> SUFFICES ASSUME TypeOK, TypeOK', PlacedInv, PaidInv, [Next]_vars PROVE PaidInv'
  OBVIOUS
<1>1. /\ order \in [Orders -> Row] /\ credits \in [Orders -> Nat]
      /\ pc \in [Sessions -> Places] /\ snap \in [Sessions -> Row]
      /\ target \in [Requests -> Orders] /\ rec.set \in Outcomes
  BY DEF TypeOK, TablesOK, SessionsOK, LoopsOK
<1>2. Orders \subseteq Sessions /\ Requests \subseteq Sessions /\ Requests \cap Orders = {}
      /\ Batch \subseteq Orders
  BY RequestsAssumption, BatchAssumption DEF Sessions
<1>4. ASSUME NEW x \in Sessions, At(x) \in Orders, Apply(x), UNCHANGED <<snap, target, scripted>>,
             \A o \in Batch : pc'[o] = pc[o] \/ pc[o] = "watch.commit",
             snap[x].refunded => At(x) \in PaidRows
      PROVE  PaidInv'
  <2> DEFINE o == At(x)
  <2>1. \A p \in Orders : credits'[p] >= credits[p]
    BY <1>1, <1>4, PayBackPays DEF Apply, db
  <2>2. PaidRows \subseteq PaidRows'
    BY <1>4, <2>1, ApplyWrites, NoneForgotten
  <2>3. \A p \in Orders \ {o} : order'[p] = order[p]
    BY <1>1, <1>4 DEF Apply, db
  <2>4. CASE seen[x] = "fail"
    <3>1. o \in PaidRows'
      BY <1>4, <2>2, <2>4, PayBackPays DEF Apply, PaidRows, Paid
    <3> QED
      BY <1>4, <2>2, <2>3, <3>1, PaidKept DEF SeenRefunded
  <2>5. CASE seen[x] # "fail"
    <3>1. /\ order'[o].refunded = order[o].refunded
          /\ order'[o].status \in {"failed", "refunded"} => order[o].status \in {"failed", "refunded"}
      BY <1>1, <1>4, <2>5 DEF Apply, Column, db, Row
    <3> QED
      BY <1>4, <2>2, <2>3, <3>1, PaidKept DEF SeenRefunded
  <2> QED
    BY <2>4, <2>5
<1>5. ASSUME NEW o \in Orders, Handler(o) PROVE PaidInv'
  <2>0. UNCHANGED <<scripted, target>> /\ At(o) = o /\ o \in Sessions
    BY <1>2, <1>5 DEF Handler, loops, local, Confirm, Send, SendFails, Record, Answer,
       FailUser, FailOrder, FailCommit, BackUser, BackCommit, HandlerDies, At
  <2>1. \A p \in Orders : credits'[p] >= credits[p]
    BY <1>1, <1>5, <2>0, PayBackPays DEF Handler, db, Confirm, Send, SendFails, Record, Answer,
       FailUser, FailOrder, FailCommit, BackUser, BackCommit, HandlerDies
  <2>8. \A p \in Orders : order'[p].tid = order[p].tid \/ pc[p] = "record"
    BY <1>1, <1>5, <2>0 DEF Handler, db, Confirm, Send, SendFails, Record, Answer, FailUser,
       FailOrder, FailCommit, BackUser, BackCommit, HandlerDies, Go, Row
  <2>2. PaidRows \subseteq PaidRows'
    <3>1. CASE BackCommit(o)
      BY <1>1, <1>2, <2>0, <2>1, <2>8, <3>1, PayBackPays, NoneForgotten DEF BackCommit, Go, Goto
    <3>2. CASE ~ BackCommit(o)
      BY <1>1, <1>2, <1>5, <2>0, <2>1, <2>8, <3>2, NoneForgotten DEF Handler, Go, Goto, Confirm, Send,
         SendFails, Record, Answer, FailUser, FailOrder, FailCommit, BackUser, HandlerDies
    <3> QED
      BY <3>1, <3>2
  <2>3. SeenRefunded' \subseteq SeenRefunded \cup {p \in Orders : order[p].refunded}
    <3>1. CASE FailOrder(o)
      BY <1>1, <1>2, <2>0, <3>1 DEF FailOrder, ReadOrder, SeenRefunded
    <3>2. CASE ~ FailOrder(o)
      BY <1>5, <3>2 DEF Handler, local, Confirm, Send, SendFails, Record, Answer,
         FailUser, FailCommit, BackUser, BackCommit, HandlerDies, SeenRefunded
    <3> QED
      BY <3>1, <3>2
  <2>4. ASSUME NEW p \in Orders \ PaidRows'
        PROVE  /\ order'[p].status \in {"failed", "refunded"} =>
                    order[p].status \in {"failed", "refunded"}
               /\ order'[p].refunded => order[p].refunded
    <3>1. CASE UNCHANGED order
      BY <3>1
    <3>2. CASE Confirm(o)
      BY <1>1, <3>2 DEF Confirm, Row
    <3>3. CASE SendFails(o)
      <4>1. p # o \/ UNCHANGED order
        BY <1>1, <1>2, <2>0, <2>4, <3>3 DEF SendFails, Goto, PaidRows, Paid, PlacedInv, Unsaved,
           Row
      <4> QED
        BY <1>1, <3>3, <4>1 DEF SendFails
    <3>4. CASE Record(o)
      BY <1>1, <3>4 DEF Record, Row
    <3>5. CASE FailCommit(o)
      <4>1. p # o
        BY <2>0, <2>4, <3>5, PayBackPays DEF FailCommit, PaidRows, Paid
      <4> QED
        BY <1>1, <3>5, <4>1 DEF FailCommit
    <3> QED
      BY <1>5, <3>1, <3>2, <3>3, <3>4, <3>5 DEF Handler, db, Send, Answer,
         FailUser, FailOrder, BackUser, BackCommit, HandlerDies
  <2> QED
    BY <2>0, <2>2, <2>3, <2>4, PaidKept
<1>6. ASSUME NEW o \in Orders, Watcher(o) PROVE PaidInv'
  <2>0. UNCHANGED <<scripted, target>> /\ At(o) = o /\ o \in Sessions
    BY <1>2, <1>6 DEF Watcher, loops, local, Poll, WatchOrder, WatchUser, WatchCommit,
       WatchFails, At
  <2>1. CASE WatchCommit(o)
    <3>1. \A p \in Batch : pc'[p] = pc[p] \/ pc[p] = "watch.commit"
      BY <1>1, <1>2, <2>1 DEF WatchCommit, Go, Goto
    <3>2. snap[o].refunded => o \in PaidRows
      BY DEF PaidInv, SeenRefunded
    <3> QED
      BY <1>4, <2>0, <2>1, <3>1, <3>2 DEF WatchCommit, local
  <2>2. CASE ~ WatchCommit(o)
    <3>1. UNCHANGED <<order, credits>>
      BY <1>6, <2>2 DEF Watcher, db, Poll, WatchOrder, WatchUser, WatchFails
    <3>2. PaidRows \subseteq PaidRows'
      BY <1>1, <1>2, <1>6, <2>0, <2>2, <3>1, NoneForgotten DEF Watcher, Go, Goto, Poll, WatchOrder,
         WatchUser, WatchFails
    <3>3. SeenRefunded' \subseteq SeenRefunded \cup {p \in Orders : order[p].refunded}
      <4>1. CASE WatchOrder(o)
        BY <1>1, <1>2, <2>0, <4>1 DEF WatchOrder, ReadOrder, SeenRefunded
      <4>2. CASE ~ WatchOrder(o)
        BY <1>6, <2>2, <4>2 DEF Watcher, local, Poll, WatchUser, WatchFails, SeenRefunded
      <4> QED
        BY <4>1, <4>2
    <3> QED
      BY <2>0, <3>1, <3>2, <3>3, PaidKept
  <2> QED
    BY <2>1, <2>2
<1>7. ASSUME NEW r \in Requests, Admin(r) PROVE PaidInv'
  <2>0. /\ UNCHANGED scripted /\ At(r) = target[r] /\ r \in Sessions /\ target[r] \in Orders
        /\ r \notin Orders
    BY <1>1, <1>2, <1>7 DEF Admin, loops, RefundOrder, RefundUser, RefundCommit, RefreshOrder,
       RefreshAsk, RefreshUser, RefreshCommit, At
  <2>1. \A o \in Orders : pc'[o] = pc[o]
    BY <1>1, <1>2, <1>7, <2>0 DEF Admin, Go, Goto, RefundOrder, RefundUser,
       RefundCommit, RefreshOrder, RefreshAsk, RefreshUser, RefreshCommit
  <2>2. CASE RefreshCommit(r)
    <3>1. snap[r].refunded => target[r] \in PaidRows
      BY DEF PaidInv, SeenRefunded
    <3> QED
      BY <1>2, <1>4, <2>0, <2>1, <2>2, <3>1 DEF RefreshCommit, local
  <2>3. CASE RefundCommit(r)
    <3>1. PaidRows \subseteq PaidRows' /\ target[r] \in PaidRows'
      <4>1. \A o \in Orders : order'[o].tid = order[o].tid
        BY <1>1, <2>3 DEF RefundCommit, Row
      <4> QED
        BY <1>2, <2>0, <2>1, <2>3, <4>1, PayBackPays, NoneForgotten
        DEF RefundCommit, PaidRows, Paid
    <3>2. \A o \in Orders \ {target[r]} : order'[o] = order[o]
      BY <1>1, <2>3 DEF RefundCommit
    <3>3. SeenRefunded' = SeenRefunded
      BY <2>3 DEF RefundCommit, local, SeenRefunded
    <3> QED
      BY <2>0, <3>1, <3>2, <3>3, PaidKept
  <2>4. CASE ~ RefreshCommit(r) /\ ~ RefundCommit(r)
    <3>1. UNCHANGED <<order, credits>>
      BY <1>7, <2>4 DEF Admin, db, RefundOrder, RefundUser, RefreshOrder, RefreshAsk, RefreshUser
    <3>2. PaidRows \subseteq PaidRows'
      BY <1>1, <1>2, <2>0, <2>1, <3>1, NoneForgotten
    <3>3. SeenRefunded' \subseteq SeenRefunded \cup {p \in Orders : order[p].refunded}
      <4>1. CASE RefundOrder(r) \/ RefreshOrder(r)
        <5>1. PICK o \in Orders : /\ target' = [target EXCEPT ![r] = o]
                                  /\ snap' = [snap EXCEPT ![r] = order[o]]
          BY <4>1 DEF RefundOrder, RefreshOrder
        <5> QED
          BY <1>1, <1>2, <2>0, <5>1 DEF SeenRefunded
      <4>2. CASE ~ RefundOrder(r) /\ ~ RefreshOrder(r)
        BY <1>7, <2>4, <4>2 DEF Admin, local, RefundUser, RefreshAsk, RefreshUser, SeenRefunded
      <4> QED
        BY <4>1, <4>2
    <3> QED
      BY <2>0, <3>1, <3>2, <3>3, PaidKept
  <2> QED
    BY <2>2, <2>3, <2>4
<1>8. CASE RecCommit
  <2>1. UNCHANGED <<pc, snap, target, scripted>>
    BY <1>8 DEF RecCommit, local
  <2>6. \A o \in Orders : order'[o].tid = order[o].tid
    <3> SUFFICES ASSUME NEW o \in Orders PROVE order'[o].tid = order[o].tid
      OBVIOUS
    <3>1. order'[o] = CASE rec.set[o] = "keep" -> order[o]
        [] rec.set[o] = "completed" -> [order[o] EXCEPT !.status = "completed"]
        [] rec.set[o] = "failed" ->
             [order[o] EXCEPT !.status = "failed", !.refunded = TRUE]
      BY <1>8 DEF RecCommit
    <3>2. order[o] \in Row /\ rec.set[o] \in {"keep", "completed", "failed"}
      BY <1>1 DEF Outcomes
    <3> QED
      BY <3>1, <3>2 DEF Row
  <2>2. \A o \in Orders : /\ credits'[o] >= credits[o]
                          /\ rec.set[o] = "failed" => credits'[o] > 0
    <3> SUFFICES ASSUME NEW o \in Orders
                 PROVE  /\ credits'[o] >= credits[o]
                        /\ rec.set[o] = "failed" => credits'[o] > 0
      OBVIOUS
    <3>1. credits'[o] = IF rec.set[o] = "failed" THEN credits[o] + 1 ELSE credits[o]
      BY <1>8 DEF RecCommit
    <3>2. credits[o] \in Nat
      BY <1>1
    <3> QED
      BY <3>1, <3>2
  <2>3. PaidRows \subseteq PaidRows' /\ \A o \in Orders : rec.set[o] = "failed" => o \in PaidRows'
    BY <2>1, <2>2, <2>6, NoneForgotten DEF PaidRows, Paid
  <2>4. ASSUME NEW o \in Orders \ PaidRows'
        PROVE  /\ order'[o].status \in {"failed", "refunded"} =>
                    order[o].status \in {"failed", "refunded"}
               /\ order'[o].refunded => order[o].refunded
    <3>1. rec.set[o] \in {"keep", "completed"}
      BY <1>1, <2>3 DEF Outcomes
    <3>2. order'[o] = CASE rec.set[o] = "keep" -> order[o]
        [] rec.set[o] = "completed" -> [order[o] EXCEPT !.status = "completed"]
        [] rec.set[o] = "failed" ->
             [order[o] EXCEPT !.status = "failed", !.refunded = TRUE]
      BY <1>8 DEF RecCommit
    <3>3. order[o] \in Row
      BY <1>1
    <3> QED
      BY <3>1, <3>2, <3>3 DEF Row
  <2>5. SeenRefunded' = SeenRefunded
    BY <2>1 DEF SeenRefunded
  <2> QED
    BY <2>1, <2>3, <2>4, <2>5, PaidKept
<1>9. ASSUME UNCHANGED <<order, credits, snap, target, scripted>>,
             \A x \in Sessions : pc'[x] \in {pc[x], "dead"}
      PROVE  PaidInv'
  <2>1. PaidRows \subseteq PaidRows'
    BY <1>1, <1>2, <1>9, NoneForgotten
  <2>2. SeenRefunded' = SeenRefunded
    BY <1>9 DEF SeenRefunded
  <2> QED
    BY <1>9, <2>1, <2>2, PaidKept
<1>10. CASE RecAbort \/ RecBegin \/ \E o \in Orders : RecRow(o) \/ RecFetchFails(o)
  BY <1>9, <1>10 DEF RecAbort, RecBegin, RecRow, RecSkip, RecDone, RecRefund, RecFetchFails, db,
     local
<1>11. CASE Crash
  BY <1>9, <1>11 DEF Crash, db, local
<1>12. CASE Script
  <2>1. CASE ScriptCommit
    <3>1. /\ UNCHANGED <<credits, pc, snap, target>>
          /\ scripted' = scripted \cup {o \in Orders : script.set[o] = "failed"}
          /\ \A o \in Orders : order'[o].tid = order[o].tid
      BY <1>1, <2>1 DEF ScriptCommit, local, Row
    <3>2. PaidRows \subseteq PaidRows'
      BY <1>1, <1>2, <3>1, NoneForgotten
    <3>3. ASSUME NEW o \in Orders \ PaidRows'
          PROVE  /\ order'[o].status \in {"failed", "refunded"} =>
                      order[o].status \in {"failed", "refunded"}
                 /\ order'[o].refunded => order[o].refunded
      <4>1. script.set[o] \in {"keep", "completed"}
        BY <1>1, <3>1 DEF PaidRows, Paid, TypeOK, LoopsOK, Outcomes
      <4> QED
        BY <1>1, <2>1, <4>1 DEF ScriptCommit, Row
    <3>4. SeenRefunded' = SeenRefunded
      BY <3>1 DEF SeenRefunded
    <3> QED
      BY <3>2, <3>3, <3>4, PaidKept
  <2>2. CASE ~ ScriptCommit
    BY <1>9, <1>12, <2>2 DEF Script, ScriptBegin, ScriptAsk, db, local
  <2> QED
    BY <2>1, <2>2
<1>13. CASE ConfirmMass
  <2>1. UNCHANGED <<credits, snap, target, scripted>>
    BY <1>13 DEF ConfirmMass, local, loops
  <2>5. \A o \in Orders : order'[o].tid = order[o].tid
    BY <1>1, <1>13 DEF ConfirmMass, Row
  <2>2. PaidRows \subseteq PaidRows'
    BY <1>1, <1>2, <1>13, <2>1, <2>5, NoneForgotten DEF ConfirmMass
  <2>3. \A o \in Orders :
           /\ order'[o].status \in {"failed", "refunded"} =>
                order[o].status \in {"failed", "refunded"}
           /\ order'[o].refunded => order[o].refunded
    BY <1>1, <1>13 DEF ConfirmMass, Row
  <2>4. SeenRefunded' = SeenRefunded
    BY <2>1 DEF SeenRefunded
  <2> QED
    BY <2>1, <2>2, <2>3, <2>4, PaidKept
<1>14. CASE UNCHANGED vars \/ \E o \in Orders : RemoteSettles(o)
  BY <1>9, <1>14 DEF vars, RemoteSettles, db, local, loops
<1> QED
  BY <1>5, <1>6, <1>7, <1>8, <1>10, <1>11, <1>12, <1>13, <1>14 DEF Next, Reconciler

LEMMA PaidCorrect == Spec => []PaidInv
<1>1. Init => PaidInv
  <2> SUFFICES ASSUME Init PROVE PaidInv
    OBVIOUS
  <2>1. Orders \subseteq Sessions /\ Requests \subseteq Sessions
    BY DEF Sessions
  <2> QED
    BY <2>1 DEF Init, NoRow, PaidInv, SeenRefunded
<1> QED
  BY <1>1, StepPaid, TypeCorrect, PlacedCorrect, PTL DEF Spec

\* No step takes a row back.
LEMMA RowsStay ==
  ASSUME TypeOK, Next, NEW p \in Orders, order[p].status # "none"
  PROVE  order'[p].status # "none"
<1>1. /\ order \in [Orders -> Row] /\ rec.set \in Outcomes /\ script.set \in Outcomes
      /\ target \in [Requests -> Orders]
  BY DEF TypeOK, TablesOK, SessionsOK, LoopsOK
<1>2. CASE UNCHANGED order
  BY <1>2
<1>3. ASSUME NEW o \in Orders, Handler(o) PROVE order'[p].status # "none"
  BY <1>1, <1>3 DEF Handler, db, Confirm, Send, SendFails, Record, Answer, FailUser,
     FailOrder, FailCommit, BackUser, BackCommit, HandlerDies, Column, At, Row
<1>4. ASSUME NEW o \in Orders, WatchCommit(o) PROVE order'[p].status # "none"
  BY <1>4, ApplyWrites DEF WatchCommit, Sessions, At
<1>5. ASSUME NEW r \in Requests, RefreshCommit(r) PROVE order'[p].status # "none"
  BY <1>1, <1>5, ApplyWrites, RequestsAssumption DEF RefreshCommit, Sessions, At
<1>6. ASSUME NEW r \in Requests, RefundCommit(r) PROVE order'[p].status # "none"
  BY <1>1, <1>6 DEF RefundCommit, Row
<1>7. CASE RecCommit
  <2>1. order'[p] = CASE rec.set[p] = "keep" -> order[p]
        [] rec.set[p] = "completed" -> [order[p] EXCEPT !.status = "completed"]
        [] rec.set[p] = "failed" ->
             [order[p] EXCEPT !.status = "failed", !.refunded = TRUE]
    BY <1>7 DEF RecCommit
  <2>2. order[p] \in Row /\ rec.set[p] \in {"keep", "completed", "failed"}
    BY <1>1 DEF Outcomes
  <2> QED
    BY <2>1, <2>2 DEF Row
<1>8. CASE ScriptCommit
  <2>1. order[p] \in Row /\ script.set[p] \in {"keep", "completed", "failed"}
    BY <1>1 DEF Outcomes
  <2> QED
    BY <1>8, <2>1 DEF ScriptCommit, Row
<1>9. CASE ConfirmMass
  BY <1>1, <1>9 DEF ConfirmMass, Row
<1> QED
  BY <1>2, <1>3, <1>4, <1>5, <1>6, <1>7, <1>8, <1>9 DEF Next, Watcher, Admin, Reconciler, RecRow,
     Script, db, Poll, WatchOrder, WatchUser, WatchFails, RefundOrder, RefundUser,
     RefreshOrder, RefreshAsk, RefreshUser, RecBegin, RecSkip, RecDone, RecRefund,
     RecFetchFails, RecAbort, ScriptBegin, ScriptAsk, RemoteSettles, Crash

\* The orders of a user no refund was written for, and those the reconciler is about
\* to pay back.
Unpaid(u) == {o \in Orders : Owner[o] = u /\ order[o].status # "none" /\ credits[o] = 0}
Failing(u) == {o \in Orders : Owner[o] = u /\ rec.set[o] = "failed"}

\* Inductive: the balance, with what was written over, is what the user had less the
\* prices of his unpaid orders, and so is the balance the reconciler will write.
Covered(u) ==
  balance[u] + overwritten[u] >= InitBalance - Price * Cardinality(Unpaid(u))
Backed(u) ==
  u \in rec.users => rec.bal[u] >= balance[u] + Price * Cardinality(Failing(u))
LedgerInv ==
  /\ \A u \in Users : Covered(u) /\ Backed(u)
  /\ \A o \in Orders : rec.set[o] = "failed" => Owner[o] \in rec.users

\* The price of a set of orders, split.
LEMMA PriceOfUnion ==
  ASSUME NEW S \in SUBSET Orders, NEW T \in SUBSET Orders, NEW F \in SUBSET Orders,
         S \subseteq T \cup F
  PROVE  /\ Price * Cardinality(S) <= Price * Cardinality(T) + Price * Cardinality(F)
         /\ Price * Cardinality(S) \in Nat /\ Price * Cardinality(T) \in Nat
         /\ Price * Cardinality(F) \in Nat
<1>1. IsFiniteSet(S) /\ IsFiniteSet(T) /\ IsFiniteSet(F) /\ IsFiniteSet(T \cup F)
      /\ IsFiniteSet(T \cap F)
  BY BatchAssumption, FS_Subset, FS_Union
<1>2. /\ Cardinality(S) <= Cardinality(T \cup F)
      /\ Cardinality(T \cup F) = Cardinality(T) + Cardinality(F) - Cardinality(T \cap F)
  BY <1>1, FS_Subset, FS_Union
<1>3. PICK a \in Nat, b \in Nat, c \in Nat :
         a = Cardinality(S) /\ b = Cardinality(T) /\ c = Cardinality(F) /\ a <= b + c
  <2>1. /\ Cardinality(S) \in Nat /\ Cardinality(T) \in Nat /\ Cardinality(F) \in Nat
        /\ Cardinality(T \cap F) \in Nat /\ Cardinality(T \cup F) \in Nat
    BY <1>1, FS_CardinalityType
  <2> QED
    BY <1>2, <2>1
<1>4. PICK p \in Nat : p = Price
  BY BoundsAssumption
<1>5. p * a <= p * b + p * c /\ p * a \in Nat /\ p * b \in Nat /\ p * c \in Nat
  <2>0. b + c - a \in Nat /\ b + c = a + (b + c - a)
    BY <1>3
  <2>1. PICK d \in Nat : b + c = a + d
    BY <2>0
  <2>2. p * (b + c) = p * b + p * c /\ p * (a + d) = p * a + p * d /\ p * d >= 0
    OBVIOUS
  <2> QED
    BY <2>1, <2>2
<1> QED
  BY <1>3, <1>4, <1>5

\* A step that pays back the orders F of a user.
LEMMA CoveredKept ==
  ASSUME TypeOK, TypeOK', NEW u \in Users, Covered(u), NEW F \in SUBSET Orders,
         balance'[u] + overwritten'[u] >= balance[u] + overwritten[u] + Price * Cardinality(F),
         Unpaid(u) \subseteq Unpaid(u)' \cup F
  PROVE  Covered(u)'
<1>1. Unpaid(u) \subseteq Orders /\ Unpaid(u)' \subseteq Orders
  BY DEF Unpaid
<1>2. PICK a \in Nat, b \in Nat, f \in Nat :
        /\ a = Price * Cardinality(Unpaid(u)) /\ b = Price * Cardinality(Unpaid(u)')
        /\ f = Price * Cardinality(F) /\ a <= b + f
  BY <1>1, PriceOfUnion
<1>3. PICK x \in Int, y \in Int, k \in Int :
        /\ x = balance[u] + overwritten[u] /\ y = balance'[u] + overwritten'[u]
        /\ k = InitBalance
  BY BoundsAssumption DEF TypeOK, TablesOK
<1>4. x >= k - a /\ y >= x + f
  BY <1>2, <1>3 DEF Covered
<1>5. y >= k - b
  BY <1>2, <1>4
<1> QED
  BY <1>2, <1>3, <1>5 DEF Covered

\* A step in which the orders B of a user are confirmed.
LEMMA CoveredDebit ==
  ASSUME TypeOK, TypeOK', NEW u \in Users, Covered(u), NEW B \in SUBSET Orders,
         balance'[u] + overwritten'[u] = balance[u] + overwritten[u] - Price * Cardinality(B),
         Unpaid(u)' = Unpaid(u) \cup B, Unpaid(u) \cap B = {}
  PROVE  Covered(u)'
<1>1. Unpaid(u) \in SUBSET Orders /\ Unpaid(u)' \in SUBSET Orders
  BY DEF Unpaid
<1>2. IsFiniteSet(Unpaid(u)) /\ IsFiniteSet(B)
  BY <1>1, BatchAssumption, FS_Subset
<1>3. Cardinality(Unpaid(u)') = Cardinality(Unpaid(u)) + Cardinality(B)
  <2>1. Cardinality(Unpaid(u) \cup B) =
          Cardinality(Unpaid(u)) + Cardinality(B) - Cardinality(Unpaid(u) \cap B)
    BY <1>2, FS_Union
  <2>2. Cardinality(Unpaid(u) \cap B) = 0
    BY FS_EmptySet
  <2>3. Cardinality(Unpaid(u)) \in Nat /\ Cardinality(B) \in Nat
    BY <1>2, FS_CardinalityType
  <2>4. Cardinality(Unpaid(u) \cup B) = Cardinality(Unpaid(u)) + Cardinality(B)
    BY <2>1, <2>2, <2>3
  <2> QED
    BY <2>4
<1>4. PICK a \in Nat, b \in Nat, c \in Nat :
        /\ a = Cardinality(Unpaid(u)) /\ b = Cardinality(B)
        /\ c = Cardinality(Unpaid(u)') /\ c = a + b
  BY <1>2, <1>3, FS_CardinalityType
<1>5. PICK x \in Int, y \in Int, k \in Int, p \in Nat :
        /\ x = balance[u] + overwritten[u] /\ y = balance'[u] + overwritten'[u]
        /\ k = InitBalance /\ p = Price
  BY BoundsAssumption DEF TypeOK, TablesOK
<1>6. x >= k - p * a /\ y = x - p * b
  <2>1. Price * Cardinality(Unpaid(u)) = p * a /\ Price * Cardinality(B) = p * b
    BY <1>4, <1>5
  <2>2. x >= k - Price * Cardinality(Unpaid(u))
    BY <1>5 DEF Covered
  <2>3. y = x - Price * Cardinality(B)
    <3>1. PICK q \in Nat : q = Price * Cardinality(B)
      BY PriceOfUnion
    <3>2. /\ balance[u] \in Int /\ overwritten[u] \in Nat
          /\ balance'[u] \in Int /\ overwritten'[u] \in Nat
          /\ balance'[u] + overwritten'[u] = balance[u] + overwritten[u] - q
      BY <3>1 DEF TypeOK, TablesOK
    <3>3. y = x - q
      BY <1>5, <3>2
    <3> QED
      BY <3>1, <3>3
  <2> QED
    BY <2>1, <2>2, <2>3
<1>7. p * c = p * a + p * b
  BY <1>4
<1>8. y >= k - p * c
  BY <1>6, <1>7
<1> QED
  BY <1>4, <1>5, <1>8 DEF Covered

\* What the reconciler will write grows with the orders F it pays back.
LEMMA BackedKept ==
  ASSUME TypeOK, TypeOK', NEW u \in Users, u \in rec.users, Backed(u),
         NEW F \in SUBSET Orders, balance'[u] = balance[u],
         rec'.bal[u] >= rec.bal[u] + Price * Cardinality(F),
         Failing(u)' \subseteq Failing(u) \cup F
  PROVE  Backed(u)'
<1>1. Failing(u) \subseteq Orders /\ Failing(u)' \subseteq Orders
  BY DEF Failing
<1>2. PICK a \in Nat, b \in Nat, f \in Nat :
        /\ a = Price * Cardinality(Failing(u)') /\ b = Price * Cardinality(Failing(u))
        /\ f = Price * Cardinality(F) /\ a <= b + f
  BY <1>1, PriceOfUnion
<1>3. PICK x \in Int, y \in Int, k \in Int :
        x = rec.bal[u] /\ y = rec'.bal[u] /\ k = balance[u]
  BY DEF TypeOK, TablesOK, LoopsOK
<1>4. x >= k + b /\ y >= x + f
  BY <1>2, <1>3 DEF Backed
<1>5. y >= k + a
  BY <1>2, <1>4
<1> QED
  BY <1>2, <1>3, <1>5 DEF Backed

LEMMA PriceOfOne ==
  /\ \A o \in Orders : Price * Cardinality({o}) = Price
  /\ Price * Cardinality({}) = 0
<1>1. ASSUME NEW o \in Orders PROVE Price * Cardinality({o}) = Price
  <2>1. Cardinality({o}) = 1
    BY FS_Singleton
  <2> QED
    BY <2>1, BoundsAssumption
<1>2. Cardinality({}) = 0
  BY FS_EmptySet
<1> QED
  BY <1>1, <1>2, BoundsAssumption

LEMMA StepLedger ==
  TypeOK /\ TypeOK' /\ LockInv /\ PlacedInv /\ LedgerInv /\ [Next]_vars => LedgerInv'
<1> SUFFICES ASSUME TypeOK, TypeOK', LockInv, PlacedInv, LedgerInv, [Next]_vars
             PROVE  LedgerInv'
  OBVIOUS
<1>1. /\ order \in [Orders -> Row] /\ target \in [Requests -> Orders]
      /\ balance \in [Users -> Int] /\ overwritten \in [Users -> Nat]
      /\ credits \in [Orders -> Nat]
      /\ rec \in [on : BOOLEAN, rows : SUBSET Orders, todo : SUBSET Orders,
                  users : SUBSET Users, bal : [Users -> Int], set : Outcomes]
      /\ rec.set \in Outcomes /\ Price \in Nat
  BY BoundsAssumption DEF TypeOK, TablesOK, SessionsOK, LoopsOK
<1>2. Orders \subseteq Sessions /\ Requests \subseteq Sessions /\ Requests \cap Orders = {}
      /\ Batch \subseteq Orders /\ Owner \in [Orders -> Users] /\ Orders # {}
  BY RequestsAssumption, BatchAssumption, OwnerAssumption DEF Sessions
<1>3. Price * Cardinality({}) = 0
  BY <1>2, PriceOfOne
<1>4. Next => \A p \in Orders : order[p].status # "none" => order'[p].status # "none"
  BY RowsStay
\* The steps that leave a user's balance alone, and the reconciler's.
<1>5. ASSUME Next, NEW u \in Users, balance'[u] = balance[u], overwritten'[u] = overwritten[u],
             \A o \in Orders : Owner[o] = u => credits'[o] = credits[o]
      PROVE  Covered(u)'
  <2>1. Unpaid(u) \subseteq Unpaid(u)' \cup {}
    BY <1>4, <1>5 DEF Unpaid
  <2>2. Covered(u)
    BY DEF LedgerInv
  <2>3. balance'[u] + overwritten'[u] >= balance[u] + overwritten[u] + Price * Cardinality({})
    BY <1>1, <1>3, <1>5
  <2> QED
    BY <2>1, <2>2, <2>3, CoveredKept
<1>6. ASSUME UNCHANGED rec, NEW u \in Users, u \notin rec.users \/ balance'[u] = balance[u]
      PROVE  Backed(u)'
  BY <1>6 DEF LedgerInv, Backed, Failing
<1>7. ASSUME UNCHANGED rec
      PROVE  \A o \in Orders : rec'.set[o] = "failed" => Owner[o] \in rec'.users
  BY <1>7 DEF LedgerInv
<1>8. ASSUME rec' = Idle
      PROVE  /\ \A u \in Users : Backed(u)'
             /\ \A o \in Orders : rec'.set[o] = "failed" => Owner[o] \in rec'.users
  BY <1>8 DEF Idle, Backed
<1>9. ASSUME Next, UNCHANGED <<balance, overwritten, credits, rec>>
      PROVE  LedgerInv'
  BY <1>5, <1>6, <1>7, <1>9 DEF LedgerInv
<1>10. ASSUME Next, NEW x \in Sessions, At(x) \in Orders, PayBack(x), UNCHANGED rec
       PROVE  LedgerInv'
  <2>0. PICK o \in Orders, v \in Users : o = At(x) /\ v = Owner[o]
    BY <1>2, <1>10
  <2>p. /\ v \notin rec.users
        /\ \A u \in Users : u # v => balance'[u] = balance[u] /\ overwritten'[u] = overwritten[u]
        /\ balance'[v] + overwritten'[v] >= balance[v] + overwritten[v] + Price
        /\ \A p \in Orders : p # o => credits'[p] = credits[p]
    BY <1>10, <2>0, PayBackFacts DEF UserFree
  <2>1. v \in Users /\ v \notin rec.users
    BY <2>p
  <2>2. ASSUME NEW u \in Users, u # v PROVE Covered(u)' /\ Backed(u)'
    <3>1. /\ balance'[u] = balance[u] /\ overwritten'[u] = overwritten[u]
          /\ \A p \in Orders : Owner[p] = u => credits'[p] = credits[p]
      BY <2>0, <2>2, <2>p
    <3> QED
      BY <1>5, <1>6, <1>10, <3>1
  <2>3. Covered(v)'
    <3>1. Unpaid(v) \subseteq Unpaid(v)' \cup {o}
      BY <1>4, <1>10, <2>p DEF Unpaid
    <3>2. balance'[v] + overwritten'[v] >= balance[v] + overwritten[v] + Price * Cardinality({o})
      BY <2>p, PriceOfOne
    <3>3. Covered(v)
      BY <2>1 DEF LedgerInv
    <3> QED
      BY <1>10, <2>1, <3>1, <3>2, <3>3, CoveredKept
  <2>4. Backed(v)'
    BY <1>6, <1>10, <2>1
  <2> QED
    BY <1>7, <1>10, <2>2, <2>3, <2>4 DEF LedgerInv
<1>11. ASSUME Next, NEW x \in Sessions, At(x) \in Orders, Apply(x), UNCHANGED rec
       PROVE  LedgerInv'
  <2>1. PayBack(x) \/ UNCHANGED <<balance, overwritten, credits>>
    BY <1>11 DEF Apply, db
  <2> QED
    BY <1>9, <1>10, <1>11, <2>1
\* A debit of the price of the orders B of one user.
<1>12. ASSUME Next, NEW B \in SUBSET Orders, NEW v \in Users, UserFree(v),
              \A o \in B : Owner[o] = v /\ pc[o] = "idle" /\ order'[o].status = "pending",
              \A o \in Orders \ B : order'[o] = order[o],
              balance' = [balance EXCEPT ![v] = @ - Price * Cardinality(B)],
              UNCHANGED <<credits, overwritten, rec>>
       PROVE  LedgerInv'
  <2>1. ASSUME NEW u \in Users, u # v PROVE Covered(u)' /\ Backed(u)'
    <3>1. balance'[u] = balance[u]
      BY <1>1, <1>12, <2>1
    <3> QED
      BY <1>5, <1>6, <1>12, <3>1
  <2>2. Covered(v)'
    <3>1. \A o \in B : order[o].status = "none" /\ credits[o] = 0
      BY <1>12 DEF PlacedInv
    <3>2. Unpaid(v)' = Unpaid(v) \cup B /\ Unpaid(v) \cap B = {}
      BY <1>12, <3>1 DEF Unpaid
    <3>3. balance'[v] + overwritten'[v] = balance[v] + overwritten[v] - Price * Cardinality(B)
      <4>1. PICK t \in Nat : t = Price * Cardinality(B)
        BY PriceOfUnion
      <4> QED
        BY <1>1, <1>12, <4>1
    <3>4. Covered(v)
      BY DEF LedgerInv
    <3> QED
      BY <3>2, <3>3, <3>4, CoveredDebit
  <2>3. Backed(v)'
    BY <1>6, <1>12 DEF UserFree
  <2> QED
    BY <1>7, <1>12, <2>1, <2>2, <2>3 DEF LedgerInv
<1>13. ASSUME NEW o \in Orders, Handler(o) PROVE LedgerInv'
  <2>0. At(o) = o /\ o \in Sessions /\ Next /\ UNCHANGED rec
    BY <1>2, <1>13 DEF Next, At, Handler, loops, Confirm, Send, SendFails, Record, Answer,
       FailUser, FailOrder, FailCommit, BackUser, BackCommit, HandlerDies
  <2>1. CASE FailCommit(o) \/ BackCommit(o)
    BY <1>10, <2>0, <2>1 DEF FailCommit, BackCommit
  <2>2. CASE Confirm(o)
    <3>1. Price * Cardinality({o}) = Price /\ Owner[o] \in Users
      BY <1>2, PriceOfOne
    <3>2. /\ UserFree(Owner[o]) /\ pc[o] = "idle" /\ order'[o].status = "pending"
          /\ \A p \in Orders \ {o} : order'[p] = order[p]
          /\ balance' = [balance EXCEPT ![Owner[o]] = @ - Price]
          /\ UNCHANGED <<credits, overwritten, rec>>
      BY <1>1, <2>2 DEF Confirm, Go, Row, loops
    <3>3. balance' = [balance EXCEPT ![Owner[o]] = @ - Price * Cardinality({o})]
      BY <3>1, <3>2
    <3>4. PICK v \in Users : v = Owner[o]
      BY <3>1
    <3>5. PICK B \in SUBSET Orders : B = {o}
      OBVIOUS
    <3>6. /\ \A p \in B : Owner[p] = v /\ pc[p] = "idle" /\ order'[p].status = "pending"
          /\ \A p \in Orders \ B : order'[p] = order[p]
          /\ balance' = [balance EXCEPT ![v] = @ - Price * Cardinality(B)]
          /\ UserFree(v)
      BY <3>2, <3>3, <3>4, <3>5
    <3> QED
      BY <1>12, <2>0, <3>2, <3>6
  <2>3. CASE ~ FailCommit(o) /\ ~ BackCommit(o) /\ ~ Confirm(o)
    BY <1>9, <1>13, <2>0, <2>3 DEF Handler, db, loops, Send, SendFails, Record, Answer,
       FailUser, FailOrder, BackUser, HandlerDies
  <2> QED
    BY <2>1, <2>2, <2>3
<1>14. ASSUME NEW o \in Orders, Watcher(o) PROVE LedgerInv'
  <2>0. At(o) = o /\ o \in Sessions /\ Next /\ UNCHANGED rec
    BY <1>2, <1>14 DEF Next, At, Watcher, loops, Poll, WatchOrder, WatchUser, WatchCommit, WatchFails
  <2>1. CASE WatchCommit(o)
    BY <1>11, <2>0, <2>1 DEF WatchCommit
  <2>2. CASE ~ WatchCommit(o)
    BY <1>9, <1>14, <2>0, <2>2 DEF Watcher, db, Poll, WatchOrder, WatchUser, WatchFails
  <2> QED
    BY <2>1, <2>2
<1>15. ASSUME NEW r \in Requests, Admin(r) PROVE LedgerInv'
  <2>0. At(r) \in Orders /\ r \in Sessions /\ Next /\ UNCHANGED rec
    BY <1>1, <1>2, <1>15 DEF Next, At, Admin, loops, RefundOrder, RefundUser, RefundCommit,
       RefreshOrder, RefreshAsk, RefreshUser, RefreshCommit
  <2>1. CASE RefundCommit(r)
    BY <1>10, <2>0, <2>1 DEF RefundCommit
  <2>2. CASE RefreshCommit(r)
    BY <1>11, <2>0, <2>2 DEF RefreshCommit
  <2>3. CASE ~ RefundCommit(r) /\ ~ RefreshCommit(r)
    BY <1>9, <1>15, <2>0, <2>3 DEF Admin, db, RefundOrder, RefundUser, RefreshOrder,
       RefreshAsk, RefreshUser
  <2> QED
    BY <2>1, <2>2, <2>3
<1>16. CASE RecCommit
  <2>1. Next /\ rec' = Idle /\ UNCHANGED overwritten
    BY <1>16 DEF Next, Reconciler, RecCommit
  <2>2. ASSUME NEW u \in Users PROVE Covered(u)'
    <3>0. Covered(u) /\ Backed(u) /\ Failing(u) \in SUBSET Orders
      BY DEF LedgerInv, Failing
    <3>1. CASE u \in rec.users
      <4>1. balance'[u] = rec.bal[u]
        BY <1>16, <3>1 DEF RecCommit
      <4>2. Unpaid(u) \subseteq Unpaid(u)' \cup Failing(u)
        <5> SUFFICES ASSUME NEW o \in Unpaid(u), o \notin Failing(u) PROVE o \in Unpaid(u)'
          OBVIOUS
        <5>1. o \in Orders /\ order[o].status # "none" /\ Owner[o] = u /\ credits[o] = 0
              /\ rec.set[o] # "failed"
          BY DEF Unpaid, Failing
        <5>2. credits'[o] = IF rec.set[o] = "failed" THEN credits[o] + 1 ELSE credits[o]
          BY <1>16, <5>1 DEF RecCommit
        <5>3. credits'[o] = 0
          BY <5>1, <5>2
        <5>4. order'[o].status # "none"
          BY <1>4, <2>1, <5>1
        <5> QED
          BY <5>1, <5>3, <5>4 DEF Unpaid
      <4>3. balance'[u] + overwritten'[u] >=
              balance[u] + overwritten[u] + Price * Cardinality(Failing(u))
        <5>1. PICK t \in Nat : t = Price * Cardinality(Failing(u))
          BY <3>0, PriceOfUnion
        <5>2. PICK b \in Int : b = rec.bal[u]
          BY <1>1
        <5>3. b >= balance[u] + t
          BY <3>0, <3>1, <5>1, <5>2 DEF Backed
        <5>4. balance'[u] + overwritten'[u] >= balance[u] + overwritten[u] + t
          BY <1>1, <2>1, <4>1, <5>2, <5>3
        <5> QED
          BY <5>1, <5>4
      <4> QED
        BY <3>0, <4>2, <4>3, CoveredKept
    <3>2. CASE u \notin rec.users
      <4>1. balance'[u] = balance[u]
        BY <1>16, <3>2 DEF RecCommit
      <4>2. \A o \in Orders : Owner[o] = u => credits'[o] = credits[o]
        BY <1>16, <3>2 DEF RecCommit, LedgerInv
      <4> QED
        BY <1>5, <2>1, <4>1, <4>2
    <3> QED
      BY <3>1, <3>2
  <2> QED
    BY <1>8, <2>1, <2>2 DEF LedgerInv
<1>17. ASSUME NEW o \in Orders, RecRow(o) \/ RecFetchFails(o) PROVE LedgerInv'
  <2>0. Next /\ UNCHANGED <<balance, overwritten, credits>>
    BY <1>17 DEF Next, Reconciler, RecRow, RecSkip, RecDone, RecRefund, RecFetchFails, db
  <2>1. \A u \in Users : Covered(u)'
    BY <1>5, <2>0
  <2>2. CASE RecSkip(o) \/ RecFetchFails(o)
    <3>1. rec'.set = rec.set /\ rec'.users = rec.users /\ rec'.bal = rec.bal
      BY <1>1, <2>2 DEF RecSkip, RecFetchFails
    <3> QED
      BY <2>0, <2>1, <3>1 DEF LedgerInv, Backed, Failing
  <2>3. CASE RecDone(o)
    <3>1. /\ rec'.users = rec.users /\ rec'.bal = rec.bal
          /\ \A p \in Orders : rec'.set[p] = "failed" => rec.set[p] = "failed"
      BY <1>1, <2>3 DEF RecDone, Outcomes
    <3>2. ASSUME NEW u \in Users PROVE Backed(u)'
      <4>1. CASE u \in rec.users
        <5>1. Failing(u)' \subseteq Failing(u) \cup {} /\ Backed(u)
          BY <3>1 DEF Failing, LedgerInv
        <5>2. rec'.bal[u] >= rec.bal[u] + Price * Cardinality({})
          BY <1>1, <1>3, <3>1
        <5> QED
          BY <2>0, <4>1, <5>1, <5>2, BackedKept
      <4>2. CASE u \notin rec.users
        BY <3>1, <4>2 DEF Backed
      <4> QED
        BY <4>1, <4>2
    <3> QED
      BY <2>1, <3>1, <3>2 DEF LedgerInv
  <2>4. CASE RecRefund(o)
    <3> DEFINE v == Owner[o]
    <3>1. /\ rec'.users = rec.users \cup {v}
          /\ \A u \in Users : u # v => rec'.bal[u] = rec.bal[u]
          /\ rec'.bal[v] = (IF v \in rec.users THEN rec.bal[v] ELSE balance[v]) + Price
          /\ \A p \in Orders : p # o => rec'.set[p] = rec.set[p]
          /\ v \in Users
      BY <1>1, <1>2, <2>4 DEF RecRefund, Outcomes
    <3>2. Price * Cardinality({o}) = Price
      BY PriceOfOne
    <3>3. ASSUME NEW u \in Users, u # v PROVE Backed(u)'
      <4>1. Failing(u)' = Failing(u) /\ Backed(u) /\ (u \in rec'.users <=> u \in rec.users)
        BY <3>1, <3>3 DEF Failing, LedgerInv
      <4>2. rec'.bal[u] = rec.bal[u]
        BY <3>1, <3>3
      <4> HIDE DEF v
      <4> QED
        BY <2>0, <4>1, <4>2 DEF Backed
    <3>4. Backed(v)'
      <4>1. CASE v \in rec.users
        <5>1. Failing(v)' \subseteq Failing(v) \cup {o} /\ Backed(v)
          BY <3>1 DEF Failing, LedgerInv
        <5>2. rec'.bal[v] >= rec.bal[v] + Price * Cardinality({o})
          BY <1>1, <3>1, <3>2, <4>1
        <5> HIDE DEF v
        <5> QED
          BY <2>0, <3>1, <4>1, <5>1, <5>2, BackedKept
      <4>2. CASE v \notin rec.users
        <5>1. Failing(v) = {}
          BY <4>2 DEF Failing, LedgerInv
        <5>2. Failing(v)' \subseteq {o} \cup {} /\ Failing(v)' \in SUBSET Orders
          BY <3>1, <5>1 DEF Failing
        <5>3. PICK t \in Nat : t = Price * Cardinality(Failing(v)') /\ t <= Price
          BY <1>1, <1>3, <3>2, <5>2, PriceOfUnion
        <5>4. rec'.bal[v] = balance[v] + Price
          BY <3>1, <4>2
        <5>5. rec'.bal[v] >= balance'[v] + t
          BY <1>1, <2>0, <3>1, <5>3, <5>4
        <5> QED
          BY <5>3, <5>5 DEF Backed
      <4> QED
        BY <4>1, <4>2
    <3>5. \A p \in Orders : rec'.set[p] = "failed" => Owner[p] \in rec'.users
      BY <3>1 DEF LedgerInv
    <3> QED
      BY <2>1, <3>3, <3>4, <3>5 DEF LedgerInv
  <2> QED
    BY <1>17, <2>2, <2>3, <2>4 DEF RecRow
<1>18. CASE RecBegin
  <2>1. /\ Next /\ UNCHANGED <<balance, overwritten, credits>>
        /\ rec'.users = {} /\ \A o \in Orders : rec'.set[o] = "keep"
    BY <1>18 DEF Next, Reconciler, RecBegin, Idle, db
  <2> QED
    BY <1>5, <2>1 DEF LedgerInv, Backed
<1>19. CASE RecAbort \/ Crash
  <2>1. /\ Next /\ UNCHANGED <<balance, overwritten, credits>> /\ rec' = Idle
    BY <1>19 DEF Next, RecAbort, Crash, db
  <2> QED
    BY <1>5, <1>8, <2>1 DEF LedgerInv
<1>20. CASE Script \/ \E o \in Orders : RemoteSettles(o)
  <2>1. Next /\ UNCHANGED <<balance, overwritten, credits, rec>>
    BY <1>20 DEF Next, Script, ScriptBegin, ScriptAsk, ScriptCommit, RemoteSettles, db, loops
  <2> QED
    BY <1>9, <2>1
<1>21. CASE ConfirmMass
  <2>1. PICK u \in {Owner[o] : o \in Batch} :
          UserFree(u) /\ balance' = [balance EXCEPT ![u] = @ - Price * Cardinality(Batch)]
    BY <1>21 DEF ConfirmMass
  <2>2. PICK v \in Users : v = u /\ \A o \in Batch : Owner[o] = v
    BY <1>2, BatchAssumption
  <2>3. /\ Next /\ UNCHANGED <<credits, overwritten, rec>>
        /\ \A o \in Batch : pc[o] = "idle"
        /\ \A o \in Batch : order'[o].status = "pending"
        /\ \A o \in Orders \ Batch : order'[o] = order[o]
    <3>1. \A o \in Orders : order'[o] = IF o \in Batch
                   THEN [order[o] EXCEPT !.status = "pending"] ELSE order[o]
      BY <1>21 DEF ConfirmMass
    <3>2. \A o \in Batch : order'[o].status = "pending"
      <4>1. \A w \in Row : [w EXCEPT !.status = "pending"].status = "pending"
        BY DEF Row
      <4> QED
        BY <1>1, <1>2, <3>1, <4>1, Zenon
    <3>3. \A o \in Orders \ Batch : order'[o] = order[o]
      BY <3>1
    <3> QED
      BY <1>21, <3>2, <3>3 DEF Next, ConfirmMass, loops
  <2>4. /\ UserFree(v) /\ Batch \in SUBSET Orders
        /\ balance' = [balance EXCEPT ![v] = @ - Price * Cardinality(Batch)]
        /\ \A o \in Batch : Owner[o] = v /\ pc[o] = "idle" /\ order'[o].status = "pending"
    BY <1>2, <2>1, <2>2, <2>3
  <2> QED
    BY <1>12, <2>3, <2>4
<1>22. CASE UNCHANGED vars
  <2>1. UNCHANGED <<balance, overwritten, credits, rec, order>>
    BY <1>22 DEF vars
  <2> QED
    BY <2>1 DEF LedgerInv, Covered, Unpaid, Backed, Failing
<1> QED
  BY <1>13, <1>14, <1>15, <1>16, <1>17, <1>18, <1>19, <1>20, <1>21, <1>22
  DEF Next, Reconciler

LEMMA LedgerCorrect == Spec => []LedgerInv
<1>1. Init => LedgerInv
  <2> SUFFICES ASSUME Init PROVE LedgerInv
    OBVIOUS
  <2>1. ASSUME NEW u \in Users PROVE Covered(u)
    <3>1. Unpaid(u) = {}
      BY <2>1 DEF Init, NoRow, Unpaid
    <3>2. Price * Cardinality(Unpaid(u)) = 0
      BY <3>1, BatchAssumption, PriceOfOne
    <3> QED
      BY <2>1, <3>2, BoundsAssumption DEF Init, Covered
  <2> QED
    BY <2>1 DEF Init, Idle, LedgerInv, Backed
<1> QED
  BY <1>1, StepLedger, TypeCorrect, LockCorrect, PlacedCorrect, PTL DEF Spec

\* In every behaviour, with any number of orders, requests, faults and runs of the
\* script: a balance is what the user had less the prices of the orders the bot may
\* keep, but for what refunds computed from an older balance wrote over.
THEOREM MoneyComesBack == Spec => []FailedMoneyReturns
<1>1. TypeOK /\ PaidInv /\ LedgerInv => FailedMoneyReturns
  <2> SUFFICES ASSUME TypeOK, PaidInv, LedgerInv, NEW u \in Users
               PROVE  balance[u] + overwritten[u] >= InitBalance - Price * Cardinality(Kept(u))
    BY DEF FailedMoneyReturns
  <2>1. Unpaid(u) \subseteq Kept(u) \cup {} /\ Unpaid(u) \in SUBSET Orders
        /\ Kept(u) \in SUBSET Orders
    <3>1. ASSUME NEW o \in Unpaid(u) PROVE MayKeep(o)
      <4>1. o \in Orders /\ credits[o] = 0 /\ order[o].status # "none"
        BY DEF Unpaid
      <4>2. CASE order[o].status \in {"failed", "refunded"} \/ order[o].refunded
        <5>1. Paid(o)
          BY <4>1, <4>2 DEF PaidInv, PaidRows
        <5> QED
          BY <4>1, <5>1 DEF Paid, MayKeep
      <4> QED
        BY <4>1, <4>2 DEF MayKeep
    <3> QED
      BY <3>1 DEF Unpaid, Kept
  <2>2. PICK a \in Nat, b \in Nat :
          /\ a = Price * Cardinality(Unpaid(u)) /\ b = Price * Cardinality(Kept(u)) /\ a <= b
    <3>1. /\ Price * Cardinality(Unpaid(u)) <=
               Price * Cardinality(Kept(u)) + Price * Cardinality({})
          /\ Price * Cardinality(Unpaid(u)) \in Nat /\ Price * Cardinality(Kept(u)) \in Nat
      BY <2>1, PriceOfUnion
    <3> QED
      BY <3>1, PriceOfOne
  <2>3. PICK x \in Int, k \in Int : x = balance[u] + overwritten[u] /\ k = InitBalance
    BY BoundsAssumption DEF TypeOK, TablesOK
  <2>4. x >= k - a
    BY <2>2, <2>3 DEF LedgerInv, Covered
  <2>5. x >= k - b
    BY <2>2, <2>4
  <2> QED
    BY <2>2, <2>3, <2>5
<1> QED
  BY <1>1, TypeCorrect, PaidCorrect, LedgerCorrect, PTL

=============================================================================
