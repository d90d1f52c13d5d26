---------------------------- MODULE DepositsProofs ----------------------------
(***************************************************************************)
(* Theorems about Deposits: the status of a payment and the money agree,   *)
(* and a paid invoice is credited once, and once more at most for each     *)
(* delivery of its webhook that overlaps another one.                      *)
(***************************************************************************)
EXTENDS Deposits, FiniteSetTheorems, TLAPS

-----------------------------------------------------------------------------
(* Types *)

\* Min of a number and a bound, which the clamp of the percentage is made of.
LEMMA MinOfTwo == \A x, y \in Int : Min({x, y}) \in {x, y}
<1> TAKE x, y \in Int
<1>1. \E z \in {x, y} : \A w \in {x, y} : z =< w
  <2>1. CASE x <= y
    BY <2>1
  <2>2. CASE ~ x <= y
    BY <2>2
  <2> QED BY <2>1, <2>2
<1> QED BY <1>1 DEF Min

\* Likewise Max.
LEMMA MaxOfTwo == \A x, y \in Int : Max({x, y}) \in {x, y}
<1> TAKE x, y \in Int
<1>1. \E z \in {x, y} : \A w \in {x, y} : z >= w
  <2>1. CASE x >= y
    BY <2>1
  <2>2. CASE ~ x >= y
    BY <2>2
  <2> QED BY <2>1, <2>2
<1> QED BY <1>1 DEF Max

\* What a payment adds to a balance is a number.
LEMMA CreditedTypes ==
  ASSUME balance \in [Users -> Int], NEW p \in Payments
  PROVE Credited(p) \in [Users -> Int]
<1>1. Clamp(Percent) \in Int
  BY MinOfTwo, MaxOfTwo, BoundsAssumption DEF Clamp
<1>2. Amount[p] \in Int
  BY PaymentsAssumption
<1>3. Bonus(p) \in Int
  BY <1>1, <1>2 DEF Bonus
<1> QED BY <1>2, <1>3 DEF Credited

\* A payment is processed or it is not.
LEMMA ProcessTypes ==
  ASSUME TypeOK, NEW p \in Payments, NEW decimal, ProcessPayment(p, decimal)
  PROVE /\ balance' \in [Users -> Int] /\ payment' \in [Payments -> Statuses]
        /\ earnings' \subseteq Payments /\ credits' \in [Payments -> Nat]
<1>1. CASE UNCHANGED tables
  BY <1>1 DEF tables, TypeOK
<1>2. CASE CreditPayment(p)
  BY <1>2, CreditedTypes DEF CreditPayment, TypeOK, Statuses
<1> QED BY <1>1, <1>2 DEF ProcessPayment

HookSet == [at : {"idle", "user", "commit"}, bal : Int]
CheckSet == [at : {"idle", "ask", "confirmed", "canceled"}, row : Statuses]
AdjustSet == [at : {"idle", "commit", "done"}, bal : Int]
RecSet == [todo : SUBSET Crypto, at : Crypto \cup {Null}, step : {"idle", "pay", "mark", "fail"}]
TableTypes ==
  /\ balance \in [Users -> Int] /\ payment \in [Payments -> Statuses]
  /\ earnings \subseteq Payments /\ credits \in [Payments -> Nat]

\* The deposits begin with their types.
LEMMA InitTypes == Init => TypeOK
  BY BoundsAssumption DEF Init, TypeOK, Idle, Answered, Statuses, States

\* The gateway knows every invoice that a session asks about.
Known ==
  /\ \A p \in Payments : payment[p] # "none" => invoice[p] # "none"
  /\ \A c \in Checks : check[c].at # "idle" => invoice[CheckOf[c]] # "none"
  /\ \A p \in rec.todo : invoice[p] # "none"

\* Every step keeps the types.
LEMMA StepTypes == TypeOK /\ Known /\ [Next]_vars => TypeOK'
<1> SUFFICES ASSUME TypeOK, Known, [Next]_vars PROVE TypeOK'
  OBVIOUS
<1> USE PaymentsAssumption, RequestsAssumption, BoundsAssumption DEF Payments
<1>0. /\ TableTypes /\ invoice \in [Payments -> States] /\ aged \subseteq Payments
      /\ hook \in [Hooks -> HookSet] /\ check \in [Checks -> CheckSet]
      /\ adjust \in [Adjusts -> AdjustSet] /\ rec \in RecSet
      /\ rec.step # "idle" => rec.at \in Crypto
      /\ faults \in 0..MaxFaults
  BY DEF TypeOK, TableTypes, HookSet, CheckSet, AdjustSet, RecSet
<1>s. ASSUME TableTypes', invoice' \in [Payments -> States], aged' \subseteq Payments,
             hook' \in [Hooks -> HookSet], check' \in [Checks -> CheckSet],
             adjust' \in [Adjusts -> AdjustSet], rec' \in RecSet,
             rec'.step # "idle" => rec'.at \in Crypto, faults' \in 0..MaxFaults,
             overlaps' = overlaps
      PROVE TypeOK'
  BY <1>s DEF TypeOK, TableTypes, HookSet, CheckSet, AdjustSet, RecSet
<1>t. UNCHANGED tables => TableTypes'
  BY <1>0 DEF TableTypes, tables
<1>f. Fault => faults' \in 0..MaxFaults
  BY <1>0 DEF Fault
<1>1. ASSUME NEW p \in Payments, Open(p) \/ Settle(p) \/ Age(p) PROVE TypeOK'
  <2>1. CASE Open(p)
    <3>1. TableTypes' /\ invoice' \in [Payments -> States]
      BY <1>0, <2>1 DEF Open, TableTypes, Statuses, States
    <3> QED BY <1>0, <1>s, <2>1, <3>1 DEF Open
  <2>2. CASE Settle(p)
    <3>1. invoice' \in [Payments -> States]
      BY <1>0, <2>2 DEF Settle, States
    <3> QED BY <1>0, <1>s, <1>t, <2>2, <3>1 DEF Settle
  <2>3. CASE Age(p)
    BY <1>0, <1>s, <1>t, <2>3 DEF Age
  <2> QED BY <1>1, <2>1, <2>2, <2>3
<1>2. ASSUME NEW h \in Hooks, Hook(h) \/ HookFails(h) PROVE TypeOK'
  <2> DEFINE p == HookOf[h]
  <2>p. p \in Payments /\ Owner[p] \in Users /\ Amount[p] \in Int
    OBVIOUS
  <2>b. balance[Owner[p]] \in Int
    BY <1>0, <2>p DEF TableTypes
  <2>h. hook' \in [Hooks -> HookSet]
    <3>1. CASE HookRead(h)
      BY <1>0, <3>1 DEF HookRead, HookSet
    <3>2. CASE HookUser(h)
      <4> DEFINE k == [hook[h] EXCEPT !.at = "commit", !.bal = balance[Owner[p]]]
      <4>1. hook[h] \in HookSet
        BY <1>0
      <4>2. k \in HookSet
        BY <2>b, <4>1 DEF HookSet
      <4>3. hook' = [hook EXCEPT ![h] = k]
        BY <1>0, <3>2 DEF HookUser
      <4> HIDE DEF k
      <4> QED BY <1>0, <4>2, <4>3
    <3>3. CASE HookCommit(h) \/ HookFails(h)
      BY <1>0, <3>3 DEF HookCommit, HookFails, HookSet, Answered
    <3> QED BY <1>2, <3>1, <3>2, <3>3 DEF Hook
  <2>0. CASE HookRead(h)
    <3>1. overlaps' \in [Payments -> Nat]
      <4>1. overlaps \in [Payments -> Nat]
        BY DEF TypeOK
      <4>2. PICK n \in {0, 1} : overlaps' = [overlaps EXCEPT ![p] = @ + n]
        BY <2>0 DEF HookRead
      <4> QED BY <2>p, <4>1, <4>2
    <3>2. TableTypes' /\ UNCHANGED <<invoice, aged, check, adjust, rec, faults>>
      BY <1>t, <2>0 DEF HookRead
    <3> QED BY <1>0, <2>h, <3>1, <3>2 DEF TypeOK, TableTypes, HookSet, CheckSet, AdjustSet, RecSet
  <2>1. CASE HookUser(h)
    BY <1>0, <1>s, <1>t, <2>1, <2>h DEF HookUser
  <2>2. CASE HookCommit(h)
    <3>1. hook[h].bal + Amount[p] \in Int /\ credits[p] + 1 \in Nat
      BY <1>0, <2>p DEF HookSet, TableTypes
    <3>2. balance' \in [Users -> Int] /\ credits' \in [Payments -> Nat]
      BY <1>0, <2>2, <2>p, <3>1 DEF HookCommit, TableTypes
    <3>3. payment' \in [Payments -> Statuses]
      BY <1>0, <2>2 DEF HookCommit, TableTypes, Statuses
    <3> QED BY <1>0, <1>s, <2>2, <2>h, <3>2, <3>3 DEF HookCommit, TableTypes
  <2>3. CASE HookFails(h)
    BY <1>0, <1>f, <1>s, <1>t, <2>3, <2>h DEF HookFails
  <2> QED BY <1>2, <2>0, <2>1, <2>2, <2>3 DEF Hook
<1>3. ASSUME NEW c \in Checks, Check(c) \/ CheckFails(c) PROVE TypeOK'
  <2> DEFINE p == CheckOf[c]
  <2>p. p \in Payments
    OBVIOUS
  <2>c. check' \in [Checks -> CheckSet]
    <3>1. CASE CheckRead(c)
      <4>1. payment[p] \in Statuses
        BY <1>0, <2>p DEF TableTypes
      <4> DEFINE k == [check[c] EXCEPT !.at = "ask", !.row = payment[p]]
      <4>2. check[c] \in CheckSet
        BY <1>0
      <4>3. k \in CheckSet
        BY <4>1, <4>2 DEF CheckSet
      <4>4. check' = [check EXCEPT ![c] = k]
        BY <1>0, <3>1 DEF CheckRead
      <4> HIDE DEF k
      <4> QED BY <1>0, <4>3, <4>4
    <3>2. CASE CheckAsk(c)
      <4>1. invoice[p] \in States \ {"none"}
        BY <1>0, <2>p, <3>2 DEF CheckAsk, Known
      <4> QED BY <1>0, <3>2, <4>1 DEF CheckAsk, CheckSet, States
    <3>3. CASE CheckConfirmed(c) \/ CheckCanceled(c) \/ CheckFails(c)
      <4>1. check' = [check EXCEPT ![c].at = "idle"]
        BY <3>3 DEF CheckConfirmed, CheckCanceled, CheckFails
      <4> QED BY <1>0, <4>1 DEF CheckSet
    <3> QED BY <1>3, <3>1, <3>2, <3>3 DEF Check
  <2>1. CASE CheckRead(c) \/ CheckAsk(c)
    BY <1>0, <1>s, <1>t, <2>1, <2>c DEF CheckRead, CheckAsk
  <2>2. CASE CheckConfirmed(c)
    BY <1>0, <1>s, <2>2, <2>c, <2>p, ProcessTypes DEF CheckConfirmed, TableTypes
  <2>3. CASE CheckCanceled(c)
    <3>1. TableTypes'
      BY <1>0, <2>3, <2>p DEF CheckCanceled, TableTypes, Statuses
    <3> QED BY <1>0, <1>s, <2>3, <2>c, <3>1 DEF CheckCanceled
  <2>4. CASE CheckFails(c)
    BY <1>0, <1>f, <1>s, <1>t, <2>4, <2>c DEF CheckFails
  <2> QED BY <1>3, <2>1, <2>2, <2>3, <2>4 DEF Check
<1>4. ASSUME NEW a \in Adjusts, AdjustRead(a) PROVE TypeOK'
  <2>1. balance[AdjustOf[a]] \in Int
    BY <1>0 DEF TableTypes
  <2>2. adjust' \in [Adjusts -> AdjustSet]
    BY <1>0, <1>4, <2>1 DEF AdjustRead, AdjustSet
  <2> QED BY <1>0, <1>4, <1>s, <1>t, <2>2 DEF AdjustRead
<1>5. ASSUME NEW a \in Adjusts, AdjustCommit(a) PROVE TypeOK'
  <2>1. adjust[a].bal + AdjustBy[a] \in Int
    BY <1>0 DEF AdjustSet
  <2>2. TableTypes' /\ adjust' \in [Adjusts -> AdjustSet]
    BY <1>0, <1>5, <2>1 DEF AdjustCommit, AdjustSet, TableTypes
  <2> QED BY <1>0, <1>5, <1>s, <2>2 DEF AdjustCommit
<1>6. ASSUME NEW u \in Users, NEW d \in Debits, Debit(u, d) PROVE TypeOK'
  <2>1. TableTypes'
    BY <1>0, <1>6 DEF Debit, TableTypes
  <2> QED BY <1>0, <1>6, <1>s, <2>1 DEF Debit
<1>7. ASSUME NEW p \in Crypto, RecSkip(p) PROVE TypeOK'
  <2>1. rec' \in RecSet /\ rec'.step = "idle"
    BY <1>0, <1>7 DEF RecSkip, RecSet
  <2> QED BY <1>0, <1>7, <1>f, <1>s, <1>t, <2>1 DEF RecSkip
<1>8. CASE Recovery
  <2>1. CASE RecSelect
    <3>1. rec' \in RecSet /\ rec'.step = "idle"
      BY <1>0, <2>1 DEF RecSelect, RecSet
    <3> QED BY <1>0, <1>s, <1>t, <2>1, <3>1 DEF RecSelect
  <2>2. CASE RecPay
    <3>1. rec.at \in Crypto
      BY <1>0, <2>2 DEF RecPay
    <3>2. rec' \in RecSet /\ rec'.at = rec.at
      BY <1>0, <2>2 DEF RecPay, RecSet
    <3> QED BY <1>0, <1>s, <2>2, <3>1, <3>2, ProcessTypes DEF RecPay, TableTypes
  <2>3. CASE RecMark
    <3>1. rec' \in RecSet /\ rec'.step = "idle"
      BY <1>0, <2>3 DEF RecMark, RecSet
    <3>2. TableTypes'
      BY <1>0, <2>3 DEF RecMark, TableTypes, Statuses
    <3> QED BY <1>0, <1>s, <2>3, <3>1, <3>2 DEF RecMark
  <2>4. ASSUME NEW p \in Crypto, RecAsk(p) PROVE TypeOK'
    <3>1. invoice[p] \in States \ {"none"}
      BY <1>0, <2>4 DEF RecAsk, Known
    <3>2. rec' \in RecSet /\ rec'.at = p
      BY <1>0, <2>4, <3>1 DEF RecAsk, RecSet, States
    <3> QED BY <1>0, <1>s, <1>t, <2>4, <3>2 DEF RecAsk
  <2> QED BY <1>8, <2>1, <2>2, <2>3, <2>4 DEF Recovery
<1>9. CASE Crash
  <2>1. /\ hook' \in [Hooks -> HookSet] /\ check' \in [Checks -> CheckSet]
        /\ adjust' \in [Adjusts -> AdjustSet]
    <3>1. Answered \in HookSet
      BY DEF HookSet, Answered
    <3>2. \A c \in Checks : [check[c] EXCEPT !.at = "idle"] \in CheckSet
      BY <1>0 DEF CheckSet
    <3>3. \A a \in Adjusts : [adjust[a] EXCEPT !.at = "done"] \in AdjustSet
      BY <1>0 DEF AdjustSet
    <3> QED BY <1>9, <3>1, <3>2, <3>3 DEF Crash
  <2>2. rec' \in RecSet /\ rec'.step = "idle"
    BY <1>9 DEF Crash, Idle, RecSet
  <2> QED BY <1>0, <1>9, <1>f, <1>s, <1>t, <2>1, <2>2 DEF Crash
<1>10. CASE UNCHANGED vars
  BY <1>0, <1>10, <1>s, <1>t DEF vars, tables
<1> QED BY <1>1, <1>2, <1>3, <1>4, <1>5, <1>6, <1>7, <1>8, <1>9, <1>10 DEF Next

-----------------------------------------------------------------------------
(* The status and the money *)

\* What the sessions hold still fits the tables: a webhook and a recovery that
\* pay have a paid invoice, a check and a recovery that fail have an expired one,
\* and what the recovery has copied but not dealt with is still pending.
Books ==
  /\ Known
  /\ SettledIsCredited
  /\ \A p \in Payments : credits[p] > 0 => invoice[p] = "paid"
  /\ \A p \in Payments : invoice[p] # "none" => payment[p] # "none"
  /\ \A p \in Platega : payment[p] \notin {"succeeded", "completed"}
  /\ \A h \in Hooks : hook[h].at # "idle" => invoice[HookOf[h]] = "paid"
  /\ \A c \in Checks : check[c].at = "canceled" => invoice[CheckOf[c]] = "expired"
  /\ \A p \in rec.todo : payment[p] = "pending"
  /\ rec.step # "idle" => rec.at \notin rec.todo
  /\ rec.step = "pay" => payment[rec.at] = "pending" /\ invoice[rec.at] = "paid"
  /\ rec.step = "mark" => payment[rec.at] = "succeeded"
  /\ rec.step = "fail" => payment[rec.at] = "pending" /\ invoice[rec.at] = "expired"

\* Nothing is credited at the start.
LEMMA InitBooks == Init => Books
<1> SUFFICES ASSUME Init PROVE Books
  OBVIOUS
<1>1. \A p \in Payments : payment[p] = "none" /\ invoice[p] = "none" /\ credits[p] = 0
  BY DEF Init
<1>2. /\ \A h \in Hooks : hook[h].at = "idle"
      /\ \A c \in Checks : check[c].at = "idle"
      /\ rec.todo = {} /\ rec.step = "idle"
  BY DEF Init, Idle, Answered
<1> QED BY <1>1, <1>2 DEF Books, Known, SettledIsCredited, Payments

\* Steps that only read, of the webhooks and the checks, keep them.
LEMMA SameBooks ==
  ASSUME Books, UNCHANGED <<payment, credits, invoice, rec>>,
         \A h \in Hooks : hook'[h].at # "idle" =>
           hook[h].at # "idle" \/ invoice[HookOf[h]] = "paid",
         \A c \in Checks : check'[c].at # "idle" =>
           check[c].at # "idle" \/ payment[CheckOf[c]] # "none",
         \A c \in Checks : check'[c].at = "canceled" =>
           check[c].at = "canceled" \/ invoice[CheckOf[c]] = "expired"
  PROVE Books'
<1>1. \A c \in Checks : CheckOf[c] \in Payments
  BY RequestsAssumption DEF Payments
<1> QED BY <1>1 DEF Books, Known, SettledIsCredited

\* A payment of Platega changes, and the recovery deals with the others.
LEMMA PlategaBooks ==
  ASSUME TypeOK, Books, NEW p \in Platega, NEW s \in {"failed", "paid"}, NEW n \in Nat,
         payment' = [payment EXCEPT ![p] = s], credits' = [credits EXCEPT ![p] = n],
         s = "paid" <=> n > 0, n > 0 => invoice[p] = "paid", payment[p] # "none",
         UNCHANGED <<invoice, rec>>,
         \A h \in Hooks : hook'[h].at # "idle" => hook[h].at # "idle",
         \A c \in Checks : check'[c].at # "idle" => check'[c].at = check[c].at
  PROVE Books'
<1> USE PaymentsAssumption, RequestsAssumption DEF Payments
<1>1. payment'[p] = s /\ credits'[p] = n
  BY DEF TypeOK
<1>2. \A q \in Payments \ {p} : payment'[q] = payment[q] /\ credits'[q] = credits[q]
  BY DEF TypeOK
<1>3. /\ \A q \in rec.todo : q \in Payments \ {p}
      /\ rec.step # "idle" => rec.at \in Payments \ {p}
  BY DEF TypeOK
<1>4. SettledIsCredited'
  BY <1>1, <1>2 DEF Books, SettledIsCredited
<1>5. Known'
  BY <1>1, <1>2 DEF Books, Known
<1> QED BY <1>1, <1>2, <1>3, <1>4, <1>5 DEF Books

\* Every step keeps what the sessions hold in agreement with the tables.
LEMMA StepBooks == TypeOK /\ Books /\ [Next]_vars => Books'
<1> SUFFICES ASSUME TypeOK, Books, [Next]_vars PROVE Books'
  OBVIOUS
<1> USE PaymentsAssumption, RequestsAssumption DEF Payments
<1>0. /\ TableTypes /\ invoice \in [Payments -> States]
      /\ hook \in [Hooks -> HookSet] /\ check \in [Checks -> CheckSet]
      /\ rec \in RecSet
      /\ rec.step # "idle" => rec.at \in Crypto
  BY DEF TypeOK, TableTypes, HookSet, CheckSet, RecSet
<1>1. ASSUME NEW p \in Payments, Open(p) PROVE Books'
  <2>1. /\ payment' = [payment EXCEPT ![p] = "pending"] /\ payment[p] = "none"
        /\ invoice' = [invoice EXCEPT ![p] = "active"]
        /\ UNCHANGED <<credits, hook, check, rec>>
    BY <1>1 DEF Open
  <2>2. credits[p] = 0 /\ invoice[p] = "none"
    BY <1>0, <2>1 DEF Books, SettledIsCredited, TableTypes
  <2>3. /\ \A h \in Hooks : hook[h].at # "idle" => HookOf[h] # p
        /\ \A c \in Checks : check[c].at # "idle" => CheckOf[c] # p
        /\ p \notin rec.todo
        /\ rec.step # "idle" => rec.at # p
    BY <1>0, <2>1, <2>2 DEF Books, Known, RecSet
  <2>4. payment'[p] = "pending" /\ invoice'[p] = "active"
    BY <1>0, <2>1 DEF TableTypes
  <2>5. \A q \in Payments \ {p} : payment'[q] = payment[q] /\ invoice'[q] = invoice[q]
    BY <1>0, <2>1 DEF TableTypes
  <2>6. Known' /\ SettledIsCredited'
    BY <1>0, <2>1, <2>2, <2>3, <2>4, <2>5 DEF Books, Known, SettledIsCredited, RecSet
  <2> QED BY <1>0, <2>1, <2>2, <2>3, <2>4, <2>5, <2>6 DEF Books, RecSet
<1>2. ASSUME NEW p \in Payments, Settle(p) PROVE Books'
  <2>1. PICK s \in {"paid", "expired"} : invoice' = [invoice EXCEPT ![p] = s]
    BY <1>2 DEF Settle
  <2>2. invoice[p] = "active" /\ UNCHANGED <<payment, credits, hook, check, rec>>
    BY <1>2 DEF Settle, tables
  <2>3. invoice'[p] = s /\ \A q \in Payments \ {p} : invoice'[q] = invoice[q]
    BY <1>0, <2>1
  <2>4. \A q \in Payments : invoice[q] # "active" => invoice'[q] = invoice[q]
    BY <2>2, <2>3
  <2>5. \A q \in Payments : invoice'[q] = "none" <=> invoice[q] = "none"
    BY <2>2, <2>3
  <2>6. Known' /\ SettledIsCredited'
    BY <1>0, <2>2, <2>5 DEF Books, Known, SettledIsCredited, RecSet
  <2> QED BY <1>0, <2>2, <2>4, <2>5, <2>6 DEF Books
<1>3. ASSUME NEW p \in Payments, Age(p) PROVE Books'
  BY <1>3, SameBooks DEF Age, tables
<1>4. ASSUME NEW h \in Hooks, HookRead(h) PROVE Books'
  BY <1>0, <1>4, SameBooks DEF HookRead, tables, HookSet
<1>5. ASSUME NEW h \in Hooks, HookUser(h) PROVE Books'
  BY <1>0, <1>5, SameBooks DEF HookUser, tables, HookSet
<1>6. ASSUME NEW h \in Hooks, HookCommit(h) PROVE Books'
  <2> DEFINE p == HookOf[h]
  <2>1. p \in Platega /\ invoice[p] = "paid"
    BY <1>6 DEF HookCommit, Books
  <2>2. /\ credits' = [credits EXCEPT ![p] = credits[p] + 1] /\ credits[p] + 1 \in Nat
        /\ credits[p] + 1 > 0 /\ payment' = [payment EXCEPT ![p] = "paid"]
    BY <1>0, <1>6, <2>1 DEF HookCommit, TableTypes
  <2>3. payment[p] # "none" /\ UNCHANGED <<invoice, rec, check>>
    BY <1>6, <2>1 DEF HookCommit, Books
  <2>4. \A g \in Hooks : hook'[g].at # "idle" => hook[g].at # "idle"
    BY <1>0, <1>6 DEF HookCommit, HookSet, Answered
  <2> HIDE DEF p
  <2> QED BY <2>1, <2>2, <2>3, <2>4, PlategaBooks
<1>7. ASSUME NEW h \in Hooks, HookFails(h) PROVE Books'
  BY <1>0, <1>7, SameBooks DEF HookFails, tables, HookSet, Answered
<1>8. ASSUME NEW c \in Checks, CheckRead(c) PROVE Books'
  BY <1>0, <1>8, SameBooks DEF CheckRead, tables, CheckSet
<1>9. ASSUME NEW c \in Checks, CheckAsk(c) PROVE Books'
  <2>1. invoice[CheckOf[c]] \in {"active", "paid", "expired"}
    BY <1>0, <1>9 DEF CheckAsk, Books, Known, States
  <2>2. /\ check'[c].at = "canceled" => invoice[CheckOf[c]] = "expired"
        /\ \A d \in Checks \ {c} : check'[d] = check[d]
    BY <1>0, <1>9, <2>1 DEF CheckAsk, CheckSet
  <2>3. check[c].at # "idle" /\ UNCHANGED <<payment, credits, invoice, rec, hook>>
    BY <1>9 DEF CheckAsk, tables
  <2> QED BY <2>2, <2>3, SameBooks
<1>10. ASSUME NEW c \in Checks, CheckConfirmed(c) PROVE Books'
  <2>1. UNCHANGED <<payment, credits, invoice, rec, hook>>
    BY <1>10 DEF CheckConfirmed, ProcessPayment, tables
  <2>2. \A d \in Checks : check'[d].at # "idle" => check'[d].at = check[d].at
    BY <1>0, <1>10 DEF CheckConfirmed, CheckSet
  <2> QED BY <2>1, <2>2, SameBooks
<1>11. ASSUME NEW c \in Checks, CheckCanceled(c) PROVE Books'
  <2> DEFINE p == CheckOf[c]
  <2>1. p \in Platega /\ invoice[p] = "expired" /\ payment[p] # "none"
    BY <1>11 DEF CheckCanceled, Books
  <2>2. credits[p] = 0
    BY <1>0, <2>1 DEF Books, TableTypes
  <2>3. \A d \in Checks : check'[d].at # "idle" => check'[d].at = check[d].at
    BY <1>0, <1>11 DEF CheckCanceled, CheckSet
  <2>4. UNCHANGED <<credits, invoice, rec, hook>>
    BY <1>11 DEF CheckCanceled
  <2>5. CASE check[c].row = "failed"
    <3>1. payment' = payment
      BY <1>0, <1>11, <2>5 DEF CheckCanceled, TableTypes
    <3> QED BY <2>3, <2>4, <3>1, SameBooks
  <2>6. CASE check[c].row # "failed"
    <3>1. payment' = [payment EXCEPT ![p] = "failed"]
      BY <1>11, <2>6 DEF CheckCanceled
    <3>2. credits' = [credits EXCEPT ![p] = 0]
      BY <1>0, <2>2, <2>4 DEF TableTypes
    <3> HIDE DEF p
    <3>3. "failed" = "paid" <=> 0 > 0
      OBVIOUS
    <3>4. \A h \in Hooks : hook'[h].at # "idle" => hook[h].at # "idle"
      BY <2>4
    <3>5. 0 > 0 => invoice[p] = "paid"
      OBVIOUS
    <3> QED BY <2>1, <2>3, <2>4, <3>1, <3>2, <3>3, <3>4, <3>5, PlategaBooks
  <2> QED BY <2>5, <2>6
<1>12. ASSUME NEW c \in Checks, CheckFails(c) PROVE Books'
  BY <1>0, <1>12, SameBooks DEF CheckFails, tables, CheckSet
<1>13. ASSUME NEW a \in Adjusts, AdjustRead(a) \/ AdjustCommit(a) PROVE Books'
  BY <1>13, SameBooks DEF AdjustRead, AdjustCommit, tables
<1>14. ASSUME NEW u \in Users, NEW d \in Debits, Debit(u, d) PROVE Books'
  BY <1>14, SameBooks DEF Debit
<1>15. CASE RecSelect
  <2>1. /\ rec'.todo = {p \in Crypto \cap aged : payment[p] = "pending"}
        /\ rec'.step = "idle"
        /\ UNCHANGED <<payment, credits, invoice, hook, check>>
    BY <1>0, <1>15 DEF RecSelect, RecSet, tables
  <2> QED BY <2>1 DEF Books, Known, SettledIsCredited
<1>16. ASSUME NEW p \in Crypto, RecAsk(p) \/ RecSkip(p) PROVE Books'
  <2>1. /\ p \in rec.todo /\ rec.todo \subseteq Crypto /\ rec'.todo = rec.todo \ {p}
        /\ UNCHANGED <<payment, credits, invoice, hook, check>>
    BY <1>0, <1>16 DEF RecAsk, RecSkip, RecSet, tables
  <2>2. invoice[p] \in {"active", "paid", "expired"} /\ payment[p] = "pending"
    BY <1>0, <2>1 DEF Books, Known, States
  <2>3. \/ rec'.step = "idle"
        \/ rec'.step = "pay" /\ rec'.at = p /\ invoice[p] = "paid"
        \/ rec'.step = "fail" /\ rec'.at = p /\ invoice[p] = "expired"
    BY <1>0, <1>16, <2>2 DEF RecAsk, RecSkip, RecSet
  <2>4. Known' /\ SettledIsCredited'
    BY <2>1 DEF Books, Known, SettledIsCredited
  <2> QED BY <2>1, <2>2, <2>3, <2>4 DEF Books
<1>17. CASE RecPay
  <2> DEFINE p == rec.at
  <2>1. /\ p \in Crypto /\ p \notin rec.todo /\ payment[p] = "pending" /\ invoice[p] = "paid"
        /\ rec.todo \subseteq Crypto
    BY <1>0, <1>17 DEF RecPay, Books, RecSet
  <2>2. CreditPayment(p)
    BY <1>17, <2>1 DEF RecPay, ProcessPayment, Payable
  <2>3. payment'[p] = "succeeded" /\ credits'[p] > 0
    BY <1>0, <2>1, <2>2 DEF CreditPayment, TableTypes
  <2>4. \A q \in Payments \ {p} : payment'[q] = payment[q] /\ credits'[q] = credits[q]
    BY <1>0, <2>1, <2>2 DEF CreditPayment, TableTypes
  <2>5. /\ rec'.step = "mark" /\ rec'.at = p /\ rec'.todo = rec.todo
        /\ UNCHANGED <<invoice, hook, check>>
    BY <1>0, <1>17, <2>1 DEF RecPay, RecSet, Payable
  <2> HIDE DEF p
  <2>6. Known' /\ SettledIsCredited'
    BY <2>1, <2>3, <2>4, <2>5 DEF Books, Known, SettledIsCredited
  <2> QED BY <2>1, <2>3, <2>4, <2>5, <2>6 DEF Books
<1>18. CASE RecMark
  <2> DEFINE p == rec.at
  <2>1. /\ p \in Crypto /\ p \notin rec.todo /\ rec.todo \subseteq Crypto /\ invoice[p] # "none"
        /\ \/ rec.step = "mark" /\ payment[p] = "succeeded"
           \/ rec.step = "fail" /\ payment[p] = "pending"
    BY <1>0, <1>18 DEF RecMark, Books, Known, RecSet
  <2>2. /\ rec.step = "mark" => payment'[p] = "completed"
        /\ rec.step = "fail" => payment'[p] = "failed"
        /\ \A q \in Payments \ {p} : payment'[q] = payment[q]
    BY <1>0, <1>18, <2>1 DEF RecMark, TableTypes
  <2>3. rec'.step = "idle" /\ rec'.todo = rec.todo /\ UNCHANGED <<credits, invoice, hook, check>>
    BY <1>0, <1>18 DEF RecMark, RecSet
  <2> HIDE DEF p
  <2>4. Known' /\ SettledIsCredited'
    BY <2>1, <2>2, <2>3 DEF Books, Known, SettledIsCredited
  <2> QED BY <2>1, <2>2, <2>3, <2>4 DEF Books
<1>19. CASE Crash
  <2>1. /\ \A h \in Hooks : hook'[h].at = "idle"
        /\ \A c \in Checks : check'[c].at = "idle"
        /\ rec'.todo = {} /\ rec'.step = "idle"
        /\ UNCHANGED <<payment, credits, invoice>>
    BY <1>0, <1>19 DEF Crash, Idle, Answered, CheckSet, tables
  <2> QED BY <2>1 DEF Books, Known, SettledIsCredited
<1>20. CASE UNCHANGED vars
  BY <1>20, SameBooks DEF vars, tables
<1> QED BY <1>1, <1>2, <1>3, <1>4, <1>5, <1>6, <1>7, <1>8, <1>9, <1>10, <1>11, <1>12, <1>13,
           <1>14, <1>15, <1>16, <1>17, <1>18, <1>19, <1>20 DEF Next, Hook, Check, Recovery

\* Balances, payments and every session keep their types.
THEOREM TypeCorrect == Spec => []TypeOK
<1>1. Init => TypeOK /\ Books
  BY InitTypes, InitBooks
<1>2. TypeOK /\ Books /\ [Next]_vars => TypeOK' /\ Books'
  BY StepTypes, StepBooks DEF Books
<1> QED BY <1>1, <1>2, PTL DEF Spec

\* The status of every payment and the money agree, however many webhooks, checks
\* and faults there are.
THEOREM Settled == Spec => []SettledIsCredited
<1>1. Init => TypeOK /\ Books
  BY InitTypes, InitBooks
<1>2. TypeOK /\ Books /\ [Next]_vars => TypeOK' /\ Books'
  BY StepTypes, StepBooks DEF Books
<1>3. Books => SettledIsCredited
  BY DEF Books
<1> QED BY <1>1, <1>2, <1>3, PTL DEF Spec

-----------------------------------------------------------------------------
(* Once *)

\* What was credited and what the deliveries under way may still credit.
Once ==
  \A p \in Payments : credits[p] + Cardinality(UnderWay(p)) <= 1 + overlaps[p]

LEMMA UnderWayFinite ==
  \A p \in Payments : IsFiniteSet(UnderWay(p)) /\ Cardinality(UnderWay(p)) \in Nat
BY RequestsAssumption, FS_Subset, FS_CardinalityType DEF UnderWay

\* Nothing is credited at the start.
LEMMA InitOnce == Init => Once
<1> SUFFICES ASSUME Init, NEW p \in Payments
             PROVE  credits[p] + Cardinality(UnderWay(p)) <= 1 + overlaps[p]
  BY DEF Once
<1>1. UnderWay(p) = {} /\ credits[p] = 0 /\ overlaps[p] = 0
  BY DEF Init, Answered, UnderWay
<1> QED BY <1>1, FS_EmptySet

\* A step that credits nothing and begins no delivery.
LEMMA OnceKept ==
  ASSUME TypeOK, TypeOK', Once, NEW p \in Payments, credits'[p] = credits[p],
         overlaps'[p] = overlaps[p], UnderWay(p)' \subseteq UnderWay(p)
  PROVE  credits'[p] + Cardinality(UnderWay(p)') <= 1 + overlaps'[p]
<1>1. PICK n \in Nat, m \in Nat :
        n = Cardinality(UnderWay(p)) /\ m = Cardinality(UnderWay(p)') /\ m <= n
  <2>1. IsFiniteSet(UnderWay(p)) /\ Cardinality(UnderWay(p)) \in Nat
    BY UnderWayFinite
  <2>2. IsFiniteSet(UnderWay(p)') /\ Cardinality(UnderWay(p)') <= Cardinality(UnderWay(p))
    BY <2>1, FS_Subset
  <2>3. Cardinality(UnderWay(p)') \in Nat
    BY <2>2, FS_CardinalityType
  <2> QED BY <2>1, <2>2, <2>3
<1>2. credits[p] \in Nat /\ overlaps[p] \in Nat /\ credits[p] + n <= 1 + overlaps[p]
  BY <1>1 DEF TypeOK, Once
<1>3. credits'[p] + m <= 1 + overlaps'[p]
  BY <1>1, <1>2
<1> QED BY <1>1, <1>3

\* Every step keeps it.
LEMMA StepOnce ==
  ASSUME TypeOK, TypeOK', Books, Once, [Next]_vars PROVE Once'
<1> USE PaymentsAssumption, RequestsAssumption DEF Payments
<1>0. /\ TableTypes /\ invoice \in [Payments -> States]
      /\ hook \in [Hooks -> HookSet] /\ check \in [Checks -> CheckSet]
      /\ rec \in RecSet
      /\ rec.step # "idle" => rec.at \in Crypto
      /\ overlaps \in [Payments -> Nat]
  BY DEF TypeOK, TableTypes, HookSet, CheckSet, RecSet
<1>u. ASSUME UNCHANGED <<credits, overlaps>>,
             \A h \in Hooks : hook'[h].at # "idle" => hook[h].at # "idle"
      PROVE Once'
  <2> SUFFICES ASSUME NEW p \in Payments
               PROVE  credits'[p] + Cardinality(UnderWay(p)') <= 1 + overlaps'[p]
    BY DEF Once
  <2>1. UnderWay(p)' \subseteq UnderWay(p)
    BY <1>u DEF UnderWay
  <2> QED BY <1>u, <2>1, OnceKept
<1>1. ASSUME NEW h \in Hooks, HookRead(h) PROVE Once'
  <2>0. PICK p \in Platega : p = HookOf[h] /\ p \in Payments
    OBVIOUS
  <2>1. /\ hook[h].at = "idle" /\ payment[p] # "paid" /\ UNCHANGED credits
        /\ hook' = [hook EXCEPT ![h].at = "user"]
        /\ overlaps' = [overlaps EXCEPT ![p] = @ + (IF UnderWay(p) = {} THEN 0 ELSE 1)]
    BY <1>1, <2>0 DEF HookRead, tables
  <2>2. ASSUME NEW q \in Payments, q # p
        PROVE  credits'[q] + Cardinality(UnderWay(q)') <= 1 + overlaps'[q]
    <3>1. UnderWay(q)' \subseteq UnderWay(q) /\ overlaps'[q] = overlaps[q]
      BY <1>0, <2>0, <2>1, <2>2 DEF UnderWay, HookSet
    <3> QED BY <2>1, <2>2, <3>1, OnceKept
  <2>3. credits'[p] + Cardinality(UnderWay(p)') <= 1 + overlaps'[p]
    <3>1. UnderWay(p)' = UnderWay(p) \cup {h} /\ h \notin UnderWay(p)
      BY <1>0, <2>0, <2>1 DEF UnderWay, HookSet
    <3>2. PICK n \in Nat : n = Cardinality(UnderWay(p)) /\ Cardinality(UnderWay(p)') = n + 1
      <4>1. IsFiniteSet(UnderWay(p)) /\ Cardinality(UnderWay(p)) \in Nat
        BY <2>0, UnderWayFinite
      <4>2. Cardinality(UnderWay(p) \cup {h}) = Cardinality(UnderWay(p)) + 1
        BY <3>1, <4>1, FS_AddElement
      <4>3. Cardinality(UnderWay(p)') = Cardinality(UnderWay(p)) + 1
        BY <3>1, <4>2
      <4> QED BY <4>1, <4>3
    <3>3. PICK c \in Nat, o \in Nat : c = credits[p] /\ o = overlaps[p] /\ c + n <= 1 + o
      BY <1>0, <2>0, <3>2 DEF Once, TableTypes
    <3>4. credits'[p] = c
      BY <2>1, <3>3
    <3>5. CASE UnderWay(p) = {}
      <4>1. n = 0
        BY <3>2, <3>5, FS_EmptySet
      <4>2. c = 0
        BY <1>0, <2>0, <2>1, <3>3 DEF Books, SettledIsCredited, TableTypes
      <4>3. overlaps'[p] = o
        BY <1>0, <2>0, <2>1, <3>3, <3>5
      <4> QED BY <3>2, <3>4, <4>1, <4>2, <4>3
    <3>6. CASE UnderWay(p) # {}
      <4>1. overlaps'[p] = o + 1
        BY <1>0, <2>0, <2>1, <3>3, <3>6
      <4> QED BY <3>2, <3>3, <3>4, <4>1
    <3> QED BY <3>5, <3>6
  <2> QED BY <2>2, <2>3 DEF Once
<1>2. ASSUME NEW h \in Hooks, HookCommit(h) PROVE Once'
  <2>0. PICK p \in Platega : p = HookOf[h] /\ p \in Payments
    OBVIOUS
  <2>1. /\ hook[h].at = "commit" /\ UNCHANGED overlaps
        /\ hook' = [hook EXCEPT ![h] = Answered]
        /\ credits' = [credits EXCEPT ![p] = @ + 1]
    BY <1>2, <2>0 DEF HookCommit
  <2>2. ASSUME NEW q \in Payments, q # p
        PROVE  credits'[q] + Cardinality(UnderWay(q)') <= 1 + overlaps'[q]
    <3>1. UnderWay(q)' \subseteq UnderWay(q) /\ credits'[q] = credits[q]
      BY <1>0, <2>1, <2>2 DEF UnderWay, HookSet, Answered, TableTypes
    <3> QED BY <2>1, <2>2, <3>1, OnceKept
  <2>3. credits'[p] + Cardinality(UnderWay(p)') <= 1 + overlaps'[p]
    <3>1. UnderWay(p)' = UnderWay(p) \ {h} /\ h \in UnderWay(p)
      BY <1>0, <2>0, <2>1 DEF UnderWay, HookSet, Answered
    <3>2. PICK n \in Nat, m \in Nat : /\ n = Cardinality(UnderWay(p))
                                      /\ m = Cardinality(UnderWay(p)') /\ m = n - 1
      <4>1. /\ Cardinality(UnderWay(p) \ {h}) = Cardinality(UnderWay(p)) - 1
            /\ IsFiniteSet(UnderWay(p) \ {h})
        BY <2>0, <3>1, UnderWayFinite, FS_RemoveElement
      <4>2. Cardinality(UnderWay(p) \ {h}) \in Nat
        BY <4>1, FS_CardinalityType
      <4> QED BY <2>0, <3>1, <4>1, <4>2, UnderWayFinite
    <3>3. PICK c \in Nat, o \in Nat : c = credits[p] /\ o = overlaps[p] /\ c + n <= 1 + o
      BY <1>0, <2>0, <3>2 DEF Once, TableTypes
    <3>4. credits'[p] = c + 1 /\ overlaps'[p] = o
      BY <1>0, <2>0, <2>1, <3>3 DEF TableTypes
    <3> QED BY <3>2, <3>3, <3>4
  <2> QED BY <2>2, <2>3 DEF Once
<1>3. CASE RecPay
  <2>0. PICK p \in Crypto : p = rec.at /\ p \in Payments /\ payment[p] = "pending"
    BY <1>0, <1>3 DEF RecPay, Books
  <2>1. CreditPayment(p) /\ UNCHANGED <<hook, overlaps>>
    BY <1>3, <2>0 DEF RecPay, ProcessPayment, Payable
  <2>2. ASSUME NEW q \in Payments, q # p
        PROVE  credits'[q] + Cardinality(UnderWay(q)') <= 1 + overlaps'[q]
    <3>1. UnderWay(q)' \subseteq UnderWay(q) /\ credits'[q] = credits[q]
      BY <1>0, <2>1, <2>2 DEF UnderWay, CreditPayment, TableTypes
    <3> QED BY <2>1, <2>2, <3>1, OnceKept
  <2>3. credits'[p] + Cardinality(UnderWay(p)') <= 1 + overlaps'[p]
    <3>1. UnderWay(p)' = {}
      BY <2>0, <2>1 DEF UnderWay
    <3>2. credits[p] = 0
      BY <1>0, <2>0 DEF Books, SettledIsCredited, TableTypes
    <3>3. credits'[p] = 1 /\ overlaps'[p] \in Nat
      BY <1>0, <2>0, <2>1, <3>2 DEF CreditPayment, TableTypes
    <3> QED BY <3>1, <3>3, FS_EmptySet
  <2> QED BY <2>2, <2>3 DEF Once
<1>4. ASSUME NEW p \in Payments, Open(p) \/ Settle(p) \/ Age(p) PROVE Once'
  BY <1>4, <1>u DEF Open, Settle, Age, tables
<1>5. ASSUME NEW h \in Hooks, HookUser(h) \/ HookFails(h) PROVE Once'
  <2>1. UNCHANGED <<overlaps, credits>>
    BY <1>5 DEF HookUser, HookFails, tables
  <2>2. \A g \in Hooks : hook'[g].at # "idle" => hook[g].at # "idle"
    BY <1>0, <1>5 DEF HookUser, HookFails, HookSet, Answered
  <2> QED BY <1>u, <2>1, <2>2
<1>6. ASSUME NEW c \in Checks, Check(c) \/ CheckFails(c) PROVE Once'
  <2>1. UNCHANGED <<credits, hook, overlaps>>
    BY <1>6 DEF Check, CheckRead, CheckAsk, CheckConfirmed, CheckCanceled, CheckFails,
                ProcessPayment, tables
  <2> QED BY <1>u, <2>1
<1>7. ASSUME NEW a \in Adjusts, AdjustRead(a) \/ AdjustCommit(a) PROVE Once'
  BY <1>7, <1>u DEF AdjustRead, AdjustCommit, tables
<1>8. ASSUME NEW u \in Users, NEW d \in Debits, Debit(u, d) PROVE Once'
  BY <1>8, <1>u DEF Debit
<1>9. ASSUME RecSelect \/ \E p \in Crypto : RecAsk(p) \/ RecSkip(p) PROVE Once'
  BY <1>9, <1>u DEF RecSelect, RecAsk, RecSkip, tables
<1>10. CASE RecMark
  BY <1>10, <1>u DEF RecMark
<1>11. CASE Crash
  <2>1. \A h \in Hooks : hook'[h].at = "idle"
    BY <1>11 DEF Crash, Answered
  <2> QED BY <1>11, <1>u, <2>1 DEF Crash, tables
<1>12. CASE UNCHANGED vars
  BY <1>12, <1>u DEF vars, tables
<1> QED BY <1>1, <1>2, <1>3, <1>4, <1>5, <1>6, <1>7, <1>8, <1>9, <1>10, <1>11, <1>12
        DEF Next, Hook, Recovery

\* Only a paid invoice is credited, once, and once more at most for each delivery of
\* its webhook that began before another one had ended, whatever the gateway repeats
\* and wherever the bot dies.
THEOREM CreditsOnce == Spec => []CreditedOnce
<1>1. Init => TypeOK /\ Books /\ Once
  BY InitTypes, InitBooks, InitOnce
<1>2. TypeOK /\ Books /\ Once /\ [Next]_vars => TypeOK' /\ Books' /\ Once'
  BY StepTypes, StepBooks, StepOnce DEF Books
<1>3. TypeOK /\ Books /\ Once => CreditedOnce
  <2> SUFFICES ASSUME TypeOK, Books, Once, NEW p \in Payments
               PROVE credits[p] <= IF invoice[p] = "paid" THEN 1 + overlaps[p] ELSE 0
    BY DEF CreditedOnce
  <2>1. PICK n \in Nat : n = Cardinality(UnderWay(p))
    BY UnderWayFinite
  <2>2. /\ credits[p] \in Nat /\ overlaps[p] \in Nat /\ credits[p] + n <= 1 + overlaps[p]
        /\ credits[p] > 0 => invoice[p] = "paid"
    BY <2>1 DEF TypeOK, Books, Once
  <2> QED BY <2>2
<1> QED BY <1>1, <1>2, <1>3, PTL DEF Spec

=============================================================================
