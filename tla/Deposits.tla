------------------------------ MODULE Deposits ------------------------------
(***************************************************************************)
(* Money on its way to a balance: invoices of Platega, confirmed by the    *)
(* gateway's webhook or checked by the user, and invoices of CryptoPay,    *)
(* collected by the RecoveryManager, next to purchases and to the manual   *)
(* adjustments of the admin API.                                           *)
(*                                                                         *)
(* The webhook, the check and the adjustment read without a lock: a step   *)
(* per SELECT or call of the gateway and a step for the COMMIT.            *)
(* process_payment_with_referral locks every row it reads and is one step. *)
(***************************************************************************)
EXTENDS Integers, FiniteSets, FiniteSetsExt

CONSTANTS
  Users,      \* Telegram users
  Platega, Crypto, \* the rows of payments, by provider
  Hooks,      \* webhook requests, each delivered any number of times
  Checks,     \* presses of "check payment"
  Adjusts,    \* requests of the admin API that change a balance
  Null,       \* no user, no payment
  Owner,      \* Owner[p]: who pays p
  Referrer,   \* users.referral_id or Null
  Amount,     \* the amounts, in cents
  HookOf, CheckOf, \* the payment a webhook request, a check names
  AdjustOf, AdjustBy, \* the user and the amount of an adjustment
  Percent,    \* EnvKeys.REFERRAL_PERCENT
  InitBalance, Debits, \* users.balance at the start; what purchases cost
  MaxFaults   \* bound: crashes and unanswered calls of a behaviour

Payments == Platega \cup Crypto

ASSUME PaymentsAssumption ==
  /\ Platega \cap Crypto = {} /\ Null \notin Users \cup Payments
  /\ Owner \in [Payments -> Users] /\ Amount \in [Payments -> Nat \ {0}]
  /\ Referrer \in [Users -> Users \cup {Null}]
ASSUME RequestsAssumption ==
  /\ IsFiniteSet(Hooks) /\ HookOf \in [Hooks -> Platega]
  /\ CheckOf \in [Checks -> Platega]
  /\ AdjustOf \in [Adjusts -> Users] /\ AdjustBy \in [Adjusts -> Int]
ASSUME BoundsAssumption ==
  /\ Percent \in Int /\ InitBalance \in Nat /\ MaxFaults \in Nat
  /\ Debits \subseteq Nat \ {0}

VARIABLES
  balance,  \* users.balance
  payment,  \* payments.status, "none" without a row
  earnings, \* referral_earnings: the payments a referrer was paid for
  credits,  \* history: how often the amount of a payment was credited
  invoice,  \* what the gateway says of the invoice
  aged,     \* the rows older than an hour
  hook,     \* a webhook request: where it is and what it read
  check,    \* a check: where it is and the status it read
  adjust,   \* an adjustment: where it is and what it read
  rec,      \* RecoveryManager: its copies of rows and the one it works on
  faults,
  overlaps  \* history: the deliveries of a payment's webhook that began
            \* while another one of that payment was under way

tables == <<balance, payment, earnings, credits>>
vars == <<balance, payment, earnings, credits, invoice, aged, hook, check,
          adjust, rec, faults, overlaps>>

Idle == [todo |-> {}, at |-> Null, step |-> "idle"]
Answered == [at |-> "idle", bal |-> 0]

Init ==
  /\ balance = [u \in Users |-> InitBalance]
  /\ payment = [p \in Payments |-> "none"]
  /\ earnings = {} /\ credits = [p \in Payments |-> 0]
  /\ invoice = [p \in Payments |-> "none"] /\ aged = {}
  /\ hook = [h \in Hooks |-> Answered]
  /\ check = [c \in Checks |-> [at |-> "idle", row |-> "none"]]
  /\ adjust = [a \in Adjusts |-> [at |-> "idle", bal |-> 0]]
  /\ rec = Idle /\ faults = 0
  /\ overlaps = [p \in Payments |-> 0]

Fault == faults < MaxFaults /\ faults' = faults + 1

-----------------------------------------------------------------------------
(* The gateways. *)

\* cb_pay_platega and create_pending_payment: the row is committed before
\* the user sees the link, so the gateway learns of a payment only later.
Open(p) ==
  /\ payment[p] = "none"
  /\ payment' = [payment EXCEPT ![p] = "pending"]
  /\ invoice' = [invoice EXCEPT ![p] = "active"]
  /\ UNCHANGED <<balance, earnings, credits, aged, hook, overlaps, check, adjust, rec,
                 faults>>

\* The user pays, or the invoice runs out: neither is ever taken back.
Settle(p) ==
  /\ invoice[p] = "active"
  /\ \E s \in {"paid", "expired"} : invoice' = [invoice EXCEPT ![p] = s]
  /\ UNCHANGED <<tables, aged, hook, overlaps, check, adjust, rec, faults>>

Age(p) ==
  /\ payment[p] # "none" /\ p \notin aged /\ aged' = aged \cup {p}
  /\ UNCHANGED <<tables, invoice, hook, overlaps, check, adjust, rec, faults>>

-----------------------------------------------------------------------------
(* process_payment_with_referral *)

Clamp(percent) == Max({0, Min({percent, 99})})

\* The share of an amount, as numeric(12, 2) stores it.
Bonus(p) == (Clamp(Percent) * Amount[p] + 50) \div 100

\* The referrer who shares in a payment of the user.
Sponsor(p) ==
  LET r == Referrer[Owner[p]] IN
  IF Clamp(Percent) > 0 /\ r # Owner[p] THEN r ELSE Null

Credited(p) ==
  [u \in Users |-> balance[u] + (IF u = Owner[p] THEN Amount[p] ELSE 0)
                              + (IF u = Sponsor(p) THEN Bonus(p) ELSE 0)]

Payable(p) == payment[p] # "succeeded"

CreditPayment(p) ==
  /\ payment' = [payment EXCEPT ![p] = "succeeded"]
  /\ balance' = Credited(p) /\ credits' = [credits EXCEPT ![p] = @ + 1]
  /\ earnings' = IF Sponsor(p) = Null THEN earnings ELSE earnings \cup {p}

\* Mutant of ProcessPayment: an amount of any type is added.
ProcessAnyAmount(p, decimal) ==
  IF Payable(p) THEN CreditPayment(p) ELSE UNCHANGED tables

\* "succeeded" is already_processed.  A float cannot be added to the balance,
\* a Decimal: the TypeError rolls everything back.
ProcessPayment(p, decimal) ==
  IF decimal /\ Payable(p) THEN CreditPayment(p) ELSE UNCHANGED tables

-----------------------------------------------------------------------------
(* platega_webhook *)

\* The deliveries of a payment's webhook that are not answered yet.
UnderWay(p) == {h \in Hooks : HookOf[h] = p /\ hook[h].at # "idle"}

\* Only CONFIRMED is looked at, and "paid" is answered at once.
HookRead(h) ==
  LET p == HookOf[h] IN
  /\ invoice[p] = "paid" /\ hook[h].at = "idle" /\ payment[p] # "paid"
  /\ hook' = [hook EXCEPT ![h].at = "user"]
  /\ overlaps' = [overlaps EXCEPT ![p] = @ + (IF UnderWay(p) = {} THEN 0 ELSE 1)]
  /\ UNCHANGED <<tables, invoice, aged, check, adjust, rec, faults>>

HookUser(h) ==
  /\ hook[h].at = "user"
  /\ hook' = [hook EXCEPT ![h].at = "commit", ![h].bal = balance[Owner[HookOf[h]]]]
  /\ UNCHANGED <<tables, invoice, aged, check, adjust, rec, faults, overlaps>>

\* Mutant of HookCommit: the money is committed without the status.
HookCommitUnmarked(h) ==
  LET p == HookOf[h] IN
  /\ hook[h].at = "commit"
  /\ balance' = [balance EXCEPT ![Owner[p]] = hook[h].bal + Amount[p]]
  /\ credits' = [credits EXCEPT ![p] = @ + 1]
  /\ hook' = [hook EXCEPT ![h] = Answered]
  /\ UNCHANGED <<payment, earnings, invoice, aged, check, adjust, rec, faults, overlaps>>

\* The status is written although the row may have changed since it was read.
HookCommit(h) ==
  LET p == HookOf[h] IN
  /\ hook[h].at = "commit"
  /\ balance' = [balance EXCEPT ![Owner[p]] = hook[h].bal + Amount[p]]
  /\ credits' = [credits EXCEPT ![p] = @ + 1]
  /\ payment' = [payment EXCEPT ![p] = "paid"]
  /\ hook' = [hook EXCEPT ![h] = Answered]
  /\ UNCHANGED <<earnings, invoice, aged, check, adjust, rec, faults, overlaps>>

\* A failing statement; the gateway will deliver the webhook again.
HookFails(h) ==
  /\ hook[h].at # "idle" /\ Fault
  /\ hook' = [hook EXCEPT ![h] = Answered]
  /\ UNCHANGED <<tables, invoice, aged, check, adjust, rec, overlaps>>

-----------------------------------------------------------------------------
(* cb_check_payment *)

\* The row is read, and then the gateway is asked.
CheckRead(c) ==
  LET p == CheckOf[c] IN
  /\ check[c].at = "idle" /\ payment[p] \notin {"none", "paid"}
  /\ check' = [check EXCEPT ![c].at = "ask", ![c].row = payment[p]]
  /\ UNCHANGED <<tables, invoice, aged, hook, overlaps, adjust, rec, faults>>

\* An unanswered call and an active invoice end the check.
CheckAsk(c) ==
  LET told == invoice[CheckOf[c]] IN
  /\ check[c].at = "ask"
  /\ check' = [check EXCEPT ![c].at =
       CASE told = "paid" -> "confirmed" [] told = "expired" -> "canceled"
         [] told = "active" -> "idle"]
  /\ UNCHANGED <<tables, invoice, aged, hook, overlaps, adjust, rec, faults>>

\* CONFIRMED: process_payment_with_referral is given float(payment.amount),
\* so the "paid" that follows a success is never written.
CheckConfirmed(c) ==
  /\ check[c].at = "confirmed" /\ ProcessPayment(CheckOf[c], FALSE)
  /\ check' = [check EXCEPT ![c].at = "idle"]
  /\ UNCHANGED <<invoice, aged, hook, overlaps, adjust, rec, faults>>

\* CANCELED: the column is written if the row read was not "failed".
CheckCanceled(c) ==
  /\ check[c].at = "canceled"
  /\ payment' = [payment EXCEPT ![CheckOf[c]] =
                   IF check[c].row = "failed" THEN @ ELSE "failed"]
  /\ check' = [check EXCEPT ![c].at = "idle"]
  /\ UNCHANGED <<balance, earnings, credits, invoice, aged, hook, overlaps, adjust, rec,
                 faults>>

CheckFails(c) ==
  /\ check[c].at # "idle" /\ Fault
  /\ check' = [check EXCEPT ![c].at = "idle"]
  /\ UNCHANGED <<tables, invoice, aged, hook, overlaps, adjust, rec>>

-----------------------------------------------------------------------------
(* adjust_balance of the admin API *)

AdjustRead(a) ==
  LET bal == balance[AdjustOf[a]] IN
  /\ adjust[a].at = "idle" /\ bal + AdjustBy[a] >= 0
  /\ adjust' = [adjust EXCEPT ![a] = [at |-> "commit", bal |-> bal]]
  /\ UNCHANGED <<tables, invoice, aged, hook, overlaps, check, rec, faults>>

AdjustCommit(a) ==
  /\ adjust[a].at = "commit"
  /\ balance' = [balance EXCEPT ![AdjustOf[a]] = adjust[a].bal + AdjustBy[a]]
  /\ adjust' = [adjust EXCEPT ![a].at = "done"]
  /\ UNCHANGED <<payment, earnings, credits, invoice, aged, hook, overlaps, check, rec,
                 faults>>

\* Any purchase: Transactions shows that it debits a balance it has locked.
Debit(u, d) ==
  /\ balance[u] >= d /\ balance' = [balance EXCEPT ![u] = @ - d]
  /\ UNCHANGED <<payment, earnings, credits, invoice, aged, hook, overlaps, check, adjust,
                 rec, faults>>

-----------------------------------------------------------------------------
(* RecoveryManager.recover_pending_payments *)

\* Mutant of RecSelect: the rows of every provider are collected.
RecSelectAny ==
  /\ rec.step = "idle" /\ rec.todo = {}
  /\ rec' = [rec EXCEPT !.todo = {p \in aged : payment[p] = "pending"}]
  /\ rec'.todo # {}
  /\ UNCHANGED <<tables, invoice, aged, hook, overlaps, check, adjust, faults>>

\* Copies of the rows of cryptopay that are pending for an hour.
RecSelect ==
  /\ rec.step = "idle" /\ rec.todo = {}
  /\ rec' = [rec EXCEPT !.todo = {p \in Crypto \cap aged : payment[p] = "pending"}]
  /\ rec'.todo # {}
  /\ UNCHANGED <<tables, invoice, aged, hook, overlaps, check, adjust, faults>>

\* Mutant of RecAsk: an invoice that is still active is given up.
RecAskOnce(p) ==
  /\ rec.step = "idle" /\ p \in rec.todo
  /\ rec' = [rec EXCEPT !.todo = @ \ {p}, !.at = p,
       !.step = IF invoice[p] = "paid" THEN "pay" ELSE "fail"]
  /\ UNCHANGED <<tables, invoice, aged, hook, overlaps, check, adjust, faults>>

\* get_invoice for one of the copies.
RecAsk(p) ==
  /\ rec.step = "idle" /\ p \in rec.todo
  /\ rec' = [rec EXCEPT !.todo = @ \ {p}, !.at = p,
       !.step = CASE invoice[p] = "paid" -> "pay" [] invoice[p] = "expired" -> "fail"
                  [] invoice[p] = "active" -> "idle"]
  /\ UNCHANGED <<tables, invoice, aged, hook, overlaps, check, adjust, faults>>

\* An unanswered call or an exception: the loop goes on with the next copy.
RecSkip(p) ==
  /\ rec.step = "idle" /\ p \in rec.todo /\ Fault
  /\ rec' = [rec EXCEPT !.todo = @ \ {p}]
  /\ UNCHANGED <<tables, invoice, aged, hook, overlaps, check, adjust>>

RecPay ==
  /\ rec.step = "pay" /\ ProcessPayment(rec.at, TRUE)
  /\ rec' = [rec EXCEPT !.step = IF Payable(rec.at) THEN "mark" ELSE "idle"]
  /\ UNCHANGED <<invoice, aged, hook, overlaps, check, adjust, faults>>

\* _mark_payment_completed, _mark_payment_failed: an UPDATE of its own,
\* whatever the status is by now.
RecMark ==
  /\ rec.step \in {"mark", "fail"}
  /\ payment' = [payment EXCEPT ![rec.at] =
                   IF rec.step = "mark" THEN "completed" ELSE "failed"]
  /\ rec' = [rec EXCEPT !.step = "idle"]
  /\ UNCHANGED <<balance, earnings, credits, invoice, aged, hook, overlaps, check, adjust,
                 faults>>

\* The bot and the admin application are one process.
Crash ==
  /\ Fault /\ rec' = Idle
  /\ hook' = [h \in Hooks |-> Answered]
  /\ check' = [c \in Checks |-> [check[c] EXCEPT !.at = "idle"]]
  /\ adjust' = [a \in Adjusts |-> [adjust[a] EXCEPT !.at = "done"]]
  /\ UNCHANGED <<tables, invoice, aged, overlaps>>

-----------------------------------------------------------------------------
Hook(h)  == HookRead(h) \/ HookUser(h) \/ HookCommit(h)
Check(c) == CheckRead(c) \/ CheckAsk(c) \/ CheckConfirmed(c) \/ CheckCanceled(c)
Recovery == RecSelect \/ RecPay \/ RecMark \/ \E p \in Crypto : RecAsk(p)

Next ==
  \/ \E p \in Payments : Open(p) \/ Settle(p) \/ Age(p)
  \/ \E h \in Hooks : Hook(h) \/ HookFails(h)
  \/ \E c \in Checks : Check(c) \/ CheckFails(c)
  \/ \E a \in Adjusts : AdjustRead(a) \/ AdjustCommit(a)
  \/ \E u \in Users, d \in Debits : Debit(u, d)
  \/ \E p \in Crypto : RecSkip(p)
  \/ Recovery \/ Crash

Spec == Init /\ [][Next]_vars

\* The gateway delivers a webhook until it is answered, the recovery loop runs
\* as long as the bot, and time passes.
Fairness ==
  /\ \A h \in Hooks : WF_vars(Hook(h))
  /\ WF_vars(Recovery) /\ \A p \in Crypto : WF_vars(Age(p))
FairSpec == Spec /\ Fairness
-----------------------------------------------------------------------------
(* Properties *)

Statuses == {"none", "pending", "failed", "paid", "succeeded", "completed"}
States == {"none", "active", "paid", "expired"}

\* Type invariant.
TypeOK ==
  /\ balance \in [Users -> Int] /\ payment \in [Payments -> Statuses]
  /\ earnings \subseteq Payments /\ credits \in [Payments -> Nat]
  /\ invoice \in [Payments -> States] /\ aged \subseteq Payments
  /\ hook \in [Hooks -> [at : {"idle", "user", "commit"}, bal : Int]]
  /\ check \in [Checks -> [at : {"idle", "ask", "confirmed", "canceled"}, row : Statuses]]
  /\ adjust \in [Adjusts -> [at : {"idle", "commit", "done"}, bal : Int]]
  /\ rec \in [todo : SUBSET Crypto, at : Crypto \cup {Null},
               step : {"idle", "pay", "mark", "fail"}]
  /\ rec.step # "idle" => rec.at \in Crypto
  /\ faults \in 0..MaxFaults /\ overlaps \in [Payments -> Nat]

\* The status of a payment and the money agree at every moment, crashes
\* included: whoever credits leaves a settled status, and no check, mark or
\* recovery overwrites it with an unsettled one, or the other way round.
SettledIsCredited ==
  \A p \in Payments :
    credits[p] > 0 <=> payment[p] \in {"paid", "succeeded", "completed"}

\* Only a paid invoice is credited, and once, although the gateway delivers
\* again after every failure, the user checks meanwhile, and the bot dies
\* between crediting a crypto invoice and marking it.  What it is credited
\* beyond that is a delivery each that began before another one had ended.
CreditedOnce ==
  \A p \in Payments :
    credits[p] <= IF invoice[p] = "paid" THEN 1 + overlaps[p] ELSE 0

\* A paid invoice reaches the balance in the end.
PaidIsCredited ==
  \A p \in Payments : invoice[p] = "paid" ~> credits[p] > 0

=============================================================================
