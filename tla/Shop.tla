-------------------------------- MODULE Shop --------------------------------
(***************************************************************************)
(* What the shop promises its customers, without transactions: a purchase  *)
(* happens at one moment, at the prices and with the promo codes of that   *)
(* moment, for one or several stock rows, and is paid in full or does not  *)
(* happen.  The administrator changes prices, stock, codes and balances    *)
(* between purchases, never in the middle of one.                          *)
(***************************************************************************)
EXTENDS Integers, FiniteSets, FiniteSetsExt

CONSTANTS Users, Goods, Values, Promos, Null, ItemOf, Infinite, MaxUses,
          Type,
          Reduced(_, _),  \* Reduced(c, p): the price c after the discount of p
          Bonus(_, _)     \* Bonus(b, p): what code p adds to the balance b

VARIABLES balance, price, stock, promo, used

vars == <<balance, price, stock, promo, used>>

Usable(p, u) ==
  /\ promo[p].row /\ promo[p].active /\ <<p, u>> \notin used
  /\ MaxUses[p] > 0 => promo[p].uses < MaxUses[p]

\* A deal is a stock row and the promo code its price is reduced by.
Deals(u) ==
  {d \in [value : stock, promo : {p \in Promos : Usable(p, u)} \cup {Null}] :
     d.promo # Null => /\ Type[d.promo] # "balance"
                       /\ promo[d.promo].item \in {Null, ItemOf[d.value]}}
Cost(d) == Reduced(price[ItemOf[d.value]], d.promo)

\* No stock row and no code twice in one purchase.
Distinct(D) == \A d, e \in D : d # e =>
  d.value # e.value /\ (d.promo # e.promo \/ d.promo = Null)

UseCodes(P, u) ==
  /\ promo' = [p \in Promos |-> IF p \in P
                 THEN [promo[p] EXCEPT !.uses = @ + 1] ELSE promo[p]]
  /\ used' = used \cup (P \X {u})

Buy(u) ==
  \E D \in SUBSET Deals(u) :
    LET total == MapThenSumSet(Cost, D) IN
    /\ D # {} /\ Distinct(D) /\ total <= balance[u]
    /\ balance' = [balance EXCEPT ![u] = @ - total]
    /\ stock' = stock \ ({d.value : d \in D} \ Infinite)
    /\ UseCodes({d.promo : d \in D} \ {Null}, u)
    /\ UNCHANGED price

\* A code that tops up the balance; the profile takes a code of any type.
Redeem(u, p) ==
  /\ Usable(p, u)
  /\ balance' = [balance EXCEPT ![u] = @ + Bonus(@, p)]
  /\ UseCodes({p}, u)
  /\ UNCHANGED <<price, stock>>

Manage ==
  \/ /\ \E u \in Users : /\ balance'[u] \in Nat
                          /\ balance' = [balance EXCEPT ![u] = balance'[u]]
     /\ UNCHANGED <<price, stock, promo, used>>
  \/ /\ \E g \in Goods : /\ price'[g] \in Nat
                          /\ price' = [price EXCEPT ![g] = price'[g]]
     /\ UNCHANGED <<balance, stock, promo, used>>
  \/ /\ stock' \in SUBSET Values /\ UNCHANGED <<balance, price, used>>
     /\ \A p \in Promos : \* a deleted item leaves its codes unbound
          promo'[p] \in {promo[p], [promo[p] EXCEPT !.item = Null]}
  \/ /\ \E p \in Promos : promo' = [promo EXCEPT ![p].active = ~ @]
     /\ UNCHANGED <<balance, price, stock, used>>
  \/ /\ \E p \in Promos : /\ promo' = [promo EXCEPT ![p].row = FALSE]
                          /\ used' = {x \in used : x[1] # p}
     /\ UNCHANGED <<balance, price, stock>>

Init ==
  /\ balance \in [Users -> Nat] /\ price \in [Goods -> Nat]
  /\ stock \subseteq Values /\ used = {}
  /\ \A p \in Promos : promo[p].row /\ promo[p].uses = 0

Next ==
  \/ \E u \in Users : Buy(u) \/ \E p \in Promos : Redeem(u, p)
  \/ Manage

Spec == Init /\ [][Next]_vars
=============================================================================
