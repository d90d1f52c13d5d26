--------------------------- MODULE MCTransactions ---------------------------
(* An instance of Transactions for TLC: two buyers, a key in stock and one  *)
(* that may be added, an endless gift, a discount code that may be used     *)
(* once, one worth more than any price, and a code that tops up the balance.*)
EXTENDS TransactionsShop

MCUsers  == {"ann", "bob"}
MCGoods  == {"key", "gift"}
MCValues == {"k1", "k2", "g"}
MCItemOf == [v \in MCValues |-> IF v = "g" THEN "gift" ELSE "key"]
MCInfinite == {"g"}
MCPromos == {"HALF", "FIX", "TOP"}
MCType  == [p \in MCPromos |-> CASE p = "HALF" -> "percent" [] p = "FIX" -> "fixed"
                                  [] p = "TOP" -> "balance"]
MCWorth == [p \in MCPromos |-> CASE p = "HALF" -> 5000 [] p = "FIX" -> 60 [] p = "TOP" -> 30]
MCMaxUses == [p \in MCPromos |-> IF p = "HALF" THEN 1 ELSE 0]
MCBound == [p \in MCPromos |-> Null]

\* Both carts name HALF, for different items.  One line comes into a cart later.
MCLines == {"a1", "a2", "b1", "b2"}
MCLineUser == [l \in MCLines |-> IF l \in {"a1", "a2"} THEN "ann" ELSE "bob"]
MCLineItem == [l \in MCLines |-> IF l \in {"a1", "b1"} THEN "key" ELSE "gift"]
MCLinePromo == [l \in MCLines |-> CASE l \in {"a1", "b2"} -> "HALF" [] l = "a2" -> "FIX"
                                     [] OTHER -> Null]
MCInitCart == MCLines \ {"a2"}
MCInitStock == {"k1", "g"}

MCPrices == {50, 51}
MCAmounts == {0 - 60, 60}
MCInitPrice == [g \in MCGoods |-> IF g = "key" THEN 51 ELSE 50]

Ask(kind, user, item, code, line) ==
  [kind |-> kind, user |-> user, item |-> item, promo |-> code, line |-> line]
MCRequests ==
  {Ask("checkout", u, Null, Null, Null) : u \in MCUsers}
  \cup {Ask("buy", "ann", "key", "HALF", Null), Ask("redeem", "ann", Null, "TOP", Null),
        Ask("input", "bob", Null, "HALF", Null), Ask("add", "ann", Null, Null, "a2"),
        Ask("delete", "ann", "key", Null, Null)}
=============================================================================
