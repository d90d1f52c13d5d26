-------------------------- MODULE TransactionsShop --------------------------
(* The transactions of the shop keep the promise of Shop: each of them      *)
(* takes effect at its commit, as if it had run alone.                      *)
EXTENDS Transactions

Promise == INSTANCE Shop WITH balance <- balance, price <- price, stock <- stock,
                                 promo <- promo, used <- used

\* However purchases, checkouts, promo codes and the administrator
\* interleave, each commit is a step of Shop: the prices, the codes and the
\* stock a transaction read under its locks are those of its commit, the sum
\* of the purchases is what leaves the balance, and every other step is
\* invisible to the customer.
KeepsPromise == Promise!Spec
=============================================================================
