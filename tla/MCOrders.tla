------------------------------ MODULE MCOrders ------------------------------
(* Instances of Orders for TLC: every order belongs to the one user whose   *)
(* balance the sessions race for.                                           *)
EXTENDS Orders

MCOwner == [o \in Orders |-> CHOOSE u \in Users : TRUE]
=============================================================================
