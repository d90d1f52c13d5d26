----------------------------- MODULE MCDeposits -----------------------------
(* Instances of Deposits for TLC: ann pays one invoice of each gateway and   *)
(* was invited by bob, who gets more than everything if nothing stops him.   *)
EXTENDS Deposits

MCUsers == {"ann", "bob"}
MCOwner == [p \in Payments |-> "ann"]
MCReferrer == [u \in MCUsers |-> IF u = "ann" THEN "bob" ELSE Null]
MCAmount == [p \in Payments |-> 10]
MCFirst == CHOOSE p \in Platega : TRUE
MCHookOf == [h \in Hooks |-> MCFirst]
MCCheckOf == [c \in Checks |-> MCFirst]
MCAdjustOf == [a \in Adjusts |-> "ann"]
MCAdjustBy == [a \in Adjusts |-> 0 - 10]
=============================================================================
