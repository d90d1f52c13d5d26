------------------------------ MODULE MCInvites ------------------------------
(* Instances of Invites for TLC: bob invites two users, one of whom also     *)
(* presses ann's link.  The sessions are interchangeable.                    *)
EXTENDS Invites, TLC

MCUsers == {"ann", "bob", "cat"}
MCStarts == {"a", "c", "c2"}
MCStartBy == [s \in MCStarts |-> IF s = "a" THEN "ann" ELSE "cat"]
MCStartOf == [s \in MCStarts |-> IF s = "c2" THEN "ann" ELSE "bob"]
MCClaimBy == [c \in Claimers |-> "bob"]
MCSessions == Permutations(Admins) \cup Permutations(Claimers)
=============================================================================
