----------------------------- MODULE MCBroadcast -----------------------------
(* Broadcast for model checking: three users, one of them blocked. *)
EXTENDS Broadcast, TLC

CONSTANTS ann, first, second, u1, u2, u3
MCAdmins == {ann}
MCBroadcasts == {first, second}
MCAll == <<u1, u2, u3>>
MCUnblocked == <<u1, u3>>
=============================================================================
