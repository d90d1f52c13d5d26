----------------------------- MODULE MCCatalogue -----------------------------
(* Catalogue for model checking: names, contents and slots are interchangeable. *)
EXTENDS Catalogue, TLC

CONSTANTS a, b, s, t, v, w, Games, Books, Sword, Shield
MCAdmins == {a, b}
MCSlots == {s, t}
MCValues == {v, w}
MCCatNames == {Games, Books}
MCItemNames == {Sword, Shield}
MCSymmetry ==
  UNION {Permutations(S) : S \in {MCAdmins, MCSlots, MCValues, MCCatNames, MCItemNames}}
=============================================================================
