------------------------------- MODULE MCLists -------------------------------
(* Lists for model checking: subjects, rows and messages are interchangeable. *)
EXTENDS Lists, TLC

CONSTANTS x, y, r1, r2, r3, m1, m2
MCSubjects == {x, y}
MCRows == {r1, r2, r3}
MCMessages == {m1, m2}
MCSymmetry ==
  Permutations(MCSubjects) \cup Permutations(MCRows) \cup Permutations(MCMessages)
=============================================================================
