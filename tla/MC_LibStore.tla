------------------------------ MODULE MC_LibStore ------------------------------
(* Keys are interchangeable: Init and every action treat them alike. *)
EXTENDS LibStore, TLC
Symmetry == Permutations(Key)
=============================================================================
