------------------------------ MODULE MC_LibLock ------------------------------
(* Two workers: one crashes, then both find its lock stale. *)
EXTENDS LibLock, TLC
CONSTANTS w1, w2
MCWorker == {w1, w2}
MCLife == [w \in MCWorker |-> 1]
MCTTL  == [w \in MCWorker |-> 2]
Symmetry == Permutations(Id)
=============================================================================
