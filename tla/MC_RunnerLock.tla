---------------------------- MODULE MC_RunnerLock ----------------------------
(* Instances of RunnerLock for TLC: two workers whose TTLs may differ. *)
EXTENDS RunnerLock, TLC
CONSTANTS w1, w2
MCWorker == {w1, w2}

\* Runs that end in time: TTLs exceed the life of a run by just more than Skew = 1.
PromptLife == [w \in MCWorker |-> 1]
PromptTTL  == [w \in MCWorker |-> 3]

\* Runs that overrun: Life plays no part, and one worker's TTL is shorter.
OverrunLife == [w \in MCWorker |-> 0]
OverrunTTL  == [w \in MCWorker |-> IF w = w1 THEN 1 ELSE 2]

Symmetry == Permutations(Id)
=============================================================================
