----------------------------- MODULE BucketMutex -----------------------------
(***************************************************************************)
(* What the lock of a destination bucket promises (SPEC.md section 7): at  *)
(* most one worker at a time has the bucket, and it passes from one to the *)
(* next only through nobody having it.                                     *)
(***************************************************************************)
CONSTANT Worker
VARIABLE holders    \* the workers that work on the bucket

Init == holders = {}

Acquire(w) == holders = {} /\ holders' = {w}

\* Released, or lost with the worker's crash.
Release(w) == holders = {w} /\ holders' = {}

Next == \E w \in Worker : Acquire(w) \/ Release(w)

Spec == Init /\ [][Next]_holders
=============================================================================
