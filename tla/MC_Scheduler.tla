----------------------------- MODULE MC_Scheduler -----------------------------
(* The scheduler over lists of pairs an operator might write one after the   *)
(* other: two tenants, one of them narrowed to a prefix; the same reordered, *)
(* renamed and with endpoints written differently; swapped destinations; the *)
(* prefix taken away; a single pair; and two lists that LoadConfig refuses.  *)
EXTENDS Scheduler

At(h, how, b, x) == [endpoint |-> [host |-> h, spelling |-> how], bucket |-> b, prefix |-> x]
OnePair(n, src, dst) == [name |-> n, source |-> src, dest |-> dst]

A      == At("s3", "plain", "a", "all")
ALate  == At("s3", "plain", "a", "late")
AAgain == At("s3", "slash", "a", "late")
B      == At("s3", "plain", "b", "all")
D1     == At("r2", "plain", "d1", "all")
D1Else == At("r2", "slash", "d1", "all")
D2     == At("r2", "plain", "d2", "all")

MCFirst == <<OnePair("x", ALate, D1), OnePair("y", B, D2)>>

MCCandidates ==
    { MCFirst,
      <<OnePair("v", B, D2), OnePair("w", AAgain, D1Else)>>,
      <<OnePair("x", B, D1), OnePair("y", ALate, D2)>>,
      <<OnePair("x", A, D1), OnePair("y", B, D2)>>,
      <<OnePair(NoName, B, D1)>>,
      <<OnePair("x", A, D1), OnePair("y", B, D1Else)>>,
      <<OnePair("x", A, D1), OnePair("y", D1Else, D2)>> }

MCUnder == [x \in {"all", "late"} |-> IF x = "all" THEN Key ELSE {K}]
===============================================================================
