----------------------------- MODULE MC_ImageStore -----------------------------
(* One bucket of images, written in two ways and narrowed to a prefix, and a    *)
(* second bucket.                                                               *)
EXTENDS ImageStore

At(how, b, x) == [endpoint |-> [host |-> "s3", spelling |-> how], bucket |-> b, prefix |-> x]

MCFirst == At("plain", "a", "all")
MCInput == {MCFirst, At("slash", "a", "all"), At("plain", "b", "all"), At("plain", "a", "none")}
MCUnder == [x \in {"all", "none"} |-> IF x = "all" THEN Key ELSE {}]
================================================================================
