--------------------------- MODULE MCBriefGeneration ---------------------------
(* TLC's instances of BriefGeneration. *)
EXTENDS BriefGeneration, TLC
CONSTANTS w1, w2, pA, pB
TwoPairs == <<pA, pB>>
OneProcess == [w \in Workers |-> "web"]
================================================================================
