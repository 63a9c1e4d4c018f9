---------------------------- MODULE MCWeeklyProducts ----------------------------
(* A small week. The designer's briefing is made like the cutter's, and a title brief like *)
(* a roundup that is asked for: neither has an item of its own.                            *)
EXTENDS WeeklyProducts, TLC

CONSTANTS w1, w2, roundup1, forecast1, cutter1, pattern1, snapshot1

SmallWeek == {roundup1, forecast1, cutter1, pattern1, snapshot1}
KindOfItem == (roundup1 :> "roundup") @@ (forecast1 :> "forecast") @@ (cutter1 :> "cutter")
              @@ (pattern1 :> "pattern") @@ (snapshot1 :> "snapshot")
Alike == Permutations(Workers)
=================================================================================
