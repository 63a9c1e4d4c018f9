---------------------------- MODULE MCAssetAnalysis ----------------------------
(* Asset 1 is the post analyzer's, 2 is new with the first run, and 3 was imported by hand *)
(* while that run went on.  The cron makes two runs, beside them an admin's endpoint or    *)
(* the script works through one stage.                                                     *)
EXTENDS AssetAnalysis

MCAssets == 1..3
TwoRuns  == << <<"fresh", "backlog", "posts", "evidence">>, <<"backlog">> >>
MCSchedules == {[w \in Workers |-> IF w = "cron" THEN TwoRuns ELSE << <<k>> >>] :
                k \in {"single", "failed", "tranche", "force"}}

Stored(k) == [status |-> "pending", ev |-> IF k THEN "captured" ELSE "fetch_failed",
              key |-> k, text |-> FALSE]
MCInitTables == {[row  |-> [a \in Assets |-> IF a \in Own THEN None ELSE Stored(a \in K)],
                  post |-> {}] : K \in SUBSET (Assets \ Own)}
===============================================================================
