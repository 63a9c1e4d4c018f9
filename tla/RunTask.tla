-------------------------------- MODULE RunTask --------------------------------
(* The contract between a cron run's pipeline and everything that reasons about runs: *)
(* how one run's row and its background task can change, whatever the pipeline does   *)
(* inside. CronRun's task actions are these, for each of its runs; CronPipeline, which *)
(* models the stages, is shown to keep them.                                          *)
EXTENDS Naturals

CONSTANT TotalTimeout

VARIABLES row,       \* CronRun.status
          task,      \* "active" in the pipeline, "ping", "none", or "zombie": a thread
                     \* of the pipeline that outlives it
          elapsed    \* time since asyncio.wait_for started

taskVars == <<row, task, elapsed>>

Final == {"completed", "failed", "error", "budget_exceeded"}

TaskInit == row = "running" /\ task = "active" /\ elapsed = 0

TimePasses ==
    /\ task \in {"active", "ping"} /\ elapsed < TotalTimeout
    /\ elapsed' = elapsed + 1
    /\ UNCHANGED <<row, task>>

\* The pipeline writes its own status; "error" is the timeout's.
WritesStatus ==
    /\ task = "active"
    /\ row' \in Final \ {"error"}
    /\ task' = "ping"
    /\ UNCHANGED elapsed

PingReturns ==
    /\ task = "ping"
    /\ task' \in {"none", "zombie"}
    /\ UNCHANGED <<row, elapsed>>

\* The task ends without writing a status.
Dies ==
    /\ task = "active"
    /\ task' \in {"none", "zombie"}
    /\ UNCHANGED <<row, elapsed>>

TimesOut ==
    /\ task \in {"active", "ping"} /\ elapsed = TotalTimeout
    /\ row' = IF row = "running" THEN "error" ELSE row
    /\ task' \in {"none", "zombie"}
    /\ UNCHANGED elapsed

ThreadReturns ==
    /\ task = "zombie"
    /\ task' = "none"
    /\ UNCHANGED <<row, elapsed>>

TaskNext == TimePasses \/ WritesStatus \/ PingReturns \/ Dies \/ TimesOut \/ ThreadReturns

TaskSpec == TaskInit /\ [][TaskNext]_taskVars
=================================================================================
