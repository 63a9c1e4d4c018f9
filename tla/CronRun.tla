-------------------------------- MODULE CronRun --------------------------------
(* The life of a weekly cron run: the rows of creative_radar.cron_run, the 60 s tick  *)
(* of the in-process scheduler, POST /api/cron/sync-all, the reaper both of them      *)
(* start with, and the background task under its total timeout                        *)
(* (backend/app/api/cron.py, backend/app/services/cron_scheduler.py).                 *)
(*                                                                                    *)
(* A web process is one asyncio event loop, so the read part (Check) and the write    *)
(* part (Insert) of a handler interleave with other processes and with a crash, never *)
(* with another handler of the same process. Time is counted in units; ages are       *)
(* capped where no comparison can tell them apart any more, and the position in the   *)
(* week is cyclic, so that the system runs for ever.                                  *)
EXTENDS Naturals, FiniteSets

CONSTANTS Procs,          \* web processes (successive or overlapping deployments)
          Runs,           \* identities of cron_run rows (bounds the number of runs)
          WeekLen,        \* time units in a week; unit 0 starts Monday 00:00 UTC
          WindowStart,    \* first unit of the trigger window
          WindowEnd,      \* first unit after it
          ReapTimeout,    \* CRON_RUN_TIMEOUT_MINUTES
          TotalTimeout,   \* CRON_TOTAL_RUN_TIMEOUT_SECONDS
          StartDelay,     \* longest lag from the INSERT to the start of the task
          Overlap         \* may a new deployment start before the old one stops?

ASSUME TimeAssumption ==
    /\ WeekLen \in Nat /\ WindowStart \in Nat /\ WindowEnd \in Nat
    /\ WindowStart < WindowEnd /\ WindowEnd <= WeekLen
    /\ ReapTimeout \in Nat \ {0} /\ TotalTimeout \in Nat \ {0} /\ StartDelay \in Nat
    /\ Overlap \in BOOLEAN

VARIABLES up,          \* up[p]: process p is alive
          pc,          \* pc[p]: "loop", or the trigger whose INSERT is next
          row,         \* row[r]: CronRun.status, "none" before the INSERT
          age,         \* age[r]: now - CronRun.started_at, while the row is running
          week,        \* week[r]: started_at >= Monday 00:00 UTC of this week
          origin,      \* origin[r]: the trigger that inserted the row
          task,        \* task[r]: the background task of the run
          owner,       \* owner[r]: the process it runs in
          elapsed,     \* elapsed[r]: time since asyncio.wait_for started
          clock,       \* position in the week
          windowTick   \* observer: a tick in this week's window came to a decision

rowVars == <<row, age, week, origin>>
taskVars == <<task, owner, elapsed>>
vars == <<up, pc, rowVars, taskVars, clock, windowTick>>

Triggers == {"sched", "api"}
Final == {"completed", "failed", "error", "budget_exceeded"}
AgeCap == ReapTimeout + 1

\* The states of a background task: added but not started, inside the pipeline, row
\* written and heartbeat ping under way, and a worker thread that asyncio.wait_for
\* could not stop.
TaskStates == {"none", "queued", "active", "ping", "zombie"}
Working(r) == task[r] \in {"queued", "active"}

TypeOK ==
    /\ up \in [Procs -> BOOLEAN]
    /\ pc \in [Procs -> {"loop"} \cup Triggers]
    /\ row \in [Runs -> {"none", "running"} \cup Final]
    /\ age \in [Runs -> 0..AgeCap]
    /\ week \in [Runs -> BOOLEAN]
    /\ origin \in [Runs -> Triggers]
    /\ task \in [Runs -> TaskStates]
    /\ owner \in [Runs -> Procs]
    /\ elapsed \in [Runs -> 0..TotalTimeout]
    /\ clock \in 0..WeekLen
    /\ windowTick \in BOOLEAN

Init ==
    /\ up = [p \in Procs |-> FALSE]
    /\ pc = [p \in Procs |-> "loop"]
    /\ row = [r \in Runs |-> "none"]
    /\ age = [r \in Runs |-> 0]
    /\ week = [r \in Runs |-> FALSE]
    /\ origin = [r \in Runs |-> "api"]
    /\ task = [r \in Runs |-> "none"]
    /\ owner \in [Runs -> Procs]
    /\ elapsed = [r \in Runs |-> 0]
    /\ clock = 0
    /\ windowTick = FALSE

-----------------------------------------------------------------------------------
(* Processes and time. *)

\* A deployment or a restart: the lifespan handler starts the scheduler loop.
StartProc(p) ==
    /\ ~up[p]
    /\ Overlap \/ \A q \in Procs : ~up[q]
    /\ up' = [up EXCEPT ![p] = TRUE]
    /\ UNCHANGED <<pc, rowVars, taskVars, clock, windowTick>>

\* A redeploy or a crash kills the process with its tasks and threads; the rows stay.
Crash(p) ==
    /\ up[p]
    /\ up' = [up EXCEPT ![p] = FALSE]
    /\ pc' = [pc EXCEPT ![p] = "loop"]
    /\ task' = [r \in Runs |-> IF owner[r] = p THEN "none" ELSE task[r]]
    /\ elapsed' = [r \in Runs |-> IF owner[r] = p THEN 0 ELSE elapsed[r]]
    /\ UNCHANGED <<rowVars, owner, clock, windowTick>>

Capped(n, cap) == IF n < cap THEN n + 1 ELSE cap

\* One unit passes. The steps of one handler take no time, and a queued task starts
\* within StartDelay; a loop that is busy may be late for everything else.
Advance ==
    /\ \A p \in Procs : pc[p] = "loop"
    /\ \A r \in Runs : task[r] = "queued" => age[r] < StartDelay
    /\ age' = [r \in Runs |-> IF row[r] = "running" THEN Capped(age[r], AgeCap) ELSE age[r]]
    /\ elapsed' = [r \in Runs |-> IF task[r] \in {"active", "ping"}
                                     THEN Capped(elapsed[r], TotalTimeout) ELSE elapsed[r]]
    /\ LET monday == clock + 1 >= WeekLen IN
         /\ clock' = IF monday THEN 0 ELSE clock + 1
         /\ week' = [r \in Runs |-> week[r] /\ ~monday]
         /\ windowTick' = (windowTick /\ ~monday)
    /\ UNCHANGED <<up, pc, row, origin, task, owner>>

-----------------------------------------------------------------------------------
(* The two triggers. *)

SomeRunning(rows) == \E r \in Runs : rows[r] = "running"

\* is_trigger_window
InWindow == WindowStart <= clock /\ clock < WindowEnd
\* already_triggered_this_week: any row counts, whatever its origin and status.
MUT_AlreadyTriggered == SomeRunning(row)
AlreadyTriggeredThisWeek == \E r \in Runs : row[r] # "none" /\ week[r]

\* _reap_stale_runs: started_at < now - CRON_RUN_TIMEOUT_MINUTES.
MUT_Stale(r) == row[r] = "running" /\ age[r] >= TotalTimeout
Stale(r) == row[r] = "running" /\ age[r] > ReapTimeout
MUT_NeverReap == row
ReapStaleRuns == [r \in Runs |-> IF Stale(r) THEN "failed" ELSE row[r]]

\* asyncio serves the timers that are due before the scheduler's next tick.
TimerDue(p) ==
    \E r \in Runs : task[r] \in {"active", "ping"} /\ owner[r] = p /\ elapsed[r] >= TotalTimeout

\* maybe_trigger_scheduled_run and cron_sync_all up to their INSERT: reap, then look
\* for a running row (409 in the handler, return False in the tick).
MUT_Allowed(k, rows) == k = "sched" => InWindow /\ ~AlreadyTriggeredThisWeek
Allowed(k, rows) ==
    /\ ~SomeRunning(rows)
    /\ k = "sched" => InWindow /\ ~AlreadyTriggeredThisWeek

\* The bound on the number of runs: without a free identity the INSERT fails.
SomeFree == \E r \in Runs : row[r] = "none"

Check(p, k) ==
    /\ up[p] /\ pc[p] = "loop" /\ ~TimerDue(p)
    /\ row' = ReapStaleRuns
    /\ pc' = [pc EXCEPT ![p] = IF Allowed(k, row') /\ SomeFree THEN k ELSE "loop"]
    /\ windowTick' = (windowTick \/ (k = "sched" /\ InWindow /\ ~Allowed(k, row')))
    /\ UNCHANGED <<up, age, week, origin, taskVars, clock>>

\* The INSERT of the row and the hand-over to the background task.
Insert(p) ==
    /\ pc[p] \in Triggers
    /\ \E r \in Runs :
         /\ row[r] = "none"
         /\ row' = [row EXCEPT ![r] = "running"]
         /\ age' = [age EXCEPT ![r] = 0]
         /\ week' = [week EXCEPT ![r] = TRUE]
         /\ origin' = [origin EXCEPT ![r] = pc[p]]
         /\ task' = [task EXCEPT ![r] = "queued"]
         /\ owner' = [owner EXCEPT ![r] = p]
         /\ elapsed' = [elapsed EXCEPT ![r] = 0]
    /\ windowTick' = (windowTick \/ pc[p] = "sched")
    /\ pc' = [pc EXCEPT ![p] = "loop"]
    /\ UNCHANGED <<up, clock>>

\* The INSERT fails: the tick is logged and the loop goes on, the handler answers 500.
InsertFails(p) ==
    /\ pc[p] \in Triggers
    /\ pc' = [pc EXCEPT ![p] = "loop"]
    /\ UNCHANGED <<up, rowVars, taskVars, clock, windowTick>>

-----------------------------------------------------------------------------------
(* The background task; CronPipeline is shown to act as RunTask, which is this for one *)
(* run. *)

\* _run_cron_sync_background enters asyncio.wait_for.
StartTask(r) ==
    /\ task[r] = "queued"
    /\ task' = [task EXCEPT ![r] = "active"]
    /\ elapsed' = [elapsed EXCEPT ![r] = 0]
    /\ UNCHANGED <<up, pc, rowVars, owner, clock, windowTick>>

\* The pipeline ends and writes its status, whatever the row holds by now.
Finish(r) ==
    /\ task[r] = "active"
    /\ \E s \in {"completed", "failed", "budget_exceeded"} : row' = [row EXCEPT ![r] = s]
    /\ task' = [task EXCEPT ![r] = "ping"]
    /\ UNCHANGED <<up, pc, age, week, origin, owner, elapsed, clock, windowTick>>

\* The heartbeat ping returns; the thread of a stage that was given up may go on.
Pinged(r) ==
    /\ task[r] = "ping"
    /\ \E t \in {"none", "zombie"} : task' = [task EXCEPT ![r] = t]
    /\ elapsed' = [elapsed EXCEPT ![r] = 0]
    /\ UNCHANGED <<up, pc, rowVars, owner, clock, windowTick>>

\* The pipeline's own error handler cannot commit (a broken session or connection):
\* the task ends and leaves the row as it is.
Die(r) ==
    /\ task[r] = "active"
    /\ \E t \in {"none", "zombie"} : task' = [task EXCEPT ![r] = t]
    /\ elapsed' = [elapsed EXCEPT ![r] = 0]
    /\ UNCHANGED <<up, pc, rowVars, owner, clock, windowTick>>

\* The total timeout: only a row that is still running becomes "error"; the thread of
\* the current stage, if there is one, cannot be stopped.
MUT_ErrorRow(r) == [row EXCEPT ![r] = "error"]
ErrorRow(r) == [row EXCEPT ![r] = IF row[r] = "running" THEN "error" ELSE row[r]]

TotalTimeoutFires(r) ==
    /\ task[r] \in {"active", "ping"} /\ elapsed[r] >= TotalTimeout
    /\ row' = ErrorRow(r)
    /\ \E t \in {"none", "zombie"} : task' = [task EXCEPT ![r] = t]
    /\ elapsed' = [elapsed EXCEPT ![r] = 0]
    /\ UNCHANGED <<up, pc, age, week, origin, owner, clock, windowTick>>

\* The abandoned thread returns from its stage; the stages after it never run.
ZombieEnds(r) ==
    /\ task[r] = "zombie"
    /\ task' = [task EXCEPT ![r] = "none"]
    /\ UNCHANGED <<up, pc, rowVars, owner, elapsed, clock, windowTick>>

ProcNext(p) ==
    \/ StartProc(p) \/ Crash(p)
    \/ \E k \in Triggers : Check(p, k)
    \/ Insert(p) \/ InsertFails(p)

TaskNext(r) ==
    \/ StartTask(r) \/ Finish(r) \/ Pinged(r) \/ Die(r)
    \/ TotalTimeoutFires(r) \/ ZombieEnds(r)

Next == Advance \/ (\E p \in Procs : ProcNext(p)) \/ (\E r \in Runs : TaskNext(r))

Spec == Init /\ [][Next]_vars

\* Time passes, a stopped process is restarted (restartPolicyType ON_FAILURE), the loop
\* gets its turn, and ticks succeed again and again; nothing is assumed of the pipeline,
\* which may hang, nor of the crashes, which may go on for ever.
Fairness ==
    /\ SF_vars(Advance)
    /\ \A r \in Runs : WF_vars(StartTask(r)) /\ WF_vars(TotalTimeoutFires(r))
    /\ WF_vars(\E p \in Procs : StartProc(p))
    /\ WF_vars(\E p \in Procs : Insert(p) \/ InsertFails(p))
    /\ SF_vars(\E p \in Procs : Check(p, "sched"))

FairSpec == Spec /\ Fairness

-----------------------------------------------------------------------------------
(* Properties. *)

\* What the lock needs of its configuration: deployments do not overlap, and the reaper's
\* limit lies above the total timeout (VORFALL_2026-08-10_CRON_TIMEOUT.md:77).
SafeTimeouts == TotalTimeout + StartDelay <= ReapTimeout /\ ~Overlap
\* What the Monday run needs on top of it.
ReapBeforeWindow == ReapTimeout <= WindowStart

\* The single-run lock (cron.py:11, "a single-run lock prevents parallel triggers"): at
\* most one background task is inside the pipeline, or about to enter it.
AtMostOneWorking == \A r, s \in Runs : Working(r) /\ Working(s) => r = s

\* The reaper never declares a run dead that is still working
\* (docs/VORFALL_2026-08-10_CRON_TIMEOUT.md:77): while a task works its row is running.
NoFalseDeath == \A r \in Runs : Working(r) => row[r] = "running"

\* The inductive strengthening of the two: one process lives and only in it do tasks and
\* half-done handlers exist; whoever is about to INSERT saw no running row and nobody
\* else can have added one; and a task that is not due yet is younger than the reaper's
\* limit, because its row is at most StartDelay older than its wait_for.
OneProcess == \A p, q \in Procs : up[p] /\ up[q] => p = q
TasksAlive == \A r \in Runs : task[r] # "none" => up[owner[r]]
InsertReady == \A p \in Procs : pc[p] # "loop" => up[p] /\ ~SomeRunning(row)
OneRunning == \A r, s \in Runs : row[r] = "running" /\ row[s] = "running" => r = s
AgeBound ==
    \A r \in Runs :
        /\ task[r] = "queued" => age[r] <= StartDelay
        /\ task[r] = "active" /\ elapsed[r] < TotalTimeout => age[r] <= elapsed[r] + StartDelay
LockInv ==
    OneProcess /\ TasksAlive /\ InsertReady /\ OneRunning /\ AgeBound /\ NoFalseDeath

\* A final status is final: no late finisher, timeout or reaper rewrites it.
StatusIsFinal ==
    [][\A r \in Runs : row[r] \in Final => row'[r] = row[r]]_vars

\* The scheduler's week dedup: it starts at most one run per week, and only as the
\* first run of that week.
ScheduledOncePerWeek ==
    [][\A r, s \in Runs : (row[r] = "none" /\ row'[r] = "running" /\ origin'[r] = "sched")
                            => ~(row[s] # "none" /\ week[s])]_vars

\* Its inductive strengthening: a tick that is about to INSERT is in a week without a run.
SchedReady == \A p \in Procs : pc[p] = "sched" => ~AlreadyTriggeredThisWeek

\* A week whose trigger window saw a tick that came to a decision has a run: a hung or
\* killed run of the week before never blocks Monday (cron.py:1980-1984).
MondayNotBlocked == windowTick => AlreadyTriggeredThisWeek

\* No run stays on "running" for ever (entities.py:512, cron_scheduler.py:96-99).
EveryRunEnds == \A r \in Runs : (row[r] = "running") ~> (row[r] # "running")

\* The run that holds the pipeline, for the refinement.
Holds(r) == row[r] = "running" \/ Working(r)
NoRun == "no run"
Holder == IF \E r \in Runs : Holds(r) THEN CHOOSE r \in Runs : Holds(r) ELSE NoRun
Finished == {r \in Runs : row[r] \in Final /\ ~Holds(r)}
Lock == INSTANCE SingleRunLock WITH holder <- Holder, finished <- Finished
\* The cron implements the single-run lock: rows, tasks and timeouts together behave as
\* one lock that is taken by the INSERT, released with the final status, and, under the
\* fairness of the loop, always released.
ImplementsFairLock == Lock!LockSpec
================================================================================
