------------------------------ MODULE SingleRunLock ------------------------------
(* What the cron promises about its runs, whatever happens to the processes that     *)
(* execute them: one run at a time holds the pipeline, from the moment its row is     *)
(* inserted until its status is final and nobody works on it any more, and a run that *)
(* has ended is never taken up again.                                                 *)

CONSTANTS Runs,
          NoRun      \* a value that is not a run

VARIABLES holder,     \* the run that holds the pipeline, or NoRun
          finished    \* the runs that have ended

lockVars == <<holder, finished>>

LockInit == holder = NoRun /\ finished = {}

Acquire(r) ==
    /\ holder = NoRun
    /\ r \notin finished
    /\ holder' = r
    /\ UNCHANGED finished

Release ==
    /\ holder # NoRun
    /\ finished' = finished \cup {holder}
    /\ holder' = NoRun

LockNext == Release \/ \E r \in Runs : Acquire(r)

LockSafety == LockInit /\ [][LockNext]_lockVars
LockSpec == LockSafety /\ WF_lockVars(Release)
==================================================================================
