----------------------------- MODULE CronRunProofs -----------------------------
(* Theorems about CronRun for every set of processes and runs and every length of the *)
(* week, the window and the timeouts.                                                 *)
EXTENDS CronRun, TLAPS

\* The type invariant: every operation keeps each variable in its range.
THEOREM TypeCorrect == Spec => []TypeOK
<1>1. Init => TypeOK
  <2> SUFFICES ASSUME Init PROVE TypeOK
    OBVIOUS
  <2>1. 0 \in 0..AgeCap /\ 0 \in 0..TotalTimeout /\ 0 \in 0..WeekLen
    BY TimeAssumption DEF AgeCap
  <2> QED
    BY <2>1 DEF Init, TypeOK, Triggers, TaskStates
<1>2. TypeOK /\ [Next]_vars => TypeOK'
  <2> SUFFICES ASSUME TypeOK, [Next]_vars PROVE TypeOK'
    OBVIOUS
  <2> USE DEF TypeOK, Triggers, TaskStates, Final, rowVars, taskVars
  <2>1. CASE Advance
    BY <2>1, TimeAssumption DEF Advance, Capped, AgeCap
  <2>2. ASSUME NEW p \in Procs, StartProc(p) PROVE TypeOK'
    BY <2>2 DEF StartProc
  <2>3. ASSUME NEW p \in Procs, Crash(p) PROVE TypeOK'
    BY <2>3, TimeAssumption DEF Crash
  <2>4. ASSUME NEW p \in Procs, NEW k \in Triggers, Check(p, k) PROVE TypeOK'
    <3>1. row' \in [Runs -> {"none", "running"} \cup Final]
      BY <2>4 DEF Check, ReapStaleRuns
    <3> QED
      BY <2>4, <3>1 DEF Check
  <2>5. ASSUME NEW p \in Procs, Insert(p) PROVE TypeOK'
    <3>1. pc[p] \in Triggers
      BY <2>5 DEF Insert
    <3> QED
      BY <2>5, <3>1, TimeAssumption DEF Insert, AgeCap
  <2>6. ASSUME NEW p \in Procs, InsertFails(p) PROVE TypeOK'
    BY <2>6 DEF InsertFails
  <2>7. ASSUME NEW r \in Runs, StartTask(r) PROVE TypeOK'
    BY <2>7, TimeAssumption DEF StartTask
  <2>8. ASSUME NEW r \in Runs, Finish(r) PROVE TypeOK'
    BY <2>8 DEF Finish
  <2>9. ASSUME NEW r \in Runs, Pinged(r) PROVE TypeOK'
    BY <2>9, TimeAssumption DEF Pinged
  <2>10. ASSUME NEW r \in Runs, Die(r) PROVE TypeOK'
    BY <2>10, TimeAssumption DEF Die
  <2>11. ASSUME NEW r \in Runs, TotalTimeoutFires(r) PROVE TypeOK'
    BY <2>11, TimeAssumption DEF TotalTimeoutFires, ErrorRow
  <2>12. ASSUME NEW r \in Runs, ZombieEnds(r) PROVE TypeOK'
    BY <2>12 DEF ZombieEnds
  <2>13. CASE UNCHANGED vars
    BY <2>13 DEF vars
  <2> QED
    BY <2>1, <2>2, <2>3, <2>4, <2>5, <2>6, <2>7, <2>8, <2>9, <2>10, <2>11, <2>12, <2>13
       DEF Next, ProcNext, TaskNext
<1> QED
  BY <1>1, <1>2, PTL DEF Spec

-----------------------------------------------------------------------------------
\* The reaper cannot hit a row whose task works: the task is not due (a due timer is
\* served before the tick), so its row is younger than the reaper's limit.
LEMMA WorkingIsYoung ==
    ASSUME SafeTimeouts, TypeOK, LockInv, NEW p \in Procs, up[p], ~TimerDue(p),
           NEW r \in Runs, Working(r)
    PROVE  ~Stale(r)
<1> USE DEF TypeOK, LockInv, AgeBound
<1>1. CASE task[r] = "queued"
  BY <1>1, TimeAssumption DEF SafeTimeouts, Stale, AgeCap
<1>2. CASE task[r] = "active"
  <2>1. owner[r] = p
    BY <1>2 DEF TasksAlive, OneProcess
  <2>2. elapsed[r] < TotalTimeout
    BY <1>2, <2>1, TimeAssumption DEF TimerDue
  <2> QED
    BY <1>2, <2>2, TimeAssumption DEF SafeTimeouts, Stale, AgeCap
<1> QED
  BY <1>1, <1>2 DEF Working

\* The strengthening is inductive: every operation preserves it.
LEMMA LockInvStep ==
    ASSUME SafeTimeouts, TypeOK, TypeOK', LockInv, [Next]_vars
    PROVE  LockInv'
<1> USE DEF LockInv, rowVars, taskVars
<1>1. CASE Advance
  <2>1. OneProcess' /\ TasksAlive' /\ InsertReady' /\ OneRunning' /\ NoFalseDeath'
    BY <1>1 DEF Advance, OneProcess, TasksAlive, InsertReady, SomeRunning, OneRunning,
                NoFalseDeath, Working
  <2>2. ASSUME NEW r \in Runs, task[r] = "queued" PROVE age'[r] <= StartDelay
    BY <1>1, <2>2, TimeAssumption DEF Advance, Capped, TypeOK, AgeCap, SafeTimeouts
  <2>3. ASSUME NEW r \in Runs, task[r] = "active", elapsed'[r] < TotalTimeout
        PROVE  age'[r] <= elapsed'[r] + StartDelay
    <3>1. elapsed[r] < TotalTimeout /\ elapsed'[r] = elapsed[r] + 1
      BY <1>1, <2>3, TimeAssumption DEF Advance, Capped, TypeOK
    <3>2. age'[r] <= age[r] + 1
      BY <1>1, TimeAssumption DEF Advance, Capped, TypeOK, AgeCap
    <3>3. age[r] <= elapsed[r] + StartDelay
      BY <2>3, <3>1 DEF AgeBound
    <3> QED
      BY <3>1, <3>2, <3>3, TimeAssumption DEF TypeOK, AgeCap
  <2>4. AgeBound'
    BY <1>1, <2>2, <2>3 DEF AgeBound, Advance
  <2> QED
    BY <2>1, <2>4
<1>2. ASSUME NEW p \in Procs, StartProc(p) PROVE LockInv'
  BY <1>2 DEF StartProc, SafeTimeouts, TypeOK, OneProcess, TasksAlive, InsertReady,
              SomeRunning, OneRunning, AgeBound, NoFalseDeath, Working
<1>3. ASSUME NEW p \in Procs, Crash(p) PROVE LockInv'
  BY <1>3 DEF Crash, TypeOK, OneProcess, TasksAlive, InsertReady, SomeRunning, OneRunning,
              AgeBound, NoFalseDeath, Working
<1>4. ASSUME NEW p \in Procs, NEW k \in Triggers, Check(p, k) PROVE LockInv'
  <2>1. \A r \in Runs : Working(r) => row'[r] = row[r]
    BY <1>4, WorkingIsYoung DEF Check, ReapStaleRuns
  <2>2. \A r \in Runs : row'[r] = "running" => row[r] = "running"
    BY <1>4 DEF Check, ReapStaleRuns
  <2>3. \A q \in Procs : pc'[q] # "loop" => up[q] /\ ~SomeRunning(row')
    BY <1>4, <2>2 DEF Check, Allowed, InsertReady, SomeRunning, TypeOK
  <2>4. InsertReady'
    BY <1>4, <2>3 DEF Check, InsertReady, SomeRunning
  <2> QED
    BY <1>4, <2>1, <2>2, <2>4
       DEF Check, OneProcess, TasksAlive, OneRunning, AgeBound, NoFalseDeath, Working
<1>5. ASSUME NEW p \in Procs, Insert(p) PROVE LockInv'
  <2>1. up[p] /\ ~SomeRunning(row)
    BY <1>5 DEF Insert, InsertReady, Triggers
  <2>2. \A q \in Procs : q # p => pc[q] = "loop"
    BY <2>1 DEF InsertReady, OneProcess
  <2>3. InsertReady'
    BY <1>5, <2>2 DEF Insert, InsertReady, TypeOK
  <2>4. \A r \in Runs : ~Working(r)
    BY <2>1 DEF NoFalseDeath, SomeRunning
  <2>5. PICK r \in Runs : /\ row' = [row EXCEPT ![r] = "running"]
                          /\ age' = [age EXCEPT ![r] = 0]
                          /\ task' = [task EXCEPT ![r] = "queued"]
                          /\ owner' = [owner EXCEPT ![r] = p]
                          /\ elapsed' = [elapsed EXCEPT ![r] = 0]
                          /\ up' = up
    BY <1>5 DEF Insert
  <2>6. OneProcess' /\ TasksAlive' /\ OneRunning' /\ NoFalseDeath'
    BY <2>1, <2>4, <2>5
       DEF OneProcess, TasksAlive, OneRunning, NoFalseDeath, Working, SomeRunning, TypeOK
  <2>7. AgeBound'
    BY <2>5, TimeAssumption DEF AgeBound, TypeOK
  <2> QED
    BY <2>3, <2>6, <2>7
<1>6. ASSUME NEW p \in Procs, InsertFails(p) PROVE LockInv'
  BY <1>6 DEF InsertFails, TypeOK, OneProcess, TasksAlive, InsertReady, SomeRunning,
              OneRunning, AgeBound, NoFalseDeath, Working
<1>7. ASSUME NEW r \in Runs, StartTask(r) PROVE LockInv'
  BY <1>7, TimeAssumption
     DEF StartTask, TypeOK, OneProcess, TasksAlive, InsertReady, SomeRunning, OneRunning,
         AgeBound, NoFalseDeath, Working
<1>8. ASSUME NEW r \in Runs, Finish(r) PROVE LockInv'
  <2>1. PICK s \in {"completed", "failed", "budget_exceeded"} : row' = [row EXCEPT ![r] = s]
    BY <1>8 DEF Finish
  <2> QED
    BY <1>8, <2>1 DEF Finish, TypeOK, OneProcess, TasksAlive, InsertReady, SomeRunning,
                      OneRunning, AgeBound, NoFalseDeath, Working
<1>9. ASSUME NEW r \in Runs, Pinged(r) PROVE LockInv'
  BY <1>9 DEF Pinged, TypeOK, OneProcess, TasksAlive, InsertReady, SomeRunning, OneRunning,
              AgeBound, NoFalseDeath, Working
<1>10. ASSUME NEW r \in Runs, Die(r) PROVE LockInv'
  BY <1>10 DEF Die, TypeOK, OneProcess, TasksAlive, InsertReady, SomeRunning, OneRunning,
               AgeBound, NoFalseDeath, Working
<1>11. ASSUME NEW r \in Runs, TotalTimeoutFires(r) PROVE LockInv'
  <2>1. PICK t \in {"none", "zombie"} : task' = [task EXCEPT ![r] = t]
    BY <1>11 DEF TotalTimeoutFires
  <2> QED
    BY <1>11, <2>1 DEF TotalTimeoutFires, ErrorRow, TypeOK, OneProcess, TasksAlive,
                       InsertReady, SomeRunning, OneRunning, AgeBound, NoFalseDeath, Working
<1>12. ASSUME NEW r \in Runs, ZombieEnds(r) PROVE LockInv'
  BY <1>12 DEF ZombieEnds, TypeOK, OneProcess, TasksAlive, InsertReady, SomeRunning,
               OneRunning, AgeBound, NoFalseDeath, Working
<1>13. CASE UNCHANGED vars
  BY <1>13 DEF vars, OneProcess, TasksAlive, InsertReady, SomeRunning, OneRunning, AgeBound,
               NoFalseDeath, Working
<1> QED
  BY <1>1, <1>2, <1>3, <1>4, <1>5, <1>6, <1>7, <1>8, <1>9, <1>10, <1>11, <1>12, <1>13
     DEF Next, ProcNext, TaskNext

LEMMA LockInvInductive == SafeTimeouts /\ Spec => []LockInv
<1>1. Init => LockInv
  BY DEF Init, LockInv, OneProcess, TasksAlive, InsertReady, OneRunning, AgeBound,
         NoFalseDeath, Working
<1>2. SafeTimeouts /\ TypeOK /\ TypeOK' /\ LockInv /\ [Next]_vars => LockInv'
  BY LockInvStep
<1>3. SafeTimeouts => []SafeTimeouts
  <2>1. SafeTimeouts => SafeTimeouts'
    BY DEF SafeTimeouts
  <2> QED
    BY <2>1, PTL
<1> QED
  BY <1>1, <1>2, <1>3, TypeCorrect, PTL DEF Spec

\* The single-run lock: at most one background task is in the pipeline or about to enter
\* it, for every number of runs, crash and restart.
THEOREM MutualExclusion == SafeTimeouts /\ Spec => []AtMostOneWorking
<1>1. LockInv => AtMostOneWorking
  BY DEF LockInv, AtMostOneWorking, NoFalseDeath, OneRunning
<1> QED
  BY <1>1, LockInvInductive, PTL

\* The reaper never declares a working run dead.
THEOREM ReaperIsSafe == SafeTimeouts /\ Spec => []NoFalseDeath
<1>1. LockInv => NoFalseDeath
  BY DEF LockInv
<1> QED
  BY <1>1, LockInvInductive, PTL

\* No step of any actor rewrites a final status.
THEOREM FinalStatus == SafeTimeouts /\ Spec => StatusIsFinal
<1>1. ASSUME TypeOK, LockInv, [Next]_vars, NEW r \in Runs, row[r] \in Final
      PROVE  row'[r] = row[r]
  <2> USE <1>1 DEF TypeOK, Final, rowVars, taskVars
  <2>1. row[r] \notin {"none", "running"}
    OBVIOUS
  <2>2. ASSUME NEW p \in Procs, NEW k \in Triggers, Check(p, k) PROVE row'[r] = row[r]
    BY <2>1, <2>2 DEF Check, ReapStaleRuns, Stale
  <2>3. ASSUME NEW p \in Procs, Insert(p) PROVE row'[r] = row[r]
    BY <2>1, <2>3 DEF Insert
  <2>4. ASSUME NEW s \in Runs, Finish(s) PROVE row'[r] = row[r]
    <3>1. row[s] = "running"
      BY <2>4 DEF Finish, LockInv, NoFalseDeath, Working
    <3> QED
      BY <2>1, <2>4, <3>1 DEF Finish
  <2>5. ASSUME NEW s \in Runs, TotalTimeoutFires(s) PROVE row'[r] = row[r]
    BY <2>1, <2>5 DEF TotalTimeoutFires, ErrorRow
  <2>6. CASE UNCHANGED row
    BY <2>6
  <2> QED
    BY <2>2, <2>3, <2>4, <2>5, <2>6
       DEF Next, ProcNext, TaskNext, Advance, StartProc, Crash, InsertFails, StartTask,
           Pinged, Die, ZombieEnds, vars
<1>2. TypeOK /\ LockInv /\ [Next]_vars
      => [\A r \in Runs : row[r] \in Final => row'[r] = row[r]]_vars
  BY <1>1
<1> QED
  BY <1>2, TypeCorrect, LockInvInductive, PTL DEF Spec, StatusIsFinal

-----------------------------------------------------------------------------------
\* While one process lives, nothing comes between the scheduler's look at the week and its
\* INSERT: no other trigger, and no Monday.
LEMMA SchedReadyStep ==
  ASSUME TypeOK, LockInv, SchedReady, [Next]_vars
  PROVE  SchedReady'
<1> USE DEF SchedReady, AlreadyTriggeredThisWeek, TypeOK
<1>1. CASE Advance
  BY <1>1 DEF Advance
<1>2. ASSUME NEW p \in Procs, Check(p, "sched") \/ Check(p, "api") PROVE SchedReady'
  <2> SUFFICES ASSUME NEW q \in Procs, pc'[q] = "sched"
               PROVE  ~\E r \in Runs : row'[r] # "none" /\ week'[r]
    OBVIOUS
  <2>1. /\ week' = week /\ \A r \in Runs : row'[r] = "none" <=> row[r] = "none"
    BY <1>2 DEF Check, ReapStaleRuns, Stale
  <2>2. CASE q = p
    <3>1. Check(p, "sched") /\ Allowed("sched", row')
      BY <1>2, <2>2 DEF Check
    <3> QED
      BY <2>1, <3>1 DEF Allowed
  <2>3. CASE q # p
    <3>1. pc[q] = "sched"
      BY <1>2, <2>3 DEF Check
    <3> QED
      BY <2>1, <3>1
  <2> QED
    BY <2>2, <2>3
<1>3. ASSUME NEW p \in Procs, Insert(p) PROVE SchedReady'
  <2>1. \A q \in Procs : pc[q] # "loop" => q = p
    BY <1>3 DEF Insert, Triggers, LockInv, InsertReady, OneProcess
  <2>2. \A q \in Procs : pc'[q] = "loop"
    BY <1>3, <2>1 DEF Insert
  <2> QED
    BY <2>2
<1>4. ASSUME NEW p \in Procs, StartProc(p) \/ Crash(p) \/ InsertFails(p) PROVE SchedReady'
  BY <1>4 DEF StartProc, Crash, InsertFails, rowVars
<1>5. ASSUME NEW r \in Runs, TaskNext(r) PROVE SchedReady'
  <2>1. UNCHANGED <<pc, week>>
    BY <1>5 DEF TaskNext, StartTask, Finish, Pinged, Die, TotalTimeoutFires, ZombieEnds,
                rowVars
  <2>2. \A s \in Runs : row[s] = "none" => row'[s] = "none"
    <3>1. CASE Finish(r)
      <4>1. row[r] = "running"
        BY <3>1 DEF Finish, LockInv, NoFalseDeath, Working
      <4> QED
        BY <3>1, <4>1 DEF Finish
    <3>2. CASE TotalTimeoutFires(r)
      BY <3>2 DEF TotalTimeoutFires, ErrorRow
    <3>3. CASE StartTask(r) \/ Pinged(r) \/ Die(r) \/ ZombieEnds(r)
      BY <3>3 DEF StartTask, Pinged, Die, ZombieEnds, rowVars
    <3> QED
      BY <1>5, <3>1, <3>2, <3>3 DEF TaskNext
  <2> QED
    BY <2>1, <2>2
<1>6. CASE UNCHANGED vars
  BY <1>6 DEF vars, rowVars
<1> QED
  BY <1>1, <1>2, <1>3, <1>4, <1>5, <1>6 DEF Next, ProcNext, Triggers

\* The week dedup: the scheduler starts a run only as the first of its week.
THEOREM OnePerWeek == SafeTimeouts /\ Spec => ScheduledOncePerWeek
<1>1. Init => SchedReady
  BY DEF Init, SchedReady
<1>2. TypeOK /\ LockInv /\ SchedReady /\ [Next]_vars => SchedReady'
  BY SchedReadyStep
<1> DEFINE Dedup == \A r, s \in Runs :
                       (row[r] = "none" /\ row'[r] = "running" /\ origin'[r] = "sched")
                         => ~(row[s] # "none" /\ week[s])
<1>3. ASSUME TypeOK, LockInv, SchedReady, [Next]_vars PROVE Dedup
  <2> SUFFICES ASSUME NEW r \in Runs, row[r] = "none", row'[r] = "running",
                      origin'[r] = "sched"
               PROVE  ~AlreadyTriggeredThisWeek
    BY DEF AlreadyTriggeredThisWeek
  <2> USE <1>3 DEF TypeOK, Final, rowVars, taskVars
  <2>1. ASSUME NEW p \in Procs, Insert(p) PROVE ~AlreadyTriggeredThisWeek
    <3>1. pc[p] = "sched"
      BY <2>1 DEF Insert
    <3> QED
      BY <3>1 DEF SchedReady
  <2>2. ASSUME NEW p \in Procs, NEW k \in Triggers, Check(p, k) PROVE FALSE
    BY <2>2 DEF Check, ReapStaleRuns, Stale
  <2>3. ASSUME NEW s \in Runs, Finish(s) PROVE FALSE
    BY <2>3 DEF Finish, LockInv, NoFalseDeath, Working
  <2>4. ASSUME NEW s \in Runs, TotalTimeoutFires(s) PROVE FALSE
    BY <2>4 DEF TotalTimeoutFires, ErrorRow
  <2>5. CASE UNCHANGED row
    BY <2>5
  <2> QED
    BY <2>1, <2>2, <2>3, <2>4, <2>5
       DEF Next, ProcNext, TaskNext, Advance, StartProc, Crash, InsertFails, StartTask,
           Pinged, Die, ZombieEnds, vars
<1>4. TypeOK /\ LockInv /\ SchedReady /\ [Next]_vars => [Dedup]_vars
  BY <1>3
<1> QED
  BY <1>1, <1>2, <1>4, TypeCorrect, LockInvInductive, PTL DEF Spec, ScheduledOncePerWeek

-----------------------------------------------------------------------------------
(* Monday.  What a tick in the window can stumble over is a row that still runs.          *)

\* A run of the week before that is still "running" is older than the week, or as old as
\* ages are told apart.
OldIsOld == \A r \in Runs : row[r] = "running" /\ ~week[r] => age[r] > clock \/ age[r] = AgeCap

\* So in the window it is older than the reaper's limit: a running row that the reaper has
\* left alone is a run of this week.
LEMMA RunningIsOfThisWeek ==
  ASSUME ReapBeforeWindow, TypeOK, OldIsOld, InWindow,
         NEW r \in Runs, row[r] = "running", ~Stale(r)
  PROVE  week[r]
  BY TimeAssumption DEF ReapBeforeWindow, TypeOK, OldIsOld, InWindow, Stale, AgeCap

\* What the week's dedup looks at is lost only on Monday.
LEMMA RowsStay ==
  ASSUME TypeOK, [Next]_vars, ~Advance
  PROVE  \A r \in Runs :
           /\ row[r] # "none" => row'[r] # "none" /\ week'[r] = week[r]
           /\ row'[r] = "running" =>
                \/ row[r] = "running" /\ UNCHANGED <<week[r], age[r], clock>>
                \/ week'[r]
<1> USE DEF TypeOK, rowVars, taskVars
<1>1. ASSUME NEW p \in Procs, StartProc(p) \/ Crash(p) \/ InsertFails(p)
      PROVE  UNCHANGED <<row, age, week, clock>>
  BY <1>1 DEF StartProc, Crash, InsertFails
<1>2. ASSUME NEW p \in Procs, NEW k \in Triggers, Check(p, k)
      PROVE  /\ UNCHANGED <<age, week, clock>>
             /\ \A r \in Runs : row'[r] = row[r] \/ (row[r] = "running" /\ row'[r] = "failed")
  BY <1>2 DEF Check, ReapStaleRuns, Stale
<1>3. ASSUME NEW p \in Procs, Insert(p)
      PROVE  \A r \in Runs : \/ UNCHANGED <<row[r], week[r], age[r], clock>>
                             \/ row[r] = "none" /\ row'[r] = "running" /\ week'[r]
  <2>1. PICK s \in Runs : /\ row[s] = "none"
                          /\ row' = [row EXCEPT ![s] = "running"]
                          /\ age' = [age EXCEPT ![s] = 0]
                          /\ week' = [week EXCEPT ![s] = TRUE]
                          /\ clock' = clock
    BY <1>3 DEF Insert
  <2> TAKE r \in Runs
  <2>2. CASE r = s
    BY <2>1, <2>2
  <2>3. CASE r # s
    BY <2>1, <2>3
  <2> QED
    BY <2>2, <2>3
<1>4. ASSUME NEW r \in Runs, TaskNext(r)
      PROVE  /\ UNCHANGED <<age, week, clock>>
             /\ \A s \in Runs : row'[s] = row[s] \/ row'[s] \in Final
  <2>1. CASE Finish(r)
    BY <2>1 DEF Finish, Final
  <2>2. CASE TotalTimeoutFires(r)
    BY <2>2 DEF TotalTimeoutFires, ErrorRow, Final
  <2>3. CASE StartTask(r) \/ Pinged(r) \/ Die(r) \/ ZombieEnds(r)
    BY <2>3 DEF StartTask, Pinged, Die, ZombieEnds
  <2> QED
    BY <1>4, <2>1, <2>2, <2>3 DEF TaskNext
<1>5. CASE UNCHANGED vars
  BY <1>5 DEF vars
<1>6. CASE \E p \in Procs : StartProc(p) \/ Crash(p) \/ InsertFails(p)
  BY <1>1, <1>6
<1>7. CASE \E p \in Procs, k \in Triggers : Check(p, k)
  BY <1>2, <1>7
<1>8. CASE \E p \in Procs : Insert(p)
  BY <1>3, <1>8
<1>9. CASE \E r \in Runs : TaskNext(r)
  BY <1>4, <1>9 DEF Final
<1> QED
  BY <1>5, <1>6, <1>7, <1>8, <1>9 DEF Next, ProcNext

LEMMA OldIsOldStep ==
  ASSUME TypeOK, OldIsOld, [Next]_vars
  PROVE  OldIsOld'
<1>1. CASE Advance
  <2> SUFFICES ASSUME NEW r \in Runs, row[r] = "running", ~week'[r]
               PROVE  age'[r] > clock' \/ age'[r] = AgeCap
    BY <1>1 DEF Advance, OldIsOld
  <2>1. age'[r] = Capped(age[r], AgeCap) /\ age[r] \in 0..AgeCap /\ clock \in Nat /\ AgeCap \in Nat
    BY <1>1, TimeAssumption DEF Advance, TypeOK, AgeCap
  <2>2. CASE clock + 1 >= WeekLen
    BY <1>1, <2>1, <2>2 DEF Advance, Capped
  <2>3. CASE ~(clock + 1 >= WeekLen)
    <3>1. ~week[r] /\ clock' = clock + 1
      BY <1>1, <2>3 DEF Advance, TypeOK
    <3> QED
      BY <2>1, <3>1 DEF Capped, OldIsOld
  <2> QED
    BY <2>2, <2>3
<1>2. CASE ~Advance
  BY <1>2, RowsStay DEF OldIsOld, AgeCap
<1> QED
  BY <1>1, <1>2

\* A decision in the window finds a run of the week, or makes one.
LEMMA DecisionFindsRun ==
  ASSUME ReapBeforeWindow, TypeOK, OldIsOld, MondayNotBlocked, [Next]_vars
  PROVE  MondayNotBlocked'
<1> USE DEF MondayNotBlocked, AlreadyTriggeredThisWeek, TypeOK
<1>1. CASE Advance
  BY <1>1 DEF Advance
<1>2. CASE ~Advance /\ AlreadyTriggeredThisWeek
  BY <1>2, RowsStay
<1>3. CASE ~AlreadyTriggeredThisWeek /\ ~Advance
  <2>1. ~windowTick
    BY <1>3
  <2>2. ASSUME NEW p \in Procs, NEW k \in Triggers, Check(p, k) PROVE MondayNotBlocked'
    <3> SUFFICES ASSUME k = "sched", InWindow, ~Allowed(k, row') PROVE FALSE
      BY <2>1, <2>2 DEF Check
    <3>1. PICK r \in Runs : row'[r] = "running"
      BY <1>3 DEF Allowed, SomeRunning
    <3>2. row[r] = "running" /\ ~Stale(r)
      BY <2>2, <3>1 DEF Check, ReapStaleRuns
    <3> QED
      BY <1>3, <3>2, RunningIsOfThisWeek
  <2>3. ASSUME NEW p \in Procs, Insert(p) PROVE MondayNotBlocked'
    BY <2>3 DEF Insert
  <2>4. ASSUME NEW p \in Procs, StartProc(p) \/ Crash(p) \/ InsertFails(p) PROVE ~windowTick'
    BY <2>1, <2>4 DEF StartProc, Crash, InsertFails
  <2>5. ASSUME NEW r \in Runs, TaskNext(r) PROVE ~windowTick'
    BY <2>1, <2>5 DEF TaskNext, StartTask, Finish, Pinged, Die, TotalTimeoutFires, ZombieEnds
  <2>6. CASE UNCHANGED vars
    BY <2>1, <2>6 DEF vars
  <2> QED
    BY <1>3, <2>2, <2>3, <2>4, <2>5, <2>6 DEF Next, ProcNext
<1> QED
  BY <1>1, <1>2, <1>3

\* A week whose trigger window saw a tick that came to a decision has a run, when the
\* reaper's limit is over before the window opens: a run of the week before, hung or killed,
\* never blocks Monday (cron.py:1980-1984), whatever crashes and however many processes
\* there are.
THEOREM HungRunNeverBlocksMonday == ReapBeforeWindow /\ Spec => []MondayNotBlocked
<1>1. Init => OldIsOld /\ MondayNotBlocked
  BY DEF Init, OldIsOld, MondayNotBlocked
<1>2. TypeOK /\ OldIsOld /\ [Next]_vars => OldIsOld'
  BY OldIsOldStep
<1>3. ReapBeforeWindow /\ TypeOK /\ OldIsOld /\ MondayNotBlocked /\ [Next]_vars => MondayNotBlocked'
  BY DecisionFindsRun
<1>4. ReapBeforeWindow => []ReapBeforeWindow
  <2>1. ReapBeforeWindow => ReapBeforeWindow'
    BY DEF ReapBeforeWindow
  <2> QED
    BY <2>1, PTL
<1> QED
  BY <1>1, <1>2, <1>3, <1>4, TypeCorrect, PTL DEF Spec

-----------------------------------------------------------------------------------
\* What the abstract lock sees of a state: the one running row, and the final ones.
LockView ==
    /\ \A r \in Runs : row[r] = "running" => Holder = r
    /\ (\A r \in Runs : row[r] # "running") => Holder = NoRun
    /\ Finished = {r \in Runs : row[r] \in Final}

LEMMA ViewFacts == LockInv => LockView
<1> SUFFICES ASSUME LockInv PROVE LockView
  OBVIOUS
<1>1. \A r \in Runs : Holds(r) <=> row[r] = "running"
  BY DEF Holds, LockInv, NoFalseDeath
<1>2. ASSUME NEW r \in Runs, row[r] = "running" PROVE Holder = r
  <2>1. \A s \in Runs : Holds(s) <=> s = r
    BY <1>1, <1>2 DEF LockInv, OneRunning
  <2> QED
    BY <2>1 DEF Holder
<1>3. ASSUME \A r \in Runs : row[r] # "running" PROVE Holder = NoRun
  BY <1>1, <1>3 DEF Holder
<1>4. Finished = {r \in Runs : row[r] \in Final}
  BY <1>1 DEF Finished, Final
<1> QED
  BY <1>2, <1>3, <1>4 DEF LockView

\* Every step takes the lock, releases it, or does not touch it.
LEMMA LockStep ==
  ASSUME TypeOK, LockInv, LockView, LockView', [Next]_vars, NoRun \notin Runs
  PROVE  [Lock!LockNext]_(Lock!lockVars)
<1> USE DEF TypeOK, Final, rowVars, taskVars
<1>1. CASE \A r \in Runs : row'[r] = row[r]
  <2>1. Finished' = Finished
    BY <1>1 DEF LockView
  <2>2. Holder' = Holder
    <3>1. CASE \E r \in Runs : row[r] = "running"
      BY <1>1, <3>1 DEF LockView
    <3>2. CASE \A r \in Runs : row[r] # "running"
      BY <1>1, <3>2 DEF LockView
    <3> QED
      BY <3>1, <3>2
  <2> QED
    BY <2>1, <2>2 DEF Lock!lockVars
<1>2. ASSUME NEW r \in Runs, row[r] = "running", row'[r] \in Final,
             \A s \in Runs \ {r} : row'[s] = row[s]
      PROVE  Lock!Release
  <2>1. \A s \in Runs : row[s] = "running" => s = r
    BY <1>2 DEF LockInv, OneRunning
  <2>2. Holder = r
    BY <1>2 DEF LockView
  <2>3. \A s \in Runs : row'[s] # "running"
    BY <1>2, <2>1
  <2>4. Holder' = NoRun
    BY <2>3 DEF LockView
  <2>5. Finished' = Finished \cup {r}
    BY <1>2 DEF LockView
  <2> QED
    BY <2>2, <2>4, <2>5 DEF Lock!Release
<1>3. ASSUME NEW p \in Procs, Insert(p) PROVE \E r \in Runs : Lock!Acquire(r)
  <2>1. PICK r \in Runs : row[r] = "none" /\ row' = [row EXCEPT ![r] = "running"]
    BY <1>3 DEF Insert
  <2>2. \A s \in Runs : row[s] # "running"
    BY <1>3 DEF Insert, Triggers, LockInv, InsertReady, SomeRunning
  <2>3. Holder = NoRun /\ Holder' = r
    BY <2>1, <2>2 DEF LockView
  <2>4. r \notin Finished /\ Finished' = Finished
    BY <2>1 DEF LockView
  <2> QED
    BY <2>3, <2>4 DEF Lock!Acquire
<1>4. ASSUME NEW p \in Procs, NEW k \in Triggers, Check(p, k)
      PROVE  [Lock!LockNext]_(Lock!lockVars)
  <2>1. \A r \in Runs : row'[r] = row[r] \/ (row[r] = "running" /\ row'[r] = "failed")
    BY <1>4 DEF Check, ReapStaleRuns, Stale
  <2>2. CASE \E r \in Runs : row[r] = "running" /\ row'[r] = "failed"
    <3>1. PICK r \in Runs : row[r] = "running" /\ row'[r] = "failed"
      BY <2>2
    <3>2. \A s \in Runs \ {r} : row'[s] = row[s]
      BY <2>1, <3>1 DEF LockInv, OneRunning
    <3> QED
      BY <1>2, <3>1, <3>2 DEF Lock!LockNext
  <2> QED
    BY <1>1, <2>1, <2>2
<1>5. ASSUME NEW r \in Runs, Finish(r) PROVE Lock!Release
  <2>1. row[r] = "running"
    BY <1>5 DEF Finish, LockInv, NoFalseDeath, Working
  <2> QED
    BY <1>2, <1>5, <2>1 DEF Finish
<1>6. ASSUME NEW r \in Runs, TotalTimeoutFires(r) PROVE [Lock!LockNext]_(Lock!lockVars)
  <2>1. CASE row[r] = "running"
    BY <1>2, <1>6, <2>1 DEF TotalTimeoutFires, ErrorRow, Lock!LockNext
  <2>2. CASE row[r] # "running"
    BY <1>1, <1>6, <2>2 DEF TotalTimeoutFires, ErrorRow
  <2> QED
    BY <2>1, <2>2
<1> QED
  BY <1>1, <1>3, <1>4, <1>5, <1>6
     DEF Next, ProcNext, TaskNext, Advance, StartProc, Crash, InsertFails, StartTask,
         Pinged, Die, ZombieEnds, vars, Lock!LockNext

\* The cron run lifecycle implements the single-run lock: a run takes it by its INSERT,
\* holds it while it works, releases it with its final status and never takes it again.
\* That the lock is always released is liveness, which the run cron_run checks.
THEOREM ImplementsLock == NoRun \notin Runs /\ SafeTimeouts /\ Spec => Lock!LockSafety
<1>1. LockInv /\ Init => Lock!LockInit
  BY ViewFacts DEF Init, LockView, Lock!LockInit, Final
<1>2. Init => LockInv
  BY DEF Init, LockInv, OneProcess, TasksAlive, InsertReady, OneRunning, AgeBound,
         NoFalseDeath, Working
<1>3. LockInv' => LockView'
  BY ViewFacts, PTL
<1>4. NoRun \notin Runs /\ TypeOK /\ LockInv /\ LockInv' /\ [Next]_vars
      => [Lock!LockNext]_(Lock!lockVars)
  BY <1>3, LockStep, ViewFacts
<1>5. NoRun \notin Runs => [](NoRun \notin Runs)
  <2>1. NoRun \notin Runs => (NoRun \notin Runs)'
    BY DEF NoRun
  <2> QED
    BY <2>1, PTL
<1> QED
  BY <1>1, <1>2, <1>4, <1>5, TypeCorrect, LockInvInductive, PTL DEF Spec, Lock!LockSafety
================================================================================
