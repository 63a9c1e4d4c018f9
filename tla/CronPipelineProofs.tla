--------------------------- MODULE CronPipelineProofs ---------------------------
(* Theorems about CronPipeline for every length of the timeouts, the window and the    *)
(* stages, and any number of pairs.                                                   *)
EXTENDS CronPipeline, TLAPS

\* A stage is given at least as much time as it needs to stop at once.
LEMMA NumberFacts ==
  ASSUME clock \in Nat, NEW limit \in Nat \ {0}
  PROVE  /\ Clipped(limit) \in Nat \ {0} /\ Clipped(limit) <= limit
         /\ Guarding /\ ~Exhausted => clock + Clipped(limit) <= DataBudget
<1> USE PipelineAssumption DEF Clipped, Guarding, Exhausted, Rest, Most, Least
<1>1. CASE ~Guarding
  BY <1>1
<1>2. CASE Guarding /\ Exhausted
  BY <1>2
<1>3. CASE Guarding /\ ~Exhausted
  BY <1>3
<1> QED
  BY <1>1, <1>2, <1>3

\* The soft limit of the rematch is never above its hard one.
LEMMA SoftLimitFacts ==
  ASSUME clock \in Nat
  PROVE  SoftLimit \in Nat /\ SoftLimit <= Clipped(StageLimit)
<1>1. Clipped(StageLimit) \in Nat \ {0}
  BY NumberFacts, PipelineAssumption
<1> HIDE DEF Clipped
<1> QED
  BY <1>1, PipelineAssumption DEF SoftLimit, Most

\* When a stage begins, it can be at work until LastOf; a data stage begins only before
\* the end of the window, and then stops one item after it at the latest.
LEMMA LastFacts ==
  ASSUME clock \in Nat, visionEnd \in Nat, NEW s
  PROVE  /\ LastOf(s) \in Nat /\ clock <= LastOf(s)
         /\ (/\ Guarding /\ ~Exhausted /\ s \in DataStages
             /\ visionEnd <= DataBudget)
            => LastOf(s) <= DataBudget + ItemMax
<1> DEFINE c == Clipped(StageLimit)
<1>1. /\ c \in Nat \ {0} /\ c <= StageLimit
      /\ Guarding /\ ~Exhausted => clock + c <= DataBudget
  BY NumberFacts, PipelineAssumption
<1>2. SoftLimit \in Nat /\ SoftLimit <= c
  BY SoftLimitFacts
<1>3. DataBudget \in Nat /\ ItemMax \in Nat /\ ScrapeMax \in Nat /\ EvidenceMax \in Nat
      /\ OtherMax \in Nat
  BY PipelineAssumption
<1>4. \A limit \in Nat : /\ Overrun(limit) \in Nat /\ clock <= Overrun(limit)
                         /\ (~Exhausted /\ Guarding /\ limit <= DataBudget) =>
                               Overrun(limit) <= DataBudget + ItemMax
  BY <1>3 DEF Overrun, Exhausted
<1> HIDE DEF c
<1>5. CASE s \in {"vision", "vision_backlog"}
  BY <1>4, <1>5 DEF LastOf
<1>6. CASE s = "post_analysis"
  <2>1. LastOf(s) = Overrun(clock + c)
    BY <1>6 DEF LastOf, c
  <2> QED
    BY <1>1, <1>4, <2>1
<1>7. CASE s = "title_sync"
  <2>1. LastOf(s) = clock + c + ItemMax
    BY <1>7 DEF LastOf, c
  <2> QED
    BY <1>1, <1>3, <2>1
<1>8. CASE s = "rematch"
  <2>1. LastOf(s) = clock + SoftLimit + ItemMax
    BY <1>8 DEF LastOf
  <2> QED
    BY <1>1, <1>2, <1>3, <2>1
<1>9. CASE s \notin DataStages
  <2>1. CASE s = "evidence_backfill"
    BY <1>3, <1>4, <2>1, <1>9 DEF LastOf, DataStages
  <2>2. CASE s # "evidence_backfill"
    BY <1>3, <2>2, <1>9 DEF LastOf, DataStages
  <2> QED
    BY <2>1, <2>2
<1> QED
  BY <1>5, <1>6, <1>7, <1>8, <1>9 DEF DataStages

-----------------------------------------------------------------------------------
\* Going on to the next stage leaves the stage, and fixes a vision deadline that lies in
\* the window or has no stage left to serve.
LEMMA NextStageFacts ==
  ASSUME WindowInv, NextStage, clock' = clock
  PROVE  WindowInv'
<1> DEFINE c == Clipped(StageLimit)
<1>1. /\ c \in Nat \ {0}
      /\ Guarding /\ ~Exhausted => clock + c <= DataBudget
  BY NumberFacts, PipelineAssumption DEF WindowInv
<1>2. /\ inside' = FALSE /\ last' = 0
      /\ visionEnd' = visionEnd \/ visionEnd' = clock + c
  BY DEF NextStage
<1> HIDE DEF c
<1> QED
  BY <1>1, <1>2 DEF WindowInv, Guarding, Exhausted

\* The window is kept by every operation.
LEMMA WindowInvStep == WindowInv /\ [Next]_vars => WindowInv'
<1> SUFFICES ASSUME WindowInv, [Next]_vars PROVE WindowInv'
  OBVIOUS
<1>1. CASE UNCHANGED <<phase, stageVars, clock>>
  BY <1>1 DEF WindowInv, stageVars, Guarding, Exhausted, Stage
<1>2. CASE Preflight
  BY <1>2 DEF Preflight, WindowInv, stageVars, Guarding, Exhausted, Stage
<1>3. CASE SkipStage
  BY <1>3, NextStageFacts DEF SkipStage
<1>4. CASE BeginStage
  <2>1. /\ LastOf(Stage) \in Nat /\ clock <= LastOf(Stage)
        /\ (/\ Guarding /\ ~Exhausted /\ Stage \in DataStages
            /\ visionEnd <= DataBudget) => LastOf(Stage) <= DataBudget + ItemMax
    BY LastFacts DEF WindowInv
  <2>2. /\ phase = "run" /\ phase' = phase /\ at' = at /\ visionEnd' = visionEnd
        /\ clock' = clock /\ last' = LastOf(Stage) /\ ~(Stage \in DataStages /\ Exhausted)
    BY <1>4 DEF BeginStage
  <2>3. Stage' = Stage
    BY <2>2 DEF Stage
  <2> HIDE DEF Stage
  <2> QED
    BY <2>1, <2>2, <2>3 DEF WindowInv, Guarding, Exhausted
<1>5. CASE Tick
  <2>1. /\ phase' = phase /\ stageVars' = stageVars /\ clock' = clock + 1
        /\ inside => clock < last
    BY <1>5 DEF Tick, WindowInv
  <2>2. Stage' = Stage
    BY <2>1 DEF Stage, stageVars
  <2> QED
    BY <2>1, <2>2, PipelineAssumption DEF WindowInv, stageVars, Guarding, Exhausted
<1>6. CASE StageReturns
  BY <1>6, NextStageFacts DEF StageReturns
<1>7. CASE StageBreaks
  <2>1. CASE NextStage
    BY <1>7, <2>1, NextStageFacts DEF StageBreaks
  <2>2. CASE phase' = "except" /\ UNCHANGED stageVars
    BY <1>7, <2>2 DEF StageBreaks, WindowInv, stageVars, Guarding, Exhausted, Stage
  <2> QED
    BY <1>7, <2>1, <2>2 DEF StageBreaks
<1>8. CASE StageCut
  BY <1>8, NextStageFacts DEF StageCut
<1>9. CASE Except \/ Finish \/ PingReturns \/ TotalTimeoutFires
  BY <1>9 DEF Except, Finish, PingReturns, TotalTimeoutFires, WindowInv, stageVars,
              Guarding, Exhausted, Stage
<1>10. CASE ThreadReturns \/ Done \/ UNCHANGED vars
  BY <1>10, <1>1 DEF ThreadReturns, Done, vars
<1> QED
  BY <1>2, <1>3, <1>4, <1>5, <1>6, <1>7, <1>8, <1>9, <1>10 DEF Next

\* _DatenBudget does what it is for, whatever the stages' own limits are: no data stage
\* after the scrape is at work later than one item past the window.
THEOREM DataWindow == Spec => []WindowKept
<1>1. Init => WindowInv
  BY PipelineAssumption DEF Init, WindowInv, Guarding, Exhausted
<1>2. WindowInv => WindowKept
  BY PipelineAssumption DEF WindowInv, WindowKept
<1> QED
  BY <1>1, <1>2, WindowInvStep, PTL DEF Spec

-----------------------------------------------------------------------------------
\* The dead man's switch tells every end of a run from every other one: a completed run, a
\* failed or capped one, and, by its silence, one whose status was lost.
THEOREM SwitchTellsTheEnd == Spec => []PingsTellTheEnd
<1>1. Init => PingInv
  BY DEF Init, PingInv, PingsTellTheEnd
<1>2. PingInv /\ [Next]_vars => PingInv'
  <2> SUFFICES ASSUME PingInv, [Next]_vars PROVE PingInv'
    OBVIOUS
  <2> USE DEF PingInv, PingsTellTheEnd
  <2>1. CASE Preflight
    BY <2>1 DEF Preflight
  <2>2. CASE Finish \/ Except
    BY <2>2 DEF Finish, Except
  <2>3. CASE PingReturns
    BY <2>3 DEF PingReturns
  <2>4. CASE TotalTimeoutFires
    <3>1. phase \in {"run", "ping"} /\ phase' = "over" /\ clock' = clock /\ clock = TotalTimeout
      BY <2>4 DEF TotalTimeoutFires
    <3>2. \/ row' = (IF row = "running" THEN "error" ELSE row) /\ pings' = pings \cup {"fail"}
          \/ UNCHANGED <<row, pings>>
      BY <2>4 DEF TotalTimeoutFires, TimeoutStatus
    <3> QED
      BY <3>1, <3>2
  <2>5. CASE SkipStage \/ StageReturns \/ StageBreaks \/ StageCut
    <3>1. phase = "run" /\ phase' \in {"run", "finish", "except"} /\ UNCHANGED <<row, pings>>
      BY <2>5 DEF SkipStage, StageReturns, StageBreaks, StageCut, NextStage
    <3> QED
      BY <3>1
  <2>6. CASE Tick
    BY <2>6 DEF Tick
  <2>7. CASE BeginStage \/ ThreadReturns \/ Done \/ UNCHANGED vars
    BY <2>7 DEF BeginStage, ThreadReturns, Done, vars
  <2> QED
    BY <2>1, <2>2, <2>3, <2>4, <2>5, <2>6, <2>7 DEF Next
<1>3. PingInv => PingsTellTheEnd
  BY DEF PingInv
<1> QED
  BY <1>1, <1>2, <1>3, PTL DEF Spec
-----------------------------------------------------------------------------------
\* The stages before the briefs, by their place in the chain.
LEMMA StagesBeforeBriefs ==
  /\ Stages[1] = "scrape" /\ Stages[2] = "vision" /\ Stages[3] = "vision_backlog"
  /\ Stages[4] = "post_analysis" /\ Stages[5] = "evidence_backfill"
  /\ Stages[6] = "title_sync" /\ Stages[7] = "rematch"
  /\ Stages[8] = "candidate_autopilot" /\ Stages[9] = "candidate_llm_assist"
  /\ Stages[10] = "katalog_nachladen" /\ Stages[11] = "recommendation_snapshot"
BY DEF Stages

\* The bound grows along the chain.
LEMMA LatestGrows ==
  ASSUME NEW i \in 1..11
  PROVE  /\ LatestAfter(i) \in Nat /\ LatestAfter(i - 1) \in Nat
         /\ LatestAfter(i - 1) <= LatestAfter(i)
         /\ LatestAfter(i) <= WorstBeforeBriefs
<1>1. WindowEnd \in Nat /\ EvidenceMax \in Nat /\ ItemMax \in Nat /\ OtherMax \in Nat
  BY PipelineAssumption DEF WindowEnd, Most
<1> HIDE DEF WindowEnd
<1>2. i \in {1, 2, 3, 4} \/ i \in {5, 6, 7} \/ i \in {8, 9, 10, 11}
  OBVIOUS
<1> QED
  BY <1>1, <1>2 DEF LatestAfter, WorstBeforeBriefs

\* A stage that begins stays within the bound of its place.
LEMMA BeginWithinBound ==
  ASSUME WindowInv, ReachInv, BeginStage, Guarding, at < BriefsAt
  PROVE  LastOf(Stage) <= LatestAfter(at)
<1>1. at \in 1..11
  BY DEF ReachInv, BriefsAt
<1>2. /\ WindowEnd \in Nat /\ ScrapeMax <= WindowEnd /\ DataBudget + ItemMax <= WindowEnd
      /\ EvidenceMax \in Nat /\ ItemMax \in Nat /\ OtherMax \in Nat /\ ScrapeMax \in Nat
      /\ DataBudget \in Nat
  BY PipelineAssumption DEF WindowEnd, Most
<1>3. clock \in Nat /\ clock <= LatestAfter(at - 1)
  BY DEF WindowInv, ReachInv, BeginStage
<1>4. CASE Stage \in DataStages
  <2>1. LastOf(Stage) \in Nat /\ LastOf(Stage) <= DataBudget + ItemMax
    BY <1>4, LastFacts DEF BeginStage, WindowInv
  <2>2. at > 1
    BY <1>1, <1>4, StagesBeforeBriefs DEF Stage, DataStages
  <2>3. LatestAfter(at) >= WindowEnd
    <3>1. at \in {2, 3, 4} \/ at \in {5, 6, 7} \/ at \in {8, 9, 10, 11}
      BY <1>1, <2>2
    <3> HIDE DEF WindowEnd
    <3> QED
      BY <1>2, <3>1 DEF LatestAfter, WorstBeforeBriefs
  <2>4. LatestAfter(at) \in Nat
    BY <1>1, LatestGrows
  <2> QED
    BY <1>2, <2>1, <2>3, <2>4
<1>5. CASE at = 1
  <2>1. clock = 0 /\ Stage = "scrape"
    BY <1>3, <1>5, StagesBeforeBriefs DEF LatestAfter, Stage
  <2>2. LastOf(Stage) = ScrapeMax
    BY <2>1, <1>2 DEF LastOf
  <2> HIDE DEF WindowEnd
  <2> QED
    BY <1>2, <1>5, <2>2 DEF LatestAfter
<1>6. CASE at = 5
  <2>1. Stage = "evidence_backfill" /\ clock <= WindowEnd
    BY <1>3, <1>6, StagesBeforeBriefs DEF LatestAfter, Stage
  <2>2. LastOf(Stage) = Overrun(clock + EvidenceMax)
    BY <2>1 DEF LastOf
  <2>3. Overrun(clock + EvidenceMax) <= clock + EvidenceMax + ItemMax
    BY <1>2, <1>3 DEF Overrun
  <2>4. Overrun(clock + EvidenceMax) \in Nat
    BY <1>2, <1>3 DEF Overrun
  <2> HIDE DEF WindowEnd
  <2> QED
    BY <1>2, <1>3, <1>6, <2>1, <2>2, <2>3, <2>4 DEF LatestAfter
<1>7. CASE at \in {8, 9, 10, 11}
  <2>1. Stage \in {"candidate_autopilot", "candidate_llm_assist", "katalog_nachladen",
                   "recommendation_snapshot"}
    BY <1>7, StagesBeforeBriefs DEF Stage
  <2>2. LastOf(Stage) = clock + OtherMax
    BY <2>1 DEF LastOf
  <2> HIDE DEF WindowEnd
  <2> QED
    BY <1>2, <1>3, <1>7, <2>2 DEF LatestAfter, WorstBeforeBriefs
<1>8. at \in {2, 3, 4, 6, 7} => Stage \in DataStages
  BY StagesBeforeBriefs DEF Stage, DataStages
<1> QED
  BY <1>1, <1>4, <1>5, <1>6, <1>7, <1>8

\* Leaving a stage, or passing over one.
LEMMA NextWithinBound ==
  ASSUME WindowInv, ReachInv, NextStage, phase = "run", UNCHANGED <<clock, row>>,
         phase' = "run" => at' = at + 1,
         phase' \in {"run", "finish"}
  PROVE  ReachInv'
<1>1. at' \in Nat \ {0} /\ at' >= at /\ inside' = FALSE
  BY DEF NextStage, ReachInv
<1>2. ASSUME Guarding, phase' = "run", at' < BriefsAt
      PROVE  clock <= LatestAfter(at' - 1)
  <2>1. at \in 1..11 /\ at' - 1 = at
    BY <1>1, <1>2 DEF ReachInv, BriefsAt
  <2>2. clock \in Nat /\ (inside => clock <= last /\ last \in Nat)
    BY DEF WindowInv
  <2>3. IF inside THEN last <= LatestAfter(at) ELSE clock <= LatestAfter(at - 1)
    BY <1>2, <2>1 DEF ReachInv, BriefsAt
  <2>4. LatestAfter(at) \in Nat /\ LatestAfter(at - 1) \in Nat
        /\ LatestAfter(at - 1) <= LatestAfter(at)
    BY <2>1, LatestGrows
  <2> QED
    BY <2>1, <2>2, <2>3, <2>4
<1>3. ProductsReached'
  BY <1>1 DEF ReachInv, ProductsReached, Guarding, BriefsAt, WorstBeforeBriefs, WindowEnd, Most
<1> QED
  BY <1>1, <1>2, <1>3 DEF ReachInv, Guarding, LatestAfter, WorstBeforeBriefs, WindowEnd, Most

LEMMA ReachInvStep == WindowInv /\ ReachInv /\ [Next]_vars => ReachInv'
<1> SUFFICES ASSUME WindowInv, ReachInv, [Next]_vars PROVE ReachInv'
  OBVIOUS
<1> DEFINE K == WorstBeforeBriefs
<1>1. CASE SkipStage \/ StageReturns \/ StageCut \/ (StageBreaks /\ NextStage)
  <2>1. NextStage /\ phase = "run" /\ UNCHANGED <<clock, row>>
    BY <1>1 DEF SkipStage, StageReturns, StageCut, StageBreaks
  <2>2. phase' \in {"run", "finish"} /\ (phase' = "run" => at' = at + 1)
    BY <2>1 DEF NextStage
  <2> QED
    BY <2>1, <2>2, NextWithinBound
<1>2. ASSUME phase' \notin {"preflight", "run", "ping"}, at' = at,
             row' = row \/ row' = "failed"
      PROVE  ReachInv'
  BY <1>2 DEF ReachInv, ProductsReached, Guarding, BriefsAt
<1>3. CASE (StageBreaks /\ ~NextStage) \/ PingReturns
  BY <1>2, <1>3 DEF StageBreaks, PingReturns, stageVars
<1>4. CASE Finish \/ Except
  BY <1>2, <1>4 DEF Finish, Except, stageVars, ReachInv, ProductsReached, Guarding
<1>5. CASE BeginStage
  <2>1. /\ phase = "run" /\ phase' = phase /\ at' = at /\ row' = row /\ inside' = TRUE
        /\ last' = LastOf(Stage)
    BY <1>5 DEF BeginStage
  <2>2. Guarding /\ at < BriefsAt => LastOf(Stage) <= LatestAfter(at)
    BY <1>5, BeginWithinBound
  <2>3. (Guarding /\ phase' \in {"preflight", "run"} /\ at' < BriefsAt =>
           IF inside' THEN last' <= LatestAfter(at') ELSE clock' <= LatestAfter(at' - 1))
    BY <2>1, <2>2
  <2>4. ProductsReached'
    BY <2>1 DEF ReachInv, ProductsReached
  <2> QED
    BY <2>1, <2>3, <2>4 DEF ReachInv, LatestAfter, WorstBeforeBriefs
<1>6. CASE Tick
  <2>1. /\ phase' = phase /\ at' = at /\ row' = row /\ inside' = inside /\ last' = last
        /\ phase = "ping" \/ inside
    BY <1>6 DEF Tick, stageVars
  <2>2. phase = "ping" \/ inside' = TRUE
    BY <2>1 DEF WindowInv
  <2> QED
    BY <2>1, <2>2 DEF ReachInv, ProductsReached, LatestAfter, WorstBeforeBriefs
<1>7. CASE TotalTimeoutFires
  <2>1. /\ at' = at /\ phase' = "over" /\ clock = TotalTimeout
        /\ phase = "ping" \/ (phase = "run" /\ inside)
        /\ row' = row \/ row' = (IF row = "running" THEN "error" ELSE row)
    BY <1>7 DEF TotalTimeoutFires, TimeoutStatus, stageVars
  <2>2. ASSUME Guarding, WorstBeforeBriefs < TotalTimeout, row' = "error"
        PROVE  at >= BriefsAt
    <3>1. CASE row = "error"
      BY <2>2, <3>1 DEF ReachInv, ProductsReached
    <3>2. CASE row = "running"
      <4>1. phase = "run" /\ inside /\ clock <= last
        BY <2>1, <3>2 DEF ReachInv, WindowInv
      <4>2. ASSUME at < BriefsAt PROVE FALSE
        <5>1. at \in 1..11 /\ last <= LatestAfter(at)
          BY <2>2, <4>1, <4>2 DEF ReachInv, BriefsAt
        <5>2. LatestAfter(at) \in Nat /\ LatestAfter(at) <= K
          BY <5>1, LatestGrows
        <5>3. K \in Nat
          BY PipelineAssumption DEF WorstBeforeBriefs, WindowEnd, Most
        <5> HIDE DEF K
        <5>4. K < TotalTimeout
          BY <2>2 DEF K
        <5> QED
          BY <2>1, <4>1, <5>1, <5>2, <5>3, <5>4, PipelineAssumption DEF WindowInv
      <4> QED
        BY <4>2 DEF ReachInv, BriefsAt
    <3> QED
      BY <2>1, <2>2, <3>1, <3>2
  <2>3. ProductsReached'
    BY <2>1, <2>2 DEF ProductsReached, Guarding, BriefsAt, WorstBeforeBriefs, WindowEnd, Most
  <2> QED
    BY <2>1, <2>3 DEF ReachInv
<1>8. CASE Preflight
  <2>1. /\ UNCHANGED <<at, inside, last, clock>> /\ phase = "preflight"
        /\ \/ row' = "budget_exceeded" /\ phase' = "ping"
           \/ row' = row /\ phase' \in {"run", "except"}
    BY <1>8 DEF Preflight, stageVars
  <2> QED
    BY <2>1 DEF ReachInv, ProductsReached, Guarding, LatestAfter, WorstBeforeBriefs
<1>9. CASE ThreadReturns \/ Done \/ UNCHANGED vars
  <2>1. UNCHANGED <<phase, at, inside, last, clock, row>>
    BY <1>9 DEF ThreadReturns, Done, vars, stageVars
  <2> QED
    BY <2>1 DEF ReachInv, ProductsReached, LatestAfter
<1> QED
  BY <1>1, <1>3, <1>4, <1>5, <1>6, <1>7, <1>8, <1>9 DEF Next

\* "Die Produktstufen sind damit strukturell garantiert": if the scrape, the window and the
\* few stages outside it fit under the total timeout, it never fires before the briefs.
THEOREM ProductsGuaranteed == Spec => []ProductsReached
<1>1. Init => WindowInv /\ ReachInv
  <2> SUFFICES ASSUME Init PROVE WindowInv /\ ReachInv
    OBVIOUS
  <2>1. WindowInv
    BY PipelineAssumption DEF Init, WindowInv, Guarding, Exhausted
  <2>2. LatestAfter(0) = 0
    BY DEF LatestAfter
  <2> QED
    BY <2>1, <2>2 DEF Init, ReachInv, ProductsReached
<1>2. ReachInv => ProductsReached
  BY DEF ReachInv
<1> QED
  BY <1>1, <1>2, WindowInvStep, ReachInvStep, PTL DEF Spec

-----------------------------------------------------------------------------------
\* The counters and the alarm.
LEMMA AlarmInvStep == AlarmInv /\ [Next]_vars => AlarmInv'
<1> SUFFICES ASSUME AlarmInv, [Next]_vars PROVE AlarmInv'
  OBVIOUS
<1>1. ASSUME briefs' = briefs, alarm' = alarm, row' # "completed" \/ row' = row,
             phase' \in {"preflight", "run", "finish", "except"} => row' # "completed"
      PROVE  AlarmInv'
  BY <1>1 DEF AlarmInv, Silent, AllFailed, Total
<1>2. CASE Preflight \/ BeginStage \/ ThreadReturns \/ Done \/ UNCHANGED vars \/ Tick \/ Except
  BY <1>1, <1>2 DEF Preflight, BeginStage, ThreadReturns, Done, vars, Tick, Except, AlarmInv
<1>3. CASE SkipStage \/ StageCut \/ StageReturns \/ StageBreaks
  <2>1. phase = "run" /\ row' = row
    BY <1>3 DEF SkipStage, StageCut, StageReturns, StageBreaks
  <2>2. briefs' \in Counters
    BY <1>3 DEF SkipStage, StageCut, StageReturns, StageBreaks, AlarmInv
  <2> QED
    BY <2>1, <2>2 DEF AlarmInv
<1>4. CASE PingReturns \/ TotalTimeoutFires
  BY <1>1, <1>4 DEF PingReturns, TotalTimeoutFires, TimeoutStatus, AlarmInv
<1>5. CASE Finish
  <2>1. alarm' = (Silent \/ AllFailed) /\ briefs' = briefs
        /\ (phase' = "ping" \/ (phase' = "except" /\ row' = row)) /\ phase = "finish"
    BY <1>5 DEF Finish
  <2>2. Silent' = Silent /\ AllFailed' = AllFailed
    BY <2>1 DEF Silent, AllFailed, Total
  <2>3. alarm' <=> (Silent \/ AllFailed)
    BY <2>1
  <2> QED
    BY <2>1, <2>2, <2>3 DEF AlarmInv
<1> QED
  BY <1>2, <1>3, <1>4, <1>5 DEF Next

\* The early warning is right in both directions: an outage of the brief stage raises the
\* alarm, a week of cache hits or fresh briefs without a failure does not.
THEOREM AlarmIsRight == Spec => []AlarmOnOutage
<1>1. Init => AlarmInv
  <2> SUFFICES ASSUME Init PROVE AlarmInv
    OBVIOUS
  <2>1. NoBriefs \in Counters
    BY PipelineAssumption DEF NoBriefs, Counters
  <2> QED
    BY <2>1 DEF Init, AlarmInv
<1>2. AlarmInv => AlarmOnOutage
  <2> SUFFICES ASSUME AlarmInv, row = "completed", briefs.enabled
               PROVE  /\ briefs.generated + briefs.skipped_cache_hit = 0 => alarm
                      /\ briefs.failed = 0 /\ Total > 0 => ~alarm
    BY DEF AlarmOnOutage
  <2>1. /\ briefs.generated \in Nat /\ briefs.failed \in Nat
        /\ briefs.skipped_cache_hit \in Nat
    BY DEF AlarmInv, Counters
  <2>2. briefs.generated + briefs.skipped_cache_hit = 0 => Silent \/ AllFailed
    BY <2>1 DEF Silent, AllFailed, Total
  <2>3. briefs.failed = 0 /\ Total > 0 => ~Silent /\ ~AllFailed
    BY <2>1 DEF Silent, AllFailed, Total
  <2> QED
    BY <2>2, <2>3 DEF AlarmInv
<1> QED
  BY <1>1, <1>2, AlarmInvStep, PTL DEF Spec

-----------------------------------------------------------------------------------
\* The values of phase, all that the contract needs of the type.
PhaseOK ==
    /\ phase \in {"preflight", "run", "finish", "except", "ping", "over"}
    /\ clock \in Nat

LEMMA PhaseStep == PhaseOK /\ [Next]_vars => PhaseOK'
<1> SUFFICES ASSUME PhaseOK, [Next]_vars PROVE PhaseOK'
  OBVIOUS
<1> USE DEF PhaseOK
<1>1. CASE Preflight \/ Finish \/ Except \/ PingReturns \/ TotalTimeoutFires \/ Tick \/ BeginStage
  BY <1>1 DEF Preflight, Finish, Except, PingReturns, TotalTimeoutFires, Tick, BeginStage
<1>2. CASE SkipStage \/ StageReturns \/ StageBreaks \/ StageCut
  BY <1>2 DEF SkipStage, StageReturns, StageBreaks, StageCut, NextStage, stageVars
<1>3. CASE ThreadReturns \/ Done \/ UNCHANGED vars
  BY <1>3 DEF ThreadReturns, Done, vars
<1> QED
  BY <1>1, <1>2, <1>3 DEF Next

\* Every step of the chain is a step the contract allows, or changes nothing it sees.
LEMMA ContractStep == PhaseOK /\ [Next]_vars => [Contract!TaskNext]_<<row, TaskState, clock>>
<1> SUFFICES ASSUME PhaseOK, [Next]_vars
             PROVE  Contract!TaskNext \/ UNCHANGED <<row, TaskState, clock>>
  OBVIOUS
<1> USE DEF PhaseOK
<1>1. TaskState' = CASE phase' \in {"preflight", "run", "finish", "except"} -> "active"
                     [] phase' = "ping" -> "ping"
                     [] OTHER -> IF abandoned' # {} THEN "zombie" ELSE "none"
  BY DEF TaskState
<1>2. CASE Preflight
  <2>1. CASE row' = "budget_exceeded" /\ phase' = "ping"
    <3>1. Contract!WritesStatus
      BY <1>1, <1>2, <2>1 DEF Preflight, Contract!WritesStatus, Contract!Final, TaskState
    <3> QED
      BY <3>1 DEF Contract!TaskNext
  <2>2. CASE phase' \in {"run", "except"} /\ UNCHANGED row
    BY <1>1, <1>2, <2>2 DEF Preflight, TaskState
  <2> QED
    BY <1>2, <2>1, <2>2 DEF Preflight
<1>3. CASE Tick
  <2>1. Contract!TimePasses
    BY <1>1, <1>3 DEF Tick, Contract!TimePasses, TaskState
  <2> QED
    BY <2>1 DEF Contract!TaskNext
<1>4. CASE Finish
  <2>1. CASE row' = "completed" /\ phase' = "ping"
    <3>1. Contract!WritesStatus
      BY <1>1, <1>4, <2>1 DEF Finish, Contract!WritesStatus, Contract!Final, TaskState
    <3> QED
      BY <3>1 DEF Contract!TaskNext
  <2>2. CASE phase' = "except" /\ UNCHANGED row
    BY <1>1, <1>4, <2>2 DEF Finish, TaskState
  <2> QED
    BY <1>4, <2>1, <2>2 DEF Finish
<1>5. CASE Except
  <2>1. CASE row' = "failed" /\ phase' = "ping"
    <3>1. Contract!WritesStatus
      BY <1>1, <1>5, <2>1 DEF Except, Contract!WritesStatus, Contract!Final, TaskState
    <3> QED
      BY <3>1 DEF Contract!TaskNext
  <2>2. CASE phase' = "over" /\ UNCHANGED row
    <3>1. Contract!Dies
      BY <1>1, <1>5, <2>2 DEF Except, Contract!Dies, TaskState
    <3> QED
      BY <3>1 DEF Contract!TaskNext
  <2> QED
    BY <1>5, <2>1, <2>2 DEF Except
<1>6. CASE PingReturns
  <2>1. Contract!PingReturns
    BY <1>1, <1>6 DEF PingReturns, Contract!PingReturns, TaskState
  <2> QED
    BY <2>1 DEF Contract!TaskNext
<1>7. CASE TotalTimeoutFires
  <2>1. CASE row' = TimeoutStatus
    <3>1. Contract!TimesOut
      BY <1>1, <1>7, <2>1 DEF TotalTimeoutFires, TimeoutStatus, Contract!TimesOut, TaskState
    <3> QED
      BY <3>1 DEF Contract!TaskNext
  <2>2. CASE UNCHANGED row
    <3>1. Contract!PingReturns \/ Contract!Dies
      BY <1>1, <1>7, <2>2 DEF TotalTimeoutFires, Contract!PingReturns, Contract!Dies, TaskState
    <3> QED
      BY <3>1 DEF Contract!TaskNext
  <2> QED
    BY <1>7, <2>1, <2>2 DEF TotalTimeoutFires
<1>8. CASE ThreadReturns
  <2>1. CASE phase = "over" /\ abandoned' = {}
    <3>1. Contract!ThreadReturns
      BY <1>1, <1>8, <2>1 DEF ThreadReturns, Contract!ThreadReturns, TaskState
    <3> QED
      BY <3>1 DEF Contract!TaskNext
  <2>2. CASE phase # "over" \/ abandoned' # {}
    BY <1>1, <1>8, <2>2 DEF ThreadReturns, TaskState
  <2> QED
    BY <2>1, <2>2
<1>9. CASE SkipStage \/ StageReturns \/ StageBreaks \/ StageCut \/ BeginStage
  <2>1. /\ phase = "run" /\ phase' \in {"run", "finish", "except"}
        /\ UNCHANGED <<row, clock>>
    BY <1>9 DEF SkipStage, StageReturns, StageBreaks, StageCut, BeginStage, NextStage
  <2> QED
    BY <1>1, <2>1 DEF TaskState
<1>10. CASE Done \/ UNCHANGED vars
  BY <1>1, <1>10 DEF Done, vars, TaskState
<1> QED
  BY <1>2, <1>3, <1>4, <1>5, <1>6, <1>7, <1>8, <1>9, <1>10 DEF Next

\* The chain of stages implements the contract that the lifecycle of runs relies on:
\* whatever the stages do, row, task and time change as RunTask says.
THEOREM ImplementsContract == Spec => KeepsRunContract
<1>1. Init => PhaseOK /\ Contract!TaskInit
  BY DEF Init, PhaseOK, Contract!TaskInit, TaskState
<1>2. PhaseOK /\ [Next]_vars => PhaseOK'
  BY PhaseStep
<1>3. PhaseOK /\ [Next]_vars => [Contract!TaskNext]_(Contract!taskVars)
  BY ContractStep DEF Contract!taskVars
<1> QED
  BY <1>1, <1>2, <1>3, PTL DEF Spec, KeepsRunContract, Contract!TaskSpec
================================================================================
