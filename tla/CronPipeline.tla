------------------------------ MODULE CronPipeline ------------------------------
(* The inside of a cron run, _run_cron_sync_background_impl                           *)
(* (backend/app/api/cron.py): three budget pre-flights, then eighteen stages in a row, *)
(* all on one database session, the data stages inside a shared time window; then the *)
(* status and the heartbeat ping, under the total timeout of the wrapper.             *)
(*                                                                                    *)
(* Time counts from the start of asyncio.wait_for. A stage that watches the clock      *)
(* itself runs on for at most ItemMax past its limit; the other bounds on the stages   *)
(* (ScrapeMax, OtherMax) are assumptions about them, not code.                         *)
EXTENDS Naturals, Sequences

CONSTANTS TotalTimeout,    \* CRON_TOTAL_RUN_TIMEOUT_SECONDS
          DataBudget,      \* CRON_DATA_STAGES_TIMEOUT_SECONDS; 0 switches it off
          StageLimit,      \* the stages' own limit, 1800 s by default
          RematchMargin,   \* the 120 s between the soft and the hard limit of the rematch
          ItemMax,         \* longest single item: an asset, a post, one statement
          ScrapeMax,       \* longest scrape (nothing in the code limits it)
          EvidenceMax,     \* evidence_backfill_budget_seconds
          OtherMax,        \* longest stage without a limit of its own
          NPairs           \* enabled pairs

ASSUME PipelineAssumption ==
    /\ TotalTimeout \in Nat \ {0} /\ DataBudget \in Nat /\ StageLimit \in Nat \ {0}
    /\ RematchMargin \in Nat /\ ItemMax \in Nat /\ ScrapeMax \in Nat
    /\ EvidenceMax \in Nat /\ OtherMax \in Nat /\ NPairs \in Nat

VARIABLES phase,       \* "preflight", "run", "finish", "except", "ping", "over"
          force,       \* the parameter force of the run
          at,          \* the stage: an index into Stages
          inside,      \* has it begun?
          last,        \* the latest time at which it can still be at work
          cut,         \* the time at which its own wait_for gives it up
          visionEnd,   \* vision_deadline, shared by the two vision stages
          clock,       \* time since the start
          session,     \* "ok", or "aborted": it raises until somebody rolls back
          capped,      \* providers over their monthly hard cap
          briefs,      \* the counters of the brief stage
          alarm,       \* was cron_brief_gen.silent_failure logged?
          row,         \* CronRun.status
          pings,       \* heartbeat pings begun, cron_heartbeat_url being set
          abandoned    \* stages whose thread went on when they were given up

stageVars == <<at, inside, last, cut, visionEnd>>
vars == <<phase, force, stageVars, clock, session, capped, briefs, alarm, row, pings,
          abandoned>>

Stages == <<"scrape", "vision", "vision_backlog", "post_analysis", "evidence_backfill",
            "title_sync", "rematch", "candidate_autopilot", "candidate_llm_assist",
            "katalog_nachladen", "recommendation_snapshot", "briefs", "roundups",
            "er_forecasts", "cutter_weekly", "designer_weekly", "pattern_briefing",
            "pattern_playbook">>
BriefsAt == 12
Stage == Stages[at]

\* The stages that check the shared window before they start.
DataStages == {"vision", "vision_backlog", "post_analysis", "title_sync", "rematch"}
\* The stages a flag, a cap of 0 or an empty input can switch off.
Optional == {"vision", "vision_backlog", "post_analysis", "evidence_backfill", "title_sync",
             "candidate_autopilot", "candidate_llm_assist", "katalog_nachladen",
             "recommendation_snapshot", "briefs", "roundups", "cutter_weekly",
             "designer_weekly", "pattern_briefing", "pattern_playbook"}
\* The stages that look at the Anthropic cap again.
CapChecked == {"roundups", "er_forecasts", "cutter_weekly", "designer_weekly",
               "pattern_briefing"}
\* The stages that call Anthropic.
Paying == CapChecked \cup {"post_analysis", "candidate_llm_assist", "briefs"}
\* The stages that run in a worker thread (asyncio.to_thread).
Threaded == {"vision", "vision_backlog", "post_analysis", "rematch", "candidate_autopilot",
             "candidate_llm_assist", "briefs", "roundups", "er_forecasts", "cutter_weekly",
             "designer_weekly", "pattern_briefing"}
\* The stages from which an exception can escape: no try block around them, or a look for
\* this week's row outside it, which only a run without force takes.
Prechecked == {"briefs", "roundups", "cutter_weekly", "designer_weekly", "pattern_briefing"}
Escapable(s) == s \in {"scrape", "vision", "vision_backlog"} \/ (s \in Prechecked /\ ~force)

Providers == {"apify", "anthropic", "openai"}
\* Enabled pairs split into the three counters; "pairs" may narrow them down.
Counters ==
    {c \in [enabled : BOOLEAN, generated : 0..NPairs, failed : 0..NPairs,
            skipped_cache_hit : 0..NPairs] :
        /\ c.generated + c.failed + c.skipped_cache_hit <= NPairs
        /\ ~c.enabled => c.generated + c.failed + c.skipped_cache_hit = 0}
NoBriefs == [enabled |-> FALSE, generated |-> 0, failed |-> 0, skipped_cache_hit |-> 0]

Never == TotalTimeout + StageLimit + ItemMax + ScrapeMax + EvidenceMax + OtherMax + DataBudget + 1

TypeOK ==
    /\ phase \in {"preflight", "run", "finish", "except", "ping", "over"}
    /\ force \in BOOLEAN /\ inside \in BOOLEAN /\ alarm \in BOOLEAN
    /\ at \in 1..Len(Stages)
    /\ last \in 0..Never /\ cut \in 0..Never /\ visionEnd \in 0..Never
    /\ clock \in 0..TotalTimeout
    /\ session \in {"ok", "aborted"}
    /\ capped \subseteq Providers
    /\ briefs \in Counters
    /\ row \in {"running", "completed", "failed", "error", "budget_exceeded"}
    /\ pings \subseteq {"ok", "fail"}
    /\ abandoned \subseteq Threaded

Init ==
    /\ phase = "preflight" /\ force \in BOOLEAN
    /\ at = 1 /\ inside = FALSE /\ last = 0 /\ cut = 0 /\ visionEnd = 0 /\ clock = 0
    /\ session = "ok" /\ capped \in SUBSET Providers
    /\ briefs = NoBriefs /\ alarm = FALSE
    /\ row = "running" /\ pings = {} /\ abandoned = {}

-----------------------------------------------------------------------------------
(* Budgets. *)

\* What a failed statement leaves: an aborted transaction or, when it never got a connection
\* from the pool, the session as it was.
AfterError == {"aborted", session}

\* compute_*_monthly_spend swallows a read error and reports 0 cents spent; an aborted session
\* fails every read.
CapSeen(provider) == provider \in capped /\ session = "ok"

\* The pre-flights, one provider after the other: the first that is seen over its cap ends the
\* run before any stage. Its commit may raise.
Preflight ==
    /\ phase = "preflight"
    /\ \E unread \in SUBSET Providers :
         IF capped \ unread # {}
           THEN \/ /\ row' = "budget_exceeded" /\ phase' = "ping" /\ pings' = pings \cup {"fail"}
                   /\ UNCHANGED session
                \/ /\ session' = "aborted" /\ phase' = "except"
                   /\ UNCHANGED <<row, pings>>
           ELSE /\ session' \in (IF unread = {} THEN {session} ELSE AfterError)
                /\ phase' = "run" /\ UNCHANGED <<row, pings>>
    /\ UNCHANGED <<force, stageVars, clock, capped, briefs, alarm, abandoned>>

\* _DatenBudget
Least(m, n) == IF m < n THEN m ELSE n
Most(m, n) == IF m > n THEN m ELSE n
Guarding == DataBudget > 0
MUT_Exhausted == clock >= TotalTimeout
Exhausted == Guarding /\ clock >= DataBudget
Rest == DataBudget - clock
\* kappe, and the same computation in the two stages under wait_for.
MUT_Clipped(limit) == limit
Clipped(limit) ==
    IF ~Guarding THEN limit
    ELSE IF Exhausted THEN 1 ELSE Most(1, Least(limit, Rest))

-----------------------------------------------------------------------------------
(* The stages. *)

\* When a stage that looks at the clock before each item is done at the latest: it starts
\* no item at or after its limit.
Overrun(limit) == IF clock >= limit THEN clock ELSE limit + ItemMax

\* The rematch stops itself RematchMargin before its hard limit.
SoftLimit == Most(1, IF Clipped(StageLimit) > RematchMargin
                       THEN Clipped(StageLimit) - RematchMargin ELSE 0)

LastOf(s) ==
    CASE s = "scrape" -> clock + ScrapeMax
      [] s \in {"vision", "vision_backlog"} -> Overrun(visionEnd)
      [] s = "post_analysis" -> Overrun(clock + Clipped(StageLimit))
      [] s = "evidence_backfill" -> Overrun(clock + EvidenceMax)
      [] s = "title_sync" -> clock + Clipped(StageLimit) + ItemMax
      [] s = "rematch" -> clock + SoftLimit + ItemMax
      [] OTHER -> clock + OtherMax

CutOf(s) == IF s \in {"title_sync", "rematch"} THEN clock + Clipped(StageLimit) ELSE Never

\* The next stage, or the end of the chain.
NextStage ==
    /\ inside' = FALSE /\ last' = 0 /\ cut' = 0
    /\ IF at = Len(Stages) THEN phase' = "finish" /\ UNCHANGED at
                           ELSE at' = at + 1 /\ UNCHANGED phase
    \* both vision stages get the deadline that is fixed after the scrape
    /\ visionEnd' = IF Stage = "scrape" THEN clock + Clipped(StageLimit) ELSE visionEnd

SkipStage ==
    /\ phase = "run" /\ ~inside
    /\ \/ Stage \in Optional
       \/ Stage \in DataStages /\ Exhausted
       \/ Stage \in CapChecked /\ CapSeen("anthropic")
    /\ NextStage
    /\ UNCHANGED <<force, clock, session, capped, briefs, alarm, row, pings, abandoned>>

\* A stage that looks at the cap begins below it, or because its look failed.
BeginStage ==
    /\ phase = "run" /\ ~inside
    /\ ~(Stage \in DataStages /\ Exhausted)
    /\ \/ ~(Stage \in CapChecked /\ CapSeen("anthropic")) /\ UNCHANGED session
       \/ Stage \in CapChecked /\ session' \in AfterError
    /\ inside' = TRUE /\ last' = LastOf(Stage) /\ cut' = CutOf(Stage)
    /\ UNCHANGED <<phase, force, at, visionEnd, clock, capped, briefs, alarm, row, pings,
                   abandoned>>

\* Time passes inside a stage or a ping; the timers fire on time, except that a statement
\* of title_sync holds the event loop for up to ItemMax.
Tick ==
    /\ phase = "ping" \/ (inside /\ clock < last)
    /\ phase \in {"run", "ping"} /\ clock < TotalTimeout
    /\ (inside /\ Stage = "rematch") => clock < cut
    /\ clock' = clock + 1
    /\ UNCHANGED <<phase, force, stageVars, session, capped, briefs, alarm, row, pings, abandoned>>

\* A stage returns; its spending may pass the cap.
StageReturns ==
    /\ phase = "run" /\ inside /\ session = "ok"
    /\ capped' \in IF Stage \in Paying THEN {capped, capped \cup {"anthropic"}} ELSE {capped}
    /\ briefs' \in IF Stage = "briefs" THEN {c \in Counters : c.enabled} ELSE {briefs}
    /\ NextStage
    /\ UNCHANGED <<force, clock, session, alarm, row, pings, abandoned>>

\* A database error, new or left behind by an earlier stage, or the scraper raises. A try
\* block turns it into an entry of the summary, with nothing rolled back but what went wrong
\* in post_analysis' own loop. Outside a try block the exception ends the chain.
StageBreaks ==
    /\ phase = "run" /\ inside
    /\ session' \in AfterError
    /\ \/ /\ NextStage
          /\ briefs' \in IF Stage # "briefs" THEN {briefs}
                         ELSE {c \in Counters : c.enabled /\ (session = "aborted" =>
                                 c.generated = 0 /\ c.skipped_cache_hit = 0)}
       \/ /\ Escapable(Stage)
          /\ phase' = "except"
          /\ UNCHANGED <<stageVars, briefs>>
    /\ UNCHANGED <<force, clock, capped, alarm, row, pings, abandoned>>

\* asyncio.wait_for gives a stage up. The title sync is cancelled and its session rolled
\* back; the thread of a rematch that is still at work goes on with the session.
StageCut ==
    /\ phase = "run" /\ inside /\ clock >= cut
    /\ \/ Stage = "title_sync" /\ session' = "ok" /\ UNCHANGED abandoned
       \/ /\ Stage = "rematch" /\ clock < last
          /\ abandoned' = abandoned \cup {"rematch"} /\ UNCHANGED session
    /\ NextStage
    /\ UNCHANGED <<force, clock, capped, briefs, alarm, row, pings>>

ThreadReturns ==
    /\ \E s \in abandoned : abandoned' = abandoned \ {s}
    /\ UNCHANGED <<phase, force, stageVars, clock, session, capped, briefs, alarm, row, pings>>

-----------------------------------------------------------------------------------
(* The end of the run. *)

\* silent: nothing done; all_failed: no fresh brief and at least half of them failed.
Total == briefs.generated + briefs.failed + briefs.skipped_cache_hit
MUT_Silent == briefs.enabled /\ briefs.generated = 0
Silent == briefs.enabled /\ Total = 0
AllFailed ==
    /\ briefs.enabled /\ briefs.generated = 0 /\ Total > 0
    /\ 2 * briefs.failed >= Total

\* The status is committed and success pinged, both inside the try block.
Finish ==
    /\ phase = "finish"
    /\ alarm' = (Silent \/ AllFailed)
    /\ \/ /\ session = "ok" /\ row' = "completed" /\ phase' = "ping"
          /\ pings' = pings \cup {"ok"}
          /\ UNCHANGED session
       \* the commit raises
       \/ /\ session' = "aborted" /\ phase' = "except"
          /\ UNCHANGED <<row, pings>>
    /\ UNCHANGED <<force, stageVars, clock, capped, briefs, abandoned>>

\* The handler around the chain writes "failed" on the same session, without a rollback;
\* if that raises too, the task ends: no status, no ping.
MUT_Except ==
    /\ phase = "except"
    /\ pings' = pings \cup {"fail"}
    /\ \/ session = "ok" /\ row' = "failed" /\ phase' = "ping" /\ UNCHANGED session
       \/ session' = "aborted" /\ phase' = "over" /\ UNCHANGED row
    /\ inside' = FALSE
    /\ UNCHANGED <<force, at, last, cut, visionEnd, clock, capped, briefs, alarm, abandoned>>
Except ==
    /\ phase = "except"
    /\ \/ /\ session = "ok" /\ row' = "failed" /\ phase' = "ping"
          /\ pings' = pings \cup {"fail"}
          /\ UNCHANGED session
       \/ /\ session' = "aborted" /\ phase' = "over"
          /\ UNCHANGED <<row, pings>>
    /\ inside' = FALSE
    /\ UNCHANGED <<force, at, last, cut, visionEnd, clock, capped, briefs, alarm, abandoned>>

\* A ping takes its time; what goes wrong on the way is swallowed.
PingReturns ==
    /\ phase = "ping"
    /\ phase' = "over"
    /\ UNCHANGED <<force, stageVars, clock, session, capped, briefs, alarm, row, pings, abandoned>>

\* The wrapper's total timeout: the await in progress is cancelled, a thread is not; a
\* second session marks the row if it is still running, and "fail" is pinged. If that
\* session fails, neither happens.
MUT_TimeoutStatus == "error"
TimeoutStatus == IF row = "running" THEN "error" ELSE row

TotalTimeoutFires ==
    /\ clock = TotalTimeout
    /\ phase = "ping" \/ (phase = "run" /\ inside)
    /\ \/ row' = TimeoutStatus /\ pings' = pings \cup {"fail"}
       \/ UNCHANGED <<row, pings>>
    /\ abandoned' = abandoned \cup (IF phase = "run" THEN {Stage} \cap Threaded ELSE {})
    /\ phase' = "over"
    /\ UNCHANGED <<force, stageVars, clock, session, capped, briefs, alarm>>

Done == phase = "over" /\ abandoned = {} /\ UNCHANGED vars

Next ==
    \/ Preflight
    \/ SkipStage \/ BeginStage \/ Tick
    \/ StageReturns \/ StageBreaks \/ StageCut \/ ThreadReturns
    \/ Finish \/ Except \/ PingReturns \/ TotalTimeoutFires
    \/ Done

Spec == Init /\ [][Next]_vars

-----------------------------------------------------------------------------------
(* Properties. *)

\* The shared window (cron.py:141-160, :190-196): no data stage after the scrape is at work
\* later than one item past the window, however the limits of the stages before it
\* added up.
WindowKept ==
    Guarding /\ inside /\ Stage \in DataStages => clock <= DataBudget + ItemMax

\* Its inductive strengthening: the vision deadline lies in the window or has no stage
\* left to serve, a stage is at work no longer than it can be, and a data stage was
\* given no more than the rest of the window.
WindowInv ==
    /\ clock \in Nat /\ last \in Nat /\ visionEnd \in Nat
    /\ Guarding => visionEnd <= DataBudget \/ Exhausted
    /\ phase = "ping" => ~inside
    /\ phase = "finish" => ~inside
    /\ phase = "preflight" => ~inside
    /\ inside => clock <= last
    /\ Guarding /\ inside /\ Stage \in DataStages => last <= DataBudget + ItemMax

\* "Die Produktstufen sind damit strukturell garantiert" (cron.py:153): if the scrape, the
\* window and the stages outside it fit under the total timeout, it never fires before
\* the briefs.
WindowEnd == Most(ScrapeMax, DataBudget + ItemMax)
WorstBeforeBriefs == WindowEnd + EvidenceMax + ItemMax + 4 * OtherMax
ProductsReached ==
    Guarding /\ WorstBeforeBriefs < TotalTimeout => (row = "error" => at >= BriefsAt)

\* Its inductive strengthening: after i stages the chain is no later than the window and
\* the stages outside it allow; only the four between the rematch and the briefs add up.
LatestAfter(i) ==
    CASE i = 0 -> 0
      [] i \in 1..4 -> WindowEnd
      [] i \in 5..7 -> WindowEnd + EvidenceMax + ItemMax
      [] i = 8 -> WindowEnd + EvidenceMax + ItemMax + OtherMax
      [] i = 9 -> WindowEnd + EvidenceMax + ItemMax + 2 * OtherMax
      [] i = 10 -> WindowEnd + EvidenceMax + ItemMax + 3 * OtherMax
      [] OTHER -> WorstBeforeBriefs
ReachInv ==
    /\ at \in Nat \ {0}
    /\ phase = "ping" => row # "running"
    /\ Guarding /\ phase \in {"preflight", "run"} /\ at < BriefsAt =>
           IF inside THEN last <= LatestAfter(at) ELSE clock <= LatestAfter(at - 1)
    /\ ProductsReached

\* What the dead man's switch hears (cron.py:1941-1951) is what became of the run, however its
\* status was lost: it stays silent exactly when the row does (a commit on an aborted
\* session, in the chain, its handler or the timeout's own), hears of success only for a
\* completed run, and of a failure of one only if the total timeout met its ping.
PingsTellTheEnd ==
    phase = "over" =>
        /\ pings = {} <=> row = "running"
        /\ "ok" \in pings <=> row = "completed"
        /\ "fail" \in pings /\ row = "completed" => clock = TotalTimeout

\* Its inductive strengthening: up to its end a run is running and nothing was pinged, and a
\* ping under way is the one for the status that was committed before it.
PingInv ==
    /\ phase \in {"preflight", "run", "finish", "except"} => row = "running" /\ pings = {}
    /\ phase = "ping" => \/ row = "completed" /\ pings = {"ok"}
                         \/ row \in {"failed", "budget_exceeded"} /\ pings = {"fail"}
    /\ PingsTellTheEnd

\* The early warning (cron.py:2385-2419): a completed run whose enabled brief stage left
\* no brief in place raised the alarm, and one in which nothing failed and something
\* was in place did not.
AlarmOnOutage ==
    row = "completed" /\ briefs.enabled =>
        /\ briefs.generated + briefs.skipped_cache_hit = 0 => alarm
        /\ briefs.failed = 0 /\ Total > 0 => ~alarm

\* Its inductive strengthening: the counters add up, and the alarm of a completed run was
\* decided from the counters it still has.
AlarmInv ==
    /\ briefs \in Counters
    /\ phase \in {"preflight", "run", "finish", "except"} => row # "completed"
    /\ row = "completed" => (alarm <=> Silent \/ AllFailed)

\* What the other modules take of a run: the contract of RunTask.
TaskState ==
    CASE phase \in {"preflight", "run", "finish", "except"} -> "active"
      [] phase = "ping" -> "ping"
      [] OTHER -> IF abandoned # {} THEN "zombie" ELSE "none"
Contract == INSTANCE RunTask WITH task <- TaskState, elapsed <- clock
KeepsRunContract == Contract!TaskSpec

\* The docstring at cron.py:1058-1067: the rematch stops itself RematchMargin before its
\* hard limit, so that wait_for abandons its thread only if a single asset takes longer.
RematchStopsItself == ItemMax <= RematchMargin => "rematch" \notin abandoned

\* The comment at the handler around the chain, "top-level guard, status persists"
\* (cron.py:2461): a run whose task has ended has a status.
StatusPersists == phase = "over" => row # "running"
================================================================================
