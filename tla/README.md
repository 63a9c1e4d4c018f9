# Creative Radar: a formal model

Creative Radar is a FastAPI backend (`backend/app`) with a Postgres database. Once a week it
scrapes the social-media channels of film distributors, turns the posts into assets, matches
them to titles, analyses them with vision and language models and writes weekly products (pair
briefs, roundups, forecasts, briefings). This directory holds TLA+ modules of it, the TLC runs
that check them, and proofs of the most important invariants. They are of two kinds: modules of
what **runs** (where order, concurrency and failure decide what is in the database afterwards),
and modules of what is **computed** (figures, patterns and advice as operators over a table of
posts that keeps changing).

## 1. Inventory

One web process (uvicorn, one worker) is one asyncio event loop plus worker threads
(`asyncio.to_thread`, FastAPI's threadpool). Everything durable is in Postgres. Components
meet in four ways: the event loop, rows of a table, one SQLAlchemy session passed down a chain,
and advisory locks.

| Component | State | Operations | What makes it correct |
|---|---|---|---|
| Cron run lifecycle (`api/cron.py`, `services/cron_scheduler.py`) | rows of `cron_run`; one background task per run | `POST /api/cron/sync-all`, 60 s scheduler tick, reaper, total timeout, restart | one run at a time; the reaper never hits a living run; a final status is final; one scheduled run a week; no row runs for ever |
| Cron pipeline (`_run_cron_sync_background_impl`) | stage, shared data window, one session, counters | budget pre-flights, 18 stages, status, alarm, heartbeat | data stages stay in their window, so that the products are reached; pings and alarm tell how the run ended |
| Pair briefs (`services/insight_engine.py`, callers in `cron.py`, `insights.py`, `admin.py`) | `insight_report`, advisory lock per pair and week | pre-check, lock, re-check, generate, persist | one generator per brief, no second payment, no deadlock |
| Brief LLM kernel (`_run_brief_llm`) | attempts, failure flags | call, retry, classify, bill | all answers billed; output and failure belong to the last answer |
| Calendar of the weekly rows (anchors in `cron.py`, `admin.py`, `insights.py`; `beweis_loop.py`) | `insight_report`, `recommendation_snapshot` per week | scheduled, manual and forced runs, regeneration, page load | no post falls between two briefs; no post is both basis and proof of an advice |
| Asset ingest (`api/monitor.py`, `api/posts.py`) | `post`, `asset`, `title_candidate`; semaphores | sync per platform, manual import, link import | one asset per post, no stuck semaphore, known causes of orphans |
| Titles (`title_candidates.py`, `title_rematch.py`, `candidate_autopilot.py`, `candidate_llm_assist.py`, `katalog_nachladen.py`, `title_sync.py`, admin page) | `title`, `title_candidate`, `asset.title_id` | match, propose, ask, load, sync, confirm, create, dismiss, reopen | a closed candidate's asset has a title; a repeated job finds nothing left to do; every job ends |
| Visual analysis and post analyzer (`visual_analysis.py`, `post_analyzer.py`, screenshots, storage) | `asset.visual_analysis_*`, `post.analysis`, object storage | secure the picture, analyse, retry, classify, backfill | counters account for all assets; nothing is paid for twice; no description without its analysis |
| Weekly products (`segment_roundup.py`, `forecast.py`, `cutter_weekly.py`, `designer_weekly.py`, `pattern_briefing.py`, `title_brief.py`, `recommendation_snapshot.py`) with caps and cost log (`budget_check.py`, `cost_log.py`) | one row per week and kind; `cost_log` | gate, look, gather, call, fall back, upsert | the cap closes after one stage at most; a good row is not replaced by a worse one |
| Figures of a pair (`insight_engine.py`: `aggregate_pair`, comparison, recommendations, row) | post table, `insight_report` | aggregate, compare, aggregate again, store | what the model is told of last week is true of the figures it is shown; rankings move for a reason only |
| Patterns and the pages built on them (`trailer_patterns.py`, `langform_analysis.py`, `post_check.py`, `referenz_suche.py`, `projekt_start_brief.py`, `pattern_playbook.py`, `release_countdown.py`, `campaign_timing.py`, `wochen_plan.py`, `weekly_briefing_evidence.py`, `beweis_loop.py`, `wir_segment.py`, `sound_trends.py`) | none of their own, snapshots of past weeks | reads | a pattern is not made of its posts' composition; all pages say what the report says |
| Title pages, timeline, tiles, feed, forecast line (`title_aggregation.py`, `market_timeline.py`, `forecast.py`, `api/insights.py`) | none of their own | reads | the same posts are counted the same everywhere |
| Users and sessions (`user_auth.py`, `admin_users.py`, `auth.py`, `rate_limit.py`) | users, login sessions, rate window | register, approve, log in, revoke | not modelled |
| Reports, thumbnails, proxy, connectors, configuration, migrations, frontend, scripts | none, or external | reads, calls to services | not modelled (section 5) |

Hard behaviours, and where they bite, are the `hazards` of `PROJECT.json`: deadlines that race
with late finishers, a crash between two commits, threads that cannot be cancelled, one session
shared by many stages, check-then-act on rows, locks held across loops, counters that are read as
the truth about an outage, calendars that disagree, one rule written down several times, and
numbers at the edge (no views, no spread, an empty window).

## 2. Modules

    SingleRunLock        abstract: one lock, taken and released
       ^ implemented by
    CronRun              rows, triggers, reaper, timeouts, processes
       : its task actions, for one run, are
    RunTask              contract of one run's row and task
       ^ implemented by
    CronPipeline         the stages inside the run; what they do to the database:
       : "scrape"                  AssetIngest
       : "rematch", "title_sync"   TitleAssignment
       : the vision and post stages AssetAnalysis
       : "briefs"                  BriefGeneration ---- BriefLLM
       : the products              WeeklyProducts
       : which week they are of    WeeklyBriefs

    PostTable            posts, assets, titles, analyses; Scrape, Cut, ... as time goes on
      |-- PairFigures -- Recommendations -- PairBrief -- TitlePages -- Forecast -- MCPairBrief
      |        \-------- WeekEvidence --\
      \-- TrailerPatterns -- PatternPages -- Campaigns -- Advice -- MCTrailerPatterns

(arrows of the second picture are EXTENDS; `Quotients` has the exact quotients and the median they
share). `MC*` modules hold the values TLC needs that a cfg cannot write; the theorems about a
module `M` are in `MProofs`, those about the second picture all in `StatisticsProofs`, which extends
its two ends, Forecast and Advice.

### What runs

**CronRun.** `row`, `age`, `week` stand for `CronRun.status`, `now - started_at` and
"started since Monday"; `task`, `owner`, `elapsed` for the background task, its process and the
time in `asyncio.wait_for`; `up`, `pc` for the processes and the handler they are in.
`Check(p, "sched")` is `maybe_trigger_scheduled_run` and `Check(p, "api")` is `cron_sync_all`
up to the INSERT (reap, look for a running row); `Insert` is the INSERT with the hand-over.
Both handlers are coroutines without an await in between, so within a process nothing but a
crash comes between the two; another process can. `Finish`, `Pinged`, `Die`,
`TotalTimeoutFires` and `ZombieEnds` are what can become of the task. `windowTick` is an
observer. Time is discrete; a queued task waits at most `StartDelay`, and due timers are served
before the next tick, as asyncio does.

**CronPipeline** goes through `Stages` with `SkipStage`, `BeginStage`, `Tick`, `StageReturns`,
`StageBreaks`, `StageCut`. The pings are those of the calls of `_ping_cron_heartbeat`, each with the
literal its place in the code has: in `Preflight`, `Finish`, `Except` and `TotalTimeoutFires`. An error
on the way of a ping is swallowed (`PingReturns`); the code swallows `httpx.HTTPError` only, so a url it
cannot parse would raise, which is not modelled, and without a url nothing is pinged. `Clipped` is `_DatenBudget.kappe`; `LastOf` gives the latest moment a
stage that checks the clock per item is still at work. `session` is the state of the one
session: a database error aborts it until a rollback, which only the title sync's cancellation
and a loop of the post analysis do, unless the statement never got a connection from the pool
(`AfterError`): then the session stays usable. A stage without a limit of its own is assumed to end within
`OtherMax`, the scrape within `ScrapeMax`: assumptions of the run, not code.

**BriefGeneration** has one worker per thread. `job` is the caller (`cron`, `cron_force`, `get`,
`get_force`, `regen`, `regen_replace`), `held` the advisory locks of the open transaction,
`session` its state, `brief` the rows, `tally` the cron's counters. A lock stays until a commit,
a rollback, an error or the end of the session; that is why a loop may hold several.

**BriefLLM** sees an answer only as a verdict (`valid`, `unverified`, `truncated`, `unparsable`,
`schema`), which is all that the loop branches on.

**AssetIngest** has one step machine per item: phase A (look, INSERT the post), B (OpenAI), B'
(screenshot), C (asset, candidate), with the two semaphores of a sync, the threads of the
executor, single-post imports that take no semaphore, cancellation by the total timeout and a
crash. A row of `title_candidate` is only the step that may fail after the asset's commit.

**TitleAssignment.** Every job has a session of its own: `db` are the committed rows, `put[j]` what
job `j` has written and therefore keeps locked, `snap[j]` the rows its stage selected from,
`focus[j]` the row it is at. The machine's jobs (`rematch`, `autopilot`, `assist`, `backfill`, its
`preview`, the title sync's `sync`, `enrich`, `genres`) and the clicks of the review queue (`pick`,
`confirm`, `create`, `dismiss`, `suggest`, `reopen`, two or three requests each) meet on the same
candidates. `loop` is the event loop: a coroutine that waits for a row lock keeps it. What a text
shows, what the matcher finds and what the model and TMDb answer are left open.

**AssetAnalysis** has the four stages of the cron (evidence, vision of the backlog, vision of the new
assets, post analyzer) beside an admin's single request, batch, tranche or forced analysis. A
session reads a row when it loads it, and a commit writes only the columns it has changed:
`seen` and `mine` are those two versions. `paid` counts an asset's calls.

**WeeklyProducts** has every product of the week as one item (`Kind` says which of snapshot, roundup,
forecast, cutter, designer, pattern and title brief it is), made by the cron's stages in their order
or by a request. `logged` is the month's cost log as far as the cap, `cut` and `blind` remember a gate
that closed and a sum that could not be read. A read that fails leaves an aborted session or, when no
connection was to be had, a usable one (`AfterFailedRead`); the gate opens after both, as
`budget_check.py:184-195` does. A call costs one unit.

**WeeklyBriefs** has weeks of `Days` days of `Ticks` moments and asks which posts a row is about.
Anchors differ by caller: Monday's run takes a day back, the report page last Sunday, the admin
either. `brief[w]` keeps only the anchor and what was known then.

### What is computed

Floats are exact quotients here (`Quotients`), compared by cross multiplication. What ties the code
breaks by order, the modules either keep (where the order is by a column of theirs) or answer with
all the equally strong.

**PostTable.** `post[p]` has the numbers of the one scrape that inserted the post (nothing updates
them), its publication day if the platform gave one, and the post analyzer's classes; `asset[p]` its
title, match key and review. `Scrape`, `MakeAsset`, `Classify`, `Describe`, `AssignTitle`, `Review`
and `NextDay` are what changes a table between two looks.

**PairFigures** is `aggregate_pair`: windows by publication or detection, channel profiles, matches
across markets, coverage, breakout scores with their decay, ranked lists. **Recommendations** are its
blocks with the removal of near-twins. **PairBrief** adds the making of a brief. `Begin` aggregates and
compares with last week's stored figures, `Reaggregate` aggregates once more for the prompt, `Persist`
stores those second figures, and the table goes on changing between the three.

**TitlePages** has the title page, the posts of a title, the timeline of a pair and the start page's
tile; **Forecast** the least-squares line through the weeks, its gate, what the public and the admin's
page show of it, the signals of the weekly briefings and the feed of outstanding posts.

**TrailerPatterns** has the lift of a post over its channel's median, features, cells, the reference
rate a feature's mix of platforms and markets has anyway, verdicts and market notes. **PatternPages**:
long against short formats, the check of a draft, the search for reference posts, the start brief and
the Monday mail. **Campaigns**: start of a campaign, countdown, week plan. **WeekEvidence**: what the
cutter's and the designer's briefing may call a pattern, from the lists stored with briefs and
roundups. **Advice**: cells of a snapshot, streaks ("the n-th week in a row"), confirmation, who
followed an advice and with what effect, examples and citations of a pattern briefing, sound trends.

## 3. Runs

| Run | Question and bounds |
|---|---|
| `cron_run` | Do rows, tasks and timeouts form one fair lock, with a final status, at most one scheduled run a week and no blocked Monday? One process that may crash and restart for ever, two rows, a week of 6 units, reap 3 >= total 2 + delay 1. Two rows are enough for every pairwise property: a third run would need one of the two to be over. |
| `pipeline` | Do windows, alarm, pings (how the run ended, or silence) and the contract `RunTask` hold? Limits of a few units so that skipped, clipped, overrunning and cut stages all occur; both values of `force`, every set of capped providers, an error at every stage. |
| `brief` | One generator, one payment, no waiting for ever? Two workers, two pairs, all six jobs, database errors, crashes. Two workers and two pairs are what a wait circle and a lost update need. |
| `brief_llm` | Is every answer billed? Three attempts (`MAX_RECALLS` = 2, the code's value), every sequence of verdicts, an exception at every call. |
| `ingest` | One asset per post, and do batches end? A sync of two channels, one url twice in it and once more in an import; each semaphore 1, two threads, exceptions everywhere, crash, cancellation. |
| `titles` | Has a closed candidate's asset its title, do repeated jobs find nothing, does the assist's summary forget nobody, does every job end? Two jobs (all pairs of machine jobs and clicks of `SmallSchedules`), two assets, three candidates (one sure, one doubtful, one stale), two names with a hit in TMDb each, five title rows. Two jobs are what a lock conflict and a stale selection need. |
| `analysis` | Do the counters account for every asset, is nothing paid for twice by the cron, and is a description stored only with its analysis? Three assets (the analyzer's own, a new one, one imported by hand), two cron runs of all stages beside an admin's request, caps of 1, commits every second asset; crash, timeout and failing calls at every step. |
| `weekly` | Does a closed cap stay closed for the stages that can read it, does only one stage pay past the cap, and does a good row stay? The cron's run beside one request, five items (snapshot, roundup, forecast, cutter, pattern), cap 1, two months, failing reads and writes, a crash. The workers are symmetric. |
| `weeks` | Which post is in which week's row? One post (the pages look at each post by itself) that appears and is scraped at any moment, four weeks of two days and three moments, one manual run besides the scheduled ones, a window of two weeks. |
| `figures` | Is what the model is told of last week true of the figures it is shown, do the rankings move for a reason only, and do all pages count the same? Two channels of one pair, three posts with any numbers of a small set, two briefs in two weeks, a scrape, an asset and two edits (a class, a cover, a title, a review) at any moment, among them between the two aggregations. |
| `patterns` | Is a pattern never made of composition or of posts without views, and do all pages, the mail and the briefings say what the report says? Three channels with two posts each (one German, two American, one of them outside the pair), thresholds of 2, every mix of numbers, one edit, two days. |
| `playbook` | A violation: the Monday mail's fixed texts against the heading they stand under (see below). |

`CHECK_DEADLOCK` is on except in `titles`, `analysis`, `figures`, `patterns` and `playbook`, whose
systems end when all jobs are done or the last day is over; modules of other systems that end have an
action `Done`. `runs`, `mutants` and `map` in `PROJECT.json` give properties, their negative tests
and source lines. `MUT_...` operators are those negative tests: each is a plausible bug which the
property next to it must find.

### The violated run

`playbook` checks that what a line of the mail says agrees with its section
(`AdviceMatchesVerdict`). `_werkstatt_empfehlung` (`pattern_playbook.py:190-212`) returns the fixed
template of a value (198-200) before it has looked at the verdict. Some templates speak for the value
(`pre_launch`, `behind_the_scenes`, `langform`, `title_card`), others against it (`launch`, `evergreen`,
`humorous`, `clip`); `render_playbook` (361-369) puts the same line under "what does not work" when the verdict of
the week is "under".

### Statements of the repository the modules refute

These formulas stand in the modules beside the properties. Each says what a comment, a docstring or a
page says, and TLC finds a counterexample when it replaces the INVARIANTS (or PROPERTIES) of the
cfg in brackets.

| Formula | What the code does instead |
|---|---|
| `AtMostOneWorking` with reap 1, total 5 [`cron_run`] | The lock is freed by age. `CRON_RUN_TIMEOUT_MINUTES` (30) is below `CRON_TOTAL_RUN_TIMEOUT_SECONDS` (9000 s), so a second pipeline starts beside the first. The incident report of 2026-08-10 raised both in production; the defaults remain. |
| `RematchStopsItself` [`pipeline`] | With less than 121 s left in the window, soft and hard limit of the rematch are both about one second, and its thread is abandoned with the session the next stages use. |
| `StatusPersists` [`pipeline`] | The comment at the handler around the chain says "top-level guard, status persists" (`cron.py:2461`). The handler writes "failed" on the session of the chain without a rollback; if a database error brought it there, its commit raises too, and the row stays `running` until the next trigger's reaper. `PingsTellTheEnd` says that the dead man's switch then hears nothing at all, which is how it finds out. |
| `PairIsolation` [`brief`] | A failed statement in one pair fails all pairs after it (no rollback). |
| `LastModeReported` [`brief_llm`] | Schema failure, then a truncated answer: reported as a schema failure. |
| `SessionsWithinSemaphores` [`ingest` with `OneSync`, `TwoUrls`, items t1 to t3 and three threads] | Phases A and C hold sessions outside the semaphores. |
| `NamesStayUnique` [`titles`] | A name gets a second row and the automation is off for it: a person picks TMDb's work although a hand-made row of the name has no number yet; `create_title` looks and inserts in two steps; two syncs enter a work twice (`tmdb_id` has no unique index). |
| `ResolvedHasTitle` [`titles`] | `confirmCandidate` (`AdminApp.jsx:272-279`) closes the candidate even when the request that sets the title failed. |
| `SecuredCopyUsed` [`analysis`] | An asset is given up for the lack of a picture although the own storage has one: a repeated capture that fails writes `fetch_failed` beside the stored key (`asset_screenshot_persistence.py:31`), and the next look goes by that status. |
| `RewriteInPlace` [`weekly`] | A forced snapshot deletes and commits before it inserts; a crash between leaves no row. |
| `EvidenceLands` [`weekly`] | A weekly briefing whose first answer was rejected and whose second call raises leaves no row at all, and its evidence with it. |
| `WeekIsComplete` [`weeks`] | Monday's anchor is a day back: posts of Sunday evening are in no brief of their week (`cron.py:2133`, against 2291-2296). |
| `NoReactionInOwnWeek` [`weeks`] | The proof loop goes by the day of the scrape (`beweis_loop.py:127`, against 15-18). |
| `NoPostNewAndDropped` [`figures`] | An asset made between two briefs changes the identity of its post: it is "new" and "dropped" at once (`insight_engine.py:3110`, against 3095-3096). |
| `SharedTextIsPublicSafe` [`figures`] | The forecast's text is stored per pair and week; both pages may cut the axis, so a text from a short axis tells a number the public page hides (`forecast.py:243-276`). |

### Conditions and notes

The properties hold under conditions worth knowing.

* `AtMostOneWorking` needs `SafeTimeouts` (reap limit at least total timeout plus start delay,
  deployments that do not overlap). `MondayNotBlocked` needs `ReapBeforeWindow` on top: with a reap
  limit of 210 minutes, as in the incident report, a run started after 23:35 on Sunday and killed
  still counts as running during the whole window at 03:00. A manual run begun on Monday between
  00:00 and 03:00 takes the scheduled run's place, whatever week it is asked for.
* `OneGenerator` needs one process, because the lock key is a salted hash;
  `docs/sprints/race-condition-diagnose-2026-05-12.md` knows that.
* `ProductsReached` needs a data window that leaves room; with the default values the window equals
  the total timeout.
* `CapHolds` speaks of the cron's run. Requests look at no cap. A stage whose own look failed is
  excepted: a failed read counts as nothing spent (`budget_check.py:191-195`, a documented choice), and
  if only the connection was missing the stage goes on to pay. What holds is that the next look that
  succeeds closes again, and that past the cap only the stage under way when it was reached pays.
* `PingsTellTheEnd` takes `cron_heartbeat_url` to be set. Success is pinged inside the try block and
  after the commit; a completed run may therefore ping success and, if the total timeout meets that
  ping, failure as well.
* `OneAssetPerPost` is about the ingest and the imports. `post_analyzer.analyze_post` adds an asset of its
  own to a post none of whose assets has the picture's url (471-487); that writer is in AssetAnalysis.
* `ClosedWithTitle` excepts the candidates a `confirm` closed although its first request had failed
  (`halfway`). Not excluded: a person's assignment overwritten by a rematch or an assist that had
  selected the asset before; two open candidates of one asset; a failed attempt counted twice by two
  assists at once.
* The three parts of `RepeatsFindNothing` and `NobodyForgotten` speak of a stage while which no other job
  committed. The observer `alone` says so; to compare the tables would not do, since one job may dismiss a
  candidate and another open it again. `SyncIsIdempotent` needs one work per name, year and type: two
  works of one name share a row and overwrite each other at every sync.
* `PaidOnce` is about the cron; two different workers may both pay for one asset. A crash leaves an
  asset `running`, and no selection ever takes it again (`visual_analysis.py:202`); the retries
  offered for `error` (`api/assets.py:211-217`) select none of the real failures.
* `NoGapBetweenBriefs` needs a window of two weeks, `OnlyLastDayMissing` one of a week (the code has
  30 days). A row of the running week made by hand in midweek, when complete, is kept by Monday's
  run; a forced Monday run moves the end of a row made on Sunday backwards.
* `ComparisonStands` allows the two sets of figures of one brief to differ, as the code does
  (`insight_engine.py:4569`, 4637, 4107): a post that came in between may push one out of the ranking that
  the model was told is there. The model knows nothing of it, the row holds the second figures. Not
  modelled of a stored brief: the checks of the answer against the figures, and the validation when a
  row is read.
* `StreaksAreProven` compares a page made live with rows frozen by the runs of their weeks. This week's
  row may be missing (before Monday's run) or hold findings the table has moved on from, and then page
  and record need not agree on it; the property says what of last week's advice they still share.
* The mail sorts findings by |z| rounded to two decimals (`pattern_playbook.py:239`); `Strongest` compares
  the exact squares and tells apart cells that the code leaves in the order of the report. Properties
  are about every verdict and every value, so nothing rests on the choice between near ties.
* The computed modules show divergences that no property forbids: rejected assets still count in
  coverage, matches and title pages; ranked lists use unclamped sums where others clamp hidden likes;
  handles are looked up without their platform; the best of equals is left to the order of rows; a
  snapshot of the old format is read as one without findings for the next week's streak.

### Fairness

* `CronRun`: time passes (strong, since a handler interrupts it), due timeouts fire, a queued task
  starts, a stopped process comes back (`restartPolicyType: ON_FAILURE` or the next deployment),
  an INSERT succeeds or fails, and ticks keep coming (strong: the loop is interrupted by crashes).
  Nothing is assumed of the pipeline: it may hang. Crashes may recur for ever.
* `BriefGeneration`: a thread goes on, and a lock that is free again and again is granted
  (Postgres queues waiters). No timeout, error or crash is assumed to happen, so
  `RequestsEnd` does not rest on `lock_timeout`.
* `AssetIngest`: every call returns or raises, the event loop goes on. Weak fairness only.
* `TitleAssignment`: every job goes on (weak): calls to the model and to TMDb have timeouts, the
  database runs what it is given. Two coroutines can wait for each other (one for a row lock and with
  it the loop, the other for the loop), and `EveryJobEnds` then rests on the statement timeout
  (`LockTimeout`), as the code does.
* The other modules state safety only.

## 4. Proofs

All theorems are for every value of the constants that meets the named assumption of the module;
further conditions are in the statement. The strengthenings stand beside the property they serve or at
the head of the proof module; TLC had checked them as invariants before they were proved.

**CronRunProofs.** `TypeCorrect` is `[]TypeOK`. `MutualExclusion`, `ReaperIsSafe` and
`FinalStatus` are `[]AtMostOneWorking`, `[]NoFalseDeath` and `StatusIsFinal` under `SafeTimeouts`.
Neither `AtMostOneWorking` nor `NoFalseDeath` is inductive: a state with a young task and an old row
would satisfy both and lose them at the next tick. `LockInv` adds what rules it out: one process
lives and only in it do tasks and half-done handlers exist (`OneProcess`, `TasksAlive`); whoever
is about to INSERT saw no running row (`InsertReady`), so at most one row is running
(`OneRunning`); and a row is at most `StartDelay` older than its task's `wait_for` (`AgeBound`).
The argument: a task that is not due is younger than the reap limit, a due one is served before
the tick (lemma `WorkingIsYoung`), so the reaper only hits rows nobody works for.
`OnePerWeek` (`ScheduledOncePerWeek`) adds `SchedReady`: between the scheduler's look and its
INSERT the week stays without a run. `ImplementsLock` is the safety part of the refinement: each
step of CronRun maps to Acquire, Release or a stutter of SingleRunLock, where the holder is the
run that is running or still worked on. `HungRunNeverBlocksMonday` is `[]MondayNotBlocked` under
`ReapBeforeWindow`, with whatever happens to processes and tasks: a run of an earlier week that still
counts as running in the window is older than the time since Monday began (`OldIsOld`), so the tick's
reaper takes it (`RunningIsOfThisWeek`), and what the tick then finds running or inserts is a run of
this week (`DecisionFindsRun`).

**CronPipelineProofs.** `DataWindow` (`WindowKept`) by `WindowInv`: a data stage never gets more
than the rest of the window, and a stage is at work no longer than it was given (`LastFacts`
computes that for every stage). `ProductsGuaranteed` (`ProductsReached`) by `ReachInv`: after `i`
stages the clock is at most `LatestAfter(i)`; the stages inside the window do not add up, only
those outside it do. `SwitchTellsTheEnd` (`PingsTellTheEnd`) and `AlarmIsRight`
(`AlarmOnOutage`) by `PingInv`, which ties a ping under way to the status committed before it, and
`AlarmInv`.
`ImplementsContract` is the whole of `KeepsRunContract`: RunTask has no fairness, so the
refinement is a step simulation.

**BriefProofs** is about BriefGeneration and BriefLLM. `AdvisoryLock` (`OneGenerator`) and `DoubleCheckedLocking`
(`NoSecondPayment`) assume `OneNamespace`, that all workers compute the lock key alike; across
processes with different hash seeds both are false. `LockInv`: from the re-check to the write a
worker holds the key of its pair (`HoldsKey`) and a key has one holder (`OneHolder`), so nobody can
write the row between another's re-check and write. Lemma `KeyExcludes` is that argument.
`HonestCounters` (`NoPhantomSuccess`, in no run) needs neither.
Of the kernel, `AllBilled` and `LastAnswerDecides` by `KernelInv`, for every number of attempts.

**AssetProofs** is about AssetIngest and AssetAnalysis. `OnePostOneAsset` (`OneAssetPerPost`) by
`MakerInv`: whoever is past the INSERT made the post, and the unique index lets one through.
Of the analysis, for every set of assets, workers, runs and stages and for all caps: `AnalysisTypes`
(`[]TypeOK`), `EveryLookIsCounted` (`NothingUncounted`), `PaidForOnce` (`PaidOnce`),
`NoDescriptionWithoutItsPost` (`DescribedWithItsPost`) and the action property `BacklogTakesItsFill`
(`BacklogIsFull`). One invariant, `IInv`, carries them. None of the three properties is inductive
alone, because a worker decides by the row it read and not by the row there is:

* `SessionOk`, `Held`: a row a worker holds was read from a row that exists, and what it has seen as done
  is done: no column goes back to pending. `StageOk` ties the place in a stage to the row held.
* `CountOk`: outcomes so far, plus the look under way, are the looks begun.
* `CronOk` with `FreshFirst`: whatever the cron still has on its list is not paid for yet, since only its
  first stage makes assets and each list is selected from what is pending; `PaidOk`: what is paid for is
  there and no longer pending.

The tables only grow (`Grows`), so a step of one worker cannot hurt the part of another (`OneMoves`).
The lists need two facts of sequences: every finite set of numbers can be put in order (`OrderExists`;
the proof takes a smallest set that could not, by `WFMin`, instead of an induction), and a list without
repetition cut to the cap is as full as cap and set allow (`BacklogCut`).

**WeeklyBriefsProofs.** `TypeCorrect`; `LateBriefsMissLastDayOnly` (`OnlyLastDayMissing`, windows of at
least a week), `BriefsLeaveNoGap` (`NoGapBetweenBriefs`, at least two weeks), `AdviceBeforeProof`
(`NoPostProvesItself`) and `FrozenHistory`. The invariant is `TypeOK /\ PostInv /\ RowInv /\
SnapshotInv`: no post is scraped before it appears, and every row's anchor lies where its callers can
have put it. The properties then are arithmetic of moments.

**WeeklyProductsProofs.** `TypeCorrect`; `OneStagePastTheCap` (`CapHolds`) and `GoodRowsStay`
(`GoodRowKept`), for all workers, items, caps and months. `CapHolds` by `CapInv`: only one worker is the
cron's run (`OneRun`); a month's sum does not shrink, so what closed a gate or made a stage overshoot is
still so (`SumStands`), and behind a closed gate and behind the stage that overshot, the run is at a gate or
in a stage whose look failed (`RunsBehind`). `GoodRowKept`
by `RowInv`: only the briefings of the cutter and the designer are written over a row without a usable
answer, only the run writes them (`OnlyDemand`), and an unforced run goes past its look only if there was
no row (`FirstRow`).

**TitleAssignmentProofs.** `ResolvedMeansTitled` (`ClosedWithTitle`) by `TitleInv`. Of committed rows alone
the property is not inductive: a candidate may be closed in one transaction on the strength of a title
that another has given. So the invariant follows the transactions (`JobOk`): what a job has written so far
keeps the promise over the committed rows (`Sound`) and takes no asset its title; the rows that two open
transactions have written are disjoint, by their locks (`Apart`); the rows a stage has selected stay rows
(`QueueOk`); a click comes to its second request with its asset titled (`FocusOk`). Lemma `SoundBeside` then
lets one job commit beside another. Assumed are `CleanStart`, that the day begins with such tables, which
TLC checks of the instance in the initial states, and `NoneIsNoRow`, that None is no record.

`RepeatedJobsFindNothing` (`RepeatsFindNothing`) and `AssistForgetsNobody` (`NobodyForgotten`) need what a
stage has done so far, `AloneInv`: while no other job commits, what a stage sees is the tables it began with
under its own writes (`AloneOk`, `StepsAreElsewhere`). Then whatever the next run of the autopilot would do
something about is still on this one's list (`AutopilotSeen`); the candidates the next assist would ask about
are on the list, being asked about, or counted as left or failed, less those a reopening drops
(`AssistSeen`); and a work still to be entered by the sync has the rows it had, one that was entered has those
or exactly one (`SyncSeen`). Two facts of the operators carry the steps: what a stage writes only narrows
what the next selects (`NarrowingFindsLess`), and the tidying at its end finds what it had left over
(`TidyLeavesLess`). `IsFiniteSet(Cands)` is assumed of both, since the assist's report counts candidates,
and `OneWorkPerName` of the first.

**StatisticsProofs** is about the computed modules of the second picture, for every finite set of posts,
channels, markets and thresholds. Most speak of which posts a figure is taken of, and that is where the
pages can contradict one another: there medians and scores stay names. Opened are the sums (expected rates,
counts of the campaigns, lines of the forecast), the ranks, and the scores where two are compared.

* `ComparisonOutlivesTheWait` (`ComparisonStands`). The invariant says of a generation that the posts it
  was told of were stored when it began and stand among the best of their pool then, or were stored with
  an earlier brief and do not; and of every row that its posts are stored (`BriefOk`, `GenInv`). Rows keep
  their numbers and the moment of both aggregations is the same, so an old post can only be overtaken by
  one that was not known (`NewcomerWins`, as below), and one that had lost its place does not get it back.
* `RankingIsStable` (`LeavesOnlyWhenBeaten`). A row of the table keeps its numbers (`Kept`, from
  `TableOk`), so the order of two posts never changes (`RankingStep`), and it is a total order
  (`IsOrder`). If a post falls out of the first n of a growing pool, fewer than n old posts were ahead of
  it, so a newcomer is; the best of the newcomers ahead of it has itself fewer than n ahead
  (`NewcomerWins`, which serves both). `NoneIsNoPost` says that None is no record.
* `EvidenceIsNeverMadeUp` (`NoFalsePattern`). The stored lists hold posts of the week under the name by
  which everybody knows them, since no channel of a segment is in the pair (`WeekPostsAreEverybodys`);
  more posts can only make a check say more (`CheckIsMonotone`).
* `ViewlessPostsChangeNothing` (`ViewlessInert`). A report reads its context only through the posts it can
  measure (`SameFigures`, `ReportOfSameFigures`).
* `StreaksStandInTheRecord` (`StreaksAreProven`). The count of weeks stops at the first that is missing
  (`StreakOf`), so each week it counts has its successor and is at most `HistoryWeeks` back: a pair of the
  record (`StreakIsProven`). Whether an advice lasts is decided by last week's row alone (`LastingIsAdvised`),
  whether it was confirmed by this week's. `NoneIsNoCount`: None is no number.
* `MixIsNeverAPattern` (`CompositionIsNoPattern`) and `FindingsShowSomewhere` (`SomeMarketShowsIt`). The
  expected rate is a fold over the strata, in an order the fold chooses. That the fold is defined at all
  (`SumsExist`), gives the same in every order (`SumInAnyOrder`) and adds up over disjoint sets (`SumOfTwo`)
  is proved from `Plus` alone, by taking a smallest set for which it fails (`SubsetInduction`, from `WFMin`).
  So hits that are within the expectation in every part of a partition coarser than the strata are within
  it as a whole (`ByParts`): with the strata as parts that is the first theorem, with the markets as parts
  the second, since a verdict tells on which side of the expectation the hits are (`VerdictMeans`).
* `CampaignPagesTellOneStory` (`CampaignsAgree`). Against one release, the earliest post in the band has the
  largest lead (`StartsAgree`, `LargestOfBand`); the curve and the channels both add up to the timed posts,
  since the classes of any key do (`ClassesAddUp`, sums of whole numbers by `TotalsAreSums`); a phase's cell
  and a search for its value and phase select by the same two conditions (`PhaseIsSearch`).
* `PagesSayWhatTheReportSays` (`PagesMatchReport`). Under a total order a place of a finite set is taken by
  exactly one element (`FirstAreMany`, `EveryPlaceIsTaken`, `EveryRankIsTaken`), so every median, and with it
  every lift, is a quotient (`LiftsAreQuotients`), and the best n of a non-empty cell are not none
  (`HighestAreShown`); a post left out under a genre that is better than one shown has a title that stands
  there with its full share, as the first of that title are all ahead of it (`MixedIsCapped`). What a draft
  is told is the verdict of the cells it is counted in (`JudgedAsInReport`), the classes of length are the
  two arms (`PostsOfClass`), the last word follows from two sums being equal term by term (`LastWord`), and
  no day lies in the week after two weeks (`WeeksAreApart`). `NoneIsNoPage`: None is no page, no quotient
  and none of the texts. `AnswersInVocabulary`: the classifier answers a format of its list; the code asks
  for that and does not check it, and `post_check` answers 422 to any other, so the check of a draft would
  then not be that of the post (a fact of the code the runs do not reach, as their answers are of the list).

* `PagesCountTheSamePosts` (`PagesCountTheSame`). The inductive invariant is `TableOk` and `DatedOk`: no stored
  post is dated after today, so the open window of a title page and the closed one of the brief are the same.
  The breakdowns add up since the totals over the classes of a key do (`ClassTotalsAddUp`, `GroupsAddUp`), and
  the markets of a week have its posts (`TimelineHasThePosts`). In the feed a post is in one pool only, as a
  handle stands for one market of a platform (`OneEntryEach`); it is above the mean of its pool, whose spread
  is not zero (`MovingTogether`: numbers that rise together have a positive covariance), and of such scores
  `Higher` is the order of a quotient (`HigherIsMore`, with `Power` as a product), so leaving out an entry is
  leaving out a smaller one (`FeedAgrees`). The weeks of a timeline are an interval (`AxisIsAnInterval`) and
  those with a rate are those with a viewed post (`SeriesIs`); the rates are brought to the product of their
  denominators, which each of them divides (`DenominatorIs`), and a line whose rates never rise has no
  positive slope (`RisingSeries`). Hypotheses: `NothingFromTheFuture`, no post is scraped before it is
  published; `ChannelsHaveColumns`, the channels are of the three markets and the platforms of the pages (the
  code also knows INT, MIXED and UNKNOWN: a title page counts their posts, and the three columns of the detail
  page have no place for them); `NoneIsNoRate`, None is no quotient. `FiguresAssumption` says that PAIRS lists
  a handle under one market of a platform, `ForecastAssumption` that the feed asks for more than the mean.

* `AlgorithmsKeepTheirPromises` (`AlgorithmsHold`). The samples are constants of `Forecast`, and all that
  `SamplesAssumption` says of them is what the code makes true of every input: a block cites the whole of
  its sample or five posts (`IsBlock`), a score has a spread above 0 and no negative age (a pool without
  spread makes no scores), a weekly rate is None or a quotient. So the theorem is about all lists, scores
  and series of any length; the lemmas it rests on are stated for them directly. `TwinsAreSuppressed`: the
  rounds of the suppression keep, after each, that what is left out has one beside it that prevails over it
  (`RoundsOk`), and of three blocks in the order of their samples "nearly the same" is handed on from the
  first two and the last two to the outer ones, because blocks cite at most five posts
  (`NearlySameIsHandedOn`, `CiteLimit <= 5`): so the loser of a loser is beside a winner. `ScoresInOrder`, `DecayOnlyLowers`: the magnitudes of two scores compare as powers, which
  are products. `ForecastsAreHonest`: the sums of a line (`SumsOfSeries`) satisfy the normal equations, so
  the gap of any other line is the gap of this one plus squares; leading weeks without a rate move all
  week numbers by one (`OneOnTotals`); and weeks lie before the one that is forecast (`WeeksLieBefore`), so a
  rising line is above the mean there. `ForecastAssumption`: the gate asks for no fewer weeks than the line
  (5 and 3, `forecast.py:51` and 36), `FiguresAssumption`: the half-life is above 0.

Only model-checked: liveness (`EveryRunEnds`, `RequestsEnd`, `BatchEnds`, `EveryJobEnds`) and the
fairness of the lock in `ImplementsFairLock`, since fairness and ENABLED are beyond the prover. Every
invariant and every action property of a passing run is a theorem.

Formulas that stand in the modules, hold in the instances of the runs above, and are in no run:
`NoFalseDeath`, `NoPhantomSuccess`, `CountedIsThere`, `CountersTellTheTruth`,
`OrphanOnlyAfterFailure`, `OutputIsLastAnswer`, `BacklogIsFull`, `HistoryIsFrozen`,
`PreviewWritesNothing`, and the type invariants.

## 5. Not modelled, and why

* **Users, sessions, login, rate limit**: they refuse a request before any state the modules speak of
  changes. Authorisation and parameter checks of all endpoints are left out for the same reason.
* **Texts**: captions, hashtags, prompts, wording, rounding for display, HTML and Markdown. A module
  has the number that a text is made from, and what branches on it.
* **External services**: Apify, YouTube, TMDb, Anthropic, mail, object storage, image and video
  processing. A call answers (one of its outcomes) or raises.
* **Run status view, reports, thumbnails, proxy, channel lists**: they read and change nothing that
  another component looks at.
* **Frontend**: the two-step clicks on candidates are in TitleAssignment. Its own races (a stale `load`
  closure, polling that overtakes an answer, optimistic toggles) are not modelled.
* **Title sync**: rows of `title_sync_run` and the endpoint's 409 (looked up before the row is inserted in
  the background), aliases and keywords, the separate passes for films and series.
* **Statistics**: 90th percentile, the note on multiple testing, advice left unused, notes of the proof
  loop, the 503 gates of feature flags.
* **Visual analysis**: skips of deleted assets and by cap per run; the backfill script.
* **Weekly products**: a thread abandoned by a stage's timeout (CronPipeline has it for the rematch);
  dollar amounts (a call is one unit).
* **Migrations, bootstrap, one-off scripts**: not concurrent with the code above.
* **A week in which no process is up during the five-minute window**: a property of the deployment.

## 6. What is left

1. Two cron runs at once in WeeklyProducts and WeeklyBriefs, as the default limits allow (both assume
   the lock CronRun proves under `SafeTimeouts`).
2. The rows of `title_sync_run` with their 409 and the marking of a stuck run, composed with
   TitleAssignment's two concurrent syncs.
3. A larger instance of `figures` with two platforms and of `patterns` with a market that has two
   channels of its own; both are bounded by time, not by the modules.
4. Users and sessions (register, approve, log in, revoke, rate limit), should the project want to speak
   of access.
