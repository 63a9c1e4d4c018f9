---------------------------- MODULE WeeklyBriefs ----------------------------
(***************************************************************************)
(* The calendar of Creative Radar: which posts a weekly row is about.      *)
(*                                                                         *)
(* A brief is keyed by an ISO week but computed over a window that ends at *)
(* an anchor; every caller computes the anchor in its own way (the cron    *)
(* and the admin button a day back or now, the report page the Sunday of   *)
(* the last week).  The recommendation snapshot of the same run is keyed   *)
(* by the moment itself.  The module has posts appear and be scraped at    *)
(* any moment, runs at any moment, and asks which posts end up in which    *)
(* week's rows.                                                            *)
(*                                                                         *)
(* A moment is a week, a day of the week and a tick of the day; the        *)
(* scheduler's five minutes are the tick SchedTick of the first day.       *)
(* What the brief says is not modelled, only its posts.  The pairs are     *)
(* alike, so there is one.  Locks and failures of the row's generation are *)
(* BriefGeneration's; here a generation writes or does not.                *)
(***************************************************************************)
EXTENDS Integers

CONSTANTS
  Posts,        \* posts of the channels
  Days,         \* days of a week
  Ticks,        \* moments of a day
  SchedTick,    \* the scheduler's window on Monday
  WindowDays,   \* window_days: 30 for briefs, 14 for roundups
  LastWeek,     \* bound: the last week modelled
  MaxManual     \* bound: runs and regenerations asked for by a person

ASSUME CalendarAssumption ==
  /\ Days \in Nat \ {0}
  /\ Ticks \in Nat \ {0}
  /\ SchedTick \in 1..Ticks
  /\ WindowDays \in Nat
  /\ LastWeek \in Nat \ {0}
  /\ MaxManual \in Nat

VARIABLES
  now,          \* utc_now()
  published,    \* when a post appeared; published_at of a dated post
  dated,        \* the posts whose platform reports published_at
  detected,     \* Post.detected_at: when a scrape first saw it
  brief,        \* the row insight_report of each week
  snapshot,     \* the row recommendation_snapshot of each week
  ran,          \* the week of the latest cron_run row
  manual        \* how often a person asked

vars == <<now, published, dated, detected, brief, snapshot, ran, manual>>

-----------------------------------------------------------------------------
\* Moments.

Weeks == 0..LastWeek
Moments == [week : Weeks, day : 1..Days, tick : 1..Ticks]
None == [week |-> -1, day |-> 0, tick |-> 0]   \* NULL, an absent row

Before(a, b) ==
  \/ a.week < b.week
  \/ (a.week = b.week /\ a.day < b.day)
  \/ (a.week = b.week /\ a.day = b.day /\ a.tick < b.tick)

NotAfter(a, b) == a = b \/ Before(a, b)

\* Negative test: a window of one week.
MUT_InWindow(a, b) ==
  NotAfter(a, b) /\ Days * (b.week - a.week) + b.day - a.day < Days

\* Whether `a` lies in the window of WindowDays that ends at `b`, ends included.
InWindow(a, b) ==
  LET gap == Days * (b.week - a.week) + b.day - a.day
  IN  /\ NotAfter(a, b)
      /\ gap < WindowDays \/ (gap = WindowDays /\ b.tick <= a.tick)

\* now - timedelta(days=1)
Yesterday(m) ==
  IF m.day > 1 THEN [week |-> m.week, day |-> m.day - 1, tick |-> m.tick]
               ELSE [week |-> m.week - 1, day |-> Days, tick |-> m.tick]

\* Negative test: seven days back.
MUT_LastSunday(m) == [week |-> m.week - 1, day |-> m.day, tick |-> m.tick]

\* now - timedelta(days=now.isoweekday()): the Sunday that ended the last week
LastSunday(m) == [week |-> m.week - 1, day |-> Days, tick |-> m.tick]

Following(m) ==
  CASE m.tick < Ticks -> [week |-> m.week, day |-> m.day, tick |-> m.tick + 1]
    [] m.tick = Ticks /\ m.day < Days -> [week |-> m.week, day |-> m.day + 1, tick |-> 1]
    [] OTHER -> [week |-> m.week + 1, day |-> 1, tick |-> 1]

-----------------------------------------------------------------------------
\* Posts and rows.

\* _post_age_reference: published_at, else detected_at
Reference(p) == IF p \in dated THEN published[p] ELSE detected[p]

Known == {p \in Posts : detected[p] # None}

Row(end) == [end   |-> end,
             late  |-> (end.week < now.week),
             known |-> Known',
             posts |-> {p \in Known' : InWindow(Reference(p)', end)}]

NoRow == [end |-> None, late |-> FALSE, known |-> {}, posts |-> {}]
NoSnapshot == [frozen |-> FALSE, posts |-> {}]

Targets == {"completed", "current"}
Anchor(target) == IF target = "current" THEN now ELSE Yesterday(now)

Init ==
  /\ now = [week |-> 1, day |-> 1, tick |-> 1]
  /\ published = [p \in Posts |-> None]
  /\ dated = {}
  /\ detected = [p \in Posts |-> None]
  /\ brief = [w \in Weeks |-> NoRow]
  /\ snapshot = [w \in Weeks |-> NoSnapshot]
  /\ ran = 0
  /\ manual = 0

\* The row of the anchor's week: kept, rewritten, or no answer of the model.
Generate(anchor, replace) ==
  \/ /\ replace \/ brief[anchor.week] = NoRow
     /\ brief' = [brief EXCEPT ![anchor.week] = Row(anchor)]
  \/ brief' = brief

\* The scrape of a run: a channel may be rotated out, capped or down.
Scrape ==
  \E S \in SUBSET {p \in Posts : published[p] # None /\ detected[p] = None} :
    detected' = [p \in Posts |-> IF p \in S THEN now ELSE detected[p]]

\* Every run freezes the cells of its own week, from the posts detected so
\* far, unless the stage is switched off or fails.
Freeze ==
  \/ snapshot' = [snapshot EXCEPT ![now.week] = [frozen |-> TRUE, posts |-> Known']]
  \/ snapshot' = snapshot

Run(target, force) ==
  /\ UNCHANGED <<now, published, dated>>
  /\ Scrape
  /\ Freeze
  /\ Generate(Anchor(target), force)
  /\ ran' = now.week

\* Monday's window, unless a run was started since Monday 00:00.
Scheduled ==
  /\ now.day = 1 /\ now.tick = SchedTick
  /\ ran # now.week
  /\ Run("completed", FALSE)
  /\ UNCHANGED manual

Asked == manual < MaxManual /\ manual' = manual + 1

SyncAll(target, force) == Asked /\ Run(target, force)

Regenerate(target, replace) ==
  /\ Asked
  /\ UNCHANGED <<now, published, dated, detected, snapshot, ran>>
  /\ Generate(Anchor(target), replace)

\* The report page generates on a cache miss and never replaces.
GetReport ==
  /\ brief[LastSunday(now).week] = NoRow
  /\ Asked
  /\ UNCHANGED <<now, published, dated, detected, snapshot, ran>>
  /\ Generate(LastSunday(now), FALSE)

Publish(p) ==
  /\ published[p] = None
  /\ published' = [published EXCEPT ![p] = now]
  /\ dated' \in {dated, dated \cup {p}}
  /\ UNCHANGED <<now, detected, brief, snapshot, ran, manual>>

\* A link import or a manual upload stores a post outside any run.
Import(p) ==
  /\ published[p] # None /\ detected[p] = None
  /\ Asked
  /\ detected' = [detected EXCEPT ![p] = now]
  /\ UNCHANGED <<now, published, dated, brief, snapshot, ran>>

Tick ==
  /\ Following(now).week \in Weeks
  /\ now' = Following(now)
  /\ UNCHANGED <<published, dated, detected, brief, snapshot, ran, manual>>

Done == Following(now).week \notin Weeks /\ UNCHANGED vars

Next ==
  \/ Scheduled
  \/ \E t \in Targets, force \in BOOLEAN : SyncAll(t, force)
  \/ \E t \in Targets, replace \in BOOLEAN : Regenerate(t, replace)
  \/ GetReport
  \/ \E p \in Posts : Publish(p) \/ Import(p)
  \/ Tick
  \/ Done

Spec == Init /\ [][Next]_vars

-----------------------------------------------------------------------------
\* Readers of the rows.

\* The tile of a pair counts the posts of the whole week.
Tile(w) == {p \in Known : Reference(p).week = w}

\* Negative test: the advice's own week counts as well.
MUT_Reaction(w) == {p \in Known : detected[p].week \in {w, w + 1}}

\* compute_beweis_loop: the posts that are held to react to the advice of week w.
Reaction(w) == {p \in Known : detected[p].week = w + 1}

\* Posts p of week w that its row, made when p was known, does not have.
Missing(w) == {p \in brief[w].known \ brief[w].posts : Reference(p).week = w}

-----------------------------------------------------------------------------
\* Properties.

\* Rows are keyed by the week their window ends in, and made from known posts.
TypeOK ==
  /\ now \in Moments /\ now.week > 0
  /\ published \in [Posts -> Moments \cup {None}]
  /\ dated \subseteq Posts
  /\ detected \in [Posts -> Moments \cup {None}]
  /\ brief \in [Weeks -> [end : Moments \cup {None}, late : BOOLEAN,
                          known : SUBSET Posts, posts : SUBSET Posts]]
  /\ snapshot \in [Weeks -> [frozen : BOOLEAN, posts : SUBSET Posts]]
  /\ ran \in Weeks
  /\ manual \in 0..MaxManual

\* A row written after its week has ended misses at most posts of the week's
\* last day, later in the day than the anchor, whoever wrote it: the cron, the
\* admin button or the report page.
OnlyLastDayMissing ==
  \A w \in Weeks : brief[w].late =>
    \A p \in Missing(w) : /\ Reference(p).day = Days
                          /\ Reference(p).tick > brief[w].end.tick

\* No post falls between two briefs: what was known when the brief of week w+1
\* was written and is newer than the end of the brief of week w is in the
\* brief of week w+1, whichever anchors, forced runs and page loads made them.
\* Readers that compare a brief with its predecessor rely on it.
NoGapBetweenBriefs ==
  \A w \in Weeks \ {LastWeek} :
    brief[w] # NoRow /\ brief[w + 1] # NoRow =>
      \A p \in brief[w + 1].known :
        Before(brief[w].end, Reference(p)) /\ NotAfter(Reference(p), brief[w + 1].end)
          => p \in brief[w + 1].posts

\* No post is both the basis of an advice and the proof that it was followed:
\* the snapshot a week keeps was computed before its follow-up week.
NoPostProvesItself ==
  \A w \in Weeks : snapshot[w].posts \cap Reaction(w) = {}

\* History is frozen: no run, regeneration or page load changes a brief older
\* than the last week or a snapshot of an earlier week, which the comparison
\* with the previous brief and the hit rate of the advice read.
HistoryIsFrozen ==
  [][\A w \in Weeks : /\ w + 1 < now.week => brief'[w] = brief[w]
                      /\ w < now.week => snapshot'[w] = snapshot[w]]_vars

\* The week whose aggregation "is there completely" (cron.py) and which the
\* tile counts "identically": after Monday's run the brief of the last week
\* has all known posts of that week.  The code does not keep it.
WeekIsComplete ==
  [][Scheduled /\ brief'[now.week - 1] # NoRow
       => Tile(now.week - 1)' \subseteq brief'[now.week - 1].posts]_vars

\* A post of the advice's own week is no reaction to it (beweis_loop.py).  The
\* code, which takes the week of the scrape, does not keep it.
NoReactionInOwnWeek ==
  \A w \in Weeks : snapshot[w].frozen =>
    \A p \in Reaction(w) \cap dated : published[p].week # w

=============================================================================
