------------------------------- MODULE Campaigns -------------------------------
(* Posts against the release of their title: when campaigns start (campaign_timing.py),    *)
(* where each own project stands (release_countdown.py) and what it should do this week    *)
(* (wochen_plan.py); and what must hold of this and of the pages of PatternPages.          *)
EXTENDS PatternPages

CONSTANTS Projects,       \* the titles marked as own projects
          DaysBefore,     \* MAX_WOCHEN_VOR weeks: 182
          DaysAfter,      \* MAX_WOCHEN_NACH weeks: 56
          MinTitlePosts,  \* MIN_POSTS_PER_TITLE: 3
          LaunchDays,     \* LAUNCH_FENSTER_TAGE: 7
          MaxPhase        \* MAX_MUSTER_JE_PHASE: 6

ASSUME CampaignAssumption ==
    /\ Projects \subseteq Titles
    /\ {DaysBefore, DaysAfter, MinTitlePosts, LaunchDays, MaxPhase} \subseteq Nat
    /\ MinTitlePosts > 0

InBand(lead) == lead \in -DaysAfter..DaysBefore
PostsOf(t) == {p \in Stored : TitleOf(p) = t}

---------------------------------------------------------------------------------
(* compute_campaign_timing: every channel is measured against the release of its market *)

LeadDays(p) == ReleaseOf(TitleOf(p), Market[ChannelOf[p]]) - Reference(p)
MUT_TimedPosts(t) == {p \in PostsOf(t) : ReleaseOf(t, Market[ChannelOf[p]]) # None /\ LeadDays(p) > 0}
TimedPosts(t) ==
    {p \in PostsOf(t) : ReleaseOf(t, Market[ChannelOf[p]]) # None /\ InBand(LeadDays(p))}
TimedTitles == {t \in Titles : Cardinality(TimedPosts(t)) >= MinTitlePosts}

\* The earliest of some posts of one title, relative to its release; one if several tie.
Earliest(S) == CHOOSE p \in S : \A q \in S : LeadDays(q) <= LeadDays(p)

Timing ==
    LET all == UNION {TimedPosts(t) : t \in TimedTitles}
        of(c) == {p \in all : ChannelOf[p] = c}
        firsts(c) == {Earliest({p \in of(c) : TitleOf(p) = t}) : t \in {TitleOf(p) : p \in of(c)}}
    IN  [posts |-> Cardinality(UNION {TimedPosts(t) : t \in Titles}),
         curve |-> [w \in {LeadDays(p) \div 7 : p \in all} |-> Cardinality({p \in all : LeadDays(p) \div 7 = w})],
         channels |-> [c \in {ChannelOf[p] : p \in all} |->
                         [posts |-> Cardinality(of(c)), titles |-> Cardinality(firsts(c)),
                          start |-> Median(firsts(c), LAMBDA p : <<LeadDays(p), 1>>)]],
         titles |-> [t \in TimedTitles |->
                       [posts |-> Cardinality(TimedPosts(t)),
                        start |-> LeadDays(Earliest(TimedPosts(t))),
                        last |-> Min({LeadDays(p) : p \in TimedPosts(t)}),
                        channels |-> Cardinality({ChannelOf[p] : p \in TimedPosts(t)})]]]

---------------------------------------------------------------------------------
(* compute_release_countdown: a project is measured against one release, the German first *)

ProjectRelease(t) == IF ReleaseDay[t].de # None THEN ReleaseDay[t].de ELSE ReleaseDay[t].us

Phase(days) ==
    CASE days > LaunchDays -> "pre_launch" [] days \in -LaunchDays..LaunchDays -> "launch"
      [] OTHER -> "post_launch"

OwnLeads(t) == {ProjectRelease(t) - Reference(p) : p \in PostsOf(t)}
OwnStart(t) ==
    LET leads == {l \in OwnLeads(t) : InBand(l)}
    IN  IF leads = {} THEN None ELSE Max(leads)

\* _markt_kampagnenstart: the median over the titles the timing lists.
MarketStart ==
    LET firsts == {Earliest(TimedPosts(t)) : t \in TimedTitles}
    IN  [start |-> IF firsts = {} THEN None ELSE Median(firsts, LAMBDA p : <<LeadDays(p), 1>>),
         titles |-> Cardinality(firsts)]

\* _phasen_muster: the posts of the phase, against the rates of hits of all posts.
PhaseCells(ctx, phase) ==
    LET inPhase(d, p) == IF ValueOf("lifecycle_stage", p) = phase THEN FacetOf(d, p) ELSE None
    IN  UNION {Cells(ctx, ctx.usable, d, LAMBDA p : inPhase(d, p)) :
                 d \in Dimensions \ {"lifecycle_stage"}}

Countdown(now) ==
    LET ctx == Context(Stored, None, now)
        row(t) == IF ProjectRelease(t) = None
                  THEN [days |-> None, phase |-> None, posts |-> Cardinality(PostsOf(t)), start |-> None]
                  ELSE [days |-> ProjectRelease(t) - now, phase |-> Phase(ProjectRelease(t) - now),
                        posts |-> Cardinality(PostsOf(t)), start |-> OwnStart(t)]
        rows == [t \in Projects |-> row(t)]
    IN  [rows |-> rows,
         market |-> MarketStart,
         cells |-> [phase \in {rows[t].phase : t \in Projects} \ {None} |-> PhaseCells(ctx, phase)]]

\* compute_wochen_plan: what to do and what to leave, from the patterns of the project's phase.
WeekPlan(countdown) ==
    LET phase(t) == countdown.rows[t].phase
        strong(t) == IF phase(t) = None THEN {}
                     ELSE Strongest(With(countdown.cells[phase(t)], Strong), MaxPhase)
    IN  [t \in Projects |-> [phase |-> phase(t), fits |-> Strongest(With(strong(t), {"over"}), 3),
                             avoid |-> Strongest(With(strong(t), {"under"}), 2)]]

---------------------------------------------------------------------------------
(* What must hold *)

\* The comparison of formats and the pattern report read the length of a post each in its own
\* way (compute_langform_report, _format_class_of), but count the same posts and the same hits,
\* and when some stratum could be compared, the comparison says where the advantage goes.
LangformMatchesReport ==
    LET agrees(page, cells, of) ==
          /\ page.overall.long = of["langform"] /\ page.overall.short = of["kurzform"]
          /\ \A x \in cells : x.value = "langform" => page.overall.long_rate = x.rate
          /\ page.uebergang = Cardinality(of["uebergang_60_90s"])
          /\ page.note # None
          /\ page.note = "everywhere" =>
               \A k \in StratumKinds : \A s \in DOMAIN page.strata[k] :
                 page.strata[k][s].verdict \in {"advantage", "insufficient"}
        classed(page, cells) ==
          agrees(page, cells, [k \in Classes |-> UNION {x.of : x \in {y \in cells : y.value = k}}])
    IN  \A m \in PatternMarkets \cup {None} :
          classed(LangformReport(m, today),
                  {x \in Report(m, None, today).cells : x.dim = "format_class"})

JudgedAsCounted(p, cells, draft) ==
    LET mine == {x \in cells : x.dim \in DraftDims /\ p \in x.of}
        agrees(own, page) ==
          /\ page # None
          /\ own = {x \in cells : x.dim \in DraftDims /\ draft[x.dim] = x.value}
          /\ \A x \in own :
               /\ page.checks[x.dim].finding = "gut" <=> x.breakout_verdict = "over"
               /\ page.checks[x.dim].finding = "achtung" <=> x.breakout_verdict = "under"
               /\ page.checks[x.dim].tips \cap own = {}
          /\ page.chances \cap own = {}
    IN  agrees(mine, PostCheckPage(cells, draft))

FoundAsCounted(x, all, posts, hits) ==
    /\ posts = x.of /\ x.rate = <<Cardinality(hits), Cardinality(posts)>>
    /\ all.counts[x.dim][x.value] = Cardinality(posts)

PagesMatch(ctx, cells, all) ==
    /\ \A p \in ctx.usable : JudgedAsCounted(p, cells, [d \in DraftDims |-> ValueOf(d, p)])
    /\ \A x \in cells :
         LET facet == [d \in {x.dim} |-> x.value]
         IN  FoundAsCounted(x, all, SearchPage(ctx, facet, None).hits,
                            SearchPage(ctx, facet, <<2, 1>>).hits)
    /\ \A t \in Titles : \A a \in StartBrief(t, ctx, cells).advice :
         /\ a.examples # {} /\ a.examples \subseteq a.cell.of
         /\ \A p \in a.examples, q \in a.cell.of \ a.examples : ~Less(ctx.lift[p], ctx.lift[q])

\* A page that says it only shows the report does (the docstrings of post_check.py,
\* referenz_suche.py, projekt_start_brief.py): the draft of a post that is already out is judged
\* as the cells it was counted in, and no chance is something it has; a search for a value finds
\* the posts of its cell, as many of them hits as the cell's rate says; and the examples of an
\* advice are posts of its cell, with none of a higher lift left out.
ViewsMatchReport ==
    LET on(ctx) == PagesMatch(ctx, ReportIn(ctx, None).cells, Search(ctx, [d \in {} |-> None], None))
    IN  on(Context(Stored, None, today))

\* A project all of whose channels count to the same release started its campaign, by the
\* countdown, when the timing says the title did (_eigener_start, compute_campaign_timing); every
\* timed post is in the curve once and under its channel once; and what a week plan advises or
\* warns of rests on the posts a search for that value in that phase finds, none of them twice
\* ("every number here stands in the single sections just so", wochen_plan.py).
CampaignsAgree ==
    LET found(ctx, x, phase) ==
          Search(ctx, [d \in {x.dim, "lifecycle_stage"} |->
                         IF d = "lifecycle_stage" THEN phase ELSE x.value], None).hits
        same(rows, timing) ==
          /\ \A t \in Projects \cap TimedTitles :
               (\A p \in PostsOf(t) : ReleaseOf(t, Market[ChannelOf[p]]) = ProjectRelease(t)) =>
                 /\ rows[t].start = timing.titles[t].start
                 /\ rows[t].posts >= timing.titles[t].posts
          /\ MapThenSumSet(LAMBDA w : timing.curve[w], DOMAIN timing.curve)
               = MapThenSumSet(LAMBDA c : timing.channels[c].posts, DOMAIN timing.channels)
        rests(plan, ctx) ==
          \A t \in Projects : \A x \in plan[t].fits \cup plan[t].avoid :
             x.of = found(ctx, x, plan[t].phase) /\ x.sample_size = Cardinality(x.of)
        on(countdown) == /\ same(countdown.rows, Timing)
                         /\ rests(WeekPlan(countdown), Context(Stored, None, today))
    IN  on(Countdown(today))

\* "WAS GERADE FUNKTIONIERT" and "WAS GERADE NICHT FUNKTIONIERT": what a line of the mail says
\* agrees with the section it stands in (render_playbook, _werkstatt_empfehlung).
AdviceMatchesVerdict ==
    \A playbook \in {Playbook(today, texts) : texts \in BOOLEAN} :
        Sent(playbook) => \A line \in playbook.lines : line.says = line.section
================================================================================
