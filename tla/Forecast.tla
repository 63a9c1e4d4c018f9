-------------------------------- MODULE Forecast --------------------------------
(* What else is read off the figures of a pair: the line through the weekly engagement    *)
(* rates of a market and the rate it promises for the next week (forecast.py), the market *)
(* signals of the weekly briefings (collect_forecast_signals in                           *)
(* weekly_briefing_evidence.py), and the feed of outstanding posts on the start page      *)
(* (compute_breakout_feed in insight_engine.py).                                          *)
EXTENDS TitlePages

CONSTANTS MinPoints,       \* MIN_POINTS: 3
          GatePoints,      \* FORECAST_GATE_MIN_POINTS: 5
          FeedDays,        \* window_days of compute_breakout_feed: 30
          FeedMultiplier,  \* BREAKOUT_FEED_MIN_MULTIPLIER: 2, as a quotient
          FeedLimit,       \* limit of compute_breakout_feed: 20
          SampleBlocks,    \* bounds: the inputs the algorithms are checked on
          ListLength,
          SampleScores,
          SampleSeries

ASSUME ForecastAssumption ==
    /\ {MinPoints, GatePoints, FeedDays, FeedLimit} \subseteq Nat
    /\ MinPoints > 1 /\ GatePoints >= MinPoints
    /\ FeedMultiplier \in (Nat \ {0}) \X (Nat \ {0}) /\ FeedMultiplier[1] > FeedMultiplier[2]

---------------------------------------------------------------------------------
(* A series gives each week of the axis a rate, or None when no post of the week has views.  *)
(* The rates are brought to one denominator: the line then has whole numbers throughout.     *)

Measured(series) == {i \in DOMAIN series : series[i] # None}
Denominator(series) == MapThenFoldSet(LAMBDA a, b : a * b, 1, LAMBDA i : series[i][2],
                                      LAMBDA S : CHOOSE i \in S : TRUE, Measured(series))
WeekRate(series, i) == series[i][1] * (Denominator(series) \div series[i][2])

\* _linear_regression: the least squares, each times the number of points. A series that does
\* not move is explained completely.
Fit(series) ==
    LET I == Measured(series)
        n == Cardinality(I)
        x == Sum(LAMBDA i : i, I)
        y == Sum(LAMBDA i : WeekRate(series, i), I)
        sxx == n * Sum(LAMBDA i : i * i, I) - x * x
        sxy == n * Sum(LAMBDA i : i * WeekRate(series, i), I) - x * y
        syy == n * Sum(LAMBDA i : WeekRate(series, i) * WeekRate(series, i), I) - y * y
    IN  [n |-> n, rise |-> sxy, run |-> sxx, start |-> y * sxx - sxy * x,
         r2 |-> IF syy = 0 THEN <<1, 1>> ELSE <<sxy * sxy, sxx * syy>>]

\* The line at week i of the axis. A slope counts as flat only when it is.
At(fit, series, i) ==
    <<fit.start + fit.n * fit.rise * i, fit.n * fit.run * Denominator(series)>>

\* _forecast_one_market: weeks without a rate are left out, but they count as distance; a rate
\* below zero is cut to zero.
ForecastOne(series) ==
    LET points == Cardinality(Measured(series))
        ok(fit) ==
          [status |-> "ok", points |-> points, r2 |-> fit.r2, slope |-> <<fit.rise, fit.run>>,
           direction |-> CASE fit.rise > 0 -> "steigend" [] fit.rise < 0 -> "fallend" [] OTHER -> "stabil",
           er |-> LET next == At(fit, series, Len(series) + 1) IN <<Positive(next[1]), next[2]>>]
    IN  IF points < MinPoints THEN [status |-> "insufficient_data", points |-> points]
        ELSE ok(Fit(series))

\* _apply_honesty_gate
Gated(result) ==
    IF result.status # "ok" \/ (AtLeast(result.r2, <<1, 2>>) /\ result.points >= GatePoints)
    THEN result
    ELSE [status |-> "too_volatile", points |-> result.points, r2 |-> result.r2]

\* generate_er_forecast: the admin's view is open; the text on it is made from the gated view.
ForecastOf(timeline) ==
    [m \in Markets |->
       ForecastOne([i \in 1..Cardinality(Axis) |->
                      LET er == timeline[m][Min(Axis) + i - 1].er IN IF er[2] = 0 THEN None ELSE er])]
Shown(results, gate) == [m \in Markets |-> IF gate THEN Gated(results[m]) ELSE results[m]]

\* _build_einordnung_prompt and collect_forecast_signals: what the text and the weekly
\* briefings learn of the markets.
Told(results) == {m \in Markets : Shown(results, TRUE)[m].status = "ok"}
Signals(results) == {[market |-> m, direction |-> results[m].direction] : m \in Told(results)}

---------------------------------------------------------------------------------
\* compute_breakout_feed: of the breakouts of every channel of the pair, those at FeedMultiplier
\* times the mean of their channel, the highest scores first.
StandsOut(p, S) ==
    AtLeast(<<Cardinality(S) * Engagement(p), 1>>,
            <<FeedMultiplier[1] * Sum(Engagement, S), FeedMultiplier[2]>>)
FeedEntries(now) ==
    LET pool(pl, m) == Between(ChannelsFor(pl, m), now - FeedDays, now)
        of(pl, m, S) == {[platform |-> pl, market |-> m, of |-> p, score |-> Score(p, S, now)] :
                           p \in {q \in BreakoutsOf(S, now) : StandsOut(q, S)}}
    IN  UNION {of(pl, m, pool(pl, m)) : pl \in Platforms, m \in Markets}
BreakoutFeed(now, limit) ==
    First(FeedEntries(now), limit,
          LAMBDA x, y : \/ Higher(x.score, y.score)
                        \/ ~Higher(y.score, x.score) /\ MoreViews(x.of, y.of))

---------------------------------------------------------------------------------
(* What must hold *)

\* Of the posts of the feed each stands once, is among the outstanding posts of its channel in
\* the brief (the windows being the same), and is left out only for a stronger one; and a market
\* is said to rise only when some week is above an earlier one, with a rate for each week that
\* has a post with views.
FeedAndForecastAgree ==
    LET seen(m, w) == \E p \in Stored : /\ InPair(ChannelOf[p]) /\ PairWeek(p) = w
                                        /\ Market[ChannelOf[p]] = m /\ post[p].views > 0
        feeds(feed, entries) ==
          /\ \A e \in feed :
               /\ \A f \in feed : e.of = f.of => e = f
               /\ FeedDays = WindowDays =>
                    e.of \in BreakoutsOf(InWindow(ChannelsFor(e.platform, e.market), today), today)
               /\ e.score.dev > 0
          /\ \A x \in entries \ feed : \A e \in feed : ~Higher(x.score, e.score)
        forecasts(timeline, results) ==
          /\ \A m \in Markets : results[m].points = Cardinality({w \in Axis : seen(m, w)})
          /\ \A m \in Markets : results[m].status = "ok" /\ results[m].direction = "steigend" =>
               \E v, w \in {w \in Axis : seen(m, w)} :
                 v < w /\ Less(timeline[m][v].er, timeline[m][w].er)
        on(timeline) == forecasts(timeline, ForecastOf(timeline))
    IN  feeds(BreakoutFeed(today, FeedLimit), FeedEntries(today)) /\ on(Timeline)

\* The same posts are counted the same on every page.
PagesCountTheSame == TitlePagesCountTheSame /\ FeedAndForecastAgree

---------------------------------------------------------------------------------
(* What the pure algorithms promise *)

\* Blocks as Block makes them: the posts cited are all of the sample, or CiteLimit of them.
IsBlock(b) ==
    /\ b.sample \in Nat \ {0} /\ b.effect \in Nat \X (Nat \ {0})
    /\ IsFiniteSet(b.cited)
    /\ Cardinality(b.cited) = IF b.sample < CiteLimit THEN b.sample ELSE CiteLimit
Rates == {None} \cup (Int \X (Nat \ {0}))

ASSUME SamplesAssumption ==
    /\ CiteLimit <= 5 /\ ListLength \in Nat
    /\ \A b \in SampleBlocks : IsBlock(b)
    /\ \A x \in SampleScores : x.dev \in Int /\ x.spread \in Nat \ {0} /\ x.age \in Nat
    /\ SampleSeries \subseteq Seq(Rates)

\* No two recommendations of a brief rest on nearly the same posts, and none is dropped
\* unless a recommendation that rests on nearly the same posts is made: although a block may
\* lose to one that itself loses later (_dedup_recommendation_candidates).
NoTwins(list) ==
    LET out == Suppressed(list)
        kept == DOMAIN list \ out
    IN  /\ \A i, j \in kept : i # j => ~NearlySame(list[i], list[j])
        /\ \A i \in out : \E j \in kept : NearlySame(list[i], list[j])

\* The decay of the breakout score only ever moves a post down: of two posts of one pool,
\* both above its mean, the one that stands out at least as far and is no older scores at
\* least as high; and the scores put the posts in an order (_compute_breakout_scores).
NewAndStronger(a, b) ==
    a.dev > 0 /\ a.dev >= b.dev /\ a.spread = b.spread /\ a.age <= b.age => ~Higher(b, a)
ScoresAreAnOrder(a, b, c) ==
    /\ Higher(a, b) => ~Higher(b, a)
    /\ Higher(a, b) /\ ~Higher(c, b) => Higher(a, c)

\* The line of a forecast is the best one: none with neighbouring steps leaves less of the series
\* unexplained; r2 is the share that it explains; weeks before the first rate change nothing; a
\* rising forecast is above the mean of the weeks; and the public sees a rate, and the weekly
\* briefings a direction, only when GatePoints weeks stand behind it and the line explains at
\* least half (_linear_regression, _forecast_one_market, _apply_honesty_gate).
Unexplained(series, unit, start, rise) ==
    Sum(LAMBDA i : LET gap == unit * WeekRate(series, i) - (start + rise * i) IN gap * gap,
        Measured(series))
FitIsBest(series, fit) ==
    LET gap(start, rise) == Unexplained(series, fit.n * fit.run, start, rise)
        best == gap(fit.start, fit.n * fit.rise)
        flat == gap(fit.run * Sum(LAMBDA i : WeekRate(series, i), Measured(series)), 0)
    IN  /\ \A a, b \in -1..1 : best <= gap(fit.start + a, fit.n * fit.rise + b)
        /\ flat * (fit.r2[2] - fit.r2[1]) = best * fit.r2[2]
        /\ AtLeast(fit.r2, <<1, 2>>) <=> 2 * best <= flat
ForecastIsHonest(series) ==
    LET result == ForecastOne(series)
        public == Gated(result)
        total == Sum(LAMBDA i : WeekRate(series, i), Measured(series))
    IN  /\ result.status = "ok" =>
             /\ FitIsBest(series, Fit(series))
             /\ result.direction = "steigend" =>
                  Less(<<total, result.points * Denominator(series)>>, result.er)
        /\ ForecastOne(<<None>> \o series) = result
        /\ "er" \in DOMAIN public <=>
             result.points >= GatePoints /\ AtLeast(result.r2, <<1, 2>>)
        /\ Signals([m \in Markets |-> result]) # {} => "er" \in DOMAIN public

\* The algorithms do not look at the table: their samples are gone through once, where it starts.
AlgorithmsHold ==
    Init => /\ \A n \in 0..ListLength : \A list \in [1..n -> SampleBlocks] : NoTwins(list)
            /\ \A a, b \in SampleScores : NewAndStronger(a, b)
            /\ \A a, b, c \in SampleScores : ScoresAreAnOrder(a, b, c)
            /\ \A series \in SampleSeries : ForecastIsHonest(series)
================================================================================
