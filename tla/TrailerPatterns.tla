---------------------------- MODULE TrailerPatterns ----------------------------
(* Which features of a trailer post go with unusual success                               *)
(* (backend/app/services/trailer_patterns.py): every post of a window is measured against  *)
(* the median of its channel, and every value of every feature is compared with the rate   *)
(* of hits its mix of platforms and markets would have anyway. Rates are quotients.       *)
EXTENDS PostTable, Quotients, FiniteSetsExt

CONSTANTS Look,             \* Look[p]: the features read off the post itself (music, caption)
          Genre,            \* Genre[t]: the first genre of a title, or None
          PatternDays,      \* window_days: 90
          MinChannelPosts,  \* MIN_POSTS_PER_CHANNEL_BASELINE: 4
          MinCell,          \* MIN_SAMPLE_PER_CELL: 5
          MinCellChannels,  \* MIN_CHANNELS_PER_CELL: 3
          MinStratum,       \* MIN_POSTS_PER_PLATFORM_BASELINE: 30
          ZThreshold        \* BREAKOUT_Z_THRESHOLD, a quotient: 2

ASSUME PatternAssumption ==
    /\ {PatternDays, MinChannelPosts, MinCell, MinCellChannels, MinStratum} \subseteq Nat
    /\ MinCell > 0 /\ MinStratum > 0

PatternMarkets == {Market[c] : c \in Channels}
Classes == {"kurzform", "uebergang_60_90s", "langform"}

---------------------------------------------------------------------------------
(* build_lift_context *)

\* _has_measurable_views: without views the rate would be a 0 nobody measured.
MUT_Measurable(p) == post[p].views # None
Measurable(p) == post[p].views # None /\ post[p].views > 0

\* Every post of P the context may count, by the day it was detected.
Windowed(P, m, now) ==
    {p \in P : (m = None \/ Market[ChannelOf[p]] = m)
               /\ post[p].detected \in (now - PatternDays)..now}

Context(P, m, now) ==
    LET measured == {p \in Windowed(P, m, now) : Measurable(p)}
        rate(p) == Activation(p, Platform[ChannelOf[p]])
        of(c) == {p \in measured : ChannelOf[p] = c}
        median == [c \in Channels |-> Median(of(c), rate)]
        covered == {c \in Channels : Cardinality(of(c)) >= MinChannelPosts /\ median[c][1] > 0}
        usable == {p \in measured : ChannelOf[p] \in covered}
        lift == [p \in usable |-> Over(rate(p), median[ChannelOf[p]])]
    IN  [posts_in_window |-> Cardinality(Windowed(P, m, now)),
         channels |-> covered,
         usable |-> usable,
         activation |-> [p \in usable |-> rate(p)],
         lift |-> lift,
         hits |-> {p \in usable : AtLeast(lift[p], <<2, 1>>)}]

---------------------------------------------------------------------------------
(* Features *)

FormatClass(p) ==
    IF Seconds[p] = None THEN None
    ELSE CHOOSE k \in Classes :
           \/ k = "kurzform" /\ Seconds[p] < 60
           \/ k = "uebergang_60_90s" /\ Seconds[p] \in 60..89
           \/ k = "langform" /\ Seconds[p] >= 90

Sure(p) == post[p].analysis # None /\ post[p].analysis.sure
Cover(p) == IF asset[p] # None THEN asset[p].cover ELSE None
TitleOf(p) == IF asset[p] # None THEN asset[p].title ELSE None

ModelDims == {"format", "lifecycle_stage"}     \* and tone: read from the classifier's answer
CoverDims == {"cover_titel", "cover_kinetik"}
LookDims == {"music_kind", "caption_frage", "caption_cta", "caption_laenge", "caption_hashtags"}
Dimensions ==
    ModelDims \cup CoverDims \cup LookDims \cup {"format_class", "duration_bucket", "genre"}

Extract(dim, p) ==
    CASE dim = "format_class" -> FormatClass(p)
      [] dim = "duration_bucket" -> IF Seconds[p] = None THEN None ELSE DurationBucket(Seconds[p])
      [] dim = "format" -> post[p].analysis.format
      [] dim = "lifecycle_stage" -> post[p].analysis.stage
      [] dim = "genre" -> IF TitleOf(p) = None THEN None ELSE Genre[TitleOf(p)]
      [] dim \in CoverDims -> IF Cover(p) # None /\ Cover(p).sure THEN Cover(p)[dim] ELSE None
      [] OTHER -> Look[p][dim]

\* The value post p is counted under. What the classifier said counts only when it was sure.
ValueOf(dim, p) == IF dim \in ModelDims /\ ~Sure(p) THEN None ELSE Extract(dim, p)

---------------------------------------------------------------------------------
(* Rates of hits *)

Stratum(p) == <<Platform[ChannelOf[p]], Market[ChannelOf[p]]>>
HitRate(ctx, S) == <<Cardinality(S \cap ctx.hits), Cardinality(S)>>

\* _stratum_reference_rate: the rate of the stratum, of its platform if the stratum is thin,
\* of all posts if the platform is.
MUT_ReferenceRate(ctx, U, s) ==
    LET platform == {p \in U : Stratum(p)[1] = s[1]}
    IN  HitRate(ctx, IF Cardinality(platform) >= MinStratum THEN platform ELSE U)
ReferenceRate(ctx, U, s) ==
    LET stratum == {p \in U : Stratum(p) = s}
        platform == {p \in U : Stratum(p)[1] = s[1]}
    IN  HitRate(ctx, CASE Cardinality(stratum) >= MinStratum -> stratum
                       [] Cardinality(platform) >= MinStratum
                            /\ Cardinality(stratum) < MinStratum -> platform
                       [] OTHER -> U)

\* _expected_breakout_rate: the mean of the reference rates of the posts of S.
Expected(ctx, U, S) ==
    LET part(s) == Cardinality({p \in S : Stratum(p) = s})
        rate(s) == ReferenceRate(ctx, U, s)
        add(s, sum) == Plus(<<part(s) * rate(s)[1], rate(s)[2]>>, sum)
    IN  Over(FoldSet(add, <<0, 1>>, {Stratum(p) : p \in S}), <<Cardinality(S), 1>>)

\* _breakout_z, squared: (rate - expected)^2 * n / (expected * (1 - expected)).
Verdict(rate, expected, n) ==
    LET a == rate[1] * expected[2] - expected[1] * rate[2]
        spread == expected[1] * (expected[2] - expected[1]) * rate[2] * rate[2]
        far == a * a * n * ZThreshold[2] * ZThreshold[2]
                 >= ZThreshold[1] * ZThreshold[1] * spread
    IN  CASE expected[1] = 0 \/ expected[1] = expected[2] -> "insufficient"
          [] expected[1] \notin {0, expected[2]} /\ far /\ a > 0 -> "over"
          [] expected[1] \notin {0, expected[2]} /\ far /\ a < 0 -> "under"
          [] OTHER -> "neutral"

LiftVerdict(x) ==
    CASE AtLeast(x, <<3, 2>>) -> "over" [] AtLeast(<<1, 2>>, x) -> "under" [] OTHER -> "neutral"

\* _markt_hinweis: the markets of a finding that show it by themselves, that do not, and that
\* have too few posts to say.
MUT_MarketNote(ctx, U, S, direction) ==
    LET of(m) == {p \in S : Market[ChannelOf[p]] = m}
        markets == {m \in PatternMarkets : of(m) # {}}
        thick == {m \in markets : Cardinality(of(m)) >= MinCell}
        shows(m) == Less(Expected(ctx, U, of(m)), HitRate(ctx, of(m)))
    IN  IF direction \notin {"over", "under"} \/ Cardinality(markets) < 2 THEN None
        ELSE [holds |-> {m \in thick : shows(m)}, against |-> {m \in thick : ~shows(m)},
              thin |-> markets \ thick]
MarketNote(ctx, U, S, direction) ==
    LET of(m) == {p \in S : Market[ChannelOf[p]] = m}
        markets == {m \in PatternMarkets : of(m) # {}}
        thick == {m \in markets : Cardinality(of(m)) >= MinCell}
        shows(m) == IF direction = "over"
                    THEN Less(Expected(ctx, U, of(m)), HitRate(ctx, of(m)))
                    ELSE Less(HitRate(ctx, of(m)), Expected(ctx, U, of(m)))
    IN  IF direction \notin {"over", "under"} \/ Cardinality(markets) < 2 THEN None
        ELSE [holds |-> {m \in thick : shows(m)}, against |-> {m \in thick : ~shows(m)},
              thin |-> markets \ thick]

---------------------------------------------------------------------------------
(* compute_trailer_patterns *)

\* _build_cell
CellOver(ctx, U, d, v, S, channels) ==
    LET rate == HitRate(ctx, S)
        expected == Expected(ctx, U, S)
        n == Cardinality(S)
        enough == n >= MinCell /\ Cardinality({ChannelOf[p] : p \in S}) >= channels
        verdict == IF enough THEN Verdict(rate, expected, n) ELSE "insufficient"
    IN  [dim |-> d, value |-> v, of |-> S, sample_size |-> n, rate |-> rate, expected |-> expected,
         median_activation |-> Median(S, LAMBDA p : ctx.activation[p]),
         verdict |-> IF enough THEN LiftVerdict(Median(S, LAMBDA p : ctx.lift[p]))
                     ELSE "insufficient",
         breakout_verdict |-> verdict,
         mix |-> [s \in {Stratum(p) : p \in S} |-> Cardinality({p \in S : Stratum(p) = s})],
         market_note |-> MarketNote(ctx, U, S, verdict)]

Cell(ctx, U, d, v, S) == CellOver(ctx, U, d, v, S, MinCellChannels)

\* The cells of one dimension: one for every value it has.
Cells(ctx, U, d, Value(_)) ==
    {Cell(ctx, U, d, v, {p \in U : Value(p) = v}) : v \in {Value(p) : p \in U} \ {None}}

\* A format class narrows the posts, never the baselines.
Summary(ctx, U, class) ==
    [posts_in_window |-> ctx.posts_in_window,
     posts_with_baseline |-> Cardinality(U),
     channels_covered |-> IF U = {} THEN 0 ELSE Cardinality(ctx.channels),
     analysed |-> Cardinality({p \in U : post[p].analysis # None /\ Extract("format", p) # None}),
     cells |-> UNION {Cells(ctx, U, d, LAMBDA p : ValueOf(d, p)) :
                        d \in IF class = None THEN Dimensions ELSE Dimensions \ {"format_class"}}]

ReportIn(ctx, class) ==
    Summary(ctx, {p \in ctx.usable : class = None \/ FormatClass(p) = class}, class)

\* The report over the posts of P.
ReportOf(P, m, class, now) == ReportIn(Context(P, m, now), class)

Report(m, class, now) == ReportOf(Stored, m, class, now)

\* posts_for_cell: the posts behind one cell, read again for the page that shows them.
MUT_PostsForCell(ctx, dim, value) ==
    {p \in ctx.usable : post[p].analysis # None /\ Extract(dim, p) = value}
PostsForCell(ctx, dim, value) == {p \in ctx.usable : ValueOf(dim, p) = value}

---------------------------------------------------------------------------------
(* What must hold *)

PatternsNext == TableNext \/ NextDay
PatternsSpec == TableInit /\ [][PatternsNext]_tableVars

\* The reports the pages show: of all posts, of one market, of one format class.
Scopes == {<<m, None>> : m \in PatternMarkets \cup {None}} \cup {<<None, k>> : k \in Classes}

\* Posts without views change nothing but the count of posts: not the baseline of their
\* channel, and so not the lift of any other post (_has_measurable_views).
ViewlessInert ==
    LET viewed == {p \in Stored : post[p].views > 0}
        same(all, without) ==
          [all EXCEPT !.posts_in_window = 0] = [without EXCEPT !.posts_in_window = 0]
    IN  viewed # Stored =>
          \A s \in Scopes : same(Report(s[1], s[2], today), ReportOf(viewed, s[1], s[2], today))

\* A feature whose posts have, in each platform and market, exactly the rate of hits all posts
\* have there is no pattern, however its posts are spread (_expected_breakout_rate).
CompositionIsNoPattern ==
    LET ctx == Context(Stored, None, today)
        U == ctx.usable
        in(S, s) == {p \in S : Stratum(p) = s}
        like(S) == \A s \in {Stratum(p) : p \in S} :
                     LET x == HitRate(ctx, in(S, s))
                         y == HitRate(ctx, in(U, s))
                     IN  Cardinality(in(U, s)) >= MinStratum /\ ~Less(x, y) /\ ~Less(y, x)
    IN  \A cell \in Report(None, None, today).cells :
          like(cell.of) => cell.breakout_verdict \notin {"over", "under"}

\* A finding that holds over all markets holds in one of them by itself, unless one of its
\* markets has too few posts to say: "the finding only arises over all markets together" is
\* never said of markets that all have enough (_markt_hinweis).
SomeMarketShowsIt ==
    \A cell \in Report(None, None, today).cells :
      cell.market_note # None /\ cell.market_note.holds = {} => cell.market_note.thin # {}
================================================================================
