------------------------------ MODULE PairFigures ------------------------------
(* What the weekly brief of a studio pair is computed from: the per-channel and          *)
(* cross-market figures of aggregate_pair                                                 *)
(* (backend/app/services/insight_engine.py, backend/app/schemas/insights.py). Quotients   *)
(* are compared by cross multiplication; formatting and rounding are left out.           *)
EXTENDS PostTable, FiniteSetsExt

CONSTANTS Platforms,
          Pair,           \* Pair[pl][m]: the handles the registry lists for platform and market
          WindowDays,     \* window_days of aggregate_pair
          LookbackDays,   \* lookback_days of _historical_top_posts
          MinSample,      \* BREAKOUT_MIN_SAMPLE_SIZE
          HalfLife,       \* BREAKOUT_HALFLIFE_DAYS
          BreakoutTop,    \* BREAKOUT_TOP_N
          RankLimit,      \* ranked_posts_n
          TopPosts,       \* top_posts_n, and n of _historical_top_posts
          WeekDays        \* days in a week: 7

Markets == {"DE", "US", "UK"}

ASSUME FiguresAssumption ==
    /\ {WindowDays, LookbackDays, MinSample, HalfLife, BreakoutTop, RankLimit, TopPosts}
         \subseteq Nat
    /\ MinSample > 0 /\ HalfLife > 0 /\ WeekDays \in Nat \ {0}
    \* A handle stands for one market of a platform.
    /\ \A pl \in Platforms : \A m, o \in Markets : m # o => Pair[pl][m] \cap Pair[pl][o] = {}

\* The n elements of S that no n others come before.
First(S, n, Before(_, _)) == {x \in S : Cardinality({y \in S : Before(y, x)}) < n}

\* ---- one post ----------------------------------------------------------------------
RawEngagement(p) == post[p].likes + post[p].saves + post[p].shares

\* The post has an asset that the ranking and the release lookup may use.
Usable(p) == asset[p] # None /\ asset[p].review # "rejected"
TitleFor(p) == IF Usable(p) THEN asset[p].title ELSE None
AssetIds == {<<"asset", p>> : p \in Posts}
Urls == {<<"url", p>> : p \in Posts}
Identity(p) == IF Usable(p) THEN <<"asset", p>> ELSE <<"url", p>>

ReleaseBucket(p) ==
    LET t == TitleFor(p)
        r == IF t = None THEN None ELSE ReleaseOf(t, Market[ChannelOf[p]])
    IN  IF r = None THEN "unknown" ELSE DaysBucket(r - Reference(p))

\* ---- the channels and posts of a pair ------------------------------------------------
Specified(pl, m) == Pair[pl][m] # {}
ChannelsFor(pl, m) == {c \in Channels : Platform[c] = pl /\ Handle[c] \in Pair[pl][m]}
\* The release distribution and the recommendations look a handle up on every platform.
HandlesOfPair == UNION {Pair[pl][m] : pl \in Platforms, m \in Markets}
ChannelsByHandle == {c \in Channels : Handle[c] \in HandlesOfPair}

Between(C, from, to) ==
    {p \in Stored : ChannelOf[p] \in C /\ Reference(p) \in from..to}
InWindow(C, now) == Between(C, now - WindowDays, now)
\* _historical_top_posts looks at the half-open stretch before the window.
BeforeWindow(C, now) == Between(C, now - WindowDays - LookbackDays, now - WindowDays - 1)

\* ---- breakouts -----------------------------------------------------------------------
\* _compute_breakout_scores: how far p lies from the mean of S in standard deviations, halved
\* every HalfLife days. The score is dev * 2^(-age/HalfLife) / sqrt(spread), all three whole.
Scored(S) == Cardinality(S) >= MinSample /\ Cardinality({Engagement(p) : p \in S}) > 1
Score(p, S, now) ==
    LET n == Cardinality(S)
        sum == MapThenSumSet(Engagement, S)
        squares == MapThenSumSet(LAMBDA q : Engagement(q) * Engagement(q), S)
    IN  [dev |-> n * Engagement(p) - sum, spread |-> n * squares - sum * sum,
         age |-> Positive(now - Reference(p))]

Power(b, n) == MapThenFoldSet(LAMBDA x, y : x * y, 1, LAMBDA i : b,
                              LAMBDA S : CHOOSE i \in S : TRUE, 1..n)

\* Score a is higher than score b: by sign, then by the magnitudes without their roots.
MUT_Higher(a, b) ==
    LET size(x, y) == Power(x.dev * x.dev * y.spread, HalfLife) * Power(2, 2 * y.age)
    IN  size(a, b) > size(b, a)
Higher(a, b) ==
    LET size(x, y) == Power(x.dev * x.dev * y.spread, HalfLife) * Power(2, 2 * y.age)
    IN  \/ a.dev >= 0 /\ b.dev < 0
        \/ a.dev > 0 /\ b.dev >= 0 /\ size(a, b) > size(b, a)
        \/ a.dev < 0 /\ b.dev < 0 /\ size(a, b) < size(b, a)

\* ---- one channel pool ----------------------------------------------------------------
MoreViews(p, q) == post[p].views > post[q].views \/ (post[p].views = post[q].views /\ p < q)
\* The ranking sorts by the raw sum, in which a hidden counter of -1 counts as such.
RankedBefore(p, q) ==
    RawEngagement(p) > RawEngagement(q)
    \/ (RawEngagement(p) = RawEngagement(q) /\ MoreViews(p, q))
\* The top lists sort by the clamped sum and leave ties in the order of the rows.
TopBefore(p, q) == Engagement(p) > Engagement(q) \/ (Engagement(p) = Engagement(q) /\ p < q)

Ranked(S) == First(S, RankLimit, RankedBefore)
BreakoutsOf(S, now) ==
    LET higher(p, q) ==
          \/ Higher(Score(p, S, now), Score(q, S, now))
          \/ ~Higher(Score(q, S, now), Score(p, S, now)) /\ MoreViews(p, q)
    IN  IF Scored(S) THEN First(Ranked(S), BreakoutTop, higher) ELSE {}

AssetsOf(S) == {p \in S : asset[p] # None}
TitledOf(S) == {p \in S : asset[p] # None /\ asset[p].title # None}
Timed(S) == {p \in S : Seconds[p] # None}

ChannelStats(C, platform, now) ==
    LET S == InWindow(C, now)
    IN  [channel_found |-> C # {},
         posts_count |-> Cardinality(S),
         assets_count |-> Cardinality(AssetsOf(S)),
         coverage |-> <<Cardinality(TitledOf(S)), Cardinality(AssetsOf(S))>>,
         duration_buckets |-> [b \in {DurationBucket(Seconds[p]) : p \in S} |->
                                 Cardinality({p \in S : DurationBucket(Seconds[p]) = b})],
         duration |-> <<MapThenSumSet(LAMBDA p : Seconds[p], Timed(S)), Cardinality(Timed(S))>>,
         engagement |-> <<MapThenSumSet(Engagement, S), Cardinality(S)>>,
         activation |-> {<<p, Activation(p, platform)>> : p \in S},
         top_posts |-> First(S, TopPosts, TopBefore),
         historical_top_posts |-> IF S = {} THEN {}
                                  ELSE First(BeforeWindow(C, now), TopPosts, TopBefore),
         ranked_posts |-> {[of |-> p, id |-> Identity(p)] : p \in Ranked(S)},
         breakouts |-> BreakoutsOf(S, now)]

\* ---- two markets ---------------------------------------------------------------------
\* Posts in the window whose asset carries match key k; the review plays no part here.
WithKey(C, k, now) == {p \in InWindow(C, now) : asset[p] # None /\ asset[p].key = k}
\* One match per key found on both sides. Which post stands for a key is the order of the
\* rows: the query has none.
CrossMarketMatches(A, B, now) ==
    LET keys == (Keys \cup {KeyOf[t] : t \in Titles}) \ {"unknown", ""}
        shared == {k \in keys : WithKey(A, k, now) # {} /\ WithKey(B, k, now) # {}}
        one(S) == CHOOSE p \in S : \A q \in S : q <= p
    IN  {[key |-> k, a |-> one(WithKey(A, k, now)), b |-> one(WithKey(B, k, now))]
           : k \in shared}

TitlesIn(C, now) == {asset[p].title : p \in TitledOf(InWindow(C, now))}
TitleCoverage(pl, now) ==
    LET in(m) == TitlesIn(ChannelsFor(pl, m), now)
        count(Of(_)) == MapThenSumSet(
            LAMBDA m : Cardinality(Of(InWindow(ChannelsFor(pl, m), now))), Markets)
    IN  [titles_in_both_markets |-> in("DE") \cap in("US"),
         de_only_titles |-> in("DE") \ (in("US") \cup in("UK")),
         us_only_titles |-> in("US") \ (in("DE") \cup in("UK")),
         uk_only_titles |-> in("UK") \ (in("DE") \cup in("US")),
         overall |-> <<count(TitledOf), count(AssetsOf)>>]

Notes(pl, now) ==
    LET de == ChannelsFor(pl, "DE")
        us == ChannelsFor(pl, "US")
    IN  {<<"unknown handle", h>> : h \in {h \in UNION {Pair[pl][m] : m \in Markets} :
            \A c \in Channels : Platform[c] = pl => Handle[c] # h}}
        \cup {<<"few posts", m>> : m \in {m \in Markets :
                Specified(pl, m) /\ Cardinality(InWindow(ChannelsFor(pl, m), now)) < 5}}
        \cup (IF de # {} /\ us # {} /\ CrossMarketMatches(de, us, now) = {}
              THEN {<<"no parallel title", pl>>} ELSE {})

PlatformAggregation(pl, now) ==
    LET of(m) == ChannelsFor(pl, m)
    IN  [channel |-> [m \in {m \in Markets : Specified(pl, m)} |->
                        ChannelStats(of(m), pl, now)],
         cross_market_matches |-> CrossMarketMatches(of("DE"), of("US"), now),
         de_uk_matches |-> CrossMarketMatches(of("DE"), of("UK"), now),
         us_uk_matches |-> CrossMarketMatches(of("US"), of("UK"), now),
         title_coverage |-> TitleCoverage(pl, now),
         notes |-> Notes(pl, now)]

\* How far the posts of the pair lie from the release of their title, in buckets.
DaysToReleaseDistribution(now) ==
    LET S == InWindow(ChannelsByHandle, now)
    IN  [b \in {ReleaseBucket(p) : p \in S} |-> Cardinality({p \in S : ReleaseBucket(p) = b})]
================================================================================
