------------------------------- MODULE TitlePages -------------------------------
(* The pages beside the brief that count the same posts: the aggregation of one title over  *)
(* all channels (title_aggregation.py), the posts of a title (title_posts in                *)
(* backend/app/api/insights.py), the weekly timeline of a pair (market_timeline.py) and the *)
(* tiles of the start page (pairs in backend/app/api/insights.py).                         *)
EXTENDS PairBrief

CONSTANTS PageTop,       \* top_n of a title page
          TimelineWeeks  \* the weeks a timeline is cut to, or None

ASSUME TitlePagesAssumption == PageTop \in Nat /\ (TimelineWeeks # None => TimelineWeeks \in Nat \ {0})

PairWeek(p) == WeekOf(Reference(p))
Views(p) == Positive(post[p].views)
Sum(Of(_), S) == MapThenSumSet(Of, S)

---------------------------------------------------------------------------------
(* aggregate_title: an asset counts whatever its review says, and a post once. The window has *)
(* no end.                                                                                   *)

TitlePosts(t) == {p \in Stored : asset[p] # None /\ asset[p].title = t}
MUT_OnPage(t, days, now) == {p \in TitlePosts(t) : Reference(p) > now - days}
OnPage(t, days, now) == {p \in TitlePosts(t) : Reference(p) >= now - days}

Group(S) ==
    [posts |-> Cardinality(S), engagement |-> Sum(Engagement, S), views |-> Sum(Views, S),
     activation |-> {<<p, Activation(p, Platform[ChannelOf[p]])>> : p \in S}]
GroupsBy(Key(_), S) == [k \in {Key(p) : p \in S} |-> Group({p \in S : Key(p) = k})]
InPair(c) == Handle[c] \in HandlesOfPair

TitlePage(t, days, now) ==
    LET S == OnPage(t, days, now)
        all == {Reference(p) : p \in TitlePosts(t)}
    IN  [first |-> IF all = {} THEN None ELSE Min(all), last |-> IF all = {} THEN None ELSE Max(all),
         ever |-> Cardinality(TitlePosts(t)), total |-> Group(S),
         platforms |-> GroupsBy(LAMBDA p : Platform[ChannelOf[p]], S),
         markets |-> GroupsBy(LAMBDA p : Market[ChannelOf[p]], S),
         channels |-> GroupsBy(LAMBDA p : ChannelOf[p], S),
         weekly |-> GroupsBy(PairWeek, S),
         in_pair |-> \E p \in S : InPair(ChannelOf[p]),
         top_posts |-> First(S, PageTop, TopBefore)]

\* title_posts: the three columns of the detail page. Its rate takes a hidden counter as it is.
DetailPage(t) ==
    [m \in Markets |->
       [pl \in Platforms |->
          {[of |-> p, rate |-> IF post[p].views <= 0 THEN <<0, 1>> ELSE <<post[p].likes, post[p].views>>] :
             p \in {q \in TitlePosts(t) : Market[ChannelOf[q]] = m /\ Platform[ChannelOf[q]] = pl}}]]

---------------------------------------------------------------------------------
(* compute_market_timeline: the weeks from the first brief of the pair to its last *)

Axis ==
    LET with == {w \in Weeks : brief[w] # None}
        weeks == Min(with)..Max(with)
    IN  IF with = {} THEN {}
        ELSE {w \in weeks : TimelineWeeks # None => w > Max(with) - TimelineWeeks}

Timeline ==
    LET pool == {p \in Stored : InPair(ChannelOf[p]) /\ PairWeek(p) \in Axis}
        point(S) ==
          LET seen == {p \in S : post[p].views > 0}
          IN  [posts |-> Cardinality(S), views |-> Sum(Views, S),
               er |-> <<Sum(LAMBDA p : Positive(post[p].likes), seen), Sum(Views, seen)>>]
    IN  [m \in Markets |->
           [w \in Axis |-> point({p \in pool : Market[ChannelOf[p]] = m /\ PairWeek(p) = w})]]

\* pairs: the posts of the week that is over, as the tile of the pair shows them.
CompletedWeek(now) == WeekOf(now) - 1
Tile(now) ==
    [posts |-> Cardinality({p \in Stored : InPair(ChannelOf[p]) /\ PairWeek(p) = CompletedWeek(now)}),
     has_brief |-> \E w \in Weeks : brief[w] # None]

---------------------------------------------------------------------------------
(* What must hold *)

\* The same posts are counted the same on every page: a title the brief's coverage names in a
\* market is on its own page with a post there, and only then; the tile of the pair shows what
\* the timeline shows for the week ("eine Quelle der Wahrheit", insights.py); no more posts of
\* titles than the timeline has; and the breakdowns of a title page add up to its totals.
TitlePagesCountTheSame ==
    LET timeline == Timeline
        posts(w) == MapThenSumSet(LAMBDA m : timeline[m][w].posts, Markets)
        titled(w) == {p \in Stored : /\ asset[p] # None /\ asset[p].title # None
                                     /\ InPair(ChannelOf[p]) /\ PairWeek(p) = w}
    IN  /\ \A t \in Titles :
             LET page == TitlePage(t, WindowDays, today)
                 adds(f) == /\ MapThenSumSet(LAMBDA k : f[k].posts, DOMAIN f) = page.total.posts
                            /\ MapThenSumSet(LAMBDA k : f[k].engagement, DOMAIN f)
                                 = page.total.engagement
             IN  /\ \A pl \in Platforms, m \in Markets :
                      LET C == ChannelsFor(pl, m)
                      IN  t \in TitlesIn(C, today) <=> C \cap DOMAIN page.channels # {}
                 /\ adds(page.platforms) /\ adds(page.markets) /\ adds(page.channels)
                 /\ adds(page.weekly)
                 /\ page.ever = Cardinality(UNION {DetailPage(t)[m][pl] : m \in Markets, pl \in Platforms})
        /\ \A w \in Axis : Cardinality(titled(w)) <= posts(w)
        /\ CompletedWeek(today) \in Axis => Tile(today).posts = posts(CompletedWeek(today))
        /\ Axis # {} => Tile(today).has_brief
================================================================================
