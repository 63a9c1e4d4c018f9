--------------------------- MODULE StatisticsProofs ---------------------------
(* Theorems about what the briefs and pages are computed from, for every set of posts and  *)
(* every window: the comparison in a brief and its ranking (PairBrief), the pattern report *)
(* (TrailerPatterns), the evidence of the weekly briefings (WeekEvidence) and the track    *)
(* record of the advice (Advice). Medians and scores stay names here; what is proved is      *)
(* which posts they are taken of, and what is said of them. Expected rates are sums.       *)
EXTENDS Forecast, Advice, FiniteSetTheorems, TLAPS

-------------------------------------------------------------------------------
(* The table.  A post has its numbers for ever. *)

PostRow == [detected : Int, published : Int \cup {None}, views : Int, likes : Int, saves : Int,
            shares : Int, analysis : Analyses \cup {None}]
AssetRow == [title : Titles \cup {None}, key : Keys \cup {KeyOf[t] : t \in Titles} \cup {None},
             review : Reviews, cover : Covers \cup {None}]

\* None is no row.
NoneIsNoPost == None \notin PostRow

TableOk ==
    /\ post \in [Posts -> PostRow \cup {None}] /\ asset \in [Posts -> AssetRow \cup {None}]
    /\ \A p \in Stored : post[p].detected \in 0..today
    /\ today \in 0..LastDay /\ edits \in 0..MaxEdits

LEMMA RowIsPostRow ==
  ASSUME NEW p \in Posts, NEW m \in Scrapes[p], NEW d \in Int
  PROVE  Row(m, d) \in PostRow /\ Row(m, d).detected = d
<1>1. {m.views, m.likes, m.saves, m.shares} \subseteq Int /\ m.lag \in Int \cup {None}
  BY PostTableAssumption
<1> QED
  BY <1>1 DEF Row, PostRow

LEMMA TableOkInit == TableInit => TableOk
<1> SUFFICES ASSUME TableInit PROVE TableOk
  OBVIOUS
<1>1. PICK start \in Starts :
        /\ post = [p \in Posts |->
             IF p \in DOMAIN start THEN [Row(start[p], 0) EXCEPT !.analysis = Earlier[p]] ELSE None]
        /\ asset = [p \in Posts |-> IF p \in DOMAIN start THEN NewAsset(None) ELSE None]
  BY DEF TableInit
<1>2. ASSUME NEW p \in Posts, p \in DOMAIN start
      PROVE  /\ [Row(start[p], 0) EXCEPT !.analysis = Earlier[p]] \in PostRow
             /\ [Row(start[p], 0) EXCEPT !.analysis = Earlier[p]].detected = 0
  <2>1. start[p] \in Scrapes[p] /\ Earlier[p] \in Analyses \cup {None}
    BY <1>2, PostTableAssumption
  <2>2. Row(start[p], 0) \in PostRow /\ Row(start[p], 0).detected = 0
    BY <2>1, RowIsPostRow
  <2> HIDE DEF Row
  <2> QED
    BY <2>1, <2>2 DEF PostRow
<1>3. NewAsset(None) \in AssetRow
  BY DEF NewAsset, AssetRow, Reviews
<1>4. today = 0 /\ edits = 0 /\ LastDay \in Nat /\ MaxEdits \in Nat
  BY PostTableAssumption DEF TableInit
<1> QED
  BY <1>1, <1>2, <1>3, <1>4 DEF TableOk, Stored

\* p keeps its place in the table and all its numbers.
Kept(p) == /\ post'[p] # None
           /\ post'[p].detected = post[p].detected /\ post'[p].published = post[p].published
           /\ post'[p].views = post[p].views /\ post'[p].likes = post[p].likes
           /\ post'[p].saves = post[p].saves /\ post'[p].shares = post[p].shares

LEMMA TableStep ==
  ASSUME NoneIsNoPost, TableOk, TableNext \/ NextDay \/ UNCHANGED tableVars
  PROVE  TableOk' /\ \A p \in Stored : Kept(p)
<1> USE DEF TableOk, Stored, Kept
<1>0. today \in Int /\ LastDay \in Nat /\ MaxEdits \in Nat
  BY PostTableAssumption
<1>1. CASE UNCHANGED tableVars
  BY <1>1 DEF tableVars
<1>2. CASE NextDay
  BY <1>0, <1>2 DEF NextDay
<1>3. ASSUME NEW q \in Posts, Scrape(q) PROVE TableOk' /\ \A p \in Stored : Kept(p)
  <2>1. PICK m \in Scrapes[q] : post' = [post EXCEPT ![q] = Row(m, today)]
    BY <1>3 DEF Scrape
  <2>2. Row(m, today) \in PostRow /\ Row(m, today).detected = today
    BY <1>0, RowIsPostRow
  <2>3. post[q] = None /\ UNCHANGED <<asset, today, edits>>
    BY <1>3 DEF Scrape
  <2> QED
    BY <1>0, <2>1, <2>2, <2>3
<1>4. ASSUME NEW q \in Posts, Classify(q) PROVE TableOk' /\ \A p \in Stored : Kept(p)
  <2>1. PICK a \in Analyses : post' = [post EXCEPT ![q].analysis = a]
    BY <1>4 DEF Classify
  <2>2. /\ post[q] \in PostRow /\ edits' = edits + 1 /\ edits < MaxEdits
        /\ UNCHANGED <<asset, today>>
    BY <1>4 DEF Classify
  <2>3. [post[q] EXCEPT !.analysis = a] \in PostRow
    BY <2>2 DEF PostRow
  <2>4. /\ [post[q] EXCEPT !.analysis = a].detected = post[q].detected
        /\ [post[q] EXCEPT !.analysis = a].published = post[q].published
        /\ [post[q] EXCEPT !.analysis = a].views = post[q].views
        /\ [post[q] EXCEPT !.analysis = a].likes = post[q].likes
        /\ [post[q] EXCEPT !.analysis = a].saves = post[q].saves
        /\ [post[q] EXCEPT !.analysis = a].shares = post[q].shares
    BY <2>2 DEF PostRow
  <2>5. post' = [post EXCEPT ![q] = [post[q] EXCEPT !.analysis = a]]
    BY <2>1
  <2> QED
    BY <1>0, <2>2, <2>3, <2>4, <2>5 DEF NoneIsNoPost
<1>5. ASSUME NEW q \in Posts, NEW x \in AssetRow, asset' = [asset EXCEPT ![q] = x],
             UNCHANGED <<post, today>>, edits' \in 0..MaxEdits
      PROVE  TableOk' /\ \A p \in Stored : Kept(p)
  BY <1>0, <1>5
<1>6. ASSUME NEW q \in Posts, MakeAsset(q) PROVE TableOk' /\ \A p \in Stored : Kept(p)
  <2>1. \A t \in Titles \cup {None} : NewAsset(t) \in AssetRow
    BY DEF NewAsset, AssetRow, Reviews
  <2> QED
    BY <1>5, <1>6, <2>1 DEF MakeAsset
<1>7. ASSUME NEW q \in Posts, Describe(q) PROVE TableOk' /\ \A p \in Stored : Kept(p)
  <2>1. PICK c \in Covers, k \in Keys \cup {IF asset[q].title = None THEN None
                                            ELSE KeyOf[asset[q].title]} :
          asset' = [asset EXCEPT ![q].cover = c, ![q].key = k]
    BY <1>7 DEF Describe
  <2>2. asset[q] \in AssetRow /\ edits' = edits + 1 /\ edits < MaxEdits /\ UNCHANGED <<post, today>>
    BY <1>7 DEF Describe
  <2>3. k \in Keys \cup {KeyOf[t] : t \in Titles} \cup {None}
    BY <2>2 DEF AssetRow
  <2>4. [asset[q] EXCEPT !.cover = c, !.key = k] \in AssetRow
    BY <2>2, <2>3 DEF AssetRow
  <2>5. asset' = [asset EXCEPT ![q] = [asset[q] EXCEPT !.cover = c, !.key = k]]
    BY <2>1
  <2> QED
    BY <1>0, <1>5, <2>2, <2>4, <2>5
<1>8. ASSUME NEW q \in Posts, AssignTitle(q) PROVE TableOk' /\ \A p \in Stored : Kept(p)
  <2>1. PICK t \in Titles : asset' = [asset EXCEPT ![q].title = t, ![q].key = KeyOf[t]]
    BY <1>8 DEF AssignTitle
  <2>2. asset[q] \in AssetRow /\ edits' = edits + 1 /\ edits < MaxEdits /\ UNCHANGED <<post, today>>
    BY <1>8 DEF AssignTitle
  <2>3. [asset[q] EXCEPT !.title = t, !.key = KeyOf[t]] \in AssetRow
    BY <2>2 DEF AssetRow
  <2>4. asset' = [asset EXCEPT ![q] = [asset[q] EXCEPT !.title = t, !.key = KeyOf[t]]]
    BY <2>1
  <2> QED
    BY <1>0, <1>5, <2>2, <2>3, <2>4
<1>9. ASSUME NEW q \in Posts, Review(q) PROVE TableOk' /\ \A p \in Stored : Kept(p)
  <2>1. PICK r \in Decisions, t \in Titles \cup {None} :
          asset' = [asset EXCEPT ![q].review = r,
                                 ![q].title = IF t = None THEN @ ELSE t,
                                 ![q].key = IF t = None THEN @ ELSE KeyOf[t]]
    BY <1>9 DEF Review
  <2> DEFINE x == [asset[q] EXCEPT !.review = r,
                                   !.title = IF t = None THEN @ ELSE t,
                                   !.key = IF t = None THEN @ ELSE KeyOf[t]]
  <2>2. asset[q] \in AssetRow /\ edits' = edits + 1 /\ edits < MaxEdits /\ UNCHANGED <<post, today>>
    BY <1>9 DEF Review
  <2>3. r \in Reviews
    BY PostTableAssumption DEF Reviews
  <2>4. x \in AssetRow
    BY <2>2, <2>3 DEF AssetRow
  <2>5. asset' = [asset EXCEPT ![q] = x]
    BY <2>1
  <2> QED
    BY <1>0, <1>5, <2>2, <2>4, <2>5
<1> QED
  BY <1>1, <1>2, <1>3, <1>4, <1>6, <1>7, <1>8, <1>9 DEF TableNext

-------------------------------------------------------------------------------
(* Rankings *)

IsOrder(R, S) == /\ \A x, y, z \in S : <<x, y>> \in R /\ <<y, z>> \in R => <<x, z>> \in R
                 /\ \A x \in S : <<x, x>> \notin R
Ahead(S, R, p) == {y \in S : <<y, p>> \in R}
ComesBefore(R, y, p) == <<y, p>> \in R

\* A place in the first n of a set is lost only to a newcomer: when R is an order and p is among
\* the first n of P but not of Q, then among the first n of Q is one that P does not have and
\* that comes before p.
LEMMA NewcomerWins ==
  ASSUME NEW P, NEW Q, IsFiniteSet(P), IsFiniteSet(Q), NEW R, NEW n \in Nat, NEW p \in Q,
         IsOrder(R, P \cup Q),
         Cardinality(Ahead(P, R, p)) < n, ~(Cardinality(Ahead(Q, R, p)) < n)
  PROVE  \E y \in Q \ P : ComesBefore(R, y, p) /\ Cardinality(Ahead(Q, R, y)) < n
<1> USE DEF Ahead, IsOrder, ComesBefore
<1> DEFINE B(y) == Ahead(Q, R, y)
           old == Ahead(P, R, p)
           new == B(p) \ P
<1>1. IsFiniteSet(old) /\ Cardinality(old) \in Nat
  BY FS_Subset, FS_CardinalityType
<1>2. ASSUME NEW S, S \subseteq old PROVE IsFiniteSet(S) /\ Cardinality(S) < n
  <2>1. IsFiniteSet(S) /\ Cardinality(S) <= Cardinality(old) /\ Cardinality(S) \in Nat
    BY <1>1, <1>2, FS_Subset, FS_CardinalityType
  <2> QED
    BY <1>1, <2>1
<1>3. new # {}
  BY <1>2
<1>4. PICK y \in new : \A z \in new : <<z, y>> \notin R
  <2> DEFINE Below == {B(y) : y \in new}
  <2>1. IsWellFoundedOn(StrictSubsetOrdering(Q), FiniteSubsetsOf(Q))
    BY FS_StrictSubsetOrderingWellFounded
  <2>2. Below # {} /\ Below \subseteq FiniteSubsetsOf(Q)
    <3>1. FiniteSubsetsOf(Q) = SUBSET Q
      BY FS_FiniteSubsetsOfFinite
    <3>2. \A y : B(y) \in SUBSET Q
      OBVIOUS
    <3> HIDE DEF B
    <3> QED
      BY <1>3, <3>1, <3>2
  <2>3. PICK T \in Below : \A U \in Below : <<U, T>> \notin StrictSubsetOrdering(Q)
    <3> HIDE DEF Below
    <3> QED
      BY <2>1, <2>2, WFMin
  <2>4. PICK y \in new : T = B(y)
    OBVIOUS
  <2>5. ASSUME NEW z \in new, <<z, y>> \in R PROVE FALSE
    <3>1. B(z) \subseteq B(y) /\ z \in B(y) /\ z \notin B(z)
      BY <2>5
    <3>2. <<B(z), B(y)>> \in StrictSubsetOrdering(Q)
      BY <3>1 DEF StrictSubsetOrdering
    <3> QED
      BY <2>3, <2>4, <3>2
  <2> QED
    BY <2>5
<1>5. B(y) \subseteq old
  BY <1>4
<1> QED
  BY <1>2, <1>4, <1>5

Rankings == {xy \in Posts \X Posts : RankedBefore(xy[1], xy[2])}

LEMMA RankingIsOrder == TableOk => IsOrder(Rankings, Stored)
<1> SUFFICES ASSUME TableOk PROVE IsOrder(Rankings, Stored)
  OBVIOUS
<1> DEFINE e(p) == RawEngagement(p)
<1>1. \A p \in Stored : e(p) \in Int /\ post[p].views \in Int /\ p \in Nat
  <2>1. ASSUME NEW p \in Stored PROVE post[p] \in PostRow /\ p \in Nat
    BY PostTableAssumption DEF TableOk, Stored
  <2> QED
    BY <2>1 DEF RawEngagement, PostRow
<1>2. \A x, y \in Stored : <<x, y>> \in Rankings <=>
        \/ e(x) > e(y)
        \/ e(x) = e(y) /\ (post[x].views > post[y].views \/ (post[x].views = post[y].views /\ x < y))
  BY DEF Rankings, RankedBefore, MoreViews, Stored
<1> HIDE DEF e
<1> QED
  BY <1>1, <1>2 DEF IsOrder

LEMMA RankingStep ==
  ASSUME IsFiniteSet(Posts), NoneIsNoPost, TableOk, TableNext \/ NextDay \/ UNCHANGED tableVars,
         NEW pl \in Platforms, NEW m \in Markets,
         NEW p \in Ranked(Pool(pl, m)) \ Ranked(Pool(pl, m))', p \in Pool(pl, m)'
  PROVE  Ranked(Pool(pl, m))' \ Pool(pl, m) # {}
<1> DEFINE P == Pool(pl, m)
           Q == Pool(pl, m)'
           S == {x \in Posts : post'[x] # None}
<1>1. TableOk' /\ \A x \in Stored : Kept(x)
  BY TableStep
<1>2. P \subseteq Posts /\ P \subseteq Stored /\ Q \subseteq S /\ Stored \subseteq S
  BY <1>1 DEF Pool, InWindow, Between, Stored, Kept
<1>3. \A x \in P : RawEngagement(x)' = RawEngagement(x) /\ post'[x].views = post[x].views
  BY <1>1, <1>2 DEF RawEngagement, Kept
<1>4. \A x, y \in P : RankedBefore(x, y)' <=> RankedBefore(x, y)
  BY <1>3 DEF RankedBefore, MoreViews
<1>5. IsOrder(Rankings, Stored)'
  BY <1>1, RankingIsOrder, PTL
<1> DEFINE R == Rankings'
<1>6. \A x, y \in Posts : <<x, y>> \in R <=> RankedBefore(x, y)'
  BY DEF Rankings
<1>7. IsFiniteSet(P) /\ IsFiniteSet(Q) /\ RankLimit \in Nat
  BY <1>2, FS_Subset, FiguresAssumption
<1>8. Cardinality(Ahead(P, R, p)) < RankLimit
  <2>1. p \in P /\ Cardinality({y \in P : RankedBefore(y, p)}) < RankLimit
    BY DEF Ranked, First
  <2>2. Ahead(P, R, p) = {y \in P : RankedBefore(y, p)}
    BY <1>2, <1>4, <1>6, <2>1 DEF Ahead
  <2> QED
    BY <2>1, <2>2
<1>9. \A x \in Q : x \in Ranked(Pool(pl, m))' <=> Cardinality(Ahead(Q, R, x)) < RankLimit
  <2>1. ASSUME NEW x \in Q PROVE Ahead(Q, R, x) = {y \in Q : RankedBefore(y, x)'}
    BY <1>2, <1>6 DEF Ahead
  <2>2. \A x \in Q : x \in Ranked(Pool(pl, m))'
                       <=> Cardinality({y \in Q : RankedBefore(y, x)'}) < RankLimit
    BY DEF Ranked, First
  <2> QED
    BY <2>1, <2>2
<1>10. p \in Q /\ P \cup Q \subseteq S
  BY <1>2
<1>11. IsOrder(R, P \cup Q)
  BY <1>5, <1>10 DEF IsOrder, Stored
<1>12. \E y \in Q \ P : ComesBefore(R, y, p) /\ Cardinality(Ahead(Q, R, y)) < RankLimit
  <2>1. ~(Cardinality(Ahead(Q, R, p)) < RankLimit)
    BY <1>9, <1>10
  <2> HIDE DEF P, Q, R
  <2> QED
    BY <1>7, <1>8, <1>10, <1>11, <2>1, NewcomerWins
<1> QED
  BY <1>9, <1>12

\* A ranked post that stays in the window leaves the ranking only when a newcomer to the pool is
\* ranked, for every finite set of posts and every window and length of the ranking.
THEOREM RankingIsStable ==
  ASSUME IsFiniteSet(Posts), NoneIsNoPost
  PROVE  Spec => LeavesOnlyWhenBeaten
<1>1. Init => TableOk
  BY TableOkInit DEF Init
<1>2. [Next]_vars => TableNext \/ NextDay \/ UNCHANGED tableVars
  BY DEF Next, vars, Begin, Reaggregate, Persist, Fail
<1>3. TableOk /\ [Next]_vars => TableOk'
  BY <1>2, TableStep
<1> DEFINE Beaten == \A pl \in Platforms, m \in Markets :
                       \A p \in Ranked(Pool(pl, m)) \ Ranked(Pool(pl, m))' :
                          p \in Pool(pl, m)' => Ranked(Pool(pl, m))' \ Pool(pl, m) # {}
<1>4. TableOk /\ [Next]_vars => [Beaten]_vars
  BY <1>2, RankingStep
<1>5. LeavesOnlyWhenBeaten <=> [][Beaten]_vars
  BY DEF LeavesOnlyWhenBeaten
<1> HIDE DEF Beaten
<1> QED
  BY <1>1, <1>3, <1>4, <1>5, PTL DEF Spec

-------------------------------------------------------------------------------
(* The evidence of the weekly briefings *)

\* The image of a finite set is finite, and no larger.
LEMMA FiniteImage ==
  ASSUME NEW S, IsFiniteSet(S), NEW f
  PROVE  IsFiniteSet({f[x] : x \in S}) /\ Cardinality({f[x] : x \in S}) <= Cardinality(S)
<1> DEFINE T == {f[x] : x \in S}
           g == [x \in S |-> f[x]]
<1>1. g \in Surjection(S, T)
  BY DEF Surjection
<1> HIDE DEF T, g
<1>2. IsFiniteSet(T) /\ Cardinality(T) <= Cardinality(S)
  BY <1>1, FS_Surjection
<1> QED
  BY <1>2 DEF T

LEMMA SubsetIsSmaller ==
  ASSUME NEW S, NEW T, IsFiniteSet(T), S \subseteq T
  PROVE  /\ IsFiniteSet(S) /\ Cardinality(S) <= Cardinality(T)
         /\ Cardinality(S) \in Nat /\ Cardinality(T) \in Nat
BY FS_Subset, FS_CardinalityType

\* The source a candidate is known by, and the candidates of a week.
SourceOf(p) == IF ChannelOf[p] \in ChannelsByHandle THEN "pair"
               ELSE <<Segment[ChannelOf[p]], ChannelOf[p]>>
PublishedIn(pl, w) == {p \in Stored : /\ Platform[ChannelOf[p]] = pl /\ post[p].views > 0
                                      /\ post[p].published # None /\ Week(post[p].published) = w}
Everything(pl, w) == {Candidate(p, SourceOf(p)) : p \in PublishedIn(pl, w)}

\* The stored lists hold candidates of the week, under the name everybody knows them by: a post
\* of the pair's lists is of a channel of the pair, and a segment has none of those channels.
LEMMA WeekPostsAreEverybodys ==
  ASSUME NEW pl \in Platforms, NEW w, NEW now
  PROVE  WeekPosts(pl, w, now) \subseteq Everything(pl, w)
<1> DEFINE pairPosts == UNION {Ranked(InWindow(ChannelsFor(pl, m), now)) : m \in Markets}
           segmentPosts(c) == SegmentAggregation(Segment[c], now).channels[c].top_posts \ pairPosts
           of(S, source) == {Candidate(p, source) : p \in {q \in S : OfWeek(q, w)}}
           others == {d \in Channels : Segment[d] # None /\ Platform[d] = pl}
<1>1. WeekPosts(pl, w, now) = of(pairPosts, "pair")
                               \cup UNION {of(segmentPosts(c), <<Segment[c], c>>) : c \in others}
  BY DEF WeekPosts
<1>2. ASSUME NEW p \in Stored, OfWeek(p, w), Platform[ChannelOf[p]] = pl
      PROVE  Candidate(p, SourceOf(p)) \in Everything(pl, w)
  BY <1>2 DEF Everything, PublishedIn, OfWeek
<1>3. ASSUME NEW p \in pairPosts, OfWeek(p, w) PROVE Candidate(p, "pair") \in Everything(pl, w)
  <2>1. PICK m \in Markets : p \in Ranked(InWindow(ChannelsFor(pl, m), now))
    OBVIOUS
  <2>2. p \in Stored /\ ChannelOf[p] \in ChannelsFor(pl, m)
    BY <2>1 DEF Ranked, First, InWindow, Between
  <2>3. ChannelOf[p] \in ChannelsByHandle /\ Platform[ChannelOf[p]] = pl
    BY <2>2 DEF ChannelsFor, ChannelsByHandle, HandlesOfPair
  <2>4. SourceOf(p) = "pair"
    BY <2>3 DEF SourceOf
  <2> QED
    BY <1>2, <1>3, <2>2, <2>3, <2>4
<1>4. ASSUME NEW c \in others, NEW p \in segmentPosts(c), OfWeek(p, w)
      PROVE  Candidate(p, <<Segment[c], c>>) \in Everything(pl, w)
  <2>1. p \in SegmentAggregation(Segment[c], now).channels[c].top_posts
    OBVIOUS
  <2>2. SegmentAggregation(Segment[c], now).channels[c].top_posts
          = First(Between({c}, now - SegmentDays, now), SegmentTop, RankedBefore)
    BY DEF SegmentAggregation
  <2>3. p \in Stored /\ ChannelOf[p] = c
    BY <2>1, <2>2 DEF First, Between
  <2>4. c \notin ChannelsByHandle
    BY EvidenceAssumption DEF ChannelsByHandle
  <2>5. SourceOf(p) = <<Segment[c], c>>
    BY <2>3, <2>4 DEF SourceOf
  <2> QED
    BY <1>2, <1>4, <2>3, <2>5
<1>5. of(pairPosts, "pair") \subseteq Everything(pl, w)
  BY <1>3
<1>6. \A c \in others : of(segmentPosts(c), <<Segment[c], c>>) \subseteq Everything(pl, w)
  BY <1>4
<1> HIDE DEF of, pairPosts, segmentPosts, others
<1> QED
  BY <1>1, <1>5, <1>6

\* A check of more candidates releases what a check of fewer released.
LEMMA CheckIsMonotone ==
  ASSUME NEW A, NEW B, IsFiniteSet(B), A \subseteq B, NEW p75,
         Check(A, p75).status = "pattern_released"
  PROVE  Check(B, p75).status = "pattern_released" /\ Check(A, p75).supporting \subseteq A
<1> DEFINE above(S) == {c \in S : AtLeast(c.er, p75)}
           keys(S) == {c.key : c \in above(S)}
<1>1. p75 # None
  BY DEF Check
<1>2. \A S : Check(S, p75) =
        [status |-> IF Cardinality(above(S)) >= MinPosts /\ Cardinality(keys(S)) >= MinDistinct
                    THEN "pattern_released" ELSE "no_pattern",
         supporting |-> above(S), keys |-> keys(S)]
  BY <1>1 DEF Check
<1> DEFINE enough(S) == Cardinality(above(S)) >= MinPosts /\ Cardinality(keys(S)) >= MinDistinct
<1>2a. \A S : /\ Check(S, p75).status = "pattern_released" <=> enough(S)
             /\ Check(S, p75).supporting = above(S)
  <2> HIDE DEF above, keys
  <2> QED
    BY <1>2
<1>3. enough(A)
  <2> HIDE DEF enough
  <2> QED
    BY <1>2a
<1>4. above(A) \subseteq above(B) /\ IsFiniteSet(above(B)) /\ keys(A) \subseteq keys(B)
  BY SubsetIsSmaller
<1>5. IsFiniteSet(keys(B))
  <2> DEFINE f == [c \in above(B) |-> c.key]
  <2>1. keys(B) = {f[c] : c \in above(B)}
    OBVIOUS
  <2> HIDE DEF f, above
  <2>2. IsFiniteSet({f[c] : c \in above(B)})
    BY <1>4, FiniteImage
  <2> QED
    BY <2>1, <2>2
<1>6. /\ Cardinality(above(A)) <= Cardinality(above(B)) /\ Cardinality(keys(A)) <= Cardinality(keys(B))
      /\ {Cardinality(above(A)), Cardinality(above(B)), Cardinality(keys(A)), Cardinality(keys(B))}
           \subseteq Nat
  <2> HIDE DEF above, keys
  <2> QED
    BY <1>4, <1>5, SubsetIsSmaller
<1>7. enough(B)
  <2> HIDE DEF above, keys
  <2> QED
    BY <1>3, <1>6, EvidenceAssumption
<1>8. above(A) \subseteq A
  OBVIOUS
<1> HIDE DEF enough, above
<1> QED
  BY <1>2a, <1>7, <1>8

LEMMA PatternsAreReal == ASSUME IsFiniteSet(Posts) PROVE NoFalsePattern
<1> SUFFICES ASSUME NEW pl \in Platforms,
                    Evidence(today).platforms[pl].status = "pattern_released"
             PROVE  LET all == Everything(pl, Week(today))
                    IN  /\ Check(all, Quartile(pl, Week(today))).status = "pattern_released"
                        /\ Evidence(today).platforms[pl].supporting \subseteq all
  BY DEF NoFalsePattern, Everything, SourceOf, PublishedIn
<1> DEFINE w == Week(today)
           found == WeekPosts(pl, w, today)
<1>1. Evidence(today).platforms[pl] = Check(found, Quartile(pl, w))
  BY DEF Evidence
<1>2. found \subseteq Everything(pl, w)
  BY WeekPostsAreEverybodys
<1>3. IsFiniteSet(Everything(pl, w))
  <2> DEFINE f == [p \in PublishedIn(pl, w) |-> Candidate(p, SourceOf(p))]
  <2>1. IsFiniteSet(PublishedIn(pl, w))
    BY SubsetIsSmaller DEF PublishedIn, Stored
  <2>2. Everything(pl, w) = {f[p] : p \in PublishedIn(pl, w)}
    BY DEF Everything
  <2> HIDE DEF f
  <2> QED
    BY <2>1, <2>2, FiniteImage
<1> HIDE DEF found, w
<1>4. Check(Everything(pl, w), Quartile(pl, w)).status = "pattern_released"
        /\ Check(found, Quartile(pl, w)).supporting \subseteq found
  BY <1>1, <1>2, <1>3, CheckIsMonotone
<1> QED
  BY <1>1, <1>2, <1>4 DEF w

\* A pattern the weekly briefings release is one of all posts published in the week, whatever the
\* stored lists leave out, for every pair, segment, window and threshold ("it can miss a real
\* pattern but never make up one", weekly_briefing_evidence.py).
THEOREM EvidenceIsNeverMadeUp ==
  ASSUME IsFiniteSet(Posts)
  PROVE  PatternsSpec => []NoFalsePattern
BY PatternsAreReal, PTL

-------------------------------------------------------------------------------
(* The pattern report *)

\* Two contexts measure the posts alike.
SameFigures(a, b) ==
    /\ a.usable = b.usable /\ a.channels = b.channels
    /\ a.hits = b.hits /\ a.lift = b.lift /\ a.activation = b.activation

\* A report looks at nothing else of its context, but for the number of posts it says.
LEMMA ReportOfSameFigures ==
  ASSUME NEW a, NEW b, SameFigures(a, b), NEW class
  PROVE  [ReportIn(a, class) EXCEPT !.posts_in_window = 0]
           = [ReportIn(b, class) EXCEPT !.posts_in_window = 0]
<1> DEFINE U == {p \in a.usable : class = None \/ FormatClass(p) = class}
           dims == IF class = None THEN Dimensions ELSE Dimensions \ {"format_class"}
           cells(ctx) == UNION {Cells(ctx, U, d, LAMBDA p : ValueOf(d, p)) : d \in dims}
           known == Cardinality({p \in U : post[p].analysis # None /\ Extract("format", p) # None})
           covered(ctx) == IF U = {} THEN 0 ELSE Cardinality(ctx.channels)
           report(n, ctx) == [posts_in_window |-> n, posts_with_baseline |-> Cardinality(U),
                              channels_covered |-> covered(ctx), analysed |-> known,
                              cells |-> cells(ctx)]
<1>1. ReportIn(a, class) = report(a.posts_in_window, a)
  BY DEF ReportIn, Summary
<1>2. ReportIn(b, class) = report(b.posts_in_window, b)
  BY DEF ReportIn, Summary, SameFigures
<1>3. cells(a) = cells(b)
  BY DEF Cells, Cell, CellOver, SameFigures, MarketNote, Expected, ReferenceRate, HitRate
<1>4. covered(a) = covered(b)
  BY DEF SameFigures
<1> HIDE DEF cells, covered, known, U
<1>5. \A n, ctx : [report(n, ctx) EXCEPT !.posts_in_window = 0] = report(0, ctx)
  OBVIOUS
<1>6. report(0, a) = report(0, b)
  BY <1>3, <1>4
<1> HIDE DEF report
<1> QED
  BY <1>1, <1>2, <1>5, <1>6

LEMMA ContextOfMeasured ==
  ASSUME NEW P, NEW Q, NEW m, NEW now,
         {p \in Windowed(P, m, now) : Measurable(p)} = {p \in Windowed(Q, m, now) : Measurable(p)}
  PROVE  SameFigures(Context(P, m, now), Context(Q, m, now))
BY DEF Context, SameFigures

LEMMA ViewlessPostsAreInert == ViewlessInert
<1> DEFINE viewed == {p \in Stored : post[p].views > 0}
<1>1. ASSUME NEW m, NEW class
      PROVE  [Report(m, class, today) EXCEPT !.posts_in_window = 0]
               = [ReportOf(viewed, m, class, today) EXCEPT !.posts_in_window = 0]
  <2>1. {p \in Windowed(Stored, m, today) : Measurable(p)}
          = {p \in Windowed(viewed, m, today) : Measurable(p)}
    BY DEF Windowed, Measurable
  <2>2. SameFigures(Context(Stored, m, today), Context(viewed, m, today))
    BY <2>1, ContextOfMeasured
  <2> HIDE DEF viewed
  <2> QED
    BY <2>2, ReportOfSameFigures DEF Report, ReportOf
<1> QED
  BY <1>1 DEF ViewlessInert

\* Posts without views change no baseline, lift, rate, expected rate or verdict of any report, for
\* every table of posts, market and format class: only the number of posts in the window.
THEOREM ViewlessPostsChangeNothing == PatternsSpec => []ViewlessInert
BY ViewlessPostsAreInert, PTL

-------------------------------------------------------------------------------
(* The track record of the advice *)

\* A bounded set of numbers has a largest one.
LEMMA LargestNumber ==
  ASSUME NEW n \in Nat, NEW K \in SUBSET (0..n), K # {}
  PROVE  Max(K) \in K /\ \A k \in K : Max(K) >= k
<1> DEFINE T == {m \in Nat : n - m \in K}
<1>1. T # {}
  <2>1. PICK k \in K : TRUE
    OBVIOUS
  <2>2. n - k \in T
    BY <2>1
  <2> QED
    BY <2>2
<1>2. IsWellFoundedOn(OpToRel(<, Nat), Nat)
  BY NatLessThanWellFounded
<1>3. PICK x \in T : \A y \in T : <<y, x>> \notin OpToRel(<, Nat)
  <2>1. T \subseteq Nat
    OBVIOUS
  <2> HIDE DEF T
  <2> QED
    BY <1>1, <1>2, <2>1, WFMin
<1>4. \A y \in T : ~(y < x)
  BY <1>3 DEF OpToRel
<1>5. n - x \in K /\ \A k \in K : n - x >= k
  <2>1. ASSUME NEW k \in K PROVE n - x >= k
    <3>1. n - k \in T
      OBVIOUS
    <3> QED
      BY <1>4, <3>1
  <2> QED
    BY <2>1
<1> QED
  BY <1>5 DEF Max

\* Each feature has one cell for each of its values.
OneCellPerName(cells) == \A x, y \in cells : NameOf(x) = NameOf(y) => x = y

LEMMA DimensionsFinite == IsFiniteSet(Dimensions)
<1>1. PICK n \in Int : n = 12
  OBVIOUS
<1>2. IsFiniteSet(1..n)
  BY FS_Interval
<1> DEFINE f == <<"format", "lifecycle_stage", "cover_titel", "cover_kinetik", "music_kind",
                  "caption_frage", "caption_cta", "caption_laenge", "caption_hashtags",
                  "format_class", "duration_bucket", "genre">>
<1>3. Dimensions = {f[i] : i \in 1..n}
  BY <1>1 DEF Dimensions, ModelDims, CoverDims, LookDims
<1> HIDE DEF f
<1>4. IsFiniteSet({f[i] : i \in 1..n})
  BY <1>2, FiniteImage
<1> QED
  BY <1>3, <1>4

LEMMA CellsOfReport ==
  ASSUME IsFiniteSet(Posts), NEW m, NEW now
  PROVE  LET cells == Report(m, None, now).cells
         IN  IsFiniteSet(cells) /\ OneCellPerName(cells)
<1> DEFINE ctx == Context(Stored, m, now)
           U == {p \in ctx.usable : None = None \/ FormatClass(p) = None}
           values(d) == {ValueOf(d, p) : p \in U} \ {None}
           cell(d, v) == Cell(ctx, U, d, v, {p \in U : ValueOf(d, p) = v})
           cells == UNION {{cell(d, v) : v \in values(d)} : d \in Dimensions}
<1>1. Report(m, None, now).cells = cells
  BY DEF Report, ReportOf, ReportIn, Summary, Cells
<1>2. IsFiniteSet(U)
  <2>1. ctx.usable \subseteq Posts
    BY DEF Context, Windowed, Stored
  <2> QED
    BY <2>1, SubsetIsSmaller
<1>3. \A d, v : cell(d, v).dim = d /\ cell(d, v).value = v
  BY DEF Cell, CellOver
<1> HIDE DEF ctx, U, cell
<1>4. \A d \in Dimensions : IsFiniteSet({cell(d, v) : v \in values(d)})
  <2> TAKE d \in Dimensions
  <2> DEFINE g == [p \in U |-> ValueOf(d, p)]
             h == [v \in values(d) |-> cell(d, v)]
  <2>1. {ValueOf(d, p) : p \in U} = {g[p] : p \in U}
    OBVIOUS
  <2>2. IsFiniteSet({g[p] : p \in U})
    <3> HIDE DEF g
    <3> QED
      BY <1>2, FiniteImage
  <2>3. IsFiniteSet(values(d))
    BY <2>1, <2>2, SubsetIsSmaller
  <2>4. {cell(d, v) : v \in values(d)} = {h[v] : v \in values(d)}
    OBVIOUS
  <2> HIDE DEF values, h
  <2>5. IsFiniteSet({h[v] : v \in values(d)})
    BY <2>3, FiniteImage
  <2> QED
    BY <2>4, <2>5
<1>5. IsFiniteSet(cells)
  <2> DEFINE of == [d \in Dimensions |-> {cell(d, v) : v \in values(d)}]
  <2>1. cells = UNION {of[d] : d \in Dimensions}
    OBVIOUS
  <2>2. \A T \in {of[d] : d \in Dimensions} : IsFiniteSet(T)
    BY <1>4
  <2> HIDE DEF of
  <2>3. IsFiniteSet({of[d] : d \in Dimensions})
    BY DimensionsFinite, FiniteImage
  <2> HIDE DEF cells
  <2> QED
    BY <2>1, <2>2, <2>3, FS_UNION
<1>6. OneCellPerName(cells)
  <2> SUFFICES ASSUME NEW x \in cells, NEW y \in cells, NameOf(x) = NameOf(y) PROVE x = y
    BY DEF OneCellPerName
  <2>1. PICK d \in Dimensions : \E v \in values(d) : x = cell(d, v)
    OBVIOUS
  <2>2. PICK e \in Dimensions : \E w \in values(e) : y = cell(e, w)
    OBVIOUS
  <2>3. x.dim = y.dim /\ x.value = y.value
    BY DEF NameOf
  <2> QED
    BY <1>3, <2>1, <2>2, <2>3
<1> QED
  BY <1>1, <1>5, <1>6

\* None is not a number of weeks.
NoneIsNoCount == None \notin Nat

\* A history as PatternsPage and Proven see it: some of this week and the two before it.
HistoryOf(h, W) == DOMAIN h \subseteq {W, W - 1, W - 2}

LEMMA HistoriesAreSo ==
  ASSUME NEW cells, NEW before, NEW h \in Histories(cells, before), Week(today) \in Int
  PROVE  HistoryOf(h, Week(today))
<1> DEFINE rows == {{}, SnapshotRow(cells), OldRow(cells), SnapshotRow(before)}
           weeks == Week(today) - 2..Week(today)
<1>1. h \in UNION {[S -> rows] : S \in SUBSET weeks}
  BY DEF Histories
<1> HIDE DEF rows
<1>2. DOMAIN h \subseteq weeks
  BY <1>1
<1> QED
  BY <1>2 DEF HistoryOf

\* How long a finding of advice has lasted: the weeks before this one that gave it, one after the
\* other, as far as the search goes back.
LEMMA StreakOf ==
  ASSUME NEW h, NEW W \in Int, NEW x, x.breakout_verdict = "over", Has(h, W - 1)
  PROVE  \E k \in 0..HistoryWeeks :
           /\ WeeksInARow(h, W, x) = 1 + k
           /\ \A i \in 1..k : Has(h, W - i) /\ NameOf(x) \in OverOf(h[W - i])
           /\ HistoryWeeks > 0 => (k > 0 <=> NameOf(x) \in OverOf(h[W - 1]))
<1> DEFINE K == {k \in 0..HistoryWeeks : \A i \in 1..k : Carries(h, W - i, x)}
<1>1. HistoryWeeks \in Nat
  BY AdviceAssumption
<1>2. 0 \in K
  BY <1>1
<1>3. Max(K) \in K /\ \A k \in K : Max(K) >= k
  <2>1. K \in SUBSET (0..HistoryWeeks) /\ K # {}
    BY <1>2
  <2> HIDE DEF K
  <2> QED
    BY <1>1, <2>1, LargestNumber
<1>4. WeeksInARow(h, W, x) = 1 + Max(K)
  BY DEF WeeksInARow
<1>4a. \A k : k \in K <=> k \in 0..HistoryWeeks /\ \A i \in 1..k : Carries(h, W - i, x)
  OBVIOUS
<1> HIDE DEF K
<1>5. \A i : Carries(h, W - i, x) <=> Has(h, W - i) /\ NameOf(x) \in OverOf(h[W - i])
  BY DEF Carries
<1> DEFINE k == Max(K)
<1>6. k \in 0..HistoryWeeks /\ \A i \in 1..k : Carries(h, W - i, x)
  BY <1>3, <1>4a
<1>7. ASSUME HistoryWeeks > 0, NameOf(x) \in OverOf(h[W - 1]) PROVE k > 0
  <2>1. Carries(h, W - 1, x)
    BY <1>5, <1>7
  <2>2. 1 \in 0..HistoryWeeks /\ \A i \in 1..1 : i = 1
    BY <1>1, <1>7
  <2>3. 1 \in K
    BY <2>1, <2>2, <1>4a
  <2> QED
    BY <1>3, <1>6, <2>3
<1>8. ASSUME k > 0 PROVE NameOf(x) \in OverOf(h[W - 1])
  <2>1. 1 \in 1..k
    BY <1>1, <1>6, <1>8
  <2>2. Carries(h, W - 1, x)
    BY <1>6, <2>1
  <2> QED
    BY <1>5, <2>2
<1> HIDE DEF k
<1> QED
  BY <1>4, <1>5, <1>6, <1>7, <1>8 DEF k


\* The pairs of weeks a history knows are among the two before today's.
Pairs(h) == {u \in DOMAIN h : Has(h, u + 1) /\ OverOf(h[u]) # {}}
Later(h, w) == {v \in Pairs(h) : v > w}

LEMMA LatePairs ==
  ASSUME NEW W \in Int, NEW h, HistoryOf(h, W), NEW w \in Int
  PROVE  /\ IsFiniteSet(Later(h, w)) /\ Cardinality(Later(h, w)) \in Nat
         /\ w < W => Cardinality(Later(h, w)) <= W - 1 - w
<1> DEFINE later == Later(h, w)
<1>1. later \in SUBSET ((w + 1)..(W - 1))
  BY DEF HistoryOf, Has, Later, Pairs
<1>2. /\ IsFiniteSet((w + 1)..(W - 1))
      /\ Cardinality((w + 1)..(W - 1)) = IF w + 1 > W - 1 THEN 0 ELSE (W - 1) - (w + 1) + 1
  BY FS_Interval
<1> HIDE DEF later
<1>3. IsFiniteSet(later) /\ Cardinality(later) <= Cardinality((w + 1)..(W - 1))
  BY <1>1, <1>2, FS_Subset
<1>4. Cardinality(later) \in Nat
  BY <1>3, FS_CardinalityType
<1>5. w < W => Cardinality(later) <= W - 1 - w
  BY <1>2, <1>3, <1>4
<1> QED
  BY <1>3, <1>4, <1>5 DEF later

\* The n-th week in a row: each of the weeks before it that is over was confirmed in the next.
LEMMA StreakIsProven ==
  ASSUME NEW W \in Int, NEW h, HistoryOf(h, W), NEW x, x.breakout_verdict = "over",
         WeeksInARow(h, W, x) # None, NEW i \in 2..WeeksInARow(h, W, x) - 1
  PROVE  LET record == Proven(h)
         IN  W - i \in DOMAIN record /\ NameOf(x) \in record[W - i].confirmed
<1> DEFINE w == W - i
<1>1. Has(h, W - 1)
  BY DEF WeeksInARow
<1>2. PICK k \in 0..HistoryWeeks :
        /\ WeeksInARow(h, W, x) = 1 + k
        /\ \A j \in 1..k : Has(h, W - j) /\ NameOf(x) \in OverOf(h[W - j])
  BY <1>1, StreakOf
<1>3. HistoryWeeks \in Nat /\ k \in Nat /\ k <= HistoryWeeks
  BY AdviceAssumption
<1>4. i \in Nat /\ i <= k /\ i >= 2 /\ w \in Int /\ w < W /\ w + 1 = W - (i - 1)
  BY <1>2, <1>3
<1>5. /\ Has(h, w) /\ NameOf(x) \in OverOf(h[w])
      /\ Has(h, w + 1) /\ NameOf(x) \in OverOf(h[w + 1])
  <2>1. i \in 1..k /\ i - 1 \in 1..k
    BY <1>3, <1>4
  <2> QED
    BY <1>2, <1>4, <2>1
<1>6. Cardinality(Later(h, w)) < HistoryWeeks
  <2>1. /\ Cardinality(Later(h, w)) \in Nat
        /\ Cardinality(Later(h, w)) <= W - 1 - w
    BY <1>4, LatePairs
  <2>2. W - 1 - w = i - 1
    BY <1>4
  <2> QED
    BY <1>3, <1>4, <2>1, <2>2
<1>7. w \in ProvenWeeks(h)
  BY <1>5, <1>6 DEF ProvenWeeks, Has, Later, Pairs
<1>8. DOMAIN Proven(h) = ProvenWeeks(h)
      /\ Proven(h)[w].confirmed = OverOf(h[w]) \cap OverOf(h[w + 1])
  BY <1>7 DEF Proven
<1> QED
  BY <1>5, <1>7, <1>8

\* What lasts is last week's advice; the row of this week says which of it the record confirms.
LEMMA LastingIsAdvised ==
  ASSUME NoneIsNoCount, NEW W \in Int, NEW h, HistoryOf(h, W), NEW adv,
         \A x \in adv : x.breakout_verdict = "over", W - 1 \in DOMAIN Proven(h)
  PROVE  LET lasting == {NameOf(x) : x \in {y \in adv : WeeksInARow(h, W, y) \notin {None, 1}}}
             live == {NameOf(x) : x \in adv}
         IN  /\ lasting = Proven(h)[W - 1].advised \cap live
             /\ lasting \cap OverOf(h[W]) = Proven(h)[W - 1].confirmed \cap live
<1>1. /\ W - 1 \in ProvenWeeks(h) /\ Proven(h)[W - 1].advised = OverOf(h[W - 1])
      /\ Proven(h)[W - 1].confirmed = OverOf(h[W - 1]) \cap OverOf(h[W])
  BY DEF Proven
<1>2. Has(h, W - 1) /\ Cardinality(Later(h, W - 1)) < HistoryWeeks
  BY <1>1 DEF ProvenWeeks, Has, Later, Pairs
<1>3. HistoryWeeks \in Nat /\ HistoryWeeks > 0
  <2>1. Cardinality(Later(h, W - 1)) \in Nat
    BY LatePairs
  <2> QED
    BY <1>2, <2>1, AdviceAssumption
<1>4. ASSUME NEW x \in adv
      PROVE  WeeksInARow(h, W, x) \notin {None, 1} <=> NameOf(x) \in OverOf(h[W - 1])
  <2>1. PICK k \in 0..HistoryWeeks : WeeksInARow(h, W, x) = 1 + k
                                     /\ (k > 0 <=> NameOf(x) \in OverOf(h[W - 1]))
    BY <1>2, <1>3, StreakOf
  <2>2. k \in Nat /\ 1 + k \in Nat /\ None \notin Nat
    BY <1>3 DEF NoneIsNoCount
  <2> QED
    BY <2>1, <2>2
<1> DEFINE lasting == {NameOf(x) : x \in {y \in adv : WeeksInARow(h, W, y) \notin {None, 1}}}
           live == {NameOf(x) : x \in adv}
<1>5. \A n : n \in lasting <=> n \in live /\ n \in OverOf(h[W - 1])
  BY <1>4
<1> HIDE DEF lasting, live
<1>6. /\ lasting = OverOf(h[W - 1]) \cap live
      /\ lasting \cap OverOf(h[W]) = (OverOf(h[W - 1]) \cap OverOf(h[W])) \cap live
  BY <1>5
<1> QED
  BY <1>1, <1>6 DEF lasting, live

LEMMA StreaksOfAReport ==
  ASSUME NoneIsNoCount, today \in Int
  PROVE  StreaksAreProven
<1> DEFINE cells == Report(None, None, today).cells
           before == Report(None, None, today - WeekDays).cells
           W == Week(today)
           adv == With(cells, {"over"})
           lines(h) == PatternsPage(h, None, adv, before)
           lasting(h) == {l \in lines(h) : l.weeks \notin {None, 1}}
           names(L) == {NameOf(l.cell) : l \in L}
<1>1. W \in Int /\ \A x \in adv : x.breakout_verdict = "over"
  BY FiguresAssumption DEF Week, With
<1> HIDE DEF cells, before, adv
<1>2. ASSUME NEW h \in Histories(cells, before)
      PROVE  /\ \A l \in lines(h) : l.weeks # None =>
                  \A i \in 2..l.weeks - 1 :
                    /\ W - i \in DOMAIN Proven(h)
                    /\ NameOf(l.cell) \in Proven(h)[W - i].confirmed
             /\ W - 1 \in DOMAIN Proven(h) =>
                  /\ names(lasting(h)) = Proven(h)[W - 1].advised \cap names(lines(h))
                  /\ names(lasting(h)) \cap OverOf(h[W])
                       = Proven(h)[W - 1].confirmed \cap names(lines(h))
  <2>1. HistoryOf(h, W)
    BY <1>1, HistoriesAreSo
  <2> DEFINE trend == [x \in adv |-> Trend(before, x)]
  <2>2. lines(h) = {[cell |-> x, trend |-> trend[x], weeks |-> WeeksInARow(h, W, x)] : x \in adv}
    BY DEF PatternsPage
  <2> HIDE DEF lines, W, trend
  <2>3. ASSUME NEW l \in lines(h), l.weeks # None, NEW i \in 2..l.weeks - 1
        PROVE  /\ W - i \in DOMAIN Proven(h)
               /\ NameOf(l.cell) \in Proven(h)[W - i].confirmed
    <3>1. PICK x \in adv : l = [cell |-> x, trend |-> trend[x], weeks |-> WeeksInARow(h, W, x)]
      BY <2>2
    <3>2. l.cell = x /\ l.weeks = WeeksInARow(h, W, x) /\ x.breakout_verdict = "over"
      BY <1>1, <3>1
    <3> QED
      BY <1>1, <2>1, <2>3, <3>2, StreakIsProven
  <2>4. /\ names(lines(h)) = {NameOf(x) : x \in adv}
        /\ names(lasting(h)) = {NameOf(x) : x \in {y \in adv : WeeksInARow(h, W, y) \notin {None, 1}}}
    <3> DEFINE line == [x \in adv |-> [cell |-> x, trend |-> trend[x], weeks |-> WeeksInARow(h, W, x)]]
               L == lines(h)
    <3>1. \A x \in adv : line[x].cell = x /\ line[x].weeks = WeeksInARow(h, W, x)
      OBVIOUS
    <3>2. L = {line[x] : x \in adv}
      BY <2>2
    <3> HIDE DEF line, L
    <3>3. \A n : n \in {NameOf(l.cell) : l \in L} <=> \E x \in adv : n = NameOf(x)
      BY <3>1, <3>2
    <3>4. \A n : n \in {NameOf(l.cell) : l \in {k \in L : k.weeks \notin {None, 1}}} <=>
             \E x \in adv : WeeksInARow(h, W, x) \notin {None, 1} /\ n = NameOf(x)
      BY <3>1, <3>2
    <3>5. /\ names(lines(h)) = {NameOf(l.cell) : l \in L}
          /\ names(lasting(h)) = {NameOf(l.cell) : l \in {k \in L : k.weeks \notin {None, 1}}}
      BY DEF L
    <3>6. {NameOf(l.cell) : l \in L} = {NameOf(x) : x \in adv}
      BY <3>3
    <3>7. {NameOf(l.cell) : l \in {k \in L : k.weeks \notin {None, 1}}}
            = {NameOf(x) : x \in {y \in adv : WeeksInARow(h, W, y) \notin {None, 1}}}
      <4>1. \A n : n \in {NameOf(x) : x \in {y \in adv : WeeksInARow(h, W, y) \notin {None, 1}}} <=>
              \E x \in adv : WeeksInARow(h, W, x) \notin {None, 1} /\ n = NameOf(x)
        OBVIOUS
      <4> QED
        BY <3>4, <4>1
    <3> HIDE DEF names, lasting
    <3> QED
      BY <3>5, <3>6, <3>7
  <2>5. W - 1 \in DOMAIN Proven(h) =>
          LET last == {NameOf(x) : x \in {y \in adv : WeeksInARow(h, W, y) \notin {None, 1}}}
              live == {NameOf(x) : x \in adv}
          IN  /\ last = Proven(h)[W - 1].advised \cap live
              /\ last \cap OverOf(h[W]) = Proven(h)[W - 1].confirmed \cap live
    BY <1>1, <2>1, LastingIsAdvised
  <2> HIDE DEF names, lasting
  <2> QED
    BY <2>3, <2>4, <2>5
<1> QED
  BY <1>2 DEF StreaksAreProven, cells, before, adv

\* The weeks in a row of an advice are those of the snapshots, and all but the latest are confirmed
\* in the track record; which of last week's advice still lasts is what the live report and last
\* week's row say, and which of it is confirmed is what the frozen row of this week says: for
\* every table of posts, and whatever of the three weeks is kept, missing, of the old format or
\* frozen before the table changed.
THEOREM StreaksStandInTheRecord ==
  ASSUME NoneIsNoCount
  PROVE  PatternsSpec => []StreaksAreProven
<1>1. TableInit => today \in Int
  BY DEF TableInit
<1>2. today \in Int /\ [PatternsNext]_tableVars => (today \in Int)'
  <2>1. [PatternsNext]_tableVars => today' = today \/ today' = today + 1
    <3>1. CASE UNCHANGED tableVars
      BY <3>1 DEF tableVars
    <3>2. CASE NextDay
      BY <3>2 DEF NextDay
    <3>3. CASE TableNext
      BY <3>3 DEF TableNext, Scrape, Classify, MakeAsset, Describe, AssignTitle, Review
    <3> QED
      BY <3>1, <3>2, <3>3 DEF PatternsNext
  <2> QED
    BY <2>1
<1>3. today \in Int => StreaksAreProven
  BY StreaksOfAReport
<1> QED
  BY <1>1, <1>2, <1>3, PTL DEF PatternsSpec

-------------------------------------------------------------------------------
(* Sums of quotients.  A fold takes the elements of a set in an order of its own; Plus gives *)
(* the same sum in every order, numerator and denominator.                                  *)

\* What holds of a set when it holds of all smaller ones, holds of all.
LEMMA SubsetInduction ==
  ASSUME NEW S, IsFiniteSet(S), NEW Good,
         \A T \in SUBSET S : (\A U \in SUBSET T : U # T => U \in Good) => T \in Good
  PROVE  S \in Good
<1> DEFINE Bad == (SUBSET S) \ Good
<1> SUFFICES ASSUME Bad # {} PROVE FALSE
  OBVIOUS
<1>1. IsWellFoundedOn(StrictSubsetOrdering(S), FiniteSubsetsOf(S)) /\ FiniteSubsetsOf(S) = SUBSET S
  BY FS_StrictSubsetOrderingWellFounded, FS_FiniteSubsetsOfFinite
<1>2. PICK T \in Bad : \A U \in Bad : <<U, T>> \notin StrictSubsetOrdering(S)
  <2>1. Bad \subseteq FiniteSubsetsOf(S)
    BY <1>1
  <2> HIDE DEF Bad
  <2> QED
    BY <1>1, <2>1, WFMin
<1>3. ASSUME NEW U \in SUBSET T, U # T PROVE U \in Good
  <2>1. U \in SUBSET S /\ (U \in Bad => <<U, T>> \in StrictSubsetOrdering(S))
    BY <1>3 DEF StrictSubsetOrdering
  <2> QED
    BY <1>2, <2>1
<1> QED
  BY <1>3

Fractions == Int \X (Nat \ {0})

LEMMA PlusIsFair ==
  ASSUME NEW x \in Fractions, NEW y \in Fractions, NEW z \in Fractions
  PROVE  /\ Plus(x, y) \in Fractions /\ Plus(x, y) = Plus(y, x)
         /\ Plus(x, Plus(y, z)) = Plus(Plus(x, y), z)
         /\ Plus(x, <<0, 1>>) = x
<1>1. PICK a \in Int, b \in Nat \ {0} : x = <<a, b>>
  BY DEF Fractions
<1>2. PICK c \in Int, d \in Nat \ {0} : y = <<c, d>>
  BY DEF Fractions
<1>3. PICK e \in Int, f \in Nat \ {0} : z = <<e, f>>
  BY DEF Fractions
<1>4. b * d \in Nat \ {0} /\ a * d + c * b \in Int
  OBVIOUS
<1>5. Plus(x, y) = <<a * d + c * b, b * d>> /\ Plus(y, x) = <<c * b + a * d, d * b>>
      /\ Plus(y, z) = <<c * f + e * d, d * f>>
  BY <1>1, <1>2, <1>3 DEF Plus
<1>6. a * (d * f) + (c * f + e * d) * b = (a * d + c * b) * f + e * (b * d)
      /\ b * (d * f) = (b * d) * f
  OBVIOUS
<1>7. /\ Plus(x, Plus(y, z)) = <<a * (d * f) + (c * f + e * d) * b, b * (d * f)>>
      /\ Plus(Plus(x, y), z) = <<(a * d + c * b) * f + e * (b * d), (b * d) * f>>
  BY <1>1, <1>3, <1>5 DEF Plus
<1>8. Plus(x, <<0, 1>>) = x
  BY <1>1 DEF Plus
<1> QED
  BY <1>4, <1>5, <1>6, <1>7, <1>8 DEF Fractions

One(s) == CHOOSE x \in s : TRUE
IsSums(g, q, T) ==
    g = [s \in SUBSET T |-> IF s = {} THEN <<0, 1>> ELSE Plus(q[One(s)], g[s \ {One(s)}])]
SumOver(q, T) == (CHOOSE g : IsSums(g, q, T))[T]

LEMMA OneIsIn == ASSUME NEW s, s # {} PROVE One(s) \in s
BY DEF One

\* Sums depend on what is added only.
LEMMA SumsAgree ==
  ASSUME NEW g, NEW q, NEW T, IsSums(g, q, T), NEW h, NEW r, NEW U, IsSums(h, r, U),
         NEW S \in (SUBSET T) \cap (SUBSET U), IsFiniteSet(S), \A x \in S : q[x] = r[x]
  PROVE  g[S] = h[S]
<1> DEFINE Good == {V \in SUBSET S : g[V] = h[V]}
<1>1. ASSUME NEW V \in SUBSET S, \A W \in SUBSET V : W # V => W \in Good PROVE V \in Good
  <2>1. CASE V = {}
    BY <2>1 DEF IsSums
  <2>2. CASE V # {}
    <3>1. One(V) \in V /\ V \ {One(V)} \in SUBSET V /\ V \ {One(V)} # V
      BY <2>2, OneIsIn
    <3>2. g[V \ {One(V)}] = h[V \ {One(V)}] /\ q[One(V)] = r[One(V)]
      BY <1>1, <3>1
    <3>3. g[V] = Plus(q[One(V)], g[V \ {One(V)}]) /\ h[V] = Plus(r[One(V)], h[V \ {One(V)}])
      BY <2>2 DEF IsSums
    <3> QED
      BY <3>2, <3>3
  <2> QED
    BY <2>1, <2>2
<1>2. S \in Good
  <2> HIDE DEF Good
  <2> QED
    BY <1>1, SubsetInduction
<1> QED
  BY <1>2

LEMMA SumsExist ==
  ASSUME NEW q, NEW T, IsFiniteSet(T)
  PROVE  \E g : IsSums(g, q, T)
<1> DEFINE Good == {V \in SUBSET T : \E g : IsSums(g, q, V)}
<1>1. ASSUME NEW V \in SUBSET T, \A W \in SUBSET V : W # V => W \in Good PROVE V \in Good
  <2> DEFINE G(W) == CHOOSE g : IsSums(g, q, W)
             rest(s) == s \ {One(s)}
             f == [s \in SUBSET V |-> IF s = {} THEN <<0, 1>> ELSE Plus(q[One(s)], G(rest(s))[rest(s)])]
  <2>1. \A s \in SUBSET V : s # {} => rest(s) \in SUBSET V /\ rest(s) # V /\ rest(s) \subseteq s
                                      /\ One(s) \in s
    BY OneIsIn
  <2>2. ASSUME NEW W \in SUBSET V, W # V PROVE IsSums(G(W), q, W)
    <3>1. \E g : IsSums(g, q, W)
      BY <1>1, <2>2
    <3> HIDE DEF IsSums
    <3> QED
      BY <3>1
  <2>3. ASSUME NEW s \in SUBSET V, s # {} PROVE f[rest(s)] = G(rest(s))[rest(s)]
    <3> DEFINE W == rest(s)
    <3>0. W \in SUBSET V /\ W # V /\ IsSums(G(W), q, W)
      BY <2>1, <2>2, <2>3
    <3>1. CASE W = {}
      BY <3>0, <3>1 DEF IsSums
    <3>2. CASE W # {}
      <4>1. rest(W) \in SUBSET V /\ rest(W) # V /\ rest(W) \subseteq W
        BY <2>1, <3>0, <3>2
      <4>2. IsSums(G(rest(W)), q, rest(W))
        BY <2>2, <4>1
      <4>3. IsFiniteSet(rest(W))
        BY <4>1, SubsetIsSmaller
      <4>4. G(W)[rest(W)] = G(rest(W))[rest(W)]
        <5> HIDE DEF G, W, rest
        <5> QED
          BY <3>0, <4>1, <4>2, <4>3, SumsAgree
      <4>5. f[W] = Plus(q[One(W)], G(rest(W))[rest(W)])
        <5> HIDE DEF G
        <5> QED
          BY <3>0, <3>2
      <4>6. G(W)[W] = Plus(q[One(W)], G(W)[rest(W)])
        <5> HIDE DEF G
        <5> QED
          BY <3>0, <3>2 DEF IsSums
      <4> QED
        BY <4>4, <4>5, <4>6
    <3> QED
      BY <3>1, <3>2
  <2>4. IsSums(f, q, V)
    <3>1. \A s \in SUBSET V : s # {} => f[rest(s)] = G(rest(s))[rest(s)]
      BY <2>3
    <3> HIDE DEF G
    <3> QED
      BY <3>1 DEF IsSums
  <2> HIDE DEF f
  <2> QED
    BY <2>4
<1>2. T \in Good
  <2> HIDE DEF Good
  <2> QED
    BY <1>1, SubsetInduction
<1> QED
  BY <1>2

LEMMA SumIsUnique ==
  ASSUME NEW q, NEW T, IsFiniteSet(T), NEW r, NEW U, T \subseteq U, NEW g, IsSums(g, r, U),
         \A x \in T : q[x] = r[x]
  PROVE  SumOver(q, T) = g[T]
<1>1. \E f : IsSums(f, q, T)
  BY SumsExist
<1> DEFINE f == CHOOSE f : IsSums(f, q, T)
<1>2. IsSums(f, q, T)
  <2> HIDE DEF IsSums
  <2> QED
    BY <1>1
<1> HIDE DEF f
<1>3. f[T] = g[T]
  BY <1>2, SumsAgree
<1> QED
  BY <1>3 DEF f, SumOver

LEMMA SameSum ==
  ASSUME NEW q, NEW r, NEW T, IsFiniteSet(T), \A x \in T : q[x] = r[x]
  PROVE  SumOver(q, T) = SumOver(r, T)
<1>1. PICK g : IsSums(g, r, T)
  BY SumsExist
<1>2. SumOver(q, T) = g[T] /\ SumOver(r, T) = g[T]
  BY <1>1, SumIsUnique
<1> QED
  BY <1>2

LEMMA SumStep ==
  ASSUME NEW q, NEW T, IsFiniteSet(T)
  PROVE  SumOver(q, T) = IF T = {} THEN <<0, 1>>
                         ELSE Plus(q[One(T)], SumOver(q, T \ {One(T)}))
<1>1. PICK g : IsSums(g, q, T)
  BY SumsExist
<1>2. \A S \in SUBSET T : SumOver(q, S) = g[S]
  <2> TAKE S \in SUBSET T
  <2>1. IsFiniteSet(S)
    BY SubsetIsSmaller
  <2> QED
    BY <1>1, <2>1, SumIsUnique
<1>3. T \ {One(T)} \in SUBSET T /\ T \in SUBSET T
  OBVIOUS
<1>4. g[T] = IF T = {} THEN <<0, 1>> ELSE Plus(q[One(T)], g[T \ {One(T)}])
  BY <1>1 DEF IsSums
<1> QED
  BY <1>2, <1>3, <1>4

LEMMA SumIsFraction ==
  ASSUME NEW q, NEW T, IsFiniteSet(T), \A x \in T : q[x] \in Fractions
  PROVE  SumOver(q, T) \in Fractions
<1> DEFINE Good == {S \in SUBSET T : SumOver(q, S) \in Fractions}
<1>1. ASSUME NEW S \in SUBSET T, \A U \in SUBSET S : U # S => U \in Good PROVE S \in Good
  <2>0. IsFiniteSet(S)
    BY SubsetIsSmaller
  <2>1. CASE S = {}
    BY <2>0, <2>1, SumStep DEF Fractions
  <2>2. CASE S # {}
    <3>1. One(S) \in S /\ S \ {One(S)} \in SUBSET S /\ S \ {One(S)} # S
      BY <2>2, OneIsIn
    <3>2. SumOver(q, S \ {One(S)}) \in Fractions /\ q[One(S)] \in Fractions
      BY <1>1, <3>1
    <3> QED
      BY <2>0, <2>2, <3>2, SumStep, PlusIsFair
  <2> QED
    BY <2>1, <2>2
<1>2. T \in Good
  <2> HIDE DEF Good
  <2> QED
    BY <1>1, SubsetInduction
<1> QED
  BY <1>2

LEMMA SumInAnyOrder ==
  ASSUME NEW q, NEW T, IsFiniteSet(T), \A x \in T : q[x] \in Fractions, NEW y \in T
  PROVE  SumOver(q, T) = Plus(q[y], SumOver(q, T \ {y}))
<1> DEFINE Good == {S \in SUBSET T : \A x \in S : SumOver(q, S) = Plus(q[x], SumOver(q, S \ {x}))}
<1>1. ASSUME NEW S \in SUBSET T, \A U \in SUBSET S : U # S => U \in Good PROVE S \in Good
  <2> SUFFICES ASSUME NEW x \in S PROVE SumOver(q, S) = Plus(q[x], SumOver(q, S \ {x}))
    OBVIOUS
  <2> DEFINE c == One(S)
  <2>0. /\ IsFiniteSet(S) /\ IsFiniteSet(S \ {c}) /\ IsFiniteSet(S \ {x})
        /\ IsFiniteSet((S \ {c}) \ {x}) /\ c \in S
    BY SubsetIsSmaller, OneIsIn
  <2>1. SumOver(q, S) = Plus(q[c], SumOver(q, S \ {c}))
    BY <2>0, SumStep
  <2>2. CASE x = c
    BY <2>1, <2>2
  <2>3. CASE x # c
    <3> DEFINE R == (S \ {c}) \ {x}
    <3>1. S \ {c} \in Good /\ S \ {x} \in Good /\ x \in S \ {c} /\ c \in S \ {x}
      BY <1>1, <2>0, <2>3
    <3>2. SumOver(q, S \ {c}) = Plus(q[x], SumOver(q, R))
      BY <3>1
    <3>3. (S \ {x}) \ {c} = R
      OBVIOUS
    <3>4. SumOver(q, S \ {x}) = Plus(q[c], SumOver(q, R))
      BY <3>1, <3>3
    <3>5. q[x] \in Fractions /\ q[c] \in Fractions /\ SumOver(q, R) \in Fractions
      BY <2>0, SumIsFraction
    <3> HIDE DEF R, c
    <3>6. Plus(q[c], Plus(q[x], SumOver(q, R))) = Plus(q[x], Plus(q[c], SumOver(q, R)))
      BY <3>5, PlusIsFair
    <3> QED
      BY <2>1, <3>2, <3>4, <3>6
  <2> QED
    BY <2>2, <2>3
<1>2. T \in Good
  <2> HIDE DEF Good
  <2> QED
    BY <1>1, SubsetInduction
<1> QED
  BY <1>2

\* The sum over two disjoint sets.
LEMMA SumOfTwo ==
  ASSUME NEW q, NEW A, NEW B, IsFiniteSet(A), IsFiniteSet(B), A \cap B = {},
         \A x \in A \cup B : q[x] \in Fractions
  PROVE  SumOver(q, A \cup B) = Plus(SumOver(q, A), SumOver(q, B))
<1> DEFINE Good == {S \in SUBSET A : SumOver(q, S \cup B) = Plus(SumOver(q, S), SumOver(q, B))}
<1>0. SumOver(q, B) \in Fractions
  BY SumIsFraction
<1>1. ASSUME NEW S \in SUBSET A, \A U \in SUBSET S : U # S => U \in Good PROVE S \in Good
  <2>0. IsFiniteSet(S) /\ IsFiniteSet(S \cup B)
    BY SubsetIsSmaller, FS_Union
  <2>1. CASE S = {}
    <3>1. SumOver(q, S) = <<0, 1>> /\ S \cup B = B /\ <<0, 1>> \in Fractions
      BY <2>0, <2>1, SumStep DEF Fractions
    <3>2. Plus(<<0, 1>>, SumOver(q, B)) = SumOver(q, B)
      BY <1>0, <3>1, PlusIsFair
    <3> QED
      BY <3>1, <3>2
  <2>2. CASE S # {}
    <3> DEFINE c == One(S)
               R == S \ {c}
    <3>1. c \in S /\ R \in SUBSET S /\ R # S
      BY <2>2, OneIsIn
    <3>2. SumOver(q, R \cup B) = Plus(SumOver(q, R), SumOver(q, B)) /\ IsFiniteSet(R)
      BY <1>1, <2>0, <3>1, SubsetIsSmaller
    <3>3. (S \cup B) \ {c} = R \cup B
      BY <3>1
    <3>4. SumOver(q, S \cup B) = Plus(q[c], SumOver(q, R \cup B))
      BY <2>0, <3>1, <3>3, SumInAnyOrder
    <3>5. SumOver(q, S) = Plus(q[c], SumOver(q, R))
      BY <2>0, <3>1, SumInAnyOrder
    <3>6. q[c] \in Fractions /\ SumOver(q, R) \in Fractions
      BY <3>1, <3>2, SumIsFraction
    <3> HIDE DEF R, c
    <3> QED
      BY <1>0, <3>2, <3>4, <3>5, <3>6, PlusIsFair
  <2> QED
    BY <2>1, <2>2
<1>2. A \in Good
  <2> HIDE DEF Good
  <2> QED
    BY <1>1, SubsetInduction
<1> QED
  BY <1>2

-------------------------------------------------------------------------------
(* Expected rates *)

StrataOf(S) == {Stratum(p) : p \in S}
InStratum(S, s) == {p \in S : Stratum(p) = s}
Share(ctx, U, S, s) ==
    <<Cardinality(InStratum(S, s)) * ReferenceRate(ctx, U, s)[1], ReferenceRate(ctx, U, s)[2]>>
Shares(ctx, U, S) == [s \in StrataOf(S) |-> Share(ctx, U, S, s)]

LEMMA ExpectedIsSum ==
  ASSUME NEW ctx, NEW U, NEW S, IsFiniteSet(S)
  PROVE  /\ IsFiniteSet(StrataOf(S))
         /\ Expected(ctx, U, S)
              = Over(SumOver(Shares(ctx, U, S), StrataOf(S)), <<Cardinality(S), 1>>)
<1> DEFINE T == StrataOf(S)
           q == Shares(ctx, U, S)
           R(g) == [s \in SUBSET T |->
                      IF s = {} THEN <<0, 1>>
                      ELSE Plus(Share(ctx, U, S, CHOOSE x \in s : TRUE), g[s \ {CHOOSE x \in s : TRUE}])]
           fold == CHOOSE g : g = R(g)
<1>1. IsFiniteSet(T)
  <2> DEFINE f == [p \in S |-> Stratum(p)]
  <2>1. T = {f[p] : p \in S}
    BY DEF StrataOf
  <2> HIDE DEF f, T
  <2> QED
    BY <2>1, FiniteImage
<1>2. Expected(ctx, U, S) = Over(fold[T], <<Cardinality(S), 1>>)
  BY DEF Expected, FoldSet, MapThenFoldSet, StrataOf, InStratum, Share
<1>3. ASSUME NEW g PROVE R(g) = [s \in SUBSET T |-> IF s = {} THEN <<0, 1>>
                                                 ELSE Plus(q[One(s)], g[s \ {One(s)}])]
  <2>1. \A s \in SUBSET T : s # {} => q[One(s)] = Share(ctx, U, S, One(s))
    BY OneIsIn DEF Shares
  <2> HIDE DEF T, q
  <2> QED
    BY <2>1 DEF One
<1>4. \A g : g = R(g) <=> IsSums(g, q, T)
  <2> HIDE DEF R, T, q
  <2> QED
    BY <1>3 DEF IsSums
<1>5. \E g : g = R(g)
  <2> HIDE DEF R, T, q
  <2> QED
    BY <1>1, <1>4, SumsExist
<1>6. fold = R(fold)
  <2> HIDE DEF R
  <2> QED
    BY <1>5
<1>7. SumOver(q, T) = fold[T]
  <2> HIDE DEF R, T, q, fold
  <2> QED
    BY <1>1, <1>4, <1>6, SumIsUnique
<1> QED
  BY <1>1, <1>2, <1>7

\* h hits are no more (or no fewer) than the sum t expects.
Within(over, h, t) == IF over THEN h * t[2] <= t[1] ELSE t[1] <= h * t[2]

LEMMA WithinAdds ==
  ASSUME NEW over, NEW h \in Int, NEW k \in Int, NEW x \in Fractions, NEW y \in Fractions,
         Within(over, h, x), Within(over, k, y)
  PROVE  Within(over, h + k, Plus(x, y))
<1>1. PICK a \in Int, b \in Nat \ {0} : x = <<a, b>>
  BY DEF Fractions
<1>2. PICK c \in Int, d \in Nat \ {0} : y = <<c, d>>
  BY DEF Fractions
<1>3. Plus(x, y) = <<a * d + c * b, b * d>>
  BY <1>1, <1>2 DEF Plus
<1>4. (h + k) * (b * d) = (h * b) * d + (k * d) * b /\ h * b \in Int /\ k * d \in Int
  OBVIOUS
<1>5. \A i, j \in Int, n \in Nat : i <= j => i * n <= j * n
  OBVIOUS
<1>6. CASE over
  <2>1. h * b <= a /\ k * d <= c
    BY <1>1, <1>2, <1>6 DEF Within
  <2>2. (h * b) * d <= a * d /\ (k * d) * b <= c * b
    BY <1>4, <1>5, <2>1
  <2> QED
    BY <1>3, <1>4, <1>6, <2>2 DEF Within
<1>7. CASE ~over
  <2>1. a <= h * b /\ c <= k * d
    BY <1>1, <1>2, <1>7 DEF Within
  <2>2. a * d <= (h * b) * d /\ c * b <= (k * d) * b
    BY <1>4, <1>5, <2>1
  <2> QED
    BY <1>3, <1>4, <1>7, <2>2 DEF Within
<1> QED
  BY <1>6, <1>7

\* What is within its part of the sum in every part, is within the sum: the parts are those of a
\* key that two posts of one stratum share.
PartOf(S, key, I) == {p \in S : key[p] \in I}

LEMMA ByParts ==
  ASSUME NEW S, IsFiniteSet(S), NEW key, \A p, r \in S : Stratum(p) = Stratum(r) => key[p] = key[r],
         NEW q, \A s \in StrataOf(S) : q[s] \in Fractions, NEW over, NEW H,
         \A i \in {key[p] : p \in S} :
           Within(over, Cardinality(PartOf(S, key, {i}) \cap H), SumOver(q, StrataOf(PartOf(S, key, {i}))))
  PROVE  Within(over, Cardinality(S \cap H), SumOver(q, StrataOf(S)))
<1> DEFINE K == {key[p] : p \in S}
           hits(I) == Cardinality(PartOf(S, key, I) \cap H)
           sum(I) == SumOver(q, StrataOf(PartOf(S, key, I)))
           Good == {I \in SUBSET K : Within(over, hits(I), sum(I))}
           Fine(I) == /\ StrataOf(PartOf(S, key, I)) \subseteq StrataOf(S)
                      /\ IsFiniteSet(StrataOf(PartOf(S, key, I)))
                      /\ IsFiniteSet(PartOf(S, key, I) \cap H)
                      /\ hits(I) \in Nat /\ sum(I) \in Fractions
<1>0. ASSUME NEW I PROVE Fine(I)
  <2> DEFINE P == PartOf(S, key, I)
             f == [p \in P |-> Stratum(p)]
  <2>1. P \subseteq S
    BY DEF PartOf
  <2>2. StrataOf(P) \subseteq StrataOf(S) /\ StrataOf(P) = {f[p] : p \in P}
    BY <2>1 DEF StrataOf
  <2> HIDE DEF P, f
  <2>3. IsFiniteSet(P) /\ IsFiniteSet(P \cap H) /\ Cardinality(P \cap H) \in Nat
    BY <2>1, SubsetIsSmaller
  <2>4. IsFiniteSet(StrataOf(P))
    BY <2>2, <2>3, FiniteImage
  <2>5. SumOver(q, StrataOf(P)) \in Fractions
    BY <2>2, <2>4, SumIsFraction
  <2> QED
    BY <2>1, <2>2, <2>3, <2>4, <2>5 DEF P
<1>1. ASSUME NEW I \in SUBSET K, \A J \in SUBSET I : J # I => J \in Good PROVE I \in Good
  <2>1. CASE I = {}
    <3>1. PartOf(S, key, I) = {} /\ StrataOf({}) = {} /\ {} \cap H = {}
      BY <2>1 DEF PartOf, StrataOf
    <3>2. hits(I) = 0 /\ sum(I) = <<0, 1>>
      BY <3>1, FS_EmptySet, SumStep
    <3> QED
      BY <3>2 DEF Within
  <2>2. CASE I # {}
    <3> DEFINE c == One(I)
               J == I \ {c}
               A == PartOf(S, key, {c})
               B == PartOf(S, key, J)
    <3>0. Fine({c}) /\ Fine(J)
      <4> HIDE DEF Fine
      <4> QED
        BY <1>0
    <3>1. c \in I /\ J \in SUBSET I /\ J # I /\ c \in K
      BY <2>2, OneIsIn
    <3>2. Within(over, hits(J), sum(J)) /\ Within(over, hits({c}), sum({c}))
      BY <1>1, <3>1
    <3>3. PartOf(S, key, I) = A \cup B /\ A \cap B = {}
      BY <3>1 DEF PartOf
    <3>4. StrataOf(A \cup B) = StrataOf(A) \cup StrataOf(B)
      BY DEF StrataOf
    <3>5. StrataOf(A) \cap StrataOf(B) = {}
      <4> SUFFICES ASSUME NEW p \in A, NEW r \in B, Stratum(p) = Stratum(r) PROVE FALSE
        BY DEF StrataOf
      <4>1. p \in S /\ r \in S /\ key[p] = c /\ key[r] \in J
        BY DEF PartOf
      <4> QED
        BY <4>1
    <3>6. hits(I) = hits({c}) + hits(J)
      <4>1. PartOf(S, key, I) \cap H = (A \cap H) \cup (B \cap H) /\ (A \cap H) \cap (B \cap H) = {}
        BY <3>3
      <4>2. Cardinality((A \cap H) \cup (B \cap H))
              = Cardinality(A \cap H) + Cardinality(B \cap H) - Cardinality((A \cap H) \cap (B \cap H))
        BY <3>0, FS_Union
      <4>3. Cardinality((A \cap H) \cap (B \cap H)) = 0
        BY <4>1, FS_EmptySet
      <4>4. Cardinality(A \cap H) \in Nat /\ Cardinality(B \cap H) \in Nat
        BY <3>0
      <4>5. hits(I) = Cardinality((A \cap H) \cup (B \cap H))
        BY <4>1
      <4>6. hits({c}) = Cardinality(A \cap H) /\ hits(J) = Cardinality(B \cap H)
        OBVIOUS
      <4> HIDE DEF hits, A, B
      <4> QED
        BY <4>2, <4>3, <4>4, <4>5, <4>6
    <3>7. sum(I) = Plus(sum({c}), sum(J))
      <4>1. IsFiniteSet(StrataOf(A)) /\ IsFiniteSet(StrataOf(B))
            /\ \A s \in StrataOf(A) \cup StrataOf(B) : q[s] \in Fractions
        BY <3>0
      <4> HIDE DEF A, B
      <4>2. SumOver(q, StrataOf(A) \cup StrataOf(B))
              = Plus(SumOver(q, StrataOf(A)), SumOver(q, StrataOf(B)))
        BY <3>5, <4>1, SumOfTwo
      <4> QED
        BY <3>3, <3>4, <4>2 DEF A, B
    <3>8. hits({c}) \in Int /\ hits(J) \in Int /\ sum({c}) \in Fractions /\ sum(J) \in Fractions
      <4>1. hits({c}) \in Nat /\ hits(J) \in Nat /\ sum({c}) \in Fractions /\ sum(J) \in Fractions
        BY <3>0
      <4> HIDE DEF hits, sum
      <4> QED
        BY <4>1
    <3> HIDE DEF hits, sum, c, J
    <3> QED
      BY <3>2, <3>6, <3>7, <3>8, WithinAdds
  <2> QED
    BY <2>1, <2>2
<1>2. IsFiniteSet(K)
  BY FiniteImage
<1>3. K \in Good
  <2> HIDE DEF Good, K
  <2> QED
    BY <1>1, <1>2, SubsetInduction
<1>4. PartOf(S, key, K) = S
  BY DEF PartOf
<1> QED
  BY <1>3, <1>4

LEMMA SharesAreFractions ==
  ASSUME NEW ctx, NEW U, IsFiniteSet(U), NEW S \in SUBSET U
  PROVE  \A s \in StrataOf(S) : Shares(ctx, U, S)[s] \in Fractions
<1> SUFFICES ASSUME NEW s \in StrataOf(S) PROVE Share(ctx, U, S, s) \in Fractions
  BY DEF Shares
<1>1. \A P \in SUBSET U : IsFiniteSet(P) /\ Cardinality(P) \in Nat /\ (P # {} => Cardinality(P) > 0)
  <2> TAKE P \in SUBSET U
  <2>1. IsFiniteSet(P) /\ Cardinality(P) \in Nat
    BY SubsetIsSmaller
  <2> QED
    BY <2>1, FS_EmptySet
<1>2. MinStratum \in Nat /\ MinStratum > 0
  BY PatternAssumption
<1>3. U # {}
  BY DEF StrataOf
<1> DEFINE stratum == {p \in U : Stratum(p) = s}
           platform == {p \in U : Stratum(p)[1] = s[1]}
<1>4. /\ Cardinality(stratum) \in Nat /\ Cardinality(platform) \in Nat
      /\ Cardinality(U) \in Nat /\ Cardinality(U) > 0
  BY <1>1, <1>3
<1>5. \A P \in SUBSET U : Cardinality(P) > 0 =>
        HitRate(ctx, P)[1] \in Nat /\ HitRate(ctx, P)[2] \in Nat \ {0}
  BY <1>1 DEF HitRate
<1>6. ReferenceRate(ctx, U, s)[1] \in Nat /\ ReferenceRate(ctx, U, s)[2] \in Nat \ {0}
  <2>1. stratum \in SUBSET U /\ platform \in SUBSET U /\ U \in SUBSET U
    OBVIOUS
  <2>2. ReferenceRate(ctx, U, s) =
          HitRate(ctx, CASE Cardinality(stratum) >= MinStratum -> stratum
                         [] Cardinality(platform) >= MinStratum
                              /\ Cardinality(stratum) < MinStratum -> platform
                         [] OTHER -> U)
    BY DEF ReferenceRate
  <2> HIDE DEF stratum, platform
  <2>3. CASE Cardinality(stratum) >= MinStratum
    <3>1. ReferenceRate(ctx, U, s) = HitRate(ctx, stratum)
      BY <1>2, <1>4, <2>2, <2>3
    <3> QED
      BY <1>2, <1>4, <1>5, <2>1, <2>3, <3>1
  <2>4. CASE Cardinality(stratum) < MinStratum /\ Cardinality(platform) >= MinStratum
    <3>1. ReferenceRate(ctx, U, s) = HitRate(ctx, platform)
      BY <1>2, <1>4, <2>2, <2>4
    <3> QED
      BY <1>2, <1>4, <1>5, <2>1, <2>4, <3>1
  <2>5. CASE Cardinality(stratum) < MinStratum /\ Cardinality(platform) < MinStratum
    <3>1. ReferenceRate(ctx, U, s) = HitRate(ctx, U)
      BY <1>2, <1>4, <2>2, <2>5
    <3> QED
      BY <1>4, <1>5, <2>1, <3>1
  <2> QED
    BY <1>2, <1>4, <2>3, <2>4, <2>5
<1>7. Cardinality(InStratum(S, s)) \in Nat
  <2>1. InStratum(S, s) \in SUBSET U
    BY DEF InStratum
  <2> QED
    BY <1>1, <2>1
<1> QED
  BY <1>6, <1>7 DEF Share, Fractions

\* A stratum with enough posts is measured by itself.
LEMMA ThickStratum ==
  ASSUME NEW ctx, NEW U, IsFiniteSet(U), NEW s, Cardinality(InStratum(U, s)) >= MinStratum
  PROVE  ReferenceRate(ctx, U, s) = HitRate(ctx, InStratum(U, s))
<1>1. Cardinality(InStratum(U, s)) \in Nat /\ MinStratum \in Nat
  BY SubsetIsSmaller, PatternAssumption DEF InStratum
<1> DEFINE stratum == InStratum(U, s)
           platform == {p \in U : Stratum(p)[1] = s[1]}
<1>2. ReferenceRate(ctx, U, s) =
        HitRate(ctx, CASE Cardinality(stratum) >= MinStratum -> stratum
                       [] Cardinality(platform) >= MinStratum
                            /\ Cardinality(stratum) < MinStratum -> platform
                       [] OTHER -> U)
  BY DEF ReferenceRate, InStratum
<1> HIDE DEF stratum, platform
<1>3. Cardinality(stratum) >= MinStratum /\ ~(Cardinality(stratum) < MinStratum)
  BY <1>1 DEF stratum
<1> QED
  BY <1>2, <1>3 DEF stratum

\* A verdict says on which side of the expectation the hits are.
LEMMA VerdictMeans ==
  ASSUME NEW h \in Nat, NEW n \in Nat, n > 0, NEW t \in Fractions
  PROVE  LET v == Verdict(<<h, n>>, Over(t, <<n, 1>>), n)
         IN  /\ v = "over" => ~Within(TRUE, h, t)
             /\ v = "under" => ~Within(FALSE, h, t)
<1>1. PICK a \in Int, b \in Nat \ {0} : t = <<a, b>>
  BY DEF Fractions
<1> DEFINE e == Over(t, <<n, 1>>)
           d == h * (b * n) - a * n
           v == Verdict(<<h, n>>, e, n)
<1>2. e = <<a, b * n>> /\ d \in Int
  BY <1>1 DEF Over
<1>3. (v = "over" => d > 0) /\ (v = "under" => d < 0)
  <2>1. <<h, n>>[1] * e[2] - e[1] * <<h, n>>[2] = d
    BY <1>2
  <2> DEFINE spread == e[1] * (e[2] - e[1]) * <<h, n>>[2] * <<h, n>>[2]
             far == d * d * n * ZThreshold[2] * ZThreshold[2] >= ZThreshold[1] * ZThreshold[1] * spread
  <2>2. v = CASE e[1] = 0 \/ e[1] = e[2] -> "insufficient"
              [] e[1] \notin {0, e[2]} /\ far /\ d > 0 -> "over"
              [] e[1] \notin {0, e[2]} /\ far /\ d < 0 -> "under"
              [] OTHER -> "neutral"
    BY <2>1 DEF Verdict
  <2> HIDE DEF far, d, e, v
  <2> QED
    BY <1>2, <2>2
<1>4. \A i, j \in Int : i <= j => i * n <= j * n
  OBVIOUS
<1>5. h * (b * n) = (h * b) * n /\ h * b \in Int
  OBVIOUS
<1>6. Within(TRUE, h, t) => d <= 0
  BY <1>1, <1>4, <1>5 DEF Within
<1>7. Within(FALSE, h, t) => d >= 0
  BY <1>1, <1>4, <1>5 DEF Within
<1>8. (v = "over" => ~Within(TRUE, h, t)) /\ (v = "under" => ~Within(FALSE, h, t))
  <2>1. d \in Int
    BY <1>2
  <2> HIDE DEF d, v
  <2>2. ~(d > 0 /\ d <= 0) /\ ~(d < 0 /\ d >= 0)
    BY <2>1
  <2> QED
    BY <1>3, <1>6, <1>7, <2>2, Zenon
<1> QED
  BY <1>8

LEMMA CellFigures ==
  ASSUME IsFiniteSet(Posts), NEW m, NEW now, NEW cell \in Report(m, None, now).cells
  PROVE  LET ctx == Context(Stored, m, now)
             U == ctx.usable
             n == Cardinality(cell.of)
             v == cell.breakout_verdict
         IN  /\ IsFiniteSet(U) /\ cell.of \in SUBSET U
             /\ v \in {"over", "under"} =>
                  n > 0 /\ v = Verdict(HitRate(ctx, cell.of), Expected(ctx, U, cell.of), n)
             /\ cell.market_note = MarketNote(ctx, U, cell.of, v)
<1> DEFINE ctx == Context(Stored, m, now)
           U == {p \in ctx.usable : None = None \/ FormatClass(p) = None}
           of(d, v) == {p \in U : ValueOf(d, p) = v}
<1>1. Report(m, None, now).cells
        = UNION {{Cell(ctx, U, d, v, of(d, v)) : v \in {ValueOf(d, p) : p \in U} \ {None}} : d \in Dimensions}
  BY DEF Report, ReportOf, ReportIn, Summary, Cells
<1>2. U = ctx.usable /\ IsFiniteSet(U)
  <2>1. ctx.usable \subseteq Posts
    BY DEF Context, Windowed, Stored
  <2> QED
    BY <2>1, SubsetIsSmaller
<1> HIDE DEF ctx, U
<1>3. PICK d, v : cell = Cell(ctx, U, d, v, of(d, v))
  <2> HIDE DEF of
  <2> QED
    BY <1>1
<1> DEFINE S == of(d, v)
<1>4. S \in SUBSET U
  OBVIOUS
<1>5. Cardinality(S) \in Nat /\ MinCell \in Nat /\ MinCell > 0
  BY <1>2, <1>4, SubsetIsSmaller, PatternAssumption
<1> HIDE DEF S
<1>6. cell = Cell(ctx, U, d, v, S)
  BY <1>3 DEF S
<1> DEFINE enough == Cardinality(S) >= MinCell /\ Cardinality({ChannelOf[p] : p \in S}) >= MinCellChannels
           verdict == IF enough THEN Verdict(HitRate(ctx, S), Expected(ctx, U, S), Cardinality(S))
                      ELSE "insufficient"
<1>7. cell.of = S /\ cell.breakout_verdict = verdict /\ cell.market_note = MarketNote(ctx, U, S, verdict)
  BY <1>6 DEF Cell, CellOver
<1>8. verdict \in {"over", "under"} =>
        Cardinality(S) > 0 /\ verdict = Verdict(HitRate(ctx, S), Expected(ctx, U, S), Cardinality(S))
  BY <1>5
<1> HIDE DEF verdict
<1> QED
  BY <1>2, <1>4, <1>7, <1>8 DEF ctx

\* The market of a note, and its posts.
LEMMA NobodyShowsIt ==
  ASSUME NEW ctx, NEW U, IsFiniteSet(U), NEW S \in SUBSET U, S # {},
         S \subseteq Posts, NEW over \in BOOLEAN,
         \A m \in {Market[ChannelOf[p]] : p \in S} :
           LET of == {p \in S : Market[ChannelOf[p]] = m}
           IN  IF over THEN ~Less(Expected(ctx, U, of), HitRate(ctx, of))
                       ELSE ~Less(HitRate(ctx, of), Expected(ctx, U, of))
  PROVE  Within(over, Cardinality(S \cap ctx.hits), SumOver(Shares(ctx, U, S), StrataOf(S)))
<1> DEFINE key == [p \in S |-> Market[ChannelOf[p]]]
           q == Shares(ctx, U, S)
<1>1. IsFiniteSet(S)
  BY SubsetIsSmaller
<1>2. \A p, r \in S : Stratum(p) = Stratum(r) => key[p] = key[r]
  BY DEF Stratum
<1>3. \A s \in StrataOf(S) : q[s] \in Fractions
  BY SharesAreFractions
<1>4. ASSUME NEW m \in {key[p] : p \in S}
      PROVE  Within(over, Cardinality(PartOf(S, key, {m}) \cap ctx.hits),
                    SumOver(q, StrataOf(PartOf(S, key, {m}))))
  <2> DEFINE of == PartOf(S, key, {m})
             t == SumOver(q, StrataOf(of))
             h == Cardinality(of \cap ctx.hits)
             n == Cardinality(of)
  <2>1. of = {p \in S : Market[ChannelOf[p]] = m} /\ of # {}
    BY DEF PartOf
  <2>2. IF over THEN ~Less(Expected(ctx, U, of), HitRate(ctx, of))
                ELSE ~Less(HitRate(ctx, of), Expected(ctx, U, of))
    BY <2>1
  <2>3. of \in SUBSET S /\ IsFiniteSet(of) /\ n \in Nat /\ n > 0 /\ h \in Nat
    <3>1. of \in SUBSET S
      BY <2>1
    <3> HIDE DEF of
    <3>2. IsFiniteSet(of) /\ n \in Nat /\ h \in Nat
      BY <1>1, <3>1, SubsetIsSmaller
    <3> QED
      BY <2>1, <3>1, <3>2, FS_EmptySet
  <2>4. \A s \in StrataOf(of) : Shares(ctx, U, of)[s] = q[s] /\ s \in StrataOf(S)
    <3> TAKE s \in StrataOf(of)
    <3>1. s \in StrataOf(S) /\ s[2] = m
      <4>1. PICK p \in of : s = Stratum(p)
        BY DEF StrataOf
      <4>2. p \in S /\ Market[ChannelOf[p]] = m
        BY <2>1
      <4> HIDE DEF of
      <4> QED
        BY <4>1, <4>2 DEF StrataOf, Stratum
    <3>2. InStratum(of, s) = InStratum(S, s)
      BY <2>1, <3>1 DEF InStratum, Stratum
    <3> HIDE DEF of
    <3> QED
      BY <3>1, <3>2 DEF Shares, Share
  <2> HIDE DEF of, q
  <2>5. /\ IsFiniteSet(StrataOf(of))
        /\ Expected(ctx, U, of) = Over(SumOver(Shares(ctx, U, of), StrataOf(of)), <<n, 1>>)
    BY <2>3, ExpectedIsSum
  <2>6. SumOver(Shares(ctx, U, of), StrataOf(of)) = t
    BY <2>4, <2>5, SameSum
  <2>7. t \in Fractions
    BY <1>3, <2>4, <2>5, SumIsFraction
  <2>8. Expected(ctx, U, of) = Over(t, <<n, 1>>) /\ HitRate(ctx, of) = <<h, n>>
    BY <2>5, <2>6 DEF HitRate
  <2> HIDE DEF t, h, n
  <2>9. PICK a \in Int, b \in Nat \ {0} : t = <<a, b>>
    BY <2>7 DEF Fractions
  <2>10. Over(t, <<n, 1>>) = <<a, b * n>>
    BY <2>3, <2>9 DEF Over
  <2>11. \A i, j \in Int : i * n <= j * n => i <= j
    BY <2>3
  <2>12. h * (b * n) = (h * b) * n /\ h * b \in Int
    BY <2>3
  <2>13. IF over THEN h * b <= a ELSE a <= h * b
    <3>1. Less(<<a, b * n>>, <<h, n>>) <=> a * n < h * (b * n)
      BY DEF Less
    <3>2. Less(<<h, n>>, <<a, b * n>>) <=> h * (b * n) < a * n
      BY DEF Less
    <3>3. a * n \in Int /\ (h * b) * n \in Int
      BY <2>3, <2>12
    <3> QED
      BY <2>2, <2>8, <2>10, <2>11, <2>12, <3>1, <3>2, <3>3
  <2> QED
    BY <2>9, <2>13 DEF Within, of, t, h
<1> QED
  <2> HIDE DEF key, q
  <2> QED
    BY <1>1, <1>2, <1>3, <1>4, ByParts DEF q

LEMMA FindingsHaveAMarket ==
  ASSUME IsFiniteSet(Posts)
  PROVE  SomeMarketShowsIt
<1> SUFFICES ASSUME NEW cell \in Report(None, None, today).cells,
                    cell.market_note # None, cell.market_note.holds = {},
                    cell.market_note.thin = {}
             PROVE  FALSE
  BY DEF SomeMarketShowsIt
<1> DEFINE ctx == Context(Stored, None, today)
           U == ctx.usable
           S == cell.of
           v == cell.breakout_verdict
           n == Cardinality(S)
           of(m) == {p \in S : Market[ChannelOf[p]] = m}
           markets == {m \in PatternMarkets : of(m) # {}}
           thick == {m \in markets : Cardinality(of(m)) >= MinCell}
           shows(m) == IF v = "over" THEN Less(Expected(ctx, U, of(m)), HitRate(ctx, of(m)))
                       ELSE Less(HitRate(ctx, of(m)), Expected(ctx, U, of(m)))
<1>1. /\ IsFiniteSet(U) /\ S \in SUBSET U
      /\ v \in {"over", "under"} => n > 0 /\ v = Verdict(HitRate(ctx, S), Expected(ctx, U, S), n)
      /\ cell.market_note = MarketNote(ctx, U, S, v)
  BY CellFigures
<1>2. U \subseteq Posts
  BY DEF Context, Windowed, Stored
<1> HIDE DEF ctx, U, S, v
<1>3. cell.market_note = IF v \notin {"over", "under"} \/ Cardinality(markets) < 2 THEN None
                         ELSE [holds |-> {m \in thick : shows(m)}, against |-> {m \in thick : ~shows(m)},
                               thin |-> markets \ thick]
  BY <1>1 DEF MarketNote
<1>4. /\ v \in {"over", "under"}
      /\ cell.market_note = [holds |-> {m \in thick : shows(m)}, against |-> {m \in thick : ~shows(m)},
                             thin |-> markets \ thick]
  <2> HIDE DEF markets, thick, shows
  <2> QED
    BY <1>3
<1>5. {m \in thick : shows(m)} = {} /\ markets \ thick = {}
  <2> HIDE DEF markets, thick, shows
  <2> QED
    BY <1>4
<1>6. ASSUME NEW m \in {Market[ChannelOf[p]] : p \in S} PROVE ~shows(m)
  <2>1. of(m) # {}
    OBVIOUS
  <2>2. m \in PatternMarkets
    BY <1>1, <1>2, PostTableAssumption DEF PatternMarkets
  <2>3. m \in markets
    BY <2>1, <2>2
  <2> HIDE DEF markets, shows
  <2> QED
    BY <1>5, <2>3
<1>7. S # {} /\ n \in Nat /\ n > 0 /\ S \subseteq Posts
  BY <1>1, <1>2, <1>4, SubsetIsSmaller, FS_EmptySet
<1> DEFINE t == SumOver(Shares(ctx, U, S), StrataOf(S))
           h == Cardinality(S \cap ctx.hits)
<1>8. IsFiniteSet(S) /\ h \in Nat
  BY <1>1, SubsetIsSmaller
<1>9. t \in Fractions /\ Expected(ctx, U, S) = Over(t, <<n, 1>>) /\ HitRate(ctx, S) = <<h, n>>
  BY <1>1, <1>8, ExpectedIsSum, SharesAreFractions, SumIsFraction DEF HitRate
<1>10. v = Verdict(<<h, n>>, Over(t, <<n, 1>>), n)
  BY <1>1, <1>4, <1>9
<1>11. CASE v = "over"
  <2>1. Within(TRUE, h, t)
    BY <1>1, <1>6, <1>7, <1>11, NobodyShowsIt
  <2> HIDE DEF t, h, n
  <2> QED
    BY <1>7, <1>8, <1>9, <1>10, <1>11, <2>1, VerdictMeans
<1>12. CASE v = "under"
  <2>1. Within(FALSE, h, t)
    BY <1>1, <1>6, <1>7, <1>12, NobodyShowsIt
  <2> HIDE DEF t, h, n
  <2> QED
    BY <1>7, <1>8, <1>9, <1>10, <1>12, <2>1, VerdictMeans
<1> QED
  BY <1>4, <1>11, <1>12

\* A finding over all markets that is in none of them by itself has a market with too few posts to
\* say, for every table of posts, market and channel: rates over all are means of the rates of the
\* markets, so "only over all markets together" cannot be an artefact of their mix (_markt_hinweis).
THEOREM FindingsShowSomewhere ==
  ASSUME IsFiniteSet(Posts)
  PROVE  PatternsSpec => []SomeMarketShowsIt
BY FindingsHaveAMarket, PTL

\* Posts that are hits as often as all posts of their stratum are as many as expected.
LikeAll(ctx, U, S) ==
    \A s \in StrataOf(S) :
      LET x == HitRate(ctx, InStratum(S, s))
          y == HitRate(ctx, InStratum(U, s))
      IN  Cardinality(InStratum(U, s)) >= MinStratum /\ ~Less(x, y) /\ ~Less(y, x)

LEMMA LikeAllIsExpected ==
  ASSUME NEW ctx, NEW U, IsFiniteSet(U), NEW S \in SUBSET U, LikeAll(ctx, U, S), NEW over
  PROVE  Within(over, Cardinality(S \cap ctx.hits), SumOver(Shares(ctx, U, S), StrataOf(S)))
<1> DEFINE key == [p \in S |-> Stratum(p)]
           q == Shares(ctx, U, S)
<1>1. IsFiniteSet(S)
  BY SubsetIsSmaller
<1>2. \A p, r \in S : Stratum(p) = Stratum(r) => key[p] = key[r]
  OBVIOUS
<1>3. \A s \in StrataOf(S) : q[s] \in Fractions
  BY SharesAreFractions
<1>4. ASSUME NEW s \in {key[p] : p \in S}
      PROVE  Within(over, Cardinality(PartOf(S, key, {s}) \cap ctx.hits),
                    SumOver(q, StrataOf(PartOf(S, key, {s}))))
  <2> DEFINE X == InStratum(S, s)
             Y == InStratum(U, s)
             h == Cardinality(X \cap ctx.hits)
             k == Cardinality(Y \cap ctx.hits)
             x == Cardinality(X)
             y == Cardinality(Y)
  <2>1. PartOf(S, key, {s}) = X /\ s \in StrataOf(S)
    BY DEF PartOf, InStratum, StrataOf
  <2>2. StrataOf(X) = {s}
    BY <2>1 DEF StrataOf, InStratum
  <2>3. h \in Nat /\ k \in Nat /\ x \in Nat /\ y \in Nat
    <3>1. X \in SUBSET U /\ Y \in SUBSET U
      BY DEF InStratum
    <3> HIDE DEF X, Y
    <3> QED
      BY <3>1, SubsetIsSmaller
  <2>4. y >= MinStratum /\ ~(h * y < k * x) /\ ~(k * x < h * y)
    BY <2>1 DEF LikeAll, HitRate, Less
  <2>5. q[s] = <<x * k, y>>
    <3>1. ReferenceRate(ctx, U, s) = <<k, y>>
      BY <2>4, ThickStratum DEF HitRate
    <3> QED
      BY <2>1, <3>1 DEF Shares, Share
  <2>6. SumOver(q, {s}) = q[s]
    <3> HIDE DEF q
    <3>1. IsFiniteSet({s}) /\ q[s] \in Fractions
      BY <1>3, <2>1, FS_Singleton
    <3>2. IsFiniteSet({}) /\ SumOver(q, {}) = <<0, 1>>
      BY FS_EmptySet, SumStep
    <3>3. {s} \ {s} = {} /\ <<0, 1>> \in Fractions
      BY DEF Fractions
    <3>4. SumOver(q, {s}) = Plus(q[s], SumOver(q, {s} \ {s}))
      BY <3>1, SumInAnyOrder
    <3>5. Plus(q[s], <<0, 1>>) = q[s]
      BY <3>1, <3>3, PlusIsFair
    <3> QED
      BY <3>2, <3>3, <3>4, <3>5
  <2>7. h * y = x * k
    <3> HIDE DEF h, k, x, y
    <3>1. h * y \in Int /\ k * x \in Int /\ k * x = x * k
      BY <2>3
    <3> QED
      BY <2>4, <3>1
  <2>8. Within(over, h, <<x * k, y>>)
    <3> HIDE DEF h, k, x, y
    <3>1. x * k \in Int
      BY <2>3
    <3> QED
      BY <2>7, <3>1 DEF Within
  <2> HIDE DEF X, Y, q
  <2> QED
    BY <2>1, <2>2, <2>5, <2>6, <2>8
<1> HIDE DEF key, q
<1> QED
  BY <1>1, <1>2, <1>3, <1>4, ByParts DEF q

LEMMA MixIsNoFinding ==
  ASSUME IsFiniteSet(Posts)
  PROVE  CompositionIsNoPattern
<1> SUFFICES ASSUME NEW cell \in Report(None, None, today).cells,
                    LikeAll(Context(Stored, None, today), Context(Stored, None, today).usable, cell.of)
             PROVE  cell.breakout_verdict \notin {"over", "under"}
  BY DEF CompositionIsNoPattern, LikeAll, InStratum, StrataOf
<1> DEFINE ctx == Context(Stored, None, today)
           U == ctx.usable
           S == cell.of
           v == cell.breakout_verdict
           n == Cardinality(S)
           t == SumOver(Shares(ctx, U, S), StrataOf(S))
           h == Cardinality(S \cap ctx.hits)
<1> SUFFICES ASSUME v \in {"over", "under"} PROVE FALSE
  OBVIOUS
<1>1. /\ IsFiniteSet(U) /\ S \in SUBSET U
      /\ n > 0 /\ v = Verdict(HitRate(ctx, S), Expected(ctx, U, S), n)
  BY CellFigures
<1> HIDE DEF ctx, U, S, v
<1>2. IsFiniteSet(S) /\ h \in Nat /\ n \in Nat
  BY <1>1, SubsetIsSmaller
<1>3. t \in Fractions /\ Expected(ctx, U, S) = Over(t, <<n, 1>>) /\ HitRate(ctx, S) = <<h, n>>
  BY <1>1, <1>2, ExpectedIsSum, SharesAreFractions, SumIsFraction DEF HitRate
<1>4. Within(TRUE, h, t) /\ Within(FALSE, h, t)
  <2>1. LikeAll(ctx, U, S)
    BY DEF ctx, U, S
  <2> QED
    BY <1>1, <2>1, LikeAllIsExpected
<1> HIDE DEF t, h, n
<1> QED
  BY <1>1, <1>2, <1>3, <1>4, VerdictMeans DEF v

\* A feature whose posts are hits as often as all posts of their platform and market is never called
\* a pattern, however its posts are spread over platforms and markets: for every table of posts and
\* every threshold (_expected_breakout_rate).
THEOREM MixIsNeverAPattern ==
  ASSUME IsFiniteSet(Posts)
  PROVE  PatternsSpec => []CompositionIsNoPattern
BY MixIsNoFinding, PTL

-------------------------------------------------------------------------------
(* Campaigns *)

\* A sum of whole numbers, as the folds of the model compute it.
IsTotals(g, f, T) ==
    g = [s \in SUBSET T |-> IF s = {} THEN 0 ELSE f[One(s)] + g[s \ {One(s)}]]
Whole(f, T) == [x \in T |-> <<f[x], 1>>]

LEMMA WholePlus ==
  ASSUME NEW a \in Int, NEW b \in Int
  PROVE  Plus(<<a, 1>>, <<b, 1>>) = <<a + b, 1>>
BY DEF Plus

LEMMA TotalsAreSums ==
  ASSUME NEW f, NEW T, IsFiniteSet(T), \A x \in T : f[x] \in Int, NEW g, IsTotals(g, f, T)
  PROVE  \A S \in SUBSET T : g[S] \in Int /\ SumOver(Whole(f, T), S) = <<g[S], 1>>
<1> SUFFICES ASSUME NEW S \in SUBSET T
             PROVE  g[S] \in Int /\ SumOver(Whole(f, T), S) = <<g[S], 1>>
  OBVIOUS
<1> DEFINE q == Whole(f, T)
           Good == {U \in SUBSET S : g[U] \in Int /\ SumOver(q, U) = <<g[U], 1>>}
<1>1. ASSUME NEW U \in SUBSET S, \A V \in SUBSET U : V # U => V \in Good PROVE U \in Good
  <2>0. IsFiniteSet(U) /\ U \in SUBSET T
    BY SubsetIsSmaller
  <2>1. CASE U = {}
    BY <2>0, <2>1, SumStep DEF IsTotals
  <2>2. CASE U # {}
    <3> DEFINE c == One(U)
               R == U \ {c}
    <3>1. c \in U /\ R \in SUBSET U /\ R # U
      BY <2>2, OneIsIn
    <3>2. g[R] \in Int /\ SumOver(q, R) = <<g[R], 1>>
      BY <1>1, <3>1
    <3>3. q[c] = <<f[c], 1>> /\ f[c] \in Int
      BY <2>0, <3>1 DEF Whole
    <3>4. g[U] = f[c] + g[R]
      BY <2>0, <2>2 DEF IsTotals
    <3>5. SumOver(q, U) = Plus(q[c], SumOver(q, R))
      BY <2>0, <2>2, SumStep
    <3> HIDE DEF c, R, q
    <3> QED
      BY <3>2, <3>3, <3>4, <3>5, WholePlus
  <2> QED
    BY <2>1, <2>2
<1>2. S \in Good
  <2>1. IsFiniteSet(S)
    BY SubsetIsSmaller
  <2> HIDE DEF Good
  <2> QED
    BY <1>1, <2>1, SubsetInduction
<1> QED
  BY <1>2

LEMMA TotalsExist ==
  ASSUME NEW f, NEW T, IsFiniteSet(T), \A x \in T : f[x] \in Int
  PROVE  \E g : IsTotals(g, f, T)
<1> DEFINE q == Whole(f, T)
           g == [S \in SUBSET T |-> SumOver(q, S)[1]]
           Good == {S \in SUBSET T : SumOver(q, S) = <<g[S], 1>> /\ g[S] \in Int
                                     /\ g[S] = IF S = {} THEN 0 ELSE f[One(S)] + g[S \ {One(S)}]}
<1>1. ASSUME NEW S \in SUBSET T, \A U \in SUBSET S : U # S => U \in Good PROVE S \in Good
  <2>0. IsFiniteSet(S) /\ g[S] = SumOver(q, S)[1]
    BY SubsetIsSmaller
  <2>1. CASE S = {}
    <3>1. SumOver(q, S) = <<0, 1>>
      BY <2>0, <2>1, SumStep
    <3> QED
      BY <2>0, <2>1, <3>1
  <2>2. CASE S # {}
    <3> DEFINE c == One(S)
               R == S \ {c}
    <3>1. c \in S /\ R \in SUBSET S /\ R # S
      BY <2>2, OneIsIn
    <3>2. SumOver(q, R) = <<g[R], 1>> /\ g[R] \in Int
      BY <1>1, <3>1
    <3>3. q[c] = <<f[c], 1>> /\ f[c] \in Int
      BY <3>1 DEF Whole
    <3>4. SumOver(q, S) = Plus(q[c], SumOver(q, R))
      BY <2>0, <2>2, SumStep
    <3>5. SumOver(q, S) = <<f[c] + g[R], 1>>
      <4> HIDE DEF c, R, q, g
      <4> QED
        BY <3>2, <3>3, <3>4, WholePlus
    <3>6. g[S] = f[c] + g[R]
      BY <2>0, <3>5
    <3> HIDE DEF q, g
    <3> QED
      BY <2>2, <3>2, <3>3, <3>5, <3>6
  <2> QED
    BY <2>1, <2>2
<1>2. ASSUME NEW S \in SUBSET T PROVE S \in Good
  <2>1. IsFiniteSet(S)
    BY SubsetIsSmaller
  <2>2. \A U \in SUBSET S : (\A V \in SUBSET U : V # U => V \in Good) => U \in Good
    BY <1>1
  <2> HIDE DEF Good
  <2> QED
    BY <2>1, <2>2, SubsetInduction
<1>3. \A S \in SUBSET T : g[S] = IF S = {} THEN 0 ELSE f[One(S)] + g[S \ {One(S)}]
  <2> TAKE S \in SUBSET T
  <2>1. S \in Good
    BY <1>2
  <2> QED
    BY <2>1
<1>4. IsTotals(g, f, T)
  <2>1. \A h : /\ h = [S \in SUBSET T |-> h[S]]
               /\ \A S \in SUBSET T : h[S] = IF S = {} THEN 0 ELSE f[One(S)] + h[S \ {One(S)}]
               => IsTotals(h, f, T)
    BY DEF IsTotals
  <2>2. g = [S \in SUBSET T |-> g[S]]
    OBVIOUS
  <2> HIDE DEF g
  <2> QED
    BY <1>3, <2>1, <2>2
<1> QED
  BY <1>4

\* However they are sorted, the posts of all classes are the posts.
KeysOf(S, key) == {key[p] : p \in S}

LEMMA ClassesAddUp ==
  ASSUME NEW S, IsFiniteSet(S), NEW key, NEW f, NEW g, IsTotals(g, f, KeysOf(S, key)),
         \A i \in KeysOf(S, key) : f[i] = Cardinality(PartOf(S, key, {i}))
  PROVE  g[KeysOf(S, key)] = Cardinality(S)
<1> DEFINE K == KeysOf(S, key)
<1>0. IsFiniteSet(K)
  BY FiniteImage DEF KeysOf
<1>1. \A I : IsFiniteSet(PartOf(S, key, I)) /\ Cardinality(PartOf(S, key, I)) \in Nat
  <2> TAKE I
  <2>1. PartOf(S, key, I) \subseteq S
    BY DEF PartOf
  <2> QED
    BY <2>1, SubsetIsSmaller
<1>3. \A i \in K : f[i] \in Int
  <2> TAKE i \in K
  <2>1. f[i] = Cardinality(PartOf(S, key, {i}))
    OBVIOUS
  <2>2. Cardinality(PartOf(S, key, {i})) \in Nat
    BY <1>1
  <2> QED
    BY <2>1, <2>2
<1> DEFINE Good == {I \in SUBSET K : g[I] = Cardinality(PartOf(S, key, I))}
<1>4. ASSUME NEW I \in SUBSET K, \A J \in SUBSET I : J # I => J \in Good PROVE I \in Good
  <2>1. CASE I = {}
    <3>1. PartOf(S, key, I) = {}
      BY <2>1 DEF PartOf
    <3> QED
      BY <2>1, <3>1, FS_EmptySet DEF IsTotals
  <2>2. CASE I # {}
    <3> DEFINE c == One(I)
               J == I \ {c}
               A == PartOf(S, key, {c})
               B == PartOf(S, key, J)
    <3>1. c \in I /\ J \in SUBSET I /\ J # I
      BY <2>2, OneIsIn
    <3>2. g[I] = f[c] + g[J]
      BY <2>2 DEF IsTotals
    <3>3. g[J] = Cardinality(B) /\ f[c] = Cardinality(A)
      BY <1>4, <3>1
    <3>4. PartOf(S, key, I) = A \cup B /\ A \cap B = {}
      BY <3>1 DEF PartOf
    <3>5. IsFiniteSet(A) /\ IsFiniteSet(B) /\ Cardinality(A) \in Nat /\ Cardinality(B) \in Nat
      BY <1>1
    <3> HIDE DEF A, B, J, c
    <3>6. Cardinality(A \cup B) = Cardinality(A) + Cardinality(B)
      <4>1. Cardinality(A \cup B) = Cardinality(A) + Cardinality(B) - Cardinality(A \cap B)
        BY <3>5, FS_Union
      <4>2. Cardinality(A \cap B) = 0
        BY <3>4, FS_EmptySet
      <4> QED
        BY <3>5, <4>1, <4>2
    <3> QED
      BY <3>2, <3>3, <3>4, <3>6
  <2> QED
    BY <2>1, <2>2
<1>5. K \in Good
  <2> HIDE DEF Good
  <2> QED
    BY <1>0, <1>4, SubsetInduction
<1>6. PartOf(S, key, K) = S
  BY DEF PartOf, KeysOf
<1> QED
  BY <1>5, <1>6

\* A bounded set of whole numbers has a largest one.
LEMMA LargestOfBand ==
  ASSUME NEW a \in Int, NEW b \in Int, NEW K \in SUBSET (a..b), K # {}
  PROVE  Max(K) \in K /\ Max(K) \in Int /\ \A k \in K : Max(K) >= k
<1>1. PICK k0 \in K : TRUE
  OBVIOUS
<1> DEFINE L == {k - a : k \in K}
<1>2. b - a \in Nat /\ L \in SUBSET (0..(b - a)) /\ L # {}
  BY <1>1
<1>3. Max(L) \in L /\ \A l \in L : Max(L) >= l
  <2> HIDE DEF L
  <2> QED
    BY <1>2, LargestNumber
<1>4. PICK x \in K : Max(L) = x - a
  BY <1>3
<1>5. \A k \in K : x >= k
  <2> TAKE k \in K
  <2>1. k - a \in L /\ k \in Int /\ x \in Int
    OBVIOUS
  <2> HIDE DEF L
  <2>2. x - a >= k - a
    BY <1>3, <1>4, <2>1
  <2> QED
    BY <2>1, <2>2
<1>6. K \subseteq Int
  OBVIOUS
<1> QED
  BY <1>4, <1>5, <1>6 DEF Max

\* The start of a campaign by the countdown is that by the timing.
LEMMA StartsAgree ==
  ASSUME IsFiniteSet(Posts), NEW t \in Projects \cap TimedTitles,
         \A p \in PostsOf(t) : ReleaseOf(t, Market[ChannelOf[p]]) = ProjectRelease(t)
  PROVE  /\ ProjectRelease(t) # None
         /\ OwnStart(t) = LeadDays(Earliest(TimedPosts(t)))
         /\ Cardinality(PostsOf(t)) >= Cardinality(TimedPosts(t))
<1> DEFINE S == TimedPosts(t)
           L == {LeadDays(p) : p \in S}
<1>1. S \subseteq PostsOf(t) /\ PostsOf(t) \subseteq Posts
  BY DEF TimedPosts, PostsOf, Stored
<1>2. /\ Cardinality(S) \in Nat /\ Cardinality(PostsOf(t)) \in Nat
      /\ Cardinality(PostsOf(t)) >= Cardinality(S) /\ IsFiniteSet(PostsOf(t))
  <2>1. IsFiniteSet(PostsOf(t))
    BY <1>1, SubsetIsSmaller
  <2> QED
    BY <1>1, <2>1, SubsetIsSmaller
<1>3. S # {}
  <2>1. Cardinality(S) >= MinTitlePosts /\ MinTitlePosts \in Nat /\ MinTitlePosts > 0
    BY CampaignAssumption DEF TimedTitles
  <2> QED
    BY <1>2, <2>1, FS_EmptySet
<1>4. \A p \in S : /\ ReleaseOf(t, Market[ChannelOf[p]]) # None /\ TitleOf(p) = t
                   /\ LeadDays(p) \in -DaysAfter..DaysBefore
  BY DEF TimedPosts, PostsOf, InBand
<1>5. ProjectRelease(t) # None
  BY <1>1, <1>3, <1>4
<1>6. \A p \in PostsOf(t) : LeadDays(p) = ProjectRelease(t) - Reference(p)
  BY DEF LeadDays, PostsOf
<1>7. {l \in OwnLeads(t) : InBand(l)} = L
  <2>1. ASSUME NEW l \in OwnLeads(t), InBand(l) PROVE l \in L
    <3>1. PICK p \in PostsOf(t) : l = ProjectRelease(t) - Reference(p)
      BY DEF OwnLeads
    <3>2. p \in S
      BY <1>5, <1>6, <2>1, <3>1 DEF TimedPosts
    <3> QED
      BY <1>6, <3>1, <3>2
  <2>2. ASSUME NEW p \in S PROVE LeadDays(p) \in OwnLeads(t) /\ InBand(LeadDays(p))
    BY <1>1, <1>4, <1>6 DEF OwnLeads, InBand
  <2> HIDE DEF S
  <2> QED
    BY <2>1, <2>2
<1>8. L # {} /\ L \in SUBSET (-DaysAfter..DaysBefore) /\ -DaysAfter \in Int /\ DaysBefore \in Int
  BY <1>3, <1>4, CampaignAssumption
<1>9. Max(L) \in L /\ Max(L) \in Int /\ \A l \in L : Max(L) >= l
  <2> HIDE DEF L
  <2> QED
    BY <1>8, LargestOfBand
<1>10. OwnStart(t) = Max(L)
  BY <1>7, <1>8 DEF OwnStart
<1>11. Earliest(S) \in S /\ \A q \in S : LeadDays(q) <= LeadDays(Earliest(S))
  <2>1. PICK p \in S : Max(L) = LeadDays(p)
    BY <1>9
  <2>2. \A q \in S : LeadDays(q) \in L /\ LeadDays(q) \in Int
    BY <1>4, CampaignAssumption
  <2>3. \A q \in S : LeadDays(q) <= LeadDays(p)
    BY <1>9, <2>1, <2>2
  <2> HIDE DEF S, L
  <2> QED
    BY <2>3 DEF Earliest
<1>12. Max(L) = LeadDays(Earliest(S))
  <2>1. PICK p \in S : Max(L) = LeadDays(p)
    BY <1>9
  <2>2. LeadDays(Earliest(S)) \in L /\ LeadDays(Earliest(S)) \in Int
    BY <1>4, <1>11, CampaignAssumption
  <2>3. LeadDays(p) <= LeadDays(Earliest(S)) /\ Max(L) >= LeadDays(Earliest(S))
    BY <1>9, <1>11, <2>2
  <2> HIDE DEF S, L
  <2> QED
    BY <1>9, <2>1, <2>2, <2>3
<1> QED
  BY <1>2, <1>5, <1>10, <1>12

\* Every timed post is in the curve once, and under its channel once.
LEMMA TimingAddsUp ==
  ASSUME IsFiniteSet(Posts)
  PROVE  MapThenSumSet(LAMBDA w : Timing.curve[w], DOMAIN Timing.curve)
           = MapThenSumSet(LAMBDA c : Timing.channels[c].posts, DOMAIN Timing.channels)
<1> DEFINE all == UNION {TimedPosts(t) : t \in TimedTitles}
           week == [p \in all |-> LeadDays(p) \div 7]
           channel == [p \in all |-> ChannelOf[p]]
           W == {LeadDays(p) \div 7 : p \in all}
           C == {ChannelOf[p] : p \in all}
           inWeek == [w \in W |-> Cardinality({p \in all : LeadDays(p) \div 7 = w})]
           ofChannel == [c \in C |-> Cardinality({p \in all : ChannelOf[p] = c})]
           R(f, T, g) == [s \in SUBSET T |->
                            IF s = {} THEN 0
                            ELSE f[CHOOSE x \in s : TRUE] + g[s \ {CHOOSE x \in s : TRUE}]]
<1>1. Timing.curve = inWeek /\ DOMAIN Timing.curve = W
  BY DEF Timing
<1>2. DOMAIN Timing.channels = C /\ \A c \in C : Timing.channels[c].posts = ofChannel[c]
  BY DEF Timing
<1>3. IsFiniteSet(all)
  <2>1. all \subseteq Posts
    BY DEF TimedPosts, PostsOf, Stored
  <2> QED
    BY <2>1, SubsetIsSmaller
<1>4. IsFiniteSet(W) /\ IsFiniteSet(C)
  <2>1. W = {week[p] : p \in all} /\ C = {channel[p] : p \in all}
    OBVIOUS
  <2> HIDE DEF week, channel, all, W, C
  <2> QED
    BY <1>3, <2>1, FiniteImage
<1>5. \A P \in SUBSET all : Cardinality(P) \in Int
  BY <1>3, SubsetIsSmaller
<1>6. (\A w \in W : inWeek[w] \in Int) /\ (\A c \in C : ofChannel[c] \in Int)
  <2>1. \A w : {p \in all : LeadDays(p) \div 7 = w} \in SUBSET all
    OBVIOUS
  <2>2. \A c : {p \in all : ChannelOf[p] = c} \in SUBSET all
    OBVIOUS
  <2> HIDE DEF all, W, C
  <2> QED
    BY <1>5, <2>1, <2>2
<1> DEFINE posts(c) == Timing.channels[c].posts
           P(g) == [s \in SUBSET C |->
                      IF s = {} THEN 0
                      ELSE posts(CHOOSE x \in s : TRUE) + g[s \ {CHOOSE x \in s : TRUE}]]
<1>7. \A f, T, g : g = R(f, T, g) <=> IsTotals(g, f, T)
  BY DEF IsTotals, One
<1>8. ASSUME NEW g PROVE P(g) = R(ofChannel, C, g)
  <2>1. \A s \in SUBSET C : s # {} => posts(CHOOSE x \in s : TRUE) = ofChannel[CHOOSE x \in s : TRUE]
    <3> TAKE s \in SUBSET C
    <3>1. s # {} => (CHOOSE x \in s : TRUE) \in C
      BY OneIsIn DEF One
    <3> HIDE DEF C, ofChannel
    <3> QED
      BY <1>2, <3>1
  <2> HIDE DEF posts, C, ofChannel
  <2> QED
    BY <2>1
<1>9. MapThenSumSet(LAMBDA w : Timing.curve[w], DOMAIN Timing.curve)
        = (CHOOSE g : g = R(Timing.curve, DOMAIN Timing.curve, g))[DOMAIN Timing.curve]
  BY DEF MapThenSumSet, MapThenFoldSet
<1>10. MapThenSumSet(LAMBDA c : Timing.channels[c].posts, C) = (CHOOSE g : g = P(g))[C]
  BY DEF MapThenSumSet, MapThenFoldSet
<1> HIDE DEF P, R, posts
<1>11. MapThenSumSet(LAMBDA w : Timing.curve[w], DOMAIN Timing.curve) = Cardinality(all)
  <2> DEFINE g == CHOOSE g : g = R(inWeek, W, g)
  <2>1. \E h : IsTotals(h, inWeek, W)
    <3> HIDE DEF inWeek, W
    <3> QED
      BY <1>4, <1>6, TotalsExist
  <2>2. g = R(inWeek, W, g)
    <3> HIDE DEF inWeek, W
    <3> QED
      BY <1>7, <2>1
  <2>3. IsTotals(g, inWeek, W)
    <3> HIDE DEF inWeek, W, g
    <3> QED
      BY <1>7, <2>2
  <2>4. W = KeysOf(all, week) /\ \A w \in W : inWeek[w] = Cardinality(PartOf(all, week, {w}))
    <3>1. \A w : PartOf(all, week, {w}) = {p \in all : LeadDays(p) \div 7 = w}
      BY DEF PartOf
    <3>2. W = KeysOf(all, week)
      BY DEF KeysOf
    <3> QED
      BY <3>1, <3>2
  <2> HIDE DEF g
  <2>5. g[W] = Cardinality(all)
    <3> HIDE DEF inWeek, W, week, all
    <3>1. /\ \A i \in KeysOf(all, week) : inWeek[i] = Cardinality(PartOf(all, week, {i}))
          /\ IsTotals(g, inWeek, KeysOf(all, week))
      BY <2>3, <2>4
    <3>2. g[KeysOf(all, week)] = Cardinality(all)
      BY <1>3, <3>1, ClassesAddUp
    <3> QED
      BY <2>4, <3>2
  <2> HIDE DEF inWeek, W, all
  <2> QED
    BY <1>1, <1>9, <2>5 DEF g
<1>12. MapThenSumSet(LAMBDA c : Timing.channels[c].posts, DOMAIN Timing.channels) = Cardinality(all)
  <2> DEFINE g == CHOOSE g : g = P(g)
  <2>1. \E h : IsTotals(h, ofChannel, C)
    <3> HIDE DEF ofChannel, C
    <3> QED
      BY <1>4, <1>6, TotalsExist
  <2>2. g = P(g)
    <3> HIDE DEF ofChannel, C
    <3> QED
      BY <1>7, <1>8, <2>1
  <2>3. IsTotals(g, ofChannel, C)
    <3> HIDE DEF ofChannel, C, g
    <3> QED
      BY <1>7, <1>8, <2>2
  <2>4. C = KeysOf(all, channel)
        /\ \A c \in C : ofChannel[c] = Cardinality(PartOf(all, channel, {c}))
    <3>1. \A c : PartOf(all, channel, {c}) = {p \in all : ChannelOf[p] = c}
      BY DEF PartOf
    <3>2. C = KeysOf(all, channel)
      BY DEF KeysOf
    <3> QED
      BY <3>1, <3>2
  <2> HIDE DEF g
  <2>5. g[C] = Cardinality(all)
    <3> HIDE DEF ofChannel, C, channel, all
    <3>1. /\ \A i \in KeysOf(all, channel) : ofChannel[i] = Cardinality(PartOf(all, channel, {i}))
          /\ IsTotals(g, ofChannel, KeysOf(all, channel))
      BY <2>3, <2>4
    <3>2. g[KeysOf(all, channel)] = Cardinality(all)
      BY <1>3, <3>1, ClassesAddUp
    <3> QED
      BY <2>4, <3>2
  <2> HIDE DEF C, all
  <2> QED
    BY <1>2, <1>10, <2>5 DEF g
<1> QED
  BY <1>11, <1>12

\* A cell of a phase holds the posts a search for its value in that phase finds.
LEMMA PhaseIsSearch ==
  ASSUME NEW ctx, NEW phase, phase # None, NEW x \in PhaseCells(ctx, phase)
  PROVE  /\ x.of = Search(ctx, [d \in {x.dim, "lifecycle_stage"} |->
                                  IF d = "lifecycle_stage" THEN phase ELSE x.value], None).hits
         /\ x.sample_size = Cardinality(x.of)
<1> DEFINE inPhase(d, p) == IF ValueOf("lifecycle_stage", p) = phase THEN FacetOf(d, p) ELSE None
           of(d, v) == {p \in ctx.usable : inPhase(d, p) = v}
<1>1. PICK d \in Dimensions \ {"lifecycle_stage"} :
        \E v \in {inPhase(d, p) : p \in ctx.usable} \ {None} : x = Cell(ctx, ctx.usable, d, v, of(d, v))
  BY DEF PhaseCells, Cells
<1>2. PICK v \in {inPhase(d, p) : p \in ctx.usable} \ {None} : x = Cell(ctx, ctx.usable, d, v, of(d, v))
  BY <1>1
<1> HIDE DEF of
<1>3. x.dim = d /\ x.value = v /\ x.of = of(d, v) /\ x.sample_size = Cardinality(of(d, v))
  BY <1>2 DEF Cell, CellOver
<1>4. \A e, p : ValueOf(e, p) = FacetOf(e, p)
  BY DEF ValueOf, FacetOf
<1> DEFINE facets == [e \in {d, "lifecycle_stage"} |-> IF e = "lifecycle_stage" THEN phase ELSE v]
<1>5. Search(ctx, facets, None).hits = {p \in ctx.usable : \A e \in DOMAIN facets : FacetOf(e, p) = facets[e]}
  BY DEF Search
<1>6. \A p : (\A e \in DOMAIN facets : FacetOf(e, p) = facets[e])
               <=> FacetOf(d, p) = v /\ FacetOf("lifecycle_stage", p) = phase
  <2>1. d # "lifecycle_stage"
    OBVIOUS
  <2>2. DOMAIN facets = {d, "lifecycle_stage"} /\ facets[d] = v /\ facets["lifecycle_stage"] = phase
    BY <2>1
  <2> HIDE DEF facets
  <2> QED
    BY <2>2
<1>7. \A p : inPhase(d, p) = v <=> FacetOf(d, p) = v /\ FacetOf("lifecycle_stage", p) = phase
  BY <1>4
<1>8. of(d, v) = Search(ctx, facets, None).hits
  <2> HIDE DEF facets, inPhase
  <2> QED
    BY <1>5, <1>6, <1>7 DEF of
<1> QED
  BY <1>3, <1>8

LEMMA CampaignPagesAgree ==
  ASSUME IsFiniteSet(Posts)
  PROVE  CampaignsAgree
<1> DEFINE ctx == Context(Stored, None, today)
           countdown == Countdown(today)
           plan == WeekPlan(countdown)
<1>1. ASSUME NEW t \in Projects \cap TimedTitles,
             \A p \in PostsOf(t) : ReleaseOf(t, Market[ChannelOf[p]]) = ProjectRelease(t)
      PROVE  /\ countdown.rows[t].start = Timing.titles[t].start
             /\ countdown.rows[t].posts >= Timing.titles[t].posts
  <2>1. /\ ProjectRelease(t) # None /\ OwnStart(t) = LeadDays(Earliest(TimedPosts(t)))
        /\ Cardinality(PostsOf(t)) >= Cardinality(TimedPosts(t))
    BY <1>1, StartsAgree
  <2>2. countdown.rows[t] =
          [days |-> ProjectRelease(t) - today, phase |-> Phase(ProjectRelease(t) - today),
           posts |-> Cardinality(PostsOf(t)), start |-> OwnStart(t)]
    BY <2>1 DEF Countdown
  <2>3. /\ Timing.titles[t].posts = Cardinality(TimedPosts(t))
        /\ Timing.titles[t].start = LeadDays(Earliest(TimedPosts(t)))
    BY DEF Timing
  <2> HIDE DEF countdown
  <2> QED
    BY <2>1, <2>2, <2>3
<1>2. ASSUME NEW t \in Projects, NEW x \in plan[t].fits \cup plan[t].avoid
      PROVE  plan[t].phase # None /\ x \in PhaseCells(ctx, plan[t].phase)
  <2> DEFINE phase == countdown.rows[t].phase
             strong == IF phase = None THEN {}
                       ELSE Strongest(With(countdown.cells[phase], Strong), MaxPhase)
  <2>1. plan[t] = [phase |-> phase, fits |-> Strongest(With(strong, {"over"}), 3),
                   avoid |-> Strongest(With(strong, {"under"}), 2)]
    BY DEF WeekPlan
  <2>2. \A X, n, V : Strongest(X, n) \subseteq X /\ With(X, V) \subseteq X
    BY DEF Strongest, With
  <2>3. x \in strong /\ plan[t].phase = phase
    <3> HIDE DEF strong, phase, plan
    <3>1. plan[t].fits = Strongest(With(strong, {"over"}), 3)
          /\ plan[t].avoid = Strongest(With(strong, {"under"}), 2) /\ plan[t].phase = phase
      BY <2>1
    <3> QED
      BY <1>2, <2>2, <3>1
  <2>4. phase # None /\ x \in countdown.cells[phase]
    <3> HIDE DEF phase, countdown
    <3> QED
      BY <2>2, <2>3
  <2>5. countdown.cells = [ph \in {countdown.rows[u].phase : u \in Projects} \ {None} |-> PhaseCells(ctx, ph)]
    BY DEF Countdown
  <2> HIDE DEF countdown, plan, ctx
  <2>6. countdown.cells[phase] = PhaseCells(ctx, phase)
    BY <2>4, <2>5
  <2> QED
    BY <2>3, <2>4, <2>6
<1>3. ASSUME NEW t \in Projects, NEW x \in plan[t].fits \cup plan[t].avoid
      PROVE  /\ x.of = Search(ctx, [d \in {x.dim, "lifecycle_stage"} |->
                                     IF d = "lifecycle_stage" THEN plan[t].phase ELSE x.value], None).hits
             /\ x.sample_size = Cardinality(x.of)
  <2> HIDE DEF plan, ctx
  <2> QED
    BY <1>2, <1>3, PhaseIsSearch
<1> HIDE DEF countdown, plan, ctx
<1> QED
  BY <1>1, <1>3, TimingAddsUp DEF CampaignsAgree, countdown, plan, ctx

\* The countdown starts a campaign when the timing does, every timed post is in the curve once and
\* under its channel once, and a week plan rests on the posts a search for its value and phase finds:
\* for every table of posts, release and band (_eigener_start, compute_campaign_timing, wochen_plan.py).
THEOREM CampaignPagesTellOneStory ==
  ASSUME IsFiniteSet(Posts)
  PROVE  PatternsSpec => []CampaignsAgree
BY CampaignPagesAgree, PTL

-------------------------------------------------------------------------------
(* Ranks *)

\* The first n of a set by an order under which any two elements differ.
IsTotal(R, S) == IsOrder(R, S) /\ \A x, y \in S : x = y \/ <<x, y>> \in R \/ <<y, x>> \in R
FirstOf(S, R, n) == {x \in S : Cardinality(Ahead(S, R, x)) < n}

\* The first n are n, when there are as many.
LEMMA FirstAreMany ==
  ASSUME NEW S, IsFiniteSet(S), NEW R, IsTotal(R, S)
  PROVE  \A n \in 0..Cardinality(S) : Cardinality(FirstOf(S, R, n)) = n
<1> DEFINE Good == {T \in SUBSET S : \A n \in 0..Cardinality(T) : Cardinality(FirstOf(T, R, n)) = n}
<1>1. ASSUME NEW T \in SUBSET S, \A U \in SUBSET T : U # T => U \in Good PROVE T \in Good
  <2> SUFFICES ASSUME NEW n \in 0..Cardinality(T) PROVE Cardinality(FirstOf(T, R, n)) = n
    OBVIOUS
  <2>1. \A U \in SUBSET T : IsFiniteSet(U) /\ Cardinality(U) \in Nat
    BY SubsetIsSmaller, FS_Subset
  <2>2. CASE T = {}
    <3>1. Cardinality(T) = 0 /\ FirstOf(T, R, n) = {}
      BY <2>2, FS_EmptySet DEF FirstOf
    <3> QED
      BY <3>1, FS_EmptySet
  <2>3. CASE T # {}
    <3>1. PICK x \in T : TRUE
      BY <2>3
    <3> DEFINE A == Ahead(T, R, x)
               B == (T \ A) \ {x}
               a == Cardinality(A)
               b == Cardinality(B)
    <3>2. A \in SUBSET T /\ B \in SUBSET T /\ x \notin A /\ x \notin B /\ A \cap B = {}
          /\ T = A \cup {x} \cup B
      BY <3>1 DEF IsTotal, IsOrder, Ahead
    <3>3. A \in Good /\ B \in Good /\ a \in Nat /\ b \in Nat
      BY <1>1, <2>1, <3>2
    <3>4. \A U \in SUBSET B : Cardinality(A \cup {x} \cup U) = a + 1 + Cardinality(U)
      <4> TAKE U \in SUBSET B
      <4>1. IsFiniteSet(A) /\ IsFiniteSet(U) /\ Cardinality(U) \in Nat
        BY <2>1, <3>2
      <4>2. IsFiniteSet(A \cup U) /\ Cardinality(A \cup U) = a + Cardinality(U) - Cardinality(A \cap U)
        BY <4>1, FS_Union
      <4>3. Cardinality(A \cap U) = 0 /\ x \notin A \cup U /\ A \cup {x} \cup U = (A \cup U) \cup {x}
        <5>1. A \cap U = {} /\ x \notin A \cup U
          BY <3>2
        <5> QED
          BY <5>1, FS_EmptySet
      <4> HIDE DEF A, B
      <4>4. Cardinality((A \cup U) \cup {x}) = Cardinality(A \cup U) + 1
        BY <4>2, <4>3, FS_AddElement
      <4>5. a \in Nat
        BY <3>3
      <4>6. Cardinality(A \cup U) = a + Cardinality(U)
        BY <4>1, <4>2, <4>3, <4>5
      <4>7. Cardinality(A \cup {x} \cup U) = Cardinality(A \cup U) + 1
        BY <4>3, <4>4
      <4> HIDE DEF a
      <4> QED
        BY <4>1, <4>5, <4>6, <4>7
    <3>5. Cardinality(T) = a + 1 + b
      <4> HIDE DEF A, B
      <4> QED
        BY <3>2, <3>4
    <3>6. \A y \in A : Ahead(T, R, y) = Ahead(A, R, y)
      BY <3>1 DEF IsTotal, IsOrder, Ahead
    <3>7. \A y \in B : Ahead(T, R, y) = A \cup {x} \cup Ahead(B, R, y)
      <4> TAKE y \in B
      <4>1. <<x, y>> \in R
        BY <3>1, <3>2 DEF IsTotal, Ahead
      <4> QED
        BY <3>1, <3>2, <4>1 DEF IsTotal, IsOrder, Ahead
    <3>8. \A y \in A : Cardinality(Ahead(A, R, y)) \in Nat
      BY <2>1, <3>2 DEF Ahead
    <3>9. \A y \in B : /\ Cardinality(Ahead(B, R, y)) \in Nat
                       /\ Cardinality(Ahead(T, R, y)) = a + 1 + Cardinality(Ahead(B, R, y))
      <4> TAKE y \in B
      <4>1. Ahead(B, R, y) \in SUBSET B
        BY DEF Ahead
      <4> HIDE DEF A, B
      <4> QED
        BY <2>1, <3>2, <3>4, <3>7, <4>1
    <3>10. CASE n \in 0..a
      <4>1. FirstOf(T, R, n) = FirstOf(A, R, n)
        <5>1. \A y \in B : ~(Cardinality(Ahead(T, R, y)) < n)
          <6> HIDE DEF A, B
          <6> QED
            BY <3>3, <3>9, <3>10
        <5>2. ~(Cardinality(Ahead(T, R, x)) < n)
          BY <3>3, <3>10
        <5> HIDE DEF A, B
        <5> QED
          BY <3>2, <3>6, <5>1, <5>2 DEF FirstOf
      <4> QED
        BY <3>3, <3>10, <4>1
    <3>11. CASE n \in (a + 1)..(a + 1 + b)
      <4> DEFINE k == n - a - 1
      <4>1. k \in 0..b
        BY <3>3, <3>11
      <4>2. FirstOf(T, R, n) = A \cup {x} \cup FirstOf(B, R, k)
        <5>1. \A y \in A : Cardinality(Ahead(T, R, y)) < n
          <6> TAKE y \in A
          <6>1. Ahead(A, R, y) \subseteq A
            BY DEF Ahead
          <6>2. IsFiniteSet(A)
            BY <2>1, <3>2
          <6> HIDE DEF A, B
          <6> QED
            BY <3>3, <3>6, <3>8, <3>11, <6>1, <6>2, SubsetIsSmaller
        <5>2. Cardinality(Ahead(T, R, x)) < n
          BY <3>3, <3>11
        <5>3. \A y \in B : Cardinality(Ahead(T, R, y)) < n <=> Cardinality(Ahead(B, R, y)) < k
          <6> HIDE DEF A, B
          <6> QED
            BY <3>3, <3>9, <3>11
        <5> HIDE DEF A, B, k
        <5> QED
          BY <3>2, <5>1, <5>2, <5>3 DEF FirstOf
      <4>3. FirstOf(B, R, k) \in SUBSET B
        BY DEF FirstOf
      <4>4. Cardinality(FirstOf(B, R, k)) = k
        BY <3>3, <4>1
      <4> HIDE DEF A, B
      <4> QED
        BY <3>3, <3>4, <3>11, <4>2, <4>3, <4>4
    <3> QED
      BY <3>3, <3>5, <3>10, <3>11
  <2> QED
    BY <2>2, <2>3
<1> HIDE DEF Good
<1>2. S \in Good
  BY <1>1, SubsetInduction
<1> QED
  BY <1>2 DEF Good

\* Every place up to the last is taken.
LEMMA EveryPlaceIsTaken ==
  ASSUME NEW S, IsFiniteSet(S), NEW R, IsTotal(R, S), NEW n \in Nat, n < Cardinality(S)
  PROVE  \E x \in S : Cardinality(Ahead(S, R, x)) = n
<1>1. Cardinality(S) \in Nat /\ n \in 0..Cardinality(S) /\ n + 1 \in 0..Cardinality(S)
  BY FS_CardinalityType
<1>2. Cardinality(FirstOf(S, R, n)) = n /\ Cardinality(FirstOf(S, R, n + 1)) = n + 1
  BY <1>1, FirstAreMany
<1>3. FirstOf(S, R, n) # FirstOf(S, R, n + 1)
  BY <1>2
<1>4. \A x \in S : Cardinality(Ahead(S, R, x)) \in Nat
  BY SubsetIsSmaller DEF Ahead
<1> QED
  BY <1>3, <1>4 DEF FirstOf


\* Quotients are put in an order, up to equal ones.
LEMMA LessIsAnOrder ==
  ASSUME NEW x \in Fractions, NEW y \in Fractions, NEW z \in Fractions
  PROVE  /\ ~Less(x, x) /\ (Less(x, y) => ~Less(y, x))
         /\ Less(x, y) /\ Less(y, z) => Less(x, z)
         /\ Less(x, z) => Less(x, y) \/ Less(y, z)
<1>1. PICK a \in Int, b \in Nat \ {0} : x = <<a, b>>
  BY DEF Fractions
<1>2. PICK c \in Int, d \in Nat \ {0} : y = <<c, d>>
  BY DEF Fractions
<1>3. PICK e \in Int, f \in Nat \ {0} : z = <<e, f>>
  BY DEF Fractions
<1>4. /\ Less(x, x) <=> a * b < a * b
      /\ Less(x, y) <=> a * d < c * b
      /\ Less(y, x) <=> c * b < a * d
      /\ Less(y, z) <=> c * f < e * d
      /\ Less(x, z) <=> a * f < e * b
  BY <1>1, <1>2, <1>3 DEF Less
<1>5. a * b \in Int /\ a * d \in Int /\ c * b \in Int /\ c * f \in Int /\ e * d \in Int
      /\ a * f \in Int /\ e * b \in Int
  OBVIOUS
<1>6. ASSUME a * d < c * b, c * f < e * d PROVE a * f < e * b
  <2>1. (a * d) * f < (c * b) * f
    BY <1>6
  <2>2. (c * f) * b < (e * d) * b
    BY <1>6
  <2>3. (c * b) * f = (c * f) * b /\ (a * d) * f = (a * f) * d /\ (e * d) * b = (e * b) * d
    OBVIOUS
  <2>4. (a * f) * d < (e * b) * d
    BY <2>1, <2>2, <2>3
  <2> QED
    BY <2>4
<1>7. ASSUME a * f < e * b, c * b <= a * d, e * d <= c * f PROVE FALSE
  <2>1. (c * b) * f <= (a * d) * f
    BY <1>7
  <2>2. (e * d) * b <= (c * f) * b
    BY <1>7
  <2>3. (c * b) * f = (c * f) * b /\ (a * d) * f = (a * f) * d /\ (e * d) * b = (e * b) * d
    OBVIOUS
  <2>4. (e * b) * d <= (a * f) * d
    BY <2>1, <2>2, <2>3
  <2> QED
    BY <1>7, <2>4
<1> QED
  BY <1>4, <1>5, <1>6, <1>7

\* Of numbered elements with a quotient each, every place of the order the median looks through is
\* taken.
LowerThan(v, S, p) == {q \in S : Less(v[q], v[p]) \/ (~Less(v[p], v[q]) /\ q < p)}

LEMMA EveryRankIsTaken ==
  ASSUME NEW S \in SUBSET Nat, IsFiniteSet(S), NEW v, \A p \in S : v[p] \in Fractions,
         NEW k \in Nat, k < Cardinality(S)
  PROVE  \E p \in S : Cardinality(LowerThan(v, S, p)) = k
<1> DEFINE R == {qp \in S \X S : \/ Less(v[qp[1]], v[qp[2]])
                                 \/ ~Less(v[qp[2]], v[qp[1]]) /\ qp[1] < qp[2]}
<1>1. \A p, q \in S : <<q, p>> \in R <=> Less(v[q], v[p]) \/ (~Less(v[p], v[q]) /\ q < p)
  OBVIOUS
<1> HIDE DEF R
<1>2. IsTotal(R, S)
  <2>1. ASSUME NEW x \in S, NEW y \in S, NEW z \in S, <<x, y>> \in R, <<y, z>> \in R PROVE <<x, z>> \in R
    <3>1. v[x] \in Fractions /\ v[y] \in Fractions /\ v[z] \in Fractions /\ {x, y, z} \subseteq Nat
      OBVIOUS
    <3>2. /\ ~Less(v[y], v[x]) /\ ~Less(v[z], v[y])
          /\ Less(v[x], v[y]) \/ x < y
          /\ Less(v[y], v[z]) \/ y < z
      BY <1>1, <2>1, <3>1, LessIsAnOrder
    <3>3. ~Less(v[z], v[x])
      BY <3>1, <3>2, LessIsAnOrder
    <3>4. Less(v[x], v[z]) \/ x < z
      <4>1. CASE x < y /\ y < z
        BY <3>1, <4>1
      <4>2. CASE Less(v[x], v[y])
        BY <3>1, <3>2, <4>2, LessIsAnOrder
      <4>3. CASE Less(v[y], v[z])
        BY <3>1, <3>2, <4>3, LessIsAnOrder
      <4> QED
        BY <3>2, <4>1, <4>2, <4>3
    <3> QED
      BY <1>1, <3>3, <3>4
  <2>2. \A x \in S : <<x, x>> \notin R
    BY <1>1, LessIsAnOrder
  <2>3. ASSUME NEW x \in S, NEW y \in S PROVE x = y \/ <<x, y>> \in R \/ <<y, x>> \in R
    <3>1. x \in Nat /\ y \in Nat
      OBVIOUS
    <3>2. x = y \/ x < y \/ y < x
      BY <3>1
    <3> QED
      BY <1>1, <3>2
  <2> QED
    BY <2>1, <2>2, <2>3 DEF IsTotal, IsOrder
<1>3. PICK p \in S : Cardinality(Ahead(S, R, p)) = k
  BY <1>2, EveryPlaceIsTaken
<1>4. Ahead(S, R, p) = LowerThan(v, S, p)
  BY <1>1 DEF Ahead, LowerThan
<1> QED
  BY <1>3, <1>4


\* What a stored post's numbers are, and the rate they make.
LEMMA NumbersOfPosts ==
  ASSUME TableOk, NEW p \in Stored
  PROVE  /\ p \in Posts /\ p \in Nat /\ post[p] \in PostRow
         /\ post[p].detected \in Int /\ post[p].views \in Int /\ post[p].likes \in Int
         /\ post[p].saves \in Int /\ post[p].shares \in Int
         /\ Engagement(p) \in Nat
<1>1. post[p] \in PostRow /\ p \in Posts /\ p \in Nat
  BY PostTableAssumption DEF TableOk, Stored
<1>2. /\ post[p].detected \in Int /\ post[p].views \in Int /\ post[p].likes \in Int
      /\ post[p].saves \in Int /\ post[p].shares \in Int
  BY <1>1 DEF PostRow
<1> QED
  BY <1>1, <1>2 DEF Engagement, Positive

\* The median of a channel is a quotient, and so is every lift.
LEMMA LiftsAreQuotients ==
  ASSUME IsFiniteSet(Posts), TableOk, NEW m, NEW now
  PROVE  LET ctx == Context(Stored, m, now)
         IN  /\ ctx.usable \subseteq Stored /\ IsFiniteSet(ctx.usable)
             /\ \A p \in ctx.usable : ctx.lift[p] \in Fractions
<1> DEFINE measured == {p \in Windowed(Stored, m, now) : Measurable(p)}
           rate(p) == Activation(p, Platform[ChannelOf[p]])
           of(c) == {p \in measured : ChannelOf[p] = c}
           median == [c \in Channels |-> Median(of(c), rate)]
           covered == {c \in Channels : Cardinality(of(c)) >= MinChannelPosts /\ median[c][1] > 0}
           usable == {p \in measured : ChannelOf[p] \in covered}
           lift == [p \in usable |-> Over(rate(p), median[ChannelOf[p]])]
<1>1. Context(Stored, m, now).usable = usable /\ Context(Stored, m, now).lift = lift
  BY DEF Context
<1>2. measured \subseteq Stored /\ IsFiniteSet(measured) /\ measured \subseteq Nat
  <2>1. measured \subseteq Stored /\ Stored \subseteq Posts /\ Posts \subseteq Nat
    BY PostTableAssumption DEF Windowed, Stored
  <2> QED
    BY <2>1, SubsetIsSmaller
<1>3. \A p \in measured : rate(p) \in Fractions
  <2> TAKE p \in measured
  <2>1. p \in Stored /\ post[p].views > 0
    BY <1>2 DEF Measurable
  <2>2. post[p].views \in Int /\ post[p].likes \in Int /\ post[p].saves \in Int
    BY <2>1, NumbersOfPosts
  <2>3. Activation(p, Platform[ChannelOf[p]]) =
          <<Positive(post[p].likes)
              + (IF Platform[ChannelOf[p]] = "youtube" THEN 0 ELSE Positive(post[p].saves)), post[p].views>>
    BY <2>1, <2>2 DEF Activation
  <2>4. Positive(post[p].likes) \in Int /\ Positive(post[p].saves) \in Int
    BY <2>2 DEF Positive
  <2> QED
    BY <2>1, <2>2, <2>3, <2>4 DEF Fractions
<1> HIDE DEF measured, rate
<1>4. ASSUME NEW c \in Channels PROVE Median(of(c), rate) \in Fractions
  <2> DEFINE S == of(c)
             n == Cardinality(S)
             before(q, p) == Less(rate(q), rate(p)) \/ (~Less(rate(p), rate(q)) /\ q < p)
             at(k) == rate(CHOOSE p \in S : Cardinality({q \in S : before(q, p)}) = k)
             v == [p \in S |-> rate(p)]
  <2>1. IsFiniteSet(S) /\ n \in Nat /\ S \in SUBSET Nat /\ \A p \in S : v[p] \in Fractions
    BY <1>2, <1>3, SubsetIsSmaller
  <2>2. Median(S, rate) = IF n = 0 THEN <<0, 1>>
                          ELSE IF n % 2 = 1 THEN at(n \div 2)
                          ELSE Over(Plus(at(n \div 2 - 1), at(n \div 2)), <<2, 1>>)
    BY DEF Median
  <2>3. \A p \in S : LowerThan(v, S, p) = {q \in S : before(q, p)}
    BY DEF LowerThan
  <2>4. \A p \in S : rate(p) \in Fractions
    BY <1>3
  <2> HIDE DEF S, v, before
  <2>5. ASSUME NEW k \in Nat, k < n PROVE at(k) \in Fractions
    <3>1. \E p \in S : Cardinality(LowerThan(v, S, p)) = k
      <4>1. IsFiniteSet(S) /\ S \in SUBSET Nat /\ k < Cardinality(S) /\ \A p \in S : v[p] \in Fractions
        BY <2>1, <2>5
      <4> HIDE DEF n, at
      <4> QED
        BY <4>1, EveryRankIsTaken
    <3>2. \E p \in S : Cardinality({q \in S : before(q, p)}) = k
      BY <2>3, <3>1
    <3>3. (CHOOSE p \in S : Cardinality({q \in S : before(q, p)}) = k) \in S
      BY <3>2
    <3> QED
      BY <2>4, <3>3
  <2>6. \A x, y \in Fractions : Over(Plus(x, y), <<2, 1>>) \in Fractions
    <3> TAKE x, y \in Fractions
    <3>1. PICK a \in Int, b \in Nat \ {0} : Plus(x, y) = <<a, b>>
      BY PlusIsFair DEF Fractions
    <3>2. Over(Plus(x, y), <<2, 1>>) = <<a, b * 2>>
      BY <3>1 DEF Over
    <3> QED
      BY <3>2 DEF Fractions
  <2>7. <<0, 1>> \in Fractions
    BY DEF Fractions
  <2>8. n # 0 => n \div 2 \in Nat /\ n \div 2 < n
    BY <2>1
  <2>9. n # 0 /\ n % 2 # 1 => n \div 2 - 1 \in Nat /\ n \div 2 - 1 < n
    BY <2>1
  <2> HIDE DEF at, n
  <2> QED
    BY <2>2, <2>5, <2>6, <2>7, <2>8, <2>9 DEF S
<1>5. ASSUME NEW p \in usable PROVE lift[p] \in Fractions
  <2>1. p \in measured /\ ChannelOf[p] \in Channels /\ median[ChannelOf[p]][1] > 0
    OBVIOUS
  <2>2. median[ChannelOf[p]] \in Fractions
    BY <1>4, <2>1
  <2>3. lift[p] = Over(rate(p), median[ChannelOf[p]])
    OBVIOUS
  <2>4. rate(p) \in Fractions
    BY <1>3, <2>1
  <2> HIDE DEF median, usable
  <2>5. PICK a \in Int, b \in Nat \ {0} : rate(p) = <<a, b>>
    BY <2>4 DEF Fractions
  <2>6. PICK c \in Int, d \in Nat \ {0} : median[ChannelOf[p]] = <<c, d>>
    BY <2>2 DEF Fractions
  <2>7. lift[p] = <<a * d, b * c>> /\ c > 0
    BY <2>1, <2>3, <2>5, <2>6 DEF Over
  <2>8. a * d \in Int /\ b * c \in Nat \ {0}
    BY <2>7
  <2> QED
    BY <2>7, <2>8 DEF Fractions
<1>6. usable \subseteq Stored /\ IsFiniteSet(usable)
  BY <1>2, SubsetIsSmaller
<1> QED
  BY <1>1, <1>5, <1>6


-------------------------------------------------------------------------------
(* Views of the report *)

\* What a report has a cell for, and what the cell says of its posts.
LEMMA CellsAre ==
  ASSUME NEW ctx
  PROVE  LET cells == ReportIn(ctx, None).cells
         IN  /\ \A x \in cells :
                  /\ x.dim \in Dimensions /\ x.value # None /\ x.of # {}
                  /\ x.of = PostsForCell(ctx, x.dim, x.value)
                  /\ x.sample_size = Cardinality(x.of) /\ x.rate = HitRate(ctx, x.of)
             /\ \A d \in Dimensions, p \in ctx.usable : ValueOf(d, p) # None =>
                  \E x \in cells : x.dim = d /\ x.value = ValueOf(d, p)
<1> DEFINE U == {p \in ctx.usable : None = None \/ FormatClass(p) = None}
           of(d, v) == {p \in U : ValueOf(d, p) = v}
           values(d) == {ValueOf(d, p) : p \in U} \ {None}
           cell(d, v) == Cell(ctx, U, d, v, of(d, v))
           cells == UNION {{cell(d, v) : v \in values(d)} : d \in Dimensions}
<1>1. ReportIn(ctx, None).cells = cells
  BY DEF ReportIn, Summary, Cells
<1>2. U = ctx.usable
  OBVIOUS
<1>3. \A d, v : /\ cell(d, v).dim = d /\ cell(d, v).value = v /\ cell(d, v).of = of(d, v)
                /\ cell(d, v).sample_size = Cardinality(of(d, v))
                /\ cell(d, v).rate = HitRate(ctx, of(d, v))
  <2> TAKE d, v
  <2> HIDE DEF of
  <2> QED
    BY DEF Cell, CellOver
<1> HIDE DEF U, cell
<1>4. \A d, v : of(d, v) = PostsForCell(ctx, d, v)
  BY <1>2 DEF PostsForCell
<1>5. \A d, v : v \in values(d) => v # None /\ of(d, v) # {}
  OBVIOUS
<1>6. ASSUME NEW x \in cells
      PROVE  \E d \in Dimensions : \E v \in values(d) : x = cell(d, v)
  BY <1>6
<1>7. \A d \in Dimensions : \A v \in values(d) : cell(d, v) \in cells
  OBVIOUS
<1>8. \A d \in Dimensions, p \in ctx.usable : ValueOf(d, p) # None => ValueOf(d, p) \in values(d)
  BY <1>2
<1> HIDE DEF cells, values, of
<1>9. \A x \in cells :
        /\ x.dim \in Dimensions /\ x.value # None /\ x.of # {}
        /\ x.of = PostsForCell(ctx, x.dim, x.value)
        /\ x.sample_size = Cardinality(x.of) /\ x.rate = HitRate(ctx, x.of)
  <2> TAKE x \in cells
  <2>1. PICK d \in Dimensions : \E v \in values(d) : x = cell(d, v)
    BY <1>6
  <2>2. PICK v \in values(d) : x = cell(d, v)
    BY <2>1
  <2> QED
    BY <1>3, <1>4, <1>5, <2>2
<1>10. \A d \in Dimensions, p \in ctx.usable : ValueOf(d, p) # None =>
         \E x \in cells : x.dim = d /\ x.value = ValueOf(d, p)
  BY <1>3, <1>7, <1>8
<1> QED
  BY <1>1, <1>9, <1>10

\* The classifier answers in the vocabulary it is given, the draft check refuses anything else.
AnswersInVocabulary == \A a \in Analyses : a.format \in Formats \cup {None}

\* None is no number, no text and none of the pages.
NoneIsNoPage ==
    /\ \A checks, chances : None # [checks |-> checks, chances |-> chances]
    /\ \A n, d : None # <<n, d>>
    /\ None \notin {"untestable", "explained", "localized", "everywhere"} \cup Classes

\* The draft of a post is judged as the cells it is counted in.
LEMMA JudgedAsInReport ==
  ASSUME IsFiniteSet(Posts), TableOk, NoneIsNoPost, NoneIsNoPage, AnswersInVocabulary,
         NEW ctx, ctx.usable \subseteq Stored, NEW cells, cells = ReportIn(ctx, None).cells,
         OneCellPerName(cells), NEW p \in ctx.usable
  PROVE  JudgedAsCounted(p, cells, [d \in DraftDims |-> ValueOf(d, p)])
<1> DEFINE draft == [d \in DraftDims |-> ValueOf(d, p)]
           mine == {x \in cells : x.dim \in DraftDims /\ p \in x.of}
           page == PostCheckPage(cells, draft)
<1>1. "format" \in DraftDims
  BY DEF DraftDims
<1>2. draft["format"] \in Formats \cup {None}
  <2>1. p \in Stored /\ post[p] \in PostRow
    BY NumbersOfPosts
  <2>2. post[p].analysis \in Analyses \cup {None}
    BY <2>1 DEF PostRow
  <2>3. ValueOf("format", p) = IF ~Sure(p) THEN None ELSE post[p].analysis.format
    <3>1. Extract("format", p) = post[p].analysis.format
      BY DEF Extract, CoverDims
    <3>2. "format" \in ModelDims
      BY DEF ModelDims
    <3> QED
      BY <3>1, <3>2 DEF ValueOf
  <2> QED
    BY <1>1, <2>2, <2>3 DEF Sure, AnswersInVocabulary
<1>3. page = [checks |-> Checks(cells, draft), chances |-> Chances(cells, draft)]
  <2> HIDE DEF draft
  <2> QED
    BY <1>2 DEF PostCheckPage
<1>4. page # None /\ page.checks = Checks(cells, draft) /\ page.chances = Chances(cells, draft)
  <2> HIDE DEF page, draft
  <2>1. \A a, b : None # [checks |-> a, chances |-> b]
    BY DEF NoneIsNoPage
  <2> QED
    BY <1>3, <2>1
<1>5. mine = {x \in cells : x.dim \in DraftDims /\ draft[x.dim] = x.value}
  <2>1. \A x \in cells : p \in x.of <=> ValueOf(x.dim, p) = x.value
    BY CellsAre DEF PostsForCell
  <2>2. \A x \in cells : x.dim \in DraftDims => draft[x.dim] = ValueOf(x.dim, p)
    OBVIOUS
  <2> HIDE DEF draft
  <2> QED
    BY <2>1, <2>2
<1>6. ASSUME NEW x \in mine
      PROVE  /\ page.checks[x.dim].finding = "gut" <=> x.breakout_verdict = "over"
             /\ page.checks[x.dim].finding = "achtung" <=> x.breakout_verdict = "under"
             /\ page.checks[x.dim].tips \cap mine = {}
  <2> DEFINE d == x.dim
             better == {y \in With(cells, {"over"}) : y.dim = d /\ y.value # draft[d]}
             finding == Judgement(cells, d, draft[d])
  <2>1. x \in cells /\ d \in DraftDims /\ draft[d] = x.value /\ x.value # None
    BY <1>5, <1>6, CellsAre
  <2>2. page.checks[d] = [finding |-> finding, tips |-> IF finding = "achtung" THEN Strongest(better, 1) ELSE {}]
    <3> HIDE DEF draft, page
    <3> QED
      BY <1>4, <2>1 DEF Checks
  <2>3. {y \in cells : y.dim = d /\ y.value = draft[d]} = {x}
    <3>1. \A y \in cells : y.dim = d /\ y.value = draft[d] => y = x
      BY <2>1 DEF OneCellPerName, NameOf
    <3> HIDE DEF draft
    <3> QED
      BY <2>1, <3>1
  <2>4. {y.breakout_verdict : y \in {z \in cells : z.dim = d /\ z.value = draft[d]}} = {x.breakout_verdict}
    <3> HIDE DEF draft
    <3> QED
      BY <2>3
  <2>5. finding = CASE {x.breakout_verdict} = {"over"} -> "gut" [] {x.breakout_verdict} = {"under"} -> "achtung"
                    [] {x.breakout_verdict} = {"neutral"} -> "neutral" [] OTHER -> "kein_befund"
    <3> HIDE DEF draft
    <3> QED
      BY <2>4 DEF Judgement
  <2>6. /\ finding = "gut" <=> x.breakout_verdict = "over"
        /\ finding = "achtung" <=> x.breakout_verdict = "under"
    <3> HIDE DEF finding
    <3>1. \A a, b : {a} = {b} <=> a = b
      OBVIOUS
    <3> QED
      BY <2>5, <3>1
  <2>7. Strongest(better, 1) \cap mine = {}
    <3>1. \A y \in mine : y.dim \in DraftDims /\ draft[y.dim] = y.value
      BY <1>5
    <3>2. \A y \in Strongest(better, 1) : y.dim = d /\ y.value # draft[d]
      BY DEF Strongest
    <3> HIDE DEF mine, draft, better
    <3> QED
      BY <3>1, <3>2
  <2> HIDE DEF page, finding, better, mine, draft
  <2> QED
    BY <2>2, <2>6, <2>7
<1>7. page.chances \cap mine = {}
  <2>1. \A y \in mine : y.dim \in DraftDims /\ draft[y.dim] = y.value
    BY <1>5
  <2>2. \A y \in Chances(cells, draft) : ~(y.dim \in DraftDims /\ draft[y.dim] = y.value)
    <3> HIDE DEF draft
    <3> QED
      BY DEF Chances, Strongest
  <2> HIDE DEF mine, draft, page
  <2> QED
    BY <1>4, <2>1, <2>2
<1> HIDE DEF page, draft
<1> QED
  BY <1>4, <1>5, <1>6, <1>7 DEF JudgedAsCounted, page, draft


\* Posts sorted by a quotient, the highest first; of equal ones the first stored.
HighestFirst(v, S) ==
    {pq \in S \X S : \/ Less(v[pq[2]], v[pq[1]])
                     \/ ~Less(v[pq[1]], v[pq[2]]) /\ pq[1] < pq[2]}

LEMMA HighestFirstIsTotal ==
  ASSUME NEW S \in SUBSET Nat, NEW v, \A p \in S : v[p] \in Fractions
  PROVE  IsTotal(HighestFirst(v, S), S)
<1> DEFINE R == HighestFirst(v, S)
<1>1. \A p, q \in S : <<p, q>> \in R <=> Less(v[q], v[p]) \/ (~Less(v[p], v[q]) /\ p < q)
  BY DEF HighestFirst
<1> HIDE DEF R
<1>2. ASSUME NEW x \in S, NEW y \in S, NEW z \in S, <<x, y>> \in R, <<y, z>> \in R PROVE <<x, z>> \in R
  <2>1. v[x] \in Fractions /\ v[y] \in Fractions /\ v[z] \in Fractions /\ {x, y, z} \subseteq Nat
    OBVIOUS
  <2>2. /\ ~Less(v[x], v[y]) /\ ~Less(v[y], v[z])
        /\ Less(v[y], v[x]) \/ x < y
        /\ Less(v[z], v[y]) \/ y < z
    BY <1>1, <1>2, <2>1, LessIsAnOrder
  <2>3. ~Less(v[x], v[z])
    BY <2>1, <2>2, LessIsAnOrder
  <2>4. Less(v[z], v[x]) \/ x < z
    <3>1. CASE x < y /\ y < z
      BY <2>1, <3>1
    <3>2. CASE Less(v[y], v[x])
      BY <2>1, <2>2, <3>2, LessIsAnOrder
    <3>3. CASE Less(v[z], v[y])
      BY <2>1, <2>2, <3>3, LessIsAnOrder
    <3> QED
      BY <2>2, <3>1, <3>2, <3>3
  <2> QED
    BY <1>1, <2>3, <2>4
<1>3. \A x \in S : <<x, x>> \notin R
  BY <1>1, LessIsAnOrder
<1>4. ASSUME NEW x \in S, NEW y \in S PROVE x = y \/ <<x, y>> \in R \/ <<y, x>> \in R
  <2>1. x \in Nat /\ y \in Nat
    OBVIOUS
  <2>2. x = y \/ x < y \/ y < x
    BY <2>1
  <2> QED
    BY <1>1, <2>2
<1> QED
  BY <1>2, <1>3, <1>4 DEF IsTotal, IsOrder, R

\* Some post has the highest lift, and a page that shows the highest n leaves no higher one out.
LEMMA HighestAreShown ==
  ASSUME NEW S \in SUBSET Nat, IsFiniteSet(S), S # {}, NEW v, \A p \in S : v[p] \in Fractions,
         NEW n \in Nat, n > 0
  PROVE  LET shown == {p \in S : Cardinality({q \in S : Less(v[p], v[q])}) < n}
         IN  shown # {} /\ \A p \in shown, q \in S \ shown : ~Less(v[p], v[q])
<1> DEFINE higher(p) == {q \in S : Less(v[p], v[q])}
           shown == {p \in S : Cardinality(higher(p)) < n}
<1>1. Cardinality(S) \in Nat /\ Cardinality(S) > 0
  BY FS_CardinalityType, FS_EmptySet
<1>2. PICK p \in S : Cardinality(Ahead(S, HighestFirst(v, S), p)) = 0
  BY <1>1, HighestFirstIsTotal, EveryPlaceIsTaken
<1>3. Ahead(S, HighestFirst(v, S), p) = {}
  <2>1. IsFiniteSet(Ahead(S, HighestFirst(v, S), p))
    BY SubsetIsSmaller DEF Ahead
  <2> QED
    BY <1>2, <2>1, FS_EmptySet
<1>4. higher(p) = {}
  BY <1>3 DEF Ahead, HighestFirst
<1>5. p \in shown
  BY <1>4, FS_EmptySet
<1>6. ASSUME NEW x \in shown, NEW y \in S \ shown, Less(v[x], v[y]) PROVE FALSE
  <2>1. higher(y) \subseteq higher(x)
    BY <1>6, LessIsAnOrder
  <2>2. IsFiniteSet(higher(x)) /\ Cardinality(higher(x)) < n /\ ~(Cardinality(higher(y)) < n)
    BY SubsetIsSmaller
  <2> HIDE DEF higher
  <2>3. Cardinality(higher(y)) <= Cardinality(higher(x)) /\ Cardinality(higher(y)) \in Nat
        /\ Cardinality(higher(x)) \in Nat
    BY <2>1, <2>2, SubsetIsSmaller
  <2> QED
    BY <2>2, <2>3
<1> QED
  BY <1>5, <1>6

\* The pages that search, check and advise show the posts the report counted.
LEMMA ViewsAreTheReport ==
  ASSUME IsFiniteSet(Posts), TableOk, NoneIsNoPost, NoneIsNoPage, AnswersInVocabulary
  PROVE  ViewsMatchReport
<1> DEFINE ctx == Context(Stored, None, today)
           cells == ReportIn(ctx, None).cells
           all == Search(ctx, [d \in {} |-> None], None)
<1>1. /\ ctx.usable \subseteq Stored /\ IsFiniteSet(ctx.usable)
      /\ \A p \in ctx.usable : ctx.lift[p] \in Fractions
  BY LiftsAreQuotients
<1>2. OneCellPerName(cells)
  BY CellsOfReport DEF Report, ReportOf
<1>3. ctx.hits = {p \in ctx.usable : AtLeast(ctx.lift[p], <<2, 1>>)}
  BY DEF Context
<1> HIDE DEF ctx
<1>4. \A d, p : ValueOf(d, p) = FacetOf(d, p)
  BY DEF ValueOf, FacetOf
<1>5. ASSUME NEW x \in cells
      PROVE  LET facet == [d \in {x.dim} |-> x.value]
             IN  FoundAsCounted(x, all, SearchPage(ctx, facet, None).hits,
                                SearchPage(ctx, facet, <<2, 1>>).hits)
  <2> DEFINE facet == [d \in {x.dim} |-> x.value]
             posts == SearchPage(ctx, facet, None).hits
             hits == SearchPage(ctx, facet, <<2, 1>>).hits
             of(d, v) == {p \in ctx.usable : FacetOf(d, p) = v}
  <2>1. /\ x.dim \in Dimensions /\ x.value # None /\ x.of # {}
        /\ x.of = PostsForCell(ctx, x.dim, x.value)
        /\ x.rate = HitRate(ctx, x.of)
    BY CellsAre
  <2>2. x.of = of(x.dim, x.value)
    BY <1>4, <2>1 DEF PostsForCell
  <2>3. DOMAIN facet = {x.dim} /\ facet[x.dim] = x.value
    OBVIOUS
  <2>4. posts = x.of
    <3> HIDE DEF facet, cells
    <3> QED
      BY <2>1, <2>2, <2>3 DEF SearchPage, Search
  <2>5. hits = x.of \cap ctx.hits
    <3>1. <<2, 1>> # None
      BY DEF NoneIsNoPage
    <3> HIDE DEF facet, cells
    <3>2. hits = {p \in ctx.usable : FacetOf(x.dim, p) = x.value /\ AtLeast(ctx.lift[p], <<2, 1>>)}
      BY <2>1, <2>3, <3>1 DEF SearchPage, Search
    <3> QED
      BY <1>3, <2>2, <3>2
  <2>6. all.counts[x.dim][x.value] = Cardinality(x.of)
    <3> DEFINE none == [d \in {} |-> None]
               hits0 == Search(ctx, none, None).hits
               values(d) == {FacetOf(d, p) : p \in hits0} \ {None}
    <3>1. hits0 = ctx.usable
      <4>1. DOMAIN none = {}
        OBVIOUS
      <4> HIDE DEF none
      <4> QED
        BY <4>1 DEF Search
    <3> HIDE DEF none
    <3>2. all.counts = [d \in Dimensions |->
                          [v \in values(d) |-> Cardinality({p \in hits0 : FacetOf(d, p) = v})]]
      BY DEF Search, none
    <3> HIDE DEF all, hits0, cells
    <3>3. x.value \in values(x.dim)
      BY <2>1, <2>2, <3>1
    <3> HIDE DEF values
    <3>4. all.counts[x.dim][x.value] = Cardinality({p \in hits0 : FacetOf(x.dim, p) = x.value})
      BY <2>1, <3>2, <3>3
    <3> QED
      BY <2>2, <3>1, <3>4
  <2> HIDE DEF posts, hits, all, cells, facet
  <2> QED
    BY <2>1, <2>4, <2>5, <2>6 DEF FoundAsCounted, HitRate, posts, hits, facet
<1>6. ASSUME NEW t \in Titles, NEW a \in StartBrief(t, ctx, cells).advice
      PROVE  /\ a.examples # {} /\ a.examples \subseteq a.cell.of
             /\ \A p \in a.examples, q \in a.cell.of \ a.examples : ~Less(ctx.lift[p], ctx.lift[q])
  <2>1. PICK x \in With(cells, {"over"}) : a = [cell |-> x, examples |-> Examples(ctx, x.dim, x.value)]
    BY DEF StartBrief
  <2>2. x \in cells /\ x.of # {} /\ x.of = PostsForCell(ctx, x.dim, x.value)
    BY <2>1, CellsAre DEF With
  <2> DEFINE S == x.of
             v == ctx.lift
             shown == {p \in S : Cardinality({q \in S : Less(v[p], v[q])}) < MaxExamples}
  <2>3. a.cell = x /\ a.examples = shown
    BY <2>1, <2>2 DEF Examples
  <2>4. S \subseteq ctx.usable
    BY <2>2 DEF PostsForCell
  <2>5. IsFiniteSet(S) /\ S \in SUBSET Nat /\ S # {} /\ \A p \in S : v[p] \in Fractions
    <3>1. Stored \subseteq Nat
      BY PostTableAssumption DEF Stored
    <3> HIDE DEF cells
    <3> QED
      BY <1>1, <2>2, <2>4, <3>1, SubsetIsSmaller
  <2>6. MaxExamples \in Nat /\ MaxExamples > 0
    BY PagesAssumption
  <2> HIDE DEF S, v, cells
  <2>7. shown # {} /\ \A p \in shown, q \in S \ shown : ~Less(v[p], v[q])
    BY <2>5, <2>6, HighestAreShown
  <2>8. shown \subseteq S
    OBVIOUS
  <2> HIDE DEF shown
  <2> QED
    BY <2>3, <2>7, <2>8 DEF S, v
<1>7. \A p \in ctx.usable : JudgedAsCounted(p, cells, [d \in DraftDims |-> ValueOf(d, p)])
  BY <1>1, <1>2, JudgedAsInReport
<1> HIDE DEF cells, all
<1>8. PagesMatch(ctx, cells, all)
  BY <1>5, <1>6, <1>7 DEF PagesMatch
<1> QED
  BY <1>8 DEF ViewsMatchReport, ctx, cells, all


-------------------------------------------------------------------------------
(* The posts behind an advice *)

\* Who is ahead of a post is ahead of all posts behind it.
LEMMA AheadGrows ==
  ASSUME NEW S, IsFiniteSet(S), NEW R, IsTotal(R, S), NEW T \in SUBSET S, NEW n,
         NEW x \in S, NEW y \in S, <<x, y>> \in R, n \in Nat, Cardinality(Ahead(T, R, y)) < n
  PROVE  Cardinality(Ahead(T, R, x)) < n
<1>1. Ahead(T, R, x) \subseteq Ahead(T, R, y) /\ Ahead(T, R, y) \subseteq S
  BY DEF Ahead, IsTotal, IsOrder
<1>2. IsFiniteSet(Ahead(T, R, y))
  BY <1>1, SubsetIsSmaller
<1>3. /\ Cardinality(Ahead(T, R, x)) <= Cardinality(Ahead(T, R, y))
      /\ Cardinality(Ahead(T, R, x)) \in Nat /\ Cardinality(Ahead(T, R, y)) \in Nat
  BY <1>1, <1>2, SubsetIsSmaller
<1> QED
  BY <1>3

\* The examples of a genre are its best posts but for the titles that have their share already.
LEMMA MixedIsCapped ==
  ASSUME NEW ctx, NEW S \in SUBSET Nat, IsFiniteSet(S), S # {},
         \A p \in S : ctx.lift[p] \in Fractions
  PROVE  LET E == ShownPosts(ctx, Mixed(ctx, S))
         IN  /\ E # {} /\ E \subseteq S
             /\ \A p \in E, q \in S \ E : Less(ctx.lift[p], ctx.lift[q]) =>
                  /\ TitleOf(q) # None
                  /\ Cardinality({r \in E : TitleOf(r) = TitleOf(q)}) = PerTitle
<1> DEFINE v == ctx.lift
           R == HighestFirst(v, S)
           T(q) == {r \in S : TitleOf(r) = TitleOf(q)}
           M == Mixed(ctx, S)
           E == ShownPosts(ctx, M)
<1>1. \A p, q \in S : <<p, q>> \in R <=> Above(ctx, p, q)
  BY DEF HighestFirst, Above
<1>2. IsTotal(R, S)
  <2> HIDE DEF v
  <2>1. \A p \in S : v[p] \in Fractions
    BY DEF v
  <2> QED
    BY <2>1, HighestFirstIsTotal
<1>3. \A p, q \in S : Less(v[p], v[q]) => <<q, p>> \in R
  BY DEF HighestFirst
<1>4. {PatternExamples, PerTitle} \subseteq Nat /\ PatternExamples > 0 /\ PerTitle > 0
  BY AdviceAssumption
<1> HIDE DEF R, v
<1>5. M = {p \in S : TitleOf(p) = None \/ Cardinality(Ahead(T(p), R, p)) < PerTitle}
  <2>1. \A p \in S : {q \in S : TitleOf(q) = TitleOf(p) /\ Above(ctx, q, p)} = Ahead(T(p), R, p)
    BY <1>1 DEF Ahead
  <2> QED
    BY <2>1 DEF Mixed
<1> HIDE DEF M
<1>6. E = {p \in M : Cardinality(Ahead(M, R, p)) < PatternExamples}
  <2>1. M \subseteq S
    BY <1>5
  <2>2. \A p \in M : {q \in M : Above(ctx, q, p)} = Ahead(M, R, p)
    BY <1>1, <2>1 DEF Ahead
  <2> QED
    BY <2>2 DEF ShownPosts
<1> HIDE DEF E
<1>7. M \in SUBSET S /\ E \subseteq M /\ \A q : T(q) \in SUBSET S
  BY <1>5, <1>6
<1>8. E # {}
  <2>1. Cardinality(S) \in Nat /\ Cardinality(S) > 0
    BY FS_CardinalityType, FS_EmptySet
  <2>2. PICK p \in S : Cardinality(Ahead(S, R, p)) = 0
    <3>1. 0 \in Nat /\ 0 < Cardinality(S)
      BY <2>1
    <3> QED
      BY <1>2, <3>1, EveryPlaceIsTaken
  <2>3. Ahead(S, R, p) = {}
    <3>1. IsFiniteSet(Ahead(S, R, p))
      BY SubsetIsSmaller DEF Ahead
    <3> QED
      BY <2>2, <3>1, FS_EmptySet
  <2>4. Ahead(T(p), R, p) = {} /\ Ahead(M, R, p) = {}
    BY <1>7, <2>3 DEF Ahead
  <2>5. Cardinality(Ahead(T(p), R, p)) < PerTitle /\ Cardinality(Ahead(M, R, p)) < PatternExamples
    BY <1>4, <2>4, FS_EmptySet
  <2> QED
    BY <1>5, <1>6, <2>5
<1>9. ASSUME NEW p \in E, NEW q \in S \ E, Less(v[p], v[q])
      PROVE  TitleOf(q) # None /\ Cardinality({r \in E : TitleOf(r) = TitleOf(q)}) = PerTitle
  <2>1. p \in S /\ q \in S /\ <<q, p>> \in R /\ Cardinality(Ahead(M, R, p)) < PatternExamples
    BY <1>3, <1>6, <1>7, <1>9
  <2>2. \A x \in M : <<x, p>> \in R => x \in E
    <3> SUFFICES ASSUME NEW x \in M, <<x, p>> \in R PROVE x \in E
      OBVIOUS
    <3>1. Cardinality(Ahead(M, R, x)) < PatternExamples
      BY <1>2, <1>4, <1>7, <2>1, AheadGrows
    <3> QED
      BY <1>6, <3>1
  <2>3. q \notin M
    BY <1>9, <2>1, <2>2
  <2>4. TitleOf(q) # None /\ ~(Cardinality(Ahead(T(q), R, q)) < PerTitle)
    BY <1>5, <2>1, <2>3
  <2> DEFINE Q == T(q)
             F == FirstOf(Q, R, PerTitle)
  <2>5. Q \in SUBSET S /\ q \in Q /\ IsFiniteSet(Q) /\ \A r \in Q : T(r) = Q /\ TitleOf(r) = TitleOf(q)
    <3>1. Q \in SUBSET S
      OBVIOUS
    <3> QED
      BY <2>1, <3>1, SubsetIsSmaller
  <2>6. \A r \in S : r \in Q <=> TitleOf(r) = TitleOf(q)
    OBVIOUS
  <2> HIDE DEF Q, T
  <2>7. IsTotal(R, Q)
    BY <1>2, <2>5 DEF IsTotal, IsOrder
  <2>8. Cardinality(F) = PerTitle
    <3>1. Ahead(Q, R, q) \subseteq Q
      BY DEF Ahead
    <3>2. Cardinality(Ahead(Q, R, q)) <= Cardinality(Q) /\ Cardinality(Q) \in Nat
          /\ Cardinality(Ahead(Q, R, q)) \in Nat
      BY <2>5, <3>1, SubsetIsSmaller
    <3>3. ~(Cardinality(Ahead(Q, R, q)) < PerTitle)
      BY <2>4 DEF Q
    <3>4. PerTitle \in 0..Cardinality(Q)
      BY <1>4, <3>2, <3>3
    <3> QED
      BY <2>5, <2>7, <3>4, FirstAreMany
  <2>9. ASSUME NEW r \in F PROVE r \in E /\ TitleOf(r) = TitleOf(q)
    <3>1. r \in Q /\ r \in S /\ Cardinality(Ahead(Q, R, r)) < PerTitle
      BY <2>5 DEF FirstOf
    <3>2. r \in M
      BY <1>5, <2>5, <3>1
    <3>3. r # q /\ <<q, r>> \notin R
      <4>1. ~(Cardinality(Ahead(Q, R, q)) < PerTitle)
        BY <2>4 DEF Q
      <4>2. <<q, r>> \in R => Cardinality(Ahead(Q, R, q)) < PerTitle
        BY <1>2, <1>4, <2>5, <3>1, AheadGrows
      <4> QED
        BY <3>1, <4>1, <4>2
    <3>4. <<r, q>> \in R
      BY <2>5, <2>7, <3>1, <3>3 DEF IsTotal
    <3>5. <<r, p>> \in R
      BY <1>2, <2>1, <3>1, <3>4 DEF IsTotal, IsOrder
    <3> QED
      BY <2>2, <2>5, <3>1, <3>2, <3>5
  <2>10. ASSUME NEW r \in E, TitleOf(r) = TitleOf(q) PROVE r \in F
    <3>1. r \in M /\ r \in S /\ r \in Q
      BY <1>7, <2>6, <2>10
    <3>2. Cardinality(Ahead(Q, R, r)) < PerTitle
      BY <1>5, <2>4, <2>5, <2>10, <3>1
    <3> QED
      BY <3>1, <3>2 DEF FirstOf
  <2>11. {r \in E : TitleOf(r) = TitleOf(q)} = F
    <3> HIDE DEF F
    <3>1. F \subseteq {r \in E : TitleOf(r) = TitleOf(q)}
      BY <2>9
    <3>2. {r \in E : TitleOf(r) = TitleOf(q)} \subseteq F
      BY <2>10
    <3> QED
      BY <3>1, <3>2
  <2> QED
    BY <2>4, <2>8, <2>11
<1>10. E \subseteq S
  BY <1>7
<1> QED
  BY <1>8, <1>9, <1>10 DEF E, M, v


\* The evidence of the genre texts is made of posts of their cells.
LEMMA GenreEvidence ==
  ASSUME NEW ctx, ctx.usable \subseteq Nat, IsFiniteSet(ctx.usable),
         \A p \in ctx.usable : ctx.lift[p] \in Fractions,
         NEW e \in BriefingEvidence("genre", ctx, ReportIn(ctx, None).cells)
  PROVE  /\ e.examples # {} /\ e.examples \subseteq e.cell.of
         /\ \A p \in e.examples, q \in e.cell.of \ e.examples : Less(ctx.lift[p], ctx.lift[q]) =>
              /\ TitleOf(q) # None
              /\ Cardinality({r \in e.examples : TitleOf(r) = TitleOf(q)}) = PerTitle
<1> DEFINE cells == ReportIn(ctx, None).cells
           Y == {x \in cells : x.dim = "genre"}
           B == Best({y \in Y : y.breakout_verdict # "insufficient"}, MaxPatterns)
<1>1. BriefingEvidence("genre", ctx, cells)
        = {[cell |-> x, examples |-> ShownPosts(ctx, Mixed(ctx, x.of))] : x \in B}
  BY DEF BriefingEvidence
<1>2. B \subseteq cells
  BY DEF Best
<1> HIDE DEF B
<1>3. PICK x \in B : e = [cell |-> x, examples |-> ShownPosts(ctx, Mixed(ctx, x.of))]
  BY <1>1
<1>4. e.cell = x /\ e.examples = ShownPosts(ctx, Mixed(ctx, x.of))
  BY <1>3
<1>5. x.of # {} /\ x.of = PostsForCell(ctx, x.dim, x.value)
  BY <1>2, <1>3, CellsAre
<1>6. x.of \subseteq ctx.usable
  BY <1>5 DEF PostsForCell
<1> DEFINE S == x.of
<1>7. S \in SUBSET Nat /\ IsFiniteSet(S) /\ S # {} /\ \A p \in S : ctx.lift[p] \in Fractions
  BY <1>5, <1>6, SubsetIsSmaller
<1> HIDE DEF S
<1> DEFINE E == ShownPosts(ctx, Mixed(ctx, S))
<1>8. /\ E # {} /\ E \subseteq S
      /\ \A p \in E, q \in S \ E : Less(ctx.lift[p], ctx.lift[q]) =>
           /\ TitleOf(q) # None
           /\ Cardinality({r \in E : TitleOf(r) = TitleOf(q)}) = PerTitle
  BY <1>7, MixedIsCapped
<1>9. e.cell.of = S /\ e.examples = E
  BY <1>4 DEF S
<1> HIDE DEF E
<1> QED
  BY <1>8, <1>9

\* The page of all posts, and the own posts behind an advice.
LEMMA AllPosts ==
  ASSUME NEW ctx
  PROVE  Search(ctx, [d \in {} |-> None], None).hits = ctx.usable
<1> DEFINE none == [d \in {} |-> None]
<1>1. DOMAIN none = {}
  OBVIOUS
<1> HIDE DEF none
<1>2. Search(ctx, none, None).hits = ctx.usable
  BY <1>1 DEF Search
<1> QED
  BY <1>2 DEF none

LEMMA OwnSegmentIs ==
  ASSUME NEW ctx, NEW cells, NEW l \in OwnSegment(ctx, cells)
  PROVE  l.done = {p \in ctx.usable : FacetOf(l.cell.dim, p) = l.cell.value /\ IsOwn(p)}
<1> DEFINE done(x) == {p \in PostsForCell(ctx, x.dim, x.value) : IsOwn(p)}
           line(x, D) == [cell |-> x, done |-> D,
                          effect |-> IF D = {} THEN None ELSE Median(D, LAMBDA p : ctx.lift[p])]
<1>1. \A x, D : line(x, D).cell = x /\ line(x, D).done = D
  OBVIOUS
<1>2. OwnSegment(ctx, cells) \subseteq {line(x, done(x)) : x \in With(cells, {"over"})}
  BY DEF OwnSegment
<1> HIDE DEF line, done
<1>3. PICK x \in With(cells, {"over"}) : l = line(x, done(x))
  BY <1>2
<1>4. l.cell = x /\ l.done = done(x)
  BY <1>1, <1>3
<1>5. \A d, p : ValueOf(d, p) = FacetOf(d, p)
  BY DEF ValueOf, FacetOf
<1> QED
  BY <1>4, <1>5 DEF done, PostsForCell

LEMMA AdviceOfToday ==
  ASSUME NEW ctx, ctx.usable \subseteq Stored, IsFiniteSet(ctx.usable),
         \A p \in ctx.usable : ctx.lift[p] \in Fractions
  PROVE  BehindToday(ctx, ReportIn(ctx, None).cells, Search(ctx, [d \in {} |-> None], None).hits)
<1> DEFINE cells == ReportIn(ctx, None).cells
           all == Search(ctx, [d \in {} |-> None], None).hits
           released == BriefingEvidence("genre", ctx, cells)
<1>1. all = ctx.usable
  BY AllPosts
<1>2. ctx.usable \subseteq Nat
  BY PostTableAssumption DEF Stored
<1>3. \A e \in released :
        /\ e.examples # {} /\ e.examples \subseteq e.cell.of
        /\ \A p \in e.examples, q \in e.cell.of \ e.examples : Less(ctx.lift[p], ctx.lift[q]) =>
             /\ TitleOf(q) # None
             /\ Cardinality({r \in e.examples : TitleOf(r) = TitleOf(q)}) = PerTitle
  BY <1>2, GenreEvidence
<1>4. ASSUME NEW e \in BriefingEvidence("title", ctx, cells)
      PROVE  e.cell.of = PostsOf(e.cell.value) \cap all
  <2> DEFINE cell(t) == CellOver(ctx, ctx.usable, "title", t, {p \in ctx.usable : TitleOf(p) = t}, TitleMinChannels)
             B == Best({y \in TitleCells(ctx) : y.breakout_verdict # "insufficient"}, MaxPatterns)
  <2>1. BriefingEvidence("title", ctx, cells) = {[cell |-> x, examples |-> ShownPosts(ctx, x.of)] : x \in B}
    BY DEF BriefingEvidence
  <2>2. B \subseteq TitleCells(ctx)
    BY DEF Best
  <2>3. TitleCells(ctx) = {cell(t) : t \in {TitleOf(p) : p \in ctx.usable} \ {None}}
    BY DEF TitleCells
  <2>4. \A t : cell(t).value = t /\ cell(t).of = {p \in ctx.usable : TitleOf(p) = t}
    BY DEF CellOver
  <2> HIDE DEF B, cell
  <2>5. PICK x \in B : e = [cell |-> x, examples |-> ShownPosts(ctx, x.of)]
    BY <2>1
  <2>6. PICK t : x = cell(t)
    BY <2>2, <2>3
  <2>7. e.cell.of = {p \in ctx.usable : TitleOf(p) = e.cell.value}
    BY <2>4, <2>5, <2>6
  <2> HIDE DEF all
  <2> QED
    BY <1>1, <2>7 DEF PostsOf
<1>5. ASSUME NEW l \in OwnSegment(ctx, cells)
      PROVE  l.done = {p \in Search(ctx, [d \in {l.cell.dim} |-> l.cell.value], None).hits : IsOwn(p)}
  <2> DEFINE facet == [d \in {l.cell.dim} |-> l.cell.value]
  <2>1. DOMAIN facet = {l.cell.dim} /\ facet[l.cell.dim] = l.cell.value
    OBVIOUS
  <2>2. l.done = {p \in ctx.usable : FacetOf(l.cell.dim, p) = l.cell.value /\ IsOwn(p)}
    BY OwnSegmentIs
  <2> HIDE DEF facet, cells
  <2>3. Search(ctx, facet, None).hits = {p \in ctx.usable : FacetOf(l.cell.dim, p) = l.cell.value}
    BY <2>1 DEF Search
  <2>4. l.done = {p \in Search(ctx, facet, None).hits : IsOwn(p)}
    BY <2>2, <2>3
  <2> QED
    BY <2>4 DEF facet
<1>6. ASSUME NEW text \in KeptTexts({[cites |-> C] : C \in SUBSET all}, released)
      PROVE  text.cites \subseteq UNION {e.cell.of : e \in released}
  <2>1. text.cites \subseteq UNION {e.examples : e \in released}
    BY DEF KeptTexts, Citable
  <2> HIDE DEF released
  <2> QED
    BY <1>3, <2>1
<1>7. ASSUME NEW s \in SoundTrends(ctx) PROVE s.posts \subseteq all /\ s.example \subseteq s.posts
  <2> DEFINE carries(u) == {p \in ctx.usable : Platform[ChannelOf[p]] = "tiktok" /\ Sound[p] = u}
             row(u, S) == [sound |-> u, posts |-> S, median |-> Median(S, LAMBDA p : ctx.lift[p]),
                           example |-> {p \in S : \A q \in S : ~Less(ctx.lift[p], ctx.lift[q])}]
             sounds == {t \in {Sound[p] : p \in Posts} \ {None} :
                          Cardinality(carries(t)) >= MinSound /\ carries(t) # {}}
  <2>1. SoundTrends(ctx) \subseteq {row(u, carries(u)) : u \in sounds}
    BY DEF SoundTrends
  <2>2. \A u, S : row(u, S).posts = S /\ row(u, S).example \subseteq S
    OBVIOUS
  <2>3. \A u : carries(u) \subseteq all
    BY <1>1
  <2> HIDE DEF row, carries, all, sounds
  <2>4. PICK u \in sounds : s = row(u, carries(u))
    BY <2>1
  <2> QED
    BY <2>2, <2>3, <2>4
<1> HIDE DEF cells, all
<1> QED
  BY <1>3, <1>4, <1>5, <1>6, <1>7 DEF BehindToday, cells, all, released


\* A day lies in the week after one week only.
LEMMA WeeksAreApart ==
  ASSUME NEW v \in Int, NEW w \in Int, v < w
  PROVE  FollowingWeek(v) \cap FollowingWeek(w) = {}
<1>1. WeekDays \in Nat /\ WeekDays > 0
  BY FiguresAssumption
<1>2. PICK k \in Nat : w = v + 1 + k
  <2>1. w - v - 1 \in Nat /\ w = v + 1 + (w - v - 1)
    OBVIOUS
  <2> QED
    BY <2>1
<1> DEFINE D == WeekDays
           a == v + 2
<1>3. a \in Int /\ a + k = w + 1
  BY <1>2
<1>4. (a + k) * D = a * D + k * D /\ a * D \in Int /\ k * D \in Nat
  BY <1>1, <1>2, <1>3
<1> HIDE DEF a, D
<1>5. (w + 1) * D >= a * D /\ (w + 1) * D \in Int
  BY <1>3, <1>4
<1> QED
  BY <1>4, <1>5 DEF FollowingWeek, a, D

\* What an advice was followed by in the week after it.
LEMMA BehindThePast ==
  ASSUME NEW row, NEW weeks \in SUBSET Int
  PROVE  BehindPast(ProofLoop([w \in weeks |-> row], today),
                    [w \in weeks |-> OwnSegment(Context(Stored, None, EndOfFollowing(w)),
                       ReportIn(Context(Stored, None, EndOfFollowing(w)), None).cells)])
<1> DEFINE ctx(w) == Context(Stored, None, EndOfFollowing(w))
           history == [w \in weeks |-> row]
           loop == ProofLoop(history, today)
           segment == [w \in weeks |-> OwnSegment(ctx(w), ReportIn(ctx(w), None).cells)]
<1>1. DOMAIN loop \subseteq weeks
      /\ \A w \in DOMAIN loop : loop[w].advice = ProofOf(ctx(w), row, w)
  <2> DEFINE wks == {w \in DOMAIN history : Cardinality({v \in DOMAIN history : v > w}) < HistoryWeeks}
             dom == IF OwnChannels \cup Projects = {} THEN {} ELSE wks
             of(w) == [finished |-> EndOfFollowing(w) <= today,
                       advice |-> ProofOf(Context(Stored, None, EndOfFollowing(w)), history[w], w)]
  <2>1. loop = [w \in dom |-> of(w)]
    BY DEF ProofLoop
  <2>2. dom \subseteq weeks
    OBVIOUS
  <2>3. \A w \in weeks : of(w).advice = ProofOf(ctx(w), row, w)
    OBVIOUS
  <2> HIDE DEF loop, dom, of
  <2> QED
    BY <2>1, <2>2, <2>3
<1>2. \A w \in weeks : segment[w] = OwnSegment(ctx(w), ReportIn(ctx(w), None).cells)
  OBVIOUS
<1> HIDE DEF loop, segment, ctx
<1>3. ASSUME NEW w, NEW a \in ProofOf(ctx(w), row, w)
      PROVE  a.hit = {p \in ctx(w).usable : /\ IsOwn(p) /\ post[p].detected \in FollowingWeek(w)
                                            /\ FacetOf(a.name[1], p) = a.name[2]}
  <2>1. PICK name : a = Follow(ctx(w), FollowedBy(ctx(w), w), name)
    BY <1>3 DEF ProofOf
  <2>2. /\ a.name = name
        /\ a.hit = {p \in FollowedBy(ctx(w), w) : FacetOf(name[1], p) = name[2]}
    BY <2>1 DEF Follow
  <2> QED
    BY <2>2 DEF FollowedBy
<1>4. ASSUME NEW w \in DOMAIN loop, NEW a \in loop[w].advice, NEW l \in segment[w],
             NameOf(l.cell) = a.name
      PROVE  a.hit = {p \in l.done : post[p].detected \in FollowingWeek(w)}
  <2>1. w \in weeks /\ a \in ProofOf(ctx(w), row, w)
        /\ l \in OwnSegment(ctx(w), ReportIn(ctx(w), None).cells)
    BY <1>1, <1>2
  <2>2. l.done = {p \in ctx(w).usable : FacetOf(l.cell.dim, p) = l.cell.value /\ IsOwn(p)}
    BY <2>1, OwnSegmentIs
  <2>3. a.name[1] = l.cell.dim /\ a.name[2] = l.cell.value
    BY <1>4 DEF NameOf
  <2>4. a.hit = {p \in ctx(w).usable : /\ IsOwn(p) /\ post[p].detected \in FollowingWeek(w)
                                       /\ FacetOf(l.cell.dim, p) = l.cell.value}
    BY <1>3, <2>1, <2>3
  <2> QED
    BY <2>2, <2>4
<1>5. ASSUME NEW w \in DOMAIN loop, NEW a \in loop[w].advice,
             NEW v \in DOMAIN loop \ {w}, NEW b \in loop[v].advice
      PROVE  a.hit \cap b.hit = {}
  <2>1. v \in Int /\ w \in Int /\ a \in ProofOf(ctx(w), row, w) /\ b \in ProofOf(ctx(v), row, v)
    BY <1>1
  <2>2. /\ \A p \in a.hit : post[p].detected \in FollowingWeek(w)
        /\ \A p \in b.hit : post[p].detected \in FollowingWeek(v)
    BY <1>3, <2>1
  <2>3. FollowingWeek(v) \cap FollowingWeek(w) = {}
    <3>1. v < w \/ w < v
      BY <2>1
    <3> QED
      BY <2>1, <3>1, WeeksAreApart
  <2> QED
    BY <2>2, <2>3
<1> QED
  BY <1>4, <1>5 DEF BehindPast, loop, segment, ctx

LEMMA AdviceHasItsPosts ==
  ASSUME IsFiniteSet(Posts), TableOk
  PROVE  PostsBehindAdvice
<1> DEFINE examples(ctx) ==
             \A x \in ReportIn(ctx, None).cells : ExamplesPage(ctx, x).cell_size = x.sample_size
           segment(ctx) == OwnSegment(ctx, ReportIn(ctx, None).cells)
           past(row, weeks) ==
             BehindPast(ProofLoop([w \in weeks |-> row], today),
                        [w \in weeks |-> segment(Context(Stored, None, EndOfFollowing(w)))])
           now(ctx, cells) ==
             /\ BehindToday(ctx, cells, Search(ctx, [d \in {} |-> None], None).hits)
             /\ past(SnapshotRow(cells), {Week(today) - 1, Week(today) - 2})
           on(ctx) == now(ctx, ReportIn(ctx, None).cells)
<1>1. ASSUME NEW ctx PROVE examples(ctx)
  <2> TAKE x \in ReportIn(ctx, None).cells
  <2>1. x.of = PostsForCell(ctx, x.dim, x.value) /\ x.sample_size = Cardinality(x.of)
    BY CellsAre
  <2> QED
    BY <2>1 DEF ExamplesPage
<1>2. ASSUME NEW row PROVE past(row, {Week(today) - 1, Week(today) - 2})
  <2>1. today \in Int /\ WeekDays \in Nat \ {0}
    BY FiguresAssumption, PostTableAssumption DEF TableOk
  <2>2. Week(today) \in Int
    BY <2>1 DEF Week
  <2> DEFINE weeks == {Week(today) - 1, Week(today) - 2}
  <2>3. weeks \in SUBSET Int
    BY <2>2
  <2> HIDE DEF weeks
  <2>4. past(row, weeks)
    BY <2>3, BehindThePast
  <2> QED
    BY <2>4 DEF weeks
<1>3. on(Context(Stored, None, today))
  <2> DEFINE ctx == Context(Stored, None, today)
             cells == ReportIn(ctx, None).cells
  <2>1. /\ ctx.usable \subseteq Stored /\ IsFiniteSet(ctx.usable)
        /\ \A p \in ctx.usable : ctx.lift[p] \in Fractions
    BY LiftsAreQuotients
  <2> HIDE DEF ctx
  <2>2. BehindToday(ctx, cells, Search(ctx, [d \in {} |-> None], None).hits)
    BY <2>1, AdviceOfToday
  <2> HIDE DEF cells, past
  <2>3. past(SnapshotRow(cells), {Week(today) - 1, Week(today) - 2})
    BY <1>2
  <2>4. now(ctx, cells)
    BY <2>2, <2>3
  <2> QED
    BY <2>4 DEF cells, ctx
<1> HIDE DEF examples, on
<1>4. /\ \A m \in PatternMarkets : examples(Context(Stored, m, today))
      /\ on(Context(Stored, None, today))
  BY <1>1, <1>3
<1> QED
  BY <1>4 DEF PostsBehindAdvice, examples, on


\* The three classes of length.
LEMMA ClassOfLength ==
  ASSUME NEW p \in Posts, NoneIsNoPage
  PROVE  /\ FormatClass(p) = "langform" <=> Seconds[p] # None /\ Seconds[p] >= 90
         /\ FormatClass(p) = "kurzform" <=> Seconds[p] # None /\ Seconds[p] < 60
         /\ FormatClass(p) = "uebergang_60_90s"
              <=> Seconds[p] # None /\ ~(Seconds[p] >= 90) /\ ~(Seconds[p] < 60)
<1> DEFINE is(k, n) == \/ k = "kurzform" /\ n < 60
                       \/ k = "uebergang_60_90s" /\ n \in 60..89
                       \/ k = "langform" /\ n >= 90
<1>1. Seconds[p] \in Int \cup {None}
  BY PostTableAssumption
<1>2. CASE Seconds[p] = None
  BY <1>2 DEF FormatClass, NoneIsNoPage, Classes
<1>3. CASE Seconds[p] # None
  <2> DEFINE n == Seconds[p]
             k == CHOOSE c \in Classes : is(c, n)
  <2>1. n \in Int
    BY <1>1, <1>3
  <2>2. FormatClass(p) = k
    BY <1>3 DEF FormatClass
  <2>3. k \in Classes /\ is(k, n)
    <3>1. \E c \in Classes : is(c, n)
      <4>1. n < 60 \/ n \in 60..89 \/ n >= 90
        BY <2>1
      <4> QED
        BY <4>1 DEF Classes
    <3> HIDE DEF is
    <3> QED
      BY <3>1
  <2> HIDE DEF k
  <2> QED
    BY <1>3, <2>1, <2>2, <2>3
<1> QED
  BY <1>2, <1>3

\* The cells of a class hold the posts of that length.
ClassCells(ctx) == {x \in ReportIn(ctx, None).cells : x.dim = "format_class"}
ClassPosts(ctx, k) == {p \in ctx.usable : FormatClass(p) = k}

LEMMA PostsOfClass ==
  ASSUME NEW ctx, NoneIsNoPage, NEW k \in Classes
  PROVE  /\ UNION {x.of : x \in {y \in ClassCells(ctx) : y.value = k}} = ClassPosts(ctx, k)
         /\ \A x \in ClassCells(ctx) : x.value = k => x.rate = HitRate(ctx, ClassPosts(ctx, k))
<1> DEFINE cells == {x \in ReportIn(ctx, None).cells : x.dim = "format_class"}
           all == ReportIn(ctx, None).cells
           of == {p \in ctx.usable : FormatClass(p) = k}
<1>1. \A p : ValueOf("format_class", p) = FormatClass(p)
  <2> TAKE p
  <2>1. Extract("format_class", p) = FormatClass(p)
    BY DEF Extract, CoverDims
  <2>2. "format_class" \notin ModelDims
    BY DEF ModelDims
  <2> QED
    BY <2>1, <2>2 DEF ValueOf
<1>2. "format_class" \in Dimensions /\ k # None
  BY DEF Dimensions, NoneIsNoPage
<1>3. \A x \in cells : x.value = k => x.of = of /\ x.rate = HitRate(ctx, of)
  <2> SUFFICES ASSUME NEW x \in cells, x.value = k PROVE x.of = of /\ x.rate = HitRate(ctx, of)
    OBVIOUS
  <2>1. x \in all /\ x.dim = "format_class"
    OBVIOUS
  <2>2. x.of = PostsForCell(ctx, x.dim, x.value) /\ x.rate = HitRate(ctx, x.of)
    BY <2>1, CellsAre
  <2>3. x.of = {p \in ctx.usable : ValueOf("format_class", p) = k}
    BY <2>1, <2>2 DEF PostsForCell
  <2> QED
    BY <1>1, <2>2, <2>3
<1>4. \A p \in of : \E x \in cells : x.value = k
  <2> SUFFICES ASSUME NEW p \in of PROVE \E x \in cells : x.value = k
    OBVIOUS
  <2>1. p \in ctx.usable /\ ValueOf("format_class", p) = k
    BY <1>1
  <2>2. PICK x \in all : x.dim = "format_class" /\ x.value = ValueOf("format_class", p)
    BY <1>2, <2>1, CellsAre
  <2> QED
    BY <2>1, <2>2
<1> HIDE DEF of, all
<1>5. UNION {x.of : x \in {y \in cells : y.value = k}} = of
  <2>1. ASSUME NEW p \in of PROVE p \in UNION {x.of : x \in {y \in cells : y.value = k}}
    <3>1. PICK x \in cells : x.value = k
      BY <1>4
    <3> QED
      BY <1>3, <3>1
  <2>2. UNION {x.of : x \in {y \in cells : y.value = k}} \subseteq of
    BY <1>3
  <2> QED
    BY <2>1, <2>2
<1> QED
  BY <1>3, <1>5 DEF of, ClassCells, ClassPosts, all

\* A comparison that holds in every stratum with enough posts is said to hold everywhere, and
\* the report always has a last word.
LEMMA LastWord ==
  ASSUME NoneIsNoPage, NEW strata
  PROVE  LET note == ClosingNote(Conclusion(strata))
         IN  /\ note # None
             /\ note = "everywhere" =>
                  \A k \in StratumKinds : \A s \in DOMAIN strata[k] :
                    strata[k][s].verdict \in {"advantage", "insufficient"}
<1> DEFINE solid(k) == {s \in DOMAIN strata[k] : strata[k][s].verdict # "insufficient"}
           shows(k) == {s \in solid(k) : strata[k][s].verdict = "advantage"}
           T == StratumKinds
           P(h) == [u \in SUBSET T |->
                      IF u = {} THEN 0
                      ELSE Cardinality(solid(CHOOSE x \in u : TRUE)) + h[u \ {CHOOSE x \in u : TRUE}]]
           Q(h) == [u \in SUBSET T |->
                      IF u = {} THEN 0
                      ELSE Cardinality(shows(CHOOSE x \in u : TRUE)) + h[u \ {CHOOSE x \in u : TRUE}]]
           c == Conclusion(strata)
           note == ClosingNote(c)
<1>1. /\ c.explained = {k \in T : solid(k) # {} /\ shows(k) = {}}
      /\ c.localized = {k \in T : shows(k) # {} /\ shows(k) # solid(k)}
  BY DEF Conclusion
<1>2. c.tested = (CHOOSE h : h = P(h))[T]
  BY DEF Conclusion, MapThenSumSet, MapThenFoldSet
<1>3. c.survives = (CHOOSE h : h = Q(h))[T]
  BY DEF Conclusion, MapThenSumSet, MapThenFoldSet
<1>4. /\ c.tested = 0 => note = "untestable"
      /\ c.tested # 0 /\ c.explained # {} => note = "explained"
      /\ c.tested # 0 /\ c.explained = {} /\ c.localized # {} => note = "localized"
      /\ c.tested # 0 /\ c.explained \cup c.localized = {} /\ c.survives = c.tested
           => note = "everywhere"
  <2> HIDE DEF c
  <2> QED
    BY DEF ClosingNote
<1>5. \A k : shows(k) \subseteq solid(k)
  OBVIOUS
<1>6. \A k : shows(k) = solid(k) => \A s \in DOMAIN strata[k] :
                                      strata[k][s].verdict \in {"advantage", "insufficient"}
  OBVIOUS
<1> HIDE DEF solid, shows, c, note, T
<1>7. ASSUME c.explained \cup c.localized = {}
      PROVE  (\A k \in T : shows(k) = solid(k)) /\ c.survives = c.tested
  <2>1. \A k \in T : shows(k) = solid(k)
    BY <1>1, <1>5, <1>7
  <2>2. ASSUME NEW h PROVE P(h) = Q(h)
    <3>1. \A u \in SUBSET T : u # {} =>
            Cardinality(solid(CHOOSE x \in u : TRUE)) = Cardinality(shows(CHOOSE x \in u : TRUE))
      <4> TAKE u \in SUBSET T
      <4>1. u # {} => (CHOOSE x \in u : TRUE) \in T
        BY OneIsIn DEF One
      <4> QED
        BY <2>1, <4>1
    <3> QED
      BY <3>1
  <2> HIDE DEF P, Q
  <2>3. \A h : (h = P(h)) <=> (h = Q(h))
    BY <2>2
  <2>4. (CHOOSE h : h = P(h)) = (CHOOSE h : h = Q(h))
    BY <2>3
  <2> QED
    BY <1>2, <1>3, <2>1, <2>4
<1>8. note # None
  <2>1. note \in {"untestable", "explained", "localized", "everywhere"}
    BY <1>4, <1>7
  <2> QED
    BY <2>1 DEF NoneIsNoPage
<1>9. ASSUME note = "everywhere" PROVE c.explained \cup c.localized = {}
  <2>1. c.tested # 0 /\ c.explained = {} /\ c.localized = {}
    BY <1>4, <1>9
  <2> QED
    BY <2>1
<1> QED
  BY <1>6, <1>7, <1>8, <1>9 DEF note, c, T

\* Long and short formats are compared over the posts the report counts as such.
LEMMA FormatsAreComparedAsCounted ==
  ASSUME IsFiniteSet(Posts), TableOk, NoneIsNoPage
  PROVE  LangformMatchesReport
<1> SUFFICES ASSUME NEW m \in PatternMarkets \cup {None}
             PROVE  LET page == LangformReport(m, today)
                        cells == {x \in Report(m, None, today).cells : x.dim = "format_class"}
                        of == [k \in Classes |-> UNION {x.of : x \in {y \in cells : y.value = k}}]
                    IN  /\ page.overall.long = of["langform"] /\ page.overall.short = of["kurzform"]
                        /\ \A x \in cells : x.value = "langform" => page.overall.long_rate = x.rate
                        /\ page.uebergang = Cardinality(of["uebergang_60_90s"])
                        /\ page.note # None
                        /\ page.note = "everywhere" =>
                             \A k \in StratumKinds : \A s \in DOMAIN page.strata[k] :
                               page.strata[k][s].verdict \in {"advantage", "insufficient"}
  BY DEF LangformMatchesReport
<1> DEFINE ctx == Context(Stored, m, today)
           cells == {x \in ReportIn(ctx, None).cells : x.dim = "format_class"}
           of(k) == {p \in ctx.usable : FormatClass(p) = k}
           L == LongPosts(ctx)
           K == ShortPosts(ctx)
           strata == IF ctx.usable = {} THEN [k \in StratumKinds |-> [s \in {} |-> None]]
                     ELSE Strata(ctx, L, K)
           page == LangformReport(m, today)
<1>1. ctx.usable \subseteq Posts
  BY LiftsAreQuotients DEF Stored
<1>2. page = LangformPage(ctx, L, K, strata)
  BY DEF LangformReport
<1>3. Report(m, None, today).cells = ReportIn(ctx, None).cells
  BY DEF Report, ReportOf
<1> HIDE DEF ctx, page, strata
<1>4. \A p \in ctx.usable :
        /\ FormatClass(p) = "langform" <=> Seconds[p] # None /\ Seconds[p] >= 90
        /\ FormatClass(p) = "kurzform" <=> Seconds[p] # None /\ Seconds[p] < 60
        /\ FormatClass(p) = "uebergang_60_90s"
             <=> Seconds[p] # None /\ ~(Seconds[p] >= 90) /\ ~(Seconds[p] < 60)
  BY <1>1, ClassOfLength
<1>5. /\ L = of("langform") /\ K = of("kurzform")
      /\ {p \in ctx.usable : Seconds[p] # None} \ (L \cup K) = of("uebergang_60_90s")
  BY <1>4 DEF LongPosts, ShortPosts
<1>6. \A k \in Classes :
        /\ UNION {x.of : x \in {y \in cells : y.value = k}} = of(k)
        /\ \A x \in cells : x.value = k => x.rate = HitRate(ctx, of(k))
  <2> TAKE k \in Classes
  <2>1. cells = ClassCells(ctx) /\ of(k) = ClassPosts(ctx, k)
    BY DEF ClassCells, ClassPosts
  <2> HIDE DEF cells, of
  <2> QED
    BY <2>1, PostsOfClass
<1>7. /\ page.overall.long = L /\ page.overall.short = K
      /\ page.overall.long_rate = HitRate(ctx, L)
      /\ page.uebergang = Cardinality({p \in ctx.usable : Seconds[p] # None} \ (L \cup K))
      /\ page.strata = strata /\ page.note = ClosingNote(Conclusion(strata))
  <2> HIDE DEF L, K
  <2>1. /\ page.overall = Compare(ctx, L, K) /\ page.strata = strata
        /\ page.note = ClosingNote(Conclusion(strata))
        /\ page.uebergang = Cardinality({p \in ctx.usable : Seconds[p] # None} \ (L \cup K))
    BY <1>2 DEF LangformPage
  <2>2. /\ Compare(ctx, L, K).long = L /\ Compare(ctx, L, K).short = K
        /\ Compare(ctx, L, K).long_rate = HitRate(ctx, L)
    BY DEF Compare, HitRate
  <2> QED
    BY <2>1, <2>2
<1>8. {"langform", "kurzform", "uebergang_60_90s"} \subseteq Classes
  BY DEF Classes
<1>9. /\ page.note # None
      /\ page.note = "everywhere" =>
           \A k \in StratumKinds : \A s \in DOMAIN page.strata[k] :
             page.strata[k][s].verdict \in {"advantage", "insufficient"}
  <2>1. LET note == ClosingNote(Conclusion(strata))
        IN  /\ note # None
            /\ note = "everywhere" =>
                 \A k \in StratumKinds : \A s \in DOMAIN strata[k] :
                   strata[k][s].verdict \in {"advantage", "insufficient"}
    BY LastWord
  <2> QED
    BY <1>7, <2>1
<1> DEFINE union == [k \in Classes |-> UNION {x.of : x \in {y \in cells : y.value = k}}]
<1>10. /\ union["langform"] = L /\ union["kurzform"] = K
       /\ union["uebergang_60_90s"] = {p \in ctx.usable : Seconds[p] # None} \ (L \cup K)
  <2> HIDE DEF cells, of, L, K
  <2> QED
    BY <1>5, <1>6, <1>8
<1>11. \A x \in cells : x.value = "langform" => page.overall.long_rate = x.rate
  <2> HIDE DEF cells, of, L, K
  <2> QED
    BY <1>5, <1>6, <1>7, <1>8
<1> HIDE DEF union, L, K
<1>12. /\ page.overall.long = union["langform"] /\ page.overall.short = union["kurzform"]
       /\ page.uebergang = Cardinality(union["uebergang_60_90s"])
  BY <1>7, <1>10
<1>13. cells = {x \in Report(m, None, today).cells : x.dim = "format_class"}
  BY <1>3
<1> HIDE DEF cells
<1> QED
  BY <1>9, <1>11, <1>12, <1>13 DEF union, page

-------------------------------------------------------------------------------
(* The pages say what the report says (PagesMatchReport in Advice): the comparison of      *)
(* formats, the check of a draft, the search, the start brief, the evidence of the texts,  *)
(* the own segment and the proof loop stand on the posts and the verdicts the pattern      *)
(* report counts, at every moment of every table. The classifier is taken to answer in the *)
(* vocabulary it is given: it is not held to it, and the check of a draft refuses the rest. *)
THEOREM PagesSayWhatTheReportSays ==
  ASSUME IsFiniteSet(Posts), NoneIsNoPost, NoneIsNoPage, AnswersInVocabulary
  PROVE  PatternsSpec => []PagesMatchReport
<1>1. TableInit => TableOk
  BY TableOkInit
<1>2. TableOk /\ [PatternsNext]_tableVars => TableOk'
  BY TableStep DEF PatternsNext
<1>3. TableOk => PagesMatchReport
  <2> SUFFICES ASSUME TableOk PROVE PagesMatchReport
    OBVIOUS
  <2> QED
    BY ViewsAreTheReport, FormatsAreComparedAsCounted, AdviceHasItsPosts DEF PagesMatchReport
<1> QED
  BY <1>1, <1>2, <1>3, PTL DEF PatternsSpec


-------------------------------------------------------------------------------
(* Totals: sums of whole numbers over a finite set *)

Total(f, T) == SumOver(Whole(f, T), T)[1]

LEMMA TotalIs ==
  ASSUME NEW f, NEW T, IsFiniteSet(T), \A x \in T : f[x] \in Int
  PROVE  /\ Total(f, T) \in Int /\ SumOver(Whole(f, T), T) = <<Total(f, T), 1>>
         /\ (CHOOSE g : IsTotals(g, f, T))[T] = Total(f, T)
<1> DEFINE g == CHOOSE g : IsTotals(g, f, T)
<1>1. IsTotals(g, f, T)
  <2>1. \E h : IsTotals(h, f, T)
    BY TotalsExist
  <2> HIDE DEF IsTotals
  <2> QED
    BY <2>1
<1> HIDE DEF g
<1>2. g[T] \in Int /\ SumOver(Whole(f, T), T) = <<g[T], 1>>
  BY <1>1, TotalsAreSums
<1> QED
  BY <1>2 DEF Total, g

LEMMA TotalOfNone == ASSUME NEW f PROVE Total(f, {}) = 0
<1>1. SumOver(Whole(f, {}), {}) = <<0, 1>>
  BY FS_EmptySet, SumStep
<1> QED
  BY <1>1 DEF Total

LEMMA TotalAgrees ==
  ASSUME NEW f, NEW h, NEW T, \A x \in T : f[x] = h[x]
  PROVE  Total(f, T) = Total(h, T)
<1>1. Whole(f, T) = Whole(h, T)
  BY DEF Whole
<1> QED
  BY <1>1 DEF Total

LEMMA WholeIsFraction ==
  ASSUME NEW f, NEW T, \A x \in T : f[x] \in Int
  PROVE  \A x \in T : Whole(f, T)[x] = <<f[x], 1>> /\ Whole(f, T)[x] \in Fractions
BY DEF Whole, Fractions

LEMMA TotalStep ==
  ASSUME NEW f, NEW T, IsFiniteSet(T), \A x \in T : f[x] \in Int, NEW y \in T
  PROVE  Total(f, T) = f[y] + Total(f, T \ {y})
<1> DEFINE q == Whole(f, T)
           R == T \ {y}
           r == Whole(f, R)
<1>1. \A x \in T : q[x] = <<f[x], 1>> /\ q[x] \in Fractions
  BY WholeIsFraction
<1>2. IsFiniteSet(R) /\ R \in SUBSET T /\ \A x \in R : f[x] \in Int
  BY SubsetIsSmaller
<1>3. \A x \in R : r[x] = <<f[x], 1>>
  BY <1>2, WholeIsFraction
<1> HIDE DEF q, r
<1>4. SumOver(q, T) = Plus(q[y], SumOver(q, R))
  BY <1>1, SumInAnyOrder
<1>5. SumOver(q, R) = SumOver(r, R)
  <2>1. \A x \in R : q[x] = r[x]
    BY <1>1, <1>3
  <2> HIDE DEF R
  <2> QED
    BY <1>2, <2>1, SameSum
<1>6. SumOver(r, R) = <<Total(f, R), 1>> /\ Total(f, R) \in Int
  <2> HIDE DEF R
  <2> QED
    BY <1>2, TotalIs DEF r
<1>7. SumOver(q, T) = <<Total(f, T), 1>> /\ Total(f, T) \in Int
  BY TotalIs DEF q
<1>8. SumOver(q, T) = <<f[y] + Total(f, R), 1>>
  BY <1>1, <1>4, <1>5, <1>6, WholePlus
<1> QED
  BY <1>7, <1>8

LEMMA TotalOfTwo ==
  ASSUME NEW f, NEW A, NEW B, IsFiniteSet(A), IsFiniteSet(B), A \cap B = {},
         \A x \in A \cup B : f[x] \in Int
  PROVE  Total(f, A \cup B) = Total(f, A) + Total(f, B)
<1> DEFINE q == Whole(f, A \cup B)
           a == Whole(f, A)
           b == Whole(f, B)
<1>1. /\ \A x \in A \cup B : q[x] = <<f[x], 1>> /\ q[x] \in Fractions
      /\ \A x \in A : a[x] = <<f[x], 1>>
      /\ \A x \in B : b[x] = <<f[x], 1>>
  BY WholeIsFraction
<1>2. /\ SumOver(a, A) = <<Total(f, A), 1>> /\ Total(f, A) \in Int
      /\ SumOver(b, B) = <<Total(f, B), 1>> /\ Total(f, B) \in Int
  BY TotalIs
<1>3. SumOver(q, A \cup B) = <<Total(f, A \cup B), 1>>
  <2> DEFINE C == A \cup B
  <2>1. IsFiniteSet(C) /\ \A x \in C : f[x] \in Int
    BY FS_Union
  <2> HIDE DEF C
  <2>2. SumOver(Whole(f, C), C) = <<Total(f, C), 1>>
    BY <2>1, TotalIs
  <2> QED
    BY <2>2 DEF C
<1> HIDE DEF q, a, b
<1>4. SumOver(q, A \cup B) = Plus(SumOver(q, A), SumOver(q, B))
  BY <1>1, SumOfTwo
<1>5. SumOver(q, A) = SumOver(a, A)
  <2>1. \A x \in A : q[x] = a[x]
    BY <1>1
  <2> QED
    BY <2>1, SameSum
<1>6. SumOver(q, B) = SumOver(b, B)
  <2>1. \A x \in B : q[x] = b[x]
    BY <1>1
  <2> QED
    BY <2>1, SameSum
<1>7. SumOver(q, A \cup B) = <<Total(f, A) + Total(f, B), 1>>
  BY <1>2, <1>4, <1>5, <1>6, WholePlus
<1> QED
  BY <1>3, <1>7

LEMMA TotalIsMore ==
  ASSUME NEW f, NEW T, IsFiniteSet(T), \A x \in T : f[x] \in Int /\ f[x] >= 0
  PROVE  Total(f, T) >= 0 /\ \A y \in T : Total(f, T) >= f[y]
<1> DEFINE Good == {S \in SUBSET T : Total(f, S) >= 0 /\ \A y \in S : Total(f, S) >= f[y]}
<1>1. ASSUME NEW S \in SUBSET T, \A U \in SUBSET S : U # S => U \in Good PROVE S \in Good
  <2>0. IsFiniteSet(S) /\ \A x \in S : f[x] \in Int
    BY SubsetIsSmaller
  <2>1. CASE S = {}
    BY <2>1, TotalOfNone
  <2>2. ASSUME NEW y \in S PROVE Total(f, S) >= f[y] /\ Total(f, S) >= 0
    <3>1. Total(f, S) = f[y] + Total(f, S \ {y})
      BY <2>0, TotalStep
    <3>2. S \ {y} \in Good
      BY <1>1
    <3>3. IsFiniteSet(S \ {y}) /\ \A x \in S \ {y} : f[x] \in Int
      BY <2>0, FS_RemoveElement
    <3>4. Total(f, S \ {y}) >= 0 /\ Total(f, S \ {y}) \in Int /\ f[y] \in Int /\ f[y] >= 0
      BY <3>2, <3>3, TotalIs
    <3> QED
      BY <3>1, <3>4
  <2> QED
    BY <2>1, <2>2
<1>2. T \in Good
  <2> HIDE DEF Good
  <2> QED
    BY <1>1, SubsetInduction
<1> QED
  BY <1>2

LEMMA TotalNegated ==
  ASSUME NEW f, NEW h, NEW T, IsFiniteSet(T), \A x \in T : f[x] \in Int /\ h[x] = -f[x]
  PROVE  Total(h, T) = -Total(f, T)
<1> DEFINE Good == {S \in SUBSET T : Total(h, S) = -Total(f, S)}
<1>1. ASSUME NEW S \in SUBSET T, \A U \in SUBSET S : U # S => U \in Good PROVE S \in Good
  <2>0. IsFiniteSet(S) /\ \A x \in S : f[x] \in Int /\ h[x] \in Int
    BY SubsetIsSmaller
  <2>1. CASE S = {}
    BY <2>1, TotalOfNone
  <2>2. ASSUME NEW y \in S PROVE Total(h, S) = -Total(f, S)
    <3>1. Total(f, S) = f[y] + Total(f, S \ {y}) /\ Total(h, S) = h[y] + Total(h, S \ {y})
      BY <2>0, TotalStep
    <3>2. Total(h, S \ {y}) = -Total(f, S \ {y})
      BY <1>1
    <3>3. IsFiniteSet(S \ {y}) /\ \A x \in S \ {y} : f[x] \in Int
      BY <2>0, FS_RemoveElement
    <3>4. Total(f, S \ {y}) \in Int /\ f[y] \in Int /\ h[y] = -f[y]
      BY <3>3, TotalIs
    <3> QED
      BY <3>1, <3>2, <3>4
  <2> QED
    BY <2>1, <2>2
<1>2. T \in Good
  <2> HIDE DEF Good
  <2> QED
    BY <1>1, SubsetInduction
<1> QED
  BY <1>2

\* The totals of the classes of a key add up to the whole.
LEMMA ClassTotalsAddUp ==
  ASSUME NEW S, IsFiniteSet(S), NEW key, NEW f, \A x \in S : f[x] \in Int,
         NEW e, \A i \in KeysOf(S, key) : e[i] = Total(f, PartOf(S, key, {i}))
  PROVE  Total(e, KeysOf(S, key)) = Total(f, S)
<1> DEFINE K == KeysOf(S, key)
           Good == {I \in SUBSET K : Total(e, I) = Total(f, PartOf(S, key, I))}
<1>0. IsFiniteSet(K)
  BY FiniteImage DEF KeysOf
<1>1. \A I : /\ IsFiniteSet(PartOf(S, key, I)) /\ \A x \in PartOf(S, key, I) : f[x] \in Int
             /\ Total(f, PartOf(S, key, I)) \in Int
  <2> TAKE I
  <2>1. PartOf(S, key, I) \subseteq S
    BY DEF PartOf
  <2>2. IsFiniteSet(PartOf(S, key, I)) /\ \A x \in PartOf(S, key, I) : f[x] \in Int
    BY <2>1, SubsetIsSmaller
  <2> QED
    BY <2>2, TotalIs
<1>2. \A i \in K : e[i] \in Int
  BY <1>1
<1>3. ASSUME NEW I \in SUBSET K, \A J \in SUBSET I : J # I => J \in Good PROVE I \in Good
  <2>0. IsFiniteSet(I) /\ \A i \in I : e[i] \in Int
    BY <1>0, <1>2, SubsetIsSmaller
  <2>1. CASE I = {}
    <3>1. PartOf(S, key, I) = {}
      BY <2>1 DEF PartOf
    <3> QED
      BY <2>1, <3>1, TotalOfNone
  <2>2. CASE I # {}
    <3> DEFINE c == One(I)
               J == I \ {c}
               A == PartOf(S, key, {c})
               B == PartOf(S, key, J)
    <3>1. c \in I /\ J \in SUBSET I /\ J # I
      BY <2>2, OneIsIn
    <3>2. Total(e, I) = e[c] + Total(e, J)
      <4> HIDE DEF c
      <4> QED
        BY <2>0, <3>1, TotalStep
    <3>3. Total(e, J) = Total(f, B) /\ e[c] = Total(f, A)
      BY <1>3, <3>1
    <3>4. PartOf(S, key, I) = A \cup B /\ A \cap B = {}
      BY <3>1 DEF PartOf
    <3>5. IsFiniteSet(A) /\ IsFiniteSet(B) /\ \A x \in A \cup B : f[x] \in Int
      BY <1>1
    <3> HIDE DEF A, B, J, c
    <3>6. Total(f, A \cup B) = Total(f, A) + Total(f, B)
      BY <3>4, <3>5, TotalOfTwo
    <3> QED
      BY <3>2, <3>3, <3>4, <3>6
  <2> QED
    BY <2>1, <2>2
<1>4. K \in Good
  <2> HIDE DEF Good
  <2> QED
    BY <1>0, <1>3, SubsetInduction
<1>5. PartOf(S, key, K) = S
  BY DEF PartOf, KeysOf
<1> QED
  BY <1>4, <1>5

LEMMA ClassCountsAddUp ==
  ASSUME NEW S, IsFiniteSet(S), NEW key, NEW e,
         \A i \in KeysOf(S, key) : e[i] = Cardinality(PartOf(S, key, {i}))
  PROVE  /\ Total(e, KeysOf(S, key)) = Cardinality(S)
         /\ IsFiniteSet(KeysOf(S, key)) /\ \A i \in KeysOf(S, key) : e[i] \in Int
<1> DEFINE K == KeysOf(S, key)
           g == CHOOSE g : IsTotals(g, e, K)
<1>1. IsFiniteSet(K)
  BY FiniteImage DEF KeysOf
<1>2. \A i \in K : e[i] \in Int
  <2> TAKE i \in K
  <2>1. PartOf(S, key, {i}) \subseteq S
    BY DEF PartOf
  <2>2. Cardinality(PartOf(S, key, {i})) \in Nat
    BY <2>1, SubsetIsSmaller
  <2> QED
    BY <2>2
<1>3. IsTotals(g, e, K)
  <2>1. \E h : IsTotals(h, e, K)
    <3> HIDE DEF K
    <3> QED
      BY <1>1, <1>2, TotalsExist
  <2> HIDE DEF IsTotals, K
  <2> QED
    BY <2>1
<1> HIDE DEF g
<1>4. g[KeysOf(S, key)] = Cardinality(S)
  BY <1>3, ClassesAddUp
<1>5. g[K] = Total(e, K)
  <2> HIDE DEF K
  <2> QED
    BY <1>1, <1>2, TotalIs DEF g
<1> QED
  BY <1>1, <1>2, <1>4, <1>5

LEMMA OneFewer ==
  ASSUME NEW S, IsFiniteSet(S), NEW c \in S
  PROVE  /\ IsFiniteSet(S \ {c}) /\ Cardinality(S \ {c}) \in Nat
         /\ Cardinality(S) = Cardinality(S \ {c}) + 1
<1>1. IsFiniteSet(S \ {c}) /\ Cardinality(S \ {c}) = Cardinality(S) - 1
  BY FS_RemoveElement
<1>2. Cardinality(S \ {c}) \in Nat /\ Cardinality(S) \in Nat
  BY <1>1, FS_CardinalityType
<1> QED
  BY <1>1, <1>2

\* Two columns of numbers: the products row by row, and how far row x and row c move together.
Products(a, b, S) == [x \in S |-> a[x] * b[x]]
Joint(a, b, c, S) == [x \in S |-> (a[x] - a[c]) * (b[x] - b[c])]

LEMMA JointTotal ==
  ASSUME NEW S, IsFiniteSet(S), NEW a, NEW b, \A x \in S : a[x] \in Int /\ b[x] \in Int, NEW c \in S
  PROVE  \A T \in SUBSET S :
           Total(Joint(a, b, c, S), T)
             = Total(Products(a, b, S), T) + Cardinality(T) * (a[c] * b[c])
                 - a[c] * Total(b, T) - b[c] * Total(a, T)
<1> SUFFICES ASSUME NEW T \in SUBSET S
             PROVE  Total(Joint(a, b, c, S), T)
                      = Total(Products(a, b, S), T) + Cardinality(T) * (a[c] * b[c])
                          - a[c] * Total(b, T) - b[c] * Total(a, T)
  OBVIOUS
<1> DEFINE p == Products(a, b, S)
           j == Joint(a, b, c, S)
           Good == {U \in SUBSET T : Total(j, U) = Total(p, U) + Cardinality(U) * (a[c] * b[c])
                                                     - a[c] * Total(b, U) - b[c] * Total(a, U)}
<1>0. /\ \A x \in S : p[x] = a[x] * b[x] /\ p[x] \in Int
      /\ \A x \in S : j[x] = (a[x] - a[c]) * (b[x] - b[c]) /\ j[x] \in Int
  BY DEF Products, Joint
<1> HIDE DEF p, j
<1>1. ASSUME NEW U \in SUBSET T, \A V \in SUBSET U : V # U => V \in Good PROVE U \in Good
  <2>0. /\ IsFiniteSet(T)
        /\ IsFiniteSet(U)
        /\ \A x \in U : a[x] \in Int /\ b[x] \in Int /\ p[x] \in Int /\ j[x] \in Int
    BY <1>0, SubsetIsSmaller
  <2>1. CASE U = {}
    <3>1. Total(j, U) = 0 /\ Total(p, U) = 0 /\ Total(a, U) = 0 /\ Total(b, U) = 0
          /\ Cardinality(U) = 0
      BY <2>1, TotalOfNone, FS_EmptySet
    <3>2. a[c] \in Int /\ b[c] \in Int
      OBVIOUS
    <3>3. 0 * (a[c] * b[c]) = 0 /\ a[c] * 0 = 0 /\ b[c] * 0 = 0
      BY <3>2
    <3> QED
      BY <3>1, <3>3
  <2>2. CASE U # {}
    <3>1. PICK y \in U : TRUE
      BY <2>2
    <3> DEFINE V == U \ {y}
               n == Cardinality(V)
    <3>2. /\ Total(j, U) = j[y] + Total(j, V) /\ Total(p, U) = p[y] + Total(p, V)
          /\ Total(a, U) = a[y] + Total(a, V) /\ Total(b, U) = b[y] + Total(b, V)
      BY <2>0, TotalStep
    <3>3. /\ IsFiniteSet(V) /\ n \in Nat /\ Cardinality(U) = n + 1
          /\ V \in SUBSET U /\ V # U
      BY <2>0, OneFewer
    <3>4. V \in Good
      BY <1>1, <3>3
    <3> HIDE DEF V
    <3>5. /\ Total(j, V) \in Int /\ Total(p, V) \in Int /\ Total(a, V) \in Int /\ Total(b, V) \in Int
      <4>1. \A x \in V : a[x] \in Int /\ b[x] \in Int /\ p[x] \in Int /\ j[x] \in Int
        BY <2>0, <3>3
      <4> QED
        BY <3>3, <4>1, TotalIs
    <3>6. Total(j, V) = Total(p, V) + n * (a[c] * b[c]) - a[c] * Total(b, V) - b[c] * Total(a, V)
      BY <3>4
    <3>7. p[y] = a[y] * b[y] /\ j[y] = (a[y] - a[c]) * (b[y] - b[c])
      BY <1>0, <3>1
    <3>8. a[c] \in Int /\ b[c] \in Int /\ a[y] \in Int /\ b[y] \in Int
      BY <2>0
    <3> DEFINE J == Total(j, V)
               P == Total(p, V)
               A == Total(a, V)
               B == Total(b, V)
               u == a[c]
               v == b[c]
               s == a[y]
               t == b[y]
    <3>9. /\ (s - u) * (t - v) = s * t + u * v - u * t - v * s
          /\ (n + 1) * (u * v) = n * (u * v) + u * v
          /\ u * (t + B) = u * t + u * B /\ v * (s + A) = v * s + v * A
      <4>1. /\ n \in Int /\ A \in Int /\ B \in Int /\ u \in Int /\ v \in Int /\ s \in Int /\ t \in Int
        BY <3>3, <3>5, <3>8
      <4> HIDE DEF A, B, u, v, s, t, n
      <4> QED
        BY <4>1
    <3>10. /\ s * t \in Int /\ u * v \in Int /\ u * t \in Int /\ v * s \in Int
           /\ n * (u * v) \in Int /\ u * B \in Int /\ v * A \in Int
      BY <3>3, <3>5, <3>8
    <3> HIDE DEF n
    <3>11. Total(j, U) = Total(p, U) + Cardinality(U) * (u * v) - u * Total(b, U) - v * Total(a, U)
      BY <3>2, <3>3, <3>5, <3>6, <3>7, <3>9, <3>10
    <3> QED
      BY <3>11
  <2> QED
    BY <2>1, <2>2
<1>2. T \in Good
  <2>1. IsFiniteSet(T)
    BY SubsetIsSmaller
  <2> HIDE DEF Good
  <2> QED
    BY <1>1, <2>1, SubsetInduction
<1> QED
  BY <1>2 DEF p, j

\* The covariance of two columns of a set, times the square of its size.
Covariance(a, b, S) ==
    Cardinality(S) * Total(Products(a, b, S), S) - Total(a, S) * Total(b, S)

LEMMA CovarianceStep ==
  ASSUME NEW S, IsFiniteSet(S), NEW a, NEW b, \A x \in S : a[x] \in Int /\ b[x] \in Int, NEW c \in S
  PROVE  Covariance(a, b, S)
           = Covariance(a, b, S \ {c}) + Total(Joint(a, b, c, S), S \ {c})
<1> DEFINE R == S \ {c}
           p == Products(a, b, S)
           r == Products(a, b, R)
           n == Cardinality(R)
<1>1. /\ IsFiniteSet(R) /\ R \in SUBSET S /\ n \in Nat /\ Cardinality(S) = n + 1
  BY OneFewer
<1>2. /\ \A x \in S : p[x] = a[x] * b[x] /\ p[x] \in Int
      /\ \A x \in R : r[x] = p[x]
  BY DEF Products
<1> HIDE DEF p, r
<1>3. /\ Total(p, S) = p[c] + Total(p, R)
      /\ Total(a, S) = a[c] + Total(a, R)
      /\ Total(b, S) = b[c] + Total(b, R)
  BY <1>2, TotalStep
<1> HIDE DEF R
<1>4. Total(r, R) = Total(p, R)
  BY <1>2, TotalAgrees
<1>5. Total(p, R) \in Int /\ Total(a, R) \in Int /\ Total(b, R) \in Int
  <2>1. \A x \in R : p[x] \in Int /\ a[x] \in Int /\ b[x] \in Int
    BY <1>1, <1>2
  <2> QED
    BY <1>1, <2>1, TotalIs
<1>6. Total(Joint(a, b, c, S), R)
        = Total(p, R) + n * (a[c] * b[c]) - a[c] * Total(b, R) - b[c] * Total(a, R)
  BY <1>1, JointTotal DEF p
<1> DEFINE P == Total(p, R)
           A == Total(a, R)
           B == Total(b, R)
           u == a[c]
           v == b[c]
<1>7. /\ n \in Int /\ P \in Int /\ A \in Int /\ B \in Int /\ u \in Int /\ v \in Int
  BY <1>1, <1>5
<1> HIDE DEF n
<1>8. /\ Covariance(a, b, S) = (n + 1) * (u * v + P) - (u + A) * (v + B)
      /\ Covariance(a, b, R) = n * P - A * B
  BY <1>1, <1>2, <1>3, <1>4 DEF Covariance, p, r, n
<1>9. Total(Joint(a, b, c, S), R) = P + n * (u * v) - u * B - v * A
  BY <1>6
<1> HIDE DEF P, A, B, u, v
<1>10. /\ (n + 1) * (u * v + P) = n * (u * v) + n * P + u * v + P
       /\ (u + A) * (v + B) = u * v + u * B + v * A + A * B
  BY <1>7
<1>11. /\ n * (u * v) \in Int /\ n * P \in Int /\ u * v \in Int /\ u * B \in Int /\ v * A \in Int
       /\ A * B \in Int
  BY <1>7
<1> QED
  BY <1>7, <1>8, <1>9, <1>10, <1>11 DEF R

\* Columns that never move against each other have no negative covariance, and a positive one
\* when two rows move together.
LEMMA MovingTogether ==
  ASSUME NEW S, IsFiniteSet(S), NEW a, NEW b, \A x \in S : a[x] \in Int /\ b[x] \in Int,
         \A x, y \in S : (a[x] - a[y]) * (b[x] - b[y]) >= 0
  PROVE  /\ Covariance(a, b, S) \in Int /\ Covariance(a, b, S) >= 0
         /\ \A x, y \in S : (a[x] - a[y]) * (b[x] - b[y]) > 0 => Covariance(a, b, S) > 0
<1> DEFINE Good == {T \in SUBSET S : Covariance(a, b, T) \in Int /\ Covariance(a, b, T) >= 0}
<1>1. ASSUME NEW T \in SUBSET S, NEW c \in T
      PROVE  LET more == Total(Joint(a, b, c, T), T \ {c})
             IN  /\ more \in Int /\ more >= 0
                 /\ \A x \in T \ {c} : more >= (a[x] - a[c]) * (b[x] - b[c])
                 /\ Covariance(a, b, T) = Covariance(a, b, T \ {c}) + more
  <2> DEFINE j == Joint(a, b, c, T)
             R == T \ {c}
  <2>1. IsFiniteSet(T) /\ IsFiniteSet(R) /\ \A x \in T : a[x] \in Int /\ b[x] \in Int
    BY SubsetIsSmaller
  <2>2. \A x \in R : j[x] = (a[x] - a[c]) * (b[x] - b[c]) /\ j[x] \in Int /\ j[x] >= 0
    BY <2>1 DEF Joint
  <2>3. Covariance(a, b, T) = Covariance(a, b, R) + Total(j, R)
    BY <2>1, CovarianceStep
  <2> HIDE DEF j, R
  <2>4. Total(j, R) >= 0 /\ Total(j, R) \in Int /\ \A x \in R : Total(j, R) >= j[x]
    BY <2>1, <2>2, TotalIsMore, TotalIs
  <2>5. \A x \in R : Total(j, R) >= (a[x] - a[c]) * (b[x] - b[c])
    BY <2>2, <2>4
  <2> QED
    BY <2>3, <2>4, <2>5 DEF j, R
<1>2. ASSUME NEW T \in SUBSET S, \A U \in SUBSET T : U # T => U \in Good PROVE T \in Good
  <2>1. CASE T = {}
    <3>1. Cardinality(T) = 0 /\ Total(a, T) = 0 /\ Total(b, T) = 0 /\ Total(Products(a, b, T), T) = 0
      BY <2>1, TotalOfNone, FS_EmptySet
    <3> QED
      BY <3>1 DEF Covariance
  <2>2. ASSUME NEW c \in T PROVE T \in Good
    <3>1. T \ {c} \in Good
      BY <1>2
    <3> DEFINE more == Total(Joint(a, b, c, T), T \ {c})
    <3>2. more \in Int /\ more >= 0 /\ Covariance(a, b, T) = Covariance(a, b, T \ {c}) + more
      BY <1>1
    <3> HIDE DEF more
    <3> QED
      BY <3>1, <3>2
  <2> QED
    BY <2>1, <2>2
<1>3. \A T \in SUBSET S : T \in Good
  <2> TAKE T \in SUBSET S
  <2>1. IsFiniteSet(T) /\ \A U \in SUBSET T : (\A V \in SUBSET U : V # U => V \in Good) => U \in Good
    BY <1>2, SubsetIsSmaller
  <2> HIDE DEF Good
  <2> QED
    BY <2>1, SubsetInduction
<1>4. ASSUME NEW x \in S, NEW y \in S, (a[x] - a[y]) * (b[x] - b[y]) > 0
      PROVE  Covariance(a, b, S) > 0
  <2>1. x \in S \ {y}
    <3>1. x = y => (a[x] - a[y]) * (b[x] - b[y]) = 0
      OBVIOUS
    <3> QED
      BY <1>4, <3>1
  <2> DEFINE more == Total(Joint(a, b, y, S), S \ {y})
             d == (a[x] - a[y]) * (b[x] - b[y])
  <2>2. more \in Int /\ more >= d /\ Covariance(a, b, S) = Covariance(a, b, S \ {y}) + more
    BY <1>1, <2>1
  <2>3. Covariance(a, b, S \ {y}) \in Int /\ Covariance(a, b, S \ {y}) >= 0
    BY <1>3
  <2>4. d \in Int /\ d > 0
    BY <1>4
  <2> HIDE DEF more, d
  <2> QED
    BY <2>2, <2>3, <2>4
<1> QED
  BY <1>3, <1>4

-------------------------------------------------------------------------------
(* Products of positive numbers: the common denominator of a sum of quotients *)

Bare(f, T) == [x \in T |-> <<0, f[x]>>]
Product(f, T) == SumOver(Bare(f, T), T)[2]
IsProducts(g, f, T) ==
    g = [s \in SUBSET T |-> IF s = {} THEN 1 ELSE f[One(s)] * g[s \ {One(s)}]]

LEMMA BarePlus ==
  ASSUME NEW a \in Nat \ {0}, NEW b \in Nat \ {0}
  PROVE  Plus(<<0, a>>, <<0, b>>) = <<0, a * b>> /\ a * b \in Nat \ {0}
<1>1. 0 * b = 0 /\ 0 * a = 0 /\ 0 + 0 = 0
  OBVIOUS
<1>2. Plus(<<0, a>>, <<0, b>>) = <<0 * b + 0 * a, a * b>>
  BY DEF Plus
<1> QED
  BY <1>1, <1>2

LEMMA ProductIsBare ==
  ASSUME NEW f, NEW T, IsFiniteSet(T), \A x \in T : f[x] \in Nat \ {0}
  PROVE  Product(f, T) \in Nat \ {0} /\ SumOver(Bare(f, T), T) = <<0, Product(f, T)>>
<1> DEFINE q == Bare(f, T)
           Good == {S \in SUBSET T : SumOver(q, S) = <<0, SumOver(q, S)[2]>>
                                     /\ SumOver(q, S)[2] \in Nat \ {0}}
<1>0. \A x \in T : q[x] = <<0, f[x]>>
  BY DEF Bare
<1> HIDE DEF q
<1>1. ASSUME NEW S \in SUBSET T, \A U \in SUBSET S : U # S => U \in Good PROVE S \in Good
  <2>0. IsFiniteSet(S)
    BY SubsetIsSmaller
  <2>1. CASE S = {}
    <3>1. SumOver(q, S) = <<0, 1>>
      BY <2>0, <2>1, SumStep
    <3> QED
      BY <3>1
  <2>2. CASE S # {}
    <3> DEFINE c == One(S)
               R == S \ {c}
               d == SumOver(q, R)[2]
    <3>1. c \in S /\ R \in SUBSET S /\ R # S
      BY <2>2, OneIsIn
    <3>2. SumOver(q, R) = <<0, d>> /\ d \in Nat \ {0}
      BY <1>1, <3>1
    <3>3. SumOver(q, S) = Plus(q[c], SumOver(q, R))
      BY <2>0, <2>2, SumStep
    <3>4. q[c] = <<0, f[c]>> /\ f[c] \in Nat \ {0}
      BY <1>0, <3>1
    <3> HIDE DEF c, R, d
    <3>5. SumOver(q, S) = <<0, f[c] * d>> /\ f[c] * d \in Nat \ {0}
      BY <3>2, <3>3, <3>4, BarePlus
    <3> QED
      BY <3>5
  <2> QED
    BY <2>1, <2>2
<1>2. T \in Good
  <2> HIDE DEF Good
  <2> QED
    BY <1>1, SubsetInduction
<1> QED
  BY <1>2 DEF Product, q

LEMMA ProductOfNone == ASSUME NEW f PROVE Product(f, {}) = 1
<1>1. SumOver(Bare(f, {}), {}) = <<0, 1>>
  BY FS_EmptySet, SumStep
<1> QED
  BY <1>1 DEF Product

LEMMA ProductStep ==
  ASSUME NEW f, NEW T, IsFiniteSet(T), \A x \in T : f[x] \in Nat \ {0}, NEW y \in T
  PROVE  Product(f, T) = f[y] * Product(f, T \ {y})
<1> DEFINE q == Bare(f, T)
           R == T \ {y}
           r == Bare(f, R)
<1>1. \A x \in T : q[x] = <<0, f[x]>> /\ q[x] \in Fractions
  BY DEF Bare, Fractions
<1>2. IsFiniteSet(R) /\ R \in SUBSET T /\ \A x \in R : f[x] \in Nat \ {0}
  BY SubsetIsSmaller
<1>3. \A x \in R : r[x] = <<0, f[x]>>
  BY DEF Bare
<1> HIDE DEF q, r
<1>4. SumOver(q, T) = Plus(q[y], SumOver(q, R))
  BY <1>1, SumInAnyOrder
<1>5. SumOver(q, R) = SumOver(r, R)
  <2>1. \A x \in R : q[x] = r[x]
    BY <1>1, <1>2, <1>3
  <2> HIDE DEF R
  <2> QED
    BY <1>2, <2>1, SameSum
<1>6. SumOver(r, R) = <<0, Product(f, R)>> /\ Product(f, R) \in Nat \ {0}
  <2> HIDE DEF R
  <2> QED
    BY <1>2, ProductIsBare DEF r
<1>7. SumOver(q, T) = <<0, Product(f, T)>> /\ Product(f, T) \in Nat \ {0}
  BY ProductIsBare DEF q
<1>8. SumOver(q, T) = <<0, f[y] * Product(f, R)>>
  BY <1>1, <1>4, <1>5, <1>6, BarePlus
<1> QED
  BY <1>7, <1>8

LEMMA ProductIs ==
  ASSUME NEW f, NEW T, IsFiniteSet(T), \A x \in T : f[x] \in Nat \ {0}
  PROVE  (CHOOSE g : IsProducts(g, f, T))[T] = Product(f, T)
<1> DEFINE h == [S \in SUBSET T |-> Product(f, S)]
           g == CHOOSE g : IsProducts(g, f, T)
<1>1. \A S \in SUBSET T : IsFiniteSet(S) /\ \A x \in S : f[x] \in Nat \ {0}
  BY SubsetIsSmaller
<1>2. \A S \in SUBSET T : h[S] = IF S = {} THEN 1 ELSE f[One(S)] * h[S \ {One(S)}]
  <2> TAKE S \in SUBSET T
  <2>1. CASE S = {}
    BY <2>1, ProductOfNone
  <2>2. CASE S # {}
    <3>1. One(S) \in S /\ S \ {One(S)} \in SUBSET T
      BY <2>2, OneIsIn
    <3>2. Product(f, S) = f[One(S)] * Product(f, S \ {One(S)})
      BY <1>1, <3>1, ProductStep
    <3> QED
      BY <2>2, <3>1, <3>2
  <2> QED
    BY <2>1, <2>2
<1>3. IsProducts(h, f, T)
  <2>1. \A k : /\ k = [S \in SUBSET T |-> k[S]]
               /\ \A S \in SUBSET T : k[S] = IF S = {} THEN 1 ELSE f[One(S)] * k[S \ {One(S)}]
               => IsProducts(k, f, T)
    BY DEF IsProducts
  <2>2. h = [S \in SUBSET T |-> h[S]]
    OBVIOUS
  <2> HIDE DEF h
  <2> QED
    BY <1>2, <2>1, <2>2
<1>4. IsProducts(g, f, T)
  <2> HIDE DEF IsProducts, h
  <2> QED
    BY <1>3
<1> HIDE DEF g, h
<1> DEFINE Good == {S \in SUBSET T : g[S] = Product(f, S)}
<1>5. ASSUME NEW S \in SUBSET T, \A U \in SUBSET S : U # S => U \in Good PROVE S \in Good
  <2>1. CASE S = {}
    BY <1>4, <2>1, ProductOfNone DEF IsProducts
  <2>2. CASE S # {}
    <3>1. One(S) \in S /\ S \ {One(S)} \in SUBSET S /\ S \ {One(S)} # S
      BY <2>2, OneIsIn
    <3>2. g[S] = f[One(S)] * g[S \ {One(S)}]
      BY <1>4, <2>2 DEF IsProducts
    <3>3. g[S \ {One(S)}] = Product(f, S \ {One(S)})
      BY <1>5, <3>1
    <3>4. Product(f, S) = f[One(S)] * Product(f, S \ {One(S)})
      BY <1>1, <3>1, ProductStep
    <3> QED
      BY <3>2, <3>3, <3>4
  <2> QED
    BY <2>1, <2>2
<1>6. T \in Good
  <2> HIDE DEF Good
  <2> QED
    BY <1>5, SubsetInduction
<1> QED
  BY <1>6 DEF g

LEMMA ProductOfProducts ==
  ASSUME NEW a, NEW b, NEW c, NEW T, IsFiniteSet(T),
         \A x \in T : /\ a[x] \in Nat \ {0} /\ b[x] \in Nat \ {0} /\ c[x] = a[x] * b[x]
  PROVE  Product(c, T) = Product(a, T) * Product(b, T)
<1> DEFINE Good == {S \in SUBSET T : Product(c, S) = Product(a, S) * Product(b, S)}
<1>0. \A x \in T : c[x] \in Nat \ {0}
  BY BarePlus
<1>1. ASSUME NEW S \in SUBSET T, \A U \in SUBSET S : U # S => U \in Good PROVE S \in Good
  <2>0. IsFiniteSet(S)
    BY SubsetIsSmaller
  <2>1. CASE S = {}
    BY <2>1, ProductOfNone
  <2>2. ASSUME NEW y \in S PROVE Product(c, S) = Product(a, S) * Product(b, S)
    <3> DEFINE R == S \ {y}
    <3>1. /\ Product(a, S) = a[y] * Product(a, R) /\ Product(b, S) = b[y] * Product(b, R)
          /\ Product(c, S) = c[y] * Product(c, R)
      BY <1>0, <2>0, ProductStep
    <3>2. Product(c, R) = Product(a, R) * Product(b, R)
      BY <1>1
    <3>3. IsFiniteSet(R) /\ \A x \in R : a[x] \in Nat \ {0} /\ b[x] \in Nat \ {0}
      BY <2>0, SubsetIsSmaller
    <3> HIDE DEF R
    <3>4. Product(a, R) \in Nat \ {0} /\ Product(b, R) \in Nat \ {0}
      BY <3>3, ProductIsBare
    <3>5. a[y] \in Nat \ {0} /\ b[y] \in Nat \ {0} /\ c[y] = a[y] * b[y]
      OBVIOUS
    <3>6. \A i, j, k, l \in Nat : (i * k) * (j * l) = (i * j) * (k * l)
      OBVIOUS
    <3> QED
      BY <3>1, <3>2, <3>4, <3>5, <3>6
  <2> QED
    BY <2>1, <2>2
<1>2. T \in Good
  <2> HIDE DEF Good
  <2> QED
    BY <1>1, SubsetInduction
<1> QED
  BY <1>2

-------------------------------------------------------------------------------
(* The pages of titles and weeks *)

\* No post is scraped before it is published.
NothingFromTheFuture == \A p \in Posts : \A m \in Scrapes[p] : m.lag = None \/ m.lag >= 0
DatedOk == \A p \in Stored : Reference(p) \in Int /\ Reference(p) <= today

LEMMA ReferenceOfRow ==
  ASSUME NothingFromTheFuture, NEW p \in Posts, NEW m \in Scrapes[p], NEW d \in Int
  PROVE  LET r == Row(m, d)
             ref == IF r.published # None THEN r.published ELSE r.detected
         IN  ref \in Int /\ ref <= d
<1>1. m.lag \in Int \cup {None} /\ (m.lag = None \/ m.lag >= 0)
  BY PostTableAssumption DEF NothingFromTheFuture
<1>2. Row(m, d).published = IF m.lag = None THEN None ELSE d - m.lag
  BY DEF Row
<1>3. Row(m, d).detected = d
  BY DEF Row
<1> HIDE DEF Row
<1> QED
  BY <1>1, <1>2, <1>3

LEMMA DatedInit == ASSUME NothingFromTheFuture PROVE TableInit => DatedOk
<1> SUFFICES ASSUME TableInit, NEW p \in Stored PROVE Reference(p) \in Int /\ Reference(p) <= today
  BY DEF DatedOk
<1>1. PICK start \in Starts :
        post = [q \in Posts |->
             IF q \in DOMAIN start THEN [Row(start[q], 0) EXCEPT !.analysis = Earlier[q]] ELSE None]
  BY DEF TableInit
<1>2. p \in Posts /\ p \in DOMAIN start /\ start[p] \in Scrapes[p]
  BY <1>1, PostTableAssumption DEF Stored
<1> DEFINE r == Row(start[p], 0)
<1>3. post[p] = [r EXCEPT !.analysis = Earlier[p]]
  BY <1>1, <1>2
<1>4. post[p].published = r.published /\ post[p].detected = r.detected
  BY <1>3 DEF Row
<1>5. LET ref == IF r.published # None THEN r.published ELSE r.detected
      IN  ref \in Int /\ ref <= 0
  BY <1>2, ReferenceOfRow
<1> HIDE DEF r
<1>6. today = 0
  BY DEF TableInit
<1> QED
  BY <1>4, <1>5, <1>6 DEF Reference

LEMMA DatedStep ==
  ASSUME NothingFromTheFuture, NoneIsNoPost, TableOk, DatedOk,
         TableNext \/ NextDay \/ UNCHANGED tableVars
  PROVE  DatedOk'
<1>1. TableOk' /\ \A p \in Stored : Kept(p)
  BY TableStep
<1>2. today \in Int /\ today' \in Int /\ today' >= today
  <2>1. today \in Int /\ today' \in Int
    BY <1>1, PostTableAssumption DEF TableOk
  <2>2. today' = today \/ today' = today + 1
    BY DEF TableNext, NextDay, tableVars, Scrape, MakeAsset, Classify, Describe, AssignTitle, Review
  <2> QED
    BY <2>1, <2>2
<1> SUFFICES ASSUME NEW p \in Stored' PROVE (Reference(p) \in Int /\ Reference(p) <= today)'
  BY DEF DatedOk
<1>3. CASE p \in Stored
  <2>1. Reference(p)' = Reference(p)
    BY <1>1, <1>3 DEF Kept, Reference
  <2> QED
    BY <1>2, <1>3, <2>1 DEF DatedOk
<1>4. CASE p \notin Stored
  <2>1. p \in Posts /\ post[p] = None /\ post'[p] # None
    BY <1>4 DEF Stored
  <2>2. PICK q \in Posts : Scrape(q) \/ Classify(q)
    BY <2>1 DEF TableNext, NextDay, tableVars, MakeAsset, Describe, AssignTitle, Review
  <2>3. ~Classify(q)
    <3> SUFFICES ASSUME Classify(q) PROVE FALSE
      OBVIOUS
    <3>1. post[q] # None /\ \E a \in Analyses : post' = [post EXCEPT ![q].analysis = a]
      BY DEF Classify
    <3>2. post'[p] = post[p]
      BY <2>1, <3>1 DEF TableOk
    <3> QED
      BY <2>1, <3>2
  <2>4. PICK m \in Scrapes[q] : post' = [post EXCEPT ![q] = Row(m, today)]
    BY <2>2, <2>3 DEF Scrape
  <2>5. q = p /\ post'[p] = Row(m, today)
    BY <2>1, <2>4 DEF TableOk
  <2> DEFINE r == Row(m, today)
  <2>6. LET ref == IF r.published # None THEN r.published ELSE r.detected
        IN  ref \in Int /\ ref <= today
    BY <1>2, <2>4, <2>5, ReferenceOfRow
  <2> HIDE DEF r
  <2>7. post'[p] = r
    BY <2>5 DEF r
  <2> QED
    BY <1>2, <2>6, <2>7 DEF Reference
<1> QED
  BY <1>3, <1>4

\* The engagement of posts, added up.
EngagementOf == [p \in Posts |-> Engagement(p)]

LEMMA EngagementTotal ==
  ASSUME TableOk, NEW S \in SUBSET Stored, IsFiniteSet(S)
  PROVE  /\ MapThenSumSet(Engagement, S) = Total(EngagementOf, S)
         /\ \A p \in S : EngagementOf[p] = Engagement(p) /\ EngagementOf[p] \in Nat
<1> DEFINE f == EngagementOf
           P(g) == [s \in SUBSET S |-> IF s = {} THEN 0
                      ELSE Engagement(CHOOSE x \in s : TRUE) + g[s \ {CHOOSE x \in s : TRUE}]]
<1>1. \A p \in S : f[p] = Engagement(p) /\ f[p] \in Nat
  BY NumbersOfPosts DEF EngagementOf
<1>2. MapThenSumSet(Engagement, S) = (CHOOSE g : g = P(g))[S]
  BY DEF MapThenSumSet, MapThenFoldSet
<1> HIDE DEF f
<1>3. \A g : g = P(g) <=> IsTotals(g, f, S)
  <2> TAKE g
  <2>1. \A s \in SUBSET S : s # {} => Engagement(CHOOSE x \in s : TRUE) = f[One(s)]
    <3> TAKE s \in SUBSET S
    <3>1. s # {} => One(s) \in S
      BY OneIsIn
    <3> QED
      BY <1>1, <3>1 DEF One
  <2>2. P(g) = [s \in SUBSET S |-> IF s = {} THEN 0 ELSE f[One(s)] + g[s \ {One(s)}]]
    BY <2>1 DEF One
  <2> HIDE DEF P
  <2> QED
    BY <2>2 DEF IsTotals
<1> HIDE DEF P
<1>4. (CHOOSE g : g = P(g)) = (CHOOSE g : IsTotals(g, f, S))
  BY <1>3
<1>5. \A p \in S : f[p] \in Int
  BY <1>1
<1>6. (CHOOSE g : IsTotals(g, f, S))[S] = Total(f, S)
  BY <1>5, TotalIs
<1> QED
  BY <1>1, <1>2, <1>4, <1>6 DEF f

\* The groups of a page, added up.
PostsIn(f) == MapThenSumSet(LAMBDA k : f[k].posts, DOMAIN f)
EngagementIn(f) == MapThenSumSet(LAMBDA k : f[k].engagement, DOMAIN f)
Grouped(key, S) == [k \in KeysOf(S, key) |-> Group(PartOf(S, key, {k}))]

LEMMA GroupsAddUp ==
  ASSUME TableOk, NEW S \in SUBSET Stored, IsFiniteSet(S), NEW key
  PROVE  /\ PostsIn(Grouped(key, S)) = Cardinality(S)
         /\ EngagementIn(Grouped(key, S)) = MapThenSumSet(Engagement, S)
<1> DEFINE f == Grouped(key, S)
           K == KeysOf(S, key)
           part(k) == PartOf(S, key, {k})
           n == [k \in K |-> Cardinality(part(k))]
           e == [k \in K |-> Total(EngagementOf, part(k))]
<1>1. \A k : IsFiniteSet(part(k)) /\ part(k) \in SUBSET Stored
  <2> TAKE k
  <2>1. part(k) \subseteq S
    BY DEF PartOf
  <2> HIDE DEF part
  <2> QED
    BY <2>1, SubsetIsSmaller
<1>2. DOMAIN f = K /\ \A k \in K : f[k].posts = n[k] /\ f[k].engagement = e[k]
  <2>1. \A k \in K : f[k] = Group(part(k))
    BY DEF Grouped
  <2>2. \A k : Group(part(k)).posts = Cardinality(part(k))
               /\ Group(part(k)).engagement = MapThenSumSet(Engagement, part(k))
    BY DEF Group, Sum
  <2>3. ASSUME NEW k PROVE MapThenSumSet(Engagement, part(k)) = Total(EngagementOf, part(k))
    <3> DEFINE T == part(k)
    <3>1. IsFiniteSet(T) /\ T \in SUBSET Stored
      BY <1>1
    <3> HIDE DEF T
    <3>2. MapThenSumSet(Engagement, T) = Total(EngagementOf, T)
      BY <3>1, EngagementTotal
    <3> QED
      BY <3>2 DEF T
  <2>4. DOMAIN f = K
    BY DEF Grouped
  <2> HIDE DEF f, part, K
  <2> QED
    BY <2>1, <2>2, <2>3, <2>4
<1>3. /\ Total(n, K) = Cardinality(S) /\ IsFiniteSet(K) /\ \A k \in K : n[k] \in Int
  <2>1. \A k \in KeysOf(S, key) : n[k] = Cardinality(PartOf(S, key, {k}))
    OBVIOUS
  <2> HIDE DEF n
  <2> QED
    BY <2>1, ClassCountsAddUp
<1>4. \A p \in S : EngagementOf[p] \in Int
  <2>1. \A p \in S : p \in Posts /\ Engagement(p) \in Nat
    BY NumbersOfPosts
  <2> QED
    BY <2>1 DEF EngagementOf
<1>5. Total(e, K) = Total(EngagementOf, S) /\ \A k \in K : e[k] \in Int
  <2>1. \A k \in KeysOf(S, key) : e[k] = Total(EngagementOf, PartOf(S, key, {k}))
    OBVIOUS
  <2> HIDE DEF e
  <2>2. Total(e, KeysOf(S, key)) = Total(EngagementOf, S)
    BY <1>4, <2>1, ClassTotalsAddUp
  <2>3. ASSUME NEW k \in K PROVE e[k] \in Int
    <3>1. \A p \in PartOf(S, key, {k}) : EngagementOf[p] \in Int
      BY <1>4 DEF PartOf
    <3>2. Total(EngagementOf, PartOf(S, key, {k})) \in Int
      BY <1>1, <3>1, TotalIs
    <3> QED
      BY <2>1, <3>2
  <2> QED
    BY <2>2, <2>3
<1> DEFINE P(g) == [s \in SUBSET K |-> IF s = {} THEN 0
                      ELSE f[CHOOSE x \in s : TRUE].posts + g[s \ {CHOOSE x \in s : TRUE}]]
           Q(g) == [s \in SUBSET K |-> IF s = {} THEN 0
                      ELSE f[CHOOSE x \in s : TRUE].engagement + g[s \ {CHOOSE x \in s : TRUE}]]
<1> HIDE DEF f, K, n, e
<1>6. \A s \in SUBSET K : s # {} => One(s) \in K
  BY OneIsIn
<1>7. PostsIn(f) = Total(n, K)
  <2>1. PostsIn(f) = (CHOOSE g : g = P(g))[K]
    BY <1>2 DEF PostsIn, MapThenSumSet, MapThenFoldSet
  <2>2. \A g : g = P(g) <=> IsTotals(g, n, K)
    <3> TAKE g
    <3>1. P(g) = [s \in SUBSET K |-> IF s = {} THEN 0 ELSE n[One(s)] + g[s \ {One(s)}]]
      BY <1>2, <1>6 DEF One
    <3> HIDE DEF P
    <3> QED
      BY <3>1 DEF IsTotals
  <2> HIDE DEF P
  <2>3. (CHOOSE g : g = P(g)) = (CHOOSE g : IsTotals(g, n, K))
    BY <2>2
  <2> QED
    BY <1>3, <2>1, <2>3, TotalIs
<1>8. EngagementIn(f) = Total(e, K)
  <2>1. EngagementIn(f) = (CHOOSE g : g = Q(g))[K]
    BY <1>2 DEF EngagementIn, MapThenSumSet, MapThenFoldSet
  <2>2. \A g : g = Q(g) <=> IsTotals(g, e, K)
    <3> TAKE g
    <3>1. Q(g) = [s \in SUBSET K |-> IF s = {} THEN 0 ELSE e[One(s)] + g[s \ {One(s)}]]
      BY <1>2, <1>6 DEF One
    <3> HIDE DEF Q
    <3> QED
      BY <3>1 DEF IsTotals
  <2> HIDE DEF Q
  <2>3. (CHOOSE g : g = Q(g)) = (CHOOSE g : IsTotals(g, e, K))
    BY <2>2
  <2> QED
    BY <1>3, <1>5, <2>1, <2>3, TotalIs
<1>9. MapThenSumSet(Engagement, S) = Total(EngagementOf, S)
  BY EngagementTotal
<1> QED
  BY <1>3, <1>5, <1>7, <1>8, <1>9 DEF f

LEMMA TotalOfZeros ==
  ASSUME NEW f, NEW T, IsFiniteSet(T), \A x \in T : f[x] = 0
  PROVE  Total(f, T) = 0
<1>1. \A x \in T : f[x] \in Int /\ f[x] = -f[x]
  OBVIOUS
<1>2. Total(f, T) = -Total(f, T)
  BY <1>1, TotalNegated
<1>3. Total(f, T) \in Int
  BY <1>1, TotalIs
<1> QED
  BY <1>2, <1>3

\* A class without members counts nothing.
LEMMA MoreClassesAddUp ==
  ASSUME NEW S, IsFiniteSet(S), NEW key, NEW K, IsFiniteSet(K), KeysOf(S, key) \subseteq K,
         NEW e, \A i \in K : e[i] = Cardinality(PartOf(S, key, {i}))
  PROVE  Total(e, K) = Cardinality(S) /\ \A i \in K : e[i] \in Int
<1> DEFINE A == KeysOf(S, key)
           B == K \ A
<1>1. /\ Total(e, A) = Cardinality(S)
      /\ IsFiniteSet(A) /\ \A i \in A : e[i] \in Int
  <2>1. \A i \in KeysOf(S, key) : e[i] = Cardinality(PartOf(S, key, {i}))
    OBVIOUS
  <2> QED
    BY <2>1, ClassCountsAddUp
<1>2. \A i \in B : e[i] = 0
  <2> TAKE i \in B
  <2>1. PartOf(S, key, {i}) = {}
    BY DEF PartOf, KeysOf
  <2> QED
    BY <2>1, FS_EmptySet
<1>3. IsFiniteSet(B) /\ A \cap B = {} /\ A \cup B = K
  BY SubsetIsSmaller
<1> HIDE DEF A, B
<1>4. Total(e, A \cup B) = Total(e, A) + Total(e, B)
  BY <1>1, <1>2, <1>3, TotalOfTwo
<1>5. Total(e, B) = 0
  BY <1>2, <1>3, TotalOfZeros
<1>6. Cardinality(S) \in Nat
  BY FS_CardinalityType
<1>7. \A i \in K : e[i] \in Int
  BY <1>1, <1>2, <1>3
<1>8. Total(e, K) = Total(e, A) + Total(e, B)
  BY <1>3, <1>4
<1>9. Total(e, K) = Cardinality(S)
  BY <1>1, <1>5, <1>6, <1>8
<1> QED
  BY <1>7, <1>9

\* The channels are of the markets and platforms the pages have columns for.
ChannelsHaveColumns == \A c \in Channels : Market[c] \in Markets /\ Platform[c] \in Platforms

PostsOfWeek(w) == {p \in Stored : InPair(ChannelOf[p]) /\ PairWeek(p) = w}

\* The markets of a week of the timeline have all posts of the week.
LEMMA TimelineHasThePosts ==
  ASSUME IsFiniteSet(Posts), ChannelsHaveColumns, NEW w \in Axis
  PROVE  MapThenSumSet(LAMBDA m : Timeline[m][w].posts, Markets) = Cardinality(PostsOfWeek(w))
<1> DEFINE A == PostsOfWeek(w)
           key == [p \in A |-> Market[ChannelOf[p]]]
           e == [m \in Markets |-> Cardinality(PartOf(A, key, {m}))]
           P(g) == [s \in SUBSET Markets |-> IF s = {} THEN 0
                      ELSE Timeline[CHOOSE x \in s : TRUE][w].posts + g[s \ {CHOOSE x \in s : TRUE}]]
<1>1. A \subseteq Posts /\ IsFiniteSet(A)
  <2>1. A \subseteq Posts
    BY DEF PostsOfWeek, Stored
  <2> QED
    BY <2>1, SubsetIsSmaller
<1>2. IsFiniteSet(Markets)
  <2>1. IsFiniteSet({}) /\ IsFiniteSet({} \cup {"US"})
    BY FS_EmptySet, FS_AddElement
  <2>2. IsFiniteSet({} \cup {"US"} \cup {"UK"})
    BY <2>1, FS_AddElement
  <2>3. IsFiniteSet({} \cup {"US"} \cup {"UK"} \cup {"DE"})
    BY <2>2, FS_AddElement
  <2>4. Markets = {} \cup {"US"} \cup {"UK"} \cup {"DE"}
    BY DEF Markets
  <2> QED
    BY <2>3, <2>4
<1>3. KeysOf(A, key) \subseteq Markets
  <2>1. \A p \in A : ChannelOf[p] \in Channels
    BY <1>1, PostTableAssumption
  <2> QED
    BY <2>1 DEF KeysOf, ChannelsHaveColumns
<1>4. Total(e, Markets) = Cardinality(A) /\ \A m \in Markets : e[m] \in Int
  <2>1. \A m \in Markets : e[m] = Cardinality(PartOf(A, key, {m}))
    OBVIOUS
  <2> HIDE DEF e, A, key
  <2> QED
    BY <1>1, <1>2, <1>3, <2>1, MoreClassesAddUp
<1>5. \A m \in Markets : Timeline[m][w].posts = e[m]
  <2> TAKE m \in Markets
  <2> DEFINE pool == {p \in Stored : InPair(ChannelOf[p]) /\ PairWeek(p) \in Axis}
             S == {p \in pool : Market[ChannelOf[p]] = m /\ PairWeek(p) = w}
  <2>1. S = PartOf(A, key, {m})
    BY DEF PartOf, PostsOfWeek
  <2>2. Timeline[m][w].posts = Cardinality(S)
    BY DEF Timeline
  <2> QED
    BY <2>1, <2>2
<1>6. MapThenSumSet(LAMBDA m : Timeline[m][w].posts, Markets) = (CHOOSE g : g = P(g))[Markets]
  BY DEF MapThenSumSet, MapThenFoldSet
<1> HIDE DEF A, key, e
<1>7. \A g : g = P(g) <=> IsTotals(g, e, Markets)
  <2> TAKE g
  <2>1. \A s \in SUBSET Markets : s # {} => One(s) \in Markets
    BY OneIsIn
  <2>2. P(g) = [s \in SUBSET Markets |-> IF s = {} THEN 0 ELSE e[One(s)] + g[s \ {One(s)}]]
    BY <1>5, <2>1 DEF One
  <2> HIDE DEF P
  <2> QED
    BY <2>2 DEF IsTotals
<1> HIDE DEF P
<1>8. (CHOOSE g : g = P(g)) = (CHOOSE g : IsTotals(g, e, Markets))
  BY <1>7
<1> QED
  BY <1>2, <1>4, <1>6, <1>8, TotalIs DEF A

\* The columns of the detail page show every post of a title once.
LEMMA DetailPageHasThePosts ==
  ASSUME IsFiniteSet(Posts), ChannelsHaveColumns, NEW t
  PROVE  Cardinality(UNION {DetailPage(t)[m][pl] : m \in Markets, pl \in Platforms})
           = Cardinality(TitlePosts(t))
<1> DEFINE T == TitlePosts(t)
           row == [p \in T |-> [of |-> p, rate |-> IF post[p].views <= 0 THEN <<0, 1>>
                                                   ELSE <<post[p].likes, post[p].views>>]]
           in(m, pl) == {q \in T : Market[ChannelOf[q]] = m /\ Platform[ChannelOf[q]] = pl}
           U == UNION {DetailPage(t)[m][pl] : m \in Markets, pl \in Platforms}
           back == [r \in U |-> r.of]
<1>1. T \subseteq Posts /\ IsFiniteSet(T)
  <2>1. T \subseteq Posts
    BY DEF TitlePosts, Stored
  <2> QED
    BY <2>1, SubsetIsSmaller
<1>2. \A m \in Markets, pl \in Platforms : DetailPage(t)[m][pl] = {row[p] : p \in in(m, pl)}
  <2> TAKE m \in Markets, pl \in Platforms
  <2>1. DetailPage(t)[m][pl]
          = {[of |-> p, rate |-> IF post[p].views <= 0 THEN <<0, 1>>
                                 ELSE <<post[p].likes, post[p].views>>] : p \in in(m, pl)}
    BY DEF DetailPage
  <2>2. \A p \in in(m, pl) :
          row[p] = [of |-> p, rate |-> IF post[p].views <= 0 THEN <<0, 1>>
                                       ELSE <<post[p].likes, post[p].views>>]
    OBVIOUS
  <2> HIDE DEF row, in
  <2> QED
    BY <2>1, <2>2
<1>3. \A p \in T : \E m \in Markets, pl \in Platforms : p \in in(m, pl)
  <2> TAKE p \in T
  <2>1. ChannelOf[p] \in Channels
    BY <1>1, PostTableAssumption
  <2> QED
    BY <2>1 DEF ChannelsHaveColumns
<1>4. \A p \in T : row[p].of = p
  OBVIOUS
<1>5. \A m, pl : in(m, pl) \subseteq T
  OBVIOUS
<1> HIDE DEF row, in, T
<1>6. U = {row[p] : p \in T}
  <2>1. U \subseteq {row[p] : p \in T}
    BY <1>2, <1>5
  <2>2. {row[p] : p \in T} \subseteq U
    BY <1>2, <1>3
  <2> QED
    BY <2>1, <2>2
<1>7. \A r \in U : back[r] = r.of
  OBVIOUS
<1> HIDE DEF U, back
<1>8. T = {back[r] : r \in U}
  BY <1>4, <1>6, <1>7
<1>9. IsFiniteSet(U) /\ Cardinality(U) <= Cardinality(T)
  BY <1>1, <1>6, FiniteImage
<1>10. Cardinality(T) <= Cardinality(U)
  BY <1>8, <1>9, FiniteImage
<1>11. Cardinality(T) \in Nat /\ Cardinality(U) \in Nat
  BY <1>1, <1>9, FS_CardinalityType
<1>12. Cardinality(U) = Cardinality(T)
  BY <1>9, <1>10, <1>11
<1> QED
  BY <1>12 DEF U, T

\* What a title page says of one title.
AddsTo(f, page) == /\ MapThenSumSet(LAMBDA k : f[k].posts, DOMAIN f) = page.total.posts
                   /\ MapThenSumSet(LAMBDA k : f[k].engagement, DOMAIN f) = page.total.engagement
TitleAddsUp(t, page) ==
    /\ \A pl \in Platforms, m \in Markets :
         LET C == ChannelsFor(pl, m) IN t \in TitlesIn(C, today) <=> C \cap DOMAIN page.channels # {}
    /\ AddsTo(page.platforms, page) /\ AddsTo(page.markets, page) /\ AddsTo(page.channels, page)
    /\ AddsTo(page.weekly, page)
    /\ page.ever = Cardinality(UNION {DetailPage(t)[m][pl] : m \in Markets, pl \in Platforms})

LEMMA TitlePageAddsUp ==
  ASSUME IsFiniteSet(Posts), TableOk, DatedOk, ChannelsHaveColumns, NEW t \in Titles
  PROVE  TitleAddsUp(t, TitlePage(t, WindowDays, today))
<1> DEFINE page == TitlePage(t, WindowDays, today)
           S == OnPage(t, WindowDays, today)
           platform == [p \in S |-> Platform[ChannelOf[p]]]
           market == [p \in S |-> Market[ChannelOf[p]]]
           channel == [p \in S |-> ChannelOf[p]]
           week == [p \in S |-> PairWeek(p)]
<1>1. S \in SUBSET Stored /\ IsFiniteSet(S)
  <2>1. S \subseteq Stored /\ S \subseteq Posts
    BY DEF OnPage, TitlePosts, Stored
  <2> QED
    BY <2>1, SubsetIsSmaller
<1>2. /\ page.total = Group(S)
      /\ page.platforms = GroupsBy(LAMBDA p : Platform[ChannelOf[p]], S)
      /\ page.markets = GroupsBy(LAMBDA p : Market[ChannelOf[p]], S)
      /\ page.channels = GroupsBy(LAMBDA p : ChannelOf[p], S)
      /\ page.weekly = GroupsBy(PairWeek, S)
      /\ page.ever = Cardinality(TitlePosts(t))
  BY DEF TitlePage
<1> HIDE DEF page, S
<1>3. GroupsBy(LAMBDA p : Platform[ChannelOf[p]], S) = Grouped(platform, S)
  BY DEF GroupsBy, Grouped, KeysOf, PartOf
<1>4. GroupsBy(LAMBDA p : Market[ChannelOf[p]], S) = Grouped(market, S)
  BY DEF GroupsBy, Grouped, KeysOf, PartOf
<1>5. GroupsBy(LAMBDA p : ChannelOf[p], S) = Grouped(channel, S)
  BY DEF GroupsBy, Grouped, KeysOf, PartOf
<1>6. GroupsBy(PairWeek, S) = Grouped(week, S)
  BY DEF GroupsBy, Grouped, KeysOf, PartOf
<1>7. page.total.posts = Cardinality(S) /\ page.total.engagement = MapThenSumSet(Engagement, S)
  BY <1>2 DEF Group, Sum
<1>8. DOMAIN page.channels = {ChannelOf[p] : p \in S}
  <2>1. DOMAIN Grouped(channel, S) = KeysOf(S, channel)
    BY DEF Grouped
  <2>2. KeysOf(S, channel) = {ChannelOf[p] : p \in S}
    BY DEF KeysOf
  <2> HIDE DEF channel
  <2> QED
    BY <1>2, <1>5, <2>1, <2>2
<1>9. ASSUME NEW key PROVE AddsTo(Grouped(key, S), page)
  <2>1. /\ PostsIn(Grouped(key, S)) = page.total.posts
        /\ EngagementIn(Grouped(key, S)) = page.total.engagement
    BY <1>1, <1>7, GroupsAddUp
  <2> QED
    BY <2>1 DEF PostsIn, EngagementIn, AddsTo
<1>10. /\ AddsTo(page.platforms, page) /\ AddsTo(page.markets, page)
       /\ AddsTo(page.channels, page) /\ AddsTo(page.weekly, page)
  <2>1. /\ page.platforms = Grouped(platform, S) /\ page.markets = Grouped(market, S)
        /\ page.channels = Grouped(channel, S) /\ page.weekly = Grouped(week, S)
    BY <1>2, <1>3, <1>4, <1>5, <1>6
  <2> HIDE DEF platform, market, channel, week
  <2> QED
    BY <1>9, <2>1
<1>11. ASSUME NEW C PROVE t \in TitlesIn(C, today) <=> C \cap DOMAIN page.channels # {}
  <2>1. S = {p \in Stored : asset[p] # None /\ asset[p].title = t /\ Reference(p) >= today - WindowDays}
    BY DEF S, OnPage, TitlePosts
  <2>2. TitledOf(InWindow(C, today))
          = {p \in Stored : /\ ChannelOf[p] \in C /\ Reference(p) >= today - WindowDays
                            /\ asset[p] # None /\ asset[p].title # None}
    <3>1. today \in Int /\ WindowDays \in Nat
      BY FiguresAssumption, PostTableAssumption DEF TableOk
    <3>2. \A p \in Stored : Reference(p) \in (today - WindowDays)..today <=> Reference(p) >= today - WindowDays
      BY <3>1 DEF DatedOk
    <3> QED
      BY <3>2 DEF TitledOf, InWindow, Between
  <2>3. t # None
    BY PostTableAssumption
  <2>4. t \in TitlesIn(C, today) <=> \E p \in TitledOf(InWindow(C, today)) : asset[p].title = t
    BY DEF TitlesIn
  <2>5. C \cap DOMAIN page.channels # {} <=> \E p \in S : ChannelOf[p] \in C
    BY <1>8
  <2> QED
    BY <2>1, <2>2, <2>3, <2>4, <2>5
<1>12. page.ever = Cardinality(UNION {DetailPage(t)[m][pl] : m \in Markets, pl \in Platforms})
  BY <1>2, DetailPageHasThePosts
<1>13. \A pl \in Platforms, m \in Markets :
         t \in TitlesIn(ChannelsFor(pl, m), today) <=> ChannelsFor(pl, m) \cap DOMAIN page.channels # {}
  BY <1>11
<1>14. TitleAddsUp(t, page)
  BY <1>10, <1>12, <1>13 DEF TitleAddsUp
<1> QED
  BY <1>14 DEF page

LEMMA TitlePagesAgree ==
  ASSUME IsFiniteSet(Posts), TableOk, DatedOk, ChannelsHaveColumns
  PROVE  TitlePagesCountTheSame
<1> DEFINE posts(w) == MapThenSumSet(LAMBDA m : Timeline[m][w].posts, Markets)
           titled(w) == {p \in Stored : /\ asset[p] # None /\ asset[p].title # None
                                        /\ InPair(ChannelOf[p]) /\ PairWeek(p) = w}
<1>1. \A t \in Titles : TitleAddsUp(t, TitlePage(t, WindowDays, today))
  BY TitlePageAddsUp
<1>2. ASSUME NEW w \in Axis PROVE Cardinality(titled(w)) <= posts(w)
  <2>1. posts(w) = Cardinality(PostsOfWeek(w))
    BY TimelineHasThePosts
  <2>2. titled(w) \subseteq PostsOfWeek(w) /\ PostsOfWeek(w) \subseteq Posts
    BY DEF PostsOfWeek, Stored
  <2>3. IsFiniteSet(PostsOfWeek(w))
    BY <2>2, SubsetIsSmaller
  <2>4. Cardinality(titled(w)) <= Cardinality(PostsOfWeek(w))
    BY <2>2, <2>3, SubsetIsSmaller
  <2> QED
    BY <2>1, <2>4
<1>3. ASSUME CompletedWeek(today) \in Axis PROVE Tile(today).posts = posts(CompletedWeek(today))
  <2>1. Tile(today).posts = Cardinality(PostsOfWeek(CompletedWeek(today)))
    BY DEF Tile, PostsOfWeek
  <2>2. posts(CompletedWeek(today)) = Cardinality(PostsOfWeek(CompletedWeek(today)))
    BY <1>3, TimelineHasThePosts
  <2> QED
    BY <2>1, <2>2
<1>4. Axis # {} => Tile(today).has_brief
  BY DEF Axis, Tile
<1>5. (/\ \A t \in Titles : TitleAddsUp(t, TitlePage(t, WindowDays, today))
       /\ \A w \in Axis : Cardinality(titled(w)) <= posts(w)
       /\ CompletedWeek(today) \in Axis => Tile(today).posts = posts(CompletedWeek(today))
       /\ Axis # {} => Tile(today).has_brief) <=> TitlePagesCountTheSame
  BY DEF TitlePagesCountTheSame, TitleAddsUp, AddsTo
<1> HIDE DEF posts, titled
<1> QED
  BY <1>1, <1>2, <1>3, <1>4, <1>5

-------------------------------------------------------------------------------
(* The feed of outstanding posts *)

Times(b, n) == [i \in 1..n |-> b]

LEMMA PowerIs ==
  ASSUME NEW b \in Nat \ {0}, NEW n \in Nat
  PROVE  Power(b, n) = Product(Times(b, n), 1..n) /\ Power(b, n) \in Nat \ {0}
<1> DEFINE f == Times(b, n)
           S == 1..n
           P(g) == [s \in SUBSET S |-> IF s = {} THEN 1
                      ELSE b * g[s \ {CHOOSE i \in s : TRUE}]]
<1>1. IsFiniteSet(S) /\ \A i \in S : f[i] = b
  BY FS_Interval DEF Times
<1>2. Power(b, n) = (CHOOSE g : g = P(g))[S]
  BY DEF Power, MapThenFoldSet
<1> HIDE DEF f, S
<1>3. \A g : g = P(g) <=> IsProducts(g, f, S)
  <2> TAKE g
  <2>1. \A s \in SUBSET S : s # {} => f[One(s)] = b
    <3> TAKE s \in SUBSET S
    <3>1. s # {} => One(s) \in S
      BY OneIsIn
    <3> QED
      BY <1>1, <3>1
  <2>2. P(g) = [s \in SUBSET S |-> IF s = {} THEN 1 ELSE f[One(s)] * g[s \ {One(s)}]]
    BY <2>1 DEF One
  <2> HIDE DEF P
  <2> QED
    BY <2>2 DEF IsProducts
<1> HIDE DEF P
<1>4. (CHOOSE g : g = P(g)) = (CHOOSE g : IsProducts(g, f, S))
  BY <1>3
<1>5. \A i \in S : f[i] \in Nat \ {0}
  BY <1>1
<1>6. (CHOOSE g : IsProducts(g, f, S))[S] = Product(f, S)
  BY <1>1, <1>5, ProductIs
<1>7. Product(f, S) \in Nat \ {0}
  BY <1>1, <1>5, ProductIsBare
<1> QED
  BY <1>2, <1>4, <1>6, <1>7 DEF f, S

LEMMA PowerOfProduct ==
  ASSUME NEW a \in Nat \ {0}, NEW b \in Nat \ {0}, NEW n \in Nat
  PROVE  Power(a * b, n) = Power(a, n) * Power(b, n)
<1> DEFINE f == Times(a, n)
           g == Times(b, n)
           h == Times(a * b, n)
           S == 1..n
<1>0. a * b \in Nat \ {0}
  BY BarePlus
<1>1. IsFiniteSet(S) /\ \A i \in S : /\ f[i] \in Nat \ {0} /\ g[i] \in Nat \ {0}
                                     /\ h[i] = f[i] * g[i]
  BY FS_Interval DEF Times
<1>2. Power(a, n) = Product(f, S) /\ Power(b, n) = Product(g, S)
  BY PowerIs
<1>3. Power(a * b, n) = Product(h, S)
  BY <1>0, PowerIs
<1> HIDE DEF f, g, h, S
<1>4. Product(h, S) = Product(f, S) * Product(g, S)
  BY <1>1, ProductOfProducts
<1> QED
  BY <1>2, <1>3, <1>4

\* A score above the mean, as the quotient by which such scores are ordered.
Outstanding(x) == x.dev \in Nat \ {0} /\ x.spread \in Nat \ {0} /\ x.age \in Nat
OffTheMean(x) == x.dev \in Int \ {0} /\ x.spread \in Nat \ {0} /\ x.age \in Nat
Magnitude(x) == <<Power(x.dev * x.dev, HalfLife), Power(x.spread, HalfLife) * Power(2, 2 * x.age)>>

LEMMA MagnitudeIs ==
  ASSUME NEW x, OffTheMean(x)
  PROVE  /\ Magnitude(x) \in Fractions /\ Magnitude(x)[1] \in Nat /\ Magnitude(x)[2] \in Nat
         /\ \A s \in Nat \ {0} : Power(x.dev * x.dev * s, HalfLife) = Magnitude(x)[1] * Power(s, HalfLife)
<1> DEFINE d == x.dev * x.dev
<1>1. d \in Nat \ {0} /\ x.spread \in Nat \ {0} /\ 2 \in Nat \ {0} /\ 2 * x.age \in Nat
  <2>1. x.dev \in Int \ {0} /\ x.spread \in Nat \ {0} /\ x.age \in Nat
    BY DEF OffTheMean
  <2> DEFINE e == x.dev
  <2>2. e \in Int \ {0}
    BY <2>1
  <2> HIDE DEF e
  <2>3. e * e \in Nat \ {0}
    BY <2>2
  <2> QED
    BY <2>1, <2>3 DEF e
<1>2. HalfLife \in Nat
  BY FiguresAssumption
<1> HIDE DEF d
<1>3. /\ Power(d, HalfLife) \in Nat \ {0} /\ Power(x.spread, HalfLife) \in Nat \ {0}
      /\ Power(2, 2 * x.age) \in Nat \ {0}
  BY <1>1, <1>2, PowerIs
<1>4. Power(x.spread, HalfLife) * Power(2, 2 * x.age) \in Nat \ {0}
  BY <1>3, BarePlus
<1>5. Magnitude(x) = <<Power(d, HalfLife), Power(x.spread, HalfLife) * Power(2, 2 * x.age)>>
  BY DEF Magnitude, d
<1>6. \A s \in Nat \ {0} : Power(d * s, HalfLife) = Power(d, HalfLife) * Power(s, HalfLife)
  BY <1>1, <1>2, PowerOfProduct
<1>7. Magnitude(x) \in Fractions
  BY <1>3, <1>4, <1>5 DEF Fractions
<1> QED
  BY <1>3, <1>4, <1>5, <1>6, <1>7 DEF d

\* What two scores are compared by.
Size(x, y) == Power(x.dev * x.dev * y.spread, HalfLife) * Power(2, 2 * y.age)

LEMMA SizesCompare ==
  ASSUME NEW a, NEW b, OffTheMean(a), OffTheMean(b)
  PROVE  Size(a, b) > Size(b, a) <=> Less(Magnitude(b), Magnitude(a))
<1> DEFINE A == Magnitude(a)[1]
           B == Magnitude(b)[1]
           u == Power(a.spread, HalfLife)
           v == Power(b.spread, HalfLife)
           i == Power(2, 2 * a.age)
           j == Power(2, 2 * b.age)
<1>2. a.spread \in Nat \ {0} /\ b.spread \in Nat \ {0}
  BY DEF OffTheMean
<1>3. Size(a, b) = (A * v) * j /\ Size(b, a) = (B * u) * i
  BY <1>2, MagnitudeIs DEF Size
<1>4. Magnitude(a)[2] = u * i /\ Magnitude(b)[2] = v * j
  BY DEF Magnitude
<1>5. HalfLife \in Nat /\ 2 * a.age \in Nat /\ 2 * b.age \in Nat /\ 2 \in Nat \ {0}
  BY FiguresAssumption DEF OffTheMean
<1>6. u \in Nat /\ v \in Nat /\ i \in Nat /\ j \in Nat
  BY <1>2, <1>5, PowerIs
<1>7. A \in Nat /\ B \in Nat
  BY MagnitudeIs
<1>8. Less(Magnitude(b), Magnitude(a)) <=> B * Magnitude(a)[2] < A * Magnitude(b)[2]
  BY DEF Less
<1> HIDE DEF A, B, u, v, i, j
<1>9. (A * v) * j = A * (v * j) /\ (B * u) * i = B * (u * i)
  BY <1>6, <1>7
<1>10. A * (v * j) \in Int /\ B * (u * i) \in Int
  BY <1>6, <1>7
<1> QED
  BY <1>3, <1>4, <1>8, <1>9, <1>10

LEMMA HigherIsMore ==
  ASSUME NEW a, NEW b, Outstanding(a), Outstanding(b)
  PROVE  Higher(a, b) <=> Less(Magnitude(b), Magnitude(a))
<1>1. Higher(a, b) <=> Size(a, b) > Size(b, a)
  BY DEF Higher, Outstanding, Size
<1>2. OffTheMean(a) /\ OffTheMean(b)
  BY DEF Outstanding, OffTheMean
<1> QED
  BY <1>1, <1>2, SizesCompare

LEMMA AboveTheMean ==
  ASSUME NEW a \in Int, NEW b \in Nat \ {0}, NEW k \in Nat \ {0}, NEW l \in Nat \ {0}, k > l,
         ~(a * l < (k * b) * 1)
  PROVE  a - b \in Nat \ {0}
<1>1. k * b = l * b + (k - l) * b /\ (k - l) * b > 0
  OBVIOUS
<1>2. a * l > l * b
  <2>1. a * l \in Int /\ l * b \in Int /\ k * b \in Int /\ (k - l) * b \in Int
    OBVIOUS
  <2> QED
    BY <1>1, <2>1
<1>3. l * (a - b) > 0
  BY <1>2
<1>4. ASSUME a - b <= 0 PROVE FALSE
  <2>1. l * (a - b) <= 0
    BY <1>4
  <2> QED
    BY <1>3, <2>1
<1> QED
  BY <1>4

\* A post of the feed is above the mean of posts that are not all alike.
LEMMA ScoresStandOut ==
  ASSUME TableOk, NEW S \in SUBSET Stored, IsFiniteSet(S), Scored(S), NEW p \in S,
         StandsOut(p, S), NEW now \in Int, Reference(p) \in Int
  PROVE  Outstanding(Score(p, S, now))
<1> DEFINE e == EngagementOf
           n == Cardinality(S)
           sum == Total(e, S)
           sq == Products(e, e, S)
           P(g) == [s \in SUBSET S |-> IF s = {} THEN 0
                      ELSE Engagement(CHOOSE x \in s : TRUE) * Engagement(CHOOSE x \in s : TRUE)
                             + g[s \ {CHOOSE x \in s : TRUE}]]
<1>1. /\ MapThenSumSet(Engagement, S) = sum
      /\ \A q \in S : e[q] = Engagement(q) /\ e[q] \in Nat
  BY EngagementTotal
<1> HIDE DEF e
<1>2. \A q \in S : e[q] \in Int /\ e[q] >= 0
  <2>1. \A q \in S : e[q] \in Nat
    BY <1>1
  <2> QED
    BY <2>1
<1>3. PICK q \in S, r \in S : e[q] # e[r]
  <2> SUFFICES ASSUME \A q, r \in S : e[q] = e[r] PROVE FALSE
    OBVIOUS
  <2>1. {Engagement(q) : q \in S} \subseteq {e[p]}
    BY <1>1
  <2>2. Cardinality({Engagement(q) : q \in S}) <= Cardinality({e[p]})
    BY <2>1, FS_Singleton, SubsetIsSmaller
  <2>3. Cardinality({e[p]}) = 1
    BY FS_Singleton
  <2>4. Cardinality({Engagement(q) : q \in S}) > 1
    BY DEF Scored
  <2>5. Cardinality({Engagement(q) : q \in S}) \in Nat
    BY <2>1, FS_Singleton, SubsetIsSmaller
  <2> QED
    BY <2>2, <2>3, <2>4, <2>5
<1>4. sum \in Nat \ {0}
  <2>1. sum >= e[q] /\ sum >= e[r]
    BY <1>2, TotalIsMore
  <2>2. sum \in Int
    BY <1>2, TotalIs
  <2> QED
    BY <1>2, <1>3, <2>1, <2>2
<1>5. n \in Nat
  BY FS_CardinalityType
<1>6. MapThenSumSet(LAMBDA x : Engagement(x) * Engagement(x), S) = Total(sq, S)
  <2>1. MapThenSumSet(LAMBDA x : Engagement(x) * Engagement(x), S) = (CHOOSE g : g = P(g))[S]
    BY DEF MapThenSumSet, MapThenFoldSet
  <2>2. \A x \in S : sq[x] = Engagement(x) * Engagement(x) /\ sq[x] \in Int
    BY <1>1 DEF Products
  <2> HIDE DEF sq
  <2>3. \A g : g = P(g) <=> IsTotals(g, sq, S)
    <3> TAKE g
    <3>1. \A s \in SUBSET S : s # {} => Engagement(One(s)) * Engagement(One(s)) = sq[One(s)]
      <4> TAKE s \in SUBSET S
      <4>1. s # {} => One(s) \in S
        BY OneIsIn
      <4> QED
        BY <2>2, <4>1
    <3>2. P(g) = [s \in SUBSET S |-> IF s = {} THEN 0 ELSE sq[One(s)] + g[s \ {One(s)}]]
      BY <3>1 DEF One
    <3> HIDE DEF P
    <3> QED
      BY <3>2 DEF IsTotals
  <2> HIDE DEF P
  <2>4. (CHOOSE g : g = P(g)) = (CHOOSE g : IsTotals(g, sq, S))
    BY <2>3
  <2>5. (CHOOSE g : IsTotals(g, sq, S))[S] = Total(sq, S)
    BY <2>2, TotalIs
  <2> QED
    BY <2>1, <2>4, <2>5
<1>7. Covariance(e, e, S) \in Int /\ Covariance(e, e, S) > 0
  <2>1. \A x, y \in S : (e[x] - e[y]) * (e[x] - e[y]) >= 0
    <3> TAKE x \in S, y \in S
    <3> DEFINE d == e[x] - e[y]
    <3>1. d \in Int
      BY <1>2
    <3> HIDE DEF d
    <3>2. d * d >= 0
      BY <3>1
    <3> QED
      BY <3>2 DEF d
  <2>2. (e[q] - e[r]) * (e[q] - e[r]) > 0
    <3> DEFINE d == e[q] - e[r]
    <3>1. d \in Int /\ d # 0
      BY <1>2, <1>3
    <3> HIDE DEF d
    <3>2. d * d > 0
      BY <3>1
    <3> QED
      BY <3>2 DEF d
  <2>3. \A x \in S : e[x] \in Int /\ e[x] \in Int
    BY <1>2
  <2> QED
    BY <2>1, <2>2, <2>3, MovingTogether
<1>8. n * Engagement(p) - sum \in Nat \ {0}
  <2> DEFINE a == n * Engagement(p)
  <2>1. a \in Int
    BY <1>1, <1>5
  <2>2. ~(a * FeedMultiplier[2] < (FeedMultiplier[1] * sum) * 1)
    BY <1>1 DEF StandsOut, AtLeast, Less, Sum
  <2>3. /\ FeedMultiplier[1] \in Nat \ {0} /\ FeedMultiplier[2] \in Nat \ {0}
        /\ FeedMultiplier[1] > FeedMultiplier[2]
    BY ForecastAssumption
  <2> HIDE DEF a, sum
  <2>4. a - sum \in Nat \ {0}
    BY <1>4, <2>1, <2>2, <2>3, AboveTheMean
  <2> QED
    BY <2>4 DEF a
<1>9. Positive(now - Reference(p)) \in Nat
  BY DEF Positive
<1>10. n * Total(sq, S) - sum * sum = Covariance(e, e, S)
  BY DEF Covariance
<1>11. /\ Score(p, S, now).dev = n * Engagement(p) - sum
       /\ Score(p, S, now).spread = n * Total(sq, S) - sum * sum
       /\ Score(p, S, now).age = Positive(now - Reference(p))
  BY <1>1, <1>6 DEF Score
<1> HIDE DEF n, sum, sq
<1> QED
  BY <1>7, <1>8, <1>9, <1>10, <1>11 DEF Outstanding

\* The posts a channel of the feed is measured by, and the entries made of them.
FeedPool(pl, m) == Between(ChannelsFor(pl, m), today - FeedDays, today)

LEMMA EntryIs ==
  ASSUME IsFiniteSet(Posts), TableOk, DatedOk, NEW e \in FeedEntries(today)
  PROVE  LET S == FeedPool(e.platform, e.market)
         IN  /\ e.platform \in Platforms /\ e.market \in Markets
             /\ e.of \in S /\ e.of \in Stored /\ e.of \in BreakoutsOf(S, today)
             /\ e.score = Score(e.of, S, today) /\ Outstanding(e.score)
             /\ e = [platform |-> e.platform, market |-> e.market, of |-> e.of, score |-> e.score]
             /\ Platform[ChannelOf[e.of]] = e.platform
             /\ Handle[ChannelOf[e.of]] \in Pair[e.platform][e.market]
<1>1. PICK pl, m, p :
        /\ pl \in Platforms /\ m \in Markets
        /\ p \in BreakoutsOf(FeedPool(pl, m), today) /\ StandsOut(p, FeedPool(pl, m))
        /\ e = [platform |-> pl, market |-> m, of |-> p, score |-> Score(p, FeedPool(pl, m), today)]
  BY DEF FeedEntries, FeedPool
<1> DEFINE S == FeedPool(pl, m)
<1>2. e.platform = pl /\ e.market = m /\ e.of = p /\ e.score = Score(p, S, today)
  BY <1>1
<1>3. p \in S /\ Scored(S)
  BY <1>1 DEF BreakoutsOf, Ranked, First
<1>4. S \in SUBSET Stored /\ IsFiniteSet(S)
  <2>1. S \subseteq Stored /\ S \subseteq Posts
    BY DEF FeedPool, Between, Stored
  <2> QED
    BY <2>1, SubsetIsSmaller
<1>5. ChannelOf[p] \in ChannelsFor(pl, m)
  BY <1>3 DEF FeedPool, Between
<1>6. Platform[ChannelOf[p]] = pl /\ Handle[ChannelOf[p]] \in Pair[pl][m]
  BY <1>5 DEF ChannelsFor
<1>7. Reference(p) \in Int /\ today \in Int
  BY <1>3, <1>4, PostTableAssumption DEF DatedOk, TableOk
<1> HIDE DEF S
<1>8. Outstanding(Score(p, S, today))
  <2>1. StandsOut(p, S)
    BY <1>1 DEF S
  <2> QED
    BY <1>3, <1>4, <1>7, <2>1, ScoresStandOut
<1>9. e = [platform |-> e.platform, market |-> e.market, of |-> e.of, score |-> e.score]
  BY <1>1, <1>2 DEF S
<1> QED
  BY <1>1, <1>2, <1>3, <1>4, <1>6, <1>8, <1>9 DEF S

LEMMA OneEntryEach ==
  ASSUME IsFiniteSet(Posts), TableOk, DatedOk,
         NEW e \in FeedEntries(today), NEW f \in FeedEntries(today), e.of = f.of
  PROVE  e = f
<1>1. e.platform = f.platform /\ e.market = f.market
  <2>1. /\ e.platform \in Platforms /\ e.market \in Markets /\ f.market \in Markets
        /\ Platform[ChannelOf[e.of]] = e.platform
        /\ Handle[ChannelOf[e.of]] \in Pair[e.platform][e.market]
        /\ Platform[ChannelOf[f.of]] = f.platform
        /\ Handle[ChannelOf[f.of]] \in Pair[f.platform][f.market]
    BY EntryIs
  <2>2. \A m, o \in Markets : m # o => Pair[e.platform][m] \cap Pair[e.platform][o] = {}
    BY <2>1, FiguresAssumption
  <2> QED
    BY <2>1, <2>2
<1>2. /\ e.score = Score(e.of, FeedPool(e.platform, e.market), today)
      /\ e = [platform |-> e.platform, market |-> e.market, of |-> e.of, score |-> e.score]
  BY EntryIs
<1>3. /\ f.score = Score(f.of, FeedPool(f.platform, f.market), today)
      /\ f = [platform |-> f.platform, market |-> f.market, of |-> f.of, score |-> f.score]
  BY EntryIs
<1>4. e.score = f.score
  BY <1>1, <1>2, <1>3
<1> QED
  BY <1>1, <1>2, <1>3, <1>4

LEMMA EntriesAreFinite ==
  ASSUME IsFiniteSet(Posts), TableOk, DatedOk
  PROVE  IsFiniteSet(FeedEntries(today))
<1> DEFINE T == FeedEntries(today)
           g == [p \in Posts |-> CHOOSE e \in T : e.of = p]
<1>1. \A e \in T : e.of \in Posts /\ \A f \in T : e.of = f.of => e = f
  <2>1. \A e \in T : e.of \in Stored
    BY EntryIs
  <2> QED
    BY <2>1, OneEntryEach DEF Stored
<1> HIDE DEF T
<1>2. \A e \in T : g[e.of] = e
  BY <1>1
<1>3. T \subseteq {g[p] : p \in Posts}
  <2>1. \A e \in T : e.of \in Posts /\ e = g[e.of]
    BY <1>1, <1>2
  <2> HIDE DEF g
  <2> QED
    BY <2>1
<1> HIDE DEF g
<1>4. IsFiniteSet({g[p] : p \in Posts})
  BY FiniteImage
<1>5. IsFiniteSet(T)
  BY <1>3, <1>4, SubsetIsSmaller
<1> QED
  BY <1>5 DEF T

\* What a feed says of the posts it is made from.
FeedsAgree(feed, entries) ==
    /\ \A e \in feed :
         /\ \A f \in feed : e.of = f.of => e = f
         /\ FeedDays = WindowDays =>
              e.of \in BreakoutsOf(InWindow(ChannelsFor(e.platform, e.market), today), today)
         /\ e.score.dev > 0
    /\ \A x \in entries \ feed : \A e \in feed : ~Higher(x.score, e.score)

LEMMA FeedAgrees ==
  ASSUME IsFiniteSet(Posts), TableOk, DatedOk
  PROVE  FeedsAgree(BreakoutFeed(today, FeedLimit), FeedEntries(today))
<1> DEFINE T == FeedEntries(today)
           before(x, y) == \/ Higher(x.score, y.score)
                           \/ ~Higher(y.score, x.score) /\ MoreViews(x.of, y.of)
           ahead(x) == {y \in T : before(y, x)}
           feed == {x \in T : Cardinality(ahead(x)) < FeedLimit}
           size(x) == Magnitude(x.score)
<1>1. BreakoutFeed(today, FeedLimit) = feed
  BY DEF BreakoutFeed, First
<1>2. \A e \in T : e.score.dev > 0
  BY EntryIs DEF Outstanding
<1>3. \A e \in T : FeedDays = WindowDays =>
        e.of \in BreakoutsOf(InWindow(ChannelsFor(e.platform, e.market), today), today)
  <2> TAKE e \in T
  <2>1. e.of \in BreakoutsOf(FeedPool(e.platform, e.market), today)
    BY EntryIs
  <2>2. FeedDays = WindowDays =>
          FeedPool(e.platform, e.market) = InWindow(ChannelsFor(e.platform, e.market), today)
    BY DEF FeedPool, InWindow
  <2> QED
    BY <2>1, <2>2
<1>4. \A e, f \in T : e.of = f.of => e = f
  BY OneEntryEach
<1>5. \A x, y \in T : /\ size(x) \in Fractions
                      /\ Higher(x.score, y.score) <=> Less(size(y), size(x))
  <2> TAKE x \in T, y \in T
  <2>1. Outstanding(x.score) /\ Outstanding(y.score)
    BY EntryIs
  <2>2. OffTheMean(x.score)
    BY <2>1 DEF Outstanding, OffTheMean
  <2> QED
    BY <2>1, <2>2, MagnitudeIs, HigherIsMore
<1>6. IsFiniteSet(T)
  BY EntriesAreFinite
<1> HIDE DEF T, size
<1>7. ASSUME NEW x \in T, NEW e \in feed, Higher(x.score, e.score) PROVE x \in feed
  <2>1. e \in T /\ Less(size(e), size(x))
    BY <1>5, <1>7
  <2>2. \A y \in T : before(y, x) => Higher(y.score, e.score)
    <3> SUFFICES ASSUME NEW y \in T, before(y, x) PROVE Higher(y.score, e.score)
      OBVIOUS
    <3>1. ~Less(size(y), size(x))
      <4>1. /\ Higher(y.score, x.score) <=> Less(size(x), size(y))
            /\ Higher(x.score, y.score) <=> Less(size(y), size(x))
        BY <1>5
      <4>2. Higher(y.score, x.score) \/ ~Higher(x.score, y.score)
        OBVIOUS
      <4>3. size(x) \in Fractions /\ size(y) \in Fractions
        BY <1>5
      <4>4. Less(size(x), size(y)) => ~Less(size(y), size(x))
        BY <4>3, LessIsAnOrder
      <4> QED
        BY <4>1, <4>2, <4>4
    <3>2. size(e) \in Fractions /\ size(y) \in Fractions /\ size(x) \in Fractions
      BY <1>5, <2>1
    <3>3. Less(size(e), size(x)) => Less(size(e), size(y)) \/ Less(size(y), size(x))
      BY <3>2, LessIsAnOrder
    <3>4. Less(size(e), size(y))
      BY <2>1, <3>1, <3>3
    <3> QED
      BY <1>5, <2>1, <3>4
  <2>3. ahead(x) \subseteq ahead(e)
    BY <2>2
  <2>4. IsFiniteSet(ahead(e))
    BY <1>6, SubsetIsSmaller
  <2> HIDE DEF before
  <2>5. /\ Cardinality(ahead(x)) <= Cardinality(ahead(e))
        /\ Cardinality(ahead(x)) \in Nat /\ Cardinality(ahead(e)) \in Nat
    <3> DEFINE A == ahead(x)
               B == ahead(e)
    <3>1. A \subseteq B /\ IsFiniteSet(B)
      BY <2>3, <2>4
    <3> HIDE DEF A, B
    <3>2. Cardinality(A) <= Cardinality(B) /\ Cardinality(A) \in Nat /\ Cardinality(B) \in Nat
      BY <3>1, SubsetIsSmaller
    <3> QED
      BY <3>2 DEF A, B
  <2>6. Cardinality(ahead(e)) < FeedLimit /\ FeedLimit \in Nat
    BY ForecastAssumption
  <2> QED
    BY <2>5, <2>6
<1>8. feed \subseteq T
  OBVIOUS
<1> HIDE DEF feed
<1>9. \A x \in T \ feed : \A e \in feed : ~Higher(x.score, e.score)
  BY <1>7
<1>10. FeedsAgree(feed, T)
  BY <1>2, <1>3, <1>4, <1>8, <1>9 DEF FeedsAgree
<1> QED
  BY <1>1, <1>10 DEF T

-------------------------------------------------------------------------------
(* The weeks of a timeline *)

LEMMA SmallestNumber ==
  ASSUME NEW lo \in Int, NEW hi \in Int, NEW W \in SUBSET (lo..hi), W # {}
  PROVE  /\ Min(W) \in W /\ \A k \in W : Min(W) <= k
         /\ Max(W) \in W /\ \A k \in W : Max(W) >= k
<1>1. hi - lo \in Nat
  <2>1. PICK w \in W : TRUE
    OBVIOUS
  <2>2. w \in Int /\ lo <= w /\ w <= hi
    OBVIOUS
  <2> QED
    BY <2>2
<1> DEFINE A == {n \in 0..(hi - lo) : lo + n \in W}
           B == {n \in 0..(hi - lo) : hi - n \in W}
<1>2. A \in SUBSET (0..(hi - lo)) /\ B \in SUBSET (0..(hi - lo)) /\ A # {} /\ B # {}
  <2>1. PICK k \in W : TRUE
    OBVIOUS
  <2>2. k - lo \in A /\ hi - k \in B
    BY <2>1
  <2> QED
    BY <2>2
<1>3. /\ Max(A) \in A /\ \A k \in A : Max(A) >= k
      /\ Max(B) \in B /\ \A k \in B : Max(B) >= k
  BY <1>1, <1>2, LargestNumber
<1>4. \E m \in W : \A k \in W : m >= k
  <2>1. lo + Max(A) \in W
    BY <1>3
  <2>2. \A k \in W : lo + Max(A) >= k
    <3> TAKE k \in W
    <3>1. k - lo \in A /\ k \in Int
      OBVIOUS
    <3>2. Max(A) \in Int /\ Max(A) >= k - lo
      BY <1>2, <1>3, <3>1
    <3> HIDE DEF A, B
    <3> QED
      BY <3>1, <3>2
  <2> QED
    BY <2>1, <2>2
<1>5. \E m \in W : \A k \in W : m <= k
  <2>1. hi - Max(B) \in W
    BY <1>3
  <2>2. \A k \in W : hi - Max(B) <= k
    <3> TAKE k \in W
    <3>1. hi - k \in B /\ k \in Int
      OBVIOUS
    <3>2. Max(B) \in Int /\ Max(B) >= hi - k
      BY <1>2, <1>3, <3>1
    <3> HIDE DEF A, B
    <3> QED
      BY <3>1, <3>2
  <2> QED
    BY <2>1, <2>2
<1> QED
  BY <1>4, <1>5 DEF Min, Max

LEMMA AxisIsAnInterval ==
  /\ Axis = {} => Cardinality(Axis) = 0
  /\ Axis # {} => /\ Min(Axis) \in Int /\ Cardinality(Axis) \in Nat
                  /\ Axis = Min(Axis)..(Min(Axis) + Cardinality(Axis) - 1)
<1> DEFINE W == {w \in Weeks : brief[w] # None}
           lo == WeekOf(-WeekDays)
           hi == WeekOf(LastDay)
<1>1. Axis = {} => Cardinality(Axis) = 0
  BY FS_EmptySet
<1>2. ASSUME Axis # {}
      PROVE  /\ Min(Axis) \in Int /\ Cardinality(Axis) \in Nat
             /\ Axis = Min(Axis)..(Min(Axis) + Cardinality(Axis) - 1)
  <2>1. lo \in Int /\ hi \in Int
    BY FiguresAssumption, PostTableAssumption DEF WeekOf
  <2>2. W \in SUBSET (lo..hi) /\ W # {}
    BY <1>2 DEF Axis, Weeks
  <2>3. Axis = {w \in Min(W)..Max(W) : TimelineWeeks # None => w > Max(W) - TimelineWeeks}
    BY <2>2 DEF Axis
  <2> HIDE DEF W, lo, hi
  <2>4. Min(W) \in Int /\ Max(W) \in Int /\ Min(W) <= Max(W)
    <3>1. /\ Min(W) \in W /\ \A k \in W : Min(W) <= k
          /\ Max(W) \in W /\ \A k \in W : Max(W) >= k
      BY <2>1, <2>2, SmallestNumber
    <3>2. \A k \in W : k \in Int
      BY <2>1, <2>2
    <3> QED
      BY <3>1, <3>2
  <2> DEFINE a == IF TimelineWeeks # None /\ Max(W) - TimelineWeeks + 1 > Min(W)
                  THEN Max(W) - TimelineWeeks + 1 ELSE Min(W)
             b == Max(W)
  <2>5. Axis = a..b /\ a \in Int /\ b \in Int /\ a <= b
    BY <2>3, <2>4, TitlePagesAssumption
  <2> HIDE DEF a, b
  <2>6. Min(a..b) = a
    <3> DEFINE V == a..b
    <3>0. V \in SUBSET (a..b) /\ V # {}
      BY <2>5
    <3> HIDE DEF V
    <3>1. Min(V) \in V /\ \A k \in V : Min(V) <= k
      BY <2>5, <3>0, SmallestNumber
    <3> USE DEF V
    <3> QED
      BY <2>5, <3>1
  <2>7. Cardinality(a..b) = b - a + 1
    BY <2>5, FS_Interval
  <2> QED
    BY <2>5, <2>6, <2>7
<1> QED
  BY <1>1, <1>2

-------------------------------------------------------------------------------
(* The line through a series *)

LEMMA ScaledLess ==
  ASSUME NEW x \in Int, NEW y \in Int, NEW k \in Nat \ {0}
  PROVE  x < y <=> x * k < y * k
<1> DEFINE d == y - x
<1>1. y * k = x * k + d * k
  OBVIOUS
<1>2. d > 0 => d * k > 0
  OBVIOUS
<1>3. d <= 0 => d * k <= 0
  OBVIOUS
<1>4. x * k \in Int /\ y * k \in Int /\ d * k \in Int /\ d \in Int
  OBVIOUS
<1>5. x < y <=> d > 0
  OBVIOUS
<1> HIDE DEF d
<1> QED
  BY <1>1, <1>2, <1>3, <1>4, <1>5

LEMMA OverOneDenominator ==
  ASSUME NEW a \in Int, NEW c \in Int, NEW b \in Nat \ {0}, NEW d \in Nat \ {0},
         NEW R \in Nat \ {0}, NEW Q \in Nat \ {0}, b * R = d * Q
  PROVE  a * R < c * Q <=> a * d < c * b
<1>1. a * R \in Int /\ c * Q \in Int /\ a * d \in Int /\ c * b \in Int
  OBVIOUS
<1>2. b * d \in Nat \ {0} /\ b * R \in Nat \ {0}
  BY BarePlus
<1>3. a * R < c * Q <=> (a * R) * (b * d) < (c * Q) * (b * d)
  BY <1>1, <1>2, ScaledLess
<1>4. (a * R) * (b * d) = (a * d) * (b * R)
  OBVIOUS
<1>5. (c * Q) * (b * d) = (c * b) * (d * Q)
  OBVIOUS
<1>6. a * d < c * b <=> (a * d) * (b * R) < (c * b) * (b * R)
  BY <1>1, <1>2, ScaledLess
<1> QED
  BY <1>3, <1>4, <1>5, <1>6

\* A series as the forecast takes it: a rate or none for each week.
IsSeries(series, n) == DOMAIN series = 1..n /\ \A i \in Measured(series) : series[i] \in Fractions
Denominators(series) == [i \in Measured(series) |-> series[i][2]]
WeekRates(series) == [i \in Measured(series) |-> WeekRate(series, i)]
WeekNumbers(series) == [i \in Measured(series) |-> i]

LEMMA MeasuredIsFinite ==
  ASSUME NEW n \in Nat, NEW series, IsSeries(series, n)
  PROVE  Measured(series) \in SUBSET (1..n) /\ IsFiniteSet(Measured(series))
<1>1. Measured(series) \subseteq 1..n
  BY DEF Measured, IsSeries
<1>2. IsFiniteSet(1..n)
  BY FS_Interval
<1> QED
  BY <1>1, <1>2, SubsetIsSmaller

LEMMA DenominatorIsProduct ==
  ASSUME NEW n \in Nat, NEW series, IsSeries(series, n)
  PROVE  /\ Denominator(series) = Product(Denominators(series), Measured(series))
         /\ \A i \in Measured(series) : /\ Denominators(series)[i] = series[i][2]
                                        /\ Denominators(series)[i] \in Nat \ {0}
                                        /\ series[i][1] \in Int
<1> DEFINE I == Measured(series)
           f == Denominators(series)
           D == Denominator(series)
           P(g) == [s \in SUBSET I |-> IF s = {} THEN 1
                      ELSE series[CHOOSE i \in s : TRUE][2] * g[s \ {CHOOSE i \in s : TRUE}]]
<1>1. IsFiniteSet(I)
  BY MeasuredIsFinite
<1>2. \A i \in I : f[i] = series[i][2] /\ f[i] \in Nat \ {0} /\ series[i][1] \in Int
  <2>1. \A i \in I : series[i] \in Fractions
    BY DEF IsSeries
  <2>2. \A i \in I : f[i] = series[i][2]
    BY DEF Denominators
  <2> HIDE DEF I, f
  <2> QED
    BY <2>1, <2>2 DEF Fractions
<1>3. D = (CHOOSE g : g = P(g))[I]
  BY DEF Denominator, MapThenFoldSet
<1> HIDE DEF f, I, D
<1>4. \A g : g = P(g) <=> IsProducts(g, f, I)
  <2> TAKE g
  <2>1. \A s \in SUBSET I : s # {} => series[One(s)][2] = f[One(s)]
    <3> TAKE s \in SUBSET I
    <3>1. s # {} => One(s) \in I
      BY OneIsIn
    <3> QED
      BY <1>2, <3>1
  <2>2. P(g) = [s \in SUBSET I |-> IF s = {} THEN 1 ELSE f[One(s)] * g[s \ {One(s)}]]
    BY <2>1 DEF One
  <2> HIDE DEF P
  <2> QED
    BY <2>2 DEF IsProducts
<1> HIDE DEF P
<1>5. (CHOOSE g : g = P(g)) = (CHOOSE g : IsProducts(g, f, I))
  BY <1>4
<1>6. \A i \in I : f[i] \in Nat \ {0}
  BY <1>2
<1>7. D = Product(f, I)
  BY <1>1, <1>3, <1>5, <1>6, ProductIs
<1> QED
  BY <1>2, <1>7 DEF I, f, D

LEMMA DenominatorIs ==
  ASSUME NEW n \in Nat, NEW series, IsSeries(series, n)
  PROVE  \A i \in Measured(series) : \E R \in Nat \ {0} :
           /\ Denominator(series) = series[i][2] * R
           /\ WeekRate(series, i) = series[i][1] * R
<1> DEFINE I == Measured(series)
           f == Denominators(series)
           D == Denominator(series)
<1>1. IsFiniteSet(I)
  BY MeasuredIsFinite
<1>2. \A i \in I : f[i] = series[i][2] /\ f[i] \in Nat \ {0} /\ series[i][1] \in Int
  BY DenominatorIsProduct
<1>3. \A i \in I : f[i] \in Nat \ {0}
  BY <1>2
<1>4. D = Product(f, I)
  BY DenominatorIsProduct
<1> HIDE DEF f, I, D
<1>5. ASSUME NEW i \in I
      PROVE  \E R \in Nat \ {0} : D = series[i][2] * R /\ WeekRate(series, i) = series[i][1] * R
  <2> DEFINE R == Product(f, I \ {i})
             b == series[i][2]
  <2>1. D = b * R
    BY <1>1, <1>2, <1>3, <1>4, ProductStep
  <2>2. IsFiniteSet(I \ {i}) /\ \A x \in I \ {i} : f[x] \in Nat \ {0}
    BY <1>1, <1>3, SubsetIsSmaller
  <2>3. R \in Nat \ {0}
    BY <2>2, ProductIsBare
  <2>4. b \in Nat \ {0}
    BY <1>2
  <2>5. WeekRate(series, i) = series[i][1] * (D \div b)
    BY DEF WeekRate, D
  <2> HIDE DEF R, b
  <2>6. D \div b = R
    BY <2>1, <2>3, <2>4
  <2> QED
    BY <2>1, <2>3, <2>5, <2>6 DEF b
<1> QED
  BY <1>5 DEF I, D

LEMMA RateIsHigher ==
  ASSUME NEW n \in Nat, NEW series, IsSeries(series, n),
         NEW i \in Measured(series), NEW j \in Measured(series)
  PROVE  /\ WeekRate(series, i) \in Int
         /\ WeekRate(series, i) < WeekRate(series, j) <=> Less(series[i], series[j])
<1>1. PICK R \in Nat \ {0} : /\ Denominator(series) = series[i][2] * R
                             /\ WeekRate(series, i) = series[i][1] * R
  BY DenominatorIs
<1>2. PICK Q \in Nat \ {0} : /\ Denominator(series) = series[j][2] * Q
                             /\ WeekRate(series, j) = series[j][1] * Q
  BY DenominatorIs
<1>3. series[i] \in Fractions /\ series[j] \in Fractions
  BY DEF IsSeries
<1>4. PICK a \in Int, b \in Nat \ {0} : series[i] = <<a, b>>
  BY <1>3 DEF Fractions
<1>5. PICK c \in Int, d \in Nat \ {0} : series[j] = <<c, d>>
  BY <1>3 DEF Fractions
<1>6. WeekRate(series, i) = a * R /\ WeekRate(series, j) = c * Q /\ b * R = d * Q
  BY <1>1, <1>2, <1>4, <1>5
<1>7. Less(series[i], series[j]) <=> a * d < c * b
  BY <1>4, <1>5 DEF Less
<1>8. a * R < c * Q <=> a * d < c * b
  BY <1>6, OverOneDenominator
<1>9. a * R \in Int
  OBVIOUS
<1> QED
  BY <1>6, <1>7, <1>8, <1>9

LEMMA SumsOfSeries ==
  ASSUME NEW n \in Nat, NEW series, IsSeries(series, n)
  PROVE  LET I == Measured(series)
             x == WeekNumbers(series)
             y == WeekRates(series)
         IN  /\ \A i \in I : x[i] = i /\ i \in Int /\ y[i] = WeekRate(series, i) /\ y[i] \in Int
             /\ Sum(LAMBDA i : i, I) = Total(x, I)
             /\ Sum(LAMBDA i : WeekRate(series, i), I) = Total(y, I)
             /\ Sum(LAMBDA i : i * i, I) = Total(Products(x, x, I), I)
             /\ Sum(LAMBDA i : i * WeekRate(series, i), I) = Total(Products(x, y, I), I)
             /\ Sum(LAMBDA i : WeekRate(series, i) * WeekRate(series, i), I) = Total(Products(y, y, I), I)
<1> DEFINE I == Measured(series)
           x == WeekNumbers(series)
           y == WeekRates(series)
           xx == Products(x, x, I)
           xy == Products(x, y, I)
           yy == Products(y, y, I)
           P1(g) == [s \in SUBSET I |-> IF s = {} THEN 0
                      ELSE (CHOOSE i \in s : TRUE)
                             + g[s \ {CHOOSE i \in s : TRUE}]]
           P2(g) == [s \in SUBSET I |-> IF s = {} THEN 0
                      ELSE WeekRate(series, CHOOSE i \in s : TRUE)
                             + g[s \ {CHOOSE i \in s : TRUE}]]
           P3(g) == [s \in SUBSET I |-> IF s = {} THEN 0
                      ELSE (CHOOSE i \in s : TRUE) * (CHOOSE i \in s : TRUE)
                             + g[s \ {CHOOSE i \in s : TRUE}]]
           P4(g) == [s \in SUBSET I |-> IF s = {} THEN 0
                      ELSE (CHOOSE i \in s : TRUE) * WeekRate(series, CHOOSE i \in s : TRUE)
                             + g[s \ {CHOOSE i \in s : TRUE}]]
           P5(g) == [s \in SUBSET I |-> IF s = {} THEN 0
                      ELSE WeekRate(series, CHOOSE i \in s : TRUE) * WeekRate(series, CHOOSE i \in s : TRUE)
                             + g[s \ {CHOOSE i \in s : TRUE}]]
<1>1. IsFiniteSet(I) /\ \A i \in I : i \in Int
  BY MeasuredIsFinite
<1>2. \A i \in I : x[i] = i /\ y[i] = WeekRate(series, i)
  BY DEF WeekNumbers, WeekRates
<1>3. \A i \in I : WeekRate(series, i) \in Int
  BY RateIsHigher
<1>4. \A i \in I : /\ xx[i] = i * i /\ xx[i] \in Int
                   /\ xy[i] = i * WeekRate(series, i) /\ xy[i] \in Int
                   /\ yy[i] = WeekRate(series, i) * WeekRate(series, i) /\ yy[i] \in Int
  <2>1. \A i \in I : xx[i] = x[i] * x[i] /\ xy[i] = x[i] * y[i] /\ yy[i] = y[i] * y[i]
    BY DEF Products
  <2> HIDE DEF xx, xy, yy, x, y, I
  <2> QED
    BY <1>1, <1>2, <1>3, <2>1
<1>5. /\ Sum(LAMBDA i : i, I) = (CHOOSE g : g = P1(g))[I]
      /\ Sum(LAMBDA i : WeekRate(series, i), I) = (CHOOSE g : g = P2(g))[I]
      /\ Sum(LAMBDA i : i * i, I) = (CHOOSE g : g = P3(g))[I]
      /\ Sum(LAMBDA i : i * WeekRate(series, i), I) = (CHOOSE g : g = P4(g))[I]
      /\ Sum(LAMBDA i : WeekRate(series, i) * WeekRate(series, i), I) = (CHOOSE g : g = P5(g))[I]
  BY DEF Sum, MapThenSumSet, MapThenFoldSet
<1> HIDE DEF I, x, y, xx, xy, yy
<1>6. \A s \in SUBSET I : s # {} => One(s) \in I
  BY OneIsIn
<1>7. (CHOOSE g : g = P1(g))[I] = Total(x, I)
  <2>1. \A g : g = P1(g) <=> IsTotals(g, x, I)
    <3> TAKE g
    <3>1. P1(g) = [s \in SUBSET I |-> IF s = {} THEN 0 ELSE x[One(s)] + g[s \ {One(s)}]]
      BY <1>2, <1>4, <1>6 DEF One
    <3> HIDE DEF P1
    <3> QED
      BY <3>1 DEF IsTotals
  <2> HIDE DEF P1
  <2>2. (CHOOSE g : g = P1(g)) = (CHOOSE g : IsTotals(g, x, I))
    BY <2>1
  <2>3. \A i \in I : x[i] \in Int
    BY <1>1, <1>2, <1>3, <1>4
  <2>4. (CHOOSE g : IsTotals(g, x, I))[I] = Total(x, I)
    BY <1>1, <2>3, TotalIs
  <2> QED
    BY <2>2, <2>4
<1>8. (CHOOSE g : g = P2(g))[I] = Total(y, I)
  <2>1. \A g : g = P2(g) <=> IsTotals(g, y, I)
    <3> TAKE g
    <3>1. P2(g) = [s \in SUBSET I |-> IF s = {} THEN 0 ELSE y[One(s)] + g[s \ {One(s)}]]
      BY <1>2, <1>4, <1>6 DEF One
    <3> HIDE DEF P2
    <3> QED
      BY <3>1 DEF IsTotals
  <2> HIDE DEF P2
  <2>2. (CHOOSE g : g = P2(g)) = (CHOOSE g : IsTotals(g, y, I))
    BY <2>1
  <2>3. \A i \in I : y[i] \in Int
    BY <1>1, <1>2, <1>3, <1>4
  <2>4. (CHOOSE g : IsTotals(g, y, I))[I] = Total(y, I)
    BY <1>1, <2>3, TotalIs
  <2> QED
    BY <2>2, <2>4
<1>9. (CHOOSE g : g = P3(g))[I] = Total(xx, I)
  <2>1. \A g : g = P3(g) <=> IsTotals(g, xx, I)
    <3> TAKE g
    <3>1. P3(g) = [s \in SUBSET I |-> IF s = {} THEN 0 ELSE xx[One(s)] + g[s \ {One(s)}]]
      BY <1>2, <1>4, <1>6 DEF One
    <3> HIDE DEF P3
    <3> QED
      BY <3>1 DEF IsTotals
  <2> HIDE DEF P3
  <2>2. (CHOOSE g : g = P3(g)) = (CHOOSE g : IsTotals(g, xx, I))
    BY <2>1
  <2>3. \A i \in I : xx[i] \in Int
    BY <1>1, <1>2, <1>3, <1>4
  <2>4. (CHOOSE g : IsTotals(g, xx, I))[I] = Total(xx, I)
    BY <1>1, <2>3, TotalIs
  <2> QED
    BY <2>2, <2>4
<1>10. (CHOOSE g : g = P4(g))[I] = Total(xy, I)
  <2>1. \A g : g = P4(g) <=> IsTotals(g, xy, I)
    <3> TAKE g
    <3>1. P4(g) = [s \in SUBSET I |-> IF s = {} THEN 0 ELSE xy[One(s)] + g[s \ {One(s)}]]
      BY <1>2, <1>4, <1>6 DEF One
    <3> HIDE DEF P4
    <3> QED
      BY <3>1 DEF IsTotals
  <2> HIDE DEF P4
  <2>2. (CHOOSE g : g = P4(g)) = (CHOOSE g : IsTotals(g, xy, I))
    BY <2>1
  <2>3. \A i \in I : xy[i] \in Int
    BY <1>1, <1>2, <1>3, <1>4
  <2>4. (CHOOSE g : IsTotals(g, xy, I))[I] = Total(xy, I)
    BY <1>1, <2>3, TotalIs
  <2> QED
    BY <2>2, <2>4
<1>11. (CHOOSE g : g = P5(g))[I] = Total(yy, I)
  <2>1. \A g : g = P5(g) <=> IsTotals(g, yy, I)
    <3> TAKE g
    <3>1. P5(g) = [s \in SUBSET I |-> IF s = {} THEN 0 ELSE yy[One(s)] + g[s \ {One(s)}]]
      BY <1>2, <1>4, <1>6 DEF One
    <3> HIDE DEF P5
    <3> QED
      BY <3>1 DEF IsTotals
  <2> HIDE DEF P5
  <2>2. (CHOOSE g : g = P5(g)) = (CHOOSE g : IsTotals(g, yy, I))
    BY <2>1
  <2>3. \A i \in I : yy[i] \in Int
    BY <1>1, <1>2, <1>3, <1>4
  <2>4. (CHOOSE g : IsTotals(g, yy, I))[I] = Total(yy, I)
    BY <1>1, <2>3, TotalIs
  <2> QED
    BY <2>2, <2>4
<1> HIDE DEF P1, P2, P3, P4, P5
<1> QED
  BY <1>1, <1>2, <1>3, <1>5, <1>7, <1>8, <1>9, <1>10, <1>11 DEF I, x, y, xx, xy, yy

LEMMA RiseIs ==
  ASSUME NEW n \in Nat, NEW series, IsSeries(series, n)
  PROVE  /\ Fit(series).rise = Covariance(WeekNumbers(series), WeekRates(series), Measured(series))
         /\ \A i \in Measured(series) : /\ WeekNumbers(series)[i] = i /\ i \in Int
                                        /\ WeekRates(series)[i] = WeekRate(series, i)
                                        /\ WeekRate(series, i) \in Int
<1> DEFINE I == Measured(series)
           x == WeekNumbers(series)
           y == WeekRates(series)
<1>1. /\ \A i \in I : x[i] = i /\ i \in Int /\ y[i] = WeekRate(series, i) /\ y[i] \in Int
      /\ Sum(LAMBDA i : i, I) = Total(x, I)
      /\ Sum(LAMBDA i : WeekRate(series, i), I) = Total(y, I)
      /\ Sum(LAMBDA i : i * WeekRate(series, i), I) = Total(Products(x, y, I), I)
  BY SumsOfSeries
<1>2. Fit(series).rise
        = Cardinality(I) * Sum(LAMBDA i : i * WeekRate(series, i), I)
            - Sum(LAMBDA i : i, I) * Sum(LAMBDA i : WeekRate(series, i), I)
  BY DEF Fit
<1> HIDE DEF I, x, y
<1>3. Fit(series).rise = Cardinality(I) * Total(Products(x, y, I), I) - Total(x, I) * Total(y, I)
  BY <1>1, <1>2
<1>4. Fit(series).rise = Covariance(x, y, I)
  BY <1>3 DEF Covariance
<1> QED
  BY <1>1, <1>4 DEF I, x, y

LEMMA CovarianceNegated ==
  ASSUME NEW S, IsFiniteSet(S), NEW a, NEW b, NEW c,
         \A x \in S : a[x] \in Int /\ b[x] \in Int /\ c[x] = -b[x]
  PROVE  Covariance(a, c, S) = -Covariance(a, b, S) /\ Covariance(a, b, S) \in Int
<1> DEFINE p == Products(a, b, S)
           q == Products(a, c, S)
           n == Cardinality(S)
<1>1. \A x \in S : p[x] = a[x] * b[x] /\ q[x] = a[x] * c[x]
  BY DEF Products
<1> HIDE DEF p, q
<1>2. \A x \in S : p[x] \in Int /\ q[x] = -p[x]
  <2> TAKE x \in S
  <2>1. a[x] \in Int /\ b[x] \in Int /\ c[x] = -b[x]
    OBVIOUS
  <2>2. a[x] * (-b[x]) = -(a[x] * b[x]) /\ a[x] * b[x] \in Int
    BY <2>1
  <2> QED
    BY <1>1, <2>1, <2>2
<1>3. Total(q, S) = -Total(p, S) /\ Total(p, S) \in Int
  <2>1. Total(q, S) = -Total(p, S)
    BY <1>2, TotalNegated
  <2>2. \A x \in S : p[x] \in Int
    BY <1>2
  <2>3. Total(p, S) \in Int
    BY <2>2, TotalIs
  <2> QED
    BY <2>1, <2>3
<1>4. Total(c, S) = -Total(b, S) /\ Total(b, S) \in Int
  <2>1. \A x \in S : b[x] \in Int /\ c[x] = -b[x]
    OBVIOUS
  <2>2. \A x \in S : b[x] \in Int
    OBVIOUS
  <2>3. Total(c, S) = -Total(b, S)
    BY <2>1, TotalNegated
  <2>4. Total(b, S) \in Int
    BY <2>2, TotalIs
  <2> QED
    BY <2>3, <2>4
<1>5. Total(a, S) \in Int
  <2>1. \A x \in S : a[x] \in Int
    OBVIOUS
  <2> QED
    BY <2>1, TotalIs
<1>6. n \in Int
  BY FS_CardinalityType
<1>7. /\ Covariance(a, b, S) = n * Total(p, S) - Total(a, S) * Total(b, S)
      /\ Covariance(a, c, S) = n * Total(q, S) - Total(a, S) * Total(c, S)
  BY DEF Covariance, p, q
<1> HIDE DEF n
<1>8. /\ n * (-Total(p, S)) = -(n * Total(p, S))
      /\ Total(a, S) * (-Total(b, S)) = -(Total(a, S) * Total(b, S))
      /\ n * Total(p, S) \in Int /\ Total(a, S) * Total(b, S) \in Int
  BY <1>3, <1>4, <1>5, <1>6
<1> QED
  BY <1>3, <1>4, <1>7, <1>8

\* A line rises only where some rate is above an earlier one.
LEMMA RisingSeries ==
  ASSUME NEW n \in Nat, NEW series, IsSeries(series, n), Fit(series).rise > 0
  PROVE  \E i, j \in Measured(series) : i < j /\ Less(series[i], series[j])
<1> DEFINE I == Measured(series)
           x == WeekNumbers(series)
           y == WeekRates(series)
           z == [i \in I |-> -y[i]]
<1> SUFFICES ASSUME \A i, j \in I : i < j => ~Less(series[i], series[j])
             PROVE  FALSE
  OBVIOUS
<1>1. IsFiniteSet(I)
  BY MeasuredIsFinite
<1>2. /\ Fit(series).rise = Covariance(x, y, I)
      /\ \A i \in I : x[i] = i /\ i \in Int /\ y[i] = WeekRate(series, i) /\ y[i] \in Int
  BY RiseIs
<1>3. \A i, j \in I : i < j => ~(y[i] < y[j])
  BY <1>2, RateIsHigher
<1>4. \A i \in I : z[i] = -y[i]
  OBVIOUS
<1> HIDE DEF I, x, y, z
<1>5. \A i, j \in I : (x[i] - x[j]) * (z[i] - z[j]) >= 0
  <2> TAKE i \in I, j \in I
  <2> DEFINE d == x[i] - x[j]
             u == z[i] - z[j]
  <2>1. d = i - j /\ u = y[j] - y[i] /\ d \in Int /\ u \in Int
    BY <1>2, <1>4
  <2>2. (d >= 0 /\ u >= 0) \/ (d <= 0 /\ u <= 0) \/ d = 0
    BY <1>2, <1>3, <2>1
  <2> HIDE DEF d, u
  <2>3. d * u >= 0
    BY <2>1, <2>2
  <2> QED
    BY <2>3 DEF d, u
<1>6. \A i \in I : x[i] \in Int /\ z[i] \in Int
  BY <1>2, <1>4
<1>7. Covariance(x, z, I) \in Int /\ Covariance(x, z, I) >= 0
  BY <1>1, <1>5, <1>6, MovingTogether
<1>8. Covariance(x, z, I) = -Covariance(x, y, I) /\ Covariance(x, y, I) \in Int
  <2>1. \A i \in I : x[i] \in Int /\ y[i] \in Int /\ z[i] = -y[i]
    BY <1>2, <1>4
  <2> QED
    BY <1>1, <2>1, CovarianceNegated
<1> QED
  BY <1>2, <1>7, <1>8

\* The posts of a week that have views, their likes and their views.
SeenIn(m, w) == {p \in Stored : /\ InPair(ChannelOf[p]) /\ PairWeek(p) = w
                                /\ Market[ChannelOf[p]] = m /\ post[p].views > 0}
LikesOf == [p \in Posts |-> Positive(post[p].likes)]
ViewsOf == [p \in Posts |-> Views(p)]

LEMMA RateOfWeek ==
  ASSUME IsFiniteSet(Posts), TableOk, NEW m \in Markets, NEW w \in Axis
  PROVE  \E a \in Nat, b \in Nat : /\ Timeline[m][w].er = <<a, b>>
                                   /\ b = 0 <=> SeenIn(m, w) = {}
<1> DEFINE S == SeenIn(m, w)
           f == LikesOf
           h == ViewsOf
           P(g) == [s \in SUBSET S |-> IF s = {} THEN 0
                      ELSE Positive(post[CHOOSE p \in s : TRUE].likes) + g[s \ {CHOOSE p \in s : TRUE}]]
           Q(g) == [s \in SUBSET S |-> IF s = {} THEN 0
                      ELSE Views(CHOOSE p \in s : TRUE) + g[s \ {CHOOSE p \in s : TRUE}]]
<1>1. S \in SUBSET Stored /\ S \subseteq Posts /\ IsFiniteSet(S)
  <2>1. S \subseteq Stored /\ S \subseteq Posts
    BY DEF SeenIn, Stored
  <2> QED
    BY <2>1, SubsetIsSmaller
<1>2. \A p \in S : /\ f[p] = Positive(post[p].likes) /\ f[p] \in Nat
                   /\ h[p] = Views(p) /\ h[p] \in Nat /\ h[p] > 0
  <2> TAKE p \in S
  <2>1. post[p].likes \in Int /\ post[p].views \in Int /\ p \in Posts
    BY <1>1, NumbersOfPosts
  <2>2. post[p].views > 0
    BY DEF SeenIn
  <2> QED
    BY <2>1, <2>2 DEF LikesOf, ViewsOf, Positive, Views
<1>3. Timeline[m][w].er = <<Sum(LAMBDA p : Positive(post[p].likes), S), Sum(Views, S)>>
  <2> DEFINE pool == {p \in Stored : InPair(ChannelOf[p]) /\ PairWeek(p) \in Axis}
             T == {p \in pool : Market[ChannelOf[p]] = m /\ PairWeek(p) = w}
             seen == {p \in T : post[p].views > 0}
  <2>1. seen = S
    BY DEF SeenIn
  <2>2. Timeline[m][w].er = <<Sum(LAMBDA p : Positive(post[p].likes), seen), Sum(Views, seen)>>
    BY DEF Timeline
  <2> HIDE DEF seen, S
  <2> QED
    BY <2>1, <2>2
<1>4. /\ Sum(LAMBDA p : Positive(post[p].likes), S) = (CHOOSE g : g = P(g))[S]
      /\ Sum(Views, S) = (CHOOSE g : g = Q(g))[S]
  BY DEF Sum, MapThenSumSet, MapThenFoldSet
<1> HIDE DEF S, f, h
<1>5. \A s \in SUBSET S : s # {} => One(s) \in S
  BY OneIsIn
<1>6. (CHOOSE g : g = P(g))[S] = Total(f, S)
  <2>1. \A g : g = P(g) <=> IsTotals(g, f, S)
    <3> TAKE g
    <3>1. P(g) = [s \in SUBSET S |-> IF s = {} THEN 0 ELSE f[One(s)] + g[s \ {One(s)}]]
      BY <1>2, <1>5 DEF One
    <3> HIDE DEF P
    <3> QED
      BY <3>1 DEF IsTotals
  <2> HIDE DEF P
  <2>2. (CHOOSE g : g = P(g)) = (CHOOSE g : IsTotals(g, f, S))
    BY <2>1
  <2>3. \A p \in S : f[p] \in Int
    BY <1>2
  <2>4. (CHOOSE g : IsTotals(g, f, S))[S] = Total(f, S)
    BY <1>1, <2>3, TotalIs
  <2> QED
    BY <2>2, <2>4
<1>7. (CHOOSE g : g = Q(g))[S] = Total(h, S)
  <2>1. \A g : g = Q(g) <=> IsTotals(g, h, S)
    <3> TAKE g
    <3>1. Q(g) = [s \in SUBSET S |-> IF s = {} THEN 0 ELSE h[One(s)] + g[s \ {One(s)}]]
      BY <1>2, <1>5 DEF One
    <3> HIDE DEF Q
    <3> QED
      BY <3>1 DEF IsTotals
  <2> HIDE DEF Q
  <2>2. (CHOOSE g : g = Q(g)) = (CHOOSE g : IsTotals(g, h, S))
    BY <2>1
  <2>3. \A p \in S : h[p] \in Int
    BY <1>2
  <2>4. (CHOOSE g : IsTotals(g, h, S))[S] = Total(h, S)
    BY <1>1, <2>3, TotalIs
  <2> QED
    BY <2>2, <2>4
<1> HIDE DEF P, Q
<1>8. Timeline[m][w].er = <<Total(f, S), Total(h, S)>>
  BY <1>3, <1>4, <1>6, <1>7
<1>9. Total(f, S) \in Nat
  <2>1. \A p \in S : f[p] \in Int /\ f[p] >= 0
    BY <1>2
  <2>2. \A p \in S : f[p] \in Int
    BY <1>2
  <2>3. Total(f, S) >= 0
    BY <1>1, <2>1, TotalIsMore
  <2>4. Total(f, S) \in Int
    BY <1>1, <2>2, TotalIs
  <2> QED
    BY <2>3, <2>4
<1>10. Total(h, S) \in Nat /\ (Total(h, S) = 0 <=> S = {})
  <2>1. \A p \in S : h[p] \in Int /\ h[p] >= 0
    BY <1>2
  <2>2. \A p \in S : h[p] \in Int
    BY <1>2
  <2>3. Total(h, S) >= 0 /\ \A p \in S : Total(h, S) >= h[p]
    BY <1>1, <2>1, TotalIsMore
  <2>4. Total(h, S) \in Int
    BY <1>1, <2>2, TotalIs
  <2>5. S = {} => Total(h, S) = 0
    BY TotalOfNone
  <2>6. ASSUME NEW p \in S PROVE Total(h, S) # 0
    BY <1>2, <2>3, <2>4
  <2> QED
    BY <2>3, <2>4, <2>5, <2>6
<1> QED
  BY <1>8, <1>9, <1>10 DEF S

\* The series of a market, and the week of the axis that each of its places stands for.
NoneIsNoRate == \A n, d : None # <<n, d>>
SeriesOf(m) ==
    [i \in 1..Cardinality(Axis) |->
       LET er == Timeline[m][Min(Axis) + i - 1].er IN IF er[2] = 0 THEN None ELSE er]

LEMMA SeriesIs ==
  ASSUME IsFiniteSet(Posts), TableOk, NoneIsNoRate, NEW m \in Markets
  PROVE  /\ Cardinality(Axis) \in Nat /\ IsSeries(SeriesOf(m), Cardinality(Axis))
         /\ \A i \in Measured(SeriesOf(m)) : LET w == Min(Axis) + i - 1
                                             IN  /\ w \in Axis /\ SeenIn(m, w) # {}
                                                 /\ SeriesOf(m)[i] = Timeline[m][w].er
         /\ \A w \in Axis : SeenIn(m, w) # {} => w - Min(Axis) + 1 \in Measured(SeriesOf(m))
         /\ Axis # {} => Min(Axis) \in Int
<1> DEFINE n == Cardinality(Axis)
           lo == Min(Axis)
           s == SeriesOf(m)
           week(i) == lo + i - 1
<1>1. n \in Nat /\ (Axis # {} => lo \in Int /\ Axis = lo..(lo + n - 1)) /\ (Axis = {} => n = 0)
  BY AxisIsAnInterval
<1>2. DOMAIN s = 1..n /\ \A i \in 1..n :
        s[i] = IF Timeline[m][week(i)].er[2] = 0 THEN None ELSE Timeline[m][week(i)].er
  BY DEF SeriesOf
<1> HIDE DEF n, lo, s
<1>3. \A i \in 1..n : week(i) \in Axis /\ lo \in Int
  <2> TAKE i \in 1..n
  <2>1. Axis # {}
    BY <1>1
  <2> QED
    BY <1>1, <2>1
<1>4. \A i \in 1..n : /\ s[i] # None <=> SeenIn(m, week(i)) # {}
                      /\ s[i] # None => s[i] = Timeline[m][week(i)].er /\ s[i] \in Fractions
  <2> TAKE i \in 1..n
  <2> DEFINE w == week(i)
  <2>1. w \in Axis
    BY <1>3
  <2>2. s[i] = IF Timeline[m][w].er[2] = 0 THEN None ELSE Timeline[m][w].er
    BY <1>2
  <2> HIDE DEF w
  <2>3. PICK a \in Nat, b \in Nat : Timeline[m][w].er = <<a, b>> /\ (b = 0 <=> SeenIn(m, w) = {})
    BY <2>1, RateOfWeek
  <2>4. None # <<a, b>>
    BY DEF NoneIsNoRate
  <2>5. b # 0 => <<a, b>> \in Fractions
    BY DEF Fractions
  <2>6. s[i] = IF b = 0 THEN None ELSE <<a, b>>
    BY <2>2, <2>3
  <2> QED
    BY <2>3, <2>4, <2>5, <2>6 DEF w
<1>5. Measured(s) = {i \in 1..n : s[i] # None}
  BY <1>2 DEF Measured
<1>6. IsSeries(s, n)
  BY <1>2, <1>4, <1>5 DEF IsSeries
<1>7. \A w \in Axis : SeenIn(m, w) # {} => w - lo + 1 \in Measured(s)
  <2> TAKE w \in Axis
  <2> DEFINE i == w - lo + 1
  <2>1. i \in 1..n /\ week(i) = w
    BY <1>1
  <2> HIDE DEF i
  <2> QED
    BY <1>4, <1>5, <2>1 DEF i
<1>8. \A i \in Measured(s) : /\ week(i) \in Axis /\ SeenIn(m, week(i)) # {}
                             /\ s[i] = Timeline[m][week(i)].er
  BY <1>3, <1>4, <1>5
<1> QED
  BY <1>1, <1>6, <1>7, <1>8 DEF n, lo, s

LEMMA ForecastOneIs ==
  ASSUME NEW series
  PROVE  /\ ForecastOne(series).points = Cardinality(Measured(series))
         /\ ForecastOne(series).status = "ok" /\ ForecastOne(series).direction = "steigend"
              => Fit(series).rise > 0
<1> DEFINE points == Cardinality(Measured(series))
           fit == Fit(series)
           way == CASE fit.rise > 0 -> "steigend" [] fit.rise < 0 -> "fallend" [] OTHER -> "stabil"
           er == LET next == At(fit, series, Len(series) + 1) IN <<Positive(next[1]), next[2]>>
           ok == [status |-> "ok", points |-> points, r2 |-> fit.r2, slope |-> <<fit.rise, fit.run>>,
                  direction |-> way, er |-> er]
<1>1. ForecastOne(series) = IF points < MinPoints
                            THEN [status |-> "insufficient_data", points |-> points] ELSE ok
  BY DEF ForecastOne
<1>2. way = "steigend" => fit.rise > 0
  <2>1. CASE fit.rise > 0
    BY <2>1
  <2>2. CASE ~(fit.rise > 0) /\ fit.rise < 0
    <3>1. way = "fallend"
      BY <2>2
    <3> QED
      BY <3>1
  <2>3. CASE ~(fit.rise > 0) /\ ~(fit.rise < 0)
    <3>1. way = "stabil"
      BY <2>3
    <3> QED
      BY <3>1
  <2> QED
    BY <2>1, <2>2, <2>3
<1> HIDE DEF points, fit, way, er
<1>3. ok.points = points /\ ok.direction = way
  OBVIOUS
<1> QED
  BY <1>1, <1>2, <1>3 DEF points, fit

\* What the forecasts of a pair say of the weeks they are made from.
WeekSeen(m, w) == \E p \in Stored : /\ InPair(ChannelOf[p]) /\ PairWeek(p) = w
                                    /\ Market[ChannelOf[p]] = m /\ post[p].views > 0
ForecastsAgree(timeline, results) ==
    /\ \A m \in Markets : results[m].points = Cardinality({w \in Axis : WeekSeen(m, w)})
    /\ \A m \in Markets : results[m].status = "ok" /\ results[m].direction = "steigend" =>
         \E v, w \in {w \in Axis : WeekSeen(m, w)} :
           v < w /\ Less(timeline[m][v].er, timeline[m][w].er)

LEMMA ForecastsAreFair ==
  ASSUME IsFiniteSet(Posts), TableOk, NoneIsNoRate
  PROVE  ForecastsAgree(Timeline, ForecastOf(Timeline))
<1> SUFFICES ASSUME NEW m \in Markets
             PROVE  /\ ForecastOf(Timeline)[m].points = Cardinality({w \in Axis : WeekSeen(m, w)})
                    /\ /\ ForecastOf(Timeline)[m].status = "ok"
                       /\ ForecastOf(Timeline)[m].direction = "steigend"
                       => \E v, w \in {w \in Axis : WeekSeen(m, w)} :
                            v < w /\ Less(Timeline[m][v].er, Timeline[m][w].er)
  BY DEF ForecastsAgree
<1> DEFINE s == SeriesOf(m)
           I == Measured(s)
           n == Cardinality(Axis)
           lo == Min(Axis)
           W == {w \in Axis : WeekSeen(m, w)}
           week == [i \in I |-> lo + i - 1]
           place == [w \in W |-> w - lo + 1]
<1>1. ForecastOf(Timeline)[m] = ForecastOne(s)
  BY DEF ForecastOf, SeriesOf
<1>2. \A w : WeekSeen(m, w) <=> SeenIn(m, w) # {}
  BY DEF WeekSeen, SeenIn
<1>3. /\ n \in Nat /\ IsSeries(s, n)
      /\ \A i \in I : /\ lo + i - 1 \in Axis /\ SeenIn(m, lo + i - 1) # {}
                      /\ s[i] = Timeline[m][lo + i - 1].er
      /\ \A w \in Axis : SeenIn(m, w) # {} => w - lo + 1 \in I
      /\ Axis # {} => lo \in Int
  BY SeriesIs
<1>4. \A w \in Axis : w \in Int
  BY AxisIsAnInterval
<1>5. IsFiniteSet(I) /\ I \in SUBSET (1..n)
  BY <1>3, MeasuredIsFinite
<1> HIDE DEF s, I, n, lo
<1>6. /\ \A w \in W : w \in Int /\ lo \in Int /\ place[w] \in I /\ place[w] = w - lo + 1
      /\ \A i \in I : i \in Int /\ lo \in Int /\ week[i] \in W /\ week[i] = lo + i - 1
                      /\ s[i] = Timeline[m][week[i]].er
  BY <1>2, <1>3, <1>4, <1>5
<1> HIDE DEF W, week, place
<1>7. W = {week[i] : i \in I} /\ I = {place[w] : w \in W}
  <2>1. \A w \in W : w = week[place[w]]
    BY <1>6
  <2>2. \A i \in I : i = place[week[i]]
    BY <1>6
  <2>3. W = {week[i] : i \in I}
    BY <1>6, <2>1
  <2>4. I = {place[w] : w \in W}
    BY <1>6, <2>2
  <2> QED
    BY <2>3, <2>4
<1>8. Cardinality(I) = Cardinality(W)
  <2>1. IsFiniteSet(W) /\ Cardinality(W) <= Cardinality(I)
    <3>1. IsFiniteSet({week[i] : i \in I}) /\ Cardinality({week[i] : i \in I}) <= Cardinality(I)
      BY <1>5, FiniteImage
    <3> QED
      BY <1>7, <3>1
  <2>2. Cardinality(I) <= Cardinality(W)
    <3>1. Cardinality({place[w] : w \in W}) <= Cardinality(W)
      BY <2>1, FiniteImage
    <3> QED
      BY <1>7, <3>1
  <2>3. Cardinality(I) \in Nat /\ Cardinality(W) \in Nat
    BY <1>5, <2>1, FS_CardinalityType
  <2> QED
    BY <2>1, <2>2, <2>3
<1>9. ForecastOne(s).points = Cardinality(W)
  BY <1>8, ForecastOneIs DEF I
<1>10. ASSUME ForecastOne(s).status = "ok", ForecastOne(s).direction = "steigend"
       PROVE  \E v, w \in W : v < w /\ Less(Timeline[m][v].er, Timeline[m][w].er)
  <2>1. Fit(s).rise > 0
    BY <1>10, ForecastOneIs
  <2>2. PICK i \in I, j \in I : i < j /\ Less(s[i], s[j])
    BY <1>3, <2>1, RisingSeries DEF I
  <2>3. week[i] < week[j]
    BY <1>6, <2>2
  <2>4. Less(Timeline[m][week[i]].er, Timeline[m][week[j]].er)
    BY <1>6, <2>2
  <2> QED
    BY <1>6, <2>3, <2>4
<1>11. ForecastOne(s).status = "ok" /\ ForecastOne(s).direction = "steigend"
         => \E v, w \in W : v < w /\ Less(Timeline[m][v].er, Timeline[m][w].er)
  BY <1>10
<1> QED
  BY <1>1, <1>9, <1>11 DEF W

LEMMA PagesAgree ==
  ASSUME IsFiniteSet(Posts), TableOk, DatedOk, NoneIsNoRate, ChannelsHaveColumns
  PROVE  PagesCountTheSame
<1>1. TitlePagesCountTheSame
  BY TitlePagesAgree
<1>2. FeedsAgree(BreakoutFeed(today, FeedLimit), FeedEntries(today))
  BY FeedAgrees
<1>3. ForecastsAgree(Timeline, ForecastOf(Timeline))
  BY ForecastsAreFair
<1>4. /\ FeedsAgree(BreakoutFeed(today, FeedLimit), FeedEntries(today))
      /\ ForecastsAgree(Timeline, ForecastOf(Timeline))
      <=> FeedAndForecastAgree
  BY DEF FeedAndForecastAgree, FeedsAgree, ForecastsAgree, WeekSeen
<1> QED
  BY <1>1, <1>2, <1>3, <1>4 DEF PagesCountTheSame

\* Title pages, tile and timeline, the feed and the forecasts of a pair count the same posts
\* the same (title_aggregation.py, market_timeline.py, forecast.py, insights.py and
\* compute_breakout_feed).
THEOREM PagesCountTheSamePosts ==
  ASSUME IsFiniteSet(Posts), NoneIsNoPost, NoneIsNoRate, NothingFromTheFuture, ChannelsHaveColumns
  PROVE  Spec => []PagesCountTheSame
<1> DEFINE Settled == TableOk /\ DatedOk
<1>1. Init => Settled
  BY TableOkInit, DatedInit DEF Init
<1>2. [Next]_vars => TableNext \/ NextDay \/ UNCHANGED tableVars
  BY DEF Next, vars, Begin, Reaggregate, Persist, Fail
<1>3. Settled /\ [Next]_vars => Settled'
  BY <1>2, TableStep, DatedStep
<1>4. Settled => PagesCountTheSame
  BY PagesAgree
<1> QED
  BY <1>1, <1>3, <1>4, PTL DEF Spec

-------------------------------------------------------------------------------
(* Scores *)

LEMMA ProductsCompare ==
  ASSUME NEW f, NEW h, NEW T, IsFiniteSet(T),
         \A x \in T : f[x] \in Nat \ {0} /\ h[x] \in Nat \ {0} /\ f[x] <= h[x]
  PROVE  Product(f, T) <= Product(h, T)
<1> DEFINE Good == {S \in SUBSET T : Product(f, S) <= Product(h, S)}
<1>1. ASSUME NEW S \in SUBSET T, \A U \in SUBSET S : U # S => U \in Good PROVE S \in Good
  <2>0. IsFiniteSet(S) /\ \A x \in S : f[x] \in Nat \ {0}
    BY SubsetIsSmaller
  <2>00. \A x \in S : h[x] \in Nat \ {0}
    OBVIOUS
  <2>1. CASE S = {}
    BY <2>1, ProductOfNone
  <2>2. ASSUME NEW y \in S PROVE Product(f, S) <= Product(h, S)
    <3> DEFINE R == S \ {y}
    <3>1. Product(f, S) = f[y] * Product(f, R)
      BY <2>0, ProductStep
    <3>2. Product(h, S) = h[y] * Product(h, R)
      BY <2>0, <2>00, ProductStep
    <3>3. R \in Good
      BY <1>1
    <3>4. IsFiniteSet(R) /\ (\A x \in R : f[x] \in Nat \ {0}) /\ (\A x \in R : h[x] \in Nat \ {0})
      BY <2>0, <2>00, SubsetIsSmaller
    <3>5. Product(f, R) \in Nat \ {0} /\ Product(h, R) \in Nat \ {0}
      BY <3>4, ProductIsBare
    <3>6. Product(f, R) <= Product(h, R)
      BY <3>3
    <3> DEFINE a == f[y]
               b == h[y]
               c == Product(f, R)
               d == Product(h, R)
    <3>7. a \in Nat /\ b \in Nat /\ c \in Nat /\ d \in Nat /\ a <= b /\ c <= d
      BY <3>5, <3>6
    <3> HIDE DEF a, b, c, d
    <3>8. a * c <= b * d
      <4>1. a * c <= a * d
        <5>1. a * d = a * c + a * (d - c) /\ a * (d - c) >= 0
          BY <3>7
        <5>2. a * d \in Int /\ a * c \in Int /\ a * (d - c) \in Int
          BY <3>7
        <5> QED
          BY <5>1, <5>2
      <4>2. a * d <= b * d
        <5>1. b * d = a * d + (b - a) * d /\ (b - a) * d >= 0
          BY <3>7
        <5>2. b * d \in Int /\ a * d \in Int /\ (b - a) * d \in Int
          BY <3>7
        <5> QED
          BY <5>1, <5>2
      <4>3. a * c \in Int /\ a * d \in Int /\ b * d \in Int
        BY <3>7
      <4> QED
        BY <4>1, <4>2, <4>3
    <3> QED
      BY <3>1, <3>2, <3>8 DEF a, b, c, d
  <2> QED
    BY <2>1, <2>2
<1>2. T \in Good
  <2> HIDE DEF Good
  <2> QED
    BY <1>1, SubsetInduction
<1> QED
  BY <1>2

LEMMA ProductGrows ==
  ASSUME NEW f, NEW T, IsFiniteSet(T), \A x \in T : f[x] \in Nat \ {0}, NEW A \in SUBSET T
  PROVE  Product(f, A) <= Product(f, T)
<1> DEFINE one == [x \in T |-> IF x \in A THEN f[x] ELSE 1]
           B == T \ A
<1>1. \A x \in T : one[x] \in Nat \ {0} /\ f[x] \in Nat \ {0} /\ one[x] <= f[x]
  OBVIOUS
<1>2. Product(one, T) <= Product(f, T)
  <2> HIDE DEF one
  <2> QED
    BY <1>1, ProductsCompare
<1> DEFINE Good == {S \in SUBSET T : Product(one, S) = Product(f, S \cap A)}
<1>3. \A x \in T : one[x] = IF x \in A THEN f[x] ELSE 1
  OBVIOUS
<1> HIDE DEF one
<1>4. ASSUME NEW S \in SUBSET T, \A U \in SUBSET S : U # S => U \in Good PROVE S \in Good
  <2>0. /\ IsFiniteSet(S) /\ \A x \in S : one[x] \in Nat \ {0}
    BY <1>1, SubsetIsSmaller
  <2>00. /\ IsFiniteSet(S \cap A) /\ \A x \in S \cap A : f[x] \in Nat \ {0}
    BY <2>0, SubsetIsSmaller
  <2>1. CASE S = {}
    <3>1. S \cap A = {}
      BY <2>1
    <3>2. Product(one, S) = 1 /\ Product(f, S \cap A) = 1
      BY <2>1, <3>1, ProductOfNone
    <3> QED
      BY <3>2
  <2>2. ASSUME NEW y \in S PROVE Product(one, S) = Product(f, S \cap A)
    <3> DEFINE R == S \ {y}
    <3>1. Product(one, S) = one[y] * Product(one, R)
      BY <2>0, ProductStep
    <3>2. R \in Good
      BY <1>4
    <3>3. Product(one, R) = Product(f, R \cap A)
      BY <3>2
    <3>4. CASE y \in A
      <4>1. Product(f, S \cap A) = f[y] * Product(f, (S \cap A) \ {y})
        BY <2>00, <3>4, ProductStep
      <4>2. (S \cap A) \ {y} = R \cap A /\ one[y] = f[y]
        BY <1>3, <3>4
      <4> QED
        BY <3>1, <3>3, <4>1, <4>2
    <3>5. CASE y \notin A
      <4>1. S \cap A = R \cap A /\ one[y] = 1
        BY <1>3, <3>5
      <4>2. IsFiniteSet(R) /\ \A x \in R : one[x] \in Nat \ {0}
        BY <2>0, SubsetIsSmaller
      <4>3. Product(one, R) \in Nat \ {0}
        BY <4>2, ProductIsBare
      <4> QED
        BY <3>1, <3>3, <4>1, <4>3
    <3> QED
      BY <3>4, <3>5
  <2> QED
    BY <2>1, <2>2
<1>5. T \in Good
  <2> HIDE DEF Good
  <2> QED
    BY <1>4, SubsetInduction
<1>6. T \cap A = A
  OBVIOUS
<1> QED
  BY <1>2, <1>5, <1>6

LEMMA PowersCompare ==
  ASSUME NEW a \in Nat \ {0}, NEW b \in Nat \ {0}, a <= b, NEW m \in Nat, NEW n \in Nat, m <= n
  PROVE  Power(a, m) <= Power(b, m) /\ Power(a, m) <= Power(a, n)
<1> DEFINE f == Times(a, n)
           g == Times(a, m)
           h == Times(b, m)
<1>1. IsFiniteSet(1..m) /\ IsFiniteSet(1..n) /\ 1..m \in SUBSET (1..n)
  BY FS_Interval
<1>2. /\ Power(a, m) = Product(g, 1..m) /\ Power(b, m) = Product(h, 1..m)
      /\ Power(a, n) = Product(f, 1..n)
  BY PowerIs
<1>3. \A i \in 1..m : g[i] \in Nat \ {0} /\ h[i] \in Nat \ {0} /\ g[i] <= h[i] /\ f[i] = g[i]
  BY DEF Times
<1>4. \A i \in 1..n : f[i] \in Nat \ {0}
  BY DEF Times
<1> HIDE DEF f, g, h
<1>5. Product(g, 1..m) <= Product(h, 1..m)
  BY <1>1, <1>3, ProductsCompare
<1>6. Product(f, 1..m) <= Product(f, 1..n)
  BY <1>1, <1>4, ProductGrows
<1>7. Product(f, 1..m) = Product(g, 1..m)
  <2>1. Bare(f, 1..m) = Bare(g, 1..m)
    BY <1>3 DEF Bare
  <2> QED
    BY <2>1 DEF Product
<1> QED
  BY <1>2, <1>5, <1>6, <1>7

LEMMA PowerOfZero ==
  ASSUME NEW n \in Nat \ {0}
  PROVE  Power(0, n) = 0
<1> DEFINE S == 1..n
           P(g) == [s \in SUBSET S |-> IF s = {} THEN 1 ELSE 0 * g[s \ {CHOOSE i \in s : TRUE}]]
           h == [s \in SUBSET S |-> IF s = {} THEN 1 ELSE 0]
           g == CHOOSE g : g = P(g)
<1>1. Power(0, n) = g[S]
  BY DEF Power, MapThenFoldSet
<1>2. IsFiniteSet(S) /\ 1 \in S
  BY FS_Interval
<1> HIDE DEF S
<1>3. h = P(h)
  <2>1. \A s \in SUBSET S : h[s \ {CHOOSE i \in s : TRUE}] \in {0, 1}
    OBVIOUS
  <2>2. \A s \in SUBSET S : 0 * h[s \ {CHOOSE i \in s : TRUE}] = 0
    BY <2>1
  <2> QED
    BY <2>2
<1>4. g = P(g)
  <2> HIDE DEF P, h
  <2> QED
    BY <1>3
<1> HIDE DEF g, h
<1>5. \A s \in SUBSET S : g[s] = IF s = {} THEN 1 ELSE 0 * g[s \ {CHOOSE i \in s : TRUE}]
  BY <1>4
<1> DEFINE Good == {s \in SUBSET S : g[s] \in Int}
<1>6. ASSUME NEW s \in SUBSET S, \A U \in SUBSET s : U # s => U \in Good PROVE s \in Good
  <2>1. CASE s = {}
    BY <1>5, <2>1
  <2>2. CASE s # {}
    <3> DEFINE R == s \ {CHOOSE i \in s : TRUE}
    <3>1. R \in SUBSET s /\ R # s
      BY <2>2
    <3>2. g[R] \in Int
      BY <1>6, <3>1
    <3>3. g[s] = 0 * g[R]
      BY <1>5, <2>2
    <3> QED
      BY <3>2, <3>3
  <2> QED
    BY <2>1, <2>2
<1>7. \A s \in SUBSET S : s \in Good
  <2> TAKE s \in SUBSET S
  <2>1. IsFiniteSet(s)
    BY <1>2, SubsetIsSmaller
  <2>2. ASSUME NEW U \in SUBSET s, \A V \in SUBSET U : V # U => V \in Good PROVE U \in Good
    BY <1>6, <2>2
  <2> HIDE DEF Good
  <2> QED
    BY <2>1, <2>2, SubsetInduction
<1>8. g[S] = 0
  <2> DEFINE R == S \ {CHOOSE i \in S : TRUE}
  <2>1. g[S] = 0 * g[R] /\ S # {}
    BY <1>2, <1>5
  <2>2. g[R] \in Int
    BY <1>7
  <2> QED
    BY <2>1, <2>2
<1> QED
  BY <1>1, <1>8

\* A score, and its place in the order.
IsScore(x) == x.dev \in Int /\ x.spread \in Nat \ {0} /\ x.age \in Nat
Placed(x) == IF x.dev = 0 THEN <<0, 1>> ELSE Magnitude(x)

LEMMA PlacesAreFractions ==
  ASSUME NEW x, IsScore(x)
  PROVE  Placed(x) \in Fractions
<1>1. CASE x.dev = 0
  BY <1>1 DEF Placed, Fractions
<1>2. CASE x.dev # 0
  <2>1. OffTheMean(x)
    BY <1>2 DEF IsScore, OffTheMean
  <2> QED
    BY <1>2, <2>1, MagnitudeIs DEF Placed
<1> QED
  BY <1>1, <1>2

LEMMA HigherByPlace ==
  ASSUME NEW x, NEW y, IsScore(x), IsScore(y)
  PROVE  Higher(x, y) <=> \/ x.dev >= 0 /\ y.dev < 0
                          \/ x.dev > 0 /\ y.dev = 0
                          \/ x.dev > 0 /\ y.dev > 0 /\ Less(Placed(y), Placed(x))
                          \/ x.dev < 0 /\ y.dev < 0 /\ Less(Placed(x), Placed(y))
<1>0. x.dev \in Int /\ y.dev \in Int /\ HalfLife \in Nat \ {0}
  BY FiguresAssumption DEF IsScore
<1>1. Higher(x, y) <=> \/ x.dev >= 0 /\ y.dev < 0
                       \/ x.dev > 0 /\ y.dev >= 0 /\ Size(x, y) > Size(y, x)
                       \/ x.dev < 0 /\ y.dev < 0 /\ Size(x, y) < Size(y, x)
  BY DEF Higher, Size
<1>2. ASSUME x.dev # 0, y.dev # 0
      PROVE  /\ Size(x, y) > Size(y, x) <=> Less(Placed(y), Placed(x))
             /\ Size(y, x) > Size(x, y) <=> Less(Placed(x), Placed(y))
  <2>1. OffTheMean(x) /\ OffTheMean(y)
    BY <1>2 DEF IsScore, OffTheMean
  <2>2. Placed(x) = Magnitude(x) /\ Placed(y) = Magnitude(y)
    BY <1>2 DEF Placed
  <2> QED
    BY <2>1, <2>2, SizesCompare
<1>3. ASSUME x.dev > 0, y.dev = 0 PROVE Size(x, y) > Size(y, x)
  <2>1. OffTheMean(x) /\ y.spread \in Nat \ {0} /\ x.spread \in Nat \ {0} /\ x.age \in Nat /\ y.age \in Nat
    BY <1>3 DEF IsScore, OffTheMean
  <2> DEFINE d == x.dev * x.dev * y.spread
             j == Power(2, 2 * y.age)
             i == Power(2, 2 * x.age)
  <2>2. d \in Nat \ {0}
    <3> DEFINE e == x.dev
    <3>1. e \in Nat \ {0}
      BY <1>0, <1>3
    <3> HIDE DEF e
    <3>2. e * e \in Nat \ {0}
      BY <3>1, BarePlus
    <3>3. (e * e) * y.spread \in Nat \ {0}
      BY <2>1, <3>2, BarePlus
    <3> QED
      BY <3>3 DEF e
  <2>3. y.dev * y.dev * x.spread = 0
    <3>1. 0 * 0 * x.spread = 0
      BY <2>1
    <3> QED
      BY <1>3, <3>1
  <2>4. 2 * y.age \in Nat /\ 2 * x.age \in Nat /\ 2 \in Nat \ {0}
    BY <2>1
  <2> HIDE DEF d
  <2>5. Power(d, HalfLife) \in Nat \ {0} /\ j \in Nat \ {0} /\ i \in Nat \ {0}
    BY <1>0, <2>2, <2>4, PowerIs
  <2>6. Power(d, HalfLife) * j \in Nat \ {0}
    BY <2>5, BarePlus
  <2>7. Power(0, HalfLife) = 0
    BY <1>0, PowerOfZero
  <2>8. Size(x, y) = Power(d, HalfLife) * j
    BY DEF Size, d
  <2>9. Size(y, x) = 0 * i
    BY <2>3, <2>7 DEF Size
  <2> HIDE DEF i, j
  <2>10. 0 * i = 0
    BY <2>5
  <2> QED
    BY <2>6, <2>8, <2>9, <2>10
<1>4. Size(x, y) \in Int /\ Size(y, x) \in Int
  <2>1. \A u, v : IsScore(u) /\ IsScore(v) => Size(u, v) \in Int
    <3> TAKE u, v
    <3> SUFFICES ASSUME IsScore(u), IsScore(v) PROVE Size(u, v) \in Int
      OBVIOUS
    <3>1. u.dev \in Int /\ v.spread \in Nat \ {0} /\ 2 * v.age \in Nat /\ 2 \in Nat \ {0}
      BY DEF IsScore
    <3> DEFINE d == u.dev * u.dev * v.spread
               e == u.dev
    <3>2. d \in Nat
      <4>1. e \in Int
        BY <3>1
      <4> HIDE DEF e
      <4>2. e * e \in Nat
        BY <4>1
      <4>3. (e * e) * v.spread \in Nat
        BY <3>1, <4>2
      <4> QED
        BY <4>3 DEF e
    <3> HIDE DEF d
    <3>3. Power(d, HalfLife) \in Int
      <4>1. CASE d = 0
        BY <1>0, <4>1, PowerOfZero
      <4>2. CASE d # 0
        BY <1>0, <3>2, <4>2, PowerIs
      <4> QED
        BY <4>1, <4>2
    <3>4. Power(2, 2 * v.age) \in Int
      <4> DEFINE k == 2 * v.age
      <4>1. k \in Nat /\ 2 \in Nat \ {0}
        BY <3>1
      <4> HIDE DEF k
      <4>2. Power(2, k) \in Nat \ {0}
        BY <4>1, PowerIs
      <4> QED
        BY <4>2 DEF k
    <3>5. Power(d, HalfLife) * Power(2, 2 * v.age) \in Int
      BY <3>3, <3>4
    <3> QED
      BY <3>5 DEF Size, d
  <2> QED
    BY <2>1
<1>5. Size(x, y) < Size(y, x) <=> Size(y, x) > Size(x, y)
  BY <1>4
<1> QED
  BY <1>0, <1>1, <1>2, <1>3, <1>5

LEMMA ScoresInOrder ==
  ASSUME NEW a, NEW b, NEW c, IsScore(a), IsScore(b), IsScore(c)
  PROVE  ScoresAreAnOrder(a, b, c)
<1> DEFINE x == Placed(a)
           y == Placed(b)
           z == Placed(c)
<1>1. x \in Fractions /\ y \in Fractions /\ z \in Fractions
  BY PlacesAreFractions
<1>2. a.dev \in Int /\ b.dev \in Int /\ c.dev \in Int
  BY DEF IsScore
<1>3. /\ Higher(a, b) <=> \/ a.dev >= 0 /\ b.dev < 0
                          \/ a.dev > 0 /\ b.dev = 0
                          \/ a.dev > 0 /\ b.dev > 0 /\ Less(y, x)
                          \/ a.dev < 0 /\ b.dev < 0 /\ Less(x, y)
      /\ Higher(b, a) <=> \/ b.dev >= 0 /\ a.dev < 0
                          \/ b.dev > 0 /\ a.dev = 0
                          \/ b.dev > 0 /\ a.dev > 0 /\ Less(x, y)
                          \/ b.dev < 0 /\ a.dev < 0 /\ Less(y, x)
      /\ Higher(c, b) <=> \/ c.dev >= 0 /\ b.dev < 0
                          \/ c.dev > 0 /\ b.dev = 0
                          \/ c.dev > 0 /\ b.dev > 0 /\ Less(y, z)
                          \/ c.dev < 0 /\ b.dev < 0 /\ Less(z, y)
      /\ Higher(a, c) <=> \/ a.dev >= 0 /\ c.dev < 0
                          \/ a.dev > 0 /\ c.dev = 0
                          \/ a.dev > 0 /\ c.dev > 0 /\ Less(z, x)
                          \/ a.dev < 0 /\ c.dev < 0 /\ Less(x, z)
  BY HigherByPlace
<1> HIDE DEF x, y, z
<1>4. Less(x, y) => ~Less(y, x)
  BY <1>1, LessIsAnOrder
<1>5. /\ Less(y, x) => Less(y, z) \/ Less(z, x)
      /\ Less(x, y) => Less(x, z) \/ Less(z, y)
  BY <1>1, LessIsAnOrder
<1>6. Higher(a, b) => ~Higher(b, a)
  BY <1>2, <1>3, <1>4
<1>7. Higher(a, b) /\ ~Higher(c, b) => Higher(a, c)
  BY <1>2, <1>3, <1>5
<1> QED
  BY <1>6, <1>7 DEF ScoresAreAnOrder

\* A post that stands out at least as far and is no older is never below.
LEMMA DecayOnlyLowers ==
  ASSUME NEW a, NEW b, IsScore(a), IsScore(b)
  PROVE  NewAndStronger(a, b)
<1> SUFFICES ASSUME a.dev > 0, a.dev >= b.dev, a.spread = b.spread, a.age <= b.age, Higher(b, a)
             PROVE  FALSE
  BY DEF NewAndStronger
<1>1. a.dev \in Int /\ b.dev \in Int /\ a.age \in Nat /\ b.age \in Nat /\ a.spread \in Nat \ {0}
  BY DEF IsScore
<1>2. b.dev > 0 /\ Less(Placed(a), Placed(b))
  BY <1>1, HigherByPlace
<1> DEFINE d == a.dev * a.dev
           e == b.dev * b.dev
           P == Power(d, HalfLife)
           Q == Power(e, HalfLife)
           s == Power(a.spread, HalfLife)
           i == Power(2, 2 * a.age)
           j == Power(2, 2 * b.age)
<1>3. /\ Placed(a) = <<P, s * i>> /\ Placed(b) = <<Q, s * j>>
  BY <1>1, <1>2 DEF Placed, Magnitude
<1>4. d \in Nat \ {0} /\ e \in Nat \ {0} /\ e <= d
  <2> DEFINE u == a.dev
             v == b.dev
  <2>1. u \in Nat \ {0} /\ v \in Nat \ {0} /\ v <= u
    BY <1>1, <1>2
  <2> HIDE DEF u, v
  <2>2. u * u \in Nat \ {0} /\ v * v \in Nat \ {0}
    BY <2>1, BarePlus
  <2>3. u * u = v * v + (u - v) * (u + v) /\ (u - v) * (u + v) >= 0
    BY <2>1
  <2>4. (u - v) * (u + v) \in Int
    BY <2>1
  <2>5. v * v <= u * u
    BY <2>2, <2>3, <2>4
  <2> QED
    BY <2>2, <2>5 DEF u, v
<1>5. HalfLife \in Nat /\ 2 \in Nat \ {0} /\ 2 * a.age \in Nat /\ 2 * b.age \in Nat /\ 2 * a.age <= 2 * b.age
  BY <1>1, FiguresAssumption
<1> HIDE DEF d, e
<1>6. Q <= P /\ i <= j
  BY <1>4, <1>5, PowersCompare
<1>7. P \in Nat \ {0} /\ Q \in Nat \ {0} /\ s \in Nat \ {0} /\ i \in Nat \ {0} /\ j \in Nat \ {0}
  BY <1>1, <1>4, <1>5, PowerIs
<1> HIDE DEF P, Q, s, i, j
<1>8. P * (s * j) < Q * (s * i)
  BY <1>2, <1>3 DEF Less
<1>9. Q * (s * i) <= P * (s * j)
  <2>1. s * i \in Nat /\ s * j \in Nat /\ s * i <= s * j
    <3>1. s * j = s * i + s * (j - i) /\ s * (j - i) >= 0
      BY <1>6, <1>7
    <3>2. s * i \in Nat /\ s * j \in Nat /\ s * (j - i) \in Int
      BY <1>7
    <3> QED
      BY <3>1, <3>2
  <2> DEFINE k == s * i
             l == s * j
  <2>2. k \in Nat /\ l \in Nat /\ k <= l
    BY <2>1
  <2> HIDE DEF k, l
  <2>3. P * l = Q * k + (P - Q) * l + Q * (l - k) /\ (P - Q) * l >= 0 /\ Q * (l - k) >= 0
    BY <1>6, <1>7, <2>2
  <2>4. P * l \in Int /\ Q * k \in Int /\ (P - Q) * l \in Int /\ Q * (l - k) \in Int
    BY <1>7, <2>2
  <2>5. Q * k <= P * l
    BY <2>3, <2>4
  <2> QED
    BY <2>5 DEF k, l
<1>10. P * (s * j) \in Int /\ Q * (s * i) \in Int
  BY <1>7
<1> QED
  BY <1>8, <1>9, <1>10

-------------------------------------------------------------------------------
(* Recommendations that rest on nearly the same posts *)

\* Of at most five posts each, two sets are nearly the same when they are equal, or when one
\* has five posts and the other four of them.
FourOfFive(A, B) == A \subseteq B /\ Cardinality(A) = 4 /\ Cardinality(B) = 5

LEMMA NearlyTheSameSet ==
  ASSUME NEW A, NEW B, IsFiniteSet(A), IsFiniteSet(B), Cardinality(A) <= 5, Cardinality(B) <= 5
  PROVE  5 * Cardinality(A \cap B) >= 4 * Cardinality(A \cup B)
           <=> A = B \/ FourOfFive(A, B) \/ FourOfFive(B, A)
<1> DEFINE p == Cardinality(A)
           q == Cardinality(B)
           c == Cardinality(A \cap B)
           u == Cardinality(A \cup B)
<1>1. /\ A \cap B \subseteq A /\ A \cap B \subseteq B
      /\ A \subseteq A \cup B /\ B \subseteq A \cup B
  OBVIOUS
<1>2. p \in Nat /\ q \in Nat /\ p <= 5 /\ q <= 5
  BY FS_CardinalityType
<1>3. IsFiniteSet(A \cap B) /\ c \in Nat /\ c <= p /\ c <= q
  BY <1>1, FS_Subset, FS_CardinalityType
<1>4. u = p + q - c
  BY FS_Union
<1>5. /\ c = p => A \cap B = A
      /\ c = q => A \cap B = B
  BY <1>1, FS_Subset
<1>6. A \subseteq B => c = p
  <2>1. A \subseteq B => A \cap B = A
    OBVIOUS
  <2> QED
    BY <2>1
<1>7. B \subseteq A => c = q
  <2>1. B \subseteq A => A \cap B = B
    OBVIOUS
  <2> QED
    BY <2>1
<1>8. 5 * c >= 4 * u <=> \/ c = p /\ c = q
                         \/ c = p /\ p = 4 /\ q = 5
                         \/ c = q /\ q = 4 /\ p = 5
  <2> HIDE DEF p, q, c, u
  <2>1. 5 * c >= 4 * u <=> 9 * c >= 4 * (p + q)
    BY <1>2, <1>3, <1>4
  <2>2. p \in 0..5 /\ q \in 0..5 /\ c \in 0..5
    BY <1>2, <1>3
  <2> QED
    BY <1>3, <2>1, <2>2
<1>9. A = B <=> c = p /\ c = q
  BY <1>1, <1>5, <1>6, <1>7
<1>10. A \subseteq B <=> c = p
  BY <1>1, <1>5, <1>6
<1>11. B \subseteq A <=> c = q
  BY <1>1, <1>5, <1>7
<1> QED
  BY <1>8, <1>9, <1>10, <1>11 DEF FourOfFive

LEMMA BlocksCite ==
  ASSUME NEW a, IsBlock(a), CiteLimit <= 5
  PROVE  /\ a.sample \in Nat /\ IsFiniteSet(a.cited) /\ Cardinality(a.cited) \in Nat
         /\ Cardinality(a.cited) <= 5
         /\ Cardinality(a.cited) = IF a.sample < CiteLimit THEN a.sample ELSE CiteLimit
<1>1. /\ a.sample \in Nat /\ IsFiniteSet(a.cited)
      /\ Cardinality(a.cited) = IF a.sample < CiteLimit THEN a.sample ELSE CiteLimit
  BY DEF IsBlock
<1>2. CiteLimit \in Nat
  BY RecommendationAssumption
<1> HIDE DEF IsBlock
<1> QED
  BY <1>1, <1>2

LEMMA BlocksNearlySame ==
  ASSUME NEW a, NEW b, IsBlock(a), IsBlock(b), CiteLimit <= 5
  PROVE  /\ NearlySame(a, b) <=> \/ a.cited = b.cited \/ FourOfFive(a.cited, b.cited)
                                 \/ FourOfFive(b.cited, a.cited)
         /\ NearlySame(a, b) => NearlySame(b, a)
<1>1. /\ IsFiniteSet(a.cited) /\ Cardinality(a.cited) <= 5
      /\ IsFiniteSet(b.cited) /\ Cardinality(b.cited) <= 5
  BY BlocksCite
<1>2. 5 * Cardinality(a.cited \cap b.cited) >= 4 * Cardinality(a.cited \cup b.cited)
        <=> \/ a.cited = b.cited \/ FourOfFive(a.cited, b.cited) \/ FourOfFive(b.cited, a.cited)
  BY <1>1, NearlyTheSameSet
<1>3. 5 * Cardinality(b.cited \cap a.cited) >= 4 * Cardinality(b.cited \cup a.cited)
        <=> \/ b.cited = a.cited \/ FourOfFive(b.cited, a.cited) \/ FourOfFive(a.cited, b.cited)
  BY <1>1, NearlyTheSameSet
<1> QED
  BY <1>2, <1>3 DEF NearlySame

\* Being nearly the same is handed on along samples that do not shrink: to lose to a block that
\* itself loses later is to lose to the last of them.
LEMMA NearlySameIsHandedOn ==
  ASSUME NEW a, NEW b, NEW c, IsBlock(a), IsBlock(b), IsBlock(c), CiteLimit <= 5,
         a.sample <= b.sample, b.sample <= c.sample, NearlySame(a, b), NearlySame(b, c)
  PROVE  NearlySame(a, c)
<1> DEFINE A == a.cited
           B == b.cited
           C == c.cited
<1>1. Cardinality(A) <= Cardinality(B) /\ Cardinality(B) <= Cardinality(C)
  BY BlocksCite, RecommendationAssumption
<1>2. A = B \/ FourOfFive(A, B) \/ FourOfFive(B, A)
  BY BlocksNearlySame
<1>3. B = C \/ FourOfFive(B, C) \/ FourOfFive(C, B)
  BY BlocksNearlySame
<1> HIDE DEF A, B, C
<1>4. A = C \/ FourOfFive(A, C)
  BY <1>1, <1>2, <1>3 DEF FourOfFive
<1> QED
  BY <1>4, BlocksNearlySame DEF A, B, C

\* What is suppressed after each round, and that there is such a function.
IsRounds(g, list, n) == g = [i \in 0..n |-> IF i = 0 THEN {} ELSE Round(list, g[i - 1], i)]

LEMMA RoundsExist ==
  ASSUME NEW list, NEW n \in Nat
  PROVE  \E g : IsRounds(g, list, n)
<1> DEFINE Bad == {k \in 0..n : ~\E g : IsRounds(g, list, k)}
<1> SUFFICES ASSUME Bad # {} PROVE FALSE
  BY SMT
<1> DEFINE m == Min(Bad)
<1>1. m \in Bad /\ \A k \in Bad : m <= k
  <2>1. Bad \in SUBSET (0..n) /\ 0 \in Int /\ n \in Int
    OBVIOUS
  <2> HIDE DEF Bad
  <2> QED
    BY <2>1, SmallestNumber
<1>2. m \in 0..n /\ ~\E g : IsRounds(g, list, m)
  BY <1>1
<1>3. CASE m = 0
  <2>1. IsRounds([i \in 0..0 |-> {}], list, 0)
    BY DEF IsRounds
  <2> QED
    BY <1>2, <1>3, <2>1
<1>4. CASE m # 0
  <2>1. m - 1 \in 0..n /\ m - 1 \notin Bad
    BY <1>1, <1>2, <1>4
  <2>2. PICK h : IsRounds(h, list, m - 1)
    BY <2>1
  <2> HIDE DEF Bad, m
  <2>3. \A i \in 0..(m - 1) : h[i] = IF i = 0 THEN {} ELSE Round(list, h[i - 1], i)
    BY <2>2 DEF IsRounds
  <2> DEFINE g == [i \in 0..m |-> IF i = m THEN Round(list, h[m - 1], m) ELSE h[i]]
  <2>4. \A i \in 0..m : g[i] = IF i = 0 THEN {} ELSE Round(list, g[i - 1], i)
    <3> SUFFICES ASSUME NEW i \in 0..m PROVE g[i] = IF i = 0 THEN {} ELSE Round(list, g[i - 1], i)
      OBVIOUS
    <3>1. CASE i = m
      <4>1. i - 1 \in 0..m /\ i - 1 # m /\ i # 0
        BY <1>2, <1>4, <3>1
      <4>2. g[i - 1] = h[m - 1]
        BY <3>1, <4>1
      <4> QED
        BY <3>1, <4>1, <4>2
    <3>2. CASE i # m
      <4>1. i \in 0..(m - 1) /\ g[i] = h[i]
        BY <1>2, <3>2
      <4>2. i # 0 => i - 1 \in 0..m /\ i - 1 # m /\ g[i - 1] = h[i - 1]
        BY <1>2, <4>1
      <4> QED
        BY <2>3, <4>1, <4>2
    <3> QED
      BY <3>1, <3>2
  <2>5. g = [i \in 0..m |-> g[i]]
    OBVIOUS
  <2> HIDE DEF g
  <2>6. IsRounds(g, list, m)
    BY <2>4, <2>5 DEF IsRounds
  <2> QED
    BY <1>2, <2>6
<1> QED
  BY <1>3, <1>4

LEMMA SuppressedIs ==
  ASSUME NEW list, Len(list) \in Nat
  PROVE  \E g : IsRounds(g, list, Len(list)) /\ Suppressed(list) = g[Len(list)]
<1>1. \E g : IsRounds(g, list, Len(list))
  BY RoundsExist
<1> DEFINE g == CHOOSE g : IsRounds(g, list, Len(list))
<1>2. IsRounds(g, list, Len(list))
  BY <1>1
<1>3. Suppressed(list) = g[Len(list)]
  BY DEF Suppressed, IsRounds
<1> QED
  BY <1>2, <1>3

-------------------------------------------------------------------------------
\* The order in which the blocks of a list prevail.
Prevails(list, i, j) ==
  LET a == list[i]
      b == list[j]
  IN  \/ a.sample > b.sample
      \/ a.sample = b.sample /\ Less(Strength(b), Strength(a))
      \/ /\ a.sample = b.sample /\ ~Less(Strength(a), Strength(b)) /\ ~Less(Strength(b), Strength(a))
         /\ \/ TabRank(a.tab) < TabRank(b.tab)
            \/ TabRank(a.tab) = TabRank(b.tab) /\ i < j

LEMMA StrengthsAreFractions ==
  ASSUME NEW a, IsBlock(a)
  PROVE  Strength(a) \in Fractions /\ a.sample \in Nat /\ TabRank(a.tab) \in {0, 1}
<1>1. PICK p \in Nat, q \in Nat \ {0} : a.effect = <<p, q>>
  BY DEF IsBlock
<1>2. a.effect[1] = p /\ a.effect[2] = q
  BY <1>1
<1>3. Strength(a) = <<IF p > q THEN p - q ELSE q - p, q>>
  BY <1>2 DEF Strength
<1>4. (IF p > q THEN p - q ELSE q - p) \in Int
  OBVIOUS
<1> QED
  BY <1>3, <1>4 DEF Fractions, TabRank, IsBlock

LEMMA PrevailsIsAnOrder ==
  ASSUME NEW list, NEW i \in Int, NEW j \in Int, NEW k \in Int,
         IsBlock(list[i]), IsBlock(list[j]), IsBlock(list[k])
  PROVE  /\ ~Prevails(list, i, i)
         /\ Prevails(list, i, j) => list[i].sample >= list[j].sample
         /\ Prevails(list, i, j) /\ Prevails(list, j, k) => Prevails(list, i, k)
         /\ i < j /\ Wins(list[i], list[j]) => Prevails(list, i, j)
         /\ i < j /\ ~Wins(list[i], list[j]) => Prevails(list, j, i)
<1> DEFINE x == Strength(list[i])
           y == Strength(list[j])
           z == Strength(list[k])
           t == TabRank(list[i].tab)
           u == TabRank(list[j].tab)
           v == TabRank(list[k].tab)
           p == list[i].sample
           q == list[j].sample
           r == list[k].sample
<1>1. /\ x \in Fractions /\ p \in Nat /\ t \in Nat
      /\ y \in Fractions /\ q \in Nat /\ u \in Nat
      /\ z \in Fractions /\ r \in Nat /\ v \in Nat
  BY StrengthsAreFractions
<1>2. /\ Prevails(list, i, i) <=> p > p \/ (p = p /\ Less(x, x))
                                    \/ (p = p /\ ~Less(x, x) /\ ~Less(x, x) /\ (t < t \/ (t = t /\ i < i)))
      /\ Prevails(list, i, j) <=> p > q \/ (p = q /\ Less(y, x))
                                    \/ (p = q /\ ~Less(x, y) /\ ~Less(y, x) /\ (t < u \/ (t = u /\ i < j)))
      /\ Prevails(list, j, i) <=> q > p \/ (q = p /\ Less(x, y))
                                    \/ (q = p /\ ~Less(y, x) /\ ~Less(x, y) /\ (u < t \/ (u = t /\ j < i)))
      /\ Prevails(list, j, k) <=> q > r \/ (q = r /\ Less(z, y))
                                    \/ (q = r /\ ~Less(y, z) /\ ~Less(z, y) /\ (u < v \/ (u = v /\ j < k)))
      /\ Prevails(list, i, k) <=> p > r \/ (p = r /\ Less(z, x))
                                    \/ (p = r /\ ~Less(x, z) /\ ~Less(z, x) /\ (t < v \/ (t = v /\ i < k)))
  BY DEF Prevails
<1>3. Wins(list[i], list[j]) <=> p > q \/ (p = q /\ Less(y, x))
                                    \/ (p = q /\ ~Less(x, y) /\ ~Less(y, x) /\ t <= u)
  BY DEF Wins
<1> HIDE DEF x, y, z, t, u, v, p, q, r
<1>4. /\ ~Less(x, x) /\ (Less(y, x) => ~Less(x, y)) /\ (Less(z, y) => ~Less(y, z)) /\ (Less(z, x) => ~Less(x, z))
      /\ Less(z, y) /\ Less(y, x) => Less(z, x)
      /\ Less(z, y) => Less(z, x) \/ Less(x, y)
      /\ Less(y, x) => Less(y, z) \/ Less(z, x)
      /\ Less(x, z) => Less(x, y) \/ Less(y, z)
      /\ Less(z, x) => Less(z, y) \/ Less(y, x)
  BY <1>1, LessIsAnOrder
<1>5. ~Prevails(list, i, i) /\ (Prevails(list, i, j) => p >= q)
  BY <1>1, <1>2, <1>4
<1>6. Prevails(list, i, j) /\ Prevails(list, j, k) => Prevails(list, i, k)
  BY <1>1, <1>2, <1>4
<1>7. i < j /\ Wins(list[i], list[j]) => Prevails(list, i, j)
  BY <1>1, <1>2, <1>3
<1>8. i < j /\ ~Wins(list[i], list[j]) => Prevails(list, j, i)
  BY <1>1, <1>2, <1>3
<1> QED
  BY <1>5, <1>6, <1>7, <1>8 DEF p, q

LEMMA OneIsUnbeaten ==
  ASSUME NEW S, IsFiniteSet(S), S # {}, NEW R,
         \A x \in S : <<x, x>> \notin R,
         \A x, y, z \in S : <<x, y>> \in R /\ <<y, z>> \in R => <<x, z>> \in R
  PROVE  \E m \in S : \A x \in S : <<x, m>> \notin R
<1> DEFINE Good == {T \in SUBSET S : T # {} => \E m \in T : \A x \in T : <<x, m>> \notin R}
<1>1. ASSUME NEW T \in SUBSET S, \A U \in SUBSET T : U # T => U \in Good PROVE T \in Good
  <2> SUFFICES ASSUME T # {} PROVE \E m \in T : \A x \in T : <<x, m>> \notin R
    OBVIOUS
  <2>1. PICK y \in T : TRUE
    OBVIOUS
  <2> DEFINE U == {x \in T : <<x, y>> \in R}
  <2>2. U \in SUBSET T /\ y \notin U
    OBVIOUS
  <2>3. U \in Good
    BY <1>1, <2>2
  <2>4. CASE U = {}
    BY <2>4
  <2>5. CASE U # {}
    <3>1. PICK m \in U : \A x \in U : <<x, m>> \notin R
      BY <2>3, <2>5
    <3>2. m \in T /\ \A x \in T : <<x, m>> \notin R
      BY <3>1
    <3> QED
      BY <3>2
  <2> QED
    BY <2>4, <2>5
<1>2. S \in Good
  <2>1. \A T \in SUBSET S : (\A U \in SUBSET T : U # T => U \in Good) => T \in Good
    BY <1>1
  <2> HIDE DEF Good
  <2> QED
    BY <2>1, SubsetInduction
<1> QED
  BY <1>2

-------------------------------------------------------------------------------
\* What each round leaves: no block met so far has a remaining twin, and whoever is suppressed
\* has a twin that prevails over it, remaining or not.
RoundsOk(list, G, i) ==
  /\ G \subseteq 1..Len(list)
  /\ \A j \in 1..i, k \in 1..Len(list) :
       j < k /\ j \notin G /\ k \notin G => ~NearlySame(list[j], list[k])
  /\ \A s \in G : \E j \in 1..Len(list) : NearlySame(list[s], list[j]) /\ Prevails(list, j, s)

LEMMA RoundStep ==
  ASSUME NEW list, Len(list) \in Nat, \A i \in 1..Len(list) : IsBlock(list[i]), CiteLimit <= 5,
         NEW G, NEW i \in 1..Len(list), RoundsOk(list, G, i - 1)
  PROVE  RoundsOk(list, Round(list, G, i), i)
<1> DEFINE n == Len(list)
           rivals == {j \in (i + 1)..n : j \notin G /\ NearlySame(list[i], list[j])}
           stronger == {j \in rivals : ~Wins(list[i], list[j])}
           beaten == {j \in rivals : \A k \in stronger : j < k}
           H == Round(list, G, i)
<1>1. H = IF i \in G THEN G ELSE G \cup beaten \cup (IF stronger = {} THEN {} ELSE {i})
  BY DEF Round
<1>2. /\ G \subseteq 1..n
      /\ \A j \in 1..(i - 1), k \in 1..n : j < k /\ j \notin G /\ k \notin G => ~NearlySame(list[j], list[k])
      /\ \A s \in G : \E j \in 1..n : NearlySame(list[s], list[j]) /\ Prevails(list, j, s)
  BY DEF RoundsOk
<1>3. n \in Nat /\ i \in 1..n /\ \A k \in 1..n : IsBlock(list[k])
  OBVIOUS
<1>4. rivals \subseteq 1..n /\ stronger \subseteq rivals /\ beaten \subseteq rivals
  BY <1>3
<1> HIDE DEF H
<1>5. H \subseteq 1..n /\ G \subseteq H
  <2> HIDE DEF rivals, stronger, beaten
  <2> QED
    BY <1>1, <1>2, <1>3, <1>4
<1>6. ASSUME NEW j \in 1..i, NEW k \in 1..n, j < k, j \notin H, k \notin H
      PROVE  ~NearlySame(list[j], list[k])
  <2>1. CASE j = i
    <3>1. i \notin G /\ stronger = {} /\ k \notin beaten /\ k \notin G
      BY <1>1, <1>5, <1>6, <2>1
    <3>2. beaten = rivals
      BY <3>1
    <3>3. k \in (i + 1)..n
      BY <1>3, <1>6, <2>1
    <3> QED
      BY <2>1, <3>1, <3>2, <3>3
  <2>2. CASE j # i
    <3>1. j \in 1..(i - 1) /\ j \notin G /\ k \notin G
      BY <1>3, <1>5, <1>6, <2>2
    <3> QED
      BY <1>2, <1>6, <3>1
  <2> QED
    BY <2>1, <2>2
<1>7. ASSUME NEW s \in H
      PROVE  \E j \in 1..n : NearlySame(list[s], list[j]) /\ Prevails(list, j, s)
  <2>1. CASE s \in G
    BY <1>2, <2>1
  <2>2. CASE s \notin G /\ s \in beaten
    <3>1. s \in rivals /\ s \notin stronger
      <4>1. s \in stronger => s < s
        BY <2>2
      <4>2. s \in rivals /\ s \in Int
        BY <1>3, <2>2
      <4> HIDE DEF rivals, stronger, beaten
      <4> QED
        BY <4>1, <4>2
    <3>2. s \in 1..n /\ i < s /\ NearlySame(list[i], list[s]) /\ Wins(list[i], list[s])
      BY <1>3, <3>1
    <3> HIDE DEF rivals, stronger, beaten, n
    <3>3. s \in Int /\ i \in Int /\ IsBlock(list[i]) /\ IsBlock(list[s])
      BY <1>3, <3>2
    <3>4. NearlySame(list[s], list[i])
      BY <3>2, <3>3, BlocksNearlySame
    <3>5. Prevails(list, i, s)
      BY <3>2, <3>3, PrevailsIsAnOrder
    <3> QED
      BY <1>3, <3>4, <3>5
  <2>3. CASE s \notin G /\ s \notin beaten
    <3>1. i \notin G /\ stronger # {} /\ s = i
      BY <1>1, <1>7, <2>3
    <3>2. PICK j \in stronger : TRUE
      BY <3>1
    <3>3. j \in 1..n /\ i < j /\ NearlySame(list[i], list[j]) /\ ~Wins(list[i], list[j])
      BY <1>3, <3>2
    <3> HIDE DEF rivals, stronger, beaten, n
    <3>4. j \in Int /\ i \in Int /\ IsBlock(list[i]) /\ IsBlock(list[j])
      BY <1>3, <3>3
    <3>5. Prevails(list, j, i)
      BY <3>3, <3>4, PrevailsIsAnOrder
    <3> QED
      BY <3>1, <3>3, <3>5
  <2> QED
    BY <2>1, <2>2, <2>3
<1> QED
  BY <1>5, <1>6, <1>7 DEF RoundsOk, H

LEMMA RoundsAreOk ==
  ASSUME NEW list, Len(list) \in Nat, \A i \in 1..Len(list) : IsBlock(list[i]), CiteLimit <= 5,
         NEW g, IsRounds(g, list, Len(list))
  PROVE  RoundsOk(list, g[Len(list)], Len(list))
<1> DEFINE n == Len(list)
           Bad == {i \in 0..n : ~RoundsOk(list, g[i], i)}
<1>0. n \in Nat /\ n \in 0..n
  OBVIOUS
<1> SUFFICES ASSUME Bad # {} PROVE FALSE
  BY <1>0
<1> DEFINE m == Min(Bad)
<1>1. m \in Bad /\ \A k \in Bad : m <= k
  <2>1. Bad \in SUBSET (0..n) /\ 0 \in Int /\ n \in Int
    OBVIOUS
  <2> HIDE DEF Bad, n
  <2> QED
    BY <2>1, SmallestNumber
<1>2. m \in 0..n /\ ~RoundsOk(list, g[m], m) /\ (m # 0 => m - 1 \in 0..n /\ m - 1 \notin Bad)
  BY <1>0, <1>1
<1>3. m # 0 => RoundsOk(list, g[m - 1], m - 1)
  BY <1>2
<1>4. \A i \in 0..n : g[i] = IF i = 0 THEN {} ELSE Round(list, g[i - 1], i)
  BY DEF IsRounds
<1> HIDE DEF Bad, m
<1>5. CASE m = 0
  <2>1. g[0] = {}
    BY <1>0, <1>2, <1>4, <1>5
  <2>2. RoundsOk(list, {}, 0)
    BY DEF RoundsOk
  <2> QED
    BY <1>2, <1>5, <2>1, <2>2
<1>6. CASE m # 0
  <2>1. m \in 1..Len(list) /\ g[m] = Round(list, g[m - 1], m)
    BY <1>0, <1>2, <1>4, <1>6
  <2>2. RoundsOk(list, Round(list, g[m - 1], m), m)
    BY <1>3, <1>6, <2>1, RoundStep
  <2> QED
    BY <1>2, <2>1, <2>2
<1> QED
  BY <1>5, <1>6

\* No two recommendations that are made are nearly the same, and each that is dropped has one
\* beside it that is made, however long the list.
LEMMA TwinsAreSuppressed ==
  ASSUME NEW list, Len(list) \in Nat, DOMAIN list = 1..Len(list),
         \A i \in 1..Len(list) : IsBlock(list[i]), CiteLimit <= 5
  PROVE  NoTwins(list)
<1> DEFINE n == Len(list)
           out == Suppressed(list)
           kept == DOMAIN list \ out
<1>1. PICK g : IsRounds(g, list, n) /\ out = g[n]
  BY SuppressedIs
<1>2. RoundsOk(list, out, n)
  BY <1>1, RoundsAreOk
<1>3. /\ out \subseteq 1..n
      /\ \A j \in 1..n, k \in 1..n : j < k /\ j \notin out /\ k \notin out => ~NearlySame(list[j], list[k])
      /\ \A s \in out : \E j \in 1..n : NearlySame(list[s], list[j]) /\ Prevails(list, j, s)
  BY <1>2 DEF RoundsOk
<1>4. n \in Nat /\ kept = (1..n) \ out /\ \A i \in 1..n : IsBlock(list[i]) /\ i \in Int
  OBVIOUS
<1> HIDE DEF n, out, kept
<1>5. ASSUME NEW i \in kept, NEW j \in kept, i # j PROVE ~NearlySame(list[i], list[j])
  <2>1. i \in 1..n /\ j \in 1..n /\ i \notin out /\ j \notin out /\ IsBlock(list[i]) /\ IsBlock(list[j])
    BY <1>4
  <2>2. i < j \/ j < i
    BY <1>4, <1>5, <2>1
  <2>3. NearlySame(list[i], list[j]) => NearlySame(list[j], list[i])
    BY <2>1, BlocksNearlySame
  <2> QED
    BY <1>3, <2>1, <2>2, <2>3
<1>6. ASSUME NEW i \in out PROVE \E j \in kept : NearlySame(list[i], list[j])
  <2> DEFINE N == {j \in 1..n : NearlySame(list[i], list[j]) /\ Prevails(list, j, i)}
             R == {jk \in (1..n) \X (1..n) : Prevails(list, jk[1], jk[2])}
  <2>1. i \in 1..n /\ IsBlock(list[i]) /\ i \in Int
    BY <1>3, <1>4
  <2>2. N # {} /\ N \subseteq 1..n
    BY <1>3
  <2>3. IsFiniteSet(N)
    <3>1. IsFiniteSet(1..n)
      BY <1>4, FS_Interval
    <3> HIDE DEF N
    <3> QED
      BY <2>2, <3>1, FS_Subset
  <2>4. \A j, k \in 1..n : <<j, k>> \in R <=> Prevails(list, j, k)
    OBVIOUS
  <2>5. \A j \in N : <<j, j>> \notin R
    <3> TAKE j \in N
    <3>1. j \in 1..n /\ j \in Int /\ IsBlock(list[j])
      BY <1>4
    <3>2. ~Prevails(list, j, j)
      BY <3>1, PrevailsIsAnOrder
    <3> QED
      BY <2>4, <3>1, <3>2
  <2>6. \A x, y, z \in N : <<x, y>> \in R /\ <<y, z>> \in R => <<x, z>> \in R
    <3> TAKE x, y, z \in N
    <3>1. /\ x \in 1..n /\ x \in Int /\ IsBlock(list[x])
          /\ y \in 1..n /\ y \in Int /\ IsBlock(list[y])
          /\ z \in 1..n /\ z \in Int /\ IsBlock(list[z])
      BY <1>4
    <3>2. Prevails(list, x, y) /\ Prevails(list, y, z) => Prevails(list, x, z)
      BY <3>1, PrevailsIsAnOrder
    <3> HIDE DEF R, N
    <3> QED
      BY <2>4, <3>1, <3>2
  <2>7. PICK m \in N : \A x \in N : <<x, m>> \notin R
    <3> HIDE DEF N, R
    <3> QED
      BY <2>2, <2>3, <2>5, <2>6, OneIsUnbeaten
  <2>8. m \in 1..n /\ m \in Int /\ IsBlock(list[m]) /\ NearlySame(list[i], list[m]) /\ Prevails(list, m, i)
    BY <1>4
  <2>9. ASSUME m \in out PROVE FALSE
    <3>1. PICK j \in 1..n : NearlySame(list[m], list[j]) /\ Prevails(list, j, m)
      BY <1>3, <2>9
    <3>2. j \in Int /\ IsBlock(list[j])
      BY <1>4
    <3>3. Prevails(list, j, i)
      BY <2>1, <2>8, <3>1, <3>2, PrevailsIsAnOrder
    <3>4. list[i].sample <= list[m].sample /\ list[m].sample <= list[j].sample
      <4>1. list[m].sample >= list[i].sample
        BY <2>1, <2>8, PrevailsIsAnOrder
      <4>2. list[j].sample >= list[m].sample
        BY <2>8, <3>1, <3>2, PrevailsIsAnOrder
      <4>3. list[i].sample \in Nat /\ list[m].sample \in Nat /\ list[j].sample \in Nat
        BY <2>1, <2>8, <3>2, BlocksCite
      <4> QED
        BY <4>1, <4>2, <4>3
    <3>5. NearlySame(list[i], list[j])
      BY <2>1, <2>8, <3>1, <3>2, <3>4, NearlySameIsHandedOn
    <3>6. j \in N
      BY <3>3, <3>5
    <3> QED
      BY <2>4, <2>7, <2>8, <3>1, <3>6
  <2>10. m \in kept
    BY <1>4, <2>8, <2>9
  <2> QED
    BY <2>8, <2>10
<1> QED
  BY <1>5, <1>6 DEF NoTwins, kept, out

-------------------------------------------------------------------------------
(* The line through a series *)

\* A column that combines others line by line has their totals combined.
Combines(h, k, a, r, b, s, c, t, d, u, e, v, S) ==
  \A x \in S : h[x] = k + a * r[x] + b * s[x] + c * t[x] + d * u[x] + e * v[x]

LEMMA TotalCombines ==
  ASSUME NEW S, IsFiniteSet(S), NEW h, NEW r, NEW s, NEW t, NEW u, NEW v,
         NEW k \in Int, NEW a \in Int, NEW b \in Int, NEW c \in Int, NEW d \in Int, NEW e \in Int,
         \A x \in S : r[x] \in Int /\ s[x] \in Int /\ t[x] \in Int /\ u[x] \in Int /\ v[x] \in Int,
         Combines(h, k, a, r, b, s, c, t, d, u, e, v, S)
  PROVE  /\ Total(h, S) = k * Cardinality(S) + a * Total(r, S) + b * Total(s, S)
                            + c * Total(t, S) + d * Total(u, S) + e * Total(v, S)
         /\ \A x \in S : h[x] \in Int
<1> DEFINE all(T) == k * Cardinality(T) + a * Total(r, T) + b * Total(s, T)
                       + c * Total(t, T) + d * Total(u, T) + e * Total(v, T)
           Good == {T \in SUBSET S : Total(h, T) = all(T)}
<1>0. \A x \in S : h[x] = k + a * r[x] + b * s[x] + c * t[x] + d * u[x] + e * v[x] /\ h[x] \in Int
  <2> TAKE x \in S
  <2>1. h[x] = k + a * r[x] + b * s[x] + c * t[x] + d * u[x] + e * v[x]
    BY DEF Combines
  <2>2. r[x] \in Int /\ s[x] \in Int /\ t[x] \in Int /\ u[x] \in Int /\ v[x] \in Int
    OBVIOUS
  <2>3. a * r[x] \in Int /\ b * s[x] \in Int /\ c * t[x] \in Int /\ d * u[x] \in Int /\ e * v[x] \in Int
    BY <2>2
  <2> QED
    BY <2>1, <2>3
<1>1. ASSUME NEW T \in SUBSET S, \A U \in SUBSET T : U # T => U \in Good PROVE T \in Good
  <2>0. /\ IsFiniteSet(T)
        /\ \A x \in T : h[x] \in Int
        /\ \A x \in T : r[x] \in Int /\ s[x] \in Int /\ t[x] \in Int /\ u[x] \in Int /\ v[x] \in Int
    BY <1>0, SubsetIsSmaller
  <2>1. CASE T = {}
    <3>1. /\ Total(h, {}) = 0 /\ Total(r, {}) = 0 /\ Total(s, {}) = 0 /\ Total(t, {}) = 0
          /\ Total(u, {}) = 0 /\ Total(v, {}) = 0 /\ Cardinality({}) = 0
      BY TotalOfNone, FS_EmptySet
    <3>2. all({}) = 0
      BY <3>1
    <3> QED
      BY <2>1, <3>1, <3>2
  <2>2. CASE T # {}
    <3>1. PICK y \in T : TRUE
      BY <2>2
    <3> DEFINE R == T \ {y}
    <3>2. R \in SUBSET T /\ R # T /\ y \in S
      BY <3>1
    <3>3. Total(h, R) = all(R)
      BY <1>1, <3>2
    <3>4. Cardinality(T) = Cardinality(R) + 1 /\ Cardinality(R) \in Nat /\ IsFiniteSet(R)
      BY <2>0, <3>1, OneFewer
    <3>5. \A x \in R : r[x] \in Int /\ s[x] \in Int /\ t[x] \in Int /\ u[x] \in Int /\ v[x] \in Int
      BY <2>0
    <3>6. /\ Total(h, T) = h[y] + Total(h, R)
          /\ Total(r, T) = r[y] + Total(r, R)
          /\ Total(s, T) = s[y] + Total(s, R)
          /\ Total(t, T) = t[y] + Total(t, R)
          /\ Total(u, T) = u[y] + Total(u, R)
          /\ Total(v, T) = v[y] + Total(v, R)
      <4>1. \A x \in T : r[x] \in Int
        BY <2>0
      <4>2. \A x \in T : s[x] \in Int
        BY <2>0
      <4>3. \A x \in T : t[x] \in Int
        BY <2>0
      <4>4. \A x \in T : u[x] \in Int
        BY <2>0
      <4>5. \A x \in T : v[x] \in Int
        BY <2>0
      <4> QED
        BY <2>0, <3>1, <4>1, <4>2, <4>3, <4>4, <4>5, TotalStep
    <3>7. /\ Total(r, R) \in Int /\ Total(s, R) \in Int /\ Total(t, R) \in Int
          /\ Total(u, R) \in Int /\ Total(v, R) \in Int
      BY <3>4, <3>5, TotalIs
    <3>8. /\ h[y] = k + a * r[y] + b * s[y] + c * t[y] + d * u[y] + e * v[y]
          /\ r[y] \in Int /\ s[y] \in Int /\ t[y] \in Int /\ u[y] \in Int /\ v[y] \in Int
      BY <1>0, <3>2
    <3> DEFINE n == Cardinality(R)
               r0 == r[y]
               r1 == Total(r, R)
               s0 == s[y]
               s1 == Total(s, R)
               t0 == t[y]
               t1 == Total(t, R)
               u0 == u[y]
               u1 == Total(u, R)
               v0 == v[y]
               v1 == Total(v, R)
    <3>9. Total(h, T) = (k + a * r0 + b * s0 + c * t0 + d * u0 + e * v0)
                          + (k * n + a * r1 + b * s1 + c * t1 + d * u1 + e * v1)
      BY <3>3, <3>6, <3>8
    <3>10. all(T) = k * (n + 1) + a * (r0 + r1) + b * (s0 + s1) + c * (t0 + t1) + d * (u0 + u1)
                      + e * (v0 + v1)
      BY <3>4, <3>6
    <3>11. /\ n \in Int /\ r0 \in Int /\ r1 \in Int /\ s0 \in Int /\ s1 \in Int /\ t0 \in Int
           /\ t1 \in Int /\ u0 \in Int /\ u1 \in Int /\ v0 \in Int /\ v1 \in Int
      BY <3>4, <3>7, <3>8
    <3> HIDE DEF n, r0, r1, s0, s1, t0, t1, u0, u1, v0, v1, all, Good
    <3>12. (k + a * r0 + b * s0 + c * t0 + d * u0 + e * v0)
             + (k * n + a * r1 + b * s1 + c * t1 + d * u1 + e * v1)
           = k * (n + 1) + a * (r0 + r1) + b * (s0 + s1) + c * (t0 + t1) + d * (u0 + u1)
               + e * (v0 + v1)
      BY <3>11
    <3>13. Total(h, T) = all(T)
      BY <3>9, <3>10, <3>12
    <3> QED
      BY <3>13 DEF Good
  <2> QED
    BY <2>1, <2>2
<1>2. S \in Good
  <2>1. \A T \in SUBSET S : (\A U \in SUBSET T : U # T => U \in Good) => T \in Good
    BY <1>1
  <2> HIDE DEF Good
  <2> QED
    BY <2>1, SubsetInduction
<1>3. Total(h, S) = all(S)
  BY <1>2
<1> QED
  BY <1>0, <1>3

-------------------------------------------------------------------------------
\* The same numbers one place further on.
OneOn(S) == {i + 1 : i \in S}

LEMMA OneOnIs ==
  ASSUME NEW S \in SUBSET Int, IsFiniteSet(S)
  PROVE  /\ IsFiniteSet(OneOn(S)) /\ Cardinality(OneOn(S)) = Cardinality(S)
         /\ \A f, g : (\A i \in S : f[i + 1] = g[i] /\ g[i] \in Int) => Total(f, OneOn(S)) = Total(g, S)
         /\ \A f, g : (\A i \in S : f[i + 1] = g[i] /\ g[i] \in Nat \ {0}) => Product(f, OneOn(S)) = Product(g, S)
<1> DEFINE Ok(T) == /\ IsFiniteSet(OneOn(T)) /\ Cardinality(OneOn(T)) = Cardinality(T)
                    /\ \A f, g : (\A i \in T : f[i + 1] = g[i] /\ g[i] \in Int)
                                   => Total(f, OneOn(T)) = Total(g, T)
                    /\ \A f, g : (\A i \in T : f[i + 1] = g[i] /\ g[i] \in Nat \ {0})
                                   => Product(f, OneOn(T)) = Product(g, T)
           Good == {T \in SUBSET S : Ok(T)}
<1>1. ASSUME NEW T \in SUBSET S, \A U \in SUBSET T : U # T => U \in Good PROVE T \in Good
  <2>0. IsFiniteSet(T) /\ T \subseteq Int
    BY SubsetIsSmaller
  <2>1. CASE T = {}
    <3>1. OneOn(T) = {}
      BY <2>1 DEF OneOn
    <3>2. Ok(T)
      BY <2>1, <3>1, FS_EmptySet, TotalOfNone, ProductOfNone
    <3> QED
      BY <3>2
  <2>2. CASE T # {}
    <3>1. PICK y \in T : TRUE
      BY <2>2
    <3> DEFINE R == T \ {y}
    <3>2. R \in SUBSET T /\ R # T /\ y \in Int
      BY <2>0, <3>1
    <3>3. Ok(R)
      <4>1. R \in Good
        BY <1>1, <3>2
      <4> HIDE DEF Ok
      <4> QED
        BY <4>1
    <3>4. /\ OneOn(T) = OneOn(R) \cup {y + 1} /\ y + 1 \notin OneOn(R)
          /\ y + 1 \in OneOn(T) /\ OneOn(R) = OneOn(T) \ {y + 1}
      BY <2>0, <3>1 DEF OneOn
    <3>5. Cardinality(T) = Cardinality(R) + 1 /\ Cardinality(R) \in Nat
      BY <2>0, <3>1, OneFewer
    <3> HIDE DEF R
    <3>6. IsFiniteSet(OneOn(T)) /\ Cardinality(OneOn(T)) = Cardinality(T)
      <4>1. IsFiniteSet(OneOn(R) \cup {y + 1}) /\ Cardinality(OneOn(R) \cup {y + 1}) = Cardinality(OneOn(R)) + 1
        BY <3>3, <3>4, FS_AddElement
      <4> QED
        BY <3>3, <3>4, <3>5, <4>1
    <3>7. ASSUME NEW f, NEW g, \A i \in T : f[i + 1] = g[i] /\ g[i] \in Int
          PROVE  Total(f, OneOn(T)) = Total(g, T)
      <4>1. \A x \in OneOn(T) : f[x] \in Int
        BY <3>7 DEF OneOn
      <4>2. Total(f, OneOn(T)) = f[y + 1] + Total(f, OneOn(R))
        BY <3>4, <3>6, <4>1, TotalStep
      <4>3. Total(g, T) = g[y] + Total(g, R)
        <5> DEFINE D == T
                   d == y
        <5>1. \A x \in D : g[x] \in Int
          BY <3>7
        <5>2. IsFiniteSet(D) /\ d \in D
          BY <2>0, <3>1
        <5> HIDE DEF D, d
        <5>3. Total(g, D) = g[d] + Total(g, D \ {d})
          BY <5>1, <5>2, TotalStep
        <5> QED
          BY <5>3 DEF D, d, R
      <4>4. \A i \in R : f[i + 1] = g[i] /\ g[i] \in Int
        BY <3>7 DEF R
      <4>5. Total(f, OneOn(R)) = Total(g, R)
        BY <3>3, <4>4
      <4> QED
        BY <3>1, <3>7, <4>2, <4>3, <4>5
    <3>8. ASSUME NEW f, NEW g, \A i \in T : f[i + 1] = g[i] /\ g[i] \in Nat \ {0}
          PROVE  Product(f, OneOn(T)) = Product(g, T)
      <4>1. \A x \in OneOn(T) : f[x] \in Nat \ {0}
        BY <3>8 DEF OneOn
      <4>2. Product(f, OneOn(T)) = f[y + 1] * Product(f, OneOn(R))
        BY <3>4, <3>6, <4>1, ProductStep
      <4>3. Product(g, T) = g[y] * Product(g, R)
        <5> DEFINE D == T
                   d == y
        <5>1. \A x \in D : g[x] \in Nat \ {0}
          BY <3>8
        <5>2. IsFiniteSet(D) /\ d \in D
          BY <2>0, <3>1
        <5> HIDE DEF D, d
        <5>3. Product(g, D) = g[d] * Product(g, D \ {d})
          BY <5>1, <5>2, ProductStep
        <5> QED
          BY <5>3 DEF D, d, R
      <4>4. \A i \in R : f[i + 1] = g[i] /\ g[i] \in Nat \ {0}
        BY <3>8 DEF R
      <4>5. Product(f, OneOn(R)) = Product(g, R)
        BY <3>3, <4>4
      <4> QED
        BY <3>1, <3>8, <4>2, <4>3, <4>5
    <3>9. Ok(T)
      BY <3>6, <3>7, <3>8
    <3> HIDE DEF Ok
    <3> QED
      BY <3>9
  <2> QED
    BY <2>1, <2>2
<1>2. S \in Good
  <2>1. \A T \in SUBSET S : (\A U \in SUBSET T : U # T => U \in Good) => T \in Good
    BY <1>1
  <2> HIDE DEF Good
  <2> QED
    BY <2>1, SubsetInduction
<1> QED
  BY <1>2

LEMMA FitIs ==
  ASSUME NEW n \in Nat, NEW series, IsSeries(series, n)
  PROVE  LET I == Measured(series)
             x == WeekNumbers(series)
             y == WeekRates(series)
             fit == Fit(series)
         IN  /\ fit.n = Cardinality(I) /\ fit.n \in Nat
             /\ fit.run = Covariance(x, x, I)
             /\ fit.rise = Covariance(x, y, I)
             /\ fit.start = Total(y, I) * fit.run - fit.rise * Total(x, I)
             /\ fit.r2 = IF Covariance(y, y, I) = 0 THEN <<1, 1>>
                         ELSE <<fit.rise * fit.rise, fit.run * Covariance(y, y, I)>>
<1> DEFINE I == Measured(series)
           x == WeekNumbers(series)
           y == WeekRates(series)
           k == Cardinality(I)
           sx == Sum(LAMBDA i : i, I)
           sy == Sum(LAMBDA i : WeekRate(series, i), I)
           xx == Sum(LAMBDA i : i * i, I)
           xy == Sum(LAMBDA i : i * WeekRate(series, i), I)
           yy == Sum(LAMBDA i : WeekRate(series, i) * WeekRate(series, i), I)
           run == k * xx - sx * sx
           rise == k * xy - sx * sy
           move == k * yy - sy * sy
<1>1. Fit(series) = [n |-> k, rise |-> rise, run |-> run, start |-> sy * run - rise * sx,
                     r2 |-> IF move = 0 THEN <<1, 1>> ELSE <<rise * rise, run * move>>]
  BY DEF Fit
<1>2. /\ sx = Total(x, I) /\ sy = Total(y, I) /\ xx = Total(Products(x, x, I), I)
      /\ xy = Total(Products(x, y, I), I) /\ yy = Total(Products(y, y, I), I)
  BY SumsOfSeries
<1>3. k \in Nat
  BY MeasuredIsFinite, FS_CardinalityType
<1> HIDE DEF x, y, sx, sy, xx, xy, yy
<1>4. run = Covariance(x, x, I) /\ rise = Covariance(x, y, I) /\ move = Covariance(y, y, I)
  BY <1>2 DEF Covariance
<1> HIDE DEF run, rise, move, I
<1>5. /\ Fit(series).n = k /\ Fit(series).run = run /\ Fit(series).rise = rise
      /\ Fit(series).start = sy * run - rise * sx
      /\ Fit(series).r2 = IF move = 0 THEN <<1, 1>> ELSE <<rise * rise, run * move>>
  BY <1>1
<1> QED
  BY <1>2, <1>3, <1>4, <1>5 DEF I, x, y

\* Weeks are distinct numbers, so a line through two of them or more has a run.
LEMMA LineHasRun ==
  ASSUME NEW n \in Nat, NEW series, IsSeries(series, n), Cardinality(Measured(series)) > 1
  PROVE  Fit(series).run \in Nat \ {0}
<1> DEFINE I == Measured(series)
           x == WeekNumbers(series)
<1>1. IsFiniteSet(I) /\ \A i \in I : x[i] = i /\ i \in Int
  BY MeasuredIsFinite, RiseIs
<1>2. \E i, j \in I : i # j
  <2>0. Cardinality(I) > 1
    OBVIOUS
  <2> HIDE DEF I
  <2>1. I # {} /\ \A i \in I : I # {i}
    <3>1. Cardinality({}) = 0 /\ \A i \in I : Cardinality({i}) = 1
      BY FS_EmptySet, FS_Singleton
    <3> QED
      BY <2>0, <3>1
  <2> QED
    BY <2>1
<1>3. Fit(series).run = Covariance(x, x, I)
  BY FitIs
<1> HIDE DEF I, x
<1>4. \A i \in I : x[i] \in Int /\ x[i] \in Int
  BY <1>1
<1>5. \A i, j \in I : (x[i] - x[j]) * (x[i] - x[j]) >= 0
  BY <1>4
<1>6. /\ Covariance(x, x, I) \in Int
      /\ \A i, j \in I : (x[i] - x[j]) * (x[i] - x[j]) > 0 => Covariance(x, x, I) > 0
  BY <1>1, <1>4, <1>5, MovingTogether
<1>7. PICK i, j \in I : i # j
  BY <1>2
<1>8. (x[i] - x[j]) * (x[i] - x[j]) > 0
  <2> DEFINE d == x[i] - x[j]
  <2>1. d \in Int /\ d # 0
    BY <1>1, <1>7
  <2> HIDE DEF d
  <2>2. d * d > 0
    BY <2>1
  <2> QED
    BY <2>2 DEF d
<1> QED
  BY <1>3, <1>6, <1>8

\* The square of what a line misses of the series, summed up.
LEMMA UnexplainedIs ==
  ASSUME NEW n \in Nat, NEW series, IsSeries(series, n),
         NEW unit \in Int, NEW p \in Int, NEW q \in Int
  PROVE  LET I == Measured(series)
             x == WeekNumbers(series)
             y == WeekRates(series)
         IN  /\ Unexplained(series, unit, p, q)
                  = (p * p) * Cardinality(I) + (unit * unit) * Total(Products(y, y, I), I)
                    + (q * q) * Total(Products(x, x, I), I) + (-2 * unit * p) * Total(y, I)
                    + (-2 * unit * q) * Total(Products(x, y, I), I) + (2 * p * q) * Total(x, I)
             /\ Unexplained(series, unit, p, q) >= 0
<1> DEFINE I == Measured(series)
           x == WeekNumbers(series)
           y == WeekRates(series)
           xx == Products(x, x, I)
           xy == Products(x, y, I)
           yy == Products(y, y, I)
           gap(i) == unit * WeekRate(series, i) - (p + q * i)
           h == [i \in I |-> gap(i) * gap(i)]
           P(g) == [s \in SUBSET I |-> IF s = {} THEN 0
                      ELSE gap(CHOOSE i \in s : TRUE) * gap(CHOOSE i \in s : TRUE)
                             + g[s \ {CHOOSE i \in s : TRUE}]]
<1>1. IsFiniteSet(I)
  BY MeasuredIsFinite
<1>2. \A i \in I : x[i] = i /\ i \in Int /\ y[i] = WeekRate(series, i) /\ y[i] \in Int
  BY SumsOfSeries
<1>3. Unexplained(series, unit, p, q) = (CHOOSE g : g = P(g))[I]
  BY DEF Unexplained, Sum, MapThenSumSet, MapThenFoldSet
<1>4. \A i \in I : /\ xx[i] = x[i] * x[i] /\ xy[i] = x[i] * y[i] /\ yy[i] = y[i] * y[i]
                   /\ h[i] = gap(i) * gap(i) /\ gap(i) = unit * y[i] - (p + q * x[i])
  BY <1>2 DEF Products
<1>5. \A s \in SUBSET I : s # {} => One(s) \in I
  BY OneIsIn
<1> HIDE DEF I, x, y, xx, xy, yy
<1>6. \A i \in I : h[i] = (p * p) + (unit * unit) * yy[i] + (q * q) * xx[i] + (-2 * unit * p) * y[i]
                            + (-2 * unit * q) * xy[i] + (2 * p * q) * x[i]
                   /\ h[i] >= 0
  <2> SUFFICES ASSUME NEW i \in I
               PROVE  h[i] = (p * p) + (unit * unit) * yy[i] + (q * q) * xx[i] + (-2 * unit * p) * y[i]
                               + (-2 * unit * q) * xy[i] + (2 * p * q) * x[i]
                      /\ h[i] >= 0
    OBVIOUS
  <2> DEFINE u == x[i]
             v == y[i]
             d == unit * v - (p + q * u)
  <2>1. h[i] = d * d /\ xx[i] = u * u /\ xy[i] = u * v /\ yy[i] = v * v
    BY <1>4
  <2>2. u \in Int /\ v \in Int
    BY <1>2
  <2> HIDE DEF u, v, h
  <2>3. d * d = (p * p) + (unit * unit) * (v * v) + (q * q) * (u * u) + (-2 * unit * p) * v
                  + (-2 * unit * q) * (u * v) + (2 * p * q) * u
    BY <2>2
  <2>4. d \in Int
    BY <2>2
  <2> HIDE DEF d
  <2>5. d * d >= 0
    BY <2>4
  <2> QED
    BY <2>1, <2>3, <2>5 DEF u, v
<1>7. \A i \in I : yy[i] \in Int /\ xx[i] \in Int /\ y[i] \in Int /\ xy[i] \in Int /\ x[i] \in Int
  BY <1>2, <1>4
<1>8. (CHOOSE g : g = P(g)) = (CHOOSE g : IsTotals(g, h, I))
  <2>1. \A g : g = P(g) <=> IsTotals(g, h, I)
    <3> TAKE g
    <3>1. \A s \in SUBSET I : s # {} => h[One(s)] = gap(One(s)) * gap(One(s))
      BY <1>4, <1>5
    <3> HIDE DEF gap, h
    <3>2. P(g) = [s \in SUBSET I |-> IF s = {} THEN 0 ELSE h[One(s)] + g[s \ {One(s)}]]
      BY <3>1 DEF One
    <3> HIDE DEF P
    <3> QED
      BY <3>2 DEF IsTotals
  <2> HIDE DEF P
  <2> QED
    BY <2>1
<1> HIDE DEF P, h, gap
<1> DEFINE a == unit * unit
           b == q * q
           c == -2 * unit * p
           d == -2 * unit * q
           e == 2 * p * q
           k == p * p
<1>9. a \in Int /\ b \in Int /\ c \in Int /\ d \in Int /\ e \in Int /\ k \in Int
  OBVIOUS
<1>10. Combines(h, k, a, yy, b, xx, c, y, d, xy, e, x, I)
  BY <1>6 DEF Combines
<1> HIDE DEF a, b, c, d, e, k
<1>11. /\ Total(h, I) = k * Cardinality(I) + a * Total(yy, I) + b * Total(xx, I) + c * Total(y, I)
                          + d * Total(xy, I) + e * Total(x, I)
       /\ \A i \in I : h[i] \in Int
  BY <1>1, <1>7, <1>9, <1>10, TotalCombines
<1>12. (CHOOSE g : IsTotals(g, h, I))[I] = Total(h, I)
  BY <1>1, <1>11, TotalIs
<1>13. Total(h, I) >= 0
  BY <1>1, <1>6, <1>11, TotalIsMore
<1>14. /\ Unexplained(series, unit, p, q) = k * Cardinality(I) + a * Total(yy, I) + b * Total(xx, I)
                          + c * Total(y, I) + d * Total(xy, I) + e * Total(x, I)
       /\ Unexplained(series, unit, p, q) >= 0
  BY <1>3, <1>8, <1>11, <1>12, <1>13
<1> QED
  BY <1>14 DEF I, x, y, xx, xy, yy, a, b, c, d, e, k

\* Of n points: the totals of the weeks, of the rates, and of their products; a unit u and a line
\* with start s and rise t.  The two equations the best line solves, and the sum of the squares
\* that a line leaves.
Numbers(n, X, Y, XX, XY, YY, u, s, t) == {n, X, Y, XX, XY, YY, u, s, t} \subseteq Int
Solves(n, X, Y, XX, XY, u, s, t) == n * s + t * X = u * Y /\ s * X + t * XX = u * XY
Left(n, X, Y, XX, XY, YY, u, s, t) ==
  (s * s) * n + (u * u) * YY + (t * t) * XX + (-2 * u * s) * Y + (-2 * u * t) * XY + (2 * s * t) * X
LeastSquares(n, X, Y, XX, XY, YY, u, s, t, run, rise, move) ==
  /\ run = n * XX - X * X /\ rise = n * XY - X * Y /\ move = n * YY - Y * Y
  /\ s = Y * run - rise * X /\ u = n * run /\ t = n * rise

LEMMA BestLine ==
  ASSUME NEW n, NEW X, NEW Y, NEW XX, NEW XY, NEW YY, NEW u, NEW s, NEW t,
         NEW run, NEW rise, NEW move, n \in Int, X \in Int, Y \in Int, XX \in Int, XY \in Int, YY \in Int,
         LeastSquares(n, X, Y, XX, XY, YY, u, s, t, run, rise, move)
  PROVE  /\ Numbers(n, X, Y, XX, XY, YY, u, s, t) /\ run \in Int /\ rise \in Int /\ move \in Int
         /\ Solves(n, X, Y, XX, XY, u, s, t)
<1>0. /\ run = n * XX - X * X /\ rise = n * XY - X * Y /\ move = n * YY - Y * Y
      /\ s = Y * run - rise * X /\ u = n * run /\ t = n * rise
  BY DEF LeastSquares
<1>1. run \in Int /\ rise \in Int /\ move \in Int
  <2>1. n * XX \in Int /\ X * X \in Int /\ n * XY \in Int /\ X * Y \in Int /\ n * YY \in Int /\ Y * Y \in Int
    OBVIOUS
  <2> QED
    BY <1>0, <2>1
<1>2. s \in Int /\ u \in Int /\ t \in Int
  <2>1. Y * run \in Int /\ rise * X \in Int /\ n * run \in Int /\ n * rise \in Int
    BY <1>1
  <2> QED
    BY <1>0, <2>1
<1>3. n * s + t * X = u * Y
  <2>1. n * (Y * run - rise * X) + (n * rise) * X = (n * run) * Y
    BY <1>1
  <2> QED
    BY <1>0, <2>1
<1>4. s * X + t * XX = u * XY
  <2>1. (Y * run - rise * X) * X + (n * rise) * XX = run * (X * Y) + rise * (n * XX - X * X)
    BY <1>1
  <2>2. run * (X * Y) + rise * run = run * (X * Y + rise)
    BY <1>1
  <2>3. X * Y + rise = n * XY
    BY <1>0
  <2>4. run * (n * XY) = (n * run) * XY
    BY <1>1
  <2> QED
    BY <1>0, <2>1, <2>2, <2>3, <2>4
<1> QED
  BY <1>1, <1>2, <1>3, <1>4 DEF Numbers, Solves

\* Any other line leaves more: the difference is a sum of squares again.
LEMMA NoLineIsBetter ==
  ASSUME NEW n, NEW X, NEW Y, NEW XX, NEW XY, NEW YY, NEW u, NEW s, NEW t, NEW a \in Int, NEW b \in Int,
         Numbers(n, X, Y, XX, XY, YY, u, s, t), Solves(n, X, Y, XX, XY, u, s, t)
  PROVE  Left(n, X, Y, XX, XY, YY, u, s + a, t + b)
           = Left(n, X, Y, XX, XY, YY, u, s, t) + Left(n, X, Y, XX, XY, YY, 0, a, b)
<1>0. /\ n \in Int /\ X \in Int /\ Y \in Int /\ XX \in Int /\ XY \in Int /\ YY \in Int
      /\ u \in Int /\ s \in Int /\ t \in Int
  BY DEF Numbers
<1> DEFINE e == n * s + t * X - u * Y
           f == s * X + t * XX - u * XY
           old == Left(n, X, Y, XX, XY, YY, u, s, t)
           more == Left(n, X, Y, XX, XY, YY, 0, a, b)
<1>1. Left(n, X, Y, XX, XY, YY, u, s + a, t + b) = old + more + (2 * a) * e + (2 * b) * f
  BY <1>0 DEF Left
<1>2. e = 0 /\ f = 0
  <2> DEFINE g == n * s + t * X
             h == u * Y
             j == s * X + t * XX
             k == u * XY
  <2>1. g \in Int /\ h \in Int /\ j \in Int /\ k \in Int
    BY <1>0
  <2>2. g = h /\ j = k
    BY DEF Solves
  <2>3. e = g - h /\ f = j - k
    BY <1>0
  <2> HIDE DEF e, f, g, h, j, k
  <2> QED
    BY <2>1, <2>2, <2>3
<1>3. old \in Int /\ more \in Int
  BY <1>0 DEF Left
<1> HIDE DEF e, f, old, more
<1>4. old + more + (2 * a) * e + (2 * b) * f = old + more
  BY <1>2, <1>3
<1> QED
  BY <1>1, <1>4 DEF old, more

\* What the line leaves, and what the mean leaves.
LEMMA ShareExplained ==
  ASSUME NEW n, NEW X, NEW Y, NEW XX, NEW XY, NEW YY, NEW u, NEW s, NEW t,
         NEW run, NEW rise, NEW move, n \in Int, X \in Int, Y \in Int, XX \in Int, XY \in Int, YY \in Int,
         LeastSquares(n, X, Y, XX, XY, YY, u, s, t, run, rise, move)
  PROVE  /\ Left(n, X, Y, XX, XY, YY, u, s, t) = u * (run * move - rise * rise)
         /\ Left(n, X, Y, XX, XY, YY, u, run * Y, 0) = u * (run * move)
<1>0. /\ run = n * XX - X * X /\ rise = n * XY - X * Y /\ move = n * YY - Y * Y
      /\ s = Y * run - rise * X /\ u = n * run /\ t = n * rise
  BY DEF LeastSquares
<1>1. /\ Numbers(n, X, Y, XX, XY, YY, u, s, t) /\ run \in Int /\ rise \in Int /\ move \in Int
      /\ Solves(n, X, Y, XX, XY, u, s, t)
  BY BestLine
<1>2. s \in Int /\ u \in Int /\ t \in Int
  BY <1>1 DEF Numbers
<1>3. Left(n, X, Y, XX, XY, YY, u, s, t) = u * (u * YY - s * Y - t * XY)
  <2>1. Left(n, X, Y, XX, XY, YY, u, s, t)
          = (u * u) * YY + s * (n * s + t * X) + t * (s * X + t * XX) - 2 * u * s * Y - 2 * u * t * XY
    BY <1>2 DEF Left
  <2>2. s * (n * s + t * X) = s * (u * Y) /\ t * (s * X + t * XX) = t * (u * XY)
    BY <1>1 DEF Solves
  <2>3. (u * u) * YY + s * (u * Y) + t * (u * XY) - 2 * u * s * Y - 2 * u * t * XY
          = u * (u * YY - s * Y - t * XY)
    BY <1>2
  <2> QED
    BY <2>1, <2>2, <2>3
<1>4. u * YY - s * Y - t * XY = run * (n * YY - Y * Y) - rise * (n * XY - X * Y)
  <2>1. (n * run) * YY - (Y * run - rise * X) * Y - (n * rise) * XY
          = run * (n * YY - Y * Y) - rise * (n * XY - X * Y)
    BY <1>1
  <2> QED
    BY <1>0, <2>1
<1>5. Left(n, X, Y, XX, XY, YY, u, run * Y, 0) = u * (run * (n * YY - Y * Y))
  <2>1. Left(n, X, Y, XX, XY, YY, u, run * Y, 0)
          = (run * Y) * (run * Y) * n + u * u * YY - 2 * u * (run * Y) * Y
    BY <1>1, <1>2 DEF Left
  <2>2. (run * Y) * (run * Y) * n + (n * run) * (n * run) * YY - 2 * (n * run) * (run * Y) * Y
          = (n * run) * (run * (n * YY - Y * Y))
    BY <1>1
  <2> QED
    BY <1>0, <2>1, <2>2
<1> QED
  BY <1>0, <1>3, <1>4, <1>5

\* What r2 says of the squares that the line and the mean leave.
Leaves(u, run, rise, move, best, flat, r2) ==
  /\ u \in Nat \ {0} /\ run \in Nat \ {0} /\ rise \in Int /\ move \in Int
  /\ best >= 0 /\ best = u * (run * move - rise * rise) /\ flat = u * (run * move)
  /\ r2 = IF move = 0 THEN <<1, 1>> ELSE <<rise * rise, run * move>>
Explains(r2, best, flat) ==
  /\ flat * (r2[2] - r2[1]) = best * r2[2]
  /\ AtLeast(r2, <<1, 2>>) <=> 2 * best <= flat

LEMMA ShareIs ==
  ASSUME NEW u, NEW run, NEW rise, NEW move, NEW best, NEW flat, NEW r2,
         Leaves(u, run, rise, move, best, flat, r2)
  PROVE  Explains(r2, best, flat)
<1>0. /\ u \in Nat \ {0} /\ run \in Nat \ {0} /\ rise \in Int /\ move \in Int
      /\ best >= 0 /\ best = u * (run * move - rise * rise) /\ flat = u * (run * move)
      /\ r2 = IF move = 0 THEN <<1, 1>> ELSE <<rise * rise, run * move>>
  BY DEF Leaves
<1> DEFINE w == run * move
           v == rise * rise
<1>1. w \in Int /\ v \in Int /\ v >= 0 /\ (move = 0 => w = 0)
  BY <1>0
<1>2. best = u * (w - v) /\ flat = u * w
  BY <1>0
<1>3. AtLeast(r2, <<1, 2>>) <=> ~(r2[1] * 2 < 1 * r2[2])
  BY DEF AtLeast, Less
<1>4. r2[1] = (IF move = 0 THEN 1 ELSE v) /\ r2[2] = (IF move = 0 THEN 1 ELSE w)
  BY <1>0
<1> HIDE DEF w, v
<1>5. CASE move = 0
  <2>1. u * (w - v) = -(u * v) /\ u * v \in Int
    BY <1>0, <1>1, <1>5
  <2>2. v > 0 => u * v > 0
    BY <1>0, <1>1
  <2>3. v = 0
    BY <1>0, <1>1, <1>2, <2>1, <2>2
  <2>4. best = 0 /\ flat = 0
    BY <1>0, <1>1, <1>2, <1>5, <2>3
  <2>5. r2[1] = 1 /\ r2[2] = 1
    BY <1>4, <1>5
  <2> QED
    BY <1>3, <2>4, <2>5 DEF Explains
<1>6. CASE move # 0
  <2>1. r2[1] = v /\ r2[2] = w
    BY <1>4, <1>6
  <2>2. (u * w) * (w - v) = (u * (w - v)) * w
    BY <1>0, <1>1
  <2>3. ~(v * 2 < 1 * w) <=> 2 * (u * (w - v)) <= u * w
    <3> DEFINE d == w - 2 * v
    <3>1. d \in Int /\ (~(v * 2 < 1 * w) <=> d <= 0)
      BY <1>0, <1>1
    <3>2. 2 * (u * (w - v)) = u * w + u * d
      BY <1>0, <1>1
    <3>3. d <= 0 <=> u * d <= 0
      <4> HIDE DEF d
      <4>1. d > 0 => u * d > 0
        BY <1>0, <3>1
      <4>2. d <= 0 => u * d <= 0
        BY <1>0, <3>1
      <4> QED
        BY <1>0, <3>1, <4>1, <4>2
    <3>4. u * w \in Int /\ u * d \in Int
      BY <1>0, <1>1, <3>1
    <3> HIDE DEF d
    <3> QED
      BY <3>1, <3>2, <3>3, <3>4
  <2> QED
    BY <1>2, <1>3, <2>1, <2>2, <2>3 DEF Explains
<1> QED
  BY <1>5, <1>6

\* The totals of a series, and the line of the model as the one of least squares.
LEMMA FitSolves ==
  ASSUME NEW n \in Nat, NEW series, IsSeries(series, n)
  PROVE  LET I == Measured(series)
             x == WeekNumbers(series)
             y == WeekRates(series)
             fit == Fit(series)
         IN  /\ Cardinality(I) \in Int /\ Total(x, I) \in Int /\ Total(y, I) \in Int
             /\ Total(Products(x, x, I), I) \in Int /\ Total(Products(x, y, I), I) \in Int
             /\ Total(Products(y, y, I), I) \in Int
             /\ LeastSquares(Cardinality(I), Total(x, I), Total(y, I), Total(Products(x, x, I), I),
                             Total(Products(x, y, I), I), Total(Products(y, y, I), I),
                             fit.n * fit.run, fit.start, fit.n * fit.rise,
                             fit.run, fit.rise, Covariance(y, y, I))
<1> DEFINE I == Measured(series)
           x == WeekNumbers(series)
           y == WeekRates(series)
           xx == Products(x, x, I)
           xy == Products(x, y, I)
           yy == Products(y, y, I)
           fit == Fit(series)
<1>1. IsFiniteSet(I) /\ Cardinality(I) \in Int
  BY MeasuredIsFinite, FS_CardinalityType
<1>2. \A i \in I : x[i] \in Int /\ y[i] \in Int
  BY SumsOfSeries
<1>3. \A i \in I : xx[i] = x[i] * x[i] /\ xy[i] = x[i] * y[i] /\ yy[i] = y[i] * y[i]
  BY DEF Products
<1>4. /\ fit.n = Cardinality(I)
      /\ fit.run = Covariance(x, x, I) /\ fit.rise = Covariance(x, y, I)
      /\ fit.start = Total(y, I) * fit.run - fit.rise * Total(x, I)
  BY FitIs
<1>5. /\ Covariance(x, x, I) = Cardinality(I) * Total(xx, I) - Total(x, I) * Total(x, I)
      /\ Covariance(x, y, I) = Cardinality(I) * Total(xy, I) - Total(x, I) * Total(y, I)
      /\ Covariance(y, y, I) = Cardinality(I) * Total(yy, I) - Total(y, I) * Total(y, I)
  BY DEF Covariance
<1> HIDE DEF I, x, y, xx, xy, yy, fit
<1>6. \A i \in I : xx[i] \in Int /\ xy[i] \in Int /\ yy[i] \in Int
  BY <1>2, <1>3
<1>7. /\ Total(x, I) \in Int /\ Total(y, I) \in Int
      /\ Total(xx, I) \in Int /\ Total(xy, I) \in Int /\ Total(yy, I) \in Int
  <2>1. /\ \A i \in I : x[i] \in Int
        /\ \A i \in I : y[i] \in Int
        /\ \A i \in I : xx[i] \in Int
        /\ \A i \in I : xy[i] \in Int
        /\ \A i \in I : yy[i] \in Int
    BY <1>2, <1>6
  <2> QED
    BY <1>1, <2>1, TotalIs
<1>8. LeastSquares(Cardinality(I), Total(x, I), Total(y, I), Total(xx, I), Total(xy, I), Total(yy, I),
                   fit.n * fit.run, fit.start, fit.n * fit.rise, fit.run, fit.rise, Covariance(y, y, I))
  BY <1>4, <1>5 DEF LeastSquares
<1> QED
  BY <1>1, <1>7, <1>8 DEF I, x, y, xx, xy, yy, fit

LEMMA BestFit ==
  ASSUME NEW n \in Nat, NEW series, IsSeries(series, n), Cardinality(Measured(series)) > 1
  PROVE  FitIsBest(series, Fit(series))
<1> DEFINE I == Measured(series)
           x == WeekNumbers(series)
           y == WeekRates(series)
           fit == Fit(series)
           N == Cardinality(I)
           X == Total(x, I)
           Y == Total(y, I)
           XX == Total(Products(x, x, I), I)
           XY == Total(Products(x, y, I), I)
           YY == Total(Products(y, y, I), I)
           u == fit.n * fit.run
           s == fit.start
           t == fit.n * fit.rise
           run == fit.run
           rise == fit.rise
           move == Covariance(y, y, I)
           gap(p, q) == Unexplained(series, u, p, q)
<1>1. /\ N \in Int /\ X \in Int /\ Y \in Int /\ XX \in Int /\ XY \in Int /\ YY \in Int
      /\ LeastSquares(N, X, Y, XX, XY, YY, u, s, t, run, rise, move)
  BY FitSolves
<1>2. /\ run \in Nat \ {0} /\ fit.n = N /\ N > 1
      /\ fit.r2 = IF move = 0 THEN <<1, 1>> ELSE <<rise * rise, run * move>>
  BY FitIs, LineHasRun
<1>3. \A c, p, q \in Int : /\ Unexplained(series, c, p, q) = Left(N, X, Y, XX, XY, YY, c, p, q)
                           /\ Unexplained(series, c, p, q) >= 0
  BY UnexplainedIs DEF Left
<1>4. Sum(LAMBDA i : WeekRate(series, i), Measured(series)) = Y
  BY SumsOfSeries
<1>5. FitIsBest(series, fit)
        <=> /\ \A a, b \in -1..1 : gap(s, t) <= gap(s + a, t + b)
            /\ gap(run * Y, 0) * (fit.r2[2] - fit.r2[1]) = gap(s, t) * fit.r2[2]
            /\ AtLeast(fit.r2, <<1, 2>>) <=> 2 * gap(s, t) <= gap(run * Y, 0)
  BY <1>4 DEF FitIsBest
<1>6. u = N * run
  BY <1>2
<1> HIDE DEF I, x, y, N, X, Y, XX, XY, YY, u, s, t, run, rise, move, fit
<1>7. /\ Numbers(N, X, Y, XX, XY, YY, u, s, t) /\ rise \in Int /\ move \in Int
      /\ Solves(N, X, Y, XX, XY, u, s, t)
  BY <1>1, BestLine
<1>8. s \in Int /\ u \in Int /\ t \in Int
  BY <1>7 DEF Numbers
<1>9. /\ Left(N, X, Y, XX, XY, YY, u, s, t) = u * (run * move - rise * rise)
      /\ Left(N, X, Y, XX, XY, YY, u, run * Y, 0) = u * (run * move)
  BY <1>1, ShareExplained
<1>10. ASSUME NEW a \in -1..1, NEW b \in -1..1 PROVE gap(s, t) <= gap(s + a, t + b)
  <2>1. a \in Int /\ b \in Int /\ s + a \in Int /\ t + b \in Int
    BY <1>8
  <2>2. Left(N, X, Y, XX, XY, YY, u, s + a, t + b)
          = Left(N, X, Y, XX, XY, YY, u, s, t) + Left(N, X, Y, XX, XY, YY, 0, a, b)
    BY <1>7, <2>1, NoLineIsBetter
  <2>3. Left(N, X, Y, XX, XY, YY, 0, a, b) >= 0
    BY <1>3, <2>1
  <2>4. Left(N, X, Y, XX, XY, YY, 0, a, b) \in Int /\ Left(N, X, Y, XX, XY, YY, u, s, t) \in Int
    BY <1>1, <1>8, <2>1 DEF Left
  <2>5. /\ gap(s, t) = Left(N, X, Y, XX, XY, YY, u, s, t)
        /\ gap(s + a, t + b) = Left(N, X, Y, XX, XY, YY, u, s + a, t + b)
    BY <1>3, <1>8, <2>1
  <2> QED
    BY <2>2, <2>3, <2>4, <2>5
<1>11. run * Y \in Int /\ 0 \in Int
  BY <1>1, <1>2
<1>12. /\ gap(s, t) = u * (run * move - rise * rise) /\ gap(s, t) >= 0
       /\ gap(run * Y, 0) = u * (run * move)
  BY <1>3, <1>8, <1>9, <1>11
<1>13. u \in Nat \ {0}
  <2>1. N \in Nat \ {0}
    BY <1>1, <1>2
  <2> QED
    BY <1>2, <1>6, <2>1, BarePlus
<1> DEFINE best == gap(s, t)
           flat == gap(run * Y, 0)
           r2 == fit.r2
<1>14. Leaves(u, run, rise, move, best, flat, r2)
  BY <1>2, <1>7, <1>12, <1>13 DEF Leaves
<1> HIDE DEF best, flat, r2
<1>15. Explains(r2, best, flat)
  BY <1>14, ShareIs
<1> QED
  BY <1>5, <1>10, <1>15 DEF Explains, best, flat, r2, fit

LineResult(points, r2, rise, run, next) ==
  [status |-> "ok", points |-> points, r2 |-> r2, slope |-> <<rise, run>>,
   direction |-> CASE rise > 0 -> "steigend" [] rise < 0 -> "fallend" [] OTHER -> "stabil",
   er |-> <<Positive(next[1]), next[2]>>]

LEMMA ForecastIs ==
  ASSUME NEW series
  PROVE  ForecastOne(series)
           = IF Cardinality(Measured(series)) < MinPoints
             THEN [status |-> "insufficient_data", points |-> Cardinality(Measured(series))]
             ELSE LineResult(Cardinality(Measured(series)), Fit(series).r2, Fit(series).rise,
                             Fit(series).run, At(Fit(series), series, Len(series) + 1))
BY DEF ForecastOne, LineResult

LEMMA RatesAreASeries ==
  ASSUME NEW series \in Seq(Rates)
  PROVE  /\ Len(series) \in Nat /\ DOMAIN series = 1..Len(series)
         /\ IsSeries(series, Len(series))
<1>1. Len(series) \in Nat /\ DOMAIN series = 1..Len(series)
  OBVIOUS
<1>2. \A i \in 1..Len(series) : series[i] \in Rates
  OBVIOUS
<1>3. \A i \in Measured(series) : series[i] \in Fractions
  BY <1>1, <1>2 DEF Measured, Rates, Fractions
<1> QED
  BY <1>1, <1>3 DEF IsSeries

\* The series with a week without a rate before it.
LEMMA WeekBefore ==
  ASSUME NEW series \in Seq(Rates)
  PROVE  LET t == <<None>> \o series
         IN  /\ t \in Seq(Rates) /\ Len(t) = Len(series) + 1
             /\ Measured(t) = OneOn(Measured(series))
             /\ \A i \in Measured(series) : t[i + 1] = series[i]
<1> DEFINE t == <<None>> \o series
           n == Len(series)
<1>0. n \in Nat /\ DOMAIN series = 1..n /\ None \in Rates
  BY DEF Rates
<1>1. t \in Seq(Rates) /\ Len(t) = n + 1
  <2>1. <<None>> \in Seq(Rates) /\ Len(<<None>>) = 1
    BY <1>0
  <2> QED
    BY <2>1
<1>2. t[1] = None /\ \A i \in 1..n : t[i + 1] = series[i]
  BY <1>0
<1>3. DOMAIN t = 1..(n + 1)
  BY <1>1
<1> HIDE DEF t, n
<1>4. Measured(t) = {i \in 1..(n + 1) : t[i] # None} /\ Measured(series) = {i \in 1..n : series[i] # None}
  BY <1>0, <1>3 DEF Measured
<1>5. ASSUME NEW i \in Measured(t) PROVE i \in OneOn(Measured(series))
  <2>1. i \in 1..(n + 1) /\ t[i] # None /\ i # 1
    BY <1>2, <1>4
  <2>2. i - 1 \in 1..n /\ (i - 1) + 1 = i
    BY <1>0, <2>1
  <2>3. i - 1 \in Measured(series)
    BY <1>2, <1>4, <2>1, <2>2
  <2> QED
    BY <2>2, <2>3 DEF OneOn
<1>6. ASSUME NEW j \in OneOn(Measured(series)) PROVE j \in Measured(t)
  <2>1. PICK i \in Measured(series) : j = i + 1
    BY DEF OneOn
  <2>2. i \in 1..n /\ series[i] # None
    BY <1>4
  <2>3. j \in 1..(n + 1) /\ t[j] = series[i]
    BY <1>0, <1>2, <2>1, <2>2
  <2> QED
    BY <1>4, <2>2, <2>3
<1>7. \A i \in Measured(series) : t[i + 1] = series[i]
  BY <1>2, <1>4
<1> QED
  BY <1>1, <1>5, <1>6, <1>7 DEF t, n

LEMMA SameDenominator ==
  ASSUME NEW series \in Seq(Rates)
  PROVE  LET t == <<None>> \o series
         IN  /\ Denominator(t) = Denominator(series)
             /\ \A i \in Measured(series) : WeekRate(t, i + 1) = WeekRate(series, i)
<1> DEFINE t == <<None>> \o series
           I == Measured(series)
           f == Denominators(t)
           g == Denominators(series)
<1>1. /\ t \in Seq(Rates) /\ Len(t) = Len(series) + 1
      /\ Measured(t) = OneOn(I) /\ \A i \in I : t[i + 1] = series[i]
  BY WeekBefore
<1> HIDE DEF t
<1>2. /\ Len(series) \in Nat /\ IsSeries(series, Len(series))
      /\ Len(t) \in Nat /\ IsSeries(t, Len(t))
  BY <1>1, RatesAreASeries
<1>3. /\ Denominator(series) = Product(g, I)
      /\ \A i \in I : g[i] = series[i][2] /\ g[i] \in Nat \ {0}
  BY <1>2, DenominatorIsProduct
<1>4. /\ Denominator(t) = Product(f, Measured(t))
      /\ \A i \in Measured(t) : f[i] = t[i][2]
  BY <1>2, DenominatorIsProduct
<1>5. I \in SUBSET Int /\ IsFiniteSet(I)
  BY <1>2, MeasuredIsFinite
<1> HIDE DEF f, g, I
<1>6. \A i \in I : f[i + 1] = g[i] /\ g[i] \in Nat \ {0}
  <2> TAKE i \in I
  <2>1. i + 1 \in Measured(t)
    BY <1>1 DEF OneOn
  <2> QED
    BY <1>1, <1>3, <1>4, <2>1
<1>7. Product(f, OneOn(I)) = Product(g, I)
  BY <1>5, <1>6, OneOnIs
<1>8. Denominator(t) = Denominator(series)
  BY <1>1, <1>3, <1>4, <1>7
<1>9. \A i \in I : WeekRate(t, i + 1) = WeekRate(series, i)
  BY <1>1, <1>8 DEF WeekRate
<1> QED
  BY <1>8, <1>9 DEF t, I

LEMMA OneOnTotals ==
  ASSUME NEW series \in Seq(Rates)
  PROVE  LET t == <<None>> \o series
             I == Measured(series)
             J == Measured(t)
             x == WeekNumbers(series)
             y == WeekRates(series)
             v == WeekNumbers(t)
             w == WeekRates(t)
         IN  /\ Cardinality(J) = Cardinality(I)
             /\ Total(v, J) = Cardinality(I) + Total(x, I)
             /\ Total(w, J) = Total(y, I)
             /\ Total(Products(v, v, J), J) = Cardinality(I) + 2 * Total(x, I) + Total(Products(x, x, I), I)
             /\ Total(Products(v, w, J), J) = Total(y, I) + Total(Products(x, y, I), I)
             /\ Total(Products(w, w, J), J) = Total(Products(y, y, I), I)
<1> DEFINE t == <<None>> \o series
           I == Measured(series)
           J == Measured(t)
           x == WeekNumbers(series)
           y == WeekRates(series)
           xx == Products(x, x, I)
           xy == Products(x, y, I)
           yy == Products(y, y, I)
           v == WeekNumbers(t)
           w == WeekRates(t)
           vv == Products(v, v, J)
           vw == Products(v, w, J)
           ww == Products(w, w, J)
           g == [i \in I |-> i + 1]
           gg == [i \in I |-> (i + 1) * (i + 1)]
           gy == [i \in I |-> (i + 1) * y[i]]
<1>1. /\ t \in Seq(Rates) /\ J = OneOn(I)
      /\ \A i \in I : WeekRate(t, i + 1) = WeekRate(series, i)
  BY WeekBefore, SameDenominator
<1> HIDE DEF t
<1>2. /\ Len(series) \in Nat /\ IsSeries(series, Len(series))
      /\ Len(t) \in Nat /\ IsSeries(t, Len(t))
  BY <1>1, RatesAreASeries
<1>3. /\ \A i \in I : x[i] = i /\ i \in Int /\ y[i] = WeekRate(series, i) /\ y[i] \in Int
      /\ \A j \in J : v[j] = j /\ j \in Int /\ w[j] = WeekRate(t, j) /\ w[j] \in Int
  BY <1>2, SumsOfSeries
<1>4. I \in SUBSET Int /\ IsFiniteSet(I) /\ Cardinality(I) \in Nat
  BY <1>2, <1>3, MeasuredIsFinite, FS_CardinalityType
<1>5. /\ \A i \in I : xx[i] = x[i] * x[i] /\ xy[i] = x[i] * y[i] /\ yy[i] = y[i] * y[i]
      /\ \A j \in J : vv[j] = v[j] * v[j] /\ vw[j] = v[j] * w[j] /\ ww[j] = w[j] * w[j]
  BY DEF Products
<1>6. \A i \in I : g[i] = i + 1 /\ gg[i] = (i + 1) * (i + 1) /\ gy[i] = (i + 1) * y[i]
  OBVIOUS
<1> HIDE DEF I, J, x, y, xx, xy, yy, v, w, vv, vw, ww, g, gg, gy
<1>7. \A i \in I : /\ v[i + 1] = g[i] /\ g[i] \in Int
                   /\ w[i + 1] = y[i] /\ y[i] \in Int
                   /\ vv[i + 1] = gg[i] /\ gg[i] \in Int
                   /\ vw[i + 1] = gy[i] /\ gy[i] \in Int
                   /\ ww[i + 1] = yy[i] /\ yy[i] \in Int
  <2> TAKE i \in I
  <2>1. i + 1 \in J /\ i \in Int /\ y[i] \in Int
    BY <1>1, <1>3 DEF OneOn
  <2>2. v[i + 1] = i + 1 /\ w[i + 1] = y[i]
    BY <1>1, <1>3, <2>1
  <2>3. vv[i + 1] = (i + 1) * (i + 1) /\ vw[i + 1] = (i + 1) * y[i] /\ ww[i + 1] = y[i] * y[i]
    BY <1>5, <2>1, <2>2
  <2>4. i + 1 \in Int /\ (i + 1) * (i + 1) \in Int /\ (i + 1) * y[i] \in Int /\ y[i] * y[i] \in Int
    BY <2>1
  <2> QED
    BY <1>5, <1>6, <2>1, <2>2, <2>3, <2>4
<1>8. /\ Cardinality(J) = Cardinality(I)
      /\ \A f, h : (\A i \in I : f[i + 1] = h[i] /\ h[i] \in Int) => Total(f, J) = Total(h, I)
  BY <1>1, <1>4, OneOnIs
<1>9. /\ Total(v, J) = Total(g, I) /\ Total(w, J) = Total(y, I) /\ Total(vv, J) = Total(gg, I)
      /\ Total(vw, J) = Total(gy, I) /\ Total(ww, J) = Total(yy, I)
  BY <1>7, <1>8
<1>10. \A i \in I : x[i] \in Int /\ xx[i] \in Int /\ xy[i] \in Int /\ y[i] \in Int /\ yy[i] \in Int
  BY <1>3, <1>5
<1> DEFINE zero == 0
           one == 1
           two == 2
<1>11. /\ Combines(g, one, one, x, zero, xx, zero, xy, zero, y, zero, yy, I)
       /\ Combines(gg, one, two, x, one, xx, zero, xy, zero, y, zero, yy, I)
       /\ Combines(gy, zero, zero, x, zero, xx, one, xy, one, y, zero, yy, I)
       /\ zero \in Int /\ one \in Int /\ two \in Int
  <2>1. ASSUME NEW i \in I
        PROVE  /\ g[i] = 1 + 1 * x[i] + 0 * xx[i] + 0 * xy[i] + 0 * y[i] + 0 * yy[i]
               /\ gg[i] = 1 + 2 * x[i] + 1 * xx[i] + 0 * xy[i] + 0 * y[i] + 0 * yy[i]
               /\ gy[i] = 0 + 0 * x[i] + 0 * xx[i] + 1 * xy[i] + 1 * y[i] + 0 * yy[i]
    <3> DEFINE p == x[i]
               q == y[i]
               pp == xx[i]
               pq == xy[i]
               qq == yy[i]
    <3>1. /\ g[i] = p + 1 /\ gg[i] = (p + 1) * (p + 1) /\ gy[i] = (p + 1) * q
          /\ pp = p * p /\ pq = p * q
          /\ p \in Int /\ q \in Int /\ pp \in Int /\ pq \in Int /\ qq \in Int
      BY <1>3, <1>5, <1>6, <1>10
    <3> HIDE DEF p, q, pp, pq, qq
    <3>2. /\ p + 1 = 1 + 1 * p + 0 * pp + 0 * pq + 0 * q + 0 * qq
          /\ (p + 1) * (p + 1) = 1 + 2 * p + 1 * pp + 0 * pq + 0 * q + 0 * qq
          /\ (p + 1) * q = 0 + 0 * p + 0 * pp + 1 * pq + 1 * q + 0 * qq
      BY <3>1
    <3> QED
      BY <3>1, <3>2 DEF p, q, pp, pq, qq
  <2> QED
    BY <2>1 DEF Combines
<1> HIDE DEF zero, one, two
<1>12. /\ Total(x, I) \in Int /\ Total(xx, I) \in Int /\ Total(xy, I) \in Int /\ Total(y, I) \in Int
       /\ Total(yy, I) \in Int
  <2>1. /\ \A i \in I : x[i] \in Int
        /\ \A i \in I : xx[i] \in Int
        /\ \A i \in I : xy[i] \in Int
        /\ \A i \in I : y[i] \in Int
        /\ \A i \in I : yy[i] \in Int
    BY <1>10
  <2> QED
    BY <1>4, <2>1, TotalIs
<1>13. Total(g, I) = Cardinality(I) + Total(x, I)
  <2>1. Total(g, I) = one * Cardinality(I) + one * Total(x, I) + zero * Total(xx, I) + zero * Total(xy, I)
                        + zero * Total(y, I) + zero * Total(yy, I)
    <3>1. /\ IsFiniteSet(I) /\ zero \in Int /\ one \in Int /\ two \in Int
          /\ \A i \in I : x[i] \in Int /\ xx[i] \in Int /\ xy[i] \in Int /\ y[i] \in Int /\ yy[i] \in Int
      BY <1>4, <1>10, <1>11
    <3>2. Combines(g, one, one, x, zero, xx, zero, xy, zero, y, zero, yy, I)
      BY <1>11
    <3> QED
      BY <3>1, <3>2, TotalCombines
  <2> QED
    BY <1>4, <1>12, <2>1 DEF zero, one, two
<1>14. Total(gg, I) = Cardinality(I) + 2 * Total(x, I) + Total(xx, I)
  <2>1. Total(gg, I) = one * Cardinality(I) + two * Total(x, I) + one * Total(xx, I) + zero * Total(xy, I)
                        + zero * Total(y, I) + zero * Total(yy, I)
    <3>1. /\ IsFiniteSet(I) /\ zero \in Int /\ one \in Int /\ two \in Int
          /\ \A i \in I : x[i] \in Int /\ xx[i] \in Int /\ xy[i] \in Int /\ y[i] \in Int /\ yy[i] \in Int
      BY <1>4, <1>10, <1>11
    <3>2. Combines(gg, one, two, x, one, xx, zero, xy, zero, y, zero, yy, I)
      BY <1>11
    <3> QED
      BY <3>1, <3>2, TotalCombines
  <2> QED
    BY <1>4, <1>12, <2>1 DEF zero, one, two
<1>15. Total(gy, I) = Total(y, I) + Total(xy, I)
  <2>1. Total(gy, I) = zero * Cardinality(I) + zero * Total(x, I) + zero * Total(xx, I) + one * Total(xy, I)
                        + one * Total(y, I) + zero * Total(yy, I)
    <3>1. /\ IsFiniteSet(I) /\ zero \in Int /\ one \in Int /\ two \in Int
          /\ \A i \in I : x[i] \in Int /\ xx[i] \in Int /\ xy[i] \in Int /\ y[i] \in Int /\ yy[i] \in Int
      BY <1>4, <1>10, <1>11
    <3>2. Combines(gy, zero, zero, x, zero, xx, one, xy, one, y, zero, yy, I)
      BY <1>11
    <3> QED
      BY <3>1, <3>2, TotalCombines
  <2> QED
    BY <1>4, <1>12, <2>1 DEF zero, one, two
<1> QED
  BY <1>8, <1>9, <1>13, <1>14, <1>15 DEF I, J, x, y, xx, xy, yy, v, w, vv, vw, ww, t

\* Weeks without a rate before the first one change nothing.
LEMMA WeeksBeforeChangeNothing ==
  ASSUME NEW series \in Seq(Rates)
  PROVE  ForecastOne(<<None>> \o series) = ForecastOne(series)
<1> DEFINE t == <<None>> \o series
           I == Measured(series)
           J == Measured(t)
           x == WeekNumbers(series)
           y == WeekRates(series)
           v == WeekNumbers(t)
           w == WeekRates(t)
           N == Cardinality(I)
           X == Total(x, I)
           Y == Total(y, I)
           XX == Total(Products(x, x, I), I)
           XY == Total(Products(x, y, I), I)
           YY == Total(Products(y, y, I), I)
           old == Fit(series)
           new == Fit(t)
           D == Denominator(series)
           n == Len(series)
<1>1. t \in Seq(Rates) /\ Len(t) = n + 1 /\ Denominator(t) = D
  BY WeekBefore, SameDenominator
<1>2. /\ Cardinality(J) = N
      /\ Total(v, J) = N + X
      /\ Total(w, J) = Y
      /\ Total(Products(v, v, J), J) = N + 2 * X + XX
      /\ Total(Products(v, w, J), J) = Y + XY
      /\ Total(Products(w, w, J), J) = YY
  BY OneOnTotals
<1> HIDE DEF t
<1>3. /\ n \in Nat /\ IsSeries(series, n) /\ Len(t) \in Nat /\ IsSeries(t, Len(t))
  BY <1>1, RatesAreASeries
<1>4. /\ N \in Int /\ X \in Int /\ Y \in Int /\ XX \in Int /\ XY \in Int /\ YY \in Int
  BY <1>3, FitSolves
<1>5. /\ old.n = N
      /\ old.run = N * XX - X * X
      /\ old.rise = N * XY - X * Y
      /\ old.start = Y * old.run - old.rise * X
      /\ old.r2 = IF N * YY - Y * Y = 0 THEN <<1, 1>>
                  ELSE <<old.rise * old.rise, old.run * (N * YY - Y * Y)>>
  BY <1>3, FitIs DEF Covariance
<1>6. /\ new.n = N
      /\ new.run = N * (N + 2 * X + XX) - (N + X) * (N + X)
      /\ new.rise = N * (Y + XY) - (N + X) * Y
      /\ new.start = Y * new.run - new.rise * (N + X)
      /\ new.r2 = IF N * YY - Y * Y = 0 THEN <<1, 1>>
                  ELSE <<new.rise * new.rise, new.run * (N * YY - Y * Y)>>
  <2>1. /\ new.n = Cardinality(J)
        /\ new.run = Covariance(v, v, J)
        /\ new.rise = Covariance(v, w, J)
        /\ new.start = Total(w, J) * new.run - new.rise * Total(v, J)
        /\ new.r2 = IF Covariance(w, w, J) = 0 THEN <<1, 1>>
                    ELSE <<new.rise * new.rise, new.run * Covariance(w, w, J)>>
    BY <1>3, FitIs
  <2>2. /\ Covariance(v, v, J) = N * (N + 2 * X + XX) - (N + X) * (N + X)
        /\ Covariance(v, w, J) = N * (Y + XY) - (N + X) * Y
        /\ Covariance(w, w, J) = N * YY - Y * Y
    BY <1>2 DEF Covariance
  <2> HIDE DEF J, v, w, N, X, Y, XX, XY, YY, new
  <2> QED
    BY <1>2, <2>1, <2>2
<1>7. /\ ForecastOne(series) = IF N < MinPoints THEN [status |-> "insufficient_data", points |-> N]
                               ELSE LineResult(N, old.r2, old.rise, old.run, At(old, series, n + 1))
      /\ ForecastOne(t) = IF Cardinality(J) < MinPoints
                          THEN [status |-> "insufficient_data", points |-> Cardinality(J)]
                          ELSE LineResult(Cardinality(J), new.r2, new.rise, new.run, At(new, t, Len(t) + 1))
  BY ForecastIs
<1> HIDE DEF I, J, x, y, v, w, N, X, Y, XX, XY, YY, old, new, D
<1>8. new.run = old.run /\ new.rise = old.rise /\ old.run \in Int /\ old.rise \in Int
  <2>1. N * (N + 2 * X + XX) - (N + X) * (N + X) = N * XX - X * X
    BY <1>4
  <2>2. N * (Y + XY) - (N + X) * Y = N * XY - X * Y
    BY <1>4
  <2>3. N * XX \in Int /\ X * X \in Int /\ N * XY \in Int /\ X * Y \in Int
    BY <1>4
  <2>4. N * XX - X * X \in Int /\ N * XY - X * Y \in Int
    BY <2>3
  <2> QED
    BY <1>5, <1>6, <2>1, <2>2, <2>4
<1>9. new.r2 = old.r2
  BY <1>5, <1>6, <1>8
<1>10. At(new, t, Len(t) + 1) = At(old, series, n + 1)
  <2> DEFINE r == old.run
             k == old.rise
  <2>1. At(new, t, Len(t) + 1) = <<new.start + N * k * (n + 2), N * r * D>>
    <3>1. Len(t) + 1 = n + 2
      BY <1>1, <1>3
    <3> QED
      BY <1>1, <1>6, <1>8, <3>1 DEF At
  <2>2. At(old, series, n + 1) = <<old.start + N * k * (n + 1), N * r * D>>
    BY <1>5 DEF At, D
  <2>3. new.start = Y * r - k * (N + X) /\ old.start = Y * r - k * X
    BY <1>5, <1>6, <1>8
  <2>4. r \in Int /\ k \in Int
    BY <1>8
  <2> HIDE DEF r, k
  <2>5. (Y * r - k * (N + X)) + N * k * (n + 2) = (Y * r - k * X) + N * k * (n + 1)
    BY <1>3, <1>4, <2>4
  <2> QED
    BY <2>1, <2>2, <2>3, <2>5
<1>11. Cardinality(J) = N
  BY <1>2
<1> QED
  BY <1>7, <1>8, <1>9, <1>10, <1>11 DEF t

\* The weeks of a series lie before the one that is forecast.
LEMMA WeeksLieBefore ==
  ASSUME NEW n \in Nat, NEW series, IsSeries(series, n)
  PROVE  Total(WeekNumbers(series), Measured(series)) <= Cardinality(Measured(series)) * n
<1> DEFINE I == Measured(series)
           x == WeekNumbers(series)
           h == [i \in I |-> n - i]
           zero == 0
           minus == -1
<1>1. I \in SUBSET (1..n) /\ IsFiniteSet(I) /\ Cardinality(I) \in Nat
  BY MeasuredIsFinite, FS_CardinalityType
<1>2. \A i \in I : x[i] = i /\ i \in Int
  BY SumsOfSeries
<1>3. \A i \in I : h[i] = n - i
  OBVIOUS
<1> HIDE DEF I, x, h
<1>4. \A i \in I : x[i] \in Int /\ h[i] \in Int /\ h[i] >= 0
  BY <1>1, <1>2, <1>3
<1>5. Combines(h, n, minus, x, zero, x, zero, x, zero, x, zero, x, I)
  <2>1. ASSUME NEW i \in I
        PROVE  h[i] = n + (-1) * x[i] + 0 * x[i] + 0 * x[i] + 0 * x[i] + 0 * x[i]
    <3> DEFINE p == x[i]
    <3>1. p \in Int /\ h[i] = n - p
      BY <1>2, <1>3, <1>4
    <3> HIDE DEF p
    <3>2. n - p = n + (-1) * p + 0 * p + 0 * p + 0 * p + 0 * p
      BY <3>1
    <3> QED
      BY <3>1, <3>2 DEF p
  <2> QED
    BY <2>1 DEF Combines
<1>6. zero \in Int /\ minus \in Int /\ n \in Int
  OBVIOUS
<1> HIDE DEF zero, minus
<1>7. Total(h, I) = n * Cardinality(I) + minus * Total(x, I) + zero * Total(x, I) + zero * Total(x, I)
                      + zero * Total(x, I) + zero * Total(x, I)
  <2>1. /\ IsFiniteSet(I) /\ zero \in Int /\ minus \in Int /\ n \in Int
        /\ \A i \in I : x[i] \in Int /\ x[i] \in Int /\ x[i] \in Int /\ x[i] \in Int /\ x[i] \in Int
    BY <1>1, <1>4, <1>6
  <2> QED
    BY <1>5, <2>1, TotalCombines
<1>8. Total(h, I) >= 0
  BY <1>1, <1>4, TotalIsMore
<1>9. Total(x, I) \in Int
  BY <1>1, <1>4, TotalIs
<1>10. n * Cardinality(I) \in Int /\ n * Cardinality(I) = Cardinality(I) * n
  BY <1>1
<1> QED
  BY <1>7, <1>8, <1>9, <1>10 DEF zero, minus, I, x

\* A line that rises is, in the week after the last, above the mean.
RisesOver(N, X, Y, L, run, rise, D, P) ==
  /\ N \in Nat \ {0} /\ run \in Nat \ {0} /\ rise \in Nat \ {0} /\ D \in Nat \ {0}
  /\ X \in Int /\ Y \in Int /\ L \in Nat /\ P \in Int /\ X <= N * L
  /\ P >= (Y * run - rise * X) + N * rise * (L + 1)

LEMMA RisingIsAboveTheMean ==
  ASSUME NEW N, NEW X, NEW Y, NEW L, NEW run, NEW rise, NEW D, NEW P,
         RisesOver(N, X, Y, L, run, rise, D, P)
  PROVE  Y * (N * run * D) < P * (N * D)
<1>0. /\ N \in Nat \ {0} /\ run \in Nat \ {0} /\ rise \in Nat \ {0} /\ D \in Nat \ {0}
      /\ X \in Int /\ Y \in Int /\ L \in Nat /\ P \in Int /\ X <= N * L
      /\ P >= (Y * run - rise * X) + N * rise * (L + 1)
  BY DEF RisesOver
<1>1. (Y * run - rise * X) + N * rise * (L + 1) = Y * run + rise * ((N * L - X) + N)
  BY <1>0
<1> DEFINE d == (N * L - X) + N
<1>2. d \in Nat \ {0}
  <2>1. N * L \in Int
    BY <1>0
  <2> QED
    BY <1>0, <2>1
<1> HIDE DEF d
<1>3. rise * d \in Nat \ {0}
  BY <1>0, <1>2, BarePlus
<1>4. Y * run \in Int /\ P - Y * run \in Nat \ {0}
  <2>1. Y * run \in Int
    BY <1>0
  <2>2. P >= Y * run + rise * d
    BY <1>0, <1>1 DEF d
  <2> DEFINE a == Y * run
             b == rise * d
  <2>3. a \in Int /\ b \in Nat \ {0} /\ P >= a + b
    BY <1>3, <2>1, <2>2
  <2> HIDE DEF a, b
  <2>4. P - a \in Nat \ {0}
    BY <1>0, <2>3
  <2> QED
    BY <2>1, <2>4 DEF a
<1> DEFINE e == P - Y * run
           k == N * D
<1>5. k \in Nat \ {0}
  BY <1>0, BarePlus
<1>6. e \in Nat \ {0}
  BY <1>4
<1>7. P * (N * D) = Y * (N * run * D) + (P - Y * run) * (N * D)
  BY <1>0, <1>4
<1> HIDE DEF e, k
<1>8. e * k \in Nat \ {0}
  BY <1>5, <1>6, BarePlus
<1>9. Y * (N * run * D) \in Int /\ P * (N * D) \in Int
  BY <1>0
<1> QED
  BY <1>7, <1>8, <1>9 DEF e, k

\* Of what is shown to the public: a rate, when enough weeks stand behind it and the line
\* explains half.
LEMMA GateHolds ==
  ASSUME NEW series \in Seq(Rates)
  PROVE  LET result == ForecastOne(series)
             public == Gated(result)
         IN  /\ "er" \in DOMAIN public
                  <=> result.points >= GatePoints /\ AtLeast(result.r2, <<1, 2>>)
             /\ Signals([m \in Markets |-> result]) # {} => "er" \in DOMAIN public
             /\ result.status = "ok" =>
                  /\ Cardinality(Measured(series)) >= MinPoints
                  /\ result = LineResult(Cardinality(Measured(series)), Fit(series).r2, Fit(series).rise,
                                         Fit(series).run, At(Fit(series), series, Len(series) + 1))
<1> DEFINE result == ForecastOne(series)
           public == Gated(result)
           N == Cardinality(Measured(series))
           line == LineResult(N, Fit(series).r2, Fit(series).rise, Fit(series).run,
                              At(Fit(series), series, Len(series) + 1))
           none == [status |-> "insufficient_data", points |-> N]
<1>1. result = IF N < MinPoints THEN none ELSE line
  BY ForecastIs
<1>2. /\ line.status = "ok" /\ line.points = N /\ "er" \in DOMAIN line
      /\ none.status = "insufficient_data" /\ none.points = N /\ "er" \notin DOMAIN none
  BY DEF LineResult
<1>3. public = IF result.status # "ok" \/ (AtLeast(result.r2, <<1, 2>>) /\ result.points >= GatePoints)
               THEN result
               ELSE [status |-> "too_volatile", points |-> result.points, r2 |-> result.r2]
  BY DEF Gated
<1>4. Signals([m \in Markets |-> result]) # {} => public.status = "ok"
  <2> SUFFICES ASSUME Signals([m \in Markets |-> result]) # {} PROVE public.status = "ok"
    OBVIOUS
  <2>1. PICK m \in Markets : Shown([k \in Markets |-> result], TRUE)[m].status = "ok"
    BY DEF Signals, Told
  <2>2. Shown([k \in Markets |-> result], TRUE)[m] = public
    BY DEF Shown
  <2> QED
    BY <2>1, <2>2
<1>5. N \in Nat /\ MinPoints \in Nat /\ GatePoints \in Nat /\ GatePoints >= MinPoints
  <2>1. Len(series) \in Nat /\ IsSeries(series, Len(series))
    BY RatesAreASeries
  <2>2. N \in Nat
    BY <2>1, MeasuredIsFinite, FS_CardinalityType
  <2> QED
    BY <2>2, ForecastAssumption
<1> HIDE DEF N, line, none, result, public
<1>6. CASE N < MinPoints
  <2>1. result = none /\ public = none /\ ~(result.points >= GatePoints)
    BY <1>1, <1>2, <1>3, <1>5, <1>6
  <2>2. public.status # "ok" /\ result.status # "ok" /\ "er" \notin DOMAIN public
    BY <1>2, <2>1
  <2> QED
    BY <1>4, <2>1, <2>2 DEF result, public
<1>7. CASE ~(N < MinPoints)
  <2>1. result = line /\ result.status = "ok" /\ "er" \in DOMAIN result /\ N >= MinPoints
    BY <1>1, <1>2, <1>5, <1>7
  <2>2. CASE AtLeast(result.r2, <<1, 2>>) /\ result.points >= GatePoints
    <3>1. public = result
      BY <1>3, <2>2
    <3> QED
      BY <2>1, <2>2, <3>1 DEF result, public, line, N
  <2>3. CASE ~(AtLeast(result.r2, <<1, 2>>) /\ result.points >= GatePoints)
    <3>1. public = [status |-> "too_volatile", points |-> result.points, r2 |-> result.r2]
      BY <1>3, <2>1, <2>3
    <3>2. public.status # "ok" /\ "er" \notin DOMAIN public
      BY <3>1
    <3> QED
      BY <1>4, <2>1, <2>3, <3>2 DEF result, public, line, N
  <2> QED
    BY <2>2, <2>3
<1> QED
  BY <1>6, <1>7

\* Whatever the rates of the weeks, the forecast says what it may.
LEMMA ForecastsAreHonest ==
  ASSUME NEW series \in Seq(Rates)
  PROVE  ForecastIsHonest(series)
<1> DEFINE result == ForecastOne(series)
           public == Gated(result)
           total == Sum(LAMBDA i : WeekRate(series, i), Measured(series))
           I == Measured(series)
           x == WeekNumbers(series)
           y == WeekRates(series)
           N == Cardinality(I)
           X == Total(x, I)
           Y == Total(y, I)
           fit == Fit(series)
           run == fit.run
           rise == fit.rise
           D == Denominator(series)
           L == Len(series)
           next == (Y * run - rise * X) + N * rise * (L + 1)
<1>1. L \in Nat /\ IsSeries(series, L)
  BY RatesAreASeries
<1>2. /\ "er" \in DOMAIN public
           <=> result.points >= GatePoints /\ AtLeast(result.r2, <<1, 2>>)
      /\ Signals([m \in Markets |-> result]) # {} => "er" \in DOMAIN public
      /\ result.status = "ok" =>
           N >= MinPoints /\ result = LineResult(N, fit.r2, rise, run, At(fit, series, L + 1))
  BY GateHolds
<1>3. ForecastOne(<<None>> \o series) = result
  BY WeeksBeforeChangeNothing
<1>4. total = Y
  BY <1>1, SumsOfSeries
<1>5. ForecastIsHonest(series)
        <=> /\ result.status = "ok" =>
                 /\ FitIsBest(series, fit)
                 /\ result.direction = "steigend" => Less(<<total, result.points * D>>, result.er)
            /\ ForecastOne(<<None>> \o series) = result
            /\ "er" \in DOMAIN public
                 <=> result.points >= GatePoints /\ AtLeast(result.r2, <<1, 2>>)
            /\ Signals([m \in Markets |-> result]) # {} => "er" \in DOMAIN public
  BY DEF ForecastIsHonest
<1>6. /\ N \in Int /\ X \in Int /\ Y \in Int
      /\ fit.n = N /\ fit.n \in Nat /\ fit.start = Y * run - rise * X
  BY <1>1, FitSolves, FitIs
<1>7. D \in Nat \ {0}
  <2>1. D = Product(Denominators(series), I) /\ \A i \in I : Denominators(series)[i] \in Nat \ {0}
    BY <1>1, DenominatorIsProduct
  <2>2. IsFiniteSet(I)
    BY <1>1, MeasuredIsFinite
  <2> HIDE DEF I, D
  <2> QED
    BY <2>1, <2>2, ProductIsBare
<1>8. X <= N * L
  BY <1>1, WeeksLieBefore
<1>9. ASSUME result.status = "ok"
      PROVE  /\ FitIsBest(series, fit)
             /\ result.direction = "steigend" => Less(<<total, result.points * D>>, result.er)
  <2>1. N >= MinPoints /\ N > 1
    <3> HIDE DEF N, result
    <3> QED
      BY <1>2, <1>6, <1>9, ForecastAssumption
  <2>2. FitIsBest(series, fit) /\ run \in Nat \ {0}
    BY <1>1, <2>1, BestFit, LineHasRun
  <2>3. ASSUME result.direction = "steigend" PROVE Less(<<Y, N * D>>, result.er)
    <3> DEFINE P == Positive(next)
    <3>1. At(fit, series, L + 1) = <<next, N * run * D>>
      <4>1. At(fit, series, L + 1) = <<fit.start + fit.n * fit.rise * (L + 1), fit.n * fit.run * D>>
        BY DEF At
      <4> HIDE DEF N, X, Y, D, L, fit
      <4> QED
        BY <1>6, <4>1
    <3>2. /\ result.direction = CASE rise > 0 -> "steigend" [] rise < 0 -> "fallend" [] OTHER -> "stabil"
          /\ result.er = <<P, N * run * D>>
      <4>1. result = LineResult(N, fit.r2, rise, run, At(fit, series, L + 1))
        BY <1>2, <1>9
      <4> HIDE DEF result, N, run, rise, D, L, next, fit
      <4> QED
        BY <3>1, <4>1 DEF LineResult
    <3>3. rise \in Int
      <4>1. rise = Covariance(x, y, I)
        BY <1>1, FitIs
      <4>2. /\ N \in Int /\ X \in Int /\ Y \in Int /\ Total(Products(x, y, I), I) \in Int
        BY <1>1, FitSolves
      <4>3. rise = N * Total(Products(x, y, I), I) - X * Y
        BY <4>1 DEF Covariance
      <4> DEFINE XY == Total(Products(x, y, I), I)
      <4> HIDE DEF N, X, Y, XY, rise
      <4>4. N * XY \in Int /\ X * Y \in Int
        BY <4>2 DEF XY
      <4> QED
        BY <4>3, <4>4 DEF XY
    <3> HIDE DEF result, N, X, Y, run, rise, D, L, fit
    <3>4. rise > 0
      BY <2>3, <3>2, <3>3
    <3>5. next \in Int
      <4>1. Y * run \in Int /\ rise * X \in Int /\ N * rise * (L + 1) \in Int
        BY <1>1, <1>6, <2>2, <3>3
      <4> QED
        BY <4>1
    <3>6. P \in Int /\ P >= next
      <4> HIDE DEF next
      <4> QED
        BY <3>5 DEF Positive
    <3>7. RisesOver(N, X, Y, L, run, rise, D, P)
      <4>1. N \in Nat \ {0} /\ rise \in Nat \ {0}
        BY <1>6, <2>1, <3>3, <3>4
      <4> HIDE DEF P
      <4> QED
        BY <1>1, <1>6, <1>7, <1>8, <2>2, <3>6, <4>1 DEF RisesOver
    <3>8. Y * (N * run * D) < P * (N * D)
      BY <3>7, RisingIsAboveTheMean
    <3> HIDE DEF P
    <3> QED
      BY <3>2, <3>8 DEF Less
  <2>4. result.points = N
    <3>1. result = LineResult(N, fit.r2, rise, run, At(fit, series, L + 1))
      BY <1>2, <1>9
    <3> HIDE DEF result, N, run, rise, L, fit
    <3> QED
      BY <3>1 DEF LineResult
  <2> QED
    BY <1>4, <2>2, <2>3, <2>4
<1> HIDE DEF result, public, total, D, fit, N
<1> QED
  BY <1>2, <1>3, <1>5, <1>9

\* The samples of a run are inputs the algorithms can meet.
LEMMA SampleLists ==
  ASSUME NEW n \in Nat, NEW list \in [1..n -> SampleBlocks]
  PROVE  NoTwins(list)
<1>1. list \in Seq(SampleBlocks) /\ Len(list) = n /\ DOMAIN list = 1..n
  OBVIOUS
<1>2. \A i \in 1..n : list[i] \in SampleBlocks
  OBVIOUS
<1>3. \A i \in 1..Len(list) : IsBlock(list[i])
  BY <1>1, <1>2, SamplesAssumption
<1>4. Len(list) \in Nat /\ DOMAIN list = 1..Len(list) /\ CiteLimit <= 5
  BY <1>1, SamplesAssumption
<1> QED
  BY <1>3, <1>4, TwinsAreSuppressed

LEMMA AlgorithmsKeepTheirWord == AlgorithmsHold
<1>1. \A n \in 0..ListLength : \A list \in [1..n -> SampleBlocks] : NoTwins(list)
  <2>1. \A n \in 0..ListLength : n \in Nat
    BY SamplesAssumption
  <2> QED
    BY <2>1, SampleLists
<1>2. \A x \in SampleScores : IsScore(x)
  BY SamplesAssumption DEF IsScore
<1>3. \A a, b \in SampleScores : NewAndStronger(a, b)
  BY <1>2, DecayOnlyLowers
<1>4. \A a, b, c \in SampleScores : ScoresAreAnOrder(a, b, c)
  BY <1>2, ScoresInOrder
<1>5. \A series \in SampleSeries : series \in Seq(Rates)
  BY SamplesAssumption
<1>6. \A series \in SampleSeries : ForecastIsHonest(series)
  BY <1>5, ForecastsAreHonest
<1> QED
  BY <1>1, <1>3, <1>4, <1>6 DEF AlgorithmsHold

\* Whatever the samples are - blocks, posts above and below the mean of their pool, series of
\* weekly rates of any length -, no two recommendations that are kept rest on nearly the same
\* posts and each that is dropped has a kept one beside it (_dedup_recommendation_candidates);
\* the decay of the breakout score only lowers, and its ranking is an order
\* (_compute_breakout_scores); and the line of a forecast is the best one near it, is published
\* only behind its gate and never rises without a rise (_linear_regression,
\* _forecast_one_market, _apply_honesty_gate).
THEOREM AlgorithmsKeepTheirPromises == Spec => []AlgorithmsHold
BY AlgorithmsKeepTheirWord, PTL

-------------------------------------------------------------------------------
(* What the model is told of the week before *)

\* The ranked posts of a pair, of those in K.
Leading(now, K) == {p \in Posts : \E pl \in Platforms, m \in Markets :
                    Specified(pl, m) /\ p \in Ranked(InWindow(ChannelsFor(pl, m), now) \cap K)}

LEMMA IdentitiesOfRanked ==
  ASSUME NEW now
  PROVE  Meant(RankedIds(Aggregate(now))) = Leading(now, Stored)
<1> DEFINE agg == Aggregate(now)
           pool(pl, m) == InWindow(ChannelsFor(pl, m), now)
           stats(pl, m) == ChannelStats(ChannelsFor(pl, m), pl, now)
<1>1. agg.per_platform = [pl \in Platforms |-> PlatformAggregation(pl, now)]
  BY DEF Aggregate
<1>2. \A pl : PlatformAggregation(pl, now).channel
                = [m \in {m \in Markets : Specified(pl, m)} |-> stats(pl, m)]
  BY DEF PlatformAggregation
<1>3. \A pl, m : stats(pl, m).ranked_posts = {[of |-> p, id |-> Identity(p)] : p \in Ranked(pool(pl, m))}
  BY DEF ChannelStats
<1> HIDE DEF agg, stats, pool
<1>4. ASSUME NEW pl \in Platforms
      PROVE  ChannelsOf(agg.per_platform[pl])
               = {stats(pl, m) : m \in {m \in Markets : Specified(pl, m)}}
  <2>1. agg.per_platform[pl].channel = [m \in {m \in Markets : Specified(pl, m)} |-> stats(pl, m)]
    BY <1>1, <1>2
  <2> DEFINE f == agg.per_platform[pl].channel
             M == {m \in Markets : Specified(pl, m)}
  <2>2. DOMAIN f = M /\ \A m \in M : f[m] = stats(pl, m)
    BY <2>1
  <2>3. ChannelsOf(agg.per_platform[pl]) = {f[m] : m \in DOMAIN f}
    BY DEF ChannelsOf
  <2> HIDE DEF f, M
  <2>4. ChannelsOf(agg.per_platform[pl]) = {stats(pl, m) : m \in M}
    BY <2>2, <2>3
  <2> QED
    BY <2>4 DEF M
<1>5. ASSUME NEW id
      PROVE  id \in RankedIds(agg) <=>
               \E pl \in Platforms, m \in Markets :
                 Specified(pl, m) /\ \E p \in Ranked(pool(pl, m)) : id = Identity(p)
  <2>1. id \in RankedIds(agg) <=>
          \E pl \in Platforms : \E ch \in ChannelsOf(agg.per_platform[pl]) :
            \E r \in ch.ranked_posts : id = r.id
    BY DEF RankedIds, AllChannels
  <2>2. \A pl \in Platforms : \A ch :
          ch \in ChannelsOf(agg.per_platform[pl])
            <=> \E m \in Markets : Specified(pl, m) /\ ch = stats(pl, m)
    BY <1>4
  <2>3. \A pl, m : (\E r \in stats(pl, m).ranked_posts : id = r.id)
                    <=> \E p \in Ranked(pool(pl, m)) : id = Identity(p)
    <3> TAKE pl, m
    <3> DEFINE S == Ranked(pool(pl, m))
    <3>1. stats(pl, m).ranked_posts = {[of |-> p, id |-> Identity(p)] : p \in S}
      BY <1>3
    <3> HIDE DEF S
    <3>2. ASSUME NEW r \in {[of |-> p, id |-> Identity(p)] : p \in S}
          PROVE  \E p \in S : r.id = Identity(p)
      OBVIOUS
    <3>3. ASSUME NEW p \in S
          PROVE  \E r \in {[of |-> x, id |-> Identity(x)] : x \in S} : r.id = Identity(p)
      <4> WITNESS [of |-> p, id |-> Identity(p)] \in {[of |-> x, id |-> Identity(x)] : x \in S}
      <4> QED
        OBVIOUS
    <3> QED
      BY <3>1, <3>2, <3>3 DEF S
  <2> QED
    BY <2>1, <2>2, <2>3
<1>6. \A pl, m : Ranked(pool(pl, m)) \subseteq Posts /\ pool(pl, m) \cap Stored = pool(pl, m)
  BY DEF Ranked, First, pool, InWindow, Between, Stored
<1>7. ASSUME NEW p, NEW q PROVE Identity(p) \in {<<"asset", q>>, <<"url", q>>} <=> p = q
  BY DEF Identity
<1>8. ASSUME NEW q
      PROVE  q \in Meant(RankedIds(agg)) <=>
               \E pl \in Platforms, m \in Markets : Specified(pl, m) /\ q \in Ranked(pool(pl, m))
  <2>1. q \in Meant(RankedIds(agg)) <=>
          q \in Posts /\ \E id \in {<<"asset", q>>, <<"url", q>>} : id \in RankedIds(agg)
    BY DEF Meant
  <2> DEFINE ids == {<<"asset", q>>, <<"url", q>>}
  <2>2. \A p : Identity(p) \in ids <=> p = q
    BY <1>7
  <2> HIDE DEF ids
  <2>3. (\E id \in ids : id \in RankedIds(agg)) <=>
          \E pl \in Platforms, m \in Markets :
            Specified(pl, m) /\ \E p \in Ranked(pool(pl, m)) : Identity(p) \in ids
    BY <1>5
  <2> QED
    BY <1>6, <2>1, <2>2, <2>3 DEF ids
<1>9. \A q : q \in Meant(RankedIds(agg)) <=>
        \E pl \in Platforms, m \in Markets : Specified(pl, m) /\ q \in Ranked(pool(pl, m))
  BY <1>8
<1>10. \A q : q \in Leading(now, Stored) <=>
        \E pl \in Platforms, m \in Markets : Specified(pl, m) /\ q \in Ranked(pool(pl, m))
  <2>1. \A pl, m : pool(pl, m) = InWindow(ChannelsFor(pl, m), now)
    BY DEF pool
  <2> QED
    BY <1>6, <2>1 DEF Leading
<1> QED
  BY <1>9, <1>10 DEF agg

\* Among fewer posts none falls behind.
LEMMA FewerIsNoWorse ==
  ASSUME IsFiniteSet(Posts), NEW S \in SUBSET Posts, NEW T \in SUBSET S, NEW p \in T,
         p \in Ranked(S)
  PROVE  p \in Ranked(T)
<1>1. {y \in T : RankedBefore(y, p)} \subseteq {y \in S : RankedBefore(y, p)}
  OBVIOUS
<1>2. IsFiniteSet({y \in S : RankedBefore(y, p)})
  BY FS_Subset
<1>3. /\ Cardinality({y \in T : RankedBefore(y, p)}) \in Nat
      /\ Cardinality({y \in S : RankedBefore(y, p)}) \in Nat
      /\ Cardinality({y \in T : RankedBefore(y, p)}) <= Cardinality({y \in S : RankedBefore(y, p)})
  BY <1>1, <1>2, FS_Subset, FS_CardinalityType
<1>4. Cardinality({y \in S : RankedBefore(y, p)}) < RankLimit
  BY DEF Ranked, First
<1>5. Cardinality({y \in T : RankedBefore(y, p)}) < RankLimit
  BY <1>3, <1>4, FiguresAssumption
<1> QED
  BY <1>5 DEF Ranked, First

\* Of a post that is not among the best although it was when fewer were stored, one that came
\* since is better.
LEMMA BestLater ==
  ASSUME IsFiniteSet(Posts), TableOk, NEW now, NEW K \in SUBSET Stored
  PROVE  /\ Leading(now, Stored) \cap K \subseteq Leading(now, K)
         /\ \A p \in Leading(now, K) \ Leading(now, Stored) :
              \E q \in Leading(now, Stored) \ K : RankedBefore(q, p)
<1>1. ASSUME NEW p \in Leading(now, Stored) \cap K PROVE p \in Leading(now, K)
  <2>1. PICK pl \in Platforms, m \in Markets :
          Specified(pl, m) /\ p \in Ranked(InWindow(ChannelsFor(pl, m), now) \cap Stored)
    BY <1>1 DEF Leading
  <2> DEFINE S == InWindow(ChannelsFor(pl, m), now) \cap Stored
             T == InWindow(ChannelsFor(pl, m), now) \cap K
  <2>2. S \in SUBSET Posts /\ T \in SUBSET S /\ p \in T
    BY <1>1, <2>1 DEF Ranked, First, Stored
  <2>3. p \in Ranked(T)
    BY <2>1, <2>2, FewerIsNoWorse
  <2> QED
    BY <1>1, <2>1, <2>3 DEF Leading
<1>2. ASSUME NEW p \in Leading(now, K) \ Leading(now, Stored)
      PROVE  \E q \in Leading(now, Stored) \ K : RankedBefore(q, p)
  <2>1. PICK pl \in Platforms, m \in Markets :
          Specified(pl, m) /\ p \in Ranked(InWindow(ChannelsFor(pl, m), now) \cap K)
    BY <1>2 DEF Leading
  <2> DEFINE P == InWindow(ChannelsFor(pl, m), now) \cap K
             Q == InWindow(ChannelsFor(pl, m), now) \cap Stored
             R == Rankings
  <2>2. /\ P \subseteq Q /\ Q \subseteq Stored /\ Q \subseteq Posts /\ p \in P /\ p \in Q
        /\ Q \ P \subseteq Stored \ K /\ RankLimit \in Nat
    BY <2>1, FiguresAssumption DEF Ranked, First, Stored
  <2>3. IsFiniteSet(P) /\ IsFiniteSet(Q)
    BY <2>2, FS_Subset
  <2>4. \A x, y \in Posts : <<x, y>> \in R <=> RankedBefore(x, y)
    BY DEF Rankings
  <2>5. ASSUME NEW S \in SUBSET Posts, NEW x \in S
        PROVE  x \in Ranked(S) <=> Cardinality(Ahead(S, R, x)) < RankLimit
    <3>1. Ahead(S, R, x) = {y \in S : RankedBefore(y, x)}
      BY <2>4 DEF Ahead
    <3> QED
      BY <3>1 DEF Ranked, First
  <2>6. Cardinality(Ahead(P, R, p)) < RankLimit /\ ~(Cardinality(Ahead(Q, R, p)) < RankLimit)
    <3>1. p \in Ranked(P) /\ p \notin Ranked(Q)
      BY <1>2, <2>1, <2>2 DEF Leading
    <3> HIDE DEF P, Q, R
    <3> QED
      BY <2>2, <2>5, <3>1
  <2>7. IsOrder(R, P \cup Q)
    BY <2>2, RankingIsOrder DEF IsOrder
  <2>8. PICK q \in Q \ P : ComesBefore(R, q, p) /\ Cardinality(Ahead(Q, R, q)) < RankLimit
    <3> HIDE DEF P, Q, R
    <3> QED
      BY <2>2, <2>3, <2>6, <2>7, NewcomerWins
  <2>9. q \in Ranked(Q) /\ q \in Posts /\ q \notin K /\ RankedBefore(q, p)
    <3> HIDE DEF P, Q, R
    <3> QED
      BY <2>2, <2>4, <2>5, <2>8 DEF ComesBefore
  <2> QED
    BY <2>1, <2>9 DEF Leading
<1> QED
  BY <1>1, <1>2

\* The best of the posts in K stay what they are while the table changes: a post keeps its
\* numbers and its date.
LEMMA BestStay ==
  ASSUME NoneIsNoPost, TableOk, TableNext \/ NextDay \/ UNCHANGED tableVars,
         NEW now, NEW K \in SUBSET Stored
  PROVE  /\ Leading(now, K)' = Leading(now, K) /\ Stored \subseteq Stored'
         /\ \A p, q \in Stored : RankedBefore(p, q)' <=> RankedBefore(p, q)
<1>1. \A p \in Stored : Kept(p)
  BY TableStep
<1>2. \A p \in Stored : RawEngagement(p)' = RawEngagement(p) /\ post'[p].views = post[p].views
  BY <1>1 DEF RawEngagement, Kept
<1>3. \A p, q \in Stored : RankedBefore(p, q)' <=> RankedBefore(p, q)
  BY <1>2 DEF RankedBefore, MoreViews
<1>4. Stored \subseteq Stored'
  BY <1>1 DEF Stored, Kept
<1>5. \A C : (InWindow(C, now) \cap K)' = InWindow(C, now) \cap K
  BY <1>1, <1>4 DEF InWindow, Between, Reference, Kept, Stored
<1>6. ASSUME NEW S, S \subseteq Stored PROVE Ranked(S)' = Ranked(S)
  BY <1>3, <1>6 DEF Ranked, First
<1> QED
  BY <1>3, <1>4, <1>5, <1>6 DEF Leading

Reported(d) == Meant(d.carried \cup d.new)
Gone(d) == Meant(d.dropped) \ Reported(d)
Visible(f) == Meant(RankedIds(f))

\* What was told as d, when K were the posts, stands beside the figures f.
Stands(K, f, d) ==
    /\ Gone(d) \cap Visible(f) = {}
    /\ \A p \in Reported(d) \ Visible(f) : \E q \in Visible(f) \ K : RankedBefore(q, p)

\* A generation as of n: what it was told is the ranking of K.
GenOk(n, K, f, d) ==
    /\ K \subseteq Stored
    /\ f # None => Visible(f) \subseteq Stored
    /\ d # None => Reported(d) = Leading(n, K) /\ Gone(d) \subseteq K
    /\ d # None /\ f # None => Stands(K, f, d)

GenInv == gen # None =>
    \E n, K, f, d : /\ gen = [now |-> n, known |-> K, figures |-> f, diff |-> d]
                    /\ GenOk(n, K, f, d)
BriefOk == /\ brief = [w \in Weeks |-> brief[w]]
           /\ \A w \in Weeks : brief[w] # None => Visible(brief[w]) \subseteq Stored

LEMMA DiffTells ==
  ASSUME NEW a, NEW b
  PROVE  Reported(Diff(a, b)) = Visible(a) /\ Gone(Diff(a, b)) \subseteq Visible(b)
<1> DEFINE A == RankedIds(a)
           B == RankedIds(b)
<1>1. /\ Diff(a, b).carried = A \cap B /\ Diff(a, b).new = A \ B
      /\ Diff(a, b).dropped = B \ A
  BY DEF Diff
<1>2. (A \cap B) \cup (A \ B) = A /\ \A p : p \in Meant(B \ A) => p \in Meant(B)
  BY DEF Meant
<1> HIDE DEF A, B
<1>3. Reported(Diff(a, b)) = Meant(A) /\ Gone(Diff(a, b)) \subseteq Meant(B)
  BY <1>1, <1>2 DEF Reported, Gone
<1> QED
  BY <1>3 DEF Visible, A, B

LEMMA GenOkStays ==
  ASSUME NoneIsNoPost, TableOk, TableNext \/ NextDay \/ UNCHANGED tableVars,
         NEW n, NEW K, NEW f, NEW d, GenOk(n, K, f, d)
  PROVE  GenOk(n, K, f, d)'
<1>1. K \in SUBSET Stored
  BY DEF GenOk
<1>2. /\ Leading(n, K)' = Leading(n, K) /\ Stored \subseteq Stored'
      /\ \A p, q \in Stored : RankedBefore(p, q)' <=> RankedBefore(p, q)
  BY <1>1, BestStay
<1>3. ASSUME d # None PROVE Reported(d)' = Leading(n, K)' /\ Gone(d)' \subseteq K
  BY <1>2, <1>3 DEF GenOk
<1>4. ASSUME f # None PROVE Visible(f)' \subseteq Stored'
  BY <1>2, <1>4 DEF GenOk
<1>5. ASSUME d # None, f # None PROVE Stands(K, f, d)'
  <2>1. Leading(n, K) \subseteq K
    BY DEF Leading, Ranked, First
  <2>2. Reported(d) \subseteq Stored /\ Visible(f) \subseteq Stored /\ Stands(K, f, d)
    BY <1>1, <1>5, <2>1 DEF GenOk
  <2> QED
    BY <1>2, <2>2 DEF Stands
<1> QED
  BY <1>1, <1>2, <1>3, <1>4, <1>5 DEF GenOk

LEMMA BeginTells ==
  ASSUME NoneIsNoPost, TableOk, BriefOk, NEW now, NEW replace, Begin(now, replace)
  PROVE  GenInv'
<1> DEFINE v == Previous(WeekOf(now))
<1>1. PICK agg, K, d :
        /\ agg = Aggregate(now) /\ K = Stored
        /\ d = IF v = None THEN None ELSE Diff(agg, brief[v])
        /\ gen' = [now |-> now, known |-> K, figures |-> None, diff |-> d]
  BY DEF Begin
<1>2. UNCHANGED tableVars
  BY DEF Begin
<1>3. ASSUME d # None PROVE Reported(d) = Leading(now, K) /\ Gone(d) \subseteq K
  <2>1. v # None /\ d = Diff(agg, brief[v])
    BY <1>1, <1>3
  <2>2. v \in Weeks /\ brief[v] # None
    <3> DEFINE E == {u \in Weeks : u < WeekOf(now) /\ brief[u] # None}
               lo == WeekOf(-WeekDays)
               hi == WeekOf(LastDay)
    <3>1. v = Max(E) /\ E # {}
      BY <2>1 DEF Previous
    <3>2. lo \in Int /\ hi \in Int
      BY FiguresAssumption, PostTableAssumption DEF WeekOf
    <3>3. E \in SUBSET (lo..hi)
      BY DEF Weeks
    <3>4. Max(E) \in E
      <4> HIDE DEF E, lo, hi
      <4> QED
        BY <3>1, <3>2, <3>3, SmallestNumber
    <3> QED
      BY <3>1, <3>4
  <2>3. Visible(brief[v]) \subseteq Stored
    BY <2>2 DEF BriefOk
  <2>4. Reported(d) = Visible(agg) /\ Gone(d) \subseteq Visible(brief[v])
    <3> HIDE DEF v
    <3> QED
      BY <2>1, DiffTells
  <2>5. Visible(agg) = Leading(now, K)
    BY <1>1, IdentitiesOfRanked DEF Visible
  <2> QED
    BY <1>1, <2>3, <2>4, <2>5
<1>4. GenOk(now, K, None, d)
  BY <1>1, <1>3 DEF GenOk
<1>5. GenOk(now, K, None, d)'
  BY <1>2, <1>4, GenOkStays
<1> QED
  BY <1>1, <1>5 DEF GenInv

LEMMA ReaggregateShows ==
  ASSUME IsFiniteSet(Posts), NoneIsNoPost, TableOk, GenInv, Reaggregate
  PROVE  GenInv'
<1>1. PICK n, K, f, d : /\ gen = [now |-> n, known |-> K, figures |-> f, diff |-> d]
                        /\ GenOk(n, K, f, d)
  BY DEF GenInv, Reaggregate
<1>2. PICK g : g = Aggregate(n)
  OBVIOUS
<1>3. gen' = [now |-> n, known |-> K, figures |-> g, diff |-> d] /\ UNCHANGED tableVars
  BY <1>1, <1>2 DEF Reaggregate
<1>4. Visible(g) = Leading(n, Stored) /\ Visible(g) \subseteq Stored
  <2>1. Leading(n, Stored) \subseteq Stored
    BY DEF Leading, Ranked, First
  <2> QED
    BY <1>2, <2>1, IdentitiesOfRanked DEF Visible
<1>5. K \in SUBSET Stored
  BY <1>1 DEF GenOk
<1>6. /\ Leading(n, Stored) \cap K \subseteq Leading(n, K)
      /\ \A p \in Leading(n, K) \ Leading(n, Stored) :
           \E q \in Leading(n, Stored) \ K : RankedBefore(q, p)
  BY <1>5, BestLater
<1>7. ASSUME d # None PROVE Stands(K, g, d)
  <2>1. Reported(d) = Leading(n, K) /\ Gone(d) \subseteq K
    BY <1>1, <1>7 DEF GenOk
  <2>2. Gone(d) \cap Reported(d) = {}
    BY DEF Gone
  <2> QED
    BY <1>4, <1>6, <2>1, <2>2 DEF Stands
<1>8. GenOk(n, K, g, d)
  BY <1>1, <1>4, <1>7 DEF GenOk
<1>9. GenOk(n, K, g, d)'
  BY <1>3, <1>8, GenOkStays
<1> QED
  BY <1>3, <1>9 DEF GenInv

LEMMA BriefsStay ==
  ASSUME NoneIsNoPost, TableOk, GenInv, BriefOk, [Next]_vars
  PROVE  BriefOk'
<1>1. TableNext \/ NextDay \/ UNCHANGED tableVars
  BY DEF Next, vars, Begin, Reaggregate, Persist, Fail
<1>2. Stored \subseteq Stored'
  BY <1>1, TableStep DEF Stored, Kept
<1>3. CASE UNCHANGED brief
  <2>1. \A w \in Weeks : Visible(brief[w])' = Visible(brief[w])
    BY <1>3 DEF Visible, Meant, RankedIds, AllChannels, ChannelsOf
  <2> QED
    BY <1>2, <1>3, <2>1 DEF BriefOk
<1>4. CASE Persist
  <2>1. PICK n, K, f, d : /\ gen = [now |-> n, known |-> K, figures |-> f, diff |-> d]
                          /\ GenOk(n, K, f, d)
    BY <1>4 DEF GenInv, Persist
  <2>2. f # None /\ brief' = [brief EXCEPT ![WeekOf(n)] = f]
    BY <1>4, <2>1 DEF Persist
  <2>3. Visible(f) \subseteq Stored
    BY <2>1, <2>2 DEF GenOk
  <2>4. ASSUME NEW w \in Weeks, brief'[w] # None PROVE Visible(brief[w])' \subseteq Stored'
    <3>1. PICK b : b = brief'[w]
      OBVIOUS
    <3>2. b = f \/ b = brief[w]
      BY <2>2, <3>1 DEF BriefOk
    <3>3. Visible(b) \subseteq Stored
      BY <2>3, <2>4, <3>1, <3>2 DEF BriefOk
    <3>4. Visible(brief[w])' = Visible(b)
      BY <3>1 DEF Visible, Meant, RankedIds, AllChannels, ChannelsOf
    <3> QED
      BY <1>2, <3>3, <3>4
  <2>5. brief' = [w \in Weeks |-> brief'[w]]
    BY <2>2 DEF BriefOk
  <2> QED
    BY <2>4, <2>5 DEF BriefOk
<1> QED
  BY <1>3, <1>4 DEF Next, Begin, Reaggregate, Fail, vars

LEMMA GenStep ==
  ASSUME IsFiniteSet(Posts), NoneIsNoPost, TableOk, GenInv, BriefOk, [Next]_vars
  PROVE  GenInv'
<1>1. CASE UNCHANGED gen /\ (TableNext \/ NextDay \/ UNCHANGED tableVars)
  <2> SUFFICES ASSUME gen' # None PROVE GenInv'
    BY DEF GenInv
  <2>1. PICK n, K, f, d : /\ gen = [now |-> n, known |-> K, figures |-> f, diff |-> d]
                          /\ GenOk(n, K, f, d)
    BY <1>1 DEF GenInv
  <2>2. GenOk(n, K, f, d)'
    BY <1>1, <2>1, GenOkStays
  <2> QED
    BY <1>1, <2>1, <2>2 DEF GenInv
<1>2. CASE \E now \in Anchors, replace \in BOOLEAN : Begin(now, replace)
  BY <1>2, BeginTells
<1>3. CASE Reaggregate
  BY <1>3, ReaggregateShows
<1>4. CASE gen' = None
  BY <1>4 DEF GenInv
<1> QED
  BY <1>1, <1>2, <1>3, <1>4 DEF Next, Persist, Fail, vars

LEMMA StandsInGen == GenInv => ComparisonStands
<1> SUFFICES ASSUME GenInv, gen # None, gen.diff # None, gen.figures # None
             PROVE  Stands(gen.known, gen.figures, gen.diff)
  BY DEF ComparisonStands, Stands, Reported, Gone, Visible
<1>1. PICK n, K, f, d : /\ gen = [now |-> n, known |-> K, figures |-> f, diff |-> d]
                        /\ GenOk(n, K, f, d)
  BY DEF GenInv
<1>2. gen.known = K /\ gen.figures = f /\ gen.diff = d
  BY <1>1
<1> QED
  BY <1>1, <1>2 DEF GenOk

\* For every finite set of posts, every window and length of the ranking and every change of the
\* table between the two aggregations: what the model is told of the week before is true of the
\* ranking it is shown, but for posts that came in between and beat the missing ones
\* (generate_and_persist_report, generate_weekly_report).
THEOREM ComparisonOutlivesTheWait ==
  ASSUME IsFiniteSet(Posts), NoneIsNoPost
  PROVE  Spec => []ComparisonStands
<1> DEFINE Settled == TableOk /\ GenInv /\ BriefOk
<1>1. Init => Settled
  <2>1. Init => TableOk
    BY TableOkInit DEF Init
  <2>2. Init => GenInv /\ BriefOk
    BY DEF Init, GenInv, BriefOk
  <2> QED
    BY <2>1, <2>2
<1>2. [Next]_vars => TableNext \/ NextDay \/ UNCHANGED tableVars
  BY DEF Next, vars, Begin, Reaggregate, Persist, Fail
<1>3. Settled /\ [Next]_vars => Settled'
  BY <1>2, TableStep, GenStep, BriefsStay
<1>4. Settled => ComparisonStands
  BY StandsInGen
<1> QED
  BY <1>1, <1>3, <1>4, PTL DEF Spec
===============================================================================
