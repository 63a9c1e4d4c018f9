------------------------------ MODULE WeekEvidence ------------------------------
(* What the cutter's and the designer's weekly briefing may call a pattern                  *)
(* (weekly_briefing_evidence.py): posts of the week, read from the ranked lists stored with *)
(* the pair briefs and the segment roundups (segment_roundup.py), that reach the upper      *)
(* quarter of their platform over enough different titles. The rows are those of one run,   *)
(* made from the table as it is.                                                           *)
EXTENDS PairFigures, Quotients

CONSTANTS Segment,      \* Segment[c]: Channel.segment, or None for the channels of a pair
          SegmentDays,  \* ROUNDUP_DEFAULT_WINDOW_DAYS: 14
          SegmentTop,   \* ROUNDUP_DEFAULT_TOP_POSTS_N: 8
          P75Weeks,     \* cutter_weekly_p75_window_weeks
          P75Sample,    \* cutter_weekly_p75_min_sample
          MinPosts,     \* cutter_weekly_min_posts
          MinDistinct   \* cutter_weekly_min_distinct_keys

\* _select_channels_for_segment: a channel of a pair has no segment.
ASSUME EvidenceAssumption ==
    /\ {SegmentDays, SegmentTop, P75Weeks, P75Sample, MinPosts, MinDistinct} \subseteq Nat
    /\ P75Sample > 0
    /\ \A c \in Channels : Segment[c] # None => Handle[c] \notin HandlesOfPair

Segments == {Segment[c] : c \in Channels} \ {None}
Week(d) == d \div WeekDays

---------------------------------------------------------------------------------
(* aggregate_segment *)

SegmentAggregation(s, now) ==
    LET of == {c \in Channels : Segment[c] = s}
        posts(c) == Between({c}, now - SegmentDays, now)
        stats(c) == [posts_count |-> Cardinality(posts(c)),
                     engagement |-> <<MapThenSumSet(Engagement, posts(c)), Cardinality(posts(c))>>,
                     duration |-> <<MapThenSumSet(LAMBDA p : Seconds[p], Timed(posts(c))),
                                    Cardinality(Timed(posts(c)))>>,
                     top_posts |-> First(posts(c), SegmentTop, RankedBefore)]
    IN  [iso_week |-> Week(now), channels |-> [c \in of |-> stats(c)],
         channels_with_posts |-> Cardinality({c \in of : posts(c) # {}}),
         total_posts |-> MapThenSumSet(LAMBDA c : Cardinality(posts(c)), of)]

---------------------------------------------------------------------------------
(* The posts of the week (collect_week_posts) *)

EngagementRate(p) == <<Positive(post[p].likes), post[p].views>>

\* Without a publication date the week of a post cannot be proved.
MUT_OfWeek(p, w) == post[p].published # None /\ post[p].views > 0
OfWeek(p, w) == post[p].published # None /\ Week(post[p].published) = w /\ post[p].views > 0

\* _candidate_from_ranked_post: a title, else the source, tells candidates apart.
Candidate(p, source) ==
    [of |-> p, er |-> EngagementRate(p), title |-> TitleFor(p),
     key |-> IF TitleFor(p) # None THEN TitleFor(p) ELSE source]

\* Pair briefs are read before roundups, and a post counts where it is met first.
WeekPosts(pl, w, now) ==
    LET fromPair == UNION {Ranked(InWindow(ChannelsFor(pl, m), now)) : m \in Markets}
        fromSegment(c) == SegmentAggregation(Segment[c], now).channels[c].top_posts \ fromPair
        of(S, source) == {Candidate(p, source) : p \in {q \in S : OfWeek(q, w)}}
    IN  of(fromPair, "pair")
        \cup UNION {of(fromSegment(c), <<Segment[c], c>>) :
                      c \in {d \in Channels : Segment[d] # None /\ Platform[d] = pl}}

---------------------------------------------------------------------------------
(* The threshold and the check *)

\* compute_platform_p75, over all posts of the last weeks; None when they are too few.
Quartile(pl, w) ==
    LET S == {p \in Stored : /\ Platform[ChannelOf[p]] = pl /\ post[p].views > 0
                             /\ Week(Reference(p)) \in w - P75Weeks + 1..w}
        n == Cardinality(S)
        below(p) == {q \in S : Less(EngagementRate(q), EngagementRate(p))
                               \/ (~Less(EngagementRate(p), EngagementRate(q)) /\ q < p)}
        at(k) == EngagementRate(CHOOSE p \in S : Cardinality(below(p)) = k)
        lo == (3 * (n - 1)) \div 4
        f == (3 * (n - 1)) % 4
    IN  IF n < P75Sample THEN None
        ELSE IF f = 0 THEN at(lo)
        ELSE Plus(<<at(lo)[1] * (4 - f), at(lo)[2] * 4>>, <<at(lo + 1)[1] * f, at(lo + 1)[2] * 4>>)

\* check_platform_pattern
Check(candidates, p75) ==
    LET above == {c \in candidates : AtLeast(c.er, p75)}
        keys == {c.key : c \in above}
    IN  IF p75 = None THEN [status |-> "no_threshold", supporting |-> {}, keys |-> {}]
        ELSE [status |-> IF Cardinality(above) >= MinPosts /\ Cardinality(keys) >= MinDistinct
                         THEN "pattern_released" ELSE "no_pattern",
              supporting |-> above, keys |-> keys]

\* build_weekly_evidence
Evidence(now) ==
    LET w == Week(now)
        found == [pl \in Platforms |-> WeekPosts(pl, w, now)]
        all == UNION {found[pl] : pl \in Platforms}
    IN  [platforms |-> [pl \in Platforms |-> Check(found[pl], Quartile(pl, w))],
         total |-> Cardinality(all),
         title_key_share |-> <<Cardinality({c \in all : c.title # None}), Cardinality(all)>>]

---------------------------------------------------------------------------------
(* What must hold *)

\* "It can miss a real pattern but never make up one" (weekly_briefing_evidence.py): whatever
\* is cut from the stored lists, a released pattern is one of the whole table too, seen by
\* somebody who looks at every post published in that week.
NoFalsePattern ==
    \A pl \in Platforms :
      LET w == Week(today)
          released == Evidence(today).platforms[pl]
          source(p) == IF ChannelOf[p] \in ChannelsByHandle THEN "pair"
                       ELSE <<Segment[ChannelOf[p]], ChannelOf[p]>>
          everything == {Candidate(p, source(p)) :
                           p \in {q \in Stored : /\ Platform[ChannelOf[q]] = pl /\ post[q].views > 0
                                                 /\ post[q].published # None
                                                 /\ Week(post[q].published) = w}}
      IN  released.status = "pattern_released" =>
            /\ Check(everything, Quartile(pl, w)).status = "pattern_released"
            /\ released.supporting \subseteq everything
================================================================================
