------------------------------- MODULE PairBrief -------------------------------
(* The weekly brief of one studio pair, from the posts to the stored row and back          *)
(* (backend/app/services/insight_engine.py): aggregate_pair, the comparison with the       *)
(* previous brief, and the row. A generation aggregates twice, for the comparison and for    *)
(* the model, and the posts go on changing between the two and while the model writes. One  *)
(* generation at a time: BriefGeneration has the lock that sees to it.                     *)
EXTENDS Recommendations

CONSTANTS ValueRank,   \* the alphabetical rank of the values recommendations are about
          MaxBriefs    \* bound: generations

ASSUME PairBriefAssumption == MaxBriefs \in Nat

VARIABLES brief,       \* brief[w]: the figures in the insight_report of week w, or None
          gen,         \* the generation under way, or None
          begun        \* generations begun

vars == <<tableVars, brief, gen, begun>>

WeekOf(d) == d \div WeekDays
Weeks == WeekOf(-WeekDays)..WeekOf(LastDay)

\* `now` of the callers: the Monday cron takes yesterday, the report page the last Sunday, an
\* admin yesterday or today.
Anchors == {today, today - 1, WeekOf(today) * WeekDays - 1}

---------------------------------------------------------------------------------
(* aggregate_pair *)

Aggregate(now) ==
    LET list == InOrder(Candidates(now), LAMBDA v : ValueRank[v])
        out == Suppressed(list)
    IN  [per_platform |-> [pl \in Platforms |-> PlatformAggregation(pl, now)],
         distribution |-> DaysToReleaseDistribution(now),
         recommendations |-> {list[i] : i \in DOMAIN list \ out},
         suppressed |-> {list[i] : i \in out}]

---------------------------------------------------------------------------------
(* Identities: what a ranked post is known by *)

ChannelsOf(pa) == {pa.channel[m] : m \in DOMAIN pa.channel}
AllChannels(agg) == UNION {ChannelsOf(agg.per_platform[pl]) : pl \in Platforms}

RankedIds(agg) == UNION {{r.id : r \in ch.ranked_posts} : ch \in AllChannels(agg)}

\* The posts a set of identities stands for.
Meant(ids) == {p \in Posts : {<<"asset", p>>, <<"url", p>>} \cap ids # {}}

Diff(now, before) ==
    LET new == RankedIds(now)
        old == RankedIds(before)
    IN  [carried |-> new \cap old, new |-> new \ old, dropped |-> old \ new]

---------------------------------------------------------------------------------
(* generate_and_persist_report *)

TypeOK ==
    /\ TableTypeOK
    /\ \A w \in Weeks : brief[w] # None => Meant(RankedIds(brief[w])) \subseteq Stored
    /\ gen # None => WeekOf(gen.now) \in Weeks /\ gen.known \subseteq Posts
    /\ begun \in 0..MaxBriefs

Init ==
    /\ TableInit
    /\ brief = [w \in Weeks |-> None]
    /\ gen = None
    /\ begun = 0

\* The newest brief of an earlier week.
Previous(w) ==
    LET earlier == {v \in Weeks : v < w /\ brief[v] # None}
    IN  IF earlier = {} THEN None ELSE Max(earlier)

\* The first aggregation, and what the model is told of the week before. Only a caller that
\* asks for a replacement gets past an existing row. `known`, the posts of this moment, is for
\* the properties to look back at.
Begin(now, replace) ==
    LET v == Previous(WeekOf(now)) IN
    /\ gen = None /\ begun < MaxBriefs
    /\ brief[WeekOf(now)] = None \/ replace
    /\ \E agg \in {Aggregate(now)} :
         gen' = [now |-> now, known |-> Stored, figures |-> None,
                 diff |-> IF v = None THEN None ELSE Diff(agg, brief[v])]
    /\ begun' = begun + 1
    /\ UNCHANGED <<tableVars, brief>>

\* generate_weekly_report aggregates once more, as of the same moment: the figures the model
\* is shown.
MUT_Reaggregate ==
    /\ gen # None /\ gen.figures = None
    /\ gen' = [gen EXCEPT !.figures = Aggregate(today)]
    /\ UNCHANGED <<tableVars, brief, begun>>
Reaggregate ==
    /\ gen # None /\ gen.figures = None
    /\ gen' = [gen EXCEPT !.figures = Aggregate(gen.now)]
    /\ UNCHANGED <<tableVars, brief, begun>>

\* An answer that stands up to the figures the model was shown (BriefLLM has the attempts) is
\* stored together with them.
Persist ==
    /\ gen # None /\ gen.figures # None
    /\ brief' = [brief EXCEPT ![WeekOf(gen.now)] = gen.figures]
    /\ gen' = None
    /\ UNCHANGED <<tableVars, begun>>

\* No acceptable answer after the retries, or an error: nothing is stored.
Fail ==
    /\ gen # None
    /\ gen' = None
    /\ UNCHANGED <<tableVars, brief, begun>>

\* The model looks no further than the last of MaxBriefs generations.
Next ==
    \/ /\ gen # None \/ begun < MaxBriefs
       /\ TableNext \/ NextDay
       /\ UNCHANGED <<brief, gen, begun>>
    \/ \E now \in Anchors, replace \in BOOLEAN : Begin(now, replace)
    \/ Reaggregate
    \/ Persist
    \/ Fail

Spec == Init /\ [][Next]_vars

---------------------------------------------------------------------------------
(* What must hold *)

\* The model is told which posts are still among the best, new there or gone, and is then shown
\* a ranking made later (generate_and_persist_report, generate_weekly_report). The two may
\* differ, but what it was told stays true: a post it was told is gone is not in the ranking it
\* is shown, and one it was told is there is missing only because a post that came in between
\* has beaten it.
ComparisonStands ==
    gen # None /\ gen.diff # None /\ gen.figures # None =>
        LET told == Meant(gen.diff.carried \cup gen.diff.new)
            gone == Meant(gen.diff.dropped) \ told
            shown == Meant(RankedIds(gen.figures))
        IN  /\ gone \cap shown = {}
            /\ \A p \in told \ shown : \E q \in shown \ gen.known : RankedBefore(q, p)

\* A ranked post whose reference date is still in the window loses its place only to a post
\* the pool did not have before: the numbers of a post never change, so the same posts are
\* never ranked differently from one day to the next (_ranked_posts_for_channel).
Pool(pl, m) == InWindow(ChannelsFor(pl, m), today)
LeavesOnlyWhenBeaten ==
    [][\A pl \in Platforms, m \in Markets :
         \A p \in Ranked(Pool(pl, m)) \ Ranked(Pool(pl, m))' :
            p \in Pool(pl, m)' => Ranked(Pool(pl, m))' \ Pool(pl, m) # {}]_vars

\* Two briefs are compared by asset id; the post's address stands in only for briefs from
\* before assets had ids (_extract_ranked_post_identities). So no post of the comparison is
\* both new and dropped.
NoPostNewAndDropped ==
    gen # None /\ gen.diff # None =>
        \A p \in Posts : ~({<<"asset", p>>, <<"url", p>>} \cap gen.diff.new # {}
                           /\ {<<"asset", p>>, <<"url", p>>} \cap gen.diff.dropped # {})
================================================================================
