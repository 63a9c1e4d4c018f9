---------------------------- MODULE Recommendations ----------------------------
(* The recommendation blocks of a pair: every value of four dimensions whose posts of the  *)
(* last seven days are activated clearly above or below the pair's median, and the         *)
(* removal of blocks that cite nearly the same posts (_compute_recommendation_pair in      *)
(* backend/app/services/insight_engine.py).                                               *)
EXTENDS PairFigures, Quotients, Sequences

CONSTANTS RecentDays,    \* the seven days of _build_recommendation_candidates_with_source
          MinEvidence,   \* the smallest sample, of the pair, of a value and of its citations: 3
          CiteLimit      \* the most posts a block cites: 5

ASSUME RecommendationAssumption ==
    RecentDays \in Nat /\ MinEvidence \in Nat \ {0} /\ CiteLimit \in Nat

\* The cross tabs, from the most specific one on, and the dimension each reports to.
Tabs == {"format_vocab", "lifecycle_stage", "duration_bucket", "days_to_release_bucket"}
TabRank(tab) == IF tab \in {"format_vocab", "lifecycle_stage"} THEN 0 ELSE 1
Dimension(tab) == IF tab \in {"format_vocab", "duration_bucket"} THEN "format" ELSE "cadence"
ValueIn(tab, p) ==
    CASE tab = "format_vocab" -> post[p].analysis.format
      [] tab = "lifecycle_stage" -> post[p].analysis.stage
      [] tab = "duration_bucket" -> DurationBucket(Seconds[p])
      [] OTHER -> ReleaseBucket(p)

\* Recent posts with an analysis the classifier was sure of.
Qualifying(now) ==
    {p \in Between(ChannelsByHandle, now - RecentDays, now) :
        post[p].analysis # None /\ post[p].analysis.sure}

Rate(p) == Activation(p, Platform[ChannelOf[p]])
Livelier(p, q) == Less(Rate(q), Rate(p)) \/ (~Less(Rate(p), Rate(q)) /\ p < q)

\* The block of one value, cited by its liveliest posts.
Block(tab, value, S, base) ==
    [tab |-> tab, dimension |-> Dimension(tab), value |-> value,
     effect |-> Over(Median(S, Rate), base), sample |-> Cardinality(S),
     cited |-> First(S, CiteLimit, Livelier)]

Striking(x) == Less(<<3, 2>>, x) \/ Less(x, <<1, 2>>)

Candidates(now) ==
    LET Q == Qualifying(now)
        base == Median(Q, Rate)
        cell(tab, value) == {p \in Q : ValueIn(tab, p) = value}
        blocks == {Block(tab, ValueIn(tab, p), cell(tab, ValueIn(tab, p)), base) :
                     tab \in Tabs, p \in Q}
    IN  IF Cardinality(Q) < MinEvidence \/ base[1] = 0 THEN {}
        ELSE {b \in blocks : b.value # None /\ b.sample >= MinEvidence /\ Striking(b.effect)}

\* abs(effect_size - 1.0)
Strength(b) == <<IF b.effect[1] > b.effect[2] THEN b.effect[1] - b.effect[2]
                 ELSE b.effect[2] - b.effect[1], b.effect[2]>>

\* _jaccard_index at the threshold of 0.8.
NearlySame(a, b) ==
    5 * Cardinality(a.cited \cap b.cited) >= 4 * Cardinality(a.cited \cup b.cited)

\* Block a wins against block b, which comes after it in the list.
Wins(a, b) ==
    \/ a.sample > b.sample
    \/ a.sample = b.sample /\ Less(Strength(b), Strength(a))
    \/ /\ a.sample = b.sample /\ ~Less(Strength(a), Strength(b))
       /\ ~Less(Strength(b), Strength(a)) /\ TabRank(a.tab) <= TabRank(b.tab)

\* One round of the outer loop: block i meets the remaining later ones in turn until it
\* loses. The result is the set of suppressed positions.
Round(list, gone, i) ==
    LET rivals == {j \in (i + 1)..Len(list) : j \notin gone /\ NearlySame(list[i], list[j])}
        stronger == {j \in rivals : ~Wins(list[i], list[j])}
        beaten == {j \in rivals : \A k \in stronger : j < k}
    IN  IF i \in gone THEN gone
        ELSE gone \cup beaten \cup (IF stronger = {} THEN {} ELSE {i})

\* _dedup_recommendation_candidates: the positions suppressed in the end.
Suppressed(list) ==
    LET after[i \in 0..Len(list)] == IF i = 0 THEN {} ELSE Round(list, after[i - 1], i)
    IN  after[Len(list)]

\* The order in which the candidates meet: by dimension, strength and value.
InOrder(B, ValueRank(_)) ==
    LET before(a, b) ==
          \/ a.dimension = "cadence" /\ b.dimension = "format"
          \/ a.dimension = b.dimension /\ Less(Strength(b), Strength(a))
          \/ /\ a.dimension = b.dimension /\ ~Less(Strength(a), Strength(b))
             /\ ~Less(Strength(b), Strength(a))
             /\ <<ValueRank(a.value), a.tab>> # <<ValueRank(b.value), b.tab>>
             /\ \/ ValueRank(a.value) < ValueRank(b.value)
                \/ ValueRank(a.value) = ValueRank(b.value) /\ TabRank(a.tab) < TabRank(b.tab)
    IN  [i \in 1..Cardinality(B) |->
            CHOOSE a \in B : Cardinality({b \in B : before(b, a)}) = i - 1]
================================================================================
