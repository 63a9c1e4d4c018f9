--------------------------------- MODULE Advice ---------------------------------
(* What becomes of the advice of the pattern report: how many weeks a finding lasts and how *)
(* much of an advice is confirmed a week later (recommendation_snapshot.py), who followed   *)
(* it and with what effect (beweis_loop.py, wir_segment.py), and the posts it is shown with *)
(* (the evidence of pattern_briefing.py, sound_trends.py, the pages of insights.py).        *)
EXTENDS Campaigns, WeekEvidence

CONSTANTS OwnChannels,       \* the channels marked as own
          Sound,             \* Sound[p]: the sound a post carries, or None
          HistoryWeeks,      \* MAX_HISTORIE_WOCHEN: 12
          TitleMinChannels,  \* TITLE_MIN_CHANNELS: 2
          MaxPatterns,       \* MAX_PATTERNS_PER_BRIEFING: 6
          PatternExamples,   \* EXAMPLES_PER_PATTERN: 5
          PerTitle,          \* MAX_EXAMPLES_PER_TITLE_IN_GENRE: 2
          MinSound,          \* MIN_POSTS_PER_SOUND: 2
          TopSounds          \* TOP_SOUNDS: 15

ASSUME AdviceAssumption ==
    /\ OwnChannels \subseteq Channels
    /\ {HistoryWeeks, TitleMinChannels, MaxPatterns, PatternExamples, PerTitle, MinSound, TopSounds}
         \subseteq Nat
    /\ PatternExamples > 0 /\ PerTitle > 0

NameOf(cell) == <<cell.dim, cell.value>>

---------------------------------------------------------------------------------
(* The snapshots of the weeks. A history gives some weeks a row: a set of entries. Rows of   *)
(* before the verdicts were recorded have entries without one, all of them advice.          *)

Entry(name, verdict) == [name |-> name, verdict |-> verdict]
SnapshotRow(cells) == {Entry(NameOf(x), x.breakout_verdict) : x \in With(cells, Strong)}
OldRow(cells) == {Entry(NameOf(x), None) : x \in With(cells, {"over"})}

\* _zellen_index
OverOf(row) == {e.name : e \in {f \in row : f.verdict \in {None, "over"}}}
UnderOf(row) == {e.name : e \in {f \in row : f.verdict = "under"}}
KnowsVerdict(row) == \E e \in row : e.verdict # None

Has(history, w) == w \in DOMAIN history

\* annotiere_bestaendigkeit: the how-manieth week in a row a finding has its verdict, or None
\* when the week before cannot tell. A missing week ends the count.
MUT_Carries(history, w, x) ==
    ~Has(history, w)
      \/ NameOf(x) \in IF x.breakout_verdict = "over" THEN OverOf(history[w]) ELSE UnderOf(history[w])
Carries(history, w, x) ==
    /\ Has(history, w)
    /\ NameOf(x) \in IF x.breakout_verdict = "over" THEN OverOf(history[w]) ELSE UnderOf(history[w])

WeeksInARow(history, w, x) ==
    IF Has(history, w - 1) /\ (x.breakout_verdict = "over" \/ KnowsVerdict(history[w - 1]))
    THEN 1 + Max({k \in 0..HistoryWeeks : \A i \in 1..k : Carries(history, w - i, x)})
    ELSE None

\* compute_bewaehrung: of the latest pairs of weeks, how much of the advice of the first one
\* stood in the second one.
ProvenWeeks(history) ==
    LET pairs == {w \in DOMAIN history : Has(history, w + 1) /\ OverOf(history[w]) # {}}
    IN  {w \in pairs : Cardinality({v \in pairs : v > w}) < HistoryWeeks}
Proven(history) ==
    [w \in ProvenWeeks(history) |->
       [advised |-> OverOf(history[w]), confirmed |-> OverOf(history[w]) \cap OverOf(history[w + 1])]]

\* trailer_patterns_public: each finding with its trend and, when the report is of all markets
\* like the snapshots, how long it has lasted.
PatternsPage(history, m, cells, before) ==
    {[cell |-> x, trend |-> Trend(before, x),
      weeks |-> IF m = None THEN WeeksInARow(history, Week(today), x) ELSE None] : x \in cells}

---------------------------------------------------------------------------------
(* Own posts *)

IsOwn(p) == ChannelOf[p] \in OwnChannels \/ TitleOf(p) \in Projects

\* compute_wir_segment: advised, done, effect.
OwnSegment(ctx, cells) ==
    LET done(x) == {p \in PostsForCell(ctx, x.dim, x.value) : IsOwn(p)}
        line(x, D) == [cell |-> x, done |-> D,
                       effect |-> IF D = {} THEN None ELSE Median(D, LAMBDA p : ctx.lift[p])]
    IN  IF OwnChannels \cup Projects = {} THEN {} ELSE {line(x, done(x)) : x \in With(cells, {"over"})}

\* compute_beweis_loop: the advice of week w against the own posts detected in the week after
\* it, measured as the report of the end of that week would.
FollowingWeek(w) == (w + 1) * WeekDays..(w + 2) * WeekDays - 1
EndOfFollowing(w) == (w + 2) * WeekDays

FollowedBy(ctx, w) == {p \in ctx.usable : IsOwn(p) /\ post[p].detected \in FollowingWeek(w)}

Follow(ctx, own, name) ==
    LET hit == {p \in own : FacetOf(name[1], p) = name[2]}
    IN  [name |-> name, hit |-> hit,
         worked |-> IF hit = {} THEN None
                    ELSE AtLeast(Median(hit, LAMBDA p : ctx.lift[p]), <<1, 1>>)]

ProofOf(ctx, row, w) == {Follow(ctx, FollowedBy(ctx, w), name) : name \in OverOf(row)}
ProofLoop(history, now) ==
    LET weeks == {w \in DOMAIN history : Cardinality({v \in DOMAIN history : v > w}) < HistoryWeeks}
    IN  [w \in IF OwnChannels \cup Projects = {} THEN {} ELSE weeks |->
           [finished |-> EndOfFollowing(w) <= now,
            advice |-> ProofOf(Context(Stored, None, EndOfFollowing(w)), history[w], w)]]

---------------------------------------------------------------------------------
(* The posts an advice is shown with *)

\* trailer_pattern_examples: the posts behind a cell of the report of market m.
ExamplesPage(ctx, x) ==
    LET page(members) ==
          [cell_size |-> Cardinality(members),
           examples |-> {p \in members :
                           Cardinality({q \in members : Less(ctx.lift[p], ctx.lift[q])}) < MaxExamples}]
    IN  page(PostsForCell(ctx, x.dim, x.value))

\* build_pattern_evidence: the strongest cells of a mode, from the best to the worst, each with
\* its best posts; of one title at most PerTitle posts under a genre. A title stands for its name.
TitleCells(ctx) ==
    {CellOver(ctx, ctx.usable, "title", t, {p \in ctx.usable : TitleOf(p) = t}, TitleMinChannels) :
       t \in {TitleOf(p) : p \in ctx.usable} \ {None}}

Signal(x) ==
    LET a == x.rate[1] * x.expected[2] - x.expected[1] * x.rate[2]
    IN  IF a < 0 THEN <<-Clearness(x)[1], Clearness(x)[2]>> ELSE Clearness(x)
Best(X, n) == {x \in X : Cardinality({y \in X : Less(Signal(x), Signal(y))}) < n}

Above(ctx, p, q) ==
    Less(ctx.lift[q], ctx.lift[p]) \/ (~Less(ctx.lift[p], ctx.lift[q]) /\ p < q)
Mixed(ctx, S) ==
    {p \in S : TitleOf(p) = None
               \/ Cardinality({q \in S : TitleOf(q) = TitleOf(p) /\ Above(ctx, q, p)}) < PerTitle}
ShownPosts(ctx, S) == {p \in S : Cardinality({q \in S : Above(ctx, q, p)}) < PatternExamples}

BriefingEvidence(mode, ctx, cells) ==
    LET of == IF mode = "genre" THEN {x \in cells : x.dim = "genre"} ELSE TitleCells(ctx)
        examples(S) == ShownPosts(ctx, IF mode = "genre" THEN Mixed(ctx, S) ELSE S)
    IN  {[cell |-> x, examples |-> examples(x.of)] :
           x \in Best({y \in of : y.breakout_verdict # "insufficient"}, MaxPatterns)}

\* validate_baustein_citations: a text stays when every post it cites was shown to the model.
Citable(evidence) == UNION {x.examples : x \in evidence}
KeptTexts(texts, evidence) == {b \in texts : b.cites \subseteq Citable(evidence)}

\* compute_sound_trends
SoundTrends(ctx) ==
    LET carries(s) == {p \in ctx.usable : Platform[ChannelOf[p]] = "tiktok" /\ Sound[p] = s}
        row(s, S) == [sound |-> s, posts |-> S, median |-> Median(S, LAMBDA p : ctx.lift[p]),
                      example |-> {p \in S : \A q \in S : ~Less(ctx.lift[p], ctx.lift[q])}]
        rows == {row(s, carries(s)) : s \in {t \in {Sound[p] : p \in Posts} \ {None} :
                                               Cardinality(carries(t)) >= MinSound /\ carries(t) # {}}}
        before(x, y) == \/ Less(y.median, x.median)
                        \/ /\ ~Less(x.median, y.median)
                           /\ Cardinality(x.posts) > Cardinality(y.posts)
    IN  {x \in rows : Cardinality({y \in rows : before(y, x)}) < TopSounds}

---------------------------------------------------------------------------------
(* What must hold *)

\* Snapshots that may stand beside the live report: of this week and the two before it, each
\* missing, empty, of the old format, or with the findings of now or of a week ago. The row of a
\* week is frozen by the run of that week; the page recomputes its report at every request, before
\* that run or after the table has changed again.
Histories(cells, before) ==
    LET rows == {{}, SnapshotRow(cells), OldRow(cells), SnapshotRow(before)}
    IN  UNION {[S -> rows] : S \in SUBSET (Week(today) - 2..Week(today))}

\* "The n-th week in a row" counts only what the snapshots prove (annotiere_bestaendigkeit), and
\* the track record counts the same snapshots (compute_bewaehrung). An advice in its n-th week is
\* advice of each of the n-1 weeks before, and those of them that are over are confirmed in the
\* record. For last week the frozen row of this week decides: the lasting advices of the page are
\* last week's that the live report still gives, and of these the record has confirmed the ones
\* that stand in the frozen row, too.
StreaksAreProven ==
    LET this == Week(today)
        names(lines) == {NameOf(l.cell) : l \in lines}
        lasting(lines) == {l \in lines : l.weeks \notin {None, 1}}
        agree(h, lines, record) ==
          /\ \A l \in lines : l.weeks # None =>
               \A i \in 2..l.weeks - 1 :
                 this - i \in DOMAIN record /\ NameOf(l.cell) \in record[this - i].confirmed
          /\ this - 1 \in DOMAIN record =>
               /\ names(lasting(lines)) = record[this - 1].advised \cap names(lines)
               /\ names(lasting(lines)) \cap OverOf(h[this])
                    = record[this - 1].confirmed \cap names(lines)
        all(cells, before) ==
          \A h \in Histories(cells, before) :
            agree(h, PatternsPage(h, None, With(cells, {"over"}), before), Proven(h))
    IN  all(Report(None, None, today).cells, Report(None, None, today - WeekDays).cells)

BehindToday(ctx, cells, all) ==
    LET capped(e, q) == /\ TitleOf(q) # None
                        /\ Cardinality({p \in e.examples : TitleOf(p) = TitleOf(q)}) = PerTitle
    IN  /\ \A e \in BriefingEvidence("genre", ctx, cells) :
             /\ e.examples # {} /\ e.examples \subseteq e.cell.of
             /\ \A p \in e.examples, q \in e.cell.of \ e.examples :
                  Less(ctx.lift[p], ctx.lift[q]) => capped(e, q)
        /\ \A e \in BriefingEvidence("title", ctx, cells) :
             e.cell.of = PostsOf(e.cell.value) \cap all
        /\ \A l \in OwnSegment(ctx, cells) :
             l.done = {p \in Search(ctx, [d \in {l.cell.dim} |-> l.cell.value], None).hits : IsOwn(p)}
        /\ LET released == BriefingEvidence("genre", ctx, cells)
           IN  \A text \in KeptTexts({[cites |-> C] : C \in SUBSET all}, released) :
                 text.cites \subseteq UNION {e.cell.of : e \in released}
        /\ \A s \in SoundTrends(ctx) : s.posts \subseteq all /\ s.example \subseteq s.posts

BehindPast(loop, segment) ==
    \A w \in DOMAIN loop : \A a \in loop[w].advice :
      /\ \A l \in segment[w] :
           NameOf(l.cell) = a.name => a.hit = {p \in l.done : post[p].detected \in FollowingWeek(w)}
      /\ \A v \in DOMAIN loop \ {w} : \A b \in loop[v].advice : a.hit \cap b.hit = {}

\* The posts behind an advice are those of its cell, on the page of examples of every market
\* (its market must be the report's, trailer_pattern_examples), in the evidence of the text
\* briefing, and in the own segment; and what an advice was followed by in the week after it is
\* what the own segment of the end of that week shows, each post in one week only.
PostsBehindAdvice ==
    LET examples(ctx) ==
          \A x \in ReportIn(ctx, None).cells : ExamplesPage(ctx, x).cell_size = x.sample_size
        segment(ctx) == OwnSegment(ctx, ReportIn(ctx, None).cells)
        past(row, weeks) ==
          BehindPast(ProofLoop([w \in weeks |-> row], today),
                     [w \in weeks |-> segment(Context(Stored, None, EndOfFollowing(w)))])
        now(ctx, cells) ==
          /\ BehindToday(ctx, cells, Search(ctx, [d \in {} |-> None], None).hits)
          /\ past(SnapshotRow(cells), {Week(today) - 1, Week(today) - 2})
        on(ctx) == now(ctx, ReportIn(ctx, None).cells)
    IN  /\ \A m \in PatternMarkets : examples(Context(Stored, m, today))
        /\ on(Context(Stored, None, today))

\* The pages say what the report says, of the same posts.
PagesMatchReport == ViewsMatchReport /\ LangformMatchesReport /\ PostsBehindAdvice
================================================================================
