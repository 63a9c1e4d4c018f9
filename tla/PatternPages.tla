------------------------------ MODULE PatternPages ------------------------------
(* The pages and the mail built on the trailer patterns: the comparison of long and short  *)
(* formats (langform_analysis.py), the check of a draft (post_check.py), the search for    *)
(* reference posts (referenz_suche.py), the start brief of a project                       *)
(* (projekt_start_brief.py) and the Monday mail (pattern_playbook.py). Each says it is a   *)
(* view of the pattern report and no second calculation. Sorting is by strength; where     *)
(* several are equally strong and the code takes some of them, all are taken here.         *)
EXTENDS TrailerPatterns

CONSTANTS MinArm,       \* MIN_POSTS_PER_ARM: 30
          MinGap,       \* MIN_GAP_PP, in percent: 1
          GapZ,         \* GAP_Z_THRESHOLD, a quotient: 2
          HabitShare,   \* LANGFORM_HABIT_SHARE, a quotient: 1/4
          TrendDays,    \* TREND_WINDOW_SHIFT_DAYS: 7
          MaxFindings,  \* PLAYBOOK_MAX_BEFUNDE: 5
          MaxMoves,     \* PLAYBOOK_MAX_BEWEGUNGEN: 4
          MaxChances,   \* the chances a post check names: 3
          MaxExamples   \* EXAMPLES_PER_CELL: 3

ASSUME PagesAssumption ==
    /\ {MinArm, TrendDays, MaxFindings, MaxMoves, MaxChances, MaxExamples} \subseteq Nat
    /\ MinArm > 0 /\ MinGap \in Nat /\ MaxExamples > 0

---------------------------------------------------------------------------------
(* Long against short formats (compute_langform_report) *)

\* _compare, with _two_proportion_z squared: the arms are told apart when the gap of their hit
\* rates is MinGap percent and GapZ standard errors wide.
Compare(ctx, L, K) ==
    LET n == Cardinality(L)
        m == Cardinality(K)
        a == Cardinality(L \cap ctx.hits)
        b == Cardinality(K \cap ctx.hits)
        gap == a * m - b * n
        spread == n * m * (a + b) * (n + m - a - b)
        clear == /\ 100 * (IF gap < 0 THEN -gap ELSE gap) >= MinGap * n * m
                 /\ gap * gap * (n + m) * GapZ[2] * GapZ[2] >= GapZ[1] * GapZ[1] * spread
    IN  [long |-> L, short |-> K, long_rate |-> <<a, n>>,
         verdict |-> CASE n < MinArm \/ m < MinArm \/ spread = 0 -> "insufficient"
                       [] n >= MinArm /\ m >= MinArm /\ spread # 0 /\ clear /\ gap > 0 -> "advantage"
                       [] n >= MinArm /\ m >= MinArm /\ spread # 0 /\ clear /\ gap < 0 -> "reversed"
                       [] OTHER -> "none"]

LongPosts(ctx) == {p \in ctx.usable : Seconds[p] # None /\ Seconds[p] >= 90}
ShortPosts(ctx) == {p \in ctx.usable : Seconds[p] # None /\ Seconds[p] < 60}

StratumKinds == {"platform", "market", "title_match", "channel_habit", "days_to_release"}

\* _days_to_release_stratum: by any title of the post, a rejected asset's too.
ReleaseStratum(p) ==
    LET r == IF TitleOf(p) = None THEN None ELSE ReleaseOf(TitleOf(p), Market[ChannelOf[p]])
    IN  IF r = None THEN "unknown" ELSE DaysBucket(r - Reference(p))

StratumIn(ctx, kind, p) ==
    LET of(S) == Cardinality({q \in S : ChannelOf[q] = ChannelOf[p]})
        cohort == LongPosts(ctx) \cup ShortPosts(ctx)
    IN  CASE kind = "platform" -> Platform[ChannelOf[p]]
          [] kind = "market" -> Market[ChannelOf[p]]
          [] kind = "title_match" -> IF TitleOf(p) # None THEN "gematcht" ELSE "ohne Titel"
          [] kind = "channel_habit" ->
               IF AtLeast(<<of(LongPosts(ctx)), of(cohort)>>, HabitShare) THEN "regelmaessig"
               ELSE "gelegentlich"
          [] kind = "days_to_release" -> ReleaseStratum(p)

Strata(ctx, L, K) ==
    LET in(S, kind, s) == {p \in S : StratumIn(ctx, kind, p) = s}
    IN  [kind \in StratumKinds |->
           [s \in {StratumIn(ctx, kind, p) : p \in L \cup K} |->
              Compare(ctx, in(L, kind, s), in(K, kind, s))]]

DurationBand(s) ==
    CASE s < 120 -> "90-120s" [] s \in 120..179 -> "120-180s" [] s \in 180..299 -> "180-300s"
      [] OTHER -> ">300s"
Bands == {"90-120s", "120-180s", "180-300s", ">300s"}

\* The note the report ends with: where the advantage goes when one looks closer.
Conclusion(strata) ==
    LET solid(k) == {s \in DOMAIN strata[k] : strata[k][s].verdict # "insufficient"}
        shows(k) == {s \in solid(k) : strata[k][s].verdict = "advantage"}
    IN  [explained |-> {k \in StratumKinds : solid(k) # {} /\ shows(k) = {}},
         localized |-> {k \in StratumKinds : shows(k) # {} /\ shows(k) # solid(k)},
         tested |-> MapThenSumSet(LAMBDA k : Cardinality(solid(k)), StratumKinds),
         survives |-> MapThenSumSet(LAMBDA k : Cardinality(shows(k)), StratumKinds)]

ClosingNote(c) ==
    CASE c.tested = 0 -> "untestable"
      [] c.tested # 0 /\ c.explained # {} -> "explained"
      [] c.tested # 0 /\ c.explained = {} /\ c.localized # {} -> "localized"
      [] c.tested # 0 /\ c.explained \cup c.localized = {} /\ c.survives = c.tested -> "everywhere"
      [] OTHER -> None

LangformPage(ctx, L, K, strata) ==
    LET band(b) == {p \in L : DurationBand(Seconds[p]) = b}
        conclusion == Conclusion(strata)
    IN  [langform |-> Cardinality(L), kurzform |-> Cardinality(K),
         uebergang |-> Cardinality({p \in ctx.usable : Seconds[p] # None} \ (L \cup K)),
         overall |-> Compare(ctx, L, K), strata |-> strata,
         gradient |-> [b \in Bands |-> Compare(ctx, band(b), K)],
         conclusion |-> conclusion, note |-> ClosingNote(conclusion)]

LangformReport(m, now) ==
    LET ctx == Context(Stored, m, now)
        none == [k \in StratumKinds |-> [s \in {} |-> None]]
    IN  LangformPage(ctx, LongPosts(ctx), ShortPosts(ctx),
                     IF ctx.usable = {} THEN none ELSE Strata(ctx, LongPosts(ctx), ShortPosts(ctx)))

---------------------------------------------------------------------------------
(* The findings of a report *)

Strong == {"over", "under"}
With(cells, verdicts) == {x \in cells : x.breakout_verdict \in verdicts}
Same(x, y) == x.dim = y.dim /\ x.value = y.value

\* breakout_z, squared.
Clearness(cell) ==
    LET a == cell.rate[1] * cell.expected[2] - cell.expected[1] * cell.rate[2]
    IN  <<a * a * cell.sample_size,
          cell.expected[1] * (cell.expected[2] - cell.expected[1]) * cell.rate[2] * cell.rate[2]>>

\* The n cells of X with the largest |z|, and those that equal the last of them. The code sorts
\* by z rounded to two decimals; cells it takes for equal there are told apart here.
Strongest(X, n) == {x \in X : Cardinality({y \in X : Less(Clearness(x), Clearness(y))}) < n}

---------------------------------------------------------------------------------
(* The check of a draft (pruefe_post) *)

\* What a draft can carry. It has no music, and nobody asks for its genre or phase.
DraftDims == {"format", "format_class", "duration_bucket", "cover_titel"} \cup (LookDims \ {"music_kind"})
NotForDrafts == {"genre", "lifecycle_stage"}

\* _zeile
Judgement(cells, d, v) ==
    LET verdicts == {x.breakout_verdict : x \in {y \in cells : y.dim = d /\ y.value = v}}
    IN  CASE verdicts = {"over"} -> "gut" [] verdicts = {"under"} -> "achtung"
          [] verdicts = {"neutral"} -> "neutral" [] OTHER -> "kein_befund"

Checks(cells, draft) ==
    [d \in {e \in DraftDims : draft[e] # None} |->
       LET better == {x \in With(cells, {"over"}) : x.dim = d /\ x.value # draft[d]}
           finding == Judgement(cells, d, draft[d])
       IN  [finding |-> finding,
            tips |-> IF finding = "achtung" THEN Strongest(better, 1) ELSE {}]]

\* A page that cannot read what it is asked answers 422, here None.
Formats == {"teaser", "trailer", "clip", "behind_the_scenes", "interview", "short", "compilation",
            "promo", "other"}

\* "chancen": what works and the draft does not have.
Chances(cells, draft) ==
    LET has(x) == x.dim \in DraftDims /\ draft[x.dim] = x.value
    IN  Strongest({x \in With(cells, {"over"}) : x.dim \notin NotForDrafts /\ ~has(x)}, MaxChances)

\* post_check
PostCheckPage(cells, draft) ==
    IF draft["format"] \in Formats \cup {None}
    THEN [checks |-> Checks(cells, draft), chances |-> Chances(cells, draft)]
    ELSE None

---------------------------------------------------------------------------------
(* The search for references (suche_referenzen) *)

\* facetten_werte_je_post
FacetOf(d, p) == IF d \in ModelDims /\ ~Sure(p) THEN None ELSE Extract(d, p)

\* `facets` is a function from dimensions to values; `lift` a quotient, or None.
Search(ctx, facets, lift) ==
    LET hits == {p \in ctx.usable : /\ \A d \in DOMAIN facets : FacetOf(d, p) = facets[d]
                                    /\ lift # None => AtLeast(ctx.lift[p], lift)}
        values(d) == {FacetOf(d, p) : p \in hits} \ {None}
    IN  [hits |-> hits,
         counts |-> [d \in Dimensions |->
                       [v \in values(d) |-> Cardinality({p \in hits : FacetOf(d, p) = v})]]]

\* referenz_suche
SearchPage(ctx, facets, lift) ==
    IF DOMAIN facets \subseteq Dimensions THEN Search(ctx, facets, lift) ELSE None

---------------------------------------------------------------------------------
(* The start brief of a project (compute_projekt_start_brief) *)

\* _beispiele_fuer_zelle: the posts of the cell with the highest lift.
Examples(ctx, d, v) ==
    LET members == PostsForCell(ctx, d, v)
    IN  {p \in members : Cardinality({q \in members : Less(ctx.lift[p], ctx.lift[q])}) < MaxExamples}

StartBrief(t, ctx, cells) ==
    [genre |-> {x \in cells : x.dim = "genre" /\ x.value = Genre[t]},
     advice |-> {[cell |-> x, examples |-> Examples(ctx, x.dim, x.value)] : x \in With(cells, {"over"})}]

---------------------------------------------------------------------------------
(* The Monday mail (build_playbook, render_playbook) *)

\* apply_weekly_trend: a cell against the same cell a week earlier.
Trend(before, x) ==
    LET was == {y \in before : Same(x, y) /\ y.breakout_verdict # "insufficient"}
    IN  CASE x.breakout_verdict = "insufficient" -> None
          [] x.breakout_verdict # "insufficient" /\ was = {} -> "neu"
          [] x.breakout_verdict # "insufficient"
               /\ \E y \in was : y.breakout_verdict = x.breakout_verdict -> "stabil"
          [] OTHER -> "gewechselt"

\* bewegungen: changes come before newcomers.
Moves(cells, before) ==
    LET first == Strongest({x \in cells : Trend(before, x) = "gewechselt"}, MaxMoves)
        room == MaxMoves - Cardinality(first)
        new == {x \in With(cells, Strong) : Trend(before, x) = "neu"}
    IN  first \cup (IF room > 0 THEN Strongest(new, room) ELSE {})

\* _WERKSTATT_VORLAGEN: for some values the text is fixed, and with it what it says.
Template(x) ==
    CASE <<x.dim, x.value>> \in {<<"cover_kinetik", "title_card">>, <<"lifecycle_stage", "pre_launch">>,
                <<"format", "behind_the_scenes">>, <<"format_class", "langform">>} -> "over"
      [] <<x.dim, x.value>> \in {<<"lifecycle_stage", "launch">>, <<"lifecycle_stage", "evergreen">>,
                <<"tone", "humorous">>, <<"format", "clip">>} -> "under"
      [] OTHER -> None

\* The findings of the mail: the section a line stands in, and what it says. `texts`: did the run
\* of this week store texts to quote (_bausteine_der_woche)?
Playbook(now, texts) ==
    LET cells == Report(None, None, now).cells
        before == Report(None, None, now - TrendDays).cells
    IN  [lines |-> {[cell |-> x, section |-> x.breakout_verdict,
                     says |-> IF Template(x) # None THEN Template(x) ELSE x.breakout_verdict] :
                      x \in Strongest(With(cells, Strong), MaxFindings)},
         moves |-> {[cell |-> x, trend |-> Trend(before, x)] : x \in Moves(cells, before)},
         texts |-> texts]

\* send_pattern_playbook: nothing to report, no mail.
Sent(playbook) == playbook.lines # {} \/ playbook.moves # {} \/ playbook.texts
================================================================================
