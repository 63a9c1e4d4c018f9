------------------------------ MODULE MCPairBrief ------------------------------
(* A small pair: one German channel with two posts and one American channel with one, one  *)
(* title, a window of two days, weeks of two days.                                         *)
EXTENDS Forecast

MCChannelOf == [p \in {1, 2, 3} |-> IF p = 3 THEN "us_chan" ELSE "de_chan"]
MCPlatform == [c \in {"de_chan", "us_chan"} |-> "instagram"]
MCMarket == [c \in {"de_chan", "us_chan"} |-> IF c = "de_chan" THEN "DE" ELSE "US"]
MCHandle == [c \in {"de_chan", "us_chan"} |-> c]
MCPair == [pl \in {"instagram"} |-> [m \in {"DE", "US", "UK"} |->
             CASE m = "DE" -> {"de_chan"} [] m = "US" -> {"us_chan"} [] OTHER -> {}]]
MCSeconds == <<20, None, 70>>
Seen(likes, lag) == [views |-> 4, likes |-> likes, saves |-> 0, shares |-> 0, lag |-> lag]
MCScrapes == <<{Seen(2, None), Seen(4, None)}, {Seen(3, 1)}, {Seen(1, 0)}>>
MCStarts == {[p \in {1, 3} |-> IF p = 1 THEN Seen(2, None) ELSE Seen(1, 0)]}
MCEarlier == [p \in {1, 2, 3} |-> None]
MCKeyOf == [t \in {"t1"} |-> "k1"]
MCReleaseDay == [t \in {"t1"} |-> [de |-> 1, us |-> None]]
MCAnalyses == {[format |-> "teaser", stage |-> None, sure |-> TRUE]}
MCValues == <<"1-4w_post", "1-4w_pre", "15-30s", "30-60s", "<15s", ">4w_post", ">4w_pre", ">60s",
              "evergreen", "release_week", "teaser", "trailer", "unknown">>
MCValueRank == [v \in {MCValues[i] : i \in DOMAIN MCValues} |->
                  CHOOSE i \in DOMAIN MCValues : MCValues[i] = v]
MCFeedMultiplier == <<7, 6>>

---------------------------------------------------------------------------------
(* Samples of what the pure algorithms work on *)

\* Blocks as _build_recommendation_candidates makes them: at most five posts cited, and all
\* of them when the sample is smaller.
MCSampleBlocks ==
    {[tab |-> tab, dimension |-> "format", value |-> "v", effect |-> <<effect, 1>>,
      sample |-> IF Cardinality(cited) < 5 THEN Cardinality(cited) ELSE sample,
      cited |-> cited] :
       tab \in {"format_vocab", "duration_bucket"}, effect \in {2, 3}, sample \in {5, 6},
       cited \in {S \in SUBSET (1..5) : Cardinality(S) >= 3}}

\* Above and below the mean, fresh and old.
MCSampleScores ==
    [dev : -2..3, spread : {4}, age : 0..3]

\* Up to five weeks, some without a rate.
MCSampleSeries == UNION {[1..n -> {None, <<0, 1>>, <<1, 1>>, <<2, 1>>}] : n \in 0..5}

\* "Die LLM-Einordnung ist public-safe und darf keine Zahl ausplaudern, die die oeffentliche UI
\* verschweigt" (generate_er_forecast). The text is kept by pair and week, but both pages may cut
\* the axis to the last weeks: a text made from a short axis tells what the whole one hides.
\* Refuted by the code, and in no run.
SharedTextIsPublicSafe ==
    Init => \A series \in SampleSeries : \A k \in DOMAIN series :
        Gated(ForecastOne(SubSeq(series, k, Len(series)))).status = "ok" =>
          Gated(ForecastOne(series)).status = "ok"
================================================================================
