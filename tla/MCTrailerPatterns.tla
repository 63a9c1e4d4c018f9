--------------------------- MODULE MCTrailerPatterns ---------------------------
(* Three channels with two posts each: one German, two American. Five posts are there at   *)
(* the start with any numbers, the sixth may come later.                                   *)
EXTENDS Advice

MCChannelOf == <<"a", "a", "b", "b", "c", "c">>
MCPlatform == [c \in {"a", "b", "c"} |-> "tiktok"]
MCMarket == [c \in {"a", "b", "c"} |-> IF c = "a" THEN "DE" ELSE "US"]
MCHandle == [c \in {"a", "b", "c"} |-> c]
MCSeconds == <<20, 100, 20, 90, 100, None>>
Seen(views, likes) == [views |-> views, likes |-> likes, saves |-> 0, shares |-> 0, lag |-> 0]
MCScrapes == [p \in 1..6 |->
    CASE p \in {1, 2, 3, 5} -> {Seen(4, 0), Seen(4, 4)}
      [] p = 4 -> {Seen(4, 0), Seen(4, 4), Seen(0, 4)}
      [] p = 6 -> {[Seen(4, 0) EXCEPT !.lag = None]}]
MCStarts == {s \in [1..5 -> UNION {MCScrapes[p] : p \in 1..5}] : \A p \in 1..5 : s[p] \in MCScrapes[p]}
MCKeyOf == [t \in {"t1"} |-> "k1"]
MCReleaseDay == [t \in {"t1"} |-> [de |-> None, us |-> 2]]
MCGenre == [t \in {"t1"} |-> "horror"]
MCCovers == {[sure |-> TRUE, cover_titel |-> "mit_titel", cover_kinetik |-> None]}
Said(format, sure) == [format |-> format, stage |-> "pre_launch", sure |-> sure]
MCAnalyses == {Said("teaser", sure) : sure \in BOOLEAN} \cup {Said("clip", TRUE)}
MCEarlier == <<Said("teaser", TRUE), Said("teaser", FALSE), Said("teaser", TRUE), Said("clip", TRUE),
               None, None>>
MCLook == [p \in 1..6 |->
    [music_kind |-> IF p \in 1..4 THEN "licensed_track" ELSE "unknown",
     caption_frage |-> IF p \in {1, 3, 5} THEN "mit_frage" ELSE None,
     caption_cta |-> None, caption_laenge |-> None, caption_hashtags |-> None]]
MCZThreshold == <<1, 4>>
MCGapZ == <<1, 4>>
MCHabitShare == <<1, 4>>
\* The weekly briefings: channels a and b are a studio pair, c belongs to a segment.
MCPair == [pl \in {"tiktok"} |-> [m \in {"DE", "US", "UK"} |->
             CASE m = "DE" -> {"a"} [] m = "US" -> {"b"} [] OTHER -> {}]]
MCSegment == [c \in {"a", "b", "c"} |-> IF c = "c" THEN "us_independent" ELSE None]
\* Channel a is an own one; the posts of b and c share a sound.
MCSound == <<None, "s1", "s2", "s2", "s2", None>>
================================================================================
