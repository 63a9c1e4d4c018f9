------------------------------- MODULE PostTable -------------------------------
(* The rows every statistic reads: posts with the numbers of their one and only scrape  *)
(* (backend/app/api/monitor.py writes visible_* when it inserts a post and nothing       *)
(* updates them), the analysis the post analyzer adds later, and the one asset of a post *)
(* with its title, match key and review status. Time is counted in days.                *)
EXTENDS Integers, FiniteSets

CONSTANTS None,       \* the absent value
          Posts,      \* post rows, as numbers: their order stands for that of post_url
          Channels,
          ChannelOf,  \* ChannelOf[p]: the channel row of post p
          Platform,   \* Platform[c]: Channel.platform
          Market,     \* Market[c]: Channel.market
          Handle,     \* Handle[c]: the lower-case handle
          Seconds,    \* Seconds[p]: Post.duration_seconds, or None
          Titles,
          KeyOf,      \* KeyOf[t]: the match key made from a title
          Keys,       \* match keys a visual analysis may find
          Covers,     \* what a visual analysis may see on the cover
          ReleaseDay, \* ReleaseDay[t]: [de, us], each a day or None
          Scrapes,    \* Scrapes[p]: what the scrape of p may bring: the numbers, and the days since
                      \* publication (None: date unknown)
          Starts,     \* functions that give the posts stored, with untitled assets, at the start
                      \* their scrapes
          Earlier,    \* Earlier[p]: what the classifier said of a post before the start, or None
          Analyses,   \* what the classifier may answer
          Decisions,  \* what an editor may decide: approved, rejected
          LastDay,    \* bound: the last day the model looks at
          MaxEdits    \* bound: changes to a post and its asset after their import

ASSUME PostTableAssumption ==
    /\ Posts \subseteq Nat /\ ChannelOf \in [Posts -> Channels]
    /\ \A p \in Posts : Seconds[p] \in Int \cup {None}
    /\ \A p \in Posts : \A m \in Scrapes[p] :
         /\ DOMAIN m = {"views", "likes", "saves", "shares", "lag"}
         /\ {m.views, m.likes, m.saves, m.shares} \subseteq Int   \* -1: hidden; a missing one counts 0
         /\ m.lag \in Int \cup {None}
    /\ \A s \in Starts : \A p \in DOMAIN s : p \in Posts /\ s[p] \in Scrapes[p]
    /\ \A p \in Posts : Earlier[p] \in Analyses \cup {None}
    /\ LastDay \in Nat /\ MaxEdits \in Nat /\ None \notin Titles
    /\ Decisions \subseteq {"approved", "rejected"}

VARIABLES post,   \* post[p]: the row of post p, or None before its scrape
          asset,  \* asset[p]: the asset row of post p, or None
          today,
          edits   \* how many bounded edits have been made

tableVars == <<post, asset, today, edits>>

Reviews == {"new", "approved", "highlight", "rejected", "needs_review"}
Stored == {p \in Posts : post[p] # None}
Row(m, day) ==
    [detected |-> day, published |-> IF m.lag = None THEN None ELSE day - m.lag,
     views |-> m.views, likes |-> m.likes, saves |-> m.saves, shares |-> m.shares,
     analysis |-> None]

NewAsset(t) == [title |-> t, key |-> None, review |-> "new", cover |-> None]

Positive(n) == IF n > 0 THEN n ELSE 0

\* compute_activation_rate: likes (which stand for comments too) and, except on YouTube, saves
\* per view; 0 without views. A quotient <<numerator, denominator>>.
Activation(p, platform) ==
    IF post[p].views = 0 THEN <<0, 1>>
    ELSE <<Positive(post[p].likes)
             + (IF platform = "youtube" THEN 0 ELSE Positive(post[p].saves)), post[p].views>>

DurationBucket(d) ==
    CASE d = None -> "unknown"
      [] d # None /\ d < 15 -> "<15s"
      [] d # None /\ d \in 15..29 -> "15-30s"
      [] d # None /\ d \in 30..59 -> "30-60s"
      [] OTHER -> ">60s"

\* The moment a post is dated by, and its engagement.
Reference(p) == IF post[p].published # None THEN post[p].published ELSE post[p].detected
Engagement(p) == Positive(post[p].likes) + Positive(post[p].saves) + Positive(post[p].shares)

\* The release that counts in a market, and how far it is away.
ReleaseOf(t, m) ==
    LET first == IF m = "DE" THEN ReleaseDay[t].de ELSE ReleaseDay[t].us
        other == IF m = "DE" THEN ReleaseDay[t].us ELSE ReleaseDay[t].de
    IN  IF first # None THEN first ELSE other

DaysBucket(days) ==
    CASE days > 28 -> ">4w_pre"
      [] days \in 4..28 -> "1-4w_pre"
      [] days \in -3..3 -> "release_week"
      [] days \in -28..-4 -> "1-4w_post"
      [] days \in -365..-29 -> ">4w_post"
      [] OTHER -> "evergreen"

TableTypeOK ==
    /\ \A p \in Stored :
         /\ post[p].detected \in 0..today
         /\ post[p].published = None \/ post[p].published \in Int
         /\ post[p].analysis \in Analyses \cup {None}
    /\ \A p \in Posts : asset[p] # None =>
         /\ asset[p].title \in Titles \cup {None}
         /\ asset[p].key \in Keys \cup {KeyOf[t] : t \in Titles} \cup {None}
         /\ asset[p].review \in Reviews /\ asset[p].cover \in Covers \cup {None}
    /\ today \in 0..LastDay /\ edits \in 0..MaxEdits

TableInit ==
    /\ \E start \in Starts :
         /\ post = [p \in Posts |->
              IF p \in DOMAIN start THEN [Row(start[p], 0) EXCEPT !.analysis = Earlier[p]] ELSE None]
         /\ asset = [p \in Posts |-> IF p \in DOMAIN start THEN NewAsset(None) ELSE None]
    /\ today = 0 /\ edits = 0

\* Phase A of a sync: the row of a post seen for the first time.
MUT_Scrape(p) ==
    /\ \E m \in Scrapes[p] : post' = [post EXCEPT ![p] = Row(m, today)]
    /\ UNCHANGED <<asset, today, edits>>
Scrape(p) ==
    /\ post[p] = None
    /\ \E m \in Scrapes[p] : post' = [post EXCEPT ![p] = Row(m, today)]
    /\ UNCHANGED <<asset, today, edits>>

\* Phase C: the asset, titled when the caption matched. A crash between the two leaves a
\* post without an asset.
MakeAsset(p) ==
    /\ post[p] # None /\ asset[p] = None
    /\ \E t \in Titles \cup {None} : asset' = [asset EXCEPT ![p] = NewAsset(t)]
    /\ UNCHANGED <<post, today, edits>>

\* The classifier describes a post once; its answer may be below the confidence threshold.
Classify(p) ==
    /\ edits < MaxEdits /\ post[p] # None /\ post[p].analysis = None
    /\ \E a \in Analyses : post' = [post EXCEPT ![p].analysis = a]
    /\ edits' = edits + 1
    /\ UNCHANGED <<asset, today>>

\* The visual analysis of an asset: what it sees on the cover, and the match key. One it
\* read itself replaces the one made from the title.
Describe(p) ==
    /\ edits < MaxEdits /\ asset[p] # None /\ asset[p].cover = None
    /\ \E c \in Covers, k \in Keys \cup {IF asset[p].title = None THEN None
                                       ELSE KeyOf[asset[p].title]} :
         asset' = [asset EXCEPT ![p].cover = c, ![p].key = k]
    /\ edits' = edits + 1
    /\ UNCHANGED <<post, today>>

\* The rematch, the autopilot or the assist gives an untitled asset its title and match key.
AssignTitle(p) ==
    /\ edits < MaxEdits /\ asset[p] # None /\ asset[p].title = None
    /\ \E t \in Titles :
         asset' = [asset EXCEPT ![p].title = t, ![p].key = KeyOf[t]]
    /\ edits' = edits + 1
    /\ UNCHANGED <<post, today>>

\* An editor's review: a status, at any time, and a title if one is named.
Review(p) ==
    /\ edits < MaxEdits /\ asset[p] # None
    /\ \E r \in Decisions, t \in Titles \cup {None} :
         asset' = [asset EXCEPT ![p].review = r,
                                ![p].title = IF t = None THEN @ ELSE t,
                                ![p].key = IF t = None THEN @ ELSE KeyOf[t]]
    /\ edits' = edits + 1
    /\ UNCHANGED <<post, today>>

TableNext ==
    \E p \in Posts : \/ Scrape(p) \/ MakeAsset(p) \/ Classify(p) \/ Describe(p)
                     \/ AssignTitle(p) \/ Review(p)

NextDay ==
    /\ today < LastDay
    /\ today' = today + 1
    /\ UNCHANGED <<post, asset, edits>>
================================================================================
