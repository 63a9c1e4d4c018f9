------------------------------ MODULE AssetAnalysis ------------------------------
(*****************************************************************************)
(* What happens to an observed asset after it has been stored: its picture   *)
(* is secured before the platform's link dies, a vision model describes it,  *)
(* and a second pipeline classifies its post.  The cron run does it in four  *)
(* stages on one database session; admins, an endpoint for batches and a     *)
(* script do the same work beside it, and none of them knows of the others.  *)
(*                                                                           *)
(* Sessions are those of the ORM: a row is read when it is loaded and read   *)
(* again only after a commit; a commit writes the columns the session has    *)
(* changed against what it had read, whatever the row says by then.          *)
(*                                                                           *)
(* Assets are numbered by age.  Those in Own are the post analyzer's, one    *)
(* for each post it has looked at: such a post has the number of its asset.  *)
(*****************************************************************************)
EXTENDS Integers, Sequences, FiniteSets, Functions

CONSTANTS Assets, Own,
          Sourceless,      \* assets without any link to fetch a picture from
          New,             \* the assets the first cron run has just created
          Workers,
          Schedules,       \* per worker the runs it makes, each a sequence of stages
          InitTables,      \* [row, post] the tables may begin with
          FreshCap, BacklogCap, PostCap, EvidenceCap, BatchLimit,
          CommitEvery,     \* the evidence backfill commits after so many pictures
          SkipVision,      \* cron_post_analysis_skip_vision
          HasKey,          \* openai_api_key is set
          MaxPaid, None

Vision == {"fresh", "backlog", "single", "pending", "failed", "tranche"}
Posts  == {"posts", "channel", "force"}
CronStages == {"fresh", "backlog", "posts", "evidence"}
Stages == Vision \cup Posts \cup {"evidence"}
Pcs    == {"ready", "next", "capture", "look", "write", "classify"}

ASSUME AnalysisAssumption ==
  /\ Assets \subseteq Nat /\ IsFiniteSet(Assets)
  /\ Own \subseteq Assets /\ New \subseteq Assets \ Own /\ Sourceless \subseteq Assets
  /\ {FreshCap, BacklogCap, PostCap, EvidenceCap} \subseteq Nat
  /\ {BatchLimit, CommitEvery, MaxPaid} \subseteq Nat \ {0}
  /\ SkipVision \in BOOLEAN /\ HasKey \in BOOLEAN
  /\ Schedules \subseteq [Workers -> Seq(Seq(Stages))]
  (* Only the cron knows the assets it has just created; its runs begin with them. *)
  /\ \A p \in Schedules, w \in Workers : \A i \in DOMAIN p[w] : \A k \in DOMAIN p[w][i] :
       IF w = "cron" THEN p[w][i][k] \in CronStages /\ (p[w][i][k] = "fresh" => k = 1)
       ELSE p[w][i][k] # "fresh"

(* vision_error stands for vision_empty, vision_timeout, image_unreachable and itself. *)
Status == {"pending", "running", "analyzed", "text_fallback", "no_source", "fetch_failed",
           "vision_error"}
Asset  == [status : Status,                              \* visual_analysis_status
           ev     : {None, "captured", "no_source", "fetch_failed"},   \* visual_evidence_status
           key    : BOOLEAN,                             \* visual_evidence_url is set
           text   : BOOLEAN]                             \* vision_description is set
Count  == [attempted : Nat, good : Nat, fallback : Nat, fetch : Nat, error : Nat, left : Nat]
Zero   == [attempted |-> 0, good |-> 0, fallback |-> 0, fetch |-> 0, error |-> 0, left |-> 0]

(* The tables a run finds: what it has just created is there, and the descriptions on the   *)
(* post analyzer's assets came with an analysis.                                            *)
ASSUME TablesAssumption ==
  \A t \in InitTables :
    /\ t.row \in [Assets -> Asset \cup {None}] /\ t.post \subseteq Own
    /\ \A a \in New : t.row[a] # None
    /\ \A p \in Own : t.row[p] # None /\ t.row[p].text => p \in t.post
ASSUME NoneIsNothing == None \notin Asset \cup {"captured", "no_source", "fetch_failed"}
NoRows == [a \in {} |-> None]

VARIABLES row,      \* the asset rows, None where there is none
          post,     \* the posts with an analysis and last_analyzed_at
          seen,     \* per session: the rows as it has read them
          mine,     \* per session: the same rows as it has changed them
          runs,     \* per worker: the runs it still makes, the present one first
          pc, list, \* per worker: what is left of the stage's selection
          count,    \* per worker: the counters of the stage
          fresh,    \* the assets the present cron run has created
          paid      \* per asset: how often the cron has paid for a look at it
vars == <<row, post, seen, mine, runs, pc, list, count, fresh, paid>>

Stage(w) == Head(Head(runs[w]))
In(w, S) == runs[w] # << >> /\ Head(runs[w]) # << >> /\ Stage(w) \in S
At(w)    == Head(list[w])

Init == /\ \E t \in InitTables : row = t.row /\ post = t.post
        /\ runs \in Schedules
        /\ seen = [w \in Workers |-> NoRows]
        /\ mine = [w \in Workers |-> NoRows]
        /\ pc = [w \in Workers |-> "ready"]
        /\ list = [w \in Workers |-> << >>]
        /\ count = [w \in Workers |-> Zero]
        /\ fresh = New
        /\ paid = [a \in Assets |-> 0]

-----------------------------------------------------------------------------
(* The session. *)

Merged(r, s, m) == IF s = None THEN m
                   ELSE [f \in DOMAIN m |-> IF m[f] # s[f] THEN m[f] ELSE r[f]]
Written(w, more) == [a \in Assets |-> IF a \in DOMAIN more THEN more[a]
                                      ELSE IF a \in DOMAIN mine[w]
                                           THEN Merged(row[a], seen[w][a], mine[w][a])
                                      ELSE row[a]]
(* The unique index over post_id and asset_url. *)
Collides(w) == \E a \in DOMAIN mine[w] : seen[w][a] = None /\ row[a] # None

Now(w, a) == IF a \in DOMAIN mine[w] THEN mine[w][a] ELSE row[a]
With(f, a, v)  == [b \in DOMAIN f \cup {a} |-> IF b = a THEN v ELSE f[b]]
Change(w, a, v) == /\ mine' = [mine EXCEPT ![w] = With(mine[w], a, v)]
                    /\ seen' = [seen EXCEPT ![w] =
                                  With(seen[w], a, IF a \in DOMAIN seen[w] THEN seen[w][a] ELSE row[a])]
Forget(w) == /\ mine' = [mine EXCEPT ![w] = NoRows]
             /\ seen' = [seen EXCEPT ![w] = NoRows]
Goes(w, q) == pc' = [pc EXCEPT ![w] = q]
Add(w, f, n) == count' = [count EXCEPT ![w][f] = @ + n]

-----------------------------------------------------------------------------
(* What a stage works through. *)

Oldest(S) == CHOOSE s \in [1..Cardinality(S) -> S] : \A i, j \in DOMAIN s : i < j => s[i] < s[j]
Newest(S) == LET s == Oldest(S) IN [i \in 1..Len(s) |-> s[Len(s) + 1 - i]]
First(s, n) == SubSeq(s, 1, IF Len(s) < n THEN Len(s) ELSE n)

(* A query flushes what the session has changed, and finds it. *)
Having(w, S) == {a \in Assets : Now(w, a) # None /\ Now(w, a).status \in S}
Backlog(w) ==
  LET found == First(Oldest(Having(w, {"pending"})), BacklogCap + Cardinality(fresh))
  IN  First(Oldest(Range(found) \ fresh), BacklogCap)
Unanalyzed == Own \ post

Selected(w, k) ==
  CASE k = "fresh"    -> {First(Oldest(fresh), FreshCap)}
    [] k = "backlog"  -> {Backlog(w)}
    [] k = "single"   -> {<<a>> : a \in {b \in Assets : Now(w, b) # None}}
    [] k = "pending"  -> {First(Newest(Having(w, {"pending"})), BatchLimit)}
    [] k = "failed"   -> {First(Newest(Having(w, {"pending", "no_source", "text_fallback",
                                               "fetch_failed"})), BatchLimit)}
    [] k = "tranche"  -> {Oldest(Having(w, {"pending"}))}
    [] k = "evidence" -> {First(Newest({a \in Assets : Now(w, a) # None /\ ~Now(w, a).key}), EvidenceCap)}
    [] k = "posts"    -> {First(Newest(Unanalyzed), PostCap)}
    [] k = "channel"  -> {First(Newest(Unanalyzed), BatchLimit)}
    [] OTHER          -> {First(Newest(Own), BatchLimit)}

BeginStage(w) ==
  /\ pc[w] = "ready" /\ In(w, Stages)
  /\ \E s \in Selected(w, Stage(w)) : list' = [list EXCEPT ![w] = s]
  /\ count' = [count EXCEPT ![w] = Zero]
  /\ Goes(w, "next")
  (* The backfill keeps the rows it has selected; the others read each again. *)
  /\ IF Stage(w) # "evidence" THEN UNCHANGED <<seen, mine>>
     ELSE LET read(f) == [a \in Range(list'[w]) \cup DOMAIN f |-> IF a \in DOMAIN f THEN f[a] ELSE row[a]]
          IN  /\ seen' = [seen EXCEPT ![w] = read(seen[w])]
              /\ mine' = [mine EXCEPT ![w] = read(mine[w])]
  /\ UNCHANGED <<row, post, runs, fresh, paid>>

(* The stage is through; its last commit is the backfill's. *)
StageEnds(w) ==
  /\ pc[w] = "next" /\ list[w] = << >> /\ ~Collides(w)
  /\ IF Stage(w) = "evidence" THEN row' = Written(w, NoRows) /\ Forget(w)
     ELSE UNCHANGED <<row, seen, mine>>
  /\ runs' = [runs EXCEPT ![w] = IF Len(Head(@)) = 1 THEN Tail(@) ELSE <<Tail(Head(@))>> \o Tail(@)]
  /\ fresh' = IF w = "cron" /\ Len(runs'[w]) < Len(runs[w]) THEN {} ELSE fresh
  /\ Goes(w, "ready")
  /\ UNCHANGED <<post, list, count, paid>>

(* The deadline both vision stages share, the script's budget, the window of the posts and *)
(* of the evidence: looked at before each item, and what is left is counted.               *)
OutOfTime(w) ==
  /\ pc[w] = "next" /\ list[w] # << >>
  /\ In(w, {"fresh", "backlog", "tranche", "posts", "evidence"})
  /\ Add(w, "left", Len(list[w]))
  /\ list' = [list EXCEPT ![w] = << >>]
  /\ UNCHANGED <<row, post, seen, mine, runs, pc, fresh, paid>>

(* A crash, or a stage that raises: the run is over, its session gone.  Rows it had marked *)
(* as running stay so.                                                                     *)
Crash(w) ==
  /\ runs[w] # << >> /\ pc[w] # "ready"
  /\ Forget(w)
  /\ runs' = [runs EXCEPT ![w] = Tail(@)]
  /\ fresh' = IF w = "cron" THEN {} ELSE fresh
  /\ list' = [list EXCEPT ![w] = << >>]
  /\ Goes(w, "ready")
  /\ UNCHANGED <<row, post, count, paid>>

-----------------------------------------------------------------------------
(* analyze_asset_visual: two commits, a fetch and a call to the model between them. *)

MUT_Take(w) ==
  /\ pc[w] = "next" /\ list[w] # << >> /\ In(w, Vision) /\ ~Collides(w)
  /\ row' = Written(w, NoRows)
  /\ LET read == [a \in {At(w)} |-> row'[a]]
     IN  /\ seen' = [seen EXCEPT ![w] = read]
         /\ mine' = [mine EXCEPT ![w] = [a \in {At(w)} |-> [row'[a] EXCEPT !.status = "running"]]]
  /\ Add(w, "attempted", 1)
  /\ Goes(w, "capture")
  /\ UNCHANGED <<post, runs, list, fresh, paid>>
Take(w) ==
  /\ pc[w] = "next" /\ list[w] # << >> /\ In(w, Vision) /\ ~Collides(w)
  /\ row' = Written(w, [a \in {At(w)} |-> [Now(w, At(w)) EXCEPT !.status = "running"]])
  /\ LET read == [a \in {At(w)} |-> row'[a]]
     IN  /\ seen' = [seen EXCEPT ![w] = read]
         /\ mine' = [mine EXCEPT ![w] = read]
  /\ Add(w, "attempted", 1)
  /\ Goes(w, "capture")
  /\ UNCHANGED <<post, runs, list, fresh, paid>>

Fetched(a) == IF a \in Sourceless THEN {"no_source"} ELSE {"captured", "fetch_failed"}
Shot(r, s)  == [status |-> r.status, ev |-> s, key |-> r.key \/ s = "captured", text |-> r.text]
(* The picture of the ingest is used again; otherwise every known link is tried. *)
Capture(w) ==
  /\ pc[w] = "capture"
  /\ LET a == At(w)
         r == Now(w, a)
     IN  IF r.ev = "captured" /\ r.key THEN Change(w, a, r)
         ELSE \E s \in Fetched(a) : Change(w, a, Shot(r, s))
  /\ Goes(w, "look")
  /\ UNCHANGED <<row, post, runs, list, count, fresh, paid>>

(* The model sees the picture, or the caption has to do. *)
Pays(w) == Now(w, At(w)).ev = "captured" /\ HasKey
Look(w) ==
  /\ pc[w] = "look"
  /\ LET a == At(w)
         r == Now(w, a)
     IN  \E s \in IF Pays(w) THEN {"analyzed", "vision_error"}
                  ELSE IF r.ev = "captured" THEN {"text_fallback"} ELSE {r.ev} :
           Change(w, a, [r EXCEPT !.status = s])
  /\ paid' = IF Pays(w) /\ w = "cron" THEN [paid EXCEPT ![At(w)] = IF @ < MaxPaid THEN @ + 1 ELSE @]
             ELSE paid
  /\ Goes(w, "write")
  /\ UNCHANGED <<row, post, runs, list, count, fresh>>

Outcome(s) == CASE s = "analyzed" -> "good"
                [] s = "text_fallback" -> "fallback"
                [] s \in {"fetch_failed", "no_source"} -> "fetch"
                [] OTHER -> "error"
Conclude(w) ==
  /\ pc[w] = "write" /\ In(w, Vision) /\ ~Collides(w)
  /\ row' = Written(w, NoRows)
  /\ Add(w, Outcome(row'[At(w)].status), 1)
  /\ Forget(w)
  /\ list' = [list EXCEPT ![w] = Tail(@)]
  /\ Goes(w, "next")
  /\ UNCHANGED <<post, runs, fresh, paid>>

(* An exception in between is counted and the loop goes on, without a rollback: what the   *)
(* session had changed goes out with the next commit.  The endpoints do not catch it.      *)
MUT_LookRaises(w) ==
  /\ pc[w] \in {"capture", "look"} /\ In(w, {"fresh", "backlog", "tranche"})
  /\ list' = [list EXCEPT ![w] = Tail(@)]
  /\ Goes(w, "next")
  /\ UNCHANGED <<row, post, seen, mine, runs, count, fresh, paid>>

LookRaises(w) ==
  /\ pc[w] \in {"capture", "look"} /\ In(w, {"fresh", "backlog", "tranche"})
  /\ Add(w, "error", 1)
  /\ list' = [list EXCEPT ![w] = Tail(@)]
  /\ Goes(w, "next")
  /\ UNCHANGED <<row, post, seen, mine, runs, fresh, paid>>

-----------------------------------------------------------------------------
(* backfill_missing_evidence: one fetch per asset, a commit now and then. *)

Secure(w) ==
  /\ pc[w] = "next" /\ list[w] # << >> /\ In(w, {"evidence"})
  /\ LET a == At(w)
     IN  \E s \in Fetched(a) :
           LET r    == Shot(Now(w, a), s)
               full == r.key /\ (count[w].good + 1) % CommitEvery = 0
           IN  /\ Add(w, IF r.key THEN "good" ELSE "fetch", 1)
               /\ IF full THEN row' = Written(w, [b \in {a} |-> Merged(row[a],
                                 IF a \in DOMAIN seen[w] THEN seen[w][a] ELSE row[a], r)])
                               /\ Forget(w)
                  ELSE Change(w, a, r) /\ UNCHANGED row
  /\ list' = [list EXCEPT ![w] = Tail(@)]
  /\ UNCHANGED <<post, runs, pc, fresh, paid>>

-----------------------------------------------------------------------------
(* analyze_post: a look at the picture, then two classifiers; the caller commits. *)

WithVision(w) == ~(Stage(w) = "posts" /\ SkipVision)
NewAsset == [status |-> "pending", ev |-> None, key |-> FALSE, text |-> FALSE]

Describe(w) ==
  /\ pc[w] = "next" /\ list[w] # << >> /\ In(w, Posts)
  /\ Add(w, "attempted", 1)
  /\ LET p == At(w)
         r == IF Now(w, p) = None THEN NewAsset ELSE Now(w, p)
     IN  IF ~WithVision(w) \/ r.text THEN UNCHANGED <<seen, mine>>
         ELSE \E t \in BOOLEAN : \E s \in Fetched(p) :
                Change(w, p, [Shot(r, s) EXCEPT !.text = t])
  /\ Goes(w, "classify")
  /\ UNCHANGED <<row, post, runs, list, fresh, paid>>

Classified(w) ==
  /\ pc[w] = "classify" /\ ~Collides(w)
  /\ row' = Written(w, NoRows) /\ post' = post \cup {At(w)}
  /\ Forget(w)
  /\ Add(w, "good", 1)
  /\ list' = [list EXCEPT ![w] = Tail(@)]
  /\ Goes(w, "next")
  /\ UNCHANGED <<runs, fresh, paid>>

(* A classifier that failed twice, or the endpoint's commit that another's row has refused. *)
MUT_NotClassified(w) ==
  /\ pc[w] = "classify"
  /\ Add(w, "error", 1)
  /\ list' = [list EXCEPT ![w] = Tail(@)]
  /\ Goes(w, "next")
  /\ UNCHANGED <<row, post, seen, mine, runs, fresh, paid>>
NotClassified(w) ==
  /\ pc[w] = "classify"
  /\ Forget(w)
  /\ Add(w, "error", 1)
  /\ list' = [list EXCEPT ![w] = Tail(@)]
  /\ Goes(w, "next")
  /\ UNCHANGED <<row, post, runs, fresh, paid>>

(* The key is refused: it would be for every other post as well. *)
AuthFails(w) ==
  /\ pc[w] = "classify"
  /\ Forget(w)
  /\ count' = [count EXCEPT ![w].attempted = @ - 1, ![w].left = Len(list[w])]
  /\ list' = [list EXCEPT ![w] = << >>]
  /\ Goes(w, "next")
  /\ UNCHANGED <<row, post, runs, fresh, paid>>

-----------------------------------------------------------------------------
Next == \E w \in Workers :
          \/ BeginStage(w) \/ StageEnds(w) \/ OutOfTime(w) \/ Crash(w)
          \/ Take(w) \/ Capture(w) \/ Look(w) \/ Conclude(w) \/ LookRaises(w)
          \/ Secure(w)
          \/ Describe(w) \/ Classified(w) \/ NotClassified(w) \/ AuthFails(w)
Spec == Init /\ [][Next]_vars

-----------------------------------------------------------------------------
(* Rows and counters are what their columns allow, and a session holds changes only to rows *)
(* it has read.                                                                             *)
TypeOK == /\ row \in [Assets -> Asset \cup {None}] /\ post \subseteq Own
          /\ \A w \in Workers : /\ DOMAIN mine[w] = DOMAIN seen[w] /\ DOMAIN mine[w] \subseteq Assets
                                /\ \A a \in DOMAIN mine[w] : mine[w][a] \in Asset
                                /\ count[w] \in Count
          /\ pc \in [Workers -> Pcs]
          /\ fresh \subseteq New /\ paid \in [Assets -> 0..MaxPaid]

(* The summary of a vision stage accounts for every asset it had: looked at with one       *)
(* outcome each, or left for lack of time, whatever raised in between.                      *)
NothingUncounted ==
  \A w \in Workers : pc[w] = "next" /\ In(w, {"fresh", "backlog", "tranche"}) =>
    /\ count[w].attempted = count[w].good + count[w].fallback + count[w].fetch + count[w].error
    /\ Stage(w) = "fresh" =>
         count[w].attempted + count[w].left + Len(list[w])
           = (IF Cardinality(fresh) < FreshCap THEN Cardinality(fresh) ELSE FreshCap)

(* The backlog takes as many old assets as its cap allows, although the new assets of the   *)
(* run are pending too and must not use up the selection.                                   *)
BacklogIsFull ==
  [][\A w \in Workers :
       In(w, {"backlog"}) /\ pc[w] = "ready" /\ pc'[w] = "next" =>
         LET old == Having(w, {"pending"}) \ fresh
         IN  Len(list'[w]) = (IF Cardinality(old) < BacklogCap THEN Cardinality(old) ELSE BacklogCap)]_vars

(* The cron pays for an asset once, over crashes and further runs: it is marked before the  *)
(* money is spent, and what is marked is not selected again.                                *)
PaidOnce == \A a \in Assets : paid[a] =< 1

(* A description that was paid for is in the database only with the analysis of its post:   *)
(* what a failed classification leaves in the session never goes out with another commit.   *)
DescribedWithItsPost == \A p \in Own : row[p] # None /\ row[p].text => p \in post

(* visual_analysis.py, 214-215: "Reuse the ingest-time evidence instead of re-fetching a  *)
(* link that may long since be dead": a look that finds a picture of the asset in the own   *)
(* storage does not end with the asset given up for the lack of one.                        *)
SecuredCopyUsed ==
  [][\A w \in Workers : pc[w] = "write" /\ pc'[w] = "next" /\ seen[w][At(w)].key =>
       row'[At(w)].status \notin {"fetch_failed", "no_source"}]_vars
==============================================================================
