---------------------------- MODULE TitleAssignment ----------------------------
(*****************************************************************************)
(* How observed assets get their film title: the matcher's rematch, the      *)
(* candidate autopilot, the model's second look (LLM assist), the catalogue  *)
(* backfill from TMDb with its preview, the sync of the studios' catalogues  *)
(* with its enrichment, and what people click in the review queue.  Every    *)
(* job works in a database session of its own: it reads rows, may go out to  *)
(* a service for a while, writes rows and keeps them locked until its commit. *)
(* Jobs that are coroutines share the one event loop, and a database call of *)
(* theirs that waits for a lock blocks that loop.                            *)
(*                                                                           *)
(* What a text shows, what the matcher finds and what the model answers are  *)
(* left open.  TMDb has Hits[n] current exact hits for the name n; a work    *)
(* is a name with the number of its hit, which stands for its tmdb_id.       *)
(*****************************************************************************)
EXTENDS Integers, Sequences, FiniteSets

CONSTANTS Assets, Cands, Titles, Names, Jobs,
          AssetOf,                \* the asset a candidate row is about
          Sure, Doubt, Stale,     \* candidates by confidence, word count and age
          Hits,                   \* how many current exact hits TMDb has for a name
          Slate,                  \* the works of the studios a sync asks for
          Dated,                  \* title rows with the release year of the works of their name
          MaxTries,               \* MAX_FEHLVERSUCHE
          MaxTaken,               \* max_candidates of one run of the assist or the backfill
          Schedules,              \* what the jobs may be: [steps, place] of each
          InitRows,               \* the tables the day may begin with
          None

Syncing == {"sync", "enrich", "genres"}
Machine == {"rematch", "autopilot", "assist", "backfill", "preview"} \cup Syncing
People  == {"pick", "confirm", "create", "dismiss", "suggest", "reopen"}
Pcs     == {"ready", "item", "call", "back", "insert", "review", "patch", "done", "failed"}

ASSUME TitleAssumption ==
  /\ AssetOf \in [Cands -> Assets]
  /\ Sure \subseteq Cands /\ Doubt \subseteq Cands /\ Stale \subseteq Cands
  /\ Hits \in [Names -> Nat]
  /\ Slate \subseteq [name : Names, hit : Nat \ {0}] /\ Dated \subseteq Titles
  /\ \A w \in Slate : w.hit <= Hits[w.name]
  /\ MaxTries \in Nat \ {0} /\ MaxTaken \in Nat \ {0}
  /\ None \notin Titles \cup Cands \cup Jobs
  /\ Assets \cap Cands = {} /\ Assets \cap Titles = {} /\ Cands \cap Titles = {}
  /\ \A p \in Schedules : \A j \in Jobs :
       /\ p[j].place \in {"loop", "thread"}
       /\ p[j].steps \in Seq(Machine \cup People) /\ p[j].steps # << >>

-----------------------------------------------------------------------------
(* The tables.  A row is addressed by its asset, candidate or title. *)

Rows == Assets \cup Cands \cup Titles

(* llm_checked_at and llm_note in one: so many failed attempts, or looked at, or looked at *)
(* and found missing from the catalogue.                                                   *)
Checked == MaxTries
Missing == MaxTries + 1
CandRow  == [status : {"open", "resolved", "ignored"}, mark : 0..Missing, name : Names]
TitleRow == [name : Names, hit : Nat]       \* hit = 0: without a tmdb_id

IsTables(rows) == /\ DOMAIN rows = Rows
                  /\ \A a \in Assets : rows[a] \in Titles \cup {None}
                  /\ \A c \in Cands  : rows[c] \in CandRow \cup {None}
                  /\ \A t \in Titles : rows[t] \in TitleRow \cup {None}

ASSUME InitAssumption == \A rows \in InitRows : IsTables(rows)

(* _build_exact_title_lookup: the titles a normalized name stands for. *)
Called(rows, n) == {t \in Titles : rows[t] # None /\ rows[t].name = n}
Unique(rows, n) == Cardinality(Called(rows, n)) = 1
Listed(rows, w) == {t \in Titles : rows[t] = w}
IsOpen(rows, c) == rows[c] # None /\ rows[c].status = "open"
OpenOf(rows, a) == {c \in Cands : AssetOf[c] = a /\ IsOpen(rows, c)}
Untitled(rows)  == {a \in Assets : rows[a] = None}

ForAutopilot(rows) == {c \in Cands : IsOpen(rows, c)}
(* Open, unassigned, not a matter of the autopilot, not asked about yet. *)
ForAssist(rows) == {c \in ForAutopilot(rows) :
                      /\ AssetOf[c] \in Untitled(rows)
                      /\ Called(rows, rows[c].name) # {} => c \in Doubt
                      /\ rows[c].mark < Checked}
ForBackfill(rows) == {c \in ForAutopilot(rows) : rows[c].mark = Missing}

-----------------------------------------------------------------------------
(* What a write changes, as a function of the rows it touches. *)

Over(new, old) == [r \in DOMAIN new \cup DOMAIN old |-> IF r \in DOMAIN new THEN new[r] ELSE old[r]]

Nothing         == [r \in {} |-> None]
Touching(rows, a)     == [r \in {a} |-> rows[a]]               \* last_rematch_at
Closing(rows, c, s)   == [r \in {c} |-> [rows[c] EXCEPT !.status = s]]
Noting(rows, c, m, n) == [r \in {c} |-> [rows[c] EXCEPT !.mark = m, !.name = n]]
Titling(a, t)         == [r \in {a} |-> t]
Proposing(c, n)       == [r \in {c} |-> [status |-> "open", mark |-> 0, name |-> n]]
Cataloguing(t, n, h)  == [r \in {t} |-> [name |-> n, hit |-> h]]
MUT_Resolving(rows, a) == [r \in {CHOOSE c \in OpenOf(rows, a) \cup {None} : TRUE} \ {None} |->
                             [rows[r] EXCEPT !.status = "resolved"]]
Resolving(rows, a)    == [r \in OpenOf(rows, a) |-> [rows[r] EXCEPT !.status = "resolved"]]
Assigning(rows, a, t) == Over(Titling(a, t), Resolving(rows, a))
AssigningFor(rows, c, t, m, n) ==
  LET noted == Noting(rows, c, m, n)
  IN  Over(Assigning(Over(noted, rows), AssetOf[c], t), noted)

-----------------------------------------------------------------------------
VARIABLES db,       \* the committed rows
          put,      \* per job: the rows its open transaction has written, and keeps locked
          snap,     \* per job: the rows as they were when its stage began
          steps,    \* per job: the stages it has left, the current one first
          place,    \* per job: where its ordinary functions run
          pc, todo,
          focus,    \* per job: the row(s) it is at, [asset, cand, title, hit]
          tally,    \* per job: the assist's summary, [left, failed, dropped]
          loop,     \* the coroutine that occupies the event loop
          halfway,  \* candidates closed by a click whose review had failed
          alone     \* observer: the jobs beside whose present stage no other job has committed
vars == <<db, put, snap, steps, place, pc, todo, focus, tally, loop, halfway, alone>>

Stage(j)  == Head(steps[j])
View(j)   == Over(put[j], db)
Locked(j) == UNION {DOMAIN put[k] : k \in Jobs \ {j}}
Used      == UNION {DOMAIN put[k] : k \in Jobs}
(* A new title takes the next free row: one, or none when the rows of the instance are used up. *)
FreeTitles == {t \in Titles \ Used : db[t] = None}
NewTitles == IF FreeTitles = {} THEN {} ELSE {CHOOSE t \in FreeTitles : TRUE}
NewCands(a) == {c \in Cands \ Used : db[c] = None /\ AssetOf[c] = a}
(* The lookup a stage built at its start, and what it has added to it itself. *)
Known(j, n) == Called(Over([t \in DOMAIN put[j] \cap Titles |-> put[j][t]], snap[j]), n)

NoFocus == [asset |-> None, cand |-> None, title |-> None, hit |-> 0]
NoTally == [left |-> 0, failed |-> 0, dropped |-> 0]

Init == /\ db \in InitRows
        /\ put = [j \in Jobs |-> Nothing]
        /\ snap = [j \in Jobs |-> Nothing]
        /\ \E p \in Schedules : /\ steps = [j \in Jobs |-> p[j].steps]
                                /\ place = [j \in Jobs |-> p[j].place]
        /\ pc = [j \in Jobs |-> "ready"]
        /\ todo = [j \in Jobs |-> {}]
        /\ focus = [j \in Jobs |-> NoFocus]
        /\ tally = [j \in Jobs |-> NoTally]
        /\ loop = None
        /\ halfway = {}
        /\ alone = {}

-----------------------------------------------------------------------------
(* Whose turn it is: ordinary endpoints and to_thread have threads, coroutines share the   *)
(* loop and give it up only while they await TMDb.                                         *)

Coroutine(j) == Stage(j) \in {"backfill", "preview", "pick"} \cup Syncing
OnLoop(j) == place[j] = "loop" \/ Coroutine(j)
LeavesLoop(j, q) == \/ q \in {"done", "failed"}
                    \/ q = "call" /\ Coroutine(j)
                    \/ q = "ready" /\ place[j] = "thread" /\ steps[j][2] = "rematch"
Turn(j, q) == /\ OnLoop(j) => loop \in {None, j}
              /\ pc' = [pc EXCEPT ![j] = q]
              /\ loop' = IF ~OnLoop(j) THEN loop
                         ELSE IF LeavesLoop(j, q) THEN None ELSE j

Write(j, ch)  == /\ DOMAIN ch \cap Locked(j) = {}
                 /\ put' = [put EXCEPT ![j] = Over(ch, put[j])]
Commit(j)     == /\ db' = View(j)
                 /\ put' = [put EXCEPT ![j] = Nothing]
Rollback(j)   == /\ put' = [put EXCEPT ![j] = Nothing]
                 /\ UNCHANGED db
(* One request, one statement, one commit. *)
Request(j, ch) == /\ DOMAIN ch \cap Locked(j) = {}
                  /\ db' = Over(ch, db)

-----------------------------------------------------------------------------
(* The stages the machine runs. *)

Begin(j, items) ==
  /\ pc[j] = "ready"
  /\ Turn(j, "item")
  /\ snap' = [snap EXCEPT ![j] = db]
  /\ todo' = [todo EXCEPT ![j] = items]
  /\ UNCHANGED <<db, put, steps, place, focus, halfway>>

AtMost(S) == {T \in SUBSET S : \/ T = S /\ Cardinality(S) =< MaxTaken
                               \/ Cardinality(T) = MaxTaken}

BeginRematch(j)   == Stage(j) = "rematch" /\ Begin(j, Untitled(db)) /\ UNCHANGED tally
BeginAutopilot(j) == Stage(j) = "autopilot" /\ Begin(j, ForAutopilot(db)) /\ UNCHANGED tally
BeginAssist(j) ==
  /\ Stage(j) = "assist"
  /\ \E T \in AtMost(ForAssist(db)) :
       /\ Begin(j, T)
       /\ tally' = [tally EXCEPT ![j] = [NoTally EXCEPT !.left = Cardinality(ForAssist(db) \ T)]]
BeginBackfill(j) == /\ Stage(j) \in {"backfill", "preview"}
                    /\ \E T \in AtMost(ForBackfill(db)) : Begin(j, T)
                    /\ UNCHANGED tally

BeginSync(j)   == Stage(j) = "sync" /\ Begin(j, Slate) /\ UNCHANGED tally
BeginEnrich(j) == /\ Stage(j) = "enrich"
                  /\ Begin(j, {t \in Titles : db[t] # None /\ db[t].hit = 0})
                  /\ UNCHANGED tally
(* backfill_missing_genres: which rows with a tmdb_id lack their genres is left open. *)
BeginGenres(j) == /\ Stage(j) = "genres"
                  /\ \E T \in SUBSET {t \in Titles : db[t] # None /\ db[t].hit # 0} : Begin(j, T)
                  /\ UNCHANGED tally

(* A stage ends with its one commit; the preview with a rollback. *)
StageEnds(j) ==
  /\ pc[j] = "item" /\ (todo[j] = {} \/ Stage(j) = "rematch")
  /\ IF Stage(j) = "preview" THEN Rollback(j) ELSE Commit(j)
  /\ Turn(j, IF Len(steps[j]) = 1 THEN "done" ELSE "ready")
  /\ steps' = [steps EXCEPT ![j] = IF Len(steps[j]) = 1 THEN steps[j] ELSE Tail(steps[j])]
  /\ todo' = [todo EXCEPT ![j] = {}]
  /\ snap' = [snap EXCEPT ![j] = Nothing]
  /\ tally' = [tally EXCEPT ![j] = NoTally]
  /\ UNCHANGED <<place, focus, halfway>>

(* The rematch commits every fifty writes, the sync every hundred, wherever that is. *)
CommitsBatch(j) ==
  /\ pc[j] = "item" /\ Stage(j) \in {"rematch"} \cup Syncing /\ put[j] # Nothing
  /\ Commit(j) /\ Turn(j, "item")
  /\ UNCHANGED <<snap, steps, place, todo, focus, tally, halfway>>

RematchWants(j, a) ==
  {Assigning(View(j), a, t) : t \in {s \in Titles : snap[j][s] # None}}
  \cup {Touching(View(j), a)}
  \cup (IF OpenOf(View(j), a) # {} THEN {}
        ELSE {Over(Proposing(c, n), Touching(View(j), a)) : c \in NewCands(a), n \in Names})

AutopilotWants(j, c) ==
  LET n == snap[j][c].name
      a == AssetOf[c]
  IN  IF View(j)[a] # None THEN {Resolving(View(j), a)}
      ELSE IF Unique(snap[j], n) /\ c \in Sure
           THEN {Assigning(View(j), a, t) : t \in Called(snap[j], n)}
      ELSE IF c \in Stale THEN {Closing(View(j), c, "ignored")}
      ELSE {Nothing}

NoShortlist(j, c) == {Noting(View(j), c, Checked, View(j)[c].name)}

(* What the backfill does without asking TMDb: nothing, or the title that is there already. *)
BackfillKnows(j, c) ==
  LET n == snap[j][c].name
  IN  {Nothing} \cup
      IF View(j)[AssetOf[c]] = None /\ Cardinality(Known(j, n)) = 1
      THEN {AssigningFor(View(j), c, t, Checked, n) : t \in Known(j, n)} ELSE {}

(* _upsert_normalized_title: the row with the work's tmdb_id, or one of its name and year, or *)
(* a new one. It looks at the rows of now, not of its start.                                 *)
SyncWants(j, w) ==
  LET same == {t \in Called(View(j), w.name) : t \in Dated}
      rows == IF Listed(View(j), w) # {} THEN Listed(View(j), w)
              ELSE IF same # {} THEN same ELSE NewTitles
  IN  IF rows = {} THEN {Nothing} ELSE {Cataloguing(t, w.name, w.hit) : t \in rows}

Wants(j, r) == CASE Stage(j) = "rematch"   -> RematchWants(j, r)
                 [] Stage(j) = "autopilot" -> AutopilotWants(j, r)
                 [] Stage(j) = "assist"    -> NoShortlist(j, r)
                 [] Stage(j) = "sync"      -> SyncWants(j, r)
                 [] Stage(j) \in {"enrich", "genres"} -> {}
                 [] OTHER                  -> BackfillKnows(j, r)

Item(j) ==
  /\ pc[j] = "item"
  /\ \E r \in todo[j] : \E ch \in Wants(j, r) :
       /\ Write(j, ch) /\ Turn(j, "item")
       /\ todo' = [todo EXCEPT ![j] = @ \ {r}]
  /\ UNCHANGED <<db, snap, steps, place, focus, tally, halfway>>

(* The assist asks the model, the backfill TMDb; neither looks at the rows again after. *)
Ask(j) ==
  /\ pc[j] = "item" /\ Stage(j) \notin Syncing
  /\ \E c \in todo[j] :
       /\ \/ Stage(j) = "assist"
          \/ /\ Stage(j) \in {"backfill", "preview"}
             /\ View(j)[AssetOf[c]] = None /\ Known(j, snap[j][c].name) = {}
       /\ focus' = [focus EXCEPT ![j] = [NoFocus EXCEPT !.cand = c, !.asset = AssetOf[c]]]
       /\ todo' = [todo EXCEPT ![j] = @ \ {c}]
  /\ Turn(j, "call")
  /\ UNCHANGED <<db, put, snap, steps, place, tally, halfway>>

(* The next page of a studio, the search for a title, the details of one. The works of one  *)
(* page are entered without awaiting in between (Item).                                     *)
AskForTitle(j) ==
  /\ pc[j] = "item" /\ Stage(j) \in Syncing
  /\ \E r \in todo[j] :
       /\ focus' = [focus EXCEPT ![j] = [NoFocus EXCEPT !.title = r]]
       /\ todo' = [todo EXCEPT ![j] = @ \ {r}]
  /\ Turn(j, "call")
  /\ UNCHANGED <<db, put, snap, steps, place, tally, halfway>>

Tries(j) == snap[j][focus[j].cand].mark + 1
AssistFailed(j) ==
  LET c == focus[j].cand
  IN  {Noting(View(j), c, IF Tries(j) >= MaxTries THEN Checked ELSE Tries(j), View(j)[c].name)}

(* Sure of an entry of the shortlist; sure of another title that the code finds; a better   *)
(* name for the card; a name the catalogue lacks; not sure at all.                          *)
AssistAnswered(j) ==
  LET c == focus[j].cand
      n == View(j)[c].name
      Single(m) == Unique(snap[j], m)
  IN  {AssigningFor(View(j), c, t, Checked, n) : t \in {s \in Titles : snap[j][s] # None}}
      \cup (UNION {{AssigningFor(View(j), c, t, Checked, m) : t \in Called(snap[j], m)}
                   : m \in {k \in Names : Single(k)}})
      \cup {Noting(View(j), c, Checked, m) : m \in {k \in Names : Single(k)} \cup {n}}
      \cup {Noting(View(j), c, Missing, m) : m \in {k \in Names : ~Single(k)} \cup {n}}

BackfillAnswered(j) ==
  LET c == focus[j].cand
      n == snap[j][c].name
  IN  IF focus[j].hit = 0 \/ NewTitles = {} THEN {Nothing}
      ELSE {Over(Cataloguing(t, n, 1), AssigningFor(View(j), c, t, Checked, n)) : t \in NewTitles}

(* enrich_titles_without_tmdb_id links a title with its only hit; the genres are written to *)
(* the row of the title, or TMDb has none.                                                  *)
SyncAnswered(j) ==
  LET t == focus[j].title
      again(h) == Cataloguing(t, View(j)[t].name, h)
  IN  CASE Stage(j) = "sync"   -> SyncWants(j, t)
        [] Stage(j) = "enrich" -> {IF focus[j].hit = 0 THEN Nothing ELSE again(focus[j].hit)}
        [] Stage(j) = "genres" -> {Nothing, again(View(j)[t].hit)}

(* TMDb has answered, with exactly one hit or not, and the coroutine has the loop again. *)
OnlyHit(n) == IF Hits[n] = 1 THEN {0, 1} ELSE {0}
Answers(j) == CASE Stage(j) = "pick" -> {focus[j].hit}
                [] Stage(j) = "enrich" -> OnlyHit(snap[j][focus[j].title].name)
                [] Stage(j) \in {"sync", "genres"} -> {0}
                [] OTHER -> OnlyHit(snap[j][focus[j].cand].name)
Resumes(j) ==
  /\ pc[j] = "call" /\ Coroutine(j)
  /\ \E h \in Answers(j) : focus' = [focus EXCEPT ![j].hit = h]
  /\ Turn(j, "back")
  /\ UNCHANGED <<db, put, snap, steps, place, todo, tally, halfway>>

Answer(j, ch, failed, dropped) ==
  /\ Write(j, ch) /\ Turn(j, "item")
  /\ focus' = [focus EXCEPT ![j] = NoFocus]
  /\ tally' = [tally EXCEPT ![j].failed = @ + failed, ![j].dropped = @ + dropped]
  /\ UNCHANGED <<db, snap, steps, place, todo, halfway>>

AskedInVain(j) ==
  /\ pc[j] = "call" /\ Stage(j) = "assist"
  /\ \E ch \in AssistFailed(j) : Answer(j, ch, 1, IF Tries(j) >= MaxTries THEN 1 ELSE 0)
AskedAndTold(j) ==
  /\ pc[j] = "call" /\ Stage(j) = "assist"
  /\ \E ch \in AssistAnswered(j) : Answer(j, ch, 0, 0)
Found(j) == IF Stage(j) \in Syncing THEN SyncAnswered(j) ELSE BackfillAnswered(j)
SearchedFor(j) ==
  /\ pc[j] = "back" /\ Stage(j) # "pick"
  /\ \E ch \in Found(j) : Answer(j, ch, 0, 0)

MUT_StillOpen(j) == tally[j].left
(* offen_danach *)
StillOpen(j) == LET rest == tally[j].failed - tally[j].dropped
                IN  tally[j].left + (IF rest > 0 THEN rest ELSE 0)

-----------------------------------------------------------------------------
(* What people click. *)

Fresh(rows) == {c \in Cands : rows[c] # None}
Clicked(j, kind) == pc[j] = "ready" /\ Stage(j) = kind

PersonStep(j, q, f) ==
  /\ Turn(j, q)
  /\ focus' = [focus EXCEPT ![j] = f]
  /\ UNCHANGED <<put, snap, steps, place, todo, tally>>

(* titel_aus_tmdb_anlegen: a hit somebody has chosen; its title is used again if it is there. *)
PickKnown(j) ==
  /\ Clicked(j, "pick")
  /\ \E c \in Fresh(db) : \E h \in 1..Hits[db[c].name] :
     \E t \in {s \in Called(db, db[c].name) : db[s].hit = h} :
       Request(j, AssigningFor(db, c, t, Checked, db[c].name))
  /\ PersonStep(j, "done", NoFocus) /\ UNCHANGED halfway
PickAsks(j) ==
  /\ Clicked(j, "pick")
  /\ \E c \in Fresh(db) : \E h \in 1..Hits[db[c].name] :
       /\ \A t \in Called(db, db[c].name) : db[t].hit # h
       /\ PersonStep(j, "call", [NoFocus EXCEPT !.cand = c, !.asset = AssetOf[c], !.hit = h])
  /\ UNCHANGED <<db, halfway>>
PickCreates(j) ==
  LET c == focus[j].cand
  IN  /\ pc[j] = "back" /\ Stage(j) = "pick"
      /\ \E t \in NewTitles :
           Request(j, Over(Cataloguing(t, db[c].name, focus[j].hit),
                           AssigningFor(db, c, t, Checked, db[c].name)))
      /\ PersonStep(j, "done", NoFocus) /\ UNCHANGED halfway

(* createTitleFromCandidate: three requests; a failure of one ends the click. *)
CreateLooks(j) ==
  /\ Clicked(j, "create")
  /\ \E c \in ForAutopilot(db) :
       LET found == Called(db, db[c].name)
           at == [NoFocus EXCEPT !.cand = c, !.asset = AssetOf[c]]
       IN  \/ found = {} /\ PersonStep(j, "insert", at)
           \/ Cardinality(found) = 1
              /\ \E t \in found : PersonStep(j, "review", [at EXCEPT !.title = t])
           \/ Cardinality(found) > 1 /\ PersonStep(j, "failed", NoFocus)
  /\ UNCHANGED <<db, halfway>>
CreateInserts(j) ==
  /\ pc[j] = "insert" /\ Stage(j) = "create"
  /\ \E t \in NewTitles : /\ Request(j, Cataloguing(t, db[focus[j].cand].name, 0))
                          /\ PersonStep(j, "review", [focus[j] EXCEPT !.title = t])
  /\ UNCHANGED halfway
MUT_ReviewAsset(j) ==
  /\ pc[j] = "review"
  /\ Request(j, Titling(focus[j].asset, None))
  /\ PersonStep(j, "patch", focus[j]) /\ UNCHANGED halfway
ReviewAsset(j) ==
  /\ pc[j] = "review"
  /\ Request(j, Titling(focus[j].asset, focus[j].title))
  /\ PersonStep(j, "patch", focus[j]) /\ UNCHANGED halfway

(* confirmCandidate: two requests, and the second is sent even if the first has failed. *)
ConfirmChooses(j) ==
  /\ Clicked(j, "confirm")
  /\ \E c \in ForAutopilot(db) : \E t \in Called(db, db[c].name) :
       PersonStep(j, "review", [NoFocus EXCEPT !.cand = c, !.asset = AssetOf[c], !.title = t])
  /\ UNCHANGED <<db, halfway>>
ConfirmReviewFails(j) ==
  /\ pc[j] = "review" /\ Stage(j) = "confirm"
  /\ PersonStep(j, "patch", [focus[j] EXCEPT !.title = None])
  /\ UNCHANGED <<db, halfway>>
PatchCandidate(j) ==
  /\ pc[j] = "patch"
  /\ Request(j, Closing(db, focus[j].cand, "resolved"))
  /\ halfway' = IF focus[j].title = None THEN halfway \cup {focus[j].cand} ELSE halfway
  /\ PersonStep(j, "done", NoFocus)

Dismiss(j) ==
  /\ Clicked(j, "dismiss")
  /\ \E c \in ForAutopilot(db) : Request(j, Closing(db, c, "ignored"))
  /\ PersonStep(j, "done", NoFocus) /\ UNCHANGED halfway

(* create_candidate_from_asset, also called by every ingest: look first, insert after. *)
SuggestLooks(j) ==
  /\ Clicked(j, "suggest")
  /\ \E a \in Assets : /\ OpenOf(db, a) = {}
                       /\ PersonStep(j, "insert", [NoFocus EXCEPT !.asset = a])
  /\ UNCHANGED <<db, halfway>>
SuggestInserts(j) ==
  /\ pc[j] = "insert" /\ Stage(j) = "suggest"
  /\ \E c \in NewCands(focus[j].asset), n \in Names : Request(j, Proposing(c, n))
  /\ PersonStep(j, "done", NoFocus) /\ UNCHANGED halfway

(* luecken_wieder_oeffnen: closed, named as missing, and the asset still without a title. *)
Reopen(j) ==
  /\ Clicked(j, "reopen")
  /\ \E c \in Fresh(db) : /\ db[c].status # "open" /\ db[c].mark = Missing
                          /\ AssetOf[c] \in Untitled(db)
                          /\ Request(j, Closing(db, c, "open"))
                          /\ halfway' = halfway \ {c}
  /\ PersonStep(j, "done", NoFocus)

(* Nothing to click on, an answer of TMDb without the hit, a request that fails. *)
GivesUp(j) ==
  /\ Stage(j) \in People /\ pc[j] \notin {"done", "failed"}
  /\ ~(Stage(j) = "confirm" /\ pc[j] = "review")
  /\ PersonStep(j, "failed", NoFocus) /\ UNCHANGED <<db, halfway>>

-----------------------------------------------------------------------------
(* The statement timeout: a job that waits for a row lock another job holds gives up, and   *)
(* its transaction with it.  Nothing after it can use the session, so the job is over.      *)
Wanted(j) ==
  CASE pc[j] = "item" -> UNION {Wants(j, r) : r \in todo[j]}
    [] pc[j] = "call" /\ Stage(j) = "assist" -> AssistFailed(j) \cup AssistAnswered(j)
    [] pc[j] = "back" /\ Stage(j) # "pick" -> Found(j)
    [] OTHER -> {}
Fails(j) ==
  /\ Turn(j, "failed")
  /\ todo' = [todo EXCEPT ![j] = {}]
  /\ snap' = [snap EXCEPT ![j] = Nothing]
  /\ focus' = [focus EXCEPT ![j] = NoFocus]
  /\ tally' = [tally EXCEPT ![j] = NoTally]
  /\ UNCHANGED <<steps, place, halfway>>

MUT_LockTimeout(j) == FALSE
LockTimeout(j) == /\ \E ch \in Wanted(j) : DOMAIN ch \cap Locked(j) # {}
                  /\ Rollback(j) /\ Fails(j)

(* The sync is cut where it awaits (wait_for), and what it has not committed is gone. When   *)
(* the discover fails, what it has entered so far is committed with the run's error.         *)
SyncCut(j)   == pc[j] = "call" /\ Stage(j) \in Syncing /\ Rollback(j) /\ Fails(j)
SyncFails(j) == pc[j] = "call" /\ Stage(j) = "sync" /\ Commit(j) /\ Fails(j)

-----------------------------------------------------------------------------
Machines(j) == \/ BeginRematch(j) \/ BeginAutopilot(j) \/ BeginAssist(j) \/ BeginBackfill(j)
               \/ BeginSync(j) \/ BeginEnrich(j) \/ BeginGenres(j)
               \/ Item(j) \/ Ask(j) \/ AskForTitle(j) \/ Resumes(j)
               \/ AskedInVain(j) \/ AskedAndTold(j) \/ SearchedFor(j)
               \/ CommitsBatch(j) \/ StageEnds(j) \/ LockTimeout(j)
               \/ SyncCut(j) \/ SyncFails(j)
Persons(j)  == \/ PickKnown(j) \/ PickAsks(j) \/ PickCreates(j)
               \/ CreateLooks(j) \/ CreateInserts(j) \/ ReviewAsset(j)
               \/ ConfirmChooses(j) \/ ConfirmReviewFails(j) \/ PatchCandidate(j)
               \/ Dismiss(j) \/ SuggestLooks(j) \/ SuggestInserts(j) \/ Reopen(j)
               \/ GivesUp(j)

(* A job that has begun a stage to be repeated is followed until the stage is over, while     *)
(* nothing but its own commits changes the tables and the instance has a free row for a title. *)
Repeatable == {"autopilot", "assist", "sync"}
Working    == {"item", "call", "back"}
Observe(j) ==
  LET others == IF db' = db THEN alone \ {j} ELSE {}
      mine   == IF Stage(j) \in Repeatable /\ pc'[j] \in Working /\ (j \in alone \/ pc[j] = "ready")
                THEN {j} ELSE {}
  IN  alone' = IF NewTitles = {} THEN {} ELSE others \cup mine

Step(j) == (Machines(j) \/ Persons(j)) /\ Observe(j)
Next == \E j \in Jobs : Step(j)

(* Calls to the model and to TMDb have timeouts, and the database runs what it is given. *)
Fairness == \A j \in Jobs : WF_vars(Step(j))
Spec == Init /\ [][Next]_vars /\ Fairness

-----------------------------------------------------------------------------
(* Every committed and every pending row is a row of its table, and only unfinished jobs    *)
(* hold rows.                                                                               *)
TypeOK == /\ IsTables(db)
          /\ \A j \in Jobs : /\ DOMAIN put[j] \subseteq Rows /\ IsTables(View(j))
                             /\ snap[j] = Nothing \/ IsTables(snap[j])
                             /\ pc[j] \in {"ready", "done", "failed"} => put[j] = Nothing
                             /\ \A k \in Jobs \ {j} : DOMAIN put[j] \cap DOMAIN put[k] = {}
          /\ pc \in [Jobs -> Pcs]
          /\ loop \in Jobs \cup {None}

(* A candidate that is resolved belongs to an asset that has a title, whatever jobs and      *)
(* clicks interleave: the 74 closed candidates without a title that a missing id in the      *)
(* answer of create_title had caused cannot come back, except through the click of           *)
(* confirmCandidate whose review failed.                                                     *)
ClosedWithTitle == \A c \in Cands \ halfway :
                     db[c] # None /\ db[c].status = "resolved" => db[AssetOf[c]] # None

(* The same without the exception: AdminApp.jsx closes a candidate "zusaetzlich" to setting  *)
(* the title, and sends the second request even when the first has failed.                   *)
ResolvedHasTitle == \A c \in Cands :
                      db[c] # None /\ db[c].status = "resolved" => db[AssetOf[c]] # None

(* No job makes a name of the catalogue ambiguous, which would switch the automation off for *)
(* that name (create_title on the second row of a double click).  The code does not keep it: *)
(* picks, backfills and syncs enter a work beside a hand-made row of its name.               *)
NamesStayUnique ==
  [][\A n \in Names : Cardinality(Called(db, n)) =< 1 => Cardinality(Called(db, n)') =< 1]_vars

(* The preview of the backfill runs all the code of the real thing and changes nothing that  *)
(* another session could see.                                                                *)
PreviewWritesNothing ==
  [][\A j \in Jobs : Stage(j) = "preview" /\ pc[j] # pc'[j] => db' = db]_vars

(* "Idempotent: ein zweiter Lauf direkt danach findet nichts Neues": when no other job       *)
(* committed meanwhile, the autopilot leaves no candidate it would do something about.       *)
LeftBehind(rows) ==
  {c \in ForAutopilot(rows) : rows[AssetOf[c]] = None =>
                               \/ Unique(rows, rows[c].name) /\ c \in Sure
                               \/ c \in Stale}
AutopilotIsIdempotent ==
  [][\A j \in Jobs :
       Stage(j) = "autopilot" /\ pc[j] = "item" /\ pc'[j] \in {"ready", "done"} /\ j \in alone
       => LeftBehind(db)' = {}]_vars

(* "der Sync ist idempotent und einfach wiederholbar" (titles.py): when no other job committed *)
(* meanwhile, a sync leaves every work of the studios with a row, and none with a second one   *)
(* that it had not before, so that the next sync finds what this one entered; whatever it has  *)
(* committed on the way.                                                                       *)
SyncIsIdempotent ==
  [][\A j \in Jobs :
       Stage(j) = "sync" /\ pc[j] = "item" /\ pc'[j] \in {"ready", "done"} /\ j \in alone
       => \A w \in Slate : /\ Listed(db', w) # {}
                           /\ Listed(db', w) \subseteq Listed(snap[j], w)
                                \/ Cardinality(Listed(db', w)) = 1]_vars

(* What a job may be asked to do again finds nothing left to do. *)
RepeatsFindNothing == AutopilotIsIdempotent /\ SyncIsIdempotent

(* offen_danach: when no other job committed meanwhile, the assist names at least as many    *)
(* candidates as its next run will find to ask about, so nothing waits unannounced.          *)
NobodyForgotten ==
  [][\A j \in Jobs :
       Stage(j) = "assist" /\ pc[j] = "item" /\ pc'[j] \in {"ready", "done"} /\ j \in alone
       => Cardinality(ForAssist(db)') =< StillOpen(j)]_vars

(* Every job ends, also when two coroutines want the same row: the one that holds the row    *)
(* awaits TMDb, the one that wants it blocks the only loop the first could go on in, and     *)
(* the statement timeout is what parts them.                                                 *)
EveryJobEnds == \A j \in Jobs : <>(pc[j] \in {"done", "failed"})
==============================================================================
