------------------------- MODULE TitleAssignmentProofs -------------------------
(* Theorems about TitleAssignment, for every set of assets, candidates, titles and jobs,    *)
(* whatever the jobs are.                                                                   *)
EXTENDS TitleAssignment, FiniteSetTheorems, TLAPS

(* ClosedWithTitle speaks of committed rows.  What makes it hold is that every transaction   *)
(* keeps the same promise for what it has written so far, and that nobody takes a title away *)
(* from an asset: a candidate may be closed on the strength of a title another job has given. *)

\* The tables the day begins with keep the promise, and None is no row.
CleanStart == \A rows \in InitRows : \A c \in Cands :
                rows[c] # None /\ rows[c].status = "resolved" => rows[AssetOf[c]] # None
NoneIsNoRow == \A s, m, n : None # [status |-> s, mark |-> m, name |-> n]

\* A candidate's row is a record, whatever is in it.
IsRow(v) == v = [status |-> v.status, mark |-> v.mark, name |-> v.name]

\* Rows that keep the promise, but for the candidates of half.
Good(rows, half) ==
  /\ DOMAIN rows = Rows
  /\ \A a \in Assets : rows[a] \in Titles \cup {None}
  /\ \A c \in Cands  : rows[c] = None \/ IsRow(rows[c])
  /\ \A c \in Cands \ half : rows[c] # None /\ rows[c].status = "resolved" => rows[AssetOf[c]] # None

\* A change of such rows that keeps it: no title is taken away, and what is closed has one.
Sound(rows, ch, half) ==
  /\ DOMAIN ch \subseteq Rows
  /\ \A a \in Assets \cap DOMAIN ch : /\ ch[a] \in Titles \cup {None}
                                      /\ rows[a] # None => ch[a] # None
  /\ \A c \in Cands \cap DOMAIN ch :
       /\ IsRow(ch[c])
       /\ c \notin half /\ ch[c].status = "resolved" =>
            \/ AssetOf[c] \in DOMAIN ch /\ ch[AssetOf[c]] # None
            \/ rows[AssetOf[c]] # None

LEMMA SoundIsGood ==
  ASSUME NEW rows, NEW ch, NEW half, NEW half2, Good(rows, half), Sound(rows, ch, half2),
         half \ DOMAIN ch \subseteq half2
  PROVE  /\ Good(Over(ch, rows), half2)
         /\ \A a \in Assets : rows[a] # None => Over(ch, rows)[a] # None
         /\ \A c \in Cands : IsRow(rows[c]) => IsRow(Over(ch, rows)[c])
<1> DEFINE new == Over(ch, rows)
<1>1. /\ DOMAIN new = Rows
      /\ \A r \in Rows : new[r] = IF r \in DOMAIN ch THEN ch[r] ELSE rows[r]
  BY DEF Over, Good, Sound
<1>2. Assets \subseteq Rows /\ Cands \subseteq Rows /\ \A c \in Cands : AssetOf[c] \in Assets
  BY TitleAssumption DEF Rows
<1> HIDE DEF new
<1>3. Good(new, half2)
  BY <1>1, <1>2 DEF Good, Sound
<1>4. \A a \in Assets : rows[a] # None => new[a] # None
  BY <1>1, <1>2 DEF Good, Sound
<1>5. \A c \in Cands : IsRow(rows[c]) => IsRow(new[c])
  BY <1>1, <1>2 DEF Good, Sound
<1> QED
  BY <1>3, <1>4, <1>5 DEF new

\* A change on top of a transaction's own changes.
LEMMA SoundOnTop ==
  ASSUME NEW rows, NEW put1, NEW ch, NEW half, Good(rows, half), Sound(rows, put1, half),
         Sound(Over(put1, rows), ch, half)
  PROVE  Sound(rows, Over(ch, put1), half)
<1> DEFINE new == Over(ch, put1)
           mid == Over(put1, rows)
<1>1. /\ DOMAIN new = DOMAIN ch \cup DOMAIN put1
      /\ \A r \in DOMAIN new : new[r] = IF r \in DOMAIN ch THEN ch[r] ELSE put1[r]
  BY DEF Over
<1>2. /\ DOMAIN mid = Rows
      /\ \A r \in Rows : mid[r] = IF r \in DOMAIN put1 THEN put1[r] ELSE rows[r]
  BY DEF Over, Good, Sound
<1>3. Assets \subseteq Rows /\ Cands \subseteq Rows /\ \A c \in Cands : AssetOf[c] \in Assets
  BY TitleAssumption DEF Rows
<1> HIDE DEF new, mid
<1>4. Sound(mid, ch, half)
  BY DEF mid
<1>5. DOMAIN new \subseteq Rows
  BY <1>1, <1>4 DEF Sound
<1>6. ASSUME NEW a \in Assets \cap DOMAIN new
      PROVE  new[a] \in Titles \cup {None} /\ (rows[a] # None => new[a] # None)
  BY <1>1, <1>2, <1>3, <1>4, <1>6 DEF Sound
<1>7. ASSUME NEW c \in Cands \cap DOMAIN new
      PROVE  /\ IsRow(new[c])
             /\ c \notin half /\ new[c].status = "resolved" =>
                  \/ AssetOf[c] \in DOMAIN new /\ new[AssetOf[c]] # None
                  \/ rows[AssetOf[c]] # None
  BY <1>1, <1>2, <1>3, <1>4, <1>6, <1>7 DEF Sound
<1> QED
  BY <1>5, <1>6, <1>7 DEF Sound, new

\* Another transaction's changes elsewhere do no harm.
LEMMA SoundBeside ==
  ASSUME NEW rows, NEW mine, NEW theirs, NEW half, NEW half2,
         Good(rows, half), Sound(rows, mine, half), Sound(rows, theirs, half2),
         DOMAIN mine \cap DOMAIN theirs = {}, half \cap DOMAIN mine \subseteq half2
  PROVE  Sound(Over(theirs, rows), mine, half2)
<1> DEFINE new == Over(theirs, rows)
<1>1. /\ DOMAIN new = Rows
      /\ \A r \in Rows : new[r] = IF r \in DOMAIN theirs THEN theirs[r] ELSE rows[r]
  BY DEF Over, Good, Sound
<1>2. Assets \subseteq Rows /\ Cands \subseteq Rows /\ \A c \in Cands : AssetOf[c] \in Assets
  BY TitleAssumption DEF Rows
<1> HIDE DEF new
<1> QED
  BY <1>1, <1>2 DEF Sound, new

---------------------------------------------------------------------------------
(* The changes the jobs make are sound.                                                     *)

LEMMA Disjoint == /\ Assets \subseteq Rows /\ Cands \subseteq Rows /\ Titles \subseteq Rows
                  /\ Assets \cap Cands = {} /\ Assets \cap Titles = {} /\ Cands \cap Titles = {}
                  /\ \A c \in Cands : AssetOf[c] \in Assets
                  /\ None \notin Titles
  BY TitleAssumption DEF Rows

LEMMA NothingIsSound == ASSUME NEW rows, NEW half PROVE Sound(rows, Nothing, half)
  BY DEF Sound, Nothing

LEMMA TouchingIsSound ==
  ASSUME NEW rows, NEW half, Good(rows, half), NEW a \in Assets
  PROVE  Sound(rows, Touching(rows, a), half)
  BY Disjoint DEF Sound, Touching, Good

LEMMA CataloguingIsSound ==
  ASSUME NEW rows, NEW half, NEW t \in Titles, NEW n, NEW h
  PROVE  Sound(rows, Cataloguing(t, n, h), half)
  BY Disjoint DEF Sound, Cataloguing

LEMMA ProposingIsSound ==
  ASSUME NEW rows, NEW half, NEW c \in Cands, NEW n
  PROVE  Sound(rows, Proposing(c, n), half)
  BY Disjoint DEF Sound, Proposing, IsRow

LEMMA TitlingIsSound ==
  ASSUME NEW rows, NEW half, NEW a \in Assets, NEW t \in Titles
  PROVE  Sound(rows, Titling(a, t), half)
  BY Disjoint DEF Sound, Titling

LEMMA ClosingIsSound ==
  ASSUME NEW rows, NEW half, NEW c \in Cands, NEW s, IsRow(rows[c]),
         s = "resolved" => c \in half \/ rows[AssetOf[c]] # None
  PROVE  Sound(rows, Closing(rows, c, s), half)
<1>1. [rows[c] EXCEPT !.status = s] = [status |-> s, mark |-> rows[c].mark, name |-> rows[c].name]
  BY DEF IsRow
<1> QED
  BY <1>1, Disjoint DEF Sound, Closing, IsRow

LEMMA NotingIsSound ==
  ASSUME NoneIsNoRow, NEW rows, NEW half, Good(rows, half), NEW c \in Cands, NEW m, NEW n,
         IsRow(rows[c])
  PROVE  Sound(rows, Noting(rows, c, m, n), half)
<1>1. [rows[c] EXCEPT !.mark = m, !.name = n] = [status |-> rows[c].status, mark |-> m, name |-> n]
  <2> DEFINE marked == [rows[c] EXCEPT !.mark = m]
  <2>1. marked = [status |-> rows[c].status, mark |-> m, name |-> rows[c].name]
    BY DEF IsRow
  <2>2. [rows[c] EXCEPT !.mark = m, !.name = n] = [marked EXCEPT !.name = n]
    BY DEF IsRow
  <2> HIDE DEF marked
  <2>3. [marked EXCEPT !.name = n] = [status |-> rows[c].status, mark |-> m, name |-> n]
    BY <2>1
  <2> QED
    BY <2>2, <2>3
<1>2. rows[c] # None
  BY DEF IsRow, NoneIsNoRow
<1> QED
  BY <1>1, <1>2, Disjoint DEF Sound, Noting, IsRow, Good

\* What closes an asset's open candidates, given that it has a title or is getting one.
LEMMA ClosedRows ==
  ASSUME NEW rows, NEW half, Good(rows, half), NEW a \in Assets
  PROVE  /\ DOMAIN Resolving(rows, a) \subseteq Cands
         /\ \A c \in DOMAIN Resolving(rows, a) : AssetOf[c] = a /\ IsRow(Resolving(rows, a)[c])
<1> SUFFICES ASSUME NEW c \in OpenOf(rows, a)
             PROVE  /\ c \in Cands /\ AssetOf[c] = a
                    /\ IsRow([rows[c] EXCEPT !.status = "resolved"])
  BY DEF Resolving
<1>1. c \in Cands /\ AssetOf[c] = a /\ IsRow(rows[c])
  BY DEF OpenOf, IsOpen, Good
<1>2. [rows[c] EXCEPT !.status = "resolved"] =
        [status |-> "resolved", mark |-> rows[c].mark, name |-> rows[c].name]
  BY <1>1 DEF IsRow
<1> QED
  BY <1>1, <1>2 DEF IsRow

LEMMA ResolvingIsSound ==
  ASSUME NEW rows, NEW half, Good(rows, half), NEW a \in Assets, rows[a] # None
  PROVE  Sound(rows, Resolving(rows, a), half)
  BY ClosedRows, Disjoint DEF Sound

LEMMA AssigningIsSound ==
  ASSUME NEW rows, NEW half, Good(rows, half), NEW a \in Assets, NEW t \in Titles
  PROVE  Sound(rows, Assigning(rows, a, t), half)
<1> DEFINE closed == Resolving(rows, a)
           new == Assigning(rows, a, t)
<1>1. /\ DOMAIN closed \subseteq Cands
      /\ \A c \in DOMAIN closed : AssetOf[c] = a /\ IsRow(closed[c])
  BY ClosedRows
<1>2. /\ DOMAIN new = {a} \cup DOMAIN closed
      /\ \A r \in DOMAIN new : new[r] = IF r = a THEN t ELSE closed[r]
  BY DEF Assigning, Over, Titling
<1> HIDE DEF closed, new
<1>3. Sound(rows, new, half)
  BY <1>1, <1>2, Disjoint DEF Sound
<1> QED
  BY <1>3 DEF new

LEMMA AssigningForIsSound ==
  ASSUME NoneIsNoRow, NEW rows, NEW half, Good(rows, half), NEW c \in Cands, IsRow(rows[c]),
         NEW t \in Titles, NEW m, NEW n
  PROVE  Sound(rows, AssigningFor(rows, c, t, m, n), half)
<1> DEFINE noted == Noting(rows, c, m, n)
           ch == Assigning(Over(noted, rows), AssetOf[c], t)
<1>1. Sound(rows, noted, half)
  BY NotingIsSound
<1>2. Good(Over(noted, rows), half)
  BY <1>1, SoundIsGood
<1>3. Sound(Over(noted, rows), ch, half)
  BY <1>2, AssigningIsSound, Disjoint
<1>4. Sound(rows, Over(ch, noted), half)
  BY <1>1, <1>3, SoundOnTop
<1> QED
  BY <1>4 DEF AssigningFor

LEMMA NewTitleIsSound ==
  ASSUME NEW rows, NEW half, Good(rows, half), NEW ch, Sound(rows, ch, half),
         NEW t \in Titles, NEW n, NEW h
  PROVE  Sound(rows, Over(Cataloguing(t, n, h), ch), half)
  BY SoundOnTop, CataloguingIsSound

LEMMA ProposingAtIsSound ==
  ASSUME NEW rows, NEW half, Good(rows, half), NEW a \in Assets, NEW c \in Cands, NEW n
  PROVE  Sound(rows, Over(Proposing(c, n), Touching(rows, a)), half)
  BY SoundOnTop, ProposingIsSound, TouchingIsSound

---------------------------------------------------------------------------------
(* The invariant.  A job's part of it is about the committed rows d, what its transaction   *)
(* has written p, its program counter q and stage s, its selection T and its focus f.       *)

\* The rows a stage has selected are there, and stay: rows are never deleted.
QueueOk(d, s, T) ==
  /\ s = "rematch" => T \subseteq Assets
  /\ s \in {"autopilot", "assist", "backfill", "preview"} =>
       \A c \in T : c \in Cands /\ IsRow(d[c])
  /\ s \in {"enrich", "genres"} => T \subseteq Titles

\* So are those it is at; and a click comes to its second request with its asset titled.
FocusOk(d, q, s, f) ==
  /\ f = [asset |-> f.asset, cand |-> f.cand, title |-> f.title, hit |-> f.hit]
  /\ q \in {"call", "back"} /\ s \in {"assist", "backfill", "preview", "pick"} =>
       f.cand \in Cands /\ IsRow(d[f.cand])
  /\ q \in {"call", "back"} /\ s \in {"enrich", "genres"} => f.title \in Titles
  /\ q \in {"insert", "review", "patch"} => s \in People
  /\ q \in {"review", "patch"} \/ (q = "insert" /\ s = "create") =>
       f.cand \in Cands /\ IsRow(d[f.cand]) /\ f.asset = AssetOf[f.cand]
  /\ q = "review" => f.title \in Titles
  /\ q = "patch" => f.title = None \/ d[f.asset] # None

\* Only the machine's stages hold rows between two steps.
JobOk(d, half, p, q, s, T, f) ==
  /\ Sound(d, p, half)
  /\ q \in {"ready", "done", "failed"} \/ s \in People => DOMAIN p = {}
  /\ q = "item" => s \in Machine
  /\ q = "back" => s \in {"backfill", "preview", "pick"} \cup Syncing
  /\ QueueOk(d, s, T)
  /\ FocusOk(d, q, s, f)

JobInv(j) == JobOk(db, halfway, put[j], pc[j], Stage(j), todo[j], focus[j])
Shape == /\ put = [j \in Jobs |-> put[j]] /\ steps = [j \in Jobs |-> steps[j]]
         /\ pc = [j \in Jobs |-> pc[j]] /\ todo = [j \in Jobs |-> todo[j]]
         /\ focus = [j \in Jobs |-> focus[j]]
Apart == \A j, k \in Jobs : j # k => DOMAIN put[j] \cap DOMAIN put[k] = {}
TitleInv == Shape /\ Good(db, halfway) /\ Apart /\ \A j \in Jobs : JobInv(j)

\* What another job commits leaves a job's part as it was.
LEMMA JobKeeps ==
  ASSUME NEW d, NEW half, NEW p, NEW q, NEW s, NEW T, NEW f, JobOk(d, half, p, q, s, T, f),
         NEW ch, NEW half2, Good(d, half), Sound(d, ch, half2), half \ DOMAIN ch \subseteq half2,
         DOMAIN p \cap DOMAIN ch = {}
  PROVE  JobOk(Over(ch, d), half2, p, q, s, T, f)
<1> DEFINE new == Over(ch, d)
<1>1. /\ \A a \in Assets : d[a] # None => new[a] # None
      /\ \A c \in Cands : IsRow(d[c]) => IsRow(new[c])
  BY SoundIsGood
<1>2. Sound(new, p, half2)
  <2>1. half \cap DOMAIN p \subseteq half2
    OBVIOUS
  <2> QED
    BY <2>1, SoundBeside DEF JobOk
<1> HIDE DEF new
<1>3. QueueOk(new, s, T)
  BY <1>1 DEF JobOk, QueueOk
<1>4. FocusOk(new, q, s, f)
  BY <1>1, Disjoint DEF JobOk, FocusOk
<1> QED
  BY <1>2, <1>3, <1>4 DEF JobOk, new

\* A step of job j leaves the variables of the others alone.
Others(j) == /\ Shape'
             /\ \A k \in Jobs \ {j} :
                  /\ put'[k] = put[k] /\ steps'[k] = steps[k] /\ pc'[k] = pc[k]
                  /\ todo'[k] = todo[k] /\ focus'[k] = focus[k]

\* A step that commits nothing.
LEMMA LocalStep ==
  ASSUME TitleInv, NEW j \in Jobs, Others(j), UNCHANGED <<db, halfway>>,
         \A k \in Jobs \ {j} : DOMAIN put'[j] \cap DOMAIN put[k] = {}, JobInv(j)'
  PROVE  TitleInv'
<1>1. ASSUME NEW k \in Jobs \ {j} PROVE JobInv(k)'
  BY <1>1 DEF TitleInv, JobInv, Others, Stage
<1>2. Apart'
  BY DEF TitleInv, Apart, Others
<1>3. Good(db, halfway)'
  BY DEF TitleInv
<1> QED
  BY <1>1, <1>2, <1>3 DEF TitleInv, Others

\* A step that commits ch, and with it what its job has written.
LEMMA CommonStep ==
  ASSUME TitleInv, NEW j \in Jobs, Others(j), NEW ch, db' = Over(ch, db),
         Sound(db, ch, halfway'), halfway \ DOMAIN ch \subseteq halfway',
         \A k \in Jobs \ {j} : DOMAIN ch \cap DOMAIN put[k] = {},
         DOMAIN put'[j] = {}, JobInv(j)'
  PROVE  TitleInv'
<1>1. ASSUME NEW k \in Jobs \ {j} PROVE JobInv(k)'
  <2>1. JobOk(db, halfway, put[k], pc[k], Stage(k), todo[k], focus[k])
    BY DEF TitleInv, JobInv
  <2>2. JobOk(Over(ch, db), halfway', put[k], pc[k], Stage(k), todo[k], focus[k])
    BY <2>1, JobKeeps DEF TitleInv
  <2> QED
    BY <2>2 DEF JobInv, Others, Stage
<1>2. Apart'
  BY DEF TitleInv, Apart, Others
<1>3. Good(db', halfway')
  BY SoundIsGood DEF TitleInv
<1> QED
  BY <1>1, <1>2, <1>3 DEF TitleInv, Others

\* What a job sees: the committed rows and its own.
LEMMA SeenRows ==
  ASSUME TitleInv, NEW j \in Jobs
  PROVE  /\ Good(View(j), halfway)
         /\ \A c \in Cands : IsRow(db[c]) => IsRow(View(j)[c])
<1>1. Good(db, halfway) /\ Sound(db, put[j], halfway)
  BY DEF TitleInv, JobInv, JobOk
<1> QED
  BY <1>1, SoundIsGood DEF View

LEMMA LockedByOthers ==
  ASSUME NEW j \in Jobs, NEW ch, DOMAIN ch \cap Locked(j) = {}
  PROVE  \A k \in Jobs \ {j} : DOMAIN ch \cap DOMAIN put[k] = {}
  BY DEF Locked

---------------------------------------------------------------------------------
(* The machine's steps.                                                                     *)

LEMMA MachineNotPeople == Machine \cap People = {} /\ Syncing \subseteq Machine
  BY DEF Machine, People, Syncing

LEMMA BeginKeeps ==
  ASSUME TitleInv, NEW j \in Jobs, NEW items, Begin(j, items), Stage(j) \in Machine,
         QueueOk(db, Stage(j), items)
  PROVE  TitleInv'
<1> USE DEF Begin, Turn
<1>1. Others(j)
  BY DEF TitleInv, Shape, Others
<1>2. /\ put'[j] = put[j] /\ Stage(j)' = Stage(j) /\ pc'[j] = "item" /\ todo'[j] = items
      /\ focus'[j] = focus[j]
  BY DEF TitleInv, Shape, Stage
<1>3. JobInv(j)'
  <2>1. JobOk(db, halfway, put[j], "ready", Stage(j), todo[j], focus[j])
    BY DEF TitleInv, JobInv
  <2>2. FocusOk(db, "item", Stage(j), focus[j])
    BY <2>1 DEF JobOk, FocusOk
  <2>3. JobOk(db, halfway, put[j], "item", Stage(j), items, focus[j])
    BY <2>1, <2>2, MachineNotPeople DEF JobOk
  <2> QED
    BY <1>2, <2>3 DEF JobInv
<1> QED
  BY <1>1, <1>2, <1>3, LocalStep DEF TitleInv, Apart

LEMMA BeginsKeep ==
  ASSUME TitleInv, NEW j \in Jobs,
         \/ BeginRematch(j) \/ BeginAutopilot(j) \/ BeginAssist(j) \/ BeginBackfill(j)
         \/ BeginSync(j) \/ BeginEnrich(j) \/ BeginGenres(j)
  PROVE  TitleInv'
<1>1. \A c \in ForAutopilot(db) : c \in Cands /\ IsRow(db[c])
  BY DEF ForAutopilot, IsOpen, TitleInv, Good
<1>2. ForAssist(db) \subseteq ForAutopilot(db) /\ ForBackfill(db) \subseteq ForAutopilot(db)
  BY DEF ForAssist, ForBackfill
<1>3. \A S : \A T \in AtMost(S) : T \subseteq S
  BY DEF AtMost
<1> USE DEF QueueOk, Machine, Syncing
<1>4. CASE BeginRematch(j)
  BY <1>4, BeginKeeps DEF BeginRematch, Untitled
<1>5. CASE BeginAutopilot(j)
  BY <1>1, <1>5, BeginKeeps DEF BeginAutopilot
<1>6. CASE BeginAssist(j)
  BY <1>1, <1>2, <1>3, <1>6, BeginKeeps DEF BeginAssist
<1>7. CASE BeginBackfill(j)
  BY <1>1, <1>2, <1>3, <1>7, BeginKeeps DEF BeginBackfill
<1>8. CASE BeginSync(j)
  BY <1>8, BeginKeeps DEF BeginSync
<1>9. CASE BeginEnrich(j)
  BY <1>9, BeginKeeps DEF BeginEnrich
<1>10. CASE BeginGenres(j)
  BY <1>10, BeginKeeps DEF BeginGenres
<1> QED
  BY <1>4, <1>5, <1>6, <1>7, <1>8, <1>9, <1>10

\* A job writes a sound change of what it sees, and goes on with its selection.
LEMMA WritingKeeps ==
  ASSUME TitleInv, NEW j \in Jobs, Others(j), UNCHANGED <<db, halfway>>,
         NEW ch, Sound(View(j), ch, halfway), DOMAIN ch \cap Locked(j) = {},
         put'[j] = Over(ch, put[j]), pc'[j] = "item", Stage(j)' = Stage(j), Stage(j) \in Machine,
         todo'[j] \subseteq todo[j], FocusOk(db, "item", Stage(j), focus'[j])
  PROVE  TitleInv'
<1>1. JobOk(db, halfway, put[j], pc[j], Stage(j), todo[j], focus[j]) /\ Good(db, halfway)
  BY DEF TitleInv, JobInv
<1>2. Sound(db, Over(ch, put[j]), halfway)
  BY <1>1, SoundOnTop DEF JobOk, View
<1>3. QueueOk(db, Stage(j), todo'[j])
  BY <1>1 DEF JobOk, QueueOk
<1>4. JobOk(db, halfway, Over(ch, put[j]), "item", Stage(j), todo'[j], focus'[j])
  BY <1>2, <1>3, MachineNotPeople DEF JobOk
<1>5. JobInv(j)'
  BY <1>4 DEF JobInv
<1>6. \A k \in Jobs \ {j} : DOMAIN put'[j] \cap DOMAIN put[k] = {}
  BY LockedByOthers DEF TitleInv, Apart, Over
<1> QED
  BY <1>5, <1>6, LocalStep

\* What the rematch, the autopilot, the assist, the backfill and the sync write for a row.
LEMMA WantsAreSound ==
  ASSUME NoneIsNoRow, TitleInv, NEW j \in Jobs, pc[j] = "item", NEW r \in todo[j],
         NEW ch \in Wants(j, r)
  PROVE  Sound(View(j), ch, halfway)
<1>1. JobOk(db, halfway, put[j], "item", Stage(j), todo[j], focus[j])
  BY DEF TitleInv, JobInv
<1>2. Stage(j) \in Machine /\ QueueOk(db, Stage(j), todo[j])
  BY <1>1 DEF JobOk
<1> DEFINE V == View(j)
<1>3. Good(V, halfway) /\ \A c \in Cands : IsRow(db[c]) => IsRow(V[c])
  BY SeenRows
<1>4. \A rows, n : Called(rows, n) \subseteq Titles
  BY DEF Called
<1> HIDE DEF V
<1>5. CASE Stage(j) = "rematch"
  <2>1. r \in Assets
    BY <1>2, <1>5 DEF QueueOk
  <2>2. ch \in RematchWants(j, r)
    BY <1>5 DEF Wants
  <2>3. CASE \E t \in Titles : ch = Assigning(V, r, t)
    BY <1>3, <2>1, <2>3, AssigningIsSound DEF V
  <2>4. CASE ch = Touching(V, r)
    BY <1>3, <2>1, <2>4, TouchingIsSound DEF V
  <2>5. CASE \E c \in Cands, n \in Names : ch = Over(Proposing(c, n), Touching(V, r))
    BY <1>3, <2>1, <2>5, ProposingAtIsSound DEF V
  <2> QED
    BY <2>2, <2>3, <2>4, <2>5 DEF RematchWants, NewCands, V
<1>6. CASE Stage(j) = "autopilot"
  <2>1. r \in Cands /\ IsRow(V[r])
    BY <1>2, <1>3, <1>6 DEF QueueOk
  <2>2. ch \in AutopilotWants(j, r) /\ AssetOf[r] \in Assets
    BY <1>6, <2>1, Disjoint DEF Wants
  <2>3. CASE V[AssetOf[r]] # None /\ ch = Resolving(V, AssetOf[r])
    BY <1>3, <2>2, <2>3, ResolvingIsSound DEF V
  <2>4. CASE \E t \in Titles : ch = Assigning(V, AssetOf[r], t)
    BY <1>3, <2>2, <2>4, AssigningIsSound DEF V
  <2>5. CASE ch = Closing(V, r, "ignored")
    BY <2>1, <2>5, ClosingIsSound DEF V
  <2>6. CASE ch = Nothing
    BY <2>6, NothingIsSound
  <2> QED
    BY <1>4, <2>2, <2>3, <2>4, <2>5, <2>6 DEF AutopilotWants, V
<1>7. CASE Stage(j) = "assist"
  <2>1. r \in Cands /\ IsRow(V[r])
    BY <1>2, <1>3, <1>7 DEF QueueOk
  <2>2. ch = Noting(V, r, Checked, V[r].name)
    BY <1>7 DEF Wants, NoShortlist, V
  <2> QED
    BY <1>3, <2>1, <2>2, NotingIsSound DEF V
<1>8. CASE Stage(j) = "sync"
  <2>1. ch \in SyncWants(j, r)
    BY <1>8 DEF Wants
  <2>2. ch = Nothing \/ \E t \in Titles : ch = Cataloguing(t, r.name, r.hit)
    BY <2>1 DEF SyncWants, Listed, Called, NewTitles, FreeTitles
  <2> QED
    BY <2>2, NothingIsSound, CataloguingIsSound
<1>9. CASE Stage(j) \in {"enrich", "genres"}
  BY <1>9 DEF Wants
<1>10. CASE Stage(j) \in {"backfill", "preview"}
  <2>1. r \in Cands /\ IsRow(V[r])
    BY <1>2, <1>3, <1>10 DEF QueueOk
  <2>2. ch \in BackfillKnows(j, r)
    BY <1>10 DEF Wants
  <2>3. ch = Nothing \/ \E t \in Titles : \E n : ch = AssigningFor(V, r, t, Checked, n)
    BY <2>2 DEF BackfillKnows, Known, Called, V
  <2> QED
    BY <1>3, <2>1, <2>3, NothingIsSound, AssigningForIsSound DEF V
<1> QED
  BY <1>2, <1>5, <1>6, <1>7, <1>8, <1>9, <1>10 DEF Machine, Syncing

LEMMA ItemKeeps ==
  ASSUME NoneIsNoRow, TitleInv, NEW j \in Jobs, Item(j)
  PROVE  TitleInv'
<1>1. PICK r \in todo[j] : \E ch \in Wants(j, r) :
             Write(j, ch) /\ Turn(j, "item") /\ todo' = [todo EXCEPT ![j] = @ \ {r}]
  BY DEF Item
<1>2. PICK ch \in Wants(j, r) : Write(j, ch)
  BY <1>1
<1>3. Sound(View(j), ch, halfway)
  BY WantsAreSound DEF Item
<1>4. Others(j)
  BY <1>1, <1>2 DEF Item, Turn, Write, Others, TitleInv, Shape
<1>5. /\ put'[j] = Over(ch, put[j]) /\ pc'[j] = "item" /\ Stage(j)' = Stage(j)
      /\ todo'[j] \subseteq todo[j] /\ focus'[j] = focus[j] /\ DOMAIN ch \cap Locked(j) = {}
  BY <1>1, <1>2 DEF Item, Turn, Write, Stage, TitleInv, Shape
<1>6. Stage(j) \in Machine /\ FocusOk(db, "item", Stage(j), focus[j])
  BY DEF Item, TitleInv, JobInv, JobOk
<1> QED
  BY <1>3, <1>4, <1>5, <1>6, WritingKeeps DEF Item

\* A step of the machine that neither writes nor commits: it asks, or it hears.
LEMMA AskingKeeps ==
  ASSUME TitleInv, NEW j \in Jobs, Others(j), UNCHANGED <<db, halfway>>, put'[j] = put[j],
         Stage(j)' = Stage(j), Stage(j) \in Machine \/ DOMAIN put[j] = {},
         pc'[j] \in {"call", "back"},
         pc'[j] = "back" => Stage(j) \in {"backfill", "preview", "pick"} \cup Syncing,
         todo'[j] \subseteq todo[j], FocusOk(db, pc'[j], Stage(j), focus'[j])
  PROVE  TitleInv'
<1>1. JobOk(db, halfway, put[j], pc[j], Stage(j), todo[j], focus[j])
  BY DEF TitleInv, JobInv
<1>2. QueueOk(db, Stage(j), todo'[j])
  BY <1>1 DEF JobOk, QueueOk
<1>3. JobOk(db, halfway, put[j], pc'[j], Stage(j), todo'[j], focus'[j])
  BY <1>1, <1>2, MachineNotPeople DEF JobOk
<1>4. JobInv(j)'
  BY <1>3 DEF JobInv
<1> QED
  BY <1>4, LocalStep DEF TitleInv, Apart

LEMMA FocusAtCand ==
  ASSUME NEW c
  PROVE  [NoFocus EXCEPT !.cand = c, !.asset = AssetOf[c]] =
           [asset |-> AssetOf[c], cand |-> c, title |-> None, hit |-> 0]
<1> DEFINE at == [NoFocus EXCEPT !.cand = c]
<1>1. at = [asset |-> None, cand |-> c, title |-> None, hit |-> 0]
  BY DEF NoFocus
<1>2. [NoFocus EXCEPT !.cand = c, !.asset = AssetOf[c]] = [at EXCEPT !.asset = AssetOf[c]]
  BY DEF NoFocus
<1> HIDE DEF at
<1> QED
  BY <1>1, <1>2

LEMMA AskKeeps ==
  ASSUME TitleInv, NEW j \in Jobs, Ask(j)
  PROVE  TitleInv'
<1>1. PICK c \in todo[j] :
        /\ Stage(j) \in {"assist", "backfill", "preview"}
        /\ focus' = [focus EXCEPT ![j] = [NoFocus EXCEPT !.cand = c, !.asset = AssetOf[c]]]
        /\ todo' = [todo EXCEPT ![j] = @ \ {c}]
  BY DEF Ask
<1> DEFINE f == [NoFocus EXCEPT !.cand = c, !.asset = AssetOf[c]]
<1>2. f = [asset |-> AssetOf[c], cand |-> c, title |-> None, hit |-> 0]
  BY FocusAtCand
<1> HIDE DEF f
<1>3. /\ Others(j) /\ put'[j] = put[j] /\ Stage(j)' = Stage(j) /\ pc'[j] = "call"
      /\ todo'[j] \subseteq todo[j] /\ focus'[j] = f
  BY <1>1 DEF Ask, Turn, Others, TitleInv, Shape, Stage, f
<1>4. c \in Cands /\ IsRow(db[c]) /\ Stage(j) \in Machine
  BY <1>1 DEF TitleInv, JobInv, JobOk, QueueOk, Machine
<1>5. FocusOk(db, "call", Stage(j), f)
  BY <1>1, <1>2, <1>4, MachineNotPeople DEF FocusOk
<1> QED
  BY <1>3, <1>4, <1>5, AskingKeeps DEF Ask

LEMMA AskForTitleKeeps ==
  ASSUME TitleInv, NEW j \in Jobs, AskForTitle(j)
  PROVE  TitleInv'
<1>1. PICK r \in todo[j] :
        /\ focus' = [focus EXCEPT ![j] = [NoFocus EXCEPT !.title = r]]
        /\ todo' = [todo EXCEPT ![j] = @ \ {r}]
  BY DEF AskForTitle
<1> DEFINE f == [NoFocus EXCEPT !.title = r]
<1>2. f = [asset |-> None, cand |-> None, title |-> r, hit |-> 0]
  BY DEF NoFocus
<1> HIDE DEF f
<1>3. /\ Others(j) /\ put'[j] = put[j] /\ Stage(j)' = Stage(j) /\ pc'[j] = "call"
      /\ todo'[j] \subseteq todo[j] /\ focus'[j] = f
  BY <1>1 DEF AskForTitle, Turn, Others, TitleInv, Shape, Stage, f
<1>4. /\ Stage(j) \in Syncing /\ Stage(j) \in Machine
      /\ Stage(j) \in {"enrich", "genres"} => r \in Titles
  BY MachineNotPeople DEF AskForTitle, TitleInv, JobInv, JobOk, QueueOk
<1>5. FocusOk(db, "call", Stage(j), f)
  BY <1>2, <1>4 DEF FocusOk, Syncing
<1> QED
  BY <1>3, <1>4, <1>5, AskingKeeps DEF AskForTitle

LEMMA ResumesKeeps ==
  ASSUME TitleInv, NEW j \in Jobs, Resumes(j)
  PROVE  TitleInv'
<1>1. PICK h \in Answers(j) : focus' = [focus EXCEPT ![j].hit = h]
  BY DEF Resumes
<1>2. JobOk(db, halfway, put[j], "call", Stage(j), todo[j], focus[j])
  BY DEF TitleInv, JobInv, Resumes
<1>3. FocusOk(db, "call", Stage(j), focus[j])
  BY <1>2 DEF JobOk
<1> DEFINE f == [focus[j] EXCEPT !.hit = h]
<1>4. f = [asset |-> focus[j].asset, cand |-> focus[j].cand, title |-> focus[j].title, hit |-> h]
  BY <1>3 DEF FocusOk
<1> HIDE DEF f
<1>5. /\ Others(j) /\ put'[j] = put[j] /\ Stage(j)' = Stage(j) /\ pc'[j] = "back"
      /\ todo'[j] = todo[j] /\ focus'[j] = f
  BY <1>1 DEF Resumes, Turn, Others, TitleInv, Shape, Stage, f
<1>6. FocusOk(db, "back", Stage(j), f)
  BY <1>3, <1>4 DEF FocusOk
<1>7. /\ Stage(j) \in {"backfill", "preview", "pick"} \cup Syncing
      /\ Stage(j) \in Machine \/ DOMAIN put[j] = {}
  BY <1>2 DEF Resumes, Coroutine, JobOk, Machine, People
<1> QED
  BY <1>5, <1>6, <1>7, AskingKeeps DEF Resumes

\* An answer is written like anything else.
LEMMA AnswerKeeps ==
  ASSUME TitleInv, NEW j \in Jobs, NEW ch, NEW failed, NEW dropped, Answer(j, ch, failed, dropped),
         Sound(View(j), ch, halfway), Stage(j) \in Machine
  PROVE  TitleInv'
<1>1. Others(j)
  BY DEF Answer, Turn, Write, Others, TitleInv, Shape
<1>2. /\ put'[j] = Over(ch, put[j]) /\ pc'[j] = "item" /\ Stage(j)' = Stage(j)
      /\ todo'[j] = todo[j] /\ focus'[j] = NoFocus /\ DOMAIN ch \cap Locked(j) = {}
  BY DEF Answer, Turn, Write, Stage, TitleInv, Shape
<1>3. FocusOk(db, "item", Stage(j), NoFocus)
  BY DEF FocusOk, NoFocus
<1> QED
  BY <1>1, <1>2, <1>3, WritingKeeps DEF Answer

LEMMA AssistKeeps ==
  ASSUME NoneIsNoRow, TitleInv, NEW j \in Jobs, AskedInVain(j) \/ AskedAndTold(j)
  PROVE  TitleInv'
<1> DEFINE V == View(j)
           c == focus[j].cand
<1>1. pc[j] = "call" /\ Stage(j) = "assist"
  BY DEF AskedInVain, AskedAndTold
<1>2. JobOk(db, halfway, put[j], "call", "assist", todo[j], focus[j])
  BY <1>1 DEF TitleInv, JobInv
<1>3. c \in Cands /\ IsRow(db[c])
  BY <1>2 DEF JobOk, FocusOk
<1>4. Good(V, halfway) /\ IsRow(V[c])
  BY <1>3, SeenRows
<1> HIDE DEF V, c
<1>5. \A m, n : Sound(V, Noting(V, c, m, n), halfway)
  BY <1>3, <1>4, NotingIsSound
<1>6. \A t \in Titles : \A m, n : Sound(V, AssigningFor(V, c, t, m, n), halfway)
  BY <1>3, <1>4, AssigningForIsSound
<1>7. \A ch \in AssistFailed(j) : Sound(V, ch, halfway)
  BY <1>5 DEF AssistFailed, V, c
<1>8. \A ch \in AssistAnswered(j) : Sound(V, ch, halfway)
  <2> SUFFICES ASSUME NEW ch \in AssistAnswered(j) PROVE Sound(V, ch, halfway)
    OBVIOUS
  <2>1. \/ \E t \in Titles : \E m, n : ch = AssigningFor(V, c, t, m, n)
        \/ \E m, n : ch = Noting(V, c, m, n)
    BY DEF AssistAnswered, Called, V, c
  <2> QED
    BY <1>5, <1>6, <2>1
<1>9. Stage(j) \in Machine
  BY <1>1 DEF Machine
<1> QED
  BY <1>7, <1>8, <1>9, AnswerKeeps DEF AskedInVain, AskedAndTold, V

LEMMA FoundIsSound ==
  ASSUME NoneIsNoRow, TitleInv, NEW j \in Jobs, pc[j] = "back", Stage(j) # "pick",
         NEW ch \in Found(j)
  PROVE  Sound(View(j), ch, halfway)
<1> DEFINE V == View(j)
<1>1. JobOk(db, halfway, put[j], "back", Stage(j), todo[j], focus[j])
  BY DEF TitleInv, JobInv
<1>2. Stage(j) \in {"backfill", "preview"} \cup Syncing
  BY <1>1 DEF JobOk
<1>3. Good(V, halfway) /\ \A c \in Cands : IsRow(db[c]) => IsRow(V[c])
  BY SeenRows
<1> HIDE DEF V
<1>4. CASE Stage(j) \in {"backfill", "preview"}
  <2>1. focus[j].cand \in Cands /\ IsRow(V[focus[j].cand])
    BY <1>1, <1>3, <1>4 DEF JobOk, FocusOk
  <2>2. \A t \in Titles : \A m, n : Sound(V, AssigningFor(V, focus[j].cand, t, m, n), halfway)
    BY <1>3, <2>1, AssigningForIsSound
  <2>3. ch \in BackfillAnswered(j)
    BY <1>4 DEF Found, Syncing
  <2>4. \/ ch = Nothing
        \/ \E t \in Titles : \E m, n :
             ch = Over(Cataloguing(t, n, 1), AssigningFor(V, focus[j].cand, t, m, n))
    BY <2>3 DEF BackfillAnswered, NewTitles, FreeTitles, V
  <2> QED
    BY <1>3, <2>2, <2>4, NothingIsSound, NewTitleIsSound DEF V
<1>5. CASE Stage(j) = "sync"
  <2>1. ch \in SyncWants(j, focus[j].title)
    BY <1>5 DEF Found, SyncAnswered, Syncing
  <2>2. ch = Nothing \/ \E t \in Titles : \E n, h : ch = Cataloguing(t, n, h)
    BY <2>1 DEF SyncWants, Listed, Called, NewTitles, FreeTitles
  <2> QED
    BY <2>2, NothingIsSound, CataloguingIsSound
<1>6. CASE Stage(j) \in {"enrich", "genres"}
  <2>1. focus[j].title \in Titles
    BY <1>1, <1>6 DEF JobOk, FocusOk
  <2>2. ch = Nothing \/ \E n, h : ch = Cataloguing(focus[j].title, n, h)
    BY <1>6 DEF Found, SyncAnswered, Syncing
  <2> QED
    BY <2>1, <2>2, NothingIsSound, CataloguingIsSound
<1> QED
  BY <1>2, <1>4, <1>5, <1>6 DEF Syncing

LEMMA SearchedForKeeps ==
  ASSUME NoneIsNoRow, TitleInv, NEW j \in Jobs, SearchedFor(j)
  PROVE  TitleInv'
<1>1. JobOk(db, halfway, put[j], "back", Stage(j), todo[j], focus[j]) /\ Stage(j) # "pick"
  BY DEF TitleInv, JobInv, SearchedFor
<1>2. Stage(j) \in Machine
  BY <1>1, MachineNotPeople DEF JobOk, Machine
<1> QED
  BY <1>2, FoundIsSound, AnswerKeeps DEF SearchedFor

\* A job's commit, after which it holds nothing.
LEMMA CommittingKeeps ==
  ASSUME TitleInv, NEW j \in Jobs, Others(j), Commit(j), UNCHANGED halfway, JobOk(db', halfway,
         Nothing, pc'[j], Stage(j)', todo'[j], focus'[j])
  PROVE  TitleInv'
<1>1. Sound(db, put[j], halfway) /\ db' = Over(put[j], db)
  BY DEF TitleInv, JobInv, JobOk, Commit, View
<1>2. put'[j] = Nothing
  BY DEF Commit, TitleInv, Shape
<1>3. DOMAIN put'[j] = {}
  BY <1>2 DEF Nothing
<1>4. JobInv(j)'
  BY <1>2 DEF JobInv
<1>5. \A k \in Jobs \ {j} : DOMAIN put[j] \cap DOMAIN put[k] = {}
  BY DEF TitleInv, Apart
<1> QED
  BY <1>1, <1>3, <1>4, <1>5, CommonStep

\* A job's rollback.
LEMMA RollingBackKeeps ==
  ASSUME TitleInv, NEW j \in Jobs, Others(j), Rollback(j), UNCHANGED halfway,
         JobOk(db, halfway, Nothing, pc'[j], Stage(j)', todo'[j], focus'[j])
  PROVE  TitleInv'
<1>1. put'[j] = Nothing
  BY DEF Rollback, TitleInv, Shape
<1>2. DOMAIN put'[j] = {}
  BY <1>1 DEF Nothing
<1>3. JobInv(j)'
  BY <1>1 DEF JobInv, Rollback
<1> QED
  BY <1>2, <1>3, LocalStep DEF Rollback

\* With nothing written and nothing selected a job is fine anywhere between two stages.
LEMMA EmptyJob ==
  ASSUME NEW d, NEW half, NEW q \in {"ready", "done", "failed"}, NEW s, NEW f,
         FocusOk(d, q, s, f)
  PROVE  JobOk(d, half, Nothing, q, s, {}, f)
<1>1. Sound(d, Nothing, half) /\ DOMAIN Nothing = {}
  BY NothingIsSound DEF Nothing
<1> QED
  BY <1>1 DEF JobOk, QueueOk

LEMMA IdleFocus ==
  ASSUME NEW d, NEW q, NEW s, NEW d2, NEW q2 \in {"ready", "item", "done", "failed"}, NEW s2, NEW f,
         FocusOk(d, q, s, f)
  PROVE  FocusOk(d2, q2, s2, f)
  BY DEF FocusOk

LEMMA NoFocusOk ==
  ASSUME NEW d, NEW q \in {"ready", "item", "done", "failed"}, NEW s
  PROVE  FocusOk(d, q, s, NoFocus)
  BY DEF FocusOk, NoFocus

LEMMA CommitsBatchKeeps ==
  ASSUME TitleInv, NEW j \in Jobs, CommitsBatch(j)
  PROVE  TitleInv'
<1>1. /\ Others(j) /\ pc'[j] = "item" /\ Stage(j)' = Stage(j) /\ todo'[j] = todo[j]
      /\ focus'[j] = focus[j]
  BY DEF CommitsBatch, Commit, Turn, Others, TitleInv, Shape, Stage
<1>2. /\ JobOk(db, halfway, put[j], "item", Stage(j), todo[j], focus[j]) /\ Good(db, halfway)
      /\ db' = Over(put[j], db)
  BY DEF TitleInv, JobInv, CommitsBatch, Commit, View
<1>3. \A c \in Cands : IsRow(db[c]) => IsRow(db'[c])
  BY <1>2, SoundIsGood DEF JobOk
<1>4. QueueOk(db', Stage(j), todo[j])
  BY <1>2, <1>3 DEF JobOk, QueueOk
<1>5. FocusOk(db', "item", Stage(j), focus[j])
  BY <1>2, IdleFocus DEF JobOk
<1>6. Sound(db', Nothing, halfway) /\ DOMAIN Nothing = {}
  BY NothingIsSound DEF Nothing
<1>7. JobOk(db', halfway, Nothing, "item", Stage(j), todo[j], focus[j])
  BY <1>2, <1>4, <1>5, <1>6 DEF JobOk
<1> QED
  BY <1>1, <1>7, CommittingKeeps DEF CommitsBatch

LEMMA StageEndsKeeps ==
  ASSUME TitleInv, NEW j \in Jobs, StageEnds(j)
  PROVE  TitleInv'
<1>1. Others(j)
  BY DEF StageEnds, Commit, Rollback, Turn, Others, TitleInv, Shape
<1>2. pc'[j] \in {"ready", "done", "failed"} /\ todo'[j] = {} /\ focus'[j] = focus[j]
  BY DEF StageEnds, Turn, TitleInv, Shape
<1>3. FocusOk(db, "item", Stage(j), focus[j])
  BY DEF StageEnds, TitleInv, JobInv, JobOk
<1>4. \A d : JobOk(d, halfway, Nothing, pc'[j], Stage(j)', todo'[j], focus'[j])
  BY <1>2, <1>3, IdleFocus, EmptyJob
<1> QED
  BY <1>1, <1>4, CommittingKeeps, RollingBackKeeps DEF StageEnds

LEMMA FailsKeep ==
  ASSUME TitleInv, NEW j \in Jobs, LockTimeout(j) \/ SyncCut(j) \/ SyncFails(j)
  PROVE  TitleInv'
<1>1. (Rollback(j) \/ Commit(j)) /\ Fails(j)
  BY DEF LockTimeout, SyncCut, SyncFails
<1>2. Others(j)
  BY <1>1 DEF Fails, Commit, Rollback, Turn, Others, TitleInv, Shape
<1>3. pc'[j] = "failed" /\ todo'[j] = {} /\ focus'[j] = NoFocus /\ UNCHANGED halfway
  BY <1>1 DEF Fails, Turn, TitleInv, Shape
<1>4. \A d : JobOk(d, halfway, Nothing, pc'[j], Stage(j)', todo'[j], focus'[j])
  BY <1>3, NoFocusOk, EmptyJob
<1> QED
  BY <1>1, <1>2, <1>3, <1>4, CommittingKeeps, RollingBackKeeps

LEMMA MachinesKeep ==
  ASSUME NoneIsNoRow, TitleInv, NEW j \in Jobs, Machines(j)
  PROVE  TitleInv'
  BY BeginsKeep, ItemKeeps, AskKeeps, AskForTitleKeeps, ResumesKeeps, AssistKeeps,
     SearchedForKeeps, CommitsBatchKeeps, StageEndsKeeps, FailsKeep DEF Machines

---------------------------------------------------------------------------------
(* What people click.                                                                       *)

\* A click leaves its job with an empty transaction.
LEMMA PersonIdle ==
  ASSUME TitleInv, NEW j \in Jobs, Stage(j) \in People
  PROVE  /\ Sound(db, put[j], halfway) /\ DOMAIN put[j] = {} /\ QueueOk(db, Stage(j), todo[j])
         /\ \A d, half : Sound(d, put[j], half)
         /\ \A d : QueueOk(d, Stage(j), todo[j])
<1>1. JobOk(db, halfway, put[j], pc[j], Stage(j), todo[j], focus[j])
  BY DEF TitleInv, JobInv
<1>2. \A d : QueueOk(d, Stage(j), todo[j])
  BY DEF QueueOk, People
<1>3. DOMAIN put[j] = {}
  BY <1>1 DEF JobOk
<1> QED
  BY <1>1, <1>2, <1>3 DEF JobOk, Sound

\* A request that only looks.
LEMMA LookingKeeps ==
  ASSUME TitleInv, NEW j \in Jobs, NEW q \in {"call", "insert", "review", "patch", "done", "failed"},
         NEW f, PersonStep(j, q, f), UNCHANGED <<db, halfway>>, Stage(j) \in People,
         FocusOk(db, q, Stage(j), f)
  PROVE  TitleInv'
<1>1. /\ Others(j) /\ put'[j] = put[j] /\ Stage(j)' = Stage(j) /\ pc'[j] = q
      /\ todo'[j] = todo[j] /\ focus'[j] = f
  BY DEF PersonStep, Turn, Others, TitleInv, Shape, Stage
<1>2. JobOk(db, halfway, put[j], q, Stage(j), todo[j], f)
  BY PersonIdle DEF JobOk
<1>3. JobInv(j)'
  BY <1>1, <1>2 DEF JobInv
<1> QED
  BY <1>1, <1>3, LocalStep DEF TitleInv, Apart

\* A request that writes.
LEMMA RequestKeeps ==
  ASSUME TitleInv, NEW j \in Jobs, NEW q \in {"review", "patch", "done"},
         NEW f, PersonStep(j, q, f), Stage(j) \in People,
         NEW ch, Request(j, ch), Sound(db, ch, halfway'), halfway \ DOMAIN ch \subseteq halfway',
         FocusOk(db', q, Stage(j), f)
  PROVE  TitleInv'
<1>1. /\ Others(j) /\ put'[j] = put[j] /\ Stage(j)' = Stage(j) /\ pc'[j] = q
      /\ todo'[j] = todo[j] /\ focus'[j] = f
  BY DEF PersonStep, Turn, Others, TitleInv, Shape, Stage
<1>2. JobOk(db', halfway', put[j], q, Stage(j), todo[j], f)
  BY PersonIdle DEF JobOk
<1>3. JobInv(j)'
  BY <1>1, <1>2 DEF JobInv
<1>4. \A k \in Jobs \ {j} : DOMAIN ch \cap DOMAIN put[k] = {}
  BY LockedByOthers DEF Request
<1>5. DOMAIN put'[j] = {}
  BY <1>1, PersonIdle
<1> QED
  BY <1>1, <1>3, <1>4, <1>5, CommonStep DEF Request

LEMMA RowsToClick ==
  ASSUME TitleInv
  PROVE  /\ \A c \in Fresh(db) \cup ForAutopilot(db) : c \in Cands /\ IsRow(db[c])
         /\ \A n : Called(db, n) \subseteq Titles
         /\ NewTitles \subseteq Titles
         /\ Good(db, halfway)
  BY DEF Fresh, ForAutopilot, IsOpen, Called, NewTitles, FreeTitles, TitleInv, Good

LEMMA PicksKeep ==
  ASSUME NoneIsNoRow, TitleInv, NEW j \in Jobs, PickKnown(j) \/ PickAsks(j) \/ PickCreates(j)
  PROVE  TitleInv'
<1>1. Stage(j) = "pick" /\ Stage(j) \in People
  BY DEF PickKnown, PickAsks, PickCreates, Clicked, People
<1>2. CASE PickKnown(j)
  <2>1. PICK c \in Cands, t \in Titles : /\ IsRow(db[c])
                                         /\ Request(j, AssigningFor(db, c, t, Checked, db[c].name))
    BY <1>2, RowsToClick DEF PickKnown
  <2>2. Sound(db, AssigningFor(db, c, t, Checked, db[c].name), halfway)
    BY <2>1, AssigningForIsSound DEF TitleInv
  <2>3. FocusOk(db', "done", Stage(j), NoFocus)
    BY NoFocusOk
  <2> QED
    BY <1>1, <1>2, <2>1, <2>2, <2>3, RequestKeeps DEF PickKnown
<1>3. CASE PickAsks(j)
  <2>0. PICK c \in Fresh(db) : \E h \in 1..Hits[db[c].name] :
          PersonStep(j, "call", [NoFocus EXCEPT !.cand = c, !.asset = AssetOf[c], !.hit = h])
    BY <1>3, Zenon DEF PickAsks
  <2>1. PICK h \in 1..Hits[db[c].name] :
          PersonStep(j, "call", [NoFocus EXCEPT !.cand = c, !.asset = AssetOf[c], !.hit = h])
    BY <2>0, Zenon
  <2>7. c \in Cands /\ IsRow(db[c]) /\ h \in Nat
    BY <2>0, <2>1, RowsToClick
  <2> DEFINE at == [NoFocus EXCEPT !.cand = c, !.asset = AssetOf[c]]
             f  == [NoFocus EXCEPT !.cand = c, !.asset = AssetOf[c], !.hit = h]
  <2>2. at = [asset |-> AssetOf[c], cand |-> c, title |-> None, hit |-> 0]
    BY FocusAtCand
  <2>3. f = [at EXCEPT !.hit = h]
    BY DEF NoFocus
  <2> HIDE DEF at
  <2>4. f = [asset |-> AssetOf[c], cand |-> c, title |-> None, hit |-> h]
    BY <2>2, <2>3
  <2> HIDE DEF f
  <2>5. FocusOk(db, "call", Stage(j), f)
    BY <1>1, <2>7, <2>4 DEF FocusOk
  <2>6. PersonStep(j, "call", f)
    BY <2>1 DEF f
  <2> QED
    BY <1>1, <1>3, <2>5, <2>6, LookingKeeps DEF PickAsks
<1>4. CASE PickCreates(j)
  <2> DEFINE c == focus[j].cand
  <2>1. JobOk(db, halfway, put[j], "back", "pick", todo[j], focus[j])
    BY <1>1, <1>4 DEF TitleInv, JobInv, PickCreates
  <2>2. c \in Cands /\ IsRow(db[c])
    BY <2>1 DEF JobOk, FocusOk
  <2>3. PICK t \in Titles :
          Request(j, Over(Cataloguing(t, db[c].name, focus[j].hit),
                          AssigningFor(db, c, t, Checked, db[c].name)))
    BY <1>4, RowsToClick DEF PickCreates
  <2> HIDE DEF c
  <2>4. Sound(db, AssigningFor(db, c, t, Checked, db[c].name), halfway) /\ Good(db, halfway)
    BY <2>2, AssigningForIsSound DEF TitleInv
  <2>5. Sound(db, Over(Cataloguing(t, db[c].name, focus[j].hit),
                       AssigningFor(db, c, t, Checked, db[c].name)), halfway)
    BY <2>4, NewTitleIsSound
  <2>6. FocusOk(db', "done", Stage(j), NoFocus)
    BY NoFocusOk
  <2> QED
    BY <1>1, <1>4, <2>3, <2>5, <2>6, RequestKeeps DEF PickCreates
<1> QED
  BY <1>2, <1>3, <1>4

LEMMA LooksKeep ==
  ASSUME TitleInv, NEW j \in Jobs, CreateLooks(j) \/ ConfirmChooses(j)
  PROVE  TitleInv'
<1>1. Stage(j) \in People
  BY DEF CreateLooks, ConfirmChooses, Clicked, People
<1>2. PICK c \in Cands :
        /\ IsRow(db[c])
        /\ \/ PersonStep(j, "failed", NoFocus)
           \/ PersonStep(j, "insert", [NoFocus EXCEPT !.cand = c, !.asset = AssetOf[c]])
           \/ \E t \in Titles :
                \/ PersonStep(j, "review",
                     [[NoFocus EXCEPT !.cand = c, !.asset = AssetOf[c]] EXCEPT !.title = t])
                \/ PersonStep(j, "review",
                     [NoFocus EXCEPT !.cand = c, !.asset = AssetOf[c], !.title = t])
  BY RowsToClick DEF CreateLooks, ConfirmChooses
<1> DEFINE at == [NoFocus EXCEPT !.cand = c, !.asset = AssetOf[c]]
           titled(t) == [asset |-> AssetOf[c], cand |-> c, title |-> t, hit |-> 0]
<1>3. at = titled(None)
  BY FocusAtCand
<1>4. \A t : [NoFocus EXCEPT !.cand = c, !.asset = AssetOf[c], !.title = t] = [at EXCEPT !.title = t]
  BY DEF NoFocus
<1> HIDE DEF at
<1>5. \A t : [at EXCEPT !.title = t] = titled(t)
  BY <1>3
<1>6. FocusOk(db, "insert", Stage(j), titled(None))
  BY <1>1, <1>2 DEF FocusOk
<1>7. \A t \in Titles : FocusOk(db, "review", Stage(j), titled(t))
  BY <1>1, <1>2 DEF FocusOk
<1>8. FocusOk(db, "failed", Stage(j), NoFocus)
  BY NoFocusOk
<1>9. \/ PersonStep(j, "failed", NoFocus)
      \/ PersonStep(j, "insert", titled(None))
      \/ \E t \in Titles : PersonStep(j, "review", titled(t))
  BY <1>2, <1>3, <1>4, <1>5 DEF at
<1>10. UNCHANGED <<db, halfway>>
  BY DEF CreateLooks, ConfirmChooses
<1> HIDE DEF titled
<1> QED
  BY <1>1, <1>6, <1>7, <1>8, <1>9, <1>10, LookingKeeps

\* The requests that follow, at the row the click is about.
LEMMA AtClicked ==
  ASSUME TitleInv, NEW j \in Jobs,
         pc[j] \in {"review", "patch"} \/ (pc[j] = "insert" /\ Stage(j) = "create")
  PROVE  /\ Stage(j) \in People
         /\ focus[j].cand \in Cands /\ IsRow(db[focus[j].cand])
         /\ focus[j].asset = AssetOf[focus[j].cand]
         /\ \A t : [focus[j] EXCEPT !.title = t] =
                     [asset |-> focus[j].asset, cand |-> focus[j].cand, title |-> t,
                      hit |-> focus[j].hit]
         /\ pc[j] = "review" => focus[j].title \in Titles
         /\ pc[j] = "patch" => focus[j].title = None \/ db[focus[j].asset] # None
<1>1. FocusOk(db, pc[j], Stage(j), focus[j])
  BY DEF TitleInv, JobInv, JobOk
<1> QED
  BY <1>1 DEF FocusOk

LEMMA CreateInsertsKeeps ==
  ASSUME TitleInv, NEW j \in Jobs, CreateInserts(j)
  PROVE  TitleInv'
<1>1. PICK t \in Titles : /\ Request(j, Cataloguing(t, db[focus[j].cand].name, 0))
                          /\ PersonStep(j, "review", [focus[j] EXCEPT !.title = t])
  BY RowsToClick DEF CreateInserts
<1> DEFINE ch == Cataloguing(t, db[focus[j].cand].name, 0)
           f  == [focus[j] EXCEPT !.title = t]
<1>2. /\ Stage(j) \in People /\ focus[j].cand \in Cands /\ IsRow(db[focus[j].cand])
      /\ focus[j].asset = AssetOf[focus[j].cand]
      /\ f = [asset |-> focus[j].asset, cand |-> focus[j].cand, title |-> t,
              hit |-> focus[j].hit]
  BY AtClicked DEF CreateInserts
<1>3. Sound(db, ch, halfway) /\ Good(db, halfway) /\ db' = Over(ch, db)
  BY <1>1, CataloguingIsSound DEF TitleInv, Request
<1> HIDE DEF ch, f
<1>4. IsRow(db'[focus[j].cand])
  BY <1>2, <1>3, SoundIsGood
<1>5. FocusOk(db', "review", Stage(j), f)
  BY <1>2, <1>4 DEF FocusOk
<1> QED
  BY <1>1, <1>2, <1>3, <1>5, RequestKeeps DEF CreateInserts, ch, f

LEMMA ReviewsKeep ==
  ASSUME TitleInv, NEW j \in Jobs, ReviewAsset(j) \/ ConfirmReviewFails(j)
  PROVE  TitleInv'
<1>1. pc[j] = "review"
  BY DEF ReviewAsset, ConfirmReviewFails
<1>2. FocusOk(db, "review", Stage(j), focus[j])
  BY <1>1 DEF TitleInv, JobInv, JobOk
<1>3. CASE ReviewAsset(j)
  <2> DEFINE ch == Titling(focus[j].asset, focus[j].title)
  <2>1. Stage(j) \in People /\ focus[j].asset \in Assets /\ focus[j].title \in Titles
    BY <1>1, AtClicked, Disjoint
  <2>2. Sound(db, ch, halfway) /\ Good(db, halfway) /\ db' = Over(ch, db)
    BY <1>3, <2>1, TitlingIsSound DEF ReviewAsset, Request, TitleInv
  <2>3. db'[focus[j].asset] # None
    BY <2>1, <2>2, Disjoint DEF Over, Titling
  <2> HIDE DEF ch
  <2>4. IsRow(db'[focus[j].cand])
    BY <1>2, <2>2, SoundIsGood DEF FocusOk
  <2>5. FocusOk(db', "patch", Stage(j), focus[j])
    BY <1>2, <2>3, <2>4 DEF FocusOk
  <2> QED
    BY <1>3, <2>1, <2>2, <2>5, RequestKeeps DEF ReviewAsset, ch
<1>4. CASE ConfirmReviewFails(j)
  <2> DEFINE f == [focus[j] EXCEPT !.title = None]
  <2>1. /\ Stage(j) \in People
        /\ f = [asset |-> focus[j].asset, cand |-> focus[j].cand, title |-> None,
                hit |-> focus[j].hit]
    BY <1>1, AtClicked
  <2> HIDE DEF f
  <2>2. FocusOk(db, "patch", Stage(j), f)
    BY <1>2, <2>1 DEF FocusOk
  <2> QED
    BY <1>4, <2>1, <2>2, LookingKeeps DEF ConfirmReviewFails, f
<1> QED
  BY <1>3, <1>4

LEMMA PatchCandidateKeeps ==
  ASSUME TitleInv, NEW j \in Jobs, PatchCandidate(j)
  PROVE  TitleInv'
<1> DEFINE c == focus[j].cand
           ch == Closing(db, c, "resolved")
<1>1. /\ Stage(j) \in People /\ c \in Cands /\ IsRow(db[c])
      /\ focus[j].title = None \/ db[AssetOf[c]] # None
  BY AtClicked DEF PatchCandidate
<1>2. Sound(db, ch, halfway')
  BY <1>1, ClosingIsSound DEF PatchCandidate
<1>3. FocusOk(db', "done", Stage(j), NoFocus) /\ halfway \subseteq halfway'
  BY NoFocusOk DEF PatchCandidate
<1> QED
  BY <1>1, <1>2, <1>3, RequestKeeps DEF PatchCandidate

LEMMA OneRequestKeeps ==
  ASSUME TitleInv, NEW j \in Jobs, Dismiss(j) \/ SuggestInserts(j) \/ Reopen(j)
  PROVE  TitleInv'
<1>1. FocusOk(db', "done", Stage(j), NoFocus)
  BY NoFocusOk
<1>2. CASE Dismiss(j)
  <2>1. PICK c \in Cands : IsRow(db[c]) /\ Request(j, Closing(db, c, "ignored"))
    BY <1>2, RowsToClick DEF Dismiss
  <2>2. Sound(db, Closing(db, c, "ignored"), halfway)
    BY <2>1, ClosingIsSound
  <2> QED
    BY <1>1, <1>2, <2>1, <2>2, RequestKeeps DEF Dismiss, Clicked, People
<1>3. CASE SuggestInserts(j)
  <2>1. PICK c \in Cands, n \in Names : Request(j, Proposing(c, n))
    BY <1>3 DEF SuggestInserts, NewCands
  <2>2. Sound(db, Proposing(c, n), halfway)
    BY ProposingIsSound
  <2> QED
    BY <1>1, <1>3, <2>1, <2>2, RequestKeeps DEF SuggestInserts, People
<1>4. CASE Reopen(j)
  <2>1. PICK c \in Cands : /\ IsRow(db[c]) /\ Request(j, Closing(db, c, "open"))
                           /\ halfway' = halfway \ {c}
    BY <1>4, RowsToClick DEF Reopen
  <2>2. Sound(db, Closing(db, c, "open"), halfway') /\ DOMAIN Closing(db, c, "open") = {c}
    BY <2>1, ClosingIsSound DEF Closing
  <2>3. halfway \ DOMAIN Closing(db, c, "open") \subseteq halfway'
    BY <2>1, <2>2
  <2> QED
    BY <1>1, <1>4, <2>1, <2>2, <2>3, RequestKeeps DEF Reopen, Clicked, People
<1> QED
  BY <1>2, <1>3, <1>4

LEMMA OthersClicksKeep ==
  ASSUME TitleInv, NEW j \in Jobs, SuggestLooks(j) \/ GivesUp(j)
  PROVE  TitleInv'
<1>1. CASE SuggestLooks(j)
  <2>1. PICK a \in Assets : PersonStep(j, "insert", [NoFocus EXCEPT !.asset = a])
    BY <1>1 DEF SuggestLooks
  <2>2. Stage(j) = "suggest" /\ Stage(j) \in People
    BY <1>1 DEF SuggestLooks, Clicked, People
  <2>3. FocusOk(db, "insert", Stage(j), [NoFocus EXCEPT !.asset = a])
    BY <2>2 DEF FocusOk, NoFocus
  <2> QED
    BY <1>1, <2>1, <2>2, <2>3, LookingKeeps DEF SuggestLooks
<1>2. CASE GivesUp(j)
  BY <1>2, NoFocusOk, LookingKeeps DEF GivesUp
<1> QED
  BY <1>1, <1>2

LEMMA PersonsKeep ==
  ASSUME NoneIsNoRow, TitleInv, NEW j \in Jobs, Persons(j)
  PROVE  TitleInv'
  BY PicksKeep, LooksKeep, CreateInsertsKeeps, ReviewsKeep, PatchCandidateKeeps, OneRequestKeeps,
     OthersClicksKeep DEF Persons

---------------------------------------------------------------------------------
(* The theorem.                                                                             *)

LEMMA BeginsGood == CleanStart /\ Init => TitleInv
<1> SUFFICES ASSUME CleanStart, Init PROVE TitleInv
  OBVIOUS
<1>1. Good(db, halfway)
  <2>1. IsTables(db) /\ \A c \in Cands : db[c] # None /\ db[c].status = "resolved"
                                           => db[AssetOf[c]] # None
    BY InitAssumption DEF Init, CleanStart
  <2>2. \A v \in CandRow : IsRow(v)
    BY DEF CandRow, IsRow
  <2> QED
    BY <2>1, <2>2 DEF IsTables, Good
<1>2. ASSUME NEW j \in Jobs PROVE JobInv(j)
  <2>1. pc[j] = "ready" /\ put[j] = Nothing /\ todo[j] = {} /\ focus[j] = NoFocus
    BY DEF Init
  <2> QED
    BY <2>1, NoFocusOk, EmptyJob DEF JobInv
<1>3. Shape
  <2>1. \E p \in Schedules : steps = [j \in Jobs |-> p[j].steps]
    BY DEF Init
  <2> QED
    BY <2>1 DEF Init, Shape
<1>4. Apart
  BY DEF Init, Apart, Nothing
<1> QED
  BY <1>1, <1>2, <1>3, <1>4 DEF TitleInv

LEMMA StepsKeep == NoneIsNoRow /\ TitleInv /\ [Next]_vars => TitleInv'
<1> SUFFICES ASSUME NoneIsNoRow, TitleInv, [Next]_vars PROVE TitleInv'
  OBVIOUS
<1>1. CASE UNCHANGED vars
  BY <1>1 DEF vars, TitleInv, Shape, Apart, JobInv, Stage
<1>2. CASE Next
  BY <1>2, MachinesKeep, PersonsKeep DEF Next, Step
<1> QED
  BY <1>1, <1>2

\* The asset of a resolved candidate has a title, whatever jobs and clicks meet, when it was
\* so at the start of the day: for every number of assets, candidates and jobs, and whatever
\* the matcher, the model and TMDb say (title_rematch.py, candidate_autopilot.py,
\* candidate_llm_assist.py, katalog_nachladen.py, titles.py, assets.py).
THEOREM ResolvedMeansTitled ==
  ASSUME NoneIsNoRow, CleanStart
  PROVE  Spec => []ClosedWithTitle
<1>1. Init => TitleInv
  BY BeginsGood
<1>2. TitleInv /\ [Next]_vars => TitleInv'
  BY StepsKeep
<1>3. TitleInv => ClosedWithTitle
  BY DEF TitleInv, Good, ClosedWithTitle
<1> QED
  BY <1>1, <1>2, <1>3, PTL DEF Spec

---------------------------------------------------------------------------------
(* What a repeated job finds.  While no other job commits, a stage sees the tables it began *)
(* with, changed by what it has written itself (View).                                      *)

\* One studio's catalogue does not hold two works of one name, and None is no work.
OneWorkPerName == /\ \A v, w \in Slate : v.name = w.name => v = w
                  /\ None \notin Slate

LEMMA OverIsAssociative ==
  ASSUME NEW d, NEW p, NEW ch
  PROVE  Over(Over(ch, p), d) = Over(ch, Over(p, d))
  BY DEF Over

LEMMA OverNothing ==
  ASSUME NEW d, NEW p, DOMAIN p \subseteq DOMAIN d, DOMAIN d = Rows
  PROVE  /\ Over(Nothing, Over(p, d)) = Over(p, d)
         /\ DOMAIN p = {} => \A r \in Rows : Over(p, d)[r] = d[r]
  BY DEF Over, Nothing

\* The rows after a change.
LEMMA RowsAfter ==
  ASSUME NEW V, NEW half, Good(V, half), NEW ch, DOMAIN ch \subseteq Rows
  PROVE  /\ DOMAIN Over(ch, V) = Rows
         /\ \A r \in Rows : Over(ch, V)[r] = IF r \in DOMAIN ch THEN ch[r] ELSE V[r]
  BY DEF Over, Good

\* Titles untouched, and whoever is still open is as before, like its asset.
Tidies(V, W) == /\ \A t \in Titles : W[t] = V[t]
                /\ \A c \in Cands : IsOpen(W, c) => W[c] = V[c] /\ W[AssetOf[c]] = V[AssetOf[c]]

LEMMA SameCalled ==
  ASSUME NEW V, NEW W, \A t \in Titles : W[t] = V[t]
  PROVE  \A n : Called(W, n) = Called(V, n) /\ (Unique(W, n) <=> Unique(V, n))
  BY DEF Called, Unique

LEMMA TidyLeavesLess ==
  ASSUME NEW V, NEW W, Tidies(V, W)
  PROVE  LeftBehind(W) \subseteq LeftBehind(V)
<1>1. \A n : Unique(W, n) <=> Unique(V, n)
  BY SameCalled DEF Tidies
<1> QED
  BY <1>1 DEF LeftBehind, ForAutopilot, Tidies, IsOpen

LEMMA ResolvedRows ==
  ASSUME NEW V, NEW half, Good(V, half), NEW a
  PROVE  /\ DOMAIN Resolving(V, a) = OpenOf(V, a) /\ OpenOf(V, a) \subseteq Cands
         /\ \A c \in OpenOf(V, a) : Resolving(V, a)[c].status = "resolved"
<1>1. OpenOf(V, a) \subseteq Cands /\ \A c \in OpenOf(V, a) : IsRow(V[c])
  BY DEF OpenOf, IsOpen, Good
<1>2. ASSUME NEW c \in OpenOf(V, a)
      PROVE  [V[c] EXCEPT !.status = "resolved"].status = "resolved"
  BY <1>1 DEF IsRow
<1> QED
  BY <1>1, <1>2 DEF Resolving

\* The three ways the autopilot closes a candidate, and leaving it alone.
LEMMA ResolvingTidies ==
  ASSUME NEW V, NEW half, Good(V, half), NEW a \in Assets
  PROVE  /\ Tidies(V, Over(Resolving(V, a), V))
         /\ \A c \in Cands : AssetOf[c] = a => ~IsOpen(Over(Resolving(V, a), V), c)
<1> DEFINE ch == Resolving(V, a)
           W == Over(ch, V)
<1>1. DOMAIN ch = OpenOf(V, a) /\ DOMAIN ch \subseteq Cands
  BY ResolvedRows
<1>2. \A c \in OpenOf(V, a) : ch[c].status = "resolved"
  BY ResolvedRows
<1> HIDE DEF ch
<1>3. \A r \in Rows : W[r] = IF r \in DOMAIN ch THEN ch[r] ELSE V[r]
  BY <1>1, RowsAfter, Disjoint
<1> HIDE DEF W
<1>4. \A c \in Cands : IsOpen(W, c) => c \notin DOMAIN ch
  BY <1>1, <1>2, <1>3, Disjoint DEF IsOpen
<1>5. \A c \in Cands : AssetOf[c] = a => ~IsOpen(W, c)
  BY <1>1, <1>3, <1>4, Disjoint DEF IsOpen, OpenOf
<1>6. Tidies(V, W)
  BY <1>1, <1>3, <1>4, Disjoint DEF Tidies
<1> QED
  BY <1>5, <1>6 DEF W, ch

LEMMA AssigningTidies ==
  ASSUME NEW V, NEW half, Good(V, half), NEW a \in Assets, NEW t
  PROVE  /\ Tidies(V, Over(Assigning(V, a, t), V))
         /\ \A c \in Cands : AssetOf[c] = a => ~IsOpen(Over(Assigning(V, a, t), V), c)
<1> DEFINE closed == Resolving(V, a)
           ch == Assigning(V, a, t)
           W == Over(ch, V)
<1>1. DOMAIN closed = OpenOf(V, a) /\ DOMAIN closed \subseteq Cands
  BY ResolvedRows
<1>2. \A c \in OpenOf(V, a) : closed[c].status = "resolved"
  BY ResolvedRows
<1>3. /\ DOMAIN ch = {a} \cup DOMAIN closed
      /\ \A r \in DOMAIN ch : ch[r] = IF r = a THEN t ELSE closed[r]
  BY DEF Assigning, Over, Titling
<1> HIDE DEF closed, ch
<1>4. \A r \in Rows : W[r] = IF r \in DOMAIN ch THEN ch[r] ELSE V[r]
  BY <1>1, <1>3, RowsAfter, Disjoint
<1> HIDE DEF W
<1>5. \A c \in Cands : IsOpen(W, c) => c \notin DOMAIN closed
  BY <1>1, <1>2, <1>3, <1>4, Disjoint DEF IsOpen
<1>6. \A c \in Cands : AssetOf[c] = a => ~IsOpen(W, c)
  BY <1>1, <1>3, <1>4, <1>5, Disjoint DEF IsOpen, OpenOf
<1>7. Tidies(V, W)
  BY <1>1, <1>3, <1>4, <1>5, <1>6, Disjoint DEF Tidies
<1> QED
  BY <1>6, <1>7 DEF W, ch

LEMMA ClosingTidies ==
  ASSUME NEW V, NEW half, Good(V, half), NEW c \in Cands, IsRow(V[c]), NEW s, s # "open"
  PROVE  /\ Tidies(V, Over(Closing(V, c, s), V))
         /\ ~IsOpen(Over(Closing(V, c, s), V), c)
<1> DEFINE W == Over(Closing(V, c, s), V)
<1>1. [V[c] EXCEPT !.status = s] = [status |-> s, mark |-> V[c].mark, name |-> V[c].name]
  BY DEF IsRow
<1>2. /\ DOMAIN Closing(V, c, s) = {c}
      /\ Closing(V, c, s)[c] = [status |-> s, mark |-> V[c].mark, name |-> V[c].name]
  BY <1>1 DEF Closing
<1>3. /\ W[c] = [status |-> s, mark |-> V[c].mark, name |-> V[c].name]
      /\ \A r \in Rows \ {c} : W[r] = V[r]
  BY <1>2, RowsAfter, Disjoint
<1> HIDE DEF W
<1>4. ~IsOpen(W, c)
  BY <1>3 DEF IsOpen
<1>5. Tidies(V, W)
  BY <1>3, <1>4, Disjoint DEF Tidies
<1> QED
  BY <1>4, <1>5 DEF W

\* What the autopilot knows of the rows it sees: the titles and the open candidates are those
\* the stage began with, and what it would do something about is still on its list.
AutopilotSeen(d, V, T) ==
  /\ \A t \in Titles : V[t] = d[t]
  /\ \A c \in Cands : IsOpen(V, c) => V[c] = d[c]
  /\ LeftBehind(V) \subseteq T

LEMMA TidyingIsSeen ==
  ASSUME NEW d, NEW V, NEW W, NEW T, AutopilotSeen(d, V, T), Tidies(V, W),
         NEW c \in Cands, c \notin LeftBehind(W)
  PROVE  AutopilotSeen(d, W, T \ {c})
<1>1. LeftBehind(W) \subseteq T \ {c}
  BY TidyLeavesLess DEF AutopilotSeen
<1>2. \A x \in Cands : IsOpen(W, x) => IsOpen(V, x)
  BY DEF Tidies, IsOpen
<1> QED
  BY <1>1, <1>2 DEF AutopilotSeen, Tidies

\* A candidate it is done with is closed, or nothing is to be done about it.
LEMMA AutopilotGoesOn ==
  ASSUME TitleInv, NEW j \in Jobs, snap[j] = db, NEW T, AutopilotSeen(db, View(j), T),
         NEW c \in Cands, IsRow(db[c]), NEW ch \in AutopilotWants(j, c)
  PROVE  AutopilotSeen(db, Over(ch, View(j)), T \ {c})
<1> DEFINE V == View(j)
           n == snap[j][c].name
           W == Over(ch, V)
<1>1. Good(V, halfway) /\ IsRow(V[c]) /\ AssetOf[c] \in Assets
  BY SeenRows, Disjoint
<1>2. AutopilotSeen(db, V, T)
  OBVIOUS
<1>3. \/ ch = Resolving(V, AssetOf[c])
      \/ \E t : ch = Assigning(V, AssetOf[c], t)
      \/ ch = Closing(V, c, "ignored")
      \/ /\ ch = Nothing
         /\ V[AssetOf[c]] = None /\ ~(Unique(snap[j], n) /\ c \in Sure) /\ c \notin Stale
  BY DEF AutopilotWants
<1> HIDE DEF V
<1>4. CASE ch = Resolving(V, AssetOf[c])
  <2>1. Tidies(V, W) /\ ~IsOpen(W, c)
    BY <1>1, <1>4, ResolvingTidies
  <2> HIDE DEF W
  <2>2. c \notin LeftBehind(W)
    BY <2>1 DEF LeftBehind, ForAutopilot
  <2> QED
    BY <1>2, <2>1, <2>2, TidyingIsSeen DEF V, W
<1>5. CASE \E t : ch = Assigning(V, AssetOf[c], t)
  <2>1. Tidies(V, W) /\ ~IsOpen(W, c)
    BY <1>1, <1>5, AssigningTidies
  <2> HIDE DEF W
  <2>2. c \notin LeftBehind(W)
    BY <2>1 DEF LeftBehind, ForAutopilot
  <2> QED
    BY <1>2, <2>1, <2>2, TidyingIsSeen DEF V, W
<1>6. CASE ch = Closing(V, c, "ignored")
  <2>1. Tidies(V, W) /\ ~IsOpen(W, c)
    BY <1>1, <1>6, ClosingTidies
  <2> HIDE DEF W
  <2>2. c \notin LeftBehind(W)
    BY <2>1 DEF LeftBehind, ForAutopilot
  <2> QED
    BY <1>2, <2>1, <2>2, TidyingIsSeen DEF V, W
<1>7. CASE /\ ch = Nothing
           /\ V[AssetOf[c]] = None /\ ~(Unique(snap[j], n) /\ c \in Sure) /\ c \notin Stale
  <2>1. \A r \in Rows : W[r] = V[r]
    BY <1>1, <1>7, RowsAfter DEF Nothing
  <2>2. Tidies(V, W)
    BY <2>1, Disjoint DEF Tidies
  <2>3. \A m : Unique(W, m) <=> Unique(db, m)
    BY <1>2, <2>1, SameCalled, Disjoint DEF AutopilotSeen
  <2>4. IsOpen(W, c) => W[c] = db[c]
    BY <1>2, <2>1, Disjoint DEF AutopilotSeen, IsOpen
  <2>5. W[AssetOf[c]] = None
    BY <1>7, <2>1, Disjoint
  <2> HIDE DEF W
  <2>6. c \notin LeftBehind(W)
    BY <1>7, <2>3, <2>4, <2>5 DEF LeftBehind, ForAutopilot
  <2> QED
    BY <1>2, <2>2, <2>6, TidyingIsSeen DEF V, W
<1> QED
  BY <1>3, <1>4, <1>5, <1>6, <1>7

\* The assist: what its next run would find, it has on its list, is asking about, or has counted.
Asked(q, f) == IF q = "call" THEN {f.cand} ELSE {}
AssistSeen(V, T, P, sum) ==
  /\ sum \in [left : Nat, failed : Nat, dropped : Nat]
  /\ Cardinality(ForAssist(V) \ (T \cup P)) =< sum.left + sum.failed - sum.dropped

\* Titles untouched, no title taken away, and of the candidates but c whoever is still open is
\* as before.
Narrows(V, W, c) == /\ \A t \in Titles : W[t] = V[t]
                    /\ \A a \in Assets : V[a] # None => W[a] # None
                    /\ \A x \in Cands \ {c} : IsOpen(W, x) => W[x] = V[x]

LEMMA NarrowingFindsLess ==
  ASSUME NEW V, NEW W, NEW c, Narrows(V, W, c)
  PROVE  ForAssist(W) \ {c} \subseteq ForAssist(V)
<1>1. \A n : Called(W, n) = Called(V, n)
  BY SameCalled DEF Narrows
<1>2. ASSUME NEW x \in ForAssist(W), x # c PROVE x \in ForAssist(V)
  <2>1. /\ x \in Cands /\ IsOpen(W, x) /\ W[AssetOf[x]] = None /\ AssetOf[x] \in Assets
        /\ Called(W, W[x].name) # {} => x \in Doubt
        /\ W[x].mark < Checked
    BY <1>2 DEF ForAssist, ForAutopilot, Untitled
  <2>2. W[x] = V[x] /\ V[AssetOf[x]] = None
    BY <1>2, <2>1 DEF Narrows
  <2> QED
    BY <1>1, <2>1, <2>2 DEF ForAssist, ForAutopilot, Untitled, IsOpen
<1> QED
  BY <1>2

LEMMA NotingNarrows ==
  ASSUME NoneIsNoRow, NEW V, NEW half, Good(V, half), NEW c \in Cands, IsRow(V[c]), NEW m, NEW n
  PROVE  /\ Narrows(V, Over(Noting(V, c, m, n), V), c)
         /\ m \in {Checked, Missing} => c \notin ForAssist(Over(Noting(V, c, m, n), V))
<1> DEFINE ch == Noting(V, c, m, n)
           W == Over(ch, V)
           marked == [V[c] EXCEPT !.mark = m]
<1>1. marked = [status |-> V[c].status, mark |-> m, name |-> V[c].name]
  BY DEF IsRow
<1>2. [V[c] EXCEPT !.mark = m, !.name = n] = [marked EXCEPT !.name = n]
  BY DEF IsRow
<1> HIDE DEF marked
<1>3. [marked EXCEPT !.name = n] = [status |-> V[c].status, mark |-> m, name |-> n]
  BY <1>1
<1>4. DOMAIN ch = {c} /\ ch[c] = [status |-> V[c].status, mark |-> m, name |-> n]
  BY <1>2, <1>3 DEF Noting
<1> HIDE DEF ch
<1>5. W[c].mark = m /\ \A r \in Rows \ {c} : W[r] = V[r]
  BY <1>4, RowsAfter, Disjoint
<1> HIDE DEF W
<1>6. Narrows(V, W, c)
  BY <1>5, Disjoint DEF Narrows
<1>7. m \in {Checked, Missing} => ~(m < Checked)
  BY TitleAssumption DEF Checked, Missing
<1>8. m \in {Checked, Missing} => c \notin ForAssist(W)
  BY <1>5, <1>7 DEF ForAssist
<1> QED
  BY <1>6, <1>8 DEF W, ch

LEMMA AssigningForNarrows ==
  ASSUME NoneIsNoRow, NEW V, NEW half, Good(V, half), NEW c \in Cands, IsRow(V[c]),
         NEW t \in Titles, NEW m, NEW n
  PROVE  /\ Narrows(V, Over(AssigningFor(V, c, t, m, n), V), c)
         /\ c \notin ForAssist(Over(AssigningFor(V, c, t, m, n), V))
<1> DEFINE noted == Noting(V, c, m, n)
           N == Over(noted, V)
           ch == Assigning(N, AssetOf[c], t)
           W == Over(ch, N)
<1>1. Narrows(V, N, c)
  BY NotingNarrows
<1>2. Good(N, half)
  BY NotingIsSound, SoundIsGood
<1>3. Tidies(N, W)
  BY <1>2, AssigningTidies, Disjoint
<1>4. Sound(N, ch, half)
  BY <1>2, AssigningIsSound, Disjoint
<1>5. \A a \in Assets : N[a] # None => W[a] # None
  BY <1>2, <1>4, SoundIsGood
<1>6. ~IsOpen(W, c)
  BY <1>2, AssigningTidies, Disjoint
<1>7. Over(AssigningFor(V, c, t, m, n), V) = W
  BY OverIsAssociative DEF AssigningFor
<1> HIDE DEF W, N
<1>8. Narrows(V, W, c)
  BY <1>1, <1>3, <1>5 DEF Narrows, Tidies, IsOpen
<1>9. c \notin ForAssist(W)
  BY <1>6 DEF ForAssist, ForAutopilot
<1> QED
  BY <1>7, <1>8, <1>9

\* The candidates are finitely many, and so is what is to be asked about.
LEMMA FewToAsk ==
  ASSUME IsFiniteSet(Cands), NEW V, NEW S
  PROVE  IsFiniteSet(ForAssist(V) \ S) /\ Cardinality(ForAssist(V) \ S) \in Nat
<1>1. ForAssist(V) \ S \subseteq Cands
  BY DEF ForAssist, ForAutopilot
<1> QED
  BY <1>1, FS_Subset, FS_CardinalityType

\* One candidate done with, or asked in vain and counted.
LEMMA AssistGoesOn ==
  ASSUME IsFiniteSet(Cands), NEW V, NEW W, NEW c, Narrows(V, W, c), NEW T, NEW P, NEW T2, NEW sum,
         AssistSeen(V, T, P, sum), T \cup P \subseteq T2 \cup {c}
  PROVE  /\ c \notin ForAssist(W) => AssistSeen(W, T2, {}, sum)
         /\ Cardinality(ForAssist(W) \ T2) =< sum.left + (sum.failed + 1) - sum.dropped
<1> DEFINE before == ForAssist(V) \ (T \cup P)
           after == ForAssist(W) \ T2
<1>1. /\ IsFiniteSet(before) /\ Cardinality(before) \in Nat
      /\ IsFiniteSet(after) /\ Cardinality(after) \in Nat
  BY FewToAsk
<1>2. after \subseteq before \cup {c}
  BY NarrowingFindsLess
<1>3. IsFiniteSet(before \cup {c}) /\ Cardinality(before \cup {c}) =< Cardinality(before) + 1
  <2> HIDE DEF before
  <2>1. /\ IsFiniteSet(before \cup {c})
        /\ Cardinality(before \cup {c}) = Cardinality(before)
             \/ Cardinality(before \cup {c}) = Cardinality(before) + 1
    BY <1>1, FS_AddElement
  <2> QED
    BY <1>1, <2>1
<1>4. Cardinality(after) =< Cardinality(before \cup {c}) /\ Cardinality(before \cup {c}) \in Nat
  BY <1>2, <1>3, FS_Subset, FS_CardinalityType
<1>5. c \notin ForAssist(W) => Cardinality(after) =< Cardinality(before)
  <2>1. c \notin ForAssist(W) => after \subseteq before
    BY <1>2
  <2> HIDE DEF after, before
  <2> QED
    BY <1>1, <2>1, FS_Subset
<1>6. /\ sum.left \in Nat /\ sum.failed \in Nat /\ sum.dropped \in Nat
      /\ Cardinality(before) =< sum.left + sum.failed - sum.dropped
      /\ sum \in [left : Nat, failed : Nat, dropped : Nat]
  BY DEF AssistSeen
<1>7. T2 \cup {} = T2
  OBVIOUS
<1> HIDE DEF before
<1>8. Cardinality(after) =< sum.left + (sum.failed + 1) - sum.dropped
  <2> HIDE DEF after
  <2> QED
    BY <1>1, <1>3, <1>4, <1>6
<1>9. ASSUME c \notin ForAssist(W) PROVE AssistSeen(W, T2, {}, sum)
  <2>1. Cardinality(after) =< sum.left + sum.failed - sum.dropped
    <3> HIDE DEF after
    <3> QED
      BY <1>1, <1>5, <1>6, <1>9
  <2> QED
    BY <1>6, <1>7, <2>1 DEF AssistSeen
<1> QED
  BY <1>8, <1>9

\* The title sync: a work it has still to enter has the rows it had before; one it has entered
\* has those, or one.
Under(q, f) == IF q \in {"call", "back"} THEN {f.title} ELSE {}
SyncSeen(S, V, P) ==
  \A w \in Slate :
    IF w \in P THEN Listed(V, w) = Listed(S, w)
    ELSE /\ Listed(V, w) # {}
         /\ Listed(V, w) = Listed(S, w) \/ (\E t \in Titles : Listed(V, w) = {t})

LEMMA SyncGoesOn ==
  ASSUME OneWorkPerName, TitleInv, NEW j \in Jobs, NewTitles # {}, NEW S, NEW P,
         SyncSeen(S, View(j), P), NEW w \in Slate, w \in P, NEW ch \in SyncWants(j, w)
  PROVE  SyncSeen(S, Over(ch, View(j)), P \ {w})
<1> DEFINE V == View(j)
           W == Over(ch, V)
           same == {t \in Called(V, w.name) : t \in Dated}
           rows == IF Listed(V, w) # {} THEN Listed(V, w) ELSE IF same # {} THEN same ELSE NewTitles
<1>1. Good(V, halfway)
  BY SeenRows
<1>2. w = [name |-> w.name, hit |-> w.hit] /\ None # w
  BY TitleAssumption DEF OneWorkPerName
<1>3. rows # {} /\ ch \in {Cataloguing(t, w.name, w.hit) : t \in rows}
  BY DEF SyncWants
<1>4. PICK t \in rows : ch = Cataloguing(t, w.name, w.hit)
  BY <1>3
<1>5. \A x \in NewTitles : x \in Titles /\ V[x] = None
  <2>1. ASSUME NEW x \in NewTitles PROVE x \in Titles /\ x \notin DOMAIN put[j] /\ db[x] = None
    BY DEF NewTitles, FreeTitles, Used
  <2>2. DOMAIN db = Rows
    BY DEF TitleInv, Good
  <2> QED
    BY <2>1, <2>2, Disjoint DEF View, Over
<1>6. t \in Titles /\ (t \in Listed(V, w) \/ (Listed(V, w) = {} /\ (V[t] = None \/ V[t].name = w.name)))
  BY <1>4, <1>5 DEF Listed, Called
<1> HIDE DEF V, rows
<1>7. DOMAIN ch = {t} /\ ch[t] = w
  BY <1>2, <1>4 DEF Cataloguing
<1>8. W[t] = w /\ \A x \in Titles \ {t} : W[x] = V[x]
  BY <1>1, <1>6, <1>7, RowsAfter, Disjoint
<1> HIDE DEF W
<1>9. ASSUME NEW v \in Slate, v # w PROVE Listed(W, v) = Listed(V, v)
  <2>1. V[t] # v
    BY <1>2, <1>6, <1>9 DEF OneWorkPerName, Listed
  <2> QED
    BY <1>6, <1>8, <1>9, <2>1 DEF Listed
<1>10. CASE t \in Listed(V, w)
  <2>1. Listed(W, w) = Listed(V, w)
    BY <1>6, <1>8, <1>10 DEF Listed
  <2> QED
    BY <1>9, <1>10, <2>1 DEF SyncSeen, V, W
<1>11. CASE Listed(V, w) = {}
  <2>1. Listed(W, w) = {t}
    BY <1>6, <1>8, <1>11 DEF Listed
  <2> QED
    BY <1>6, <1>9, <2>1 DEF SyncSeen, V, W
<1> QED
  BY <1>6, <1>10, <1>11

\* What holds of a job that has been alone since its stage began with the tables S.
AloneOk(s, d, S, V, q, T, f, sum) ==
  /\ s = "autopilot" => S = d /\ q = "item" /\ AutopilotSeen(d, V, T)
  /\ s = "assist" => q \in {"item", "call"} /\ AssistSeen(V, T, Asked(q, f), sum)
  /\ s = "sync" /\ OneWorkPerName =>
       /\ T \subseteq Slate /\ SyncSeen(S, V, T \cup Under(q, f))
       /\ q # "item" => f.title \in Slate \ T

AloneInv == /\ \A j \in alone : j \in Jobs /\ AloneOk(Stage(j), db, snap[j], View(j), pc[j], todo[j],
                                                      focus[j], tally[j])
            /\ snap = [j \in Jobs |-> snap[j]] /\ tally = [j \in Jobs |-> tally[j]]

\* A step of job k leaves all variables of the others alone.
Elsewhere(k) == /\ Shape' /\ (snap = [j \in Jobs |-> snap[j]])' /\ (tally = [j \in Jobs |-> tally[j]])'
                /\ \A j \in Jobs \ {k} :
                     /\ put'[j] = put[j] /\ snap'[j] = snap[j] /\ steps'[j] = steps[j]
                     /\ pc'[j] = pc[j] /\ todo'[j] = todo[j] /\ focus'[j] = focus[j]
                     /\ tally'[j] = tally[j]

LEMMA StepsAreElsewhere ==
  ASSUME TitleInv, AloneInv, NEW k \in Jobs, Machines(k) \/ Persons(k)
  PROVE  Elsewhere(k)
<1>1. Shape /\ snap = [j \in Jobs |-> snap[j]] /\ tally = [j \in Jobs |-> tally[j]]
  BY DEF TitleInv, AloneInv
<1> USE <1>1 DEF Elsewhere, Shape, Turn
<1>2. CASE \/ BeginRematch(k) \/ BeginAutopilot(k) \/ BeginAssist(k) \/ BeginBackfill(k)
           \/ BeginSync(k) \/ BeginEnrich(k) \/ BeginGenres(k)
  BY <1>2 DEF BeginRematch, BeginAutopilot, BeginAssist, BeginBackfill, BeginSync, BeginEnrich,
              BeginGenres, Begin
<1>3. CASE Item(k) \/ Ask(k) \/ AskForTitle(k)
  BY <1>3 DEF Item, Ask, AskForTitle, Write
<1>4. CASE Resumes(k)
  BY <1>4 DEF Resumes
<1>5. CASE AskedInVain(k) \/ AskedAndTold(k) \/ SearchedFor(k)
  <2>1. \E ch, m, n : Answer(k, ch, m, n)
    BY <1>5 DEF AskedInVain, AskedAndTold, SearchedFor
  <2> QED
    BY <2>1 DEF Answer, Write
<1>6. CASE CommitsBatch(k) \/ StageEnds(k)
  BY <1>6 DEF CommitsBatch, StageEnds, Commit, Rollback
<1>7. CASE LockTimeout(k) \/ SyncCut(k) \/ SyncFails(k)
  BY <1>7 DEF LockTimeout, SyncCut, SyncFails, Fails, Commit, Rollback
<1>8. CASE Persons(k)
  <2>1. \E q, f : PersonStep(k, q, f)
    BY <1>8, Zenon DEF Persons, PickKnown, PickAsks, PickCreates, CreateLooks, CreateInserts,
       ReviewAsset, ConfirmChooses, ConfirmReviewFails, PatchCandidate, Dismiss, SuggestLooks,
       SuggestInserts, Reopen, GivesUp
  <2> QED
    BY <2>1 DEF PersonStep
<1> QED
  BY <1>2, <1>3, <1>4, <1>5, <1>6, <1>7, <1>8 DEF Machines

\* A stage that begins.
LEMMA BeginsAlone ==
  ASSUME IsFiniteSet(Cands), TitleInv, AloneInv, NEW j \in Jobs, Stage(j) \in Repeatable,
         \/ BeginRematch(j) \/ BeginAutopilot(j) \/ BeginAssist(j) \/ BeginBackfill(j)
         \/ BeginSync(j) \/ BeginEnrich(j) \/ BeginGenres(j)
  PROVE  AloneOk(Stage(j), db, snap'[j], View(j), pc'[j], todo'[j], focus'[j], tally'[j])
<1> DEFINE V == View(j)
<1>1. /\ Good(db, halfway) /\ DOMAIN put[j] = {} /\ snap'[j] = db /\ pc'[j] = "item"
  BY DEF TitleInv, JobInv, JobOk, AloneInv, Shape, Begin, Turn, BeginRematch, BeginAutopilot,
         BeginAssist, BeginBackfill, BeginSync, BeginEnrich, BeginGenres
<1>2. \A r \in Rows : V[r] = db[r]
  BY <1>1, OverNothing DEF View, Good
<1> HIDE DEF V
<1>3. \A n : Called(V, n) = Called(db, n)
  BY <1>2, SameCalled, Disjoint
<1>4. CASE Stage(j) = "autopilot"
  <2>1. todo'[j] = ForAutopilot(db)
    BY <1>4 DEF TitleInv, Shape, Begin, BeginRematch, BeginAutopilot, BeginAssist, BeginBackfill,
                BeginSync, BeginEnrich, BeginGenres
  <2>2. LeftBehind(V) \subseteq ForAutopilot(db)
    BY <1>2, Disjoint DEF LeftBehind, ForAutopilot, IsOpen
  <2>3. AutopilotSeen(db, V, todo'[j])
    BY <1>2, <2>1, <2>2, Disjoint DEF AutopilotSeen
  <2> QED
    BY <1>1, <1>4, <2>3 DEF AloneOk, V
<1>5. CASE Stage(j) = "assist"
  <2>1. BeginAssist(j)
    BY <1>5 DEF BeginRematch, BeginAutopilot, BeginAssist, BeginBackfill, BeginSync, BeginEnrich,
                BeginGenres, Syncing
  <2>2. PICK T : /\ Begin(j, T)
                 /\ tally' = [tally EXCEPT ![j] =
                                [NoTally EXCEPT !.left = Cardinality(ForAssist(db) \ T)]]
    BY <2>1 DEF BeginAssist
  <2>3. todo'[j] = T
    BY <2>2 DEF Begin, TitleInv, Shape
  <2>4. tally'[j] = [left |-> Cardinality(ForAssist(db) \ T), failed |-> 0, dropped |-> 0]
    BY <2>2 DEF AloneInv, NoTally
  <2>5. ForAssist(V) = ForAssist(db)
    BY <1>2, <1>3, Disjoint DEF ForAssist, ForAutopilot, IsOpen, Untitled
  <2>6. Cardinality(ForAssist(db) \ T) \in Nat /\ T \cup {} = T
    BY FewToAsk
  <2>7. AssistSeen(V, T, {}, tally'[j])
    BY <2>4, <2>5, <2>6 DEF AssistSeen
  <2> QED
    BY <1>1, <1>5, <2>3, <2>7 DEF AloneOk, Asked, V
<1>6. CASE Stage(j) = "sync"
  <2>1. todo'[j] = Slate
    BY <1>6 DEF TitleInv, Shape, Begin, BeginRematch, BeginAutopilot, BeginAssist, BeginBackfill,
                BeginSync, BeginEnrich, BeginGenres
  <2>2. \A w : Listed(V, w) = Listed(db, w)
    BY <1>2, Disjoint DEF Listed
  <2> QED
    BY <1>1, <1>6, <2>1, <2>2 DEF AloneOk, Under, SyncSeen, V
<1> QED
  BY <1>4, <1>5, <1>6 DEF Repeatable

\* A row of the selection is dealt with at once.
LEMMA ItemAlone ==
  ASSUME NoneIsNoRow, IsFiniteSet(Cands), TitleInv, AloneInv, NEW j \in alone, NewTitles # {},
         Item(j)
  PROVE  AloneOk(Stage(j), db, snap'[j], View(j)', pc'[j], todo'[j], focus'[j], tally'[j])
<1>1. PICK r \in todo[j] : \E x \in Wants(j, r) :
             Write(j, x) /\ Turn(j, "item") /\ todo' = [todo EXCEPT ![j] = @ \ {r}]
  BY DEF Item
<1>2. PICK ch \in Wants(j, r) : Write(j, ch)
  BY <1>1
<1>3. /\ j \in Jobs /\ pc[j] = "item"
      /\ AloneOk(Stage(j), db, snap[j], View(j), "item", todo[j], focus[j], tally[j])
  BY DEF AloneInv, Item
<1>4. /\ pc'[j] = "item" /\ todo'[j] = todo[j] \ {r} /\ put'[j] = Over(ch, put[j])
      /\ focus'[j] = focus[j] /\ snap'[j] = snap[j] /\ tally'[j] = tally[j] /\ db' = db
  BY <1>1, <1>2, <1>3 DEF Item, Turn, Write, TitleInv, Shape
<1>5. View(j)' = Over(ch, View(j))
  BY <1>4, OverIsAssociative DEF View
<1>6. QueueOk(db, Stage(j), todo[j])
  BY <1>3 DEF TitleInv, JobInv, JobOk
<1> DEFINE V == View(j)
           T == todo[j]
<1>7. Good(V, halfway)
  BY <1>3, SeenRows
<1>8. CASE Stage(j) = "autopilot"
  <2>1. r \in Cands /\ IsRow(db[r]) /\ ch \in AutopilotWants(j, r)
    BY <1>6, <1>8 DEF QueueOk, Wants
  <2>2. AutopilotSeen(db, Over(ch, V), T \ {r})
    BY <1>3, <1>8, <2>1, AutopilotGoesOn DEF AloneOk
  <2> QED
    BY <1>3, <1>4, <1>5, <1>8, <2>2 DEF AloneOk
<1>9. CASE Stage(j) = "assist"
  <2>1. r \in Cands /\ IsRow(V[r]) /\ ch = Noting(V, r, Checked, V[r].name)
    BY <1>3, <1>6, <1>9, SeenRows DEF QueueOk, Wants, NoShortlist
  <2> DEFINE W == Over(ch, V)
  <2>2. Narrows(V, W, r) /\ r \notin ForAssist(W)
    BY <1>7, <2>1, NotingNarrows
  <2>3. AssistSeen(V, T, {}, tally[j])
    BY <1>3, <1>9 DEF AloneOk, Asked
  <2>4. T \cup {} \subseteq (T \ {r}) \cup {r}
    OBVIOUS
  <2> HIDE DEF W, V, T
  <2>5. AssistSeen(W, T \ {r}, {}, tally[j])
    BY <2>2, <2>3, <2>4, AssistGoesOn
  <2> QED
    BY <1>4, <1>5, <1>9, <2>5 DEF AloneOk, Asked, W, V, T
<1>10. CASE Stage(j) = "sync" /\ OneWorkPerName
  <2>1. SyncSeen(snap[j], V, T) /\ r \in Slate /\ ch \in SyncWants(j, r)
    <3>1. T \cup {} = T
      OBVIOUS
    <3> QED
      BY <1>3, <1>10, <3>1 DEF AloneOk, Under, Wants
  <2>2. SyncSeen(snap[j], Over(ch, V), T \ {r})
    BY <1>3, <1>10, <2>1, SyncGoesOn
  <2>3. (T \ {r}) \cup {} = T \ {r}
    OBVIOUS
  <2> QED
    BY <1>3, <1>4, <1>5, <1>10, <2>2, <2>3 DEF AloneOk, Under
<1>11. CASE Stage(j) \notin Repeatable \/ (Stage(j) = "sync" /\ ~OneWorkPerName)
  BY <1>11 DEF AloneOk, Repeatable
<1> QED
  BY <1>8, <1>9, <1>10, <1>11 DEF Repeatable

\* Asking takes a row from the list and keeps it in view.
LEMMA AskingAlone ==
  ASSUME TitleInv, AloneInv, NEW j \in alone, Stage(j) \in Repeatable,
         Ask(j) \/ AskForTitle(j) \/ Resumes(j)
  PROVE  AloneOk(Stage(j), db, snap'[j], View(j)', pc'[j], todo'[j], focus'[j], tally'[j])
<1>1. /\ j \in Jobs
      /\ AloneOk(Stage(j), db, snap[j], View(j), pc[j], todo[j], focus[j], tally[j])
      /\ FocusOk(db, pc[j], Stage(j), focus[j])
  BY DEF AloneInv, TitleInv, JobInv, JobOk
<1>2. /\ snap'[j] = snap[j] /\ tally'[j] = tally[j] /\ View(j)' = View(j)
  BY DEF Ask, AskForTitle, Resumes, View
<1>3. CASE Ask(j)
  <2>1. PICK c \in todo[j] :
          /\ focus' = [focus EXCEPT ![j] = [NoFocus EXCEPT !.cand = c, !.asset = AssetOf[c]]]
          /\ todo' = [todo EXCEPT ![j] = @ \ {c}]
    BY <1>3 DEF Ask
  <2>2. pc[j] = "item" /\ pc'[j] = "call" /\ Stage(j) = "assist"
    BY <1>1, <1>3 DEF Ask, Turn, TitleInv, Shape, Repeatable, Syncing
  <2>3. todo'[j] = todo[j] \ {c} /\ focus'[j] = [NoFocus EXCEPT !.cand = c, !.asset = AssetOf[c]]
    BY <1>1, <2>1 DEF TitleInv, Shape
  <2>4. focus'[j].cand = c
    BY <2>3, FocusAtCand
  <2>5. AssistSeen(View(j), todo[j], {}, tally[j])
    BY <1>1, <2>2 DEF AloneOk, Asked
  <2>6. (todo[j] \ {c}) \cup {c} = todo[j] \cup {}
    OBVIOUS
  <2>7. AssistSeen(View(j), todo'[j], {c}, tally[j])
    BY <2>3, <2>5, <2>6 DEF AssistSeen
  <2> QED
    BY <1>2, <2>2, <2>4, <2>7 DEF AloneOk, Asked
<1>4. CASE AskForTitle(j)
  <2>1. PICK w \in todo[j] : /\ focus' = [focus EXCEPT ![j] = [NoFocus EXCEPT !.title = w]]
                             /\ todo' = [todo EXCEPT ![j] = @ \ {w}]
    BY <1>4 DEF AskForTitle
  <2>2. pc[j] = "item" /\ pc'[j] = "call" /\ Stage(j) = "sync"
    BY <1>1, <1>4 DEF AskForTitle, Turn, TitleInv, Shape, Repeatable, Syncing
  <2>3. todo'[j] = todo[j] \ {w} /\ focus'[j].title = w
    BY <1>1, <2>1 DEF TitleInv, Shape, NoFocus
  <2>4. OneWorkPerName => SyncSeen(snap[j], View(j), todo[j] \cup {}) /\ todo[j] \subseteq Slate
    BY <1>1, <2>2 DEF AloneOk, Under
  <2>5. todo[j] \cup {} = (todo[j] \ {w}) \cup {w}
    OBVIOUS
  <2>6. OneWorkPerName => SyncSeen(snap[j], View(j), todo'[j] \cup {w})
    BY <2>3, <2>4, <2>5
  <2> QED
    BY <1>2, <2>2, <2>3, <2>4, <2>6 DEF AloneOk, Under
<1>5. CASE Resumes(j)
  <2>1. PICK h : focus' = [focus EXCEPT ![j].hit = h]
    BY <1>5 DEF Resumes
  <2>2. pc[j] = "call" /\ pc'[j] = "back" /\ Stage(j) = "sync" /\ todo'[j] = todo[j]
    BY <1>1, <1>5 DEF Resumes, Coroutine, Turn, TitleInv, Shape, Repeatable, Syncing
  <2>3. focus'[j] = [focus[j] EXCEPT !.hit = h]
    BY <1>1, <2>1 DEF TitleInv, Shape
  <2>4. focus'[j].title = focus[j].title
    BY <1>1, <2>3 DEF FocusOk
  <2> QED
    BY <1>1, <1>2, <2>2, <2>4 DEF AloneOk, Under
<1> QED
  BY <1>3, <1>4, <1>5

\* An answer is entered or counted.
LEMMA AssistAlone ==
  ASSUME NoneIsNoRow, IsFiniteSet(Cands), TitleInv, AloneInv, NEW j \in alone,
         AskedInVain(j) \/ AskedAndTold(j)
  PROVE  AloneOk(Stage(j), db, snap'[j], View(j)', pc'[j], todo'[j], focus'[j], tally'[j])
<1> DEFINE V == View(j)
           c == focus[j].cand
           T == todo[j]
           sum == tally[j]
<1>1. /\ j \in Jobs /\ pc[j] = "call" /\ Stage(j) = "assist"
      /\ AloneOk(Stage(j), db, snap[j], V, pc[j], T, focus[j], sum)
      /\ FocusOk(db, pc[j], Stage(j), focus[j])
  BY DEF AloneInv, TitleInv, JobInv, JobOk, AskedInVain, AskedAndTold
<1>2. AssistSeen(V, T, {c}, sum) /\ c \in Cands /\ IsRow(V[c]) /\ Good(V, halfway)
  BY <1>1, SeenRows DEF AloneOk, Asked, FocusOk
<1>3. /\ sum \in [left : Nat, failed : Nat, dropped : Nat] /\ T \cup {c} \subseteq T \cup {c}
      /\ T \cup {} = T
  BY <1>2 DEF AssistSeen
<1>4. ASSUME NEW ch, NEW failed \in Nat, NEW dropped \in Nat, Answer(j, ch, failed, dropped)
      PROVE  /\ pc'[j] = "item" /\ todo'[j] = T /\ snap'[j] = snap[j] /\ db' = db
             /\ View(j)' = Over(ch, V)
             /\ tally'[j] = [left |-> sum.left, failed |-> sum.failed + failed,
                             dropped |-> sum.dropped + dropped]
  <2>1. put'[j] = Over(ch, put[j]) /\ db' = db
    BY <1>1, <1>4 DEF Answer, Write, TitleInv, Shape
  <2>2. View(j)' = Over(ch, V)
    BY <2>1, OverIsAssociative DEF View
  <2>3. tally'[j] = [left |-> sum.left, failed |-> sum.failed + failed,
                     dropped |-> sum.dropped + dropped]
    BY <1>1, <1>3, <1>4 DEF Answer, AloneInv
  <2> QED
    BY <1>1, <1>4, <2>1, <2>2, <2>3 DEF Answer, Turn, TitleInv, Shape
<1> HIDE DEF V, c, T, sum
<1>6. ASSUME NEW ch, Answer(j, ch, 0, 0), Narrows(V, Over(ch, V), c), c \notin ForAssist(Over(ch, V))
      PROVE  AloneOk(Stage(j), db, snap'[j], View(j)', pc'[j], todo'[j], focus'[j], tally'[j])
  <2>1. AssistSeen(Over(ch, V), T, {}, sum)
    BY <1>2, <1>3, <1>6, AssistGoesOn
  <2>2. tally'[j] = sum
    <3>1. tally'[j] = [left |-> sum.left, failed |-> sum.failed + 0, dropped |-> sum.dropped + 0]
      BY <1>4, <1>6
    <3> QED
      BY <1>3, <3>1
  <2> QED
    BY <1>1, <1>4, <1>6, <2>1, <2>2 DEF AloneOk, Asked
<1>7. CASE AskedAndTold(j)
  <2>1. PICK ch \in AssistAnswered(j) : Answer(j, ch, 0, 0)
    BY <1>7 DEF AskedAndTold
  <2>2. \/ \E t \in Titles : \E m, n : ch = AssigningFor(V, c, t, m, n)
        \/ \E m \in {Checked, Missing} : \E n : ch = Noting(V, c, m, n)
    BY DEF AssistAnswered, Called, V, c
  <2>3. Narrows(V, Over(ch, V), c) /\ c \notin ForAssist(Over(ch, V))
    BY <1>2, <2>2, AssigningForNarrows, NotingNarrows
  <2> QED
    BY <1>6, <2>1, <2>3
<1>8. CASE AskedInVain(j)
  <2> DEFINE last == Tries(j) >= MaxTries
  <2>1. PICK ch : /\ Answer(j, ch, 1, IF last THEN 1 ELSE 0)
                  /\ ch = Noting(V, c, IF last THEN Checked ELSE Tries(j), V[c].name)
    BY <1>8 DEF AskedInVain, AssistFailed, V, c
  <2> HIDE DEF last
  <2>2. Narrows(V, Over(ch, V), c) /\ (last => c \notin ForAssist(Over(ch, V)))
    BY <1>2, <2>1, NotingNarrows
  <2>3. tally'[j] = [left |-> sum.left, failed |-> sum.failed + 1,
                     dropped |-> sum.dropped + IF last THEN 1 ELSE 0]
    <3>1. 1 \in Nat /\ (IF last THEN 1 ELSE 0) \in Nat
      OBVIOUS
    <3> QED
      BY <1>4, <2>1, <3>1
  <2>4. Cardinality(ForAssist(Over(ch, V)) \ T) =< sum.left + (sum.failed + 1) - sum.dropped
    BY <1>2, <1>3, <2>2, AssistGoesOn
  <2>5. last => Cardinality(ForAssist(Over(ch, V)) \ T) =< sum.left + sum.failed - sum.dropped
    BY <1>2, <1>3, <2>2, AssistGoesOn DEF AssistSeen
  <2>6. Cardinality(ForAssist(Over(ch, V)) \ T) \in Nat
    BY FewToAsk
  <2>7. AssistSeen(Over(ch, V), T, {}, tally'[j])
    <3> DEFINE N == Cardinality(ForAssist(Over(ch, V)) \ T)
    <3> HIDE DEF N
    <3>1. N =< tally'[j].left + tally'[j].failed - tally'[j].dropped
      <4>1. /\ N =< sum.left + (sum.failed + 1) - sum.dropped
            /\ last => N =< sum.left + sum.failed - sum.dropped
            /\ N \in Nat
        BY <2>4, <2>5, <2>6 DEF N
      <4> QED
        BY <1>3, <2>3, <4>1
    <3>2. tally'[j] \in [left : Nat, failed : Nat, dropped : Nat]
      BY <1>3, <2>3
    <3> QED
      BY <1>3, <3>1, <3>2 DEF AssistSeen, N
  <2>8. pc'[j] = "item" /\ todo'[j] = T /\ View(j)' = Over(ch, V)
    <3>1. 1 \in Nat /\ (IF last THEN 1 ELSE 0) \in Nat
      OBVIOUS
    <3> QED
      BY <1>4, <2>1, <3>1
  <2> QED
    BY <1>1, <2>7, <2>8 DEF AloneOk, Asked
<1> QED
  BY <1>7, <1>8

\* A work is entered after an answer; a batch is committed.
LEMMA SyncAlone ==
  ASSUME TitleInv, AloneInv, NEW j \in alone, NewTitles # {},
         Stage(j) \in Repeatable, SearchedFor(j) \/ CommitsBatch(j)
  PROVE  AloneOk(Stage(j), db', snap'[j], View(j)', pc'[j], todo'[j], focus'[j], tally'[j])
<1>1. /\ j \in Jobs /\ Stage(j) \in Repeatable
      /\ AloneOk(Stage(j), db, snap[j], View(j), pc[j], todo[j], focus[j], tally[j])
  BY DEF AloneInv
<1>2. Stage(j) = "sync"
  BY <1>1 DEF SearchedFor, CommitsBatch, AloneOk, Repeatable, Syncing
<1>0. SUFFICES ASSUME OneWorkPerName
               PROVE  AloneOk("sync", db', snap'[j], View(j)', pc'[j], todo'[j], focus'[j], tally'[j])
  BY <1>2 DEF AloneOk
<1>3. CASE SearchedFor(j)
  <2> DEFINE w == focus[j].title
  <2>1. PICK ch \in SyncWants(j, w) : Answer(j, ch, 0, 0) /\ pc[j] = "back"
    BY <1>2, <1>3 DEF SearchedFor, Found, SyncAnswered, Syncing
  <2>2. /\ pc'[j] = "item" /\ todo'[j] = todo[j] /\ snap'[j] = snap[j] /\ db' = db
        /\ put'[j] = Over(ch, put[j])
    BY <1>1, <2>1 DEF Answer, Turn, Write, TitleInv, Shape
  <2>3. View(j)' = Over(ch, View(j))
    BY <2>2, OverIsAssociative DEF View
  <2>4. w \in Slate \ todo[j] /\ SyncSeen(snap[j], View(j), todo[j] \cup {w}) /\ todo[j] \subseteq Slate
    BY <1>0, <1>1, <1>2, <2>1 DEF AloneOk, Under
  <2> HIDE DEF w
  <2>5. SyncSeen(snap[j], Over(ch, View(j)), (todo[j] \cup {w}) \ {w})
    BY <1>0, <1>1, <2>4, SyncGoesOn
  <2>6. (todo[j] \cup {w}) \ {w} = todo[j] \cup {}
    BY <2>4
  <2> QED
    BY <1>2, <2>2, <2>3, <2>4, <2>5, <2>6 DEF AloneOk, Under
<1>4. CASE CommitsBatch(j)
  <2>1. /\ pc[j] = "item" /\ pc'[j] = "item" /\ todo'[j] = todo[j] /\ snap'[j] = snap[j]
        /\ db' = View(j) /\ put'[j] = Nothing
    BY <1>1, <1>4 DEF CommitsBatch, Commit, Turn, TitleInv, Shape
  <2>2. DOMAIN db = Rows /\ DOMAIN put[j] \subseteq Rows
    BY <1>1 DEF TitleInv, Good, JobInv, JobOk, Sound
  <2>3. View(j)' = View(j)
    BY <2>1, <2>2, OverNothing DEF View
  <2> QED
    BY <1>0, <1>1, <1>2, <2>1, <2>3 DEF AloneOk, Under
<1> QED
  BY <1>3, <1>4

\* No click keeps a job at a stage of the machine.
LEMMA ClicksDoNotRepeat ==
  ASSUME TitleInv, NEW j \in Jobs, Persons(j)
  PROVE  Stage(j) \notin Repeatable \/ pc'[j] \notin Working
<1>1. pc[j] \in {"review", "patch"} => Stage(j) \in People
  BY DEF TitleInv, JobInv, JobOk, FocusOk
<1> QED
  BY <1>1 DEF Persons, PickKnown, PickAsks, PickCreates, CreateLooks, CreateInserts,
       ReviewAsset, ConfirmChooses, ConfirmReviewFails, PatchCandidate, Dismiss, SuggestLooks,
       SuggestInserts, Reopen, GivesUp, Clicked, People, Repeatable

LEMMA AloneKeeps ==
  ASSUME NoneIsNoRow, IsFiniteSet(Cands), TitleInv, AloneInv, [Next]_vars
  PROVE  AloneInv'
<1>1. CASE UNCHANGED vars
  BY <1>1 DEF vars, AloneInv, Stage, View
<1>2. CASE Next
  <2>1. PICK k \in Jobs : (Machines(k) \/ Persons(k)) /\ Observe(k)
    BY <1>2 DEF Next, Step
  <2>2. Elsewhere(k)
    BY <2>1, StepsAreElsewhere
  <2>3. /\ \A j \in alone' : j = k \/ (j \in alone /\ db' = db)
        /\ k \in alone' => /\ NewTitles # {} /\ Stage(k) \in Repeatable /\ pc'[k] \in Working
                           /\ k \in alone \/ pc[k] = "ready"
    BY <2>1 DEF Observe
  <2>4. ASSUME NEW j \in alone', j # k
        PROVE  /\ j \in Jobs
               /\ AloneOk(Stage(j)', db', snap'[j], View(j)', pc'[j], todo'[j], focus'[j], tally'[j])
    <3>1. /\ j \in Jobs
          /\ AloneOk(Stage(j), db, snap[j], View(j), pc[j], todo[j], focus[j], tally[j])
      BY <2>3, <2>4 DEF AloneInv
    <3>2. Stage(j)' = Stage(j) /\ View(j)' = View(j)
      BY <2>2, <2>3, <2>4, <3>1 DEF Elsewhere, Stage, View
    <3> QED
      BY <2>2, <2>3, <2>4, <3>1, <3>2 DEF Elsewhere
  <2>5. ASSUME k \in alone'
        PROVE  AloneOk(Stage(k)', db', snap'[k], View(k)', pc'[k], todo'[k], focus'[k], tally'[k])
    <3>1. Machines(k)
      BY <2>1, <2>3, <2>5, ClicksDoNotRepeat
    <3>2. ~StageEnds(k) /\ ~LockTimeout(k) /\ ~SyncCut(k) /\ ~SyncFails(k)
      BY <2>3, <2>5 DEF StageEnds, LockTimeout, SyncCut, SyncFails, Fails, Turn, TitleInv, Shape,
                        Working
    <3>3. CASE \/ BeginRematch(k) \/ BeginAutopilot(k) \/ BeginAssist(k) \/ BeginBackfill(k)
               \/ BeginSync(k) \/ BeginEnrich(k) \/ BeginGenres(k)
      <4>1. db' = db /\ Stage(k)' = Stage(k) /\ View(k)' = View(k)
        BY <3>3 DEF BeginRematch, BeginAutopilot, BeginAssist, BeginBackfill, BeginSync,
                    BeginEnrich, BeginGenres, Begin, Stage, View
      <4> QED
        BY <2>3, <2>5, <3>3, <4>1, BeginsAlone
    <3>4. CASE \/ Item(k) \/ Ask(k) \/ AskForTitle(k) \/ Resumes(k)
               \/ AskedInVain(k) \/ AskedAndTold(k) \/ SearchedFor(k) \/ CommitsBatch(k)
      <4>1. Stage(k)' = Stage(k) /\ (~CommitsBatch(k) => db' = db)
        BY <3>4 DEF Item, Ask, AskForTitle, Resumes, AskedInVain, AskedAndTold, SearchedFor, Answer,
                    CommitsBatch, Stage
      <4>2. k \in alone
        BY <2>3, <2>5, <3>4 DEF Item, Ask, AskForTitle, Resumes, AskedInVain, AskedAndTold,
                                SearchedFor, CommitsBatch
      <4> QED
        BY <2>3, <2>5, <3>4, <4>1, <4>2, ItemAlone, AskingAlone, AssistAlone, SyncAlone
    <3> QED
      BY <3>1, <3>2, <3>3, <3>4 DEF Machines
  <2> QED
    BY <2>1, <2>2, <2>4, <2>5 DEF AloneInv, Elsewhere
<1> QED
  BY <1>1, <1>2

\* A stage to be repeated ends with the commit of what it sees, and nothing left on its list.
LEMMA StageIsOver ==
  ASSUME TitleInv, AloneInv, NEW j \in Jobs, [Next]_vars, j \in alone, Stage(j) \in Repeatable,
         pc[j] = "item", pc'[j] \in {"ready", "done"}
  PROVE  db' = View(j) /\ todo[j] = {}
<1>1. Next
  BY DEF vars
<1>2. PICK k \in Jobs : Machines(k) \/ Persons(k)
  BY <1>1 DEF Next, Step
<1>3. k = j
  BY <1>2, StepsAreElsewhere DEF Elsewhere
<1>4. StageEnds(j)
  <2>1. Stage(j) \notin People
    BY DEF Repeatable, People
  <2>2. ~Persons(j)
    BY <2>1 DEF Persons, PickKnown, PickAsks, PickCreates, CreateLooks, CreateInserts, ReviewAsset,
                ConfirmChooses, ConfirmReviewFails, PatchCandidate, Dismiss, SuggestLooks,
                SuggestInserts, Reopen, GivesUp, Clicked
  <2>3. \A q : Turn(j, q) => pc'[j] = q
    BY DEF Turn, TitleInv, Shape
  <2> QED
    BY <1>2, <1>3, <2>2, <2>3 DEF Machines, BeginRematch, BeginAutopilot, BeginAssist, BeginBackfill,
       BeginSync, BeginEnrich, BeginGenres, Begin, Item, Ask, AskForTitle, Resumes, AskedInVain,
       AskedAndTold, SearchedFor, Answer, CommitsBatch, LockTimeout, SyncCut, SyncFails, Fails
<1> QED
  BY <1>4 DEF StageEnds, Commit, Repeatable

LEMMA NothingIsLeft ==
  ASSUME IsFiniteSet(Cands), TitleInv, AloneInv, NEW j \in Jobs, [Next]_vars, j \in alone,
         Stage(j) \in Repeatable, pc[j] = "item", pc'[j] \in {"ready", "done"}
  PROVE  /\ Stage(j) = "autopilot" => LeftBehind(db') = {}
         /\ Stage(j) = "sync" /\ OneWorkPerName =>
              \A w \in Slate : /\ Listed(db', w) # {}
                               /\ \/ Listed(db', w) \subseteq Listed(snap[j], w)
                                  \/ Cardinality(Listed(db', w)) = 1
         /\ Stage(j) = "assist" => Cardinality(ForAssist(db')) =< StillOpen(j)
<1>1. db' = View(j) /\ todo[j] = {}
  BY StageIsOver
<1>2. AloneOk(Stage(j), db, snap[j], View(j), "item", {}, focus[j], tally[j])
  BY <1>1 DEF AloneInv
<1>3. ASSUME Stage(j) = "autopilot" PROVE LeftBehind(db') = {}
  BY <1>1, <1>2, <1>3 DEF AloneOk, AutopilotSeen
<1>4. ASSUME Stage(j) = "sync", OneWorkPerName, NEW w \in Slate
      PROVE  /\ Listed(db', w) # {}
             /\ \/ Listed(db', w) \subseteq Listed(snap[j], w)
                \/ Cardinality(Listed(db', w)) = 1
  <2>1. SyncSeen(snap[j], db', {})
    <3>1. {} \cup {} = {}
      OBVIOUS
    <3> QED
      BY <1>1, <1>2, <1>4, <3>1 DEF AloneOk, Under
  <2>2. \A t : Cardinality({t}) = 1
    BY FS_Singleton
  <2> QED
    BY <1>4, <2>1, <2>2 DEF SyncSeen
<1>5. ASSUME Stage(j) = "assist" PROVE Cardinality(ForAssist(db')) =< StillOpen(j)
  <2>1. AssistSeen(db', {}, {}, tally[j])
    BY <1>1, <1>2, <1>5 DEF AloneOk, Asked
  <2>2. ForAssist(db') \ ({} \cup {}) = ForAssist(db')
    OBVIOUS
  <2> DEFINE n == Cardinality(ForAssist(db'))
  <2>3. n =< tally[j].left + tally[j].failed - tally[j].dropped
    BY <2>1, <2>2 DEF AssistSeen
  <2>4. tally[j].left \in Nat /\ tally[j].failed \in Nat /\ tally[j].dropped \in Nat
    BY <2>1 DEF AssistSeen
  <2>5. n \in Int
    <3>1. Cardinality(ForAssist(db') \ {}) \in Nat /\ ForAssist(db') \ {} = ForAssist(db')
      BY FewToAsk
    <3> QED
      BY <3>1
  <2> HIDE DEF n
  <2> QED
    BY <2>3, <2>4, <2>5 DEF StillOpen, n
<1> QED
  BY <1>3, <1>4, <1>5

LEMMA BothInvariants ==
  ASSUME NoneIsNoRow, CleanStart, IsFiniteSet(Cands)
  PROVE  Spec => [](TitleInv /\ AloneInv)
<1>1. Init => TitleInv /\ AloneInv
  <2>1. Init => AloneInv
    BY DEF Init, AloneInv
  <2> QED
    BY <2>1, BeginsGood
<1>2. TitleInv /\ AloneInv /\ [Next]_vars => (TitleInv /\ AloneInv)'
  BY StepsKeep, AloneKeeps
<1> QED
  BY <1>1, <1>2, PTL DEF Spec

\* A second run finds nothing to do, of the autopilot and of the title sync, when no other job
\* has committed beside the first: for every number of assets, candidates and works, and
\* whatever the sync has committed on its way (candidate_autopilot.py, title_sync.py).
THEOREM RepeatedJobsFindNothing ==
  ASSUME NoneIsNoRow, CleanStart, IsFiniteSet(Cands), OneWorkPerName
  PROVE  Spec => RepeatsFindNothing
<1>1. TitleInv /\ AloneInv /\ [Next]_vars =>
        [\A j \in Jobs :
           Stage(j) = "autopilot" /\ pc[j] = "item" /\ pc'[j] \in {"ready", "done"} /\ j \in alone
           => LeftBehind(db)' = {}]_vars
  BY NothingIsLeft DEF Repeatable
<1>2. TitleInv /\ AloneInv /\ [Next]_vars =>
        [\A j \in Jobs :
           Stage(j) = "sync" /\ pc[j] = "item" /\ pc'[j] \in {"ready", "done"} /\ j \in alone
           => \A w \in Slate : /\ Listed(db', w) # {}
                               /\ Listed(db', w) \subseteq Listed(snap[j], w)
                                    \/ Cardinality(Listed(db', w)) = 1]_vars
  BY NothingIsLeft DEF Repeatable
<1> QED
  BY <1>1, <1>2, BothInvariants, PTL DEF Spec, RepeatsFindNothing, AutopilotIsIdempotent,
     SyncIsIdempotent

\* The summary of the assist names at least as many candidates as its next run would ask about,
\* when no other job has committed beside it: for every number of candidates, whatever the
\* model answers and however often it does not (offen_danach in candidate_llm_assist.py).
THEOREM AssistForgetsNobody ==
  ASSUME NoneIsNoRow, CleanStart, IsFiniteSet(Cands)
  PROVE  Spec => NobodyForgotten
<1>1. TitleInv /\ AloneInv /\ [Next]_vars =>
        [\A j \in Jobs :
           Stage(j) = "assist" /\ pc[j] = "item" /\ pc'[j] \in {"ready", "done"} /\ j \in alone
           => Cardinality(ForAssist(db)') =< StillOpen(j)]_vars
  BY NothingIsLeft DEF Repeatable
<1> QED
  BY <1>1, BothInvariants, PTL DEF Spec, NobodyForgotten
=================================================================================
