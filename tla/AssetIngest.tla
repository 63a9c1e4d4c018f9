------------------------------- MODULE AssetIngest -------------------------------
(* How scraped posts become rows: _run_apify_sync_for_platform_async with its phases   *)
(* A, B and C per item (backend/app/api/monitor.py), run by the cron and by the admin's *)
(* monitor endpoints, side by side with the single-post imports of                     *)
(* backend/app/api/posts.py. A batch takes its channels one after the other and the     *)
(* items of a channel at once; a post and its asset are two commits with two slow calls *)
(* between them, and the database calls run on threads a cancellation does not stop.    *)
EXTENDS Naturals, Sequences, FiniteSets, FiniteSetsExt

CONSTANTS Batches,       \* syncs and imports
          Items,         \* scraped items
          Urls,          \* post_url values
          Groups,        \* Groups[b]: the sequence of item sets, one per channel
          UrlOf,         \* UrlOf[i]: the item's post_url
          Imports,       \* the batches that are single-post imports
          OnlyMatches,   \* the batches with only_whitelist_matches
          OpenAILimit,   \* ASSET_CREATION_OPENAI_CONCURRENCY
          HttpxLimit,    \* ASSET_CREATION_HTTPX_CONCURRENCY
          Threads        \* workers of the executor behind asyncio.to_thread

ASSUME IngestAssumption ==
    /\ Imports \subseteq Batches /\ OnlyMatches \subseteq Batches \ Imports
    /\ UrlOf \in [Items -> Urls] /\ Items \cap {"before", "nobody"} = {}
    /\ OpenAILimit \in Nat \ {0} /\ HttpxLimit \in Nat \ {0} /\ Threads \in Nat \ {0}

VARIABLES turn,        \* turn[b]: the channel batch b is at; 0 before it starts
          step,        \* step[i]: the step of the item's task
          outcome,     \* outcome[i]: what the task returned or raised
          tally,       \* tally[b]: the counters of the batch
          openai,      \* openai[b]: slots taken of the batch's OpenAI semaphore
          httpx,       \* httpx[b]: slots taken of its screenshot semaphore
          maker,       \* maker[u]: the item that made the post of u, "before" or "nobody"
          assets       \* assets[u]: the items that made an asset row of that post; the
                       \* rows the post analyzer adds for a picture are in AssetAnalysis

dbVars == <<maker, assets>>
ingestVars == <<turn, step, outcome, tally, openai, httpx, dbVars>>

PhaseA == {"check", "insert"}       \* steps taken on a thread, with a session open
PhaseC == {"asset", "candidate"}
Steps == PhaseA \cup PhaseC \cup {"idle", "queued_a", "openai_wait", "openai",
                                  "httpx_wait", "httpx", "queued_c", "end"}
Counted == {"created", "skipped_existing", "skipped_no_match", "skipped_other"}

Returned(b) == turn[b] = Len(Groups[b]) + 1
Aborted(b) == turn[b] = Len(Groups[b]) + 2
Working(b) == turn[b] \in DOMAIN Groups[b]
ItemsOf(b) == UNION {Groups[b][k] : k \in DOMAIN Groups[b]}
BatchOf(i) == CHOOSE b \in Batches : i \in ItemsOf(b)
SyncItems == {i \in Items : BatchOf(i) \notin Imports}
OnThread == {i \in SyncItems : step[i] \in PhaseA \cup PhaseC}
Known(u) == maker[u] # "nobody"

IngestTypeOK ==
    /\ \A b \in Batches : turn[b] \in 0..Len(Groups[b]) + 2
    /\ step \in [Items -> Steps]
    /\ outcome \in [Items -> Counted \cup {"none"}]
    /\ tally \in [Batches -> [Counted -> 0..Cardinality(Items)]]
    /\ openai \in [Batches -> 0..OpenAILimit]
    /\ httpx \in [Batches -> 0..HttpxLimit]
    /\ maker \in [Urls -> Items \cup {"before", "nobody"}]
    /\ assets \in [Urls -> SUBSET Items]

IngestInit ==
    /\ turn = [b \in Batches |-> 0]
    /\ step = [i \in Items |-> "idle"]
    /\ outcome = [i \in Items |-> "none"]
    /\ tally = [b \in Batches |-> [c \in Counted |-> 0]]
    /\ openai = [b \in Batches |-> 0] /\ httpx = [b \in Batches |-> 0]
    /\ maker \in [Urls -> {"before", "nobody"}]
    /\ assets = [u \in Urls |-> {}]

-----------------------------------------------------------------------------------
(* A batch. *)

\* Go to channel k: asyncio.gather starts a task for each of its items. An import runs
\* on its request's own thread.
FirstStep(b) == IF b \in Imports THEN "check" ELSE "queued_a"
Enter(b, k) ==
    /\ turn' = [turn EXCEPT ![b] = k]
    /\ step' = IF k \in DOMAIN Groups[b]
                 THEN [i \in Items |-> IF i \in Groups[b][k] THEN FirstStep(b) ELSE step[i]]
                 ELSE step

StartBatch(b) ==
    /\ turn[b] = 0
    /\ Enter(b, 1)
    /\ UNCHANGED <<outcome, tally, openai, httpx, dbVars>>

\* All tasks of the channel are done: count their results and go on.
Current(b) == Groups[b][turn[b]]
ResultsOf(b, c) == Cardinality({i \in Current(b) : outcome[i] = c})
NextTally(b) == [c \in Counted |-> tally[b][c] + ResultsOf(b, c)]

NextChannel(b) ==
    /\ Working(b)
    /\ \A i \in Current(b) : step[i] = "end"
    /\ tally' = [tally EXCEPT ![b] = NextTally(b)]
    /\ Enter(b, turn[b] + 1)
    /\ UNCHANGED <<outcome, openai, httpx, dbVars>>

\* End the batches bs; their items in "stay" go on alone.
Abort(bs, stay) ==
    /\ turn' = [b \in Batches |-> IF b \in bs THEN Len(Groups[b]) + 2 ELSE turn[b]]
    /\ step' = [i \in Items |-> IF BatchOf(i) \in bs /\ step[i] \notin stay
                                  THEN "end" ELSE step[i]]
    /\ openai' = [b \in Batches |-> IF b \in bs THEN 0 ELSE openai[b]]
    /\ httpx' = [b \in Batches |-> IF b \in bs THEN 0 ELSE httpx[b]]
    /\ UNCHANGED <<outcome, tally, dbVars>>

\* The process dies, with every batch it runs and every thread.
ProcessCrash ==
    LET running == {b \in Batches : Working(b) \/ Aborted(b)}
    IN  (\E b \in Batches : Working(b)) /\ Abort(running, {})

\* The run's total timeout cancels a sync; calls already on a thread run to their end.
Cancel(b) == b \notin Imports /\ Working(b) /\ Abort({b}, PhaseA \cup PhaseC)

-----------------------------------------------------------------------------------
(* One item. *)

\* After an await, a task goes on only while its batch does.
Goto(i, s) ==
    /\ step' = [step EXCEPT ![i] = IF Aborted(BatchOf(i)) /\ s \notin PhaseA \cup PhaseC
                                     THEN "end" ELSE s]
    /\ UNCHANGED <<turn, outcome, tally>>
End(i, o) ==
    /\ step' = [step EXCEPT ![i] = "end"]
    /\ outcome' = [outcome EXCEPT ![i] = IF Aborted(BatchOf(i)) THEN @ ELSE o]
    /\ UNCHANGED <<turn, tally>>

\* gather collects the exception and the loop counts it; the exception of an import
\* is the answer of its request.
Failed == "skipped_other"
Raise(i) == End(i, Failed)

\* asyncio.to_thread: a worker of the executor picks the call up.
TakeThread(i) ==
    /\ Cardinality(OnThread) < Threads
    /\ \/ step[i] = "queued_a" /\ Goto(i, "check")
       \/ step[i] = "queued_c" /\ Goto(i, "asset")
    /\ UNCHANGED <<openai, httpx, dbVars>>

\* Phase A up to the INSERT: no url, a known url, no match, or go on.
Check(i) ==
    /\ step[i] = "check"
    /\ \/ Known(UrlOf[i]) /\ End(i, "skipped_existing")
       \/ ~Known(UrlOf[i]) /\ Goto(i, "insert")
       \/ ~Known(UrlOf[i]) /\ BatchOf(i) \in OnlyMatches /\ End(i, "skipped_no_match")
       \/ Raise(i)
    /\ UNCHANGED <<openai, httpx, dbVars>>

\* The INSERT of the post; the unique index on post_url refuses a second one.
MUT_MayInsert(u) == TRUE
MayInsert(u) == ~Known(u)

Import(i) == BatchOf(i) \in Imports

InsertPost(i) ==
    /\ step[i] = "insert" /\ MayInsert(UrlOf[i])
    /\ maker' = [maker EXCEPT ![UrlOf[i]] = i]
    /\ Goto(i, IF Import(i) THEN "openai" ELSE "openai_wait")
    /\ UNCHANGED <<assets, openai, httpx>>

InsertRaises(i) ==
    /\ step[i] = "insert"
    /\ Raise(i)
    /\ UNCHANGED <<openai, httpx, dbVars>>

\* Phases B and B' under the batch's semaphores; an import calls without one.
Acquired(slots, i) == [slots EXCEPT ![BatchOf(i)] = @ + 1]
Released(slots, i) == IF Import(i) THEN slots ELSE [slots EXCEPT ![BatchOf(i)] = @ - 1]
MUT_ReleasedOnError(slots, i) == slots
ReleasedOnError(slots, i) == Released(slots, i)

EnterOpenAI(i) ==
    /\ step[i] = "openai_wait" /\ openai[BatchOf(i)] < OpenAILimit
    /\ openai' = Acquired(openai, i)
    /\ Goto(i, "openai")
    /\ UNCHANGED <<httpx, dbVars>>

LeaveOpenAI(i) ==
    /\ step[i] = "openai"
    /\ \/ openai' = Released(openai, i) /\ Goto(i, IF Import(i) THEN "httpx" ELSE "httpx_wait")
       \/ openai' = ReleasedOnError(openai, i) /\ Raise(i)
    /\ UNCHANGED <<httpx, dbVars>>

EnterHttpx(i) ==
    /\ step[i] = "httpx_wait" /\ httpx[BatchOf(i)] < HttpxLimit
    /\ httpx' = Acquired(httpx, i)
    /\ Goto(i, "httpx")
    /\ UNCHANGED <<openai, dbVars>>

\* persist_asset_screenshot_async is best-effort: it does not raise.
LeaveHttpx(i) ==
    /\ step[i] = "httpx"
    /\ httpx' = Released(httpx, i)
    /\ Goto(i, IF Import(i) THEN "asset" ELSE "queued_c")
    /\ UNCHANGED <<openai, dbVars>>

\* Phase C: the asset is committed, then its title candidate is resolved or created in
\* a commit of its own.
CommitAsset(i) ==
    /\ step[i] = "asset"
    /\ \/ assets' = [assets EXCEPT ![UrlOf[i]] = @ \cup {i}] /\ Goto(i, "candidate")
       \/ UNCHANGED assets /\ Raise(i)
    /\ UNCHANGED <<openai, httpx, maker>>

SettleCandidate(i) ==
    /\ step[i] = "candidate"
    /\ End(i, "created") \/ Raise(i)
    /\ UNCHANGED <<openai, httpx, dbVars>>

Proceed(i) ==
    \/ TakeThread(i) \/ Check(i) \/ InsertPost(i) \/ InsertRaises(i)
    \/ EnterOpenAI(i) \/ LeaveOpenAI(i) \/ EnterHttpx(i) \/ LeaveHttpx(i)
    \/ CommitAsset(i) \/ SettleCandidate(i)

Done ==
    /\ \A b \in Batches : Returned(b) \/ Aborted(b)
    /\ \A i \in Items : step[i] \in {"idle", "end"}
    /\ UNCHANGED ingestVars

IngestNext ==
    \/ \E b \in Batches : StartBatch(b) \/ NextChannel(b) \/ Cancel(b)
    \/ \E i \in Items : Proceed(i)
    \/ ProcessCrash
    \/ Done

IngestSpec == IngestInit /\ [][IngestNext]_ingestVars

\* Every call returns or raises and the event loop resumes what waits for it. No strong
\* fairness: an item passes each semaphore once, so a queue before one empties.
FairIngestSpec ==
    /\ IngestSpec
    /\ \A i \in Items : WF_ingestVars(Proceed(i))
    /\ \A b \in Batches : WF_ingestVars(NextChannel(b))

-----------------------------------------------------------------------------------
(* Properties. *)

\* However syncs and imports of the same url interleave, one task makes the post and
\* only it makes an asset: the check before the INSERT is not what decides, the unique
\* index is (_phase_a_create_post). It speaks of these writers: the vision of
\* post_analyzer.analyze_post adds an asset of its own where no row of the post has
\* the picture's url, and nothing here reads what it adds.
OneAssetPerPost ==
    \A u \in Urls : /\ Cardinality(assets[u]) <= 1
                    /\ \A i \in assets[u] : maker[u] = i

\* Its inductive strengthening: whoever is past the INSERT made the post of its url.
PastInsert == {"openai_wait", "openai", "httpx_wait", "httpx", "queued_c"} \cup PhaseC
MakerInv ==
    /\ \A i \in Items : step[i] \in PastInsert => maker[UrlOf[i]] = i
    /\ \A u \in Urls : assets[u] \subseteq {i \in Items : maker[u] = i}

\* What a sync that returned reports adds up over its channels: every item is in exactly
\* one counter, and no more assets are reported created than there are rows
\* (_run_apify_sync_for_platform_async, the loop over results).
CountersTellTheTruth ==
    \A b \in Batches : Returned(b) =>
        /\ MapThenSumSet(LAMBDA c : tally[b][c], Counted) = Cardinality(ItemsOf(b))
        /\ tally[b].created <= Cardinality({i \in ItemsOf(b) : i \in assets[UrlOf[i]]})

\* A post without an asset, which the url check then skips for ever, is left only by a
\* task that raised after its INSERT or was cut off by a crash or a cancellation; no
\* result "created" stands for one (the two commits of phases A and C).
OrphanOnlyAfterFailure ==
    \A u \in Urls : (maker[u] \in Items /\ assets[u] = {} /\ step[maker[u]] = "end") =>
        \/ outcome[maker[u]] = "skipped_other"
        \/ outcome[maker[u]] = "none" /\ Aborted(BatchOf(maker[u]))

\* Every batch that starts ends: no error path keeps a semaphore slot or a thread.
BatchEnds == \A b \in Batches : Working(b) ~> ~Working(b)

\* What the comment on the concurrency constants in backend/app/api/monitor.py says: at
\* any instant at most ASSET_CREATION_OPENAI_CONCURRENCY + _HTTPX_CONCURRENCY tasks of
\* a sync hold a database connection.
SessionsWithinSemaphores == Cardinality(OnThread) <= OpenAILimit + HttpxLimit
=================================================================================
