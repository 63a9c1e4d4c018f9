----------------------------- MODULE BriefGeneration -----------------------------
(* Generating the weekly pair briefs: generate_and_persist_report and its advisory    *)
(* lock (backend/app/services/insight_engine.py), and the three callers that run it   *)
(* side by side, each in a thread with a database session of its own: the cron stage, *)
(* GET /api/insights/report and the admin's regenerate loop.                          *)
(*                                                                                    *)
(* The week is fixed, so a brief is named by its pair. A transaction holds the        *)
(* advisory locks it took until it commits, rolls back or fails.                      *)
EXTENDS Naturals, Sequences, FiniteSets

CONSTANTS Workers,      \* threads that serve requests or the cron stage
          ProcOf,       \* the web process of each worker
          PairSeq,      \* the enabled pairs, in the order of PAIRS
          DbErrors,     \* may statements and commits fail?
          SharedSeed    \* do all processes hash the lock key alike?

Pairs == {PairSeq[i] : i \in DOMAIN PairSeq}

ASSUME BriefAssumption ==
    /\ PairSeq \in Seq(Pairs) /\ PairSeq # <<>>
    /\ \A i, j \in DOMAIN PairSeq : PairSeq[i] = PairSeq[j] => i = j
    /\ DbErrors \in BOOLEAN /\ SharedSeed \in BOOLEAN

VARIABLES job,       \* what each worker runs
          todo,      \* the pairs it has still to do; the head is under way
          at,        \* its step
          session,   \* its session: "ok", or "aborted" after a database error
          held,      \* the advisory locks of its transaction
          brief,     \* the pairs with a row in insight_report
          tally      \* the cron stage's counters, by pair

vars == <<job, todo, at, session, held, brief, tally>>

CronJobs == {"cron", "cron_force"}
LoopJobs == CronJobs \cup {"regen", "regen_replace"}
Jobs == LoopJobs \cup {"get", "get_force"}
Replace(j) == j \in {"cron_force", "regen_replace"}
Steps == {"idle", "precheck", "lock", "recheck", "llm", "persist", "stage_end", "stage_raised"}
Counters == {"none", "generated", "skipped_cache_hit", "failed"}

\* _acquire_brief_lock: Python's hash of the key is salted per process.
MUT_LockKey(w, p) == <<w, p>>
LockKey(w, p) == IF SharedSeed THEN <<p>> ELSE <<ProcOf[w], p>>
LockKeys == {LockKey(w, p) : w \in Workers, p \in Pairs}

TypeOK ==
    /\ job \in [Workers -> Jobs]
    /\ \A w \in Workers : todo[w] \in Seq(Pairs) /\ Len(todo[w]) <= Len(PairSeq)
    /\ at \in [Workers -> Steps]
    /\ session \in [Workers -> {"ok", "aborted"}]
    /\ held \in [Workers -> SUBSET LockKeys]
    /\ brief \in SUBSET Pairs
    /\ tally \in [Workers -> [Pairs -> Counters]]

Init ==
    /\ job \in [Workers -> {"get"}]
    /\ todo = [w \in Workers |-> <<>>]
    /\ at = [w \in Workers |-> "idle"]
    /\ session = [w \in Workers |-> "ok"]
    /\ held = [w \in Workers |-> {}]
    /\ brief = {}
    /\ tally = [w \in Workers |-> [p \in Pairs |-> "none"]]

Pair(w) == Head(todo[w])

-----------------------------------------------------------------------------------
(* Requests, and the loops over the pairs. *)

\* The lists of pairs a job may be given: the cron and "pair=all" take them in the order
\* of PAIRS (the cron's filter keeps that order), the others take one.
Singles == {<<p>> : p \in Pairs}
Filtered == {SelectSeq(PairSeq, LAMBDA p : p \in S) : S \in SUBSET Pairs \ {{}}}
Reverse == [i \in DOMAIN PairSeq |-> PairSeq[Len(PairSeq) + 1 - i]]
MUT_PairLists(j) ==
    CASE j \in CronJobs -> Filtered
      [] j \in LoopJobs \ CronJobs -> {Reverse} \cup Singles
      [] OTHER -> Singles
PairLists(j) ==
    CASE j \in CronJobs -> Filtered
      [] j \in LoopJobs \ CronJobs -> {PairSeq} \cup Singles
      [] OTHER -> Singles

FirstStep(j) == IF j = "cron" THEN "precheck" ELSE "lock"

\* A request or the cron stage begins; there is at most one cron run.
Begin(w) ==
    /\ at[w] = "idle"
    /\ \E j \in Jobs : \E ps \in PairLists(j) :
         /\ j \in CronJobs => \A v \in Workers : at[v] # "idle" => job[v] \notin CronJobs
         /\ job' = [job EXCEPT ![w] = j]
         /\ todo' = [todo EXCEPT ![w] = ps]
         /\ at' = [at EXCEPT ![w] = FirstStep(j)]
    /\ session' = [session EXCEPT ![w] = "ok"]
    /\ tally' = [tally EXCEPT ![w] = [p \in Pairs |-> "none"]]
    /\ UNCHANGED <<held, brief>>

\* The pair is done: count it and take the next one. A loop keeps its session, and with
\* it every lock its open transaction holds; a request ends and closes the session.
NextPair(w, counter, sess, locks) ==
    LET rest == Tail(todo[w])
        ends == rest = <<>> \/ job[w] \notin LoopJobs IN
      /\ tally' = [tally EXCEPT ![w][Pair(w)] =
                     IF job[w] \in CronJobs THEN counter ELSE "none"]
      /\ todo' = [todo EXCEPT ![w] = IF ends THEN <<>> ELSE rest]
      /\ at' = [at EXCEPT ![w] = IF ~ends THEN FirstStep(job[w])
                                 ELSE IF job[w] \in CronJobs THEN "stage_end" ELSE "idle"]
      /\ held' = [held EXCEPT ![w] = IF ends /\ job[w] \notin CronJobs THEN {} ELSE locks]
      /\ session' = [session EXCEPT ![w] = sess]
      /\ UNCHANGED job

\* A database error: Postgres aborts the transaction and drops its locks; the session
\* raises on every further statement, since nothing here rolls it back.
DbFails(w) == NextPair(w, "failed", "aborted", {})

-----------------------------------------------------------------------------------
(* One pair. *)

\* The cron's own look for the row, outside its try block.
PreCheckHit(w) ==
    /\ at[w] = "precheck" /\ session[w] = "ok" /\ Pair(w) \in brief
    /\ NextPair(w, "skipped_cache_hit", "ok", held[w])
    /\ UNCHANGED brief

PreCheckMiss(w) ==
    /\ at[w] = "precheck" /\ session[w] = "ok" /\ Pair(w) \notin brief
    /\ at' = [at EXCEPT ![w] = "lock"]
    /\ UNCHANGED <<job, todo, session, held, brief, tally>>

\* ... it raises: the exception leaves the stage, and the run fails.
PreCheckRaises(w) ==
    /\ at[w] = "precheck" /\ (session[w] = "aborted" \/ DbErrors)
    /\ at' = [at EXCEPT ![w] = "stage_raised"]
    /\ session' = [session EXCEPT ![w] = "aborted"]
    /\ held' = [held EXCEPT ![w] = {}]
    /\ UNCHANGED <<job, todo, brief, tally>>

\* aggregate_pair or the lock statement raises; the wait for the lock is cancelled by
\* statement_timeout or lock_timeout, or chosen as a deadlock victim.
LockRaises(w) ==
    /\ at[w] = "lock" /\ (session[w] = "aborted" \/ DbErrors)
    /\ DbFails(w)
    /\ UNCHANGED brief

Free(w, key) == \A v \in Workers \ {w} : key \notin held[v]

AcquireLock(w) ==
    /\ at[w] = "lock" /\ session[w] = "ok"
    /\ Free(w, LockKey(w, Pair(w)))
    /\ held' = [held EXCEPT ![w] = @ \cup {LockKey(w, Pair(w))}]
    /\ at' = [at EXCEPT ![w] = "recheck"]
    /\ UNCHANGED <<job, todo, session, brief, tally>>

\* The row exists and the caller does not replace: return it, without a commit.
MUT_MayReturn(w) == Pair(w) \in brief /\ job[w] \in {"cron", "get"}
MayReturn(w) == Pair(w) \in brief /\ ~Replace(job[w])

RecheckHit(w) ==
    /\ at[w] = "recheck" /\ MayReturn(w)
    /\ NextPair(w, "generated", "ok", held[w])
    /\ UNCHANGED brief

RecheckMiss(w) ==
    /\ at[w] = "recheck" /\ ~MayReturn(w)
    /\ at' = [at EXCEPT ![w] = "llm"]
    /\ UNCHANGED <<job, todo, session, held, brief, tally>>

\* A row that no longer validates, or a statement of the re-check, raises.
RecheckRaises(w) ==
    /\ at[w] = "recheck"
    /\ \/ MayReturn(w) /\ NextPair(w, "failed", "ok", held[w])
       \/ DbErrors /\ DbFails(w)
    /\ UNCHANGED brief

LlmAnswers(w) ==
    /\ at[w] = "llm"
    /\ at' = [at EXCEPT ![w] = "persist"]
    /\ UNCHANGED <<job, todo, session, held, brief, tally>>

\* No usable answer (nothing is persisted) or an API error: the transaction stays open.
NoAnswer == "failed"
LlmFails(w) ==
    /\ at[w] = "llm"
    /\ NextPair(w, NoAnswer, "ok", held[w])
    /\ UNCHANGED brief

\* _persist_report: delete and insert in one transaction, then commit.
Persist(w) ==
    /\ at[w] = "persist"
    /\ brief' = brief \cup {Pair(w)}
    /\ NextPair(w, "generated", "ok", {})

PersistFails(w) ==
    /\ at[w] = "persist" /\ DbErrors
    /\ DbFails(w)
    /\ UNCHANGED brief

-----------------------------------------------------------------------------------
(* The end of the cron stage. *)

\* A later stage commits on the run's session, or the session is closed.
StageReleases(w) ==
    /\ at[w] \in {"stage_end", "stage_raised"}
    /\ at' = [at EXCEPT ![w] = "idle"]
    /\ held' = [held EXCEPT ![w] = {}]
    /\ todo' = [todo EXCEPT ![w] = <<>>]
    /\ UNCHANGED <<job, session, brief, tally>>

\* The process dies or the request is dropped; Postgres rolls the transaction back.
Crash(w) ==
    /\ at[w] # "idle"
    /\ at' = [at EXCEPT ![w] = "idle"]
    /\ held' = [held EXCEPT ![w] = {}]
    /\ todo' = [todo EXCEPT ![w] = <<>>]
    /\ UNCHANGED <<job, session, brief, tally>>

Proceed(w) ==
    \/ PreCheckHit(w) \/ PreCheckMiss(w) \/ PreCheckRaises(w)
    \/ LockRaises(w)
    \/ RecheckHit(w) \/ RecheckMiss(w) \/ RecheckRaises(w)
    \/ LlmAnswers(w) \/ LlmFails(w)
    \/ Persist(w) \/ PersistFails(w)
    \/ StageReleases(w)

Next == \E w \in Workers : Begin(w) \/ AcquireLock(w) \/ Proceed(w) \/ Crash(w)

Spec == Init /\ [][Next]_vars

\* A thread goes on, and a lock that is free again and again is granted (Postgres queues
\* the waiters). No wait is assumed to be cancelled, and no failure or crash to happen.
Fairness ==
    \A w \in Workers :
        /\ WF_vars(Proceed(w) /\ (session[w] = "aborted" \/ at[w] # "lock"))
        /\ SF_vars(AcquireLock(w))

FairSpec == Spec /\ Fairness

-----------------------------------------------------------------------------------
(* Properties. *)

Generating(w) == at[w] \in {"llm", "persist"}

\* insight_engine.py:4616 "no other worker is in this branch for the same (pair, year,
\* week) right now".
OneGenerator ==
    \A v, w \in Workers :
        Generating(v) /\ Generating(w) /\ Pair(v) = Pair(w) => v = w

\* What the lock needs: all workers hash in one process, or alike.
OneNamespace == SharedSeed \/ \A v, w \in Workers : ProcOf[v] = ProcOf[w]

\* Nobody pays for a brief that is there, unless he asked to replace it: from the
\* re-check to the write of a caller without replace, the row does not exist, so such
\* a caller never overwrites a brief either (double-checked locking, :4536-4548).
NoSecondPayment ==
    \A w \in Workers : Generating(w) /\ ~Replace(job[w]) => Pair(w) \notin brief

\* The inductive strengthening of the two: from the re-check to the write a worker holds
\* the key of its pair, and a key has one holder.
HoldsKey ==
    \A w \in Workers : at[w] \in {"recheck", "llm", "persist"} => LockKey(w, Pair(w)) \in held[w]
OneHolder == \A v, w \in Workers : v # w => held[v] \cap held[w] = {}
LockInv == HoldsKey /\ OneHolder /\ NoSecondPayment

\* The counters say what landed in the table: a pair counted as generated or as a cache
\* hit has its row (the phantom successes of 2026-06-01, cron.py:1242-1250).
NoPhantomSuccess ==
    \A w \in Workers, p \in Pairs :
        tally[w][p] \in {"generated", "skipped_cache_hit"} => p \in brief

\* Every request and every stage comes to its end: the loops take the locks in the order
\* of PAIRS, so that those who hold some and wait for others never wait in a circle.
RequestsEnd == \A w \in Workers : (at[w] # "idle") ~> (at[w] = "idle")

\* The contract of the loop (cron.py:1150-1155): a pair that fails does not take the
\* others with it, so each pair starts with a session it can use.
PairIsolation == \A w \in Workers : at[w] \in {"precheck", "lock"} => session[w] = "ok"
================================================================================
