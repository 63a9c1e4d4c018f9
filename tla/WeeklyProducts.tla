----------------------------- MODULE WeeklyProducts -----------------------------
(* The products of a week beside the pair briefs: the recommendation snapshot, the      *)
(* segment roundups, the forecast texts, the cutter's and the designer's briefing, the  *)
(* pattern briefings and the title briefs (backend/app/services/*.py). The cron run     *)
(* makes them stage by stage (backend/app/api/cron.py) on one session, beside requests  *)
(* with sessions of their own; most stages look at the Anthropic cap                    *)
(* (budget_check.py) before they start, and every call is booked in the cost log        *)
(* (cost_log.py) on a session of its own.                                               *)
(*                                                                                      *)
(* The week is fixed, so a product is named by what it is about. There is at most one   *)
(* cron run at a time (module CronRun). A call costs one unit.                          *)
EXTENDS Naturals, Sequences, FiniteSets

CONSTANTS Workers,     \* threads: one may be the cron run, the others serve requests
          Items,       \* the products of the week
          Kind,        \* what each product is
          Cap,         \* ANTHROPIC_MONTHLY_BUDGET_USD * hard-cap percentage; enforced
          MaxCalls,    \* calls of one call_with_json_retry: the first and its recalls
          Months,      \* bound on the calendar months the behaviour may see
          DbErrors     \* may statements and commits fail?

Kinds == {"snapshot", "roundup", "forecast", "cutter", "designer", "pattern", "title"}

ASSUME ProductAssumption ==
    /\ Kind \in [Items -> Kinds]
    /\ Items # {}
    /\ Cap \in Nat \ {0} /\ Months \in Nat \ {0} /\ MaxCalls \in Nat \ {0}
    /\ DbErrors \in BOOLEAN

VARIABLES table,     \* the row of each product: "absent", "evidence" (no usable answer), "full"
          logged,    \* this month's sum in the cost log, counted up to Cap
          month,     \* the calendar month
          job,       \* what each worker runs
          stage,     \* the cron run's stage: an index into CronStages
          left,      \* the items of the stage still to do
          item,      \* the item under way
          at,        \* its step
          signals,   \* the forecasts a weekly briefing has still to look at
          try,       \* the attempt of a weekly briefing
          got,       \* what there is to write
          seen,      \* did the look before the write find a row?
          session,   \* "ok", or "aborted" after a database error
          counted,   \* how the last item was counted
          cut,       \* the month in which the cap closed a stage of the run; 0: none
          late,      \* the run's stages that read the cost log and paid in this month
                     \* although the cap was reached
          blind      \* did the stage open because the cost log could not be read?

shared == <<table, logged, month>>
progress == <<stage, left, item, signals, try, got, seen>>
observers == <<cut, late, blind>>
vars == <<shared, job, progress, at, session, counted, observers>>

CronJobs == {"cron", "cron_force"}
Jobs == CronJobs \cup {"request"}
Steps == {"idle", "gate", "pick", "precheck", "gather", "signals", "call", "look", "write",
          "reinsert"}

\* The order of the stages is fixed: what the cap cuts off first comes last.
CronStages == <<"snapshot", "roundup", "forecast", "cutter", "designer", "pattern">>
Weekly == {"cutter", "designer"}
\* The kinds whose row is written without a usable answer too: the evidence is the product.
MUT_KeepsEvidence == {"cutter", "designer", "pattern", "roundup"}
KeepsEvidence == {"cutter", "designer", "pattern"}
\* The kinds a request can ask for; it never looks at the cap.
OnDemand == {"roundup", "forecast", "pattern", "title"}
MUT_CapChecked == Kinds \ {"snapshot", "title", "pattern"}
CapChecked == Kinds \ {"snapshot", "title"}
\* The stages a flag or an empty setting switches off.
Optional == {"snapshot", "roundup", "cutter", "designer", "pattern"}

ItemsOf(kind) == {i \in Items : Kind[i] = kind}
Forecasts == ItemsOf("forecast")
CallMax(kind) == IF kind = "forecast" THEN 1 ELSE MaxCalls
SomeItem == CHOOSE i \in Items : TRUE
Least(m, n) == IF m < n THEN m ELSE n

TypeOK ==
    /\ table \in [Items -> {"absent", "evidence", "full"}]
    /\ logged \in 0..Cap
    /\ month \in 1..Months
    /\ job \in [Workers -> Jobs]
    /\ stage \in [Workers -> 1..Len(CronStages) + 1]
    /\ left \in [Workers -> SUBSET Items]
    /\ item \in [Workers -> Items]
    /\ at \in [Workers -> Steps]
    /\ signals \in [Workers -> SUBSET Items]
    /\ try \in [Workers -> 1..2]
    /\ got \in [Workers -> {"evidence", "full"}]
    /\ seen \in [Workers -> BOOLEAN]
    /\ session \in [Workers -> {"ok", "aborted"}]
    /\ counted \in [Workers -> {"none", "generated", "cache_hit", "no_text", "failed"}]
    /\ cut \in 0..Months /\ late \subseteq 1..Len(CronStages) + 1 /\ blind \in BOOLEAN

Init ==
    /\ table = [i \in Items |-> "absent"]
    /\ logged \in 0..Cap
    /\ month = 1
    /\ job = [w \in Workers |-> "request"]
    /\ stage = [w \in Workers |-> 1]
    /\ left = [w \in Workers |-> {}]
    /\ item = [w \in Workers |-> SomeItem]
    /\ at = [w \in Workers |-> "idle"]
    /\ signals = [w \in Workers |-> {}]
    /\ try = [w \in Workers |-> 1]
    /\ got = [w \in Workers |-> "full"]
    /\ seen = [w \in Workers |-> FALSE]
    /\ session = [w \in Workers |-> "ok"]
    /\ counted = [w \in Workers |-> "none"]
    /\ cut = 0 /\ late = {} /\ blind = FALSE

InCron(w) == job[w] \in CronJobs
KindAt(w) == Kind[item[w]]

\* A statement that fails leaves the transaction aborted; one that never got a connection
\* from the pool leaves the session as it was.
AfterFailedRead(w) == {"aborted", session[w]}

\* What the next item finds.
FreshItem(w) ==
    /\ signals' = [signals EXCEPT ![w] = {}]
    /\ try' = [try EXCEPT ![w] = 1]
    /\ got' = [got EXCEPT ![w] = "full"]
    /\ seen' = [seen EXCEPT ![w] = FALSE]

\* The run or the request ends; its session is closed.
Over(w) ==
    /\ at' = [at EXCEPT ![w] = "idle"]
    /\ job' = [job EXCEPT ![w] = "request"]
    /\ stage' = [stage EXCEPT ![w] = 1]
    /\ left' = [left EXCEPT ![w] = {}]
    /\ item' = [item EXCEPT ![w] = SomeItem]
    /\ session' = [session EXCEPT ![w] = "ok"]
    /\ counted' = [counted EXCEPT ![w] = "none"]
    /\ FreshItem(w)
    /\ IF InCron(w) THEN cut' = 0 /\ blind' = FALSE ELSE UNCHANGED <<cut, blind>>

ForgetLate(w) == late' = IF InCron(w) THEN {} ELSE late

\* The item is done: a stage counts it and goes on, whatever became of its session; a
\* request ends.
Finish(w, counter, sess) ==
    \/ /\ ~InCron(w) /\ Over(w)
    \/ /\ InCron(w)
       /\ counted' = [counted EXCEPT ![w] = counter]
       /\ session' = [session EXCEPT ![w] = sess]
       /\ at' = [at EXCEPT ![w] = "pick"]
       /\ FreshItem(w)
       /\ UNCHANGED <<job, stage, left, item, cut, blind>>

Goto(w, step) ==
    /\ at' = [at EXCEPT ![w] = step]
    /\ UNCHANGED <<job, stage, left, item, session, counted, cut, blind>>

-----------------------------------------------------------------------------------
(* Runs and requests. *)

BeginCron(w) ==
    /\ at[w] = "idle"
    /\ \A v \in Workers : at[v] # "idle" => ~InCron(v)
    /\ \E j \in CronJobs : job' = [job EXCEPT ![w] = j]
    /\ stage' = [stage EXCEPT ![w] = 1]
    /\ at' = [at EXCEPT ![w] = "gate"]
    /\ session' = [session EXCEPT ![w] = "ok"]
    /\ counted' = [counted EXCEPT ![w] = "none"]
    /\ cut' = 0 /\ late' = {} /\ blind' = FALSE
    /\ UNCHANGED <<shared, left, item, signals, try, got, seen>>

\* An admin's trigger, or anybody's look at a forecast. Only a title brief may be asked for
\* without replacing the one that is there.
BeginRequest(w) ==
    /\ at[w] = "idle"
    /\ \E i \in {i \in Items : Kind[i] \in OnDemand} :
         /\ item' = [item EXCEPT ![w] = i]
         /\ \E step \in (IF Kind[i] = "title" THEN {"precheck", "gather"} ELSE {"gather"}) :
              at' = [at EXCEPT ![w] = step]
    /\ job' = [job EXCEPT ![w] = "request"]
    /\ session' = [session EXCEPT ![w] = "ok"]
    /\ counted' = [counted EXCEPT ![w] = "none"]
    /\ UNCHANGED <<shared, stage, left, signals, try, got, seen, observers>>

NextStage(w) ==
    /\ left' = [left EXCEPT ![w] = {}]
    /\ blind' = FALSE
    /\ stage' = [stage EXCEPT ![w] = @ + 1]
    /\ at' = [at EXCEPT ![w] = "gate"]
    /\ counted' = [counted EXCEPT ![w] = "none"]
    /\ item' = [item EXCEPT ![w] = SomeItem]
    /\ UNCHANGED <<shared, job, signals, try, got, seen, session, late>>

\* compute_anthropic_monthly_spend: at the cap or over it.
CapReached == logged >= Cap
StageKind(w) == CronStages[stage[w]]
AtGate(w) == at[w] = "gate" /\ stage[w] <= Len(CronStages)

RunEnds(w) ==
    /\ at[w] = "gate" /\ stage[w] > Len(CronStages)
    /\ Over(w) /\ ForgetLate(w)
    /\ UNCHANGED shared

StageOff(w) ==
    /\ AtGate(w) /\ StageKind(w) \in Optional
    /\ NextStage(w)
    /\ UNCHANGED cut

\* The cap closes the stage.
GateCloses(w) ==
    /\ AtGate(w) /\ StageKind(w) \in CapChecked
    /\ session[w] = "ok" /\ CapReached
    /\ cut' = month
    /\ NextStage(w)

EnterStage(w) ==
    /\ left' = [left EXCEPT ![w] = ItemsOf(StageKind(w))]
    /\ at' = [at EXCEPT ![w] = "pick"]
    /\ UNCHANGED <<shared, job, stage, item, signals, try, got, seen, counted, cut, late>>

GateOpens(w) ==
    /\ AtGate(w)
    /\ StageKind(w) \in CapChecked => session[w] = "ok" /\ ~CapReached
    /\ EnterStage(w)
    /\ UNCHANGED <<session, blind>>

\* A read that fails counts as nothing spent: the stage opens.
GateBlind(w) ==
    /\ AtGate(w) /\ StageKind(w) \in CapChecked
    /\ session[w] = "aborted" \/ DbErrors
    /\ \E sess \in AfterFailedRead(w) : session' = [session EXCEPT ![w] = sess]
    /\ blind' = TRUE
    /\ EnterStage(w)

Pick(w) ==
    /\ at[w] = "pick" /\ left[w] # {}
    /\ \E i \in left[w] :
         /\ item' = [item EXCEPT ![w] = i]
         /\ left' = [left EXCEPT ![w] = @ \ {i}]
         /\ at' = [at EXCEPT ![w] =
                     IF job[w] = "cron" /\ Kind[i] \notin {"snapshot", "forecast"}
                     THEN "precheck" ELSE "gather"]
    /\ counted' = [counted EXCEPT ![w] = "none"]
    /\ UNCHANGED <<shared, job, stage, signals, try, got, seen, session, observers>>

StageEnds(w) ==
    /\ at[w] = "pick" /\ left[w] = {}
    /\ NextStage(w)
    /\ UNCHANGED cut

-----------------------------------------------------------------------------------
(* One product. *)

\* The look for this week's row, in the cron outside the stage's try block.
PreCheckHit(w) ==
    /\ at[w] = "precheck" /\ session[w] = "ok" /\ table[item[w]] # "absent"
    /\ Finish(w, "cache_hit", "ok")
    /\ UNCHANGED <<shared, late>>

PreCheckMiss(w) ==
    /\ at[w] = "precheck" /\ session[w] = "ok" /\ table[item[w]] = "absent"
    /\ Goto(w, "gather")
    /\ UNCHANGED <<shared, signals, try, got, seen, late>>

\* ... it raises: the exception ends the run, or the request.
PreCheckRaises(w) ==
    /\ at[w] = "precheck" /\ (session[w] = "aborted" \/ DbErrors)
    /\ Over(w) /\ ForgetLate(w)
    /\ UNCHANGED shared

\* The evidence is read from the database; an aborted session raises.
GatherRaises(w) ==
    /\ at[w] = "gather" /\ (session[w] = "aborted" \/ DbErrors)
    /\ \E sess \in AfterFailedRead(w) : Finish(w, "failed", sess)
    /\ UNCHANGED <<shared, late>>

\* On to the next step, with nothing else decided.
Proceed(w, step) ==
    /\ Goto(w, step)
    /\ UNCHANGED <<shared, signals, try, got, seen, late>>

\* The evidence is there, and the next step is taken.
Gathered(w, kinds, step) ==
    /\ at[w] = "gather" /\ session[w] = "ok" /\ KindAt(w) \in kinds
    /\ Proceed(w, step)

GatherRoundup(w) == Gathered(w, {"roundup"}, "call")
GatherTitle(w) == Gathered(w, {"title"}, "call")
GatherSnapshot(w) == Gathered(w, {"snapshot"}, "look")
\* Without a pattern the row is made without a call.
GatherPattern(w) == \E step \in {"call", "look"} : Gathered(w, {"pattern"}, step)

\* A text that is cached is not asked for again; without enough data there is none.
GatherForecast(w) ==
    \/ table[item[w]] = "absent" /\ Gathered(w, {"forecast"}, "call")
    \/ /\ at[w] = "gather" /\ session[w] = "ok" /\ KindAt(w) = "forecast"
       /\ Finish(w, IF table[item[w]] = "absent" THEN "no_text" ELSE "cache_hit", "ok")
       /\ UNCHANGED <<shared, late>>

GatherWeekly(w) ==
    /\ at[w] = "gather" /\ session[w] = "ok" /\ KindAt(w) \in Weekly
    /\ signals' = [signals EXCEPT ![w] = Forecasts]
    /\ Goto(w, "signals")
    /\ UNCHANGED <<shared, try, got, seen, late>>

\* n calls are paid and booked; the cost log swallows its own errors.
Pay(w, n) ==
    /\ \/ logged' = Least(Cap, logged + n)
       \/ DbErrors /\ UNCHANGED logged
    /\ late' = IF InCron(w) /\ CapReached /\ ~blind THEN late \cup {stage[w]} ELSE late
    /\ UNCHANGED month

\* collect_forecast_signals: every pair's forecast is asked for; it is read, made and
\* kept, or its failure is swallowed.
Signal(w) ==
    /\ at[w] = "signals" /\ signals[w] # {}
    /\ \E f \in signals[w] :
         /\ signals' = [signals EXCEPT ![w] = @ \ {f}]
         /\ \/ /\ session[w] = "aborted" \/ DbErrors
               /\ \E sess \in AfterFailedRead(w) : session' = [session EXCEPT ![w] = sess]
               /\ UNCHANGED <<shared, late>>
            \/ /\ session[w] = "ok"
               /\ UNCHANGED <<shared, session, late>>
            \/ /\ session[w] = "ok" /\ table[f] = "absent"
               /\ Pay(w, 1)
               /\ \/ table' = [table EXCEPT ![f] = "full"]
                  \/ UNCHANGED table
               /\ UNCHANGED session
    /\ UNCHANGED <<job, stage, left, item, at, try, got, seen, counted, cut, blind>>

\* No platform with a released pattern: the row is made without a call.
SignalsRead(w) ==
    /\ at[w] = "signals" /\ signals[w] = {}
    /\ \E step \in {"call", "look"} : Proceed(w, step)

\* The call raises, or the key is missing: nothing is written. A forecast has its numbers
\* without the text.
CallRaises(w) ==
    /\ at[w] = "call"
    /\ Finish(w, IF KindAt(w) = "forecast" THEN "no_text" ELSE "failed", session[w])
    /\ UNCHANGED <<shared, late>>

Answered(w) ==
    /\ at[w] = "call"
    /\ \E n \in 1..CallMax(KindAt(w)) : Pay(w, n)
    /\ UNCHANGED table

CallUsable(w) ==
    /\ Answered(w)
    /\ Goto(w, "look")
    /\ UNCHANGED <<signals, try, got, seen>>

\* No usable answer: no JSON, against the schema, or with citations that are not there. A
\* weekly briefing is tried once more.
TryAgain(w) ==
    /\ Answered(w)
    /\ KindAt(w) \in Weekly /\ try[w] = 1
    /\ try' = [try EXCEPT ![w] = @ + 1]
    /\ Goto(w, "call")
    /\ UNCHANGED <<signals, got, seen>>

\* ... then the briefings are written with their evidence alone,
EvidenceOnly(w) ==
    /\ Answered(w)
    /\ KindAt(w) \in KeepsEvidence /\ (KindAt(w) \in Weekly => try[w] = 2)
    /\ got' = [got EXCEPT ![w] = "evidence"]
    /\ Goto(w, "look")
    /\ UNCHANGED <<signals, try, seen>>

\* ... and the others are not written.
Unanswered(kind) == IF kind = "forecast" THEN "no_text" ELSE "failed"
NoAnswer(w) ==
    /\ Answered(w)
    /\ KindAt(w) \notin KeepsEvidence
    /\ Finish(w, Unanswered(KindAt(w)), session[w])

-----------------------------------------------------------------------------------
(* Writing the row. *)

LookRaises(w) ==
    /\ at[w] = "look" /\ (session[w] = "aborted" \/ DbErrors)
    /\ \E sess \in AfterFailedRead(w) : Finish(w, "failed", sess)
    /\ UNCHANGED <<shared, late>>

\* The first forecast text stays.
Look(w) ==
    /\ at[w] = "look" /\ session[w] = "ok"
    /\ ~(KindAt(w) = "forecast" /\ table[item[w]] # "absent")
    /\ seen' = [seen EXCEPT ![w] = table[item[w]] # "absent"]
    /\ Goto(w, "write")
    /\ UNCHANGED <<shared, signals, try, got, late>>

ForecastIsThere(w) ==
    /\ at[w] = "look" /\ session[w] = "ok"
    /\ KindAt(w) = "forecast" /\ table[item[w]] # "absent"
    /\ Finish(w, "generated", "ok")
    /\ UNCHANGED <<shared, late>>

\* The row the look did not find is there by now: the primary key refuses a second one.
Clash(w) == ~seen[w] /\ table[item[w]] # "absent"

\* The old row is deleted and the new one inserted in one transaction.
Write(w, kind) ==
    /\ at[w] = "write" /\ KindAt(w) = kind /\ ~Clash(w)
    /\ table' = [table EXCEPT ![item[w]] = got[w]]
    /\ Finish(w, "generated", "ok")
    /\ UNCHANGED <<logged, month, late>>

WriteRoundup(w) == Write(w, "roundup")
WriteTitle(w) == Write(w, "title")
WriteForecast(w) == Write(w, "forecast")
WriteCutter(w) == Write(w, "cutter")
WriteDesigner(w) == Write(w, "designer")
WritePattern(w) == Write(w, "pattern")

\* The commit raises. The forecast takes it for a lost race and rolls back; the others leave
\* the session as it is.
WriteFails(w) ==
    /\ at[w] = "write" /\ (Clash(w) \/ DbErrors)
    /\ IF KindAt(w) = "forecast" THEN Finish(w, "generated", "ok")
                                 ELSE Finish(w, "failed", "aborted")
    /\ UNCHANGED <<shared, late>>

\* The snapshot deletes and commits, then inserts and commits.
DeleteSnapshot(w) ==
    /\ at[w] = "write" /\ KindAt(w) = "snapshot" /\ ~Clash(w)
    /\ table' = [table EXCEPT ![item[w]] = "absent"]
    /\ Goto(w, "reinsert")
    /\ UNCHANGED <<logged, month, signals, try, got, seen, late>>

InsertSnapshot(w) ==
    /\ at[w] = "reinsert"
    /\ table' = [table EXCEPT ![item[w]] = "full"]
    /\ Finish(w, "generated", "ok")
    /\ UNCHANGED <<logged, month, late>>

InsertFails(w) ==
    /\ at[w] = "reinsert" /\ DbErrors
    /\ Finish(w, "failed", "aborted")
    /\ UNCHANGED <<shared, late>>

-----------------------------------------------------------------------------------

\* The process dies, or the request is dropped.
Crash(w) ==
    /\ at[w] # "idle"
    /\ Over(w) /\ ForgetLate(w)
    /\ UNCHANGED shared

\* _month_window_utc: the sum starts anew with the calendar month.
NewMonth ==
    /\ month < Months
    /\ month' = month + 1 /\ logged' = 0 /\ late' = {}
    /\ UNCHANGED <<table, job, progress, at, session, counted, cut, blind>>

Gate(w) == RunEnds(w) \/ StageOff(w) \/ GateCloses(w) \/ GateOpens(w) \/ GateBlind(w) \/ Pick(w) \/ StageEnds(w)
Prepare(w) ==
    \/ PreCheckHit(w) \/ PreCheckMiss(w) \/ PreCheckRaises(w)
    \/ GatherRaises(w) \/ GatherRoundup(w) \/ GatherTitle(w) \/ GatherSnapshot(w)
    \/ GatherPattern(w) \/ GatherForecast(w) \/ GatherWeekly(w)
    \/ Signal(w) \/ SignalsRead(w)
Answer(w) ==
    \/ CallRaises(w) \/ CallUsable(w) \/ TryAgain(w) \/ EvidenceOnly(w) \/ NoAnswer(w)
Store(w) ==
    \/ LookRaises(w) \/ Look(w) \/ ForecastIsThere(w)
    \/ WriteRoundup(w) \/ WriteTitle(w) \/ WriteForecast(w)
    \/ WriteCutter(w) \/ WriteDesigner(w) \/ WritePattern(w) \/ WriteFails(w)
    \/ DeleteSnapshot(w) \/ InsertSnapshot(w) \/ InsertFails(w)

Next ==
    \/ \E w \in Workers : \/ BeginCron(w) \/ BeginRequest(w) \/ Gate(w) \/ Prepare(w)
                         \/ Answer(w) \/ Store(w) \/ Crash(w)
    \/ NewMonth

Spec == Init /\ [][Next]_vars

-----------------------------------------------------------------------------------
(* Properties. *)

\* The order of the stages and the second cap check exist so that the cap cuts off the end
\* of a run (cron.py:1319-1323): once it has closed a stage, no stage of the run pays in
\* that month, unless one whose own look at the cost log failed (budget_check.py:184-195).
CutIsFinal ==
    \A w \in Workers : InCron(w) /\ cut = month /\ ~blind => at[w] \notin {"signals", "call"}
\* The cap is looked at before a stage and the money spent inside it, the run's and that of
\* requests beside it: past the cap only one stage of a run pays, the one under way when
\* the cap was reached, unless a look failed.
OneOvershoots == \A s, t \in late : s = t
CapHolds == CutIsFinal /\ OneOvershoots

\* The counters say what landed in the table (cron.py:1439-1447): a product counted as made
\* or as there has its row, and a roundup or a cached text is never an empty one. A made
\* forecast text may be missing: its commit error is swallowed.
CountedIsThere ==
    \A w \in Workers :
        InCron(w) /\ at[w] = "pick" /\ counted[w] \in {"generated", "cache_hit"} =>
            \/ KindAt(w) = "forecast" /\ counted[w] = "generated"
            \/ table[item[w]] = "full"
            \/ table[item[w]] = "evidence" /\ KindAt(w) \in KeepsEvidence

\* A usable product is never replaced by a failure, unless somebody forces it: a pattern
\* briefing is also an admin's to overwrite, and the snapshot is rewritten in two steps.
GoodRowKept ==
    [][\A i \in Items :
         table[i] = "full" /\ table'[i] # "full" =>
             \/ Kind[i] \in {"pattern", "snapshot"}
             \/ \E w \in Workers : at[w] = "write" /\ item[w] = i /\ job[w] = "cron_force"]_vars

\* cutter_weekly.py:541-548 "eine Woche, deren LLM-Synthese an der strikten
\* Citation-Validierung scheitert, muss mit ihren freigegebenen/verworfenen Mustern
\* trotzdem in der Tabelle landen": a rejected answer leads to a row.
EvidenceLands ==
    [][\A w \in Workers : at[w] = "call" /\ try[w] = 2 => at'[w] # "pick"]_vars

\* A rewritten row is there all the time ("Last-Write-Wins, wie bei den Briefs",
\* recommendation_snapshot.py:83-84).
RewriteInPlace == [][\A i \in Items : table[i] # "absent" => table'[i] # "absent"]_vars
=================================================================================
