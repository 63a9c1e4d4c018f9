-------------------------- MODULE WeeklyProductsProofs --------------------------
(* Theorems about WeeklyProducts, for every set of products and workers, every cap and     *)
(* every number of months.                                                                 *)
EXTENDS WeeklyProducts, TLAPS

LEMMA StageCount == Len(CronStages) = 6
  BY DEF CronStages

LEMMA SomeItemIsOne == SomeItem \in Items
<1>1. \E i \in Items : TRUE
  BY ProductAssumption
<1> QED
  BY <1>1 DEF SomeItem

---------------------------------------------------------------------------------
(* Types.  That the stage's number stays one needs that only a run is on a stage.           *)

\* A run is at work in one of its stages, or at the gate of the next.
OnStage == \A w \in Workers : InCron(w) /\ at[w] # "gate" => stage[w] <= 6
Cycle == \A w \in Workers : at[w] \in {"gate", "pick"} => InCron(w)

\* The cap is counted to and never beyond.
LEMMA Booked ==
  ASSUME TypeOK, NEW w \in Workers, NEW n \in Nat, Pay(w, n)
  PROVE  /\ logged' \in 0..Cap /\ late' \subseteq 1..Len(CronStages) + 1
         /\ logged = Cap => logged' = Cap
<1>0. late' \subseteq 1..Len(CronStages) + 1
  BY DEF Pay, TypeOK
<1> USE ProductAssumption DEF TypeOK
<1>1. CASE logged' = Least(Cap, logged + n)
  BY <1>0, <1>1 DEF Pay, Least
<1>2. CASE UNCHANGED logged
  BY <1>0, <1>2 DEF Pay
<1> QED
  BY <1>0, <1>1, <1>2 DEF Pay

\* What the end of an item, of a stage, or of a run writes has its type.
ItemTypes ==
    /\ job \in [Workers -> Jobs] /\ stage \in [Workers -> 1..Len(CronStages) + 1]
    /\ left \in [Workers -> SUBSET Items] /\ item \in [Workers -> Items]
    /\ at \in [Workers -> Steps] /\ signals \in [Workers -> SUBSET Items]
    /\ try \in [Workers -> 1..2] /\ got \in [Workers -> {"evidence", "full"}]
    /\ seen \in [Workers -> BOOLEAN] /\ session \in [Workers -> {"ok", "aborted"}]
    /\ counted \in [Workers -> {"none", "generated", "cache_hit", "no_text", "failed"}]
    /\ cut \in 0..Months /\ blind \in BOOLEAN
StageInv == TypeOK /\ OnStage /\ Cycle

LEMMA OverTypes ==
  ASSUME StageInv, NEW w \in Workers, Over(w)
  PROVE  ItemTypes' /\ OnStage' /\ Cycle'
<1> USE ProductAssumption, StageCount, SomeItemIsOne
<1>1. ItemTypes'
  <2> USE DEF Over, FreshItem, StageInv, TypeOK, InCron
  <2>1. job' \in [Workers -> Jobs] /\ at' \in [Workers -> Steps]
    BY DEF Jobs, CronJobs, Steps
  <2>2. stage' \in [Workers -> 1..Len(CronStages) + 1]
    OBVIOUS
  <2>3. /\ left' \in [Workers -> SUBSET Items] /\ item' \in [Workers -> Items]
        /\ signals' \in [Workers -> SUBSET Items]
    OBVIOUS
  <2>4. try' \in [Workers -> 1..2] /\ got' \in [Workers -> {"evidence", "full"}]
    OBVIOUS
  <2>5. seen' \in [Workers -> BOOLEAN] /\ session' \in [Workers -> {"ok", "aborted"}]
    OBVIOUS
  <2>6. counted' \in [Workers -> {"none", "generated", "cache_hit", "no_text", "failed"}]
    OBVIOUS
  <2>7. cut' \in 0..Months
    OBVIOUS
  <2>8. blind' \in BOOLEAN
    BY Zenon
  <2> QED
    BY <2>1, <2>2, <2>3, <2>4, <2>5, <2>6, <2>7, <2>8 DEF ItemTypes
<1>2. OnStage' /\ Cycle'
  BY DEF Over, StageInv, TypeOK, OnStage, Cycle, InCron, CronJobs
<1> QED
  BY <1>1, <1>2

LEMMA FinishTypes ==
  ASSUME StageInv, NEW w \in Workers, at[w] # "gate",
         NEW c \in {"generated", "cache_hit", "no_text", "failed"}, NEW s \in {"ok", "aborted"},
         Finish(w, c, s)
  PROVE  ItemTypes' /\ OnStage' /\ Cycle'
<1>1. CASE Over(w)
  BY <1>1, OverTypes
<1>2. CASE InCron(w) /\ ~Over(w)
  <2>1. /\ counted' = [counted EXCEPT ![w] = c] /\ session' = [session EXCEPT ![w] = s]
        /\ at' = [at EXCEPT ![w] = "pick"]
        /\ FreshItem(w) /\ UNCHANGED <<job, stage, left, item, cut, blind>>
    BY <1>2 DEF Finish
  <2>2. ItemTypes'
    <3> USE <2>1 DEF FreshItem, StageInv, TypeOK
    <3>1. /\ job' \in [Workers -> Jobs] /\ stage' \in [Workers -> 1..Len(CronStages) + 1]
          /\ left' \in [Workers -> SUBSET Items] /\ item' \in [Workers -> Items]
      OBVIOUS
    <3>2. at' \in [Workers -> Steps] /\ signals' \in [Workers -> SUBSET Items]
      BY DEF Steps
    <3>3. try' \in [Workers -> 1..2] /\ got' \in [Workers -> {"evidence", "full"}]
      OBVIOUS
    <3>4. seen' \in [Workers -> BOOLEAN] /\ session' \in [Workers -> {"ok", "aborted"}]
      OBVIOUS
    <3>5. counted' \in [Workers -> {"none", "generated", "cache_hit", "no_text", "failed"}]
      OBVIOUS
    <3>6. cut' \in 0..Months
      OBVIOUS
    <3>7. blind' \in BOOLEAN
      BY Zenon
    <3> QED
      BY <3>1, <3>2, <3>3, <3>4, <3>5, <3>6, <3>7 DEF ItemTypes
  <2>3. OnStage' /\ Cycle'
    BY <1>2, <2>1 DEF StageInv, TypeOK, OnStage, Cycle, InCron
  <2> QED
    BY <2>2, <2>3
<1> QED
  BY <1>1, <1>2 DEF Finish

LEMMA NextStageTypes ==
  ASSUME StageInv, NEW w \in Workers, InCron(w), stage[w] <= 6, NextStage(w),
         cut' = cut \/ cut' = month
  PROVE  StageInv'
<1> USE ProductAssumption, StageCount, SomeItemIsOne
<1>1. TypeOK'
  <2> USE DEF NextStage, shared, StageInv, TypeOK, Steps
  <2>1. cut' \in 0..Months
    OBVIOUS
  <2>2. stage' \in [Workers -> 1..Len(CronStages) + 1]
    OBVIOUS
  <2>3. blind' \in BOOLEAN
    OBVIOUS
  <2> QED
    BY <2>1, <2>2, <2>3
<1>2. OnStage' /\ Cycle'
  BY DEF NextStage, StageInv, TypeOK, OnStage, Cycle, InCron
<1> QED
  BY <1>1, <1>2 DEF StageInv

\* A failed read leaves a session.
LEMMA ReadTypes ==
  ASSUME StageInv, NEW w \in Workers, NEW sess \in AfterFailedRead(w)
  PROVE  /\ sess \in {"ok", "aborted"}
         /\ [session EXCEPT ![w] = sess] \in [Workers -> {"ok", "aborted"}]
  BY DEF AfterFailedRead, StageInv, TypeOK

\* No step of w breaks the types.
LEMMA GateTypes ==
  ASSUME StageInv, NEW w \in Workers, Gate(w)
  PROVE  StageInv'
<1> USE ProductAssumption, StageCount, SomeItemIsOne
<1>1. CASE RunEnds(w)
  <2>1. ItemTypes' /\ OnStage' /\ Cycle'
    BY <1>1, OverTypes DEF RunEnds
  <2> QED
    BY <1>1, <2>1 DEF RunEnds, ForgetLate, shared, StageInv, TypeOK, ItemTypes
<1>2. CASE StageOff(w)
  BY <1>2, NextStageTypes DEF StageOff, AtGate, StageInv, Cycle, TypeOK
<1>3. CASE GateCloses(w)
  BY <1>3, NextStageTypes DEF GateCloses, AtGate, StageInv, Cycle, TypeOK
<1>4. ASSUME AtGate(w), EnterStage(w), blind' \in BOOLEAN,
             session' \in [Workers -> {"ok", "aborted"}]
      PROVE  StageInv'
  <2>1. TypeOK'
    BY <1>4 DEF EnterStage, shared, ItemsOf, StageInv, TypeOK, Steps
  <2>2. OnStage' /\ Cycle'
    BY <1>4 DEF EnterStage, AtGate, StageInv, TypeOK, OnStage, Cycle, InCron
  <2> QED
    BY <2>1, <2>2 DEF StageInv
<1>5. CASE GateOpens(w)
  BY <1>4, <1>5 DEF GateOpens, StageInv, TypeOK
<1>6. CASE GateBlind(w)
  BY <1>4, <1>6, ReadTypes DEF GateBlind
<1>7. CASE Pick(w)
  <2>1. TypeOK'
    BY <1>7 DEF Pick, shared, observers, StageInv, TypeOK, Steps
  <2>2. OnStage' /\ Cycle'
    BY <1>7 DEF Pick, StageInv, TypeOK, OnStage, Cycle, InCron
  <2> QED
    BY <2>1, <2>2 DEF StageInv
<1>8. CASE StageEnds(w)
  <2>1. InCron(w) /\ stage[w] <= 6
    BY <1>8 DEF StageEnds, StageInv, OnStage, Cycle
  <2> QED
    BY <1>8, <2>1, NextStageTypes DEF StageEnds
<1> QED
  BY <1>1, <1>2, <1>3, <1>5, <1>6, <1>7, <1>8 DEF Gate

\* Going to the next step of an item keeps the types of what it writes.
LEMMA GotoTypes ==
  ASSUME StageInv, NEW w \in Workers, at[w] \notin {"gate", "pick"},
         NEW s \in Steps \ {"gate", "pick"}, Goto(w, s),
         UNCHANGED <<signals, try, got>>
           \/ /\ signals' \in [Workers -> SUBSET Items] /\ try' \in [Workers -> 1..2]
              /\ got' \in [Workers -> {"evidence", "full"}],
         seen' \in [Workers -> BOOLEAN]
  PROVE  ItemTypes' /\ OnStage' /\ Cycle'
<1>1. ItemTypes'
  BY DEF Goto, StageInv, TypeOK, ItemTypes
<1>2. OnStage' /\ Cycle'
  BY DEF Goto, StageInv, TypeOK, OnStage, Cycle, InCron
<1> QED
  BY <1>1, <1>2

\* The shared variables have their types after whatever an item may do to them.
SharedTypes ==
    /\ table \in [Items -> {"absent", "evidence", "full"}]
    /\ logged \in 0..Cap /\ month \in 1..Months
    /\ late \subseteq 1..Len(CronStages) + 1
LEMMA Together == ItemTypes /\ SharedTypes <=> TypeOK
  BY DEF ItemTypes, SharedTypes, TypeOK
LEMMA SharedStays ==
  ASSUME StageInv, UNCHANGED <<shared, late>> PROVE SharedTypes'
  BY DEF StageInv, TypeOK, SharedTypes, shared
LEMMA LateForgotten ==
  ASSUME StageInv, NEW w \in Workers, UNCHANGED shared, ForgetLate(w) PROVE SharedTypes'
  BY DEF StageInv, TypeOK, SharedTypes, shared, ForgetLate

LEMMA PrepareTypes ==
  ASSUME StageInv, NEW w \in Workers, Prepare(w)
  PROVE  StageInv'
<1> SUFFICES ItemTypes' /\ SharedTypes' /\ OnStage' /\ Cycle'
  BY Together DEF StageInv, ItemTypes, SharedTypes, TypeOK
<1>0. seen \in [Workers -> BOOLEAN] /\ session[w] \in {"ok", "aborted"}
  BY DEF StageInv, TypeOK
<1>1. CASE PreCheckHit(w)
  BY <1>1, FinishTypes, SharedStays DEF PreCheckHit
<1>2. CASE PreCheckMiss(w)
  BY <1>0, <1>2, GotoTypes, SharedStays DEF PreCheckMiss, Steps, shared
<1>3. CASE PreCheckRaises(w)
  BY <1>3, OverTypes, LateForgotten DEF PreCheckRaises
<1>4. CASE GatherRaises(w)
  <2>1. PICK sess \in AfterFailedRead(w) : Finish(w, "failed", sess)
    BY <1>4 DEF GatherRaises
  <2> QED
    BY <1>4, <2>1, ReadTypes, FinishTypes, SharedStays DEF GatherRaises
<1>5. ASSUME NEW kinds, NEW step \in Steps \ {"gate", "pick"}, Gathered(w, kinds, step)
      PROVE  ItemTypes' /\ SharedTypes' /\ OnStage' /\ Cycle'
  BY <1>0, <1>5, GotoTypes, SharedStays DEF Gathered, Proceed, shared
<1>6. CASE GatherRoundup(w) \/ GatherTitle(w) \/ GatherSnapshot(w) \/ GatherPattern(w)
  BY <1>5, <1>6 DEF GatherRoundup, GatherTitle, GatherSnapshot, GatherPattern, Steps
<1>7. CASE GatherForecast(w)
  <2>1. CASE Gathered(w, {"forecast"}, "call")
    BY <1>5, <2>1 DEF Steps
  <2>2. CASE ~Gathered(w, {"forecast"}, "call")
    BY <1>7, <2>2, FinishTypes, SharedStays DEF GatherForecast
  <2> QED
    BY <2>1, <2>2
<1>8. CASE GatherWeekly(w)
  <2>1. signals' \in [Workers -> SUBSET Items] /\ UNCHANGED <<try, got, seen, shared, late>>
    BY <1>8 DEF GatherWeekly, Forecasts, ItemsOf, StageInv, TypeOK
  <2>2. ItemTypes' /\ OnStage' /\ Cycle'
    BY <1>0, <1>8, <2>1, GotoTypes DEF GatherWeekly, Steps, StageInv, TypeOK
  <2> QED
    BY <2>1, <2>2, SharedStays
<1>9. CASE Signal(w)
  <2>1. PICK f \in signals[w] :
          /\ signals' = [signals EXCEPT ![w] = @ \ {f}]
          /\ \/ /\ \E sess \in AfterFailedRead(w) : session' = [session EXCEPT ![w] = sess]
                /\ UNCHANGED <<shared, late>>
             \/ UNCHANGED <<shared, session, late>>
             \/ /\ Pay(w, 1) /\ UNCHANGED session
                /\ table' = [table EXCEPT ![f] = "full"] \/ UNCHANGED table
    BY <1>9 DEF Signal
  <2>2. UNCHANGED <<job, stage, left, item, at, try, got, seen, counted, cut, blind>>
    BY <1>9 DEF Signal
  <2>3. SharedTypes' /\ session' \in [Workers -> {"ok", "aborted"}]
    <3>1. CASE /\ UNCHANGED <<shared, late>>
               /\ \E sess \in AfterFailedRead(w) : session' = [session EXCEPT ![w] = sess]
      BY <3>1, ReadTypes, SharedStays
    <3>2. CASE UNCHANGED <<shared, session, late>>
      BY <3>2, SharedStays DEF StageInv, TypeOK
    <3>3. CASE Pay(w, 1) /\ UNCHANGED session
               /\ (table' = [table EXCEPT ![f] = "full"] \/ UNCHANGED table)
      <4>1. logged' \in 0..Cap /\ late' \subseteq 1..Len(CronStages) + 1 /\ month' = month
        BY <3>3, Booked DEF StageInv, Pay
      <4> QED
        BY <3>3, <4>1 DEF SharedTypes, StageInv, TypeOK
    <3> QED
      BY <2>1, <3>1, <3>2, <3>3
  <2>4. ItemTypes'
    BY <2>1, <2>2, <2>3 DEF StageInv, TypeOK, ItemTypes
  <2>5. OnStage' /\ Cycle'
    BY <2>2 DEF StageInv, OnStage, Cycle, InCron
  <2> QED
    BY <2>3, <2>4, <2>5
<1>10. CASE SignalsRead(w)
  <2>1. PICK step \in {"call", "look"} : Goto(w, step) /\ UNCHANGED <<shared, signals, try, got, seen, late>>
    BY <1>10 DEF SignalsRead, Proceed
  <2> QED
    BY <1>0, <1>10, <2>1, GotoTypes, SharedStays DEF SignalsRead, Steps, shared
<1> QED
  BY <1>1, <1>2, <1>3, <1>4, <1>6, <1>7, <1>8, <1>9, <1>10 DEF Prepare

LEMMA AnswerTypes ==
  ASSUME StageInv, NEW w \in Workers, Answer(w)
  PROVE  StageInv'
<1> SUFFICES ItemTypes' /\ SharedTypes' /\ OnStage' /\ Cycle'
  BY Together DEF StageInv, ItemTypes, SharedTypes, TypeOK
<1>0. seen \in [Workers -> BOOLEAN] /\ session[w] \in {"ok", "aborted"}
  BY DEF StageInv, TypeOK
<1>1. CASE CallRaises(w)
  BY <1>0, <1>1, FinishTypes, SharedStays DEF CallRaises
<1>2. ASSUME Answered(w) PROVE SharedTypes' /\ at[w] = "call"
  <2>1. PICK n \in 1..CallMax(KindAt(w)) : Pay(w, n)
    BY <1>2 DEF Answered
  <2>2. n \in Nat
    BY <2>1, ProductAssumption DEF CallMax
  <2>3. logged' \in 0..Cap /\ late' \subseteq 1..Len(CronStages) + 1 /\ month' = month
    BY <2>1, <2>2, Booked DEF StageInv, Pay
  <2> QED
    BY <1>2, <2>3 DEF Answered, SharedTypes, StageInv, TypeOK
<1>3. CASE CallUsable(w)
  BY <1>0, <1>2, <1>3, GotoTypes DEF CallUsable, Steps
<1>4. CASE TryAgain(w)
  <2>1. try' \in [Workers -> 1..2] /\ UNCHANGED <<signals, got, seen>>
    BY <1>4 DEF TryAgain, StageInv, TypeOK
  <2> QED
    BY <1>0, <1>2, <1>4, <2>1, GotoTypes DEF TryAgain, Steps, StageInv, TypeOK
<1>5. CASE EvidenceOnly(w)
  <2>1. got' \in [Workers -> {"evidence", "full"}] /\ UNCHANGED <<signals, try, seen>>
    BY <1>5 DEF EvidenceOnly, StageInv, TypeOK
  <2>2. /\ signals' \in [Workers -> SUBSET Items] /\ try' \in [Workers -> 1..2]
        /\ seen' \in [Workers -> BOOLEAN]
    BY <1>0, <2>1 DEF StageInv, TypeOK
  <2>3. Goto(w, "look") /\ "look" \in Steps \ {"gate", "pick"} /\ Answered(w)
    BY <1>5 DEF EvidenceOnly, Steps
  <2> QED
    BY <1>2, <2>1, <2>2, <2>3, GotoTypes
<1>6. CASE NoAnswer(w)
  BY <1>0, <1>2, <1>6, FinishTypes DEF NoAnswer, Unanswered
<1> QED
  BY <1>1, <1>3, <1>4, <1>5, <1>6 DEF Answer

LEMMA StoreTypes ==
  ASSUME StageInv, NEW w \in Workers, Store(w)
  PROVE  StageInv'
<1> SUFFICES ItemTypes' /\ SharedTypes' /\ OnStage' /\ Cycle'
  BY Together DEF StageInv, ItemTypes, SharedTypes, TypeOK
<1>0. seen \in [Workers -> BOOLEAN] /\ got \in [Workers -> {"evidence", "full"}]
  BY DEF StageInv, TypeOK
<1>1. CASE LookRaises(w)
  <2>1. PICK sess \in AfterFailedRead(w) : Finish(w, "failed", sess)
    BY <1>1 DEF LookRaises
  <2> QED
    BY <1>1, <2>1, ReadTypes, FinishTypes, SharedStays DEF LookRaises
<1>2. CASE Look(w)
  <2>1. seen' \in [Workers -> BOOLEAN] /\ UNCHANGED <<shared, late, signals, try, got>>
    BY <1>0, <1>2 DEF Look, shared
  <2>2. Goto(w, "write") /\ at[w] = "look" /\ "write" \in Steps \ {"gate", "pick"}
    BY <1>2 DEF Look, Steps
  <2> QED
    BY <2>1, <2>2, GotoTypes, SharedStays
<1>3. CASE ForecastIsThere(w)
  BY <1>3, FinishTypes, SharedStays DEF ForecastIsThere
<1>4. ASSUME at[w] \notin {"gate", "pick"}, NEW v \in {"absent", "evidence", "full"},
             table' = [table EXCEPT ![item[w]] = v], UNCHANGED <<logged, month, late>>
      PROVE  SharedTypes'
  BY <1>4 DEF SharedTypes, StageInv, TypeOK
<1>5. ASSUME NEW kind, Write(w, kind)
      PROVE  ItemTypes' /\ SharedTypes' /\ OnStage' /\ Cycle'
  <2>1. got[w] \in {"absent", "evidence", "full"} /\ at[w] = "write"
    BY <1>0, <1>5 DEF Write
  <2> QED
    BY <1>4, <1>5, <2>1, FinishTypes DEF Write
<1>6. CASE WriteFails(w)
  BY <1>6, FinishTypes, SharedStays DEF WriteFails
<1>7. CASE DeleteSnapshot(w)
  <2>1. SharedTypes'
    BY <1>4, <1>7 DEF DeleteSnapshot
  <2>2. Goto(w, "reinsert") /\ UNCHANGED <<signals, try, got, seen>> /\ at[w] = "write"
    BY <1>7 DEF DeleteSnapshot
  <2> QED
    BY <1>0, <2>1, <2>2, GotoTypes DEF Steps
<1>8. CASE InsertSnapshot(w)
  BY <1>4, <1>8, FinishTypes DEF InsertSnapshot
<1>9. CASE InsertFails(w)
  BY <1>9, FinishTypes, SharedStays DEF InsertFails
<1> QED
  BY <1>1, <1>2, <1>3, <1>5, <1>6, <1>7, <1>8, <1>9
     DEF Store, WriteRoundup, WriteTitle, WriteForecast, WriteCutter, WriteDesigner, WritePattern

LEMMA StageStep == StageInv /\ [Next]_vars => StageInv'
<1> SUFFICES ASSUME StageInv, [Next]_vars PROVE StageInv'
  OBVIOUS
<1> USE ProductAssumption, StageCount
<1>1. ASSUME NEW w \in Workers, BeginCron(w) PROVE StageInv'
  <2>1. TypeOK'
    <3>1. PICK j \in CronJobs : job' = [job EXCEPT ![w] = j]
      BY <1>1 DEF BeginCron
    <3>2. job' \in [Workers -> Jobs] /\ at' \in [Workers -> Steps]
      BY <1>1, <3>1 DEF BeginCron, StageInv, TypeOK, Steps, Jobs
    <3>3. stage' \in [Workers -> 1..Len(CronStages) + 1] /\ cut' \in 0..Months
      BY <1>1 DEF BeginCron, StageInv, TypeOK
    <3>4. blind' \in BOOLEAN /\ late' \subseteq 1..Len(CronStages) + 1
      BY <1>1 DEF BeginCron
    <3> QED
      BY <1>1, <3>2, <3>3, <3>4 DEF BeginCron, shared, StageInv, TypeOK
  <2>2. OnStage' /\ Cycle'
    BY <1>1 DEF BeginCron, StageInv, TypeOK, OnStage, Cycle, InCron
  <2> QED
    BY <2>1, <2>2 DEF StageInv
<1>2. ASSUME NEW w \in Workers, BeginRequest(w) PROVE StageInv'
  <2>1. TypeOK'
    BY <1>2 DEF BeginRequest, shared, observers, StageInv, TypeOK, Steps, Jobs
  <2>2. OnStage' /\ Cycle'
    BY <1>2 DEF BeginRequest, StageInv, TypeOK, OnStage, Cycle, InCron, CronJobs
  <2> QED
    BY <2>1, <2>2 DEF StageInv
<1>3. ASSUME NEW w \in Workers, Gate(w) \/ Prepare(w) \/ Answer(w) \/ Store(w) PROVE StageInv'
  BY <1>3, GateTypes, PrepareTypes, AnswerTypes, StoreTypes
<1>4. ASSUME NEW w \in Workers, Crash(w) PROVE StageInv'
  BY <1>4, OverTypes, LateForgotten, Together DEF Crash, StageInv, TypeOK, ItemTypes, SharedTypes
<1>5. CASE NewMonth
  <2>1. TypeOK'
    BY <1>5 DEF NewMonth, progress, StageInv, TypeOK
  <2>2. OnStage' /\ Cycle'
    BY <1>5 DEF NewMonth, progress, StageInv, OnStage, Cycle, InCron
  <2> QED
    BY <2>1, <2>2 DEF StageInv
<1>6. CASE UNCHANGED vars
  BY <1>6 DEF vars, shared, progress, observers, StageInv, TypeOK, OnStage, Cycle, InCron
<1> QED
  BY <1>1, <1>2, <1>3, <1>4, <1>5, <1>6 DEF Next

LEMMA StageInitial == Init => StageInv
<1> SUFFICES ASSUME Init PROVE StageInv
  OBVIOUS
<1> USE ProductAssumption, StageCount, SomeItemIsOne
<1>1. TypeOK
  <2> USE DEF Init
  <2>1. table \in [Items -> {"absent", "evidence", "full"}] /\ logged \in 0..Cap /\ month \in 1..Months
    OBVIOUS
  <2>2. job \in [Workers -> Jobs] /\ at \in [Workers -> Steps]
    BY DEF Jobs, Steps
  <2>3. stage \in [Workers -> 1..Len(CronStages) + 1] /\ try \in [Workers -> 1..2]
    OBVIOUS
  <2>4. cut \in 0..Months /\ late \subseteq 1..Len(CronStages) + 1
    OBVIOUS
  <2>6. blind \in BOOLEAN
    BY Zenon
  <2>5. seen \in [Workers -> BOOLEAN]
    OBVIOUS
  <2> QED
    BY <2>1, <2>2, <2>3, <2>4, <2>5, <2>6 DEF TypeOK
<1>2. OnStage /\ Cycle
  BY DEF Init, OnStage, Cycle, InCron, CronJobs
<1> QED
  BY <1>1, <1>2 DEF StageInv

\* Every reachable state has its type.
THEOREM TypeCorrect == Spec => []TypeOK
<1>1. StageInv => TypeOK
  BY DEF StageInv
<1> QED
  BY <1>1, StageInitial, StageStep, PTL DEF Spec

---------------------------------------------------------------------------------
(* The cap.  CapHolds is not inductive: a run that has seen its cap closed, or that paid     *)
(* past it, goes on to the gate of the next stage, and what keeps that gate closed is that   *)
(* the month's sum does not shrink.                                                         *)

OneRun == \A v, w \in Workers : InCron(v) /\ InCron(w) => v = w
RunAtWork == \A w \in Workers : InCron(w) => at[w] # "idle"
\* What closed a gate in this month, or made a stage a late one, is still so.
SumStands == cut <= month /\ (cut = month \/ late # {} => logged = Cap)
\* Behind a closed gate, and behind the late stage, the run is at a gate or in a stage whose
\* look failed.
NothingAfter(w) ==
    /\ cut = month => stage[w] >= 2 /\ (at[w] = "gate" \/ blind)
    /\ \A s \in late : s <= stage[w] /\ (s = stage[w] \/ at[w] = "gate" \/ blind)
RunsBehind == \A w \in Workers : InCron(w) => NothingAfter(w)
CapInv == OneRun /\ RunAtWork /\ SumStands /\ OneOvershoots /\ RunsBehind

LEMMA CapInvHolds == CapInv => CapHolds
  BY DEF CapInv, RunsBehind, NothingAfter, CapHolds, CutIsFinal

\* From the second stage on every stage looks at the cap.
LEMMA LaterStagesLook ==
  ASSUME NEW n \in 2..6 PROVE CronStages[n] \in CapChecked
  BY DEF CronStages, CapChecked, Kinds

\* What a step of w leaves alone in the other workers.
Rests(v) == /\ job'[v] = job[v] /\ at'[v] = at[v] /\ session'[v] = session[v]
            /\ stage'[v] = stage[v] /\ item'[v] = item[v] /\ got'[v] = got[v]
            /\ signals'[v] = signals[v]
OthersRest(w) == \A v \in Workers \ {w} : Rests(v)

LEMMA EndsAlone ==
  ASSUME StageInv, NEW w \in Workers
  PROVE  /\ Over(w) => OthersRest(w)
         /\ \A c, s : Finish(w, c, s) => OthersRest(w)
         /\ \A s : Goto(w, s) /\ (UNCHANGED got \/ got' = [got EXCEPT ![w] = "evidence"])
                   /\ (UNCHANGED signals \/ signals' = [signals EXCEPT ![w] = Forecasts])
                   => OthersRest(w)
         /\ NextStage(w) => OthersRest(w)
<1>1. Over(w) => OthersRest(w)
  BY DEF Over, FreshItem, StageInv, TypeOK, OthersRest, Rests
<1>2. ASSUME NEW c, NEW s, Finish(w, c, s) PROVE OthersRest(w)
  BY <1>1, <1>2 DEF Finish, FreshItem, StageInv, TypeOK, OthersRest, Rests
<1>3. ASSUME NEW s, Goto(w, s), UNCHANGED got \/ got' = [got EXCEPT ![w] = "evidence"],
             UNCHANGED signals \/ signals' = [signals EXCEPT ![w] = Forecasts]
      PROVE OthersRest(w)
  BY <1>3 DEF Goto, StageInv, TypeOK, OthersRest, Rests
<1>4. NextStage(w) => OthersRest(w)
  BY DEF NextStage, StageInv, TypeOK, OthersRest, Rests
<1> QED
  BY <1>1, <1>2, <1>3, <1>4

\* A step of one worker leaves the others, the month, and a full month's sum alone.
Step(w) == Gate(w) \/ Prepare(w) \/ Answer(w) \/ Store(w) \/ Crash(w)
LEMMA WorksAlone ==
  ASSUME StageInv, NEW w \in Workers, Step(w)
  PROVE  OthersRest(w) /\ month' = month /\ (logged = Cap => logged' = Cap)
<1>1. CASE Gate(w)
  <2>1. CASE RunEnds(w)
    BY <2>1, EndsAlone DEF RunEnds, shared
  <2>2. CASE NextStage(w)
    BY <2>2, EndsAlone DEF NextStage, shared
  <2>3. ASSUME EnterStage(w), UNCHANGED session \/ GateBlind(w)
        PROVE  OthersRest(w) /\ month' = month /\ (logged = Cap => logged' = Cap)
    BY <2>3 DEF EnterStage, GateBlind, shared, StageInv, TypeOK, OthersRest, Rests
  <2>4. CASE Pick(w)
    BY <2>4 DEF Pick, shared, StageInv, TypeOK, OthersRest, Rests
  <2> QED
    BY <1>1, <2>1, <2>2, <2>3, <2>4 DEF Gate, StageOff, GateCloses, GateOpens, GateBlind, StageEnds
<1>2. CASE Prepare(w)
  <2>1. CASE PreCheckHit(w) \/ PreCheckMiss(w) \/ PreCheckRaises(w)
    BY <2>1, EndsAlone DEF PreCheckHit, PreCheckMiss, PreCheckRaises, shared
  <2>2. ASSUME NEW k, NEW s, Gathered(w, k, s)
        PROVE  OthersRest(w) /\ month' = month /\ (logged = Cap => logged' = Cap)
    BY <2>2, EndsAlone DEF Gathered, Proceed, shared
  <2>3. CASE GatherRoundup(w) \/ GatherTitle(w) \/ GatherSnapshot(w) \/ GatherPattern(w)
    BY <2>2, <2>3 DEF GatherRoundup, GatherTitle, GatherSnapshot, GatherPattern
  <2>4. CASE GatherRaises(w) \/ GatherForecast(w)
    BY <2>2, <2>4, EndsAlone DEF GatherRaises, GatherForecast, shared
  <2>5. CASE GatherWeekly(w) \/ SignalsRead(w)
    BY <2>5, EndsAlone DEF GatherWeekly, SignalsRead, Proceed, shared
  <2>6. CASE Signal(w)
    <3>1. OthersRest(w)
      BY <2>6 DEF Signal, StageInv, TypeOK, OthersRest, Rests
    <3>2. CASE UNCHANGED shared
      BY <3>1, <3>2 DEF shared
    <3>3. CASE Pay(w, 1)
      BY <3>1, <3>3, Booked DEF Pay, StageInv
    <3> QED
      BY <2>6, <3>2, <3>3 DEF Signal
  <2> QED
    BY <1>2, <2>1, <2>3, <2>4, <2>5, <2>6 DEF Prepare
<1>3. CASE Answer(w)
  <2>1. ASSUME Answered(w) PROVE month' = month /\ (logged = Cap => logged' = Cap)
    <3>1. PICK n \in 1..CallMax(KindAt(w)) : Pay(w, n)
      BY <2>1 DEF Answered
    <3>2. n \in Nat
      BY <3>1, ProductAssumption DEF CallMax
    <3> QED
      BY <3>1, <3>2, Booked DEF Pay, StageInv
  <2>2. CASE CallRaises(w)
    BY <2>2, EndsAlone DEF CallRaises, shared
  <2>3. CASE CallUsable(w) \/ TryAgain(w) \/ EvidenceOnly(w)
    BY <2>1, <2>3, EndsAlone DEF CallUsable, TryAgain, EvidenceOnly
  <2>4. CASE NoAnswer(w)
    BY <2>1, <2>4, EndsAlone DEF NoAnswer
  <2> QED
    BY <1>3, <2>2, <2>3, <2>4 DEF Answer
<1>4. CASE Store(w)
  <2>1. CASE LookRaises(w) \/ ForecastIsThere(w) \/ WriteFails(w) \/ InsertFails(w)
    BY <2>1, EndsAlone DEF LookRaises, ForecastIsThere, WriteFails, InsertFails, shared
  <2>2. CASE Look(w) \/ DeleteSnapshot(w)
    BY <2>2, EndsAlone DEF Look, DeleteSnapshot, shared
  <2>3. ASSUME NEW k, Write(w, k)
        PROVE  OthersRest(w) /\ month' = month /\ (logged = Cap => logged' = Cap)
    BY <2>3, EndsAlone DEF Write
  <2>4. CASE InsertSnapshot(w)
    BY <2>4, EndsAlone DEF InsertSnapshot
  <2> QED
    BY <1>4, <2>1, <2>2, <2>3, <2>4
       DEF Store, WriteRoundup, WriteTitle, WriteForecast, WriteCutter, WriteDesigner, WritePattern
<1>5. CASE Crash(w)
  BY <1>5, EndsAlone DEF Crash, shared
<1> QED
  BY <1>1, <1>2, <1>3, <1>4, <1>5 DEF Step

\* A step leaves the late stages alone, except that a run that ends forgets them and one that
\* pays past the cap, in a stage that was opened by a look, adds its stage.
Overshoots(w) ==
    /\ InCron(w) /\ at[w] # "gate" /\ ~blind /\ logged = Cap
    /\ late' = late \cup {stage[w]}
LEMMA LateMoves ==
  ASSUME StageInv, NEW w \in Workers, Step(w)
  PROVE  \/ late' = late
         \/ InCron(w) /\ late' = {}
         \/ Overshoots(w)
<1>1. ASSUME NEW n, Pay(w, n), at[w] # "gate" PROVE late' = late \/ Overshoots(w)
  BY <1>1, ProductAssumption DEF Pay, CapReached, Overshoots, StageInv, TypeOK
<1>2. ForgetLate(w) => late' = late \/ (InCron(w) /\ late' = {})
  BY DEF ForgetLate
<1>3. CASE Gate(w)
  BY <1>2, <1>3 DEF Gate, RunEnds, StageOff, GateCloses, GateOpens, GateBlind, Pick, StageEnds,
       NextStage, EnterStage, observers
<1>4. CASE Prepare(w)
  BY <1>1, <1>2, <1>4 DEF Prepare, PreCheckHit, PreCheckMiss, PreCheckRaises, GatherRaises,
       GatherRoundup, GatherTitle, GatherSnapshot, GatherPattern, GatherForecast, GatherWeekly,
       Gathered, Proceed, Signal, SignalsRead
<1>5. CASE Answer(w)
  BY <1>1, <1>5 DEF Answer, CallRaises, CallUsable, TryAgain, EvidenceOnly, NoAnswer, Answered
<1>6. CASE Store(w)
  BY <1>6 DEF Store, LookRaises, Look, ForecastIsThere, WriteFails, WriteRoundup, WriteTitle,
       WriteForecast, WriteCutter, WriteDesigner, WritePattern, Write, DeleteSnapshot,
       InsertSnapshot, InsertFails
<1>7. CASE Crash(w)
  BY <1>2, <1>7 DEF Crash
<1> QED
  BY <1>3, <1>4, <1>5, <1>6, <1>7 DEF Step

\* A worker that is not the run changes nothing of what the run is judged by.
LEMMA RequestKeepsCap ==
  ASSUME StageInv, CapInv, NEW w \in Workers, OthersRest(w), ~InCron(w), ~InCron(w)',
         UNCHANGED <<cut, late, blind, month>>, logged = Cap => logged' = Cap
  PROVE  CapInv'
<1>1. \A v \in Workers : InCron(v)' => /\ v # w /\ InCron(v) /\ at'[v] = at[v]
                                       /\ stage'[v] = stage[v]
  BY DEF OthersRest, Rests, InCron
<1> QED
  BY <1>1 DEF CapInv, OneRun, RunAtWork, SumStands, OneOvershoots, RunsBehind, NothingAfter

\* For the run itself it is enough to look at its own step.
RunFine(w) ==
    /\ InCron(w) => at[w] # "idle" /\ NothingAfter(w)
    /\ SumStands /\ OneOvershoots
LEMMA RunKeepsCap ==
  ASSUME StageInv, CapInv, NEW w \in Workers, OthersRest(w), InCron(w), RunFine(w)'
  PROVE  CapInv'
<1>1. \A v \in Workers : InCron(v)' => v = w
  BY DEF OthersRest, Rests, InCron, CapInv, OneRun
<1> QED
  BY <1>1 DEF CapInv, OneRun, RunAtWork, RunsBehind, RunFine

\* The end of a run or an item, and every step inside a stage, seen from the cap.
LEMMA EndsFine ==
  ASSUME StageInv, CapInv, NEW w \in Workers, InCron(w), month' = month,
         logged = Cap => logged' = Cap
  PROVE  /\ Over(w) /\ ForgetLate(w) => RunFine(w)'
         /\ /\ at[w] # "gate" /\ (late' = late \/ late' = {} \/ Overshoots(w))
            /\ \/ \E c, s : Finish(w, c, s)
               \/ \E s \in Steps \ {"idle"} : Goto(w, s)
               \/ at'[w] # "idle" /\ UNCHANGED <<job, stage, cut, blind>>
            => RunFine(w)'
<1>0. /\ month \in Nat \ {0} /\ NothingAfter(w) /\ SumStands /\ OneOvershoots
      /\ stage[w] \in Nat /\ late \subseteq 1..Len(CronStages) + 1
  BY ProductAssumption, StageCount DEF CapInv, RunsBehind, StageInv, TypeOK
<1>1. ASSUME Over(w), ForgetLate(w) PROVE RunFine(w)'
  <2>1. ~InCron(w)' /\ cut' = 0 /\ late' = {}
    BY <1>1 DEF Over, ForgetLate, InCron, CronJobs, StageInv, TypeOK
  <2> QED
    BY <1>0, <2>1 DEF RunFine, SumStands, OneOvershoots
<1>2. ASSUME at[w] # "gate", late' = late \/ late' = {} \/ Overshoots(w),
             at'[w] # "idle", UNCHANGED <<job, stage, cut, blind>>
      PROVE  RunFine(w)'
  <2>1. CASE late' = late \/ late' = {}
    BY <1>0, <1>2, <2>1 DEF RunFine, NothingAfter, SumStands, OneOvershoots
  <2>2. CASE Overshoots(w)
    <3>1. \A s \in late' : s = stage[w]
      BY <1>0, <1>2, <2>2 DEF Overshoots, NothingAfter
    <3>2. logged = Cap /\ logged' = Cap
      BY <2>2 DEF Overshoots
    <3> QED
      BY <1>0, <1>2, <3>1, <3>2 DEF RunFine, NothingAfter, SumStands, OneOvershoots
  <2> QED
    BY <1>2, <2>1, <2>2
<1>3. ASSUME NEW c, NEW s, Finish(w, c, s)
      PROVE  at'[w] # "idle" /\ UNCHANGED <<job, stage, cut, blind>>
  BY <1>3 DEF Finish, StageInv, TypeOK
<1>4. ASSUME NEW s \in Steps \ {"idle"}, Goto(w, s)
      PROVE  at'[w] # "idle" /\ UNCHANGED <<job, stage, cut, blind>>
  BY <1>4 DEF Goto, StageInv, TypeOK
<1> QED
  BY <1>1, <1>2, <1>3, <1>4

\* The gates, seen from the cap.
LEMMA GateFine ==
  ASSUME StageInv, CapInv, NEW w \in Workers, InCron(w), Gate(w)
  PROVE  RunFine(w)'
<1>0. /\ month \in Nat \ {0} /\ NothingAfter(w) /\ SumStands /\ OneOvershoots /\ at[w] # "idle"
      /\ stage[w] \in Nat \ {0} /\ stage \in [Workers -> 1..7] /\ at \in [Workers -> Steps]
      /\ late \subseteq 1..7
  BY ProductAssumption, StageCount DEF CapInv, RunsBehind, RunAtWork, StageInv, TypeOK
<1>1. CASE RunEnds(w)
  <2>1. Over(w) /\ ForgetLate(w) /\ UNCHANGED shared
    BY <1>1 DEF RunEnds
  <2> QED
    BY <2>1, EndsFine DEF shared
<1>2. ASSUME NextStage(w), stage[w] <= 6, cut' = cut \/ (cut' = month /\ logged = Cap /\ stage[w] >= 2)
      PROVE  RunFine(w)'
  <2>1. /\ stage'[w] = stage[w] + 1 /\ at'[w] = "gate" /\ UNCHANGED <<logged, month, late>>
    BY <1>0, <1>2 DEF NextStage, shared
  <2> QED
    BY <1>0, <1>2, <2>1 DEF RunFine, NothingAfter, SumStands, OneOvershoots
<1>3. CASE StageOff(w) \/ StageEnds(w)
  <2>1. NextStage(w) /\ stage[w] <= 6 /\ cut' = cut
    BY <1>3, StageCount DEF StageOff, StageEnds, AtGate, StageInv, OnStage
  <2> QED
    BY <1>2, <2>1
<1>4. CASE GateCloses(w)
  <2>1. stage[w] # 1
    BY <1>4 DEF GateCloses, StageKind, CronStages, CapChecked
  <2>2. logged = Cap
    BY <1>4, ProductAssumption DEF GateCloses, CapReached, StageInv, TypeOK
  <2>3. NextStage(w) /\ stage[w] <= 6 /\ cut' = month
    BY <1>4, StageCount DEF GateCloses, AtGate
  <2> QED
    BY <1>0, <1>2, <2>1, <2>2, <2>3
<1>5. ASSUME EnterStage(w), AtGate(w)
      PROVE  /\ at'[w] = "pick" /\ stage' = stage /\ stage[w] \in 1..6
             /\ UNCHANGED <<logged, month, cut, late, job>>
  BY <1>0, <1>5, StageCount DEF EnterStage, AtGate, shared
<1>6. CASE GateOpens(w)
  <2>1. EnterStage(w) /\ AtGate(w) /\ blind' = blind
    BY <1>6 DEF GateOpens
  <2>2. CASE stage[w] = 1
    <3>1. cut # month /\ \A s \in late : s = 1
      BY <1>0, <2>2 DEF NothingAfter
    <3> QED
      BY <1>0, <1>5, <2>1, <2>2, <3>1 DEF RunFine, NothingAfter, SumStands, OneOvershoots
  <2>3. CASE stage[w] \in 2..6
    <3>1. StageKind(w) \in CapChecked
      BY <2>3, LaterStagesLook DEF StageKind
    <3>2. logged # Cap
      BY <1>6, <3>1, ProductAssumption DEF GateOpens, CapReached
    <3>3. cut # month /\ late = {}
      BY <1>0, <3>2 DEF SumStands
    <3> QED
      BY <1>0, <1>5, <2>1, <3>3 DEF RunFine, NothingAfter, SumStands, OneOvershoots
  <2> QED
    BY <1>5, <2>1, <2>2, <2>3
<1>7. CASE GateBlind(w)
  <2>1. EnterStage(w) /\ AtGate(w) /\ blind' = TRUE
    BY <1>7 DEF GateBlind
  <2> QED
    BY <1>0, <1>5, <2>1 DEF RunFine, NothingAfter, SumStands, OneOvershoots
<1>8. CASE Pick(w)
  <2>1. /\ at[w] = "pick" /\ at'[w] \in {"precheck", "gather"}
        /\ UNCHANGED <<shared, job, stage, observers>>
    BY <1>0, <1>8 DEF Pick
  <2> QED
    BY <1>0, <2>1 DEF RunFine, NothingAfter, SumStands, OneOvershoots, shared, observers
<1> QED
  BY <1>1, <1>3, <1>4, <1>6, <1>7, <1>8 DEF Gate

LEMMA CapStep ==
  ASSUME StageInv, CapInv, NEW w \in Workers, Step(w)
  PROVE  CapInv'
<1>0. OthersRest(w) /\ month' = month /\ (logged = Cap => logged' = Cap)
  BY WorksAlone
<1>00. late' = late \/ (InCron(w) /\ late' = {}) \/ Overshoots(w)
  BY LateMoves
<1>1. CASE ~InCron(w)
  <2>1. ASSUME Over(w) PROVE ~InCron(w)' /\ UNCHANGED <<cut, blind>>
    BY <1>1, <2>1 DEF Over, InCron, CronJobs, StageInv, TypeOK
  <2>2. ASSUME NEW c, NEW s, Finish(w, c, s) PROVE ~InCron(w)' /\ UNCHANGED <<cut, blind>>
    BY <1>1, <2>1, <2>2 DEF Finish
  <2>3. ASSUME NEW s, Goto(w, s) PROVE ~InCron(w)' /\ UNCHANGED <<cut, blind>>
    BY <1>1, <2>3 DEF Goto, InCron
  <2>4. ~InCron(w)' /\ UNCHANGED <<cut, blind>>
    <3>1. CASE Gate(w)
      BY <1>1, <3>1 DEF Gate, RunEnds, StageOff, GateCloses, GateOpens, GateBlind, Pick,
           StageEnds, AtGate, StageInv, Cycle
    <3>2. CASE Signal(w)
      BY <1>1, <3>2 DEF Signal, InCron
    <3>3. CASE Prepare(w) /\ ~Signal(w)
      BY <2>1, <2>2, <2>3, <3>3 DEF Prepare, PreCheckHit, PreCheckMiss, PreCheckRaises,
         GatherRaises, GatherRoundup, GatherTitle, GatherSnapshot, GatherPattern,
         GatherForecast, GatherWeekly, Gathered, SignalsRead, Proceed
    <3>4. CASE Answer(w)
      BY <2>2, <2>3, <3>4 DEF Answer, CallRaises, CallUsable, TryAgain, EvidenceOnly, NoAnswer
    <3>5. CASE Store(w)
      BY <2>2, <2>3, <3>5 DEF Store, LookRaises, Look, ForecastIsThere, WriteFails,
         WriteRoundup, WriteTitle, WriteForecast, WriteCutter, WriteDesigner, WritePattern,
         Write, DeleteSnapshot, InsertSnapshot, InsertFails
    <3>6. CASE Crash(w)
      BY <2>1, <3>6 DEF Crash
    <3> QED
      BY <3>1, <3>2, <3>3, <3>4, <3>5, <3>6 DEF Step
  <2>5. late' = late
    BY <1>00, <1>1 DEF Overshoots
  <2> QED
    BY <1>0, <1>1, <2>4, <2>5, RequestKeepsCap
<1>2. CASE InCron(w)
  <2> SUFFICES RunFine(w)'
    BY <1>0, <1>2, RunKeepsCap
  <2> DEFINE Moves == \/ \E c, s : Finish(w, c, s)
                      \/ \E s \in Steps \ {"idle"} : Goto(w, s)
                      \/ at'[w] # "idle" /\ UNCHANGED <<job, stage, cut, blind>>
  <2>0. at[w] # "gate" /\ Moves => RunFine(w)'
    BY <1>0, <1>00, <1>2, EndsFine
  <2>1. CASE Gate(w)
    BY <1>2, <2>1, GateFine
  <2>2. CASE PreCheckRaises(w) \/ Crash(w)
    BY <1>0, <1>2, <2>2, EndsFine DEF PreCheckRaises, Crash
  <2>3. CASE Signal(w)
    <3>1. at[w] = "signals" /\ UNCHANGED <<job, stage, cut, blind, at>>
      BY <2>3 DEF Signal
    <3> QED
      BY <2>0, <3>1
  <2>4. CASE Prepare(w) /\ ~PreCheckRaises(w) /\ ~Signal(w)
    <3>1. at[w] # "gate"
      BY <2>4 DEF Prepare, PreCheckHit, PreCheckMiss, GatherRaises, GatherRoundup, GatherTitle,
           GatherSnapshot, GatherPattern, GatherForecast, GatherWeekly, Gathered, SignalsRead
    <3>2. (\E c, s : Finish(w, c, s)) \/ \E s \in Steps \ {"idle"} : Goto(w, s)
      BY <2>4 DEF Prepare, PreCheckHit, PreCheckMiss, GatherRaises, GatherRoundup, GatherTitle,
           GatherSnapshot, GatherPattern, GatherForecast, GatherWeekly, Gathered, SignalsRead,
           Proceed, Steps
    <3> QED
      BY <2>0, <3>1, <3>2
  <2>5. CASE Answer(w)
    <3>1. at[w] # "gate"
      BY <2>5 DEF Answer, CallRaises, CallUsable, TryAgain, EvidenceOnly, NoAnswer, Answered
    <3>2. (\E c, s : Finish(w, c, s)) \/ \E s \in Steps \ {"idle"} : Goto(w, s)
      BY <2>5 DEF Answer, CallRaises, CallUsable, TryAgain, EvidenceOnly, NoAnswer, Steps
    <3> QED
      BY <2>0, <3>1, <3>2
  <2>6. CASE Store(w)
    <3>1. at[w] # "gate"
      BY <2>6 DEF Store, LookRaises, Look, ForecastIsThere, WriteFails, WriteRoundup,
           WriteTitle, WriteForecast, WriteCutter, WriteDesigner, WritePattern, Write,
           DeleteSnapshot, InsertSnapshot, InsertFails
    <3>2. (\E c, s : Finish(w, c, s)) \/ \E s \in Steps \ {"idle"} : Goto(w, s)
      BY <2>6 DEF Store, LookRaises, Look, ForecastIsThere, WriteFails, WriteRoundup,
           WriteTitle, WriteForecast, WriteCutter, WriteDesigner, WritePattern, Write,
           DeleteSnapshot, InsertSnapshot, InsertFails, Steps
    <3> QED
      BY <2>0, <3>1, <3>2
  <2> QED
    BY <2>1, <2>2, <2>3, <2>4, <2>5, <2>6 DEF Step
<1> QED
  BY <1>1, <1>2

LEMMA CapInitial == Init => CapInv
<1> SUFFICES ASSUME Init PROVE CapInv
  OBVIOUS
<1>1. \A w \in Workers : ~InCron(w)
  BY DEF Init, InCron, CronJobs
<1> QED
  BY <1>1 DEF Init, CapInv, OneRun, RunAtWork, SumStands, OneOvershoots, RunsBehind, NothingAfter

LEMMA CapNext == StageInv /\ CapInv /\ [Next]_vars => CapInv'
<1> SUFFICES ASSUME StageInv, CapInv, [Next]_vars PROVE CapInv'
  OBVIOUS
<1>1. ASSUME NEW w \in Workers, BeginCron(w) PROVE CapInv'
  <2>1. \A v \in Workers : ~InCron(v)
    BY <1>1 DEF BeginCron, CapInv, RunAtWork
  <2>2. \A v \in Workers : InCron(v)' => v = w
    BY <1>1, <2>1 DEF BeginCron, InCron, StageInv, TypeOK
  <2>3. at'[w] = "gate" /\ cut' = 0 /\ late' = {} /\ UNCHANGED <<month, logged>>
    BY <1>1 DEF BeginCron, shared, StageInv, TypeOK
  <2>4. month \in Nat /\ month > 0
    BY ProductAssumption DEF StageInv, TypeOK
  <2> QED
    BY <2>2, <2>3, <2>4 DEF CapInv, OneRun, RunAtWork, SumStands, OneOvershoots, RunsBehind, NothingAfter
<1>2. ASSUME NEW w \in Workers, BeginRequest(w) PROVE CapInv'
  <2>1. ~InCron(w) /\ ~InCron(w)'
    BY <1>2 DEF BeginRequest, CapInv, RunAtWork, InCron, CronJobs, StageInv, TypeOK
  <2>2. OthersRest(w) /\ UNCHANGED <<cut, late, blind, month, logged>>
    BY <1>2 DEF BeginRequest, shared, observers, StageInv, TypeOK, OthersRest, Rests
  <2> QED
    BY <2>1, <2>2, RequestKeepsCap
<1>3. ASSUME NEW w \in Workers, Step(w) PROVE CapInv'
  BY <1>3, CapStep
<1>4. CASE NewMonth
  <2>1. month' = month + 1 /\ month \in Nat /\ cut \in Nat /\ cut' = cut /\ late' = {}
    BY <1>4, ProductAssumption DEF NewMonth, StageInv, TypeOK
  <2>2. UNCHANGED <<at, session, job, stage>>
    BY <1>4 DEF NewMonth, progress
  <2> QED
    BY <2>1, <2>2 DEF CapInv, OneRun, RunAtWork, SumStands, OneOvershoots, RunsBehind, NothingAfter, InCron
<1>5. CASE UNCHANGED vars
  BY <1>5 DEF vars, shared, progress, observers, CapInv, OneRun, RunAtWork, SumStands, OneOvershoots, RunsBehind,
              NothingAfter, InCron
<1> QED
  BY <1>1, <1>2, <1>3, <1>4, <1>5 DEF Next, Step

\* Once the cap has closed a stage of a run, no stage of it whose look succeeds pays in that
\* month; and if the cap is reached while a stage is under way, by whomever, that stage is
\* the only one of those to pay past it.
THEOREM OneStagePastTheCap == Spec => []CapHolds
  BY StageInitial, StageStep, CapInitial, CapNext, CapInvHolds, PTL DEF Spec

---------------------------------------------------------------------------------
(* The rows.  Who may write a row without a usable answer over a usable one: nobody can whose *)
(* look found the row, since the run alone writes the cutter's and the designer's.           *)

OnlyDemand == \A w \in Workers : ~InCron(w) /\ at[w] # "idle" => KindAt(w) \in OnDemand
EvidenceGot == \A w \in Workers : got[w] = "evidence" =>
                  at[w] \in {"look", "write"} /\ KindAt(w) \in KeepsEvidence
SignalsOfForecasts == \A w \in Workers : signals[w] \subseteq Forecasts
SnapshotsTwice == \A w \in Workers : at[w] = "reinsert" => KindAt(w) = "snapshot"
Past == {"gather", "signals", "call", "look", "write"}
FirstRow == \A w \in Workers :
               job[w] = "cron" /\ at[w] \in Past /\ KindAt(w) \in Weekly => table[item[w]] = "absent"
RowInv == OnlyDemand /\ EvidenceGot /\ SignalsOfForecasts /\ SnapshotsTwice /\ FirstRow

\* The row of a weekly briefing is nobody else's than the run's.
LEMMA WeeklyIsTheRuns == Weekly \cap OnDemand = {} /\ "snapshot" \notin Weekly \cup OnDemand
                         /\ "forecast" \notin Weekly \cup KeepsEvidence
  BY DEF Weekly, OnDemand, KeepsEvidence

\* The rows a step of w changes: the one it is at, or a forecast's.
Touched(w) == \A i \in Items : table'[i] # table[i] =>
                 \/ i \in Forecasts /\ table'[i] = "full"
                 \/ i = item[w] /\ at[w] \in {"write", "reinsert"}
\* What a step of w has to show for w itself.
RowsFine(w) ==
    /\ ~InCron(w) /\ at[w] # "idle" => KindAt(w) \in OnDemand
    /\ got[w] = "evidence" => at[w] \in {"look", "write"} /\ KindAt(w) \in KeepsEvidence
    /\ signals[w] \subseteq Forecasts
    /\ at[w] = "reinsert" => KindAt(w) = "snapshot"
    /\ job[w] = "cron" /\ at[w] \in Past /\ KindAt(w) \in Weekly => table[item[w]] = "absent"

LEMMA RowsFineEach == RowInv <=> \A w \in Workers : RowsFine(w)
  BY DEF RowInv, OnlyDemand, EvidenceGot, SignalsOfForecasts, SnapshotsTwice, FirstRow, RowsFine

LEMMA OthersKeepRows ==
  ASSUME StageInv, CapInv, RowInv, NEW w \in Workers, OthersRest(w), Touched(w), RowsFine(w)'
  PROVE  RowInv'
<1> SUFFICES ASSUME NEW v \in Workers, v # w PROVE RowsFine(v)'
  BY DEF RowInv, OnlyDemand, EvidenceGot, SignalsOfForecasts, SnapshotsTwice, FirstRow, RowsFine
<1>1. /\ job'[v] = job[v] /\ at'[v] = at[v] /\ item'[v] = item[v] /\ got'[v] = got[v]
      /\ signals'[v] = signals[v] /\ item[v] \in Items
  BY DEF OthersRest, Rests, StageInv, TypeOK
<1>2. RowsFine(v) /\ RowsFine(w)
  BY RowsFineEach
<1>3. ASSUME job[v] = "cron", at[v] \in Past, KindAt(v) \in Weekly
      PROVE  table'[item[v]] = table[item[v]]
  <2>1. InCron(v) /\ ~InCron(w)
    BY <1>3 DEF InCron, CronJobs, CapInv, OneRun
  <2>2. item[v] \notin Forecasts
    BY <1>3, WeeklyIsTheRuns DEF KindAt, Forecasts, ItemsOf
  <2>3. item[v] = item[w] => at[w] \notin {"write", "reinsert"}
    BY <1>2, <1>3, <2>1, WeeklyIsTheRuns DEF RowsFine, KindAt
  <2> QED
    BY <1>1, <2>2, <2>3 DEF Touched
<1> QED
  BY <1>1, <1>2, <1>3 DEF RowsFine, KindAt, InCron

\* The ends of an item and of a run leave w with nothing to show.
LEMMA EndsClean ==
  ASSUME StageInv, RowInv, NEW w \in Workers
  PROVE  /\ Over(w) => RowsFine(w)'
         /\ \A c, s : Finish(w, c, s) => RowsFine(w)'
<1>1. ASSUME Over(w) PROVE RowsFine(w)'
  BY <1>1 DEF Over, FreshItem, StageInv, TypeOK, RowsFine, InCron, CronJobs, Past
<1>2. ASSUME NEW c, NEW s, Finish(w, c, s) PROVE RowsFine(w)'
  <2>1. CASE InCron(w) /\ ~Over(w)
    BY <1>2, <2>1 DEF Finish, FreshItem, StageInv, TypeOK, RowsFine, InCron, Past
  <2> QED
    BY <1>1, <1>2, <2>1 DEF Finish
<1> QED
  BY <1>1, <1>2

\* Only a few steps touch a row at all.
LEMMA QuietRows == ASSUME NEW w \in Workers, UNCHANGED shared PROVE Touched(w)
  BY DEF shared, Touched

LEMMA GateRows ==
  ASSUME StageInv, RowInv, NEW w \in Workers, Gate(w)
  PROVE  Touched(w) /\ RowsFine(w)'
<1>0. RowsFine(w) /\ InCron(w) \in BOOLEAN
  BY RowsFineEach DEF InCron
<1>1. CASE RunEnds(w)
  BY <1>1, EndsClean, QuietRows DEF RunEnds
<1>2. CASE NextStage(w) /\ at[w] \in {"gate", "pick"}
  BY <1>0, <1>2, QuietRows DEF NextStage, StageInv, TypeOK, Cycle, RowsFine, InCron, Past
<1>3. CASE EnterStage(w) /\ AtGate(w)
  BY <1>0, <1>3, QuietRows DEF EnterStage, AtGate, StageInv, TypeOK, Cycle, RowsFine, InCron, Past
<1>4. CASE Pick(w)
  <2>1. PICK i \in left[w] :
          /\ item' = [item EXCEPT ![w] = i]
          /\ at' = [at EXCEPT ![w] = IF job[w] = "cron" /\ Kind[i] \notin {"snapshot", "forecast"}
                                     THEN "precheck" ELSE "gather"]
    BY <1>4 DEF Pick
  <2>2. got[w] # "evidence" /\ InCron(w) /\ UNCHANGED <<shared, job, signals, got>> /\ at[w] = "pick"
    BY <1>0, <1>4 DEF Pick, RowsFine, StageInv, Cycle
  <2> QED
    BY <1>0, <2>1, <2>2, WeeklyIsTheRuns, QuietRows
       DEF StageInv, TypeOK, RowsFine, InCron, Past, KindAt, Weekly
<1> QED
  BY <1>1, <1>2, <1>3, <1>4 DEF Gate, StageOff, StageEnds, GateCloses, GateOpens, GateBlind, AtGate

LEMMA PrepareRows ==
  ASSUME StageInv, RowInv, NEW w \in Workers, Prepare(w)
  PROVE  Touched(w) /\ RowsFine(w)'
<1>0. RowsFine(w)
  BY RowsFineEach
<1>1. CASE PreCheckHit(w) \/ PreCheckRaises(w) \/ GatherRaises(w)
  BY <1>1, EndsClean, QuietRows DEF PreCheckHit, PreCheckRaises, GatherRaises
<1>2. CASE PreCheckMiss(w)
  BY <1>0, <1>2, QuietRows DEF PreCheckMiss, Goto, shared, StageInv, TypeOK, RowsFine, InCron, KindAt
<1>3. ASSUME NEW step \in {"call", "look"}, at[w] \in {"gather", "signals"}, Proceed(w, step)
      PROVE  Touched(w) /\ RowsFine(w)'
  BY <1>0, <1>3, QuietRows
     DEF Proceed, Goto, shared, StageInv, TypeOK, RowsFine, InCron, KindAt, Past
<1>4. CASE GatherRoundup(w) \/ GatherTitle(w) \/ GatherSnapshot(w) \/ GatherPattern(w) \/ SignalsRead(w)
  BY <1>3, <1>4 DEF GatherRoundup, GatherTitle, GatherSnapshot, GatherPattern, SignalsRead, Gathered
<1>5. CASE GatherForecast(w)
  BY <1>3, <1>5, EndsClean, QuietRows DEF GatherForecast, Gathered
<1>6. CASE GatherWeekly(w)
  BY <1>0, <1>6, QuietRows
     DEF GatherWeekly, Goto, shared, StageInv, TypeOK, RowsFine, InCron, KindAt, Past
<1>7. CASE Signal(w)
  <2>1. PICK f \in signals[w] :
          /\ signals' = [signals EXCEPT ![w] = @ \ {f}]
          /\ table' = table \/ table' = [table EXCEPT ![f] = "full"]
    BY <1>7 DEF Signal, shared
  <2>2. /\ UNCHANGED <<job, item, at, got>> /\ signals'[w] \subseteq Forecasts
        /\ f \in Forecasts /\ at[w] = "signals" /\ item[w] \in Items
    BY <1>0, <1>7, <2>1 DEF Signal, RowsFine, StageInv, TypeOK
  <2>3. Touched(w)
    BY <2>1, <2>2 DEF Touched, StageInv, TypeOK
  <2>4. KindAt(w) \in Weekly => table'[item[w]] = table[item[w]]
    BY <2>1, <2>2, WeeklyIsTheRuns DEF KindAt, Forecasts, ItemsOf, StageInv, TypeOK
  <2> QED
    BY <1>0, <2>2, <2>3, <2>4 DEF RowsFine, InCron, KindAt
<1> QED
  BY <1>1, <1>2, <1>4, <1>5, <1>6, <1>7 DEF Prepare

LEMMA AnswerRows ==
  ASSUME StageInv, RowInv, NEW w \in Workers, Answer(w)
  PROVE  Touched(w) /\ RowsFine(w)'
<1>0. RowsFine(w)
  BY RowsFineEach
<1>1. UNCHANGED table
  BY DEF Answer, CallRaises, CallUsable, TryAgain, EvidenceOnly, NoAnswer, Answered, shared
<1>2. Touched(w)
  BY <1>1 DEF Touched
<1>3. CASE CallRaises(w) \/ NoAnswer(w)
  BY <1>2, <1>3, EndsClean DEF CallRaises, NoAnswer
<1>4. CASE CallUsable(w) \/ TryAgain(w) \/ EvidenceOnly(w)
  BY <1>0, <1>1, <1>2, <1>4
     DEF CallUsable, TryAgain, EvidenceOnly, Answered, Goto, StageInv, TypeOK, RowsFine, InCron,
         KindAt, Past
<1> QED
  BY <1>3, <1>4 DEF Answer

LEMMA StoreRows ==
  ASSUME StageInv, RowInv, NEW w \in Workers, Store(w)
  PROVE  Touched(w) /\ RowsFine(w)'
<1>0. RowsFine(w)
  BY RowsFineEach
<1>1. CASE LookRaises(w) \/ ForecastIsThere(w) \/ WriteFails(w) \/ InsertFails(w)
  BY <1>1, EndsClean, QuietRows DEF LookRaises, ForecastIsThere, WriteFails, InsertFails
<1>2. CASE Look(w)
  BY <1>0, <1>2, QuietRows DEF Look, Goto, shared, StageInv, TypeOK, RowsFine, InCron, KindAt, Past
<1>3. ASSUME at[w] \in {"write", "reinsert"}, NEW v, table' = [table EXCEPT ![item[w]] = v]
      PROVE  Touched(w)
  BY <1>3 DEF Touched, StageInv, TypeOK
<1>4. ASSUME NEW kind, Write(w, kind) PROVE Touched(w) /\ RowsFine(w)'
  BY <1>3, <1>4, EndsClean DEF Write
<1>5. CASE DeleteSnapshot(w)
  BY <1>0, <1>3, <1>5, WeeklyIsTheRuns
     DEF DeleteSnapshot, Goto, StageInv, TypeOK, RowsFine, InCron, KindAt, Past, KeepsEvidence
<1>6. CASE InsertSnapshot(w)
  BY <1>3, <1>6, EndsClean DEF InsertSnapshot
<1> QED
  BY <1>1, <1>2, <1>4, <1>5, <1>6
     DEF Store, WriteRoundup, WriteTitle, WriteForecast, WriteCutter, WriteDesigner, WritePattern

LEMMA RowStep ==
  ASSUME StageInv, CapInv, RowInv, NEW w \in Workers, Step(w)
  PROVE  RowInv'
<1>1. CASE Crash(w)
  BY <1>1, WorksAlone, EndsClean, QuietRows, OthersKeepRows DEF Crash
<1>2. CASE ~Crash(w)
  BY <1>2, WorksAlone, GateRows, PrepareRows, AnswerRows, StoreRows, OthersKeepRows DEF Step
<1> QED
  BY <1>1, <1>2

LEMMA RowNext == StageInv /\ CapInv /\ RowInv /\ [Next]_vars => RowInv'
<1> SUFFICES ASSUME StageInv, CapInv, RowInv, [Next]_vars PROVE RowInv'
  OBVIOUS
<1>1. ASSUME NEW w \in Workers, BeginCron(w) PROVE RowInv'
  <2>1. OthersRest(w)
    BY <1>1 DEF BeginCron, shared, StageInv, TypeOK, OthersRest, Rests
  <2>2. Touched(w)
    BY <1>1, QuietRows DEF BeginCron
  <2>3. RowsFine(w) /\ at[w] = "idle" /\ UNCHANGED <<signals, got>> /\ at' = [at EXCEPT ![w] = "gate"]
    BY <1>1, RowsFineEach DEF BeginCron
  <2>4. RowsFine(w)'
    BY <1>1, <2>3 DEF BeginCron, StageInv, TypeOK, RowsFine, InCron, Past
  <2> QED
    BY <2>1, <2>2, <2>4, OthersKeepRows
<1>2. ASSUME NEW w \in Workers, BeginRequest(w) PROVE RowInv'
  <2>1. OthersRest(w)
    BY <1>2 DEF BeginRequest, shared, StageInv, TypeOK, OthersRest, Rests
  <2>2. Touched(w)
    BY <1>2, QuietRows DEF BeginRequest
  <2>3. RowsFine(w) /\ at[w] = "idle" /\ UNCHANGED <<signals, got>>
    BY <1>2, RowsFineEach DEF BeginRequest
  <2>4. PICK i \in Items : /\ Kind[i] \in OnDemand /\ item' = [item EXCEPT ![w] = i]
                           /\ \E s \in {"precheck", "gather"} : at' = [at EXCEPT ![w] = s]
    BY <1>2 DEF BeginRequest
  <2>5. RowsFine(w)'
    BY <1>2, <2>3, <2>4 DEF BeginRequest, StageInv, TypeOK, RowsFine, InCron, CronJobs, Past, KindAt
  <2> QED
    BY <2>1, <2>2, <2>5, OthersKeepRows
<1>3. ASSUME NEW w \in Workers, Step(w) PROVE RowInv'
  BY <1>3, RowStep
<1>4. CASE NewMonth \/ UNCHANGED vars
  BY <1>4 DEF NewMonth, progress, vars, shared, RowInv, OnlyDemand, EvidenceGot,
              SignalsOfForecasts, SnapshotsTwice, FirstRow, InCron, KindAt
<1> QED
  BY <1>1, <1>2, <1>3, <1>4 DEF Next, Step

LEMMA RowInitial == Init => RowInv
  BY DEF Init, RowInv, OnlyDemand, EvidenceGot, SignalsOfForecasts, SnapshotsTwice, FirstRow,
         Past, KindAt

\* A usable row gives way to a weaker one only where its own worker may write it so.
LEMMA KeptStep ==
  ASSUME StageInv, CapInv, RowInv, [Next]_vars, NEW i \in Items,
         table[i] = "full", table'[i] # "full"
  PROVE  \/ Kind[i] \in {"pattern", "snapshot"}
         \/ \E w \in Workers : at[w] = "write" /\ item[w] = i /\ job[w] = "cron_force"
<1>1. PICK w \in Workers : Step(w)
  BY DEF Next, Step, BeginCron, BeginRequest, NewMonth, vars, shared
<1>2. Touched(w) /\ RowsFine(w)
  BY <1>1, GateRows, PrepareRows, AnswerRows, StoreRows, QuietRows, RowsFineEach DEF Step, Crash
<1>3. i = item[w] /\ at[w] \in {"write", "reinsert"}
  BY <1>2 DEF Touched
<1>4. ASSUME at[w] = "write", Kind[i] \notin {"pattern", "snapshot"}
      PROVE  job[w] = "cron_force"
  <2>1. got[w] = "evidence"
    BY <1>1, <1>3, <1>4
       DEF Step, Gate, RunEnds, StageOff, GateCloses, GateOpens, GateBlind, Pick, StageEnds, AtGate,
           Prepare, PreCheckHit, PreCheckMiss, PreCheckRaises, GatherRaises, GatherRoundup,
           GatherTitle, GatherSnapshot, GatherPattern, GatherForecast, GatherWeekly, Gathered,
           Signal, SignalsRead, Answer, CallRaises, CallUsable, TryAgain, EvidenceOnly, NoAnswer,
           Answered, Store, LookRaises, Look, ForecastIsThere, WriteRoundup, WriteTitle,
           WriteForecast, WriteCutter, WriteDesigner, WritePattern, Write, WriteFails,
           DeleteSnapshot, InsertSnapshot, InsertFails, KindAt, Crash, shared, StageInv, TypeOK
  <2>2. Kind[i] \in Weekly
    BY <1>2, <1>3, <1>4, <2>1 DEF RowsFine, KindAt, KeepsEvidence, Weekly
  <2>3. InCron(w) /\ job[w] # "cron"
    BY <1>2, <1>3, <1>4, <2>2, WeeklyIsTheRuns DEF RowsFine, KindAt, Past
  <2> QED
    BY <2>3 DEF InCron, CronJobs
<1>5. at[w] = "reinsert" => Kind[i] = "snapshot"
  BY <1>2, <1>3 DEF RowsFine, KindAt
<1> QED
  BY <1>3, <1>4, <1>5

\* No usable roundup, forecast, briefing or title brief is ever replaced by a failure, unless a
\* forced run makes its briefing anew.
THEOREM GoodRowsStay == Spec => GoodRowKept
<1>1. StageInv /\ CapInv /\ RowInv /\ [Next]_vars
        => [\A i \in Items :
              table[i] = "full" /\ table'[i] # "full" =>
                \/ Kind[i] \in {"pattern", "snapshot"}
                \/ \E w \in Workers : at[w] = "write" /\ item[w] = i /\ job[w] = "cron_force"]_vars
  BY KeptStep
<1> QED
  BY <1>1, StageInitial, StageStep, CapInitial, CapNext, RowInitial, RowNext, PTL
     DEF Spec, GoodRowKept
===============================================================================
