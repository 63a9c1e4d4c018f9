------------------------------ MODULE BriefProofs ------------------------------
(* Theorems about how a brief is made: the advisory lock of BriefGeneration, for every *)
(* set of workers and processes and every list of pairs, and the generation kernel of  *)
(* BriefLLM that the holder of the lock calls.                                         *)
EXTENDS BriefGeneration, BriefLLM, TLAPS

\* The variables are functions over the workers, and a step is one of Steps.
Shape ==
    /\ at \in [Workers -> Steps]
    /\ job = [w \in Workers |-> job[w]]
    /\ todo = [w \in Workers |-> todo[w]]
    /\ held = [w \in Workers |-> held[w]]

Locked == {"recheck", "llm", "persist"}

\* No operation changes the shape.
LEMMA ShapeStep == Shape /\ [Next]_vars => Shape'
<1> SUFFICES ASSUME Shape, [Next]_vars PROVE Shape'
  OBVIOUS
<1> USE DEF Shape, Steps
<1>1. ASSUME NEW w \in Workers, Begin(w) PROVE Shape'
  BY <1>1 DEF Begin, FirstStep
<1>2. ASSUME NEW w \in Workers, AcquireLock(w) PROVE Shape'
  BY <1>2 DEF AcquireLock
<1>3. ASSUME NEW w \in Workers, NEW c, NEW s, NEW l, NextPair(w, c, s, l) PROVE Shape'
  BY <1>3 DEF NextPair, FirstStep
<1>4. ASSUME NEW w \in Workers, Proceed(w) PROVE Shape'
  <2>1. CASE PreCheckHit(w) \/ LockRaises(w) \/ RecheckHit(w) \/ RecheckRaises(w)
             \/ LlmFails(w) \/ Persist(w) \/ PersistFails(w)
    BY <2>1, <1>3 DEF PreCheckHit, LockRaises, RecheckHit, RecheckRaises, LlmFails, Persist,
                      PersistFails, DbFails
  <2>2. CASE PreCheckMiss(w) \/ PreCheckRaises(w) \/ RecheckMiss(w) \/ LlmAnswers(w)
             \/ StageReleases(w)
    BY <2>2 DEF PreCheckMiss, PreCheckRaises, RecheckMiss, LlmAnswers, StageReleases
  <2> QED
    BY <2>1, <2>2, <1>4 DEF Proceed
<1>5. ASSUME NEW w \in Workers, Crash(w) PROVE Shape'
  BY <1>5 DEF Crash
<1>6. CASE UNCHANGED vars
  BY <1>6 DEF vars
<1> QED
  BY <1>1, <1>2, <1>4, <1>5, <1>6 DEF Next

\* Two workers that generate the same brief would both hold its key.
LEMMA KeyExcludes ==
  ASSUME OneNamespace, HoldsKey, OneHolder
  PROVE  OneGenerator
<1> SUFFICES ASSUME NEW v \in Workers, NEW w \in Workers,
                    Generating(v), Generating(w), Pair(v) = Pair(w), v # w
             PROVE  FALSE
  BY DEF OneGenerator
<1>1. LockKey(v, Pair(v)) \in held[v] /\ LockKey(w, Pair(w)) \in held[w]
  BY DEF HoldsKey, Generating
<1>2. LockKey(v, Pair(v)) = LockKey(w, Pair(w))
  BY DEF LockKey, OneNamespace
<1> QED
  BY <1>1, <1>2 DEF OneHolder

\* What a worker w does with its own step, when it takes none of the locked steps after
\* it and gains no lock, cannot hurt the others.
LEMMA OwnStep ==
  ASSUME Shape, LockInv, NEW w \in Workers,
         \A v \in Workers \ {w} : /\ at'[v] = at[v] /\ job'[v] = job[v]
                                  /\ todo'[v] = todo[v] /\ held'[v] = held[v],
         held'[w] \subseteq held[w],
         at'[w] \notin Locked,
         brief' = brief
  PROVE  LockInv'
<1>1. HoldsKey'
  <2> SUFFICES ASSUME NEW v \in Workers, at'[v] \in Locked
               PROVE  LockKey(v, Head(todo'[v])) \in held'[v]
    BY DEF HoldsKey, Pair, Locked, LockKey
  <2>1. v # w
    OBVIOUS
  <2> QED
    BY <2>1 DEF LockInv, HoldsKey, Pair, Locked
<1>2. OneHolder'
  BY DEF LockInv, OneHolder
<1>3. NoSecondPayment'
  <2> SUFFICES ASSUME NEW v \in Workers, at'[v] \in {"llm", "persist"}, ~Replace(job'[v])
               PROVE  Head(todo'[v]) \notin brief'
    BY DEF NoSecondPayment, Pair, Generating, Replace
  <2>1. v # w
    BY DEF Locked
  <2> QED
    BY <2>1 DEF LockInv, NoSecondPayment, Pair, Generating
<1> QED
  BY <1>1, <1>2, <1>3 DEF LockInv

-----------------------------------------------------------------------------------
\* Every operation preserves the strengthening: the others are untouched, and the worker
\* that moves leaves the locked part, or goes one step further in it under its key.
LEMMA LockInvStep ==
  ASSUME OneNamespace, Shape, LockInv, [Next]_vars
  PROVE  LockInv'
<1>1. ASSUME NEW w \in Workers, Begin(w) PROVE LockInv'
  BY <1>1, OwnStep DEF Begin, FirstStep, Shape, Locked
<1>2. ASSUME NEW w \in Workers, AcquireLock(w) PROVE LockInv'
  <2> DEFINE key == LockKey(w, Pair(w))
  <2>1. /\ held' = [held EXCEPT ![w] = @ \cup {key}]
        /\ at' = [at EXCEPT ![w] = "recheck"]
        /\ job' = job /\ todo' = todo /\ brief' = brief
        /\ \A v \in Workers \ {w} : key \notin held[v]
    BY <1>2 DEF AcquireLock, Free
  <2>2. /\ held'[w] = held[w] \cup {key} /\ at'[w] = "recheck"
        /\ \A v \in Workers \ {w} : held'[v] = held[v] /\ at'[v] = at[v]
    BY <2>1 DEF Shape
  <2>3. HoldsKey'
    <3> SUFFICES ASSUME NEW v \in Workers, at'[v] \in Locked
                 PROVE  LockKey(v, Head(todo[v])) \in held'[v]
      BY <2>1 DEF HoldsKey, Pair, Locked, LockKey
    <3>1. CASE v = w
      BY <2>2, <3>1 DEF Pair
    <3>2. CASE v # w
      BY <2>2, <3>2 DEF LockInv, HoldsKey, Pair, Locked
    <3> QED
      BY <3>1, <3>2
  <2>4. OneHolder'
    BY <2>1, <2>2 DEF LockInv, OneHolder
  <2>5. NoSecondPayment'
    BY <2>1, <2>2 DEF LockInv, NoSecondPayment, Pair, Generating, Replace
  <2> QED
    BY <2>3, <2>4, <2>5 DEF LockInv
<1>3. ASSUME NEW w \in Workers, NEW c, NEW s, NEW l, NextPair(w, c, s, l),
             l \subseteq held[w], brief' = brief
      PROVE  LockInv'
  BY <1>3, OwnStep DEF NextPair, FirstStep, Shape, Locked
<1>4. ASSUME NEW w \in Workers, NEW next \in {"llm", "persist"},
             at[w] \in Locked,
             at' = [at EXCEPT ![w] = next],
             ~Replace(job[w]) => Pair(w) \notin brief,
             UNCHANGED <<job, todo, held, brief>>
      PROVE  LockInv'
  <2>1. HoldsKey'
    <3> SUFFICES ASSUME NEW v \in Workers, at'[v] \in Locked
                 PROVE  LockKey(v, Head(todo[v])) \in held[v]
      BY <1>4 DEF HoldsKey, Pair, Locked, LockKey
    <3>1. at[v] \in Locked
      BY <1>4 DEF Shape
    <3> QED
      BY <3>1 DEF LockInv, HoldsKey, Pair, Locked
  <2>2. OneHolder'
    BY <1>4 DEF LockInv, OneHolder
  <2>3. NoSecondPayment'
    <3> SUFFICES ASSUME NEW v \in Workers, at'[v] \in {"llm", "persist"}, ~Replace(job[v])
                 PROVE  Head(todo[v]) \notin brief
      BY <1>4 DEF NoSecondPayment, Pair, Generating, Replace
    <3>1. CASE v = w
      BY <1>4, <3>1 DEF Pair
    <3>2. CASE v # w
      BY <1>4, <3>2 DEF Shape, LockInv, NoSecondPayment, Pair, Generating
    <3> QED
      BY <3>1, <3>2
  <2> QED
    BY <2>1, <2>2, <2>3 DEF LockInv
<1>5. ASSUME NEW w \in Workers, Persist(w) PROVE LockInv'
  <2>1. /\ at[w] = "persist" /\ brief' = brief \cup {Pair(w)}
        /\ held'[w] = {} /\ at'[w] \notin Locked
        /\ \A v \in Workers \ {w} : /\ at'[v] = at[v] /\ job'[v] = job[v]
                                    /\ todo'[v] = todo[v] /\ held'[v] = held[v]
    BY <1>5 DEF Persist, NextPair, FirstStep, Shape, Locked
  <2>2. HoldsKey'
    <3> SUFFICES ASSUME NEW v \in Workers, at'[v] \in Locked
                 PROVE  LockKey(v, Head(todo'[v])) \in held'[v]
      BY DEF HoldsKey, Pair, Locked, LockKey
    <3>1. v # w
      BY <2>1
    <3> QED
      BY <2>1, <3>1 DEF LockInv, HoldsKey, Pair, Locked
  <2>3. OneHolder'
    BY <2>1 DEF LockInv, OneHolder
  <2>4. NoSecondPayment'
    <3> SUFFICES ASSUME NEW v \in Workers, at'[v] \in {"llm", "persist"}, ~Replace(job'[v])
                 PROVE  Head(todo'[v]) \notin brief'
      BY DEF NoSecondPayment, Pair, Generating, Replace
    <3>1. v # w
      BY <2>1 DEF Locked
    <3>2. Generating(v) /\ Generating(w) /\ ~Replace(job[v])
      BY <2>1, <3>1 DEF Generating
    <3>3. Pair(v) # Pair(w)
      BY <3>1, <3>2, KeyExcludes DEF LockInv, OneGenerator
    <3>4. Pair(v) \notin brief
      BY <3>2 DEF LockInv, NoSecondPayment
    <3> QED
      BY <2>1, <3>1, <3>3, <3>4 DEF Pair
  <2> QED
    BY <2>2, <2>3, <2>4 DEF LockInv
<1>6. ASSUME NEW w \in Workers, Proceed(w) PROVE LockInv'
  <2>1. CASE PreCheckHit(w)
    BY <2>1, <1>3 DEF PreCheckHit
  <2>2. CASE PreCheckMiss(w)
    BY <2>2, OwnStep DEF PreCheckMiss, Shape, Locked
  <2>3. CASE PreCheckRaises(w)
    BY <2>3, OwnStep DEF PreCheckRaises, Shape, Locked
  <2>4. CASE LockRaises(w)
    BY <2>4, <1>3 DEF LockRaises, DbFails
  <2>5. CASE RecheckHit(w)
    BY <2>5, <1>3 DEF RecheckHit
  <2>6. CASE RecheckMiss(w)
    BY <2>6, <1>4 DEF RecheckMiss, MayReturn, Locked
  <2>7. CASE RecheckRaises(w)
    BY <2>7, <1>3 DEF RecheckRaises, DbFails
  <2>8. CASE LlmAnswers(w)
    BY <2>8, <1>4 DEF LlmAnswers, Locked, LockInv, NoSecondPayment, Generating
  <2>9. CASE LlmFails(w)
    BY <2>9, <1>3 DEF LlmFails
  <2>10. CASE PersistFails(w)
    BY <2>10, <1>3 DEF PersistFails, DbFails
  <2>11. CASE StageReleases(w)
    BY <2>11, OwnStep DEF StageReleases, Shape, Locked
  <2> QED
    BY <1>6, <1>5, <2>1, <2>2, <2>3, <2>4, <2>5, <2>6, <2>7, <2>8, <2>9, <2>10, <2>11
       DEF Proceed
<1>7. ASSUME NEW w \in Workers, Crash(w) PROVE LockInv'
  BY <1>7, OwnStep DEF Crash, Shape, Locked
<1>8. CASE UNCHANGED vars
  BY <1>8 DEF vars, LockInv, HoldsKey, OneHolder, NoSecondPayment, Pair, Generating,
              LockKey, Replace
<1> QED
  BY <1>1, <1>2, <1>6, <1>7, <1>8 DEF Next

\* The condition on the keys speaks of constants: it does not change.
LEMMA NamespaceStays == OneNamespace => []OneNamespace
<1>1. OneNamespace => OneNamespace'
  BY DEF OneNamespace
<1> QED
  BY <1>1, PTL

\* The strengthening is an invariant.
LEMMA LockInvInductive == OneNamespace /\ Spec => [](Shape /\ LockInv)
<1>1. Init => Shape /\ LockInv
  <2> SUFFICES ASSUME Init PROVE Shape /\ LockInv
    OBVIOUS
  <2>1. Shape
    BY DEF Init, Shape, Steps
  <2>2. \A w \in Workers : at[w] = "idle" /\ held[w] = {}
    BY DEF Init
  <2> QED
    BY <2>1, <2>2 DEF LockInv, HoldsKey, OneHolder, NoSecondPayment, Generating
<1>2. OneNamespace /\ Shape /\ LockInv /\ [Next]_vars => (Shape /\ LockInv)'
  BY ShapeStep, LockInvStep
<1> QED
  BY <1>1, <1>2, NamespaceStays, PTL DEF Spec

\* The advisory lock of generate_and_persist_report works for any number of workers and
\* pairs, if they hash the key alike: one of them generates a brief at a time.
THEOREM AdvisoryLock == OneNamespace /\ Spec => []OneGenerator
<1>1. OneNamespace /\ LockInv => OneGenerator
  BY KeyExcludes DEF LockInv
<1> QED
  BY <1>1, LockInvInductive, NamespaceStays, PTL

\* The re-check under the lock works: a caller who does not replace never pays for, or
\* overwrites, a brief that is there.
THEOREM DoubleCheckedLocking == OneNamespace /\ Spec => []NoSecondPayment
<1>1. LockInv => NoSecondPayment
  BY DEF LockInv
<1> QED
  BY <1>1, LockInvInductive, PTL

-----------------------------------------------------------------------------------
\* A counter is only set to "generated" or to a cache hit for a pair that has its row, and
\* rows are never taken away.
LEMMA TallyStep ==
  ASSUME tally \in [Workers -> [Pairs -> Counters]], NoPhantomSuccess, [Next]_vars
  PROVE  tally' \in [Workers -> [Pairs -> Counters]] /\ NoPhantomSuccess'
<1> DEFINE Inv == tally' \in [Workers -> [Pairs -> Counters]] /\ NoPhantomSuccess'
<1>1. ASSUME NEW w \in Workers, NEW c \in Counters, NEW s, NEW l, NextPair(w, c, s, l),
             brief \subseteq brief',
             c \in {"generated", "skipped_cache_hit"} => Pair(w) \in brief'
      PROVE  Inv
  <2>1. PICK d \in {c, "none"} : tally' = [tally EXCEPT ![w][Pair(w)] = d]
    BY <1>1 DEF NextPair
  <2>2. d \in Counters
    BY <2>1 DEF Counters
  <2>3. \A v \in Workers, p \in Pairs :
           tally'[v][p] = IF v = w /\ p = Pair(w) THEN d ELSE tally[v][p]
    BY <2>1, <2>2
  <2>4. tally' \in [Workers -> [Pairs -> Counters]]
    BY <2>1, <2>2
  <2>5. ASSUME NEW v \in Workers, NEW p \in Pairs,
               tally'[v][p] \in {"generated", "skipped_cache_hit"}
        PROVE  p \in brief'
    BY <1>1, <2>1, <2>3, <2>5 DEF NoPhantomSuccess
  <2> QED
    BY <2>4, <2>5 DEF NoPhantomSuccess
<1>2. ASSUME tally' = tally, brief' = brief PROVE Inv
  BY <1>2 DEF NoPhantomSuccess
<1>3. {"generated", "skipped_cache_hit", "failed", "none"} \subseteq Counters
  BY DEF Counters
<1>4. ASSUME NEW w \in Workers, Begin(w) PROVE Inv
  <2>1. /\ tally' = [tally EXCEPT ![w] = [p \in Pairs |-> "none"]] /\ brief' = brief
    BY <1>4 DEF Begin
  <2> QED
    BY <1>3, <2>1 DEF NoPhantomSuccess
<1>5. ASSUME NEW w \in Workers, Proceed(w) PROVE Inv
  <2>1. CASE PreCheckHit(w)
    BY <1>1, <1>3, <2>1 DEF PreCheckHit
  <2>2. CASE RecheckHit(w)
    BY <1>1, <1>3, <2>2 DEF RecheckHit, MayReturn
  <2>3. CASE RecheckRaises(w)
    BY <1>1, <1>3, <2>3 DEF RecheckRaises, DbFails
  <2>4. CASE LockRaises(w) \/ PersistFails(w)
    BY <1>1, <1>3, <2>4 DEF LockRaises, PersistFails, DbFails
  <2>5. CASE LlmFails(w)
    BY <1>1, <1>3, <2>5 DEF LlmFails, NoAnswer
  <2>6. CASE Persist(w)
    BY <1>1, <1>3, <2>6 DEF Persist
  <2>7. CASE PreCheckMiss(w) \/ PreCheckRaises(w) \/ RecheckMiss(w) \/ LlmAnswers(w)
             \/ StageReleases(w)
    BY <1>2, <2>7 DEF PreCheckMiss, PreCheckRaises, RecheckMiss, LlmAnswers, StageReleases
  <2> QED
    BY <1>5, <2>1, <2>2, <2>3, <2>4, <2>5, <2>6, <2>7 DEF Proceed
<1>6. ASSUME NEW w \in Workers, AcquireLock(w) \/ Crash(w) PROVE Inv
  BY <1>2, <1>6 DEF AcquireLock, Crash
<1>7. CASE UNCHANGED vars
  BY <1>2, <1>7 DEF vars
<1> QED
  BY <1>4, <1>5, <1>6, <1>7 DEF Next

\* The cron's counters tell no success that is not in the table.
THEOREM HonestCounters == Spec => []NoPhantomSuccess
<1> DEFINE T == tally \in [Workers -> [Pairs -> Counters]]
<1>1. Init => T /\ NoPhantomSuccess
  BY DEF Init, Counters, NoPhantomSuccess
<1>2. T /\ NoPhantomSuccess /\ [Next]_vars => T' /\ NoPhantomSuccess'
  BY TallyStep
<1> HIDE DEF T
<1> QED
  BY <1>1, <1>2, PTL DEF Spec

-----------------------------------------------------------------------------------
(* The kernel, for every number of re-calls. *)

\* The type invariant and the strengthening hold together.
LEMMA KernelStep == KernelTypeOK /\ KernelInv /\ [KernelNext]_kernelVars => (KernelTypeOK /\ KernelInv)'
<1> SUFFICES ASSUME KernelTypeOK, KernelInv, [KernelNext]_kernelVars PROVE KernelTypeOK' /\ KernelInv'
  OBVIOUS
<1>1. MaxRecalls \in Nat /\ answers \in Seq(Verdicts) /\ Len(answers) \in Nat
  BY KernelAssumption DEF KernelTypeOK
<1>2. CASE Answer
  <2>1. PICK v \in Verdicts :
          /\ answers' = Append(answers, v) /\ flags' = FlagsAfter(v)
          /\ output' = OutputAfter(v)
          /\ phase' = IF Accepted(v) \/ Calls + 1 = LastAttempt THEN "classify" ELSE "call"
    BY <1>2 DEF Answer
  <2>2. /\ answers' \in Seq(Verdicts) /\ Len(answers') = Len(answers) + 1
        /\ answers'[Len(answers) + 1] = v
    BY <1>1, <2>1
  <2>3. /\ phase = "call" /\ UNCHANGED <<failure, recorded>>
    BY <1>2 DEF Answer
  <2>4. flags' \subseteq Flags
    BY <2>1 DEF FlagsAfter, Flags, KernelTypeOK
  <2>5. output' \in BOOLEAN /\ output' = Accepted(v)
    BY <2>1 DEF OutputAfter, Accepted
  <2>6. KernelTypeOK'
    BY <1>1, <2>1, <2>2, <2>3, <2>4, <2>5 DEF KernelTypeOK, KernelInv, Calls, LastAttempt
  <2>7. KernelInv'
    <3>1. output' = (Len(answers') > 0 /\ Accepted(answers'[Len(answers')]))
      BY <1>1, <2>2, <2>5
    <3>2. phase' = "call" => Len(answers') <= MaxRecalls
      BY <1>1, <2>1, <2>2, <2>3 DEF KernelInv, Calls, LastAttempt
    <3>3. recorded' = 0 /\ phase' \in {"call", "classify"}
      BY <2>1, <2>3 DEF KernelInv
    <3> QED
      BY <1>1, <2>2, <3>1, <3>2, <3>3 DEF KernelInv, Calls, Accepted
  <2> QED
    BY <2>6, <2>7
<1>3. CASE CallRaises
  <2>1. /\ phase = "call" /\ UNCHANGED <<answers, flags, output, failure, recorded>>
        /\ phase' = IF Calls = 0 THEN "raised" ELSE "classify"
    BY <1>3 DEF CallRaises, MayRaise
  <2> QED
    BY <2>1 DEF KernelTypeOK, KernelInv, Calls, Accepted
<1>4. CASE Classify
  <2>1. /\ phase = "classify" /\ phase' = "record"
        /\ UNCHANGED <<answers, flags, output, recorded>>
    BY <1>4 DEF Classify
  <2>2. failure' \in FailureKinds \cup {"none"} /\ output = (failure' = "none")
    <3>1. output \in BOOLEAN
      BY DEF KernelTypeOK
    <3>2. CASE output
      <4>1. failure' = "none"
        BY <1>4, <3>2 DEF Classify
      <4> QED
        BY <3>1, <3>2, <4>1
    <3>3. CASE ~output
      <4>1. failure' \in FailureKinds
        BY <1>4, <3>3 DEF Classify, FailureKind, FailureKinds
      <4>2. failure' # "none"
        BY <4>1 DEF FailureKinds
      <4> QED
        BY <3>1, <3>3, <4>1, <4>2
    <3> QED
      BY <3>2, <3>3
  <2> QED
    BY <2>1, <2>2 DEF KernelTypeOK, KernelInv, Calls, Accepted
<1>5. CASE Record
  <2>1. /\ phase = "record" /\ UNCHANGED <<answers, flags, output, failure>>
        /\ \/ Calls > recorded /\ recorded' = recorded + 1 /\ phase' = phase
           \/ ~(recorded < Calls) /\ phase' = "done" /\ recorded' = recorded
    BY <1>1, <1>5 DEF Record, Billed, Calls, KernelTypeOK
  <2>2. recorded \in Nat
    BY <1>1 DEF KernelTypeOK
  <2> QED
    BY <1>1, <2>1, <2>2 DEF KernelTypeOK, KernelInv, Calls, Accepted
<1>6. CASE Done \/ UNCHANGED kernelVars
  BY <1>6 DEF Done, kernelVars, KernelTypeOK, KernelInv, Calls, Accepted
<1> QED
  BY <1>2, <1>3, <1>4, <1>5, <1>6 DEF KernelNext

LEMMA KernelInvariant == KernelSpec => [](KernelTypeOK /\ KernelInv)
<1>1. KernelInit => KernelTypeOK /\ KernelInv
  <2> SUFFICES ASSUME KernelInit PROVE KernelTypeOK /\ KernelInv
    OBVIOUS
  <2>1. /\ answers \in Seq(Verdicts) /\ Len(answers) = 0 /\ flags = {} /\ output = FALSE
        /\ phase = "call" /\ failure = "none" /\ recorded = 0
    BY DEF KernelInit
  <2>2. /\ Len(answers) <= MaxRecalls /\ Len(answers) <= MaxRecalls + 1
        /\ recorded \in 0..MaxRecalls + 1 /\ recorded <= Len(answers) /\ ~(Len(answers) > 0)
    BY <2>1, KernelAssumption
  <2>3. KernelTypeOK
    <3>1. output \in BOOLEAN
      BY <2>1, Zenon
    <3> QED
      BY <2>1, <2>2, <3>1, Zenon DEF KernelTypeOK, Calls
  <2>4. KernelInv
    BY <2>1, <2>2, Zenon DEF KernelInv, Calls
  <2> QED
    BY <2>3, <2>4
<1> QED
  BY <1>1, KernelStep, PTL DEF KernelSpec

\* Every answer paid for is in the cost log, however often the kernel calls again.
THEOREM AllBilled == KernelSpec => []EveryAnswerBilled
<1>1. KernelInv => EveryAnswerBilled
  BY DEF KernelInv, EveryAnswerBilled
<1> QED
  BY <1>1, KernelInvariant, PTL

\* The result is the verdict on the last answer.
THEOREM LastAnswerDecides == KernelSpec => []OutputIsLastAnswer
<1>1. KernelInv => OutputIsLastAnswer
  BY DEF KernelInv, OutputIsLastAnswer
<1> QED
  BY <1>1, KernelInvariant, PTL
================================================================================
