------------------------------- MODULE AssetProofs -------------------------------
(* Theorems about the two halves of an asset's life: how AssetIngest stores it once,   *)
(* for every set of batches and items, and how AssetAnalysis has it looked at, paid    *)
(* for and counted, for every set of assets, workers and runs, and for all caps.       *)
EXTENDS AssetIngest, AssetAnalysis, FiniteSetTheorems, SequenceTheorems, TLAPS

---------------------------------------------------------------------------------
(* AssetIngest.                                                                        *)

\* The parts of the type that the argument needs.
Shape ==
    /\ step \in [Items -> Steps]
    /\ maker = [u \in Urls |-> maker[u]]
    /\ assets = [u \in Urls |-> assets[u]]

\* A step of item i that leaves the database alone and does not take i past the INSERT.
LEMMA QuietMove ==
  ASSUME Shape, MakerInv, NEW i \in Items, NEW s \in Steps, UNCHANGED dbVars,
         step' = [step EXCEPT ![i] = s],
         s \in PastInsert => step[i] \in PastInsert
  PROVE  Shape' /\ MakerInv'
<1>1. Shape'
  BY DEF Shape, dbVars
<1>2. \A j \in Items : step'[j] \in PastInsert => step[j] \in PastInsert
  BY DEF Shape
<1> QED
  BY <1>1, <1>2 DEF MakerInv, dbVars

\* The two ways an item moves on.
LEMMA GotoMoves ==
  ASSUME NEW i \in Items, NEW s \in Steps, Goto(i, s)
  PROVE  \E t \in {s, "end"} : step' = [step EXCEPT ![i] = t]
BY DEF Goto

\* A batch that starts, goes on or ends takes no item past the INSERT.
LEMMA BatchMove ==
  ASSUME Shape, MakerInv, UNCHANGED dbVars,
         step' \in [Items -> Steps],
         \A j \in Items : step'[j] = step[j] \/ step'[j] \in {"check", "queued_a", "end"}
  PROVE  Shape' /\ MakerInv'
<1>1. \A j \in Items : step'[j] \in PastInsert => step[j] \in PastInsert
  BY DEF PastInsert, PhaseC
<1> QED
  BY <1>1 DEF Shape, MakerInv, dbVars

\* Every step keeps both.
LEMMA MakerInvStep == Shape /\ MakerInv /\ [IngestNext]_ingestVars => (Shape /\ MakerInv)'
<1> SUFFICES ASSUME Shape, MakerInv, [IngestNext]_ingestVars PROVE Shape' /\ MakerInv'
  OBVIOUS
<1> DEFINE Inv == Shape' /\ MakerInv'
<1>0. /\ {"idle", "queued_a", "openai_wait", "openai", "httpx_wait", "httpx", "queued_c",
          "end", "check", "insert", "asset", "candidate"} \subseteq Steps
      /\ PastInsert = {"openai_wait", "openai", "httpx_wait", "httpx", "queued_c",
                       "asset", "candidate"}
  BY DEF Steps, PhaseA, PhaseC, PastInsert
<1>1. ASSUME NEW b \in Batches, NEW k, Enter(b, k), UNCHANGED dbVars PROVE Inv
  <2>1. step' \in [Items -> Steps]
    BY <1>0, <1>1 DEF Enter, FirstStep, Shape
  <2>2. \A j \in Items : step'[j] = step[j] \/ step'[j] \in {"check", "queued_a", "end"}
    BY <1>1 DEF Enter, FirstStep, Shape
  <2> QED
    BY <1>1, <2>1, <2>2, BatchMove
<1>2. ASSUME NEW bs, NEW stay, Abort(bs, stay) PROVE Inv
  <2>1. step' \in [Items -> Steps]
    BY <1>0, <1>2 DEF Abort, Shape
  <2>2. \A j \in Items : step'[j] = step[j] \/ step'[j] \in {"check", "queued_a", "end"}
    BY <1>2 DEF Abort, Shape
  <2> QED
    BY <1>2, <2>1, <2>2, BatchMove DEF Abort
<1>3. ASSUME NEW b \in Batches, StartBatch(b) \/ NextChannel(b) \/ Cancel(b) PROVE Inv
  BY <1>1, <1>2, <1>3 DEF StartBatch, NextChannel, Cancel
<1>4. CASE ProcessCrash
  BY <1>2, <1>4 DEF ProcessCrash
<1>5. ASSUME NEW i \in Items, NEW s \in Steps, Goto(i, s), UNCHANGED dbVars,
             s \in PastInsert => step[i] \in PastInsert
      PROVE  Inv
  BY <1>0, <1>5, GotoMoves, QuietMove
<1>6. ASSUME NEW i \in Items, NEW o, End(i, o), UNCHANGED dbVars PROVE Inv
  BY <1>0, <1>6, QuietMove DEF End
<1>7. ASSUME NEW i \in Items, InsertPost(i) PROVE Inv
  <2> DEFINE u == UrlOf[i]
  <2>1. u \in Urls /\ i # "nobody"
    BY IngestAssumption
  <2>2. /\ maker[u] = "nobody" /\ maker' = [maker EXCEPT ![u] = i] /\ assets' = assets
        /\ \E t \in {"openai", "openai_wait", "end"} : step' = [step EXCEPT ![i] = t]
    BY <1>7 DEF InsertPost, MayInsert, Known, Goto
  <2>3. Shape'
    BY <1>0, <2>2 DEF Shape
  <2>4. maker'[u] = i /\ \A v \in Urls \ {u} : maker'[v] = maker[v]
    BY <2>1, <2>2 DEF Shape
  <2>5. ASSUME NEW j \in Items, step'[j] \in PastInsert PROVE maker'[UrlOf[j]] = j
    <3>1. CASE j = i
      BY <2>4, <3>1
    <3>2. CASE j # i
      <4>1. maker[UrlOf[j]] = j /\ UrlOf[j] \in Urls
        BY <2>2, <2>5, <3>2, IngestAssumption DEF Shape, MakerInv
      <4>2. UrlOf[j] # u
        BY <2>2, <4>1, IngestAssumption
      <4> QED
        BY <2>4, <4>1, <4>2
    <3> QED
      BY <3>1, <3>2
  <2>6. ASSUME NEW v \in Urls PROVE assets'[v] \subseteq {j \in Items : maker'[v] = j}
    <3>1. CASE v = u
      <4>1. assets[u] = {}
        BY <2>1, <2>2, IngestAssumption DEF MakerInv
      <4> QED
        BY <2>2, <3>1, <4>1
    <3>2. CASE v # u
      BY <2>2, <2>4, <3>2 DEF MakerInv
    <3> QED
      BY <3>1, <3>2
  <2> QED
    BY <2>3, <2>5, <2>6 DEF MakerInv
<1>8. ASSUME NEW i \in Items, CommitAsset(i) PROVE Inv
  <2>1. CASE UNCHANGED assets /\ Raise(i)
    BY <1>6, <1>8, <2>1 DEF CommitAsset, Raise, dbVars
  <2>2. CASE assets' = [assets EXCEPT ![UrlOf[i]] = @ \cup {i}] /\ Goto(i, "candidate")
    <3>1. /\ step[i] = "asset" /\ maker' = maker /\ UrlOf[i] \in Urls
          /\ \E t \in {"candidate", "end"} : step' = [step EXCEPT ![i] = t]
      BY <1>8, <2>2, GotoMoves, <1>0, IngestAssumption DEF CommitAsset
    <3>2. maker[UrlOf[i]] = i
      BY <1>0, <3>1 DEF MakerInv
    <3>3. Shape'
      BY <1>0, <2>2, <3>1 DEF Shape
    <3>4. \A j \in Items : step'[j] \in PastInsert => step[j] \in PastInsert
      BY <1>0, <3>1 DEF Shape
    <3>5. ASSUME NEW v \in Urls PROVE assets'[v] \subseteq {j \in Items : maker'[v] = j}
      <4>1. assets'[v] = IF v = UrlOf[i] THEN assets[v] \cup {i} ELSE assets[v]
        BY <2>2, <3>1 DEF Shape
      <4> QED
        BY <3>1, <3>2, <4>1 DEF MakerInv
    <3> QED
      BY <3>1, <3>3, <3>4, <3>5 DEF MakerInv
  <2> QED
    BY <1>8, <2>1, <2>2 DEF CommitAsset
<1>9. ASSUME NEW i \in Items, Proceed(i) PROVE Inv
  <2>1. CASE TakeThread(i)
    BY <1>0, <1>5, <2>1 DEF TakeThread
  <2>2. CASE Check(i)
    BY <1>0, <1>5, <1>6, <2>2 DEF Check, Raise
  <2>3. CASE InsertRaises(i) \/ SettleCandidate(i)
    BY <1>6, <2>3 DEF InsertRaises, SettleCandidate, Raise
  <2>4. CASE EnterOpenAI(i) \/ EnterHttpx(i)
    BY <1>0, <1>5, <2>4 DEF EnterOpenAI, EnterHttpx
  <2>5. CASE LeaveOpenAI(i)
    BY <1>0, <1>5, <1>6, <2>5 DEF LeaveOpenAI, Raise
  <2>6. CASE LeaveHttpx(i)
    BY <1>0, <1>5, <2>6 DEF LeaveHttpx
  <2> QED
    BY <1>7, <1>8, <1>9, <2>1, <2>2, <2>3, <2>4, <2>5, <2>6 DEF Proceed
<1>10. CASE Done \/ UNCHANGED ingestVars
  BY <1>10 DEF Done, ingestVars, dbVars, Shape, MakerInv
<1> QED
  BY <1>3, <1>4, <1>9, <1>10 DEF IngestNext

\* However many syncs and imports of a url interleave, one task makes the post and only it
\* makes an asset: the unique index on post_url decides, not the look before the INSERT.
THEOREM OnePostOneAsset == IngestSpec => []OneAssetPerPost
<1>1. IngestInit => Shape /\ MakerInv
  BY DEF IngestInit, Shape, MakerInv, Steps, PastInsert, PhaseC
<1>2. MakerInv => OneAssetPerPost
  <2> SUFFICES ASSUME MakerInv, NEW u \in Urls
               PROVE  /\ Cardinality(assets[u]) <= 1
                      /\ \A i \in assets[u] : maker[u] = i
    BY DEF OneAssetPerPost
  <2>1. assets[u] \subseteq {maker[u]}
    BY DEF MakerInv
  <2>2. IsFiniteSet({maker[u]}) /\ Cardinality({maker[u]}) = 1
    BY FS_Singleton
  <2>3. Cardinality(assets[u]) <= 1
    BY <2>1, <2>2, FS_Subset
  <2> QED
    BY <2>1, <2>3
<1> QED
  BY <1>1, <1>2, MakerInvStep, PTL DEF IngestSpec

---------------------------------------------------------------------------------
(* Lists.  A selection is a list without repetition of what it was made from, and as long. *)

\* A set of numbers has a smallest one.
LEMMA SmallestNumber ==
  ASSUME NEW T \in SUBSET Nat, T # {}
  PROVE  \E x \in T : \A y \in T : x <= y
<1>1. IsWellFoundedOn(OpToRel(<, Nat), Nat)
  BY NatLessThanWellFounded
<1>2. PICK x \in T : \A y \in T : ~(<<y, x>> \in OpToRel(<, Nat))
  BY <1>1, WFMin
<1>3. \A y \in T : ~(y < x)
  BY <1>2 DEF OpToRel
<1> QED
  BY <1>3

\* s is S in order.
Sorted(S, s) == /\ s \in [1..Cardinality(S) -> S]
                /\ \A i, j \in 1..Cardinality(S) : i < j => s[i] < s[j]

\* Every finite set of numbers can be put in order.  Of the subsets that could not, a smallest
\* one would lose its smallest number, be put in order, and get it back in front.
LEMMA OrderExists ==
  ASSUME NEW S \in SUBSET Nat, IsFiniteSet(S)
  PROVE  \E s : Sorted(S, s)
<1> SUFFICES ASSUME ~\E s : Sorted(S, s) PROVE FALSE
  OBVIOUS
<1> DEFINE Bad == {T \in FiniteSubsetsOf(S) : ~\E s : Sorted(T, s)}
<1>1. S \in Bad
  BY DEF FiniteSubsetsOf
<1>2. IsWellFoundedOn(StrictSubsetOrdering(S), FiniteSubsetsOf(S))
  BY FS_StrictSubsetOrderingWellFounded
<1>3. PICK T \in Bad : \A U \in Bad : ~(<<U, T>> \in StrictSubsetOrdering(S))
  <2>1. Bad \subseteq FiniteSubsetsOf(S) /\ Bad # {}
    BY <1>1
  <2> HIDE DEF Bad
  <2> QED
    BY <1>2, <2>1, WFMin
<1>4. T \subseteq S /\ IsFiniteSet(T) /\ T \subseteq Nat
  BY DEF FiniteSubsetsOf
<1>5. T # {}
  <2>1. SUFFICES ASSUME T = {} PROVE \E s : Sorted(T, s)
    OBVIOUS
  <2>2. Cardinality(T) = 0
    BY <2>1, FS_EmptySet
  <2>3. Sorted(T, [i \in 1..0 |-> i])
    BY <2>1, <2>2 DEF Sorted
  <2> QED
    BY <2>3
<1>6. PICK m \in T : \A y \in T : m <= y
  BY <1>4, <1>5, SmallestNumber
<1> DEFINE U == T \ {m}
<1>7. IsFiniteSet(U) /\ Cardinality(U) = Cardinality(T) - 1 /\ Cardinality(T) \in Nat
  BY <1>4, FS_RemoveElement, FS_CardinalityType
<1>8. U \notin Bad
  BY <1>3, <1>4 DEF StrictSubsetOrdering
<1>9. PICK s : Sorted(U, s)
  BY <1>4, <1>7, <1>8 DEF FiniteSubsetsOf
<1> DEFINE n == Cardinality(T)
           t == [i \in 1..n |-> IF i = 1 THEN m ELSE s[i - 1]]
<1>10. n \in Nat /\ n # 0 /\ Cardinality(U) = n - 1
  BY <1>4, <1>5, <1>7, FS_EmptySet
<1> HIDE DEF n
<1>11. /\ \A i \in 1..(n - 1) : s[i] \in T /\ m < s[i]
       /\ \A i, j \in 1..(n - 1) : i < j => s[i] < s[j]
  <2>1. s \in [1..(n - 1) -> U] /\ \A i, j \in 1..(n - 1) : i < j => s[i] < s[j]
    BY <1>9, <1>10 DEF Sorted
  <2>2. \A x \in U : x \in T /\ m < x
    BY <1>4, <1>6
  <2> HIDE DEF U
  <2> QED
    BY <2>1, <2>2
<1>12. /\ t[1] = m
       /\ \A i \in 2..n : t[i] = s[i - 1] /\ i - 1 \in 1..(n - 1)
  BY <1>10
<1>13. t \in [1..n -> T]
  <2>1. ASSUME NEW i \in 1..n PROVE t[i] \in T
    <3>1. CASE i = 1
      BY <1>12, <3>1
    <3>2. CASE i # 1
      <4>1. i \in 2..n
        BY <1>10, <3>2
      <4> QED
        BY <1>11, <1>12, <4>1
    <3> QED
      BY <3>1, <3>2
  <2> QED
    BY <2>1
<1>14. ASSUME NEW i \in 1..n, NEW j \in 1..n, i < j PROVE t[i] < t[j]
  <2>1. j \in 2..n
    BY <1>10, <1>14
  <2>2. CASE i = 1
    BY <1>11, <1>12, <2>1, <2>2
  <2>3. CASE i # 1
    <3>1. i \in 2..n /\ i - 1 < j - 1
      BY <1>10, <1>14, <2>3
    <3> QED
      BY <1>11, <1>12, <2>1, <3>1
  <2> QED
    BY <2>2, <2>3
<1>15. Sorted(T, t)
  <2> HIDE DEF t
  <2> QED
    BY <1>13, <1>14 DEF Sorted, n
<1> QED
  BY <1>3, <1>15

\* A list of what is in S, nothing of it twice.
ListOf(S, s) == /\ s \in Seq(S)
                /\ \A i, j \in 1..Len(s) : s[i] = s[j] => i = j

\* A function on 1..n is a sequence of length n.
LEMMA EnumerationIsSeq ==
  ASSUME NEW S, NEW n \in Nat, NEW s \in [1..n -> S]
  PROVE  s \in Seq(S) /\ Len(s) = n
  OBVIOUS

\* A set of assets by age, and all of it.
LEMMA OldestLists ==
  ASSUME NEW S \in SUBSET Assets
  PROVE  ListOf(S, Oldest(S)) /\ Len(Oldest(S)) = Cardinality(S)
<1>1. S \subseteq Nat /\ IsFiniteSet(S) /\ Cardinality(S) \in Nat
  BY AnalysisAssumption, FS_Subset, FS_CardinalityType
<1>2. \E s \in [1..Cardinality(S) -> S] : \A i, j \in DOMAIN s : i < j => s[i] < s[j]
  BY <1>1, OrderExists DEF Sorted
<1> DEFINE s == Oldest(S)
<1>3. s \in [1..Cardinality(S) -> S] /\ \A i, j \in 1..Cardinality(S) : i < j => s[i] < s[j]
  BY <1>2 DEF Oldest
<1> HIDE DEF s
<1>4. s \in Seq(S) /\ Len(s) = Cardinality(S)
  BY <1>1, <1>3, EnumerationIsSeq
<1>5. \A i, j \in 1..Len(s) : s[i] = s[j] => i = j
  <2>1. \A i, j \in 1..Len(s) : i < j => s[i] < s[j] /\ s[i] \in Nat /\ s[j] \in Nat
    BY <1>1, <1>3, <1>4
  <2>2. \A i, j \in 1..Len(s) : i < j \/ j < i \/ i = j
    OBVIOUS
  <2>3. \A i, j \in 1..Len(s) : s[i] < s[j] /\ s[i] \in Nat /\ s[j] \in Nat => s[i] # s[j]
    OBVIOUS
  <2> QED
    BY <2>1, <2>2, <2>3
<1> QED
  BY <1>4, <1>5 DEF ListOf, s

\* The same the other way round.
LEMMA NewestLists ==
  ASSUME NEW S \in SUBSET Assets
  PROVE  ListOf(S, Newest(S))
<1> DEFINE s == Oldest(S)
           t == [i \in 1..Len(s) |-> s[Len(s) + 1 - i]]
<1>1. ListOf(S, s) /\ Len(s) \in Nat
  BY OldestLists DEF ListOf
<1> HIDE DEF s
<1>2. \A i \in 1..Len(s) : Len(s) + 1 - i \in 1..Len(s) /\ t[i] \in S
  BY <1>1 DEF ListOf
<1>3. t \in Seq(S) /\ Len(t) = Len(s)
  BY <1>1, <1>2
<1>4. \A i, j \in 1..Len(t) : t[i] = t[j] => i = j
  BY <1>1, <1>2, <1>3 DEF ListOf
<1> QED
  BY <1>3, <1>4 DEF ListOf, Newest, s

\* What a LIMIT leaves.
LEMMA FirstLists ==
  ASSUME NEW S, NEW s, ListOf(S, s), NEW n \in Nat
  PROVE  ListOf(S, First(s, n)) /\ Len(First(s, n)) = IF Len(s) < n THEN Len(s) ELSE n
<1> DEFINE k == IF Len(s) < n THEN Len(s) ELSE n
<1>1. Len(s) \in Nat /\ k \in Nat /\ k <= Len(s)
  BY DEF ListOf
<1>2. \A i \in 1..k : s[i] \in S
  BY <1>1 DEF ListOf
<1> HIDE DEF k
<1>3. /\ SubSeq(s, 1, k) \in Seq(S) /\ Len(SubSeq(s, 1, k)) = k
      /\ \A i \in 1..k : SubSeq(s, 1, k)[i] = s[i]
  BY <1>1, <1>2, SubSeqProperties
<1>4. First(s, n) = SubSeq(s, 1, k)
  BY DEF First, k
<1> QED
  BY <1>1, <1>3, <1>4 DEF ListOf, k

---------------------------------------------------------------------------------
(* Rows.                                                                                    *)

\* A row is its columns.
LEMMA RowFields ==
  ASSUME NEW r \in Asset
  PROVE  /\ r = [status |-> r.status, ev |-> r.ev, key |-> r.key, text |-> r.text]
         /\ r.status \in Status /\ r.ev \in {None, "captured", "no_source", "fetch_failed"}
         /\ r.key \in BOOLEAN /\ r.text \in BOOLEAN
         /\ DOMAIN r = {"status", "ev", "key", "text"}
  BY DEF Asset

\* A record of columns is a row.
LEMMA MakeRow ==
  ASSUME NEW s \in Status, NEW e \in {None, "captured", "no_source", "fetch_failed"},
         NEW k \in BOOLEAN, NEW t \in BOOLEAN
  PROVE  [status |-> s, ev |-> e, key |-> k, text |-> t] \in Asset
  BY DEF Asset

\* A session's column goes out when the session has changed it.
LEMMA MergedIsRow ==
  ASSUME NEW r \in Asset, NEW s \in Asset, NEW m \in Asset
  PROVE  /\ Merged(r, s, m) \in Asset
         /\ Merged(r, s, m).status = IF m.status # s.status THEN m.status ELSE r.status
         /\ Merged(r, s, m).text = IF m.text # s.text THEN m.text ELSE r.text
<1> DEFINE F == {"status", "ev", "key", "text"}
           n == [f \in F |-> IF m[f] # s[f] THEN m[f] ELSE r[f]]
<1>1. Merged(r, s, m) = n
  BY NoneIsNothing, RowFields DEF Merged
<1>2. n = [status |-> n.status, ev |-> n.ev, key |-> n.key, text |-> n.text]
  OBVIOUS
<1>3. /\ n.status = IF m.status # s.status THEN m.status ELSE r.status
      /\ n.ev = IF m.ev # s.ev THEN m.ev ELSE r.ev
      /\ n.key = IF m.key # s.key THEN m.key ELSE r.key
      /\ n.text = IF m.text # s.text THEN m.text ELSE r.text
  OBVIOUS
<1> HIDE DEF n
<1>4. /\ n.status \in Status /\ n.ev \in {None, "captured", "no_source", "fetch_failed"}
      /\ n.key \in BOOLEAN /\ n.text \in BOOLEAN
  BY <1>3, RowFields
<1>5. n \in Asset
  BY <1>2, <1>4, MakeRow
<1> QED
  BY <1>1, <1>3, <1>5

\* A capture changes the columns of the evidence only.
LEMMA ShotIsRow ==
  ASSUME NEW r \in Asset, NEW a, NEW s \in Fetched(a)
  PROVE  /\ Shot(r, s) \in Asset
         /\ Shot(r, s).status = r.status /\ Shot(r, s).text = r.text
<1>1. s \in {None, "captured", "no_source", "fetch_failed"}
  BY DEF Fetched
<1>2. (r.key \/ s = "captured") \in BOOLEAN
  OBVIOUS
<1>3. Shot(r, s) \in Asset
  BY <1>1, <1>2, RowFields, MakeRow DEF Shot
<1> QED
  BY <1>3 DEF Shot

\* A new status changes nothing else.
LEMMA StatusIsRow ==
  ASSUME NEW r \in Asset, NEW s \in Status
  PROVE  /\ [r EXCEPT !.status = s] \in Asset
         /\ [r EXCEPT !.status = s].status = s /\ [r EXCEPT !.status = s].text = r.text
  BY DEF Asset

\* A new description changes nothing else.
LEMMA TextIsRow ==
  ASSUME NEW r \in Asset, NEW t \in BOOLEAN
  PROVE  /\ [r EXCEPT !.text = t] \in Asset
         /\ [r EXCEPT !.text = t].status = r.status /\ [r EXCEPT !.text = t].text = t
  BY DEF Asset

\* The post analyzer's new asset.
LEMMA NewAssetIsRow ==
  NewAsset \in Asset /\ NewAsset.status = "pending" /\ NewAsset.text = FALSE
  BY MakeRow DEF NewAsset, Status

---------------------------------------------------------------------------------
(* Counters, and what a stage selects.                                                      *)

Outcomes(c) == c.good + c.fallback + c.fetch + c.error

\* A counter goes up, and with an outcome's counter the sum of the outcomes.
LEMMA CountUp ==
  ASSUME NEW c \in Count, NEW n \in Nat,
         NEW f \in {"attempted", "good", "fallback", "fetch", "error", "left"}
  PROVE  LET d == [c EXCEPT ![f] = @ + n]
         IN  /\ d \in Count
             /\ d.attempted = IF f = "attempted" THEN c.attempted + n ELSE c.attempted
             /\ d.left = IF f = "left" THEN c.left + n ELSE c.left
             /\ Outcomes(d) = IF f \in {"attempted", "left"} THEN Outcomes(c) ELSE Outcomes(c) + n
  BY DEF Count, Outcomes

\* The candidates a query of worker w can come up with in a stage.
Eligible(w, k) ==
  IF k = "fresh" THEN fresh
  ELSE IF k = "backlog"
       THEN {a \in Assets : Now(w, a) # None /\ Now(w, a).status = "pending" /\ a \notin fresh}
  ELSE IF k \in Posts THEN Own
  ELSE {a \in Assets : Now(w, a) # None}

\* A list of what is in S is a list of what is in a larger set.
LEMMA ListWeakens ==
  ASSUME NEW S, NEW T, S \subseteq T, NEW s, ListOf(S, s)
  PROVE  ListOf(T, s)
  BY DEF ListOf

\* What a list has is in the set it was made from.
LEMMA RangeOfList ==
  ASSUME NEW S, NEW s, ListOf(S, s)
  PROVE  Range(s) \subseteq S
  BY DEF ListOf, Range

\* Every stage selects candidates of its own, nothing twice; the stage for the new assets takes
\* as many as its cap allows.
LEMMA SelectionOk ==
  ASSUME fresh \subseteq Assets, NEW w, NEW k \in Stages, NEW s \in Selected(w, k)
  PROVE  /\ ListOf(Eligible(w, k), s) /\ ListOf(Assets, s)
         /\ k = "fresh" => Len(s) = IF Cardinality(fresh) < FreshCap THEN Cardinality(fresh)
                                                                      ELSE FreshCap
<1> DEFINE E == Eligible(w, k)
<1>1. /\ {FreshCap, BacklogCap, PostCap, EvidenceCap, BatchLimit} \subseteq Nat
      /\ Own \subseteq Assets
  BY AnalysisAssumption
<1>2. E \subseteq Assets
  BY <1>1 DEF Eligible
<1>3. \A S \in SUBSET Assets, n \in Nat : S \subseteq E => /\ ListOf(E, First(Oldest(S), n))
                                                          /\ ListOf(E, First(Newest(S), n))
                                                          /\ ListOf(E, Oldest(S))
  BY OldestLists, NewestLists, FirstLists, ListWeakens
<1>4. /\ Having(w, {"pending"}) \subseteq {a \in Assets : Now(w, a) # None}
      /\ Unanalyzed \subseteq Own
      /\ \A T : Having(w, T) \subseteq Assets
  BY DEF Having, Unanalyzed
<1>5. ListOf(E, s)
  <2>1. CASE k = "fresh"
    <3>1. E = fresh /\ s = First(Oldest(fresh), FreshCap)
      <4>1. Selected(w, k) = {First(Oldest(fresh), FreshCap)}
        BY <2>1 DEF Selected
      <4>2. E = fresh
        BY <2>1 DEF Eligible
      <4> QED
        BY <4>1, <4>2
    <3> HIDE DEF E
    <3> QED
      BY <1>1, <1>3, <3>1
  <2>2. CASE k = "backlog"
    <3> DEFINE found == First(Oldest(Having(w, {"pending"})), BacklogCap + Cardinality(fresh))
    <3>1. Cardinality(fresh) \in Nat
      BY AnalysisAssumption, FS_Subset, FS_CardinalityType
    <3>2. ListOf(Having(w, {"pending"}), found)
      BY <1>1, <1>4, <3>1, OldestLists, FirstLists
    <3>3. Range(found) \ fresh \subseteq E
      <4>1. E = {a \in Assets : Now(w, a) # None /\ Now(w, a).status = "pending" /\ a \notin fresh}
        BY <2>2 DEF Eligible
      <4>2. Range(found) \subseteq Having(w, {"pending"})
        BY <3>2, RangeOfList
      <4> HIDE DEF E, found
      <4> QED
        BY <4>1, <4>2 DEF Having
    <3>4. s = First(Oldest(Range(found) \ fresh), BacklogCap)
      BY <2>2 DEF Selected, Backlog
    <3> HIDE DEF E, found
    <3>5. Range(found) \ fresh \in SUBSET Assets
      BY <1>2, <3>3
    <3> QED
      BY <1>1, <1>3, <3>3, <3>4, <3>5
  <2>3. CASE k \in Posts
    <3>1. E = Own
      BY <2>3 DEF Eligible, Posts
    <3> HIDE DEF E
    <3>2. CASE k = "posts"
      BY <1>1, <1>3, <1>4, <3>1, <3>2 DEF Selected
    <3>3. CASE k = "channel"
      BY <1>1, <1>3, <1>4, <3>1, <3>3 DEF Selected
    <3>4. CASE k = "force"
      BY <1>1, <1>3, <1>4, <3>1, <3>4 DEF Selected
    <3> QED
      BY <2>3, <3>2, <3>3, <3>4 DEF Posts
  <2>4. CASE k \in {"single", "pending", "failed", "tranche", "evidence"}
    <3>1. E = {a \in Assets : Now(w, a) # None}
      BY <2>4 DEF Eligible, Posts
    <3>2. \A T : Having(w, T) \subseteq E
      BY <3>1 DEF Having
    <3>3. {a \in Assets : Now(w, a) # None /\ ~Now(w, a).key} \subseteq E
      BY <3>1
    <3> HIDE DEF E
    <3>4. CASE k = "single"
      <4>1. PICK a \in E : s = <<a>>
        BY <3>1, <3>4 DEF Selected
      <4> QED
        BY <4>1 DEF ListOf
    <3>5. CASE k = "pending"
      BY <1>1, <1>3, <1>4, <3>2, <3>5 DEF Selected
    <3>6. CASE k = "failed"
      BY <1>1, <1>3, <1>4, <3>2, <3>6 DEF Selected
    <3>7. CASE k = "tranche"
      BY <1>1, <1>3, <1>4, <3>2, <3>7 DEF Selected
    <3>8. CASE k = "evidence"
      BY <1>1, <1>2, <1>3, <3>3, <3>8 DEF Selected
    <3> QED
      BY <2>4, <3>4, <3>5, <3>6, <3>7, <3>8
  <2> QED
    BY <2>1, <2>2, <2>3, <2>4 DEF Stages, Vision, Posts
<1>6. k = "fresh" => Len(s) = IF Cardinality(fresh) < FreshCap THEN Cardinality(fresh)
                                                                ELSE FreshCap
  <2> SUFFICES ASSUME k = "fresh"
               PROVE  Len(First(Oldest(fresh), FreshCap)) =
                        IF Cardinality(fresh) < FreshCap THEN Cardinality(fresh) ELSE FreshCap
    BY DEF Selected
  <2> QED
    BY <1>1, OldestLists, FirstLists
<1> QED
  BY <1>2, <1>5, <1>6, ListWeakens

---------------------------------------------------------------------------------
(* The inductive invariant.                                                                 *)

TablesOk == /\ row \in [Assets -> Asset \cup {None}] /\ post \subseteq Own
            /\ fresh \subseteq New /\ paid \in [Assets -> 0..1]
            /\ \A a \in New : row[a] # None

\* The worker runs a stage, except between two of them.
Busy(w, S) == pc[w] # "ready" /\ In(w, S)
Looking(w) == pc[w] \in {"capture", "look", "write"}

WorkersOk == /\ DOMAIN seen = Workers /\ DOMAIN mine = Workers
             /\ pc \in [Workers -> Pcs] /\ list \in [Workers -> Seq(Assets)]
             /\ runs \in [Workers -> Seq(Seq(Stages))] /\ count \in [Workers -> Count]

\* Only a classifier's own post may be new, or described, in the session alone.
Open(w, a) == pc[w] = "classify" /\ a = At(w)

\* A row in a session, read as s and changed to m: it still exists, it was not set back to
\* pending, and a description that was read is in the tables with its analysis.
Held(a, s, m, open) ==
  /\ m \in Asset /\ s \in Asset \cup {None}
  /\ s = None => open
  /\ s # None => /\ row[a] # None
                 /\ m.status = "pending" => s.status = "pending"
                 /\ a \in Own /\ s.text => a \in post
  /\ m.text => (s # None /\ s.text) \/ open

SessionOk(w) == /\ DOMAIN mine[w] = DOMAIN seen[w] /\ DOMAIN mine[w] \subseteq Assets
                /\ \A a \in DOMAIN mine[w] : Held(a, seen[w][a], mine[w][a], Open(w, a))

StageOk(w) ==
  /\ pc[w] # "ready" => In(w, Stages)
  /\ Looking(w) => /\ In(w, Vision) /\ list[w] # << >>
                   /\ row[At(w)] # None /\ row[At(w)].status # "pending"
                   /\ At(w) \in DOMAIN mine[w] /\ mine[w][At(w)].status # "pending"
  /\ pc[w] = "look" => mine[w][At(w)].ev # None
  /\ pc[w] = "classify" => In(w, Posts) /\ list[w] # << >>
  /\ Busy(w, Posts) => \A i \in 1..Len(list[w]) : list[w][i] \in Own
  /\ Busy(w, Vision \cup {"evidence"}) => \A i \in 1..Len(list[w]) : row[list[w][i]] # None

\* While an asset is being looked at it is attempted and has no outcome yet.
Pending(w) == IF Looking(w) THEN 1 ELSE 0
CountOk(w) ==
  /\ Busy(w, {"fresh", "backlog", "tranche"}) => count[w].attempted = Outcomes(count[w]) + Pending(w)
  /\ Busy(w, {"fresh"}) =>
       count[w].attempted + count[w].left + Len(list[w])
         = (IF Cardinality(fresh) < FreshCap THEN Cardinality(fresh) ELSE FreshCap) + Pending(w)
  /\ pc[w] = "classify" => count[w].attempted >= 1

\* Only the cron knows what it has just created, and begins with it.
FreshFirst(w) == \A i \in DOMAIN runs[w] : \A k \in DOMAIN runs[w][i] :
                   runs[w][i][k] = "fresh" => w = "cron" /\ k = 1

WorkerOk(w) == SessionOk(w) /\ StageOk(w) /\ CountOk(w) /\ FreshFirst(w)

\* What the cron still has to look at has not been paid for.
CronOk ==
  "cron" \in Workers =>
    /\ \A i, j \in 1..Len(list["cron"]) : list["cron"][i] = list["cron"][j] => i = j
    /\ \A i \in DOMAIN runs["cron"] : \A k \in DOMAIN runs["cron"][i] : runs["cron"][i][k] \in CronStages
    /\ In("cron", {"fresh"}) /\ pc["cron"] = "ready" => \A a \in fresh : paid[a] = 0
    /\ Busy("cron", {"fresh", "backlog"}) =>
         \A i \in 1..Len(list["cron"]) : (pc["cron"] = "write" => i > 1) => paid[list["cron"][i]] = 0
    /\ \A a \in DOMAIN mine["cron"] : mine["cron"][a].status = "pending" =>
         pc["cron"] = "classify" \/ Busy("cron", {"evidence"})
PaidOk == \A a \in Assets : paid[a] = 1 => row[a] # None /\ row[a].status # "pending"

IInv == TablesOk /\ DescribedWithItsPost /\ WorkersOk /\ (\A w \in Workers : WorkerOk(w)) /\ CronOk /\ PaidOk

\* A row never goes away, and never gets back to pending; an analysis stays.
Grows ==
  /\ \A a \in Assets : row[a] # None =>
       row'[a] # None /\ (row[a].status # "pending" => row'[a].status # "pending")
  /\ post \subseteq post'

\* What a step of w leaves alone: everybody else's stage and session, and what is the cron's.
Moves(w) ==
  /\ \A v \in Workers \ {w} : /\ seen'[v] = seen[v] /\ mine'[v] = mine[v]
                              /\ runs'[v] = runs[v] /\ pc'[v] = pc[v]
                              /\ list'[v] = list[v] /\ count'[v] = count[v]
  /\ w # "cron" => fresh' = fresh /\ paid' = paid

\* A worker that has a stage before it has one of the stages, and only the cron that of the new.
LEMMA StageFacts ==
  ASSUME WorkersOk, NEW w \in Workers, WorkerOk(w), NEW S, In(w, S)
  PROVE  /\ Stage(w) \in Stages /\ Stage(w) \in S
         /\ Stage(w) = "fresh" => w = "cron"
<1>1. runs[w] \in Seq(Seq(Stages)) /\ runs[w] # << >> /\ Head(runs[w]) # << >>
  BY DEF WorkersOk, In
<1>2. Head(runs[w]) \in Seq(Stages) /\ Head(runs[w]) = runs[w][1] /\ 1 \in DOMAIN runs[w]
  BY <1>1
<1>3. /\ Stage(w) \in Stages /\ Stage(w) = runs[w][1][1] /\ 1 \in DOMAIN runs[w][1]
  <2> DEFINE r == Head(runs[w])
  <2>1. r \in Seq(Stages) /\ r # << >>
    BY <1>1, <1>2
  <2> HIDE DEF r
  <2>2. Head(r) \in Stages /\ Head(r) = r[1] /\ 1 \in DOMAIN r
    BY <2>1
  <2> QED
    BY <1>2, <2>2 DEF r, Stage
<1>4. Stage(w) = "fresh" => w = "cron"
  BY <1>2, <1>3 DEF WorkerOk, FreshFirst
<1> QED
  BY <1>3, <1>4 DEF In

\* The cron's stages are the four of its run.
LEMMA CronStage ==
  ASSUME IInv, "cron" \in Workers, NEW S, In("cron", S)
  PROVE  Stage("cron") \in CronStages
<1>1. runs["cron"] \in Seq(Seq(Stages)) /\ runs["cron"] # << >> /\ Head(runs["cron"]) # << >>
  BY DEF WorkersOk, In, IInv
<1>2. Head(runs["cron"]) \in Seq(Stages) /\ Head(runs["cron"]) = runs["cron"][1] /\ 1 \in DOMAIN runs["cron"]
  BY <1>1
<1> DEFINE r == Head(runs["cron"])
<1>3. r \in Seq(Stages) /\ r # << >>
  BY <1>1, <1>2
<1> HIDE DEF r
<1>4. Head(r) = r[1] /\ 1 \in DOMAIN r
  BY <1>3
<1> QED
  BY <1>2, <1>4 DEF r, Stage, IInv, CronOk

\* A session that a step leaves alone is still right about tables that have grown.
LEMMA OtherSession ==
  ASSUME Grows, NEW v \in Workers, SessionOk(v),
         seen'[v] = seen[v], mine'[v] = mine[v],
         pc[v] # "classify" \/ (pc'[v] = pc[v] /\ list'[v] = list[v])
  PROVE  SessionOk(v)'
<1>1. DOMAIN mine[v] = DOMAIN seen[v] /\ DOMAIN mine[v] \subseteq Assets
  BY DEF SessionOk
<1>2. ASSUME NEW a \in DOMAIN mine[v] PROVE Held(a, seen[v][a], mine[v][a], Open(v, a))'
  <2>1. Held(a, seen[v][a], mine[v][a], Open(v, a))
    BY DEF SessionOk
  <2>2. Open(v, a) => Open(v, a)'
    BY DEF Open, At
  <2>3. a \in Assets
    BY <1>1
  <2> QED
    BY <2>1, <2>2, <2>3 DEF Held, Grows
<1> QED
  BY <1>1, <1>2 DEF SessionOk

\* So is everything else about a worker that the step leaves alone.
LEMMA OtherWorker ==
  ASSUME IInv, Grows, NEW w \in Workers, NEW v \in Workers \ {w}, Moves(w)
  PROVE  WorkerOk(v)'
<1>1. /\ seen'[v] = seen[v] /\ mine'[v] = mine[v] /\ runs'[v] = runs[v] /\ pc'[v] = pc[v]
      /\ list'[v] = list[v] /\ count'[v] = count[v]
  BY DEF Moves
<1>2. WorkerOk(v) /\ WorkersOk /\ TablesOk
  BY DEF IInv
<1>3. SessionOk(v)'
  BY <1>1, <1>2, OtherSession DEF WorkerOk
<1>4. list[v] \in Seq(Assets)
  BY <1>2 DEF WorkersOk
<1>5. \A S : In(v, S)' <=> In(v, S)
  BY <1>1 DEF In, Stage
<1>6. \A i \in 1..Len(list[v]) : list[v][i] \in Assets
  BY <1>4
<1>7. StageOk(v)'
  <2>1. StageOk(v)
    BY <1>2 DEF WorkerOk
  <2>2. Looking(v)' <=> Looking(v)
    BY <1>1 DEF Looking
  <2>3. At(v)' = At(v) /\ (list[v] # << >> => At(v) \in Assets)
    BY <1>1, <1>4 DEF At
  <2>4. \A S : Busy(v, S)' <=> Busy(v, S)
    BY <1>1, <1>5 DEF Busy
  <2>5. Looking(v) => row'[At(v)] # None /\ row'[At(v)].status # "pending"
    BY <2>1, <2>3 DEF StageOk, Grows
  <2>6. Busy(v, Vision \cup {"evidence"}) => \A i \in 1..Len(list[v]) : row'[list[v][i]] # None
    BY <1>6, <2>1 DEF StageOk, Grows
  <2>7. (Busy(v, Posts) => \A i \in 1..Len(list[v]) : list[v][i] \in Own)'
    BY <1>1, <2>1, <2>4 DEF StageOk
  <2> QED
    BY <1>1, <1>5, <2>1, <2>2, <2>3, <2>4, <2>5, <2>6, <2>7 DEF StageOk
<1>8. CountOk(v)'
  <2>1. CountOk(v)
    BY <1>2 DEF WorkerOk
  <2>2. Pending(v)' = Pending(v) /\ \A S : Busy(v, S)' <=> Busy(v, S)
    BY <1>1, <1>5 DEF Pending, Looking, Busy
  <2>3. Busy(v, {"fresh"}) => fresh' = fresh
    BY <1>2, StageFacts DEF Busy, Moves
  <2> QED
    BY <1>1, <2>1, <2>2, <2>3 DEF CountOk
<1>9. FreshFirst(v)'
  BY <1>1, <1>2 DEF WorkerOk, FreshFirst
<1> QED
  BY <1>3, <1>7, <1>8, <1>9 DEF WorkerOk

\* It is enough to look at the worker that steps.
LEMMA OneMoves ==
  ASSUME IInv, Grows, NEW w \in Workers, Moves(w),
         TablesOk', DescribedWithItsPost', WorkersOk', WorkerOk(w)',
         w = "cron" => CronOk', PaidOk' \/ paid' = paid
  PROVE  IInv'
<1>1. \A v \in Workers : WorkerOk(v)'
  BY OtherWorker
<1>2. CronOk'
  <2> SUFFICES ASSUME w # "cron", "cron" \in Workers PROVE CronOk'
    BY DEF CronOk
  <2>1. /\ runs'["cron"] = runs["cron"] /\ pc'["cron"] = pc["cron"] /\ list'["cron"] = list["cron"]
        /\ mine'["cron"] = mine["cron"] /\ fresh' = fresh /\ paid' = paid
    BY DEF Moves
  <2>2. \A S : (In("cron", S)' <=> In("cron", S)) /\ (Busy("cron", S)' <=> Busy("cron", S))
    BY <2>1 DEF In, Stage, Busy
  <2>3. CronOk
    BY DEF IInv
  <2> QED
    BY <2>1, <2>2, <2>3 DEF CronOk
<1>3. PaidOk'
  BY DEF IInv, PaidOk, Grows
<1> QED
  BY <1>1, <1>2, <1>3 DEF IInv

---------------------------------------------------------------------------------
(* What a session sees, writes and changes.                                                 *)

\* What a session sees is a row, of the tables or its classifier's own.
LEMMA NowOk ==
  ASSUME IInv, NEW w \in Workers, NEW a \in Assets
  PROVE  /\ Now(w, a) \in Asset \cup {None}
         /\ a \in DOMAIN mine[w] => Now(w, a) # None
         /\ Now(w, a) # None => /\ row[a] # None \/ Open(w, a)
                                /\ a \in Own /\ Now(w, a).text => a \in post \/ Open(w, a)
<1>1. CASE a \in DOMAIN mine[w]
  <2>1. Held(a, seen[w][a], mine[w][a], Open(w, a)) /\ Now(w, a) = mine[w][a]
    BY <1>1 DEF IInv, WorkerOk, SessionOk, Now
  <2> QED
    BY <2>1, NoneIsNothing DEF Held
<1>2. CASE a \notin DOMAIN mine[w]
  BY <1>2 DEF IInv, TablesOk, DescribedWithItsPost, Now
<1> QED
  BY <1>1, <1>2

\* A commit: every row but those given apart stays a row, does not get back to pending, and a
\* description is written with its analysis or by the classifier at it.
LEMMA WrittenOk ==
  ASSUME IInv, NEW w \in Workers, ~Collides(w), NEW more,
         NEW a \in Assets, a \notin DOMAIN more
  PROVE  LET r == Written(w, more)[a]
         IN  /\ r \in Asset \cup {None}
             /\ row[a] # None \/ a \in DOMAIN mine[w] => r # None
             /\ row[a] # None /\ row[a].status # "pending" => r.status # "pending"
             /\ a \in Own /\ r # None /\ r.text => a \in post \/ Open(w, a)
<1> DEFINE r == Written(w, more)[a]
<1>1. CASE a \in DOMAIN mine[w]
  <2> DEFINE s == seen[w][a]
             m == mine[w][a]
  <2>1. r = Merged(row[a], s, m)
    BY <1>1 DEF Written
  <2>2. Held(a, s, m, Open(w, a))
    BY <1>1 DEF IInv, WorkerOk, SessionOk
  <2>3. s = None => row[a] = None
    BY <1>1 DEF Collides
  <2>4. row[a] \in Asset \cup {None} /\ (a \in Own /\ row[a] # None /\ row[a].text => a \in post)
    BY DEF IInv, TablesOk, DescribedWithItsPost
  <2> HIDE DEF r, s, m
  <2>5. CASE s = None
    <3>1. r = m
      BY <2>1, <2>5 DEF Merged
    <3> QED
      BY <2>2, <2>3, <2>5, <3>1, NoneIsNothing DEF Held, r
  <2>6. CASE s # None
    <3>1. s \in Asset /\ m \in Asset /\ row[a] \in Asset
      BY <2>2, <2>4, <2>6 DEF Held
    <3>2. /\ r \in Asset
          /\ r.status = IF m.status # s.status THEN m.status ELSE row[a].status
          /\ r.text = IF m.text # s.text THEN m.text ELSE row[a].text
      BY <2>1, <3>1, MergedIsRow
    <3>3. r # None /\ (row[a].status # "pending" => r.status # "pending")
      BY <2>2, <2>6, <3>2, NoneIsNothing DEF Held
    <3>4. a \in Own /\ r.text => a \in post \/ Open(w, a)
      <4>1. s.text \in BOOLEAN /\ m.text \in BOOLEAN /\ row[a].text \in BOOLEAN
        BY <3>1, RowFields
      <4>2. SUFFICES ASSUME a \in Own, r.text, ~Open(w, a) PROVE a \in post
        OBVIOUS
      <4>3. m.text => s.text
        BY <2>2, <4>2 DEF Held
      <4>4. CASE m.text # s.text
        BY <3>2, <4>1, <4>2, <4>3, <4>4
      <4>5. CASE m.text = s.text
        BY <2>4, <2>6, <3>1, <3>2, <4>2, <4>5, NoneIsNothing
      <4> QED
        BY <4>4, <4>5
    <3> QED
      BY <3>2, <3>3, <3>4 DEF r
  <2> QED
    BY <2>5, <2>6
<1>2. CASE a \notin DOMAIN mine[w]
  <2>1. r = row[a]
    BY <1>2 DEF Written
  <2> QED
    BY <1>2, <2>1 DEF IInv, TablesOk, DescribedWithItsPost
<1> QED
  BY <1>1, <1>2

\* Only a classifier adds a row, so that only its commit can be refused by the unique index.
LEMMA NoCollision ==
  ASSUME IInv, NEW w \in Workers, pc[w] # "classify"
  PROVE  ~Collides(w)
<1> SUFFICES ASSUME NEW a \in DOMAIN mine[w], seen[w][a] = None PROVE FALSE
  BY DEF Collides
<1> QED
  BY DEF IInv, WorkerOk, SessionOk, Held, Open

\* So a commit keeps the tables in order, with whatever rows it writes beside the session's.
LEMMA CommitOk ==
  ASSUME IInv, NEW w \in Workers, ~Collides(w), NEW more, row' = Written(w, more),
         post \subseteq post', post' \subseteq Own, \A a \in Own : Open(w, a) => a \in post',
         \A a \in Assets : a \in DOMAIN more =>
           /\ more[a] \in Asset
           /\ row[a] # None /\ row[a].status # "pending" => more[a].status # "pending"
           /\ a \in Own /\ more[a].text => a \in post',
         fresh' = fresh \/ fresh' = {}, paid' = paid
  PROVE  Grows /\ DescribedWithItsPost' /\ TablesOk'
<1>1. TablesOk /\ Own \subseteq Assets /\ New \subseteq Assets
  BY AnalysisAssumption DEF IInv
<1>2. ASSUME NEW a \in Assets
      PROVE  /\ row'[a] \in Asset \cup {None}
             /\ row[a] # None => row'[a] # None /\ (row[a].status # "pending" => row'[a].status # "pending")
             /\ a \in Own /\ row'[a] # None /\ row'[a].text => a \in post'
  <2>1. CASE a \in DOMAIN more
    <3>1. row'[a] = more[a]
      BY <2>1 DEF Written
    <3> QED
      BY <2>1, <3>1, NoneIsNothing
  <2>2. CASE a \notin DOMAIN more
    <3> DEFINE r == Written(w, more)[a]
    <3>1. /\ r \in Asset \cup {None}
          /\ row[a] # None \/ a \in DOMAIN mine[w] => r # None
          /\ row[a] # None /\ row[a].status # "pending" => r.status # "pending"
          /\ a \in Own /\ r # None /\ r.text => a \in post \/ Open(w, a)
      BY <2>2, WrittenOk
    <3>2. row'[a] = r
      OBVIOUS
    <3> HIDE DEF r
    <3> QED
      BY <3>1, <3>2
  <2> QED
    BY <2>1, <2>2
<1>3. row' = [a \in Assets |-> row'[a]]
  BY DEF Written
<1>4. Grows
  BY <1>2 DEF Grows
<1>5. DescribedWithItsPost'
  BY <1>1, <1>2 DEF DescribedWithItsPost
<1>6. TablesOk'
  BY <1>1, <1>2, <1>3 DEF TablesOk
<1> QED
  BY <1>4, <1>5, <1>6

\* The same without rows beside the session's.
LEMMA PlainCommitOk ==
  ASSUME IInv, NEW w \in Workers, ~Collides(w), row' = Written(w, NoRows),
         post \subseteq post', post' \subseteq Own, \A a \in Own : Open(w, a) => a \in post',
         fresh' = fresh \/ fresh' = {}, paid' = paid
  PROVE  Grows /\ DescribedWithItsPost' /\ TablesOk'
<1>1. \A a : a \notin DOMAIN NoRows
  BY DEF NoRows
<1> QED
  BY <1>1, CommitOk

\* A session without rows promises nothing.
LEMMA ForgetOk ==
  ASSUME WorkersOk, NEW w \in Workers, Forget(w)
  PROVE  /\ SessionOk(w)' /\ mine'[w] = NoRows
         /\ DOMAIN seen' = Workers /\ DOMAIN mine' = Workers
         /\ \A v \in Workers \ {w} : seen'[v] = seen[v] /\ mine'[v] = mine[v]
BY DEF Forget, WorkersOk, SessionOk, NoRows

\* The session changes one row, and has read it before or reads it now.
LEMMA ChangeOk ==
  ASSUME IInv, NEW w \in Workers, NEW a \in Assets, NEW v \in Asset, Change(w, a, v), pc[w] # "classify",
         row' = row, post' = post,
         Now(w, a) # None \/ Open(w, a)',
         Now(w, a) # None /\ v.status = "pending" => Now(w, a).status = "pending",
         v.text => (Now(w, a) # None /\ Now(w, a).text) \/ Open(w, a)'
  PROVE  /\ SessionOk(w)'
         /\ mine'[w] = With(mine[w], a, v)
         /\ DOMAIN seen' = Workers /\ DOMAIN mine' = Workers
         /\ \A u \in Workers \ {w} : seen'[u] = seen[u] /\ mine'[u] = mine[u]
<1> DEFINE old == IF a \in DOMAIN seen[w] THEN seen[w][a] ELSE row[a]
<1>1. DOMAIN seen = Workers /\ DOMAIN mine = Workers
  BY DEF IInv, WorkersOk
<1>2. /\ mine'[w] = With(mine[w], a, v) /\ seen'[w] = With(seen[w], a, old)
      /\ DOMAIN seen' = Workers /\ DOMAIN mine' = Workers
      /\ \A u \in Workers \ {w} : seen'[u] = seen[u] /\ mine'[u] = mine[u]
  BY <1>1 DEF Change
<1>3. DOMAIN mine[w] = DOMAIN seen[w] /\ DOMAIN mine[w] \subseteq Assets
  BY DEF IInv, WorkerOk, SessionOk
<1>4. ASSUME NEW b \in DOMAIN mine[w]
      PROVE  Held(b, seen[w][b], mine[w][b], FALSE)
  BY DEF IInv, WorkerOk, SessionOk, Held, Open
<1>5. Held(a, old, v, Open(w, a)')
  <2>1. CASE a \in DOMAIN mine[w]
    <3>1. old = seen[w][a] /\ Now(w, a) = mine[w][a]
      BY <1>3, <2>1 DEF Now
    <3> HIDE DEF old
    <3> QED
      BY <1>4, <2>1, <3>1, NoneIsNothing DEF Held
  <2>2. CASE a \notin DOMAIN mine[w]
    <3>1. old = row[a] /\ Now(w, a) = row[a]
      BY <1>3, <2>2 DEF Now
    <3> HIDE DEF old
    <3> QED
      BY <3>1 DEF Held, IInv, TablesOk, DescribedWithItsPost
  <2> QED
    BY <2>1, <2>2
<1> HIDE DEF old
<1>6. DOMAIN mine'[w] = DOMAIN seen'[w] /\ DOMAIN mine'[w] \subseteq Assets
  BY <1>2, <1>3 DEF With
<1>7. ASSUME NEW b \in DOMAIN mine'[w]
      PROVE  Held(b, seen[w][b], mine[w][b], Open(w, b))'
  <2>1. CASE b = a
    <3>1. mine'[w][b] = v /\ seen'[w][b] = old
      BY <1>2, <2>1 DEF With
    <3> QED
      BY <1>5, <2>1, <3>1 DEF Held, Open
  <2>2. CASE b # a
    <3>1. b \in DOMAIN mine[w] /\ mine'[w][b] = mine[w][b] /\ seen'[w][b] = seen[w][b]
      BY <1>2, <1>3, <2>2 DEF With
    <3> QED
      BY <1>4, <3>1 DEF Held
  <2> QED
    BY <2>1, <2>2
<1> QED
  BY <1>2, <1>6, <1>7 DEF SessionOk

---------------------------------------------------------------------------------
(* Every step keeps the invariant: first the stages.                                        *)

\* A step counts something.
LEMMA AddOk ==
  ASSUME WorkersOk, NEW w \in Workers, NEW n \in Nat,
         NEW f \in {"attempted", "good", "fallback", "fetch", "error", "left"}, Add(w, f, n)
  PROVE  /\ count' \in [Workers -> Count]
         /\ \A v \in Workers \ {w} : count'[v] = count[v]
         /\ count'[w].attempted = IF f = "attempted" THEN count[w].attempted + n ELSE count[w].attempted
         /\ count'[w].left = IF f = "left" THEN count[w].left + n ELSE count[w].left
         /\ Outcomes(count'[w]) = IF f \in {"attempted", "left"} THEN Outcomes(count[w])
                                                                 ELSE Outcomes(count[w]) + n
<1> DEFINE d == [count[w] EXCEPT ![f] = count[w][f] + n]
<1>1. count \in [Workers -> Count]
  BY DEF WorkersOk
<1>2. /\ d \in Count
      /\ d.attempted = IF f = "attempted" THEN count[w].attempted + n ELSE count[w].attempted
      /\ d.left = IF f = "left" THEN count[w].left + n ELSE count[w].left
      /\ Outcomes(d) = IF f \in {"attempted", "left"} THEN Outcomes(count[w]) ELSE Outcomes(count[w]) + n
  BY <1>1, CountUp
<1>3. count' = [count EXCEPT ![w] = d]
  BY DEF Add
<1> HIDE DEF d
<1> QED
  BY <1>1, <1>2, <1>3

\* A step that writes nothing.
LEMMA TablesStay ==
  ASSUME IInv, row' = row, post' = post, fresh' = fresh \/ fresh' = {}
  PROVE  Grows /\ DescribedWithItsPost' /\ (paid' = paid => TablesOk')
<1>1. Grows /\ DescribedWithItsPost'
  BY DEF IInv, Grows, DescribedWithItsPost
<1>2. paid' = paid => TablesOk'
  BY DEF IInv, TablesOk
<1> QED
  BY <1>1, <1>2

\* What a worker has left after a stage: every stage of it was there, at the same place or,
\* in the run that goes on, one further.
RunsAfter(R, N) ==
  /\ N \in Seq(Seq(Stages))
  /\ \A i \in DOMAIN N, k \in Nat : k \in DOMAIN N[i] =>
       \E j \in DOMAIN R, l \in {k, k + 1} : /\ l \in DOMAIN R[j] /\ N[i][k] = R[j][l]
                                             /\ Len(N) = Len(R) /\ i = 1 => l = k + 1
  /\ Len(N) = Len(R) \/ Len(N) < Len(R)

\* The end of a stage is of that kind.
LEMMA RunsLeft ==
  ASSUME NEW R \in Seq(Seq(Stages)), R # << >>, Head(R) # << >>
  PROVE  RunsAfter(R, IF Len(Head(R)) = 1 THEN Tail(R) ELSE <<Tail(Head(R))>> \o Tail(R))
<1> SUFFICES ASSUME NEW N, N = IF Len(Head(R)) = 1 THEN Tail(R) ELSE <<Tail(Head(R))>> \o Tail(R)
             PROVE  RunsAfter(R, N)
  OBVIOUS
<1> DEFINE H == Head(R)
           T == Tail(R)
<1>1. /\ H \in Seq(Stages) /\ H = R[1] /\ 1 \in DOMAIN R
      /\ T \in Seq(Seq(Stages)) /\ Len(T) = Len(R) - 1 /\ Len(R) \in Nat /\ Len(R) > 0
      /\ \A i \in 1..(Len(R) - 1) : T[i] = R[i + 1] /\ i + 1 \in DOMAIN R
      /\ DOMAIN T = 1..(Len(R) - 1)
  OBVIOUS
<1> HIDE DEF T
<1>2. CASE Len(H) = 1
  <2>1. N = T
    BY <1>2 DEF T
  <2>2. ASSUME NEW i \in DOMAIN N, NEW k \in Nat, k \in DOMAIN N[i]
        PROVE  i + 1 \in DOMAIN R /\ k \in DOMAIN R[i + 1] /\ N[i][k] = R[i + 1][k]
    BY <1>1, <2>1, <2>2
  <2>3. Len(N) < Len(R) /\ Len(N) # Len(R)
    BY <1>1, <2>1
  <2>4. ASSUME NEW i \in DOMAIN N, NEW k \in Nat, k \in DOMAIN N[i]
        PROVE  \E j \in DOMAIN R, l \in {k, k + 1} : /\ l \in DOMAIN R[j] /\ N[i][k] = R[j][l]
                                                     /\ Len(N) = Len(R) /\ i = 1 => l = k + 1
    BY <2>2, <2>3, <2>4
  <2> QED
    BY <1>1, <2>1, <2>3, <2>4 DEF RunsAfter
<1>3. CASE Len(H) # 1
  <2> DEFINE G == Tail(H)
  <2>1. H \in Seq(Stages) /\ H # << >>
    BY <1>1
  <2> HIDE DEF H
  <2>2. /\ G \in Seq(Stages) /\ DOMAIN G = 1..(Len(H) - 1) /\ Len(H) \in Nat
        /\ \A k \in 1..(Len(H) - 1) : G[k] = H[k + 1] /\ k + 1 \in DOMAIN H
    BY <2>1
  <2>3. N = <<G>> \o T
    BY <1>3 DEF T, H
  <2> HIDE DEF G
  <2>4. /\ N \in Seq(Seq(Stages)) /\ Len(N) = Len(R) /\ DOMAIN N = 1..Len(R)
        /\ N[1] = G /\ \A i \in 2..Len(R) : N[i] = T[i - 1]
    BY <1>1, <2>2, <2>3
  <2>5. \A i \in 2..Len(R) : N[i] = R[i] /\ i \in DOMAIN R
    BY <1>1, <2>4
  <2>6. ASSUME NEW i \in DOMAIN N, NEW k \in Nat, k \in DOMAIN N[i]
        PROVE  \E j \in DOMAIN R, l \in {k, k + 1} : /\ l \in DOMAIN R[j] /\ N[i][k] = R[j][l]
                                                     /\ Len(N) = Len(R) /\ i = 1 => l = k + 1
    <3>1. CASE i = 1
      <4>1. k + 1 \in DOMAIN R[1] /\ N[i][k] = R[1][k + 1]
        BY <1>1, <2>2, <2>4, <2>6, <3>1
      <4> QED
        BY <1>1, <4>1
    <3>2. CASE i # 1
      <4>1. N[i] = R[i] /\ i \in DOMAIN R
        BY <2>4, <2>5, <3>2
      <4> QED
        BY <2>6, <3>2, <4>1
    <3> QED
      BY <3>1, <3>2
  <2> QED
    BY <2>4, <2>6 DEF RunsAfter
<1> QED
  BY <1>2, <1>3

\* A stage selects what it works through.
LEMMA StepBegin ==
  ASSUME IInv, NEW w \in Workers, BeginStage(w)
  PROVE  IInv'
<1> DEFINE k == Stage(w)
           s == list'[w]
<1>1. /\ TablesOk /\ DescribedWithItsPost /\ WorkersOk /\ WorkerOk(w) /\ CronOk /\ PaidOk
      /\ SessionOk(w) /\ FreshFirst(w)
  BY DEF IInv, WorkerOk
<1>2. /\ pc[w] = "ready" /\ In(w, Stages)
      /\ \E t \in Selected(w, k) : list' = [list EXCEPT ![w] = t]
      /\ count' = [count EXCEPT ![w] = Zero] /\ pc' = [pc EXCEPT ![w] = "next"]
      /\ row' = row /\ post' = post /\ runs' = runs /\ fresh' = fresh /\ paid' = paid
  BY DEF BeginStage, Goes
<1>3. k \in Stages /\ (k = "fresh" => w = "cron")
  BY <1>1, <1>2, StageFacts
<1>4. fresh \subseteq Assets
  BY <1>1, AnalysisAssumption DEF TablesOk
<1>5. /\ s \in Selected(w, k)
      /\ \A v \in Workers \ {w} : list'[v] = list[v] /\ pc'[v] = pc[v] /\ count'[v] = count[v]
      /\ DOMAIN list' = Workers
      /\ pc'[w] = "next" /\ count'[w] = Zero /\ Zero \in Count
      /\ count' \in [Workers -> Count] /\ pc' \in [Workers -> Pcs]
  BY <1>1, <1>2 DEF WorkersOk, Zero, Count, Pcs
<1>6. /\ ListOf(Eligible(w, k), s) /\ ListOf(Assets, s)
      /\ k = "fresh" => Len(s) = IF Cardinality(fresh) < FreshCap THEN Cardinality(fresh) ELSE FreshCap
  BY <1>3, <1>4, <1>5, SelectionOk
<1>7. s \in Seq(Assets) /\ list' \in [Workers -> Seq(Assets)]
  BY <1>1, <1>2, <1>6 DEF ListOf, WorkersOk
<1>8. /\ \A i \in 1..Len(s) : s[i] \in Eligible(w, k) /\ s[i] \in Assets
      /\ \A i, j \in 1..Len(s) : s[i] = s[j] => i = j
  BY <1>6 DEF ListOf
<1>9. Grows /\ DescribedWithItsPost' /\ TablesOk'
  BY <1>2, TablesStay
<1>10. \A S : (In(w, S)' <=> In(w, S)) /\ (Busy(w, S)' <=> In(w, S)) /\ (In(w, S) => k \in S)
  BY <1>2, <1>5 DEF In, Stage, Busy
<1>11. \A a \in Eligible(w, k) : k \notin Posts => row[a] # None
  <2>1. ASSUME NEW a \in Assets, Now(w, a) # None PROVE row[a] # None
    BY <1>2, <2>1, NowOk DEF Open
  <2>2. CASE k = "fresh"
    BY <1>1, <2>2 DEF Eligible, TablesOk
  <2>3. CASE k # "fresh"
    BY <2>1, <2>3 DEF Eligible
  <2> QED
    BY <2>2, <2>3
<1>12. Moves(w) /\ WorkersOk' /\ SessionOk(w)' /\
       (\A a \in DOMAIN mine'[w] : mine'[w][a].status = "pending" =>
          k = "evidence" \/ (a \in DOMAIN mine[w] /\ mine[w][a].status = "pending"))
  <2>1. CASE k # "evidence"
    <3>1. seen' = seen /\ mine' = mine
      BY <2>1 DEF BeginStage
    <3>2. SessionOk(w)'
      BY <1>1, <1>2, <1>9, <3>1, OtherSession
    <3> QED
      BY <1>1, <1>2, <1>5, <1>7, <3>1, <3>2 DEF Moves, WorkersOk
  <2>2. CASE k = "evidence"
    <3> DEFINE R == Range(s)
               D == DOMAIN seen[w]
               sn == [a \in R \cup D |-> IF a \in D THEN seen[w][a] ELSE row[a]]
               mn == [a \in R \cup DOMAIN mine[w] |-> IF a \in DOMAIN mine[w] THEN mine[w][a] ELSE row[a]]
    <3>1. seen' = [seen EXCEPT ![w] = sn] /\ mine' = [mine EXCEPT ![w] = mn]
      BY <2>2 DEF BeginStage
    <3>2. DOMAIN seen = Workers /\ DOMAIN mine = Workers /\ DOMAIN mine[w] = D /\ D \subseteq Assets
      BY <1>1 DEF WorkersOk, SessionOk
    <3>3. /\ R \subseteq Assets /\ \A a \in R : row[a] # None
      <4>1. \A a \in R : \E i \in 1..Len(s) : a = s[i]
        BY <1>7 DEF Range
      <4> HIDE DEF s, R
      <4> QED
        BY <1>8, <1>11, <2>2, <4>1 DEF Posts
    <3> HIDE DEF R, D
    <3>4. /\ DOMAIN sn = R \cup D /\ DOMAIN mn = R \cup D
          /\ \A a \in D : sn[a] = seen[w][a] /\ mn[a] = mine[w][a]
          /\ \A a \in R \ D : sn[a] = row[a] /\ mn[a] = row[a]
      BY <3>2
    <3> HIDE DEF sn, mn
    <3>5. /\ seen'[w] = sn /\ mine'[w] = mn /\ DOMAIN seen' = Workers /\ DOMAIN mine' = Workers
          /\ \A v \in Workers \ {w} : seen'[v] = seen[v] /\ mine'[v] = mine[v]
      BY <3>1, <3>2
    <3>6. ASSUME NEW a \in R \cup D PROVE Held(a, seen[w][a], mine[w][a], Open(w, a))'
      <4>1. CASE a \in D
        <5>1. Held(a, seen[w][a], mine[w][a], Open(w, a)) /\ ~Open(w, a)
          BY <1>1, <1>2, <3>2, <4>1 DEF SessionOk, Open
        <5> QED
          BY <1>2, <3>4, <3>5, <4>1, <5>1 DEF Held
      <4>2. CASE a \in R \ D
        <5>1. row[a] \in Asset /\ (a \in Own /\ row[a].text => a \in post)
          BY <1>1, <3>3, <4>2 DEF TablesOk, DescribedWithItsPost
        <5> QED
          BY <1>2, <3>3, <3>4, <3>5, <4>2, <5>1, NoneIsNothing DEF Held
      <4> QED
        BY <4>1, <4>2
    <3>7. SessionOk(w)'
      BY <3>2, <3>3, <3>4, <3>5, <3>6 DEF SessionOk
    <3> QED
      BY <1>1, <1>2, <1>5, <1>7, <2>2, <3>5, <3>7 DEF Moves, WorkersOk
  <2> QED
    BY <2>1, <2>2
<1>13. StageOk(w)'
  <2>1. ~Looking(w)' /\ pc'[w] # "look" /\ pc'[w] # "classify" /\ In(w, Stages)'
    BY <1>2, <1>5, <1>10 DEF Looking
  <2>2. (Busy(w, Posts) => \A i \in 1..Len(list[w]) : list[w][i] \in Own)'
    BY <1>8, <1>10 DEF Eligible, Posts
  <2>3. (Busy(w, Vision \cup {"evidence"}) => \A i \in 1..Len(list[w]) : row[list[w][i]] # None)'
    BY <1>2, <1>8, <1>10, <1>11 DEF Vision, Posts
  <2> QED
    BY <2>1, <2>2, <2>3 DEF StageOk
<1>14. CountOk(w)'
  <2>1. Pending(w)' = 0 /\ pc'[w] # "classify"
    BY <1>5 DEF Pending, Looking
  <2>2. count'[w].attempted = 0 /\ count'[w].left = 0 /\ Outcomes(count'[w]) = 0
    BY <1>5 DEF Zero, Outcomes
  <2>3. Busy(w, {"fresh"})' => Len(s) = IF Cardinality(fresh) < FreshCap THEN Cardinality(fresh) ELSE FreshCap
    BY <1>6, <1>10
  <2>4. Len(s) \in Nat
    BY <1>7
  <2> QED
    BY <1>2, <2>1, <2>2, <2>3, <2>4 DEF CountOk
<1>15. FreshFirst(w)'
  BY <1>1, <1>2 DEF FreshFirst
<1>16. ASSUME w = "cron" PROVE CronOk'
  <2>1. k \in CronStages /\ \A i \in DOMAIN runs["cron"] : \A l \in DOMAIN runs["cron"][i] :
                              runs["cron"][i][l] \in CronStages
    BY <1>1, <1>2, <1>16, CronStage DEF CronOk
  <2>2. \A a \in DOMAIN mine["cron"] : mine["cron"][a].status # "pending"
    BY <1>1, <1>2, <1>16 DEF CronOk, Busy
  <2>3. Busy("cron", {"fresh", "backlog"})' => \A i \in 1..Len(s) : paid[s[i]] = 0
    <3>1. CASE k = "fresh"
      <4>1. \A a \in fresh : paid[a] = 0
        BY <1>1, <1>2, <1>16, <3>1 DEF CronOk, In
      <4> QED
        BY <1>8, <3>1, <4>1 DEF Eligible
    <3>2. CASE k = "backlog"
      <4>1. \A i \in 1..Len(s) : s[i] \in Assets /\ Now("cron", s[i]) # None /\ Now("cron", s[i]).status = "pending"
        BY <1>8, <1>16, <3>2 DEF Eligible
      <4>2. \A i \in 1..Len(s) : row[s[i]] # None /\ row[s[i]].status = "pending"
        BY <2>2, <4>1 DEF Now
      <4> QED
        BY <1>1, <4>1, <4>2 DEF PaidOk, TablesOk
    <3> QED
      BY <1>10, <1>16, <3>1, <3>2
  <2>4. \A a \in DOMAIN mine'["cron"] : mine'["cron"][a].status = "pending" => Busy("cron", {"evidence"})'
    BY <1>2, <1>10, <1>12, <1>16, <2>2 DEF In
  <2> QED
    BY <1>2, <1>5, <1>8, <1>16, <2>1, <2>3, <2>4 DEF CronOk
<1>17. PaidOk'
  BY <1>1, <1>2 DEF PaidOk
<1> QED
  BY <1>9, <1>12, <1>13, <1>14, <1>15, <1>16, <1>17, OneMoves DEF WorkerOk

\* What follows a stage that is over, whether it came to its end or crashed.
LEMMA Ready ==
  ASSUME IInv, NEW w \in Workers, Grows, Moves(w), TablesOk', DescribedWithItsPost', WorkersOk',
         pc'[w] = "ready", SessionOk(w)', FreshFirst(w)', paid' = paid,
         w = "cron" => /\ list'[w] = << >>
                       /\ \A i \in DOMAIN runs'[w] : \A k \in DOMAIN runs'[w][i] : runs'[w][i][k] \in CronStages
                       /\ fresh' = {} \/ ~In(w, {"fresh"})'
                       /\ \A a \in DOMAIN mine'[w] : mine'[w][a].status # "pending"
  PROVE  IInv'
<1>1. /\ ~Looking(w)' /\ \A S : ~Busy(w, S)'
  BY DEF Looking, Busy
<1>2. StageOk(w)'
  BY <1>1 DEF StageOk
<1>3. CountOk(w)'
  BY <1>1 DEF CountOk
<1>4. ASSUME w = "cron" PROVE CronOk'
  <2>1. In("cron", {"fresh"})' => fresh' = {}
    BY <1>4
  <2>2. \A i, j \in 1..Len(list'["cron"]) : list'["cron"][i] = list'["cron"][j] => i = j
    BY <1>4
  <2> QED
    BY <1>1, <1>4, <2>1, <2>2 DEF CronOk
<1> QED
  BY <1>2, <1>3, <1>4, OneMoves DEF WorkerOk

\* A stage comes to its end, the evidence backfill with a commit.
LEMMA StepEnds ==
  ASSUME IInv, NEW w \in Workers, StageEnds(w)
  PROVE  IInv'
<1> DEFINE N == IF Len(Head(runs[w])) = 1 THEN Tail(runs[w]) ELSE <<Tail(Head(runs[w]))>> \o Tail(runs[w])
<1>1. /\ TablesOk /\ DescribedWithItsPost /\ WorkersOk /\ WorkerOk(w) /\ CronOk /\ PaidOk
      /\ SessionOk(w) /\ FreshFirst(w) /\ StageOk(w)
  BY DEF IInv, WorkerOk
<1>2. /\ pc[w] = "next" /\ list[w] = << >> /\ ~Collides(w)
      /\ runs' = [runs EXCEPT ![w] = N] /\ pc' = [pc EXCEPT ![w] = "ready"]
      /\ fresh' = IF w = "cron" /\ Len(runs'[w]) < Len(runs[w]) THEN {} ELSE fresh
      /\ post' = post /\ list' = list /\ count' = count /\ paid' = paid
  BY DEF StageEnds, Goes
<1>3. /\ runs[w] \in Seq(Seq(Stages)) /\ runs[w] # << >> /\ Head(runs[w]) # << >>
      /\ In(w, Stages)
  BY <1>1, <1>2 DEF WorkersOk, StageOk, In
<1>4. RunsAfter(runs[w], N)
  BY <1>3, RunsLeft
<1> HIDE DEF N
<1>5. \A i \in DOMAIN N : \A k \in DOMAIN N[i] : k \in Nat /\ k >= 1
  <2> SUFFICES ASSUME NEW i \in DOMAIN N PROVE \A k \in DOMAIN N[i] : k \in Nat /\ k >= 1
    OBVIOUS
  <2>1. N[i] \in Seq(Stages)
    BY <1>4 DEF RunsAfter
  <2> QED
    BY <2>1
<1>6. \A i \in DOMAIN N : \A k \in DOMAIN N[i] :
        /\ N[i][k] = "fresh" => w = "cron" /\ k = 1 /\ (i = 1 => Len(N) < Len(runs[w]))
        /\ w = "cron" => N[i][k] \in CronStages
  <2> SUFFICES ASSUME NEW i \in DOMAIN N, NEW k \in DOMAIN N[i]
               PROVE  /\ N[i][k] = "fresh" => w = "cron" /\ k = 1 /\ (i = 1 => Len(N) < Len(runs[w]))
                      /\ w = "cron" => N[i][k] \in CronStages
    OBVIOUS
  <2>1. k \in Nat /\ k >= 1
    BY <1>5
  <2>2. PICK j \in DOMAIN runs[w], l \in {k, k + 1} :
          /\ l \in DOMAIN runs[w][j] /\ N[i][k] = runs[w][j][l]
          /\ Len(N) = Len(runs[w]) /\ i = 1 => l = k + 1
    BY <1>4, <2>1 DEF RunsAfter
  <2>3. N[i][k] = "fresh" => w = "cron" /\ l = 1
    BY <1>1, <2>2 DEF FreshFirst
  <2>4. w = "cron" => N[i][k] \in CronStages
    BY <1>1, <2>2 DEF CronOk
  <2> QED
    BY <1>4, <2>1, <2>2, <2>3, <2>4 DEF RunsAfter
<1>7. /\ runs'[w] = N /\ pc'[w] = "ready" /\ runs' \in [Workers -> Seq(Seq(Stages))]
      /\ pc' \in [Workers -> Pcs]
      /\ \A v \in Workers \ {w} : runs'[v] = runs[v] /\ pc'[v] = pc[v]
  BY <1>1, <1>2, <1>4 DEF WorkersOk, Pcs, RunsAfter
<1>8. /\ Grows /\ DescribedWithItsPost' /\ TablesOk' /\ SessionOk(w)'
      /\ DOMAIN seen' = Workers /\ DOMAIN mine' = Workers
      /\ \A v \in Workers \ {w} : seen'[v] = seen[v] /\ mine'[v] = mine[v]
      /\ w = "cron" => \A a \in DOMAIN mine'[w] : mine'[w][a].status # "pending"
  <2>1. CASE Stage(w) = "evidence"
    <3>1. row' = Written(w, NoRows) /\ Forget(w)
      BY <2>1 DEF StageEnds
    <3>2. Grows /\ DescribedWithItsPost' /\ TablesOk'
      BY <1>1, <1>2, <3>1, PlainCommitOk DEF TablesOk, Open
    <3>3. /\ SessionOk(w)' /\ mine'[w] = NoRows
          /\ DOMAIN seen' = Workers /\ DOMAIN mine' = Workers
          /\ \A v \in Workers \ {w} : seen'[v] = seen[v] /\ mine'[v] = mine[v]
      BY <1>1, <3>1, ForgetOk
    <3> QED
      BY <3>2, <3>3 DEF NoRows
  <2>2. CASE Stage(w) # "evidence"
    <3>1. row' = row /\ seen' = seen /\ mine' = mine
      BY <2>2 DEF StageEnds
    <3>2. Grows /\ DescribedWithItsPost' /\ TablesOk'
      BY <1>2, <3>1, TablesStay
    <3>3. SessionOk(w)'
      BY <1>1, <1>2, <3>1, <3>2, OtherSession
    <3>4. w = "cron" => \A a \in DOMAIN mine[w] : mine[w][a].status # "pending"
      BY <1>1, <1>2, <2>2 DEF CronOk, Busy, In
    <3> QED
      BY <1>1, <3>1, <3>2, <3>3, <3>4 DEF WorkersOk
  <2> QED
    BY <2>1, <2>2
<1>9. Moves(w)
  BY <1>2, <1>7, <1>8 DEF Moves
<1>10. WorkersOk'
  BY <1>1, <1>2, <1>7, <1>8 DEF WorkersOk
<1>11. FreshFirst(w)'
  BY <1>6, <1>7 DEF FreshFirst
<1>12. ASSUME w = "cron" PROVE fresh' = {} \/ ~In(w, {"fresh"})'
  <2> SUFFICES ASSUME In(w, {"fresh"})' PROVE Len(N) < Len(runs[w])
    BY <1>2, <1>7, <1>12
  <2>1. N # << >> /\ Head(N) # << >> /\ Head(Head(N)) = "fresh"
    BY <1>7 DEF In, Stage
  <2>2. 1 \in DOMAIN N /\ N[1] = Head(N) /\ N[1] \in Seq(Stages)
    BY <1>4, <2>1 DEF RunsAfter
  <2> DEFINE H == Head(N)
  <2>3. H \in Seq(Stages) /\ H # << >>
    BY <2>1, <2>2
  <2> HIDE DEF H
  <2>4. 1 \in DOMAIN H /\ H[1] = Head(H)
    BY <2>3
  <2> QED
    BY <1>6, <2>1, <2>2, <2>4 DEF H
<1> QED
  BY <1>2, <1>6, <1>7, <1>8, <1>9, <1>10, <1>11, <1>12, Ready

\* A crash takes the session and the run with it.
LEMMA StepCrash ==
  ASSUME IInv, NEW w \in Workers, Crash(w)
  PROVE  IInv'
<1>1. WorkersOk /\ WorkerOk(w) /\ CronOk /\ FreshFirst(w)
  BY DEF IInv, WorkerOk
<1>2. /\ runs[w] # << >> /\ Forget(w)
      /\ runs' = [runs EXCEPT ![w] = Tail(runs[w])]
      /\ fresh' = IF w = "cron" THEN {} ELSE fresh
      /\ list' = [list EXCEPT ![w] = << >>] /\ pc' = [pc EXCEPT ![w] = "ready"]
      /\ row' = row /\ post' = post /\ count' = count /\ paid' = paid
  BY DEF Crash, Goes
<1>3. runs[w] \in Seq(Seq(Stages))
  BY <1>1 DEF WorkersOk
<1>4. /\ Tail(runs[w]) \in Seq(Seq(Stages))
      /\ \A i \in DOMAIN Tail(runs[w]) : i + 1 \in DOMAIN runs[w] /\ Tail(runs[w])[i] = runs[w][i + 1]
  BY <1>2, <1>3
<1>5. Grows /\ DescribedWithItsPost' /\ TablesOk'
  BY <1>2, TablesStay
<1>6. /\ SessionOk(w)' /\ mine'[w] = NoRows
      /\ DOMAIN seen' = Workers /\ DOMAIN mine' = Workers
      /\ \A v \in Workers \ {w} : seen'[v] = seen[v] /\ mine'[v] = mine[v]
  BY <1>1, <1>2, ForgetOk
<1>7. /\ runs' \in [Workers -> Seq(Seq(Stages))] /\ runs'[w] = Tail(runs[w])
      /\ pc' \in [Workers -> Pcs] /\ pc'[w] = "ready"
      /\ list' \in [Workers -> Seq(Assets)] /\ list'[w] = << >>
      /\ \A v \in Workers \ {w} : runs'[v] = runs[v] /\ pc'[v] = pc[v] /\ list'[v] = list[v]
  BY <1>1, <1>2, <1>4 DEF WorkersOk, Pcs
<1>8. WorkersOk' /\ Moves(w)
  BY <1>1, <1>2, <1>6, <1>7 DEF WorkersOk, Moves
<1>9. FreshFirst(w)' /\ (w = "cron" => \A i \in DOMAIN runs'[w] : \A k \in DOMAIN runs'[w][i] :
                                          runs'[w][i][k] \in CronStages)
  <2>1. \A i \in DOMAIN runs'[w] : i + 1 \in DOMAIN runs[w] /\ runs'[w][i] = runs[w][i + 1]
    BY <1>4, <1>7
  <2>2. FreshFirst(w)'
    BY <1>1, <2>1 DEF FreshFirst
  <2>3. ASSUME w = "cron" PROVE \A i \in DOMAIN runs'[w] : \A k \in DOMAIN runs'[w][i] :
                                  runs'[w][i][k] \in CronStages
    BY <1>1, <2>1, <2>3 DEF CronOk
  <2> QED
    BY <2>2, <2>3
<1> QED
  BY <1>2, <1>5, <1>6, <1>7, <1>8, <1>9, Ready DEF NoRows

\* The deadline empties the list, and what was in it is counted as left.
LEMMA StepOutOfTime ==
  ASSUME IInv, NEW w \in Workers, OutOfTime(w)
  PROVE  IInv'
<1>1. /\ WorkersOk /\ WorkerOk(w) /\ CronOk /\ FreshFirst(w) /\ SessionOk(w) /\ CountOk(w) /\ StageOk(w)
  BY DEF IInv, WorkerOk
<1>2. /\ pc[w] = "next" /\ Add(w, "left", Len(list[w])) /\ list' = [list EXCEPT ![w] = << >>]
      /\ row' = row /\ post' = post /\ seen' = seen /\ mine' = mine /\ runs' = runs /\ pc' = pc
      /\ fresh' = fresh /\ paid' = paid
  BY DEF OutOfTime
<1>3. Len(list[w]) \in Nat /\ count[w] \in Count
  BY <1>1 DEF WorkersOk
<1>4. /\ count' \in [Workers -> Count]
      /\ \A v \in Workers \ {w} : count'[v] = count[v]
      /\ count'[w].attempted = count[w].attempted /\ count'[w].left = count[w].left + Len(list[w])
      /\ Outcomes(count'[w]) = Outcomes(count[w])
  BY <1>1, <1>2, <1>3, AddOk
<1>5. Grows /\ DescribedWithItsPost' /\ TablesOk'
  BY <1>2, TablesStay
<1>6. SessionOk(w)'
  BY <1>1, <1>2, <1>5, OtherSession
<1>7. /\ list' \in [Workers -> Seq(Assets)] /\ list'[w] = << >>
      /\ \A v \in Workers \ {w} : list'[v] = list[v]
  BY <1>1, <1>2 DEF WorkersOk
<1>8. WorkersOk' /\ Moves(w)
  BY <1>1, <1>2, <1>4, <1>7 DEF WorkersOk, Moves
<1>9. /\ ~Looking(w) /\ ~Looking(w)'
      /\ \A S : (In(w, S)' <=> In(w, S)) /\ (Busy(w, S)' <=> Busy(w, S))
  BY <1>2 DEF Looking, In, Stage, Busy
<1>10. StageOk(w)'
  BY <1>1, <1>2, <1>7, <1>9 DEF StageOk
<1>11. CountOk(w)'
  <2>1. Pending(w) = 0 /\ Pending(w)' = 0 /\ Len(list'[w]) = 0
    BY <1>7, <1>9 DEF Pending
  <2>2. count[w].left \in Nat /\ count[w].attempted \in Nat
    BY <1>3 DEF Count
  <2> QED
    BY <1>1, <1>2, <1>3, <1>4, <1>9, <2>1, <2>2 DEF CountOk
<1>12. FreshFirst(w)'
  BY <1>1, <1>2 DEF FreshFirst
<1>13. w = "cron" => CronOk'
  BY <1>1, <1>2, <1>7, <1>9 DEF CronOk
<1> QED
  BY <1>2, <1>5, <1>6, <1>8, <1>10, <1>11, <1>12, <1>13, OneMoves DEF WorkerOk

---------------------------------------------------------------------------------
(* A look at an asset.                                                                      *)

\* The number of new assets the stage takes is one.
LEMMA SelectionSize ==
  ASSUME TablesOk
  PROVE  (IF Cardinality(fresh) < FreshCap THEN Cardinality(fresh) ELSE FreshCap) \in Nat
<1>1. IsFiniteSet(fresh) /\ FreshCap \in Nat
  BY AnalysisAssumption, FS_Subset DEF TablesOk
<1> QED
  BY <1>1, FS_CardinalityType

\* The item a worker is at, and those after it.
LEMMA HeadOk ==
  ASSUME WorkersOk, NEW w \in Workers, list[w] # << >>
  PROVE  /\ At(w) \in Assets /\ At(w) = list[w][1]
         /\ Len(list[w]) \in Nat /\ Len(list[w]) >= 1
         /\ Tail(list[w]) \in Seq(Assets) /\ Len(Tail(list[w])) = Len(list[w]) - 1
         /\ \A i \in 1..(Len(list[w]) - 1) : Tail(list[w])[i] = list[w][i + 1]
<1> DEFINE s == list[w]
<1>1. s \in Seq(Assets) /\ s # << >>
  BY DEF WorkersOk
<1> HIDE DEF s
<1>2. /\ Head(s) \in Assets /\ Head(s) = s[1]
      /\ Len(s) \in Nat /\ Len(s) >= 1
      /\ Tail(s) \in Seq(Assets) /\ Len(Tail(s)) = Len(s) - 1
      /\ \A i \in 1..(Len(s) - 1) : Tail(s)[i] = s[i + 1]
  BY <1>1
<1> QED
  BY <1>2 DEF s, At

\* What the counters say of a stage is true again when an attempt is counted as it begins, and
\* an outcome as it ends.
Balanced(w) ==
  /\ count'[w].attempted - Outcomes(count'[w]) - Pending(w)'
       = count[w].attempted - Outcomes(count[w]) - Pending(w)
  /\ count'[w].attempted + Len(list'[w]) - Pending(w)' = count[w].attempted + Len(list[w]) - Pending(w)
  /\ count'[w].left = count[w].left

\* Counters are numbers.
LEMMA CountFields ==
  ASSUME NEW c \in Count
  PROVE  c.attempted \in Nat /\ c.left \in Nat /\ Outcomes(c) \in Nat
<1>1. c.attempted \in Nat /\ c.left \in Nat /\ c.good \in Nat /\ c.fallback \in Nat /\ c.fetch \in Nat /\ c.error \in Nat
  BY DEF Count
<1> QED
  BY <1>1 DEF Outcomes

\* A balanced step keeps what the counters say.
LEMMA CountBalanced ==
  ASSUME IInv, NEW w \in Workers, count'[w] \in Count, Len(list'[w]) \in Nat, Balanced(w),
         runs'[w] = runs[w], fresh' = fresh, pc[w] # "ready", pc'[w] \notin {"ready", "classify"}
  PROVE  CountOk(w)'
<1>1. TablesOk /\ WorkersOk /\ CountOk(w)
  BY DEF IInv, WorkerOk
<1>2. \A S : Busy(w, S)' <=> Busy(w, S)
  BY DEF Busy, In, Stage
<1> DEFINE c == count[w]
           d == count'[w]
           p == Pending(w)
           q == Pending(w)'
           m == IF Cardinality(fresh) < FreshCap THEN Cardinality(fresh) ELSE FreshCap
<1>3. /\ c.attempted \in Nat /\ c.left \in Nat /\ Outcomes(c) \in Nat
      /\ d.attempted \in Nat /\ d.left \in Nat /\ Outcomes(d) \in Nat
      /\ p \in Int /\ q \in Int /\ Len(list[w]) \in Nat /\ Len(list'[w]) \in Nat /\ m \in Nat
  <2>1. c \in Count /\ d \in Count /\ list[w] \in Seq(Assets)
    BY <1>1 DEF WorkersOk
  <2>2. p \in Int /\ q \in Int
    BY DEF Pending
  <2>3. Len(list[w]) \in Nat
    BY <2>1
  <2>4. m \in Nat
    BY <1>1, SelectionSize
  <2> HIDE DEF c, d, p, q, m
  <2> QED
    BY <2>1, <2>2, <2>3, <2>4, CountFields
<1>4. /\ d.attempted - Outcomes(d) - q = c.attempted - Outcomes(c) - p
      /\ d.attempted + Len(list'[w]) - q = c.attempted + Len(list[w]) - p
      /\ d.left = c.left
  BY DEF Balanced
<1>5. /\ Busy(w, {"fresh", "backlog", "tranche"}) => c.attempted = Outcomes(c) + p
      /\ Busy(w, {"fresh"}) => c.attempted + c.left + Len(list[w]) = m + p
  BY <1>1 DEF CountOk
<1> HIDE DEF c, d, p, q, m
<1>6. /\ Busy(w, {"fresh", "backlog", "tranche"}) => d.attempted = Outcomes(d) + q
      /\ Busy(w, {"fresh"}) => d.attempted + d.left + Len(list'[w]) = m + q
  <2> DEFINE a1 == c.attempted
             a2 == d.attempted
             o1 == Outcomes(c)
             o2 == Outcomes(d)
             n1 == Len(list[w])
             n2 == Len(list'[w])
             l  == c.left
  <2>1. /\ a1 \in Nat /\ a2 \in Nat /\ o1 \in Nat /\ o2 \in Nat /\ n1 \in Nat /\ n2 \in Nat
        /\ l \in Nat /\ m \in Nat /\ p \in Int /\ q \in Int
        /\ a2 - o2 - q = a1 - o1 - p /\ a2 + n2 - q = a1 + n1 - p
    BY <1>3, <1>4
  <2> HIDE DEF a1, a2, o1, o2, n1, n2, l
  <2>2. /\ a1 = o1 + p => a2 = o2 + q
        /\ a1 + l + n1 = m + p => a2 + l + n2 = m + q
    BY <2>1
  <2> QED
    BY <1>4, <1>5, <2>2 DEF a1, a2, o1, o2, n1, n2, l
<1> QED
  BY <1>2, <1>6 DEF CountOk, d, q, m

\* A look that begins is balanced: one attempt more, one pending.
LEMMA CountStarts ==
  ASSUME IInv, NEW w \in Workers, pc[w] = "next", pc'[w] = "capture",
         count'[w] \in Count, count'[w].attempted = count[w].attempted + 1, count'[w].left = count[w].left,
         Outcomes(count'[w]) = Outcomes(count[w]),
         list' = list, runs' = runs, fresh' = fresh
  PROVE  CountOk(w)'
<1>1. count[w] \in Count /\ list[w] \in Seq(Assets)
  BY DEF IInv, WorkersOk
<1>2. Pending(w) = 0 /\ Pending(w)' = 1
  BY DEF Pending, Looking
<1>3. Len(list[w]) \in Nat /\ count[w].attempted \in Nat /\ Outcomes(count[w]) \in Nat
  <2>1. Len(list[w]) \in Nat
    BY <1>1
  <2> QED
    BY <1>1, <2>1, CountFields
<1>4. Balanced(w)
  <2> DEFINE a == count[w].attempted
             o == Outcomes(count[w])
             n == Len(list[w])
  <2>1. /\ count'[w].attempted = a + 1 /\ Outcomes(count'[w]) = o /\ Len(list'[w]) = n
        /\ a \in Nat /\ o \in Nat /\ n \in Nat
    BY <1>3
  <2> HIDE DEF a, o, n
  <2>2. (a + 1) - o - 1 = a - o - 0 /\ (a + 1) + n - 1 = a + n - 0
    BY <2>1
  <2>3. /\ count'[w].attempted - Outcomes(count'[w]) - Pending(w)' = a - o - Pending(w)
        /\ count'[w].attempted + Len(list'[w]) - Pending(w)' = a + n - Pending(w)
    BY <1>2, <2>1, <2>2
  <2> QED
    BY <2>3 DEF Balanced, a, o, n
<1> QED
  BY <1>3, <1>4, CountBalanced

\* A look that ends is balanced: one outcome more, none pending, one item fewer.
LEMMA CountEnds ==
  ASSUME IInv, NEW w \in Workers, Looking(w), pc'[w] = "next",
         count'[w] \in Count, count'[w].attempted = count[w].attempted, count'[w].left = count[w].left,
         Outcomes(count'[w]) = Outcomes(count[w]) + 1,
         Len(list'[w]) = Len(list[w]) - 1, Len(list[w]) >= 1, runs'[w] = runs[w], fresh' = fresh
  PROVE  CountOk(w)'
<1>1. count[w] \in Count /\ list[w] \in Seq(Assets)
  BY DEF IInv, WorkersOk
<1>2. Pending(w) = 1 /\ Pending(w)' = 0
  BY DEF Pending, Looking
<1>3. /\ Len(list[w]) \in Nat /\ Len(list[w]) - 1 \in Nat
      /\ count[w].attempted \in Nat /\ Outcomes(count[w]) \in Nat
  <2>1. Len(list[w]) \in Nat
    BY <1>1
  <2> QED
    BY <1>1, <2>1, CountFields
<1>4. Balanced(w)
  <2> DEFINE a == count[w].attempted
             o == Outcomes(count[w])
             n == Len(list[w])
  <2>1. /\ count'[w].attempted = a /\ Outcomes(count'[w]) = o + 1 /\ Len(list'[w]) = n - 1
        /\ a \in Nat /\ o \in Nat /\ n \in Nat
    BY <1>3
  <2> HIDE DEF a, o, n
  <2>2. a - (o + 1) - 0 = a - o - 1 /\ a + (n - 1) - 0 = a + n - 1
    BY <2>1
  <2>3. /\ count'[w].attempted - Outcomes(count'[w]) - Pending(w)' = a - o - Pending(w)
        /\ count'[w].attempted + Len(list'[w]) - Pending(w)' = a + n - Pending(w)
    BY <1>2, <2>1, <2>2
  <2> QED
    BY <2>3 DEF Balanced, a, o, n
<1> QED
  BY <1>3, <1>4, CountBalanced DEF Looking

\* The worker goes on to the next item, with what it has in its session.
LEMMA NextItem ==
  ASSUME IInv, NEW w \in Workers, Grows, pc[w] # "ready", list[w] # << >>,
         list' = [list EXCEPT ![w] = Tail(list[w])],
         pc'[w] = "next", runs'[w] = runs[w], fresh' = fresh, paid' = paid,
         w = "cron" => \/ In(w, {"evidence"})
                       \/ \A a \in DOMAIN mine'[w] : mine'[w][a].status # "pending"
  PROVE  /\ StageOk(w)' /\ FreshFirst(w)' /\ (w = "cron" => CronOk')
         /\ list' \in [Workers -> Seq(Assets)] /\ Len(list'[w]) = Len(list[w]) - 1
         /\ \A v \in Workers \ {w} : list'[v] = list[v]
<1>1. WorkersOk /\ WorkerOk(w) /\ StageOk(w) /\ FreshFirst(w) /\ CronOk
  BY DEF IInv, WorkerOk
<1> DEFINE n == Len(list[w])
           t == Tail(list[w])
<1>2. /\ n \in Nat /\ n >= 1 /\ t \in Seq(Assets) /\ Len(t) = n - 1
      /\ \A i \in 1..(n - 1) : t[i] = list[w][i + 1] /\ i + 1 \in 1..n /\ i + 1 > 1
  BY <1>1, HeadOk
<1>3. \A i \in 1..n : list[w][i] \in Assets
  BY <1>1 DEF WorkersOk
<1> HIDE DEF t
<1>4. /\ list'[w] = t /\ list' \in [Workers -> Seq(Assets)]
      /\ \A v \in Workers \ {w} : list'[v] = list[v]
  BY <1>1, <1>2 DEF WorkersOk, t
<1> HIDE DEF n
<1>5. /\ ~Looking(w)' /\ \A S : (In(w, S)' <=> In(w, S)) /\ (Busy(w, S)' <=> In(w, S)) /\ (Busy(w, S) <=> In(w, S))
  BY DEF Looking, In, Stage, Busy
<1>6. StageOk(w)'
  <2>1. \A i \in 1..(n - 1) : row[list[w][i + 1]] # None => row'[list[w][i + 1]] # None
    BY <1>2, <1>3 DEF Grows
  <2>2. (Busy(w, Vision \cup {"evidence"}) => \A i \in 1..Len(list[w]) : row[list[w][i]] # None)'
    BY <1>1, <1>2, <1>4, <1>5, <2>1 DEF StageOk, n
  <2>3. (Busy(w, Posts) => \A i \in 1..Len(list[w]) : list[w][i] \in Own)'
    BY <1>1, <1>2, <1>4, <1>5 DEF StageOk, n
  <2>4. In(w, Stages)'
    BY <1>1, <1>5 DEF StageOk
  <2> QED
    BY <1>5, <2>2, <2>3, <2>4 DEF StageOk
<1>7. FreshFirst(w)'
  BY <1>1 DEF FreshFirst
<1>8. ASSUME w = "cron" PROVE CronOk'
  <2>1. \A i, j \in 1..(n - 1) : t[i] = t[j] => i = j
    <3>1. \A i, j \in 1..n : list[w][i] = list[w][j] => i = j
      BY <1>1, <1>8 DEF CronOk, n
    <3>2. ASSUME NEW i \in 1..(n - 1), NEW j \in 1..(n - 1), t[i] = t[j] PROVE i = j
      <4>1. i + 1 = j + 1
        BY <1>2, <3>1, <3>2
      <4> QED
        BY <1>2, <4>1
    <3> QED
      BY <3>2
  <2>2. Busy("cron", {"fresh", "backlog"})' => \A i \in 1..(n - 1) : paid[t[i]] = 0
    BY <1>1, <1>2, <1>5, <1>8 DEF CronOk, n
  <2>3. \A a \in DOMAIN mine'["cron"] : mine'["cron"][a].status = "pending" => Busy("cron", {"evidence"})'
    BY <1>5, <1>8
  <2>4. Len(list'["cron"]) = n - 1 /\ list'["cron"] = t /\ runs'["cron"] = runs["cron"] /\ pc'["cron"] = "next"
    BY <1>2, <1>4, <1>8
  <2>5. \A i, j \in 1..Len(list'["cron"]) : list'["cron"][i] = list'["cron"][j] => i = j
    <3> SUFFICES ASSUME NEW i \in 1..Len(list'["cron"]), NEW j \in 1..Len(list'["cron"]),
                        list'["cron"][i] = list'["cron"][j]
                 PROVE  i = j
      OBVIOUS
    <3>1. i \in 1..(n - 1) /\ j \in 1..(n - 1) /\ t[i] = t[j]
      BY <2>4
    <3> QED
      BY <2>1, <3>1
  <2>6. Busy("cron", {"fresh", "backlog"})' => \A i \in 1..Len(list'["cron"]) : paid'[list'["cron"][i]] = 0
    BY <2>2, <2>4
  <2>7. \A i \in DOMAIN runs'["cron"] : \A k \in DOMAIN runs'["cron"][i] : runs'["cron"][i][k] \in CronStages
    BY <1>1, <1>8, <2>4 DEF CronOk
  <2> QED
    BY <2>3, <2>4, <2>5, <2>6, <2>7 DEF CronOk
<1> QED
  BY <1>2, <1>4, <1>6, <1>7, <1>8 DEF n

\* While it looks the worker stays at its item.
LEMMA SameItem ==
  ASSUME IInv, NEW w \in Workers, Grows, pc[w] \in {"next", "capture", "look"}, list[w] # << >>,
         In(w, Vision), list' = list, runs' = runs, fresh' = fresh,
         pc'[w] \in {"capture", "look", "write"}, pc'[w] = "look" => mine'[w][At(w)].ev # None,
         At(w) \in DOMAIN mine'[w],
         \A a \in DOMAIN mine'[w] : w = "cron" \/ a = At(w) => mine'[w][a].status # "pending",
         row'[At(w)] # None, row'[At(w)].status # "pending",
         paid' = paid \/ (pc'[w] = "write" /\ \A a \in Assets : a # At(w) => paid'[a] = paid[a])
  PROVE  StageOk(w)' /\ FreshFirst(w)' /\ (w = "cron" => CronOk')
<1>1. WorkersOk /\ WorkerOk(w) /\ StageOk(w) /\ FreshFirst(w) /\ CronOk
  BY DEF IInv, WorkerOk
<1>2. /\ Looking(w)' /\ At(w)' = At(w)
      /\ \A S : (In(w, S)' <=> In(w, S)) /\ (Busy(w, S)' <=> In(w, S)) /\ (Busy(w, S) <=> In(w, S))
  BY DEF Looking, In, Stage, Busy, At
<1>3. ~In(w, Posts)
  BY DEF In, Vision, Posts
<1>4. \A i \in 1..Len(list[w]) : list[w][i] \in Assets
  BY <1>1 DEF WorkersOk
<1>5. StageOk(w)'
  <2>1. (Busy(w, Vision \cup {"evidence"}) => \A i \in 1..Len(list[w]) : row[list[w][i]] # None)'
    BY <1>1, <1>2, <1>4 DEF StageOk, Grows
  <2>2. In(w, Stages)' /\ In(w, Vision)' /\ ~Busy(w, Posts)' /\ list'[w] # << >>
    BY <1>1, <1>2, <1>3 DEF StageOk
  <2>3. mine'[w][At(w)].status # "pending" /\ pc'[w] # "classify"
    OBVIOUS
  <2> QED
    BY <1>2, <2>1, <2>2, <2>3 DEF StageOk
<1>6. FreshFirst(w)'
  BY <1>1 DEF FreshFirst
<1>7. ASSUME w = "cron" PROVE CronOk'
  <2>1. ASSUME Busy("cron", {"fresh", "backlog"})', NEW i \in 1..Len(list["cron"]), pc'["cron"] = "write" => i > 1
        PROVE  paid'[list["cron"][i]] = 0
    <3>1. paid[list["cron"][i]] = 0
      BY <1>1, <1>2, <1>7, <2>1 DEF CronOk
    <3>2. paid' # paid => list["cron"][i] # At("cron")
      <4>1. At("cron") = list["cron"][1] /\ 1 \in 1..Len(list["cron"])
        BY <1>1, <1>7, HeadOk
      <4> QED
        BY <1>1, <1>7, <2>1, <4>1 DEF CronOk
    <3> QED
      BY <1>4, <1>7, <3>1, <3>2
  <2> QED
    BY <1>1, <1>2, <1>7, <2>1 DEF CronOk
<1> QED
  BY <1>5, <1>6, <1>7

\* The first commit of a look marks the asset as running.
LEMMA StepTake ==
  ASSUME IInv, NEW w \in Workers, Take(w)
  PROVE  IInv'
<1> DEFINE a == At(w)
           v == [Now(w, a) EXCEPT !.status = "running"]
           more == [b \in {a} |-> v]
<1>1. /\ TablesOk /\ WorkersOk /\ WorkerOk(w) /\ StageOk(w) /\ CountOk(w)
  BY DEF IInv, WorkerOk
<1>2. /\ pc[w] = "next" /\ list[w] # << >> /\ In(w, Vision) /\ ~Collides(w)
      /\ row' = Written(w, more)
      /\ seen' = [seen EXCEPT ![w] = [b \in {a} |-> row'[b]]]
      /\ mine' = [mine EXCEPT ![w] = [b \in {a} |-> row'[b]]]
      /\ Add(w, "attempted", 1) /\ pc' = [pc EXCEPT ![w] = "capture"]
      /\ post' = post /\ runs' = runs /\ list' = list /\ fresh' = fresh /\ paid' = paid
  <2>1. \A b \in {a} : b = a
    OBVIOUS
  <2> QED
    BY <2>1 DEF Take, Goes
<1>3. /\ a \in Assets /\ a = list[w][1] /\ Len(list[w]) \in Nat /\ Len(list[w]) >= 1
  BY <1>1, <1>2, HeadOk
<1>4. row[a] # None
  BY <1>1, <1>2, <1>3 DEF StageOk, Busy, In
<1>5. /\ Now(w, a) \in Asset /\ (a \in Own /\ Now(w, a).text => a \in post)
  <2>1. Now(w, a) # None
    BY <1>3, <1>4, NowOk DEF Now
  <2> QED
    BY <1>2, <1>3, <2>1, NowOk DEF Open
<1>6. v \in Asset /\ v.status = "running" /\ v.text = Now(w, a).text
  BY <1>5, StatusIsRow DEF Status
<1> HIDE DEF v, a
<1>7. DOMAIN more = {a} /\ more[a] = v
  OBVIOUS
<1> HIDE DEF more
<1>8. Grows /\ DescribedWithItsPost' /\ TablesOk'
  <2>1. \A b \in Assets : b \in DOMAIN more =>
           /\ more[b] \in Asset
           /\ row[b] # None /\ row[b].status # "pending" => more[b].status # "pending"
           /\ b \in Own /\ more[b].text => b \in post'
    BY <1>2, <1>5, <1>6, <1>7
  <2>2. post \subseteq post' /\ post' \subseteq Own /\ \A b \in Own : Open(w, b) => b \in post'
    BY <1>1, <1>2 DEF TablesOk, Open
  <2> QED
    BY <1>2, <2>1, <2>2, CommitOk
<1>9. row'[a] = v
  BY <1>2, <1>3, <1>7 DEF Written
<1>10. /\ seen'[w] = [b \in {a} |-> v] /\ mine'[w] = [b \in {a} |-> v]
       /\ DOMAIN seen' = Workers /\ DOMAIN mine' = Workers
       /\ \A u \in Workers \ {w} : seen'[u] = seen[u] /\ mine'[u] = mine[u]
  BY <1>1, <1>2, <1>9 DEF WorkersOk
<1>11. SessionOk(w)'
  <2>1. /\ DOMAIN seen'[w] = {a} /\ DOMAIN mine'[w] = {a} /\ seen'[w][a] = v /\ mine'[w][a] = v
    BY <1>10
  <2>2. ASSUME NEW b \in DOMAIN mine'[w] PROVE Held(b, seen[w][b], mine[w][b], Open(w, b))'
    <3>1. b = a /\ seen'[w][b] = v /\ mine'[w][b] = v /\ row'[b] = v
      BY <1>9, <2>1
    <3> QED
      BY <1>2, <1>5, <1>6, <3>1, NoneIsNothing DEF Held
  <2> QED
    BY <1>3, <2>1, <2>2 DEF SessionOk
<1>12. /\ pc'[w] = "capture" /\ pc' \in [Workers -> Pcs]
       /\ \A u \in Workers \ {w} : pc'[u] = pc[u]
  BY <1>1, <1>2 DEF WorkersOk, Pcs
<1>13. /\ count' \in [Workers -> Count] /\ count[w] \in Count
       /\ \A u \in Workers \ {w} : count'[u] = count[u]
       /\ count'[w].attempted = count[w].attempted + 1 /\ count'[w].left = count[w].left
       /\ Outcomes(count'[w]) = Outcomes(count[w])
  BY <1>1, <1>2, AddOk DEF WorkersOk
<1>14. WorkersOk' /\ Moves(w)
  BY <1>1, <1>2, <1>10, <1>12, <1>13 DEF WorkersOk, Moves
<1>15. StageOk(w)' /\ FreshFirst(w)' /\ (w = "cron" => CronOk')
  BY <1>2, <1>6, <1>8, <1>9, <1>10, <1>12, NoneIsNothing, SameItem DEF a
<1>16. CountOk(w)'
  BY <1>1, <1>2, <1>12, <1>13, CountStarts
<1> QED
  BY <1>2, <1>8, <1>11, <1>14, <1>15, <1>16, OneMoves DEF WorkerOk

\* What a worker has before it while it looks.
LEMMA LookingFacts ==
  ASSUME IInv, NEW w \in Workers, Looking(w)
  PROVE  /\ list[w] # << >> /\ In(w, Vision) /\ At(w) \in Assets
         /\ row[At(w)] # None /\ row[At(w)].status # "pending"
         /\ At(w) \in DOMAIN mine[w]
         /\ Now(w, At(w)) = mine[w][At(w)] /\ Now(w, At(w)) \in Asset
         /\ Now(w, At(w)).status # "pending" /\ (pc[w] = "look" => Now(w, At(w)).ev # None)
         /\ w = "cron" => \A a \in DOMAIN mine[w] : mine[w][a].status # "pending"
<1>1. WorkersOk /\ StageOk(w) /\ SessionOk(w) /\ CronOk
  BY DEF IInv, WorkerOk
<1>2. /\ list[w] # << >> /\ In(w, Vision) /\ At(w) \in DOMAIN mine[w]
      /\ row[At(w)] # None /\ row[At(w)].status # "pending"
      /\ mine[w][At(w)].status # "pending" /\ (pc[w] = "look" => mine[w][At(w)].ev # None)
  BY <1>1 DEF StageOk
<1>3. At(w) \in Assets /\ mine[w][At(w)] \in Asset
  BY <1>1, <1>2 DEF SessionOk, Held
<1>4. Now(w, At(w)) = mine[w][At(w)]
  BY <1>2 DEF Now
<1>5. w = "cron" => ~Busy("cron", {"evidence"}) /\ pc["cron"] # "classify"
  BY <1>2 DEF Busy, In, Vision, Looking
<1>6. w = "cron" => \A a \in DOMAIN mine[w] : mine[w][a].status # "pending"
  BY <1>1, <1>5 DEF CronOk
<1> QED
  BY <1>2, <1>3, <1>4, <1>6

\* A step that changes the session's row of the asset looked at, and nothing in the tables.
LEMMA LookChanges ==
  ASSUME IInv, NEW w \in Workers, pc[w] \in {"capture", "look"},
         NEW v \in Asset, Change(w, At(w), v), v.status # "pending", v.text = Now(w, At(w)).text,
         NEW q \in {"look", "write"}, Goes(w, q), q = "look" => v.ev # None,
         row' = row, post' = post, runs' = runs, list' = list, count' = count, fresh' = fresh,
         TablesOk', PaidOk' \/ paid' = paid,
         w # "cron" => paid' = paid,
         paid' = paid \/ (q = "write" /\ \A a \in Assets : a # At(w) => paid'[a] = paid[a])
  PROVE  IInv'
<1>1. WorkersOk /\ CountOk(w)
  BY DEF IInv, WorkerOk
<1>2. /\ list[w] # << >> /\ In(w, Vision) /\ At(w) \in Assets /\ Looking(w)
      /\ row[At(w)] # None /\ row[At(w)].status # "pending"
      /\ Now(w, At(w)) \in Asset
      /\ w = "cron" => \A a \in DOMAIN mine[w] : mine[w][a].status # "pending"
  BY LookingFacts DEF Looking
<1>3. /\ pc'[w] = q /\ pc' \in [Workers -> Pcs] /\ \A u \in Workers \ {w} : pc'[u] = pc[u]
  BY <1>1 DEF WorkersOk, Pcs, Goes
<1>4. Grows /\ DescribedWithItsPost'
  BY TablesStay
<1> DEFINE a == At(w)
<1>5. /\ SessionOk(w)'
      /\ mine'[w] = With(mine[w], a, v)
      /\ DOMAIN seen' = Workers /\ DOMAIN mine' = Workers
      /\ \A u \in Workers \ {w} : seen'[u] = seen[u] /\ mine'[u] = mine[u]
  BY <1>2, ChangeOk, NoneIsNothing
<1>6. /\ a \in DOMAIN mine'[w] /\ mine'[w][a] = v
      /\ \A b \in DOMAIN mine'[w] : b # a => b \in DOMAIN mine[w] /\ mine'[w][b] = mine[w][b]
  BY <1>5 DEF With
<1>7. /\ StageOk(w)' /\ FreshFirst(w)' /\ (w = "cron" => CronOk')
  <2>1. \A b \in DOMAIN mine'[w] : w = "cron" \/ b = At(w) => mine'[w][b].status # "pending"
    BY <1>2, <1>6
  <2>2. /\ row'[At(w)] # None /\ row'[At(w)].status # "pending"
        /\ At(w) \in DOMAIN mine'[w] /\ (pc'[w] = "look" => mine'[w][At(w)].ev # None)
        /\ pc[w] \in {"next", "capture", "look"} /\ pc'[w] \in {"capture", "look", "write"}
        /\ paid' = paid \/ (pc'[w] = "write" /\ \A b \in Assets : b # At(w) => paid'[b] = paid[b])
    BY <1>2, <1>3, <1>6
  <2> QED
    BY <1>2, <1>4, <2>1, <2>2, SameItem
<1>8. CountOk(w)'
  <2>1. Pending(w) = 1 /\ Pending(w)' = 1 /\ pc'[w] \notin {"ready", "classify"}
    BY <1>2, <1>3 DEF Pending, Looking
  <2>2. Balanced(w)
    BY <2>1 DEF Balanced
  <2>3. count'[w] \in Count /\ Len(list'[w]) \in Nat
    BY <1>1 DEF WorkersOk
  <2> QED
    BY <2>1, <2>2, <2>3, CountBalanced
<1>9. WorkersOk' /\ Moves(w)
  BY <1>1, <1>3, <1>5 DEF WorkersOk, Moves
<1> QED
  BY <1>4, <1>5, <1>7, <1>8, <1>9, OneMoves DEF WorkerOk

\* The picture is the one of the ingest or a new one.
LEMMA StepCapture ==
  ASSUME IInv, NEW w \in Workers, Capture(w)
  PROVE  IInv'
<1> DEFINE a == At(w)
           r == Now(w, a)
<1>1. /\ pc[w] = "capture" /\ Goes(w, "look")
      /\ \/ r.ev = "captured" /\ r.key /\ Change(w, a, r)
         \/ \E s \in Fetched(a) : Change(w, a, Shot(r, s))
      /\ row' = row /\ post' = post /\ runs' = runs /\ list' = list /\ count' = count /\ fresh' = fresh
      /\ paid' = paid
  BY DEF Capture
<1>2. r \in Asset /\ r.status # "pending" /\ a \in Assets
  BY <1>1, LookingFacts DEF Looking
<1>3. TablesOk' /\ None \notin {"captured", "no_source", "fetch_failed"}
  BY <1>1, TablesStay, NoneIsNothing
<1>4. PICK v \in Asset : Change(w, a, v) /\ v.status = r.status /\ v.text = r.text /\ v.ev # None
  <2>1. CASE r.ev = "captured" /\ r.key /\ Change(w, a, r)
    BY <1>2, <1>3, <2>1
  <2>2. ASSUME NEW s \in Fetched(a), Change(w, a, Shot(r, s))
        PROVE  \E v \in Asset : Change(w, a, v) /\ v.status = r.status /\ v.text = r.text /\ v.ev # None
    <3>1. Shot(r, s) \in Asset /\ Shot(r, s).status = r.status /\ Shot(r, s).text = r.text
      BY <1>2, ShotIsRow
    <3>2. Shot(r, s).ev = s /\ s # None
      BY <1>3 DEF Shot, Fetched
    <3> QED
      BY <2>2, <3>1, <3>2
  <2> QED
    BY <1>1, <2>1, <2>2
<1> QED
  BY <1>1, <1>2, <1>3, <1>4, LookChanges

\* The look itself, for which only the cron's is counted as paid.  What it is at was not paid for.
LEMMA StepLook ==
  ASSUME IInv, NEW w \in Workers, Look(w)
  PROVE  IInv'
<1> DEFINE a == At(w)
           r == Now(w, a)
           S == IF Pays(w) THEN {"analyzed", "vision_error"}
                ELSE IF r.ev = "captured" THEN {"text_fallback"} ELSE {r.ev}
<1>1. /\ pc[w] = "look" /\ Goes(w, "write")
      /\ \E s \in S : Change(w, a, [r EXCEPT !.status = s])
      /\ paid' = IF Pays(w) /\ w = "cron" THEN [paid EXCEPT ![a] = IF paid[a] < MaxPaid THEN paid[a] + 1 ELSE paid[a]]
                 ELSE paid
      /\ row' = row /\ post' = post /\ runs' = runs /\ list' = list /\ count' = count /\ fresh' = fresh
  BY DEF Look
<1>2. /\ r \in Asset /\ r.status # "pending" /\ r.ev # None /\ a \in Assets /\ list[w] # << >>
      /\ row[a] # None /\ row[a].status # "pending" /\ In(w, Vision)
  BY <1>1, LookingFacts DEF Looking
<1>3. S \subseteq Status \ {"pending"}
  <2>1. r.ev \in {"captured", "no_source", "fetch_failed"}
    BY <1>2, RowFields
  <2> QED
    BY <2>1 DEF Status
<1>4. PICK v \in Asset : Change(w, a, v) /\ v.status # "pending" /\ v.text = r.text
  <2> HIDE DEF S, r
  <2>1. PICK s \in S : Change(w, a, [r EXCEPT !.status = s])
    BY <1>1
  <2>2. s \in Status /\ s # "pending"
    BY <1>3, <2>1
  <2> DEFINE v == [r EXCEPT !.status = s]
  <2>3. v \in Asset /\ v.status = s /\ v.text = r.text
    BY <1>2, <2>2, StatusIsRow
  <2>4. Change(w, a, v)
    BY <2>1
  <2> HIDE DEF v
  <2> QED
    BY <2>2, <2>3, <2>4
<1>5. TablesOk /\ PaidOk /\ CronOk /\ WorkersOk
  BY DEF IInv
<1>6. \/ paid' = paid
      \/ w = "cron" /\ paid' = [paid EXCEPT ![a] = 1]
  <2> SUFFICES ASSUME paid' # paid, w = "cron" PROVE paid' = [paid EXCEPT ![a] = 1]
    BY <1>1
  <2>1. Stage("cron") \in CronStages /\ In("cron", {"fresh", "backlog"})
    BY <1>2, CronStage DEF CronStages, Vision, In
  <2>2. a = list["cron"][1] /\ 1 \in 1..Len(list["cron"])
    BY <1>2, <1>5, HeadOk
  <2>3. paid[a] = 0
    BY <1>1, <1>5, <2>1, <2>2 DEF CronOk, Busy
  <2>4. MaxPaid \in Nat /\ MaxPaid > 0
    BY AnalysisAssumption
  <2> QED
    BY <1>1, <2>3, <2>4
<1>7. /\ TablesOk' /\ PaidOk' /\ \A b \in Assets : b # a => paid'[b] = paid[b]
      /\ w # "cron" => paid' = paid
  BY <1>1, <1>2, <1>5, <1>6 DEF TablesOk, PaidOk
<1> HIDE DEF a
<1> QED
  BY <1>1, <1>2, <1>4, <1>7, LookChanges DEF a

\* The second commit of a look.
LEMMA StepConclude ==
  ASSUME IInv, NEW w \in Workers, Conclude(w)
  PROVE  IInv'
<1> DEFINE f == Outcome(row'[At(w)].status)
<1>1. /\ pc[w] = "write" /\ ~Collides(w) /\ row' = Written(w, NoRows)
      /\ Add(w, f, 1) /\ Forget(w) /\ list' = [list EXCEPT ![w] = Tail(list[w])]
      /\ pc' = [pc EXCEPT ![w] = "next"]
      /\ post' = post /\ runs' = runs /\ fresh' = fresh /\ paid' = paid
  BY DEF Conclude, Goes
<1>2. WorkersOk /\ Looking(w) /\ list[w] # << >> /\ TablesOk
  BY <1>1, LookingFacts DEF IInv, Looking
<1>3. Grows /\ DescribedWithItsPost' /\ TablesOk'
  BY <1>1, <1>2, PlainCommitOk DEF TablesOk, Open
<1>4. /\ SessionOk(w)' /\ mine'[w] = NoRows
      /\ DOMAIN seen' = Workers /\ DOMAIN mine' = Workers
      /\ \A v \in Workers \ {w} : seen'[v] = seen[v] /\ mine'[v] = mine[v]
  BY <1>1, <1>2, ForgetOk
<1>5. /\ pc'[w] = "next" /\ pc' \in [Workers -> Pcs] /\ \A v \in Workers \ {w} : pc'[v] = pc[v]
  BY <1>1, <1>2 DEF WorkersOk, Pcs
<1>6. f \in {"good", "fallback", "fetch", "error"}
  BY DEF Outcome
<1> HIDE DEF f
<1>7. /\ count' \in [Workers -> Count] /\ \A v \in Workers \ {w} : count'[v] = count[v]
      /\ count'[w].attempted = count[w].attempted /\ count'[w].left = count[w].left
      /\ Outcomes(count'[w]) = Outcomes(count[w]) + 1
  BY <1>1, <1>2, <1>6, AddOk
<1>8. /\ StageOk(w)' /\ FreshFirst(w)' /\ (w = "cron" => CronOk')
      /\ list' \in [Workers -> Seq(Assets)] /\ Len(list'[w]) = Len(list[w]) - 1
      /\ \A v \in Workers \ {w} : list'[v] = list[v]
  BY <1>1, <1>2, <1>3, <1>4, <1>5, NextItem DEF NoRows
<1>9. CountOk(w)'
  <2>1. Len(list[w]) >= 1 /\ count'[w] \in Count
    BY <1>2, <1>7, HeadOk
  <2> QED
    BY <1>1, <1>2, <1>5, <1>7, <1>8, <2>1, CountEnds
<1>10. WorkersOk' /\ Moves(w)
  BY <1>1, <1>2, <1>4, <1>5, <1>7, <1>8 DEF WorkersOk, Moves
<1> QED
  BY <1>1, <1>3, <1>4, <1>8, <1>9, <1>10, OneMoves DEF WorkerOk

\* A look that raises leaves its changes in the session.
LEMMA StepLookRaises ==
  ASSUME IInv, NEW w \in Workers, LookRaises(w)
  PROVE  IInv'
<1>1. /\ pc[w] \in {"capture", "look"} /\ Add(w, "error", 1) /\ list' = [list EXCEPT ![w] = Tail(list[w])]
      /\ pc' = [pc EXCEPT ![w] = "next"]
      /\ row' = row /\ post' = post /\ seen' = seen /\ mine' = mine
      /\ runs' = runs /\ fresh' = fresh /\ paid' = paid
  BY DEF LookRaises, Goes
<1>2. /\ WorkersOk /\ SessionOk(w) /\ Looking(w) /\ list[w] # << >>
      /\ w = "cron" => \A a \in DOMAIN mine[w] : mine[w][a].status # "pending"
  BY <1>1, LookingFacts DEF IInv, Looking, WorkerOk
<1>3. Grows /\ DescribedWithItsPost' /\ TablesOk'
  BY <1>1, TablesStay
<1>4. SessionOk(w)'
  BY <1>1, <1>2, <1>3, OtherSession
<1>5. /\ pc'[w] = "next" /\ pc' \in [Workers -> Pcs] /\ \A v \in Workers \ {w} : pc'[v] = pc[v]
  BY <1>1, <1>2 DEF WorkersOk, Pcs
<1>6. /\ count' \in [Workers -> Count] /\ \A v \in Workers \ {w} : count'[v] = count[v]
      /\ count'[w].attempted = count[w].attempted /\ count'[w].left = count[w].left
      /\ Outcomes(count'[w]) = Outcomes(count[w]) + 1
  BY <1>1, <1>2, AddOk
<1>7. /\ StageOk(w)' /\ FreshFirst(w)' /\ (w = "cron" => CronOk')
      /\ list' \in [Workers -> Seq(Assets)] /\ Len(list'[w]) = Len(list[w]) - 1
      /\ \A v \in Workers \ {w} : list'[v] = list[v]
  BY <1>1, <1>2, <1>3, <1>5, NextItem
<1>8. CountOk(w)'
  <2>1. Len(list[w]) >= 1 /\ count'[w] \in Count
    BY <1>2, <1>6, HeadOk
  <2> QED
    BY <1>1, <1>2, <1>5, <1>6, <1>7, <2>1, CountEnds
<1>9. WorkersOk' /\ Moves(w)
  BY <1>1, <1>2, <1>5, <1>6, <1>7 DEF WorkersOk, Moves
<1> QED
  BY <1>1, <1>3, <1>4, <1>7, <1>8, <1>9, OneMoves DEF WorkerOk

---------------------------------------------------------------------------------
(* A picture is secured, a post is classified.                                              *)

\* A stage that is not a vision stage has nothing to balance.
LEMMA CountElsewhere ==
  ASSUME NEW w \in Workers, NEW S, In(w, S)', S \subseteq Stages \ Vision,
         pc'[w] = "classify" => count'[w].attempted >= 1
  PROVE  CountOk(w)'
<1>1. ~Busy(w, {"fresh", "backlog", "tranche"})' /\ ~Busy(w, {"fresh"})'
  BY DEF Busy, In, Vision
<1> QED
  BY <1>1 DEF CountOk

\* The evidence backfill, with its commit now and then.
LEMMA StepSecure ==
  ASSUME IInv, NEW w \in Workers, Secure(w)
  PROVE  IInv'
<1> DEFINE a == At(w)
           n == Now(w, a)
           old == IF a \in DOMAIN seen[w] THEN seen[w][a] ELSE row[a]
<1>1. /\ pc[w] = "next" /\ list[w] # << >> /\ In(w, {"evidence"})
      /\ list' = [list EXCEPT ![w] = Tail(list[w])]
      /\ post' = post /\ runs' = runs /\ pc' = pc /\ fresh' = fresh /\ paid' = paid
  BY DEF Secure
<1>2. PICK s \in Fetched(a) :
        /\ \E f \in {"good", "fetch"} : Add(w, f, 1)
        /\ \/ row' = Written(w, [b \in {a} |-> Merged(row[a], old, Shot(n, s))]) /\ Forget(w)
           \/ Change(w, a, Shot(n, s)) /\ row' = row
  BY DEF Secure
<1>3. TablesOk /\ WorkersOk /\ StageOk(w) /\ SessionOk(w) /\ DescribedWithItsPost
  BY DEF IInv, WorkerOk
<1>4. a \in Assets /\ row[a] # None
  BY <1>1, <1>3, HeadOk DEF StageOk, Busy, In
<1>5. /\ n \in Asset /\ (a \in Own /\ n.text => a \in post)
  <2>1. n # None
    BY <1>4, NowOk DEF Now
  <2> QED
    BY <1>1, <1>4, <2>1, NowOk DEF Open
<1>6. Shot(n, s) \in Asset /\ Shot(n, s).status = n.status /\ Shot(n, s).text = n.text
  BY <1>5, ShotIsRow
<1>7. /\ old \in Asset /\ (n.status = "pending" => old.status = "pending") /\ (n.text => old.text)
      /\ old.text /\ a \in Own => a \in post
  <2>1. CASE a \in DOMAIN mine[w]
    <3>1. Held(a, seen[w][a], mine[w][a], Open(w, a)) /\ ~Open(w, a) /\ a \in DOMAIN seen[w] /\ n = mine[w][a]
      BY <1>1, <1>3, <2>1 DEF SessionOk, Open, Now
    <3> QED
      BY <3>1 DEF Held
  <2>2. CASE a \notin DOMAIN mine[w]
    <3>1. old = row[a] /\ n = row[a]
      BY <1>3, <2>2 DEF SessionOk, Now
    <3> HIDE DEF n, old
    <3> QED
      BY <1>3, <1>4, <3>1 DEF TablesOk, DescribedWithItsPost
  <2> QED
    BY <2>1, <2>2
<1> DEFINE v == Shot(n, s)
<1>8. v \in Asset /\ v.status = n.status /\ v.text = n.text
  BY <1>6
<1> HIDE DEF v, old
<1>9. ASSUME row' = Written(w, [b \in {a} |-> Merged(row[a], old, v)]), Forget(w)
      PROVE  /\ Grows /\ DescribedWithItsPost' /\ TablesOk' /\ SessionOk(w)'
             /\ DOMAIN seen' = Workers /\ DOMAIN mine' = Workers
             /\ \A u \in Workers \ {w} : seen'[u] = seen[u] /\ mine'[u] = mine[u]
  <2> DEFINE m == Merged(row[a], old, v)
             more == [b \in {a} |-> m]
  <2>1. row[a] \in Asset
    BY <1>3, <1>4 DEF TablesOk
  <2>2. /\ m \in Asset
        /\ m.status = IF v.status # old.status THEN v.status ELSE row[a].status
        /\ m.text = IF v.text # old.text THEN v.text ELSE row[a].text
    BY <1>7, <1>8, <2>1, MergedIsRow
  <2>3. row' = Written(w, more)
    BY <1>9
  <2> HIDE DEF m
  <2>4. DOMAIN more = {a} /\ more[a] = m
    OBVIOUS
  <2> HIDE DEF more
  <2>5. row[a].status # "pending" => m.status # "pending"
    BY <1>7, <1>8, <2>2
  <2>6. a \in Own /\ m.text => a \in post
    <3>1. old.text \in BOOLEAN /\ v.text \in BOOLEAN /\ row[a].text \in BOOLEAN
      BY <1>7, <1>8, <2>1, RowFields
    <3>2. v.text => old.text
      BY <1>7, <1>8
    <3>3. a \in Own /\ row[a].text => a \in post
      BY <1>3, <1>4 DEF DescribedWithItsPost
    <3>4. CASE v.text # old.text
      BY <2>2, <3>1, <3>2, <3>4
    <3>5. CASE v.text = old.text
      BY <2>2, <3>3, <3>5
    <3> QED
      BY <3>4, <3>5
  <2>7. \A b \in Assets : b \in DOMAIN more =>
          /\ more[b] \in Asset
          /\ row[b] # None /\ row[b].status # "pending" => more[b].status # "pending"
          /\ b \in Own /\ more[b].text => b \in post'
    BY <1>1, <2>2, <2>4, <2>5, <2>6
  <2>8. ~Collides(w) /\ post \subseteq post' /\ post' \subseteq Own /\ \A b \in Own : Open(w, b) => b \in post'
    BY <1>1, <1>3, NoCollision DEF TablesOk, Open
  <2>9. Grows /\ DescribedWithItsPost' /\ TablesOk'
    BY <1>1, <2>3, <2>7, <2>8, CommitOk
  <2> QED
    BY <1>3, <1>9, <2>9, ForgetOk
<1>10. ASSUME Change(w, a, v), row' = row
       PROVE  /\ Grows /\ DescribedWithItsPost' /\ TablesOk' /\ SessionOk(w)'
              /\ DOMAIN seen' = Workers /\ DOMAIN mine' = Workers
              /\ \A u \in Workers \ {w} : seen'[u] = seen[u] /\ mine'[u] = mine[u]
  <2>1. Grows /\ DescribedWithItsPost' /\ TablesOk'
    BY <1>1, <1>10, TablesStay
  <2>2. Now(w, a) # None /\ pc[w] # "classify"
    BY <1>1, <1>5, NoneIsNothing
  <2>3. /\ SessionOk(w)' /\ DOMAIN seen' = Workers /\ DOMAIN mine' = Workers
        /\ \A u \in Workers \ {w} : seen'[u] = seen[u] /\ mine'[u] = mine[u]
    BY <1>1, <1>4, <1>8, <1>10, <2>2, ChangeOk
  <2> QED
    BY <2>1, <2>3
<1>11. /\ Grows /\ DescribedWithItsPost' /\ TablesOk' /\ SessionOk(w)'
       /\ DOMAIN seen' = Workers /\ DOMAIN mine' = Workers
       /\ \A u \in Workers \ {w} : seen'[u] = seen[u] /\ mine'[u] = mine[u]
  BY <1>2, <1>9, <1>10 DEF v
<1>12. count' \in [Workers -> Count] /\ \A u \in Workers \ {w} : count'[u] = count[u]
  BY <1>2, <1>3, AddOk
<1>13. /\ StageOk(w)' /\ FreshFirst(w)' /\ (w = "cron" => CronOk')
       /\ list' \in [Workers -> Seq(Assets)] /\ \A u \in Workers \ {w} : list'[u] = list[u]
  BY <1>1, <1>11, NextItem
<1>14. CountOk(w)'
  <2>1. In(w, {"evidence"})' /\ pc'[w] # "classify"
    BY <1>1 DEF In, Stage
  <2>2. {"evidence"} \subseteq Stages \ Vision
    BY DEF Stages, Vision
  <2> QED
    BY <2>1, <2>2, CountElsewhere
<1>15. WorkersOk' /\ Moves(w)
  BY <1>1, <1>3, <1>11, <1>12, <1>13 DEF WorkersOk, Moves
<1> QED
  BY <1>1, <1>11, <1>13, <1>14, <1>15, OneMoves DEF WorkerOk

\* The item of a stage for posts is an asset of the post analyzer's.
LEMMA ClassifyFacts ==
  ASSUME IInv, NEW w \in Workers, Busy(w, Posts), list[w] # << >>
  PROVE  At(w) \in Own /\ At(w) \in Assets
<1>1. WorkersOk /\ StageOk(w)
  BY DEF IInv, WorkerOk
<1>2. At(w) = list[w][1] /\ Len(list[w]) \in Nat /\ Len(list[w]) >= 1
  BY <1>1, HeadOk
<1>3. At(w) \in Own
  BY <1>1, <1>2 DEF StageOk
<1> QED
  BY <1>3, AnalysisAssumption

\* The stages for posts are no vision stages.
LEMMA PostsElsewhere ==
  Posts \subseteq Stages \ Vision /\ Posts \cap {"fresh", "backlog", "evidence"} = {}
BY DEF Posts, Stages, Vision

\* A description is put into the session, and waits there for the classifiers.
LEMMA StepDescribe ==
  ASSUME IInv, NEW w \in Workers, Describe(w)
  PROVE  IInv'
<1> PICK p \in Assets : p = At(w)
  BY HeadOk DEF IInv, Describe
<1> DEFINE r == IF Now(w, p) = None THEN NewAsset ELSE Now(w, p)
<1>1. /\ pc[w] = "next" /\ list[w] # << >> /\ In(w, Posts) /\ Add(w, "attempted", 1)
      /\ pc' = [pc EXCEPT ![w] = "classify"]
      /\ row' = row /\ post' = post /\ runs' = runs /\ list' = list /\ fresh' = fresh /\ paid' = paid
  BY DEF Describe, Goes
<1>2. \/ seen' = seen /\ mine' = mine
      \/ \E t \in BOOLEAN : \E s \in Fetched(p) : Change(w, p, [Shot(r, s) EXCEPT !.text = t])
  BY DEF Describe
<1>3. WorkersOk /\ WorkerOk(w) /\ SessionOk(w) /\ StageOk(w) /\ FreshFirst(w) /\ CronOk
  BY DEF IInv, WorkerOk
<1>4. /\ pc'[w] = "classify" /\ pc' \in [Workers -> Pcs] /\ \A u \in Workers \ {w} : pc'[u] = pc[u]
      /\ At(w)' = p
  BY <1>1, <1>3 DEF WorkersOk, Pcs, At
<1>5. Grows /\ DescribedWithItsPost' /\ TablesOk'
  BY <1>1, TablesStay
<1>6. /\ SessionOk(w)' /\ DOMAIN seen' = Workers /\ DOMAIN mine' = Workers
      /\ \A u \in Workers \ {w} : seen'[u] = seen[u] /\ mine'[u] = mine[u]
  <2>1. ASSUME seen' = seen, mine' = mine
        PROVE  SessionOk(w)'
    BY <1>1, <1>3, <1>5, <2>1, OtherSession
  <2>2. ASSUME NEW t \in BOOLEAN, NEW s \in Fetched(p), Change(w, p, [Shot(r, s) EXCEPT !.text = t])
        PROVE  /\ SessionOk(w)' /\ DOMAIN seen' = Workers /\ DOMAIN mine' = Workers
               /\ \A u \in Workers \ {w} : seen'[u] = seen[u] /\ mine'[u] = mine[u]
    <3> DEFINE v == [Shot(r, s) EXCEPT !.text = t]
    <3>1. r \in Asset /\ (Now(w, p) # None => r = Now(w, p))
      BY NowOk, NewAssetIsRow
    <3> HIDE DEF r
    <3>2. Shot(r, s) \in Asset /\ Shot(r, s).status = r.status
      BY <3>1, ShotIsRow
    <3>3. v \in Asset /\ v.status = r.status
      BY <3>2, TextIsRow
    <3>4. Change(w, p, v)
      BY <2>2
    <3> HIDE DEF v
    <3>5. /\ Now(w, p) # None \/ Open(w, p)'
          /\ Now(w, p) # None /\ v.status = "pending" => Now(w, p).status = "pending"
          /\ v.text => (Now(w, p) # None /\ Now(w, p).text) \/ Open(w, p)'
          /\ pc[w] # "classify"
      <4>1. Open(w, p)'
        BY <1>1, <1>4 DEF Open
      <4> QED
        BY <1>1, <3>1, <3>3, <4>1
    <3> QED
      BY <1>1, <3>3, <3>4, <3>5, ChangeOk
  <2> QED
    BY <1>2, <1>3, <2>1, <2>2 DEF WorkersOk
<1>7. /\ count' \in [Workers -> Count] /\ \A u \in Workers \ {w} : count'[u] = count[u]
      /\ count'[w].attempted = count[w].attempted + 1 /\ count[w].attempted \in Nat
  <2>1. count[w] \in Count
    BY <1>3 DEF WorkersOk
  <2> QED
    BY <1>1, <1>3, <2>1, AddOk, CountFields
<1>8. \A S : (In(w, S)' <=> In(w, S)) /\ (Busy(w, S)' <=> In(w, S)) /\ (Busy(w, S) <=> In(w, S))
  BY <1>1, <1>4 DEF In, Stage, Busy
<1>9. Stage(w) \in Posts
  BY <1>1 DEF In
<1>10. StageOk(w)'
  <2>1. ~Looking(w)' /\ pc'[w] # "look" /\ In(w, Stages)' /\ In(w, Posts)' /\ list'[w] # << >>
    BY <1>1, <1>3, <1>4, <1>8 DEF Looking, StageOk
  <2>2. ~Busy(w, Vision \cup {"evidence"})'
    BY <1>8, <1>9, PostsElsewhere DEF In
  <2>3. (Busy(w, Posts) => \A i \in 1..Len(list[w]) : list[w][i] \in Own)'
    BY <1>1, <1>3, <1>8 DEF StageOk
  <2> QED
    BY <2>1, <2>2, <2>3 DEF StageOk
<1>11. CountOk(w)'
  <2>1. count'[w].attempted >= 1
    BY <1>7
  <2> QED
    BY <1>1, <1>8, <2>1, PostsElsewhere, CountElsewhere
<1>12. FreshFirst(w)'
  BY <1>1, <1>3 DEF FreshFirst
<1>13. ASSUME w = "cron" PROVE CronOk'
  <2>1. ~Busy("cron", {"fresh", "backlog"})' /\ pc'["cron"] = "classify"
    BY <1>4, <1>8, <1>9, <1>13, PostsElsewhere DEF In
  <2> QED
    BY <1>1, <1>3, <1>13, <2>1 DEF CronOk
<1>14. WorkersOk' /\ Moves(w)
  BY <1>1, <1>3, <1>4, <1>6, <1>7 DEF WorkersOk, Moves
<1> QED
  BY <1>1, <1>5, <1>6, <1>10, <1>11, <1>12, <1>13, <1>14, OneMoves DEF WorkerOk

\* The end of a post's classification, however it ends.
LEMMA PostEnds ==
  ASSUME IInv, NEW w \in Workers, pc[w] = "classify", Forget(w), Goes(w, "next"),
         list' = [list EXCEPT ![w] = Tail(list[w])],
         NEW f \in {"good", "error"}, Add(w, f, 1),
         Grows, DescribedWithItsPost', TablesOk',
         runs' = runs, fresh' = fresh, paid' = paid
  PROVE  IInv'
<1>1. WorkersOk /\ StageOk(w)
  BY DEF IInv, WorkerOk
<1>2. list[w] # << >> /\ In(w, Posts)
  BY <1>1 DEF StageOk
<1>3. /\ SessionOk(w)' /\ mine'[w] = NoRows
      /\ DOMAIN seen' = Workers /\ DOMAIN mine' = Workers
      /\ \A v \in Workers \ {w} : seen'[v] = seen[v] /\ mine'[v] = mine[v]
  BY <1>1, ForgetOk
<1>4. /\ pc'[w] = "next" /\ pc' \in [Workers -> Pcs] /\ \A v \in Workers \ {w} : pc'[v] = pc[v]
  BY <1>1 DEF WorkersOk, Pcs, Goes
<1>5. count' \in [Workers -> Count] /\ \A v \in Workers \ {w} : count'[v] = count[v]
  BY <1>1, AddOk
<1>6. /\ StageOk(w)' /\ FreshFirst(w)' /\ (w = "cron" => CronOk')
      /\ list' \in [Workers -> Seq(Assets)] /\ \A v \in Workers \ {w} : list'[v] = list[v]
  BY <1>2, <1>3, <1>4, NextItem DEF NoRows
<1>7. CountOk(w)'
  <2>1. In(w, Posts)' /\ pc'[w] # "classify"
    BY <1>2, <1>4 DEF In, Stage
  <2> QED
    BY <2>1, PostsElsewhere, CountElsewhere
<1>8. WorkersOk' /\ Moves(w)
  BY <1>1, <1>3, <1>4, <1>5, <1>6 DEF WorkersOk, Moves
<1> QED
  BY <1>3, <1>6, <1>7, <1>8, OneMoves DEF WorkerOk

\* The commit that writes the description writes the analysis too.
LEMMA StepClassified ==
  ASSUME IInv, NEW w \in Workers, Classified(w)
  PROVE  IInv'
<1>1. /\ pc[w] = "classify" /\ ~Collides(w) /\ row' = Written(w, NoRows) /\ post' = post \cup {At(w)}
      /\ Forget(w) /\ Add(w, "good", 1) /\ list' = [list EXCEPT ![w] = Tail(list[w])] /\ Goes(w, "next")
      /\ runs' = runs /\ fresh' = fresh /\ paid' = paid
  BY DEF Classified
<1>2. TablesOk /\ StageOk(w)
  BY DEF IInv, WorkerOk
<1>3. At(w) \in Own
  BY <1>1, <1>2, ClassifyFacts DEF StageOk, Busy
<1>4. Grows /\ DescribedWithItsPost' /\ TablesOk'
  BY <1>1, <1>2, <1>3, PlainCommitOk DEF TablesOk, Open
<1> QED
  BY <1>1, <1>4, PostEnds

\* A failed classification rolls back.
LEMMA StepNotClassified ==
  ASSUME IInv, NEW w \in Workers, NotClassified(w)
  PROVE  IInv'
<1>1. /\ pc[w] = "classify" /\ Forget(w) /\ Add(w, "error", 1)
      /\ list' = [list EXCEPT ![w] = Tail(list[w])] /\ Goes(w, "next")
      /\ row' = row /\ post' = post /\ runs' = runs /\ fresh' = fresh /\ paid' = paid
  BY DEF NotClassified
<1>2. Grows /\ DescribedWithItsPost' /\ TablesOk'
  BY <1>1, TablesStay
<1> QED
  BY <1>1, <1>2, PostEnds

\* A refused key rolls back, too, and ends the stage.
LEMMA StepAuthFails ==
  ASSUME IInv, NEW w \in Workers, AuthFails(w)
  PROVE  IInv'
<1>1. /\ pc[w] = "classify" /\ Forget(w)
      /\ count' = [count EXCEPT ![w] = [count[w] EXCEPT !.attempted = count[w].attempted - 1, !.left = Len(list[w])]]
      /\ list' = [list EXCEPT ![w] = << >>] /\ pc' = [pc EXCEPT ![w] = "next"]
      /\ row' = row /\ post' = post /\ runs' = runs /\ fresh' = fresh /\ paid' = paid
  BY DEF AuthFails, Goes
<1>2. WorkersOk /\ StageOk(w) /\ CountOk(w) /\ FreshFirst(w) /\ CronOk
  BY DEF IInv, WorkerOk
<1>3. In(w, Posts) /\ In(w, Stages)
  BY <1>1, <1>2 DEF StageOk
<1>4. Grows /\ DescribedWithItsPost' /\ TablesOk'
  BY <1>1, TablesStay
<1>5. /\ SessionOk(w)' /\ mine'[w] = NoRows
      /\ DOMAIN seen' = Workers /\ DOMAIN mine' = Workers
      /\ \A v \in Workers \ {w} : seen'[v] = seen[v] /\ mine'[v] = mine[v]
  BY <1>1, <1>2, ForgetOk
<1>6. /\ pc'[w] = "next" /\ pc' \in [Workers -> Pcs]
      /\ list'[w] = << >> /\ list' \in [Workers -> Seq(Assets)]
      /\ \A v \in Workers \ {w} : pc'[v] = pc[v] /\ list'[v] = list[v]
  BY <1>1, <1>2 DEF WorkersOk, Pcs
<1>7. count' \in [Workers -> Count] /\ \A v \in Workers \ {w} : count'[v] = count[v]
  <2> DEFINE c == count[w]
             d == [c EXCEPT !.attempted = c.attempted - 1, !.left = Len(list[w])]
  <2>1. c \in Count /\ Len(list[w]) \in Nat /\ c.attempted \in Nat /\ c.attempted >= 1
    <3>1. c \in Count /\ list[w] \in Seq(Assets) /\ c.attempted >= 1
      BY <1>1, <1>2 DEF WorkersOk, CountOk
    <3> HIDE DEF c
    <3> QED
      BY <3>1, CountFields
  <2>2. count' = [count EXCEPT ![w] = d]
    BY <1>1
  <2> HIDE DEF c
  <2>3. d \in Count
    <3>1. c.attempted - 1 \in Nat
      BY <2>1
    <3> QED
      BY <2>1, <3>1 DEF Count
  <2> HIDE DEF d
  <2> QED
    BY <1>2, <2>2, <2>3 DEF WorkersOk
<1>8. /\ ~Looking(w)' /\ In(w, Stages)' /\ In(w, Posts)' /\ ~Busy(w, {"fresh", "backlog"})'
  BY <1>1, <1>3, <1>6, PostsElsewhere DEF Looking, In, Stage, Busy
<1>9. StageOk(w)'
  BY <1>6, <1>8 DEF StageOk
<1>10. CountOk(w)'
  BY <1>6, <1>8, PostsElsewhere, CountElsewhere
<1>11. FreshFirst(w)'
  BY <1>1, <1>2 DEF FreshFirst
<1>12. w = "cron" => CronOk'
  BY <1>1, <1>2, <1>5, <1>6, <1>8 DEF CronOk, NoRows
<1>13. WorkersOk' /\ Moves(w)
  BY <1>1, <1>2, <1>5, <1>6, <1>7 DEF WorkersOk, Moves
<1> QED
  BY <1>1, <1>4, <1>5, <1>9, <1>10, <1>11, <1>12, <1>13, OneMoves DEF WorkerOk

---------------------------------------------------------------------------------
(* The theorems.                                                                            *)

\* The tables a run finds are in order, and nobody has begun.
LEMMA InitOk ==
  Init => IInv
<1> SUFFICES ASSUME Init PROVE IInv
  OBVIOUS
<1>1. PICK t \in InitTables : row = t.row /\ post = t.post
  BY DEF Init
<1>2. /\ runs \in Schedules /\ seen = [w \in Workers |-> NoRows] /\ mine = [w \in Workers |-> NoRows]
      /\ pc = [w \in Workers |-> "ready"] /\ list = [w \in Workers |-> << >>]
      /\ count = [w \in Workers |-> Zero] /\ fresh = New /\ paid = [a \in Assets |-> 0]
  BY DEF Init
<1>3. /\ t.row \in [Assets -> Asset \cup {None}] /\ t.post \subseteq Own
      /\ \A a \in New : t.row[a] # None
      /\ \A p \in Own : t.row[p] # None /\ t.row[p].text => p \in t.post
  BY TablesAssumption
<1>4. TablesOk
  BY <1>1, <1>2, <1>3 DEF TablesOk
<1>5. DescribedWithItsPost
  BY <1>1, <1>3 DEF DescribedWithItsPost
<1>6. WorkersOk
  <2>1. Zero \in Count /\ "ready" \in Pcs
    BY DEF Zero, Count, Pcs
  <2>2. runs \in [Workers -> Seq(Seq(Stages))]
    BY <1>2, AnalysisAssumption
  <2>3. list \in [Workers -> Seq(Assets)]
    BY <1>2
  <2> QED
    BY <1>2, <2>1, <2>2, <2>3 DEF WorkersOk
<1>7. \A w \in Workers : \A i \in DOMAIN runs[w] : \A k \in DOMAIN runs[w][i] :
        IF w = "cron" THEN runs[w][i][k] \in CronStages /\ (runs[w][i][k] = "fresh" => k = 1)
        ELSE runs[w][i][k] # "fresh"
  BY <1>2, AnalysisAssumption
<1>8. ASSUME NEW w \in Workers PROVE WorkerOk(w)
  <2>1. pc[w] = "ready" /\ mine[w] = NoRows /\ seen[w] = NoRows
    BY <1>2
  <2>2. SessionOk(w)
    BY <2>1 DEF SessionOk, NoRows
  <2>3. StageOk(w)
    BY <2>1 DEF StageOk, Looking, Busy
  <2>4. CountOk(w)
    BY <2>1 DEF CountOk, Busy
  <2>5. FreshFirst(w)
    BY <1>7 DEF FreshFirst
  <2> QED
    BY <2>2, <2>3, <2>4, <2>5 DEF WorkerOk
<1>9. CronOk
  <2> SUFFICES ASSUME "cron" \in Workers PROVE CronOk
    BY DEF CronOk
  <2>1. pc["cron"] = "ready" /\ mine["cron"] = NoRows /\ list["cron"] = << >>
    BY <1>2
  <2>2. \A a \in fresh : paid[a] = 0
    BY <1>2, AnalysisAssumption
  <2>3. \A i \in DOMAIN runs["cron"] : \A k \in DOMAIN runs["cron"][i] : runs["cron"][i][k] \in CronStages
    BY <1>7
  <2> QED
    BY <2>1, <2>2, <2>3 DEF CronOk, Busy, NoRows
<1>10. PaidOk
  BY <1>2 DEF PaidOk
<1> QED
  BY <1>4, <1>5, <1>6, <1>8, <1>9, <1>10 DEF IInv

\* Every step keeps the invariant.
LEMMA NextOk ==
  IInv /\ [Next]_vars => IInv'
<1> SUFFICES ASSUME IInv, [Next]_vars PROVE IInv'
  OBVIOUS
<1>1. ASSUME NEW w \in Workers, BeginStage(w) \/ StageEnds(w) \/ OutOfTime(w) \/ Crash(w)
      PROVE  IInv'
  BY <1>1, StepBegin, StepEnds, StepOutOfTime, StepCrash
<1>2. ASSUME NEW w \in Workers, Take(w) \/ Capture(w) \/ Look(w) \/ Conclude(w) \/ LookRaises(w)
      PROVE  IInv'
  BY <1>2, StepTake, StepCapture, StepLook, StepConclude, StepLookRaises
<1>3. ASSUME NEW w \in Workers, Secure(w) \/ Describe(w) \/ Classified(w) \/ NotClassified(w) \/ AuthFails(w)
      PROVE  IInv'
  BY <1>3, StepSecure, StepDescribe, StepClassified, StepNotClassified, StepAuthFails
<1>4. CASE UNCHANGED vars
  <2>1. /\ row' = row /\ post' = post /\ seen' = seen /\ mine' = mine /\ runs' = runs /\ pc' = pc
        /\ list' = list /\ count' = count /\ fresh' = fresh /\ paid' = paid
    BY <1>4 DEF vars
  <2>2. TablesOk' /\ DescribedWithItsPost' /\ WorkersOk' /\ PaidOk'
    BY <2>1 DEF IInv, TablesOk, DescribedWithItsPost, WorkersOk, PaidOk
  <2>3. \A w \in Workers : \A S : (In(w, S)' <=> In(w, S)) /\ (Busy(w, S)' <=> Busy(w, S))
    BY <2>1 DEF In, Stage, Busy
  <2>4. ASSUME NEW w \in Workers PROVE WorkerOk(w)'
    <3>1. WorkerOk(w) /\ Grows
      BY <2>1 DEF IInv, Grows
    <3>2. SessionOk(w)'
      BY <2>1, <3>1, OtherSession DEF WorkerOk
    <3>3. At(w)' = At(w) /\ (Looking(w)' <=> Looking(w)) /\ Pending(w)' = Pending(w)
      BY <2>1 DEF At, Looking, Pending
    <3>4. StageOk(w)'
      BY <2>1, <2>3, <3>1, <3>3 DEF WorkerOk, StageOk
    <3>5. CountOk(w)'
      BY <2>1, <2>3, <3>1, <3>3 DEF WorkerOk, CountOk
    <3>6. FreshFirst(w)'
      BY <2>1, <3>1 DEF WorkerOk, FreshFirst
    <3> QED
      BY <3>2, <3>4, <3>5, <3>6 DEF WorkerOk
  <2>5. CronOk'
    <3> SUFFICES ASSUME "cron" \in Workers PROVE CronOk'
      BY DEF CronOk
    <3>1. \A S : (In("cron", S)' <=> In("cron", S)) /\ (Busy("cron", S)' <=> Busy("cron", S))
      BY <2>3
    <3> QED
      BY <2>1, <3>1 DEF IInv, CronOk
  <2> QED
    BY <2>2, <2>4, <2>5 DEF IInv
<1> QED
  BY <1>1, <1>2, <1>3, <1>4 DEF Next

\* The inductive invariant holds in every state.
LEMMA IInvHolds ==
  Spec => []IInv
<1> QED
  BY InitOk, NextOk, PTL DEF Spec

\* What the invariant is for.
LEMMA IInvImplies ==
  ASSUME IInv
  PROVE  TypeOK /\ NothingUncounted /\ PaidOnce
<1>1. TablesOk /\ WorkersOk /\ \A w \in Workers : WorkerOk(w)
  BY DEF IInv
<1>2. MaxPaid \in Nat /\ MaxPaid > 0
  BY AnalysisAssumption
<1>3. TypeOK
  <2>1. ASSUME NEW w \in Workers
        PROVE  /\ DOMAIN mine[w] = DOMAIN seen[w] /\ DOMAIN mine[w] \subseteq Assets
               /\ \A a \in DOMAIN mine[w] : mine[w][a] \in Asset
               /\ count[w] \in Count
    BY <1>1 DEF WorkerOk, SessionOk, Held, WorkersOk
  <2>2. paid \in [Assets -> 0..MaxPaid]
    BY <1>1, <1>2 DEF TablesOk
  <2> QED
    BY <1>1, <2>1, <2>2 DEF TypeOK, TablesOk, WorkersOk
<1>4. NothingUncounted
  <2> SUFFICES ASSUME NEW w \in Workers, pc[w] = "next", In(w, {"fresh", "backlog", "tranche"})
               PROVE  /\ count[w].attempted = count[w].good + count[w].fallback + count[w].fetch + count[w].error
                      /\ Stage(w) = "fresh" =>
                           count[w].attempted + count[w].left + Len(list[w])
                             = (IF Cardinality(fresh) < FreshCap THEN Cardinality(fresh) ELSE FreshCap)
    BY DEF NothingUncounted
  <2> DEFINE m == IF Cardinality(fresh) < FreshCap THEN Cardinality(fresh) ELSE FreshCap
  <2>1. Pending(w) = 0 /\ Busy(w, {"fresh", "backlog", "tranche"}) /\ (Stage(w) = "fresh" => Busy(w, {"fresh"}))
    BY DEF Pending, Looking, Busy, In
  <2>2. count[w] \in Count /\ CountOk(w) /\ m \in Nat
    BY <1>1, SelectionSize DEF WorkersOk, WorkerOk
  <2>3. Outcomes(count[w]) \in Nat
    BY <2>2, CountFields
  <2>4. count[w].attempted = Outcomes(count[w])
    BY <2>1, <2>2, <2>3 DEF CountOk
  <2>5. Stage(w) = "fresh" => count[w].attempted + count[w].left + Len(list[w]) = m + 0
    BY <2>1, <2>2 DEF CountOk
  <2> HIDE DEF m
  <2>6. Stage(w) = "fresh" => count[w].attempted + count[w].left + Len(list[w]) = m
    BY <2>2, <2>5
  <2> QED
    BY <2>4, <2>6 DEF Outcomes, m
<1>5. PaidOnce
  BY <1>1 DEF TablesOk, PaidOnce
<1> QED
  BY <1>3, <1>4, <1>5

\* Rows stay rows whatever the sessions write over one another, a session holds changes only to
\* rows it has read, and no counter gets below zero.
THEOREM AnalysisTypes ==
  Spec => []TypeOK
<1> QED
  BY IInvHolds, IInvImplies, PTL

\* Whatever raises, times out or is written by others in between, the summary of a vision stage
\* accounts for every asset the stage had.
THEOREM EveryLookIsCounted ==
  Spec => []NothingUncounted
<1> QED
  BY IInvHolds, IInvImplies, PTL

\* Over all stages, runs and crashes, and whatever admins and the script do beside it, the cron
\* pays for one look at an asset at most.
THEOREM PaidForOnce ==
  Spec => []PaidOnce
<1> QED
  BY IInvHolds, IInvImplies, PTL

\* No commit of any session ever writes a paid description without the analysis of its post.
THEOREM NoDescriptionWithoutItsPost ==
  Spec => []DescribedWithItsPost
<1>1. IInv => DescribedWithItsPost
  BY DEF IInv
<1> QED
  BY <1>1, IInvHolds, PTL

---------------------------------------------------------------------------------
(* The backlog is full.                                                                     *)

\* A list without repetition has as many members as its length says.
LEMMA RangeCounts ==
  ASSUME NEW S, NEW s, ListOf(S, s)
  PROVE  IsFiniteSet(Range(s)) /\ Cardinality(Range(s)) = Len(s)
<1> DEFINE n == Len(s)
           R == Range(s)
<1>1. s \in Seq(S) /\ n \in Nat /\ \A i, j \in 1..n : s[i] = s[j] => i = j
  BY DEF ListOf
<1>2. R = {s[i] : i \in 1..n} /\ s \in [1..n -> R]
  BY <1>1 DEF Range
<1> HIDE DEF n, R
<1>3. s \in Surjection(1..n, R)
  BY <1>2 DEF Surjection
<1>4. s \in Injection(1..n, R)
  BY <1>1, <1>2 DEF Injection, IsInjective
<1>5. IsFiniteSet(1..n) /\ Cardinality(1..n) = n
  BY <1>1, FS_Interval
<1>6. IsFiniteSet(R) /\ Cardinality(R) = Cardinality(1..n)
  BY <1>3, <1>4, <1>5, FS_Surjection
<1> QED
  BY <1>5, <1>6 DEF n, R

\* A selection of as many rows as the cap and the new assets together, without the new ones, is
\* full after all: the new assets cannot take more places than there are of them.
LEMMA BacklogCut ==
  ASSUME fresh \subseteq Assets, NEW w, NEW s \in Selected(w, "backlog")
  PROVE  LET old == Having(w, {"pending"}) \ fresh
         IN  Len(s) = IF Cardinality(old) < BacklogCap THEN Cardinality(old) ELSE BacklogCap
<1> DEFINE P == Having(w, {"pending"})
           old == P \ fresh
           n == Cardinality(fresh)
           found == First(Oldest(P), BacklogCap + n)
           R == Range(found)
           left == R \ fresh
           c == BacklogCap
<1>1. P \subseteq Assets /\ c \in Nat /\ IsFiniteSet(Assets)
  BY AnalysisAssumption DEF Having
<1>2. IsFiniteSet(P) /\ IsFiniteSet(old) /\ IsFiniteSet(fresh) /\ old \subseteq Assets
  BY <1>1, FS_Subset
<1>3. n \in Nat /\ Cardinality(P) \in Nat /\ Cardinality(old) \in Nat
  BY <1>2, FS_CardinalityType
<1>4. ListOf(P, Oldest(P)) /\ Len(Oldest(P)) = Cardinality(P)
  BY <1>1, OldestLists
<1>5. ListOf(P, found) /\ Len(found) = IF Cardinality(P) < c + n THEN Cardinality(P) ELSE c + n
  BY <1>1, <1>3, <1>4, FirstLists
<1>6. s = First(Oldest(left), c)
  BY DEF Selected, Backlog
<1> HIDE DEF P, n, found, c
<1>7. IsFiniteSet(R) /\ Cardinality(R) = Len(found) /\ R \subseteq P
  BY <1>5, RangeCounts, RangeOfList
<1> HIDE DEF R
<1>8. left \subseteq old /\ left \subseteq Assets
  BY <1>1, <1>7
<1>9. Len(s) = IF Cardinality(left) < c THEN Cardinality(left) ELSE c
  BY <1>1, <1>6, <1>8, OldestLists, FirstLists
<1>10. /\ Cardinality(left) \in Nat /\ Cardinality(left) <= Cardinality(old)
       /\ Cardinality(left) = Cardinality(R) - Cardinality(R \cap fresh)
       /\ Cardinality(R \cap fresh) \in Nat /\ Cardinality(R \cap fresh) <= n
  <2>1. IsFiniteSet(left) /\ Cardinality(left) <= Cardinality(old)
    BY <1>2, <1>8, FS_Subset
  <2>2. IsFiniteSet(R \cap fresh) /\ Cardinality(R \cap fresh) <= n
    BY <1>2, FS_Subset DEF n
  <2>3. Cardinality(left) = Cardinality(R) - Cardinality(R \cap fresh)
    BY <1>7, FS_Difference
  <2> QED
    BY <2>1, <2>2, <2>3, FS_CardinalityType
<1>11. CASE Cardinality(P) < c + n
  <2>1. Cardinality(R) = Cardinality(P)
    BY <1>5, <1>7, <1>11
  <2>2. R = P
    BY <1>2, <1>7, <2>1, FS_Subset
  <2> QED
    BY <1>9, <2>2 DEF P, c
<1>12. CASE ~(Cardinality(P) < c + n)
  <2>1. Cardinality(R) = c + n
    BY <1>5, <1>7, <1>12
  <2>2. Cardinality(left) >= c
    BY <1>1, <1>3, <1>10, <2>1
  <2>3. ~(Cardinality(left) < c) /\ ~(Cardinality(old) < c)
    BY <1>1, <1>3, <1>10, <2>2
  <2> QED
    BY <1>9, <2>3 DEF P, c
<1> QED
  BY <1>11, <1>12

\* Only the beginning of a stage makes a worker busy.
LEMMA OnlyBegins ==
  ASSUME IInv, [Next]_vars, NEW w \in Workers, pc[w] = "ready", pc'[w] = "next"
  PROVE  BeginStage(w)
<1>1. DOMAIN pc = Workers /\ StageOk(w)
  BY DEF IInv, WorkersOk, WorkerOk
<1>2. ASSUME NEW u \in Workers, \E q : Goes(u, q), pc[u] # "ready" \/ u # w
      PROVE  FALSE
  <2>1. CASE u # w
    BY <1>1, <1>2, <2>1 DEF Goes
  <2>2. CASE u = w
    BY <1>2, <2>2
  <2> QED
    BY <2>1, <2>2
<1>3. pc' # pc
  BY <1>1
<1>4. PICK u \in Workers : \/ BeginStage(u) \/ StageEnds(u) \/ OutOfTime(u) \/ Crash(u)
                           \/ Take(u) \/ Capture(u) \/ Look(u) \/ Conclude(u) \/ LookRaises(u)
                           \/ Secure(u)
                           \/ Describe(u) \/ Classified(u) \/ NotClassified(u) \/ AuthFails(u)
  BY <1>3 DEF Next, vars
<1>5. BeginStage(u)
  BY <1>2, <1>3, <1>4 DEF StageEnds, OutOfTime, Crash, Take, Capture, Look, Conclude, LookRaises, Secure,
                          Describe, Classified, NotClassified, AuthFails
<1>6. u = w
  BY <1>2, <1>5 DEF BeginStage
<1> QED
  BY <1>5, <1>6

\* Whatever of the run's own assets is pending too, the backlog takes as many old assets as its
\* cap allows.
THEOREM BacklogTakesItsFill ==
  Spec => BacklogIsFull
<1>1. ASSUME IInv, [Next]_vars
      PROVE  [\A w \in Workers : In(w, {"backlog"}) /\ pc[w] = "ready" /\ pc'[w] = "next" =>
                LET old == Having(w, {"pending"}) \ fresh
                IN  Len(list'[w]) = (IF Cardinality(old) < BacklogCap THEN Cardinality(old)
                                                                     ELSE BacklogCap)]_vars
  <2> SUFFICES ASSUME NEW w \in Workers, In(w, {"backlog"}), pc[w] = "ready", pc'[w] = "next"
               PROVE  LET old == Having(w, {"pending"}) \ fresh
                      IN  Len(list'[w]) = (IF Cardinality(old) < BacklogCap THEN Cardinality(old)
                                                                           ELSE BacklogCap)
    OBVIOUS
  <2>1. BeginStage(w)
    BY <1>1, OnlyBegins
  <2>2. Stage(w) = "backlog" /\ fresh \subseteq Assets /\ DOMAIN list = Workers
    BY <1>1, AnalysisAssumption DEF In, IInv, TablesOk, WorkersOk
  <2>3. list'[w] \in Selected(w, "backlog")
    BY <2>1, <2>2 DEF BeginStage
  <2> QED
    BY <2>2, <2>3, BacklogCut
<1> QED
  BY <1>1, IInvHolds, PTL DEF Spec, BacklogIsFull
==================================================================================
