------------------------- MODULE WeeklyBriefsProofs -------------------------
(***************************************************************************)
(* Theorems about the calendar of WeeklyBriefs, for any lengths of week,   *)
(* day and window.                                                         *)
(***************************************************************************)
EXTENDS WeeklyBriefs, TLAPS

\* A row's end lies in the week the row is kept under, and on the last day of
\* it if the row was written later; its posts are those of its window.
RowInv ==
  \A w \in Weeks : brief[w] # NoRow =>
    /\ brief[w].end \in Moments
    /\ brief[w].end.week = w
    /\ brief[w].late => brief[w].end.day = Days
    /\ brief[w].known \subseteq Known
    /\ brief[w].posts = {p \in brief[w].known : InWindow(Reference(p), brief[w].end)}

\* Only posts that exist are detected, and nothing is detected in the future.
PostInv ==
  \A p \in Known : /\ published[p] # None
                   /\ detected[p].week <= now.week

\* A snapshot knows what was detected up to its own week, which has begun.
SnapshotInv ==
  \A w \in Weeks : /\ w > now.week => snapshot[w] = NoSnapshot
                   /\ snapshot[w].posts \subseteq {p \in Known : detected[p].week <= w}

CalendarInv == TypeOK /\ PostInv /\ RowInv /\ SnapshotInv

-----------------------------------------------------------------------------

LEMMA AnchorsAreMoments ==
  ASSUME CalendarAssumption, NEW m \in Moments, m.week > 0
  PROVE  /\ Yesterday(m) \in Moments
         /\ Yesterday(m).week \in {m.week - 1, m.week}
         /\ Yesterday(m).week < m.week => Yesterday(m).day = Days
         /\ LastSunday(m) \in Moments
         /\ LastSunday(m).week = m.week - 1
         /\ LastSunday(m).day = Days
BY DEF CalendarAssumption, Moments, Weeks, Yesterday, LastSunday

LEMMA NextMoment ==
  ASSUME CalendarAssumption, NEW m \in Moments, Following(m).week \in Weeks
  PROVE  /\ Following(m) \in Moments
         /\ Following(m).week \in {m.week, m.week + 1}
BY DEF CalendarAssumption, Moments, Weeks, Following

-----------------------------------------------------------------------------

\* What is known of a post does not change any more.
Settled ==
  \A p \in Known : /\ p \in Known'
                   /\ detected'[p] = detected[p]
                   /\ Reference(p)' = Reference(p)

LEMMA KnownPostsAreSettled == TypeOK /\ PostInv /\ [Next]_vars => Settled
<1> SUFFICES ASSUME TypeOK, PostInv, [Next]_vars
             PROVE  Settled
  OBVIOUS
<1> USE DEF TypeOK, PostInv, Settled, Known, Reference
<1>1. ASSUME NEW t \in Targets, NEW force \in BOOLEAN, Run(t, force)
      PROVE  Settled
  BY <1>1 DEF Run, Scrape
<1>2. CASE Scheduled
  BY <1>1, <1>2 DEF Scheduled, Targets
<1>3. ASSUME NEW t \in Targets, NEW force \in BOOLEAN, SyncAll(t, force)
      PROVE  Settled
  BY <1>1, <1>3 DEF SyncAll
<1>4. ASSUME NEW t \in Targets, NEW r \in BOOLEAN, Regenerate(t, r)
      PROVE  Settled
  BY <1>4 DEF Regenerate
<1>5. CASE GetReport
  BY <1>5 DEF GetReport
<1>6. ASSUME NEW p \in Posts, Publish(p)
      PROVE  Settled
  BY <1>6 DEF Publish
<1>7. ASSUME NEW p \in Posts, Import(p)
      PROVE  Settled
  BY <1>7 DEF Import
<1>8. CASE Tick
  BY <1>8 DEF Tick
<1>9. CASE Done \/ UNCHANGED vars
  BY <1>9 DEF Done, vars
<1> QED
  BY <1>2, <1>3, <1>4, <1>5, <1>6, <1>7, <1>8, <1>9 DEF Next

LEMMA GenerateKeepsRows ==
  ASSUME TypeOK, RowInv, Settled, UNCHANGED <<now, published, dated>>,
         detected' \in [Posts -> Moments \cup {None}],
         NEW a \in Moments, NEW r \in BOOLEAN, Generate(a, r),
         a.week < now.week => a.day = Days
  PROVE  /\ RowInv'
         /\ brief' \in [Weeks -> [end : Moments \cup {None}, late : BOOLEAN,
                                  known : SUBSET Posts, posts : SUBSET Posts]]
         /\ \A w \in Weeks \ {a.week} : brief'[w] = brief[w]
<1>0. a.week \in Weeks
  BY DEF Moments
<1>1. CASE brief' = brief
  BY <1>1 DEF TypeOK, RowInv, Settled
<1>2. CASE brief' = [brief EXCEPT ![a.week] = Row(a)]
  <2>1. Row(a) \in [end : Moments \cup {None}, late : BOOLEAN,
                    known : SUBSET Posts, posts : SUBSET Posts]
    BY DEF Row, Known
  <2>2. /\ brief'[a.week] = Row(a)
        /\ \A w \in Weeks \ {a.week} : brief'[w] = brief[w]
    BY <1>0, <1>2 DEF TypeOK
  <2>3. brief' \in [Weeks -> [end : Moments \cup {None}, late : BOOLEAN,
                              known : SUBSET Posts, posts : SUBSET Posts]]
    BY <1>0, <1>2, <2>1 DEF TypeOK
  <2>4. ASSUME NEW w \in Weeks, brief'[w] # NoRow
        PROVE  /\ brief'[w].end \in Moments
               /\ brief'[w].end.week = w
               /\ brief'[w].late => brief'[w].end.day = Days
               /\ brief'[w].known \subseteq Known'
               /\ brief'[w].posts =
                    {p \in brief'[w].known : InWindow(Reference(p)', brief'[w].end)}
    <3>1. CASE w = a.week
      <4>1. /\ brief'[w].end = a
            /\ brief'[w].late = (a.week < now.week)
            /\ brief'[w].known = Known'
            /\ brief'[w].posts = {p \in Known' : InWindow(Reference(p)', a)}
        BY <2>2, <3>1 DEF Row
      <4>2. brief'[w].posts = {p \in brief'[w].known : InWindow(Reference(p)', brief'[w].end)}
        BY <4>1
      <4> QED
        BY <3>1, <4>1, <4>2
    <3>2. CASE w # a.week
      <4>1. /\ brief[w].known \subseteq Known
            /\ brief[w].posts = {p \in brief[w].known : InWindow(Reference(p), brief[w].end)}
            /\ brief'[w] = brief[w]
        BY <2>2, <2>4, <3>2 DEF RowInv
      <4>2. {p \in brief[w].known : InWindow(Reference(p), brief[w].end)}
              = {p \in brief[w].known : InWindow(Reference(p)', brief[w].end)}
        BY <4>1 DEF Settled
      <4> QED
        BY <2>4, <4>1, <4>2 DEF RowInv, Settled
    <3> QED
      BY <3>1, <3>2
  <2> QED
    BY <2>2, <2>3, <2>4 DEF RowInv
<1> QED
  BY <1>1, <1>2 DEF Generate


\* The anchors a caller may use, as GenerateKeepsRows wants them.
LEMMA AnchorsFit ==
  ASSUME CalendarAssumption, TypeOK, NEW t \in Targets
  PROVE  /\ Anchor(t) \in Moments
         /\ Anchor(t).week \in {now.week - 1, now.week}
         /\ Anchor(t).week < now.week => Anchor(t).day = Days
<1>1. now \in Moments /\ now.week > 0 /\ now.week \in Int
  BY DEF TypeOK, Moments, Weeks
<1> QED
  BY <1>1, AnchorsAreMoments DEF Anchor, Targets

LEMMA RunKeepsCalendar ==
  ASSUME CalendarAssumption, CalendarInv, Settled,
         NEW t \in Targets, NEW force \in BOOLEAN, Run(t, force),
         manual' \in 0..MaxManual
  PROVE  /\ CalendarInv'
         /\ \A w \in Weeks : /\ w + 1 < now.week => brief'[w] = brief[w]
                             /\ w < now.week => snapshot'[w] = snapshot[w]
<1>1. /\ now \in Moments /\ now.week \in Weeks /\ now.week > 0 /\ now' = now
      /\ published' = published /\ dated' = dated /\ ran' = now.week
  BY DEF CalendarInv, TypeOK, Run, Moments
<1>2. PICK S \in SUBSET {p \in Posts : published[p] # None /\ detected[p] = None} :
        detected' = [p \in Posts |-> IF p \in S THEN now ELSE detected[p]]
  BY DEF Run, Scrape
<1>3. detected' \in [Posts -> Moments \cup {None}]
  BY <1>1, <1>2 DEF CalendarInv, TypeOK
<1>4. /\ RowInv'
      /\ brief' \in [Weeks -> [end : Moments \cup {None}, late : BOOLEAN,
                               known : SUBSET Posts, posts : SUBSET Posts]]
      /\ \A w \in Weeks \ {Anchor(t).week} : brief'[w] = brief[w]
  BY <1>1, <1>3, AnchorsFit, GenerateKeepsRows DEF CalendarInv, Run
<1>5. PostInv'
  <2> SUFFICES ASSUME NEW p \in Posts, detected'[p] # None
               PROVE  published[p] # None /\ detected'[p].week <= now.week
    BY <1>1 DEF PostInv, Known
  <2>1. CASE p \in S
    BY <1>1, <1>2, <2>1 DEF Weeks
  <2>2. CASE p \notin S
    BY <1>2, <2>2 DEF CalendarInv, PostInv, Known
  <2> QED
    BY <2>1, <2>2
<1>6. \A w \in Weeks \ {now.week} : snapshot'[w] = snapshot[w]
  BY <1>1 DEF CalendarInv, TypeOK, Run, Freeze
<1>7. \/ snapshot'[now.week] = snapshot[now.week]
      \/ snapshot'[now.week] = [frozen |-> TRUE, posts |-> Known']
  BY <1>1 DEF CalendarInv, TypeOK, Run, Freeze
<1>8. snapshot' \in [Weeks -> [frozen : BOOLEAN, posts : SUBSET Posts]]
  <2>1. [frozen |-> TRUE, posts |-> Known'] \in [frozen : BOOLEAN, posts : SUBSET Posts]
    BY DEF Known
  <2>2. snapshot \in [Weeks -> [frozen : BOOLEAN, posts : SUBSET Posts]]
    BY DEF CalendarInv, TypeOK
  <2> QED
    BY <1>1, <2>1, <2>2 DEF Run, Freeze
<1>9. SnapshotInv'
  <2> SUFFICES ASSUME NEW w \in Weeks
               PROVE  /\ w > now.week => snapshot'[w] = NoSnapshot
                      /\ snapshot'[w].posts \subseteq {p \in Known' : detected'[p].week <= w}
    BY <1>1 DEF SnapshotInv
  <2>1. CASE snapshot'[w] = snapshot[w]
    BY <2>1 DEF CalendarInv, SnapshotInv, Settled
  <2>2. CASE w = now.week /\ snapshot'[w] = [frozen |-> TRUE, posts |-> Known']
    BY <1>1, <1>5, <2>2 DEF PostInv, Weeks
  <2> QED
    BY <1>6, <1>7, <2>1, <2>2
<1>10. TypeOK'
  BY <1>1, <1>3, <1>4, <1>8 DEF CalendarInv, TypeOK
<1> QED
  BY <1>1, <1>4, <1>5, <1>6, <1>9, <1>10, AnchorsFit DEF CalendarInv, Weeks

\* The same for a regeneration or a page load, which detect nothing.
LEMMA RewriteKeepsCalendar ==
  ASSUME CalendarAssumption, CalendarInv, Settled,
         NEW a \in Moments, NEW r \in BOOLEAN, Generate(a, r),
         a.week \in {now.week - 1, now.week},
         a.week < now.week => a.day = Days,
         UNCHANGED <<now, published, dated, detected, snapshot, ran>>,
         manual' \in 0..MaxManual
  PROVE  /\ CalendarInv'
         /\ \A w \in Weeks : /\ w + 1 < now.week => brief'[w] = brief[w]
                             /\ w < now.week => snapshot'[w] = snapshot[w]
<1>1. /\ RowInv'
      /\ brief' \in [Weeks -> [end : Moments \cup {None}, late : BOOLEAN,
                               known : SUBSET Posts, posts : SUBSET Posts]]
      /\ \A w \in Weeks \ {a.week} : brief'[w] = brief[w]
  BY GenerateKeepsRows DEF CalendarInv, TypeOK
<1>2. TypeOK'
  BY <1>1 DEF CalendarInv, TypeOK
<1>3. PostInv' /\ SnapshotInv'
  BY DEF CalendarInv, PostInv, SnapshotInv, Known
<1>4. now.week \in Int
  BY DEF CalendarInv, TypeOK, Moments, Weeks
<1> QED
  BY <1>1, <1>2, <1>3, <1>4 DEF CalendarInv, Weeks

\* Steps that change neither rows nor what is known.
LEMMA OtherStepsKeepCalendar ==
  ASSUME CalendarAssumption, CalendarInv, Settled,
         \/ \E p \in Posts : Publish(p) \/ Import(p)
         \/ Tick \/ Done \/ UNCHANGED vars
  PROVE  /\ CalendarInv'
         /\ UNCHANGED <<brief, snapshot>>
<1>0. now \in Moments /\ now.week \in Weeks /\ now.week > 0
  BY DEF CalendarInv, TypeOK, Moments
<1>1. UNCHANGED <<brief, snapshot>>
  BY DEF Publish, Import, Tick, Done, vars
<1>2. TypeOK' /\ now'.week >= now.week
  <2>1. ASSUME NEW p \in Posts, Publish(p) PROVE TypeOK' /\ now'.week >= now.week
    BY <1>0, <2>1 DEF CalendarInv, TypeOK, Publish, Weeks
  <2>2. ASSUME NEW p \in Posts, Import(p) PROVE TypeOK' /\ now'.week >= now.week
    BY <1>0, <2>2 DEF CalendarInv, TypeOK, Import, Asked, CalendarAssumption, Weeks
  <2>3. CASE Tick
    <3>1. now' \in Moments /\ now'.week \in {now.week, now.week + 1}
      BY <1>0, <2>3, NextMoment DEF Tick
    <3> QED
      BY <1>0, <2>3, <3>1 DEF CalendarInv, TypeOK, Tick, Weeks
  <2>4. CASE Done \/ UNCHANGED vars
    BY <1>0, <2>4 DEF CalendarInv, TypeOK, Done, vars, Weeks
  <2> QED
    BY <2>1, <2>2, <2>3, <2>4
<1>3. PostInv'
  <2>1. ASSUME NEW p \in Posts, Publish(p) PROVE PostInv'
    BY <1>0, <2>1 DEF CalendarInv, TypeOK, PostInv, Publish, Known, None, Moments
  <2>2. ASSUME NEW p \in Posts, Import(p) PROVE PostInv'
    BY <1>0, <2>2 DEF CalendarInv, TypeOK, PostInv, Import, Known, Weeks
  <2>3. CASE Tick \/ Done \/ UNCHANGED vars
    <3>1. UNCHANGED <<published, detected>>
      BY <2>3 DEF Tick, Done, vars
    <3>2. \A p \in Known : detected[p].week \in Int
      BY DEF CalendarInv, TypeOK, Known, Moments, Weeks
    <3>3. now.week \in Int /\ now'.week \in Int
      BY <1>0, <1>2 DEF TypeOK, Moments, Weeks
    <3> QED
      BY <1>2, <3>1, <3>2, <3>3 DEF CalendarInv, PostInv, Known
  <2> QED
    BY <2>1, <2>2, <2>3
<1>4. RowInv'
  <2> SUFFICES ASSUME NEW w \in Weeks, brief[w] # NoRow
               PROVE  /\ brief[w].known \subseteq Known'
                      /\ brief[w].posts =
                           {p \in brief[w].known : InWindow(Reference(p)', brief[w].end)}
    BY <1>1 DEF CalendarInv, RowInv
  <2>1. /\ brief[w].known \subseteq Known
        /\ brief[w].posts = {p \in brief[w].known : InWindow(Reference(p), brief[w].end)}
    BY DEF CalendarInv, RowInv
  <2> QED
    BY <2>1 DEF Settled
<1>5. SnapshotInv'
  <2>1. now.week \in Int /\ now'.week \in Int
    BY <1>0, <1>2 DEF TypeOK, Moments, Weeks
  <2> QED
    BY <1>1, <1>2, <2>1 DEF CalendarInv, SnapshotInv, Settled, Weeks
<1> QED
  BY <1>1, <1>2, <1>3, <1>4, <1>5 DEF CalendarInv

LEMMA CalendarStep ==
  ASSUME CalendarAssumption, CalendarInv, [Next]_vars
  PROVE  /\ CalendarInv'
         /\ \A w \in Weeks : /\ w + 1 < now.week => brief'[w] = brief[w]
                             /\ w < now.week => snapshot'[w] = snapshot[w]
<1>1. Settled
  BY KnownPostsAreSettled DEF CalendarInv
<1>2. now \in Moments /\ now.week > 0 /\ manual \in 0..MaxManual /\ manual \in Int
  BY DEF CalendarInv, TypeOK
<1>3. Asked => manual' \in 0..MaxManual
  BY <1>2 DEF Asked, CalendarAssumption
<1>4. CASE Scheduled
  BY <1>1, <1>2, <1>4, RunKeepsCalendar DEF Scheduled, Targets
<1>5. ASSUME NEW t \in Targets, NEW force \in BOOLEAN, SyncAll(t, force)
      PROVE  /\ CalendarInv'
             /\ \A w \in Weeks : /\ w + 1 < now.week => brief'[w] = brief[w]
                                 /\ w < now.week => snapshot'[w] = snapshot[w]
  BY <1>1, <1>3, <1>5, RunKeepsCalendar DEF SyncAll
<1>6. ASSUME NEW t \in Targets, NEW r \in BOOLEAN, Regenerate(t, r)
      PROVE  /\ CalendarInv'
             /\ \A w \in Weeks : /\ w + 1 < now.week => brief'[w] = brief[w]
                                 /\ w < now.week => snapshot'[w] = snapshot[w]
  <2>1. TypeOK
    BY DEF CalendarInv
  <2> QED
    BY <1>1, <1>3, <1>6, <2>1, AnchorsFit, RewriteKeepsCalendar DEF Regenerate
<1>7. CASE GetReport
  BY <1>1, <1>2, <1>3, <1>7, AnchorsAreMoments, RewriteKeepsCalendar DEF GetReport
<1>8. CASE \/ \E p \in Posts : Publish(p) \/ Import(p)
           \/ Tick \/ Done \/ UNCHANGED vars
  BY <1>1, <1>8, OtherStepsKeepCalendar
<1> QED
  BY <1>4, <1>5, <1>6, <1>7, <1>8 DEF Next

LEMMA CalendarInit == ASSUME CalendarAssumption, Init PROVE CalendarInv
<1>1. TypeOK
  BY DEF Init, TypeOK, CalendarAssumption, Moments, Weeks, NoRow, NoSnapshot
<1>2. Known = {}
  BY DEF Init, Known
<1> QED
  BY <1>1, <1>2 DEF Init, CalendarInv, PostInv, RowInv, SnapshotInv, NoSnapshot

-----------------------------------------------------------------------------

\* The invariant of the calendar: rows lie under the week their window ends in.
THEOREM CalendarInvariant == Spec => []CalendarInv
<1>1. Init => CalendarInv
  BY CalendarAssumption, CalendarInit
<1>2. CalendarInv /\ [Next]_vars => CalendarInv'
  BY CalendarAssumption, CalendarStep
<1> QED
  BY <1>1, <1>2, PTL DEF Spec

\* Type correctness of the calendar.
THEOREM TypeCorrect == Spec => []TypeOK
<1>1. CalendarInv => TypeOK
  BY DEF CalendarInv
<1> QED
  BY <1>1, CalendarInvariant, PTL


\* A reference time is a moment once the post is known.
LEMMA ReferencesAreMoments ==
  ASSUME CalendarInv, NEW p \in Known
  PROVE  Reference(p) \in Moments
BY DEF CalendarInv, TypeOK, PostInv, Known, Reference

\* HistoryIsFrozen: a brief changes in its own week and the one after, a
\* snapshot in its own week only.
THEOREM FrozenHistory == Spec => HistoryIsFrozen
<1>1. CalendarInv /\ [Next]_vars =>
        [\A w \in Weeks : /\ w + 1 < now.week => brief'[w] = brief[w]
                          /\ w < now.week => snapshot'[w] = snapshot[w]]_vars
  BY CalendarAssumption, CalendarStep
<1> QED
  BY <1>1, CalendarInvariant, PTL DEF Spec, HistoryIsFrozen

\* NoPostProvesItself: advice and proof are separated by the week's end.
THEOREM AdviceBeforeProof == Spec => []NoPostProvesItself
<1>1. CalendarInv => NoPostProvesItself
  <2> SUFFICES ASSUME CalendarInv, NEW w \in Weeks, NEW p \in snapshot[w].posts,
                      p \in Reaction(w)
               PROVE  FALSE
    BY DEF NoPostProvesItself
  <2>1. p \in Known /\ detected[p].week <= w
    BY DEF CalendarInv, SnapshotInv
  <2>2. detected[p].week = w + 1
    BY DEF Reaction
  <2> QED
    BY <2>1, <2>2 DEF Weeks
<1> QED
  BY <1>1, CalendarInvariant, PTL

\* OnlyLastDayMissing, if the window is no shorter than a week.
THEOREM LateBriefsMissLastDayOnly ==
  ASSUME WindowDays >= Days
  PROVE  Spec => []OnlyLastDayMissing
<1>1. CalendarInv => OnlyLastDayMissing
  <2> SUFFICES ASSUME CalendarInv, NEW w \in Weeks, brief[w].late, NEW p \in Missing(w)
               PROVE  Reference(p).day = Days /\ Reference(p).tick > brief[w].end.tick
    BY DEF OnlyLastDayMissing
  <2> DEFINE r == Reference(p)
             e == brief[w].end
  <2>1. brief[w] # NoRow
    BY DEF NoRow
  <2>2. /\ e \in Moments /\ e.week = w /\ e.day = Days
        /\ p \in Known /\ ~ InWindow(r, e) /\ r.week = w
    BY <2>1 DEF CalendarInv, RowInv, Missing
  <2>3. r \in Moments
    BY <2>2, ReferencesAreMoments
  <2>4. Days * (e.week - r.week) = 0
    BY <2>2, CalendarAssumption DEF CalendarAssumption, Weeks
  <2> HIDE DEF r, e
  <2>5. Days - r.day < WindowDays
    BY <2>3, CalendarAssumption DEF CalendarAssumption, Moments
  <2>6. ~ NotAfter(r, e)
    BY <2>2, <2>3, <2>4, <2>5, CalendarAssumption DEF CalendarAssumption, InWindow, Moments
  <2>7. r.day = Days /\ r.tick > e.tick
    BY <2>2, <2>3, <2>6, CalendarAssumption
       DEF CalendarAssumption, NotAfter, Before, Moments
  <2> QED
    BY <2>7 DEF r, e
<1> QED
  BY <1>1, CalendarInvariant, PTL

\* NoGapBetweenBriefs, if the window is no shorter than two weeks: the fourteen
\* days of the roundups are just enough.
THEOREM BriefsLeaveNoGap ==
  ASSUME WindowDays >= 2 * Days
  PROVE  Spec => []NoGapBetweenBriefs
<1>1. CalendarInv => NoGapBetweenBriefs
  <2> SUFFICES ASSUME CalendarInv, NEW w \in Weeks \ {LastWeek},
                      brief[w] # NoRow, brief[w + 1] # NoRow,
                      NEW p \in brief[w + 1].known,
                      Before(brief[w].end, Reference(p)),
                      NotAfter(Reference(p), brief[w + 1].end)
               PROVE  p \in brief[w + 1].posts
    BY DEF NoGapBetweenBriefs
  <2> DEFINE r == Reference(p)
             e == brief[w].end
             f == brief[w + 1].end
  <2>0. w \in Weeks /\ w + 1 \in Weeks
    BY CalendarAssumption DEF CalendarAssumption, Weeks
  <2>1. /\ e \in Moments /\ e.week = w
        /\ f \in Moments /\ f.week = w + 1
        /\ p \in Known
        /\ brief[w + 1].posts = {q \in brief[w + 1].known : InWindow(Reference(q), f)}
    BY <2>0 DEF CalendarInv, RowInv
  <2>2. r \in Moments
    BY <2>1, ReferencesAreMoments
  <2>3. Before(e, r) /\ NotAfter(r, f)
    OBVIOUS
  <2>4. InWindow(r, f)
    <3> HIDE DEF r, e, f
    <3>1. r.week \in {w, w + 1}
      BY <2>0, <2>1, <2>2, <2>3 DEF Before, NotAfter, Moments, Weeks
    <3>2. Days * (f.week - r.week) \in {0, Days}
      BY <2>0, <2>1, <3>1, CalendarAssumption DEF CalendarAssumption, Weeks
    <3>3. \A g \in {0, Days} : g + f.day - r.day < WindowDays
      BY <2>1, <2>2, CalendarAssumption DEF CalendarAssumption, Moments
    <3> QED
      BY <2>3, <3>2, <3>3 DEF InWindow
  <2> QED
    BY <2>1, <2>4
<1> QED
  BY <1>1, CalendarInvariant, PTL

=============================================================================
