---------------------------- MODULE MCTitleAssignment ----------------------------
(* Two jobs meet on one day: two assets, the first with two candidates.  Every pair of jobs *)
(* of all kinds, also of the same kind, the button that runs three of them in a row, and the *)
(* title sync beside what enters titles.                                                    *)
EXTENDS TitleAssignment, TLC

CONSTANTS a1, a2, c1, c2, c3, t1, t2, t3, t4, t5, n1, n2, j1, j2

Owner == (c1 :> a1) @@ (c2 :> a1) @@ (c3 :> a2)
HitsOf == (n1 :> 1) @@ (n2 :> 1)
Works == {[name |-> n1, hit |-> 1], [name |-> n2, hit |-> 1]}

Kind == <<"rematch", "autopilot", "assist", "backfill", "preview", "pick",
          "confirm", "create", "dismiss", "suggest", "reopen">>
Alone(i) == [steps |-> <<Kind[i]>>, place |-> "thread"]
Tidy == [steps |-> <<"autopilot", "assist", "backfill">>, place |-> "loop"]
Manual == [steps |-> <<"sync", "enrich", "genres", "rematch">>, place |-> "thread"]
Sync == [steps |-> <<"sync", "enrich">>, place |-> "thread"]
Pair(p, q) == (j1 :> p) @@ (j2 :> q)
SmallSchedules == UNION {{Pair(Alone(i), Alone(k)) : k \in i..Len(Kind)} : i \in 1..Len(Kind)}
                  \cup {Pair(Tidy, Alone(i)) : i \in {4, 6, 7, 10}}
                  \cup {Pair(Manual, Alone(4))}
                  \cup {Pair(Sync, p) : p \in {Sync, Alone(6), Alone(8)}}

DoubleClick == {Pair(Alone(8), Alone(8))}

Cand(m, n) == [status |-> "open", mark |-> m, name |-> n]
Day(x, y, z, u, v) == (a1 :> None) @@ (a2 :> None) @@ (c1 :> x) @@ (c2 :> y) @@ (c3 :> z)
                      @@ (t1 :> u) @@ (t5 :> v) @@ (t2 :> None) @@ (t3 :> None) @@ (t4 :> None)
Known1 == [name |-> n1, hit |-> 0]
SmallDays == {Day(Cand(0, n1), None, Cand(0, n2), Known1, None),
              Day(Cand(0, n1), Cand(0, n2), None, Known1, None),
              Day(Cand(Missing, n1), Cand(0, n1), Cand(0, n2), Known1, Known1),
              Day(Cand(0, n1), Cand(0, n2), Cand(0, n2), None, None),
              Day(Cand(Missing, n1), None, Cand(Missing, n2), None, None)}
=================================================================================
