------------------------------ MODULE MCScheduling ------------------------------
(***************************************************************************)
(* An instance of Scheduling: days of three hours of two ticks, weeks of   *)
(* two days, years of four.                                                *)
(***************************************************************************)
EXTENDS Scheduling

Capture(p, at, published, rate) == [post |-> p, at |-> at, published |-> published, rate |-> rate]

\* One bucket; two neighbouring ones, of which the second is the better; the same with a
\* later capture that turns them round; and a bucket one of whose posts has no views.
MCHistories ==
  LET early == {Capture("p1", 5, 1, 3), Capture("p2", 5, 2, 5)}
      late == {Capture("p3", 5, 3, 4), Capture("p4", 5, 4, 7)}
  IN  { early,
        early \cup late,
        early \cup late \cup {Capture("p1", 7, 1, 9)},
        early \cup {Capture("p3", 5, 3, 4), Capture("p4", 5, 4, -1)} }

\* Nothing, a near row, and every hour of the days to come.
MCOthers == { {}, {25, 28}, { t \in 20 .. 60 : t % 2 = 0 } }

MCTexts ==
  [day : {"today", "tonight", "tomorrow"}, date : {0}, time : {1, 4}] \cup
  [day : {"date"}, date : {0, 2}, time : {1}] \cup
  [day : {"iso"}, date : {3, 5}, time : {1}]
=============================================================================
