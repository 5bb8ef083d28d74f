----------------------------- MODULE StaySearch -----------------------------
(***************************************************************************)
(* dvc.Search over the point charts: every stay inside a window of dates   *)
(* that costs no more than a budget, cheapest first.                       *)
(*                                                                         *)
(* Days are counted from a Sunday.  A chart is a record [resort, columns,  *)
(* seasons]: columns is the sequence of its room types, and a season is    *)
(* [periods, sunThu, friSat], a set of pairs of days (both included) and   *)
(* two sequences of points, one for each column.  Names, views and years   *)
(* of charts are left out.                                                 *)
(***************************************************************************)
EXTENDS Integers, FiniteSetsExt, Sums

CONSTANTS
  Charts,      \* the sequence of charts the process has loaded
  MaxNights,   \* the longest stay of one reservation
  Tie(_, _)    \* Tie(n, stay): where sorting n stays puts one among its equals

ASSUME MaxNightsAssumption == MaxNights \in Nat \ {0}

ASSUME ChartsAssumption ==
  /\ IsFiniteSet(DOMAIN Charts) /\ DOMAIN Charts \subseteq Nat
  /\ \A i \in DOMAIN Charts :
       LET chart == Charts[i] IN
       /\ IsFiniteSet(DOMAIN chart.columns) /\ DOMAIN chart.columns \subseteq Nat
       /\ DOMAIN chart.seasons \subseteq Nat
       /\ \A k \in DOMAIN chart.seasons, col \in DOMAIN chart.columns :
            chart.seasons[k].sunThu[col] \in Nat /\ chart.seasons[k].friSat[col] \in Nat

IsWeekend(day) == day % 7 \in {5, 6}

SeasonsOf(chart, day) ==
  {i \in DOMAIN chart.seasons : \E p \in chart.seasons[i].periods : day \in p[1]..p[2]}

\* The rate of the first season that covers the night.
PointsForNight(chart, col, day) ==
  LET season == chart.seasons[Min(SeasonsOf(chart, day))]
  IN  IF IsWeekend(day) THEN season.friSat[col] ELSE season.sunThu[col]

Nights(checkIn, nights) == checkIn..(checkIn + nights - 1)
Total(chart, col, checkIn, nights) ==
  SumOver([day \in Nights(checkIn, nights) |-> PointsForNight(chart, col, day)],
          Nights(checkIn, nights))

\* Every night has a rate: the walk over check-out dates stops at a gap.
Gapless(chart, checkIn, nights) ==
  \A day \in Nights(checkIn, nights) : SeasonsOf(chart, day) # {}

\* A stay keeps the chart and column it was priced from, in place of the
\* names of the resort and the room.
Stay(i, col, checkIn, nights) ==
  [chart |-> i, col |-> col, checkIn |-> checkIn, nights |-> nights,
   points |-> Total(Charts[i], col, checkIn, nights)]

\* excluded holds resort codes and room types.
Offered(excluded) ==
  {o \in UNION {{i} \X DOMAIN Charts[i].columns : i \in DOMAIN Charts} :
     Charts[o[1]].resort \notin excluded /\ Charts[o[1]].columns[o[2]] \notin excluded}

\* The stays of one column, and of every column on offer.
StaysFrom(plan, i, col) ==
  LET fits(checkIn, n) == /\ checkIn + n <= plan.to
                          /\ n >= plan.minNights
                          /\ Gapless(Charts[i], checkIn, n)
  IN  {Stay(i, col, d[1], d[2]) :
         d \in {e \in (plan.from..plan.to) \X (1..MaxNights) : fits(e[1], e[2])}}

StaysWithin(plan, excluded) ==
  UNION {StaysFrom(plan, o[1], o[2]) : o \in Offered(excluded)}

\* As rates are not negative, a stay within the budget is reached before the
\* walk stops for being over it.
Matches(plan, budget, excluded) ==
  {s \in StaysWithin(plan, excluded) : s.points <= budget}

\* By points, then by check-in.  sort.Slice is not stable: stays equal in
\* both are left in an order that depends on how many stays there are.
SortedBefore(n, s, t) ==
  \/ s.points < t.points
  \/ s.points = t.points /\ s.checkIn < t.checkIn
  \/ s.points = t.points /\ s.checkIn = t.checkIn /\ Tie(n, s) < Tie(n, t)

Search(plan, budget, excluded) ==
  LET found == Matches(plan, budget, excluded)
      n == Cardinality(found)
  IN  [row \in 1..n |->
         CHOOSE s \in found :
           Cardinality({t \in found : SortedBefore(n, t, s)}) = row - 1]

=============================================================================
