----------------------------- MODULE Allocation -----------------------------
(***************************************************************************)
(* Which lots of points fund a stay (internal/ledger/allocation.go).       *)
(*                                                                         *)
(* A lot [contract, useYear] is one contract's points of one use year.     *)
(* `month` gives each known contract the month its use year starts in,     *)
(* `left` gives each lot that was ever allotted points the balance it has  *)
(* left: what it was given less every draw against it.                     *)
(*                                                                         *)
(* This module says in closed form what the loops of AllocateStayPoints    *)
(* return; AllocationWalk models the loops and is checked against it.      *)
(***************************************************************************)
EXTENDS Integers, FiniteSets, Sums

\* The use year a date falls in, for a contract whose use year starts in
\* startMonth.  Only the year and the month of the date count.
UseYearForDate(date, startMonth) ==
  IF date.month >= startMonth THEN date.year ELSE date.year - 1

\* 0 for a banked lot, 1 for a current one, 2 for a borrowed one; anything
\* else is a use year the stay cannot draw from.
Rank(month, checkIn, lot) ==
  lot.useYear - (UseYearForDate(checkIn, month[lot.contract]) - 1)

Eligible(month, checkIn, lot) ==
  /\ lot.contract \in DOMAIN month
  /\ Rank(month, checkIn, lot) \in 0..2

Candidates(month, left, checkIn) ==
  {lot \in DOMAIN left : left[lot] > 0 /\ Eligible(month, checkIn, lot)}

\* The order candidates are drawn in: by disposition, then by contract id.
DrawnBefore(month, checkIn, a, b) ==
  \/ Rank(month, checkIn, a) < Rank(month, checkIn, b)
  \/ /\ Rank(month, checkIn, a) = Rank(month, checkIn, b)
     /\ a.contract < b.contract

\* What is still needed when the walk reaches lot: every candidate before it
\* has been emptied.
NeedAt(month, left, checkIn, points, lot) ==
  points - SumOver(left, {a \in Candidates(month, left, checkIn) :
                             DrawnBefore(month, checkIn, a, lot)})

\* The most points a stay checking in on checkIn can be funded with.
Capacity(month, left, checkIn) ==
  SumOver(left, Candidates(month, left, checkIn))

\* ErrInsufficientPoints is returned exactly when this is FALSE.
Fundable(month, left, checkIn, points) ==
  points <= 0 \/ points <= Capacity(month, left, checkIn)

Smaller(a, b) == IF a <= b THEN a ELSE b

\* The draws of a fundable stay, one per lot that contributes.
AllocateStayPoints(month, left, checkIn, points) ==
  {[lot    |-> lot,
    rank   |-> Rank(month, checkIn, lot),
    points |-> Smaller(NeedAt(month, left, checkIn, points, lot), left[lot])] :
      lot \in {a \in Candidates(month, left, checkIn) :
                  NeedAt(month, left, checkIn, points, a) > 0}}

=============================================================================
