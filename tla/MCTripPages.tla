----------------------------- MODULE MCTripPages -----------------------------
(***************************************************************************)
(* Two resorts over five days, Wednesday to Sunday: in the first, a studio *)
(* and a villa at the same weekday price; in the second a studio that is   *)
(* dearer and has a day without a season.                                  *)
(***************************************************************************)
EXTENDS TripPages, TLC

CONSTANTS BLT, VWL, studio, villa

MCCharts ==
  <<[resort |-> BLT, columns |-> <<studio, villa>>,
     seasons |-> <<[periods |-> {<<3, 4>>}, sunThu |-> <<1, 1>>, friSat |-> <<2, 2>>],
                   [periods |-> {<<4, 8>>}, sunThu |-> <<2, 3>>, friSat |-> <<2, 3>>]>>],
    [resort |-> VWL, columns |-> <<studio>>,
     seasons |-> <<[periods |-> {<<3, 3>>, <<5, 6>>}, sunThu |-> <<2>>, friSat |-> <<3>>]>>]>>

\* Later resorts first when the number of stays is odd.
MCTie(n, s) == (IF n % 2 = 1 THEN -1 ELSE 1) * (10 * s.chart + s.col)

Week == [from |-> 3, to |-> 5, minNights |-> 1]
Weekend == [from |-> 4, to |-> 6, minNights |-> 1]
MCPlans == {Week, Weekend}
MCBudgets == {2}
MCCodes == {BLT, studio}

Inherits == [plan |-> Week, override |-> None, mode |-> "inherit", excluded |-> {}]
Overrides == [Inherits EXCEPT !.mode = "override", !.excluded = {studio}]
MCStartTrips == {[i \in {1} |-> t] : t \in {Inherits, Overrides}}

Symmetry == Permutations(Clients)

=============================================================================
