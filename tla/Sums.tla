-------------------------------- MODULE Sums --------------------------------
(***************************************************************************)
(* Sums of weights over finite sets.                                       *)
(*                                                                         *)
(* The ledger is all SUM(...): points allotted to a lot, points used from  *)
(* it, points that paid for a stay.  A sum is defined here by counting:    *)
(* the points of x are the pairs <<x, 1>>, ..., <<x, f[x]>>, and the sum   *)
(* over S is the number of points of its members.  Written this way, the   *)
(* laws of sums follow from the cardinality theorems of the library and    *)
(* need no induction over the set (see AllocationProofs).                  *)
(***************************************************************************)
EXTENDS Integers, FiniteSets

\* The individual points of the members of S, when x is worth f[x].
PointsOf(f, x) == {x} \X (1..f[x])
AllPoints(f, S) == UNION {PointsOf(f, x) : x \in S}

\* The sum of natural-number weights.
SumOver(f, S) == Cardinality(AllPoints(f, S))

\* Corrections are negative weights: what is counted on each side.
SignedSum(f, S) == SumOver(f, S) - SumOver([x \in S |-> -f[x]], S)

=============================================================================
