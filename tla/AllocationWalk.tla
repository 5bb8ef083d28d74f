--------------------------- MODULE AllocationWalk ---------------------------
(***************************************************************************)
(* AllocateStayPoints step by step: the walk over the lots that collects   *)
(* the candidates, the sort, and the walk over the candidates that draws.  *)
(* The lots come as a list that may name one lot in several rows, and the  *)
(* consumed draws as a list with several draws per lot, as BookTrip's own  *)
(* consumed list does after its first stay.                                *)
(***************************************************************************)
EXTENDS Allocation, Sequences, Functions

\* The calls explored: records [month, lots, consumed, checkIn, points].
CONSTANT Inputs

PointRow == [contract : Int, useYear : Int, points : Nat]

ASSUME InputsAssumption ==
  \A in \in Inputs :
    /\ DOMAIN in.month \subseteq Int /\ \A c \in DOMAIN in.month : in.month[c] \in 1..12
    /\ in.lots \in Seq(PointRow) /\ in.consumed \in Seq(PointRow)
    /\ in.checkIn.year \in Int /\ in.checkIn.month \in 1..12
    /\ in.points \in Int

VARIABLES
  in,          \* the arguments of the call
  pc,          \* "collect", "draw", "done" or "short" (ErrInsufficientPoints)
  next,        \* index of the next row of in.lots to look at
  candidates,  \* the candidates collected so far, in the order of the list
  remaining,   \* balance of each lot named in in.lots
  need,        \* points still to be funded
  result       \* the draws so far

vars == <<in, pc, next, candidates, remaining, need, result>>

LotOf(row) == [contract |-> row.contract, useYear |-> row.useYear]
Members(s) == {s[i] : i \in DOMAIN s}

\* SUM of the points of the rows of a list that name lot.
RowSum(rows, lot) ==
  SumOver([i \in DOMAIN rows |-> rows[i].points],
          {i \in DOMAIN rows : LotOf(rows[i]) = lot})

\* The remaining map, keyed by the lots of the list.  The draws against any
\* other lot make keys in the code that no candidate ever has.
Remaining(args) ==
  [lot \in {LotOf(row) : row \in Members(args.lots)} |->
      RowSum(args.lots, lot) - RowSum(args.consumed, lot)]

Init ==
  /\ in \in Inputs
  /\ pc = IF in.points <= 0 THEN "done" ELSE "collect"
  /\ next = 1
  /\ candidates = <<>>
  /\ remaining = Remaining(in)
  /\ need = in.points
  /\ result = <<>>

(***************************************************************************)
(* One row of lots: skipped when its lot has nothing left, has been seen,  *)
(* belongs to no known contract or is of another use year.                 *)
(***************************************************************************)
MutantIsCandidate(lot) ==  \* no seenKeys
  /\ remaining[lot] > 0
  /\ Eligible(in.month, in.checkIn, lot)
IsCandidate(lot) ==
  /\ remaining[lot] > 0
  /\ lot \notin Members(candidates)
  /\ Eligible(in.month, in.checkIn, lot)

Collect ==
  /\ pc = "collect"
  /\ next <= Len(in.lots)
  /\ candidates' = LET lot == LotOf(in.lots[next])
                   IN  IF IsCandidate(lot) THEN Append(candidates, lot)
                                           ELSE candidates
  /\ next' = next + 1
  /\ UNCHANGED <<in, pc, remaining, need, result>>

\* sort.Slice: the list in an order in which nothing comes after what it is
\* to be drawn before.
Sorted(list) ==
  LET places == 1..Len(list)
      order == CHOOSE p \in Bijection(places, places) :
                 \A i, j \in places :
                   i < j => ~DrawnBefore(in.month, in.checkIn, list[p[j]], list[p[i]])
  IN  [i \in places |-> list[order[i]]]

MutantSort ==  \* drawn in the order of the list
  /\ pc = "collect"
  /\ next > Len(in.lots)
  /\ pc' = "draw"
  /\ UNCHANGED <<in, next, candidates, remaining, need, result>>
Sort ==
  /\ pc = "collect"
  /\ next > Len(in.lots)
  /\ candidates' = Sorted(candidates)
  /\ pc' = "draw"
  /\ UNCHANGED <<in, next, remaining, need, result>>

MutantDrawn(lot) == remaining[lot]  \* the whole lot
Drawn(lot) == Smaller(need, remaining[lot])

Draw ==
  LET lot   == Head(candidates)
      drawn == Drawn(lot)
  IN
  /\ pc = "draw"
  /\ need # 0
  /\ candidates # <<>>
  /\ result' = Append(result, [lot    |-> lot,
                               rank   |-> Rank(in.month, in.checkIn, lot),
                               points |-> drawn])
  /\ remaining' = [remaining EXCEPT ![lot] = @ - drawn]
  /\ need' = need - drawn
  /\ candidates' = Tail(candidates)
  /\ UNCHANGED <<in, pc, next>>

\* A walk that ends short returns no draws at all.
MutantReturn ==  \* no error when the candidates run out
  /\ pc = "draw"
  /\ need = 0 \/ candidates = <<>>
  /\ pc' = "done"
  /\ UNCHANGED <<in, next, candidates, remaining, need, result>>
Return ==
  /\ pc = "draw"
  /\ need = 0 \/ candidates = <<>>
  /\ pc' = IF need = 0 THEN "done" ELSE "short"
  /\ result' = IF need = 0 THEN result ELSE <<>>
  /\ UNCHANGED <<in, next, candidates, remaining, need>>

Next == Collect \/ Sort \/ Draw \/ Return

Spec == Init /\ [][Next]_vars

-----------------------------------------------------------------------------
Returned == pc \in {"done", "short"}

TypeOK ==
  /\ in \in Inputs
  /\ pc \in {"collect", "draw", "done", "short"}
  /\ next \in 1..Len(in.lots) + 1
  /\ DOMAIN remaining = {LotOf(row) : row \in Members(in.lots)}
  /\ Members(candidates) \subseteq DOMAIN remaining
  /\ need \in Smaller(0, in.points)..in.points

(***************************************************************************)
(* The call returns what Allocation says: the draws of a fundable stay, in *)
(* the order banked, current, borrowed and by contract, or an error and no *)
(* draw.  Since Allocation sees sets and sums only, the result does not    *)
(* depend on the order of the lists (allocation.go, "deterministic").      *)
(***************************************************************************)
WalkMatchesAllocation ==
  Returned =>
    LET left == Remaining(in)
    IN  IF Fundable(in.month, left, in.checkIn, in.points)
        THEN /\ pc = "done"
             /\ Members(result) =
                  IF in.points <= 0 THEN {}
                  ELSE AllocateStayPoints(in.month, left, in.checkIn, in.points)
             /\ \A i, j \in DOMAIN result :
                  i < j => DrawnBefore(in.month, in.checkIn,
                                       result[i].lot, result[j].lot)
        ELSE pc = "short" /\ result = <<>>

(***************************************************************************)
(* While the walk draws, nothing is lost or spent twice: the draws and the *)
(* need add up to the price of the stay, every draw takes something, no    *)
(* lot is drawn twice, and none is drawn below zero.                       *)
(***************************************************************************)
DrawsAccounted ==
  pc \in {"draw", "done"} /\ in.points > 0 =>
    /\ SumOver([i \in DOMAIN result |-> result[i].points], DOMAIN result)
         + need = in.points
    /\ \A i \in DOMAIN result :
         /\ result[i].points > 0
         /\ \A j \in DOMAIN result : result[i].lot = result[j].lot => i = j
    /\ \A i \in DOMAIN result : remaining[result[i].lot] >= 0

(***************************************************************************)
(* Expiring points go first: a borrowed or current lot is touched only     *)
(* when every lot of an earlier disposition the stay could have used, of   *)
(* any contract, has nothing left.                                         *)
(***************************************************************************)
ExpiringFirst ==
  pc \in {"draw", "done"} =>
    \A i \in DOMAIN result : \A lot \in DOMAIN remaining :
      /\ Eligible(in.month, in.checkIn, lot)
      /\ Rank(in.month, in.checkIn, lot) < result[i].rank
      => remaining[lot] <= 0

=============================================================================
