-------------------------- MODULE MCAllocationWalk --------------------------
(***************************************************************************)
(* Calls of AllocateStayPoints for a portfolio of two contracts whose use  *)
(* years start in April and in December, so that one check-in date falls   *)
(* in different use years for the two, and a third contract that is gone.  *)
(***************************************************************************)
EXTENDS AllocationWalk, TLC

MCMonth == 1 :> 4 @@ 2 :> 12

Row(c, y, p) == [contract |-> c, useYear |-> y, points |-> p]

\* Banked, current and borrowed lots of both contracts, one of them given in
\* two sizes, a use year out of reach and a contract that was deleted.
MCRows == {Row(1, 2024, 1), Row(1, 2025, 2), Row(1, 2025, 1), Row(1, 2026, 2),
           Row(1, 2028, 2), Row(2, 2025, 2), Row(2, 2026, 1), Row(3, 2025, 2)}

MCLots == UNION {[1..n -> MCRows] : n \in 0..3}

MCConsumed ==
  {<<>>, <<Row(1, 2025, 1)>>, <<Row(1, 2025, 1), Row(1, 2025, 2)>>,
   <<Row(2, 2025, 1), Row(1, 2024, 1)>>}

MCInputs ==
  [month : {MCMonth}, lots : MCLots, consumed : MCConsumed,
   checkIn : {[year |-> 2026, month |-> 2], [year |-> 2025, month |-> 12]},
   points : {0, 1, 3, 5}]

=============================================================================
