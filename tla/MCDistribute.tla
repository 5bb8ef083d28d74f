---------------------------- MODULE MCDistribute ----------------------------
(***************************************************************************)
(* Three contracts in the year 25: the first has its allocation of this    *)
(* year, the second has never been given one, the third lags two years     *)
(* behind.                                                                 *)
(***************************************************************************)
EXTENDS Distribute, TLC

Row(n, c, y) == [id |-> <<Clerk, n>>, contract |-> c, useYear |-> y]

MCDatabases ==
  {[contracts |-> {1, 2, 3},
    posted |-> {Row(1, 1, 25), Row(2, 3, 23)}]}

Via(door, op) == [op |-> op, via |-> door]

\* Allocations change through the page only; the API may delete contracts.
PageJobs ==
  {Via("page", "distribute"), Via("page", "addEntry"), Via("page", "updateEntry"),
   Via("page", "deleteEntry"), Via("page", "deleteContract"), Via("api", "deleteContract")}

AnyDoorJobs == {Via("page", "distribute"), Via("api", "distribute")}

=============================================================================
