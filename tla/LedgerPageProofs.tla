---------------------------- MODULE LedgerPageProofs ----------------------------
(***************************************************************************)
(* What holds of the ledger pages and of the cost of points for any        *)
(* tables and requests: money is rounded to the nearest, the cached cost   *)
(* basis is current and shows every edit in time, prices are right to the  *)
(* cent, the blended rate is a mean, projected dues follow the trend, and  *)
(* the parts of a page add up.                                             *)
(***************************************************************************)
EXTENDS LedgerPage, AllocationProofs

-----------------------------------------------------------------------------
(* Rounding: the one rule by which money is divided, divRound of money.go. *)

\* What div and mod are.
LEMMA Division ==
  ASSUME NEW a \in Nat, NEW d \in Nat \ {0}
  PROVE  /\ a \div d \in Nat /\ a % d \in 0..d - 1
         /\ a = d * (a \div d) + (a % d)
OBVIOUS

\* A quotient rounded half up is within half a divisor.
LEMMA RoundedUp ==
  ASSUME NEW a \in Nat, NEW d \in Nat \ {0}
  PROVE  LET q == a \div d + (IF 2 * (a % d) >= d THEN 1 ELSE 0)
         IN  q \in Nat /\ 2 * (q * d - a) <= d /\ 2 * (a - q * d) <= d
<1> DEFINE m == a % d
           p == a \div d
<1>1. p \in Nat /\ m \in 0..d - 1 /\ a = d * p + m
  BY Division
<1>2. CASE 2 * m >= d
  <2>1. (p + 1) * d = d * p + d
    BY <1>1
  <2>2. 2 * ((p + 1) * d - a) <= d /\ 2 * (a - (p + 1) * d) <= d
    <3> HIDE DEF m, p
    <3>1. (p + 1) * d - a = d - m
      BY <1>1, <2>1
    <3>2. QED
      BY <1>1, <1>2, <3>1
  <2>3. QED
    BY <1>1, <1>2, <2>2
<1>3. CASE ~(2 * m >= d)
  <2>1. p * d = d * p
    BY <1>1
  <2>2. 2 * (p * d - a) <= d /\ 2 * (a - p * d) <= d
    <3> HIDE DEF m, p
    <3>1. p * d - a = -m
      BY <1>1, <2>1
    <3>2. QED
      BY <1>1, <1>3, <3>1
  <2>3. QED
    BY <1>1, <1>3, <2>2
<1>4. QED
  BY <1>2, <1>3

(***************************************************************************)
(* divRound(n, d) is a whole number nearest to n / d, whatever the sign    *)
(* of n, for the positive divisors the code divides by.                    *)
(***************************************************************************)
THEOREM RoundsToNearest ==
  ASSUME NEW n \in Int, NEW d \in Nat \ {0}
  PROVE  divRound(n, d) \in Int /\ 2 * Absolute(divRound(n, d) * d - n) <= d
<1> DEFINE a == Absolute(n)
           q == a \div d + (IF 2 * (a % d) >= d THEN 1 ELSE 0)
<1>1. a \in Nat /\ Absolute(d) = d /\ ~(d < 0)
  BY DEF Absolute
<1>2. q \in Nat /\ 2 * (q * d - a) <= d /\ 2 * (a - q * d) <= d
  BY <1>1, RoundedUp
<1>3. divRound(n, d) = IF n < 0 THEN -q ELSE q
  BY <1>1 DEF divRound
<1> HIDE DEF q
<1>4. CASE n < 0
  <2>1. a = -n
    BY <1>4 DEF Absolute
  <2>2. (-q) * d - n = a - q * d
    BY <1>2, <2>1
  <2>3. q * d \in Int
    BY <1>2
  <2>4. QED
    BY <1>1, <1>2, <1>3, <1>4, <2>2, <2>3 DEF Absolute
<1>5. CASE ~(n < 0)
  <2>1. a = n
    BY <1>5 DEF Absolute
  <2>2. q * d \in Int
    BY <1>2
  <2>3. QED
    BY <1>2, <1>3, <1>5, <2>1, <2>2 DEF Absolute
<1>6. QED
  BY <1>4, <1>5

(***************************************************************************)
(* PointCost is right to half a cent, for negative balances too.           *)
(***************************************************************************)
THEOREM PointCostNearest ==
  ASSUME NEW points \in Int, NEW rate \in Int, NEW dues \in Int
  PROVE  /\ PointCost(points, rate, dues) \in Int
         /\ 2 * Absolute(PointCost(points, rate, dues) * microsPerCent
                           - points * (rate + dues)) <= microsPerCent
<1>1. points * (rate + dues) \in Int
  OBVIOUS
<1>2. QED
  BY <1>1, RoundsToNearest, ScalesAssumption DEF PointCost

-----------------------------------------------------------------------------
(* The cached cost basis: CacheCurrent, for any number of clients, any      *)
(* tables, any time to live and any requests.                               *)
(*                                                                          *)
(* CacheCurrent speaks of moments when nobody fetches.  What is cached then *)
(* was read earlier, in two statements, so the invariant also says who is   *)
(* between those statements and what it holds.                              *)

Fetching == {"fetchContracts", "fetchDues"}
Discarding == \E r \in Clients : At(r, "invalidate") /\ job[r].op \in CostEdits

\* Changes are followed by Invalidate, or will be.
Undiscarded == past.missed \/ Discarding

\* The provider's mutex is held by whoever fetches, and by nobody else.
FetcherHolds == \A r \in Clients : pc[r] \in Fetching <=> costs.mu = r

\* What a fetch has read of the contracts is what they are, unless they were
\* edited meanwhile.
ReadIsCurrent ==
  \A r \in Clients : At(r, "fetchDues") => Undiscarded \/ got[r] = db.contracts

\* The variables the argument is about are functions and records.
PcShape == pc = [r \in Clients |-> pc[r]]
JobShape == job = [r \in Clients |-> job[r]]
GotShape == got = [r \in Clients |-> got[r]]
DbShape ==
  db \in [contracts : {db.contracts}, dues : {db.dues}, entries : {db.entries}, rows : {db.rows}]
CostsShape ==
  costs \in [mu : Clients \cup {Nobody}, ok : BOOLEAN, basis : {costs.basis},
             fetchedAt : {costs.fetchedAt}, began : {costs.began}]
PastShape == past \in [changed : {past.changed}, missed : BOOLEAN, mixed : {past.mixed}]

Shapes == PcShape /\ JobShape /\ GotShape /\ DbShape /\ CostsShape /\ PastShape

CacheInv == Shapes /\ FetcherHolds /\ ReadIsCurrent /\ CacheCurrent

\* The cost basis, and what it is made from, stay as they are.
CostsKept ==
  UNCHANGED <<costs, got, db.contracts, db.dues, past.missed>>

-----------------------------------------------------------------------------

(***************************************************************************)
(* A request moves alone.                                                  *)
(***************************************************************************)
LEMMA Moves ==
  ASSUME PcShape, JobShape, NEW r \in Clients, NEW label, Goto(r, label)
  PROVE  /\ JobShape' /\ pc'[r] = label
         /\ \A q \in Clients \ {r} : pc'[q] = pc[q] /\ job'[q] = job[q]
         /\ label # "idle" => job' = job
<1>1. pc = [q \in Clients |-> pc[q]] /\ job = [q \in Clients |-> job[q]]
  BY DEF PcShape, JobShape
<1>2. pc' = [pc EXCEPT ![r] = label]
  BY DEF Goto
<1>3. CASE label = "idle"
  <2>1. job' = [job EXCEPT ![r] = Nothing]
    BY <1>3 DEF Goto
  <2>2. QED
    BY <1>1, <1>2, <1>3, <2>1 DEF JobShape
<1>4. CASE label # "idle"
  <2>1. job' = job
    BY <1>4 DEF Goto
  <2>2. QED
    BY <1>1, <1>2, <1>4, <2>1 DEF JobShape
<1>5. QED
  BY <1>3, <1>4

(***************************************************************************)
(* A request that neither fetches nor is to discard what an edit of its    *)
(* made old may go anywhere but there.                                     *)
(***************************************************************************)
LEMMA Elsewhere ==
  ASSUME CacheInv, CostsKept, Shapes', NEW r \in Clients, NEW label, pc'[r] = label,
         \A q \in Clients \ {r} : pc'[q] = pc[q] /\ job'[q] = job[q],
         pc[r] \notin Fetching, label \notin Fetching,
         pc[r] = "invalidate" => job[r].op \notin CostEdits,
         label = "invalidate" => job'[r].op \notin CostEdits
  PROVE  CacheInv'
<1>2. Discarding' <=> Discarding
  BY DEF Discarding, At
<1>3. FetcherHolds'
  BY DEF FetcherHolds, CacheInv, CostsKept, Fetching
<1>4. ReadIsCurrent'
  BY <1>2 DEF ReadIsCurrent, CacheInv, CostsKept, At, Fetching, Undiscarded
<1>5. CacheCurrent'
  <2>1. Discarding <=> ~\A q \in Clients : At(q, "invalidate") => job[q].op \notin CostEdits
    BY DEF Discarding
  <2>2. Discarding' <=> ~\A q \in Clients : At(q, "invalidate")' => job'[q].op \notin CostEdits
    BY DEF Discarding
  <2>3. QED
    BY <1>2, <2>1, <2>2 DEF CacheCurrent, CurrentBasis, CacheInv, CostsKept
<1>6. QED
  BY <1>3, <1>4, <1>5 DEF CacheInv

\* The same, for a request that goes there.
LEMMA GoesElsewhere ==
  ASSUME CacheInv, CostsKept, Shapes', NEW r \in Clients, NEW label, Goto(r, label),
         pc[r] \notin Fetching, label \notin Fetching,
         "invalidate" \in {pc[r], label} => job[r].op \notin CostEdits
  PROVE  CacheInv'
<1>1. PcShape /\ JobShape
  BY DEF CacheInv, Shapes
<1>2. /\ pc'[r] = label /\ \A q \in Clients \ {r} : pc'[q] = pc[q] /\ job'[q] = job[q]
      /\ label # "idle" => job' = job
  BY <1>1, Moves
<1>3. QED
  BY <1>2, Elsewhere

(***************************************************************************)
(* An edit of contracts or dues leaves the cache to be discarded, or is    *)
(* missed.                                                                 *)
(***************************************************************************)
LEMMA CostEdited ==
  ASSUME CacheInv, Shapes', NEW r \in Clients, NEW label, Goto(r, label),
         At(r, "edit"), label \notin Fetching, job[r].op \in CostEdits,
         past'.missed \/ label = "invalidate", UNCHANGED <<costs, got>>
  PROVE  CacheInv'
<1>1. PcShape /\ JobShape
  BY DEF CacheInv, Shapes
<1>2. /\ pc'[r] = label /\ \A q \in Clients \ {r} : pc'[q] = pc[q] /\ job'[q] = job[q]
      /\ label # "idle" => job' = job
  BY <1>1, Moves
<1>3. past'.missed \/ Discarding'
  BY <1>2 DEF Discarding, At
<1>4. FetcherHolds'
  BY <1>2 DEF FetcherHolds, CacheInv, At, Fetching
<1>5. ReadIsCurrent' /\ CacheCurrent'
  BY <1>3 DEF ReadIsCurrent, CacheCurrent, Undiscarded, Discarding
<1>6. QED
  BY <1>4, <1>5 DEF CacheInv

(***************************************************************************)
(* Whatever an edit of entries writes, it does not touch what prices.      *)
(***************************************************************************)
LEMMA EntryEdited ==
  ASSUME CacheInv, Shapes', NEW r \in Clients, job[r].op \in EntryEdits \cup TripEdits,
         At(r, "edit"), UNCHANGED <<db.contracts, db.dues>>, Executed(r)
  PROVE  CacheInv'
<1>1. job[r].op \notin CostEdits
  BY DEF EntryEdits, TripEdits, CostEdits
<1>2. PICK label \in {"idle", "invalidate", "render"} : Goto(r, label)
  BY DEF Executed
<1>3. past'.missed = past.missed
  BY <1>1 DEF Executed, CacheInv, Shapes, PastShape
<1>4. CostsKept
  BY <1>3 DEF CostsKept, Executed
<1>5. QED
  BY <1>1, <1>2, <1>4, GoesElsewhere DEF At, Fetching

\* An executed edit of contracts or dues: the invariant still holds.
LEMMA CostsExecuted ==
  ASSUME CacheInv, Shapes', NEW r \in Clients, job[r].op \in CostEdits, At(r, "edit"), Executed(r)
  PROVE  CacheInv'
<1> DEFINE discards(lost) == Discards(r) /\ ~lost
           label(lost) == IF discards(lost) THEN "invalidate"
                          ELSE IF ByPage(r) THEN "render" ELSE "idle"
<1>0. PICK lost \in BOOLEAN :
        /\ Goto(r, label(lost))
        /\ \E changed, mixed :
             past' = [changed |-> changed,
                      missed |-> past.missed \/ (job[r].op \in CostEdits /\ ~discards(lost)),
                      mixed |-> mixed]
  BY Zenon DEF Executed
<1>1. past'.missed = (past.missed \/ ~discards(lost))
  BY <1>0
<1>2. past'.missed \/ label(lost) = "invalidate"
  BY <1>1
<1>3. label(lost) \notin Fetching
  BY DEF Fetching
<1> HIDE DEF label
<1>4. UNCHANGED <<costs, got>>
  BY DEF Executed
<1>5. QED
  BY <1>0, <1>2, <1>3, <1>4, CostEdited

-----------------------------------------------------------------------------

(***************************************************************************)
(* Every step keeps the shapes, variable by variable.                      *)
(***************************************************************************)

EditEntries(r) ==
  AddEntry(r) \/ UpdateEntry(r) \/ DeleteEntry(r) \/ BookTrip(r) \/ RemoveCharges(r)
EditCosts(r) ==
  AddContract(r) \/ UpdateContract(r) \/ DeleteContract(r) \/ UpsertDues(r) \/ DeleteDues(r)

\* An edit of entries writes neither contracts nor dues.
LEMMA EntriesWritten ==
  ASSUME DbShape, NEW r \in Clients, EditEntries(r)
  PROVE  /\ DbShape' /\ UNCHANGED <<db.contracts, db.dues>>
         /\ Executed(r) /\ At(r, "edit") /\ job[r].op \in EntryEdits \cup TripEdits
<1>1. CASE AddEntry(r)
  BY <1>1 DEF AddEntry, DbShape, Editing, EntryEdits
<1>2. CASE UpdateEntry(r)
  BY <1>2 DEF UpdateEntry, DbShape, Editing, EntryEdits
<1>3. CASE DeleteEntry(r)
  BY <1>3 DEF DeleteEntry, DbShape, Editing, EntryEdits
<1>4. CASE BookTrip(r)
  <2>1. PICK E, n : db' = [db EXCEPT !.entries = E, !.rows = n]
    BY <1>4, Zenon DEF BookTrip
  <2>2. DbShape' /\ UNCHANGED <<db.contracts, db.dues>>
    BY <2>1 DEF DbShape
  <2>3. QED
    BY <1>4, <2>2 DEF BookTrip, Editing, TripEdits
<1>5. CASE RemoveCharges(r)
  BY <1>5 DEF RemoveCharges, DbShape, Editing, TripEdits
<1>6. QED
  BY <1>1, <1>2, <1>3, <1>4, <1>5 DEF EditEntries

\* What an edit of contracts or dues is: a row written, then Executed.
LEMMA CostsWritten ==
  ASSUME DbShape, NEW r \in Clients, EditCosts(r)
  PROVE  DbShape' /\ Executed(r) /\ At(r, "edit") /\ job[r].op \in CostEdits
<1>1. CASE AddContract(r)
  BY <1>1 DEF AddContract, DbShape, Editing, CostEdits
<1>2. CASE UpdateContract(r)
  BY <1>2 DEF UpdateContract, DbShape, Editing, CostEdits
<1>3. CASE DeleteContract(r)
  BY <1>3 DEF DeleteContract, DbShape, Editing, CostEdits
<1>4. CASE UpsertDues(r)
  BY <1>4 DEF UpsertDues, DbShape, Editing, CostEdits
<1>5. CASE DeleteDues(r)
  BY <1>5 DEF DeleteDues, DbShape, Editing, CostEdits
<1>6. QED
  BY <1>1, <1>2, <1>3, <1>4, <1>5 DEF EditCosts

\* The history stays a record.
LEMMA PastShapeKept ==
  ASSUME PastShape, NEW r \in Clients, Handle(r)
  PROVE  PastShape'
<1>1. CASE UNCHANGED past
  BY <1>1 DEF PastShape
<1>2. CASE Show(r) \/ FailView(r)
  BY <1>2 DEF Show, FailView, Finish, PastShape
<1>3. CASE Basis(r)
  <2>1. CASE past' = [past EXCEPT !.missed = FALSE]
    BY <2>1 DEF PastShape
  <2>2. UNCHANGED past \/ past' = [past EXCEPT !.missed = FALSE]
    BY <1>3, Zenon DEF Basis
  <2>3. QED
    BY <1>1, <2>1, <2>2
<1>4. CASE Executed(r)
  <2>1. PICK changed, missed, mixed :
          past' = [changed |-> changed, missed |-> past.missed \/ missed, mixed |-> mixed]
    BY <1>4, Zenon DEF Executed
  <2>2. past.missed \in BOOLEAN
    BY DEF PastShape
  <2>3. \E one : past'.missed = (past.missed \/ one) /\ past' = [changed |-> past'.changed, missed |-> past'.missed, mixed |-> past'.mixed]
    BY <2>1
  <2>4. QED
    BY <2>2, <2>3 DEF PastShape
<1>5. QED
  BY <1>1, <1>2, <1>3, <1>4
  DEF Handle, Lock, Invalidate, ReadView, AddEntry, UpdateEntry, DeleteEntry, BookTrip,
      RemoveCharges, AddContract, UpdateContract, DeleteContract, UpsertDues, DeleteDues,
      RejectEdit, FetchContracts, FetchDues, FailFetch

\* The provider stays a record.
LEMMA CostsShapeKept ==
  ASSUME CostsShape, NEW r \in Clients, Handle(r)
  PROVE  CostsShape'
<1>1. CASE UNCHANGED costs
  BY <1>1 DEF CostsShape
<1>2. CASE Invalidate(r)
  BY <1>2 DEF Invalidate, CostsShape
<1>3. CASE Basis(r)
  <2>1. CASE costs' = [costs EXCEPT !.mu = r, !.began = now]
    BY <2>1 DEF CostsShape
  <2>2. QED
    BY <1>1, <1>3, <2>1 DEF Basis, Fetcher
<1>4. CASE FetchDues(r)
  <2>1. PICK b : costs' = [costs EXCEPT !.mu = Nobody, !.ok = TRUE, !.fetchedAt = now, !.basis = b]
    BY <1>4 DEF FetchDues
  <2>2. QED
    BY <2>1 DEF CostsShape
<1>5. CASE FailFetch(r)
  BY <1>5 DEF FailFetch, CostsShape
<1>6. QED
  BY <1>1, <1>2, <1>3, <1>4, <1>5
  DEF Handle, Lock, ReadView, Show, FailView, Finish, AddEntry, UpdateEntry, DeleteEntry,
      BookTrip, RemoveCharges, AddContract, UpdateContract, DeleteContract, UpsertDues,
      DeleteDues, RejectEdit, FetchContracts, Executed

\* What fetches have read stays a function.
LEMMA GotShapeKept ==
  ASSUME GotShape, NEW r \in Clients, Handle(r)
  PROVE  GotShape'
<1>1. CASE UNCHANGED got
  BY <1>1 DEF GotShape
<1>2. CASE FetchContracts(r) \/ FetchDues(r) \/ FailFetch(r)
  BY <1>2 DEF FetchContracts, FetchDues, FailFetch, GotShape
<1>3. QED
  BY <1>1, <1>2
  DEF Handle, Lock, Invalidate, ReadView, Show, FailView, Finish, AddEntry, UpdateEntry,
      DeleteEntry, BookTrip, RemoveCharges, AddContract, UpdateContract, DeleteContract,
      UpsertDues, DeleteDues, RejectEdit, Basis, Executed

\* Positions stay a function.
LEMMA PcShapeKept ==
  ASSUME PcShape, NEW r \in Clients, Handle(r)
  PROVE  PcShape'
<1>1. ASSUME NEW label, Goto(r, label)
      PROVE  PcShape'
  BY <1>1 DEF Goto, PcShape
<1>2. CASE Executed(r)
  <2>1. PICK label \in {"idle", "invalidate", "render"} : pc' = [pc EXCEPT ![r] = label]
    BY <1>2 DEF Executed, Goto
  <2>2. QED
    BY <2>1 DEF PcShape
<1>3. CASE ReadView(r)
  BY <1>3 DEF ReadView, PcShape
<1>4. CASE Lock(r) \/ RejectEdit(r)
  <2>1. PICK label \in {"idle", "edit", "render"} : pc' = [pc EXCEPT ![r] = label]
    BY <1>4 DEF Lock, RejectEdit, Goto
  <2>2. QED
    BY <2>1 DEF PcShape
<1>5. CASE Basis(r) \/ Invalidate(r)
  <2>1. PICK label : pc' = [pc EXCEPT ![r] = label]
    BY <1>5 DEF Basis, Invalidate, Goto
  <2>2. QED
    BY <2>1 DEF PcShape
<1>6. QED
  BY <1>1, <1>2, <1>3, <1>4, <1>5
  DEF Handle, Show, FailView, Finish, AddEntry, UpdateEntry, DeleteEntry, BookTrip, RemoveCharges,
      AddContract, UpdateContract, DeleteContract, UpsertDues, DeleteDues,
      FetchContracts, FetchDues, FailFetch

\* A request moves by Goto, or reads on where it is.
LEMMA HandleMoves ==
  ASSUME NEW r \in Clients, Handle(r)
  PROVE  UNCHANGED <<pc, job>> \/ \E label : Goto(r, label)
<1>1. CASE Executed(r)
  BY <1>1, Zenon DEF Executed
<1>2. CASE Lock(r) \/ Invalidate(r) \/ Show(r) \/ FailView(r) \/ RejectEdit(r)
  BY <1>2, Zenon DEF Lock, Invalidate, Show, FailView, Finish, RejectEdit
<1>3. CASE Basis(r) \/ FetchContracts(r) \/ FetchDues(r) \/ FailFetch(r)
  BY <1>3, Zenon DEF Basis, FetchContracts, FetchDues, FailFetch
<1>4. CASE ReadView(r)
  BY <1>4 DEF ReadView
<1>5. QED
  BY <1>1, <1>2, <1>3, <1>4
  DEF Handle, AddEntry, UpdateEntry, DeleteEntry, BookTrip, RemoveCharges, AddContract,
      UpdateContract, DeleteContract, UpsertDues, DeleteDues

\* Requests stay a function.
LEMMA JobShapeKept ==
  ASSUME PcShape, JobShape, NEW r \in Clients, Handle(r)
  PROVE  JobShape'
<1>1. CASE UNCHANGED <<pc, job>>
  BY <1>1 DEF JobShape
<1>2. ASSUME NEW label, Goto(r, label)
      PROVE  JobShape'
  BY <1>2, Moves
<1>3. QED
  BY <1>1, <1>2, HandleMoves

\* The tables stay a record.
LEMMA DbShapeKept ==
  ASSUME DbShape, NEW r \in Clients, Handle(r)
  PROVE  DbShape'
<1>1. CASE UNCHANGED db
  BY <1>1 DEF DbShape
<1>2. CASE EditEntries(r) \/ EditCosts(r)
  BY <1>2, EntriesWritten, CostsWritten
<1>3. QED
  BY <1>1, <1>2
  DEF Handle, EditEntries, EditCosts, Lock, Invalidate, ReadView, Show, FailView, Finish,
      RejectEdit, Basis, FetchContracts, FetchDues, FailFetch

\* All of them together.
LEMMA ShapesKept ==
  ASSUME Shapes, NEW r \in Clients, Handle(r)
  PROVE  Shapes'
BY PcShapeKept, JobShapeKept, GotShapeKept, DbShapeKept, CostsShapeKept, PastShapeKept DEF Shapes

-----------------------------------------------------------------------------

(***************************************************************************)
(* The steps of the provider.  A fetch that is served was read while its   *)
(* client held the mutex, so no discard can have come between.             *)
(***************************************************************************)
LEMMA Discarded ==
  ASSUME CacheInv, Shapes', NEW r \in Clients, Invalidate(r)
  PROVE  CacheInv'
<1>1. /\ costs.mu = Nobody /\ costs'.mu = Nobody /\ ~costs'.ok
      /\ UNCHANGED <<db, got, past>> /\ At(r, "invalidate")
  BY DEF Invalidate, CacheInv, Shapes, CostsShape
<1>2. PICK label \in {"render", "costs", "idle"} :
        \A q \in Clients : pc'[q] = IF q = r THEN label ELSE pc[q]
  BY DEF Invalidate, Goto, CacheInv, Shapes, PcShape
<1>3. \A q \in Clients : pc[q] \notin Fetching /\ pc'[q] \notin Fetching
  BY <1>1, <1>2, ClientsAssumption DEF CacheInv, FetcherHolds, Fetching
<1>4. FetcherHolds'
  BY <1>1, <1>3, ClientsAssumption DEF FetcherHolds
<1>5. ReadIsCurrent' /\ CacheCurrent'
  BY <1>1, <1>3 DEF ReadIsCurrent, CacheCurrent, Fetching, At
<1>6. QED
  BY <1>4, <1>5 DEF CacheInv

\* A request that asks for the basis gets it, or takes the mutex and fetches.
LEMMA Begun ==
  ASSUME CacheInv, Shapes', NEW r \in Clients, Basis(r)
  PROVE  CacheInv'
<1>1. CASE Fresh
  <2>1. Goto(r, "idle") /\ UNCHANGED <<db, costs, got, past>> /\ At(r, "costs")
    BY <1>1 DEF Basis
  <2>2. QED
    BY <2>1, GoesElsewhere DEF CostsKept, At, Fetching
<1>2. CASE ~Fresh
  <2>1. costs' = [costs EXCEPT !.mu = r, !.began = now]
    BY <1>2 DEF Basis, Fetcher
  <2>2. costs.mu = Nobody /\ costs'.mu = r
    BY <2>1 DEF Basis, CacheInv, Shapes, CostsShape
  <2>3. \A q \in Clients : pc'[q] = IF q = r THEN "fetchContracts" ELSE pc[q]
    BY <1>2 DEF Basis, Goto, CacheInv, Shapes, PcShape
  <2>4. \A q \in Clients : pc[q] \notin Fetching
    BY <2>2, ClientsAssumption DEF CacheInv, FetcherHolds
  <2>5. FetcherHolds'
    BY <2>2, <2>3, <2>4 DEF FetcherHolds, Fetching
  <2>6. ReadIsCurrent'
    BY <2>3, <2>4 DEF ReadIsCurrent, At, Fetching
  <2>7. CacheCurrent'
    BY <2>2, ClientsAssumption DEF CacheCurrent
  <2>8. QED
    BY <2>5, <2>6, <2>7 DEF CacheInv
<1>3. QED
  BY <1>1, <1>2

\* The fetch has read the contracts and holds what they are.
LEMMA HalfRead ==
  ASSUME CacheInv, Shapes', NEW r \in Clients, FetchContracts(r)
  PROVE  CacheInv'
<1>1. /\ got'[r] = db.contracts
      /\ UNCHANGED <<db, costs, past>> /\ At(r, "fetchContracts")
  BY DEF FetchContracts, CacheInv, Shapes, GotShape
<1>2. \A q \in Clients : pc'[q] = IF q = r THEN "fetchDues" ELSE pc[q]
  BY DEF FetchContracts, Goto, CacheInv, Shapes, PcShape
<1>3. costs.mu = r
  BY <1>1 DEF CacheInv, FetcherHolds, At, Fetching
<1>4. FetcherHolds'
  BY <1>1, <1>2 DEF FetcherHolds, CacheInv, At, Fetching
<1>5. \A q \in Clients : At(q, "fetchDues")' => q = r
  BY <1>1, <1>3, <1>4 DEF FetcherHolds, At, Fetching
<1>6. ReadIsCurrent'
  BY <1>1, <1>5 DEF ReadIsCurrent
<1>7. CacheCurrent'
  BY <1>1, <1>3, ClientsAssumption DEF CacheCurrent
<1>8. QED
  BY <1>4, <1>6, <1>7 DEF CacheInv

\* The fetch ends: what it caches is current, unless somebody is to discard it.
LEMMA Fetched ==
  ASSUME CacheInv, Shapes', NEW r \in Clients, FetchDues(r) \/ FailFetch(r)
  PROVE  CacheInv'
<1>1. costs.mu = r
  BY DEF FetchDues, FailFetch, CacheInv, FetcherHolds, At, Fetching
<1>2. \A q \in Clients : pc'[q] = IF q = r THEN "idle" ELSE pc[q]
  BY DEF FetchDues, FailFetch, Goto, CacheInv, Shapes, PcShape
<1>3. costs'.mu = Nobody /\ UNCHANGED <<db, past>>
  BY DEF FetchDues, FailFetch, CacheInv, Shapes, CostsShape
<1>4. \A q \in Clients : pc'[q] \notin Fetching
  BY <1>1, <1>2 DEF CacheInv, FetcherHolds, Fetching
<1>5. FetcherHolds' /\ ReadIsCurrent'
  BY <1>3, <1>4, ClientsAssumption DEF FetcherHolds, ReadIsCurrent, At, Fetching
<1>6. CacheCurrent'
  <2>1. CASE FailFetch(r)
    <3>1. ~costs'.ok
      BY <2>1 DEF FailFetch, CacheInv, Shapes, CostsShape
    <3>2. QED
      BY <3>1 DEF CacheCurrent
  <2>2. CASE FetchDues(r)
    <3>1. costs'.basis = NewCostBasis(got[r], db.dues)
      BY <2>2 DEF FetchDues, CacheInv, Shapes, CostsShape
    <3>2. At(r, "fetchDues")
      BY <2>2 DEF FetchDues
    <3>3. Undiscarded' <=> Undiscarded
      <4>1. PcShape /\ JobShape /\ Goto(r, "idle")
        BY <2>2 DEF FetchDues, CacheInv, Shapes
      <4>2. \A q \in Clients \ {r} : pc'[q] = pc[q] /\ job'[q] = job[q]
        BY <4>1, Moves
      <4>3. QED
        BY <1>2, <1>3, <3>2, <4>2 DEF Undiscarded, Discarding, At
    <3>4. Undiscarded \/ got[r] = db.contracts
      BY <3>2 DEF CacheInv, ReadIsCurrent
    <3>5. QED
      BY <1>3, <3>1, <3>3, <3>4 DEF CacheCurrent, CurrentBasis, Undiscarded, Discarding
  <2>3. QED
    BY <2>1, <2>2
<1>7. QED
  BY <1>5, <1>6 DEF CacheInv

-----------------------------------------------------------------------------

\* Every step of a request keeps the invariant.
LEMMA HandledInv ==
  ASSUME CacheInv, NEW r \in Clients, Handle(r)
  PROVE  CacheInv'
<1>1. Shapes'
  BY ShapesKept DEF CacheInv
<1>2. CASE EditEntries(r)
  BY <1>1, <1>2, EntriesWritten, EntryEdited DEF CacheInv, Shapes
<1>3. CASE EditCosts(r)
  BY <1>1, <1>3, CostsWritten, CostsExecuted DEF CacheInv, Shapes
<1>4. CASE Lock(r) \/ RejectEdit(r)
  <2>1. PICK label \in {"idle", "edit", "render"} : Goto(r, label)
    BY <1>4 DEF Lock, RejectEdit
  <2>2. UNCHANGED <<db, costs, got, past>> /\ pc[r] \in {"lock", "edit"}
    BY <1>4 DEF Lock, RejectEdit, At
  <2>3. QED
    BY <1>1, <2>1, <2>2, GoesElsewhere DEF CostsKept, Fetching
<1>5. CASE Show(r) \/ FailView(r)
  <2>1. past'.missed = past.missed
    BY <1>5 DEF Show, FailView, Finish, CacheInv, Shapes, PastShape
  <2>2. Goto(r, "idle") /\ UNCHANGED <<db, costs, got>> /\ At(r, "render")
    BY <1>5 DEF Show, FailView, Finish
  <2>3. QED
    BY <1>1, <2>1, <2>2, GoesElsewhere DEF CostsKept, At, Fetching
<1>6. CASE ReadView(r)
  <2>1. UNCHANGED <<db, costs, got, past, pc, job>>
    BY <1>6 DEF ReadView
  <2>2. QED
    BY <1>1, <2>1 DEF CacheInv, FetcherHolds, ReadIsCurrent, CacheCurrent, CurrentBasis,
                      Undiscarded, Discarding, At
<1>7. QED
  BY <1>1, <1>2, <1>3, <1>4, <1>5, <1>6, Discarded, Begun, HalfRead, Fetched
  DEF Handle, EditEntries, EditCosts

\* So does every step of the system.
LEMMA StepInv ==
  ASSUME CacheInv, [Next]_vars
  PROVE  CacheInv'
<1>1. CASE UNCHANGED <<db, costs, got, past, pc, job>>
  BY <1>1 DEF CacheInv, Shapes, PcShape, JobShape, GotShape, DbShape, CostsShape, PastShape,
              FetcherHolds, ReadIsCurrent, CacheCurrent, CurrentBasis, Undiscarded, Discarding, At
<1>2. ASSUME NEW r \in Clients, Send(r)
      PROVE  CacheInv'
  <2>1. PICK label \in {"lock", "edit", "costs"}, j \in Jobs :
          pc' = [pc EXCEPT ![r] = label] /\ job' = [job EXCEPT ![r] = j]
    BY <1>2 DEF Send
  <2>2. UNCHANGED <<db, costs, got, past>> /\ At(r, "idle")
    BY <1>2 DEF Send
  <2>3. Shapes'
    BY <2>1, <2>2 DEF CacheInv, Shapes, PcShape, JobShape, GotShape, DbShape, CostsShape, PastShape
  <2>4. pc'[r] = label /\ \A q \in Clients \ {r} : pc'[q] = pc[q] /\ job'[q] = job[q]
    BY <2>1 DEF CacheInv, Shapes, PcShape, JobShape
  <2>5. QED
    BY <2>2, <2>3, <2>4, Elsewhere DEF CostsKept, At, Fetching
<1>3. QED
  BY <1>1, <1>2, HandledInv DEF Next, Tick, Done, vars

\* Nothing is cached at first.
LEMMA InitInv ==
  ASSUME Init
  PROVE  CacheInv
<1>1. pc = [r \in Clients |-> "idle"] /\ got = [r \in Clients |-> << >>]
  BY DEF Init
<1>2. costs = [mu |-> Nobody, ok |-> FALSE, basis |-> ZeroBasis, fetchedAt |-> 0, began |-> 0]
  BY DEF Init
<1>3. DbShape
  BY TablesAssumption DEF Init, DbShape
<1>4. CostsShape /\ PastShape
  BY <1>2 DEF Init, CostsShape, PastShape
<1>5. PcShape /\ JobShape /\ GotShape
  BY <1>1 DEF Init, PcShape, JobShape, GotShape
<1>6. costs.mu = Nobody /\ ~costs.ok
  BY <1>2
<1>7. FetcherHolds /\ ReadIsCurrent /\ CacheCurrent
  BY <1>1, <1>6, ClientsAssumption DEF FetcherHolds, ReadIsCurrent, CacheCurrent, Fetching, At
<1>8. QED
  BY <1>3, <1>4, <1>5, <1>7 DEF CacheInv, Shapes

(***************************************************************************)
(* Once Invalidate has returned, no trip page is priced with contracts or  *)
(* dues from before the edit.                                              *)
(***************************************************************************)
THEOREM CacheStaysCurrent == Spec => []CacheCurrent
<1>1. Init => CacheInv
  BY InitInv
<1>2. CacheInv /\ [Next]_vars => CacheInv'
  BY StepInv
<1>3. CacheInv => CacheCurrent
  BY DEF CacheInv
<1>4. QED
  BY <1>1, <1>2, <1>3, PTL DEF Spec

-----------------------------------------------------------------------------
(* Who holds the page's mutex, and what is how old: TypeOK and              *)
(* EditsReachTripPages.                                                     *)

\* Nothing happened in the future, and a basis was begun before it was had.
Clock ==
  /\ now \in 0..MaxTime
  /\ costs.began \in 0..now /\ costs.fetchedAt \in 0..now /\ past.changed \in 0..now
  /\ costs.ok /\ costs.mu = Nobody => costs.began <= costs.fetchedAt

Counted ==
  /\ sent \in [requests : Int, edits : Int]
  /\ sent.requests <= MaxSends /\ sent.edits <= MaxEdits
  /\ past.mixed \in SUBSET Clients

\* Only a page waits for its mutex, and from its edit on it holds it.
PageHolds ==
  /\ \A r \in Clients : pc[r] \in {"lock", "render"} => ByPage(r)
  /\ \A r \in Clients : ByPage(r) /\ pc[r] \in Locked <=> mu = r

\* What a basis does not show was edited after it was begun.
Aged ==
  /\ costs.ok /\ costs.mu = Nobody /\ costs.basis # CurrentBasis => past.changed >= costs.began
  /\ \A r \in Clients :
       At(r, "fetchDues") /\ got[r] # db.contracts => past.changed >= costs.began

PageInv == CacheInv /\ Clock /\ Counted /\ PageHolds /\ Aged

(***************************************************************************)
(* At first nobody holds anything.                                         *)
(***************************************************************************)
LEMMA PageInit == Init => PageInv
<1> SUFFICES ASSUME Init
             PROVE  PageInv
  OBVIOUS
<1>1. /\ now = 0 /\ mu = Nobody /\ sent = [requests |-> 0, edits |-> 0]
      /\ costs = [mu |-> Nobody, ok |-> FALSE, basis |-> ZeroBasis, fetchedAt |-> 0, began |-> 0]
      /\ pc = [r \in Clients |-> "idle"] /\ job = [r \in Clients |-> Nothing]
      /\ past = [changed |-> 0, missed |-> FALSE, mixed |-> {}]
  BY DEF Init
<1>2. /\ costs.mu = Nobody /\ ~costs.ok /\ costs.began = 0 /\ costs.fetchedAt = 0
      /\ past.changed = 0 /\ past.mixed = {} /\ sent.requests = 0 /\ sent.edits = 0
  BY <1>1
<1>3. Clock
  BY <1>1, <1>2, LimitsAssumption DEF Clock
<1>4. Counted
  BY <1>1, <1>2, LimitsAssumption DEF Counted
<1>5. PageHolds /\ Aged
  <2>1. \A r \in Clients : pc[r] = "idle"
    BY <1>1
  <2>2. PageHolds
    BY <1>1, <2>1, ClientsAssumption DEF PageHolds, At, Locked
  <2>3. Aged
    BY <1>2, <2>1 DEF Aged, At
  <2>4. QED
    BY <2>2, <2>3
<1>6. QED
  BY <1>3, <1>4, <1>5, InitInv DEF PageInv

(***************************************************************************)
(* Time goes by: nothing gets younger.                                     *)
(***************************************************************************)
LEMMA ClockKept ==
  ASSUME PageInv, [Next]_vars
  PROVE  Clock'
<1>1. /\ now \in 0..MaxTime /\ MaxTime \in Nat
      /\ costs.began \in 0..now /\ costs.fetchedAt \in 0..now /\ past.changed \in 0..now
      /\ costs.ok /\ costs.mu = Nobody => costs.began <= costs.fetchedAt
      /\ CostsShape /\ PastShape
  BY LimitsAssumption DEF PageInv, Clock, CacheInv, Shapes
<1>2. CASE UNCHANGED costs /\ now' = now /\ past'.changed \in {past.changed, now}
  BY <1>1, <1>2 DEF Clock
<1>3. CASE Tick
  BY <1>1, <1>3 DEF Tick, Clock
<1>4. ASSUME NEW r \in Clients, Executed(r)
      PROVE  Clock'
  <2>1. past'.changed \in {past.changed, now} /\ UNCHANGED <<costs, now>>
    BY <1>4 DEF Executed
  <2>2. QED
    BY <1>2, <2>1
<1>5. ASSUME NEW r \in Clients, Show(r) \/ FailView(r)
      PROVE  Clock'
  <2>1. past'.changed = past.changed /\ UNCHANGED <<costs, now>>
    BY <1>1, <1>5 DEF Show, FailView, Finish, PastShape
  <2>2. QED
    BY <1>2, <2>1
<1>6. ASSUME NEW r \in Clients, Invalidate(r)
      PROVE  Clock'
  <2>1. /\ ~costs'.ok /\ costs'.began = costs.began /\ costs'.fetchedAt = costs.fetchedAt
        /\ UNCHANGED <<now, past>>
    BY <1>1, <1>6 DEF Invalidate, CostsShape
  <2>2. QED
    BY <1>1, <2>1 DEF Clock
<1>7. ASSUME NEW r \in Clients, Basis(r)
      PROVE  Clock'
  <2>1. CASE Fresh
    <3>1. UNCHANGED <<costs, now, past>>
      BY <1>7, <2>1 DEF Basis
    <3>2. QED
      BY <1>2, <3>1
  <2>2. CASE ~Fresh
    <3>1. /\ costs' = [costs EXCEPT !.mu = r, !.began = now] /\ now' = now
          /\ past' = [past EXCEPT !.missed = FALSE]
      BY <1>7, <2>2 DEF Basis, Fetcher
    <3>2. /\ costs'.mu = r /\ costs'.began = now /\ costs'.fetchedAt = costs.fetchedAt
          /\ past'.changed = past.changed
      BY <1>1, <3>1 DEF CostsShape, PastShape
    <3>3. QED
      BY <1>1, <3>1, <3>2, ClientsAssumption DEF Clock
  <2>3. QED
    BY <2>1, <2>2
<1>8. ASSUME NEW r \in Clients, FetchDues(r)
      PROVE  Clock'
  <2>1. /\ costs'.began = costs.began /\ costs'.fetchedAt = now /\ UNCHANGED <<now, past>>
    BY <1>1, <1>8 DEF FetchDues, CostsShape
  <2>2. QED
    BY <1>1, <2>1 DEF Clock
<1>9. ASSUME NEW r \in Clients, FailFetch(r)
      PROVE  Clock'
  <2>1. /\ ~costs'.ok /\ costs'.began = costs.began /\ costs'.fetchedAt = costs.fetchedAt
        /\ UNCHANGED <<now, past>>
    BY <1>1, <1>9 DEF FailFetch, CostsShape
  <2>2. QED
    BY <1>1, <2>1 DEF Clock
<1>10. CASE UNCHANGED <<costs, now, past>>
  BY <1>2, <1>10
<1>11. QED
  BY <1>3, <1>4, <1>5, <1>6, <1>7, <1>8, <1>9, <1>10
  DEF Next, Send, Handle, Lock, ReadView, AddEntry, UpdateEntry, DeleteEntry, BookTrip,
      RemoveCharges, AddContract, UpdateContract, DeleteContract, UpsertDues, DeleteDues,
      RejectEdit, FetchContracts, Done, vars

(***************************************************************************)
(* Requests stay within their bounds.                                      *)
(***************************************************************************)
LEMMA CountedKept ==
  ASSUME PageInv, [Next]_vars
  PROVE  Counted'
<1>1. Counted /\ PastShape /\ MaxSends \in Nat
  BY LimitsAssumption DEF PageInv, CacheInv, Shapes
<1>2. CASE sent' = sent /\ past'.mixed \in SUBSET Clients
  BY <1>1, <1>2 DEF Counted
<1>3. ASSUME NEW r \in Clients, Send(r)
      PROVE  Counted'
  <2>1. PICK j \in Jobs :
          /\ sent' = [requests |-> sent.requests + 1,
                      edits |-> sent.edits + (IF j.op = "view" THEN 0 ELSE 1)]
          /\ sent'.edits <= MaxEdits
    BY <1>3 DEF Send
  <2>2. past' = past /\ sent.requests < MaxSends
    BY <1>3 DEF Send
  <2>3. sent.requests + 1 <= MaxSends
    BY <1>1, <2>2 DEF Counted
  <2>4. sent.requests + 1 \in Int /\ sent.edits + (IF j.op = "view" THEN 0 ELSE 1) \in Int
    BY <1>1 DEF Counted
  <2>5. QED
    BY <1>1, <2>1, <2>2, <2>3, <2>4 DEF Counted
<1>4. ASSUME NEW r \in Clients, Executed(r)
      PROVE  Counted'
  <2>1. sent' = sent /\ past'.mixed \subseteq past.mixed \cup Clients
    BY <1>4 DEF Executed
  <2>2. QED
    BY <1>1, <1>2, <2>1 DEF Counted
<1>5. ASSUME NEW r \in Clients, Show(r) \/ FailView(r) \/ Basis(r)
      PROVE  Counted'
  <2>1. past'.mixed \subseteq past.mixed /\ sent' = sent
    BY <1>1, <1>5 DEF Show, FailView, Finish, Basis, PastShape
  <2>2. QED
    BY <1>1, <1>2, <2>1 DEF Counted
<1>6. CASE UNCHANGED <<sent, past>>
  BY <1>1, <1>6 DEF Counted
<1>7. QED
  BY <1>3, <1>4, <1>5, <1>6
  DEF Next, Handle, Lock, ReadView, AddEntry, UpdateEntry, DeleteEntry, BookTrip, RemoveCharges,
      AddContract, UpdateContract, DeleteContract, UpsertDues, DeleteDues, RejectEdit,
      Invalidate, FetchContracts, FetchDues, FailFetch, Tick, Done, vars

\* A request moves alone.
LEMMA MovesAlone ==
  ASSUME PageInv, NEW r \in Clients, NEW label, Goto(r, label)
  PROVE  /\ JobShape' /\ pc'[r] = label
         /\ \A q \in Clients \ {r} : pc'[q] = pc[q] /\ job'[q] = job[q]
         /\ label # "idle" => job' = job
<1>1. PcShape /\ JobShape
  BY DEF PageInv, CacheInv, Shapes
<1>2. QED
  BY <1>1, Moves

(***************************************************************************)
(* The page's mutex is where it should be after a move of a request that   *)
(* does not take or release it.                                            *)
(***************************************************************************)
LEMMA StillHeld ==
  ASSUME PageInv, NEW r \in Clients, NEW label, Goto(r, label), mu' = mu,
         \/ pc[r] \notin Locked /\ label \notin Locked \cup {"lock"}
         \/ ByPage(r) /\ pc[r] \in Locked /\ label \in Locked
         \/ ~ByPage(r) /\ label \notin {"lock", "render"}
  PROVE  PageHolds'
<1>1. /\ pc'[r] = label
      /\ \A q \in Clients \ {r} : pc'[q] = pc[q] /\ job'[q] = job[q]
      /\ label # "idle" => job' = job
  BY MovesAlone
<1>2. PageHolds
  BY DEF PageInv
<1>3. CASE pc[r] \notin Locked /\ label \notin Locked \cup {"lock"}
  BY <1>1, <1>2, <1>3 DEF PageHolds, Locked, ByPage
<1>4. CASE ByPage(r) /\ pc[r] \in Locked /\ label \in Locked
  BY <1>1, <1>2, <1>4 DEF PageHolds, Locked, ByPage
<1>5. CASE ~ByPage(r) /\ label \notin {"lock", "render"}
  <2>1. CASE label = "idle"
    BY <1>1, <1>2, <1>5, <2>1 DEF PageHolds, Locked, ByPage
  <2>2. CASE label # "idle"
    BY <1>1, <1>2, <1>5, <2>2 DEF PageHolds, Locked, ByPage
  <2>3. QED
    BY <2>1, <2>2
<1>6. QED
  BY <1>3, <1>4, <1>5

(***************************************************************************)
(* A page takes the mutex before it edits and reads, and gives it back     *)
(* when it is answered.                                                    *)
(***************************************************************************)
LEMMA HoldsKept ==
  ASSUME PageInv, [Next]_vars
  PROVE  PageHolds'
<1>1. PageHolds /\ JobShape /\ PcShape
  BY DEF PageInv, CacheInv, Shapes
<1>2. CASE UNCHANGED <<pc, job, mu>>
  BY <1>1, <1>2 DEF PageHolds, At, ByPage
<1>3. ASSUME NEW r \in Clients, Send(r)
      PROVE  PageHolds'
  <2>1. PICK j \in Jobs :
          /\ job' = [job EXCEPT ![r] = j]
          /\ pc' = [pc EXCEPT ![r] = CASE j.via = "page" -> "lock"
                                       [] j.via = "planner" -> "costs" [] OTHER -> "edit"]
    BY <1>3 DEF Send
  <2>2. PICK label : label = CASE j.via = "page" -> "lock"
                               [] j.via = "planner" -> "costs" [] OTHER -> "edit"
    OBVIOUS
  <2>3. /\ \A q \in Clients \ {r} : pc'[q] = pc[q] /\ job'[q] = job[q]
        /\ pc'[r] = label /\ job'[r] = j
    BY <1>1, <2>1, <2>2 DEF JobShape, PcShape
  <2>4. \/ label = "lock" /\ j.via = "page"
        \/ label = "edit" /\ j.via # "page"
        \/ label = "costs"
    BY <2>2
  <2>5. pc[r] = "idle" /\ mu' = mu
    BY <1>3 DEF Send, At
  <2>6. QED
    BY <1>1, <2>3, <2>4, <2>5 DEF PageHolds, Locked, ByPage
<1>4. ASSUME NEW r \in Clients, Lock(r)
      PROVE  PageHolds'
  <2>1. PICK label \in {"edit", "render"} : Goto(r, label)
    BY <1>4 DEF Lock
  <2>2. mu = Nobody /\ mu' = r /\ pc[r] = "lock"
    BY <1>4 DEF Lock, MayLock, At
  <2>3. /\ pc'[r] = label /\ job' = job
        /\ \A q \in Clients \ {r} : pc'[q] = pc[q] /\ job'[q] = job[q]
    BY <2>1, MovesAlone
  <2>4. QED
    BY <1>1, <2>1, <2>2, <2>3, ClientsAssumption DEF PageHolds, Locked, ByPage
<1>5. ASSUME NEW r \in Clients, Show(r) \/ FailView(r)
      PROVE  PageHolds'
  <2>1. Goto(r, "idle") /\ mu' = Nobody /\ pc[r] = "render"
    BY <1>5 DEF Show, FailView, Finish, Released, At
  <2>2. /\ pc'[r] = "idle"
        /\ \A q \in Clients \ {r} : pc'[q] = pc[q] /\ job'[q] = job[q]
    BY <2>1, MovesAlone
  <2>3. QED
    BY <1>1, <2>1, <2>2, ClientsAssumption DEF PageHolds, Locked, ByPage
<1>6. ASSUME NEW r \in Clients, Executed(r), At(r, "edit")
      PROVE  PageHolds'
  <2>1. PICK label \in {"invalidate", "render", "idle"} : Goto(r, label)
                     /\ (label = "render" => ByPage(r))
                     /\ (label = "idle" => ~ByPage(r))
    BY <1>6 DEF Executed
  <2>2. mu' = mu
    BY <1>6 DEF Executed
  <2>3. QED
    BY <1>6, <2>1, <2>2, StillHeld DEF Locked, At
<1>7. ASSUME NEW r \in Clients, RejectEdit(r)
      PROVE  PageHolds'
  <2>1. PICK label : /\ Goto(r, label)
                     /\ (~ByPage(r) /\ label = "idle") \/ (ByPage(r) /\ label = "render")
    BY <1>7 DEF RejectEdit
  <2>2. mu' = mu /\ At(r, "edit")
    BY <1>7 DEF RejectEdit
  <2>3. QED
    BY <2>1, <2>2, StillHeld DEF Locked, At
<1>8. ASSUME NEW r \in Clients, Invalidate(r)
      PROVE  PageHolds'
  <2>1. PICK label : /\ Goto(r, label)
                     /\ IF ByPage(r) THEN label = "render" ELSE label \in {"costs", "idle"}
    BY <1>8, Zenon DEF Invalidate
  <2>2. mu' = mu /\ pc[r] = "invalidate"
    BY <1>8 DEF Invalidate, At
  <2>3. QED
    BY <2>1, <2>2, StillHeld DEF Locked
<1>9. ASSUME NEW r \in Clients, Basis(r) \/ FetchContracts(r) \/ FetchDues(r) \/ FailFetch(r)
      PROVE  PageHolds'
  <2>1. PICK label \in {"idle", "fetchContracts", "fetchDues"} : Goto(r, label)
    BY <1>9 DEF Basis, FetchContracts, FetchDues, FailFetch
  <2>2. mu' = mu /\ pc[r] \in {"costs", "fetchContracts", "fetchDues"}
    BY <1>9 DEF Basis, FetchContracts, FetchDues, FailFetch, At
  <2>3. QED
    BY <2>1, <2>2, StillHeld DEF Locked
<1>10. QED
  BY <1>2, <1>3, <1>4, <1>5, <1>6, <1>7, <1>8, <1>9
  DEF Next, Handle, ReadView, AddEntry, UpdateEntry, DeleteEntry, BookTrip, RemoveCharges,
      AddContract, UpdateContract, DeleteContract, UpsertDues, DeleteDues, Editing, Tick, Done,
      vars

(***************************************************************************)
(* Nothing that prices changes, and no fetch moves on to its second        *)
(* statement: what is cached is as old as before.                          *)
(***************************************************************************)
LEMMA AgedAsBefore ==
  ASSUME PageInv, UNCHANGED <<costs, got, db.contracts, db.dues>>,
         past'.changed = past.changed,
         \A r \in Clients : At(r, "fetchDues")' => At(r, "fetchDues")
  PROVE  Aged'
<1>1. CurrentBasis' = CurrentBasis
  BY DEF CurrentBasis
<1>2. QED
  BY <1>1 DEF PageInv, Aged

(***************************************************************************)
(* An edit is younger than every basis that does not show it.              *)
(***************************************************************************)
LEMMA AgedKept ==
  ASSUME PageInv, [Next]_vars
  PROVE  Aged'
<1>1. /\ Aged /\ FetcherHolds /\ CacheInv /\ Clock
      /\ PcShape /\ GotShape /\ DbShape /\ CostsShape /\ PastShape
  BY DEF PageInv, CacheInv, Shapes
<1>2. ASSUME NEW r \in Clients, NEW label, Goto(r, label), label # "fetchDues"
      PROVE  \A q \in Clients : At(q, "fetchDues")' => At(q, "fetchDues")
  BY <1>2, MovesAlone DEF At
<1>3. CASE UNCHANGED <<db, costs, got, past, pc>>
  BY <1>3, AgedAsBefore DEF At
<1>4. ASSUME NEW r \in Clients, Send(r)
      PROVE  Aged'
  <2>1. PICK label \in {"lock", "edit", "costs"} : pc' = [pc EXCEPT ![r] = label]
    BY <1>4 DEF Send
  <2>2. \A q \in Clients : At(q, "fetchDues")' => At(q, "fetchDues")
    BY <1>1, <2>1 DEF At, PcShape
  <2>3. UNCHANGED <<db, costs, got, past>>
    BY <1>4 DEF Send
  <2>4. QED
    BY <2>2, <2>3, AgedAsBefore
<1>5. ASSUME NEW r \in Clients, Lock(r) \/ RejectEdit(r)
      PROVE  Aged'
  <2>1. PICK label \in {"idle", "edit", "render"} : Goto(r, label)
    BY <1>5 DEF Lock, RejectEdit
  <2>2. UNCHANGED <<db, costs, got, past>>
    BY <1>5 DEF Lock, RejectEdit
  <2>3. QED
    BY <1>2, <2>1, <2>2, AgedAsBefore
<1>6. ASSUME NEW r \in Clients, Show(r) \/ FailView(r)
      PROVE  Aged'
  <2>1. Goto(r, "idle") /\ UNCHANGED <<db, costs, got>> /\ past'.changed = past.changed
    BY <1>1, <1>6 DEF Show, FailView, Finish, PastShape
  <2>2. QED
    BY <1>2, <2>1, AgedAsBefore
<1>7. ASSUME NEW r \in Clients, EditEntries(r)
      PROVE  Aged'
  <2>1. /\ UNCHANGED <<db.contracts, db.dues>> /\ Executed(r)
        /\ job[r].op \in EntryEdits \cup TripEdits
    BY <1>1, <1>7, EntriesWritten
  <2>2. job[r].op \notin CostEdits
    BY <2>1 DEF EntryEdits, TripEdits, CostEdits
  <2>3. past'.changed = past.changed /\ UNCHANGED <<costs, got>>
    BY <2>1, <2>2 DEF Executed
  <2>4. PICK label \in {"idle", "invalidate", "render"} : Goto(r, label)
    BY <2>1 DEF Executed
  <2>5. QED
    BY <1>2, <2>1, <2>3, <2>4, AgedAsBefore
<1>8. ASSUME NEW r \in Clients, EditCosts(r)
      PROVE  Aged'
  <2>1. Executed(r) /\ job[r].op \in CostEdits
    BY <1>1, <1>8, CostsWritten
  <2>2. past'.changed = now /\ UNCHANGED costs
    BY <2>1 DEF Executed
  <2>3. past'.changed >= costs'.began
    BY <1>1, <2>2 DEF Clock
  <2>4. QED
    BY <2>3 DEF Aged
<1>9. ASSUME NEW r \in Clients, Invalidate(r)
      PROVE  Aged'
  <2>1. /\ ~costs'.ok /\ costs'.began = costs.began /\ UNCHANGED <<db, got, past>>
        /\ \E label \in {"render", "costs", "idle"} : Goto(r, label)
    BY <1>1, <1>9 DEF Invalidate, CostsShape
  <2>2. \A q \in Clients : At(q, "fetchDues")' => At(q, "fetchDues")
    BY <1>2, <2>1
  <2>3. QED
    BY <1>1, <2>1, <2>2 DEF Aged
<1>10. ASSUME NEW r \in Clients, Basis(r)
       PROVE  Aged'
  <2>1. PICK label \in {"idle", "fetchContracts"} : Goto(r, label)
    BY <1>10 DEF Basis
  <2>2. \A q \in Clients : At(q, "fetchDues")' => At(q, "fetchDues")
    BY <1>2, <2>1
  <2>3. CASE Fresh
    <3>1. UNCHANGED <<db, costs, got, past>>
      BY <1>10, <2>3 DEF Basis
    <3>2. QED
      BY <2>2, <3>1, AgedAsBefore
  <2>4. CASE ~Fresh
    <3>1. costs' = [costs EXCEPT !.mu = r, !.began = now] /\ costs.mu = Nobody
      BY <1>10, <2>4 DEF Basis, Fetcher
    <3>2. costs'.mu = r
      BY <1>1, <3>1 DEF CostsShape
    <3>3. \A q \in Clients : ~At(q, "fetchDues")
      BY <1>1, <3>1, ClientsAssumption DEF FetcherHolds, Fetching, At
    <3>4. QED
      BY <2>2, <3>2, <3>3, ClientsAssumption DEF Aged
  <2>5. QED
    BY <2>3, <2>4
<1>11. ASSUME NEW r \in Clients, FetchContracts(r)
       PROVE  Aged'
  <2>1. /\ got'[r] = db.contracts /\ UNCHANGED <<db, costs, past>>
        /\ Goto(r, "fetchDues") /\ pc[r] = "fetchContracts"
    BY <1>1, <1>11 DEF FetchContracts, GotShape, At
  <2>2. costs.mu = r
    BY <1>1, <2>1 DEF FetcherHolds, Fetching
  <2>3. \A q \in Clients \ {r} : ~At(q, "fetchDues")'
    BY <1>1, <2>1, <2>2, MovesAlone DEF FetcherHolds, Fetching, At
  <2>4. QED
    BY <2>1, <2>2, <2>3, ClientsAssumption DEF Aged
<1>12. ASSUME NEW r \in Clients, FetchDues(r) \/ FailFetch(r)
       PROVE  Aged'
  <2>1. /\ costs'.began = costs.began /\ UNCHANGED <<db, past>> /\ Goto(r, "idle")
        /\ pc[r] \in Fetching
    BY <1>1, <1>12 DEF FetchDues, FailFetch, CostsShape, Fetching, At
  <2>2. \A q \in Clients : ~At(q, "fetchDues")'
    BY <1>1, <2>1, MovesAlone DEF FetcherHolds, Fetching, At
  <2>3. CASE FailFetch(r)
    <3>1. ~costs'.ok
      BY <1>1, <2>3 DEF FailFetch, CostsShape
    <3>2. QED
      BY <2>2, <3>1 DEF Aged
  <2>4. CASE FetchDues(r)
    <3>1. costs'.basis = NewCostBasis(got[r], db.dues) /\ At(r, "fetchDues")
      BY <1>1, <2>4 DEF FetchDues, CostsShape
    <3>2. costs'.basis # CurrentBasis' => got[r] # db.contracts
      BY <2>1, <3>1 DEF CurrentBasis
    <3>3. QED
      BY <1>1, <2>1, <2>2, <3>1, <3>2 DEF Aged
  <2>5. QED
    BY <1>12, <2>3, <2>4
<1>13. QED
  BY <1>3, <1>4, <1>5, <1>6, <1>7, <1>8, <1>9, <1>10, <1>11, <1>12
  DEF Next, Handle, ReadView, EditEntries, EditCosts, Tick, Done, vars

(***************************************************************************)
(* The invariant of the pages.                                             *)
(***************************************************************************)
LEMMA PageInvariant == Spec => []PageInv
<1>1. PageInv /\ [Next]_vars => PageInv'
  <2>1. ASSUME PageInv, [Next]_vars
        PROVE  PageInv'
    <3>1. CacheInv'
      BY <2>1, StepInv DEF PageInv
    <3>2. Clock' /\ Counted'
      BY <2>1, ClockKept, CountedKept
    <3>3. PageHolds' /\ Aged'
      BY <2>1, HoldsKept, AgedKept
    <3>4. QED
      BY <3>1, <3>2, <3>3 DEF PageInv
  <2>2. QED
    BY <2>1
<1>2. QED
  BY <1>1, PageInit, PTL DEF Spec

(***************************************************************************)
(* The page's mutex and the provider's are held by the request that is     *)
(* between taking and releasing them, and by no other.                     *)
(***************************************************************************)
THEOREM PageTypes == Spec => []TypeOK
<1>1. PageInv => TypeOK
  <2>1. SUFFICES ASSUME PageInv
                 PROVE  TypeOK
    OBVIOUS
  <2>2. past \in Past
    <3>1. PastShape /\ past.changed \in Int /\ past.mixed \in SUBSET Clients
      BY <2>1 DEF PageInv, Clock, Counted, CacheInv, Shapes
    <3>2. QED
      BY <3>1 DEF PastShape, Past
  <2>3. costs.ok /\ costs.mu = Nobody => costs.began <= costs.fetchedAt /\ costs.fetchedAt <= now
    BY <2>1 DEF PageInv, Clock
  <2>4. QED
    BY <2>1, <2>2, <2>3 DEF PageInv, Clock, Counted, PageHolds, CacheInv, FetcherHolds, Fetching, TypeOK
<1>2. QED
  BY <1>1, PageInvariant, PTL

(***************************************************************************)
(* However an edit of contracts or dues was made, and whatever became of   *)
(* its answer, no trip page is priced without it once a cached basis has   *)
(* had its time, and the fetch that filled the cache its own.              *)
(***************************************************************************)
THEOREM EditsShowInTime == Spec => EditsReachTripPages
<1> DEFINE InTime(r) ==
      Served(r) /\ costs'.basis # CurrentBasis =>
        now - past.changed < costBasisTTL + (costs'.fetchedAt - costs'.began)
<1>1. ASSUME PageInv, [Next]_vars, NEW r \in Clients
      PROVE  InTime(r)
  <2>1. SUFFICES ASSUME Served(r), costs'.basis # CurrentBasis
                 PROVE  now - past.changed < costBasisTTL + (costs'.fetchedAt - costs'.began)
    OBVIOUS
  <2>2. /\ now \in Int /\ costs.began \in Int /\ costs.fetchedAt \in Int /\ past.changed \in Int
        /\ costBasisTTL \in Nat \ {0} /\ MaxTime \in Nat
    BY <1>1, LimitsAssumption DEF PageInv, Clock
  <2>3. /\ pc[r] \in {"costs", "fetchDues"} /\ pc'[r] = "idle" /\ costs'.ok
        /\ PcShape /\ CostsShape /\ Aged
    BY <1>1, <2>1 DEF Served, PageInv, CacheInv, Shapes
  <2>4. ASSUME NEW q \in Clients, NEW label, Goto(q, label)
        PROVE  q = r
    <3>1. \A p \in Clients \ {q} : pc'[p] = pc[p]
      BY <1>1, <2>4, MovesAlone
    <3>2. QED
      BY <2>3, <3>1
  <2>5. Basis(r) \/ FetchDues(r) \/ FailFetch(r)
    <3>1. ~UNCHANGED pc
      BY <2>3
    <3>2. ASSUME NEW q \in Clients, Send(q)
          PROVE  FALSE
      <4>1. pc[q] = "idle"
        BY <3>2 DEF Send, At
      <4>2. PICK label : pc' = [pc EXCEPT ![q] = label]
        BY <3>2, Zenon DEF Send
      <4>3. QED
        BY <2>3, <4>1, <4>2 DEF PcShape
    <3>3. PICK q \in Clients : Handle(q)
      BY <1>1, <3>1, <3>2 DEF Next, Tick, Done, vars
    <3>4. \E label : Goto(q, label)
      BY <3>1, <3>3, HandleMoves
    <3>5. q = r
      BY <2>4, <3>4
    <3>6. QED
      BY <2>3, <3>3, <3>5
      DEF Handle, Lock, Invalidate, ReadView, Show, FailView, RejectEdit, AddEntry, UpdateEntry,
          DeleteEntry, BookTrip, RemoveCharges, AddContract, UpdateContract, DeleteContract,
          UpsertDues, DeleteDues, Editing, FetchContracts, At
  <2>6. CASE Basis(r)
    <3>1. Fresh
      <4>1. CASE ~Fresh
        <5>1. Goto(r, "fetchContracts")
          BY <2>6, <4>1 DEF Basis
        <5>2. pc'[r] = "fetchContracts"
          BY <1>1, <5>1, MovesAlone
        <5>3. QED
          BY <2>3, <5>2
      <4>2. QED
        BY <4>1
    <3>2. UNCHANGED costs /\ costs.mu = Nobody
      BY <2>6, <3>1 DEF Basis
    <3>3. past.changed >= costs.began
      BY <2>1, <2>3, <3>2 DEF Aged
    <3>4. now - costs.fetchedAt < costBasisTTL
      BY <3>1 DEF Fresh
    <3>5. QED
      BY <2>2, <3>2, <3>3, <3>4
  <2>7. CASE FetchDues(r)
    <3>1. /\ costs'.basis = NewCostBasis(got[r], db.dues) /\ costs'.fetchedAt = now
          /\ costs'.began = costs.began /\ At(r, "fetchDues")
      BY <2>3, <2>7 DEF FetchDues, CostsShape
    <3>2. past.changed >= costs.began
      BY <2>1, <2>3, <3>1 DEF Aged, CurrentBasis
    <3>3. QED
      BY <2>2, <3>1, <3>2
  <2>8. CASE FailFetch(r)
    BY <2>3, <2>8 DEF FailFetch, CostsShape
  <2>9. QED
    BY <2>5, <2>6, <2>7, <2>8
<1>2. PageInv /\ [Next]_vars =>
        [\A r \in Clients : Served(r) /\ costs'.basis # CurrentBasis =>
           now - past.changed < costBasisTTL + (costs'.fetchedAt - costs'.began)]_vars
  BY <1>1
<1>3. QED
  BY <1>2, PageInvariant, PTL DEF Spec, EditsReachTripPages

-----------------------------------------------------------------------------
(* What the tables hold, and what is priced with it: PricedToTheCent,       *)
(* BlendedAmongRates and DuesFollowTrend.                                   *)

DataInv ==
  DbShape /\ ContractsTyped(db.contracts) /\ DuesTyped(db.dues) /\ EntriesTyped(db.entries, db.rows)

\* A row more, or another one for the same key.
LEMMA WithTyped ==
  ASSUME NEW f, NEW R, f \in [DOMAIN f -> R], IsFiniteSet(DOMAIN f), NEW x, NEW y \in R
  PROVE  With(f, x, y) \in [DOMAIN f \cup {x} -> R] /\ IsFiniteSet(DOMAIN f \cup {x})
BY FS_AddElement DEF With

\* A row less.
LEMMA WithoutTyped ==
  ASSUME NEW f, NEW R, f \in [DOMAIN f -> R], IsFiniteSet(DOMAIN f), NEW x
  PROVE  Without(f, x) \in [DOMAIN f \ {x} -> R] /\ IsFiniteSet(DOMAIN f \ {x})
BY FS_RemoveElement DEF Without

\* The contracts stay a finite table of contract rows.
LEMMA ContractsKept ==
  ASSUME DataInv, NEW r \in Clients, EditCosts(r)
  PROVE  ContractsTyped(db'.contracts)
<1> DEFINE contracts == db.contracts
<1>1. contracts \in [DOMAIN contracts -> ContractRow] /\ IsFiniteSet(DOMAIN contracts)
      /\ DOMAIN contracts \subseteq Int /\ DbShape
  BY DEF DataInv, ContractsTyped
<1>2. CASE AddContract(r)
  <2>1. PICK row \in ContractRows :
          db' = [db EXCEPT !.contracts = With(@, db.rows + 1, ContractOf(r, row)), !.rows = @ + 1]
    BY <1>2 DEF AddContract
  <2>2. ContractOf(r, row) \in ContractRow
    <3>1. row \in ContractRow
      BY RowsAssumption
    <3>2. [row EXCEPT !.term = 0, !.price = 0, !.closing = 0] \in ContractRow
      <4>1. PICK endless : endless = [row EXCEPT !.term = 0]
        OBVIOUS
      <4>2. PICK unpaid : unpaid = [endless EXCEPT !.price = 0]
        OBVIOUS
      <4>3. [row EXCEPT !.term = 0, !.price = 0, !.closing = 0] = [unpaid EXCEPT !.closing = 0]
        BY <4>1, <4>2
      <4>4. endless \in ContractRow
        BY <3>1, <4>1 DEF ContractRow
      <4>5. unpaid \in ContractRow
        BY <4>2, <4>4 DEF ContractRow
      <4>6. QED
        BY <4>3, <4>5 DEF ContractRow
    <3>3. QED
      BY <3>1, <3>2 DEF ContractOf
  <2>3. db'.contracts = With(contracts, db.rows + 1, ContractOf(r, row)) /\ db.rows + 1 \in Int
    BY <2>1 DEF DataInv, DbShape, EntriesTyped
  <2> HIDE DEF contracts
  <2>4. With(contracts, db.rows + 1, ContractOf(r, row))
          \in [DOMAIN contracts \cup {db.rows + 1} -> ContractRow]
        /\ IsFiniteSet(DOMAIN contracts \cup {db.rows + 1})
    BY <1>1, <2>2, WithTyped
  <2>5. QED
    BY <1>1, <2>3, <2>4 DEF ContractsTyped
<1>3. CASE UpdateContract(r)
  <2>1. CASE db' = db
    BY <1>1, <2>1 DEF ContractsTyped
  <2>2. ASSUME NEW c \in DOMAIN db.contracts, NEW row \in ContractRows,
               db' = [db EXCEPT !.contracts[c] = row]
        PROVE  ContractsTyped(db'.contracts)
    <3>1. db'.contracts = [contracts EXCEPT ![c] = row] /\ row \in ContractRow
      BY <2>2, RowsAssumption DEF DataInv, DbShape
    <3>2. QED
      BY <1>1, <3>1 DEF ContractsTyped
  <2>3. QED
    BY <1>3, <2>1, <2>2 DEF UpdateContract
<1>4. CASE DeleteContract(r)
  <2>1. CASE db' = db
    BY <1>1, <2>1 DEF ContractsTyped
  <2>2. ASSUME NEW c, db'.contracts = Without(db.contracts, c)
        PROVE  ContractsTyped(db'.contracts)
    <3> HIDE DEF contracts
    <3>1. /\ Without(contracts, c) \in [DOMAIN contracts \ {c} -> ContractRow]
          /\ IsFiniteSet(DOMAIN contracts \ {c})
      BY <1>1, WithoutTyped
    <3>2. QED
      BY <1>1, <2>2, <3>1 DEF ContractsTyped, contracts
  <2>3. QED
    BY <1>1, <1>4, <2>1, <2>2 DEF DeleteContract, DbShape
<1>5. CASE UpsertDues(r) \/ DeleteDues(r)
  <2>1. db'.contracts = contracts
    BY <1>1, <1>5 DEF UpsertDues, DeleteDues, DbShape
  <2>2. QED
    BY <1>1, <2>1 DEF ContractsTyped
<1>6. QED
  BY <1>2, <1>3, <1>4, <1>5 DEF EditCosts

\* The dues stay a finite table of years.
LEMMA DuesKept ==
  ASSUME DataInv, NEW r \in Clients, EditCosts(r)
  PROVE  DuesTyped(db'.dues)
<1> DEFINE dues == db.dues
<1>1. dues \in [DOMAIN dues -> Int] /\ IsFiniteSet(DOMAIN dues)
      /\ DOMAIN dues \subseteq Nat /\ DbShape
  BY DEF DataInv, DuesTyped
<1>2. CASE UpsertDues(r)
  <2>1. PICK row \in DuesRows : db' = [db EXCEPT !.dues = With(@, row.year, row.rate)]
    BY <1>2 DEF UpsertDues
  <2>2. row.year \in Nat /\ row.rate \in Int
    BY RowsAssumption
  <2>3. db'.dues = With(dues, row.year, row.rate)
    BY <2>1 DEF DataInv, DbShape
  <2> HIDE DEF dues
  <2>4. With(dues, row.year, row.rate) \in [DOMAIN dues \cup {row.year} -> Int]
        /\ IsFiniteSet(DOMAIN dues \cup {row.year})
    BY <1>1, <2>2, WithTyped
  <2>5. QED
    BY <1>1, <2>2, <2>3, <2>4 DEF DuesTyped
<1>3. CASE DeleteDues(r)
  <2>1. CASE db' = db
    BY <1>1, <2>1 DEF DuesTyped
  <2>2. ASSUME NEW y, db'.dues = Without(db.dues, y)
        PROVE  DuesTyped(db'.dues)
    <3> HIDE DEF dues
    <3>1. /\ Without(dues, y) \in [DOMAIN dues \ {y} -> Int]
          /\ IsFiniteSet(DOMAIN dues \ {y})
      BY <1>1, WithoutTyped
    <3>2. QED
      BY <1>1, <2>2, <3>1 DEF DuesTyped, dues
  <2>3. QED
    BY <1>1, <1>3, <2>1, <2>2 DEF DeleteDues, DbShape
<1>4. CASE AddContract(r) \/ UpdateContract(r) \/ DeleteContract(r)
  <2>1. db'.dues = dues
    BY <1>1, <1>4 DEF AddContract, UpdateContract, DeleteContract, DbShape
  <2>2. QED
    BY <1>1, <2>1 DEF DuesTyped
<1>5. QED
  BY <1>2, <1>3, <1>4 DEF EditCosts

\* What is typed into an entry form, or charged, is an entry.
LEMMA TypedEntry ==
  ASSUME NEW row \in EntryRow, NEW id \in Int
  PROVE  Typed(id, row) \in Entry /\ Typed(id, row).id = id
<1>1. row.date.year \in Int
  BY DEF EntryRow, Date
<1>2. QED
  BY <1>1 DEF Typed, Entry, EntryRow

\* The rows of a booking get the next ids, each its own.
LEMMA ChargedEntries ==
  ASSUME NEW n \in Int, NEW rows \in Seq(EntryRow), NEW entries,
         EntriesTyped(entries, n)
  PROVE  EntriesTyped(entries \cup {Typed(n + i, rows[i]) : i \in DOMAIN rows}, n + Len(rows))
<1> DEFINE new == [i \in 1..Len(rows) |-> Typed(n + i, rows[i])]
           charged == {new[i] : i \in 1..Len(rows)}
<1>1. DOMAIN rows = 1..Len(rows) /\ Len(rows) \in Nat
  OBVIOUS
<1>2. charged = {Typed(n + i, rows[i]) : i \in DOMAIN rows}
  BY <1>1
<1>3. \A i \in 1..Len(rows) : new[i] \in Entry /\ new[i].id = n + i
  <2> SUFFICES ASSUME NEW i \in 1..Len(rows)
               PROVE  new[i] \in Entry /\ new[i].id = n + i
    OBVIOUS
  <2>1. rows[i] \in EntryRow /\ n + i \in Int
    OBVIOUS
  <2>2. new[i] = Typed(n + i, rows[i])
    OBVIOUS
  <2>3. QED
    BY <2>1, <2>2, TypedEntry
<1> HIDE DEF new
<1>4. IsFiniteSet(charged)
  <2>1. IsFiniteSet(1..Len(rows))
    BY <1>1, FS_Interval
  <2>2. QED
    BY <2>1, ImageFinite
<1>5. charged \subseteq Entry
  BY <1>3
<1>6. \A e \in charged : n < e.id /\ e.id <= n + Len(rows)
  BY <1>1, <1>3
<1>7. \A e, f \in charged : e.id = f.id => e = f
  BY <1>1, <1>3
<1> HIDE DEF charged
<1>8. /\ entries \subseteq Entry /\ IsFiniteSet(entries)
      /\ \A e \in entries : e.id <= n /\ e.id \in Int
      /\ \A e, f \in entries : e.id = f.id => e = f
  BY DEF EntriesTyped, Entry
<1>9. IsFiniteSet(entries \cup charged)
  BY <1>4, <1>8, FS_Union
<1>10. \A e \in charged : e.id \in Int
  BY <1>5 DEF Entry
<1>11. \A e \in entries \cup charged : e.id <= n + Len(rows)
  BY <1>1, <1>6, <1>8
<1>12. \A e, f \in entries \cup charged : e.id = f.id => e = f
  BY <1>6, <1>7, <1>8, <1>10
<1>13. EntriesTyped(entries \cup charged, n + Len(rows))
  BY <1>1, <1>5, <1>8, <1>9, <1>11, <1>12 DEF EntriesTyped
<1>14. QED
  BY <1>2, <1>13

\* The entries stay finitely many, each with an id of its own.
LEMMA EntriesKept ==
  ASSUME DataInv, NEW r \in Clients, EditEntries(r) \/ EditCosts(r)
  PROVE  EntriesTyped(db'.entries, db'.rows)
<1> DEFINE entries == db.entries
<1>1. /\ entries \subseteq Entry /\ IsFiniteSet(entries) /\ db.rows \in Int
      /\ \A e \in entries : e.id <= db.rows /\ e.id \in Int
      /\ \A e, f \in entries : e.id = f.id => e = f
      /\ DbShape
  BY DEF DataInv, EntriesTyped, Entry
<1>2. CASE db'.entries = entries /\ db'.rows \in {db.rows, db.rows + 1}
  BY <1>1, <1>2 DEF EntriesTyped
<1>3. CASE AddEntry(r)
  <2>1. PICK row \in EntryRows :
          db' = [db EXCEPT !.entries = @ \cup {Typed(db.rows + 1, row)}, !.rows = @ + 1]
    BY <1>3 DEF AddEntry
  <2> DEFINE new == Typed(db.rows + 1, row)
  <2>2. new \in Entry /\ new.id = db.rows + 1
    BY <1>1, TypedEntry, RowsAssumption
  <2>3. db'.entries = entries \cup {new} /\ db'.rows = db.rows + 1
    BY <1>1, <2>1 DEF DbShape
  <2> HIDE DEF new, entries
  <2>4. IsFiniteSet(entries \cup {new})
    BY <1>1, FS_AddElement
  <2>5. \A e \in entries \cup {new} : e.id <= db.rows + 1
    BY <1>1, <2>2
  <2>6. \A e \in entries : e.id # new.id
    BY <1>1, <2>2
  <2>7. QED
    BY <1>1, <2>2, <2>3, <2>4, <2>5, <2>6 DEF EntriesTyped
<1>4. CASE UpdateEntry(r)
  <2>1. CASE db' = db
    BY <1>1, <2>1 DEF EntriesTyped
  <2>2. ASSUME NEW e \in db.entries, NEW row \in EntryRows,
               db' = [db EXCEPT !.entries = (@ \ {e}) \cup {Typed(e.id, row)}]
        PROVE  EntriesTyped(db'.entries, db'.rows)
    <3> DEFINE new == Typed(e.id, row)
    <3>1. new \in Entry /\ new.id = e.id
      BY <1>1, TypedEntry, RowsAssumption
    <3>2. db'.entries = (entries \ {e}) \cup {new} /\ db'.rows = db.rows
      BY <1>1, <2>2 DEF DbShape
    <3> HIDE DEF new
    <3>3. IsFiniteSet((entries \ {e}) \cup {new})
      <4> HIDE DEF entries
      <4> QED BY <1>1, FS_AddElement, FS_RemoveElement
    <3>4. QED
      BY <1>1, <3>1, <3>2, <3>3 DEF EntriesTyped
  <2>3. QED
    BY <1>4, <2>1, <2>2 DEF UpdateEntry
<1>5. CASE DeleteEntry(r)
  <2>1. CASE db' = db
    BY <1>1, <2>1 DEF EntriesTyped
  <2>2. ASSUME NEW e, db' = [db EXCEPT !.entries = @ \ {e}]
        PROVE  EntriesTyped(db'.entries, db'.rows)
    <3>1. db'.entries = entries \ {e} /\ db'.rows = db.rows
      BY <1>1, <2>2 DEF DbShape
    <3>2. IsFiniteSet(entries \ {e})
      <4> HIDE DEF entries
      <4> QED BY <1>1, FS_RemoveElement
    <3>3. QED
      BY <1>1, <3>1, <3>2 DEF EntriesTyped
  <2>3. QED
    BY <1>5, <2>1, <2>2 DEF DeleteEntry
<1>6. CASE DeleteContract(r)
  <2>1. CASE db' = db
    BY <1>1, <2>1 DEF EntriesTyped
  <2>2. ASSUME NEW c \in DOMAIN db.contracts,
               db' = [db EXCEPT !.contracts = Without(@, c),
                                !.entries = {IF e.contract = c
                                             THEN [e EXCEPT !.contract = NoContract] ELSE e : e \in @}]
        PROVE  EntriesTyped(db'.entries, db'.rows)
    <3> DEFINE loose == [e \in entries |-> IF e.contract = c THEN [e EXCEPT !.contract = NoContract]
                                           ELSE e]
    <3>1. db'.entries = {loose[e] : e \in entries} /\ db'.rows = db.rows
      BY <1>1, <2>2 DEF DbShape
    <3>2. \A e \in entries : loose[e] \in Entry /\ loose[e].id = e.id
      <4>1. ASSUME NEW e \in Entry
            PROVE  [e EXCEPT !.contract = NoContract] \in Entry
                   /\ [e EXCEPT !.contract = NoContract].id = e.id
        BY DEF Entry
      <4>2. QED
        BY <1>1, <4>1
    <3> HIDE DEF loose, entries
    <3>3. IsFiniteSet({loose[e] : e \in entries})
      BY <1>1, ImageFinite
    <3>4. QED
      BY <1>1, <3>1, <3>2, <3>3 DEF EntriesTyped
  <2>3. QED
    BY <1>6, <2>1, <2>2 DEF DeleteContract
<1>7. CASE AddContract(r) \/ UpdateContract(r) \/ UpsertDues(r) \/ DeleteDues(r)
  BY <1>1, <1>2, <1>7 DEF AddContract, UpdateContract, UpsertDues, DeleteDues, DbShape
<1>8. CASE BookTrip(r)
  <2>1. PICK rows \in Charges :
          db' = [db EXCEPT !.entries = @ \cup {Typed(db.rows + i, rows[i]) : i \in DOMAIN rows},
                           !.rows = @ + Len(rows)]
    BY <1>8, Zenon DEF BookTrip
  <2> DEFINE charged == {Typed(db.rows + i, rows[i]) : i \in DOMAIN rows}
  <2>2. EntriesTyped(entries \cup charged, db.rows + Len(rows))
    <3>1. rows \in Seq(EntryRow) /\ db.rows \in Int /\ EntriesTyped(entries, db.rows)
      BY <1>1, RowsAssumption DEF DataInv
    <3>2. QED
      BY <3>1, ChargedEntries
  <2> HIDE DEF charged
  <2>3. db'.entries = entries \cup charged /\ db'.rows = db.rows + Len(rows)
    <3>1. db' = [db EXCEPT !.entries = @ \cup charged, !.rows = @ + Len(rows)]
      BY <2>1 DEF charged
    <3>2. QED
      BY <1>1, <3>1 DEF DbShape
  <2>4. QED
    BY <2>2, <2>3
<1>9. CASE RemoveCharges(r)
  <2>1. PICK charged \in SUBSET entries : db' = [db EXCEPT !.entries = @ \ charged]
    BY <1>9 DEF RemoveCharges
  <2>2. db'.entries = entries \ charged /\ db'.rows = db.rows
    BY <1>1, <2>1 DEF DbShape
  <2> HIDE DEF entries
  <2>3. IsFiniteSet(entries \ charged)
    BY <1>1, FS_Difference
  <2>4. QED
    BY <1>1, <2>2, <2>3 DEF EntriesTyped
<1>10. QED
  BY <1>3, <1>4, <1>5, <1>6, <1>7, <1>8, <1>9 DEF EditEntries, EditCosts

(***************************************************************************)
(* No edit leaves anything in the tables that is not a row of theirs.      *)
(***************************************************************************)
LEMMA DataInvariant == Spec => []DataInv
<1>1. Init => DataInv
  BY RowsAssumption, TablesAssumption DEF Init, DataInv, DbShape
<1>2. DataInv /\ [Next]_vars => DataInv'
  <2> SUFFICES ASSUME DataInv, [Next]_vars
               PROVE  DataInv'
    OBVIOUS
  <2>1. CASE UNCHANGED db
    BY <2>1 DEF DataInv, DbShape
  <2>2. ASSUME NEW r \in Clients, EditEntries(r)
        PROVE  DataInv'
    <3>1. DbShape' /\ UNCHANGED <<db.contracts, db.dues>>
      BY <2>2, EntriesWritten DEF DataInv
    <3>2. EntriesTyped(db'.entries, db'.rows)
      BY <2>2, EntriesKept
    <3>3. QED
      BY <3>1, <3>2 DEF DataInv
  <2>3. ASSUME NEW r \in Clients, EditCosts(r)
        PROVE  DataInv'
    <3>1. DbShape'
      BY <2>3, CostsWritten DEF DataInv
    <3>2. ContractsTyped(db'.contracts) /\ DuesTyped(db'.dues) /\ EntriesTyped(db'.entries, db'.rows)
      BY <2>3, ContractsKept, DuesKept, EntriesKept
    <3>3. QED
      BY <3>1, <3>2 DEF DataInv
  <2>4. QED
    BY <2>1, <2>2, <2>3 DEF Next, Tick, Done, vars, Send, Handle, Lock, Invalidate, ReadView, Show,
       FailView, Finish, RejectEdit, Basis, FetchContracts, FetchDues, FailFetch, EditEntries, EditCosts
<1>3. QED
  BY <1>1, <1>2, PTL DEF Spec

-----------------------------------------------------------------------------
(* The basis that is made from them. *)

\* Multiplying keeps the order.
LEMMA TimesMonotone ==
  ASSUME NEW a \in Nat, NEW b \in Nat, NEW c \in Nat, a <= b
  PROVE  a * c <= b * c /\ a * c \in Nat /\ b * c \in Nat
<1>1. PICK k \in Nat : b = a + k
  <2>1. b - a \in Nat /\ b = a + (b - a)
    OBVIOUS
  <2>2. QED
    BY <2>1
<1>2. (a + k) * c = a * c + k * c /\ a * c \in Nat /\ k * c \in Nat
  OBVIOUS
<1>3. QED
  BY <1>1, <1>2

(***************************************************************************)
(* Rounding stays on its side of a whole number.                           *)
(***************************************************************************)
LEMMA RoundsWithin ==
  ASSUME NEW n \in Int, NEW d \in Nat \ {0}, NEW k \in Int
  PROVE  /\ k * d <= n => k <= divRound(n, d)
         /\ n <= k * d => divRound(n, d) <= k
<1>1. PICK q \in Int : q = divRound(n, d)
  BY RoundsToNearest
<1>2. q * d \in Int /\ k * d \in Int
  OBVIOUS
<1>3. 2 * (q * d - n) <= d /\ 2 * (n - q * d) <= d
  <2>1. 2 * Absolute(q * d - n) <= d
    BY <1>1, RoundsToNearest
  <2>2. QED
    BY <1>2, <2>1 DEF Absolute
<1>4. ASSUME NEW a \in Int, NEW b \in Int, a < b
      PROVE  a * d + d <= b * d /\ a * d \in Int /\ b * d \in Int
  <2>1. PICK j \in Nat : b = a + 1 + j
    <3>1. b - a - 1 \in Nat /\ b = a + 1 + (b - a - 1)
      BY <1>4
    <3>2. QED
      BY <3>1
  <2>2. (a + 1 + j) * d = a * d + d + j * d /\ j * d \in Nat /\ a * d \in Int
    OBVIOUS
  <2>3. QED
    BY <2>1, <2>2
<1>5. ASSUME k * d <= n, q < k
      PROVE  FALSE
  BY <1>2, <1>3, <1>4, <1>5
<1>6. ASSUME n <= k * d, k < q
      PROVE  FALSE
  BY <1>2, <1>3, <1>4, <1>6
<1>7. QED
  BY <1>1, <1>5, <1>6

\* A contract with a price has a rate, and it is not negative.
LEMMA RateTyped ==
  ASSUME NEW c \in ContractRow, HasPrice(c)
  PROVE  c.annual \in Nat \ {0} /\ PricePerPointYear(c) \in Nat
<1>1. /\ c.annual \in Int /\ c.term \in Int /\ c.price \in Int /\ c.closing \in Int
      /\ c.term > 0 /\ c.price > 0 /\ c.closing >= 0 /\ c.annual > 0
  BY DEF ContractRow, HasPrice
<1>2. c.annual * c.term \in Nat \ {0}
  BY <1>1
<1>3. (c.price + c.closing) * microsPerCent \in Nat
  BY <1>1, ScalesAssumption
<1>4. 0 <= PricePerPointYear(c)
  BY <1>2, <1>3, RoundsWithin DEF PricePerPointYear
<1>5. PricePerPointYear(c) \in Int
  BY <1>2, <1>3, RoundsToNearest DEF PricePerPointYear
<1>6. QED
  BY <1>1, <1>4, <1>5

PricedIn(contracts) == {c \in DOMAIN contracts : HasPrice(contracts[c])}

(***************************************************************************)
(* The points of the priced contracts, and their points times their rates, *)
(* are natural numbers, and there are such points.                         *)
(***************************************************************************)
LEMMA Weights ==
  ASSUME NEW contracts, ContractsTyped(contracts), PricedIn(contracts) # {}
  PROVE  LET priced == PricedIn(contracts)
             w == [c \in priced |-> contracts[c].annual]
             f == [c \in priced |-> contracts[c].annual * PricePerPointYear(contracts[c])]
         IN  /\ IsFiniteSet(priced)
             /\ \A c \in priced : w[c] \in Nat /\ f[c] \in Nat
             /\ SumOver(w, priced) \in Nat \ {0} /\ SumOver(f, priced) \in Nat
<1> DEFINE priced == PricedIn(contracts)
           w == [c \in priced |-> contracts[c].annual]
           f == [c \in priced |-> contracts[c].annual * PricePerPointYear(contracts[c])]
<1>1. \A c \in priced : contracts[c].annual \in Nat \ {0} /\ PricePerPointYear(contracts[c]) \in Nat
  BY RateTyped DEF PricedIn, ContractsTyped
<1>2. IsFiniteSet(priced)
  BY FS_Subset DEF PricedIn, ContractsTyped
<1>3. \A c \in priced : w[c] \in Nat \ {0} /\ f[c] \in Nat
  BY <1>1
<1>4. PICK c \in priced : TRUE
  OBVIOUS
<1> HIDE DEF w, f, priced
<1>5. SumOver(w, priced) \in Nat /\ SumOver(f, priced) \in Nat
  BY <1>2, <1>3, SumType
<1>6. SumOver(w, {c}) = w[c]
  <2>1. SumOver(w, {} \cup {c}) = SumOver(w, {}) + w[c]
    BY <1>3, <1>4, SumAdd, FS_EmptySet
  <2>2. {} \cup {c} = {c}
    OBVIOUS
  <2>3. QED
    BY <1>3, <1>4, <2>1, <2>2, SumEmpty
<1>7. SumOver(w, {c}) <= SumOver(w, priced)
  BY <1>2, <1>3, <1>4, SumMonotone
<1>8. SumOver(w, priced) # 0
  BY <1>3, <1>4, <1>5, <1>6, <1>7
<1>9. QED
  BY <1>2, <1>3, <1>5, <1>8 DEF w, f, priced

(***************************************************************************)
(* The blended rate is no lower than the lowest rate and no higher than    *)
(* the highest.                                                            *)
(***************************************************************************)
LEMMA BlendedBetween ==
  ASSUME NEW contracts, ContractsTyped(contracts), PricedIn(contracts) # {}
  PROVE  /\ Blended(contracts) \in Nat
         /\ \E a, b \in {PricePerPointYear(contracts[c]) : c \in PricedIn(contracts)} :
              a <= Blended(contracts) /\ Blended(contracts) <= b
<1> DEFINE priced == PricedIn(contracts)
           w == [c \in priced |-> contracts[c].annual]
           f == [c \in priced |-> contracts[c].annual * PricePerPointYear(contracts[c])]
           rate == [c \in priced |-> PricePerPointYear(contracts[c])]
           rates == {rate[c] : c \in priced}
<1>1. \A c \in priced : contracts[c].annual \in Nat /\ rate[c] \in Nat
  BY RateTyped DEF PricedIn, ContractsTyped
<1>2. /\ IsFiniteSet(priced)
      /\ \A c \in priced : w[c] \in Nat /\ f[c] \in Nat
      /\ SumOver(w, priced) \in Nat \ {0} /\ SumOver(f, priced) \in Nat
  BY Weights
<1>3. Blended(contracts) = divRound(SumOver(f, priced), SumOver(w, priced))
  BY DEF Blended, PricedIn
<1>4. \A c \in priced : f[c] = w[c] * rate[c]
  OBVIOUS
<1>5. rates = {PricePerPointYear(contracts[c]) : c \in PricedIn(contracts)}
  OBVIOUS
<1>6. \A c \in priced : rate[c] \in Nat
  BY <1>1
<1> HIDE DEF w, f, rate, priced
<1>7. IsFiniteSet(rates) /\ rates \subseteq Nat /\ rates # {}
  <2>1. priced # {}
    BY DEF priced
  <2>2. QED
    BY <1>2, <1>6, <2>1, ImageFinite
<1>8. PICK lo \in rates : \A k \in rates : lo <= k
  <2> HIDE DEF rates
  <2> QED BY <1>7, LeastNumber
<1>9. PICK hi \in rates : \A k \in rates : hi >= k
  <2> HIDE DEF rates
  <2> QED BY <1>7, LargestNumber
<1>10. \A c \in priced : lo * w[c] <= f[c] /\ f[c] <= hi * w[c]
  <2> SUFFICES ASSUME NEW c \in priced
               PROVE  lo * w[c] <= f[c] /\ f[c] <= hi * w[c]
    OBVIOUS
  <2>1. lo <= rate[c] /\ rate[c] <= hi /\ lo \in Nat /\ hi \in Nat /\ rate[c] \in Nat /\ w[c] \in Nat
    BY <1>2, <1>6, <1>7, <1>8, <1>9
  <2>2. lo * w[c] <= rate[c] * w[c] /\ rate[c] * w[c] <= hi * w[c]
    BY <2>1, TimesMonotone
  <2>3. f[c] = rate[c] * w[c]
    BY <1>4, <2>1
  <2>4. QED
    BY <2>2, <2>3
<1>11. /\ lo * SumOver(w, priced) <= SumOver(f, priced)
       /\ SumOver(f, priced) <= hi * SumOver(w, priced)
       /\ lo \in Nat /\ hi \in Nat
  <2>1. lo \in Nat /\ hi \in Nat
    BY <1>7
  <2>2. QED
    BY <1>2, <1>10, <2>1, SumScaled
<1>12. lo <= Blended(contracts) /\ Blended(contracts) <= hi /\ Blended(contracts) \in Int
  BY <1>2, <1>3, <1>11, RoundsWithin, RoundsToNearest
<1>13. Blended(contracts) \in Nat
  BY <1>11, <1>12
<1>14. \E a, b \in rates : a <= Blended(contracts) /\ Blended(contracts) <= b
  BY <1>8, <1>9, <1>12
<1> HIDE DEF rates
<1>15. QED
  BY <1>5, <1>13, <1>14

(***************************************************************************)
(* The blended rate, at which points of no particular contract are         *)
(* priced, always lies among the rates of the priced contracts.            *)
(***************************************************************************)
THEOREM BlendedStaysAmongRates == Spec => []BlendedAmongRates
<1>1. DataInv => BlendedAmongRates
  <2> SUFFICES ASSUME DataInv, DOMAIN CurrentBasis.rates # {}
               PROVE  \E a, b \in {CurrentBasis.rates[c] : c \in DOMAIN CurrentBasis.rates} :
                        a <= CurrentBasis.blended /\ CurrentBasis.blended <= b
    BY DEF BlendedAmongRates
  <2> DEFINE priced == PricedIn(db.contracts)
  <2>1. /\ CurrentBasis.rates = [c \in priced |-> PricePerPointYear(db.contracts[c])]
        /\ CurrentBasis.blended = Blended(db.contracts)
    BY DEF CurrentBasis, NewCostBasis, PricedIn
  <2>2. priced # {} /\ ContractsTyped(db.contracts)
    BY <2>1 DEF DataInv
  <2>3. \E a, b \in {PricePerPointYear(db.contracts[c]) : c \in priced} :
          a <= Blended(db.contracts) /\ Blended(db.contracts) <= b
    BY <2>2, BlendedBetween
  <2>4. {CurrentBasis.rates[c] : c \in DOMAIN CurrentBasis.rates}
          = {PricePerPointYear(db.contracts[c]) : c \in priced}
    BY <2>1
  <2>5. QED
    BY <2>1, <2>3, <2>4
<1>2. QED
  BY <1>1, DataInvariant, PTL

-----------------------------------------------------------------------------
(* Dues of years that are not stored. *)

\* What is priced with: positive rates of finitely many years, and a growth.
DuesKnown(basis) ==
  /\ basis.dues \in [DOMAIN basis.dues -> Nat \ {0}]
  /\ DOMAIN basis.dues \subseteq Nat /\ IsFiniteSet(DOMAIN basis.dues)
  /\ basis.growth \in Nat

\* Dividing a natural number by a positive one leaves one.
LEMMA RoundTyped ==
  ASSUME NEW n \in Nat, NEW d \in Nat \ {0}
  PROVE  divRound(n, d) \in Nat
<1>1. 0 * d <= n /\ n \in Int
  OBVIOUS
<1>2. 0 <= divRound(n, d) /\ divRound(n, d) \in Int
  BY <1>1, RoundsWithin, RoundsToNearest
<1>3. QED
  BY <1>2

\* The growth is the mean of natural numbers.
LEMMA GrowthTyped ==
  ASSUME NEW dues, dues \in [DOMAIN dues -> Nat \ {0}], IsFiniteSet(DOMAIN dues)
  PROVE  duesGrowth(dues) \in Nat
<1> DEFINE pairs == {y \in DOMAIN dues : y + 1 \in DOMAIN dues}
           ratio == [y \in pairs |-> divRound(dues[y + 1] * duesGrowthBase, dues[y])]
<1>1. IsFiniteSet(pairs)
  BY FS_Subset
<1>2. \A y \in pairs : ratio[y] \in Nat
  <2> SUFFICES ASSUME NEW y \in pairs
               PROVE  ratio[y] \in Nat
    OBVIOUS
  <2>1. dues[y] \in Nat \ {0} /\ dues[y + 1] \in Nat
    OBVIOUS
  <2>2. dues[y + 1] * duesGrowthBase \in Nat
    BY <2>1, ScalesAssumption
  <2>3. QED
    BY <2>1, <2>2, RoundTyped
<1>3. /\ pairs = {} => duesGrowth(dues) = duesGrowthBase
      /\ pairs # {} => duesGrowth(dues) = divRound(SumOver(ratio, pairs), Cardinality(pairs))
  BY DEF duesGrowth
<1> HIDE DEF pairs, ratio
<1>4. SumOver(ratio, pairs) \in Nat
  BY <1>1, <1>2, SumType
<1>5. pairs # {} => Cardinality(pairs) \in Nat \ {0}
  BY <1>1, FS_CardinalityType, FS_EmptySet
<1>6. QED
  BY <1>3, <1>4, <1>5, RoundTyped, ScalesAssumption

\* So it is in every basis.
LEMMA BasisTyped ==
  ASSUME NEW contracts, NEW dues, DuesTyped(dues)
  PROVE  DuesKnown(NewCostBasis(contracts, dues))
<1> DEFINE stored == [y \in {z \in DOMAIN dues : dues[z] > 0} |-> dues[y]]
           basis == NewCostBasis(contracts, dues)
<1>1. /\ stored \in [DOMAIN stored -> Nat \ {0}] /\ DOMAIN stored \subseteq Nat
      /\ IsFiniteSet(DOMAIN stored)
  <2>1. DOMAIN stored \in SUBSET DOMAIN dues
    OBVIOUS
  <2>2. IsFiniteSet(DOMAIN stored)
    BY <2>1, FS_Subset DEF DuesTyped
  <2>3. QED
    BY <2>2 DEF DuesTyped
<1>2. basis.dues = stored /\ basis.growth = duesGrowth(stored)
  BY DEF NewCostBasis
<1> HIDE DEF stored, basis
<1>3. QED
  BY <1>1, <1>2, GrowthTyped DEF DuesKnown, basis

\* One year on, or one year back, is dearer or cheaper as the growth says.
LEMMA OneYear ==
  ASSUME NEW basis, basis.growth \in Nat, NEW rate \in Nat
  PROVE  /\ Forward(basis, rate) \in Nat
         /\ basis.growth >= duesGrowthBase => rate <= Forward(basis, rate)
         /\ basis.growth <= duesGrowthBase => Forward(basis, rate) <= rate
         /\ basis.growth # 0 =>
              /\ Backward(basis, rate) \in Nat
              /\ basis.growth >= duesGrowthBase => Backward(basis, rate) <= rate
              /\ basis.growth <= duesGrowthBase => rate <= Backward(basis, rate)
<1> DEFINE g == basis.growth
           d == duesGrowthBase
<1>1. d \in Nat \ {0} /\ g \in Nat
  BY ScalesAssumption
<1> HIDE DEF g, d
<1>2. /\ rate * d = d * rate /\ rate * g = g * rate /\ rate * d \in Nat /\ rate * g \in Nat
      /\ rate * d \in Int /\ rate * g \in Int /\ rate \in Int
  BY <1>1
<1>3. /\ g >= d => rate * d <= rate * g
      /\ g <= d => rate * g <= rate * d
  BY <1>1, <1>2, TimesMonotone
<1>4. /\ divRound(rate * g, d) \in Nat
      /\ rate * d <= rate * g => rate <= divRound(rate * g, d)
      /\ rate * g <= rate * d => divRound(rate * g, d) <= rate
  BY <1>1, <1>2, RoundTyped, RoundsWithin
<1>5. g # 0 => /\ divRound(rate * d, g) \in Nat
               /\ rate * g <= rate * d => rate <= divRound(rate * d, g)
               /\ rate * d <= rate * g => divRound(rate * d, g) <= rate
  BY <1>1, <1>2, RoundTyped, RoundsWithin
<1>6. QED
  BY <1>3, <1>4, <1>5 DEF Forward, Backward, g, d

\* The two recursive functions of compoundDues.
Ahead(basis, year) ==
  CHOOSE f : f = [n \in Nat |-> IF n = 0 THEN basis.dues[year] ELSE Forward(basis, f[n - 1])]
Back(basis, year) ==
  CHOOSE f : f = [n \in Nat |-> IF n = 0 THEN basis.dues[year] ELSE Backward(basis, f[n - 1])]

\* What compounding is, forward and backward.
LEMMA Compounded ==
  ASSUME NEW basis, basis.growth \in Nat \ {0}, NEW year, NEW steps \in Int
  PROVE  compoundDues(basis, year, steps)
           = IF steps >= 0 THEN Ahead(basis, year)[steps] ELSE Back(basis, year)[-steps]
<1>1. ~(basis.growth <= 0)
  OBVIOUS
<1>2. QED
  BY <1>1, Zenon DEF compoundDues, Ahead, Back

(***************************************************************************)
(* Both are functions on the natural numbers: one is found by Recursion,   *)
(* so the one that was chosen is such a function too.                      *)
(***************************************************************************)
LEMMA AheadIs ==
  ASSUME NEW basis, basis.growth \in Nat, NEW year, basis.dues[year] \in Nat
  PROVE  /\ Ahead(basis, year)[0] = basis.dues[year]
         /\ \A n \in Nat : /\ Ahead(basis, year)[n] \in Nat
                           /\ Ahead(basis, year)[n + 1] = Forward(basis, Ahead(basis, year)[n])
<1> DEFINE h == [p \in Nat \X Nat |-> Forward(basis, p[2])]
           Is(f) == f = [n \in Nat |-> IF n = 0 THEN basis.dues[year] ELSE Forward(basis, f[n - 1])]
<1>1. ASSUME NEW k \in Nat, NEW v \in Nat
      PROVE  h[<<k, v>>] = Forward(basis, v) /\ h[<<k, v>>] \in Nat
  <2>1. <<k, v>> \in Nat \X Nat /\ <<k, v>>[2] = v
    OBVIOUS
  <2>2. h[<<k, v>>] = Forward(basis, v)
    BY <2>1
  <2>3. QED
    BY <2>2, OneYear
<1>2. \E f : Is(f)
  <2> HIDE DEF h
  <2>1. Nat \in SUBSET Nat /\ Downward(Nat)
    BY DEF Downward
  <2>2. ClosedIn(h, Nat, Nat)
    BY <1>1 DEF ClosedIn
  <2>3. PICK f \in [Nat -> Nat] : Recurs(f, Nat, basis.dues[year], h)
    BY <2>1, <2>2, Recursion
  <2>4. \A k \in Nat : f[k] = IF k = 0 THEN basis.dues[year] ELSE Forward(basis, f[k - 1])
    <3> SUFFICES ASSUME NEW k \in Nat, k # 0
                 PROVE  f[k] = Forward(basis, f[k - 1])
      BY <2>3 DEF Recurs
    <3>1. f[k - 1] \in Nat
      OBVIOUS
    <3>2. h[<<k, f[k - 1]>>] = Forward(basis, f[k - 1])
      BY <1>1, <3>1
    <3>3. QED
      BY <2>3, <3>2 DEF Recurs
  <2>5. Is(f)
    BY <2>4
  <2>6. QED
    BY <2>5
<1>3. Is(Ahead(basis, year))
  BY <1>2 DEF Ahead
<1>4. PICK f : f = Ahead(basis, year)
  OBVIOUS
<1>5. \A n \in Nat : f[n] = IF n = 0 THEN basis.dues[year] ELSE Forward(basis, f[n - 1])
  BY <1>3, <1>4
<1>6. f[0] = basis.dues[year]
  BY <1>5
<1>7. \A n \in Nat : f[n + 1] = Forward(basis, f[n])
  <2> SUFFICES ASSUME NEW n \in Nat
               PROVE  f[n + 1] = Forward(basis, f[n])
    OBVIOUS
  <2>1. n + 1 \in Nat /\ n + 1 # 0 /\ (n + 1) - 1 = n
    OBVIOUS
  <2>2. QED
    BY <1>5, <2>1
<1> DEFINE G == {n \in Nat : f[n] \in Nat}
<1>8. ASSUME NEW k \in Nat, k = 0 \/ k - 1 \in G
      PROVE  k \in G
  <2>1. CASE k = 0
    BY <1>6, <2>1
  <2>2. CASE k - 1 \in G
    <3>1. k - 1 \in Nat /\ (k - 1) + 1 = k
      BY <2>2
    <3>2. QED
      BY <1>7, <2>2, <3>1, OneYear
  <2>3. QED
    BY <1>8, <2>1, <2>2
<1>9. Nat \subseteq G
  <2>1. Nat \in SUBSET Nat /\ \A k \in Nat : k = 0 \/ k - 1 \in Nat
    OBVIOUS
  <2> HIDE DEF G
  <2>2. QED
    BY <1>8, <2>1, Induction
<1>10. QED
  BY <1>4, <1>6, <1>7, <1>9

\* The other likewise.
LEMMA BackIs ==
  ASSUME NEW basis, basis.growth \in Nat \ {0}, NEW year, basis.dues[year] \in Nat
  PROVE  /\ Back(basis, year)[0] = basis.dues[year]
         /\ \A n \in Nat : /\ Back(basis, year)[n] \in Nat
                           /\ Back(basis, year)[n + 1] = Backward(basis, Back(basis, year)[n])
<1> DEFINE h == [p \in Nat \X Nat |-> Backward(basis, p[2])]
           Is(f) == f = [n \in Nat |-> IF n = 0 THEN basis.dues[year] ELSE Backward(basis, f[n - 1])]
<1>1. ASSUME NEW k \in Nat, NEW v \in Nat
      PROVE  h[<<k, v>>] = Backward(basis, v) /\ h[<<k, v>>] \in Nat
  <2>1. <<k, v>> \in Nat \X Nat /\ <<k, v>>[2] = v
    OBVIOUS
  <2>2. h[<<k, v>>] = Backward(basis, v)
    BY <2>1
  <2>3. QED
    BY <2>2, OneYear
<1>2. \E f : Is(f)
  <2> HIDE DEF h
  <2>1. Nat \in SUBSET Nat /\ Downward(Nat)
    BY DEF Downward
  <2>2. ClosedIn(h, Nat, Nat)
    BY <1>1 DEF ClosedIn
  <2>3. PICK f \in [Nat -> Nat] : Recurs(f, Nat, basis.dues[year], h)
    BY <2>1, <2>2, Recursion
  <2>4. \A k \in Nat : f[k] = IF k = 0 THEN basis.dues[year] ELSE Backward(basis, f[k - 1])
    <3> SUFFICES ASSUME NEW k \in Nat, k # 0
                 PROVE  f[k] = Backward(basis, f[k - 1])
      BY <2>3 DEF Recurs
    <3>1. f[k - 1] \in Nat
      OBVIOUS
    <3>2. h[<<k, f[k - 1]>>] = Backward(basis, f[k - 1])
      BY <1>1, <3>1
    <3>3. QED
      BY <2>3, <3>2 DEF Recurs
  <2>5. Is(f)
    BY <2>4
  <2>6. QED
    BY <2>5
<1>3. Is(Back(basis, year))
  BY <1>2 DEF Back
<1>4. PICK f : f = Back(basis, year)
  OBVIOUS
<1>5. \A n \in Nat : f[n] = IF n = 0 THEN basis.dues[year] ELSE Backward(basis, f[n - 1])
  BY <1>3, <1>4
<1>6. f[0] = basis.dues[year]
  BY <1>5
<1>7. \A n \in Nat : f[n + 1] = Backward(basis, f[n])
  <2> SUFFICES ASSUME NEW n \in Nat
               PROVE  f[n + 1] = Backward(basis, f[n])
    OBVIOUS
  <2>1. n + 1 \in Nat /\ n + 1 # 0 /\ (n + 1) - 1 = n
    OBVIOUS
  <2>2. QED
    BY <1>5, <2>1
<1> DEFINE G == {n \in Nat : f[n] \in Nat}
<1>8. ASSUME NEW k \in Nat, k = 0 \/ k - 1 \in G
      PROVE  k \in G
  <2>1. CASE k = 0
    BY <1>6, <2>1
  <2>2. CASE k - 1 \in G
    <3>1. k - 1 \in Nat /\ (k - 1) + 1 = k
      BY <2>2
    <3>2. QED
      BY <1>7, <2>2, <3>1, OneYear
  <2>3. QED
    BY <1>8, <2>1, <2>2
<1>9. Nat \subseteq G
  <2>1. Nat \in SUBSET Nat /\ \A k \in Nat : k = 0 \/ k - 1 \in Nat
    OBVIOUS
  <2> HIDE DEF G
  <2>2. QED
    BY <1>8, <2>1, Induction
<1>10. QED
  BY <1>4, <1>6, <1>7, <1>9

\* What compounding gives, a year further on and a year further back.
LEMMA CompoundTyped ==
  ASSUME NEW basis, DuesKnown(basis), NEW from \in DOMAIN basis.dues, NEW steps \in Int
  PROVE  compoundDues(basis, from, steps) \in Nat
<1>1. basis.dues[from] \in Nat /\ basis.growth \in Nat
  BY DEF DuesKnown
<1>2. CASE basis.growth = 0
  BY <1>1, <1>2 DEF compoundDues
<1>3. CASE basis.growth # 0 /\ steps >= 0
  <2>1. compoundDues(basis, from, steps) = Ahead(basis, from)[steps] /\ steps \in Nat
    BY <1>1, <1>3, Compounded
  <2>2. QED
    BY <1>1, <2>1, AheadIs
<1>4. CASE basis.growth # 0 /\ ~(steps >= 0)
  <2>1. compoundDues(basis, from, steps) = Back(basis, from)[-steps] /\ -steps \in Nat
    BY <1>1, <1>4, Compounded
  <2>2. QED
    BY <1>1, <1>4, <2>1, BackIs
<1>5. QED
  BY <1>1, <1>2, <1>3, <1>4

\* Dues compounded one year more go the way of their growth.
LEMMA YearOn ==
  ASSUME NEW basis, DuesKnown(basis), NEW from \in DOMAIN basis.dues, NEW steps \in Int
  PROVE  /\ basis.growth >= duesGrowthBase =>
              compoundDues(basis, from, steps) <= compoundDues(basis, from, steps + 1)
         /\ basis.growth <= duesGrowthBase =>
              compoundDues(basis, from, steps + 1) <= compoundDues(basis, from, steps)
<1> DEFINE this == compoundDues(basis, from, steps)
           next == compoundDues(basis, from, steps + 1)
<1>1. basis.dues[from] \in Nat /\ basis.growth \in Nat /\ this \in Nat /\ next \in Nat
  BY CompoundTyped DEF DuesKnown
<1>2. /\ basis.growth >= duesGrowthBase => this <= next
      /\ basis.growth <= duesGrowthBase => next <= this
  <2>1. CASE basis.growth = 0
    <3>1. this = basis.dues[from] /\ next = basis.dues[from]
      BY <1>1, <2>1 DEF compoundDues
    <3> HIDE DEF this, next
    <3>2. QED
      BY <1>1, <3>1
  <2>2. CASE basis.growth # 0 /\ steps >= 0
    <3>1. /\ this = Ahead(basis, from)[steps] /\ next = Ahead(basis, from)[steps + 1]
          /\ steps \in Nat
      BY <1>1, <2>2, Compounded
    <3> HIDE DEF this, next
    <3>2. next = Forward(basis, this)
      BY <1>1, <3>1, AheadIs
    <3>3. QED
      BY <1>1, <3>2, OneYear
  <2>3. CASE basis.growth # 0 /\ ~(steps >= 0)
    <3> DEFINE back == -(steps + 1)
    <3>1. back \in Nat /\ -steps = back + 1
      BY <2>3
    <3>2. /\ basis.dues[from] = Ahead(basis, from)[0]
          /\ basis.dues[from] = Back(basis, from)[0]
      BY <1>1, <2>3, AheadIs, BackIs
    <3>3. next = Back(basis, from)[back]
      <4>1. CASE steps + 1 < 0
        BY <1>1, <2>3, <4>1, Compounded
      <4>2. CASE steps + 1 = 0
        <5>1. next = Ahead(basis, from)[0]
          BY <1>1, <2>3, <4>2, Compounded
        <5>2. back = 0
          BY <4>2
        <5>3. QED
          BY <3>2, <5>1, <5>2
      <4>3. QED
        BY <2>3, <4>1, <4>2
    <3>4. this = Back(basis, from)[back + 1]
      BY <1>1, <2>3, <3>1, Compounded
    <3> HIDE DEF this, next, back
    <3>5. this = Backward(basis, next)
      BY <1>1, <2>3, <3>1, <3>3, <3>4, BackIs
    <3>6. QED
      BY <1>1, <2>3, <3>5, OneYear
  <2>4. QED
    BY <1>1, <2>1, <2>2, <2>3
<1>3. QED
  BY <1>2

\* Where the dues of a year come from: the last stored year up to it, or else
\* the first of all.
ComesFrom(basis, year, from) ==
  /\ from \in DOMAIN basis.dues
  /\ \A y \in DOMAIN basis.dues : y <= year => y <= from
  /\ (\E y \in DOMAIN basis.dues : y <= year) => from <= year
  /\ (\A y \in DOMAIN basis.dues : ~(y <= year)) => \A y \in DOMAIN basis.dues : from <= y

\* The dues of a year are compounded from there.
LEMMA DuesForIs ==
  ASSUME NEW basis, DuesKnown(basis), DOMAIN basis.dues # {}, NEW year \in Int
  PROVE  /\ DuesFor(basis, year).rate \in Nat
         /\ \E from : /\ ComesFrom(basis, year, from)
                      /\ DuesFor(basis, year).rate = compoundDues(basis, from, year - from)
<1> DEFINE below == {y \in DOMAIN basis.dues : y <= year}
           from == IF below = {} THEN Min(DOMAIN basis.dues) ELSE Max(below)
<1>1. /\ IsFiniteSet(DOMAIN basis.dues) /\ DOMAIN basis.dues \subseteq Nat
      /\ IsFiniteSet(below) /\ below \subseteq Nat
  BY FS_Subset DEF DuesKnown
<1>2. DuesFor(basis, year).rate = compoundDues(basis, from, year - from)
  BY DEF DuesFor
<1>3. ComesFrom(basis, year, from)
  <2>1. CASE below = {}
    <3> DEFINE S == DOMAIN basis.dues
    <3> HIDE DEF S
    <3>1. \E m \in S : \A k \in S : m <= k
      BY <1>1, LeastNumber DEF S
    <3>2. Min(S) \in S /\ \A k \in S : Min(S) <= k
      BY <3>1 DEF Min
    <3>3. \A y \in S : ~(y <= year)
      BY <2>1 DEF S
    <3>4. from = Min(S)
      BY <2>1 DEF S
    <3> HIDE DEF from
    <3>5. QED
      BY <3>2, <3>3, <3>4 DEF ComesFrom, S
  <2>2. CASE below # {}
    <3> HIDE DEF below
    <3>1. \E m \in below : \A k \in below : m >= k
      BY <1>1, <2>2, LargestNumber
    <3>2. Max(below) \in below /\ \A k \in below : Max(below) >= k
      BY <3>1 DEF Max
    <3>3. PICK m \in below : m = Max(below) /\ \A k \in below : m >= k
      BY <3>2
    <3>4. from = m
      BY <2>2, <3>3
    <3> HIDE DEF from
    <3>5. \A y \in DOMAIN basis.dues : y <= year => y <= m
      <4> SUFFICES ASSUME NEW y \in DOMAIN basis.dues, y <= year
                   PROVE  y <= m
        OBVIOUS
      <4>1. y \in below /\ y \in Nat /\ m \in Nat
        BY <1>1, <3>3 DEF below
      <4>2. QED
        BY <3>3, <4>1
    <3>6. m \in DOMAIN basis.dues /\ m <= year
      BY <3>3 DEF below
    <3>7. QED
      BY <3>4, <3>5, <3>6 DEF ComesFrom
  <2>3. QED
    BY <2>1, <2>2
<1> HIDE DEF from
<1>4. from \in DOMAIN basis.dues /\ from \in Nat /\ year - from \in Int
  BY <1>1, <1>3 DEF ComesFrom
<1>5. QED
  BY <1>2, <1>3, <1>4, CompoundTyped

(***************************************************************************)
(* From one year to the next, dues that come from the same stored year     *)
(* follow the growth.                                                      *)
(***************************************************************************)
LEMMA NextYear ==
  ASSUME NEW basis, DuesKnown(basis), NEW first \in DOMAIN basis.dues, NEW year \in Int,
         \/ first <= year /\ year + 1 \notin DOMAIN basis.dues
         \/ year < first /\ \A y \in DOMAIN basis.dues : first <= y
  PROVE  /\ basis.growth >= duesGrowthBase =>
              DuesFor(basis, year).rate <= DuesFor(basis, year + 1).rate
         /\ basis.growth <= duesGrowthBase =>
              DuesFor(basis, year).rate >= DuesFor(basis, year + 1).rate
<1>1. DOMAIN basis.dues # {} /\ DOMAIN basis.dues \subseteq Nat /\ year + 1 \in Int /\ first \in Nat
  BY DEF DuesKnown
<1>2. PICK from : /\ ComesFrom(basis, year, from)
                  /\ DuesFor(basis, year).rate = compoundDues(basis, from, year - from)
  BY <1>1, DuesForIs
<1>3. PICK then : /\ ComesFrom(basis, year + 1, then)
                  /\ DuesFor(basis, year + 1).rate = compoundDues(basis, then, year + 1 - then)
  <2>1. PICK next \in Int : next = year + 1
    BY <1>1
  <2>2. PICK then : /\ ComesFrom(basis, next, then)
                    /\ DuesFor(basis, next).rate = compoundDues(basis, then, next - then)
    BY <1>1, DuesForIs
  <2>3. /\ ComesFrom(basis, year + 1, then)
        /\ DuesFor(basis, year + 1).rate = compoundDues(basis, then, year + 1 - then)
    <3>1. then \in Int
      BY <1>1, <2>2 DEF ComesFrom
    <3>2. next - then = year + 1 - then
      BY <2>1, <3>1
    <3>3. ComesFrom(basis, year + 1, then) /\ DuesFor(basis, year + 1) = DuesFor(basis, next)
      BY <2>1, <2>2
    <3>4. QED
      BY <2>2, <3>2, <3>3
  <2>4. QED
    BY <2>3
<1>4. from \in DOMAIN basis.dues /\ then \in DOMAIN basis.dues /\ from \in Nat /\ then \in Nat
  BY <1>1, <1>2, <1>3 DEF ComesFrom
<1>5. from = then
  <2>1. CASE first <= year /\ year + 1 \notin DOMAIN basis.dues
    <3>1. from <= year /\ first <= year + 1
      BY <1>1, <1>2, <2>1 DEF ComesFrom
    <3>2. then <= year + 1 /\ then # year + 1
      BY <1>3, <1>4, <2>1, <3>1 DEF ComesFrom
    <3>3. then <= year
      BY <1>4, <3>2
    <3>4. then <= from
      BY <1>2, <1>4, <3>3 DEF ComesFrom
    <3>5. from <= year + 1
      BY <1>4, <3>1
    <3>6. from <= then
      BY <1>3, <1>4, <3>5 DEF ComesFrom
    <3>7. QED
      BY <1>4, <3>4, <3>6
  <2>2. CASE year < first /\ \A y \in DOMAIN basis.dues : first <= y
    <3>1. \A y \in DOMAIN basis.dues : ~(y <= year)
      BY <1>1, <2>2
    <3>2. from <= first /\ first <= from
      BY <1>2, <1>4, <2>2, <3>1 DEF ComesFrom
    <3>3. first <= then
      BY <1>4, <2>2
    <3>4. then <= first
      <4>1. CASE first = year + 1
        BY <1>1, <1>3, <4>1 DEF ComesFrom
      <4>2. CASE first # year + 1
        <5>1. \A y \in DOMAIN basis.dues : ~(y <= year + 1)
          BY <1>1, <2>2, <4>2
        <5>2. QED
          BY <1>3, <5>1 DEF ComesFrom
      <4>3. QED
        BY <4>1, <4>2
    <3>5. QED
      BY <1>1, <1>4, <3>2, <3>3, <3>4
  <2>3. QED
    BY <2>1, <2>2
<1>6. year + 1 - then = (year - from) + 1 /\ year - from \in Int
  BY <1>4, <1>5
<1>7. /\ DuesFor(basis, year + 1).rate = compoundDues(basis, from, (year - from) + 1)
      /\ DuesFor(basis, year).rate \in Nat /\ DuesFor(basis, year + 1).rate \in Nat
  BY <1>1, <1>3, <1>5, <1>6, DuesForIs
<1>8. /\ basis.growth >= duesGrowthBase =>
           compoundDues(basis, from, year - from) <= compoundDues(basis, from, (year - from) + 1)
      /\ basis.growth <= duesGrowthBase =>
           compoundDues(basis, from, (year - from) + 1) <= compoundDues(basis, from, year - from)
  BY <1>4, <1>6, YearOn
<1>9. QED
  BY <1>2, <1>7, <1>8

(***************************************************************************)
(* Dues projected beyond the stored years, or before them, follow the      *)
(* trend of the stored ones, for any rates and any rounding.               *)
(***************************************************************************)
THEOREM DuesAlwaysFollowTrend == Spec => []DuesFollowTrend
<1>1. DataInv => DuesFollowTrend
  <2> SUFFICES ASSUME DataInv
               PROVE  DuesFollowTrend
    OBVIOUS
  <2>1. PICK basis : basis = CurrentBasis
    OBVIOUS
  <2>2. DuesKnown(basis)
    BY <2>1, BasisTyped DEF DataInv, CurrentBasis
  <2>3. ASSUME NEW first \in DOMAIN basis.dues
        PROVE  first \in Nat /\ duesPreviewYears \in Nat
    BY <2>2, LimitsAssumption DEF DuesKnown
  <2>4. ASSUME NEW first \in DOMAIN basis.dues, NEW y \in first..first + duesPreviewYears,
               y + 1 \notin DOMAIN basis.dues
        PROVE  /\ basis.growth >= duesGrowthBase => DuesFor(basis, y).rate <= DuesFor(basis, y + 1).rate
               /\ basis.growth <= duesGrowthBase => DuesFor(basis, y).rate >= DuesFor(basis, y + 1).rate
    <3>1. first <= y /\ y \in Int
      BY <2>3
    <3>2. QED
      BY <2>2, <2>4, <3>1, NextYear
  <2>5. ASSUME NEW first \in DOMAIN basis.dues, \A y \in DOMAIN basis.dues : first <= y,
               NEW y \in first - duesPreviewYears..first - 1
        PROVE  /\ basis.growth >= duesGrowthBase => DuesFor(basis, y).rate <= DuesFor(basis, y + 1).rate
               /\ basis.growth <= duesGrowthBase => DuesFor(basis, y).rate >= DuesFor(basis, y + 1).rate
    <3>1. y < first /\ y \in Int
      BY <2>3
    <3>2. QED
      BY <2>2, <2>5, <3>1, NextYear
  <2>6. QED
    BY <2>1, <2>4, <2>5 DEF DuesFollowTrend
<1>2. QED
  BY <1>1, DataInvariant, PTL

-----------------------------------------------------------------------------
(* The running balance. *)

\* Entries are listed one after the other: dates may be equal, ids are not.
Listing(entries) == {p \in entries \X entries : ListedBefore(p[1], p[2])}

\* By date, then by id: an order of the entries.
LEMMA ListingOrders ==
  ASSUME NEW entries, NEW rows, EntriesTyped(entries, rows)
  PROVE  /\ Orders(Listing(entries), entries)
         /\ \A e \in entries : Preceding(Listing(entries), entries, e) = {f \in entries : ListedBefore(f, e)}
<1> DEFINE day(x) == 12 * x.date.year + x.date.month
           R == Listing(entries)
<1>1. \A e \in entries : day(e) \in Int /\ e.id \in Int
  BY DEF EntriesTyped, Entry, Date
<1>2. \A e, f \in entries : <<e, f>> \in R <=> day(e) < day(f) \/ (day(e) = day(f) /\ e.id < f.id)
  BY DEF Listing, ListedBefore
<1>3. \A e, f \in entries : e.id = f.id => e = f
  BY DEF EntriesTyped
<1>4. \A e, f \in entries : <<e, f>> \in R <=> ListedBefore(e, f)
  BY DEF Listing
<1> HIDE DEF day, R
<1>5. \A e \in entries : <<e, e>> \notin R
  BY <1>1, <1>2
<1>6. \A e, f, g \in entries : <<e, f>> \in R /\ <<f, g>> \in R => <<e, g>> \in R
  <2> SUFFICES ASSUME NEW e \in entries, NEW f \in entries, NEW g \in entries,
                      <<e, f>> \in R, <<f, g>> \in R
               PROVE  <<e, g>> \in R
    OBVIOUS
  <2>1. /\ day(e) \in Int /\ day(f) \in Int /\ day(g) \in Int
        /\ e.id \in Int /\ f.id \in Int /\ g.id \in Int
    BY <1>1
  <2>2. /\ day(e) < day(f) \/ (day(e) = day(f) /\ e.id < f.id)
        /\ day(f) < day(g) \/ (day(f) = day(g) /\ f.id < g.id)
    BY <1>2
  <2>3. day(e) < day(g) \/ (day(e) = day(g) /\ e.id < g.id)
    BY <2>1, <2>2
  <2>4. QED
    BY <1>2, <2>3
<1>7. \A e, f \in entries : e = f \/ <<e, f>> \in R \/ <<f, e>> \in R
  <2> SUFFICES ASSUME NEW e \in entries, NEW f \in entries
               PROVE  e = f \/ <<e, f>> \in R \/ <<f, e>> \in R
    OBVIOUS
  <2>1. day(e) \in Int /\ day(f) \in Int /\ e.id \in Int /\ f.id \in Int
    BY <1>1
  <2>2. \/ day(e) < day(f) \/ (day(e) = day(f) /\ e.id < f.id)
        \/ day(f) < day(e) \/ (day(f) = day(e) /\ f.id < e.id)
        \/ e.id = f.id
    BY <2>1
  <2>3. QED
    BY <1>2, <1>3, <2>2
<1>8. Orders(R, entries)
  BY <1>5, <1>6, <1>7 DEF Orders
<1>9. QED
  BY <1>4, <1>8 DEF Preceding, R

(***************************************************************************)
(* Every entry is listed, at a place of its own.                           *)
(***************************************************************************)
LEMMA EveryEntryListed ==
  ASSUME NEW entries, NEW rows, EntriesTyped(entries, rows)
  PROVE  /\ Cardinality(entries) \in Nat
         /\ ListEntries(entries) \in [1..Cardinality(entries) -> entries]
         /\ Len(ListEntries(entries)) = Cardinality(entries)
         /\ \A i \in 1..Cardinality(entries) :
              Cardinality({f \in entries : ListedBefore(f, ListEntries(entries)[i])}) = i - 1
<1> DEFINE n == Cardinality(entries)
           list == ListEntries(entries)
           place(e) == Cardinality({f \in entries : ListedBefore(f, e)})
<1>1. IsFiniteSet(entries) /\ n \in Nat
  BY FS_CardinalityType DEF EntriesTyped
<1>2. \A i \in 1..n : \E e \in entries : place(e) = i - 1
  <2> SUFFICES ASSUME NEW i \in 1..n
               PROVE  \E e \in entries : place(e) = i - 1
    OBVIOUS
  <2>1. PICK e \in entries : Cardinality(Preceding(Listing(entries), entries, e)) = i - 1
    BY <1>1, ListingOrders, EveryPlaceTaken
  <2>2. QED
    BY <2>1, ListingOrders
<1>3. list = [i \in 1..n |-> CHOOSE e \in entries : place(e) = i - 1]
  BY DEF ListEntries
<1> HIDE DEF place, list, n
<1>4. list \in [1..n -> entries] /\ \A i \in 1..n : place(list[i]) = i - 1
  BY <1>2, <1>3
<1>5. Len(list) = n
  BY <1>1, <1>4
<1>6. QED
  BY <1>1, <1>4, <1>5 DEF place, list, n

(***************************************************************************)
(* The balance after each entry is the one before it, with what the entry  *)
(* allots, without what it uses.                                           *)
(***************************************************************************)
LEMMA BalanceIs ==
  ASSUME NEW n \in Nat, NEW list, list \in [1..n -> Entry], Len(list) = n
  PROVE  /\ RunningBalance(list)[0] = 0
         /\ \A i \in 0..n : RunningBalance(list)[i] \in Int
         /\ \A i \in 1..n :
              RunningBalance(list)[i] = RunningBalance(list)[i - 1] + list[i].allotted - list[i].used
<1> DEFINE D == 0..n
           h == [p \in D \X Int |-> IF p[1] = 0 THEN p[2] ELSE p[2] + list[p[1]].allotted - list[p[1]].used]
           Is(f) == f = [i \in 0..Len(list) |->
                           IF i = 0 THEN 0 ELSE f[i - 1] + list[i].allotted - list[i].used]
<1>1. ASSUME NEW i \in D, i # 0
      PROVE  list[i].allotted \in Int /\ list[i].used \in Int /\ i - 1 \in D /\ i \in 1..n
  <2>1. i \in 1..n
    BY <1>1
  <2>2. list[i] \in Entry
    BY <2>1
  <2>3. QED
    BY <1>1, <2>1, <2>2 DEF Entry
<1>2. ASSUME NEW i \in D, NEW v \in Int
      PROVE  /\ h[<<i, v>>] = IF i = 0 THEN v ELSE v + list[i].allotted - list[i].used
             /\ h[<<i, v>>] \in Int
  <2>1. <<i, v>> \in D \X Int /\ <<i, v>>[1] = i /\ <<i, v>>[2] = v
    OBVIOUS
  <2>2. h[<<i, v>>] = IF i = 0 THEN v ELSE v + list[i].allotted - list[i].used
    BY <2>1
  <2> HIDE DEF h, D
  <2>3. QED
    BY <1>1, <2>2
<1>3. D \in SUBSET Nat /\ Downward(D)
  BY DEF Downward
<1>4. \E f : Is(f)
  <2> HIDE DEF h, D
  <2>1. ClosedIn(h, D, Int)
    BY <1>2 DEF ClosedIn
  <2>2. PICK f \in [D -> Int] : Recurs(f, D, 0, h)
    <3>1. PICK none \in Int : none = 0
      OBVIOUS
    <3>2. \E f \in [D -> Int] : Recurs(f, D, none, h)
      BY <1>3, <2>1, Recursion
    <3>3. QED
      BY <3>1, <3>2
  <2>3. \A i \in D : f[i] = IF i = 0 THEN 0 ELSE f[i - 1] + list[i].allotted - list[i].used
    <3> SUFFICES ASSUME NEW i \in D, i # 0
                 PROVE  f[i] = f[i - 1] + list[i].allotted - list[i].used
      BY <2>2 DEF Recurs
    <3>1. f[i - 1] \in Int
      BY <1>1
    <3>2. h[<<i, f[i - 1]>>] = f[i - 1] + list[i].allotted - list[i].used
      BY <1>2, <3>1
    <3>3. QED
      BY <2>2, <3>2 DEF Recurs
  <2>4. 0..Len(list) = D
    BY DEF D
  <2>5. Is(f)
    BY <2>3, <2>4
  <2>6. QED
    BY <2>5
<1>5. Is(RunningBalance(list))
  BY <1>4 DEF RunningBalance
<1>6. PICK f : f = RunningBalance(list)
  OBVIOUS
<1>7. \A i \in D : f[i] = IF i = 0 THEN 0 ELSE f[i - 1] + list[i].allotted - list[i].used
  BY <1>5, <1>6
<1> DEFINE G == {i \in Nat : f[i] \in Int}
<1>8. ASSUME NEW k \in D, k = 0 \/ k - 1 \in G
      PROVE  k \in G
  <2>1. CASE k = 0
    BY <1>3, <1>7, <2>1
  <2>2. CASE k # 0
    <3>1. f[k] = f[k - 1] + list[k].allotted - list[k].used
      BY <1>7, <2>2
    <3>2. f[k - 1] \in Int /\ k \in Nat
      BY <1>8, <2>2
    <3> HIDE DEF D
    <3>3. QED
      BY <1>1, <2>2, <3>1, <3>2
  <2>3. QED
    BY <2>1, <2>2
<1>9. D \subseteq G
  <2> HIDE DEF D, G
  <2> QED BY <1>3, <1>8, Induction DEF Downward
<1>10. \A i \in 1..n : i \in D /\ i # 0
  OBVIOUS
<1>11. 0 \in D
  OBVIOUS
<1>12. QED
  BY <1>6, <1>7, <1>9, <1>10, <1>11

\* So the balance of a ledger is a number.
LEMMA TotalTyped ==
  ASSUME NEW entries, NEW rows, EntriesTyped(entries, rows)
  PROVE  Total(entries) \in Int
<1> DEFINE n == Cardinality(entries)
           list == ListEntries(entries)
<1>1. n \in Nat /\ list \in [1..n -> Entry] /\ Len(list) = n
  <2>1. entries \subseteq Entry
    BY DEF EntriesTyped
  <2>2. n \in Nat /\ list \in [1..n -> entries] /\ Len(list) = n
    BY EveryEntryListed
  <2>3. QED
    BY <2>1, <2>2
<1> HIDE DEF n, list
<1>2. RunningBalance(list)[n] \in Int
  <2>1. n \in 0..n
    BY <1>1
  <2>2. QED
    BY <1>1, <2>1, BalanceIs
<1>3. QED
  BY <1>2 DEF Total, n, list

-----------------------------------------------------------------------------
(* To the cent. *)

\* The rate of every contract is a number, and so is the month.
LEMMA RatesTyped ==
  ASSUME NEW contracts, NEW dues, ContractsTyped(contracts),
         NEW basis, basis = NewCostBasis(contracts, dues)
  PROVE  /\ basis.blended \in Nat
         /\ \A c : RateFor(basis, c) \in Nat
         /\ basis.month \in 1..12
<1>1. /\ basis.rates = [c \in PricedIn(contracts) |-> PricePerPointYear(contracts[c])]
      /\ basis.blended = Blended(contracts) /\ basis.month = UseYearStartMonth(contracts)
  BY DEF NewCostBasis, PricedIn
<1>2. Blended(contracts) \in Nat
  <2>1. CASE PricedIn(contracts) = {}
    BY <2>1 DEF Blended, PricedIn
  <2>2. QED
    BY <2>1, BlendedBetween
<1>3. \A c \in PricedIn(contracts) : PricePerPointYear(contracts[c]) \in Nat
  BY RateTyped DEF PricedIn, ContractsTyped
<1>4. \A c : RateFor(basis, c) \in Nat
  <2> SUFFICES ASSUME NEW c
               PROVE  RateFor(basis, c) \in Nat
    OBVIOUS
  <2>1. CASE c \in PricedIn(contracts)
    <3>1. RateFor(basis, c) = PricePerPointYear(contracts[c])
      BY <1>1, <2>1 DEF RateFor
    <3>2. QED
      BY <1>3, <2>1, <3>1
  <2>2. CASE c \notin PricedIn(contracts)
    <3>1. RateFor(basis, c) = Blended(contracts)
      BY <1>1, <2>2 DEF RateFor
    <3>2. QED
      BY <1>2, <3>1
  <2>3. QED
    BY <2>1, <2>2
<1>5. UseYearStartMonth(contracts) \in 1..12
  <2>1. CASE DOMAIN contracts = {}
    BY <2>1 DEF UseYearStartMonth
  <2>2. CASE DOMAIN contracts # {}
    <3> DEFINE S == DOMAIN contracts
               G == {T \in SUBSET S : T # {} => \E m \in T : \A k \in T : m <= k}
    <3>1. S \subseteq Int /\ IsFiniteSet(S)
      BY DEF ContractsTyped
    <3>2. {} \in G
      OBVIOUS
    <3>3. ASSUME NEW T \in SUBSET S, NEW x \in S \ T, T \in G
          PROVE  T \cup {x} \in G
      <4>1. CASE T = {}
        BY <3>1, <4>1
      <4>2. ASSUME NEW m \in T, \A k \in T : m <= k
            PROVE  \E j \in T \cup {x} : \A k \in T \cup {x} : j <= k
        <5>1. m \in Int /\ x \in Int /\ T \subseteq Int
          BY <3>1
        <5>2. CASE m <= x
          BY <4>2, <5>2
        <5>3. CASE ~(m <= x)
          <6>1. \A k \in T : x <= k
            BY <4>2, <5>1, <5>3
          <6>2. QED
            BY <5>1, <6>1
        <5>4. QED
          BY <5>2, <5>3
      <4>3. QED
        BY <3>3, <4>1, <4>2
    <3>4. S \in G
      <4> HIDE DEF S, G
      <4> QED BY <3>1, <3>2, <3>3, SetInduction
    <3>5. Min(S) \in S
      <4>1. \E m \in S : \A k \in S : m <= k
        BY <2>2, <3>4
      <4> HIDE DEF S
      <4>2. QED
        BY <4>1 DEF Min
    <3>6. contracts[Min(S)] \in ContractRow
      BY <3>5 DEF ContractsTyped
    <3>7. QED
      BY <2>2, <3>6 DEF UseYearStartMonth, ContractRow
  <2>3. QED
    BY <2>1, <2>2
<1>6. QED
  BY <1>1, <1>2, <1>4, <1>5

(***************************************************************************)
(* What an entry cost, and what the balance is worth, is right to half a   *)
(* cent for any amounts, whatever is overdrawn.                            *)
(***************************************************************************)
THEOREM AlwaysPricedToTheCent == Spec => []PricedToTheCent
<1>1. DataInv => PricedToTheCent
  <2> SUFFICES ASSUME DataInv, Known(CurrentBasis)
               PROVE  PricedToTheCent
    BY DEF PricedToTheCent
  <2>1. PICK basis : basis = CurrentBasis
    OBVIOUS
  <2>2. /\ basis.blended \in Nat /\ basis.month \in 1..12
        /\ \A c : RateFor(basis, c) \in Nat
    BY <2>1, RatesTyped DEF DataInv, CurrentBasis
  <2>3. DuesKnown(basis) /\ DOMAIN basis.dues # {} /\ Known(basis)
    BY <2>1, BasisTyped DEF DataInv, CurrentBasis, Known
  <2>4. \A year \in Int : DuesFor(basis, year).rate \in Int
    BY <2>3, DuesForIs
  <2>5. ASSUME NEW e \in db.entries, e.used > 0
        PROVE  NearestCent(EntryCost(basis, e).cents,
                           e.used * (RateFor(basis, e.contract) + DuesFor(basis, e.useYear).rate))
    <3>1. e.used \in Int /\ e.useYear \in Int
      BY DEF DataInv, EntriesTyped, Entry
    <3>2. RateFor(basis, e.contract) \in Int /\ DuesFor(basis, e.useYear).rate \in Int
      BY <2>2, <2>4, <3>1
    <3>3. EntryCost(basis, e).cents
            = PointCost(e.used, RateFor(basis, e.contract), DuesFor(basis, e.useYear).rate)
      <4>1. ~(~Known(basis) \/ e.used <= 0)
        BY <2>3, <2>5, <3>1
      <4>2. QED
        BY <4>1 DEF EntryCost, Cost
    <3>4. QED
      BY <3>1, <3>2, <3>3, PointCostNearest DEF NearestCent
  <2>6. NearestCent(balanceValue(basis, Total(db.entries)),
                    Total(db.entries) *
                      (basis.blended + DuesFor(basis, CurrentYear(basis)).rate))
    <3>1. Total(db.entries) \in Int
      BY TotalTyped DEF DataInv
    <3>2. CurrentYear(basis) \in Int
      <4>1. Today.year \in Int /\ Today.month \in Int
        BY RowsAssumption DEF Date
      <4>2. QED
        BY <2>2, <4>1 DEF CurrentYear, UseYearForDate
    <3>3. DuesFor(basis, CurrentYear(basis)).rate \in Int /\ basis.blended \in Int
      BY <2>2, <2>4, <3>2
    <3>4. QED
      BY <3>1, <3>3, PointCostNearest DEF NearestCent, balanceValue
  <2>7. QED
    BY <2>1, <2>5, <2>6 DEF PricedToTheCent
<1>2. QED
  BY <1>1, DataInvariant, PTL

-----------------------------------------------------------------------------
(* Sums of amounts that may be negative: corrections are entries too.      *)

\* Such a sum is what is counted on one side, less what is on the other.
Sides(f, S, p, n) ==
  /\ \A x \in S : p[x] \in Nat /\ n[x] \in Nat /\ p[x] - n[x] = f[x]
  /\ \A T \in SUBSET S : SignedSum(f, T) = SumOver(p, T) - SumOver(n, T)

\* There are such sides.
LEMMA SumParts ==
  ASSUME NEW f, NEW S, IsFiniteSet(S), \A x \in S : f[x] \in Int
  PROVE  \E p, n : Sides(f, S, p, n)
<1> DEFINE p == [x \in S |-> IF f[x] > 0 THEN f[x] ELSE 0]
           n == [x \in S |-> IF f[x] > 0 THEN 0 ELSE -f[x]]
<1>1. p \in [S -> Nat] /\ n \in [S -> Nat] /\ \A x \in S : p[x] - n[x] = f[x]
  OBVIOUS
<1>2. ASSUME NEW T \in SUBSET S
      PROVE  SignedSum(f, T) = SumOver(p, T) - SumOver(n, T)
  <2> DEFINE g == [x \in T |-> -f[x]]
  <2>1. \A x \in T : 1..f[x] = 1..p[x] /\ 1..g[x] = 1..n[x]
    <3> SUFFICES ASSUME NEW x \in T
                 PROVE  1..f[x] = 1..p[x] /\ 1..g[x] = 1..n[x]
      OBVIOUS
    <3>1. f[x] \in Int /\ g[x] = -f[x]
      OBVIOUS
    <3>2. CASE f[x] > 0
      <4>1. p[x] = f[x] /\ n[x] = 0 /\ g[x] < 0 /\ g[x] \in Int
        BY <3>1, <3>2
      <4>2. 1..g[x] = {} /\ 1..n[x] = {}
        BY <4>1
      <4>3. QED
        BY <4>1, <4>2
    <3>3. CASE ~(f[x] > 0)
      <4>1. p[x] = 0 /\ n[x] = g[x]
        BY <3>1, <3>3
      <4>2. 1..f[x] = {} /\ 1..p[x] = {}
        BY <3>1, <3>3, <4>1
      <4>3. QED
        BY <4>1, <4>2
    <3>4. QED
      BY <3>2, <3>3
  <2> HIDE DEF p, n, g
  <2>2. AllPoints(f, T) = AllPoints(p, T) /\ AllPoints(g, T) = AllPoints(n, T)
    BY <2>1 DEF AllPoints, PointsOf
  <2>3. SignedSum(f, T) = SumOver(f, T) - SumOver(g, T)
    BY DEF SignedSum, g
  <2>4. QED
    BY <2>2, <2>3 DEF SumOver
<1> HIDE DEF p, n
<1>3. QED
  BY <1>1, <1>2 DEF Sides

\* Sets that are apart.
LEMMA SignedAdds ==
  ASSUME NEW f, NEW S, NEW T, IsFiniteSet(S), IsFiniteSet(T), S \cap T = {},
         \A x \in S \cup T : f[x] \in Int
  PROVE  /\ SignedSum(f, S) \in Int /\ SignedSum(f, T) \in Int
         /\ SignedSum(f, S \cup T) = SignedSum(f, S) + SignedSum(f, T)
<1> DEFINE A == S \cup T
<1>1. IsFiniteSet(A) /\ (\A x \in A : f[x] \in Int)
      /\ S \in SUBSET A /\ T \in SUBSET A /\ A \in SUBSET A
  BY FS_Union
<1> HIDE DEF A
<1>2. PICK p, n : Sides(f, A, p, n)
  BY <1>1, SumParts
<1>6. \A x \in S \cup T : p[x] \in Nat /\ n[x] \in Nat
  BY <1>2 DEF A, Sides
<1>7. S \cup T = A
  BY DEF A
<1>3. /\ SumOver(p, S) \in Nat /\ SumOver(n, S) \in Nat
      /\ SumOver(p, T) \in Nat /\ SumOver(n, T) \in Nat
  BY <1>6, SumType
<1>4. /\ SumOver(p, S \cup T) = SumOver(p, S) + SumOver(p, T)
      /\ SumOver(n, S \cup T) = SumOver(n, S) + SumOver(n, T)
  BY <1>6, SumDisjoint
<1>5. /\ SignedSum(f, S) = SumOver(p, S) - SumOver(n, S)
      /\ SignedSum(f, T) = SumOver(p, T) - SumOver(n, T)
      /\ SignedSum(f, S \cup T) = SumOver(p, S \cup T) - SumOver(n, S \cup T)
  BY <1>1, <1>2, <1>7 DEF Sides
<1>8. QED
  BY <1>3, <1>4, <1>5

\* Nothing adds up to nothing, and one amount to itself.
LEMMA SignedOne ==
  ASSUME NEW f, NEW x, f[x] \in Int
  PROVE  SignedSum(f, {}) = 0 /\ SignedSum(f, {x}) = f[x]
<1>1. IsFiniteSet({x}) /\ IsFiniteSet({}) /\ \A y \in {x} : f[y] \in Int
  BY FS_Singleton, FS_EmptySet
<1>2. PICK p, n : Sides(f, {x}, p, n)
  BY <1>1, SumParts
<1>3. SumOver(p, {}) = 0 /\ SumOver(n, {}) = 0
  BY SumEmpty
<1>4. SumOver(p, {} \cup {x}) = p[x] /\ SumOver(n, {} \cup {x}) = n[x]
  <2>1. /\ SumOver(p, {} \cup {x}) = SumOver(p, {}) + p[x]
        /\ SumOver(n, {} \cup {x}) = SumOver(n, {}) + n[x]
    BY <1>1, <1>2, SumAdd DEF Sides
  <2>2. p[x] \in Nat /\ n[x] \in Nat
    BY <1>2 DEF Sides
  <2>3. QED
    BY <1>3, <2>1, <2>2
<1>5. {} \cup {x} = {x}
  OBVIOUS
<1>6. SignedSum(f, {}) = 0 - 0 /\ SignedSum(f, {x}) = p[x] - n[x]
  BY <1>2, <1>3, <1>4, <1>5 DEF Sides
<1>7. QED
  BY <1>2, <1>6 DEF Sides

\* Only the amounts of the members count.
LEMMA SignedCongruent ==
  ASSUME NEW f, NEW g, NEW S, \A x \in S : f[x] = g[x]
  PROVE  SignedSum(f, S) = SignedSum(g, S)
<1>1. SumOver(f, S) = SumOver(g, S)
  BY SumCongruent
<1>2. SumOver([x \in S |-> -f[x]], S) = SumOver([x \in S |-> -g[x]], S)
  BY SumCongruent
<1>3. QED
  BY <1>1, <1>2 DEF SignedSum

\* The members of S by a key of theirs.
Keys(S, k) == {k[x] : x \in S}
Group(S, k, y) == {x \in S : k[x] = y}

(***************************************************************************)
(* Adding up by groups, and then the groups, is adding up everything.      *)
(***************************************************************************)
LEMMA SignedGroups ==
  ASSUME NEW S, IsFiniteSet(S), NEW f, \A x \in S : f[x] \in Int, NEW k, NEW g,
         \A y \in Keys(S, k) : g[y] = SignedSum(f, Group(S, k, y))
  PROVE  SignedSum(g, Keys(S, k)) = SignedSum(f, S)
<1> DEFINE Y == {k[x] : x \in S}
           In(T) == {x \in S : k[x] \in T}
           Of(y) == {x \in S : k[x] = y}
           G == {T \in SUBSET Y : SignedSum(g, T) = SignedSum(f, In(T))}
<1>14. Keys(S, k) = Y /\ \A y : Group(S, k, y) = Of(y)
  BY DEF Keys, Group
<1>1. IsFiniteSet(Y)
  BY ImageFinite
<1>2. \A y \in Y : IsFiniteSet(Of(y)) /\ g[y] = SignedSum(f, Of(y))
  BY <1>14, FS_Subset
<1>3. \A T \in SUBSET Y : IsFiniteSet(In(T)) /\ IsFiniteSet(T)
  BY <1>1, FS_Subset
<1>4. In({}) = {} /\ In(Y) = S
  OBVIOUS
<1>5. \A y, T : In(T \cup {y}) = In(T) \cup Of(y) /\ (y \notin T => In(T) \cap Of(y) = {})
  OBVIOUS
<1>6. \A T : In(T) \subseteq S
  OBVIOUS
<1>7. \A y : Of(y) \subseteq S
  OBVIOUS
<1> HIDE DEF Y, In, Of
<1>8. \A y \in Y : g[y] \in Int
  <2> SUFFICES ASSUME NEW y \in Y
               PROVE  g[y] \in Int
    OBVIOUS
  <2>1. Of(y) \cap {} = {} /\ IsFiniteSet({})
    BY FS_EmptySet
  <2>2. SignedSum(f, Of(y)) \in Int
    BY <1>2, <1>7, <2>1, SignedAdds
  <2>3. QED
    BY <1>2, <2>2
<1>9. {} \in G
  <2>1. SignedSum(g, {}) = 0 /\ SignedSum(f, {}) = 0
    <3>1. \A h : SumOver(h, {}) = 0
      BY SumEmpty
    <3>2. QED
      BY <3>1 DEF SignedSum
  <2>2. QED
    BY <1>4, <2>1
<1>10. ASSUME NEW T \in SUBSET Y, NEW y \in Y \ T, T \in G
       PROVE  T \cup {y} \in G
  <2>1. /\ IsFiniteSet(T) /\ IsFiniteSet({y}) /\ T \cap {y} = {}
        /\ \A z \in T \cup {y} : g[z] \in Int
    BY <1>3, <1>8, FS_Singleton
  <2>2. SignedSum(g, T \cup {y}) = SignedSum(g, T) + SignedSum(g, {y})
    BY <2>1, SignedAdds
  <2>3. SignedSum(g, {y}) = g[y]
    BY <2>1, SignedOne
  <2>4. /\ IsFiniteSet(In(T)) /\ IsFiniteSet(Of(y)) /\ In(T) \cap Of(y) = {}
        /\ \A x \in In(T) \cup Of(y) : f[x] \in Int
    BY <1>2, <1>3, <1>5, <1>6, <1>7
  <2>5. SignedSum(f, In(T) \cup Of(y)) = SignedSum(f, In(T)) + SignedSum(f, Of(y))
    BY <2>4, SignedAdds
  <2>6. SignedSum(g, T) = SignedSum(f, In(T))
    BY <1>10
  <2>7. QED
    BY <1>2, <1>5, <2>2, <2>3, <2>5, <2>6
<1>11. Y \in G
  <2> HIDE DEF G
  <2>1. QED
    BY <1>1, <1>9, <1>10, SetInduction
<1>12. SignedSum(g, Y) = SignedSum(f, S)
  BY <1>4, <1>11
<1>13. QED
  BY <1>12, <1>14

-----------------------------------------------------------------------------
(* What the parts of a page say of one another: ViewAddsUp.                *)

\* Each entry stands at one place of the list, and no other does there.
LEMMA ListedOnce ==
  ASSUME NEW entries, NEW rows, EntriesTyped(entries, rows),
         NEW n, n = Cardinality(entries), NEW list, list = ListEntries(entries)
  PROVE  /\ n \in Nat /\ list \in [1..n -> entries] /\ Len(list) = n
         /\ {list[i] : i \in 1..n} = entries
         /\ \A i, j \in 1..n : list[i] = list[j] => i = j
<1> DEFINE R == Listing(entries)
           place(e) == Cardinality(Preceding(R, entries, e))
<1>1. /\ n \in Nat /\ list \in [1..n -> entries] /\ Len(list) = n
      /\ \A i \in 1..n : Cardinality({f \in entries : ListedBefore(f, list[i])}) = i - 1
  BY EveryEntryListed
<1>2. /\ IsFiniteSet(entries) /\ Orders(R, entries)
      /\ \A e \in entries : Preceding(R, entries, e) = {f \in entries : ListedBefore(f, e)}
  BY ListingOrders DEF EntriesTyped
<1>3. \A i \in 1..n : place(list[i]) = i - 1
  BY <1>1, <1>2
<1> HIDE DEF R
<1>4. ASSUME NEW e \in entries
      PROVE  place(e) + 1 \in 1..n /\ list[place(e) + 1] = e
  <2>1. /\ IsFiniteSet(Preceding(R, entries, e) \cup {e}) /\ place(e) \in Nat
        /\ Cardinality(Preceding(R, entries, e) \cup {e}) = place(e) + 1
    BY <1>2, BeforeAndItself
  <2>2. Preceding(R, entries, e) \cup {e} \in SUBSET entries
    BY DEF Preceding
  <2>3. place(e) + 1 <= n
    BY <1>2, <2>1, <2>2, FS_Subset
  <2>4. place(e) + 1 \in 1..n
    BY <1>1, <2>1, <2>3
  <2>5. place(list[place(e) + 1]) = place(e)
    BY <1>3, <2>1, <2>4
  <2>6. list[place(e) + 1] \in entries
    BY <1>1, <2>4
  <2>7. QED
    BY <1>2, <2>4, <2>5, <2>6, OnePlaceEach
<1> HIDE DEF place
<1>5. {list[i] : i \in 1..n} = entries
  BY <1>1, <1>4
<1>6. \A i, j \in 1..n : list[i] = list[j] => i = j
  BY <1>1, <1>3
<1>7. QED
  BY <1>1, <1>5, <1>6

\* What entries allot, less what they use.
Moved(entries, S) ==
  SignedSum([e \in entries |-> e.allotted], S) - SignedSum([e \in entries |-> e.used], S)

\* Points moved by disjoint sets of entries add up.
LEMMA MovedAdds ==
  ASSUME NEW entries, NEW rows, EntriesTyped(entries, rows),
         NEW S \in SUBSET entries, NEW T \in SUBSET entries, S \cap T = {}
  PROVE  /\ Moved(entries, S) \in Int
         /\ Moved(entries, S \cup T) = Moved(entries, S) + Moved(entries, T)
         /\ \A e \in entries : Moved(entries, {e}) = e.allotted - e.used
         /\ Moved(entries, {}) = 0
<1> DEFINE al == [e \in entries |-> e.allotted]
           us == [e \in entries |-> e.used]
<1>1. \A e \in entries : /\ al[e] \in Int /\ us[e] \in Int
                         /\ al[e] = e.allotted /\ us[e] = e.used
  BY DEF EntriesTyped, Entry
<1>2. \A Q : Moved(entries, Q) = SignedSum(al, Q) - SignedSum(us, Q)
  BY DEF Moved
<1> HIDE DEF al, us
<1>3. IsFiniteSet(S) /\ IsFiniteSet(T)
  BY FS_Subset DEF EntriesTyped
<1>4. /\ SignedSum(al, S) \in Int /\ SignedSum(al, T) \in Int
      /\ SignedSum(al, S \cup T) = SignedSum(al, S) + SignedSum(al, T)
  BY <1>1, <1>3, SignedAdds
<1>5. /\ SignedSum(us, S) \in Int /\ SignedSum(us, T) \in Int
      /\ SignedSum(us, S \cup T) = SignedSum(us, S) + SignedSum(us, T)
  BY <1>1, <1>3, SignedAdds
<1>6. \A e \in entries : SignedSum(al, {e}) = al[e] /\ SignedSum(us, {e}) = us[e]
  BY <1>1, SignedOne
<1>7. SignedSum(al, {}) = 0 /\ SignedSum(us, {}) = 0
  BY SumEmpty DEF SignedSum
<1>8. QED
  BY <1>1, <1>2, <1>4, <1>5, <1>6, <1>7

(***************************************************************************)
(* The balance after an entry is what it and those before it have moved,   *)
(* so from one balance to the last is what the entries after it moved.     *)
(***************************************************************************)
LEMMA BalanceAddsUp ==
  ASSUME NEW entries, NEW rows, EntriesTyped(entries, rows),
         NEW n, n = Cardinality(entries), NEW list, list = ListEntries(entries)
  PROVE  /\ n \in Nat /\ Total(entries) = Moved(entries, entries)
         /\ \A i \in 0..n : RunningBalance(list)[n] - RunningBalance(list)[i]
                              = Moved(entries, {list[j] : j \in i + 1..n})
<1>1. /\ n \in Nat /\ list \in [1..n -> entries] /\ Len(list) = n
      /\ {list[i] : i \in 1..n} = entries
      /\ \A i, j \in 1..n : list[i] = list[j] => i = j
  BY ListedOnce
<1> DEFINE balance == RunningBalance(list)
           First(i) == {list[j] : j \in 1..i}
           G == {i \in Nat : balance[i] = Moved(entries, First(i))}
<1>2. /\ balance[0] = 0 /\ \A i \in 0..n : balance[i] \in Int
      /\ \A i \in 1..n : balance[i] = balance[i - 1] + list[i].allotted - list[i].used
  <2>1. list \in [1..n -> Entry]
    BY <1>1 DEF EntriesTyped
  <2>2. QED
    BY <1>1, <2>1, BalanceIs
<1>3. \A i \in 0..n : First(i) \in SUBSET entries
  BY <1>1
<1> HIDE DEF balance
<1>4. ASSUME NEW k \in 0..n, k = 0 \/ k - 1 \in G
      PROVE  k \in G
  <2>1. CASE k = 0
    <3>1. First(0) = {} /\ Moved(entries, {}) = 0
      BY MovedAdds
    <3>2. QED
      BY <1>2, <2>1, <3>1
  <2>2. CASE k # 0
    <3>1. k \in 1..n /\ k - 1 \in 0..n /\ k \in Nat
      BY <1>1, <2>2
    <3>2. First(k) = First(k - 1) \cup {list[k]}
      <4>1. 1..k = (1..k - 1) \cup {k}
        BY <3>1
      <4>2. QED
        BY <4>1
    <3>3. First(k - 1) \cap {list[k]} = {} /\ list[k] \in entries
      BY <1>1, <3>1
    <3>4. First(k - 1) \in SUBSET entries
      BY <1>3, <3>1
    <3>5. balance[k - 1] = Moved(entries, First(k - 1))
      BY <1>4, <2>2
    <3> HIDE DEF First, G
    <3>6. Moved(entries, First(k - 1) \cup {list[k]})
            = Moved(entries, First(k - 1)) + Moved(entries, {list[k]})
      <4>1. {list[k]} \in SUBSET entries
        BY <3>3
      <4>2. QED
        BY <3>3, <3>4, <4>1, MovedAdds
    <3>7. Moved(entries, {list[k]}) = list[k].allotted - list[k].used
      BY <3>3, MovedAdds
    <3>8. list[k].allotted \in Int /\ list[k].used \in Int /\ balance[k - 1] \in Int
      BY <1>2, <3>1, <3>3 DEF EntriesTyped, Entry
    <3>9. balance[k] = Moved(entries, First(k))
      BY <1>2, <3>1, <3>2, <3>5, <3>6, <3>7, <3>8
    <3>10. QED
      BY <3>1, <3>9 DEF G
  <2>3. QED
    BY <2>1, <2>2
<1>5. 0..n \subseteq G
  <2>1. 0..n \in SUBSET Nat /\ \A k \in 0..n : k = 0 \/ k - 1 \in 0..n
    BY <1>1
  <2> HIDE DEF G
  <2>2. QED
    BY <1>4, <2>1, Induction
<1>6. \A i \in 0..n : balance[i] = Moved(entries, First(i))
  BY <1>5
<1>7. First(n) = entries /\ n \in 0..n
  BY <1>1
<1>8. ASSUME NEW i \in 0..n
      PROVE  balance[n] - balance[i] = Moved(entries, {list[j] : j \in i + 1..n})
  <2> DEFINE Rest == {list[j] : j \in i + 1..n}
  <2>1. Rest \in SUBSET entries /\ First(i) \cap Rest = {} /\ First(i) \cup Rest = entries
    <3>1. /\ i + 1..n \subseteq 1..n /\ 1..i \subseteq 1..n
          /\ \A j \in 1..i : \A m \in i + 1..n : j # m
          /\ 1..n = (1..i) \cup (i + 1..n)
      BY <1>1
    <3>2. QED
      BY <1>1, <3>1
  <2> HIDE DEF Rest
  <2>2. /\ Moved(entries, entries) = Moved(entries, First(i)) + Moved(entries, Rest)
        /\ Moved(entries, First(i)) \in Int
    <3>1. First(i) \in SUBSET entries
      BY <1>3
    <3> HIDE DEF First
    <3>2. QED
      BY <2>1, <3>1, MovedAdds
  <2>3. Moved(entries, Rest) \in Int
    <3>1. Rest \cap {} = {} /\ {} \in SUBSET entries
      OBVIOUS
    <3>2. QED
      BY <2>1, <3>1, MovedAdds
  <2>4. QED
    BY <1>6, <1>7, <2>2, <2>3 DEF Rest
<1>9. Total(entries) = Moved(entries, entries)
  <2>1. Total(entries) = balance[n]
    BY DEF Total, balance
  <2>2. QED
    BY <1>6, <1>7, <2>1
<1>10. QED
  BY <1>1, <1>8, <1>9 DEF balance

\* The rows of recent are the last of the n rows of list.
Newest(recent, list, n) ==
  /\ Len(recent) \in 0..n
  /\ {recent[i] : i \in DOMAIN recent} = {list[j] : j \in n - Len(recent) + 1..n}

(***************************************************************************)
(* The recent rows are the end of the list, turned round.                  *)
(***************************************************************************)
LEMMA RecentIs ==
  ASSUME NEW n \in Nat, NEW E, NEW list, list \in [1..n -> E], Len(list) = n,
         NEW recent, recent = recentEntries(list)
  PROVE  Newest(recent, list, n)
<1> DEFINE k == Smaller(recentActivityLimit, n)
           end == SubSeq(list, n - k + 1, n)
<1>1. k \in 0..n /\ k \in Nat
  BY LimitsAssumption DEF Smaller
<1>2. recent = Seqs!Reverse(end)
  BY DEF recentEntries
<1> HIDE DEF k
<1>3. Len(end) = k /\ \A i \in 1..k : end[i] = list[n - k + i]
  <2>1. list \in Seq(E)
    OBVIOUS
  <2>2. QED
    BY <1>1, <2>1
<1> HIDE DEF end
<1>4. recent = [i \in 1..k |-> end[k - i + 1]]
  BY <1>2, <1>3 DEF Seqs!Reverse
<1>5. Len(recent) = k /\ DOMAIN recent = 1..k
  BY <1>1, <1>4
<1>6. \A i \in 1..k : recent[i] = list[n - i + 1]
  <2> SUFFICES ASSUME NEW i \in 1..k
               PROVE  recent[i] = list[n - i + 1]
    OBVIOUS
  <2>1. k - i + 1 \in 1..k /\ n - k + (k - i + 1) = n - i + 1
    BY <1>1
  <2>2. QED
    BY <1>3, <1>4, <2>1
<1>7. /\ \A i \in 1..k : n - i + 1 \in n - k + 1..n
      /\ \A j \in n - k + 1..n : n - j + 1 \in 1..k /\ n - (n - j + 1) + 1 = j
  BY <1>1
<1>8. {recent[i] : i \in 1..k} = {list[j] : j \in n - k + 1..n}
  BY <1>6, <1>7
<1>9. QED
  BY <1>1, <1>5, <1>8 DEF Newest

(***************************************************************************)
(* A year that is left out of the years shown comes before all of them,    *)
(* and as many are shown as may be.                                        *)
(***************************************************************************)
LEMMA SpentShown ==
  ASSUME NEW summaries, IsFiniteSet(DOMAIN summaries), DOMAIN summaries \subseteq Int,
         NEW current, NEW y \in DOMAIN summaries, summaries[y].used > 0, summaries[y].used \in Int,
         NEW spent, spent = spentByYear(summaries, current),
         y \notin {spent[i] : i \in DOMAIN spent}
  PROVE  Len(spent) = spentByYearLimit /\ \A z \in {spent[i] : i \in DOMAIN spent} : z > y
<1> DEFINE kept == {x \in DOMAIN summaries : x <= current \/ summaries[x].used # 0}
           rank(x) == Cardinality({z \in kept : z >= x})
           m == Smaller(spentByYearLimit, Cardinality(kept))
           R == {p \in kept \X kept : p[1] > p[2]}
<1>1. IsFiniteSet(kept) /\ kept \subseteq Int /\ y \in kept
  BY FS_Subset
<1>2. spent = [i \in 1..m |-> CHOOSE x \in kept : rank(x) = i]
  BY DEF spentByYear
<1> HIDE DEF kept
<1>3. Cardinality(kept) \in Nat /\ m \in Nat /\ m <= Cardinality(kept)
      /\ (m # spentByYearLimit => m = Cardinality(kept))
  BY <1>1, FS_CardinalityType, LimitsAssumption DEF Smaller
<1>4. Orders(R, kept)
  BY <1>1 DEF Orders
<1> DEFINE from(x) == {z \in kept : z >= x}
<1>13. \A z, x \in kept : <<z, x>> \in R <=> z > x
  OBVIOUS
<1> HIDE DEF R
<1>5. \A x \in kept : /\ rank(x) = Cardinality(Preceding(R, kept, x)) + 1
                      /\ Cardinality(Preceding(R, kept, x)) \in Nat
                      /\ rank(x) \in Int /\ 1 <= rank(x) /\ rank(x) <= Cardinality(kept)
                      /\ IsFiniteSet(from(x)) /\ rank(x) = Cardinality(from(x))
  <2> SUFFICES ASSUME NEW x \in kept
               PROVE  /\ rank(x) = Cardinality(Preceding(R, kept, x)) + 1
                      /\ Cardinality(Preceding(R, kept, x)) \in Nat
                      /\ rank(x) \in Int /\ 1 <= rank(x) /\ rank(x) <= Cardinality(kept)
                      /\ IsFiniteSet(from(x)) /\ rank(x) = Cardinality(from(x))
    OBVIOUS
  <2>1. from(x) = Preceding(R, kept, x) \cup {x}
    <3>1. \A z \in kept : z >= x <=> z > x \/ z = x
      BY <1>1
    <3>2. QED
      BY <1>13, <3>1 DEF Preceding
  <2>2. /\ IsFiniteSet(Preceding(R, kept, x) \cup {x}) /\ Cardinality(Preceding(R, kept, x)) \in Nat
        /\ Cardinality(Preceding(R, kept, x) \cup {x}) = Cardinality(Preceding(R, kept, x)) + 1
    BY <1>1, <1>4, BeforeAndItself
  <2>3. from(x) \in SUBSET kept
    OBVIOUS
  <2>6. rank(x) = Cardinality(from(x))
    OBVIOUS
  <2> HIDE DEF rank, from
  <2>4. rank(x) <= Cardinality(kept)
    BY <1>1, <2>3, <2>6, FS_Subset
  <2>5. QED
    BY <1>3, <2>1, <2>2, <2>4, <2>6
<1>6. \A i \in 1..m : \E x \in kept : rank(x) = i
  <2> SUFFICES ASSUME NEW i \in 1..m
               PROVE  \E x \in kept : rank(x) = i
    OBVIOUS
  <2>1. i \in 1..Cardinality(kept)
    BY <1>3
  <2>2. PICK x \in kept : Cardinality(Preceding(R, kept, x)) = i - 1
    BY <1>1, <1>4, <2>1, EveryPlaceTaken
  <2>3. rank(x) = i
    BY <1>3, <1>5, <2>2
  <2>4. QED
    BY <2>3
<1> HIDE DEF rank, m
<1>14. \A x \in kept : \A z \in kept : z \in from(x) <=> z >= x
  OBVIOUS
<1>15. \A x \in kept : from(x) \subseteq kept
  OBVIOUS
<1> HIDE DEF from
<1>7. \A i \in 1..m : spent[i] \in kept /\ rank(spent[i]) = i
  BY <1>2, <1>6
<1>8. DOMAIN spent = 1..m /\ Len(spent) = m
  BY <1>2, <1>3
<1>9. rank(y) > m
  <2>0. rank(y) \in Int /\ 1 <= rank(y)
    BY <1>1, <1>5
  <2>1. SUFFICES ASSUME rank(y) <= m
                 PROVE  FALSE
    BY <1>3, <2>0
  <2>2. rank(y) \in 1..m
    BY <1>3, <2>0, <2>1
  <2>3. rank(spent[rank(y)]) = rank(y) /\ spent[rank(y)] \in kept
    BY <1>7, <2>2
  <2>4. Cardinality(Preceding(R, kept, spent[rank(y)])) = Cardinality(Preceding(R, kept, y))
    <3>1. PICK x \in kept : x = spent[rank(y)] /\ rank(x) = rank(y)
      BY <2>3
    <3>2. QED
      BY <1>1, <1>5, <3>1
  <2>5. spent[rank(y)] = y
    BY <1>1, <1>4, <2>3, <2>4, OnePlaceEach
  <2>6. QED
    BY <1>8, <2>2, <2>5
<1>10. Len(spent) = spentByYearLimit
  <2>1. rank(y) <= Cardinality(kept) /\ rank(y) \in Int
    BY <1>1, <1>5
  <2>2. m # Cardinality(kept)
    BY <1>3, <1>9, <2>1
  <2>3. QED
    BY <1>3, <1>8, <2>2
<1>11. ASSUME NEW i \in 1..m
       PROVE  spent[i] > y
  <2>1. spent[i] \in kept /\ rank(spent[i]) = i /\ i <= m
    BY <1>3, <1>7
  <2>2. SUFFICES ASSUME y >= spent[i]
                 PROVE  FALSE
    <3>1. spent[i] \in Int /\ y \in Int
      BY <1>1, <2>1
    <3>2. QED
      BY <3>1
  <2>3. PICK x \in kept : x = spent[i] /\ rank(x) = i
    BY <2>1
  <2>4. from(y) \in SUBSET from(x)
    <3>1. \A z \in kept : z >= y => z >= x
      BY <1>1, <2>2, <2>3
    <3>2. QED
      BY <1>1, <1>14, <1>15, <3>1
  <2>5. rank(y) <= rank(x)
    <3>1. IsFiniteSet(from(x)) /\ rank(x) = Cardinality(from(x)) /\ rank(y) = Cardinality(from(y))
      BY <1>1, <1>5
    <3>2. QED
      BY <2>4, <3>1, FS_Subset
  <2>6. rank(y) \in Int
    BY <1>1, <1>5
  <2>7. QED
    BY <1>3, <1>9, <2>1, <2>3, <2>5, <2>6
<1>12. QED
  BY <1>8, <1>10, <1>11

(***************************************************************************)
(* Exactly the years that are not stored are projected.                    *)
(***************************************************************************)
LEMMA ProjectedIs ==
  ASSUME NEW dues, DuesTyped(dues), \A y \in DOMAIN dues : dues[y] > 0,
         NEW contracts, NEW basis, basis = NewCostBasis(contracts, dues),
         NEW y \in DOMAIN duesRows(dues)
  PROVE  duesRows(dues)[y] = DuesFor(basis, y).projected
<1> DEFINE last == CHOOSE x \in DOMAIN dues : \A z \in DOMAIN dues : z <= x
           years == DOMAIN dues \cup
             (IF DOMAIN dues = {} THEN {} ELSE last + 1..last + duesPreviewYears)
<1>1. DOMAIN basis.dues = DOMAIN dues
  BY DEF NewCostBasis
<1>2. duesRows(dues) = [x \in years |-> x \notin DOMAIN dues]
  BY DEF duesRows
<1>3. years # {} => DOMAIN dues # {}
  OBVIOUS
<1>4. DOMAIN dues # {} /\ y \in years
  BY <1>2, <1>3
<1>5. IsFiniteSet(DOMAIN dues) /\ DOMAIN dues \subseteq Nat
  BY DEF DuesTyped
<1>6. last \in DOMAIN dues /\ \A z \in DOMAIN dues : z <= last
  <2> DEFINE S == DOMAIN dues
  <2>1. \E x \in S : \A z \in S : x >= z
    <3> HIDE DEF S
    <3> QED BY <1>4, <1>5, LargestNumber DEF S
  <2>2. \E x \in S : \A z \in S : z <= x
    BY <1>5, <2>1
  <2>3. QED
    BY <2>2
<1>7. y \in DOMAIN dues \/ (y \in Nat /\ y > last)
  <2>1. CASE y \in DOMAIN dues
    BY <2>1
  <2>2. CASE y \notin DOMAIN dues
    <3>1. y \in last + 1..last + duesPreviewYears
      BY <1>4, <2>2
    <3>2. last \in Nat
      BY <1>5, <1>6
    <3>3. QED
      BY <3>1, <3>2
  <2>3. QED
    BY <2>1, <2>2
<1> HIDE DEF last, years
<1> DEFINE below == {x \in DOMAIN basis.dues : x <= y}
<1>8. below # {} /\ below \subseteq Nat /\ IsFiniteSet(below) /\ y \in Nat
  <2>1. CASE y \in DOMAIN dues
    BY <1>1, <1>5, <2>1, FS_Subset
  <2>2. CASE y \in Nat /\ y > last
    BY <1>1, <1>5, <1>6, <2>2, FS_Subset
  <2>3. QED
    BY <1>7, <2>1, <2>2
<1>9. DuesFor(basis, y).projected = (Max(below) # y)
  BY <1>1, <1>4, <1>8 DEF DuesFor
<1>10. Max(below) \in below /\ \A x \in below : Max(below) >= x
  <2> HIDE DEF below
  <2>1. \E x \in below : \A z \in below : x >= z
    BY <1>8, LargestNumber
  <2>2. QED
    BY <2>1 DEF Max
<1>11. y \in DOMAIN dues <=> Max(below) = y
  <2>1. PICK top : top = Max(below)
    OBVIOUS
  <2>2. top \in DOMAIN dues /\ top <= y /\ top \in Nat
    BY <1>1, <1>5, <1>10, <2>1
  <2>3. y \in DOMAIN dues => y <= top
    BY <1>1, <1>8, <1>10, <2>1
  <2>4. QED
    BY <1>8, <2>1, <2>2, <2>3
<1>12. QED
  BY <1>2, <1>4, <1>9, <1>11


\* What is taken from the entries, year by year, is taken from all of them.
LEMMA YearsAddUp ==
  ASSUME NEW entries, NEW rows, EntriesTyped(entries, rows),
         NEW f, \A e \in entries : f[e] \in Int, NEW g,
         \A y \in DOMAIN UseYearSummaries(entries) :
           g[y] = SignedSum(f, {e \in entries : e.useYear = y})
  PROVE  SignedSum(g, DOMAIN UseYearSummaries(entries)) = SignedSum(f, entries)
<1> DEFINE k == [e \in entries |-> e.useYear]
<1>1. IsFiniteSet(entries) /\ \A e \in entries : k[e] = e.useYear
  BY DEF EntriesTyped
<1>2. DOMAIN UseYearSummaries(entries) = Keys(entries, k)
  BY <1>1 DEF UseYearSummaries, Keys
<1>3. \A y : {e \in entries : e.useYear = y} = Group(entries, k, y)
  BY <1>1 DEF Group
<1> HIDE DEF k
<1>4. \A y \in Keys(entries, k) : g[y] = SignedSum(f, Group(entries, k, y))
  BY <1>2, <1>3
<1>5. SignedSum(g, Keys(entries, k)) = SignedSum(f, entries)
  BY <1>1, <1>4, SignedGroups
<1>6. QED
  BY <1>2, <1>5

\* The use years' balances are those of the entries.
LEMMA SummariesAddUp ==
  ASSUME NEW entries, NEW rows, EntriesTyped(entries, rows),
         NEW summaries, summaries = UseYearSummaries(entries),
         NEW years, years = DOMAIN summaries
  PROVE  /\ SignedSum([y \in years |-> summaries[y].allotted], years)
              = SignedSum([e \in entries |-> e.allotted], entries)
         /\ SignedSum([y \in years |-> summaries[y].used], years)
              = SignedSum([e \in entries |-> e.used], entries)
         /\ IsFiniteSet(years) /\ years \subseteq Int
         /\ \A y \in years : summaries[y].used \in Int
<1> DEFINE al == [e \in entries |-> e.allotted]
           us == [e \in entries |-> e.used]
           Of(y) == {e \in entries : e.useYear = y}
           a == [y \in years |-> summaries[y].allotted]
           u == [y \in years |-> summaries[y].used]
<1>1. \A e \in entries : al[e] \in Int /\ us[e] \in Int /\ e.useYear \in Int
  BY DEF EntriesTyped, Entry
<1>2. years = {e.useYear : e \in entries}
  BY DEF UseYearSummaries
<1>3. ASSUME NEW y \in years
      PROVE  /\ summaries[y].allotted = SignedSum(al, Of(y))
             /\ summaries[y].used = SignedSum(us, Of(y))
  <2>1. summaries[y] = [allotted |-> SignedSum([e \in Of(y) |-> e.allotted], Of(y)),
                        used     |-> SignedSum([e \in Of(y) |-> e.used], Of(y))]
    BY <1>2 DEF UseYearSummaries
  <2>2. SignedSum([e \in Of(y) |-> e.allotted], Of(y)) = SignedSum(al, Of(y))
    <3>1. \A e \in Of(y) : [x \in Of(y) |-> x.allotted][e] = al[e]
      OBVIOUS
    <3> HIDE DEF Of, al
    <3>2. QED
      BY <3>1, SignedCongruent
  <2>3. SignedSum([e \in Of(y) |-> e.used], Of(y)) = SignedSum(us, Of(y))
    <3>1. \A e \in Of(y) : [x \in Of(y) |-> x.used][e] = us[e]
      OBVIOUS
    <3> HIDE DEF Of, us
    <3>2. QED
      BY <3>1, SignedCongruent
  <2>4. QED
    BY <2>1, <2>2, <2>3
<1>4. \A y \in years : a[y] = SignedSum(al, Of(y)) /\ u[y] = SignedSum(us, Of(y))
  BY <1>3
<1>5. IsFiniteSet(years)
  <2> DEFINE k == [e \in entries |-> e.useYear]
  <2>1. IsFiniteSet(entries) /\ years = {k[e] : e \in entries}
    BY <1>2 DEF EntriesTyped
  <2> HIDE DEF k
  <2>2. IsFiniteSet({k[e] : e \in entries})
    BY <2>1, ImageFinite
  <2>3. QED
    BY <2>1, <2>2
<1>6. \A y \in years : summaries[y].used \in Int
  <2> SUFFICES ASSUME NEW y \in years
               PROVE  summaries[y].used \in Int
    OBVIOUS
  <2>1. IsFiniteSet(Of(y)) /\ IsFiniteSet({}) /\ Of(y) \cap {} = {}
        /\ \A e \in Of(y) \cup {} : us[e] \in Int
    BY <1>1, FS_Subset, FS_EmptySet DEF EntriesTyped
  <2> HIDE DEF Of, us
  <2>2. SignedSum(us, Of(y)) \in Int
    BY <2>1, SignedAdds
  <2>3. QED
    BY <1>3, <2>2
<1> HIDE DEF al, us, a, u
<1>7. SignedSum(a, years) = SignedSum(al, entries)
  BY <1>1, <1>4, YearsAddUp
<1>8. SignedSum(u, years) = SignedSum(us, entries)
  BY <1>1, <1>4, YearsAddUp
<1>9. QED
  BY <1>1, <1>2, <1>5, <1>6, <1>7, <1>8 DEF al, us, a, u

\* So are their costs.
LEMMA CostsAddUp ==
  ASSUME NEW entries, NEW rows, EntriesTyped(entries, rows),
         NEW years, years = DOMAIN UseYearSummaries(entries),
         NEW basis, \A e \in entries : EntryCost(basis, e).cents \in Int
  PROVE  SignedSum([y \in years |-> SummaryCost(basis, entries, y)], years)
           = TotalCost(basis, entries)
<1> DEFINE f == [e \in entries |-> EntryCost(basis, e).cents]
           g == [y \in years |-> SummaryCost(basis, entries, y)]
           Of(y) == {e \in entries : e.useYear = y}
<1>1. \A e \in entries : f[e] \in Int
  OBVIOUS
<1>2. \A y \in years : g[y] = SignedSum(f, Of(y))
  <2> SUFFICES ASSUME NEW y \in years
               PROVE  g[y] = SignedSum(f, Of(y))
    OBVIOUS
  <2> DEFINE h == [e \in Of(y) |-> EntryCost(basis, e).cents]
  <2>1. g[y] = SignedSum(h, Of(y))
    BY DEF SummaryCost
  <2>2. \A e \in Of(y) : h[e] = f[e]
    OBVIOUS
  <2> HIDE DEF h, f, g, Of
  <2>3. QED
    BY <2>1, <2>2, SignedCongruent
<1>3. TotalCost(basis, entries) = SignedSum(f, entries)
  BY DEF TotalCost
<1> HIDE DEF f, g
<1>4. SignedSum(g, years) = SignedSum(f, entries)
  <2>1. \A y \in DOMAIN UseYearSummaries(entries) :
          g[y] = SignedSum(f, {e \in entries : e.useYear = y})
    BY <1>2
  <2>2. SignedSum(g, DOMAIN UseYearSummaries(entries)) = SignedSum(f, entries)
    BY <1>1, <2>1, YearsAddUp
  <2>3. QED
    BY <2>2
<1>5. QED
  BY <1>3, <1>4 DEF g

\* What an entry cost is a number of cents.
LEMMA CentsTyped ==
  ASSUME NEW entries, NEW rows, EntriesTyped(entries, rows),
         NEW contracts, ContractsTyped(contracts), NEW dues, DuesTyped(dues),
         NEW basis, basis = NewCostBasis(contracts, dues)
  PROVE  \A e \in entries : EntryCost(basis, e).cents \in Int
<1> SUFFICES ASSUME NEW e \in entries
             PROVE  EntryCost(basis, e).cents \in Int
  OBVIOUS
<1>1. e.used \in Int /\ e.useYear \in Int
  BY DEF EntriesTyped, Entry
<1>2. CASE ~Known(basis) \/ e.used <= 0
  BY <1>2 DEF EntryCost, Cost
<1>3. CASE ~(~Known(basis) \/ e.used <= 0)
  <2>1. DuesKnown(basis) /\ DOMAIN basis.dues # {}
    BY <1>3, BasisTyped DEF Known
  <2>2. DuesFor(basis, e.useYear).rate \in Int
    BY <1>1, <2>1, DuesForIs
  <2>3. RateFor(basis, e.contract) \in Int
    BY RatesTyped
  <2>4. EntryCost(basis, e).cents
          = PointCost(e.used, RateFor(basis, e.contract), DuesFor(basis, e.useYear).rate)
    BY <1>3 DEF EntryCost, Cost
  <2>5. PointCost(e.used, RateFor(basis, e.contract), DuesFor(basis, e.useYear).rate) \in Int
    BY <1>1, <2>2, <2>3, PointCostNearest
  <2>6. QED
    BY <2>4, <2>5
<1>4. QED
  BY <1>2, <1>3

\* What ViewAddsUp says of the tables a page is made from.
Agreed(entries, contracts, dues, basis) ==
  LET list == ListEntries(entries)
      balance == RunningBalance(list)
      summaries == UseYearSummaries(entries)
      years == DOMAIN summaries
      recent == recentEntries(list)
      spent == spentByYear(summaries, CurrentYear(basis))
      shown == {spent[i] : i \in DOMAIN spent}
  IN  /\ Total(entries) = SignedSum([y \in years |-> summaries[y].allotted], years)
                            - SignedSum([y \in years |-> summaries[y].used], years)
      /\ SignedSum([y \in years |-> SummaryCost(basis, entries, y)], years)
           = TotalCost(basis, entries)
      /\ balance[Len(list)] - balance[Len(list) - Len(recent)] =
           SignedSum([e \in entries |-> e.allotted], {recent[i] : i \in DOMAIN recent})
             - SignedSum([e \in entries |-> e.used], {recent[i] : i \in DOMAIN recent})
      /\ \A y \in years : summaries[y].used > 0 /\ y \notin shown =>
           Len(spent) = spentByYearLimit /\ \A z \in shown : z > y
      /\ \A c \in DOMAIN contractRows(contracts) : RateFor(basis, c) = contractRows(contracts)[c]
      /\ \A y \in DOMAIN duesRows(dues) : duesRows(dues)[y] = DuesFor(basis, y).projected

(***************************************************************************)
(* Whatever the tables hold, the parts of a page made from them agree.     *)
(***************************************************************************)
LEMMA PageAgrees ==
  ASSUME NEW entries, NEW rows, EntriesTyped(entries, rows),
         NEW contracts, ContractsTyped(contracts),
         NEW dues, DuesTyped(dues), \A y \in DOMAIN dues : dues[y] > 0,
         NEW basis, basis = NewCostBasis(contracts, dues)
  PROVE  Agreed(entries, contracts, dues, basis)
<1> DEFINE list == ListEntries(entries)
           balance == RunningBalance(list)
           summaries == UseYearSummaries(entries)
           years == DOMAIN summaries
           recent == recentEntries(list)
           spent == spentByYear(summaries, CurrentYear(basis))
           shown == {spent[i] : i \in DOMAIN spent}
<1>0. /\ list = ListEntries(entries) /\ balance = RunningBalance(list)
      /\ summaries = UseYearSummaries(entries) /\ years = DOMAIN summaries
      /\ recent = recentEntries(list) /\ spent = spentByYear(summaries, CurrentYear(basis))
      /\ shown = {spent[i] : i \in DOMAIN spent}
  OBVIOUS
<1> HIDE DEF list, balance, summaries, years, recent, spent, shown
<1>1. PICK n : n = Cardinality(entries)
  OBVIOUS
<1>2. /\ n \in Nat /\ Total(entries) = Moved(entries, entries)
      /\ \A i \in 0..n : balance[n] - balance[i] = Moved(entries, {list[j] : j \in i + 1..n})
  BY <1>0, <1>1, BalanceAddsUp
<1>3. list \in [1..n -> entries] /\ Len(list) = n
  BY <1>0, <1>1, ListedOnce
<1>4. /\ SignedSum([y \in years |-> summaries[y].allotted], years)
            = SignedSum([e \in entries |-> e.allotted], entries)
      /\ SignedSum([y \in years |-> summaries[y].used], years)
            = SignedSum([e \in entries |-> e.used], entries)
      /\ IsFiniteSet(years) /\ years \subseteq Int
      /\ \A y \in years : summaries[y].used \in Int
  BY <1>0, SummariesAddUp
<1>5. Total(entries) = SignedSum([y \in years |-> summaries[y].allotted], years)
                         - SignedSum([y \in years |-> summaries[y].used], years)
  BY <1>2, <1>4 DEF Moved
<1>6. SignedSum([y \in years |-> SummaryCost(basis, entries, y)], years)
        = TotalCost(basis, entries)
  <2>1. \A e \in entries : EntryCost(basis, e).cents \in Int
    BY CentsTyped
  <2>2. QED
    BY <1>0, <2>1, CostsAddUp
<1>7. balance[Len(list)] - balance[Len(list) - Len(recent)]
        = Moved(entries, {recent[i] : i \in DOMAIN recent})
  <2>5. Newest(recent, list, n)
    BY <1>0, <1>2, <1>3, RecentIs
  <2>1. /\ Len(recent) \in 0..n
        /\ {recent[i] : i \in DOMAIN recent} = {list[j] : j \in n - Len(recent) + 1..n}
    BY <2>5 DEF Newest
  <2> DEFINE k == Len(recent)
  <2>2. n - k \in 0..n
    BY <1>2, <2>1
  <2>3. balance[n] - balance[n - k] = Moved(entries, {list[j] : j \in (n - k) + 1..n})
    BY <1>2, <2>2
  <2>4. QED
    BY <1>3, <2>1, <2>3
<1>8. \A y \in years : summaries[y].used > 0 /\ y \notin shown =>
        Len(spent) = spentByYearLimit /\ \A z \in shown : z > y
  BY <1>0, <1>4, SpentShown
<1>9. \A c \in DOMAIN contractRows(contracts) : RateFor(basis, c) = contractRows(contracts)[c]
  BY DEF NewCostBasis, RateFor, contractRows
<1>10. \A y \in DOMAIN duesRows(dues) : duesRows(dues)[y] = DuesFor(basis, y).projected
  BY ProjectedIs
<1>11. balance[Len(list)] - balance[Len(list) - Len(recent)] =
         SignedSum([e \in entries |-> e.allotted], {recent[i] : i \in DOMAIN recent})
           - SignedSum([e \in entries |-> e.used], {recent[i] : i \in DOMAIN recent})
  BY <1>7 DEF Moved
<1>12. QED
  BY <1>5, <1>6, <1>8, <1>9, <1>10, <1>11, Zenon
  DEF Agreed, list, balance, summaries, years, recent, spent, shown

-----------------------------------------------------------------------------
(* What a page has read.                                                   *)

\* The statements of a page run in their order.
ReadInOrder(r) ==
  \E k \in 0..6 : /\ DOMAIN saw[r] = {ViewReads[i] : i \in 1..k}
                  /\ IsFiniteSet(DOMAIN saw[r]) /\ Cardinality(DOMAIN saw[r]) = k

\* Only a page that is rendered has read anything, and unless the API or a trip
\* page wrote meanwhile the tables still are what each of its statements saw.
ReadsCurrent(r) ==
  /\ ~At(r, "render") => saw[r] = << >>
  /\ r \notin past.mixed => \A x \in DOMAIN saw[r] : saw[r][x] = db

\* Stored dues are positive, which UpsertDuesRate sees to.
PositiveDues == \A y \in DOMAIN db.dues : db.dues[y] > 0

ViewInv ==
  /\ saw = [r \in Clients |-> saw[r]]
  /\ \A r \in Clients : ReadInOrder(r) /\ ReadsCurrent(r)
  /\ PositiveDues

\* No statement is run twice.
LEMMA ReadsDistinct ==
  /\ Len(ViewReads) = 6
  /\ \A i, j \in 1..6 : ViewReads[i] = ViewReads[j] => i = j
BY DEF ViewReads

\* Nothing has been read at first.
LEMMA ViewInit ==
  ASSUME \A t \in Tables : \A y \in DOMAIN t.dues : t.dues[y] > 0, Init
  PROVE  ViewInv
<1>1. saw = [r \in Clients |-> << >>] /\ pc = [r \in Clients |-> "idle"] /\ db \in Tables
  BY DEF Init
<1>2. DOMAIN << >> = {ViewReads[i] : i \in 1..0} /\ IsFiniteSet({}) /\ Cardinality({}) = 0
  BY FS_EmptySet
<1>3. \A r \in Clients : saw[r] = << >> /\ DOMAIN saw[r] = {}
  BY <1>1
<1>4. \A r \in Clients : ReadsCurrent(r)
  BY <1>3 DEF ReadsCurrent
<1>5. {} = {ViewReads[i] : i \in 1..0} /\ 0 \in 0..6
  OBVIOUS
<1>6. \A r \in Clients : ReadInOrder(r)
  BY <1>2, <1>3, <1>5 DEF ReadInOrder
<1>7. PositiveDues
  BY <1>1 DEF PositiveDues
<1>8. QED
  BY <1>1, <1>4, <1>6, <1>7 DEF ViewInv

\* A request that is not being rendered moves on, or is to be.
LEMMA ViewAsBefore ==
  ASSUME ViewInv, UNCHANGED <<db, saw>>, past'.mixed = past.mixed,
         \A q \in Clients : pc[q] = "render" => pc'[q] = "render"
  PROVE  ViewInv'
<1>1. \A r \in Clients : ReadsCurrent(r)'
  BY DEF ViewInv, ReadsCurrent, At
<1>2. \A r \in Clients : ReadInOrder(r)'
  BY DEF ViewInv, ReadInOrder
<1>3. QED
  BY <1>1, <1>2 DEF ViewInv, PositiveDues

\* No edit makes dues that are not positive.
LEMMA PositiveKept ==
  ASSUME DataInv, PositiveDues, NEW r \in Clients, EditCosts(r) \/ EditEntries(r)
  PROVE  PositiveDues'
<1>1. DbShape /\ DbShape'
  BY EntriesWritten, CostsWritten DEF DataInv
<1>2. CASE UpsertDues(r)
  <2>1. PICK row \in DuesRows : row.rate > 0 /\ db' = [db EXCEPT !.dues = With(@, row.year, row.rate)]
    BY <1>2 DEF UpsertDues
  <2>2. db'.dues = With(db.dues, row.year, row.rate)
    BY <1>1, <2>1 DEF DbShape
  <2>3. QED
    BY <2>1, <2>2 DEF PositiveDues, With
<1>3. CASE DeleteDues(r)
  <2>1. CASE db' = db
    BY <2>1 DEF PositiveDues
  <2>2. ASSUME NEW y, db' = [db EXCEPT !.dues = Without(@, y)]
        PROVE  PositiveDues'
    <3>1. db'.dues = Without(db.dues, y)
      BY <1>1, <2>2 DEF DbShape
    <3>2. QED
      BY <3>1 DEF PositiveDues, Without
  <2>3. QED
    BY <1>3, <2>1, <2>2 DEF DeleteDues
<1>4. CASE AddContract(r) \/ UpdateContract(r) \/ DeleteContract(r)
  <2>1. db'.dues = db.dues
    BY <1>1, <1>4 DEF AddContract, UpdateContract, DeleteContract, DbShape
  <2>2. QED
    BY <2>1 DEF PositiveDues
<1>5. CASE EditEntries(r)
  <2>1. db'.dues = db.dues
    BY <1>5, EntriesWritten DEF DataInv
  <2>2. QED
    BY <2>1 DEF PositiveDues
<1>6. QED
  BY <1>2, <1>3, <1>4, <1>5 DEF EditCosts

(***************************************************************************)
(* An edit finds no other page half read: a page holds the mutex, and a    *)
(* page that the API or a trip page writes into is marked.                 *)
(***************************************************************************)
LEMMA EditsApart ==
  ASSUME PageInv, DataInv, ViewInv, NEW r \in Clients, EditCosts(r) \/ EditEntries(r)
  PROVE  ViewInv'
<1>1. Executed(r) /\ At(r, "edit") /\ PositiveDues'
  BY EntriesWritten, CostsWritten, PositiveKept DEF DataInv, ViewInv
<1>2. PICK label :
        /\ Goto(r, label) /\ label \in {"idle", "invalidate", "render"}
        /\ past'.mixed = past.mixed \cup (IF ByPage(r) THEN {} ELSE {q \in Clients : Reading(q)})
  BY <1>1 DEF Executed
<1>3. UNCHANGED <<saw, mu>>
  BY <1>1 DEF Executed
<1>4. pc'[r] = label /\ \A q \in Clients \ {r} : pc'[q] = pc[q]
  BY <1>2, MovesAlone
<1>5. PageHolds
  BY DEF PageInv
<1>6. ASSUME NEW q \in Clients
      PROVE  ReadsCurrent(q)'
  <2>1. CASE At(q, "render")
    <3>1. q # r /\ At(q, "render")'
      BY <1>1, <1>4, <2>1 DEF At
    <3>2. mu = q
      BY <1>5, <2>1 DEF PageHolds, Locked, At
    <3>3. ~ByPage(r)
      BY <1>1, <1>5, <3>1, <3>2 DEF PageHolds, Locked, At
    <3>4. q \in past'.mixed \/ DOMAIN saw[q] = {}
      BY <1>2, <2>1, <3>3 DEF Reading
    <3>5. QED
      BY <1>3, <3>1, <3>4 DEF ReadsCurrent
  <2>2. CASE ~At(q, "render")
    <3>1. saw'[q] = << >>
      BY <1>3, <2>2 DEF ViewInv, ReadsCurrent
    <3>2. DOMAIN saw'[q] = {}
      BY <3>1
    <3>3. QED
      BY <3>1, <3>2 DEF ReadsCurrent
  <2>3. QED
    BY <2>1, <2>2
<1>7. \A q \in Clients : ReadInOrder(q)'
  BY <1>3 DEF ViewInv, ReadInOrder
<1>8. QED
  BY <1>1, <1>3, <1>6, <1>7 DEF ViewInv

\* One statement more.
LEMMA ReadsOn ==
  ASSUME PageInv, ViewInv, NEW r \in Clients, ReadView(r)
  PROVE  ViewInv'
<1> DEFINE done == DOMAIN saw[r]
           read == ViewReads[Cardinality(done) + 1]
<1>1. /\ saw' = [saw EXCEPT ![r] = With(@, read, db)] /\ UNCHANGED <<db, pc, past>>
      /\ At(r, "render") /\ Cardinality(done) < Len(ViewReads)
  BY DEF ReadView
<1>2. PICK k \in 0..6 : /\ done = {ViewReads[i] : i \in 1..k}
                        /\ IsFiniteSet(done) /\ Cardinality(done) = k
  BY DEF ViewInv, ReadInOrder
<1>3. k + 1 \in 1..6 /\ k + 1 \in 0..6 /\ read = ViewReads[k + 1]
  BY <1>1, <1>2, ReadsDistinct
<1>4. /\ \A q \in Clients \ {r} : saw'[q] = saw[q]
      /\ saw'[r] = With(saw[r], read, db) /\ saw' = [q \in Clients |-> saw'[q]]
  BY <1>1 DEF ViewInv
<1>5. read \notin done
  <2>1. \A i \in 1..k : ViewReads[i] # ViewReads[k + 1]
    <3> SUFFICES ASSUME NEW i \in 1..k
                 PROVE  ViewReads[i] # ViewReads[k + 1]
      OBVIOUS
    <3>1. i \in 1..6 /\ i # k + 1
      BY <1>3
    <3>2. QED
      BY <1>3, <3>1, ReadsDistinct
  <2>2. QED
    BY <1>2, <1>3, <2>1
<1>6. done \cup {read} = {ViewReads[i] : i \in 1..k + 1}
  <2>1. 1..k + 1 = (1..k) \cup {k + 1}
    OBVIOUS
  <2>2. QED
    BY <1>2, <1>3, <2>1
<1>7. IsFiniteSet(done \cup {read}) /\ Cardinality(done \cup {read}) = k + 1
  BY <1>2, <1>5, FS_AddElement
<1>8. DOMAIN saw'[r] = done \cup {read}
  BY <1>4 DEF With
<1>9. ReadInOrder(r)'
  BY <1>3, <1>6, <1>7, <1>8 DEF ReadInOrder
<1>10. ReadsCurrent(r)'
  <2>1. r \notin past.mixed => \A x \in done : saw[r][x] = db
    BY DEF ViewInv, ReadsCurrent
  <2>2. \A x \in done \cup {read} : saw'[r][x] = IF x = read THEN db ELSE saw[r][x]
    BY <1>4 DEF With
  <2>3. At(r, "render")'
    BY <1>1 DEF At
  <2> HIDE DEF done, read
  <2>4. r \notin past'.mixed => \A x \in DOMAIN saw'[r] : saw'[r][x] = db'
    BY <1>1, <1>8, <2>1, <2>2
  <2>5. QED
    BY <2>3, <2>4 DEF ReadsCurrent
<1>11. \A q \in Clients \ {r} : ReadInOrder(q)' /\ ReadsCurrent(q)'
  BY <1>1, <1>4 DEF ViewInv, ReadInOrder, ReadsCurrent, At
<1>12. QED
  BY <1>1, <1>4, <1>9, <1>10, <1>11 DEF ViewInv, PositiveDues

\* A page that is answered forgets what it read.
LEMMA ReadsOver ==
  ASSUME PageInv, ViewInv, NEW r \in Clients, Finish(r)
  PROVE  ViewInv'
<1>1. /\ saw' = [saw EXCEPT ![r] = << >>] /\ past' = [past EXCEPT !.mixed = @ \ {r}]
      /\ Goto(r, "idle") /\ db' = db
  BY DEF Finish
<1>2. past'.mixed = past.mixed \ {r}
  BY <1>1 DEF PageInv, CacheInv, Shapes, PastShape
<1>3. pc'[r] = "idle" /\ \A q \in Clients \ {r} : pc'[q] = pc[q]
  BY <1>1, MovesAlone
<1>4. /\ \A q \in Clients \ {r} : saw'[q] = saw[q]
      /\ saw'[r] = << >> /\ saw' = [q \in Clients |-> saw'[q]]
  BY <1>1 DEF ViewInv
<1>5. \A q \in Clients \ {r} : ReadInOrder(q)' /\ ReadsCurrent(q)'
  BY <1>1, <1>2, <1>3, <1>4 DEF ViewInv, ReadInOrder, ReadsCurrent, At
<1>6. DOMAIN saw'[r] = {} /\ {} = {ViewReads[i] : i \in 1..0} /\ 0 \in 0..6
  BY <1>4
<1>7. ReadInOrder(r)' /\ ReadsCurrent(r)'
  BY <1>4, <1>6, FS_EmptySet DEF ReadInOrder, ReadsCurrent
<1>8. QED
  BY <1>1, <1>4, <1>5, <1>7 DEF ViewInv, PositiveDues

(***************************************************************************)
(* Every step keeps what pages have read the tables, or marks the page.    *)
(***************************************************************************)
LEMMA ViewNext ==
  ASSUME PageInv, DataInv, ViewInv, [Next]_vars
  PROVE  ViewInv'
<1>1. ASSUME NEW r \in Clients, NEW label, pc' = [pc EXCEPT ![r] = label], pc[r] # "render",
             UNCHANGED <<db, saw>>, past'.mixed = past.mixed
      PROVE  ViewInv'
  <2>1. \A q \in Clients : pc[q] = "render" => pc'[q] = "render"
    BY <1>1 DEF PageInv, CacheInv, Shapes, PcShape
  <2>2. QED
    BY <1>1, <2>1, ViewAsBefore
<1>2. CASE UNCHANGED <<db, saw, pc, past>>
  BY <1>2, ViewAsBefore
<1>3. ASSUME NEW r \in Clients, Send(r) \/ Lock(r) \/ RejectEdit(r) \/ Invalidate(r)
                                \/ FetchContracts(r) \/ FetchDues(r) \/ FailFetch(r)
      PROVE  ViewInv'
  <2>1. /\ pc[r] # "render" /\ UNCHANGED <<db, saw, past>>
        /\ \E label : pc' = [pc EXCEPT ![r] = label]
    BY <1>3 DEF Send, Lock, RejectEdit, Invalidate, FetchContracts, FetchDues, FailFetch, Goto, At
  <2>2. QED
    BY <1>1, <2>1
<1>4. ASSUME NEW r \in Clients, Basis(r)
      PROVE  ViewInv'
  <2>1. /\ pc[r] # "render" /\ UNCHANGED <<db, saw>>
        /\ \E label : pc' = [pc EXCEPT ![r] = label]
        /\ past' = past \/ past' = [past EXCEPT !.missed = FALSE]
    BY <1>4 DEF Basis, Goto, At
  <2>2. past'.mixed = past.mixed
    BY <2>1 DEF PageInv, CacheInv, Shapes, PastShape
  <2>3. QED
    BY <1>1, <2>1, <2>2
<1>5. ASSUME NEW r \in Clients, EditCosts(r) \/ EditEntries(r)
      PROVE  ViewInv'
  BY <1>5, EditsApart
<1>6. ASSUME NEW r \in Clients, ReadView(r) \/ Show(r) \/ FailView(r)
      PROVE  ViewInv'
  BY <1>6, ReadsOn, ReadsOver DEF Show, FailView
<1>7. QED
  BY <1>2, <1>3, <1>4, <1>5, <1>6 DEF Next, Handle, EditCosts, EditEntries, Tick, Done, vars

\* A page that has read everything, with no write in between, shows one state of
\* the tables.
LEMMA AllRead ==
  ASSUME ViewInv, NEW r \in Clients,
         Cardinality(DOMAIN saw[r]) = Len(ViewReads), r \notin past.mixed
  PROVE  /\ Saw(r, "entries") = db /\ Saw(r, "summaries") = db
         /\ Saw(r, "contracts") = db /\ Saw(r, "dues") = db
         /\ PageBasis(r) = NewCostBasis(db.contracts, db.dues)
<1>1. PICK k \in 0..6 : DOMAIN saw[r] = {ViewReads[i] : i \in 1..k} /\ Cardinality(DOMAIN saw[r]) = k
  BY DEF ViewInv, ReadInOrder
<1>2. k = 6
  <2>1. Len(ViewReads) = 6
    BY ReadsDistinct
  <2>2. QED
    BY <1>1, <2>1
<1>3. \A i \in 1..6 : ViewReads[i] \in DOMAIN saw[r]
  BY <1>1, <1>2
<1>4. /\ ViewReads[1] = "entries" /\ ViewReads[2] = "summaries" /\ ViewReads[3] = "contracts"
      /\ ViewReads[4] = "dues" /\ ViewReads[5] = "basisContracts" /\ ViewReads[6] = "basisDues"
  BY DEF ViewReads
<1>5. \A i \in 1..6 : Saw(r, ViewReads[i]) = db
  BY <1>3 DEF ViewInv, ReadsCurrent, Saw
<1>6. /\ Saw(r, ViewReads[1]) = db /\ Saw(r, ViewReads[2]) = db /\ Saw(r, ViewReads[3]) = db
      /\ Saw(r, ViewReads[4]) = db /\ Saw(r, ViewReads[5]) = db /\ Saw(r, ViewReads[6]) = db
  BY <1>5
<1>7. QED
  BY <1>4, <1>6 DEF PageBasis

\* So its parts agree.
LEMMA PagesInAgreement ==
  ASSUME DataInv, ViewInv
  PROVE  ViewAddsUp
<1>1. Agreed(db.entries, db.contracts, db.dues, NewCostBasis(db.contracts, db.dues))
  BY PageAgrees DEF DataInv, ViewInv, PositiveDues
<1>2. ASSUME NEW r \in Clients,
             Cardinality(DOMAIN saw[r]) = Len(ViewReads), r \notin past.mixed
      PROVE  /\ Saw(r, "entries") = db /\ Saw(r, "summaries") = db
             /\ Saw(r, "contracts") = db /\ Saw(r, "dues") = db
             /\ PageBasis(r) = NewCostBasis(db.contracts, db.dues)
  BY <1>2, AllRead
<1>3. QED
  BY <1>1, <1>2, ZenonT(60) DEF ViewAddsUp, Agreed

(***************************************************************************)
(* A page adds up, whatever pages were asked for or edited while it was    *)
(* made, unless the API or a trip page wrote after its first statement:    *)
(* the balance is that of the use years, their costs are those of the      *)
(* entries, the recent rows lead to the balance, the newest years with     *)
(* spending are shown, contracts have the rate they are priced with, and   *)
(* projected years are those not stored.  Stored dues are positive to      *)
(* begin with.                                                             *)
(***************************************************************************)
THEOREM PagesAddUp ==
  (\A t \in Tables : \A y \in DOMAIN t.dues : t.dues[y] > 0) => (Spec => []ViewAddsUp)
<1> SUFFICES ASSUME \A t \in Tables : \A y \in DOMAIN t.dues : t.dues[y] > 0
             PROVE  Spec => []ViewAddsUp
  OBVIOUS
<1>1. Init => ViewInv
  BY ViewInit
<1>2. PageInv /\ DataInv /\ ViewInv /\ [Next]_vars => ViewInv'
  BY ViewNext
<1>3. DataInv /\ ViewInv => ViewAddsUp
  BY PagesInAgreement
<1>4. QED
  BY <1>1, <1>2, <1>3, PageInvariant, DataInvariant, PTL DEF Spec

=============================================================================
