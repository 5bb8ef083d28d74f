-------------------------- MODULE DistributeProofs --------------------------
(***************************************************************************)
(* What the mutex of the ledger page gives the yearly distribution: the    *)
(* types hold whatever comes in; when every job but the deletion of        *)
(* contracts comes through the page, no allocation is posted twice and no  *)
(* contract is passed over.                                                *)
(***************************************************************************)
EXTENDS Distribute, AllocationProofs

\* The types, with what the steps need besides: whole records, finite tables.
TypeInv ==
  /\ contracts \subseteq Nat
  /\ posted \subseteq Allocation /\ IsFiniteSet(posted)
  /\ year \in FirstYear..LastYear
  /\ mu \in Requests \cup {Nobody}
  /\ job \in [Requests -> Jobs]
  /\ pc \in [Requests -> {"start", "walk", "check", "insert", "done", "failed"}]
  /\ run \in [Requests -> [cap : Nat, todo : SUBSET Nat, target : Nat]]
  /\ \A r \in Requests : run[r].cap <= year + 1 /\ run[r].target <= run[r].cap
  /\ found \in [Requests -> SUBSET Allocation]
  /\ \A r \in Requests : pc[r] \in {"check", "insert"} => run[r].todo # {}

-----------------------------------------------------------------------------
(* The years. *)

(***************************************************************************)
(* The contract a distribution turns to is one of those it has to go.      *)
(***************************************************************************)
LEMMA CurrentToGo ==
  ASSUME NEW r, run[r].todo \subseteq Nat, run[r].todo # {}
  PROVE  Current(r) \in run[r].todo /\ Current(r) \in Nat
<1>1. \E m \in run[r].todo : \A k \in run[r].todo : m <= k
  BY LeastNumber
<1>2. QED
  BY <1>1 DEF Current, Min

(***************************************************************************)
(* The latest year of a contract with allocations is one of their years,   *)
(* and none of them is later.                                              *)
(***************************************************************************)
LEMMA LatestIsLast ==
  ASSUME NEW rows, rows \subseteq Allocation, IsFiniteSet(rows), NEW c, Of(rows, c) # {}
  PROVE  /\ Latest(rows, c) \in Nat
         /\ HasAllocationFor(rows, c, Latest(rows, c))
         /\ \A a \in Of(rows, c) : a.useYear <= Latest(rows, c)
<1> DEFINE years == {a.useYear : a \in Of(rows, c)}
<1>1. Of(rows, c) \subseteq rows /\ IsFiniteSet(Of(rows, c))
  BY FS_Subset DEF Of
<1>2. years \subseteq Nat /\ years # {}
  BY <1>1 DEF Allocation
<1>3. IsFiniteSet(years)
  <2> DEFINE g == [a \in Of(rows, c) |-> a.useYear]
  <2>1. IsFiniteSet({g[a] : a \in Of(rows, c)})
    BY <1>1, ImageFinite
  <2>2. years = {g[a] : a \in Of(rows, c)}
    OBVIOUS
  <2>3. QED
    BY <2>1, <2>2
<1>4. \E m \in years : \A k \in years : m >= k
  <2> HIDE DEF years
  <2> QED BY <1>2, <1>3, LargestNumber
<1>5. Latest(rows, c) \in years /\ \A k \in years : Latest(rows, c) >= k
  BY <1>4 DEF Latest, Max
<1>6. PICK a \in Of(rows, c) : a.useYear = Latest(rows, c)
  BY <1>5
<1>7. \A b \in Of(rows, c) : b.useYear \in years /\ b.useYear \in Nat
  BY <1>2
<1>8. QED
  BY <1>2, <1>5, <1>6, <1>7 DEF HasAllocationFor

-----------------------------------------------------------------------------
(* Types. *)

(***************************************************************************)
(* They hold of the databases a ledger starts from.                        *)
(***************************************************************************)
LEMMA TypeInit == Init => TypeInv
<1> SUFFICES ASSUME Init PROVE TypeInv
  OBVIOUS
<1>1. PICK d \in Databases : contracts = d.contracts /\ posted = d.posted
  BY DEF Init
<1>2. contracts \subseteq Nat /\ posted \subseteq Allocation /\ IsFiniteSet(posted)
  BY <1>1, DatabasesAssumption
<1>3. year \in FirstYear..LastYear /\ 0 <= year + 1
  BY CalendarAssumption DEF Init
<1>4. NoRun \in [cap : Nat, todo : SUBSET Nat, target : Nat]
  BY DEF NoRun
<1>5. /\ run = [r \in Requests |-> NoRun]
      /\ pc = [r \in Requests |-> "start"]
      /\ found = [r \in Requests |-> {}]
      /\ job \in [Requests -> Jobs] /\ mu = Nobody
  BY DEF Init
<1>6. \A r \in Requests : run[r].cap <= year + 1 /\ run[r].target <= run[r].cap
  BY <1>3, <1>5 DEF NoRun
<1>7. run \in [Requests -> [cap : Nat, todo : SUBSET Nat, target : Nat]]
  BY <1>4, <1>5
<1>8. QED
  BY <1>2, <1>3, <1>5, <1>6, <1>7 DEF TypeInv

(***************************************************************************)
(* Leaving a handler keeps the types of what it writes.                    *)
(***************************************************************************)
LEMMA TypeLeave ==
  ASSUME TypeInv, NEW r \in Requests, NEW answer \in {"done", "failed"}, Leave(r, answer),
         UNCHANGED <<contracts, year, job, found>>,
         posted' \subseteq Allocation, IsFiniteSet(posted')
  PROVE  TypeInv'
<1>1. /\ mu' \in Requests \cup {Nobody}
      /\ pc' \in [Requests -> {"start", "walk", "check", "insert", "done", "failed"}]
      /\ pc' = [pc EXCEPT ![r] = answer]
      /\ run' = [run EXCEPT ![r] = NoRun]
  BY DEF Leave, TypeInv
<1>2. run' \in [Requests -> [cap : Nat, todo : SUBSET Nat, target : Nat]]
  BY <1>1 DEF NoRun, TypeInv
<1>3. year \in Nat
  BY CalendarAssumption DEF TypeInv
<1>4. \A q \in Requests : run'[q].cap <= year' + 1 /\ run'[q].target <= run'[q].cap
  BY <1>1, <1>3 DEF NoRun, TypeInv
<1>5. \A q \in Requests : pc'[q] \in {"check", "insert"} => run'[q].todo # {}
  BY <1>1 DEF TypeInv
<1>6. QED
  BY <1>1, <1>2, <1>4, <1>5 DEF TypeInv

(***************************************************************************)
(* Going on to the next contract keeps them too.                           *)
(***************************************************************************)
LEMMA TypeSkip ==
  ASSUME TypeInv, NEW r \in Requests, Skip(r),
         UNCHANGED <<contracts, year, mu, job, found>>,
         posted' \subseteq Allocation, IsFiniteSet(posted')
  PROVE  TypeInv'
<1>1. run' = [run EXCEPT ![r] = [run[r] EXCEPT !.todo = @ \ {Current(r)}, !.target = 0]]
  BY DEF Skip, TypeInv
<1>2. run' \in [Requests -> [cap : Nat, todo : SUBSET Nat, target : Nat]]
  BY <1>1 DEF TypeInv
<1>3. year \in Nat
  BY CalendarAssumption DEF TypeInv
<1>4. \A q \in Requests : run[q].cap \in Nat /\ run'[q].cap = run[q].cap
                          /\ run'[q].target \in {0, run[q].target}
  BY <1>1 DEF TypeInv
<1>5. \A q \in Requests : run'[q].cap <= year' + 1 /\ run'[q].target <= run'[q].cap
  BY <1>3, <1>4 DEF TypeInv
<1>6. pc' = [pc EXCEPT ![r] = "walk"]
  BY DEF Skip
<1>7. \A q \in Requests : pc'[q] \in {"check", "insert"} => run'[q].todo # {}
  BY <1>1, <1>6 DEF TypeInv
<1>8. QED
  BY <1>2, <1>5, <1>6, <1>7 DEF TypeInv

(***************************************************************************)
(* A step of a distribution keeps the types.                               *)
(***************************************************************************)
LEMMA TypeWalk ==
  ASSUME TypeInv, NEW r \in Requests,
         \/ Begin(r) \/ LatestAllocationYear(r) \/ CountAllocationFor(r)
         \/ AddAllocation(r) \/ Finish(r) \/ Fail(r)
  PROVE  TypeInv'
<1>1. year \in Nat /\ posted \subseteq Allocation /\ IsFiniteSet(posted)
  BY CalendarAssumption DEF TypeInv
<1>2. CASE Begin(r)
  <2>1. run' = [run EXCEPT ![r] = [cap |-> year + 1, todo |-> contracts, target |-> 0]]
    BY <1>2 DEF Begin
  <2>2. run' \in [Requests -> [cap : Nat, todo : SUBSET Nat, target : Nat]]
    BY <1>1, <2>1 DEF TypeInv
  <2>3. \A q \in Requests : run'[q].cap <= year' + 1 /\ run'[q].target <= run'[q].cap
    BY <1>1, <1>2, <2>1 DEF Begin, TypeInv
  <2>4. pc' = [pc EXCEPT ![r] = "walk"] /\ found' = [found EXCEPT ![r] = posted]
    BY <1>2 DEF Begin
  <2>5. \A q \in Requests : pc'[q] \in {"check", "insert"} => run'[q].todo # {}
    BY <2>1, <2>4 DEF TypeInv
  <2>6. mu' \in Requests \cup {Nobody}
    BY <1>2 DEF Begin, Enter, TypeInv
  <2>7. QED
    BY <1>2, <2>2, <2>3, <2>4, <2>5, <2>6 DEF Begin, TypeInv
<1>3. CASE LatestAllocationYear(r)
  <2>1. CASE Skip(r)
    BY <1>1, <1>3, <2>1, TypeSkip DEF LatestAllocationYear
  <2>2. CASE ~Skip(r)
    <3> DEFINE t == Latest(posted, Current(r)) + 1
    <3>1. /\ Of(posted, Current(r)) # {} /\ Due(r)
          /\ run' = [run EXCEPT ![r].target = t]
          /\ pc' = [pc EXCEPT ![r] = "check"]
          /\ run[r].todo # {}
      BY <1>3, <2>2 DEF LatestAllocationYear
    <3>2. t \in Nat /\ t <= run[r].cap
      BY <1>1, <3>1, LatestIsLast DEF Due
    <3> HIDE DEF t
    <3>3. run' \in [Requests -> [cap : Nat, todo : SUBSET Nat, target : Nat]]
      BY <3>1, <3>2 DEF TypeInv
    <3>4. \A q \in Requests : /\ run'[q].cap = run[q].cap /\ run'[q].todo = run[q].todo
                              /\ run'[q].target = IF q = r THEN t ELSE run[q].target
      BY <3>1 DEF TypeInv
    <3>5. \A q \in Requests : run'[q].cap <= year' + 1 /\ run'[q].target <= run'[q].cap
      BY <1>3, <3>2, <3>4 DEF LatestAllocationYear, TypeInv
    <3>6. \A q \in Requests : pc'[q] \in {"check", "insert"} => run'[q].todo # {}
      BY <3>1, <3>4 DEF TypeInv
    <3>7. QED
      BY <1>3, <3>1, <3>3, <3>5, <3>6 DEF LatestAllocationYear, TypeInv
  <2>3. QED
    BY <2>1, <2>2
<1>4. CASE CountAllocationFor(r)
  <2>1. CASE Skip(r)
    BY <1>1, <1>4, <2>1, TypeSkip DEF CountAllocationFor
  <2>2. CASE pc' = [pc EXCEPT ![r] = "insert"] /\ UNCHANGED run
    BY <1>4, <2>2 DEF CountAllocationFor, TypeInv
  <2>3. QED
    BY <1>4, <2>1, <2>2 DEF CountAllocationFor
<1>5. CASE AddAllocation(r)
  <2>1. CASE Current(r) \in contracts
    <3> DEFINE new == [id |-> <<r, Current(r)>>, contract |-> Current(r),
                       useYear |-> run[r].target]
    <3>1. posted' = posted \cup {new} /\ Skip(r) /\ mu' = mu
      BY <1>5, <2>1 DEF AddAllocation
    <3>2. new \in Allocation
      BY <2>1 DEF Allocation, TypeInv
    <3>3. posted' \subseteq Allocation /\ IsFiniteSet(posted')
      BY <1>1, <3>1, <3>2, FS_AddElement
    <3>4. QED
      BY <1>5, <3>1, <3>3, TypeSkip DEF AddAllocation
  <2>2. CASE Current(r) \notin contracts
    BY <1>1, <1>5, <2>2, TypeLeave DEF AddAllocation
  <2>3. QED
    BY <2>1, <2>2
<1>6. CASE Finish(r) \/ Fail(r)
  BY <1>1, <1>6, TypeLeave DEF Finish, Fail
<1>7. QED
  BY <1>2, <1>3, <1>4, <1>5, <1>6

(***************************************************************************)
(* So does an edit of the tables from outside a distribution.              *)
(***************************************************************************)
LEMMA TypeEdit ==
  ASSUME TypeInv, NEW r \in Requests,
         AddEntry(r) \/ UpdateEntry(r) \/ DeleteEntry(r) \/ DeleteContract(r)
  PROVE  TypeInv'
<1>1. /\ posted \subseteq Allocation /\ IsFiniteSet(posted) /\ contracts \subseteq Nat
      /\ TypedYears \subseteq Nat
  BY CalendarAssumption DEF TypeInv
<1>2. contracts' \subseteq contracts
  BY DEF AddEntry, UpdateEntry, DeleteEntry, DeleteContract
<1>3. posted' \subseteq Allocation /\ IsFiniteSet(posted')
  <2>1. CASE AddEntry(r)
    <3>1. CASE UNCHANGED posted
      BY <1>1, <3>1
    <3>2. CASE \E c \in contracts, y \in TypedYears :
                 posted' = posted \cup {[id |-> <<r, 0>>, contract |-> c, useYear |-> y]}
      <4>1. PICK c \in contracts, y \in TypedYears :
                   posted' = posted \cup {[id |-> <<r, 0>>, contract |-> c, useYear |-> y]}
        BY <3>2
      <4>2. [id |-> <<r, 0>>, contract |-> c, useYear |-> y] \in Allocation
        BY <1>1 DEF Allocation
      <4>3. QED
        BY <1>1, <4>1, <4>2, FS_AddElement
    <3>3. QED
      BY <2>1, <3>1, <3>2 DEF AddEntry
  <2>2. CASE UpdateEntry(r)
    <3>1. CASE UNCHANGED posted
      BY <1>1, <3>1
    <3>2. CASE \E a \in posted, c \in contracts, y \in TypedYears :
                 posted' = (posted \ {a}) \cup {[a EXCEPT !.contract = c, !.useYear = y]}
      <4>1. PICK a \in posted, c \in contracts, y \in TypedYears :
                   posted' = (posted \ {a}) \cup {[a EXCEPT !.contract = c, !.useYear = y]}
        BY <3>2
      <4>2. [a EXCEPT !.contract = c, !.useYear = y] \in Allocation
        BY <1>1 DEF Allocation
      <4>3. IsFiniteSet(posted \ {a})
        BY <1>1, FS_Subset
      <4>4. QED
        BY <1>1, <4>1, <4>2, <4>3, FS_AddElement
    <3>3. QED
      BY <2>2, <3>1, <3>2 DEF UpdateEntry
  <2>3. CASE DeleteEntry(r) \/ DeleteContract(r)
    <3>1. posted' \subseteq posted
      BY <2>3 DEF DeleteEntry, DeleteContract
    <3>2. QED
      BY <1>1, <3>1, FS_Subset
  <2>4. QED
    BY <2>1, <2>2, <2>3
<1>4. pc' = [pc EXCEPT ![r] = "done"] /\ UNCHANGED <<year, mu, job, run, found>>
  BY DEF AddEntry, UpdateEntry, DeleteEntry, DeleteContract, Edit
<1>5. \A q \in Requests : pc'[q] \in {"check", "insert"} => run'[q].todo # {}
  BY <1>4 DEF TypeInv
<1>6. QED
  BY <1>1, <1>2, <1>3, <1>4, <1>5 DEF TypeInv

(***************************************************************************)
(* Every step keeps the types.                                             *)
(***************************************************************************)
LEMMA TypeNext == TypeInv /\ [Next]_vars => TypeInv'
<1> SUFFICES ASSUME TypeInv, [Next]_vars PROVE TypeInv'
  OBVIOUS
<1>1. CASE NewYear
  <2>1. year \in Nat /\ year' = year + 1 /\ LastYear \in Nat /\ FirstYear \in Nat
        /\ year' \in FirstYear..LastYear
    BY <1>1, CalendarAssumption DEF NewYear, TypeInv
  <2>2. \A q \in Requests : run[q].cap \in Nat
    BY DEF TypeInv
  <2>3. \A q \in Requests : run'[q].cap <= year' + 1
    BY <1>1, <2>1, <2>2 DEF NewYear, TypeInv
  <2>4. QED
    BY <1>1, <2>1, <2>3 DEF NewYear, TypeInv
<1>2. CASE UNCHANGED vars
  BY <1>2 DEF vars, TypeInv
<1>3. ASSUME NEW r \in Requests, Step(r) \/ Fail(r)
      PROVE  TypeInv'
  BY <1>3, TypeWalk, TypeEdit DEF Step
<1>4. QED
  BY <1>1, <1>2, <1>3 DEF Next, Idle

(***************************************************************************)
(* Whatever the jobs and the doors they come through, the tables hold what *)
(* they are meant to hold, no distribution looks beyond the coming year,   *)
(* and none is on its way to a year beyond its own cap.                    *)
(***************************************************************************)
THEOREM DistributeTypes == Spec => []TypeOK
<1>1. TypeInv => TypeOK
  <2> SUFFICES ASSUME TypeInv PROVE TypeOK
    OBVIOUS
  <2>1. ASSUME NEW r \in Requests
        PROVE  /\ run[r].cap \in 0..year + 1
               /\ run[r].todo \subseteq Nat
               /\ run[r].target \in 0..run[r].cap
               /\ found[r] \subseteq Allocation
    <3>1. year \in Nat
      BY CalendarAssumption DEF TypeInv
    <3>2. run[r] \in [cap : Nat, todo : SUBSET Nat, target : Nat]
      BY DEF TypeInv
    <3>3. QED
      BY <3>1, <3>2 DEF TypeInv
  <2>2. QED
    BY <2>1 DEF TypeInv, TypeOK
<1>2. QED
  BY TypeInit, TypeNext, <1>1, PTL DEF Spec

-----------------------------------------------------------------------------
(* Nothing is posted twice, and no contract is passed over.                *)
(*                                                                         *)
(* The mutex is held by whoever walks, and by nobody else.  While it is    *)
(* held, no other request touches the allocations of a contract, so what   *)
(* there is for a contract still to go is what was found, and a contract   *)
(* that was passed has the year it was to be advanced to.  Deleting a      *)
(* contract, from any door, takes the contract away with its allocations.  *)

\* Every job but the deletion of a contract comes through the page.
PageOnly == \A j \in Jobs : j.op # "deleteContract" => j.via = "page"

Walking(r) == pc[r] \in {"walk", "check", "insert"}

Holds(r) == Walking(r) <=> mu = r

Advanced(r, c) ==
  Of(found[r], c) # {} => HasAllocationFor(posted, c, NextYearOf(found[r], c, run[r].cap))

\* Contracts passed, and contracts still to go.
Progress(r) ==
  Walking(r) =>
    /\ \A c \in contracts \ run[r].todo : Advanced(r, c)
    /\ \A c \in contracts \cap run[r].todo : Of(posted, c) = Of(found[r], c)

\* The year to be posted, once it is chosen.
Chosen(r) ==
  pc[r] \in {"check", "insert"} =>
    /\ \A a \in Of(posted, Current(r)) : a.useYear < run[r].target
    /\ Current(r) \in contracts =>
         /\ Of(found[r], Current(r)) # {}
         /\ run[r].target = NextYearOf(found[r], Current(r), run[r].cap)

WalkInv == \A r \in Requests : Holds(r) /\ Progress(r) /\ Chosen(r)

(***************************************************************************)
(* Nobody walks at first.                                                  *)
(***************************************************************************)
LEMMA WalkInit == Init => WalkInv
  BY CalendarAssumption DEF Init, WalkInv, Holds, Progress, Chosen, Walking

(***************************************************************************)
(* The mutex stays with the one that walks.                                *)
(***************************************************************************)
LEMMA HoldsStep ==
  ASSUME PageOnly, TypeInv, WalkInv, NEW r \in Requests, Step(r) \/ Fail(r)
  PROVE  /\ \A q \in Requests : Holds(q)'
         /\ \A q \in Requests \ {r} : pc'[q] = pc[q] /\ run'[q] = run[q] /\ found'[q] = found[q]
<1>1. /\ \A q \in Requests : Walking(q) <=> mu = q
      /\ job[r] \in Jobs /\ Nobody \notin Requests
  BY CalendarAssumption DEF WalkInv, Holds, TypeInv
<1>2. CASE Begin(r)
  <2>1. mu = Nobody /\ mu' = r
    BY <1>1, <1>2 DEF Begin, MayEnter, Enter, PageOnly
  <2>2. pc' = [pc EXCEPT ![r] = "walk"]
    BY <1>2 DEF Begin
  <2>3. QED
    BY <1>1, <1>2, <2>1, <2>2 DEF Begin, Holds, Walking, TypeInv
<1>3. CASE pc[r] \in {"walk", "check", "insert"} /\ pc'[r] \in {"walk", "check", "insert"}
  <2>1. /\ mu' = mu /\ \E w \in {"walk", "check", "insert"} : pc' = [pc EXCEPT ![r] = w]
        /\ found' = found /\ \A q \in Requests \ {r} : run'[q] = run[q]
    BY <1>3 DEF Step, Begin, LatestAllocationYear, CountAllocationFor, AddAllocation, Finish,
                AddEntry, UpdateEntry, DeleteEntry, DeleteContract, Edit, Fail, Skip, Leave,
                TypeInv
  <2>2. QED
    BY <1>1, <1>3, <2>1 DEF Holds, Walking, TypeInv
<1>4. CASE pc[r] \in {"walk", "check", "insert"} /\ pc'[r] \notin {"walk", "check", "insert"}
  <2>1. \E answer \in {"done", "failed"} : Leave(r, answer)
    BY <1>4 DEF Step, Begin, LatestAllocationYear, CountAllocationFor, AddAllocation, Finish,
                AddEntry, UpdateEntry, DeleteEntry, DeleteContract, Edit, Fail, Skip, TypeInv
  <2>2. mu = r /\ mu' = Nobody /\ \E answer \in {"done", "failed"} : pc' = [pc EXCEPT ![r] = answer]
    BY <1>1, <1>4, <2>1 DEF Leave, Walking
  <2>3. found' = found /\ \A q \in Requests \ {r} : run'[q] = run[q]
    BY <1>4, <2>1 DEF Step, Begin, LatestAllocationYear, CountAllocationFor, AddAllocation,
                Finish, AddEntry, UpdateEntry, DeleteEntry, DeleteContract, Edit, Fail, Leave,
                TypeInv
  <2>4. QED
    BY <1>1, <2>2, <2>3 DEF Holds, Walking, TypeInv
<1>5. CASE AddEntry(r) \/ UpdateEntry(r) \/ DeleteEntry(r) \/ DeleteContract(r)
  <2>1. pc[r] = "start" /\ pc' = [pc EXCEPT ![r] = "done"] /\ UNCHANGED <<mu, run, found>>
    BY <1>5 DEF AddEntry, UpdateEntry, DeleteEntry, DeleteContract, Edit
  <2>2. QED
    BY <1>1, <2>1 DEF Holds, Walking, TypeInv
<1>6. pc[r] \in {"walk", "check", "insert"} \/ Begin(r)
      \/ AddEntry(r) \/ UpdateEntry(r) \/ DeleteEntry(r) \/ DeleteContract(r)
  BY DEF Step, Fail, LatestAllocationYear, CountAllocationFor, AddAllocation, Finish
<1>7. QED
  BY <1>2, <1>3, <1>4, <1>5, <1>6

(***************************************************************************)
(* A distribution that skips a contract has it advanced, if there is       *)
(* nothing more for it to get, and leaves the others as they were.         *)
(***************************************************************************)
LEMMA SkipAdvances ==
  ASSUME TypeInv, NEW r \in Requests, Progress(r), Walking(r), run[r].todo # {}, Skip(r),
         UNCHANGED <<contracts, found>>, posted \subseteq posted',
         NEW this, this = Current(r), this \in contracts => Advanced(r, this)',
         \A c \in contracts \ {this} : Of(posted', c) = Of(posted, c)
  PROVE  Progress(r)' /\ Chosen(r)'
<1>1. run' = [run EXCEPT ![r] = [run[r] EXCEPT !.todo = @ \ {Current(r)}, !.target = 0]]
      /\ pc' = [pc EXCEPT ![r] = "walk"]
  BY DEF Skip, TypeInv
<1>2. run'[r].todo = run[r].todo \ {Current(r)} /\ run'[r].cap = run[r].cap
      /\ pc'[r] = "walk"
  BY <1>1 DEF TypeInv
<1>3. ASSUME NEW c \in contracts' \ run'[r].todo
      PROVE  Advanced(r, c)'
  <2>1. CASE c = this
    BY <1>3, <2>1
  <2>2. CASE c # this
    <3>1. Advanced(r, c)
      BY <1>2, <1>3, <2>2 DEF Progress
    <3>2. Of(posted, c) \subseteq Of(posted', c)
      BY DEF Of
    <3>3. QED
      BY <1>2, <3>1, <3>2 DEF Advanced, HasAllocationFor
  <2>3. QED
    BY <2>1, <2>2
<1>4. ASSUME NEW c \in contracts' \cap run'[r].todo
      PROVE  Of(posted', c) = Of(found'[r], c)
  BY <1>2, <1>4 DEF Progress
<1>5. QED
  BY <1>2, <1>3, <1>4 DEF Progress, Chosen

(***************************************************************************)
(* A step of a distribution keeps its own progress.                        *)
(***************************************************************************)
LEMMA OwnProgress ==
  ASSUME TypeInv, NEW r \in Requests, Progress(r), Chosen(r),
         \/ Begin(r) \/ LatestAllocationYear(r) \/ CountAllocationFor(r)
         \/ AddAllocation(r) \/ Finish(r) \/ Fail(r)
  PROVE  Progress(r)' /\ Chosen(r)'
<1>0. PICK this : this = Current(r)
  OBVIOUS
<1> DEFINE next == Latest(posted, this) + 1
<1>1. /\ posted \subseteq Allocation /\ IsFiniteSet(posted)
      /\ run[r] \in [cap : Nat, todo : SUBSET Nat, target : Nat]
      /\ pc[r] \in {"check", "insert"} => run[r].todo # {}
  BY DEF TypeInv
<1>2. run[r].todo # {} => this \in run[r].todo /\ this \in Nat
  BY <1>0, <1>1, CurrentToGo
<1>3. Of(posted, this) # {} =>
        /\ Latest(posted, this) \in Nat
        /\ HasAllocationFor(posted, this, Latest(posted, this))
        /\ \A a \in Of(posted, this) : a.useYear <= Latest(posted, this)
  BY <1>1, LatestIsLast
<1>4. this \in contracts /\ Walking(r) /\ run[r].todo # {} =>
        Of(posted, this) = Of(found[r], this)
  BY <1>2 DEF Progress
<1>5. CASE Begin(r)
  <2>1. /\ run'[r].todo = contracts' /\ found'[r] = posted' /\ pc'[r] = "walk"
    BY <1>5 DEF Begin, TypeInv
  <2>2. QED
    BY <2>1 DEF Progress, Chosen
<1>6. CASE LatestAllocationYear(r)
  <2>1. /\ pc[r] = "walk" /\ run[r].todo # {} /\ Walking(r)
        /\ UNCHANGED <<contracts, posted, year, mu, job, found>>
    BY <1>6 DEF LatestAllocationYear, Walking
  <2>2. CASE Of(posted, this) # {} /\ Due(r)
    <3>1. run' = [run EXCEPT ![r] = [run[r] EXCEPT !.target = next]]
          /\ pc' = [pc EXCEPT ![r] = "check"]
      BY <1>0, <1>6, <2>2 DEF LatestAllocationYear, TypeInv
    <3>2. /\ run'[r].todo = run[r].todo /\ run'[r].cap = run[r].cap /\ run'[r].target = next
          /\ pc'[r] = "check" /\ Current(r)' = this
      BY <1>0, <3>1 DEF TypeInv, Current
    <3>3. Progress(r)'
      BY <2>1, <3>2 DEF Progress, Advanced, Walking
    <3>4. \A a \in Of(posted, this) : a.useYear < next
      <4>1. \A a \in Of(posted, this) : a.useYear \in Nat
        BY <1>1 DEF Of, Allocation
      <4>2. QED
        BY <1>3, <2>2, <4>1
    <3>5. this \in contracts => Of(found[r], this) # {} /\ next = NextYearOf(found[r], this, run[r].cap)
      <4>1. Latest(posted, this) + 1 <= run[r].cap
        BY <1>0, <2>2 DEF Due
      <4>2. SUFFICES ASSUME this \in contracts
                     PROVE  Latest(found[r], this) = Latest(posted, this)
        BY <1>1, <1>3, <1>4, <2>1, <2>2, <4>1 DEF NextYearOf
      <4>3. QED
        BY <1>4, <2>1, <4>2 DEF Latest
    <3>6. QED
      BY <2>1, <3>2, <3>3, <3>4, <3>5 DEF Chosen
  <2>3. CASE ~(Of(posted, this) # {} /\ Due(r))
    <3>1. Skip(r)
      BY <1>0, <1>6, <2>3 DEF LatestAllocationYear
    <3>2. ASSUME this \in contracts, Of(found[r], this) # {}
          PROVE  HasAllocationFor(posted, this, NextYearOf(found[r], this, run[r].cap))
      <4>1. Of(posted, this) = Of(found[r], this)
        BY <1>4, <2>1, <3>2
      <4>2. Latest(posted, this) = Latest(found[r], this)
        BY <4>1 DEF Latest
      <4>3. ~(Latest(posted, this) + 1 <= run[r].cap)
        BY <1>0, <2>3, <3>2, <4>1 DEF Due
      <4>4. NextYearOf(found[r], this, run[r].cap) = Latest(posted, this)
        BY <1>1, <1>3, <3>2, <4>1, <4>2, <4>3 DEF NextYearOf
      <4>5. QED
        BY <1>3, <3>2, <4>1, <4>4
    <3>3. this \in contracts => Advanced(r, this)'
      <4>1. run'[r].cap = run[r].cap
        BY <3>1 DEF Skip, TypeInv
      <4>2. QED
        BY <2>1, <3>2, <4>1 DEF Advanced
    <3>4. QED
      BY <1>0, <2>1, <3>1, <3>3, SkipAdvances
  <2>4. QED
    BY <2>2, <2>3
<1>7. CASE CountAllocationFor(r)
  <2>1. /\ pc[r] = "check" /\ run[r].todo # {} /\ Walking(r)
        /\ UNCHANGED <<contracts, posted, year, mu, job, found>>
    BY <1>1, <1>7 DEF CountAllocationFor, Walking
  <2>2. CASE pc' = [pc EXCEPT ![r] = "insert"] /\ UNCHANGED run
    BY <2>1, <2>2 DEF Progress, Chosen, Advanced, Current, Walking, TypeInv
  <2>3. CASE HasAllocationFor(posted, this, run[r].target) /\ Skip(r)
    <3>1. this \in contracts => Advanced(r, this)'
      <4>1. run'[r].cap = run[r].cap
        BY <2>3 DEF Skip, TypeInv
      <4>2. QED
        BY <1>0, <2>1, <2>3, <4>1 DEF Advanced, Chosen
    <3>2. QED
      BY <1>0, <2>1, <2>3, <3>1, SkipAdvances
  <2>4. QED
    BY <1>0, <1>7, <2>2, <2>3 DEF CountAllocationFor
<1>8. CASE AddAllocation(r)
  <2>1. /\ pc[r] = "insert" /\ run[r].todo # {} /\ Walking(r)
        /\ UNCHANGED <<contracts, found>>
    BY <1>1, <1>8 DEF AddAllocation, Walking
  <2>2. CASE this \in contracts
    <3> DEFINE new == [id |-> <<r, this>>, contract |-> this, useYear |-> run[r].target]
    <3>1. posted' = posted \cup {new} /\ Skip(r)
      BY <1>0, <1>8, <2>2 DEF AddAllocation
    <3>2. \A c \in contracts \ {this} : Of(posted', c) = Of(posted, c)
      BY <3>1 DEF Of
    <3>3. Advanced(r, this)'
      <4>1. run'[r].cap = run[r].cap
        BY <3>1 DEF Skip, TypeInv
      <4>2. new \in posted' /\ new.contract = this /\ new.useYear = run[r].target
        BY <3>1
      <4>3. HasAllocationFor(posted', this, run[r].target)
        BY <4>2 DEF HasAllocationFor, Of
      <4>4. run[r].target = NextYearOf(found[r], this, run[r].cap)
        BY <1>0, <2>1, <2>2 DEF Chosen
      <4>5. QED
        BY <2>1, <4>1, <4>3, <4>4 DEF Advanced
    <3>4. QED
      BY <1>0, <2>1, <3>1, <3>2, <3>3, SkipAdvances
  <2>3. CASE this \notin contracts
    BY <1>0, <1>8, <2>3 DEF AddAllocation, Leave, Progress, Chosen, Walking, TypeInv
  <2>4. QED
    BY <2>2, <2>3
<1>9. CASE Finish(r) \/ Fail(r)
  <2>1. pc'[r] \in {"done", "failed"}
    BY <1>9 DEF Finish, Fail, Leave, TypeInv
  <2>2. QED
    BY <2>1 DEF Progress, Chosen, Walking
<1>10. QED
  BY <1>5, <1>6, <1>7, <1>8, <1>9

(***************************************************************************)
(* Deleting a contract leaves a distribution's progress with the others.   *)
(***************************************************************************)
LEMMA ProgressSurvives ==
  ASSUME TypeInv, NEW q \in Requests, Progress(q), Chosen(q),
         UNCHANGED <<pc[q], run[q], found[q]>>,
         \/ UNCHANGED <<contracts, posted>>
         \/ \E c \in contracts : /\ contracts' = contracts \ {c}
                                 /\ posted' = posted \ Of(posted, c)
  PROVE  Progress(q)' /\ Chosen(q)'
<1>1. contracts' \subseteq contracts /\ posted' \subseteq posted
  OBVIOUS
<1>2. \A c \in contracts' : Of(posted', c) = Of(posted, c)
  BY DEF Of
<1>3. Walking(q)' = Walking(q) /\ Current(q)' = Current(q)
  BY DEF Walking, Current
<1>4. \A c \in contracts' : Advanced(q, c)' = Advanced(q, c)
  BY <1>2 DEF Advanced, HasAllocationFor
<1>5. Progress(q)'
  BY <1>1, <1>2, <1>3, <1>4 DEF Progress
<1>6. Of(posted', Current(q)) \subseteq Of(posted, Current(q))
  BY <1>1 DEF Of
<1>7. QED
  BY <1>1, <1>3, <1>5, <1>6 DEF Chosen

(***************************************************************************)
(* Every step keeps the progress of every distribution.                    *)
(***************************************************************************)
LEMMA WalkNext == PageOnly /\ TypeInv /\ WalkInv /\ [Next]_vars => WalkInv'
<1> SUFFICES ASSUME PageOnly, TypeInv, WalkInv, [Next]_vars PROVE WalkInv'
  OBVIOUS
<1>1. CASE NewYear \/ UNCHANGED vars
  <2>1. UNCHANGED <<contracts, posted, mu, pc, run, found>>
    BY <1>1 DEF NewYear, vars
  <2>2. QED
    BY <2>1 DEF WalkInv, Holds, Progress, Chosen, Advanced, Walking, Current
<1>2. ASSUME NEW r \in Requests, Step(r) \/ Fail(r)
      PROVE  WalkInv'
  <2>1. /\ \A q \in Requests : Holds(q)'
        /\ \A q \in Requests \ {r} : pc'[q] = pc[q] /\ run'[q] = run[q] /\ found'[q] = found[q]
    BY <1>2, HoldsStep
  <2>2. ASSUME NEW q \in Requests, ~Walking(q)'
        PROVE  Progress(q)' /\ Chosen(q)'
    BY <2>2 DEF Progress, Chosen, Walking
  <2>3. CASE DeleteContract(r)
    <3>1. ASSUME NEW q \in Requests \ {r}
          PROVE  Progress(q)' /\ Chosen(q)'
      BY <2>1, <2>3, <3>1, ProgressSurvives DEF DeleteContract, WalkInv
    <3>2. ~Walking(r)'
      BY <2>3 DEF DeleteContract, Edit, Walking, TypeInv
    <3>3. QED
      BY <2>1, <2>2, <3>1, <3>2 DEF WalkInv
  <2>4. CASE ~DeleteContract(r)
    <3>1. \A q \in Requests \ {r} : ~Walking(q)
      <4>1. mu \in {r, Nobody}
        <5>1. CASE Walking(r)
          BY <5>1 DEF WalkInv, Holds
        <5>2. CASE ~Walking(r)
          BY <1>2, <2>4, <5>2 DEF Step, Begin, AddEntry, UpdateEntry, DeleteEntry, Edit, MayEnter,
                 LatestAllocationYear, CountAllocationFor, AddAllocation, Finish, Fail,
                 Walking, PageOnly, TypeInv
        <5>3. QED
          BY <5>1, <5>2
      <4>2. QED
        BY <4>1, CalendarAssumption DEF WalkInv, Holds
    <3>2. \A q \in Requests \ {r} : ~Walking(q)'
      BY <2>1, <3>1 DEF Walking
    <3>3. Progress(r)' /\ Chosen(r)'
      <4>1. CASE AddEntry(r) \/ UpdateEntry(r) \/ DeleteEntry(r)
        <5>1. ~Walking(r)'
          BY <4>1 DEF AddEntry, UpdateEntry, DeleteEntry, Edit, Walking, TypeInv
        <5>2. QED
          BY <2>2, <5>1
      <4>2. QED
        BY <1>2, <2>4, <4>1, OwnProgress DEF Step, WalkInv
    <3>4. QED
      BY <2>1, <2>2, <3>2, <3>3 DEF WalkInv
  <2>5. QED
    BY <2>3, <2>4
<1>3. QED
  BY <1>1, <1>2 DEF Next, Idle

(***************************************************************************)
(* As long as every job but the deletion of a contract comes through the   *)
(* page, a distribution never posts for a contract and a year that have an *)
(* allocation, whatever the contracts, the requests and the calendar.      *)
(* (Through the JSON API it does: the run DistributeApi.)                  *)
(***************************************************************************)
THEOREM PageNeverDoublePosts == PageOnly => (Spec => NoDoublePost)
<1>1. ASSUME TypeInv, WalkInv, [Next]_vars,
             NEW a \in posted', a.id[1] \in Requests, a.id[2] # 0, \A b \in posted : b.id # a.id
      PROVE  ~HasAllocationFor(posted, a.contract, a.useYear)
  <2>1. PICK r \in Requests : AddAllocation(r) /\ posted' # posted
    <3>1. a \notin posted
      BY <1>1
    <3>2. ASSUME NEW r \in Requests, AddEntry(r)
          PROVE  FALSE
      BY <1>1, <3>1, <3>2 DEF AddEntry
    <3>3. ASSUME NEW r \in Requests, UpdateEntry(r)
          PROVE  FALSE
      <4>1. PICK b \in posted, c \in contracts, y \in TypedYears :
                   posted' = (posted \ {b}) \cup {[b EXCEPT !.contract = c, !.useYear = y]}
        BY <3>1, <3>3 DEF UpdateEntry
      <4>2. a = [b EXCEPT !.contract = c, !.useYear = y]
        BY <3>1, <4>1
      <4>3. b \in Allocation
        BY <1>1 DEF TypeInv
      <4>4. a.id = b.id
        BY <4>2, <4>3 DEF Allocation
      <4>5. QED
        BY <1>1, <4>4
    <3>4. ASSUME NEW r \in Requests, DeleteEntry(r) \/ DeleteContract(r)
          PROVE  FALSE
      BY <3>1, <3>4 DEF DeleteEntry, DeleteContract
    <3>5. QED
      BY <1>1, <3>1, <3>2, <3>3, <3>4
         DEF Next, Step, Fail, NewYear, Idle, vars, Begin, LatestAllocationYear,
             CountAllocationFor, Finish
  <2>2. a.contract = Current(r) /\ a.useYear = run[r].target
    BY <1>1, <2>1 DEF AddAllocation
  <2>3. \A b \in Of(posted, Current(r)) : b.useYear < run[r].target
    BY <1>1, <2>1 DEF WalkInv, Chosen, AddAllocation
  <2>4. \A b \in Of(posted, Current(r)) : b.useYear \in Nat
    BY <1>1 DEF TypeInv, Of, Allocation
  <2>5. run[r].target \in Nat
    BY <1>1 DEF TypeInv
  <2>6. QED
    BY <2>2, <2>3, <2>4, <2>5 DEF HasAllocationFor
<1>2. TypeInv /\ WalkInv /\ [Next]_vars =>
        [\A a \in posted' :
           a.id[1] \in Requests /\ a.id[2] # 0 /\ (\A b \in posted : b.id # a.id)
             => ~HasAllocationFor(posted, a.contract, a.useYear)]_vars
  BY <1>1
<1>3. SUFFICES ASSUME PageOnly PROVE Spec => NoDoublePost
  OBVIOUS
<1>4. TypeInv /\ WalkInv /\ [Next]_vars => WalkInv'
  BY <1>3, WalkNext
<1>5. QED
  BY TypeInit, TypeNext, WalkInit, <1>2, <1>4, PTL DEF Spec, NoDoublePost

(***************************************************************************)
(* And when it ends well, every contract that had an allocation when it    *)
(* began has the next year it was to get.                                  *)
(***************************************************************************)
THEOREM PageAdvancesEveryContract == PageOnly => (Spec => EveryContractAdvanced)
<1>1. ASSUME TypeInv, WalkInv, [Next]_vars,
             NEW r \in Requests, pc[r] = "walk", pc'[r] = "done"
      PROVE  \A c \in contracts :
               Of(found[r], c) # {} =>
                 HasAllocationFor(posted, c, NextYearOf(found[r], c, run[r].cap))
  <2>1. run[r].todo = {}
    <3>1. ASSUME NEW q \in Requests, Step(q) \/ Fail(q), ~Finish(q)
          PROVE  pc'[r] # "done"
      BY <1>1, <3>1 DEF Step, Fail, Begin, LatestAllocationYear, CountAllocationFor, AddAllocation,
             AddEntry, UpdateEntry, DeleteEntry, DeleteContract, Edit, Skip, Leave, TypeInv
    <3>2. ASSUME NEW q \in Requests, Finish(q)
          PROVE  run[r].todo = {}
      BY <1>1, <3>2 DEF Finish, Leave, TypeInv
    <3>3. QED
      BY <1>1, <3>1, <3>2 DEF Next, NewYear, Idle, vars
  <2>2. QED
    BY <1>1, <2>1 DEF WalkInv, Progress, Walking, Advanced
<1>2. TypeInv /\ WalkInv /\ [Next]_vars =>
        [\A r \in Requests :
           pc[r] = "walk" /\ pc'[r] = "done" =>
             \A c \in contracts :
               Of(found[r], c) # {} =>
                 HasAllocationFor(posted, c, NextYearOf(found[r], c, run[r].cap))]_vars
  BY <1>1
<1>3. SUFFICES ASSUME PageOnly PROVE Spec => EveryContractAdvanced
  OBVIOUS
<1>4. TypeInv /\ WalkInv /\ [Next]_vars => WalkInv'
  BY <1>3, WalkNext
<1>5. QED
  BY TypeInit, TypeNext, WalkInit, <1>2, <1>4, PTL DEF Spec, EveryContractAdvanced

=============================================================================
