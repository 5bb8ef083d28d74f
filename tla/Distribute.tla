----------------------------- MODULE Distribute -----------------------------
(***************************************************************************)
(* The yearly distribution (internal/ledger/distribute.go) as the          *)
(* statements it is made of, without a transaction around them, beside the *)
(* requests that change allocations and contracts.  The handlers of the    *)
(* ledger page (web/ledger_handlers.go) hold a mutex from beginning to     *)
(* end; those of the JSON API (web/api_handlers.go) do not.                *)
(***************************************************************************)
EXTENDS Integers, FiniteSets, FiniteSetsExt

CONSTANTS
  Requests, Jobs,    \* HTTP requests, and what they may ask for: [op, via]
  Nobody,            \* who holds a free mutex
  Clerk,             \* who entered the allocations the ledger starts with
  FirstYear, LastYear, \* bounds of the calendar
  TypedYears,        \* use years that may be typed into an entry
  Databases          \* contracts and allocations to start from

ASSUME CalendarAssumption ==
  /\ FirstYear \in Nat /\ LastYear \in Nat /\ FirstYear <= LastYear
  /\ TypedYears \subseteq Nat
  /\ Nobody \notin Requests /\ Clerk \notin Requests

\* An entry of kind allocation that names a contract.  Its id says who
\* inserted it; a request inserts at most one for each contract.
Allocation == [id : (Requests \cup {Clerk}) \X Nat, contract : Nat, useYear : Nat]

ASSUME DatabasesAssumption ==
  \A d \in Databases :
    /\ d.contracts \subseteq Nat /\ d.posted \subseteq Allocation
    /\ IsFiniteSet(d.contracts) /\ IsFiniteSet(d.posted)

VARIABLES
  contracts,  \* ids of the rows of contract
  posted,     \* the allocations in entry
  year,       \* the calendar year
  mu,         \* ledgerHandlers.mu: the request that holds it
  job, pc,    \* what each request does, and where it is or how it was answered
  run,        \* locals of each distribution: cap, contracts to go, target year
  found       \* history: the allocations there were when it began

vars == <<contracts, posted, year, mu, job, pc, run, found>>

NoRun == [cap |-> 0, todo |-> {}, target |-> 0]

Of(rows, c) == {a \in rows : a.contract = c}
Latest(rows, c) == Max({a.useYear : a \in Of(rows, c)})
HasAllocationFor(rows, c, y) == \E a \in Of(rows, c) : a.useYear = y

-----------------------------------------------------------------------------
(* Entering and leaving a handler. *)

MutantMayEnter(r) == TRUE  \* no mutex
MayEnter(r) == job[r].via = "page" => mu = Nobody

Enter(r) == mu' = IF job[r].via = "page" THEN r ELSE mu

MutantLeave(r, answer) ==  \* Unlock only on success
  /\ mu' = IF mu = r /\ answer = "done" THEN Nobody ELSE mu
  /\ pc' = [pc EXCEPT ![r] = answer]
  /\ run' = [run EXCEPT ![r] = NoRun]
Leave(r, answer) ==
  /\ mu' = IF mu = r THEN Nobody ELSE mu
  /\ pc' = [pc EXCEPT ![r] = answer]
  /\ run' = [run EXCEPT ![r] = NoRun]

-----------------------------------------------------------------------------
(* DistributeNextYear. *)

\* The cap is taken from the clock, then ListContracts.
Begin(r) ==
  /\ pc[r] = "start" /\ job[r].op = "distribute"
  /\ MayEnter(r) /\ Enter(r)
  /\ run' = [run EXCEPT ![r] = [cap |-> year + 1, todo |-> contracts, target |-> 0]]
  /\ found' = [found EXCEPT ![r] = posted]
  /\ pc' = [pc EXCEPT ![r] = "walk"]
  /\ UNCHANGED <<contracts, posted, year, job>>

Current(r) == Min(run[r].todo)

\* On to the next contract.
MutantSkip(r) ==  \* break instead of continue
  /\ run' = [run EXCEPT ![r].todo = {}, ![r].target = 0]
  /\ pc' = [pc EXCEPT ![r] = "walk"]
Skip(r) ==
  /\ run' = [run EXCEPT ![r].todo = @ \ {Current(r)}, ![r].target = 0]
  /\ pc' = [pc EXCEPT ![r] = "walk"]

MutantDue(r) == Latest(posted, Current(r)) <= run[r].cap  \* compares latest, not target
Due(r) == Latest(posted, Current(r)) + 1 <= run[r].cap

LatestAllocationYear(r) ==
  /\ pc[r] = "walk" /\ run[r].todo # {}
  /\ IF Of(posted, Current(r)) # {} /\ Due(r)
     THEN /\ run' = [run EXCEPT ![r].target = Latest(posted, Current(r)) + 1]
          /\ pc' = [pc EXCEPT ![r] = "check"]
     ELSE Skip(r)
  /\ UNCHANGED <<contracts, posted, year, mu, job, found>>

\* hasAllocationFor: a count that fails is taken for zero.
CountAllocationFor(r) ==
  /\ pc[r] = "check"
  /\ \/ HasAllocationFor(posted, Current(r), run[r].target) /\ Skip(r)
     \/ pc' = [pc EXCEPT ![r] = "insert"] /\ UNCHANGED run
  /\ UNCHANGED <<contracts, posted, year, mu, job, found>>

\* The insert fails its foreign key when the contract is gone; what was
\* posted for other contracts stays.
AddAllocation(r) ==
  /\ pc[r] = "insert"
  /\ IF Current(r) \in contracts
     THEN /\ posted' = posted \cup {[id |-> <<r, Current(r)>>, contract |-> Current(r),
                                     useYear |-> run[r].target]}
          /\ Skip(r)
          /\ UNCHANGED mu
     ELSE Leave(r, "failed") /\ UNCHANGED posted
  /\ UNCHANGED <<contracts, year, job, found>>

Finish(r) ==
  /\ pc[r] = "walk" /\ run[r].todo = {}
  /\ Leave(r, "done")
  /\ UNCHANGED <<contracts, posted, year, job, found>>

\* Any statement but the count may fail, or the client may go away.
Fail(r) ==
  /\ pc[r] \in {"walk", "insert"}
  /\ Leave(r, "failed")
  /\ UNCHANGED <<contracts, posted, year, job, found>>

-----------------------------------------------------------------------------
(* What else changes allocations: one statement each. *)

Edit(r, op) ==
  /\ pc[r] = "start" /\ job[r].op = op
  /\ MayEnter(r)
  /\ pc' = [pc EXCEPT ![r] = "done"]
  /\ UNCHANGED <<year, mu, job, run, found>>

\* Typed for a contract that is gone, it fails its foreign key.
AddEntry(r) ==
  /\ Edit(r, "addEntry")
  /\ \/ \E c \in contracts, y \in TypedYears :
          posted' = posted \cup {[id |-> <<r, 0>>, contract |-> c, useYear |-> y]}
     \/ UNCHANGED posted
  /\ UNCHANGED contracts

\* Here and below, the row may be gone by now.
UpdateEntry(r) ==
  /\ Edit(r, "updateEntry")
  /\ \/ \E a \in posted, c \in contracts, y \in TypedYears :
          posted' = (posted \ {a}) \cup {[a EXCEPT !.contract = c, !.useYear = y]}
     \/ UNCHANGED posted
  /\ UNCHANGED contracts

DeleteEntry(r) ==
  /\ Edit(r, "deleteEntry")
  /\ \/ \E a \in posted : posted' = posted \ {a}
     \/ UNCHANGED posted
  /\ UNCHANGED contracts

\* ON DELETE SET NULL: its allocations name no contract any more.
DeleteContract(r) ==
  /\ Edit(r, "deleteContract")
  /\ \/ \E c \in contracts :
          /\ contracts' = contracts \ {c}
          /\ posted' = posted \ Of(posted, c)
     \/ UNCHANGED <<contracts, posted>>

\* Bound: LastYear.
NewYear ==
  /\ year < LastYear
  /\ year' = year + 1
  /\ UNCHANGED <<contracts, posted, mu, job, pc, run, found>>

-----------------------------------------------------------------------------
Answered(r) == pc[r] \in {"done", "failed"}

Step(r) ==
  \/ Begin(r) \/ LatestAllocationYear(r) \/ CountAllocationFor(r) \/ AddAllocation(r)
  \/ Finish(r)
  \/ AddEntry(r) \/ UpdateEntry(r) \/ DeleteEntry(r) \/ DeleteContract(r)

Idle == (\A r \in Requests : Answered(r)) /\ UNCHANGED vars

Init ==
  /\ \E d \in Databases : contracts = d.contracts /\ posted = d.posted
  /\ year = FirstYear
  /\ mu = Nobody
  /\ job \in [Requests -> Jobs]
  /\ pc = [r \in Requests |-> "start"]
  /\ run = [r \in Requests |-> NoRun]
  /\ found = [r \in Requests |-> {}]

Next == (\E r \in Requests : Step(r) \/ Fail(r)) \/ NewYear \/ Idle

Spec == Init /\ [][Next]_vars

\* Handlers keep running, and a sync.Mutex that is freed goes to a waiter.
FairSpec == Spec /\ \A r \in Requests : WF_vars(Step(r))

-----------------------------------------------------------------------------
(* Correctness. *)

\* Types; a distribution is never on its way to a year beyond its cap, and
\* its cap is never beyond the coming year.
TypeOK ==
  /\ contracts \subseteq Nat
  /\ posted \subseteq Allocation
  /\ year \in FirstYear..LastYear
  /\ mu \in Requests \cup {Nobody}
  /\ job \in [Requests -> Jobs]
  /\ pc \in [Requests -> {"start", "walk", "check", "insert", "done", "failed"}]
  /\ \A r \in Requests :
       /\ run[r].cap \in 0..year + 1
       /\ run[r].todo \subseteq Nat
       /\ run[r].target \in 0..run[r].cap
       /\ found[r] \subseteq Allocation

(***************************************************************************)
(* A distribution never posts an allocation for a contract and a year that *)
(* have one, however often it is triggered ("safe to trigger repeatedly"). *)
(***************************************************************************)
NoDoublePost ==
  [][\A a \in posted' :
       a.id[1] \in Requests /\ a.id[2] # 0 /\ (\A b \in posted : b.id # a.id)
         => ~HasAllocationFor(posted, a.contract, a.useYear)]_vars

(***************************************************************************)
(* A distribution that ends well has given every contract it was to        *)
(* advance its next year, whatever the other contracts made it skip, and   *)
(* whatever earlier distributions had posted before they failed.           *)
(***************************************************************************)
NextYearOf(rows, c, cap) ==
  IF Latest(rows, c) < cap THEN Latest(rows, c) + 1 ELSE Latest(rows, c)

EveryContractAdvanced ==
  [][\A r \in Requests :
       pc[r] = "walk" /\ pc'[r] = "done" =>
         \A c \in contracts :
           Of(found[r], c) # {} =>
             HasAllocationFor(posted, c, NextYearOf(found[r], c, run[r].cap))]_vars

\* Every request is answered, although most of them wait for the mutex.
EveryRequestAnswered == \A r \in Requests : <>Answered(r)

=============================================================================
