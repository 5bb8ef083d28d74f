------------------------------- MODULE Booking -------------------------------
(***************************************************************************)
(* Booking trips against the points ledger: internal/ledger/trip_book.go,  *)
(* trip_accounting.go, trip_import.go and the entry and contract           *)
(* operations of entries.go and store.go, run concurrently by the HTTP     *)
(* handlers against one Postgres database.                                 *)
(*                                                                         *)
(* Each request runs one job.  A job is one autocommitted statement or one *)
(* transaction, cut into the steps other requests can come between, which  *)
(* are finer than statements where a statement takes several row locks:    *)
(*   book    BookBegin, LockLots for each row, ReadUsage, FundStay for     *)
(*           each stay, BookCommit; SERIALIZABLE, retried on 40001         *)
(*   unbook, deleteTrip, deleteStay                                        *)
(*           DeleteEntries, LockRow for each row, DeleteRest, LockRow for  *)
(*           each row, DeleteCommit; READ COMMITTED                        *)
(*   import  ImportCheck for each entry, ImportInsert, ImportLink for      *)
(*           each entry, ImportCommit; READ COMMITTED                      *)
(*   editEntry       EditEntry, EditCommit                                 *)
(*   deleteContract  DeleteContract, LockRow for each row, ContractCommit  *)
(*   addStay, addEntry, deleteEntry, updateContract                        *)
(*           one step                                                      *)
(***************************************************************************)
EXTENDS Allocation

CONSTANTS
  Trips, Stays, Contracts,  \* rows the database may hold; ids of the last two are numbers
  TripOf, Price, CheckIn,   \* columns of trip_stay: trip_id, points, check_in
  NoContract,               \* a NULL contract_id
  Requests, Jobs,           \* HTTP requests, and what they may ask for
  Clerk,                    \* who entered the rows the ledger starts with
  HandRows,                 \* what may be typed into an entry on /ledger
  HandMonths,               \* and into contract.use_year_month
  Databases                 \* contents of the tables to start from

bookTripAttempts == 3

Years == Int
Lot == [contract : Contracts \cup {NoContract}, useYear : Years]

\* An entry id says who inserted the row, for which stay (0: by hand) and
\* against which lot.  It stands for a value of the identity column: no two
\* rows ever inserted share one.
EntryId == (Requests \cup {Clerk}) \X Nat \X Lot

Entry == [id : EntryId, contract : Contracts \cup {NoContract},
          useYear : Years, allotted : Nat, used : Nat]

\* months is contract.use_year_month.
DB == [trips : SUBSET Trips, stays : SUBSET Stays,
       contracts : SUBSET Contracts, months : [Contracts -> 1..12],
       entries : SUBSET Entry, links : SUBSET (Stays \X EntryId)]

\* The keys of the schema: foreign keys of trip_stay and trip_stay_entry,
\* UNIQUE (entry_id), and the primary key of entry.
LinksExist(d) ==
  \A l \in d.links : l[1] \in d.stays /\ \E e \in d.entries : e.id = l[2]
LinksUnique(d) == \A k, l \in d.links : k[2] = l[2] => k = l
IdsUnique(d) == \A e, f \in d.entries : e.id = f.id => e = f
StaysHaveTrips(d) == \A s \in d.stays : TripOf[s] \in d.trips

Consistent(d) == LinksExist(d) /\ LinksUnique(d) /\ IdsUnique(d) /\ StaysHaveTrips(d)

ASSUME RowsAssumption ==
  /\ Stays \subseteq Nat \ {0} /\ Contracts \subseteq Nat
  /\ CheckIn \in [Stays -> [year : Nat, month : 1..12]]
  /\ TripOf \in [Stays -> Trips]
  /\ Price \in [Stays -> Nat \ {0}]  \* CHECK (points > 0)
  /\ NoContract \notin Contracts
  /\ HandRows \subseteq [contract : Contracts \cup {NoContract}, useYear : Years,
                          allotted : Nat, used : Nat]
  /\ HandMonths \subseteq 1..12

ASSUME DatabasesAssumption ==
  /\ Clerk \notin Requests
  /\ \A d \in Databases :
       /\ d \in DB /\ Consistent(d)
       /\ IsFiniteSet(d.entries)
       /\ \A e \in d.entries : e.id[1] = Clerk

VARIABLES
  db,         \* the committed tables
  issued,     \* identity values of trip and trip_stay handed out so far
  job,        \* the job of each request
  pc,         \* where it is, or how it was answered
  tries,      \* attempts BookTrip has begun
  tx          \* the transaction it has open

vars == <<db, issued, job, pc, tries, tx>>

\* A row lock: its strength, the table and the key of the row.  A row of
\* trip_stay_entry goes by its entry_id.
Strengths == {"update", "noKeyUpdate", "keyShare"}
Lock == (Strengths \X {"contract"} \X Contracts) \cup (Strengths \X {"trip"} \X Trips)
          \cup (Strengths \X {"stay"} \X Stays) \cup (Strengths \X {"entry", "link"} \X EntryId)

\* A transaction: the snapshot of a booking; the uncommitted rows (the rows an
\* import has read) and links; the entries it deletes; whether another booking
\* has written and committed since the snapshot; and the locks it holds.
Tx == [snap : DB, rows : SUBSET Entry, links : SUBSET (Stays \X EntryId),
       gone : SUBSET EntryId, overtaken : BOOLEAN, locks : SUBSET Lock]

EmptyDB == [trips |-> {}, stays |-> {}, contracts |-> {}, months |-> [c \in Contracts |-> 1],
            entries |-> {}, links |-> {}]
NoTx == [snap |-> EmptyDB, rows |-> {}, links |-> {}, gone |-> {}, overtaken |-> FALSE,
         locks |-> {}]

Answers == {"ok", "notFound", "insufficient", "serialization", "rejected", "aborted"}
Answered(r) == pc[r] \in Answers

-----------------------------------------------------------------------------
(* What queries return. *)

LinkedTo(d, s) == {l[2] : l \in {k \in d.links : k[1] = s}}
StaysOf(d, t) == {s \in d.stays : TripOf[s] = t}

\* TripStay.Booked: at least one linked entry.
Booked(d, s) == LinkedTo(d, s) # {}
MutantUnbooked(d, t) == StaysOf(d, t)  \* Booked() not consulted
Unbooked(d, t) == {s \in StaysOf(d, t) : ~Booked(d, s)}

LotOf(e) == [contract |-> e.contract, useYear |-> e.useYear]
LotRows(d) == {e \in d.entries : e.allotted > 0 /\ e.contract # NoContract}

Allotted(rows) == SumOver([e \in rows |-> e.allotted], rows)
Used(rows) == SumOver([e \in rows |-> e.used], rows)
Against(rows, lot) == {e \in rows : LotOf(e) = lot}

\* Balance of every lot, from the snapshot d and the rows the transaction
\* itself has inserted.
LotsIn(d) == {LotOf(e) : e \in LotRows(d)}
Balance(d, own, lot) ==
  Allotted(Against(LotRows(d), lot)) - Used(Against(d.entries \cup own, lot))
MutantLeft(d, own) == [lot \in LotsIn(d) |-> Balance(d, {}, lot)]  \* consumed not appended to
Left(d, own) == [lot \in LotsIn(d) |-> Balance(d, own, lot)]

\* availablePoints: all lots, less every point used, attributed or not.
MutantAvailable(d, own) ==  \* without legacyUsed
  Allotted(LotRows(d)) - Used({e \in d.entries \cup own : e.contract # NoContract})
Available(d, own) == Allotted(LotRows(d)) - Used(d.entries \cup own)

MonthsIn(d) == [c \in d.contracts |-> d.months[c]]

\* ListStays' order: by check-in date, then by id.
ListedBefore(s, t) ==
  LET day(x) == <<CheckIn[x].year, CheckIn[x].month>>
  IN  \/ day(s)[1] < day(t)[1]
      \/ day(s)[1] = day(t)[1] /\ day(s)[2] < day(t)[2]
      \/ day(s) = day(t) /\ s < t

-----------------------------------------------------------------------------
(* Row locks.  A transaction keeps the rows it has locked until it ends.   *)

Compatible(a, b) == {a, b} \in {{"keyShare"}, {"keyShare", "noKeyUpdate"}}

Blocks(q, l) ==
  \E a \in Strengths : <<a, l[2], l[3]>> \in tx[q].locks /\ ~Compatible(a, l[1])

Free(r, l) == \A q \in Requests \ {r} : ~Blocks(q, l)

Hold(r, locks) == tx' = [tx EXCEPT ![r].locks = @ \cup locks]

Locks(strength, table, keys) == {<<strength, table, k>> : k \in keys}
Ids(rows) == {e.id : e \in rows}

\* What a DELETE names: the rows that are there when it looks for them.
Named(j, s) == IF j.op = "deleteStay" THEN s = j.stay ELSE TripOf[s] = j.trip
DeletedTrips(j) == IF j.op = "deleteTrip" THEN {j.trip} ELSE {}
DeletedStays(d, j) == IF j.op = "unbook" THEN {} ELSE {s \in d.stays : Named(j, s)}
EntryIdsOf(d, stays) == {l[2] : l \in {k \in d.links : k[1] \in stays}}

\* The contract a DeleteContract is deleting, and the entries that name it.
Leaving(r) == {c \in db.contracts : <<"update", "contract", c>> \in tx[r].locks}
Orphaned(r) == {e \in db.entries : e.contract \in Leaving(r)}

\* The rows each statement that locks several locks: a booking's contracts and
\* lots; the entries of DELETE FROM entry and the links that cascade from them;
\* the trip and the stays of the DELETE that comes next, and their links; the
\* entries that ON DELETE SET NULL changes.
MutantSnapshotLocks(d) == Locks("update", "entry", Ids(LotRows(d)))  \* contracts unlocked
SnapshotLocks(d) ==
  Locks("update", "contract", d.contracts) \cup Locks("update", "entry", Ids(LotRows(d)))
EntryLocks(ids) ==
  Locks("update", "entry", ids \cap Ids(db.entries))
    \cup Locks("update", "link", ids \cap EntryIdsOf(db, Stays))
CascadeLocks(trips, stays) ==
  Locks("update", "trip", trips \cap db.trips) \cup Locks("update", "stay", stays)
    \cup Locks("update", "link", EntryIdsOf(db, stays))

\* Those it has yet to lock.
ToLock(r) ==
  (CASE pc[r] = "lock" -> SnapshotLocks(tx[r].snap)
     [] pc[r] = "deleting" -> EntryLocks(tx[r].gone)
     [] pc[r] = "cascading" -> CascadeLocks(DeletedTrips(job[r]), DeletedStays(db, job[r]))
     [] pc[r] = "nulling" -> Locks("noKeyUpdate", "entry", Ids(Orphaned(r)))
     [] OTHER -> {})
  \ tx[r].locks

\* One table after the other, and contracts ORDER BY id.  The rows of any
\* other table come in no order the statement asks for.
TableOrder == [contract |-> 1, trip |-> 2, stay |-> 3, entry |-> 4, link |-> 5]
MutantBefore(k, l) == TableOrder[k[2]] < TableOrder[l[2]]  \* no ORDER BY id
Before(k, l) ==
  \/ TableOrder[k[2]] < TableOrder[l[2]]
  \/ k[2] = "contract" /\ l[2] = "contract" /\ k[3] < l[3]

NextLocks(r) == {l \in ToLock(r) : \A k \in ToLock(r) : ~Before(k, l)}

-----------------------------------------------------------------------------
(* BookTrip. *)

MutantAnswer(r, a) ==  \* no deferred tx.Rollback() when it fails
  /\ pc' = [pc EXCEPT ![r] = a]
  /\ tx' = [tx EXCEPT ![r] = IF a \in {"insufficient", "rejected"} THEN @ ELSE NoTx]
Answer(r, a) ==
  /\ pc' = [pc EXCEPT ![r] = a]
  /\ tx' = [tx EXCEPT ![r] = NoTx]

\* SQLSTATE 40001: the transaction is rolled back and begun again, unless
\* this was the last attempt.
MutantRetry(r) ==  \* no rollback between attempts
  /\ pc' = [pc EXCEPT ![r] = IF tries[r] < bookTripAttempts THEN "start" ELSE "serialization"]
  /\ tx' = [tx EXCEPT ![r] = [NoTx EXCEPT !.overtaken = tx[r].overtaken]]
Retry(r) == Answer(r, IF tries[r] < bookTripAttempts THEN "start" ELSE "serialization")

\* GetTrip is the first statement: it takes the transaction's snapshot.
BookBegin(r) ==
  /\ pc[r] = "start" /\ job[r].op = "book"
  /\ tries' = [tries EXCEPT ![r] = @ + 1]
  /\ IF job[r].trip \in db.trips
     THEN /\ tx' = [tx EXCEPT ![r].snap = db]
          /\ pc' = [pc EXCEPT ![r] = "lock"]
     ELSE Answer(r, "notFound")
  /\ UNCHANGED <<db, issued, job>>

\* SELECT ... FOR UPDATE of the contracts and then of the lots, a row at a
\* time: waits for whoever holds the row, and fails when it was changed or
\* deleted after the snapshot.
Stale(r, l) ==
  IF l[2] = "contract"
  THEN l[3] \notin db.contracts \/ db.months[l[3]] # tx[r].snap.months[l[3]]
  ELSE \A e \in LotRows(tx[r].snap) : e.id = l[3] => e \notin db.entries

LockLots(r) ==
  /\ pc[r] = "lock"
  /\ \E l \in NextLocks(r) :
       /\ Free(r, l)
       /\ IF Stale(r, l) THEN Retry(r) ELSE Hold(r, {l}) /\ UNCHANGED pc
  /\ UNCHANGED <<db, issued, job, tries>>

\* What the lots have been drawn on for is read from the snapshot, unlocked.
ReadUsage(r) ==
  /\ pc[r] = "lock"
  /\ ToLock(r) = {}
  /\ pc' = [pc EXCEPT ![r] = "fund"]
  /\ UNCHANGED <<db, issued, job, tries, tx>>

Draws(r, s) ==
  AllocateStayPoints(MonthsIn(tx[r].snap), Left(tx[r].snap, tx[r].rows), CheckIn[s], Price[s])

CanFund(r, s) ==
  /\ Price[s] <= Available(tx[r].snap, tx[r].rows)
  /\ Fundable(MonthsIn(tx[r].snap), Left(tx[r].snap, tx[r].rows), CheckIn[s], Price[s])

\* The stays the loop has not reached yet; those already booked are skipped.
Reached(r) == {l[1] : l \in tx[r].links}
MutantToFund(r) ==  \* a stay that cannot be funded is skipped
  {s \in Unbooked(tx[r].snap, job[r].trip) \ Reached(r) : CanFund(r, s)}
ToFund(r) == Unbooked(tx[r].snap, job[r].trip) \ Reached(r)

MutantUsageRow(r, s, draw) ==  \* what is spent is entered as a negative amount
  [id |-> <<r, s, draw.lot>>, contract |-> draw.lot.contract,
   useYear |-> draw.lot.useYear, allotted |-> 0, used |-> -draw.points]
UsageRow(r, s, draw) ==
  [id |-> <<r, s, draw.lot>>, contract |-> draw.lot.contract,
   useYear |-> draw.lot.useYear, allotted |-> 0, used |-> draw.points]

\* AddEntry and InsertTripStayEntry for each draw of a stay.
LinksTo(s, rows) == {<<s, e.id>> : e \in rows}
MutantInsertDraws(r, s, rows) ==  \* through the pool, not the transaction
  /\ db' = [db EXCEPT !.entries = @ \cup rows, !.links = @ \cup LinksTo(s, rows)]
  /\ tx' = [tx EXCEPT ![r].links = @ \cup LinksTo(s, rows)]
InsertDraws(r, s, rows) ==
  /\ tx' = [tx EXCEPT ![r].rows = @ \cup rows, ![r].links = @ \cup LinksTo(s, rows),
                      ![r].locks = @ \cup {<<"keyShare", "stay", s>>}]
  /\ UNCHANGED db

\* The stay whose turn it is.
NextStay(r) == {s \in ToFund(r) : \A t \in ToFund(r) \ {s} : ListedBefore(s, t)}

\* One turn of bookTripOnce's loop.  The foreign key check of a link row
\* waits for whoever is deleting the stay, and fails with 40001 when the stay
\* was deleted after the snapshot.
FundStay(r) ==
  /\ pc[r] = "fund"
  /\ \E s \in NextStay(r) :
       IF ~CanFund(r, s) THEN Answer(r, "insufficient") /\ UNCHANGED db
       ELSE /\ Free(r, <<"keyShare", "stay", s>>)
            /\ IF s \notin db.stays THEN Retry(r) /\ UNCHANGED db
               ELSE InsertDraws(r, s, {UsageRow(r, s, draw) : draw \in Draws(r, s)})
                    /\ UNCHANGED pc
  /\ UNCHANGED <<issued, job, tries>>

\* Serializable snapshot isolation lets the first of two overlapping bookings
\* that write commit; the other gets 40001 here at the latest.  The other
\* transactions are READ COMMITTED and take no part in it.
MutantLostRace(r) == FALSE  \* READ COMMITTED
LostRace(r) == tx[r].overtaken /\ tx[r].rows # {}

BookCommit(r) ==
  /\ pc[r] = "fund"
  /\ ToFund(r) = {}
  /\ IF LostRace(r)
     THEN Retry(r) /\ UNCHANGED db
     ELSE /\ db' = [db EXCEPT !.entries = @ \cup tx[r].rows,
                              !.links = @ \cup tx[r].links]
          /\ pc' = [pc EXCEPT ![r] = "ok"]
          /\ tx' = [q \in Requests |->
                      IF q = r THEN NoTx
                      ELSE [tx[q] EXCEPT !.overtaken =
                              @ \/ (pc[q] \in {"lock", "fund"} /\ tx[r].rows # {})]]
  /\ UNCHANGED <<issued, job, tries>>

-----------------------------------------------------------------------------
(* UnbookTrip, DeleteTrip and DeleteStay. *)

Deletes == {"unbook", "deleteTrip", "deleteStay"}

\* First statement: the entries linked to the named stays, as of now.
DeleteEntries(r) ==
  /\ pc[r] = "start" /\ job[r].op \in Deletes
  /\ tx' = [tx EXCEPT ![r].gone = EntryIdsOf(db, {s \in db.stays : Named(job[r], s)})]
  /\ pc' = [pc EXCEPT ![r] = "deleting"]
  /\ UNCHANGED <<db, issued, job, tries>>

\* A row is taken for deletion, or for an ON DELETE action.
LockRow(r) ==
  /\ pc[r] \in {"deleting", "cascading", "nulling"}
  /\ \E l \in NextLocks(r) : Free(r, l) /\ Hold(r, {l})
  /\ UNCHANGED <<db, issued, job, pc, tries>>

\* The second statement begins, if there is one.
DeleteRest(r) ==
  /\ pc[r] = "deleting" /\ job[r].op # "unbook"
  /\ ToLock(r) = {}
  /\ pc' = [pc EXCEPT ![r] = "cascading"]
  /\ UNCHANGED <<db, issued, job, tries, tx>>

\* The tables without some entries, stays and trips, and without the link
\* rows that cascade from them.
MutantWithout(d, ids, stays, trips) ==  \* DELETE FROM trip_stay_entry
  [d EXCEPT !.links = {l \in @ : l[2] \notin ids /\ l[1] \notin stays},
            !.stays = @ \ stays, !.trips = @ \ trips]
Without(d, ids, stays, trips) ==
  [d EXCEPT !.entries = {e \in @ : e.id \notin ids},
            !.links = {l \in @ : l[2] \notin ids /\ l[1] \notin stays},
            !.stays = @ \ stays,
            !.trips = @ \ trips]

\* The stays are those the second statement finds.
DeleteCommit(r) ==
  /\ pc[r] = IF job[r].op = "unbook" THEN "deleting" ELSE "cascading"
  /\ ToLock(r) = {}
  /\ db' = Without(db, tx[r].gone, DeletedStays(db, job[r]), DeletedTrips(job[r]))
  /\ Answer(r, "ok")
  /\ UNCHANGED <<issued, job, tries>>

-----------------------------------------------------------------------------
(* ImportBookedTrip. *)

\* What the checks have read for a stay.
ReadFor(r, s) == {e \in tx[r].rows : <<s, e.id>> \in tx[r].links}
PaidInFull(r, s) == ReadFor(r, s) # {} /\ Used(ReadFor(r, s)) = Price[s]

\* A stay of the request: the one whose entries it is going through, or the
\* next one of the same new trip when those add up.
NewStays(r) ==
  {s \in Stays \ issued.stays :
     /\ Reached(r) = {} => TripOf[s] \notin issued.trips
     /\ \A t \in Reached(r) : TripOf[s] = TripOf[t] /\ PaidInFull(r, t)}
CurrentStays(r) ==
  {s \in Reached(r) : \A t \in Reached(r) \ {s} : PaidInFull(r, t)}

\* An entry the request names must be usage, linked to no stay and not seen
\* before.  Each is read by statements of its own.
Importable(r, e) ==
  e.used > 0 /\ \A l \in db.links \cup tx[r].links : l[2] # e.id

ImportCheck(r) ==
  /\ pc[r] \in {"start", "checking"} /\ job[r].op = "import"
  /\ \/ \E s \in NewStays(r) \cup CurrentStays(r), e \in db.entries :
          /\ Importable(r, e)
          /\ issued' = [issued EXCEPT !.stays = @ \cup {s}, !.trips = @ \cup {TripOf[s]}]
          /\ tx' = [tx EXCEPT ![r].rows = @ \cup {e}, ![r].links = @ \cup {<<s, e.id>>}]
          /\ pc' = [pc EXCEPT ![r] = "checking"]
     \/ Answer(r, "rejected") /\ UNCHANGED issued
  /\ UNCHANGED <<db, job, tries>>

\* AddTrip and AddStay, when every stay has been checked.
ImportInsert(r) ==
  /\ pc[r] = "checking"
  /\ \A s \in Reached(r) : PaidInFull(r, s)
  /\ pc' = [pc EXCEPT ![r] = "linking"]
  /\ UNCHANGED <<db, issued, job, tries, tx>>

\* InsertTripStayEntry: UNIQUE (entry_id) and the foreign key wait for whoever
\* links or deletes the same entry, and fail when that has happened.
LinkLocks(l) == {<<"update", "link", l[2]>>, <<"keyShare", "entry", l[2]>>}
ToLink(r) == {l \in tx[r].links : ~(LinkLocks(l) \subseteq tx[r].locks)}

MutantLinkable(d, id) == \E e \in d.entries : e.id = id  \* no UNIQUE
Linkable(d, id) == (\E e \in d.entries : e.id = id) /\ \A l \in d.links : l[2] # id

ImportLink(r) ==
  /\ pc[r] = "linking"
  /\ \E l \in ToLink(r) :
       /\ \A k \in LinkLocks(l) : Free(r, k)
       /\ IF Linkable(db, l[2])
          THEN Hold(r, LinkLocks(l)) /\ UNCHANGED pc
          ELSE Answer(r, "rejected")
  /\ UNCHANGED <<db, issued, job, tries>>

ImportCommit(r) ==
  /\ pc[r] = "linking" /\ ToLink(r) = {}
  /\ db' = [db EXCEPT !.trips = @ \cup {TripOf[s] : s \in Reached(r)},
                      !.stays = @ \cup Reached(r),
                      !.links = @ \cup tx[r].links]
  /\ Answer(r, "ok")
  /\ UNCHANGED <<issued, job, tries>>

-----------------------------------------------------------------------------
(* Single statements. *)

\* AddStay: the trip may be gone by now, or about to be.  (Bound: an instance
\* has a fixed supply of stays for each trip; when it is used up, the request
\* is rejected.)
AddStay(r) ==
  LET new == {s \in Stays \ issued.stays : TripOf[s] = job[r].trip} IN
  /\ pc[r] = "start" /\ job[r].op = "addStay"
  /\ Free(r, <<"keyShare", "trip", job[r].trip>>)
  /\ IF job[r].trip \in db.trips /\ new # {}
     THEN \E s \in new :
            /\ issued' = [issued EXCEPT !.stays = @ \cup {s}]
            /\ db' = [db EXCEPT !.stays = @ \cup {s}]
            /\ Answer(r, "ok")
     ELSE Answer(r, "rejected") /\ UNCHANGED <<db, issued>>
  /\ UNCHANGED <<job, tries>>

Typed(id, t) == [id |-> id, contract |-> t.contract, useYear |-> t.useYear,
                 allotted |-> t.allotted, used |-> t.used]

\* The foreign key check of a contract_id waits for whoever has the contract
\* locked, and fails when the contract is gone.
ContractShared(r, c) == Free(r, <<"keyShare", "contract", c>>)
ContractThere(c) == c \in db.contracts \cup {NoContract}

AddEntry(r) ==
  /\ pc[r] = "start" /\ job[r].op = "addEntry"
  /\ \E t \in HandRows :
       /\ ContractShared(r, t.contract)
       /\ IF ContractThere(t.contract)
          THEN /\ db' = [db EXCEPT !.entries = @ \cup {Typed(<<r, 0, LotOf(t)>>, t)}]
               /\ Answer(r, "ok")
          ELSE Answer(r, "rejected") /\ UNCHANGED db
  /\ UNCHANGED <<issued, job, tries>>

\* UpdateEntry takes the row, which may be gone by now, and then checks the
\* contract, if it is another one.  Links to the row stay.
EditEntry(r) ==
  /\ pc[r] = "start" /\ job[r].op = "editEntry"
  /\ \/ \E e \in db.entries, t \in HandRows :
          LET l == <<"noKeyUpdate", "entry", e.id>> IN
          /\ Free(r, l)
          /\ tx' = [tx EXCEPT ![r].rows = {Typed(e.id, t)}, ![r].locks = {l}]
          /\ pc' = [pc EXCEPT ![r] = "editing"]
     \/ Answer(r, "ok")
  /\ UNCHANGED <<db, issued, job, tries>>

EditCommit(r) ==
  /\ pc[r] = "editing"
  /\ \E e \in db.entries, row \in tx[r].rows :
       /\ e.id = row.id
       /\ e.contract # row.contract => ContractShared(r, row.contract)
       /\ IF e.contract = row.contract \/ ContractThere(row.contract)
          THEN db' = [db EXCEPT !.entries = (@ \ {e}) \cup {row}] /\ Answer(r, "ok")
          ELSE Answer(r, "rejected") /\ UNCHANGED db
  /\ UNCHANGED <<issued, job, tries>>

\* DeleteEntry: the link to it cascades away.  The row may be gone by now.
DeleteEntry(r) ==
  /\ pc[r] = "start" /\ job[r].op = "deleteEntry"
  /\ \/ \E e \in db.entries :
          /\ Free(r, <<"update", "entry", e.id>>) /\ Free(r, <<"update", "link", e.id>>)
          /\ db' = Without(db, {e.id}, {}, {})
     \/ UNCHANGED db
  /\ Answer(r, "ok")
  /\ UNCHANGED <<issued, job, tries>>

\* DeleteContract takes the contract, which may be gone by now, and then the
\* entries that name it: ON DELETE SET NULL.
DeleteContract(r) ==
  /\ pc[r] = "start" /\ job[r].op = "deleteContract"
  /\ \/ \E c \in db.contracts :
          LET l == <<"update", "contract", c>> IN
          /\ Free(r, l) /\ Hold(r, {l})
          /\ pc' = [pc EXCEPT ![r] = "nulling"]
     \/ Answer(r, "ok")
  /\ UNCHANGED <<db, issued, job, tries>>

Nulled(e, contracts) == IF e.contract \in contracts THEN [e EXCEPT !.contract = NoContract] ELSE e

ContractCommit(r) ==
  /\ pc[r] = "nulling" /\ ToLock(r) = {}
  /\ db' = [db EXCEPT !.contracts = @ \ Leaving(r),
                      !.entries = {Nulled(e, Leaving(r)) : e \in @}]
  /\ Answer(r, "ok")
  /\ UNCHANGED <<issued, job, tries>>

\* UpdateContract: the use year may begin in another month from now on.
\* The row may be gone by now.
UpdateContract(r) ==
  /\ pc[r] = "start" /\ job[r].op = "updateContract"
  /\ \/ \E c \in db.contracts, m \in HandMonths :
          /\ Free(r, <<"noKeyUpdate", "contract", c>>)
          /\ db' = [db EXCEPT !.months[c] = m]
     \/ UNCHANGED db
  /\ Answer(r, "ok")
  /\ UNCHANGED <<issued, job, tries>>

-----------------------------------------------------------------------------
(* The server. *)

\* An open transaction is rolled back: the client went away, the connection
\* or the server process died, or Postgres picked it to break a deadlock.
InTx == {"lock", "fund", "deleting", "cascading", "checking", "linking", "editing", "nulling"}

Abort(r) ==
  /\ pc[r] \in InTx
  /\ Answer(r, "aborted")
  /\ UNCHANGED <<db, issued, job, tries>>

Step(r) ==
  \/ BookBegin(r) \/ LockLots(r) \/ ReadUsage(r) \/ FundStay(r) \/ BookCommit(r)
  \/ DeleteEntries(r) \/ LockRow(r) \/ DeleteRest(r) \/ DeleteCommit(r)
  \/ ImportCheck(r) \/ ImportInsert(r) \/ ImportLink(r) \/ ImportCommit(r)
  \/ AddStay(r) \/ AddEntry(r) \/ EditEntry(r) \/ EditCommit(r) \/ DeleteEntry(r)
  \/ DeleteContract(r) \/ ContractCommit(r) \/ UpdateContract(r)

\* Nothing is left to do.
Idle == (\A r \in Requests : Answered(r)) /\ UNCHANGED vars

Init ==
  /\ db \in Databases
  /\ issued = [trips |-> db.trips, stays |-> db.stays]
  /\ job \in [Requests -> Jobs]
  /\ pc = [r \in Requests |-> "start"]
  /\ tries = [r \in Requests |-> 0]
  /\ tx = [r \in Requests |-> NoTx]

Next == (\E r \in Requests : Step(r) \/ Abort(r)) \/ Idle

Spec == Init /\ [][Next]_vars

\* A request in the middle of a transaction waits for another that has locked
\* what it takes next.
Awaited(r) ==
  CASE pc[r] = "fund" -> Locks("keyShare", "stay", {s \in NextStay(r) : CanFund(r, s)})
    [] pc[r] = "linking" -> UNION {LinkLocks(l) : l \in ToLink(r)}
    [] pc[r] = "editing" -> Locks("keyShare", "contract", {row.contract : row \in tx[r].rows})
    [] OTHER -> NextLocks(r)

WaitsFor(r, q) == q # r /\ \E l \in Awaited(r) : Blocks(q, l)

\* Among the requests of R, r waits in a circle: every set that is closed
\* under waiting and holds those r waits for holds r itself.
Circles(r, R) ==
  /\ r \in R
  /\ \A S \in SUBSET R :
       (\A p \in S \cup {r}, q \in R : WaitsFor(p, q) => q \in S) => r \in S

\* deadlock_timeout has passed: SQLSTATE 40P01, which nothing retries.
Victim(r) == Circles(r, Requests) /\ Abort(r)

\* Handlers keep running, Postgres grants a lock that becomes free and breaks
\* every deadlock.
FairSpec == Spec /\ \A r \in Requests : WF_vars(Step(r) \/ Victim(r))

-----------------------------------------------------------------------------
(* Correctness. *)

\* The tables and the requests hold what they are meant to hold.
TypeOK ==
  /\ db \in DB
  /\ issued \in [trips : SUBSET Trips, stays : SUBSET Stays]
  /\ job \in [Requests -> Jobs]
  /\ pc \in [Requests -> {"start"} \cup InTx \cup Answers]
  /\ tries \in [Requests -> 0..bookTripAttempts]
  /\ tx \in [Requests -> Tx]

(***************************************************************************)
(* trip_stay_entry never dangles and never ties one entry to two stays:    *)
(* every link names a stay and an entry that exist, every entry has at     *)
(* most one link, and ids identify rows.  Booked-ness is derived from      *)
(* these links alone.                                                      *)
(***************************************************************************)
LinkIntegrity == Consistent(db)

(***************************************************************************)
(* Concurrent bookings never spend a lot below zero, nor the ledger as a   *)
(* whole (bookTripOnce: "two concurrent bookings racing for the same last  *)
(* points can't both succeed").                                            *)
(***************************************************************************)
NoLotOverdrawn == \A lot \in LotsIn(db) : Balance(db, {}, lot) >= 0
LedgerNotOverspent == Used(db.entries) <= Allotted(LotRows(db))

\* What the ledger has charged for a stay.
Paid(d, s) == Used({e \in d.entries : e.id \in LinkedTo(d, s)})

(***************************************************************************)
(* A stay gets links only while it has none, and all at once: when it      *)
(* becomes booked, by BookTrip or by an import, its entries add up to its  *)
(* price exactly.  So a double-submitted booking never charges it twice.   *)
(***************************************************************************)
StayFundedAtOnce ==
  [][\A s \in Stays :
       ~(LinkedTo(db', s) \subseteq LinkedTo(db, s))
         => ~Booked(db, s) /\ Paid(db', s) = Price[s]]_vars

(***************************************************************************)
(* "Either every unbooked stay is booked or none is" (BookTrip): a booking *)
(* that commits leaves every stay it found unbooked booked.                *)
(***************************************************************************)
BookingAllOrNothing ==
  [][\A r \in Requests :
       pc[r] = "fund" /\ pc'[r] = "ok" =>
         \A s \in Unbooked(tx[r].snap, job[r].trip) : Booked(db', s)]_vars

(***************************************************************************)
(* When a booking commits, every lot it has drawn from is one the stay may *)
(* draw from: of a contract that is still there, in a use year next to     *)
(* that of the check-in by the month the contract has then, though it was  *)
(* chosen by the month the contract had when the booking began.            *)
(***************************************************************************)
DrawnWhereEligible ==
  [][\A r \in Requests :
       pc[r] = "fund" /\ pc'[r] = "ok" =>
         \A e \in tx[r].rows : Eligible(MonthsIn(db), CheckIn[e.id[2]], LotOf(e))]_vars

(***************************************************************************)
(* A booking that has not committed, or was answered with an error, has    *)
(* left no row in the ledger, whichever stay or attempt it got to.         *)
(***************************************************************************)
FailureLeavesNothing ==
  \A r \in Requests : pc[r] # "ok" => \A e \in db.entries : e.id[1] # r

(***************************************************************************)
(* Every attempt beyond the first is paid for by another request that was  *)
(* done meanwhile, so two racing bookings need two attempts at most and    *)
(* bookTripAttempts is generous for them.                                  *)
(***************************************************************************)
RetriesPaidFor ==
  \A r \in Requests :
    tries[r] <= 1 + Cardinality({q \in Requests \ {r} : pc[q] = "ok"})

(***************************************************************************)
(* A usage row a booking made is always linked to the stay it pays for, so *)
(* it can be reversed (DeleteTrip: cascading first "would strand the usage *)
(* rows in the ledger with no link and no way to reverse them").           *)
(***************************************************************************)
NoStrandedUsage ==
  \A e \in db.entries :
    e.id[1] \in Requests /\ e.id[2] # 0 => <<e.id[2], e.id>> \in db.links

(***************************************************************************)
(* Bookings and unbookings act as if each were one step.  A lot's room is  *)
(* what it was allotted less the usage no stay is linked to, so a step     *)
(* that strands a usage row takes room away and is none of TripLedger's.   *)
(***************************************************************************)
LinkedDraws(d) ==
  {[id |-> p[2].id, stay |-> p[1][1], lot |-> LotOf(p[2]), points |-> p[2].used] :
     p \in {q \in d.links \X d.entries : q[1][2] = q[2].id}}

Linked(d) == {e \in d.entries : \E l \in d.links : l[2] = e.id}
Unlinked(d) == {e \in d.entries : \A l \in d.links : l[2] # e.id}

RoomIn(d) ==
  [lot \in LotsIn(d) |->
     Allotted(Against(LotRows(d), lot)) - Used(Against(Unlinked(d), lot))]

Ledger == INSTANCE TripLedger
            WITH live <- db.stays, draws <- LinkedDraws(db), room <- RoomIn(db)

ImplementsTripLedger == Ledger!Spec

(***************************************************************************)
(* What the last few properties need of the tables one starts from: no lot *)
(* and no ledger is overspent yet, the entries linked to stays allot       *)
(* nothing, and they pay for their stays in full, from lots there are.     *)
(***************************************************************************)
InTheBlack(d) ==
  /\ \A lot \in LotsIn(d) : Balance(d, {}, lot) >= 0
  /\ Used(d.entries) <= Allotted(LotRows(d))
Solvent(d) == InTheBlack(d) /\ \A e \in Linked(d) : e.allotted = 0
Settled(d) ==
  /\ \A e \in Linked(d) : e.used > 0 /\ LotOf(e) \in LotsIn(d)
  /\ \A s \in d.stays : Booked(d, s) => Paid(d, s) = Price[s]

(***************************************************************************)
(* Every request is answered, whatever it waits for: whoever holds a row   *)
(* commits, fails and rolls back ("defer tx.Rollback()"), or waits in a    *)
(* circle that Postgres breaks.                                            *)
(***************************************************************************)
EveryRequestAnswered == \A r \in Requests : <>Answered(r)

(***************************************************************************)
(* Bookings alone never wait in a circle, so none of two racing bookings   *)
(* is ever a deadlock's victim, which BookTrip does not retry: contracts   *)
(* are locked in the order of their ids, before any lot.                   *)
(***************************************************************************)
BookingsTakeTurns ==
  \A r \in Requests : ~Circles(r, {q \in Requests : job[q].op = "book"})

=============================================================================
