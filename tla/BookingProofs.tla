---------------------------- MODULE BookingProofs ----------------------------
(***************************************************************************)
(* What holds of Booking for any tables, requests and jobs: types, all or  *)
(* nothing, retries, links, failures, and what draws are when they commit. *)
(***************************************************************************)
EXTENDS Booking, AllocationProofs

-----------------------------------------------------------------------------
(* Types.  A sum over the ledger is a number only because the tables are   *)
(* finite, and tries stays in its range only because no attempt begins     *)
(* when all are used up, so both are carried along with TypeOK.            *)

Finite ==
  /\ IsFiniteSet(db.entries)
  /\ \A r \in Requests : IsFiniteSet(tx[r].snap.entries) /\ IsFiniteSet(tx[r].rows)

AttemptsLeft == \A r \in Requests : pc[r] = "start" => tries[r] < bookTripAttempts

TypeInv == TypeOK /\ Finite /\ AttemptsLeft

PcType == {"start"} \cup InTx \cup Answers

\* A request without a transaction holds empty tables.
LEMMA NoTxType == NoTx \in Tx /\ IsFiniteSet(NoTx.rows) /\ IsFiniteSet(NoTx.snap.entries)
<1>1. EmptyDB \in DB
  BY DEF EmptyDB, DB
<1>2. IsFiniteSet({})
  BY FS_EmptySet
<1>3. QED
  BY <1>1, <1>2 DEF NoTx, Tx, EmptyDB

\* A transaction with other rows, links and locks is a transaction.
LEMMA TxType ==
  ASSUME NEW t \in Tx, NEW rows \in SUBSET Entry, NEW links \in SUBSET (Stays \X EntryId),
         NEW locks \in SUBSET Lock,
         NEW u, u = [t EXCEPT !.rows = rows, !.links = links, !.locks = locks]
  PROVE  u \in Tx
<1>1. u = [snap |-> t.snap, rows |-> rows, links |-> links, gone |-> t.gone,
           overtaken |-> t.overtaken, locks |-> locks]
  BY DEF Tx
<1>2. t.snap \in DB /\ t.gone \in SUBSET EntryId /\ t.overtaken \in BOOLEAN
  BY DEF Tx
<1>3. QED
  BY <1>1, <1>2, Zenon DEF Tx

(***************************************************************************)
(* Answering and retrying keep the types of everything but db and issued.  *)
(***************************************************************************)
Kept ==
  /\ pc' \in [Requests -> PcType]
  /\ tx' \in [Requests -> Tx]
  /\ \A q \in Requests : IsFiniteSet(tx'[q].snap.entries) /\ IsFiniteSet(tx'[q].rows)
  /\ \A q \in Requests : pc'[q] = "start" => tries'[q] < bookTripAttempts

\* Answering keeps the types.
LEMMA AnswerType ==
  ASSUME TypeInv, NEW r \in Requests, NEW a \in PcType, Answer(r, a),
         a = "start" => tries[r] < bookTripAttempts, UNCHANGED tries
  PROVE  Kept
<1>1. pc' \in [Requests -> PcType]
  BY DEF TypeInv, TypeOK, Answer, PcType
<1>2. tx' = [tx EXCEPT ![r] = NoTx] /\ tx \in [Requests -> Tx]
  BY DEF TypeInv, TypeOK, Answer
<1>3. tx' \in [Requests -> Tx]
  BY <1>2, NoTxType
<1>4. \A q \in Requests : IsFiniteSet(tx'[q].snap.entries) /\ IsFiniteSet(tx'[q].rows)
  BY <1>2, NoTxType DEF TypeInv, Finite
<1>5. \A q \in Requests : pc'[q] = "start" => tries'[q] < bookTripAttempts
  BY DEF TypeInv, TypeOK, AttemptsLeft, Answer
<1>6. QED
  BY <1>1, <1>3, <1>4, <1>5 DEF Kept

\* Beginning again, or giving up, keeps the types too.
LEMMA RetryType ==
  ASSUME TypeInv, NEW r \in Requests, Retry(r), UNCHANGED tries
  PROVE  Kept
<1>1. "start" \in PcType /\ "serialization" \in PcType
  BY DEF PcType, Answers
<1>2. CASE tries[r] < bookTripAttempts
  BY <1>1, <1>2, AnswerType DEF Retry
<1>3. CASE ~(tries[r] < bookTripAttempts)
  BY <1>1, <1>3, AnswerType DEF Retry
<1>4. QED
  BY <1>2, <1>3

(***************************************************************************)
(* The rows that fund a stay are rows of the entry table, finitely many.   *)
(***************************************************************************)
LEMMA LotsType ==
  ASSUME NEW d \in DB, IsFiniteSet(d.entries)
  PROVE  LotsIn(d) \subseteq Lot /\ IsFiniteSet(LotsIn(d))
<1>1. LotRows(d) \in SUBSET d.entries /\ d.entries \subseteq Entry
  BY DEF LotRows, DB
<1>2. IsFiniteSet(LotRows(d))
  BY <1>1, FS_Subset
<1>3. LotsIn(d) \subseteq Lot
  BY <1>1 DEF LotsIn, LotOf, Lot, Entry
<1>4. IsFiniteSet(LotsIn(d))
  <2> DEFINE lotOf == [e \in LotRows(d) |-> LotOf(e)]
  <2>1. LotsIn(d) = {lotOf[e] : e \in LotRows(d)}
    BY DEF LotsIn
  <2> HIDE DEF lotOf
  <2>2. QED
    BY <2>1, <1>2, ImageFinite
<1>5. QED
  BY <1>3, <1>4

(***************************************************************************)
(* Sums over the rows of the ledger: they are natural numbers, a part sums *)
(* to no more than the whole, and two parts to their sum.                  *)
(***************************************************************************)
UsedOf == [e \in Entry |-> e.used]
AllottedOf == [e \in Entry |-> e.allotted]

\* The sums over rows are sums of one function of all rows.
LEMMA RowSums ==
  ASSUME NEW rows \in SUBSET Entry
  PROVE  /\ Used(rows) = SumOver(UsedOf, rows)
         /\ Allotted(rows) = SumOver(AllottedOf, rows)
         /\ \A e \in rows : UsedOf[e] = e.used /\ UsedOf[e] \in Nat
         /\ \A e \in rows : AllottedOf[e] = e.allotted /\ AllottedOf[e] \in Nat
<1>1. \A e \in rows : /\ e \in Entry /\ e.used \in Nat /\ e.allotted \in Nat
                      /\ UsedOf[e] = e.used /\ AllottedOf[e] = e.allotted
  BY DEF UsedOf, AllottedOf, Entry
<1>2. Used(rows) = SumOver(UsedOf, rows)
  <2> DEFINE f == [e \in rows |-> e.used]
  <2>1. \A e \in rows : f[e] = UsedOf[e]
    BY <1>1
  <2> HIDE DEF f
  <2>2. SumOver(f, rows) = SumOver(UsedOf, rows)
    BY <2>1, SumCongruent
  <2>3. QED
    BY <2>2 DEF Used, f
<1>3. Allotted(rows) = SumOver(AllottedOf, rows)
  <2> DEFINE f == [e \in rows |-> e.allotted]
  <2>1. \A e \in rows : f[e] = AllottedOf[e]
    BY <1>1
  <2> HIDE DEF f
  <2>2. SumOver(f, rows) = SumOver(AllottedOf, rows)
    BY <2>1, SumCongruent
  <2>3. QED
    BY <2>2 DEF Allotted, f
<1>4. QED
  BY <1>1, <1>2, <1>3

\* The sums of finitely many rows are natural numbers.
LEMMA RowSumType ==
  ASSUME NEW rows \in SUBSET Entry, IsFiniteSet(rows)
  PROVE  Used(rows) \in Nat /\ Allotted(rows) \in Nat
<1>1. SumOver(UsedOf, rows) \in Nat /\ SumOver(AllottedOf, rows) \in Nat
  BY RowSums, SumType
<1>2. QED
  BY <1>1, RowSums

\* Fewer rows use no more.
LEMMA UsedInPart ==
  ASSUME NEW rows \in SUBSET Entry, IsFiniteSet(rows), NEW part \in SUBSET rows
  PROVE  Used(part) <= Used(rows)
<1>1. part \in SUBSET Entry
  OBVIOUS
<1>2. SumOver(UsedOf, part) <= SumOver(UsedOf, rows)
  BY RowSums, SumMonotone
<1>3. QED
  BY <1>1, <1>2, RowSums

\* Rows of two sets use at most what each of them uses.
LEMMA UsedInTwo ==
  ASSUME NEW rows \in SUBSET Entry, IsFiniteSet(rows),
         NEW more \in SUBSET Entry, IsFiniteSet(more)
  PROVE  /\ Used(rows \cup more) <= Used(rows) + Used(more)
         /\ rows \cap more = {} => Used(rows \cup more) = Used(rows) + Used(more)
<1> DEFINE new == more \ rows
<1>1. /\ new \in SUBSET Entry /\ rows \cup more = rows \cup new
      /\ rows \cap new = {} /\ new \in SUBSET more
      /\ rows \cap more = {} => new = more
  OBVIOUS
<1>2. IsFiniteSet(new)
  BY <1>1, FS_Subset
<1> HIDE DEF new
<1>3. Used(rows \cup new) = Used(rows) + Used(new)
  <2>1. rows \cup new \in SUBSET Entry
    BY <1>1
  <2>2. SumOver(UsedOf, rows \cup new) = SumOver(UsedOf, rows) + SumOver(UsedOf, new)
    <3>1. \A e \in rows \cup new : UsedOf[e] \in Nat
      BY <2>1, RowSums
    <3>2. QED
      BY <1>1, <1>2, <3>1, SumDisjoint
  <2>3. QED
    BY <1>1, <2>1, <2>2, RowSums
<1>4. Used(new) <= Used(more)
  BY <1>1, UsedInPart
<1>5. Used(rows) \in Nat /\ Used(new) \in Nat /\ Used(more) \in Nat
  BY <1>1, <1>2, RowSumType
<1>6. QED
  BY <1>1, <1>3, <1>4, <1>5

\* A balance is a whole number.
LEMMA BalanceType ==
  ASSUME NEW d \in DB, IsFiniteSet(d.entries),
         NEW own \in SUBSET Entry, IsFiniteSet(own), NEW lot
  PROVE  Balance(d, own, lot) \in Int
<1> DEFINE A == Against(LotRows(d), lot)
           U == Against(d.entries \cup own, lot)
<1>1. A \in SUBSET d.entries /\ U \in SUBSET (d.entries \cup own) /\ d.entries \subseteq Entry
  BY DEF Against, LotRows, DB
<1>2. IsFiniteSet(d.entries \cup own)
  BY FS_Union
<1>3. IsFiniteSet(A) /\ IsFiniteSet(U)
  BY <1>1, <1>2, FS_Subset
<1>4. A \subseteq Entry /\ U \subseteq Entry
  BY <1>1
<1> HIDE DEF A, U
<1>5. Allotted(A) \in Nat /\ Used(U) \in Nat
  BY <1>3, <1>4, RowSumType
<1>6. QED
  BY <1>5 DEF Balance, A, U

\* The rows of one turn of the loop: finitely many, of the right type, one per id.
LEMMA UsageRowsType ==
  ASSUME TypeInv, NEW r \in Requests, NEW s \in Stays
  PROVE  LET rows == {UsageRow(r, s, draw) : draw \in Draws(r, s)} IN
         /\ rows \subseteq Entry
         /\ IsFiniteSet(rows)
         /\ \A e, f \in rows : e.id = f.id => e = f
<1> DEFINE left == Left(tx[r].snap, tx[r].rows)
           rows == {UsageRow(r, s, draw) : draw \in Draws(r, s)}
<1>1. /\ tx[r].snap \in DB /\ IsFiniteSet(tx[r].snap.entries)
      /\ tx[r].rows \in SUBSET Entry /\ IsFiniteSet(tx[r].rows)
  BY DEF TypeInv, TypeOK, Finite, Tx
<1>2. DOMAIN left = LotsIn(tx[r].snap)
  BY DEF Left
<1>3. IsFiniteSet(DOMAIN left) /\ DOMAIN left \subseteq Lot
  BY <1>1, <1>2, LotsType
<1>4. \A lot \in DOMAIN left : left[lot] \in Int
  <2>1. \A lot \in LotsIn(tx[r].snap) : Balance(tx[r].snap, tx[r].rows, lot) \in Int
    BY <1>1, BalanceType
  <2>2. QED
    BY <2>1 DEF Left
<1>5. Price[s] \in Int /\ s \in Nat
  BY RowsAssumption
<1> HIDE DEF left
<1>6. /\ IsFiniteSet(Draws(r, s))
      /\ \A draw \in Draws(r, s) : draw.lot \in Lot /\ draw.points \in Nat
      /\ \A a, b \in Draws(r, s) : a.lot = b.lot => a = b
  <2>1. Draws(r, s) = AllocateStayPoints(MonthsIn(tx[r].snap), left, CheckIn[s], Price[s])
    BY DEF Draws, left
  <2>2. QED
    BY <2>1, <1>3, <1>4, <1>5, DrawsWithinLots
<1>7. rows \subseteq Entry
  BY <1>5, <1>6 DEF UsageRow, Entry, EntryId, Lot
<1>8. IsFiniteSet(rows)
  <2> DEFINE g == [draw \in Draws(r, s) |-> UsageRow(r, s, draw)]
  <2>1. rows = {g[draw] : draw \in Draws(r, s)}
    OBVIOUS
  <2> HIDE DEF g, rows
  <2>2. QED
    BY <2>1, <1>6, ImageFinite
<1>9. \A e, f \in rows : e.id = f.id => e = f
  BY <1>6 DEF UsageRow
<1>10. QED
  BY <1>7, <1>8, <1>9

\* Every lock a request has yet to take is a lock on some row.
LEMMA LocksType ==
  ASSUME TypeInv, NEW r \in Requests
  PROVE  ToLock(r) \subseteq Lock
<1>1. db \in DB /\ tx[r].snap \in DB
  BY DEF TypeInv, TypeOK, Tx
<1>2. CASE pc[r] = "lock"
  <2>1. ToLock(r) \subseteq SnapshotLocks(tx[r].snap)
    BY <1>2, Zenon DEF ToLock
  <2>2. tx[r].snap.contracts \subseteq Contracts /\ Ids(LotRows(tx[r].snap)) \subseteq EntryId
    BY <1>1 DEF DB, Ids, LotRows, Entry
  <2>3. SnapshotLocks(tx[r].snap) \subseteq Lock
    BY <2>2 DEF SnapshotLocks, Locks, Lock, Strengths
  <2>4. QED
    BY <2>1, <2>3
<1>3. CASE pc[r] = "deleting"
  <2>1. ToLock(r) \subseteq EntryLocks(tx[r].gone)
    BY <1>3, Zenon DEF ToLock
  <2>2. Ids(db.entries) \subseteq EntryId /\ EntryIdsOf(db, Stays) \subseteq EntryId
    BY <1>1 DEF DB, Ids, EntryIdsOf, Entry
  <2>3. EntryLocks(tx[r].gone) \subseteq Lock
    BY <2>2 DEF EntryLocks, Locks, Lock, Strengths
  <2>4. QED
    BY <2>1, <2>3
<1>4. CASE pc[r] = "cascading"
  <2> DEFINE stays == DeletedStays(db, job[r])
             trips == DeletedTrips(job[r])
  <2>1. ToLock(r) \subseteq CascadeLocks(trips, stays)
    BY <1>4, Zenon DEF ToLock
  <2>2. stays \subseteq Stays
    BY <1>1 DEF DB, DeletedStays
  <2> HIDE DEF stays, trips
  <2>3. EntryIdsOf(db, stays) \subseteq EntryId /\ trips \cap db.trips \subseteq Trips
    BY <1>1 DEF DB, EntryIdsOf
  <2>4. CascadeLocks(trips, stays) \subseteq Lock
    BY <2>2, <2>3 DEF CascadeLocks, Locks, Lock, Strengths
  <2>5. QED
    BY <2>1, <2>4
<1>5. CASE pc[r] = "nulling"
  <2>1. ToLock(r) \subseteq Locks("noKeyUpdate", "entry", Ids(Orphaned(r)))
    BY <1>5, Zenon DEF ToLock
  <2>2. Ids(Orphaned(r)) \subseteq EntryId
    BY <1>1 DEF DB, Ids, Orphaned, Entry
  <2>3. QED
    BY <2>1, <2>2 DEF Locks, Lock, Strengths
<1>6. CASE pc[r] \notin {"lock", "deleting", "cascading", "nulling"}
  BY <1>6, Zenon DEF ToLock
<1>7. QED
  BY <1>2, <1>3, <1>4, <1>5, <1>6

(***************************************************************************)
(* Each action keeps the types.                                            *)
(***************************************************************************)
LEMMA KeptType ==
  ASSUME TypeInv, Kept, db' \in DB, IsFiniteSet(db'.entries), UNCHANGED <<job, tries>>,
         issued' \in [trips : SUBSET Trips, stays : SUBSET Stays]
  PROVE  TypeInv'
BY DEF TypeInv, TypeOK, Finite, AttemptsLeft, Kept, PcType

(***************************************************************************)
(* A quiet step leaves the tables alone: it takes locks that are free, or  *)
(* begins the next statement of its transaction.                           *)
(***************************************************************************)
Quiet(r, from, to) ==
  /\ UNCHANGED <<db, issued, job, tries>>
  /\ pc[r] = from /\ pc' = [pc EXCEPT ![r] = to]
  /\ \E locks \in SUBSET Lock : Hold(r, locks) /\ \A l \in locks : Free(r, l)

QuietMoves ==
  {<<"lock", "lock">>, <<"lock", "fund">>, <<"deleting", "deleting">>,
   <<"deleting", "cascading">>, <<"cascading", "cascading">>, <<"nulling", "nulling">>,
   <<"checking", "linking">>, <<"linking", "linking">>}

\* What a quiet step of r changes.
LEMMA QuietTx ==
  ASSUME TypeInv, NEW r \in Requests, NEW m \in QuietMoves, Quiet(r, m[1], m[2])
  PROVE  /\ pc[r] = m[1] /\ pc'[r] = m[2]
         /\ \A q \in Requests \ {r} : pc'[q] = pc[q] /\ tx'[q] = tx[q]
         /\ tx'[r].snap = tx[r].snap /\ tx'[r].rows = tx[r].rows
         /\ tx'[r].links = tx[r].links /\ tx'[r].gone = tx[r].gone
         /\ tx'[r].overtaken = tx[r].overtaken
         /\ tx' \in [Requests -> Tx]
         /\ tx[r].locks \subseteq tx'[r].locks
         /\ \A l \in tx'[r].locks \ tx[r].locks : Free(r, l)
<1>1. pc \in [Requests -> PcType] /\ tx \in [Requests -> Tx]
  BY DEF TypeInv, TypeOK, PcType
<1>2. PICK locks \in SUBSET Lock :
        tx' = [tx EXCEPT ![r].locks = @ \cup locks] /\ \A l \in locks : Free(r, l)
  BY DEF Quiet, Hold
<1>3. pc[r] = m[1] /\ pc' = [pc EXCEPT ![r] = m[2]]
  BY DEF Quiet
<1>4. tx'[r] = [tx[r] EXCEPT !.locks = @ \cup locks]
      /\ \A q \in Requests \ {r} : tx'[q] = tx[q]
  BY <1>1, <1>2
<1>5. tx[r] \in Tx /\ tx[r].locks \cup locks \subseteq Lock
  BY <1>1 DEF Tx
<1>6. tx'[r] \in Tx
  BY <1>4, <1>5 DEF Tx
<1>7. tx' \in [Requests -> Tx]
  BY <1>1, <1>2, <1>6
<1>8. /\ tx'[r].snap = tx[r].snap /\ tx'[r].rows = tx[r].rows
      /\ tx'[r].links = tx[r].links /\ tx'[r].gone = tx[r].gone
      /\ tx'[r].overtaken = tx[r].overtaken
      /\ tx'[r].locks = tx[r].locks \cup locks
  BY <1>4, <1>5 DEF Tx
<1>9. QED
  BY <1>1, <1>2, <1>3, <1>4, <1>7, <1>8

\* The steps that are quiet, or else fail.
LockStep(r) ==
  LockLots(r) \/ ReadUsage(r) \/ LockRow(r) \/ DeleteRest(r) \/ ImportInsert(r) \/ ImportLink(r)

LEMMA LockSteps ==
  ASSUME TypeInv, NEW r \in Requests, LockStep(r)
  PROVE  /\ UNCHANGED <<db, issued, job, tries>>
         /\ \/ \E m \in QuietMoves : Quiet(r, m[1], m[2])
            \/ LockLots(r) /\ pc[r] = "lock" /\ Retry(r)
            \/ ImportLink(r) /\ pc[r] = "linking" /\ Answer(r, "rejected")
<1>1. pc \in [Requests -> PcType] /\ tx \in [Requests -> Tx]
  BY DEF TypeInv, TypeOK, PcType
<1>2. ASSUME NEW l \in NextLocks(r), Free(r, l), Hold(r, {l}), UNCHANGED pc
      PROVE  \E locks \in SUBSET Lock : Hold(r, locks) /\ \A k \in locks : Free(r, k)
  <2>1. l \in Lock
    BY <1>2, LocksType DEF NextLocks
  <2>2. QED
    BY <1>2, <2>1
<1>3. ASSUME UNCHANGED pc, NEW from, pc[r] = from
      PROVE  pc' = [pc EXCEPT ![r] = from]
  BY <1>1, <1>3
<1>4. ASSUME UNCHANGED tx
      PROVE  \E locks \in SUBSET Lock : Hold(r, locks) /\ \A k \in locks : Free(r, k)
  <2>1. tx[r] = [tx[r] EXCEPT !.locks = @ \cup {}]
    <3>1. tx[r] \in Tx /\ tx[r].locks \cup {} = tx[r].locks
      BY <1>1
    <3>2. tx[r] = [tx[r] EXCEPT !.locks = @]
      BY <3>1 DEF Tx
    <3>3. QED
      BY <3>1, <3>2
  <2>2. tx' = [tx EXCEPT ![r].locks = @ \cup {}]
    BY <1>1, <1>4, <2>1
  <2>3. Hold(r, {}) /\ {} \in SUBSET Lock
    BY <2>2 DEF Hold
  <2>4. QED
    BY <2>3
<1>5. CASE LockLots(r)
  <2>1. PICK l \in NextLocks(r) : /\ Free(r, l)
                                  /\ Retry(r) \/ (Hold(r, {l}) /\ UNCHANGED pc)
    BY <1>5, Zenon DEF LockLots
  <2>2. pc[r] = "lock" /\ UNCHANGED <<db, issued, job, tries>>
    BY <1>5 DEF LockLots
  <2>3. Retry(r) \/ Quiet(r, "lock", "lock")
    BY <1>2, <1>3, <2>1, <2>2 DEF Quiet
  <2>4. QED
    BY <1>5, <2>2, <2>3 DEF QuietMoves
<1>6. CASE ReadUsage(r)
  <2>1. Quiet(r, "lock", "fund")
    BY <1>4, <1>6 DEF ReadUsage, Quiet
  <2>2. QED
    BY <1>6, <2>1 DEF QuietMoves, ReadUsage
<1>7. CASE LockRow(r)
  <2>1. PICK l \in NextLocks(r) : Free(r, l) /\ Hold(r, {l})
    BY <1>7 DEF LockRow
  <2>2. pc[r] \in {"deleting", "cascading", "nulling"} /\ UNCHANGED <<db, issued, job, pc, tries>>
    BY <1>7 DEF LockRow
  <2>3. Quiet(r, pc[r], pc[r])
    BY <1>2, <1>3, <2>1, <2>2 DEF Quiet
  <2>4. QED
    BY <2>2, <2>3 DEF QuietMoves
<1>8. CASE DeleteRest(r)
  <2>1. Quiet(r, "deleting", "cascading")
    BY <1>4, <1>8 DEF DeleteRest, Quiet
  <2>2. QED
    BY <1>8, <2>1 DEF QuietMoves, DeleteRest
<1>9. CASE ImportInsert(r)
  <2>1. Quiet(r, "checking", "linking")
    BY <1>4, <1>9 DEF ImportInsert, Quiet
  <2>2. QED
    BY <1>9, <2>1 DEF QuietMoves, ImportInsert
<1>10. CASE ImportLink(r)
  <2>1. pc[r] = "linking" /\ UNCHANGED <<db, issued, job, tries>>
    BY <1>10 DEF ImportLink
  <2>2. PICK l \in ToLink(r) :
          /\ \A k \in LinkLocks(l) : Free(r, k)
          /\ Answer(r, "rejected") \/ (Hold(r, LinkLocks(l)) /\ UNCHANGED pc)
    BY <1>10, Zenon DEF ImportLink
  <2>3. LinkLocks(l) \in SUBSET Lock
    <3>1. l[2] \in EntryId
      BY <1>1 DEF ToLink, Tx
    <3>2. QED
      BY <3>1 DEF LinkLocks, Lock, Strengths
  <2>4. Answer(r, "rejected") \/ Quiet(r, "linking", "linking")
    BY <1>3, <2>1, <2>2, <2>3 DEF Quiet
  <2>5. QED
    BY <1>10, <2>1, <2>4 DEF QuietMoves
<1>11. QED
  BY <1>5, <1>6, <1>7, <1>8, <1>9, <1>10 DEF LockStep

\* BookBegin: GetTrip takes the snapshot or answers.
LEMMA TypeBookBegin ==
  ASSUME TypeInv, NEW r \in Requests, BookBegin(r)
  PROVE  TypeInv'
<1>1. db' = db /\ issued' = issued /\ job' = job /\ pc[r] = "start"
  BY DEF BookBegin
<1>2. tries' \in [Requests -> 0..bookTripAttempts]
      /\ \A q \in Requests \ {r} : tries'[q] = tries[q]
  BY <1>1 DEF BookBegin, TypeInv, TypeOK, AttemptsLeft, bookTripAttempts
<1>3. CASE job[r].trip \in db.trips
  <2>1. tx' = [tx EXCEPT ![r].snap = db] /\ pc' = [pc EXCEPT ![r] = "lock"]
    BY <1>3 DEF BookBegin
  <2>2. tx' \in [Requests -> Tx] /\ pc' \in [Requests -> PcType]
    BY <2>1 DEF TypeInv, TypeOK, Tx, PcType, InTx
  <2>3. \A q \in Requests : IsFiniteSet(tx'[q].snap.entries) /\ IsFiniteSet(tx'[q].rows)
    BY <2>1 DEF TypeInv, TypeOK, Finite, Tx
  <2>4. AttemptsLeft'
    BY <2>1, <1>2 DEF TypeInv, TypeOK, AttemptsLeft
  <2>5. QED
    BY <1>1, <1>2, <2>2, <2>3, <2>4 DEF TypeInv, TypeOK, Finite, PcType
<1>4. CASE job[r].trip \notin db.trips
  <2>1. Answer(r, "notFound")
    BY <1>4 DEF BookBegin
  <2>2. pc' \in [Requests -> PcType] /\ pc'[r] = "notFound"
        /\ \A q \in Requests \ {r} : pc'[q] = pc[q]
    BY <2>1 DEF TypeInv, TypeOK, Answer, PcType, Answers
  <2>3. tx' \in [Requests -> Tx]
    BY <2>1, NoTxType DEF TypeInv, TypeOK, Answer
  <2>4. \A q \in Requests : IsFiniteSet(tx'[q].snap.entries) /\ IsFiniteSet(tx'[q].rows)
    BY <2>1, NoTxType DEF TypeInv, TypeOK, Finite, Answer
  <2>5. AttemptsLeft'
    BY <2>2, <1>2 DEF TypeInv, AttemptsLeft
  <2>6. QED
    BY <1>1, <1>2, <2>2, <2>3, <2>4, <2>5 DEF TypeInv, TypeOK, Finite, PcType
<1>5. QED
  BY <1>3, <1>4

\* LockStep: a lock, or the next statement, or the attempt ends.
LEMMA TypeLockStep ==
  ASSUME TypeInv, NEW r \in Requests, LockStep(r)
  PROVE  TypeInv'
<1>1. UNCHANGED <<db, issued, job, tries>>
  BY LockSteps
<1>2. ASSUME NEW m \in QuietMoves, Quiet(r, m[1], m[2])
      PROVE  TypeInv'
  <2>1. m[2] \in PcType /\ m[2] # "start"
    BY DEF QuietMoves, PcType, InTx
  <2>2. pc' = [pc EXCEPT ![r] = m[2]]
    BY <1>2 DEF Quiet
  <2>3. Kept
    BY <1>1, <1>2, <2>1, <2>2, QuietTx
    DEF Kept, TypeInv, TypeOK, Finite, AttemptsLeft, PcType
  <2>4. QED
    BY <1>1, <2>3, KeptType DEF TypeInv, TypeOK, Finite
<1>3. CASE Retry(r)
  BY <1>1, <1>3, RetryType, KeptType DEF TypeInv, TypeOK, Finite
<1>4. CASE Answer(r, "rejected")
  <2>1. "rejected" \in PcType /\ "rejected" # "start"
    BY DEF PcType, Answers
  <2>2. QED
    BY <1>1, <1>4, <2>1, AnswerType, KeptType DEF TypeInv, TypeOK, Finite
<1>5. QED
  BY <1>2, <1>3, <1>4, LockSteps

\* A turn of the loop over the stays.
LEMMA FundCases ==
  ASSUME NEW r \in Requests, FundStay(r)
  PROVE  /\ pc[r] = "fund" /\ UNCHANGED <<db, issued, job, tries>>
         /\ \E s \in NextStay(r) :
              \/ ~CanFund(r, s) /\ Answer(r, "insufficient")
              \/ s \notin db.stays /\ Retry(r)
              \/ /\ CanFund(r, s) /\ s \in db.stays /\ Free(r, <<"keyShare", "stay", s>>)
                 /\ InsertDraws(r, s, {UsageRow(r, s, draw) : draw \in Draws(r, s)})
                 /\ UNCHANGED pc
<1>1. pc[r] = "fund" /\ UNCHANGED <<issued, job, tries>>
  BY DEF FundStay
<1>2. PICK s \in NextStay(r) :
        \/ ~CanFund(r, s) /\ Answer(r, "insufficient") /\ UNCHANGED db
        \/ s \notin db.stays /\ Retry(r) /\ UNCHANGED db
        \/ /\ CanFund(r, s) /\ s \in db.stays /\ Free(r, <<"keyShare", "stay", s>>)
           /\ InsertDraws(r, s, {UsageRow(r, s, draw) : draw \in Draws(r, s)})
           /\ UNCHANGED pc
  BY Zenon DEF FundStay
<1>3. UNCHANGED db
  BY <1>2 DEF InsertDraws
<1>4. QED
  BY <1>1, <1>2, <1>3

\* What inserting the rows of a stay changes.
LEMMA InsertedDraws ==
  ASSUME TypeInv, NEW r \in Requests, NEW s \in Stays, NEW rows \in SUBSET Entry,
         InsertDraws(r, s, rows)
  PROVE  /\ tx'[r].snap = tx[r].snap /\ tx'[r].gone = tx[r].gone
         /\ tx'[r].overtaken = tx[r].overtaken
         /\ tx'[r].rows = tx[r].rows \cup rows
         /\ tx'[r].links = tx[r].links \cup LinksTo(s, rows)
         /\ tx'[r].locks = tx[r].locks \cup {<<"keyShare", "stay", s>>}
         /\ \A q \in Requests \ {r} : tx'[q] = tx[q]
         /\ tx' \in [Requests -> Tx]
<1> DEFINE links == LinksTo(s, rows)
           lock == <<"keyShare", "stay", s>>
<1>1. links \subseteq Stays \X EntryId
  BY DEF LinksTo, Entry
<1>2. lock \in Lock
  BY DEF Lock, Strengths
<1>3. tx \in [Requests -> Tx] /\ tx[r] \in Tx
  BY DEF TypeInv, TypeOK
<1>4. tx' = [tx EXCEPT ![r].rows = @ \cup rows, ![r].links = @ \cup links,
                       ![r].locks = @ \cup {lock}]
  BY DEF InsertDraws
<1> HIDE DEF links, lock
<1>5. tx'[r] = [tx[r] EXCEPT !.rows = @ \cup rows, !.links = @ \cup links,
                             !.locks = @ \cup {lock}]
      /\ \A q \in Requests \ {r} : tx'[q] = tx[q]
  BY <1>3, <1>4
<1>6. /\ tx'[r].snap = tx[r].snap /\ tx'[r].gone = tx[r].gone
      /\ tx'[r].overtaken = tx[r].overtaken
      /\ tx'[r].rows = tx[r].rows \cup rows
      /\ tx'[r].links = tx[r].links \cup links
      /\ tx'[r].locks = tx[r].locks \cup {lock}
  BY <1>3, <1>5 DEF Tx
<1>7. tx'[r] \in Tx
  <2> DEFINE R == tx[r].rows \cup rows
             L == tx[r].links \cup links
             K == tx[r].locks \cup {lock}
  <2>1. R \in SUBSET Entry /\ L \in SUBSET (Stays \X EntryId) /\ K \in SUBSET Lock
    BY <1>1, <1>2, <1>3 DEF Tx
  <2>2. tx'[r] = [tx[r] EXCEPT !.rows = R, !.links = L, !.locks = K]
    BY <1>5
  <2> HIDE DEF R, L, K
  <2>3. QED
    BY <1>3, <2>1, <2>2, TxType
<1>8. tx' \in [Requests -> Tx]
  BY <1>3, <1>4, <1>7
<1>9. QED
  BY <1>5, <1>6, <1>8 DEF links, lock

\* FundStay: the rows and links of the draws join the transaction.
LEMMA TypeFundStay ==
  ASSUME TypeInv, NEW r \in Requests, FundStay(r)
  PROVE  TypeInv'
<1>1. UNCHANGED <<db, issued, job, tries>>
  BY FundCases
<1>2. PICK s \in ToFund(r) :
        \/ Answer(r, "insufficient")
        \/ Retry(r)
        \/ InsertDraws(r, s, {UsageRow(r, s, draw) : draw \in Draws(r, s)}) /\ UNCHANGED pc
  BY FundCases DEF NextStay
<1>3. CASE Answer(r, "insufficient")
  <2>1. "insufficient" \in PcType /\ "insufficient" # "start"
    BY DEF PcType, Answers
  <2>2. QED
    BY <1>1, <1>3, <2>1, AnswerType, KeptType DEF TypeInv, TypeOK, Finite
<1>4. CASE Retry(r)
  BY <1>1, <1>4, RetryType, KeptType DEF TypeInv, TypeOK, Finite
<1>5. CASE InsertDraws(r, s, {UsageRow(r, s, draw) : draw \in Draws(r, s)}) /\ UNCHANGED pc
  <2> DEFINE rows == {UsageRow(r, s, draw) : draw \in Draws(r, s)}
  <2>1. tx[r].snap \in DB
    BY DEF TypeInv, TypeOK, Tx
  <2>2. s \in Stays
    BY <2>1 DEF ToFund, Unbooked, StaysOf, DB
  <2>3. rows \in SUBSET Entry /\ IsFiniteSet(rows)
    BY <2>2, UsageRowsType
  <2>4. InsertDraws(r, s, rows)
    BY <1>5
  <2> HIDE DEF rows
  <2>5. IsFiniteSet(tx[r].rows \cup rows)
    BY <2>3, FS_Union DEF TypeInv, Finite
  <2>6. /\ tx'[r].snap = tx[r].snap /\ tx'[r].rows = tx[r].rows \cup rows
        /\ \A q \in Requests \ {r} : tx'[q] = tx[q]
        /\ tx' \in [Requests -> Tx]
    BY <2>2, <2>3, <2>4, InsertedDraws
  <2>7. \A q \in Requests : IsFiniteSet(tx'[q].snap.entries) /\ IsFiniteSet(tx'[q].rows)
    BY <2>5, <2>6 DEF TypeInv, Finite
  <2>8. Kept
    BY <1>1, <1>5, <2>6, <2>7 DEF Kept, TypeInv, TypeOK, AttemptsLeft, PcType
  <2>9. QED
    BY <1>1, <2>8, KeptType DEF TypeInv, TypeOK, Finite
<1>6. QED
  BY <1>2, <1>3, <1>4, <1>5

\* BookCommit: the rows and links join the tables.
LEMMA TypeBookCommit ==
  ASSUME TypeInv, NEW r \in Requests, BookCommit(r)
  PROVE  TypeInv'
<1>1. UNCHANGED <<issued, job, tries>>
  BY DEF BookCommit
<1>2. CASE Retry(r) /\ UNCHANGED db
  BY <1>1, <1>2, RetryType, KeptType DEF TypeInv, TypeOK, Finite
<1>3. CASE ~LostRace(r)
  <2>1. /\ db' = [db EXCEPT !.entries = @ \cup tx[r].rows, !.links = @ \cup tx[r].links]
        /\ pc' = [pc EXCEPT ![r] = "ok"]
        /\ tx' = [q \in Requests |->
                    IF q = r THEN NoTx
                    ELSE [tx[q] EXCEPT !.overtaken =
                            @ \/ (pc[q] \in {"lock", "fund"} /\ tx[r].rows # {})]]
    BY <1>3, Zenon DEF BookCommit
  <2>2. /\ tx[r].rows \subseteq Entry /\ tx[r].links \subseteq Stays \X EntryId
        /\ IsFiniteSet(tx[r].rows)
    BY DEF TypeInv, TypeOK, Finite, Tx
  <2>3. db' \in DB
    BY <2>1, <2>2 DEF TypeInv, TypeOK, DB
  <2>4. IsFiniteSet(db'.entries)
    <3>1. IsFiniteSet(db.entries \cup tx[r].rows)
      BY <2>2, FS_Union DEF TypeInv, Finite
    <3>2. db'.entries = db.entries \cup tx[r].rows
      BY <2>1 DEF TypeInv, TypeOK, DB
    <3>3. QED
      BY <3>1, <3>2
  <2>5. \A q \in Requests : /\ tx'[q] \in Tx
                            /\ IsFiniteSet(tx'[q].snap.entries) /\ IsFiniteSet(tx'[q].rows)
    <3>1. SUFFICES ASSUME NEW q \in Requests
                   PROVE  /\ tx'[q] \in Tx
                          /\ IsFiniteSet(tx'[q].snap.entries) /\ IsFiniteSet(tx'[q].rows)
      OBVIOUS
    <3>2. CASE q = r
      BY <2>1, <3>2, NoTxType
    <3>3. CASE q # r
      <4> DEFINE b == tx[q].overtaken \/ (pc[q] \in {"lock", "fund"} /\ tx[r].rows # {})
      <4>1. tx'[q] = [tx[q] EXCEPT !.overtaken = b]
        BY <2>1, <3>3
      <4>2. b \in BOOLEAN
        OBVIOUS
      <4> HIDE DEF b
      <4>3. tx[q] \in Tx
        BY DEF TypeInv, TypeOK
      <4>4. tx'[q] \in Tx /\ tx'[q].snap = tx[q].snap /\ tx'[q].rows = tx[q].rows
        BY <4>1, <4>2, <4>3 DEF Tx
      <4>5. QED
        BY <4>4 DEF TypeInv, Finite
    <3>4. QED
      BY <3>2, <3>3
  <2>6. tx' \in [Requests -> Tx]
    BY <2>1, <2>5
  <2>7. Kept
    BY <1>1, <2>1, <2>5, <2>6 DEF Kept, TypeInv, TypeOK, AttemptsLeft, PcType, Answers
  <2>8. QED
    BY <1>1, <2>3, <2>4, <2>7, KeptType DEF TypeInv, TypeOK
<1>4. QED
  BY <1>2, <1>3 DEF BookCommit

\* DeleteEntries: the ids found become those to delete.
LEMMA TypeDeleteEntries ==
  ASSUME TypeInv, NEW r \in Requests, DeleteEntries(r)
  PROVE  TypeInv'
<1> DEFINE ids == EntryIdsOf(db, {s \in db.stays : Named(job[r], s)})
<1>1. /\ UNCHANGED <<db, issued, job, tries>>
      /\ tx' = [tx EXCEPT ![r].gone = ids] /\ pc' = [pc EXCEPT ![r] = "deleting"]
  BY DEF DeleteEntries
<1>2. ids \subseteq EntryId
  BY DEF TypeInv, TypeOK, DB, EntryIdsOf
<1> HIDE DEF ids
<1>3. tx' \in [Requests -> Tx]
  BY <1>1, <1>2 DEF TypeInv, TypeOK, Tx
<1>4. \A q \in Requests : tx'[q].snap = tx[q].snap /\ tx'[q].rows = tx[q].rows
  BY <1>1 DEF TypeInv, TypeOK, Tx
<1>5. Kept
  BY <1>1, <1>3, <1>4 DEF Kept, TypeInv, TypeOK, Finite, AttemptsLeft, PcType, InTx
<1>6. QED
  BY <1>1, <1>5, KeptType DEF TypeInv, TypeOK, Finite

(***************************************************************************)
(* Taking rows out of the tables leaves tables.                            *)
(***************************************************************************)
LEMMA WithoutType ==
  ASSUME NEW d \in DB, IsFiniteSet(d.entries), NEW ids, NEW stays, NEW trips
  PROVE  Without(d, ids, stays, trips) \in DB
         /\ IsFiniteSet(Without(d, ids, stays, trips).entries)
<1>1. Without(d, ids, stays, trips) \in DB
  BY DEF Without, DB
<1>2. Without(d, ids, stays, trips).entries \in SUBSET d.entries
  BY DEF Without, DB
<1>3. QED
  BY <1>1, <1>2, FS_Subset

\* Answers are values of pc.
LEMMA AnswersArePc == Answers \subseteq PcType /\ "start" \notin Answers
BY DEF PcType, Answers

\* DeleteCommit: rows are taken out.
LEMMA TypeDeleteCommit ==
  ASSUME TypeInv, NEW r \in Requests, DeleteCommit(r)
  PROVE  TypeInv'
<1>1. /\ UNCHANGED <<issued, job, tries>> /\ Answer(r, "ok")
      /\ db' = Without(db, tx[r].gone, DeletedStays(db, job[r]), DeletedTrips(job[r]))
  BY DEF DeleteCommit
<1>2. Kept
  BY <1>1, AnswerType, AnswersArePc DEF Answers
<1>3. db' \in DB /\ IsFiniteSet(db'.entries)
  BY <1>1, WithoutType DEF TypeInv, TypeOK, Finite
<1>4. QED
  BY <1>1, <1>2, <1>3, KeptType DEF TypeInv, TypeOK

ReadsRow(r, s, e) ==
  tx' = [tx EXCEPT ![r].rows = @ \cup {e}, ![r].links = @ \cup {<<s, e.id>>}]

\* What reading a row for an import changes.
LEMMA ImportedRow ==
  ASSUME TypeInv, NEW r \in Requests, NEW s \in Stays, NEW e \in Entry, ReadsRow(r, s, e)
  PROVE  /\ tx'[r].snap = tx[r].snap /\ tx'[r].gone = tx[r].gone
         /\ tx'[r].overtaken = tx[r].overtaken /\ tx'[r].locks = tx[r].locks
         /\ tx'[r].rows = tx[r].rows \cup {e}
         /\ tx'[r].links = tx[r].links \cup {<<s, e.id>>}
         /\ \A q \in Requests \ {r} : tx'[q] = tx[q]
         /\ tx' \in [Requests -> Tx]
<1> DEFINE l == <<s, e.id>>
<1>1. l \in Stays \X EntryId
  BY DEF Entry
<1>2. tx \in [Requests -> Tx] /\ tx[r] \in Tx
  BY DEF TypeInv, TypeOK
<1>3. tx' = [tx EXCEPT ![r].rows = @ \cup {e}, ![r].links = @ \cup {l}]
  BY DEF ReadsRow
<1> HIDE DEF l
<1>4. tx'[r] = [tx[r] EXCEPT !.rows = @ \cup {e}, !.links = @ \cup {l}]
      /\ \A q \in Requests \ {r} : tx'[q] = tx[q]
  BY <1>2, <1>3
<1>5. /\ tx'[r].snap = tx[r].snap /\ tx'[r].gone = tx[r].gone
      /\ tx'[r].overtaken = tx[r].overtaken /\ tx'[r].locks = tx[r].locks
      /\ tx'[r].rows = tx[r].rows \cup {e}
      /\ tx'[r].links = tx[r].links \cup {l}
  BY <1>2, <1>4 DEF Tx
<1>6. tx'[r] \in Tx
  <2> DEFINE R == tx[r].rows \cup {e}
             L == tx[r].links \cup {l}
             K == tx[r].locks
  <2>1. R \in SUBSET Entry /\ L \in SUBSET (Stays \X EntryId) /\ K \in SUBSET Lock
    BY <1>1, <1>2 DEF Tx
  <2>2. tx'[r] = [tx[r] EXCEPT !.rows = R, !.links = L, !.locks = K]
    BY <1>2, <1>4 DEF Tx
  <2> HIDE DEF R, L, K
  <2>3. QED
    BY <1>2, <2>1, <2>2, TxType
<1>7. tx' \in [Requests -> Tx]
  BY <1>2, <1>3, <1>6
<1>8. QED
  BY <1>4, <1>5, <1>7 DEF l

\* ImportCheck: a row is read and its link prepared.
LEMMA TypeImportCheck ==
  ASSUME TypeInv, NEW r \in Requests, ImportCheck(r)
  PROVE  TypeInv'
<1>1. UNCHANGED <<db, job, tries>>
  BY DEF ImportCheck
<1>2. CASE Answer(r, "rejected") /\ UNCHANGED issued
  <2>1. Kept
    BY <1>1, <1>2, AnswerType, AnswersArePc DEF Answers
  <2>2. QED
    BY <1>1, <1>2, <2>1, KeptType DEF TypeInv, TypeOK, Finite
<1>3. ASSUME NEW s \in Stays, NEW e \in db.entries,
             issued' = [issued EXCEPT !.stays = @ \cup {s}, !.trips = @ \cup {TripOf[s]}],
             tx' = [tx EXCEPT ![r].rows = @ \cup {e}, ![r].links = @ \cup {<<s, e.id>>}],
             pc' = [pc EXCEPT ![r] = "checking"]
      PROVE  TypeInv'
  <2>1. issued' \in [trips : SUBSET Trips, stays : SUBSET Stays]
    <3>1. TripOf[s] \in Trips
      BY RowsAssumption
    <3>2. issued.stays \subseteq Stays /\ issued.trips \subseteq Trips
      BY DEF TypeInv, TypeOK
    <3>3. issued' = [issued EXCEPT !.stays = issued.stays \cup {s},
                                   !.trips = issued.trips \cup {TripOf[s]}]
      BY <1>3
    <3>4. QED
      BY <3>1, <3>2, <3>3 DEF TypeInv, TypeOK
  <2>2. e \in Entry /\ e.id \in EntryId
    BY DEF TypeInv, TypeOK, DB, Entry
  <2>3. /\ tx'[r].snap = tx[r].snap /\ tx'[r].rows = tx[r].rows \cup {e}
        /\ \A q \in Requests \ {r} : tx'[q] = tx[q]
        /\ tx' \in [Requests -> Tx]
    BY <1>3, <2>2, ImportedRow DEF ReadsRow
  <2>4. IsFiniteSet(tx[r].rows \cup {e})
    BY FS_AddElement DEF TypeInv, Finite
  <2>5. \A q \in Requests : IsFiniteSet(tx'[q].snap.entries) /\ IsFiniteSet(tx'[q].rows)
    BY <2>3, <2>4 DEF TypeInv, Finite
  <2>6. Kept
    BY <1>1, <1>3, <2>3, <2>5 DEF Kept, TypeInv, TypeOK, Finite, AttemptsLeft, PcType, InTx
  <2>7. QED
    BY <1>1, <2>1, <2>6, KeptType DEF TypeInv, TypeOK, Finite
<1>4. QED
  <2>1. NewStays(r) \cup CurrentStays(r) \subseteq Stays
    BY DEF NewStays, CurrentStays, Reached, TypeInv, TypeOK, Tx
  <2>2. QED
    BY <1>2, <1>3, <2>1, Zenon DEF ImportCheck

\* ImportCommit: a trip, its stays and their links are added.
LEMMA TypeImportCommit ==
  ASSUME TypeInv, NEW r \in Requests, ImportCommit(r)
  PROVE  TypeInv'
<1> DEFINE new == Reached(r)
           trips == {TripOf[s] : s \in new}
<1>1. UNCHANGED <<issued, job, tries>> /\ Answer(r, "ok")
  BY DEF ImportCommit
<1>2. Kept
  BY <1>1, AnswerType, AnswersArePc DEF Answers
<1>3. db' = [db EXCEPT !.trips = @ \cup trips, !.stays = @ \cup new,
                       !.links = @ \cup tx[r].links]
  BY DEF ImportCommit
<1>4. tx[r].links \subseteq Stays \X EntryId
  BY DEF TypeInv, TypeOK, Tx
<1>5. new \subseteq Stays
  BY <1>4 DEF Reached
<1>6. trips \subseteq Trips
  BY <1>5, RowsAssumption
<1> HIDE DEF new, trips
<1>7. db' \in DB /\ db'.entries = db.entries
  BY <1>3, <1>4, <1>5, <1>6 DEF TypeInv, TypeOK, DB
<1>8. QED
  BY <1>1, <1>2, <1>7, KeptType DEF TypeInv, TypeOK, Finite

\* AddStay: one stay is added.
LEMMA TypeAddStay ==
  ASSUME TypeInv, NEW r \in Requests, AddStay(r)
  PROVE  TypeInv'
<1>1. UNCHANGED <<job, tries>>
  BY DEF AddStay
<1>2. Answer(r, "ok") \/ Answer(r, "rejected")
  BY DEF AddStay
<1>3. Kept
  BY <1>1, <1>2, AnswerType, AnswersArePc DEF Answers
<1>4. \/ UNCHANGED <<db, issued>>
      \/ \E s \in Stays : /\ issued' = [issued EXCEPT !.stays = @ \cup {s}]
                          /\ db' = [db EXCEPT !.stays = @ \cup {s}]
  BY DEF AddStay
<1>5. /\ db' \in DB /\ db'.entries = db.entries
      /\ issued' \in [trips : SUBSET Trips, stays : SUBSET Stays]
  BY <1>4 DEF TypeInv, TypeOK, DB
<1>6. QED
  BY <1>1, <1>3, <1>5, KeptType DEF TypeInv, TypeOK, Finite

\* AddEntry: one row is added.
LEMMA TypeAddEntry ==
  ASSUME TypeInv, NEW r \in Requests, AddEntry(r)
  PROVE  TypeInv'
<1>1. UNCHANGED <<issued, job, tries>>
  BY DEF AddEntry
<1>2. Answer(r, "ok") \/ Answer(r, "rejected")
  BY DEF AddEntry
<1>3. Kept
  BY <1>1, <1>2, AnswerType, AnswersArePc DEF Answers
<1>4. CASE UNCHANGED db
  BY <1>1, <1>3, <1>4, KeptType DEF TypeInv, TypeOK, Finite
<1>5. ASSUME NEW t \in HandRows,
             db' = [db EXCEPT !.entries = @ \cup {Typed(<<r, 0, LotOf(t)>>, t)}]
      PROVE  TypeInv'
  <2> DEFINE e == Typed(<<r, 0, LotOf(t)>>, t)
  <2>1. e \in Entry
    BY RowsAssumption DEF Typed, LotOf, Entry, EntryId, Lot
  <2> HIDE DEF e
  <2>2. IsFiniteSet(db.entries \cup {e})
    BY FS_AddElement DEF TypeInv, Finite
  <2>3. db' \in DB /\ db'.entries = db.entries \cup {e}
    BY <1>5, <2>1 DEF e, TypeInv, TypeOK, DB
  <2>4. QED
    BY <1>1, <1>3, <2>2, <2>3, KeptType DEF TypeInv, TypeOK
<1>6. QED
  BY <1>4, <1>5 DEF AddEntry

TakesRow(r, id, t) ==
  tx' = [tx EXCEPT ![r].rows = {Typed(id, t)}, ![r].locks = {<<"noKeyUpdate", "entry", id>>}]

\* What taking a row to edit it changes.
LEMMA EditedRow ==
  ASSUME TypeInv, NEW r \in Requests, NEW id \in EntryId, NEW t \in HandRows,
         TakesRow(r, id, t)
  PROVE  /\ tx'[r].snap = tx[r].snap /\ tx'[r].gone = tx[r].gone
         /\ tx'[r].overtaken = tx[r].overtaken /\ tx'[r].links = tx[r].links
         /\ tx'[r].locks = {<<"noKeyUpdate", "entry", id>>}
         /\ tx'[r].rows = {Typed(id, t)}
         /\ \A q \in Requests \ {r} : tx'[q] = tx[q]
         /\ tx' \in [Requests -> Tx]
<1> DEFINE e == Typed(id, t)
           l == <<"noKeyUpdate", "entry", id>>
<1>1. e \in Entry
  BY RowsAssumption DEF Typed, Entry
<1>2. l \in Lock
  BY DEF Lock, Strengths
<1>3. tx \in [Requests -> Tx] /\ tx[r] \in Tx
  BY DEF TypeInv, TypeOK
<1>4. tx' = [tx EXCEPT ![r].rows = {e}, ![r].locks = {l}]
  BY DEF TakesRow
<1> HIDE DEF e, l
<1>5. tx'[r] = [tx[r] EXCEPT !.rows = {e}, !.locks = {l}]
      /\ \A q \in Requests \ {r} : tx'[q] = tx[q]
  BY <1>3, <1>4
<1>6. /\ tx'[r].snap = tx[r].snap /\ tx'[r].gone = tx[r].gone
      /\ tx'[r].overtaken = tx[r].overtaken /\ tx'[r].links = tx[r].links
      /\ tx'[r].locks = {l} /\ tx'[r].rows = {e}
  BY <1>3, <1>5 DEF Tx
<1>7. tx'[r] \in Tx
  <2> DEFINE R == {e}
             L == tx[r].links
             K == {l}
  <2>1. R \in SUBSET Entry /\ L \in SUBSET (Stays \X EntryId) /\ K \in SUBSET Lock
    BY <1>1, <1>2, <1>3 DEF Tx
  <2>2. tx'[r] = [tx[r] EXCEPT !.rows = R, !.links = L, !.locks = K]
    BY <1>3, <1>5 DEF Tx
  <2> HIDE DEF R, L, K
  <2>3. QED
    BY <1>3, <2>1, <2>2, TxType
<1>8. tx' \in [Requests -> Tx]
  BY <1>3, <1>4, <1>7
<1>9. QED
  BY <1>5, <1>6, <1>8 DEF e, l

\* EditEntry: what is typed, and the lock on the row.
LEMMA TypeEditEntry ==
  ASSUME TypeInv, NEW r \in Requests, EditEntry(r)
  PROVE  TypeInv'
<1>1. UNCHANGED <<db, issued, job, tries>>
  BY DEF EditEntry
<1>2. CASE Answer(r, "ok")
  <2>1. Kept
    BY <1>1, <1>2, AnswerType, AnswersArePc DEF Answers
  <2>2. QED
    BY <1>1, <2>1, KeptType DEF TypeInv, TypeOK, Finite
<1>3. ASSUME NEW e \in db.entries, NEW t \in HandRows,
             tx' = [tx EXCEPT ![r].rows = {Typed(e.id, t)},
                              ![r].locks = {<<"noKeyUpdate", "entry", e.id>>}],
             pc' = [pc EXCEPT ![r] = "editing"]
      PROVE  TypeInv'
  <2>1. e.id \in EntryId
    BY DEF TypeInv, TypeOK, DB, Entry
  <2>2. /\ tx'[r].snap = tx[r].snap /\ tx'[r].rows = {Typed(e.id, t)}
        /\ \A q \in Requests \ {r} : tx'[q] = tx[q]
        /\ tx' \in [Requests -> Tx]
    BY <1>3, <2>1, EditedRow DEF TakesRow
  <2>3. IsFiniteSet({Typed(e.id, t)})
    BY FS_Singleton
  <2>4. \A q \in Requests : IsFiniteSet(tx'[q].snap.entries) /\ IsFiniteSet(tx'[q].rows)
    BY <2>2, <2>3 DEF TypeInv, Finite
  <2>5. Kept
    BY <1>1, <1>3, <2>2, <2>4 DEF Kept, TypeInv, TypeOK, AttemptsLeft, PcType, InTx
  <2>6. QED
    BY <1>1, <2>5, KeptType DEF TypeInv, TypeOK, Finite
<1>4. QED
  BY <1>2, <1>3, Zenon DEF EditEntry

\* EditCommit: one row is replaced.
LEMMA TypeEditCommit ==
  ASSUME TypeInv, NEW r \in Requests, EditCommit(r)
  PROVE  TypeInv'
<1>1. UNCHANGED <<issued, job, tries>>
  BY DEF EditCommit
<1>2. Answer(r, "ok") \/ Answer(r, "rejected")
  BY DEF EditCommit
<1>3. Kept
  BY <1>1, <1>2, AnswerType, AnswersArePc DEF Answers
<1>4. CASE UNCHANGED db
  BY <1>1, <1>3, <1>4, KeptType DEF TypeInv, TypeOK, Finite
<1>5. ASSUME NEW e \in db.entries, NEW row \in tx[r].rows,
             db' = [db EXCEPT !.entries = (@ \ {e}) \cup {row}]
      PROVE  TypeInv'
  <2>1. row \in Entry
    BY DEF TypeInv, TypeOK, Tx
  <2>2. IsFiniteSet(db.entries \ {e})
    BY FS_Subset DEF TypeInv, Finite
  <2>3. IsFiniteSet((db.entries \ {e}) \cup {row})
    BY <2>2, FS_AddElement
  <2>4. db' \in DB /\ db'.entries = (db.entries \ {e}) \cup {row}
    BY <1>5, <2>1 DEF TypeInv, TypeOK, DB
  <2>5. QED
    BY <1>1, <1>3, <2>3, <2>4, KeptType DEF TypeInv, TypeOK
<1>6. QED
  BY <1>4, <1>5, Zenon DEF EditCommit

\* DeleteEntry: one row is taken out.
LEMMA TypeDeleteEntry ==
  ASSUME TypeInv, NEW r \in Requests, DeleteEntry(r)
  PROVE  TypeInv'
<1>1. UNCHANGED <<issued, job, tries>> /\ Answer(r, "ok")
  BY DEF DeleteEntry
<1>2. Kept
  BY <1>1, AnswerType, AnswersArePc DEF Answers
<1>3. UNCHANGED db \/ \E e \in db.entries : db' = Without(db, {e.id}, {}, {})
  BY DEF DeleteEntry
<1>4. db \in DB /\ IsFiniteSet(db.entries)
  BY DEF TypeInv, TypeOK, Finite
<1>5. \A ids : LET d == Without(db, ids, {}, {}) IN d \in DB /\ IsFiniteSet(d.entries)
  BY <1>4, WithoutType
<1>6. db' \in DB /\ IsFiniteSet(db'.entries)
  BY <1>3, <1>4, <1>5
<1>7. QED
  BY <1>1, <1>2, <1>6, KeptType DEF TypeInv, TypeOK

\* What taking a contract to delete it changes.
LEMMA HeldContract ==
  ASSUME TypeInv, NEW r \in Requests, NEW c \in Contracts,
         Hold(r, {<<"update", "contract", c>>})
  PROVE  /\ tx'[r].snap = tx[r].snap /\ tx'[r].gone = tx[r].gone
         /\ tx'[r].overtaken = tx[r].overtaken /\ tx'[r].links = tx[r].links
         /\ tx'[r].rows = tx[r].rows
         /\ tx'[r].locks = tx[r].locks \cup {<<"update", "contract", c>>}
         /\ \A q \in Requests \ {r} : tx'[q] = tx[q]
         /\ tx' \in [Requests -> Tx]
<1> DEFINE l == <<"update", "contract", c>>
<1>1. l \in Lock
  BY DEF Lock, Strengths
<1>2. tx \in [Requests -> Tx] /\ tx[r] \in Tx
  BY DEF TypeInv, TypeOK
<1>3. tx' = [tx EXCEPT ![r].locks = @ \cup {l}]
  BY DEF Hold
<1> HIDE DEF l
<1>4. tx'[r] = [tx[r] EXCEPT !.locks = @ \cup {l}] /\ \A q \in Requests \ {r} : tx'[q] = tx[q]
  BY <1>2, <1>3
<1>5. /\ tx'[r].snap = tx[r].snap /\ tx'[r].gone = tx[r].gone
      /\ tx'[r].overtaken = tx[r].overtaken /\ tx'[r].links = tx[r].links
      /\ tx'[r].rows = tx[r].rows /\ tx'[r].locks = tx[r].locks \cup {l}
  BY <1>2, <1>4 DEF Tx
<1>6. tx'[r] \in Tx
  BY <1>1, <1>2, <1>4 DEF Tx
<1>7. tx' \in [Requests -> Tx]
  BY <1>2, <1>3, <1>6
<1>8. QED
  BY <1>4, <1>5, <1>7 DEF l

\* DeleteContract: the lock on the contract.
LEMMA TypeDeleteContract ==
  ASSUME TypeInv, NEW r \in Requests, DeleteContract(r)
  PROVE  TypeInv'
<1>1. UNCHANGED <<db, issued, job, tries>>
  BY DEF DeleteContract
<1>2. CASE Answer(r, "ok")
  <2>1. Kept
    BY <1>1, <1>2, AnswerType, AnswersArePc DEF Answers
  <2>2. QED
    BY <1>1, <2>1, KeptType DEF TypeInv, TypeOK, Finite
<1>3. ASSUME NEW c \in db.contracts, Hold(r, {<<"update", "contract", c>>}),
             pc' = [pc EXCEPT ![r] = "nulling"]
      PROVE  TypeInv'
  <2>1. c \in Contracts
    BY DEF TypeInv, TypeOK, DB
  <2>2. /\ tx'[r].snap = tx[r].snap /\ tx'[r].rows = tx[r].rows
        /\ \A q \in Requests \ {r} : tx'[q] = tx[q]
        /\ tx' \in [Requests -> Tx]
    BY <1>3, <2>1, HeldContract
  <2>3. Kept
    BY <1>1, <1>3, <2>2 DEF Kept, TypeInv, TypeOK, Finite, AttemptsLeft, PcType, InTx
  <2>4. QED
    BY <1>1, <2>3, KeptType DEF TypeInv, TypeOK, Finite
<1>4. QED
  BY <1>2, <1>3, Zenon DEF DeleteContract

\* ContractCommit: the rows of a contract lose it.
LEMMA TypeContractCommit ==
  ASSUME TypeInv, NEW r \in Requests, ContractCommit(r)
  PROVE  TypeInv'
<1> DEFINE left == Leaving(r)
           g == [e \in db.entries |-> Nulled(e, left)]
           E == {g[e] : e \in db.entries}
<1>1. UNCHANGED <<issued, job, tries>> /\ Answer(r, "ok")
  BY DEF ContractCommit
<1>2. Kept
  BY <1>1, AnswerType, AnswersArePc DEF Answers
<1>3. \A e \in db.entries : g[e] \in Entry
  BY DEF TypeInv, TypeOK, DB, Entry, Nulled
<1>4. db' = [db EXCEPT !.contracts = @ \ left, !.entries = E]
  BY DEF ContractCommit
<1> HIDE DEF g, left
<1>5. E \subseteq Entry /\ IsFiniteSet(E)
  BY <1>3, ImageFinite DEF TypeInv, Finite
<1> HIDE DEF E
<1>6. db' \in DB /\ db'.entries = E
  BY <1>4, <1>5 DEF TypeInv, TypeOK, DB
<1>7. QED
  BY <1>1, <1>2, <1>5, <1>6, KeptType DEF TypeInv, TypeOK

\* UpdateContract: one month is overwritten.
LEMMA TypeUpdateContract ==
  ASSUME TypeInv, NEW r \in Requests, UpdateContract(r)
  PROVE  TypeInv'
<1>1. UNCHANGED <<issued, job, tries>> /\ Answer(r, "ok")
  BY DEF UpdateContract
<1>2. Kept
  BY <1>1, AnswerType, AnswersArePc DEF Answers
<1>3. CASE UNCHANGED db
  BY <1>1, <1>2, <1>3, KeptType DEF TypeInv, TypeOK, Finite
<1>4. ASSUME NEW c \in db.contracts, NEW m \in HandMonths, db' = [db EXCEPT !.months[c] = m]
      PROVE  TypeInv'
  <2>1. m \in 1..12
    BY RowsAssumption
  <2>2. db' \in DB /\ db'.entries = db.entries
    BY <1>4, <2>1 DEF TypeInv, TypeOK, DB
  <2>3. QED
    BY <1>1, <1>2, <2>2, KeptType DEF TypeInv, TypeOK, Finite
<1>5. QED
  BY <1>3, <1>4 DEF UpdateContract

\* Abort: the transaction ends.
LEMMA TypeAbort ==
  ASSUME TypeInv, NEW r \in Requests, Abort(r)
  PROVE  TypeInv'
<1>1. UNCHANGED <<db, issued, job, tries>> /\ Answer(r, "aborted")
  BY DEF Abort
<1>2. Kept
  BY <1>1, AnswerType, AnswersArePc DEF Answers
<1>3. QED
  BY <1>1, <1>2, KeptType DEF TypeInv, TypeOK, Finite

\* The invariant holds in the tables one starts from.
LEMMA TypeInit == Init => TypeInv
<1>1. SUFFICES ASSUME Init
               PROVE  TypeInv
  OBVIOUS
<1>2. db \in DB /\ IsFiniteSet(db.entries)
  <2>1. db \in Databases
    BY <1>1 DEF Init
  <2>2. QED
    BY <2>1, DatabasesAssumption
<1>3. TypeOK
  BY <1>1, <1>2, NoTxType DEF Init, TypeOK, DB, Answers, bookTripAttempts
<1>4. Finite /\ AttemptsLeft
  BY <1>1, <1>2, NoTxType DEF Init, Finite, AttemptsLeft, bookTripAttempts
<1>5. QED
  BY <1>3, <1>4 DEF TypeInv

\* Every step keeps it.
LEMMA TypeNext == TypeInv /\ [Next]_vars => TypeInv'
<1>1. SUFFICES ASSUME TypeInv, [Next]_vars
               PROVE  TypeInv'
  OBVIOUS
<1>2. CASE UNCHANGED vars
  BY <1>1, <1>2 DEF vars, TypeInv, TypeOK, Finite, AttemptsLeft
<1>3. ASSUME NEW r \in Requests, Step(r)
      PROVE  TypeInv'
  BY <1>1, <1>3, TypeBookBegin, TypeLockStep, TypeFundStay, TypeBookCommit,
     TypeDeleteEntries, TypeDeleteCommit, TypeImportCheck, TypeImportCommit,
     TypeAddStay, TypeAddEntry, TypeEditEntry, TypeEditCommit, TypeDeleteEntry,
     TypeDeleteContract, TypeContractCommit, TypeUpdateContract DEF Step, LockStep
<1>4. QED
  BY <1>1, <1>2, <1>3, TypeAbort DEF Next, Idle

(***************************************************************************)
(* The tables, the transactions and the attempts of every request are what *)
(* TypeOK says, in every reachable state.                                  *)
(***************************************************************************)
THEOREM TypeCorrect == Spec => []TypeOK
<1>1. TypeInv => TypeOK
  BY DEF TypeInv
<1>2. QED
  BY TypeInit, TypeNext, <1>1, PTL DEF Spec

-----------------------------------------------------------------------------
(* Who moves.  Every step is of one request that has not been answered.    *)
(* It moves no other, changes what another has open only by overtaking it, *)
(* and writes to the tables only when it is answered "ok".                 *)

Moves(r) ==
  /\ pc[r] \in PcType \ Answers /\ pc'[r] \in PcType
  /\ \A q \in Requests \ {r} :
       /\ pc'[q] = pc[q] /\ tries'[q] = tries[q]
       /\ tx'[q].snap = tx[q].snap /\ tx'[q].rows = tx[q].rows
       /\ tx'[q].links = tx[q].links /\ tx'[q].gone = tx[q].gone
       /\ tx'[q].locks = tx[q].locks
       /\ \/ tx'[q].overtaken = tx[q].overtaken
          \/ pc'[r] = "ok" /\ pc[q] \in {"lock", "fund"}
  /\ db' = db \/ pc'[r] = "ok"

\* The steps that end in an answer.
LEMMA AnswerMoves ==
  ASSUME TypeInv, NEW r \in Requests, NEW a, Answer(r, a), UNCHANGED tries,
         pc[r] \notin Answers, db' = db \/ a = "ok"
  PROVE  /\ \A q \in Requests \ {r} :
              pc'[q] = pc[q] /\ tries'[q] = tries[q] /\ tx'[q] = tx[q]
         /\ pc'[r] = a /\ tx'[r] = NoTx
         /\ a \in PcType => Moves(r)
<1>1. pc \in [Requests -> PcType] /\ tx \in [Requests -> Tx]
  BY DEF TypeInv, TypeOK, PcType
<1>2. pc'[r] = a /\ tx'[r] = NoTx /\ pc[r] \in PcType
      /\ \A q \in Requests \ {r} :
           pc'[q] = pc[q] /\ tries'[q] = tries[q] /\ tx'[q] = tx[q]
  BY <1>1 DEF Answer
<1>3. QED
  BY <1>2 DEF Moves

\* Beginning again or giving up is such a step.
LEMMA RetryMoves ==
  ASSUME TypeInv, NEW r \in Requests, Retry(r), UNCHANGED <<db, tries>>,
         pc[r] \notin Answers
  PROVE  Moves(r) /\ pc'[r] \in {"start", "serialization"} /\ tx'[r] = NoTx
<1>1. {"start", "serialization"} \subseteq PcType
  BY DEF PcType, Answers
<1>2. PICK a \in {"start", "serialization"} : Answer(r, a)
  BY DEF Retry
<1>3. QED
  BY <1>1, <1>2, AnswerMoves

\* The steps of a transaction that goes on.
LEMMA GoesOn ==
  ASSUME TypeInv, NEW r \in Requests, NEW label \in PcType, UNCHANGED db,
         pc' = [pc EXCEPT ![r] = label], pc[r] \notin Answers,
         \A q \in Requests \ {r} : tries'[q] = tries[q] /\ tx'[q] = tx[q]
  PROVE  Moves(r) /\ pc'[r] = label
<1>1. pc \in [Requests -> PcType]
  BY DEF TypeInv, TypeOK, PcType
<1>2. QED
  BY <1>1 DEF Moves

\* A commit overtakes the other bookings.
LEMMA CommitMoves ==
  ASSUME TypeInv, NEW r \in Requests, BookCommit(r), ~LostRace(r)
  PROVE  /\ Moves(r) /\ pc'[r] = "ok" /\ tx'[r] = NoTx
         /\ \A q \in Requests \ {r} :
              tx'[q].overtaken <=>
                tx[q].overtaken \/ (pc[q] \in {"lock", "fund"} /\ tx[r].rows # {})
<1>1. /\ pc' = [pc EXCEPT ![r] = "ok"] /\ pc[r] = "fund" /\ UNCHANGED tries
      /\ tx' = [q \in Requests |->
                  IF q = r THEN NoTx
                  ELSE [tx[q] EXCEPT !.overtaken =
                          @ \/ (pc[q] \in {"lock", "fund"} /\ tx[r].rows # {})]]
  BY Zenon DEF BookCommit
<1>2. pc \in [Requests -> PcType] /\ "ok" \in PcType /\ "fund" \in PcType \ Answers
  BY DEF TypeInv, TypeOK, PcType, Answers, InTx
<1>3. \A q \in Requests \ {r} :
        /\ tx'[q].snap = tx[q].snap /\ tx'[q].rows = tx[q].rows
        /\ tx'[q].links = tx[q].links /\ tx'[q].gone = tx[q].gone
        /\ tx'[q].locks = tx[q].locks
        /\ tx'[q].overtaken <=>
             tx[q].overtaken \/ (pc[q] \in {"lock", "fund"} /\ tx[r].rows # {})
        /\ tx'[q].overtaken = tx[q].overtaken \/ pc[q] \in {"lock", "fund"}
  <2>1. SUFFICES ASSUME NEW q \in Requests \ {r}
                 PROVE  /\ tx'[q].snap = tx[q].snap /\ tx'[q].rows = tx[q].rows
                        /\ tx'[q].links = tx[q].links /\ tx'[q].gone = tx[q].gone
                        /\ tx'[q].locks = tx[q].locks
                        /\ tx'[q].overtaken <=>
                             tx[q].overtaken
                               \/ (pc[q] \in {"lock", "fund"} /\ tx[r].rows # {})
                        /\ tx'[q].overtaken = tx[q].overtaken \/ pc[q] \in {"lock", "fund"}
    OBVIOUS
  <2> DEFINE b == tx[q].overtaken \/ (pc[q] \in {"lock", "fund"} /\ tx[r].rows # {})
  <2>2. tx'[q] = [tx[q] EXCEPT !.overtaken = b]
    BY <1>1, <2>1
  <2>3. tx[q] \in Tx
    BY DEF TypeInv, TypeOK
  <2> HIDE DEF b
  <2>4. /\ tx'[q].snap = tx[q].snap /\ tx'[q].rows = tx[q].rows
        /\ tx'[q].links = tx[q].links /\ tx'[q].gone = tx[q].gone
        /\ tx'[q].locks = tx[q].locks
        /\ tx'[q].overtaken = b
    BY <2>2, <2>3 DEF Tx
  <2>5. pc[q] \notin {"lock", "fund"} => b = tx[q].overtaken
    BY <2>3 DEF b, Tx
  <2>6. QED
    BY <2>4, <2>5 DEF b
<1>4. pc'[r] = "ok" /\ tx'[r] = NoTx /\ pc[r] = "fund"
      /\ \A q \in Requests \ {r} : pc'[q] = pc[q] /\ tries'[q] = tries[q]
  BY <1>1, <1>2
<1>5. QED
  BY <1>2, <1>3, <1>4 DEF Moves

\* The steps that always end in an answer.
Finishes(r) ==
  \/ DeleteCommit(r) \/ ImportCommit(r) \/ AddStay(r) \/ AddEntry(r) \/ EditCommit(r)
  \/ DeleteEntry(r) \/ ContractCommit(r) \/ UpdateContract(r) \/ Abort(r)

\* They change the tables only if the answer is "ok".
LEMMA FinishMoves ==
  ASSUME NEW r \in Requests, Finishes(r)
  PROVE  /\ \E a \in {"ok", "rejected", "aborted"} : Answer(r, a) /\ (db' = db \/ a = "ok")
         /\ pc[r] \in {"start"} \cup InTx /\ UNCHANGED <<job, tries>>
<1>1. CASE DeleteCommit(r)
  BY <1>1 DEF DeleteCommit, InTx
<1>2. CASE ImportCommit(r)
  BY <1>2 DEF ImportCommit, InTx
<1>3. CASE AddStay(r)
  BY <1>3 DEF AddStay
<1>4. CASE AddEntry(r)
  BY <1>4 DEF AddEntry
<1>5. CASE EditCommit(r)
  BY <1>5, Zenon DEF EditCommit, InTx
<1>6. CASE DeleteEntry(r)
  BY <1>6 DEF DeleteEntry
<1>7. CASE ContractCommit(r)
  BY <1>7 DEF ContractCommit, InTx
<1>8. CASE UpdateContract(r)
  BY <1>8 DEF UpdateContract
<1>9. CASE Abort(r)
  BY <1>9 DEF Abort
<1>10. QED
  BY <1>1, <1>2, <1>3, <1>4, <1>5, <1>6, <1>7, <1>8, <1>9 DEF Finishes

(***************************************************************************)
(* Every step of every request moves only that request.                    *)
(***************************************************************************)
LEMMA StepMoves ==
  ASSUME TypeInv, NEW r \in Requests, Step(r) \/ Abort(r)
  PROVE  Moves(r)
<1>1. {"start"} \cup InTx \subseteq PcType \ Answers /\ Answers \subseteq PcType
  BY DEF PcType, Answers, InTx
<1>2. tx \in [Requests -> Tx] /\ tries \in [Requests -> 0..bookTripAttempts]
  BY DEF TypeInv, TypeOK
<1>3. CASE BookBegin(r)
  <2>1. UNCHANGED db /\ pc[r] = "start" /\ tries' = [tries EXCEPT ![r] = @ + 1]
    BY <1>3 DEF BookBegin
  <2>2. CASE pc' = [pc EXCEPT ![r] = "lock"] /\ tx' = [tx EXCEPT ![r].snap = db]
    BY <1>1, <1>2, <2>1, <2>2, GoesOn DEF InTx
  <2>3. CASE Answer(r, "notFound")
    <3>1. pc' = [pc EXCEPT ![r] = "notFound"] /\ tx' = [tx EXCEPT ![r] = NoTx]
      BY <2>3 DEF Answer
    <3>2. "notFound" \in PcType
      BY DEF PcType, Answers
    <3>3. QED
      BY <1>1, <1>2, <2>1, <3>1, <3>2, GoesOn
  <2>4. QED
    BY <1>3, <2>2, <2>3 DEF BookBegin
<1>4. CASE LockStep(r)
  <2>1. UNCHANGED <<db, tries>>
    BY <1>4, LockSteps
  <2>2. ASSUME NEW m \in QuietMoves, Quiet(r, m[1], m[2])
        PROVE  Moves(r)
    <3>1. m[1] \in InTx /\ m[2] \in InTx
      BY DEF QuietMoves, InTx
    <3>2. pc[r] = m[1] /\ pc' = [pc EXCEPT ![r] = m[2]]
      BY <2>2 DEF Quiet
    <3>3. \A q \in Requests \ {r} : tx'[q] = tx[q]
      BY <2>2, QuietTx
    <3>4. QED
      BY <1>1, <2>1, <3>1, <3>2, <3>3, GoesOn
  <2>3. CASE pc[r] = "lock" /\ Retry(r)
    BY <1>1, <2>1, <2>3, RetryMoves DEF InTx
  <2>4. CASE pc[r] = "linking" /\ Answer(r, "rejected")
    BY <1>1, <2>1, <2>4, AnswerMoves DEF InTx, Answers
  <2>5. QED
    BY <1>4, <2>2, <2>3, <2>4, LockSteps
<1>5. CASE FundStay(r)
  <2>1. UNCHANGED <<db, tries>> /\ pc[r] = "fund"
    BY <1>5, FundCases
  <2>2. PICK s \in NextStay(r) :
          \/ Answer(r, "insufficient")
          \/ Retry(r)
          \/ InsertDraws(r, s, {UsageRow(r, s, draw) : draw \in Draws(r, s)})
             /\ UNCHANGED pc
    BY <1>5, FundCases
  <2>3. CASE Answer(r, "insufficient")
    BY <1>1, <2>1, <2>3, AnswerMoves DEF Answers, InTx
  <2>4. CASE Retry(r)
    BY <1>1, <2>1, <2>4, RetryMoves DEF InTx
  <2>5. CASE InsertDraws(r, s, {UsageRow(r, s, draw) : draw \in Draws(r, s)})
             /\ UNCHANGED pc
    <3>1. pc' = [pc EXCEPT ![r] = "fund"]
      BY <2>1, <2>5 DEF TypeInv, TypeOK
    <3>2. \A q \in Requests \ {r} : tx'[q] = tx[q]
      BY <1>2, <2>5 DEF InsertDraws
    <3>3. QED
      BY <1>1, <2>1, <3>1, <3>2, GoesOn DEF InTx
  <2>6. QED
    BY <2>2, <2>3, <2>4, <2>5
<1>6. CASE BookCommit(r)
  <2>1. pc[r] = "fund" /\ UNCHANGED tries
    BY <1>6 DEF BookCommit
  <2>2. CASE LostRace(r)
    BY <1>1, <1>6, <2>1, <2>2, RetryMoves DEF BookCommit, InTx
  <2>3. CASE ~LostRace(r)
    BY <1>6, <2>3, CommitMoves
  <2>4. QED
    BY <2>2, <2>3
<1>7. CASE DeleteEntries(r)
  <2> DEFINE ids == EntryIdsOf(db, {s \in db.stays : Named(job[r], s)})
  <2>1. /\ UNCHANGED <<db, tries>> /\ pc[r] = "start" /\ pc' = [pc EXCEPT ![r] = "deleting"]
        /\ tx' = [tx EXCEPT ![r].gone = ids]
    BY <1>7 DEF DeleteEntries
  <2> HIDE DEF ids
  <2>2. QED
    BY <1>1, <1>2, <2>1, GoesOn DEF InTx
<1>8. CASE ImportCheck(r)
  <2>1. UNCHANGED <<db, tries>> /\ pc[r] \in {"start", "checking"}
    BY <1>8 DEF ImportCheck
  <2>2. CASE Answer(r, "rejected")
    BY <1>1, <2>1, <2>2, AnswerMoves DEF Answers, InTx
  <2>3. ASSUME NEW s, NEW e, ReadsRow(r, s, e), pc' = [pc EXCEPT ![r] = "checking"]
        PROVE  Moves(r)
    <3>1. \A q \in Requests \ {r} : tx'[q] = tx[q]
      BY <1>2, <2>3 DEF ReadsRow
    <3>2. QED
      BY <1>1, <2>1, <2>3, <3>1, GoesOn DEF InTx
  <2>4. QED
    BY <1>8, <2>2, <2>3, Zenon DEF ImportCheck, ReadsRow
<1>9. CASE EditEntry(r)
  <2>1. UNCHANGED <<db, tries>> /\ pc[r] = "start"
    BY <1>9 DEF EditEntry
  <2>2. CASE Answer(r, "ok")
    BY <1>1, <2>1, <2>2, AnswerMoves DEF Answers
  <2>3. ASSUME NEW id, NEW t, TakesRow(r, id, t), pc' = [pc EXCEPT ![r] = "editing"]
        PROVE  Moves(r)
    <3>1. \A q \in Requests \ {r} : tx'[q] = tx[q]
      BY <1>2, <2>3 DEF TakesRow
    <3>2. QED
      BY <1>1, <2>1, <2>3, <3>1, GoesOn DEF InTx
  <2>4. QED
    BY <1>9, <2>2, <2>3, Zenon DEF EditEntry, TakesRow
<1>10. CASE DeleteContract(r)
  <2>1. UNCHANGED <<db, tries>> /\ pc[r] = "start"
    BY <1>10 DEF DeleteContract
  <2>2. CASE Answer(r, "ok")
    BY <1>1, <2>1, <2>2, AnswerMoves DEF Answers
  <2>3. ASSUME NEW c, Hold(r, {<<"update", "contract", c>>}),
               pc' = [pc EXCEPT ![r] = "nulling"]
        PROVE  Moves(r)
    <3>1. \A q \in Requests \ {r} : tx'[q] = tx[q]
      BY <1>2, <2>3 DEF Hold
    <3>2. QED
      BY <1>1, <2>1, <2>3, <3>1, GoesOn DEF InTx
  <2>4. QED
    BY <1>10, <2>2, <2>3, Zenon DEF DeleteContract
<1>11. CASE Finishes(r)
  <2>1. PICK a \in {"ok", "rejected", "aborted"} : Answer(r, a) /\ (db' = db \/ a = "ok")
    BY <1>11, FinishMoves
  <2>2. pc[r] \in {"start"} \cup InTx /\ UNCHANGED tries
    BY <1>11, FinishMoves
  <2>3. QED
    BY <1>1, <2>1, <2>2, AnswerMoves DEF Answers
<1>12. QED
  BY <1>3, <1>4, <1>5, <1>6, <1>7, <1>8, <1>9, <1>10, <1>11 DEF Step, LockStep, Finishes

-----------------------------------------------------------------------------
(* Every booking is all or nothing: BookingAllOrNothing. *)

\* Only the commit answers "ok" to a booking that is funding its stays.
LEMMA OnlyCommitBooks ==
  ASSUME TypeInv, NEW r \in Requests, pc[r] = "fund", pc'[r] = "ok", [Next]_vars
  PROVE  BookCommit(r) /\ ~LostRace(r)
<1>1. pc[r] # pc'[r] /\ ~Answered(r)
  BY DEF Answered, Answers
<1>2. PICK q \in Requests : Step(q) \/ Abort(q)
  BY <1>1 DEF Next, Idle, vars
<1>3. Moves(q)
  BY <1>2, StepMoves
<1>4. q = r
  BY <1>1, <1>3 DEF Moves
<1>5. FundStay(r) \/ BookCommit(r) \/ Abort(r)
  BY <1>2, <1>4 DEF Step, BookBegin, LockLots, ReadUsage, DeleteEntries, LockRow, DeleteRest,
     DeleteCommit, ImportCheck, ImportInsert, ImportLink, ImportCommit, AddStay, AddEntry,
     EditEntry, EditCommit, DeleteEntry, DeleteContract, ContractCommit, UpdateContract
<1>6. ~Abort(r) /\ ~Retry(r) /\ ~Answer(r, "insufficient")
  BY DEF Abort, Retry, Answer, TypeInv, TypeOK
<1>7. ~FundStay(r)
  BY <1>1, <1>6, FundCases
<1>8. BookCommit(r)
  BY <1>5, <1>6, <1>7
<1>9. QED
  BY <1>6, <1>8 DEF BookCommit

\* A booking commits when its loop has reached every stay it found unbooked,
\* and a stay is reached by linking a row to it.
LEMMA CommitBooksAll ==
  ASSUME TypeInv, [Next]_vars, NEW r \in Requests, pc[r] = "fund", pc'[r] = "ok",
         NEW s \in Unbooked(tx[r].snap, job[r].trip)
  PROVE  Booked(db', s)
<1>1. BookCommit(r) /\ ~LostRace(r)
  BY OnlyCommitBooks
<1>2. ToFund(r) = {}
  BY <1>1 DEF BookCommit
<1>3. PICK l \in tx[r].links : l[1] = s
  BY <1>2 DEF ToFund, Reached
<1>4. db' = [db EXCEPT !.entries = @ \cup tx[r].rows, !.links = @ \cup tx[r].links]
  BY <1>1, Zenon DEF BookCommit
<1>5. l \in db'.links
  BY <1>3, <1>4 DEF TypeInv, TypeOK, DB
<1>6. QED
  BY <1>3, <1>5 DEF Booked, LinkedTo

(***************************************************************************)
(* A booking that commits has booked every stay it found unbooked,         *)
(* whatever else runs, for any tables and requests.                        *)
(***************************************************************************)
THEOREM AllOrNothing == Spec => BookingAllOrNothing
<1>1. TypeInv /\ [Next]_vars =>
        [\A r \in Requests :
           pc[r] = "fund" /\ pc'[r] = "ok" =>
             \A s \in Unbooked(tx[r].snap, job[r].trip) : Booked(db', s)]_vars
  BY CommitBooksAll
<1>2. QED
  BY TypeInit, TypeNext, <1>1, PTL DEF Spec, BookingAllOrNothing

-----------------------------------------------------------------------------
(* Every retry is paid for: RetriesPaidFor.                                *)
(*                                                                         *)
(* An attempt that is still in its first step has been paid for by what    *)
(* was done before it began; one that has its snapshot, as soon as the     *)
(* tables have changed since or another booking has overtaken it, which    *)
(* is all that can make it fail with 40001.                                *)

DoneElsewhere(r) == {q \in Requests \ {r} : pc[q] = "ok"}
Paying(r) == Cardinality(DoneElsewhere(r))

AttemptsPaid(r) ==
  /\ tries[r] <= 1 + Paying(r)
  /\ pc[r] = "start" => tries[r] <= Paying(r) /\ ~tx[r].overtaken
  /\ pc[r] \in {"lock", "fund"} /\ (tx[r].snap # db \/ tx[r].overtaken)
       => tries[r] <= Paying(r)

RetryInv ==
  /\ TypeInv
  /\ IsFiniteSet({q \in Requests : pc[q] = "ok"})
  /\ \A r \in Requests : AttemptsPaid(r)

\* Only finitely many requests have been answered, so they can be counted.
LEMMA PayingType ==
  ASSUME IsFiniteSet({q \in Requests : pc[q] = "ok"}), NEW r \in Requests
  PROVE  IsFiniteSet(DoneElsewhere(r)) /\ Paying(r) \in Nat
<1>1. DoneElsewhere(r) \subseteq {q \in Requests : pc[q] = "ok"}
  BY DEF DoneElsewhere
<1>2. QED
  BY <1>1, FS_Subset, FS_CardinalityType DEF Paying

(***************************************************************************)
(* A step of r keeps what was paid for the others, and pays once more for  *)
(* each of them when it is answered "ok".                                  *)
(***************************************************************************)
LEMMA OthersPaid ==
  ASSUME RetryInv, NEW r \in Requests, Moves(r)
  PROVE  /\ IsFiniteSet({q \in Requests : pc'[q] = "ok"})
         /\ Paying(r)' = Paying(r)
         /\ \A q \in Requests \ {r} : AttemptsPaid(q)'
<1> DEFINE Ok == {q \in Requests : pc[q] = "ok"}
<1>1. /\ \A q \in Requests \ {r} : pc'[q] = pc[q]
      /\ pc[r] # "ok"
  BY DEF Moves, PcType, Answers
<1>2. IsFiniteSet({q \in Requests : pc'[q] = "ok"})
  <2>1. IsFiniteSet(Ok) /\ IsFiniteSet(Ok \cup {r})
    BY FS_AddElement DEF RetryInv
  <2>2. {q \in Requests : pc'[q] = "ok"} \subseteq Ok \cup {r}
    BY <1>1
  <2>3. QED
    BY <2>1, <2>2, FS_Subset
<1>3. Paying(r)' = Paying(r)
  <2>1. DoneElsewhere(r)' = DoneElsewhere(r)
    BY <1>1 DEF DoneElsewhere
  <2>2. QED
    BY <2>1 DEF Paying
<1>4. ASSUME NEW q \in Requests \ {r}
      PROVE  AttemptsPaid(q)'
  <2>1. /\ pc'[q] = pc[q] /\ tries'[q] = tries[q] /\ tx'[q].snap = tx[q].snap
        /\ \/ tx'[q].overtaken = tx[q].overtaken
           \/ pc'[r] = "ok" /\ pc[q] \in {"lock", "fund"}
        /\ db' = db \/ pc'[r] = "ok"
    BY DEF Moves
  <2>2. IsFiniteSet(DoneElsewhere(q)) /\ Paying(q) \in Nat
    BY PayingType DEF RetryInv
  <2>3. AttemptsPaid(q) /\ tries[q] \in Nat
    BY DEF RetryInv, TypeInv, TypeOK
  <2>4. CASE pc'[r] # "ok"
    <3>1. DoneElsewhere(q)' = DoneElsewhere(q)
      BY <1>1, <2>4 DEF DoneElsewhere
    <3>2. Paying(q)' = Paying(q)
      BY <3>1 DEF Paying
    <3>3. QED
      BY <2>1, <2>3, <2>4, <3>2 DEF AttemptsPaid
  <2>5. CASE pc'[r] = "ok"
    <3>1. DoneElsewhere(q)' = DoneElsewhere(q) \cup {r} /\ r \notin DoneElsewhere(q)
      BY <1>1, <2>5 DEF DoneElsewhere
    <3>2. Paying(q)' = Paying(q) + 1
      BY <2>2, <3>1, FS_AddElement DEF Paying
    <3>3. tries'[q] <= Paying(q)'
      BY <2>1, <2>2, <2>3, <3>2 DEF AttemptsPaid
    <3>4. pc'[q] = "start" => ~tx'[q].overtaken
      BY <2>1, <2>3 DEF AttemptsPaid
    <3>5. Paying(q)' \in Nat
      BY <2>2, <3>2
    <3>6. QED
      BY <2>1, <2>3, <3>3, <3>4, <3>5 DEF AttemptsPaid
  <2>6. QED
    BY <2>4, <2>5
<1>5. QED
  BY <1>2, <1>3, <1>4

\* A request whose booking is over, or was none, has nothing more to pay for.
LEMMA OverPaid ==
  ASSUME RetryInv, NEW r \in Requests, Moves(r), tries'[r] = tries[r],
         pc'[r] \notin {"start", "lock", "fund"}
  PROVE  AttemptsPaid(r)'
<1>1. Paying(r)' = Paying(r) /\ AttemptsPaid(r)
  BY OthersPaid DEF RetryInv
<1>2. QED
  BY <1>1 DEF AttemptsPaid

\* An attempt ends with 40001 only when it has been paid for.
LEMMA RetryPaid ==
  ASSUME RetryInv, NEW r \in Requests, Retry(r), UNCHANGED <<db, tries>>,
         pc[r] \in {"lock", "fund"}, tx[r].snap # db \/ tx[r].overtaken
  PROVE  AttemptsPaid(r)'
<1>1. AttemptsPaid(r) /\ TypeInv
  BY DEF RetryInv
<1>2. pc[r] \notin Answers
  BY DEF Answers
<1>3. Moves(r) /\ pc'[r] \in {"start", "serialization"} /\ tx'[r] = NoTx
  BY <1>1, <1>2, RetryMoves
<1>4. Paying(r)' = Paying(r)
  BY <1>3, OthersPaid
<1>5. tries'[r] <= Paying(r)'
  BY <1>1, <1>4 DEF AttemptsPaid
<1>6. ~NoTx.overtaken
  BY DEF NoTx
<1>7. tries'[r] <= 1 + Paying(r)'
  BY <1>1, <1>4 DEF AttemptsPaid
<1>8. QED
  BY <1>3, <1>5, <1>6, <1>7 DEF AttemptsPaid

\* A row that was changed since the snapshot shows that the tables were.
LEMMA StaleTables ==
  ASSUME NEW r \in Requests, NEW l \in NextLocks(r), pc[r] = "lock", Stale(r, l)
  PROVE  tx[r].snap # db
<1> DEFINE snap == tx[r].snap
<1>1. l \in SnapshotLocks(snap)
  BY Zenon DEF NextLocks, ToLock
<1>2. CASE l[2] = "contract"
  <2>1. l[3] \in snap.contracts
    BY <1>1, <1>2 DEF SnapshotLocks, Locks
  <2>2. QED
    BY <1>2, <2>1 DEF Stale
<1>3. CASE l[2] # "contract"
  <2>1. PICK e \in LotRows(snap) : e.id = l[3]
    BY <1>1, <1>3 DEF SnapshotLocks, Locks, Ids
  <2>2. e \in snap.entries /\ e \notin db.entries
    BY <1>3, <2>1 DEF Stale, LotRows
  <2>3. QED
    BY <2>2
<1>4. QED
  BY <1>2, <1>3

(***************************************************************************)
(* A step of r leaves its own attempts paid for.                           *)
(***************************************************************************)
LEMMA OwnPaid ==
  ASSUME RetryInv, NEW r \in Requests, Step(r) \/ Abort(r)
  PROVE  AttemptsPaid(r)'
<1>1. TypeInv /\ Moves(r) /\ AttemptsPaid(r)
  BY StepMoves DEF RetryInv
<1>2. Paying(r)' = Paying(r) /\ Paying(r) \in Nat
  BY <1>1, OthersPaid, PayingType DEF RetryInv
<1>3. tries \in [Requests -> 0..bookTripAttempts] /\ tx \in [Requests -> Tx]
      /\ pc \in [Requests -> PcType] /\ db \in DB
  BY <1>1 DEF TypeInv, TypeOK, PcType
<1>4. CASE BookBegin(r)
  <2>1. tries[r] <= Paying(r) /\ ~tx[r].overtaken
    BY <1>1, <1>4 DEF BookBegin, AttemptsPaid
  <2>2. tries'[r] <= 1 + Paying(r)'
    BY <1>2, <1>3, <1>4, <2>1 DEF BookBegin
  <2>3. CASE pc'[r] = "lock" /\ tx'[r] = [tx[r] EXCEPT !.snap = db]
    <3>1. tx'[r].snap = db' /\ tx'[r].overtaken = tx[r].overtaken
      BY <1>3, <1>4, <2>3 DEF BookBegin, Tx
    <3>2. QED
      BY <2>1, <2>2, <2>3, <3>1 DEF AttemptsPaid
  <2>4. CASE pc'[r] = "notFound"
    BY <2>2, <2>4 DEF AttemptsPaid
  <2>5. QED
    BY <1>3, <1>4, <2>3, <2>4 DEF BookBegin, Answer
<1>5. CASE LockStep(r)
  <2>1. UNCHANGED <<db, tries>>
    BY <1>1, <1>5, LockSteps
  <2>2. ASSUME NEW m \in QuietMoves, Quiet(r, m[1], m[2])
        PROVE  AttemptsPaid(r)'
    <3>1. /\ pc[r] = m[1] /\ pc'[r] = m[2]
          /\ tx'[r].snap = tx[r].snap /\ tx'[r].overtaken = tx[r].overtaken
      BY <1>1, <2>2, QuietTx
    <3>2. m[2] # "start" /\ (m[2] \in {"lock", "fund"} => m[1] \in {"lock", "fund"})
      BY DEF QuietMoves
    <3>3. QED
      BY <1>1, <1>2, <2>1, <3>1, <3>2 DEF AttemptsPaid
  <2>3. CASE LockLots(r) /\ pc[r] = "lock" /\ Retry(r)
    <3>1. PICK l \in NextLocks(r) : Stale(r, l) \/ UNCHANGED pc
      BY <2>3, Zenon DEF LockLots
    <3>2. pc'[r] # pc[r]
      BY <1>3, <2>3 DEF Retry, Answer
    <3>3. tx[r].snap # db
      BY <2>3, <3>1, <3>2, StaleTables
    <3>4. QED
      BY <2>1, <2>3, <3>3, RetryPaid
  <2>4. CASE Answer(r, "rejected")
    <3>1. pc'[r] = "rejected"
      BY <1>3, <2>4 DEF Answer
    <3>2. QED
      BY <1>1, <2>1, <3>1, OverPaid
  <2>5. QED
    BY <1>1, <1>5, <2>2, <2>3, <2>4, LockSteps
<1>6. CASE FundStay(r)
  <2>1. UNCHANGED <<db, tries>> /\ pc[r] = "fund"
    BY <1>6, FundCases
  <2>2. PICK s \in NextStay(r) :
          \/ Answer(r, "insufficient")
          \/ s \notin db.stays /\ Retry(r)
          \/ InsertDraws(r, s, {UsageRow(r, s, draw) : draw \in Draws(r, s)})
             /\ UNCHANGED pc
    BY <1>6, FundCases
  <2>3. CASE Answer(r, "insufficient")
    <3>1. pc'[r] = "insufficient"
      BY <1>3, <2>3 DEF Answer
    <3>2. QED
      BY <1>1, <2>1, <3>1, OverPaid
  <2>4. CASE s \notin db.stays /\ Retry(r)
    <3>1. s \in tx[r].snap.stays
      BY DEF NextStay, ToFund, Unbooked, StaysOf
    <3>2. QED
      BY <2>1, <2>4, <3>1, RetryPaid
  <2>5. CASE InsertDraws(r, s, {UsageRow(r, s, draw) : draw \in Draws(r, s)})
             /\ UNCHANGED pc
    <3> DEFINE rows == {UsageRow(r, s, draw) : draw \in Draws(r, s)}
    <3>1. s \in Stays
      BY <1>3 DEF NextStay, ToFund, Unbooked, StaysOf, Tx, DB
    <3>2. rows \in SUBSET Entry
      BY <1>1, <3>1, UsageRowsType
    <3>3. InsertDraws(r, s, rows)
      BY <2>5
    <3> HIDE DEF rows
    <3>4. tx'[r].snap = tx[r].snap /\ tx'[r].overtaken = tx[r].overtaken
      BY <1>1, <3>1, <3>2, <3>3, InsertedDraws
    <3>5. QED
      BY <1>1, <1>2, <2>1, <2>5, <3>4 DEF AttemptsPaid
  <2>6. QED
    BY <2>2, <2>3, <2>4, <2>5
<1>7. CASE BookCommit(r)
  <2>1. pc[r] = "fund" /\ UNCHANGED tries
    BY <1>7 DEF BookCommit
  <2>2. CASE LostRace(r)
    BY <1>7, <2>1, <2>2, RetryPaid DEF BookCommit, LostRace
  <2>3. CASE ~LostRace(r)
    BY <1>1, <1>7, <2>1, <2>3, CommitMoves, OverPaid
  <2>4. QED
    BY <2>2, <2>3
<1>8. CASE DeleteEntries(r) \/ ImportCheck(r) \/ EditEntry(r) \/ DeleteContract(r)
  <2>1. tries' = tries
    BY <1>8 DEF DeleteEntries, ImportCheck, EditEntry, DeleteContract
  <2>2. \E a \in {"deleting", "checking", "editing", "nulling"} : pc' = [pc EXCEPT ![r] = a]
          \/ \E b \in {"ok", "rejected"} : Answer(r, b)
    BY <1>8, Zenon DEF DeleteEntries, ImportCheck, EditEntry, DeleteContract
  <2>3. pc'[r] \in {"deleting", "checking", "editing", "nulling", "ok", "rejected"}
    BY <1>3, <2>2 DEF Answer
  <2>4. QED
    BY <1>1, <2>1, <2>3, OverPaid
<1>9. CASE Finishes(r)
  <2>1. pc'[r] \in {"ok", "rejected", "aborted"} /\ UNCHANGED tries
    BY <1>3, <1>9, FinishMoves DEF Answer
  <2>2. QED
    BY <1>1, <2>1, OverPaid
<1>10. QED
  BY <1>4, <1>5, <1>6, <1>7, <1>8, <1>9 DEF Step, LockStep, Finishes

\* Nothing is owed before the first attempt.
LEMMA RetryInit == Init => RetryInv
<1>1. SUFFICES ASSUME Init
               PROVE  RetryInv
  OBVIOUS
<1>2. {q \in Requests : pc[q] = "ok"} = {}
  BY <1>1 DEF Init
<1>3. IsFiniteSet({q \in Requests : pc[q] = "ok"})
  BY <1>2, FS_EmptySet
<1>4. ASSUME NEW r \in Requests
      PROVE  AttemptsPaid(r)
  <2>1. Paying(r) \in Nat
    BY <1>3, PayingType
  <2>2. tries[r] = 0 /\ pc[r] = "start" /\ ~tx[r].overtaken
    BY <1>1 DEF Init, NoTx
  <2>3. QED
    BY <2>1, <2>2 DEF AttemptsPaid
<1>5. QED
  BY <1>1, <1>3, <1>4, TypeInit DEF RetryInv

\* Every step keeps what is paid for.
LEMMA RetryNext == RetryInv /\ [Next]_vars => RetryInv'
<1>1. SUFFICES ASSUME RetryInv, [Next]_vars
               PROVE  RetryInv'
  OBVIOUS
<1>2. TypeInv'
  BY <1>1, TypeNext DEF RetryInv
<1>3. CASE UNCHANGED vars
  <2>1. UNCHANGED <<db, pc, tries, tx>>
    BY <1>3 DEF vars
  <2>2. QED
    BY <1>1, <1>2, <2>1 DEF RetryInv, AttemptsPaid, Paying, DoneElsewhere
<1>4. ASSUME NEW r \in Requests, Step(r) \/ Abort(r)
      PROVE  RetryInv'
  <2>1. Moves(r)
    BY <1>1, <1>4, StepMoves DEF RetryInv
  <2>2. QED
    BY <1>1, <1>2, <1>4, <2>1, OthersPaid, OwnPaid DEF RetryInv
<1>5. QED
  BY <1>1, <1>3, <1>4 DEF Next, Idle

(***************************************************************************)
(* Every attempt of a booking beyond the first is paid for by another      *)
(* request that was done meanwhile, for any requests and tables.           *)
(***************************************************************************)
THEOREM RetriesArePaidFor == Spec => []RetriesPaidFor
<1>1. RetryInv => RetriesPaidFor
  BY DEF RetryInv, RetriesPaidFor, AttemptsPaid, Paying, DoneElsewhere
<1>2. QED
  BY RetryInit, RetryNext, <1>1, PTL DEF Spec

-----------------------------------------------------------------------------
(* Which job a request is doing follows from where it is. *)

Doing(r) ==
  /\ pc[r] \in {"lock", "fund"} => job[r].op = "book"
  /\ pc[r] \in {"deleting", "cascading"} => job[r].op \in Deletes
  /\ pc[r] \in {"checking", "linking"} => job[r].op = "import"
  /\ pc[r] = "editing" => job[r].op = "editEntry"
  /\ pc[r] = "nulling" => job[r].op = "deleteContract"

OpInv == TypeInv /\ \A r \in Requests : Doing(r)

\* The job never changes, and each step leads to a place of its own job.
LEMMA StepDoing ==
  ASSUME TypeInv, NEW r \in Requests, Step(r) \/ Abort(r), Doing(r)
  PROVE  job' = job /\ Doing(r)'
<1>1. pc \in [Requests -> PcType]
  BY DEF TypeInv, TypeOK, PcType
<1>2. job' = job
  <2>1. CASE LockStep(r)
    BY <2>1, LockSteps
  <2>2. CASE Finishes(r)
    BY <2>2, FinishMoves
  <2>3. BookBegin(r) \/ FundStay(r) \/ BookCommit(r) \/ DeleteEntries(r) \/ ImportCheck(r)
          \/ EditEntry(r) \/ DeleteContract(r) => job' = job
    BY DEF BookBegin, FundStay, BookCommit, DeleteEntries, ImportCheck, EditEntry,
           DeleteContract
  <2>4. QED
    BY <2>1, <2>2, <2>3 DEF Step, LockStep, Finishes
<1>3. CASE BookBegin(r)
  BY <1>1, <1>2, <1>3 DEF BookBegin, Answer, Doing
<1>4. CASE LockStep(r)
  <2>1. ASSUME NEW m \in QuietMoves, Quiet(r, m[1], m[2])
        PROVE  Doing(r)'
    <3>1. pc[r] = m[1] /\ pc'[r] = m[2]
      BY <2>1, QuietTx
    <3>2. QED
      BY <1>2, <3>1 DEF Doing, QuietMoves
  <2>2. CASE pc[r] = "lock" /\ Retry(r)
    <3>1. pc'[r] \in {"start", "serialization"}
      BY <1>1, <2>2 DEF Retry, Answer
    <3>2. QED
      BY <1>2, <3>1 DEF Doing
  <2>3. CASE Answer(r, "rejected")
    <3>1. pc'[r] = "rejected"
      BY <1>1, <2>3 DEF Answer
    <3>2. QED
      BY <1>2, <3>1 DEF Doing
  <2>4. QED
    BY <1>4, <2>1, <2>2, <2>3, LockSteps
<1>5. CASE FundStay(r) \/ BookCommit(r)
  <2>1. job[r].op = "book"
    BY <1>5 DEF Doing, FundStay, BookCommit
  <2>2. pc'[r] \in {"fund", "start"} \cup Answers
    <3>1. FundStay(r) => \/ Retry(r) \/ Answer(r, "insufficient")
                         \/ pc' = pc /\ pc[r] = "fund"
      BY FundCases
    <3>2. BookCommit(r) => Retry(r) \/ pc' = [pc EXCEPT ![r] = "ok"]
      BY Zenon DEF BookCommit
    <3>3. QED
      BY <1>1, <1>5, <3>1, <3>2 DEF Retry, Answer, Answers
  <2>3. QED
    BY <1>2, <2>1, <2>2 DEF Doing, Answers
<1>6. CASE DeleteEntries(r)
  BY <1>1, <1>2, <1>6 DEF DeleteEntries, Doing
<1>7. CASE ImportCheck(r)
  <2>1. job[r].op = "import" /\ pc'[r] \in {"checking", "rejected"}
    <3>1. Answer(r, "rejected") \/ pc' = [pc EXCEPT ![r] = "checking"]
      BY <1>7, Zenon DEF ImportCheck
    <3>2. QED
      BY <1>1, <1>7, <3>1 DEF ImportCheck, Answer
  <2>2. QED
    BY <1>2, <2>1 DEF Doing
<1>8. CASE EditEntry(r)
  <2>1. job[r].op = "editEntry" /\ pc'[r] \in {"editing", "ok"}
    <3>1. Answer(r, "ok") \/ pc' = [pc EXCEPT ![r] = "editing"]
      BY <1>8, Zenon DEF EditEntry
    <3>2. QED
      BY <1>1, <1>8, <3>1 DEF EditEntry, Answer
  <2>2. QED
    BY <1>2, <2>1 DEF Doing
<1>9. CASE DeleteContract(r)
  <2>1. job[r].op = "deleteContract" /\ pc'[r] \in {"nulling", "ok"}
    <3>1. Answer(r, "ok") \/ pc' = [pc EXCEPT ![r] = "nulling"]
      BY <1>9, Zenon DEF DeleteContract
    <3>2. QED
      BY <1>1, <1>9, <3>1 DEF DeleteContract, Answer
  <2>2. QED
    BY <1>2, <2>1 DEF Doing
<1>10. CASE Finishes(r)
  <2>1. pc'[r] \in {"ok", "rejected", "aborted"}
    BY <1>1, <1>10, FinishMoves DEF Answer
  <2>2. QED
    BY <1>2, <2>1 DEF Doing
<1>11. QED
  BY <1>2, <1>3, <1>4, <1>5, <1>6, <1>7, <1>8, <1>9, <1>10 DEF Step, LockStep, Finishes

\* Nobody is anywhere but at the start at first.
LEMMA OpInit == Init => OpInv
BY TypeInit DEF Init, OpInv, Doing

\* Every step keeps it.
LEMMA OpNext == OpInv /\ [Next]_vars => OpInv' /\ job' = job
<1>1. SUFFICES ASSUME OpInv, [Next]_vars
               PROVE  OpInv' /\ job' = job
  OBVIOUS
<1>2. TypeInv'
  BY <1>1, TypeNext DEF OpInv
<1>3. CASE UNCHANGED vars
  BY <1>1, <1>2, <1>3 DEF vars, OpInv, Doing
<1>4. ASSUME NEW r \in Requests, Step(r) \/ Abort(r)
      PROVE  OpInv' /\ job' = job
  <2>1. Moves(r) /\ job' = job /\ Doing(r)'
    BY <1>1, <1>4, StepMoves, StepDoing DEF OpInv
  <2>2. \A q \in Requests \ {r} : Doing(q)'
    BY <1>1, <2>1 DEF OpInv, Doing, Moves
  <2>3. QED
    BY <1>2, <2>1, <2>2 DEF OpInv
<1>5. QED
  BY <1>1, <1>3, <1>4 DEF Next, Idle

-----------------------------------------------------------------------------
(* Row locks.  What a request has locked no other has locked in a way that *)
(* does not go with it.                                                    *)

Exclusive ==
  \A p, q \in Requests : p # q =>
    \A k \in tx[p].locks, l \in tx[q].locks :
      k[2] = l[2] /\ k[3] = l[3] => Compatible(k[1], l[1])

LockInv == TypeInv /\ Exclusive

\* A lock that one request holds and another finds free goes with it.
LEMMA FreeOf ==
  ASSUME TypeInv, NEW r \in Requests, NEW l, Free(r, l),
         NEW q \in Requests \ {r}, NEW k \in tx[q].locks, k[2] = l[2], k[3] = l[3]
  PROVE  Compatible(k[1], l[1])
<1>1. k \in Lock
  BY DEF TypeInv, TypeOK, Tx
<1>2. k = <<k[1], k[2], k[3]>> /\ k[1] \in Strengths
  BY <1>1 DEF Lock
<1>3. <<k[1], l[2], l[3]>> \in tx[q].locks
  BY <1>2
<1>4. QED
  BY <1>2, <1>3 DEF Free, Blocks

\* A step takes only locks that are free.
LEMMA StepGrants ==
  ASSUME TypeInv, NEW r \in Requests, Step(r) \/ Abort(r)
  PROVE  \A l \in tx'[r].locks \ tx[r].locks : Free(r, l)
<1>1. tx \in [Requests -> Tx] /\ NoTx.locks = {} /\ db \in DB
  BY DEF TypeInv, TypeOK, NoTx
<1>2. ASSUME NEW a, Answer(r, a)
      PROVE  tx'[r].locks = {}
  BY <1>1, <1>2 DEF Answer
<1>3. ASSUME Retry(r)
      PROVE  tx'[r].locks = {}
  BY <1>2, <1>3 DEF Retry
<1>4. CASE BookBegin(r)
  <2>1. CASE tx' = [tx EXCEPT ![r].snap = db]
    BY <1>1, <2>1 DEF Tx
  <2>2. CASE Answer(r, "notFound")
    BY <1>2, <2>2
  <2>3. QED
    BY <1>4, <2>1, <2>2 DEF BookBegin
<1>5. CASE LockStep(r)
  <2>1. ASSUME NEW m \in QuietMoves, Quiet(r, m[1], m[2])
        PROVE  \A l \in tx'[r].locks \ tx[r].locks : Free(r, l)
    BY <2>1, QuietTx
  <2>2. QED
    BY <1>2, <1>3, <1>5, <2>1, LockSteps
<1>6. CASE FundStay(r)
  <2>1. PICK s \in NextStay(r) :
          \/ Answer(r, "insufficient")
          \/ Retry(r)
          \/ /\ Free(r, <<"keyShare", "stay", s>>)
             /\ InsertDraws(r, s, {UsageRow(r, s, draw) : draw \in Draws(r, s)})
    BY <1>6, FundCases
  <2>2. CASE /\ Free(r, <<"keyShare", "stay", s>>)
             /\ InsertDraws(r, s, {UsageRow(r, s, draw) : draw \in Draws(r, s)})
    <3> DEFINE rows == {UsageRow(r, s, draw) : draw \in Draws(r, s)}
    <3>1. s \in Stays
      BY <1>1 DEF NextStay, ToFund, Unbooked, StaysOf, Tx, DB
    <3>2. rows \in SUBSET Entry
      BY <3>1, UsageRowsType
    <3>3. InsertDraws(r, s, rows)
      BY <2>2
    <3> HIDE DEF rows
    <3>4. tx'[r].locks = tx[r].locks \cup {<<"keyShare", "stay", s>>}
      BY <3>1, <3>2, <3>3, InsertedDraws
    <3>5. QED
      BY <2>2, <3>4
  <2>3. QED
    BY <1>2, <1>3, <2>1, <2>2
<1>7. CASE BookCommit(r)
  <2>1. CASE ~LostRace(r)
    BY <1>1, <1>7, <2>1, CommitMoves
  <2>2. CASE LostRace(r)
    BY <1>3, <1>7, <2>2 DEF BookCommit
  <2>3. QED
    BY <2>1, <2>2
<1>8. CASE DeleteEntries(r)
  <2> DEFINE ids == EntryIdsOf(db, {s \in db.stays : Named(job[r], s)})
  <2>1. tx' = [tx EXCEPT ![r].gone = ids]
    BY <1>8 DEF DeleteEntries
  <2> HIDE DEF ids
  <2>2. QED
    BY <1>1, <2>1 DEF Tx
<1>9. CASE ImportCheck(r)
  <2>1. ASSUME NEW s \in Stays, NEW e \in db.entries, ReadsRow(r, s, e)
        PROVE  tx'[r].locks = tx[r].locks
    BY <1>1, <2>1, ImportedRow DEF DB
  <2>2. NewStays(r) \cup CurrentStays(r) \subseteq Stays
    BY <1>1 DEF NewStays, CurrentStays, Reached, Tx
  <2>3. QED
    BY <1>2, <1>9, <2>1, <2>2, Zenon DEF ImportCheck, ReadsRow
<1>10. CASE EditEntry(r)
  <2>1. ASSUME NEW e \in db.entries, NEW t \in HandRows,
               Free(r, <<"noKeyUpdate", "entry", e.id>>), TakesRow(r, e.id, t)
        PROVE  \A l \in tx'[r].locks \ tx[r].locks : Free(r, l)
    <3>1. e.id \in EntryId
      BY <1>1 DEF DB, Entry
    <3>2. tx'[r].locks = {<<"noKeyUpdate", "entry", e.id>>}
      BY <2>1, <3>1, EditedRow
    <3>3. QED
      BY <2>1, <3>2
  <2>2. CASE Answer(r, "ok")
    BY <1>2, <2>2
  <2>3. QED
    BY <1>10, <2>1, <2>2, Zenon DEF EditEntry, TakesRow
<1>11. CASE DeleteContract(r)
  <2>1. ASSUME NEW c \in db.contracts, Free(r, <<"update", "contract", c>>),
               Hold(r, {<<"update", "contract", c>>})
        PROVE  \A l \in tx'[r].locks \ tx[r].locks : Free(r, l)
    <3>1. tx'[r].locks = tx[r].locks \cup {<<"update", "contract", c>>}
      BY <1>1, <2>1, HeldContract DEF DB
    <3>2. QED
      BY <2>1, <3>1
  <2>2. CASE Answer(r, "ok")
    BY <1>2, <2>2
  <2>3. QED
    BY <1>11, <2>1, <2>2, Zenon DEF DeleteContract
<1>12. CASE Finishes(r)
  BY <1>2, <1>12, FinishMoves
<1>13. QED
  BY <1>4, <1>5, <1>6, <1>7, <1>8, <1>9, <1>10, <1>11, <1>12 DEF Step, LockStep, Finishes

\* Nobody has locked anything at first.
LEMMA LockInit == Init => LockInv
<1>1. Init => \A q \in Requests : tx[q].locks = {}
  BY DEF Init, NoTx
<1>2. QED
  BY <1>1, TypeInit DEF LockInv, Exclusive

\* Every step keeps locks apart.
LEMMA LockNext == LockInv /\ [Next]_vars => LockInv'
<1>1. SUFFICES ASSUME LockInv, [Next]_vars
               PROVE  LockInv'
  OBVIOUS
<1>2. TypeInv /\ TypeInv'
  BY <1>1, TypeNext DEF LockInv
<1>3. CASE UNCHANGED vars
  BY <1>1, <1>2, <1>3 DEF vars, LockInv, Exclusive
<1>4. ASSUME NEW r \in Requests, Step(r) \/ Abort(r)
      PROVE  LockInv'
  <2>1. \A q \in Requests \ {r} : tx'[q].locks = tx[q].locks
    BY <1>2, <1>4, StepMoves DEF Moves
  <2>2. ASSUME NEW q \in Requests \ {r}, NEW k \in tx[q].locks, NEW l \in tx'[r].locks,
               k[2] = l[2], k[3] = l[3]
        PROVE  Compatible(k[1], l[1]) /\ Compatible(l[1], k[1])
    <3>1. Compatible(k[1], l[1])
      <4>1. CASE l \in tx[r].locks
        BY <1>1, <2>2, <4>1 DEF LockInv, Exclusive
      <4>2. CASE l \notin tx[r].locks
        <5>1. Free(r, l)
          BY <1>2, <1>4, <2>2, <4>2, StepGrants
        <5>2. QED
          BY <1>2, <2>2, <5>1, FreeOf
      <4>3. QED
        BY <4>1, <4>2
    <3>2. {k[1], l[1]} = {l[1], k[1]}
      OBVIOUS
    <3>3. QED
      BY <3>1, <3>2 DEF Compatible
  <2>3. Exclusive'
    BY <1>1, <2>1, <2>2 DEF LockInv, Exclusive
  <2>4. QED
    BY <1>2, <2>3 DEF LockInv
<1>5. QED
  BY <1>1, <1>3, <1>4 DEF Next, Idle

-----------------------------------------------------------------------------
(* The links of trip_stay_entry stay sound and a failed booking leaves no  *)
(* row, whatever runs concurrently.                                        *)
(*                                                                         *)
(* Neither is inductive alone.  A commit adds rows and links that were     *)
(* written much earlier, so TxInv says what every open transaction holds:  *)
(* rows under ids that only its request can use, each linked to a stay     *)
(* that cannot go away before the commit; links to entries that are locked *)
(* once they have been checked; ids to delete that nobody can insert.      *)

\* The rows a booking has inserted carry its own ids, one row each, and are
\* linked to the stay they pay for.
OwnRows(r) ==
  pc[r] = "fund" =>
    /\ \A e \in tx[r].rows : e.id[1] = r /\ <<e.id[2], e.id>> \in tx[r].links
    /\ \A e, f \in tx[r].rows : e.id = f.id => e = f

\* Its links lead to those rows, from stays whose rows it keeps locked.
OwnLinks(r) ==
  pc[r] = "fund" =>
    \A l \in tx[r].links :
      /\ l[1] \in db.stays /\ <<"keyShare", "stay", l[1]>> \in tx[r].locks
      /\ l[2][2] = l[1]
      /\ \E e \in tx[r].rows : e.id = l[2]

\* An import links no entry twice, and what it has locked it may link.
ImportLinks(r) ==
  pc[r] \in {"checking", "linking"} =>
    /\ \A k, l \in tx[r].links : k[2] = l[2] => k = l
    /\ \A l \in tx[r].links : LinkLocks(l) \subseteq tx[r].locks => Linkable(db, l[2])

\* A deletion has the entries it deletes locked when it goes on to the trip.
GoneRows(r) ==
  /\ pc[r] \in {"deleting", "cascading"} =>
       \A id \in tx[r].gone : id[1] \in Requests => pc[id[1]] = "ok"
  /\ pc[r] = "cascading" =>
       \A id \in tx[r].gone \cap Ids(db.entries) : <<"update", "entry", id>> \in tx[r].locks

\* A request that has not begun has nothing to commit and no lock.
NothingYet(r) ==
  /\ pc[r] \in {"start", "lock"} => tx[r].links = {} /\ tx[r].rows = {}
  /\ pc[r] \in {"start", "checking"} => tx[r].locks = {}

TxOrder(r) == OwnRows(r) /\ OwnLinks(r) /\ ImportLinks(r) /\ GoneRows(r) /\ NothingYet(r)

TxInv == \A r \in Requests : TxOrder(r)

LinkInv == LockInv /\ LinkIntegrity /\ FailureLeavesNothing /\ TxInv

-----------------------------------------------------------------------------
(* What a step of r leaves to the other transactions: stays they share,    *)
(* entries they share, and entries they are about to link; and the only    *)
(* new ids in the ledger are its own.                                      *)
TablesKept(r) ==
  /\ \A q \in Requests \ {r} :
       /\ \A s \in db.stays \ db'.stays : <<"keyShare", "stay", s>> \notin tx[q].locks
       /\ \A id \in Ids(db.entries) \ Ids(db'.entries) :
            <<"keyShare", "entry", id>> \notin tx[q].locks
       /\ \A l \in db'.links \ db.links :
            <<"update", "link", l[2]>> \in tx[q].locks => l[2] \notin Ids(db.entries)
  /\ \A id \in Ids(db'.entries) \ Ids(db.entries) : id[1] = r

(***************************************************************************)
(* A step of r keeps TxInv when it leaves the tables to the others and its *)
(* own transaction in order.                                               *)
(***************************************************************************)
LEMMA TxKept ==
  ASSUME LinkInv, NEW r \in Requests, Moves(r), TablesKept(r), TxOrder(r)'
  PROVE  TxInv'
<1>1. SUFFICES ASSUME NEW q \in Requests \ {r}
               PROVE  TxOrder(q)'
  BY DEF TxInv
<1>2. TxOrder(q)
  BY DEF LinkInv, TxInv
<1>3. /\ pc'[q] = pc[q] /\ tx'[q].rows = tx[q].rows /\ tx'[q].links = tx[q].links
      /\ tx'[q].gone = tx[q].gone /\ tx'[q].locks = tx[q].locks
      /\ pc[r] \notin Answers
  BY DEF Moves
<1>4. OwnRows(q)' /\ NothingYet(q)'
  BY <1>2, <1>3 DEF TxOrder, OwnRows, NothingYet
<1>5. OwnLinks(q)'
  BY <1>2, <1>3 DEF TxOrder, OwnLinks, TablesKept
<1>6. ImportLinks(q)'
  <2>1. SUFFICES ASSUME pc[q] \in {"checking", "linking"}, NEW l \in tx[q].links,
                        LinkLocks(l) \subseteq tx[q].locks
                 PROVE  Linkable(db', l[2])
    BY <1>2, <1>3 DEF TxOrder, ImportLinks
  <2>2. <<"update", "link", l[2]>> \in tx[q].locks /\ <<"keyShare", "entry", l[2]>> \in tx[q].locks
    BY <2>1 DEF LinkLocks
  <2>3. Linkable(db, l[2])
    BY <1>2, <2>1 DEF TxOrder, ImportLinks
  <2>4. l[2] \in Ids(db.entries) /\ \A k \in db.links : k[2] # l[2]
    BY <2>3 DEF Linkable, Ids
  <2>5. l[2] \in Ids(db'.entries) /\ \A k \in db'.links : k[2] # l[2]
    BY <2>2, <2>4 DEF TablesKept
  <2>6. QED
    BY <2>5 DEF Linkable, Ids
<1>7. GoneRows(q)'
  <2>1. ASSUME pc[q] \in {"deleting", "cascading"}, NEW id \in tx[q].gone, id[1] \in Requests
        PROVE  pc'[id[1]] = "ok"
    <3>1. pc[id[1]] = "ok" /\ id[1] # r
      BY <1>2, <1>3, <2>1 DEF TxOrder, GoneRows, Answers
    <3>2. QED
      BY <2>1, <3>1 DEF Moves
  <2>2. ASSUME pc[q] = "cascading", NEW id \in tx[q].gone \cap Ids(db'.entries)
        PROVE  <<"update", "entry", id>> \in tx[q].locks
    <3>1. id[1] \in Requests => pc[id[1]] = "ok"
      BY <1>2, <2>2 DEF TxOrder, GoneRows
    <3>2. id[1] # r
      BY <1>3, <3>1 DEF Answers
    <3>3. id \in Ids(db.entries)
      BY <2>2, <3>2 DEF TablesKept
    <3>4. QED
      BY <1>2, <2>2, <3>3 DEF TxOrder, GoneRows
  <2>3. QED
    BY <1>3, <2>1, <2>2 DEF GoneRows
<1>8. QED
  BY <1>4, <1>5, <1>6, <1>7 DEF TxOrder

(***************************************************************************)
(* A transaction that has ended is in order.                               *)
(***************************************************************************)
LEMMA EndedTx ==
  ASSUME NEW r \in Requests, tx'[r] = NoTx
  PROVE  TxOrder(r)'
<1>1. /\ tx'[r].rows = {} /\ tx'[r].links = {} /\ tx'[r].gone = {} /\ tx'[r].locks = {}
  BY DEF NoTx
<1>2. QED
  BY <1>1 DEF TxOrder, OwnRows, OwnLinks, ImportLinks, GoneRows, NothingYet

\* An id that is new to the ledger is of a request that has committed.
LEMMA FailureKept ==
  ASSUME FailureLeavesNothing, NEW r \in Requests, Moves(r), TablesKept(r)
  PROVE  FailureLeavesNothing'
<1>1. pc[r] # "ok" /\ (db' = db \/ pc'[r] = "ok")
      /\ \A q \in Requests \ {r} : pc'[q] = pc[q]
  BY DEF Moves, Answers
<1>2. SUFFICES ASSUME NEW e \in db'.entries, e.id[1] \in Requests, pc'[e.id[1]] # "ok"
               PROVE  FALSE
  BY DEF FailureLeavesNothing
<1>3. pc[e.id[1]] # "ok"
  BY <1>1, <1>2
<1>4. e.id \notin Ids(db.entries)
  BY <1>2, <1>3 DEF FailureLeavesNothing, Ids
<1>5. e.id[1] = r
  BY <1>4 DEF TablesKept, Ids
<1>6. db' = db
  BY <1>1, <1>2, <1>5
<1>7. QED
  BY <1>4, <1>6 DEF Ids

(***************************************************************************)
(* A step that leaves the tables alone.                                    *)
(***************************************************************************)
LEMMA QuietStep ==
  ASSUME LinkInv, LockInv', NEW r \in Requests, Moves(r), UNCHANGED db, TxOrder(r)'
  PROVE  LinkInv'
<1>1. TablesKept(r)
  BY DEF TablesKept
<1>2. LinkIntegrity'
  BY DEF LinkInv, LinkIntegrity
<1>3. TxInv' /\ FailureLeavesNothing'
  BY <1>1, TxKept, FailureKept DEF LinkInv
<1>4. QED
  BY <1>2, <1>3 DEF LinkInv

(***************************************************************************)
(* A step that ends the transaction.                                       *)
(***************************************************************************)
LEMMA EndingStep ==
  ASSUME LinkInv, LockInv', NEW r \in Requests, Moves(r), tx'[r] = NoTx,
         TablesKept(r), LinkIntegrity'
  PROVE  LinkInv'
BY EndedTx, TxKept, FailureKept DEF LinkInv

(***************************************************************************)
(* Taking rows out keeps the keys: links cascade away with their entry or  *)
(* their stay, and no stay is left without its trip.                       *)
(***************************************************************************)
LEMMA WithoutConsistent ==
  ASSUME NEW d \in DB, Consistent(d), NEW ids, NEW stays, NEW trips,
         \A s \in d.stays : TripOf[s] \in trips => s \in stays
  PROVE  Consistent(Without(d, ids, stays, trips))
<1> DEFINE n == Without(d, ids, stays, trips)
<1>1. /\ n.entries = {e \in d.entries : e.id \notin ids}
      /\ n.links = {l \in d.links : l[2] \notin ids /\ l[1] \notin stays}
      /\ n.stays = d.stays \ stays
      /\ n.trips = d.trips \ trips
  BY DEF Without, DB
<1> HIDE DEF n
<1>2. LinksExist(n)
  BY <1>1 DEF Consistent, LinksExist
<1>3. LinksUnique(n)
  BY <1>1 DEF Consistent, LinksUnique
<1>4. IdsUnique(n)
  BY <1>1 DEF Consistent, IdsUnique
<1>5. StaysHaveTrips(n)
  BY <1>1 DEF Consistent, StaysHaveTrips
<1>6. QED
  BY <1>2, <1>3, <1>4, <1>5 DEF Consistent, n

-----------------------------------------------------------------------------
(* Booking. *)

\* An attempt begins with no row and no link; one that is given up leaves
\* nothing behind.
LEMMA LinkBookBegin ==
  ASSUME LinkInv, LockInv', NEW r \in Requests, Moves(r), BookBegin(r)
  PROVE  LinkInv'
<1>1. db' = db /\ pc[r] = "start" /\ tx \in [Requests -> Tx] /\ pc \in [Requests -> PcType]
  BY DEF BookBegin, LinkInv, LockInv, TypeInv, TypeOK, PcType
<1>2. CASE Answer(r, "notFound")
  <2>1. tx'[r] = NoTx
    BY <1>1, <1>2 DEF Answer
  <2>2. QED
    BY <1>1, <2>1, EndedTx, QuietStep
<1>3. CASE tx' = [tx EXCEPT ![r].snap = db] /\ pc' = [pc EXCEPT ![r] = "lock"]
  <2>1. tx'[r].rows = tx[r].rows /\ tx'[r].links = tx[r].links /\ pc'[r] = "lock"
    BY <1>1, <1>3 DEF Tx
  <2>2. tx[r].links = {} /\ tx[r].rows = {}
    BY <1>1 DEF LinkInv, TxInv, TxOrder, NothingYet
  <2>3. TxOrder(r)'
    BY <2>1, <2>2 DEF TxOrder, OwnRows, OwnLinks, ImportLinks, GoneRows, NothingYet
  <2>4. QED
    BY <1>1, <2>3, QuietStep
<1>4. QED
  BY <1>2, <1>3 DEF BookBegin

(***************************************************************************)
(* Locks and the next statement: the loop begins with no row and no link,  *)
(* a deletion goes on with its entries locked, an import locks only what   *)
(* it may link.                                                            *)
(***************************************************************************)
LEMMA LinkQuiet ==
  ASSUME LinkInv, NEW r \in Requests, LockStep(r), NEW m \in QuietMoves, Quiet(r, m[1], m[2])
  PROVE  TxOrder(r)'
<1>1. db' = db
  BY DEF Quiet
<1>2. /\ pc[r] = m[1] /\ pc'[r] = m[2]
      /\ tx'[r].rows = tx[r].rows /\ tx'[r].links = tx[r].links /\ tx'[r].gone = tx[r].gone
      /\ tx[r].locks \subseteq tx'[r].locks
      /\ \A q \in Requests \ {r} : pc'[q] = pc[q]
  BY QuietTx DEF LinkInv, LockInv
<1>3. TxOrder(r)
  BY DEF LinkInv, TxInv
<1>4. m[2] \notin {"start", "checking"} /\ (m[2] = "lock" => m[1] = "lock")
      /\ (m[2] = "fund" => m[1] = "lock")
      /\ (m[2] \in {"deleting", "cascading"} => m[1] \in {"deleting", "cascading"})
      /\ (m[2] = "linking" => m[1] \in {"checking", "linking"})
      /\ m[1] \notin Answers
  BY DEF QuietMoves, Answers
<1>5. NothingYet(r)'
  BY <1>2, <1>3, <1>4 DEF TxOrder, NothingYet
<1>6. OwnRows(r)' /\ OwnLinks(r)'
  <2>1. m[2] = "fund" => tx[r].rows = {} /\ tx[r].links = {}
    BY <1>2, <1>3, <1>4 DEF TxOrder, NothingYet
  <2>2. QED
    BY <1>2, <2>1 DEF OwnRows, OwnLinks
<1>7. GoneRows(r)'
  <2>1. ASSUME m[2] \in {"deleting", "cascading"}, NEW id \in tx[r].gone, id[1] \in Requests
        PROVE  pc'[id[1]] = "ok"
    <3>1. pc[id[1]] = "ok"
      BY <1>2, <1>3, <1>4, <2>1 DEF TxOrder, GoneRows
    <3>2. id[1] # r
      BY <1>2, <1>4, <3>1 DEF Answers
    <3>3. QED
      BY <1>2, <2>1, <3>1, <3>2
  <2>2. ASSUME m[2] = "cascading", NEW id \in tx[r].gone \cap Ids(db.entries)
        PROVE  <<"update", "entry", id>> \in tx'[r].locks
    <3>1. CASE m[1] = "cascading"
      BY <1>2, <1>3, <2>2, <3>1 DEF TxOrder, GoneRows
    <3>2. CASE m[1] = "deleting"
      <4>1. pc[r] = "deleting" /\ pc'[r] = "cascading"
        BY <1>2, <2>2, <3>2
      <4>2. pc' # pc
        BY <4>1
      <4>3. DeleteRest(r)
        BY <4>1, <4>2 DEF LockStep, LockLots, ReadUsage, LockRow, ImportInsert, ImportLink
      <4>4. ToLock(r) = {}
        BY <4>3 DEF DeleteRest
      <4>5. EntryLocks(tx[r].gone) \subseteq tx[r].locks
        BY <4>1, <4>4, Zenon DEF ToLock
      <4>6. <<"update", "entry", id>> \in EntryLocks(tx[r].gone)
        BY <2>2 DEF EntryLocks, Locks
      <4>7. QED
        BY <1>2, <4>5, <4>6
    <3>3. QED
      BY <1>4, <2>2, <3>1, <3>2
  <2>3. QED
    BY <1>1, <1>2, <2>1, <2>2 DEF GoneRows
<1>8. ImportLinks(r)'
  <2>1. SUFFICES ASSUME m[2] = "linking"
                 PROVE  /\ \A k, l \in tx[r].links : k[2] = l[2] => k = l
                        /\ \A l \in tx[r].links :
                             LinkLocks(l) \subseteq tx'[r].locks => Linkable(db, l[2])
    BY <1>1, <1>2 DEF ImportLinks, QuietMoves
  <2>2. /\ \A k, l \in tx[r].links : k[2] = l[2] => k = l
        /\ \A l \in tx[r].links : LinkLocks(l) \subseteq tx[r].locks => Linkable(db, l[2])
    BY <1>2, <1>3, <1>4, <2>1 DEF TxOrder, ImportLinks
  <2>3. CASE tx'[r].locks = tx[r].locks
    BY <2>2, <2>3
  <2>4. CASE tx'[r].locks # tx[r].locks
    <3>1. ImportLink(r)
      BY <1>2, <1>4, <2>1, <2>4 DEF LockStep, LockLots, ReadUsage, LockRow, DeleteRest, ImportInsert
    <3>2. pc'[r] # "rejected" /\ pc \in [Requests -> PcType] /\ tx \in [Requests -> Tx]
      BY <1>2, <2>1 DEF LinkInv, LockInv, TypeInv, TypeOK, PcType
    <3>3. PICK k \in tx[r].links : Linkable(db, k[2]) /\ Hold(r, LinkLocks(k))
      BY <3>1, <3>2 DEF ImportLink, Answer, ToLink
    <3>4. tx'[r].locks = tx[r].locks \cup LinkLocks(k)
      BY <3>2, <3>3 DEF Hold, Tx
    <3>5. ASSUME NEW l \in tx[r].links, LinkLocks(l) \subseteq tx'[r].locks, l[2] # k[2]
          PROVE  LinkLocks(l) \subseteq tx[r].locks
      BY <3>4, <3>5 DEF LinkLocks
    <3>6. QED
      BY <2>2, <3>3, <3>5
  <2>5. QED
    BY <2>3, <2>4
<1>9. QED
  BY <1>5, <1>6, <1>7, <1>8 DEF TxOrder

LEMMA LinkLockStep ==
  ASSUME LinkInv, LockInv', NEW r \in Requests, Moves(r), LockStep(r)
  PROVE  LinkInv'
<1>1. TypeInv /\ tx \in [Requests -> Tx]
  BY DEF LinkInv, LockInv, TypeInv, TypeOK
<1>2. UNCHANGED db
  BY <1>1, LockSteps
<1>3. CASE \E a : Answer(r, a)
  <2>1. tx'[r] = NoTx
    BY <1>1, <1>3 DEF Answer
  <2>2. QED
    BY <1>2, <2>1, EndedTx, QuietStep
<1>4. ASSUME NEW m \in QuietMoves, Quiet(r, m[1], m[2])
      PROVE  LinkInv'
  BY <1>2, <1>4, LinkQuiet, QuietStep
<1>5. QED
  BY <1>1, <1>3, <1>4, LockSteps DEF Retry

(***************************************************************************)
(* A turn of the loop adds rows for a stay it has not reached, so their    *)
(* ids are new to the transaction too.                                     *)
(***************************************************************************)
LEMMA LinkFundStay ==
  ASSUME LinkInv, LockInv', NEW r \in Requests, Moves(r), FundStay(r)
  PROVE  LinkInv'
<1>1. pc[r] = "fund" /\ db' = db
  BY FundCases
<1>2. TypeInv /\ tx \in [Requests -> Tx] /\ db \in DB
  BY DEF LinkInv, LockInv, TypeInv, TypeOK
<1>3. PICK s \in NextStay(r) :
        \/ Answer(r, "insufficient")
        \/ Retry(r)
        \/ /\ s \in db.stays
           /\ InsertDraws(r, s, {UsageRow(r, s, draw) : draw \in Draws(r, s)})
           /\ UNCHANGED pc
  BY FundCases
<1>4. CASE Answer(r, "insufficient") \/ Retry(r)
  <2>1. tx'[r] = NoTx
    BY <1>2, <1>4 DEF Answer, Retry
  <2>2. QED
    BY <1>1, <2>1, EndedTx, QuietStep
<1>5. CASE /\ s \in db.stays
           /\ InsertDraws(r, s, {UsageRow(r, s, draw) : draw \in Draws(r, s)})
           /\ UNCHANGED pc
  <2> DEFINE rows == {UsageRow(r, s, draw) : draw \in Draws(r, s)}
  <2>1. s \in Stays
    BY <1>2, <1>5 DEF DB
  <2>2. rows \in SUBSET Entry /\ \A e, f \in rows : e.id = f.id => e = f
    BY <1>2, <2>1, UsageRowsType
  <2>3. \A e \in rows : e.id[1] = r /\ e.id[2] = s
    BY DEF UsageRow
  <2>4. \A l \in tx[r].links : l[1] # s
    BY DEF NextStay, ToFund, Reached
  <2>5. InsertDraws(r, s, rows)
    BY <1>5
  <2> HIDE DEF rows
  <2>6. /\ tx'[r].rows = tx[r].rows \cup rows
        /\ tx'[r].links = tx[r].links \cup LinksTo(s, rows)
        /\ tx'[r].locks = tx[r].locks \cup {<<"keyShare", "stay", s>>}
    BY <1>2, <2>1, <2>2, <2>5, InsertedDraws
  <2>7. OwnRows(r) /\ OwnLinks(r)
    BY DEF LinkInv, TxInv, TxOrder
  <2>8. OwnRows(r)'
    <3>1. \A e \in tx[r].rows : e.id[2] # s
      BY <1>1, <2>4, <2>7 DEF OwnRows
    <3>2. \A e \in rows : <<e.id[2], e.id>> \in LinksTo(s, rows)
      BY <2>3 DEF LinksTo
    <3>3. \A e \in tx'[r].rows : e.id[1] = r /\ <<e.id[2], e.id>> \in tx'[r].links
      BY <1>1, <2>3, <2>6, <2>7, <3>2 DEF OwnRows
    <3>4. \A e, f \in tx'[r].rows : e.id = f.id => e = f
      BY <1>1, <2>2, <2>3, <2>6, <2>7, <3>1 DEF OwnRows
    <3>5. QED
      BY <3>3, <3>4 DEF OwnRows
  <2>9. OwnLinks(r)'
    <3>1. \A l \in LinksTo(s, rows) :
            l[1] = s /\ l[2][2] = s /\ \E e \in rows : e.id = l[2]
      BY <2>3 DEF LinksTo
    <3>2. QED
      BY <1>1, <1>5, <2>6, <2>7, <3>1 DEF OwnLinks
  <2>10. ImportLinks(r)' /\ GoneRows(r)' /\ NothingYet(r)'
    BY <1>1, <1>5 DEF ImportLinks, GoneRows, NothingYet
  <2>11. QED
    BY <1>1, <2>8, <2>9, <2>10, QuietStep DEF TxOrder
<1>6. QED
  BY <1>3, <1>4, <1>5

(***************************************************************************)
(* The commit adds links between rows and stays that are both there, under *)
(* ids no committed row has.                                               *)
(***************************************************************************)
LEMMA LinkBookCommit ==
  ASSUME LinkInv, LockInv', NEW r \in Requests, Moves(r), BookCommit(r)
  PROVE  LinkInv'
<1>1. pc[r] = "fund" /\ TypeInv /\ db \in DB /\ tx \in [Requests -> Tx]
  BY DEF BookCommit, LinkInv, LockInv, TypeInv, TypeOK
<1>2. CASE Retry(r) /\ UNCHANGED db
  <2>1. tx'[r] = NoTx
    BY <1>1, <1>2 DEF Retry, Answer
  <2>2. QED
    BY <1>2, <2>1, EndedTx, QuietStep
<1>3. CASE ~LostRace(r)
  <2>1. db' = [db EXCEPT !.entries = @ \cup tx[r].rows, !.links = @ \cup tx[r].links]
    BY <1>3, Zenon DEF BookCommit
  <2>2. /\ db'.entries = db.entries \cup tx[r].rows
        /\ db'.links = db.links \cup tx[r].links
        /\ db'.stays = db.stays /\ db'.trips = db.trips
    BY <1>1, <2>1 DEF DB
  <2>3. tx'[r] = NoTx
    BY <1>1, <1>3, CommitMoves
  <2>4. /\ \A e \in tx[r].rows : e.id[1] = r
        /\ \A l \in tx[r].links : /\ l[1] \in db.stays
                                  /\ l[2][2] = l[1]
                                  /\ \E e \in tx[r].rows : e.id = l[2]
        /\ \A e, f \in tx[r].rows : e.id = f.id => e = f
    <3>1. OwnRows(r) /\ OwnLinks(r)
      BY DEF LinkInv, TxInv, TxOrder
    <3>2. QED
      BY <1>1, <3>1 DEF OwnRows, OwnLinks
  <2>5. \A e \in db.entries : e.id[1] # r
    BY <1>1 DEF LinkInv, FailureLeavesNothing
  <2>6. Consistent(db)
    BY DEF LinkInv, LinkIntegrity
  <2>7. LinksExist(db')
    BY <2>2, <2>4, <2>6 DEF Consistent, LinksExist
  <2>8. LinksUnique(db')
    <3>1. \A l \in db.links : l[2][1] # r
      BY <2>5, <2>6 DEF Consistent, LinksExist
    <3>2. \A l \in tx[r].links : l[2][1] = r
      BY <2>4
    <3>3. \A k, l \in tx[r].links : k[2] = l[2] => k = l
      <4>1. tx[r].links \subseteq Stays \X EntryId
        BY <1>1 DEF Tx
      <4>2. \A l \in tx[r].links : l = <<l[1], l[2]>>
        BY <4>1
      <4>3. QED
        BY <2>4, <4>2
    <3>4. QED
      BY <2>2, <2>6, <3>1, <3>2, <3>3 DEF Consistent, LinksUnique
  <2>9. IdsUnique(db')
    BY <2>2, <2>4, <2>5, <2>6 DEF Consistent, IdsUnique
  <2>10. StaysHaveTrips(db')
    BY <2>2, <2>6 DEF Consistent, StaysHaveTrips
  <2>11. TablesKept(r)
    <3>1. \A l \in db'.links \ db.links : l[2][1] = r
      BY <2>2, <2>4
    <3>2. \A l \in db'.links \ db.links : l[2] \notin Ids(db.entries)
      BY <2>5, <3>1 DEF Ids
    <3>3. Ids(db.entries) \subseteq Ids(db'.entries)
          /\ \A id \in Ids(db'.entries) \ Ids(db.entries) : id[1] = r
      BY <2>2, <2>4 DEF Ids
    <3>4. QED
      BY <2>2, <3>2, <3>3 DEF TablesKept
  <2>12. QED
    BY <2>3, <2>7, <2>8, <2>9, <2>10, <2>11, EndingStep DEF LinkIntegrity, Consistent
<1>4. QED
  BY <1>2, <1>3 DEF BookCommit

-----------------------------------------------------------------------------
(* Unbooking, deleting and importing. *)

\* A row one request is deleting, no other keeps or deletes.
LEMMA HeldAlone ==
  ASSUME LockInv, NEW r \in Requests, NEW q \in Requests \ {r}, NEW table, NEW key,
         <<"update", table, key>> \in tx[r].locks
  PROVE  /\ <<"keyShare", table, key>> \notin tx[q].locks
         /\ <<"update", table, key>> \notin tx[q].locks
<1>1. ~Compatible("update", "keyShare") /\ ~Compatible("update", "update")
  BY DEF Compatible
<1>2. ASSUME NEW strength, <<strength, table, key>> \in tx[q].locks
      PROVE  Compatible("update", strength)
  BY <1>2 DEF LockInv, Exclusive
<1>3. QED
  BY <1>1, <1>2

\* DeleteEntries: only reads, and what it finds is of bookings that committed.
LEMMA LinkDeleteEntries ==
  ASSUME LinkInv, LockInv', NEW r \in Requests, Moves(r), DeleteEntries(r)
  PROVE  LinkInv'
<1> DEFINE ids == EntryIdsOf(db, {s \in db.stays : Named(job[r], s)})
<1>1. /\ UNCHANGED db /\ pc[r] = "start"
      /\ tx' = [tx EXCEPT ![r].gone = ids] /\ pc' = [pc EXCEPT ![r] = "deleting"]
  BY DEF DeleteEntries
<1>2. \A id \in ids : id[1] \in Requests => pc[id[1]] = "ok"
  <2>1. \A id \in ids : \E e \in db.entries : e.id = id
    BY DEF EntryIdsOf, LinkInv, LinkIntegrity, Consistent, LinksExist
  <2>2. QED
    BY <2>1 DEF LinkInv, FailureLeavesNothing
<1> HIDE DEF ids
<1>3. tx \in [Requests -> Tx] /\ pc \in [Requests -> PcType]
  BY DEF LinkInv, LockInv, TypeInv, TypeOK, PcType
<1>4. /\ tx'[r].gone = ids
      /\ pc'[r] = "deleting" /\ \A q \in Requests \ {r} : pc'[q] = pc[q]
  BY <1>1, <1>3 DEF Tx
<1>5. GoneRows(r)'
  BY <1>1, <1>2, <1>4 DEF GoneRows
<1>6. (OwnRows(r) /\ OwnLinks(r) /\ ImportLinks(r) /\ NothingYet(r))'
  BY <1>4 DEF OwnRows, OwnLinks, ImportLinks, NothingYet
<1>7. QED
  BY <1>1, <1>5, <1>6, QuietStep DEF TxOrder

(***************************************************************************)
(* The stays a deletion takes away are shared by no open booking and the   *)
(* entries by no import, and a trip goes with all its stays.               *)
(***************************************************************************)
LEMMA LinkDeleteCommit ==
  ASSUME LinkInv, LockInv', NEW r \in Requests, Moves(r), DeleteCommit(r)
  PROVE  LinkInv'
<1> DEFINE stays == DeletedStays(db, job[r])
           trips == DeletedTrips(job[r])
           ids == tx[r].gone
<1>1. /\ Answer(r, "ok") /\ ToLock(r) = {} /\ db' = Without(db, ids, stays, trips)
      /\ pc[r] = IF job[r].op = "unbook" THEN "deleting" ELSE "cascading"
  BY DEF DeleteCommit
<1>2. db \in DB /\ Consistent(db) /\ tx \in [Requests -> Tx]
  BY DEF LinkInv, LockInv, LinkIntegrity, TypeInv, TypeOK
<1>3. \A s \in db.stays : TripOf[s] \in trips => s \in stays
  BY DEF DeletedTrips, DeletedStays, Named
<1>4. \A s \in stays : <<"update", "stay", s>> \in tx[r].locks
  <2>1. SUFFICES ASSUME NEW s \in stays
                 PROVE  <<"update", "stay", s>> \in tx[r].locks
    OBVIOUS
  <2>2. pc[r] = "cascading"
    BY <1>1, <2>1 DEF DeletedStays
  <2>3. CascadeLocks(trips, stays) \subseteq tx[r].locks
    BY <1>1, <2>2, Zenon DEF ToLock
  <2>4. <<"update", "stay", s>> \in CascadeLocks(trips, stays)
    BY <2>1 DEF CascadeLocks, Locks
  <2>5. QED
    BY <2>3, <2>4
<1>5. \A id \in ids \cap Ids(db.entries) : <<"update", "entry", id>> \in tx[r].locks
  <2>1. CASE pc[r] = "deleting"
    <3>1. EntryLocks(ids) \subseteq tx[r].locks
      BY <1>1, <2>1, Zenon DEF ToLock
    <3>2. \A id \in ids \cap Ids(db.entries) : <<"update", "entry", id>> \in EntryLocks(ids)
      BY DEF EntryLocks, Locks
    <3>3. QED
      BY <3>1, <3>2
  <2>2. CASE pc[r] = "cascading"
    <3>1. GoneRows(r)
      BY DEF LinkInv, TxInv, TxOrder
    <3>2. QED
      BY <2>2, <3>1 DEF GoneRows
  <2>3. QED
    BY <1>1, <2>1, <2>2
<1> HIDE DEF stays, trips, ids
<1>6. LinkIntegrity'
  BY <1>1, <1>2, <1>3, WithoutConsistent DEF LinkIntegrity
<1>7. /\ db'.stays = db.stays \ stays
      /\ db'.entries = {e \in db.entries : e.id \notin ids} /\ db'.links \subseteq db.links
  BY <1>1, <1>2 DEF Without, DB
<1>8. TablesKept(r)
  <2>1. Ids(db'.entries) \subseteq Ids(db.entries) /\ Ids(db.entries) \ Ids(db'.entries) \subseteq ids
    BY <1>7 DEF Ids
  <2>2. ASSUME NEW q \in Requests \ {r}
        PROVE  /\ \A s \in db.stays \ db'.stays : <<"keyShare", "stay", s>> \notin tx[q].locks
               /\ \A id \in Ids(db.entries) \ Ids(db'.entries) :
                    <<"keyShare", "entry", id>> \notin tx[q].locks
    BY <1>4, <1>5, <1>7, <2>1, HeldAlone DEF LinkInv
  <2>3. QED
    BY <1>7, <2>1, <2>2 DEF TablesKept
<1>9. tx'[r] = NoTx
  BY <1>1, <1>2 DEF Answer
<1>10. QED
  BY <1>6, <1>8, <1>9, EndingStep

\* ImportCheck: the entry is linked to no stay and not seen before.
LEMMA LinkImportCheck ==
  ASSUME LinkInv, LockInv', NEW r \in Requests, Moves(r), ImportCheck(r)
  PROVE  LinkInv'
<1>1. UNCHANGED db /\ pc[r] \in {"start", "checking"}
  BY DEF ImportCheck
<1>2. TypeInv /\ tx \in [Requests -> Tx] /\ pc \in [Requests -> PcType] /\ db \in DB
  BY DEF LinkInv, LockInv, TypeInv, TypeOK, PcType
<1>3. CASE Answer(r, "rejected")
  <2>1. tx'[r] = NoTx
    BY <1>2, <1>3 DEF Answer
  <2>2. QED
    BY <1>1, <2>1, EndedTx, QuietStep
<1>4. ASSUME NEW s \in Stays, NEW e \in db.entries, Importable(r, e), ReadsRow(r, s, e),
             pc' = [pc EXCEPT ![r] = "checking"]
      PROVE  LinkInv'
  <2>1. e \in Entry
    BY <1>2 DEF DB
  <2>2. /\ tx'[r].links = tx[r].links \cup {<<s, e.id>>} /\ tx'[r].locks = tx[r].locks
        /\ pc'[r] = "checking"
    BY <1>2, <1>4, <2>1, ImportedRow
  <2>3. \A l \in tx[r].links : l[2] # e.id
    BY <1>4 DEF Importable
  <2>4. tx[r].locks = {} /\ \A k, l \in tx[r].links : k[2] = l[2] => k = l
    <3>1. NothingYet(r) /\ ImportLinks(r)
      BY DEF LinkInv, TxInv, TxOrder
    <3>2. QED
      BY <1>1, <3>1 DEF NothingYet, ImportLinks
  <2>5. \A k, l \in tx'[r].links : k[2] = l[2] => k = l
    BY <2>2, <2>3, <2>4
  <2>6. \A l \in tx'[r].links : ~(LinkLocks(l) \subseteq tx'[r].locks)
    BY <2>2, <2>4 DEF LinkLocks
  <2>7. (OwnRows(r) /\ OwnLinks(r) /\ ImportLinks(r) /\ GoneRows(r) /\ NothingYet(r))'
    BY <2>2, <2>4, <2>5, <2>6 DEF OwnRows, OwnLinks, ImportLinks, GoneRows, NothingYet
  <2>8. QED
    BY <1>1, <2>7, QuietStep DEF TxOrder
<1>5. NewStays(r) \cup CurrentStays(r) \subseteq Stays
  BY <1>2 DEF NewStays, CurrentStays, Reached, Tx
<1>6. QED
  BY <1>3, <1>4, <1>5, Zenon DEF ImportCheck, ReadsRow

(***************************************************************************)
(* What the earlier check found may be stale; the keys and the locks that  *)
(* check them are what keeps the links sound.                              *)
(***************************************************************************)
LEMMA LinkImportCommit ==
  ASSUME LinkInv, LockInv', NEW r \in Requests, Moves(r), ImportCommit(r)
  PROVE  LinkInv'
<1> DEFINE new == Reached(r)
<1>1. /\ pc[r] = "linking" /\ ToLink(r) = {} /\ Answer(r, "ok")
      /\ db' = [db EXCEPT !.trips = @ \cup {TripOf[s] : s \in new},
                          !.stays = @ \cup new, !.links = @ \cup tx[r].links]
  BY DEF ImportCommit
<1>2. db \in DB /\ Consistent(db) /\ tx \in [Requests -> Tx]
  BY DEF LinkInv, LockInv, LinkIntegrity, TypeInv, TypeOK
<1>3. \A l \in tx[r].links : l[1] \in new
  BY DEF Reached
<1> HIDE DEF new
<1>4. /\ db'.entries = db.entries /\ db'.links = db.links \cup tx[r].links
      /\ db'.stays = db.stays \cup new
      /\ db'.trips = db.trips \cup {TripOf[s] : s \in new}
  BY <1>1, <1>2 DEF DB
<1>5. \A l \in tx[r].links : LinkLocks(l) \subseteq tx[r].locks
  BY <1>1 DEF ToLink
<1>6. /\ \A l \in tx[r].links : Linkable(db, l[2])
      /\ \A k, l \in tx[r].links : k[2] = l[2] => k = l
  <2>1. ImportLinks(r)
    BY DEF LinkInv, TxInv, TxOrder
  <2>2. QED
    BY <1>1, <1>5, <2>1 DEF ImportLinks
<1>7. LinksExist(db')
  BY <1>2, <1>3, <1>4, <1>6 DEF Consistent, LinksExist, Linkable
<1>8. LinksUnique(db')
  BY <1>2, <1>4, <1>6 DEF Consistent, LinksUnique, Linkable
<1>9. IdsUnique(db') /\ StaysHaveTrips(db')
  BY <1>2, <1>4 DEF Consistent, IdsUnique, StaysHaveTrips
<1>10. TablesKept(r)
  <2>1. ASSUME NEW q \in Requests \ {r}, NEW l \in tx[r].links
        PROVE  <<"update", "link", l[2]>> \notin tx[q].locks
    <3>1. <<"update", "link", l[2]>> \in tx[r].locks
      BY <1>5 DEF LinkLocks
    <3>2. QED
      BY <3>1, HeldAlone DEF LinkInv
  <2>2. QED
    BY <1>4, <2>1 DEF TablesKept
<1>11. tx'[r] = NoTx
  BY <1>1, <1>2 DEF Answer
<1>12. QED
  BY <1>7, <1>8, <1>9, <1>10, <1>11, EndingStep DEF LinkIntegrity, Consistent

-----------------------------------------------------------------------------
(* Single statements. *)

\* A step that changes entries, contracts or months under the same keys.
LEMMA SameKeys ==
  ASSUME LinkInv, LockInv', NEW r \in Requests, Moves(r), tx'[r] = NoTx,
         db'.links = db.links, db'.stays = db.stays, db'.trips = db.trips,
         Ids(db'.entries) = Ids(db.entries), IdsUnique(db')
  PROVE  LinkInv'
<1>1. Consistent(db)
  BY DEF LinkInv, LinkIntegrity
<1>2. \A l \in db.links : l[1] \in db.stays /\ l[2] \in Ids(db.entries)
  BY <1>1 DEF Consistent, LinksExist, Ids
<1>3. \A l \in db'.links : l[1] \in db'.stays /\ l[2] \in Ids(db'.entries)
  BY <1>2
<1>4. LinksExist(db')
  BY <1>3 DEF LinksExist, Ids
<1>5. LinksUnique(db') /\ StaysHaveTrips(db')
  BY <1>1 DEF Consistent, LinksUnique, StaysHaveTrips
<1>6. TablesKept(r)
  BY DEF TablesKept
<1>7. QED
  BY <1>4, <1>5, <1>6, EndingStep DEF LinkIntegrity, Consistent

\* A step that leaves the tables alone, and ends.
LEMMA NothingChanged ==
  ASSUME LinkInv, LockInv', NEW r \in Requests, Moves(r), tx'[r] = NoTx, UNCHANGED db
  PROVE  LinkInv'
BY EndedTx, QuietStep

\* AddStay: the new stay has its trip and no link.
LEMMA LinkAddStay ==
  ASSUME LinkInv, LockInv', NEW r \in Requests, Moves(r), tx'[r] = NoTx, AddStay(r)
  PROVE  LinkInv'
<1>1. CASE UNCHANGED db
  BY <1>1, NothingChanged
<1>2. ASSUME NEW s, TripOf[s] \in db.trips, db' = [db EXCEPT !.stays = @ \cup {s}]
      PROVE  LinkInv'
  <2>1. /\ db'.entries = db.entries /\ db'.links = db.links /\ db'.trips = db.trips
        /\ db'.stays = db.stays \cup {s}
    BY <1>2 DEF LinkInv, LockInv, TypeInv, TypeOK, DB
  <2>2. LinkIntegrity'
    BY <1>2, <2>1 DEF LinkInv, LinkIntegrity, Consistent, LinksExist, LinksUnique, IdsUnique,
                      StaysHaveTrips
  <2>3. TablesKept(r)
    BY <2>1 DEF TablesKept
  <2>4. QED
    BY <2>2, <2>3, EndingStep
<1>3. QED
  BY <1>1, <1>2 DEF AddStay

\* AddEntry: the id of the new row is new.
LEMMA LinkAddEntry ==
  ASSUME LinkInv, LockInv', NEW r \in Requests, Moves(r), tx'[r] = NoTx, AddEntry(r)
  PROVE  LinkInv'
<1>1. pc[r] = "start"
  BY DEF AddEntry
<1>2. CASE UNCHANGED db
  BY <1>2, NothingChanged
<1>3. ASSUME NEW t \in HandRows,
             db' = [db EXCEPT !.entries = @ \cup {Typed(<<r, 0, LotOf(t)>>, t)}]
      PROVE  LinkInv'
  <2> DEFINE e == Typed(<<r, 0, LotOf(t)>>, t)
  <2>1. e.id[1] = r
    BY DEF Typed
  <2>2. /\ db'.entries = db.entries \cup {e} /\ db'.links = db.links
        /\ db'.stays = db.stays /\ db'.trips = db.trips
    BY <1>3 DEF LinkInv, LockInv, TypeInv, TypeOK, DB
  <2> HIDE DEF e
  <2>3. \A f \in db.entries : f.id[1] # r
    BY <1>1 DEF LinkInv, FailureLeavesNothing
  <2>4. LinkIntegrity'
    BY <2>1, <2>2, <2>3 DEF LinkInv, LinkIntegrity, Consistent, LinksExist, LinksUnique,
                            IdsUnique, StaysHaveTrips
  <2>5. Ids(db.entries) \subseteq Ids(db'.entries)
        /\ \A id \in Ids(db'.entries) \ Ids(db.entries) : id[1] = r
    BY <2>1, <2>2 DEF Ids
  <2>6. TablesKept(r)
    BY <2>2, <2>5 DEF TablesKept
  <2>7. QED
    BY <2>4, <2>6, EndingStep
<1>4. QED
  BY <1>2, <1>3, Zenon DEF AddEntry

\* EditCommit: the row keeps its id, so links to it hold.
LEMMA LinkEditCommit ==
  ASSUME LinkInv, LockInv', NEW r \in Requests, Moves(r), tx'[r] = NoTx, EditCommit(r)
  PROVE  LinkInv'
<1>1. CASE UNCHANGED db
  BY <1>1, NothingChanged
<1>2. ASSUME NEW e \in db.entries, NEW row, e.id = row.id,
             db' = [db EXCEPT !.entries = (@ \ {e}) \cup {row}]
      PROVE  LinkInv'
  <2>1. /\ db'.entries = (db.entries \ {e}) \cup {row} /\ db'.links = db.links
        /\ db'.stays = db.stays /\ db'.trips = db.trips
    BY <1>2 DEF LinkInv, LockInv, TypeInv, TypeOK, DB
  <2>2. IdsUnique(db) /\ IdsUnique(db')
    BY <1>2, <2>1 DEF LinkInv, LinkIntegrity, Consistent, IdsUnique
  <2>3. Ids(db'.entries) = Ids(db.entries)
    BY <1>2, <2>1 DEF Ids
  <2>4. QED
    BY <2>1, <2>2, <2>3, SameKeys
<1>3. QED
  BY <1>1, <1>2, Zenon DEF EditCommit

\* DeleteEntry: the link cascades away with the row, which no import keeps.
LEMMA LinkDeleteEntry ==
  ASSUME LinkInv, LockInv', NEW r \in Requests, Moves(r), tx'[r] = NoTx, DeleteEntry(r)
  PROVE  LinkInv'
<1>1. CASE UNCHANGED db
  BY <1>1, NothingChanged
<1>2. ASSUME NEW e \in db.entries, Free(r, <<"update", "entry", e.id>>),
             db' = Without(db, {e.id}, {}, {})
      PROVE  LinkInv'
  <2>1. db \in DB /\ Consistent(db)
    BY DEF LinkInv, LockInv, LinkIntegrity, TypeInv, TypeOK
  <2>2. LinkIntegrity'
    BY <1>2, <2>1, WithoutConsistent DEF LinkIntegrity
  <2>3. /\ db'.stays = db.stays /\ db'.entries = {f \in db.entries : f.id # e.id}
        /\ db'.links \subseteq db.links
    BY <1>2, <2>1 DEF Without, DB
  <2>4. Ids(db'.entries) \subseteq Ids(db.entries) /\ Ids(db.entries) \ Ids(db'.entries) \subseteq {e.id}
    BY <2>3 DEF Ids
  <2>5. \A q \in Requests \ {r} : <<"keyShare", "entry", e.id>> \notin tx[q].locks
    <3>1. ~Compatible("keyShare", "update") /\ "keyShare" \in Strengths
      BY DEF Compatible, Strengths
    <3>2. QED
      BY <1>2, <3>1 DEF Free, Blocks
  <2>6. TablesKept(r)
    BY <2>3, <2>4, <2>5 DEF TablesKept
  <2>7. QED
    BY <2>2, <2>6, EndingStep
<1>3. QED
  BY <1>1, <1>2 DEF DeleteEntry

\* ContractCommit: rows keep their ids.
LEMMA LinkContractCommit ==
  ASSUME LinkInv, LockInv', NEW r \in Requests, Moves(r), tx'[r] = NoTx, ContractCommit(r)
  PROVE  LinkInv'
<1> DEFINE left == Leaving(r)
           E == {Nulled(e, left) : e \in db.entries}
<1>1. db' = [db EXCEPT !.contracts = @ \ left, !.entries = E]
  BY DEF ContractCommit
<1>2. db \in DB
  BY DEF LinkInv, LockInv, TypeInv, TypeOK
<1>3. \A e \in db.entries : Nulled(e, left).id = e.id
  BY <1>2 DEF Nulled, DB, Entry
<1>4. IdsUnique(db)
  BY DEF LinkInv, LinkIntegrity, Consistent
<1> HIDE DEF left
<1>5. /\ db'.entries = E /\ db'.links = db.links
      /\ db'.stays = db.stays /\ db'.trips = db.trips
  BY <1>1, <1>2 DEF DB
<1>6. Ids(db'.entries) = Ids(db.entries)
  BY <1>3, <1>5 DEF Ids
<1>7. IdsUnique(db')
  BY <1>3, <1>4, <1>5 DEF IdsUnique
<1>8. QED
  BY <1>5, <1>6, <1>7, SameKeys

\* UpdateContract: no row with a key changes.
LEMMA LinkUpdateContract ==
  ASSUME LinkInv, LockInv', NEW r \in Requests, Moves(r), tx'[r] = NoTx, UpdateContract(r)
  PROVE  LinkInv'
<1>1. /\ db'.entries = db.entries /\ db'.links = db.links
      /\ db'.stays = db.stays /\ db'.trips = db.trips
  BY DEF UpdateContract, LinkInv, LockInv, TypeInv, TypeOK, DB
<1>2. IdsUnique(db')
  BY <1>1 DEF LinkInv, LinkIntegrity, Consistent, IdsUnique
<1>3. QED
  BY <1>1, <1>2, SameKeys

\* EditEntry and DeleteContract: a lock on the row, in a transaction of its own.
LEMMA LinkTakesRow ==
  ASSUME LinkInv, LockInv', NEW r \in Requests, Moves(r), EditEntry(r) \/ DeleteContract(r)
  PROVE  LinkInv'
<1>1. /\ UNCHANGED db
      /\ Answer(r, "ok") \/ \E a \in {"editing", "nulling"} : pc' = [pc EXCEPT ![r] = a]
  BY DEF EditEntry, DeleteContract
<1>2. tx \in [Requests -> Tx] /\ pc \in [Requests -> PcType]
  BY DEF LinkInv, LockInv, TypeInv, TypeOK, PcType
<1>3. CASE Answer(r, "ok")
  <2>1. tx'[r] = NoTx
    BY <1>2, <1>3 DEF Answer
  <2>2. QED
    BY <1>1, <2>1, NothingChanged
<1>4. CASE \E a \in {"editing", "nulling"} : pc' = [pc EXCEPT ![r] = a]
  <2>1. pc'[r] \in {"editing", "nulling"}
    BY <1>2, <1>4
  <2>2. TxOrder(r)'
    BY <2>1 DEF TxOrder, OwnRows, OwnLinks, ImportLinks, GoneRows, NothingYet
  <2>3. QED
    BY <1>1, <2>2, QuietStep
<1>5. QED
  BY <1>1, <1>3, <1>4

\* The steps that end in an answer.
LEMMA LinkFinish ==
  ASSUME LinkInv, LockInv', NEW r \in Requests, Moves(r), Finishes(r)
  PROVE  LinkInv'
<1>1. tx'[r] = NoTx
  <2>1. \E a : Answer(r, a)
    BY FinishMoves
  <2>2. QED
    BY <2>1 DEF Answer, LinkInv, LockInv, TypeInv, TypeOK
<1>2. CASE Abort(r)
  BY <1>1, <1>2, NothingChanged DEF Abort
<1>3. QED
  BY <1>1, <1>2, LinkDeleteCommit, LinkImportCommit, LinkAddStay, LinkAddEntry,
     LinkEditCommit, LinkDeleteEntry, LinkContractCommit, LinkUpdateContract DEF Finishes

-----------------------------------------------------------------------------
\* The invariant holds in the tables one starts from.
LEMMA LinkInit == Init => LinkInv
<1>1. SUFFICES ASSUME Init
               PROVE  LinkInv
  OBVIOUS
<1>2. db \in Databases
  BY <1>1 DEF Init
<1>3. LinkIntegrity
  BY <1>2, DatabasesAssumption DEF LinkIntegrity
<1>4. FailureLeavesNothing
  BY <1>2, DatabasesAssumption DEF FailureLeavesNothing
<1>5. \A r \in Requests : tx[r] = NoTx /\ pc[r] = "start"
  BY <1>1 DEF Init
<1>6. TxInv
  BY <1>5 DEF TxInv, TxOrder, OwnRows, OwnLinks, ImportLinks, GoneRows, NothingYet, NoTx
<1>7. QED
  BY <1>1, <1>3, <1>4, <1>6, LockInit DEF LinkInv

\* Every step keeps it.
LEMMA LinkNext == LinkInv /\ [Next]_vars => LinkInv'
<1>1. SUFFICES ASSUME LinkInv, [Next]_vars
               PROVE  LinkInv'
  OBVIOUS
<1>2. LockInv'
  BY <1>1, LockNext DEF LinkInv
<1>3. CASE UNCHANGED vars
  <2>1. UNCHANGED <<db, pc, tx>>
    BY <1>3 DEF vars
  <2>2. LinkIntegrity' /\ FailureLeavesNothing'
    BY <1>1, <2>1 DEF LinkInv, LinkIntegrity, FailureLeavesNothing
  <2>3. TxInv'
    BY <1>1, <2>1 DEF LinkInv, TxInv, TxOrder, OwnRows, OwnLinks, ImportLinks, GoneRows,
                      NothingYet
  <2>4. QED
    BY <1>2, <2>2, <2>3 DEF LinkInv
<1>4. ASSUME NEW r \in Requests, Step(r) \/ Abort(r)
      PROVE  LinkInv'
  <2>1. Moves(r)
    BY <1>1, <1>4, StepMoves DEF LinkInv, LockInv
  <2>2. CASE LockStep(r) \/ Finishes(r)
    BY <1>1, <1>2, <2>1, <2>2, LinkLockStep, LinkFinish
  <2>3. CASE BookBegin(r) \/ FundStay(r) \/ BookCommit(r)
    BY <1>1, <1>2, <2>1, <2>3, LinkBookBegin, LinkFundStay, LinkBookCommit
  <2>4. CASE DeleteEntries(r) \/ ImportCheck(r) \/ EditEntry(r) \/ DeleteContract(r)
    BY <1>1, <1>2, <2>1, <2>4, LinkDeleteEntries, LinkImportCheck, LinkTakesRow
  <2>5. QED
    BY <1>4, <2>2, <2>3, <2>4 DEF Step, LockStep, Finishes
<1>5. QED
  BY <1>1, <1>3, <1>4 DEF Next, Idle

(***************************************************************************)
(* Links never dangle and never tie an entry to two stays, whatever runs   *)
(* concurrently, for any number of requests, stays and lots.               *)
(***************************************************************************)
THEOREM LinksSound == Spec => []LinkIntegrity
<1>1. LinkInv => LinkIntegrity
  BY DEF LinkInv
<1>2. QED
  BY LinkInit, LinkNext, <1>1, PTL DEF Spec

(***************************************************************************)
(* A booking that is not answered "ok" has left no row in the ledger.      *)
(***************************************************************************)
THEOREM FailuresLeaveNothing == Spec => []FailureLeavesNothing
<1>1. LinkInv => FailureLeavesNothing
  BY DEF LinkInv
<1>2. QED
  BY LinkInit, LinkNext, <1>1, PTL DEF Spec

-----------------------------------------------------------------------------
(* Usage a booking made stays linked as long as nobody deletes trips or    *)
(* stays.  (A deletion strands usage: it deletes the entries its first     *)
(* statement found, and cascades the links its second statement finds.)    *)

NoDeletions == \A j \in Jobs : j.op \notin {"deleteTrip", "deleteStay"}

\* Deleting entries takes away no link but that of a deleted entry.
LEMMA UnlinkedGone ==
  ASSUME NoStrandedUsage, db \in DB, NEW ids, db' = Without(db, ids, {}, {})
  PROVE  NoStrandedUsage'
<1>1. /\ db'.entries = {e \in db.entries : e.id \notin ids}
      /\ db'.links = {l \in db.links : l[2] \notin ids}
  BY DEF Without, DB
<1>2. ASSUME NEW e \in db'.entries, e.id[1] \in Requests, e.id[2] # 0
      PROVE  <<e.id[2], e.id>> \in db'.links
  <2>1. e \in db.entries /\ e.id \notin ids
    BY <1>1, <1>2
  <2>2. <<e.id[2], e.id>> \in db.links
    BY <1>2, <2>1 DEF NoStrandedUsage
  <2>3. <<e.id[2], e.id>>[2] = e.id
    OBVIOUS
  <2>4. QED
    BY <1>1, <2>1, <2>2, <2>3
<1>3. QED
  BY <1>2 DEF NoStrandedUsage

\* Rows that keep their ids, or are nobody's booking, and links that stay.
LEMMA LinkedStays ==
  ASSUME NoStrandedUsage, db.links \subseteq db'.links,
         \A e \in db'.entries : e.id[2] = 0 \/ \E f \in db.entries : f.id = e.id
  PROVE  NoStrandedUsage'
BY DEF NoStrandedUsage

(***************************************************************************)
(* Each step leaves the usage linked.                                      *)
(***************************************************************************)
LEMMA StrandStep ==
  ASSUME NoDeletions, LinkInv, OpInv, NoStrandedUsage,
         NEW r \in Requests, Step(r) \/ Abort(r)
  PROVE  NoStrandedUsage'
<1>1. TypeInv /\ db \in DB /\ tx \in [Requests -> Tx] /\ job[r] \in Jobs
  BY DEF LinkInv, LockInv, TypeInv, TypeOK
<1>2. CASE UNCHANGED db
  BY <1>2 DEF NoStrandedUsage
<1>3. CASE BookCommit(r) /\ ~LostRace(r)
  <2>1. db' = [db EXCEPT !.entries = @ \cup tx[r].rows, !.links = @ \cup tx[r].links]
    BY <1>3, Zenon DEF BookCommit
  <2>2. /\ db'.entries = db.entries \cup tx[r].rows
        /\ db'.links = db.links \cup tx[r].links
    BY <1>1, <2>1 DEF DB
  <2>3. \A e \in tx[r].rows : <<e.id[2], e.id>> \in tx[r].links
    BY <1>3 DEF LinkInv, TxInv, TxOrder, OwnRows, BookCommit
  <2>4. QED
    BY <2>2, <2>3 DEF NoStrandedUsage
<1>4. CASE DeleteCommit(r)
  <2>1. pc[r] \in {"deleting", "cascading"}
    BY <1>4 DEF DeleteCommit
  <2>2. job[r].op = "unbook"
    BY <1>1, <2>1 DEF OpInv, Doing, NoDeletions, Deletes
  <2>3. db' = Without(db, tx[r].gone, {}, {})
    BY <1>4, <2>2 DEF DeleteCommit, DeletedStays, DeletedTrips
  <2>4. QED
    BY <1>1, <2>3, UnlinkedGone
<1>5. CASE ImportCommit(r) \/ AddStay(r) \/ UpdateContract(r)
  <2>1. CASE UNCHANGED db
    BY <1>2, <2>1
  <2>2. ASSUME NEW trips, NEW stays, NEW links,
               db' = [db EXCEPT !.trips = @ \cup trips, !.stays = @ \cup stays,
                                !.links = @ \cup links]
        PROVE  db'.entries = db.entries /\ db.links \subseteq db'.links
    BY <1>1, <2>2 DEF DB
  <2>3. ASSUME NEW s, db' = [db EXCEPT !.stays = @ \cup {s}]
        PROVE  db'.entries = db.entries /\ db.links \subseteq db'.links
    BY <1>1, <2>3 DEF DB
  <2>4. ASSUME NEW c, NEW m, db' = [db EXCEPT !.months[c] = m]
        PROVE  db'.entries = db.entries /\ db.links \subseteq db'.links
    BY <1>1, <2>4 DEF DB
  <2>5. ImportCommit(r) => db'.entries = db.entries /\ db.links \subseteq db'.links
    BY <2>2, Zenon DEF ImportCommit
  <2>6. UNCHANGED db \/ (db'.entries = db.entries /\ db.links \subseteq db'.links)
    BY <1>5, <2>3, <2>4, <2>5 DEF AddStay, UpdateContract
  <2>7. QED
    BY <2>1, <2>6, LinkedStays
<1>6. CASE AddEntry(r)
  <2>1. ASSUME NEW t \in HandRows,
               db' = [db EXCEPT !.entries = @ \cup {Typed(<<r, 0, LotOf(t)>>, t)}]
        PROVE  NoStrandedUsage'
    <3>1. /\ db'.entries = db.entries \cup {Typed(<<r, 0, LotOf(t)>>, t)}
          /\ db'.links = db.links
      BY <1>1, <2>1 DEF DB
    <3>2. Typed(<<r, 0, LotOf(t)>>, t).id[2] = 0
      BY DEF Typed
    <3>3. QED
      BY <3>1, <3>2, LinkedStays
  <2>2. QED
    BY <1>2, <1>6, <2>1, Zenon DEF AddEntry
<1>7. CASE EditCommit(r)
  <2>1. ASSUME NEW e \in db.entries, NEW row, e.id = row.id,
               db' = [db EXCEPT !.entries = (@ \ {e}) \cup {row}]
        PROVE  NoStrandedUsage'
    <3>1. /\ db'.entries = (db.entries \ {e}) \cup {row}
          /\ db'.links = db.links
      BY <1>1, <2>1 DEF DB
    <3>2. QED
      BY <2>1, <3>1, LinkedStays
  <2>2. QED
    BY <1>2, <1>7, <2>1, Zenon DEF EditCommit
<1>8. CASE DeleteEntry(r)
  BY <1>1, <1>2, <1>8, UnlinkedGone DEF DeleteEntry
<1>9. CASE ContractCommit(r)
  <2> DEFINE left == Leaving(r)
             E == {Nulled(e, left) : e \in db.entries}
  <2>1. db' = [db EXCEPT !.contracts = @ \ left, !.entries = E]
    BY <1>9 DEF ContractCommit
  <2>2. \A e \in db.entries : Nulled(e, left).id = e.id
    BY <1>1 DEF Nulled, DB, Entry
  <2> HIDE DEF left
  <2>3. db'.entries = E /\ db'.links = db.links
    BY <1>1, <2>1 DEF DB
  <2>4. QED
    BY <2>2, <2>3, LinkedStays
<1>10. QED
  <2>1. LockStep(r) \/ FundStay(r) => UNCHANGED db
    BY <1>1, LockSteps, FundCases
  <2>2. BookBegin(r) \/ DeleteEntries(r) \/ ImportCheck(r) \/ EditEntry(r) \/ DeleteContract(r)
          \/ Abort(r) \/ (BookCommit(r) /\ LostRace(r)) => UNCHANGED db
    BY Zenon DEF BookBegin, DeleteEntries, ImportCheck, EditEntry, DeleteContract, Abort,
       BookCommit
  <2>3. QED
    BY <1>2, <1>3, <1>4, <1>5, <1>6, <1>7, <1>8, <1>9, <2>1, <2>2 DEF Step, LockStep

(***************************************************************************)
(* Every usage row a booking made is linked to the stay it pays for, as    *)
(* long as no request deletes a trip or a stay, whatever else they do to   *)
(* the ledger.                                                             *)
(***************************************************************************)
THEOREM UsageStaysLinked == NoDeletions => (Spec => []NoStrandedUsage)
<1>1. SUFFICES ASSUME NoDeletions
               PROVE  Spec => []NoStrandedUsage
  OBVIOUS
<1>2. Init => NoStrandedUsage
  BY DatabasesAssumption DEF Init, NoStrandedUsage
<1>3. LinkInv /\ OpInv /\ NoStrandedUsage /\ [Next]_vars => NoStrandedUsage'
  <2>1. SUFFICES ASSUME LinkInv, OpInv, NoStrandedUsage, [Next]_vars
                 PROVE  NoStrandedUsage'
    OBVIOUS
  <2>2. CASE UNCHANGED vars
    BY <2>1, <2>2 DEF vars, NoStrandedUsage
  <2>3. QED
    BY <1>1, <2>1, <2>2, StrandStep DEF Next, Idle
<1>4. QED
  BY LinkInit, LinkNext, OpInit, OpNext, <1>2, <1>3, PTL DEF Spec

-----------------------------------------------------------------------------
(***************************************************************************)
(* A booking commits only draws its stays may make by the contracts as     *)
(* they are then: DrawnWhereEligible of Booking.                           *)
(*                                                                         *)
(* The draws were chosen from the snapshot.  The invariant says that the   *)
(* locks keep the contracts as the snapshot has them from LockLots to the  *)
(* end of the transaction, that the loop begins when all are locked, and   *)
(* that all rows inserted so far are eligible by the snapshot.             *)
(***************************************************************************)

Holds(r, c) == <<"update", "contract", c>> \in tx[r].locks

\* The contracts a booking has locked are as they were in its snapshot.
ContractsHeld(r) ==
  /\ pc[r] \in {"lock", "fund"} =>
       \A c : Holds(r, c) => c \in db.contracts /\ db.months[c] = tx[r].snap.months[c]
  /\ pc[r] = "fund" => \A c \in tx[r].snap.contracts : Holds(r, c)

\* What it has drawn so far, it may draw by its snapshot.
EligibleRows(r) ==
  pc[r] = "fund" =>
    \A e \in tx[r].rows : Eligible(MonthsIn(tx[r].snap), CheckIn[e.id[2]], LotOf(e))

\* Rows are inserted only by the loop over the stays, and no lock is kept
\* from one attempt to the next.
NothingDrawn(r) ==
  /\ pc[r] \in {"start", "lock"} => tx[r].rows = {}
  /\ pc[r] = "start" => tx[r].locks = {}

InOrder(r) == ContractsHeld(r) /\ EligibleRows(r) /\ NothingDrawn(r)

DrawInv == LockInv /\ \A r \in Requests : InOrder(r)

\* No contract anybody but r holds is deleted or gets another month.
HeldKept(r) ==
  \A q \in Requests \ {r} : \A c \in db.contracts :
    Holds(q, c) => c \in db'.contracts /\ db'.months[c] = db.months[c]

-----------------------------------------------------------------------------
(***************************************************************************)
(* A step of r keeps the other transactions in order.                      *)
(***************************************************************************)
LEMMA OthersInOrder ==
  ASSUME DrawInv, LockInv', NEW r \in Requests, Moves(r), HeldKept(r), InOrder(r)'
  PROVE  DrawInv'
<1>1. SUFFICES ASSUME NEW q \in Requests \ {r}
               PROVE  InOrder(q)'
  BY DEF DrawInv
<1>2. /\ InOrder(q)
      /\ pc'[q] = pc[q] /\ tx'[q].snap = tx[q].snap /\ tx'[q].rows = tx[q].rows
      /\ tx'[q].locks = tx[q].locks
  BY DEF DrawInv, Moves
<1>3. ContractsHeld(q)'
  BY <1>2 DEF InOrder, ContractsHeld, HeldKept, Holds
<1>4. EligibleRows(q)' /\ NothingDrawn(q)'
  BY <1>2 DEF InOrder, EligibleRows, NothingDrawn
<1>5. QED
  BY <1>3, <1>4 DEF InOrder

\* A transaction that has ended is in order.
LEMMA EndedInOrder ==
  ASSUME DrawInv, LockInv', NEW r \in Requests, Moves(r), tx'[r] = NoTx,
         pc'[r] \notin {"lock", "fund"}, HeldKept(r)
  PROVE  DrawInv'
<1>1. tx'[r].rows = {} /\ tx'[r].locks = {}
  BY DEF NoTx
<1>2. InOrder(r)'
  BY <1>1 DEF InOrder, ContractsHeld, EligibleRows, NothingDrawn
<1>3. QED
  BY <1>2, OthersInOrder

\* A transaction that is no booking has drawn nothing to commit.
LEMMA DrawElsewhere ==
  ASSUME DrawInv, LockInv', NEW r \in Requests, Moves(r), UNCHANGED db,
         pc'[r] \notin {"start", "lock", "fund"}
  PROVE  DrawInv'
<1>1. InOrder(r)' /\ HeldKept(r)
  BY DEF InOrder, ContractsHeld, EligibleRows, NothingDrawn, HeldKept
<1>2. QED
  BY <1>1, OthersInOrder

\* Tables with the same contracts keep what is held.
LEMMA SameContracts ==
  ASSUME NEW r \in Requests, db'.contracts = db.contracts, db'.months = db.months
  PROVE  HeldKept(r)
BY DEF HeldKept

-----------------------------------------------------------------------------
(* The steps of a booking. *)

\* BookBegin: an attempt begins with no rows and no locks.
LEMMA DrawBookBegin ==
  ASSUME DrawInv, LockInv', NEW r \in Requests, Moves(r), BookBegin(r)
  PROVE  DrawInv'
<1>1. /\ db' = db /\ pc[r] = "start"
      /\ tx \in [Requests -> Tx] /\ pc \in [Requests -> PcType]
  BY DEF BookBegin, DrawInv, LockInv, TypeInv, TypeOK, PcType
<1>2. HeldKept(r)
  BY <1>1, SameContracts
<1>3. CASE Answer(r, "notFound")
  <2>1. tx'[r] = NoTx /\ pc'[r] = "notFound"
    BY <1>1, <1>3 DEF Answer
  <2>2. QED
    BY <1>2, <2>1, EndedInOrder
<1>4. CASE tx' = [tx EXCEPT ![r].snap = db] /\ pc' = [pc EXCEPT ![r] = "lock"]
  <2>1. pc'[r] = "lock" /\ tx'[r].rows = tx[r].rows /\ tx'[r].locks = tx[r].locks
    BY <1>1, <1>4 DEF Tx
  <2>2. tx[r].rows = {} /\ tx[r].locks = {}
    BY <1>1 DEF DrawInv, InOrder, NothingDrawn
  <2>3. InOrder(r)'
    BY <2>1, <2>2 DEF InOrder, ContractsHeld, EligibleRows, NothingDrawn, Holds
  <2>4. QED
    BY <1>2, <2>3, OthersInOrder
<1>5. QED
  BY <1>3, <1>4 DEF BookBegin

\* LockLots: the contract that is locked is that of the snapshot.
LEMMA DrawLockLots ==
  ASSUME DrawInv, LockInv', NEW r \in Requests, Moves(r), LockLots(r)
  PROVE  DrawInv'
<1>1. /\ db' = db /\ pc[r] = "lock"
      /\ tx \in [Requests -> Tx] /\ pc \in [Requests -> PcType]
  BY DEF LockLots, DrawInv, LockInv, TypeInv, TypeOK, PcType
<1>2. HeldKept(r)
  BY <1>1, SameContracts
<1>3. PICK l \in NextLocks(r) :
        Retry(r) \/ (~Stale(r, l) /\ Hold(r, {l}) /\ UNCHANGED pc)
  BY Zenon DEF LockLots
<1>4. CASE Retry(r)
  <2>1. tx'[r] = NoTx /\ pc'[r] \in {"start", "serialization"}
    BY <1>1, <1>4 DEF Retry, Answer
  <2>2. QED
    BY <1>2, <2>1, EndedInOrder
<1>5. CASE ~Stale(r, l) /\ Hold(r, {l}) /\ UNCHANGED pc
  <2>1. /\ tx'[r].locks = tx[r].locks \cup {l} /\ tx'[r].snap = tx[r].snap
        /\ tx'[r].rows = tx[r].rows /\ pc'[r] = "lock"
    BY <1>1, <1>5 DEF Hold, Tx
  <2>2. InOrder(r)
    BY DEF DrawInv
  <2>3. ASSUME NEW c, Holds(r, c)'
        PROVE  c \in db.contracts /\ db.months[c] = tx[r].snap.months[c]
    <3>1. CASE Holds(r, c)
      BY <1>1, <2>2, <3>1 DEF InOrder, ContractsHeld
    <3>2. CASE ~Holds(r, c)
      <4>1. l = <<"update", "contract", c>>
        BY <2>1, <2>3, <3>2 DEF Holds
      <4>2. QED
        BY <1>5, <4>1 DEF Stale
    <3>3. QED
      BY <3>1, <3>2
  <2>4. InOrder(r)'
    BY <1>1, <2>1, <2>2, <2>3 DEF InOrder, ContractsHeld, EligibleRows, NothingDrawn
  <2>5. QED
    BY <1>2, <2>4, OthersInOrder
<1>6. QED
  BY <1>3, <1>4, <1>5

\* ReadUsage: all contracts of the snapshot are locked.
LEMMA DrawReadUsage ==
  ASSUME DrawInv, LockInv', NEW r \in Requests, Moves(r), ReadUsage(r)
  PROVE  DrawInv'
<1>1. /\ db' = db /\ tx' = tx /\ pc[r] = "lock" /\ ToLock(r) = {}
      /\ pc' = [pc EXCEPT ![r] = "fund"] /\ pc \in [Requests -> PcType]
  BY DEF ReadUsage, DrawInv, LockInv, TypeInv, TypeOK, PcType
<1>2. SnapshotLocks(tx[r].snap) \subseteq tx[r].locks
  BY <1>1, Zenon DEF ToLock
<1>3. \A c \in tx[r].snap.contracts : Holds(r, c)
  BY <1>2 DEF SnapshotLocks, Locks, Holds
<1>4. InOrder(r) /\ pc'[r] = "fund"
  BY <1>1 DEF DrawInv
<1>5. InOrder(r)'
  BY <1>1, <1>3, <1>4 DEF InOrder, ContractsHeld, EligibleRows, NothingDrawn, Holds
<1>6. QED
  BY <1>1, <1>5, SameContracts, OthersInOrder

(***************************************************************************)
(* Every row of a turn of the loop is drawn from an eligible lot.          *)
(***************************************************************************)
LEMMA UsageRowsEligible ==
  ASSUME NEW r \in Requests, NEW s \in Stays, NEW draw \in Draws(r, s)
  PROVE  Eligible(MonthsIn(tx[r].snap), CheckIn[UsageRow(r, s, draw).id[2]],
                  LotOf(UsageRow(r, s, draw)))
<1> DEFINE month == MonthsIn(tx[r].snap)
           left == Left(tx[r].snap, tx[r].rows)
<1>1. draw.lot \in Candidates(month, left, CheckIn[s])
  BY DEF Draws, AllocateStayPoints
<1>2. Eligible(month, CheckIn[s], draw.lot)
  BY <1>1 DEF Candidates
<1>3. UsageRow(r, s, draw).id[2] = s
  BY DEF UsageRow
<1>4. /\ LotOf(UsageRow(r, s, draw)).contract = draw.lot.contract
      /\ LotOf(UsageRow(r, s, draw)).useYear = draw.lot.useYear
  BY DEF UsageRow, LotOf
<1> HIDE DEF month, left
<1>5. Eligible(month, CheckIn[s], LotOf(UsageRow(r, s, draw)))
  BY <1>2, <1>4 DEF Eligible, Rank
<1>6. QED
  BY <1>3, <1>5 DEF month

\* FundStay: the rows of the draws join the transaction.
LEMMA DrawFundStay ==
  ASSUME DrawInv, LockInv', NEW r \in Requests, Moves(r), FundStay(r)
  PROVE  DrawInv'
<1>1. db' = db /\ pc[r] = "fund"
  BY FundCases
<1>2. TypeInv /\ tx \in [Requests -> Tx] /\ pc \in [Requests -> PcType]
  BY DEF DrawInv, LockInv, TypeInv, TypeOK, PcType
<1>3. HeldKept(r)
  BY <1>1, SameContracts
<1>4. PICK s \in NextStay(r) :
        \/ Answer(r, "insufficient")
        \/ Retry(r)
        \/ InsertDraws(r, s, {UsageRow(r, s, draw) : draw \in Draws(r, s)}) /\ UNCHANGED pc
  BY FundCases
<1>5. CASE Answer(r, "insufficient") \/ Retry(r)
  <2>1. tx'[r] = NoTx /\ pc'[r] \in {"insufficient", "start", "serialization"}
    BY <1>2, <1>5 DEF Answer, Retry
  <2>2. QED
    BY <1>3, <2>1, EndedInOrder
<1>6. CASE InsertDraws(r, s, {UsageRow(r, s, draw) : draw \in Draws(r, s)}) /\ UNCHANGED pc
  <2> DEFINE rows == {UsageRow(r, s, draw) : draw \in Draws(r, s)}
  <2>1. s \in Stays
    BY <1>2 DEF NextStay, ToFund, Unbooked, StaysOf, DB, Tx
  <2>2. \A e \in rows : Eligible(MonthsIn(tx[r].snap), CheckIn[e.id[2]], LotOf(e))
    BY <2>1, UsageRowsEligible
  <2>3. rows \in SUBSET Entry
    BY <1>2, <2>1, UsageRowsType
  <2>4. InsertDraws(r, s, rows)
    BY <1>6
  <2> HIDE DEF rows
  <2>5. /\ tx'[r].snap = tx[r].snap /\ tx'[r].rows = tx[r].rows \cup rows
        /\ tx'[r].locks = tx[r].locks \cup {<<"keyShare", "stay", s>>}
    BY <1>2, <2>1, <2>3, <2>4, InsertedDraws
  <2>6. \A c : Holds(r, c)' <=> Holds(r, c)
    BY <2>5 DEF Holds
  <2>7. InOrder(r)
    BY DEF DrawInv
  <2>8. InOrder(r)'
    BY <1>1, <1>6, <2>2, <2>5, <2>6, <2>7
    DEF InOrder, ContractsHeld, EligibleRows, NothingDrawn
  <2>9. QED
    BY <1>3, <2>8, OthersInOrder
<1>7. QED
  BY <1>4, <1>5, <1>6

\* BookCommit: the tables gain rows, and contracts stay.
LEMMA DrawBookCommit ==
  ASSUME DrawInv, LockInv', NEW r \in Requests, Moves(r), BookCommit(r)
  PROVE  DrawInv'
<1>1. /\ TypeInv /\ db \in DB
      /\ tx \in [Requests -> Tx] /\ pc \in [Requests -> PcType]
  BY DEF DrawInv, LockInv, TypeInv, TypeOK, PcType
<1>2. CASE Retry(r) /\ UNCHANGED db
  <2>1. tx'[r] = NoTx /\ pc'[r] \in {"start", "serialization"}
    BY <1>1, <1>2 DEF Answer, Retry
  <2>2. QED
    BY <1>2, <2>1, SameContracts, EndedInOrder
<1>3. CASE ~LostRace(r)
  <2>1. db' = [db EXCEPT !.entries = @ \cup tx[r].rows, !.links = @ \cup tx[r].links]
    BY <1>3, Zenon DEF BookCommit
  <2>2. HeldKept(r)
    BY <1>1, <2>1, SameContracts DEF DB
  <2>3. pc'[r] = "ok" /\ tx'[r] = NoTx
    BY <1>1, <1>3, CommitMoves
  <2>4. QED
    BY <2>2, <2>3, EndedInOrder
<1>4. QED
  BY <1>2, <1>3 DEF BookCommit

-----------------------------------------------------------------------------
(* The other requests. *)

\* Contracts are changed only when no booking holds them.
LEMMA DrawFinish ==
  ASSUME DrawInv, LockInv', NEW r \in Requests, Moves(r), Finishes(r)
  PROVE  DrawInv'
<1>1. db \in DB /\ tx \in [Requests -> Tx] /\ pc \in [Requests -> PcType]
  BY DEF DrawInv, LockInv, TypeInv, TypeOK, PcType
<1>2. tx'[r] = NoTx /\ pc'[r] \in {"ok", "rejected", "aborted"}
  <2>1. \E a \in {"ok", "rejected", "aborted"} : Answer(r, a)
    BY FinishMoves
  <2>2. QED
    BY <1>1, <2>1 DEF Answer
<1>3. CASE DeleteCommit(r) \/ DeleteEntry(r)
  <2>1. UNCHANGED db \/ \E ids, stays, trips : db' = Without(db, ids, stays, trips)
    BY <1>3 DEF DeleteCommit, DeleteEntry
  <2>2. db'.contracts = db.contracts /\ db'.months = db.months
    BY <1>1, <2>1 DEF Without, DB
  <2>3. QED
    BY <1>2, <2>2, SameContracts, EndedInOrder
<1>4. CASE ImportCommit(r) \/ AddStay(r) \/ AddEntry(r) \/ EditCommit(r) \/ Abort(r)
  <2>1. ASSUME NEW entries, db' = [db EXCEPT !.entries = entries]
        PROVE  db'.contracts = db.contracts /\ db'.months = db.months
    BY <1>1, <2>1 DEF DB
  <2>2. EditCommit(r) => db'.contracts = db.contracts /\ db'.months = db.months
    BY <2>1, Zenon DEF EditCommit
  <2>3. AddEntry(r) => db'.contracts = db.contracts /\ db'.months = db.months
    BY <2>1, Zenon DEF AddEntry
  <2>4. db'.contracts = db.contracts /\ db'.months = db.months
    BY <1>1, <1>4, <2>2, <2>3 DEF ImportCommit, AddStay, Abort, DB
  <2>5. QED
    BY <1>2, <2>4, SameContracts, EndedInOrder
<1>5. CASE ContractCommit(r)
  <2>1. db'.contracts = db.contracts \ Leaving(r) /\ db'.months = db.months
    BY <1>1, <1>5 DEF ContractCommit, DB
  <2>2. \A q \in Requests \ {r} : \A c \in Leaving(r) : ~Holds(q, c)
    BY HeldAlone DEF Leaving, Holds, DrawInv
  <2>3. HeldKept(r)
    BY <2>1, <2>2 DEF HeldKept
  <2>4. QED
    BY <1>2, <2>3, EndedInOrder
<1>6. CASE UpdateContract(r)
  <2>1. \/ UNCHANGED db
        \/ \E c \in db.contracts :
             /\ Free(r, <<"noKeyUpdate", "contract", c>>)
             /\ db'.contracts = db.contracts
             /\ \A b \in db.contracts \ {c} : db'.months[b] = db.months[b]
    BY <1>1, <1>6 DEF UpdateContract, DB
  <2>2. ~Compatible("update", "noKeyUpdate") /\ "update" \in Strengths
    BY DEF Compatible, Strengths
  <2>3. \A c : Free(r, <<"noKeyUpdate", "contract", c>>) => \A q \in Requests \ {r} : ~Holds(q, c)
    BY <2>2 DEF Free, Blocks, Holds
  <2>4. HeldKept(r)
    BY <2>1, <2>3 DEF HeldKept
  <2>5. QED
    BY <1>2, <2>4, EndedInOrder
<1>7. QED
  BY <1>3, <1>4, <1>5, <1>6 DEF Finishes

-----------------------------------------------------------------------------
\* Nobody holds or has drawn anything at first.
LEMMA DrawInit == Init => DrawInv
<1>1. SUFFICES ASSUME Init
               PROVE  \A r \in Requests : InOrder(r)
  BY LockInit DEF DrawInv
<1>2. \A r \in Requests : pc[r] = "start" /\ tx[r] = NoTx
  BY <1>1 DEF Init
<1>3. QED
  BY <1>2 DEF InOrder, ContractsHeld, EligibleRows, NothingDrawn, NoTx

\* Every step keeps it.
LEMMA DrawStep ==
  ASSUME DrawInv, LockInv', NEW r \in Requests, Step(r) \/ Abort(r)
  PROVE  DrawInv'
<1>1. Moves(r) /\ TypeInv /\ pc \in [Requests -> PcType] /\ tx \in [Requests -> Tx]
  BY StepMoves DEF DrawInv, LockInv, TypeInv, TypeOK, PcType
<1>2. CASE BookBegin(r) \/ FundStay(r) \/ BookCommit(r) \/ Finishes(r)
  BY <1>1, <1>2, DrawBookBegin, DrawFundStay, DrawBookCommit, DrawFinish
<1>3. CASE LockStep(r)
  <2>1. CASE LockLots(r) \/ ReadUsage(r)
    BY <1>1, <2>1, DrawLockLots, DrawReadUsage
  <2>2. CASE LockRow(r) \/ DeleteRest(r) \/ ImportInsert(r) \/ ImportLink(r)
    <3>1. pc[r] \notin {"start", "lock", "fund"} /\ UNCHANGED db
      BY <2>2 DEF LockRow, DeleteRest, ImportInsert, ImportLink
    <3>2. UNCHANGED pc \/ \E a \in {"cascading", "linking"} : pc' = [pc EXCEPT ![r] = a]
            \/ Answer(r, "rejected")
      BY <2>2, Zenon DEF LockRow, DeleteRest, ImportInsert, ImportLink
    <3>3. pc'[r] \notin {"start", "lock", "fund"}
      BY <1>1, <3>1, <3>2 DEF Answer
    <3>4. QED
      BY <1>1, <3>1, <3>3, DrawElsewhere
  <2>3. QED
    BY <1>3, <2>1, <2>2 DEF LockStep
<1>4. CASE DeleteEntries(r) \/ ImportCheck(r) \/ EditEntry(r) \/ DeleteContract(r)
  <2>1. UNCHANGED db
    BY <1>4 DEF DeleteEntries, ImportCheck, EditEntry, DeleteContract
  <2>2. \E a \in {"deleting", "checking", "editing", "nulling"} : pc' = [pc EXCEPT ![r] = a]
          \/ \E b \in {"ok", "rejected"} : Answer(r, b)
    BY <1>4, Zenon DEF DeleteEntries, ImportCheck, EditEntry, DeleteContract
  <2>3. pc'[r] \notin {"start", "lock", "fund"}
    BY <1>1, <2>2 DEF Answer
  <2>4. QED
    BY <1>1, <2>1, <2>3, DrawElsewhere
<1>5. QED
  BY <1>2, <1>3, <1>4 DEF Step, LockStep, Finishes

LEMMA DrawNext == DrawInv /\ [Next]_vars => DrawInv'
<1>1. SUFFICES ASSUME DrawInv, [Next]_vars
               PROVE  DrawInv'
  OBVIOUS
<1>2. LockInv'
  BY <1>1, LockNext DEF DrawInv
<1>3. CASE UNCHANGED vars
  <2>1. UNCHANGED <<db, pc, tx>>
    BY <1>3 DEF vars
  <2>2. QED
    BY <1>1, <1>2, <2>1 DEF DrawInv, InOrder, ContractsHeld, EligibleRows, NothingDrawn, Holds
<1>4. QED
  BY <1>1, <1>2, <1>3, DrawStep DEF Next, Idle

(***************************************************************************)
(* What a booking has drawn is eligible by the tables it commits to.       *)
(***************************************************************************)
LEMMA CommitsEligible ==
  ASSUME DrawInv, NEW r \in Requests, pc[r] = "fund", NEW e \in tx[r].rows
  PROVE  Eligible(MonthsIn(db), CheckIn[e.id[2]], LotOf(e))
<1> DEFINE lot == LotOf(e)
           snap == tx[r].snap
<1>1. Eligible(MonthsIn(snap), CheckIn[e.id[2]], lot)
  BY DEF DrawInv, InOrder, EligibleRows
<1>2. lot.contract \in snap.contracts
  BY <1>1 DEF Eligible, MonthsIn
<1>3. lot.contract \in db.contracts /\ db.months[lot.contract] = snap.months[lot.contract]
  BY <1>2 DEF DrawInv, InOrder, ContractsHeld
<1>4. MonthsIn(db)[lot.contract] = MonthsIn(snap)[lot.contract]
  BY <1>2, <1>3 DEF MonthsIn
<1>5. lot.contract \in DOMAIN MonthsIn(db)
  BY <1>3 DEF MonthsIn
<1> HIDE DEF lot, snap
<1>6. Eligible(MonthsIn(db), CheckIn[e.id[2]], lot)
  BY <1>1, <1>4, <1>5 DEF Eligible, Rank
<1>7. QED
  BY <1>6 DEF lot

(***************************************************************************)
(* When a booking commits, every lot it has drawn from is one the stay may *)
(* draw from by the contracts as they are then, for any requests that edit *)
(* or delete contracts meanwhile.                                          *)
(***************************************************************************)
THEOREM DrawsStayEligible == Spec => DrawnWhereEligible
<1>1. DrawInv => \A r \in Requests :
        pc[r] = "fund" => \A e \in tx[r].rows : Eligible(MonthsIn(db), CheckIn[e.id[2]], LotOf(e))
  BY CommitsEligible
<1>2. DrawInv => [\A r \in Requests :
        pc[r] = "fund" /\ pc'[r] = "ok" =>
          \A e \in tx[r].rows : Eligible(MonthsIn(db), CheckIn[e.id[2]], LotOf(e))]_vars
  BY <1>1
<1>3. QED
  BY DrawInit, DrawNext, <1>2, PTL DEF Spec, DrawnWhereEligible

=============================================================================
