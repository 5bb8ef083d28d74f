--------------------------- MODULE BookingRaceProofs ---------------------------
(***************************************************************************)
(* Racing bookings charge every stay its price exactly once, never spend a *)
(* lot or the ledger below zero, and implement TripLedger.                 *)
(*                                                                         *)
(* A booking decides by its snapshot and commits much later.  The          *)
(* invariants say what it may still rely on then: what it has inserted     *)
(* adds up by the snapshot, and unless another booking has overtaken it,   *)
(* the tables have gained no link and no row since the snapshot.           *)
(***************************************************************************)
EXTENDS BookingProofs

Underway(r) == pc[r] \in {"lock", "fund"}

\* The rows a booking has inserted for a stay.
RowsFor(r, s) == {e \in tx[r].rows : e.id[2] = s}

-----------------------------------------------------------------------------
(* What one turn of the loop inserts. *)

(***************************************************************************)
(* The rows of the draws of a stay add up to its price, and those against  *)
(* one lot to no more than the lot has left.                               *)
(***************************************************************************)
LEMMA RowsAddUp ==
  ASSUME TypeInv, NEW r \in Requests, NEW s \in Stays, CanFund(r, s)
  PROVE  LET rows == {UsageRow(r, s, draw) : draw \in Draws(r, s)} IN
         /\ Used(rows) = Price[s]
         /\ \A lot \in LotsIn(tx[r].snap) :
              Used(Against(rows, lot)) <= Balance(tx[r].snap, tx[r].rows, lot)
                \/ Against(rows, lot) = {}
<1> DEFINE snap == tx[r].snap
           month == MonthsIn(snap)
           left == Left(snap, tx[r].rows)
           D == Draws(r, s)
           rows == {UsageRow(r, s, draw) : draw \in D}
<1>1. /\ snap \in DB /\ IsFiniteSet(snap.entries)
      /\ tx[r].rows \in SUBSET Entry /\ IsFiniteSet(tx[r].rows)
  BY DEF TypeInv, TypeOK, Finite, Tx
<1>2. DOMAIN month \subseteq Int /\ \A c \in DOMAIN month : month[c] \in Int
  <2>1. snap.contracts \subseteq Contracts /\ snap.months \in [Contracts -> 1..12]
    BY <1>1 DEF DB
  <2> HIDE DEF snap
  <2>2. DOMAIN month = snap.contracts /\ \A c \in snap.contracts : month[c] = snap.months[c]
    BY DEF MonthsIn
  <2> HIDE DEF month
  <2>3. Contracts \subseteq Nat
    BY RowsAssumption
  <2>4. \A c \in snap.contracts : snap.months[c] \in 1..12
    BY <2>1
  <2>5. \A c \in snap.contracts : c \in Int
    <3>1. SUFFICES ASSUME NEW c \in snap.contracts
                   PROVE  c \in Int
      OBVIOUS
    <3>2. c \in Nat
      BY <2>1, <2>3
    <3>3. QED
      BY <3>2
  <2>6. DOMAIN month \subseteq Int
    BY <2>2, <2>5, Zenon
  <2>7. QED
    BY <2>2, <2>4, <2>6
<1>3. /\ DOMAIN left = LotsIn(snap)
      /\ \A lot \in LotsIn(snap) : left[lot] = Balance(snap, tx[r].rows, lot)
  BY DEF Left
<1>4. LotsIn(snap) \subseteq Lot /\ IsFiniteSet(LotsIn(snap))
  BY <1>1, LotsType
<1>5. /\ IsFiniteSet(DOMAIN left)
      /\ \A lot \in DOMAIN left : left[lot] \in Int
      /\ \A lot \in DOMAIN left :
           lot = [contract |-> lot.contract, useYear |-> lot.useYear] /\ lot.useYear \in Int
  <2>1. \A lot \in LotsIn(snap) : Balance(snap, tx[r].rows, lot) \in Int
    BY <1>1, BalanceType
  <2>2. \A lot \in Lot :
          lot = [contract |-> lot.contract, useYear |-> lot.useYear] /\ lot.useYear \in Int
    BY DEF Lot, Years
  <2>3. QED
    BY <1>3, <1>4, <2>1, <2>2
<1>6. CheckIn[s].year \in Int /\ CheckIn[s].month \in Int /\ Price[s] \in Nat \ {0}
      /\ s \in Nat
  BY RowsAssumption
<1>7. Fundable(month, left, CheckIn[s], Price[s])
  BY DEF CanFund
<1>8. D = AllocateStayPoints(month, left, CheckIn[s], Price[s])
  BY DEF Draws
<1> HIDE DEF month, left, D, snap
<1>9. SumOver([draw \in D |-> draw.points], D) = Price[s]
  BY <1>2, <1>5, <1>6, <1>7, <1>8, DrawsAddUp
<1>10. /\ IsFiniteSet(D)
       /\ \A draw \in D : /\ draw.lot \in DOMAIN left /\ draw.points \in Nat \ {0}
                          /\ draw.points <= left[draw.lot]
       /\ \A a, b \in D : a.lot = b.lot => a = b
  <2>1. Price[s] \in Int
    BY <1>6
  <2>2. QED
    BY <1>5, <1>8, <2>1, DrawsWithinLots
<1>11. rows \in SUBSET Entry /\ IsFiniteSet(rows)
  BY UsageRowsType DEF D
<1>12. Used(rows) = Price[s]
  <2> DEFINE f == [draw \in D |-> draw.points]
             g == [draw \in D |-> UsageRow(r, s, draw)]
  <2>1. /\ \A draw \in D : f[draw] \in Nat
        /\ \A a, b \in D : g[a] = g[b] => a = b
    BY <1>10 DEF UsageRow
  <2>2. \A draw \in D : UsedOf[g[draw]] = f[draw]
    <3>1. \A draw \in D : g[draw] \in rows /\ g[draw].used = f[draw]
      BY DEF UsageRow
    <3>2. QED
      BY <1>11, <3>1, RowSums
  <2>3. rows = {g[draw] : draw \in D}
    OBVIOUS
  <2> HIDE DEF f, g, rows
  <2>4. SumOver(UsedOf, {g[draw] : draw \in D}) = SumOver(f, D)
    BY <1>10, <2>1, <2>2, SumRenamed
  <2>5. QED
    BY <1>9, <1>11, <2>3, <2>4, RowSums DEF f
<1>13. ASSUME NEW lot \in LotsIn(snap), Against(rows, lot) # {}
       PROVE  Used(Against(rows, lot)) <= Balance(snap, tx[r].rows, lot)
  <2>1. \A draw \in D : LotOf(UsageRow(r, s, draw)) = draw.lot
    <3>1. \A draw \in D : draw.lot = [contract |-> draw.lot.contract,
                                      useYear |-> draw.lot.useYear]
      BY <1>5, <1>10
    <3>2. QED
      BY <3>1 DEF LotOf, UsageRow
  <2>2. PICK draw \in D : draw.lot = lot
    BY <1>13, <2>1 DEF Against
  <2> DEFINE e == UsageRow(r, s, draw)
  <2>3. Against(rows, lot) = {e}
    BY <1>10, <2>1, <2>2 DEF Against
  <2>4. e.used = draw.points /\ e \in rows
    BY DEF UsageRow
  <2> HIDE DEF e, rows
  <2>5. Used({e}) = e.used
    <3>1. {e} \in SUBSET Entry /\ UsedOf[e] \in Nat /\ UsedOf[e] = e.used
      BY <1>11, <2>4, RowSums
    <3>2. IsFiniteSet({}) /\ e \notin {}
      BY FS_EmptySet
    <3>3. SumOver(UsedOf, {} \cup {e}) = SumOver(UsedOf, {}) + UsedOf[e]
      BY <3>1, <3>2, SumAdd
    <3>4. SumOver(UsedOf, {}) = 0 /\ {} \cup {e} = {e}
      BY SumEmpty
    <3>5. QED
      BY <3>1, <3>3, <3>4, RowSums
  <2>6. QED
    BY <1>3, <1>10, <2>2, <2>3, <2>4, <2>5
<1>14. QED
  BY <1>12, <1>13 DEF D, snap

\* A booking links its own rows, each to the stay its id names.
LEMMA OwnIds ==
  ASSUME TxInv, NEW r \in Requests, pc[r] = "fund", NEW l \in tx[r].links
  PROVE  l[2][1] = r /\ l[2][2] = l[1] /\ l[1] \in db.stays
<1>1. OwnLinks(r) /\ OwnRows(r)
  BY DEF TxInv, TxOrder
<1>2. PICK e \in tx[r].rows : e.id = l[2]
  BY <1>1 DEF OwnLinks
<1>3. e.id[1] = r
  BY <1>1 DEF OwnRows
<1>4. QED
  BY <1>1, <1>2, <1>3 DEF OwnLinks

-----------------------------------------------------------------------------
(* How a booking stays open. *)

Begins(r) ==
  /\ pc[r] = "start" /\ pc'[r] = "lock"
  /\ tx'[r] = [tx[r] EXCEPT !.snap = db]

\* What a step changes of a booking but its locks.
SameTx(r) ==
  /\ tx'[r].snap = tx[r].snap /\ tx'[r].rows = tx[r].rows /\ tx'[r].links = tx[r].links
  /\ tx'[r].gone = tx[r].gone /\ tx'[r].overtaken = tx[r].overtaken

LocksOn(r) == pc[r] = "lock" /\ pc'[r] \in {"lock", "fund"} /\ SameTx(r)

Inserts(r, s, rows) ==
  /\ pc[r] = "fund" /\ pc'[r] = "fund"
  /\ s \in NextStay(r) /\ CanFund(r, s)
  /\ rows = {UsageRow(r, s, draw) : draw \in Draws(r, s)}
  /\ tx'[r].snap = tx[r].snap /\ tx'[r].gone = tx[r].gone
  /\ tx'[r].overtaken = tx[r].overtaken
  /\ tx'[r].rows = tx[r].rows \cup rows /\ tx'[r].links = tx[r].links \cup LinksTo(s, rows)

(***************************************************************************)
(* A step after which the booking of r is open takes its snapshot, locks   *)
(* more of its rows or goes on to the loop, or inserts the rows of one     *)
(* stay, and writes no table.                                              *)
(***************************************************************************)
LEMMA OpenSteps ==
  ASSUME TypeInv, NEW r \in Requests, Step(r) \/ Abort(r), Underway(r)'
  PROVE  /\ UNCHANGED <<db, issued>>
         /\ \/ Begins(r) \/ LocksOn(r)
            \/ \E s \in Stays : \E rows \in SUBSET Entry : Inserts(r, s, rows)
<1>1. pc \in [Requests -> PcType] /\ tx \in [Requests -> Tx] /\ db \in DB
  BY DEF TypeInv, TypeOK, PcType
<1>2. pc'[r] \in {"lock", "fund"}
  BY DEF Underway
<1>3. \A a : Answer(r, a) => pc'[r] = a
  BY <1>1 DEF Answer
<1>4. ~Retry(r) /\ \A a \in Answers : ~Answer(r, a)
  BY <1>2, <1>3 DEF Retry, Answers
<1>5. CASE BookBegin(r)
  <2>1. pc[r] = "start" /\ UNCHANGED <<db, issued>>
        /\ tx' = [tx EXCEPT ![r].snap = db] /\ pc' = [pc EXCEPT ![r] = "lock"]
    BY <1>4, <1>5 DEF BookBegin, Answers
  <2>2. Begins(r)
    BY <1>1, <2>1 DEF Begins, Tx
  <2>3. QED
    BY <2>1, <2>2
<1>6. CASE LockStep(r)
  <2>1. "rejected" \in Answers
    BY DEF Answers
  <2>2. PICK m \in QuietMoves : Quiet(r, m[1], m[2])
    BY <1>4, <1>6, <2>1, LockSteps
  <2>3. pc[r] = m[1] /\ pc'[r] = m[2] /\ SameTx(r)
    BY <2>2, QuietTx DEF SameTx
  <2>4. LocksOn(r)
    BY <1>2, <2>3 DEF LocksOn, QuietMoves
  <2>5. QED
    BY <1>6, <2>4, LockSteps
<1>7. CASE FundStay(r)
  <2>1. UNCHANGED <<db, issued>> /\ pc[r] = "fund" /\ "insufficient" \in Answers
    BY <1>7, FundCases DEF Answers
  <2>2. PICK s \in NextStay(r) :
          /\ CanFund(r, s) /\ UNCHANGED pc
          /\ InsertDraws(r, s, {UsageRow(r, s, draw) : draw \in Draws(r, s)})
    BY <1>4, <1>7, <2>1, FundCases
  <2> DEFINE rows == {UsageRow(r, s, draw) : draw \in Draws(r, s)}
  <2>3. s \in Stays
    BY <1>1 DEF NextStay, ToFund, Unbooked, StaysOf, DB, Tx
  <2>4. rows \in SUBSET Entry
    BY <2>3, UsageRowsType
  <2>5. InsertDraws(r, s, rows) /\ rows = {UsageRow(r, s, draw) : draw \in Draws(r, s)}
    BY <2>2
  <2>6. pc'[r] = "fund"
    BY <2>1, <2>2
  <2> HIDE DEF rows
  <2>7. Inserts(r, s, rows)
    BY <2>1, <2>2, <2>3, <2>4, <2>5, <2>6, InsertedDraws DEF Inserts
  <2>8. QED
    BY <2>1, <2>3, <2>4, <2>7
<1>8. CASE BookCommit(r)
  <2>1. pc' = [pc EXCEPT ![r] = "ok"]
    BY <1>4, <1>8, Zenon DEF BookCommit
  <2>2. QED
    BY <1>1, <1>2, <2>1
<1>9. CASE DeleteEntries(r) \/ ImportCheck(r) \/ EditEntry(r) \/ DeleteContract(r)
  <2>1. \E a \in {"deleting", "checking", "rejected", "editing", "nulling", "ok"} :
          pc' = [pc EXCEPT ![r] = a]
    BY <1>9, Zenon DEF DeleteEntries, ImportCheck, EditEntry, DeleteContract, Answer
  <2>2. QED
    BY <1>1, <1>2, <2>1
<1>10. CASE Finishes(r)
  <2>1. \E a \in Answers : Answer(r, a)
    BY <1>10, FinishMoves DEF Answers
  <2>2. QED
    BY <1>4, <2>1
<1>11. QED
  BY <1>5, <1>6, <1>7, <1>8, <1>9, <1>10 DEF Step, LockStep, Finishes

-----------------------------------------------------------------------------
(* What a booking has inserted pays for the stays it has reached. *)

StaysPaid(r) ==
  Underway(r) =>
    /\ Reached(r) \subseteq Unbooked(tx[r].snap, job[r].trip)
    /\ \A s \in Reached(r) : Used(RowsFor(r, s)) = Price[s]

PaidInv == LinkInv /\ OpInv /\ \A r \in Requests : StaysPaid(r)

\* The stays reached and their rows follow from what the transaction holds.
LEMMA SameRows ==
  ASSUME NEW r \in Requests, tx'[r].rows = tx[r].rows, tx'[r].links = tx[r].links
  PROVE  Reached(r)' = Reached(r) /\ \A s : RowsFor(r, s)' = RowsFor(r, s)
BY DEF Reached, RowsFor

(***************************************************************************)
(* A turn of the loop pays for one more stay and leaves the others paid.   *)
(***************************************************************************)
LEMMA InsertPays ==
  ASSUME PaidInv, NEW r \in Requests, NEW s \in Stays, NEW rows \in SUBSET Entry,
         Inserts(r, s, rows)
  PROVE  /\ tx'[r].snap = tx[r].snap /\ tx'[r].overtaken = tx[r].overtaken
         /\ tx'[r].rows = tx[r].rows \cup rows
         /\ Reached(r)' \subseteq Reached(r) \cup {s}
         /\ s \in Unbooked(tx[r].snap, job[r].trip) /\ s \notin Reached(r)
         /\ RowsFor(r, s)' = rows
         /\ \A t \in Reached(r) : RowsFor(r, t)' = RowsFor(r, t)
<1>1. tx[r] \in Tx /\ s \in Nat
  BY RowsAssumption DEF PaidInv, OpInv, TypeInv, TypeOK
<1>2. /\ tx'[r].snap = tx[r].snap /\ tx'[r].overtaken = tx[r].overtaken
      /\ tx'[r].rows = tx[r].rows \cup rows
      /\ tx'[r].links = tx[r].links \cup LinksTo(s, rows)
  BY DEF Inserts
<1>3. s \in Unbooked(tx[r].snap, job[r].trip) /\ s \notin Reached(r)
  BY DEF Inserts, NextStay, ToFund
<1>4. \A e \in rows : e.id[2] = s
  BY DEF Inserts, UsageRow
<1>5. \A e \in tx[r].rows : e.id[2] # s
  <2>1. \A e \in tx[r].rows : <<e.id[2], e.id>> \in tx[r].links
    BY DEF PaidInv, LinkInv, TxInv, TxOrder, OwnRows, Inserts
  <2>2. \A l \in tx[r].links : l[1] # s
    BY <1>3 DEF Reached
  <2>3. QED
    BY <2>1, <2>2
<1>6. Reached(r)' \subseteq Reached(r) \cup {s}
  BY <1>2 DEF Reached, LinksTo
<1>7. RowsFor(r, s)' = rows
  BY <1>2, <1>4, <1>5 DEF RowsFor
<1>8. \A t \in Reached(r) : RowsFor(r, t)' = RowsFor(r, t)
  BY <1>2, <1>3, <1>4 DEF RowsFor
<1>9. QED
  BY <1>2, <1>3, <1>6, <1>7, <1>8

\* Nothing is reached before the loop begins.
LEMMA NothingReached ==
  ASSUME TxInv, NEW r \in Requests, pc[r] \in {"start", "lock"}
  PROVE  Reached(r) = {} /\ tx[r].rows = {} /\ tx[r].links = {}
BY DEF TxInv, TxOrder, NothingYet, Reached

\* Every step keeps the stays paid.
LEMMA PaidNext == PaidInv /\ [Next]_vars => PaidInv'
<1>1. SUFFICES ASSUME PaidInv, [Next]_vars
               PROVE  PaidInv'
  OBVIOUS
<1>2. LinkInv' /\ OpInv' /\ job' = job
  BY <1>1, LinkNext, OpNext DEF PaidInv
<1>3. CASE UNCHANGED vars
  BY <1>1, <1>2, <1>3
     DEF vars, PaidInv, StaysPaid, Underway, Reached, RowsFor
<1>4. ASSUME NEW r \in Requests, Step(r) \/ Abort(r)
      PROVE  PaidInv'
  <2>1. TypeInv /\ Moves(r)
    BY <1>1, <1>4, StepMoves DEF PaidInv, OpInv
  <2>2. ASSUME NEW q \in Requests \ {r}
        PROVE  StaysPaid(q)'
    <3>1. pc'[q] = pc[q] /\ tx'[q].snap = tx[q].snap
          /\ tx'[q].rows = tx[q].rows /\ tx'[q].links = tx[q].links
      BY <2>1 DEF Moves
    <3>2. Reached(q)' = Reached(q) /\ \A s : RowsFor(q, s)' = RowsFor(q, s)
      BY <3>1, SameRows
    <3>3. StaysPaid(q)
      BY <1>1 DEF PaidInv
    <3>4. QED
      BY <1>2, <3>1, <3>2, <3>3 DEF StaysPaid, Underway
  <2>3. StaysPaid(r)'
    <3>1. SUFFICES ASSUME Underway(r)'
                   PROVE  /\ Reached(r)' \subseteq Unbooked(tx'[r].snap, job[r].trip)
                          /\ \A s \in Reached(r)' : Used(RowsFor(r, s)') = Price[s]
      BY <1>2 DEF StaysPaid
    <3>2. TxInv /\ tx[r] \in Tx /\ StaysPaid(r)
      BY <1>1, <2>1 DEF PaidInv, LinkInv, LockInv, TypeInv, TypeOK
    <3>3. CASE Begins(r) \/ LocksOn(r)
      <4>1. tx'[r].rows = tx[r].rows /\ tx'[r].links = tx[r].links
        BY <3>2, <3>3 DEF Begins, LocksOn, SameTx, Tx
      <4>2. Reached(r)' = {}
        BY <3>2, <3>3, <4>1, SameRows, NothingReached DEF Begins, LocksOn, SameTx
      <4>3. QED
        BY <4>2
    <3>4. ASSUME NEW s \in Stays, NEW rows \in SUBSET Entry, Inserts(r, s, rows)
          PROVE  /\ Reached(r)' \subseteq Unbooked(tx'[r].snap, job[r].trip)
                 /\ \A t \in Reached(r)' : Used(RowsFor(r, t)') = Price[t]
      <4>1. Used(rows) = Price[s]
        BY <2>1, <3>4, RowsAddUp DEF Inserts
      <4>2. Underway(r)
        BY <3>4 DEF Inserts, Underway
      <4>3. QED
        BY <1>1, <3>2, <3>4, <4>1, <4>2, InsertPays DEF StaysPaid
    <3>5. QED
      BY <1>4, <2>1, <3>1, <3>3, <3>4, OpenSteps
  <2>4. QED
    BY <1>2, <2>2, <2>3 DEF PaidInv
<1>5. QED
  BY <1>1, <1>3, <1>4 DEF Next, Idle

\* No booking is open at first.
LEMMA PaidInit == Init => PaidInv
BY LinkInit, OpInit DEF Init, PaidInv, StaysPaid, Underway

-----------------------------------------------------------------------------
(* A stay is charged once and in full: StayFundedAtOnce.                   *)
(*                                                                         *)
(* Imports are left out: what an import checked may have been edited since *)
(* (see ImportMismatch.cfg).                                               *)

NoImports == \A j \in Jobs : j.op # "import"
NothingImported == \A r \in Requests : job[r].op # "import"

\* Where nobody asks for an import, none is under way.
LEMMA NoneImported == NoImports /\ TypeOK => NothingImported
BY DEF NoImports, NothingImported, TypeOK

\* Unless it was overtaken, a booking's snapshot shows every link there is.
LinksKnown(r) == Underway(r) /\ ~tx[r].overtaken => db.links \subseteq tx[r].snap.links

ChargeInv == PaidInv /\ \A r \in Requests : LinksKnown(r)

\* Links are added only by the commit of a booking.
LEMMA LinksShrink ==
  ASSUME NothingImported, OpInv, NEW r \in Requests, Step(r) \/ Abort(r),
         ~(BookCommit(r) /\ ~LostRace(r))
  PROVE  db'.links \subseteq db.links
<1>1. db \in DB /\ TypeInv
  BY DEF OpInv, TypeInv, TypeOK
<1>2. CASE UNCHANGED db
  BY <1>2
<1>3. CASE DeleteCommit(r) \/ DeleteEntry(r)
  <2>1. UNCHANGED db \/ \E ids, stays, trips : db' = Without(db, ids, stays, trips)
    BY <1>3 DEF DeleteCommit, DeleteEntry
  <2>2. QED
    BY <1>1, <2>1 DEF Without, DB
<1>4. CASE AddStay(r) \/ AddEntry(r) \/ EditCommit(r) \/ ContractCommit(r) \/ UpdateContract(r)
  <2>1. ASSUME NEW E, db' = [db EXCEPT !.entries = E]
        PROVE  db'.links = db.links
    BY <1>1, <2>1 DEF DB
  <2>2. ASSUME NEW S, db' = [db EXCEPT !.stays = S]
        PROVE  db'.links = db.links
    BY <1>1, <2>2 DEF DB
  <2>3. ASSUME NEW C, NEW E, db' = [db EXCEPT !.contracts = C, !.entries = E]
        PROVE  db'.links = db.links
    BY <1>1, <2>3 DEF DB
  <2>4. ASSUME NEW c, NEW m, db' = [db EXCEPT !.months[c] = m]
        PROVE  db'.links = db.links
    BY <1>1, <2>4 DEF DB
  <2>5. AddStay(r) => db'.links = db.links
    BY <2>2, Zenon DEF AddStay
  <2>6. AddEntry(r) => db'.links = db.links
    BY <2>1, Zenon DEF AddEntry
  <2>7. EditCommit(r) => db'.links = db.links
    BY <2>1, Zenon DEF EditCommit
  <2>8. ContractCommit(r) => db'.links = db.links
    BY <2>3, Zenon DEF ContractCommit
  <2>9. UpdateContract(r) => db'.links = db.links
    BY <2>4, Zenon DEF UpdateContract
  <2>10. QED
    BY <1>4, <2>5, <2>6, <2>7, <2>8, <2>9
<1>5. ~ImportCommit(r)
  BY DEF ImportCommit, OpInv, Doing, NothingImported
<1>6. QED
  <2>1. LockStep(r) \/ FundStay(r) => UNCHANGED db
    BY <1>1, LockSteps, FundCases
  <2>2. BookBegin(r) \/ DeleteEntries(r) \/ ImportCheck(r) \/ EditEntry(r) \/ DeleteContract(r)
          \/ Abort(r) \/ (BookCommit(r) /\ LostRace(r)) => UNCHANGED db
    BY Zenon DEF BookBegin, DeleteEntries, ImportCheck, EditEntry, DeleteContract, Abort,
       BookCommit
  <2>3. QED
    BY <1>2, <1>3, <1>4, <1>5, <2>1, <2>2 DEF Step, LockStep

\* And only that touches the transaction of another request.
LEMMA OthersKeep ==
  ASSUME TypeInv, NEW r \in Requests, Step(r) \/ Abort(r), ~(BookCommit(r) /\ ~LostRace(r)),
         NEW q \in Requests \ {r}
  PROVE  tx'[q] = tx[q]
<1>1. tx \in [Requests -> Tx] /\ db \in DB
  BY DEF TypeInv, TypeOK
<1>2. \A a : Answer(r, a) => tx'[q] = tx[q]
  BY <1>1 DEF Answer
<1>3. Retry(r) => tx'[q] = tx[q]
  BY <1>2 DEF Retry
<1>4. CASE BookBegin(r)
  BY <1>1, <1>2, <1>4 DEF BookBegin
<1>5. CASE LockStep(r)
  <2>1. ASSUME NEW m \in QuietMoves, Quiet(r, m[1], m[2])
        PROVE  tx'[q] = tx[q]
    BY <2>1, QuietTx
  <2>2. QED
    BY <1>2, <1>3, <1>5, <2>1, LockSteps
<1>6. CASE FundStay(r)
  <2>1. \A s, rows : InsertDraws(r, s, rows) => tx'[q] = tx[q]
    BY <1>1 DEF InsertDraws
  <2>2. QED
    BY <1>2, <1>3, <1>6, <2>1, FundCases
<1>7. CASE BookCommit(r) /\ LostRace(r)
  BY <1>3, <1>7 DEF BookCommit
<1>8. CASE DeleteEntries(r)
  BY <1>1, <1>8 DEF DeleteEntries
<1>9. CASE ImportCheck(r)
  <2>1. ASSUME NEW s, NEW e,
               tx' = [tx EXCEPT ![r].rows = @ \cup {e}, ![r].links = @ \cup {<<s, e.id>>}]
        PROVE  tx'[q] = tx[q]
    BY <1>1, <2>1
  <2>2. QED
    BY <1>2, <1>9, <2>1, Zenon DEF ImportCheck
<1>10. CASE EditEntry(r)
  <2>1. ASSUME NEW rows, NEW locks, tx' = [tx EXCEPT ![r].rows = rows, ![r].locks = locks]
        PROVE  tx'[q] = tx[q]
    BY <1>1, <2>1
  <2>2. QED
    BY <1>2, <1>10, <2>1, Zenon DEF EditEntry
<1>11. CASE DeleteContract(r)
  <2>1. \A locks : Hold(r, locks) => tx'[q] = tx[q]
    BY <1>1 DEF Hold
  <2>2. QED
    BY <1>2, <1>11, <2>1, Zenon DEF DeleteContract
<1>12. CASE Finishes(r)
  BY <1>2, <1>12, FinishMoves
<1>13. QED
  BY <1>4, <1>5, <1>6, <1>7, <1>8, <1>9, <1>10, <1>11, <1>12 DEF Step, LockStep, Finishes

\* What a commit does to the tables and to the bookings it overtakes.
LEMMA CommitWrites ==
  ASSUME LinkInv, NEW r \in Requests, BookCommit(r), ~LostRace(r)
  PROVE  /\ pc[r] = "fund" /\ Moves(r)
         /\ db'.entries = db.entries \cup tx[r].rows
         /\ db'.links = db.links \cup tx[r].links
         /\ db'.stays = db.stays /\ db'.trips = db.trips
         /\ db'.contracts = db.contracts /\ db'.months = db.months
         /\ tx[r].rows = {} => tx[r].links = {} /\ db' = db
         /\ tx[r].rows # {} =>
              \A q \in Requests \ {r} : Underway(q) => tx'[q].overtaken
<1>1. TypeInv /\ db \in DB
  BY DEF LinkInv, LockInv, TypeInv, TypeOK
<1>2. pc[r] = "fund"
      /\ db' = [db EXCEPT !.entries = @ \cup tx[r].rows, !.links = @ \cup tx[r].links]
  BY Zenon DEF BookCommit
<1>3. Moves(r) /\ tx[r].rows # {} => \A q \in Requests \ {r} : Underway(q) => tx'[q].overtaken
  BY <1>1, CommitMoves DEF Underway
<1>4. Moves(r)
  BY <1>1, CommitMoves
<1>5. tx[r].rows = {} => tx[r].links = {}
  BY <1>2 DEF LinkInv, TxInv, TxOrder, OwnLinks
<1>6. tx[r].rows = {} => db' = db
  <2>1. SUFFICES ASSUME tx[r].rows = {}
                 PROVE  db' = db
    OBVIOUS
  <2>2. db.entries \cup {} = db.entries /\ db.links \cup {} = db.links
    OBVIOUS
  <2>3. db' = [db EXCEPT !.entries = db.entries, !.links = db.links]
    BY <1>2, <1>5, <2>1, <2>2
  <2>4. QED
    BY <1>1, <2>3 DEF DB
<1>7. /\ db'.entries = db.entries \cup tx[r].rows
      /\ db'.links = db.links \cup tx[r].links
      /\ db'.stays = db.stays /\ db'.trips = db.trips
      /\ db'.contracts = db.contracts /\ db'.months = db.months
  BY <1>1, <1>2 DEF DB
<1>8. QED
  BY <1>2, <1>3, <1>4, <1>5, <1>6, <1>7

\* Every step keeps it.
LEMMA ChargeNext == NothingImported /\ ChargeInv /\ [Next]_vars => ChargeInv'
<1>1. SUFFICES ASSUME NothingImported, ChargeInv, [Next]_vars
               PROVE  ChargeInv'
  OBVIOUS
<1>2. PaidInv'
  BY <1>1, PaidNext DEF ChargeInv
<1>3. CASE UNCHANGED vars
  BY <1>1, <1>2, <1>3 DEF vars, ChargeInv, LinksKnown, Underway
<1>4. ASSUME NEW r \in Requests, Step(r) \/ Abort(r)
      PROVE  ChargeInv'
  <2>1. TypeInv /\ LinkInv /\ OpInv /\ Moves(r) /\ tx[r] \in Tx
    BY <1>1, <1>4, StepMoves DEF ChargeInv, PaidInv, OpInv, TypeInv, TypeOK
  <2>2. ASSUME NEW q \in Requests \ {r}
        PROVE  LinksKnown(q)'
    <3>1. /\ pc'[q] = pc[q] /\ tx'[q].snap = tx[q].snap
          /\ tx'[q].overtaken = tx[q].overtaken \/ Underway(q)
      BY <2>1 DEF Moves, Underway
    <3>2. LinksKnown(q)
      BY <1>1 DEF ChargeInv
    <3>3. CASE BookCommit(r) /\ ~LostRace(r)
      <4>1. CASE tx[r].rows = {}
        <5>1. db' = db
          BY <2>1, <3>3, <4>1, CommitWrites
        <5>2. tx'[q].overtaken <=> tx[q].overtaken
          BY <2>1, <3>3, <4>1, CommitMoves
        <5>3. QED
          BY <3>1, <3>2, <5>1, <5>2 DEF LinksKnown, Underway
      <4>2. CASE tx[r].rows # {}
        <5>1. Underway(q) => tx'[q].overtaken
          BY <2>1, <3>3, <4>2, CommitWrites
        <5>2. QED
          BY <3>1, <5>1 DEF LinksKnown, Underway
      <4>3. QED
        BY <4>1, <4>2
    <3>4. CASE ~(BookCommit(r) /\ ~LostRace(r))
      <4>1. db'.links \subseteq db.links
        BY <1>1, <1>4, <2>1, <3>4, LinksShrink
      <4>2. tx'[q].overtaken = tx[q].overtaken
        BY <1>4, <2>1, <3>4, OthersKeep
      <4>3. QED
        BY <3>1, <3>2, <4>1, <4>2 DEF LinksKnown, Underway
    <3>5. QED
      BY <3>3, <3>4
  <2>3. LinksKnown(r)'
    <3>1. SUFFICES ASSUME Underway(r)', ~tx'[r].overtaken
                   PROVE  db'.links \subseteq tx'[r].snap.links
      BY DEF LinksKnown
    <3>2. UNCHANGED db
          /\ (Begins(r) \/ LocksOn(r) \/ \E s \in Stays : \E rows \in SUBSET Entry : Inserts(r, s, rows))
      BY <1>4, <2>1, <3>1, OpenSteps
    <3>3. CASE Begins(r)
      BY <2>1, <3>2, <3>3 DEF Begins, Tx
    <3>4. CASE LocksOn(r) \/ \E s \in Stays : \E rows \in SUBSET Entry : Inserts(r, s, rows)
      <4>1. Underway(r) /\ tx'[r].snap = tx[r].snap /\ tx'[r].overtaken = tx[r].overtaken
        <5>1. CASE LocksOn(r)
          BY <5>1 DEF LocksOn, SameTx, Underway
        <5>2. ASSUME NEW s \in Stays, NEW rows \in SUBSET Entry, Inserts(r, s, rows)
              PROVE  Underway(r) /\ tx'[r].snap = tx[r].snap /\ tx'[r].overtaken = tx[r].overtaken
          BY <1>1, <5>2, InsertPays DEF ChargeInv, Inserts, Underway
        <5>3. QED
          BY <3>4, <5>1, <5>2
      <4>2. QED
        BY <1>1, <3>1, <3>2, <4>1 DEF ChargeInv, LinksKnown
    <3>5. QED
      BY <3>2, <3>3, <3>4
  <2>4. QED
    BY <1>2, <2>2, <2>3 DEF ChargeInv
<1>5. QED
  BY <1>1, <1>3, <1>4 DEF Next, Idle

\* A stay that gains links gains those of the booking that commits, and its
\* entries are then the rows that booking has inserted for it.
LEMMA ChargedOnce ==
  ASSUME NothingImported, ChargeInv, [Next]_vars, NEW s \in Stays,
         ~(LinkedTo(db', s) \subseteq LinkedTo(db, s))
  PROVE  ~Booked(db, s) /\ Paid(db', s) = Price[s]
<1>1. ~UNCHANGED vars
  BY DEF vars, LinkedTo
<1>2. PICK r \in Requests : Step(r) \/ Abort(r)
  BY <1>1 DEF Next, Idle
<1>3. LinkInv /\ OpInv /\ TypeInv /\ TxInv
  BY DEF ChargeInv, PaidInv, LinkInv, LockInv
<1>4. BookCommit(r) /\ ~LostRace(r)
  <2>1. ~(db'.links \subseteq db.links)
    BY DEF LinkedTo
  <2>2. QED
    BY <1>2, <1>3, <2>1, LinksShrink
<1>5. /\ pc[r] = "fund"
      /\ db'.entries = db.entries \cup tx[r].rows /\ db'.links = db.links \cup tx[r].links
      /\ tx[r].rows # {}
  <2>1. tx[r].rows # {}
    BY <1>3, <1>4, CommitWrites
  <2>2. QED
    BY <1>3, <1>4, <2>1, CommitWrites
<1>6. db.links \subseteq tx[r].snap.links
  BY <1>4, <1>5 DEF LostRace, ChargeInv, LinksKnown, Underway
<1>7. PICK l \in tx[r].links : l[1] = s
  BY <1>5 DEF LinkedTo
<1>8. s \in Reached(r) /\ StaysPaid(r) /\ Underway(r)
  BY <1>5, <1>7 DEF Reached, ChargeInv, PaidInv, Underway
<1>9. LinkedTo(tx[r].snap, s) = {}
  BY <1>8 DEF StaysPaid, Unbooked, Booked
<1>10. LinkedTo(db, s) = {}
  BY <1>6, <1>9 DEF LinkedTo
<1>11. {e \in db'.entries : e.id \in LinkedTo(db', s)} = RowsFor(r, s)
  <2>1. ASSUME NEW e \in RowsFor(r, s)
        PROVE  e \in db'.entries /\ e.id \in LinkedTo(db', s)
    <3>1. e \in tx[r].rows /\ <<s, e.id>> \in tx[r].links
      BY <1>3, <1>5 DEF RowsFor, TxInv, TxOrder, OwnRows
    <3>2. <<s, e.id>>[1] = s /\ <<s, e.id>>[2] = e.id
      OBVIOUS
    <3>3. QED
      BY <1>5, <3>1, <3>2 DEF LinkedTo
  <2>2. ASSUME NEW e \in db'.entries, e.id \in LinkedTo(db', s)
        PROVE  e \in RowsFor(r, s)
    <3>1. PICK k \in tx[r].links : k[1] = s /\ k[2] = e.id
      BY <1>5, <1>10, <2>2 DEF LinkedTo
    <3>2. e.id[1] = r /\ e.id[2] = s
      BY <1>3, <1>5, <3>1, OwnIds
    <3>3. e \notin db.entries
      BY <1>3, <1>5, <3>2 DEF LinkInv, FailureLeavesNothing
    <3>4. QED
      BY <1>5, <3>2, <3>3 DEF RowsFor
  <2>3. QED
    BY <2>1, <2>2 DEF RowsFor
<1>12. Paid(db', s) = Price[s]
  BY <1>8, <1>11 DEF Paid, StaysPaid
<1>13. QED
  BY <1>10, <1>12 DEF Booked

(***************************************************************************)
(* A stay gets links only while it has none, and then entries that add up  *)
(* to its price exactly, so racing and double-submitted bookings never     *)
(* charge it twice or in part.  Holds for any tables and any requests but  *)
(* imports, hand edits of the ledger included.                             *)
(***************************************************************************)
THEOREM StaysFundedAtOnce == NoImports => (Spec => StayFundedAtOnce)
<1>1. SUFFICES ASSUME NoImports
               PROVE  Spec => StayFundedAtOnce
  OBVIOUS
<1>2. Init => ChargeInv
  BY PaidInit DEF Init, ChargeInv, LinksKnown, Underway
<1>3. ChargeInv => NothingImported
  BY <1>1, NoneImported DEF ChargeInv, PaidInv, LinkInv, LockInv, TypeInv
<1>4. ChargeInv /\ [Next]_vars => ChargeInv'
  BY <1>3, ChargeNext
<1>5. ChargeInv /\ [Next]_vars =>
        [\A s \in Stays :
           ~(LinkedTo(db', s) \subseteq LinkedTo(db, s))
             => ~Booked(db, s) /\ Paid(db', s) = Price[s]]_vars
  BY <1>3, ChargedOnce
<1>6. QED
  BY <1>2, <1>4, <1>5, PTL DEF Spec, StayFundedAtOnce

-----------------------------------------------------------------------------
(* No lot and no ledger is overspent: NoLotOverdrawn, LedgerNotOverspent.  *)
(*                                                                         *)
(* For requests that book, unbook and edit trips: whoever types a usage    *)
(* row by hand may well overspend a lot.  The tables one starts from must  *)
(* be in the black, and the entries linked to stays must be usage: Solvent *)
(* in Booking, which TLC evaluates on the tables of BookingRace.cfg.       *)

TripJobs == \A j \in Jobs : j.op \in {"book", "unbook", "deleteTrip", "deleteStay", "addStay"}

AllSolvent == \A d \in Databases : Solvent(d)

\* Whatever is linked, or is being deleted because it was, allots nothing.
UsageOnly ==
  \A e \in db.entries :
    (\E l \in db.links : l[2] = e.id) \/ (\E q \in Requests : e.id \in tx[q].gone)
      => e.allotted = 0

\* An open booking sees the lots there are and, unless it was overtaken, at
\* least the rows there are; by its snapshot it has not overspent them.
Funds(r) ==
  Underway(r) =>
    /\ LotRows(tx[r].snap) = LotRows(db)
    /\ ~tx[r].overtaken => db.entries \subseteq tx[r].snap.entries
    /\ \A e \in tx[r].rows : e.allotted = 0
    /\ \A lot \in LotsIn(tx[r].snap) : Balance(tx[r].snap, tx[r].rows, lot) >= 0
    /\ Used(tx[r].snap.entries \cup tx[r].rows) <= Allotted(LotRows(tx[r].snap))

MoneyInv == PaidInv /\ UsageOnly /\ InTheBlack(db) /\ \A r \in Requests : Funds(r)

(***************************************************************************)
(* Tables with the same lots and no other rows than these have at least    *)
(* the balances of these.                                                  *)
(***************************************************************************)
LEMMA FewerRows ==
  ASSUME NEW d \in DB, IsFiniteSet(d.entries), NEW own \in SUBSET Entry, IsFiniteSet(own),
         NEW n \in DB, IsFiniteSet(n.entries),
         LotRows(n) = LotRows(d), n.entries \subseteq d.entries \cup own
  PROVE  /\ Used(n.entries) <= Used(d.entries \cup own)
         /\ \A lot : Balance(d, own, lot) <= Balance(n, {}, lot)
<1>1. d.entries \cup own \in SUBSET Entry /\ IsFiniteSet(d.entries \cup own)
  BY FS_Union DEF DB
<1>2. Used(n.entries) <= Used(d.entries \cup own)
  BY <1>1, UsedInPart
<1>3. ASSUME NEW lot
      PROVE  Balance(d, own, lot) <= Balance(n, {}, lot)
  <2> DEFINE A == Against(LotRows(d), lot)
             U == Against(d.entries \cup own, lot)
             V == Against(n.entries \cup {}, lot)
  <2>1. /\ U \in SUBSET (d.entries \cup own) /\ U \in SUBSET Entry /\ V \in SUBSET U
        /\ A \in SUBSET d.entries /\ A \in SUBSET Entry
    BY <1>1 DEF Against, LotRows, DB
  <2>2. IsFiniteSet(U) /\ IsFiniteSet(A)
    BY <1>1, <2>1, FS_Subset
  <2>3. V \in SUBSET Entry /\ IsFiniteSet(V)
    BY <2>1, <2>2, FS_Subset
  <2>4. Balance(d, own, lot) = Allotted(A) - Used(U)
        /\ Balance(n, {}, lot) = Allotted(A) - Used(V)
    BY DEF Balance
  <2> HIDE DEF A, U, V
  <2>5. Used(V) <= Used(U)
    BY <2>1, <2>2, UsedInPart
  <2>6. Used(V) \in Nat /\ Used(U) \in Nat /\ Allotted(A) \in Nat
    BY <2>1, <2>2, <2>3, RowSumType
  <2>7. QED
    BY <2>4, <2>5, <2>6
<1>4. QED
  BY <1>2, <1>3

(***************************************************************************)
(* A turn of the loop spends no more than a lot, or the ledger, has left.  *)
(***************************************************************************)
LEMMA InsertFunds ==
  ASSUME PaidInv, NEW r \in Requests, Funds(r), NEW s \in Stays, NEW rows \in SUBSET Entry,
         Inserts(r, s, rows)
  PROVE  LET snap == tx[r].snap
             own == tx[r].rows \cup rows
         IN  /\ \A e \in own : e.allotted = 0
             /\ \A lot \in LotsIn(snap) : Balance(snap, own, lot) >= 0
             /\ Used(snap.entries \cup own) <= Allotted(LotRows(snap))
<1> DEFINE snap == tx[r].snap
           old == tx[r].rows
           all == snap.entries \cup old
<1>1. /\ TypeInv /\ snap \in DB /\ IsFiniteSet(snap.entries) /\ snap.entries \in SUBSET Entry
      /\ old \in SUBSET Entry /\ IsFiniteSet(old)
  BY DEF PaidInv, OpInv, TypeInv, TypeOK, Finite, Tx, DB
<1>2. IsFiniteSet(rows) /\ CanFund(r, s)
  BY <1>1, UsageRowsType DEF Inserts
<1>3. /\ \A e \in old : e.allotted = 0
      /\ \A lot \in LotsIn(snap) : Balance(snap, old, lot) >= 0
      /\ Used(all) <= Allotted(LotRows(snap))
  BY DEF Funds, Underway, Inserts
<1>4. /\ Used(rows) = Price[s]
      /\ \A lot \in LotsIn(snap) :
           Used(Against(rows, lot)) <= Balance(snap, old, lot) \/ Against(rows, lot) = {}
  BY <1>1, <1>2, RowsAddUp DEF Inserts
<1>5. Price[s] <= Allotted(LotRows(snap)) - Used(all)
  BY <1>2 DEF CanFund, Available
<1>6. all \in SUBSET Entry /\ IsFiniteSet(all) /\ snap.entries \cup (old \cup rows) = all \cup rows
  BY <1>1, FS_Union
<1>7. LotRows(snap) \in SUBSET snap.entries
  BY DEF LotRows
<1> HIDE DEF snap, old, all
<1>8. LotRows(snap) \in SUBSET Entry /\ IsFiniteSet(LotRows(snap))
  BY <1>1, <1>7, FS_Subset
<1>9. Allotted(LotRows(snap)) \in Nat /\ Used(all) \in Nat
  BY <1>6, <1>8, RowSumType
<1>10. \A e \in rows : e.allotted = 0
  BY DEF Inserts, UsageRow
<1>11. Used(all \cup rows) <= Allotted(LotRows(snap))
  <2>1. Used(all \cup rows) <= Used(all) + Used(rows)
    BY <1>2, <1>6, UsedInTwo
  <2>2. all \cup rows \in SUBSET Entry /\ IsFiniteSet(all \cup rows)
    BY <1>2, <1>6, FS_Union
  <2>3. Used(all \cup rows) \in Nat /\ Used(rows) \in Nat
    BY <1>2, <2>2, RowSumType
  <2>4. QED
    BY <1>4, <1>5, <1>9, <2>1, <2>3
<1>12. ASSUME NEW lot \in LotsIn(snap)
       PROVE  Balance(snap, old \cup rows, lot) >= 0
  <2> DEFINE U == Against(all, lot)
             N == Against(rows, lot)
             A == Against(LotRows(snap), lot)
  <2>1. /\ U \in SUBSET all /\ N \in SUBSET rows /\ A \in SUBSET LotRows(snap)
        /\ Against(snap.entries \cup (old \cup rows), lot) = U \cup N
    BY <1>6 DEF Against
  <2>2. Balance(snap, old \cup rows, lot) = Allotted(A) - Used(U \cup N)
    BY <2>1 DEF Balance
  <2>3. Balance(snap, old, lot) = Allotted(A) - Used(U)
    BY DEF Balance, all
  <2>4. Used(N) <= Balance(snap, old, lot) \/ N = {}
    BY <1>4
  <2>5. Balance(snap, old, lot) >= 0
    BY <1>3
  <2> HIDE DEF U, N, A
  <2>6. /\ U \in SUBSET Entry /\ IsFiniteSet(U) /\ N \in SUBSET Entry /\ IsFiniteSet(N)
        /\ A \in SUBSET Entry /\ IsFiniteSet(A)
    BY <1>2, <1>6, <1>8, <2>1, FS_Subset
  <2>7. Used(U) \in Nat /\ Used(N) \in Nat /\ Allotted(A) \in Nat
    BY <2>6, RowSumType
  <2>8. IsFiniteSet(U \cup N) /\ U \cup N \in SUBSET Entry
    BY <2>6, FS_Union
  <2>9. Used(U \cup N) \in Nat /\ Used(U \cup N) <= Used(U) + Used(N)
    BY <2>6, <2>8, RowSumType, UsedInTwo
  <2>10. CASE N = {}
    <3>1. U \cup N = U
      BY <2>10
    <3>2. QED
      BY <2>2, <2>3, <2>5, <3>1
  <2>11. CASE Used(N) <= Balance(snap, old, lot)
    BY <2>2, <2>3, <2>7, <2>9, <2>11
  <2>12. QED
    BY <2>4, <2>10, <2>11
<1>13. QED
  BY <1>3, <1>6, <1>10, <1>11, <1>12 DEF snap, old

-----------------------------------------------------------------------------
(* The steps of requests that book, unbook and edit trips. *)

Ends(r) == tx'[r] = NoTx /\ UNCHANGED <<db, issued>>

\* A step of a transaction that goes on, and leaves the tables alone.
Still(r) == tx'[r].gone = tx[r].gone /\ UNCHANGED <<db, issued>>

\* What a step of a request of a trip page may be.
LEMMA TripStep ==
  ASSUME TripJobs, OpInv, NEW r \in Requests, Step(r) \/ Abort(r)
  PROVE  \/ Underway(r)' /\ UNCHANGED issued
         \/ DeleteEntries(r)
         \/ BookCommit(r) /\ ~LostRace(r)
         \/ DeleteCommit(r)
         \/ AddStay(r)
         \/ Ends(r)
         \/ Still(r)
<1>1. TypeInv /\ tx \in [Requests -> Tx] /\ job[r] \in Jobs /\ pc \in [Requests -> PcType]
  BY DEF OpInv, TypeInv, TypeOK, PcType
<1>2. \A a : Answer(r, a) => tx'[r] = NoTx
  BY <1>1 DEF Answer
<1>3. Retry(r) => tx'[r] = NoTx
  BY <1>2 DEF Retry
<1>4. CASE BookBegin(r)
  BY <1>1, <1>2, <1>4 DEF BookBegin, Ends, Underway
<1>5. CASE LockStep(r)
  <2>1. UNCHANGED <<db, issued>>
    BY <1>1, <1>5, LockSteps
  <2>2. ASSUME NEW m \in QuietMoves, Quiet(r, m[1], m[2])
        PROVE  Still(r)
    BY <1>1, <2>1, <2>2, QuietTx DEF Still
  <2>3. QED
    BY <1>1, <1>2, <1>3, <1>5, <2>1, <2>2, LockSteps DEF Ends
<1>6. CASE FundStay(r)
  <2>1. UNCHANGED <<db, issued>> /\ pc[r] = "fund"
    BY <1>6, FundCases
  <2>2. Answer(r, "insufficient") \/ Retry(r) \/ UNCHANGED pc
    BY <1>6, FundCases
  <2>3. QED
    BY <1>2, <1>3, <2>1, <2>2 DEF Ends, Underway
<1>7. CASE BookCommit(r) /\ LostRace(r)
  BY <1>3, <1>7 DEF BookCommit, Ends
<1>8. CASE Abort(r)
  BY <1>2, <1>8 DEF Abort, Ends
<1>9. job[r].op \in {"book", "unbook", "deleteTrip", "deleteStay", "addStay"}
  BY <1>1 DEF TripJobs
<1>10. ~ImportCheck(r) /\ ~AddEntry(r) /\ ~EditEntry(r) /\ ~DeleteEntry(r)
       /\ ~DeleteContract(r) /\ ~UpdateContract(r)
  BY <1>9 DEF ImportCheck, AddEntry, EditEntry, DeleteEntry, DeleteContract, UpdateContract
<1>11. ~ImportCommit(r) /\ ~EditCommit(r) /\ ~ContractCommit(r)
  BY <1>9 DEF ImportCommit, EditCommit, ContractCommit, OpInv, Doing
<1>12. QED
  BY <1>4, <1>5, <1>6, <1>7, <1>8, <1>10, <1>11 DEF Step, LockStep

\* Apart from the commit of a booking no step adds a row or a link, and none
\* adds or removes a lot.
LEMMA TripTables ==
  ASSUME TripJobs, PaidInv, UsageOnly, NEW r \in Requests, Funds(r), Step(r) \/ Abort(r)
  PROVE  /\ LotRows(db') = LotRows(db)
         /\ ~(BookCommit(r) /\ ~LostRace(r)) =>
              db'.entries \subseteq db.entries /\ db'.links \subseteq db.links
<1>1. db \in DB /\ OpInv /\ TypeInv /\ LinkInv
  BY DEF PaidInv, OpInv, TypeInv, TypeOK
<1>2. CASE BookCommit(r) /\ ~LostRace(r)
  <2>1. pc[r] = "fund" /\ db'.entries = db.entries \cup tx[r].rows
    BY <1>1, <1>2, CommitWrites
  <2>2. \A e \in tx[r].rows : ~(e.allotted > 0)
    BY <2>1 DEF Funds, Underway
  <2>3. QED
    BY <1>2, <2>1, <2>2 DEF LotRows
<1>3. CASE DeleteCommit(r)
  <2>1. db' = Without(db, tx[r].gone, DeletedStays(db, job[r]), DeletedTrips(job[r]))
    BY <1>3 DEF DeleteCommit
  <2>2. /\ db'.entries = {e \in db.entries : e.id \notin tx[r].gone}
        /\ db'.links \subseteq db.links
    BY <1>1, <2>1 DEF Without, DB
  <2>3. \A e \in db.entries : e.id \in tx[r].gone => ~(e.allotted > 0)
    BY DEF UsageOnly
  <2>4. QED
    BY <2>2, <2>3 DEF LotRows
<1>4. CASE AddStay(r)
  <2>1. db'.entries = db.entries /\ db'.links = db.links
    BY <1>1, <1>4 DEF AddStay, DB
  <2>2. QED
    BY <2>1 DEF LotRows
<1>5. CASE db' = db
  BY <1>5
<1>6. QED
  <2>1. Underway(r)' => db' = db
    BY <1>1, OpenSteps
  <2>2. DeleteEntries(r) \/ Ends(r) \/ Still(r) => db' = db
    BY DEF DeleteEntries, Ends, Still
  <2>3. QED
    BY <1>1, <1>2, <1>3, <1>4, <1>5, <2>1, <2>2, TripStep

\* What is linked or being deleted stays usage.
LEMMA UsageKept ==
  ASSUME TripJobs, MoneyInv, NEW r \in Requests, Step(r) \/ Abort(r)
  PROVE  UsageOnly'
<1>1. PaidInv /\ LinkInv /\ OpInv /\ TypeInv /\ UsageOnly /\ Funds(r) /\ Moves(r)
      /\ tx \in [Requests -> Tx]
  BY StepMoves DEF MoneyInv, PaidInv, OpInv, TypeInv, TypeOK
<1>2. CASE BookCommit(r) /\ ~LostRace(r)
  <2>1. /\ pc[r] = "fund" /\ db'.entries = db.entries \cup tx[r].rows
        /\ db'.links = db.links \cup tx[r].links
    BY <1>1, <1>2, CommitWrites
  <2>2. \A q \in Requests : tx'[q].gone \subseteq tx[q].gone
    BY <1>1, <1>2, CommitMoves DEF Moves, NoTx
  <2>3. \A e \in tx[r].rows : e.allotted = 0
    BY <1>1, <2>1 DEF Funds, Underway
  <2>4. \A e \in db.entries : \A l \in tx[r].links : l[2] # e.id
    <3>1. \A l \in tx[r].links : l[2][1] = r
      BY <1>1, <2>1, OwnIds DEF LinkInv
    <3>2. \A e \in db.entries : e.id[1] # r
      BY <1>1, <2>1 DEF LinkInv, FailureLeavesNothing
    <3>3. QED
      BY <3>1, <3>2
  <2>5. QED
    BY <1>1, <2>1, <2>2, <2>3, <2>4 DEF UsageOnly
<1>3. CASE DeleteEntries(r)
  <2> DEFINE ids == EntryIdsOf(db, {s \in db.stays : Named(job[r], s)})
  <2>1. UNCHANGED db /\ tx' = [tx EXCEPT ![r].gone = ids]
    BY <1>3 DEF DeleteEntries
  <2>2. \A i \in ids : \E l \in db.links : l[2] = i
    BY DEF EntryIdsOf
  <2> HIDE DEF ids
  <2>3. \A q \in Requests : tx'[q].gone = IF q = r THEN ids ELSE tx[q].gone
    BY <1>1, <2>1 DEF Tx
  <2>4. QED
    BY <1>1, <2>1, <2>2, <2>3 DEF UsageOnly
<1>4. CASE ~(BookCommit(r) /\ ~LostRace(r)) /\ ~DeleteEntries(r)
  <2>1. db'.entries \subseteq db.entries /\ db'.links \subseteq db.links
    BY <1>1, <1>4, TripTables
  <2>2. tx'[r].gone \subseteq tx[r].gone
    <3>1. NoTx.gone = {}
      BY DEF NoTx
    <3>2. CASE tx'[r] = NoTx
      BY <3>1, <3>2
    <3>3. CASE Underway(r)'
      <4>1. Begins(r) \/ LocksOn(r) \/ \E s \in Stays : \E rows \in SUBSET Entry : Inserts(r, s, rows)
        BY <1>1, <3>3, OpenSteps
      <4>2. tx'[r].gone = tx[r].gone
        BY <1>1, <4>1 DEF Begins, LocksOn, SameTx, Inserts, Tx
      <4>3. QED
        BY <4>2
    <3>4. DeleteCommit(r) \/ AddStay(r) \/ Ends(r) => tx'[r] = NoTx
      BY <1>1 DEF DeleteCommit, AddStay, Ends, Answer
    <3>5. CASE Still(r)
      BY <3>5 DEF Still
    <3>6. QED
      BY <1>1, <1>4, <3>2, <3>3, <3>4, <3>5, TripStep
  <2>3. \A q \in Requests : tx'[q].gone \subseteq tx[q].gone
    BY <1>1, <2>2 DEF Moves
  <2>4. QED
    BY <1>1, <2>1, <2>3 DEF UsageOnly
<1>5. QED
  BY <1>2, <1>3, <1>4

\* The tables stay in the black.
LEMMA BlackKept ==
  ASSUME TripJobs, MoneyInv, TypeInv', NEW r \in Requests, Step(r) \/ Abort(r)
  PROVE  InTheBlack(db')
<1>1. PaidInv /\ LinkInv /\ TypeInv /\ UsageOnly /\ Funds(r) /\ InTheBlack(db)
  BY DEF MoneyInv, PaidInv, OpInv
<1>2. /\ db \in DB /\ IsFiniteSet(db.entries) /\ db' \in DB /\ IsFiniteSet(db'.entries)
      /\ tx[r].snap \in DB /\ IsFiniteSet(tx[r].snap.entries)
      /\ tx[r].rows \in SUBSET Entry /\ IsFiniteSet(tx[r].rows)
  BY <1>1 DEF TypeInv, TypeOK, Finite, Tx
<1>3. LotRows(db') = LotRows(db) /\ LotsIn(db') = LotsIn(db)
  BY <1>1, TripTables DEF LotsIn
<1>4. SUFFICES ASSUME NEW d \in DB, NEW own \in SUBSET Entry,
                      IsFiniteSet(d.entries), IsFiniteSet(own),
                      LotRows(d) = LotRows(db), db'.entries \subseteq d.entries \cup own,
                      \A lot \in LotsIn(d) : Balance(d, own, lot) >= 0,
                      Used(d.entries \cup own) <= Allotted(LotRows(d))
               PROVE  InTheBlack(db')
  <2>1. CASE BookCommit(r) /\ ~LostRace(r) /\ tx[r].rows # {}
    <3>1. ~tx[r].overtaken /\ Underway(r)
      BY <2>1 DEF BookCommit, LostRace, Underway
    <3>2. db'.entries = db.entries \cup tx[r].rows
      BY <1>1, <2>1, CommitWrites
    <3>3. QED
      BY <1>1, <1>2, <1>4, <3>1, <3>2 DEF Funds
  <2>2. CASE ~(BookCommit(r) /\ ~LostRace(r) /\ tx[r].rows # {})
    <3>1. db'.entries \subseteq db.entries
      BY <1>1, <2>2, CommitWrites, TripTables
    <3>2. IsFiniteSet({}) /\ {} \in SUBSET Entry /\ db.entries \cup {} = db.entries
      BY FS_EmptySet
    <3>3. QED
      BY <1>1, <1>2, <1>4, <3>1, <3>2 DEF InTheBlack
  <2>3. QED
    BY <2>1, <2>2
<1>5. /\ Used(db'.entries) <= Used(d.entries \cup own)
      /\ \A lot : Balance(d, own, lot) <= Balance(db', {}, lot)
  BY <1>2, <1>3, <1>4, FewerRows
<1>6. LotsIn(d) = LotsIn(db')
  BY <1>3, <1>4 DEF LotsIn
<1>7. ASSUME NEW lot \in LotsIn(db')
      PROVE  Balance(db', {}, lot) >= 0
  <2>1. IsFiniteSet({}) /\ {} \in SUBSET Entry
    BY FS_EmptySet
  <2>2. Balance(db', {}, lot) \in Int /\ Balance(d, own, lot) \in Int
    BY <1>2, <1>4, <2>1, BalanceType
  <2>3. QED
    BY <1>4, <1>5, <1>6, <2>2
<1>8. Used(db'.entries) <= Allotted(LotRows(db'))
  <2>1. d.entries \cup own \in SUBSET Entry /\ IsFiniteSet(d.entries \cup own)
        /\ LotRows(d) \in SUBSET d.entries /\ LotRows(d) \in SUBSET Entry
        /\ db'.entries \in SUBSET Entry
    BY <1>2, <1>4, FS_Union DEF DB, LotRows
  <2>2. IsFiniteSet(LotRows(d))
    BY <1>4, <2>1, FS_Subset
  <2>3. Used(d.entries \cup own) \in Nat /\ Used(db'.entries) \in Nat
        /\ Allotted(LotRows(d)) \in Nat
    BY <1>2, <2>1, <2>2, RowSumType
  <2>4. QED
    BY <1>3, <1>4, <1>5, <2>3
<1>9. QED
  BY <1>7, <1>8 DEF InTheBlack

\* What an open booking of another request has seen and spent stays funded.
LEMMA OthersFund ==
  ASSUME TripJobs, MoneyInv, NEW r \in Requests, Step(r) \/ Abort(r),
         NEW q \in Requests \ {r}
  PROVE  Funds(q)'
<1>1. PaidInv /\ LinkInv /\ TypeInv /\ UsageOnly /\ Funds(r) /\ Funds(q) /\ Moves(r)
  BY StepMoves DEF MoneyInv, PaidInv, OpInv
<1>2. /\ Underway(q)' <=> Underway(q)
      /\ tx'[q].snap = tx[q].snap /\ tx'[q].rows = tx[q].rows
  BY <1>1 DEF Moves, Underway
<1>3. LotRows(db') = LotRows(db)
  BY <1>1, TripTables
<1>4. Underway(q) /\ ~tx'[q].overtaken => ~tx[q].overtaken /\ db'.entries \subseteq db.entries
  <2>1. CASE BookCommit(r) /\ ~LostRace(r)
    <3>1. CASE tx[r].rows = {}
      BY <1>1, <2>1, <3>1, CommitWrites, CommitMoves
    <3>2. CASE tx[r].rows # {}
      BY <1>1, <2>1, <3>2, CommitWrites
    <3>3. QED
      BY <3>1, <3>2
  <2>2. CASE ~(BookCommit(r) /\ ~LostRace(r))
    BY <1>1, <2>2, OthersKeep, TripTables
  <2>3. QED
    BY <2>1, <2>2
<1>5. QED
  BY <1>1, <1>2, <1>3, <1>4 DEF Funds

\* What the booking of r itself has seen and spent is funded.
LEMMA OwnFunds ==
  ASSUME TripJobs, MoneyInv, NEW r \in Requests, Step(r) \/ Abort(r)
  PROVE  Funds(r)'
<1>1. PaidInv /\ TypeInv /\ TxInv /\ Funds(r) /\ InTheBlack(db) /\ tx[r] \in Tx
  BY DEF MoneyInv, PaidInv, OpInv, LinkInv, LockInv, TypeInv, TypeOK
<1>2. SUFFICES ASSUME Underway(r)'
               PROVE  Funds(r)'
  BY DEF Funds
<1>3. UNCHANGED db
      /\ (Begins(r) \/ LocksOn(r) \/ \E s \in Stays : \E rows \in SUBSET Entry : Inserts(r, s, rows))
  BY <1>1, <1>2, OpenSteps
<1>4. CASE Begins(r)
  <2>1. tx[r].rows = {}
    BY <1>1, <1>4, NothingReached DEF Begins
  <2>2. tx'[r].snap = db /\ tx'[r].rows = {}
    BY <1>1, <1>4, <2>1 DEF Begins, Tx
  <2>3. db.entries \cup {} = db.entries
    OBVIOUS
  <2>4. QED
    BY <1>1, <1>3, <2>2, <2>3 DEF Funds, InTheBlack
<1>5. CASE LocksOn(r)
  BY <1>1, <1>3, <1>5 DEF LocksOn, SameTx, Funds, Underway
<1>6. ASSUME NEW s \in Stays, NEW rows \in SUBSET Entry, Inserts(r, s, rows)
      PROVE  Funds(r)'
  <2>1. /\ tx'[r].snap = tx[r].snap /\ tx'[r].overtaken = tx[r].overtaken
        /\ tx'[r].rows = tx[r].rows \cup rows
    BY <1>1, <1>6, InsertPays
  <2>2. Underway(r)
    BY <1>6 DEF Inserts, Underway
  <2>3. /\ \A e \in tx'[r].rows : e.allotted = 0
        /\ \A lot \in LotsIn(tx'[r].snap) : Balance(tx'[r].snap, tx'[r].rows, lot) >= 0
        /\ Used(tx'[r].snap.entries \cup tx'[r].rows) <= Allotted(LotRows(tx'[r].snap))
    BY <1>1, <1>6, <2>1, InsertFunds
  <2>4. QED
    BY <1>1, <1>3, <2>1, <2>2, <2>3 DEF Funds
<1>7. QED
  BY <1>3, <1>4, <1>5, <1>6

\* Every step keeps the books in order.
LEMMA MoneyNext == TripJobs /\ MoneyInv /\ [Next]_vars => MoneyInv'
<1>1. SUFFICES ASSUME TripJobs, MoneyInv, [Next]_vars
               PROVE  MoneyInv'
  OBVIOUS
<1>2. PaidInv'
  BY <1>1, PaidNext DEF MoneyInv
<1>3. CASE UNCHANGED vars
  BY <1>1, <1>2, <1>3 DEF vars, MoneyInv, UsageOnly, InTheBlack, Funds, Underway
<1>4. ASSUME NEW r \in Requests, Step(r) \/ Abort(r)
      PROVE  MoneyInv'
  <2>1. UsageOnly' /\ InTheBlack(db')
    BY <1>1, <1>2, <1>4, UsageKept, BlackKept DEF PaidInv, OpInv
  <2>2. \A q \in Requests : Funds(q)'
    BY <1>1, <1>4, OthersFund, OwnFunds
  <2>3. QED
    BY <1>2, <2>1, <2>2 DEF MoneyInv
<1>5. QED
  BY <1>1, <1>3, <1>4 DEF Next, Idle

\* They are in order in the tables one starts from.
LEMMA MoneyInit == AllSolvent /\ Init => MoneyInv
<1>1. SUFFICES ASSUME AllSolvent, Init
               PROVE  MoneyInv
  OBVIOUS
<1>2. db \in Databases /\ \A r \in Requests : tx[r] = NoTx /\ pc[r] = "start"
  BY <1>1 DEF Init
<1>3. UsageOnly /\ InTheBlack(db)
  BY <1>1, <1>2 DEF AllSolvent, Solvent, Linked, UsageOnly, NoTx
<1>4. \A r \in Requests : Funds(r)
  BY <1>2 DEF Funds, Underway
<1>5. QED
  BY <1>1, <1>3, <1>4, PaidInit DEF MoneyInv

(***************************************************************************)
(* Concurrent bookings never spend a lot below zero, for any number of     *)
(* requests, trips and lots: two that race for the same last points cannot *)
(* both succeed.                                                           *)
(***************************************************************************)
THEOREM LotsNotOverdrawn == TripJobs /\ AllSolvent => (Spec => []NoLotOverdrawn)
<1>1. SUFFICES ASSUME TripJobs, AllSolvent
               PROVE  Spec => []NoLotOverdrawn
  OBVIOUS
<1>2. Init => MoneyInv
  BY <1>1, MoneyInit
<1>3. MoneyInv /\ [Next]_vars => MoneyInv'
  BY <1>1, MoneyNext
<1>4. MoneyInv => NoLotOverdrawn
  BY DEF MoneyInv, InTheBlack, NoLotOverdrawn
<1>5. QED
  BY <1>2, <1>3, <1>4, PTL DEF Spec

(***************************************************************************)
(* Nor do they spend more than was ever allotted, the usage that names no  *)
(* contract included.                                                      *)
(***************************************************************************)
THEOREM LedgersNotOverspent == TripJobs /\ AllSolvent => (Spec => []LedgerNotOverspent)
<1>1. SUFFICES ASSUME TripJobs, AllSolvent
               PROVE  Spec => []LedgerNotOverspent
  OBVIOUS
<1>2. Init => MoneyInv
  BY <1>1, MoneyInit
<1>3. MoneyInv /\ [Next]_vars => MoneyInv'
  BY <1>1, MoneyNext
<1>4. MoneyInv => LedgerNotOverspent
  BY DEF MoneyInv, InTheBlack, LedgerNotOverspent
<1>5. QED
  BY <1>2, <1>3, <1>4, PTL DEF Spec

-----------------------------------------------------------------------------
(* Bookings and unbookings are steps of TripLedger: ImplementsTripLedger.  *)
(*                                                                         *)
(* First what the refinement mapping shows of some tables: the draws are   *)
(* the linked entries under another name.                                  *)

\* A link with its entry, and the draw the mapping makes of them.
Pairs(d) == {q \in d.links \X d.entries : q[1][2] = q[2].id}
DrawOf(p) == [id |-> p[2].id, stay |-> p[1][1], lot |-> LotOf(p[2]), points |-> p[2].used]

\* Sums are the same in both modules.
LEMMA SameSums ==
  /\ \A S : Ledger!IsFiniteSet(S) <=> IsFiniteSet(S)
  /\ \A f, S : Ledger!SumOver(f, S) = SumOver(f, S)
<1>1. \A S : Ledger!IsFiniteSet(S) <=> IsFiniteSet(S)
  BY DEF Ledger!IsFiniteSet, IsFiniteSet
<1>2. \A S : Ledger!Cardinality(S) = Cardinality(S)
  BY DEF Ledger!Cardinality, Cardinality
<1>3. \A f, S : Ledger!AllPoints(f, S) = AllPoints(f, S)
  BY DEF AllPoints, PointsOf, Ledger!AllPoints, Ledger!PointsOf
<1>4. QED
  BY <1>1, <1>2, <1>3 DEF SumOver, Ledger!SumOver

(***************************************************************************)
(* Draws are worth what the entries behind them use.                       *)
(***************************************************************************)
LEMMA PairSums ==
  ASSUME NEW d \in DB, Consistent(d), IsFiniteSet(d.entries), NEW P \in SUBSET Pairs(d)
  PROVE  /\ IsFiniteSet({DrawOf(p) : p \in P})
         /\ Ledger!Points({DrawOf(p) : p \in P}) = Used({p[2] : p \in P})
<1> DEFINE D == {DrawOf(p) : p \in P}
           E == {p[2] : p \in P}
           f == [p \in P |-> p[2].used]
           toDraw == [p \in P |-> DrawOf(p)]
           toEntry == [p \in P |-> p[2]]
           pointsOf == [x \in D |-> x.points]
<1>1. /\ \A p \in P : /\ p[1] \in d.links /\ p[2] \in d.entries /\ p[1][2] = p[2].id
                      /\ p = <<p[1], p[2]>>
      /\ d.entries \subseteq Entry
  BY DEF Pairs, DB
<1>2. \A p, q \in P : p[2].id = q[2].id => p = q
  BY <1>1 DEF Consistent, LinksUnique, IdsUnique
<1>3. /\ \A p \in P : f[p] \in Nat /\ f[p] = p[2].used
      /\ \A p \in P : toEntry[p] = p[2]
      /\ \A p \in P : toDraw[p].id = p[2].id /\ toDraw[p].points = p[2].used
                      /\ toDraw[p] \in D
  BY <1>1 DEF Entry, DrawOf
<1>4. E \in SUBSET d.entries /\ E \in SUBSET Entry
  BY <1>1
<1>5. IsFiniteSet(E)
  BY <1>4, FS_Subset
<1>6. D = {toDraw[p] : p \in P} /\ E = {toEntry[p] : p \in P}
  OBVIOUS
<1>7. \A x \in D : pointsOf[x] = x.points
  OBVIOUS
<1>8. Ledger!Points(D) = SumOver(pointsOf, D)
  BY SameSums DEF Ledger!Points
<1> HIDE DEF f, toDraw, D, E, pointsOf
<1>9. IsFiniteSet(P)
  <2>1. toEntry \in [P -> E]
    BY <1>6 DEF toEntry
  <2>2. \A p, q \in P : toEntry[p] = toEntry[q] => p = q
    BY <1>2, <1>3
  <2>3. toEntry \in Injection(P, E)
    BY <2>1, <2>2, Fun_IsInj
  <2>4. QED
    BY <1>5, <2>3, FS_Injection, Fun_ExistsInj
<1> HIDE DEF toEntry
<1>10. IsFiniteSet(D)
  BY <1>6, <1>9, ImageFinite
<1>11. SumOver(pointsOf, {toDraw[p] : p \in P}) = SumOver(f, P)
  <2>1. \A p, q \in P : toDraw[p] = toDraw[q] => p = q
    BY <1>2, <1>3
  <2>2. \A p \in P : pointsOf[toDraw[p]] = f[p]
    BY <1>3, <1>7
  <2>3. QED
    BY <1>3, <1>9, <2>1, <2>2, SumRenamed
<1>12. SumOver(UsedOf, {toEntry[p] : p \in P}) = SumOver(f, P)
  <2>1. \A p, q \in P : toEntry[p] = toEntry[q] => p = q
    BY <1>2, <1>3
  <2>2. \A p \in P : UsedOf[toEntry[p]] = f[p]
    <3>1. \A p \in P : toEntry[p] \in E
      BY <1>6
    <3>2. QED
      BY <1>3, <1>4, <3>1, RowSums
  <2>3. QED
    BY <1>3, <1>9, <2>1, <2>2, SumRenamed
<1>13. Used(E) = SumOver(UsedOf, E)
  BY <1>4, RowSums
<1>14. QED
  BY <1>6, <1>8, <1>10, <1>11, <1>12, <1>13 DEF D, E

(***************************************************************************)
(* The mapping preserves what a stay is charged and what a lot has spent,  *)
(* and tables in the black leave each lot within its room.                 *)
(***************************************************************************)
LEMMA MappedSums ==
  ASSUME NEW d \in DB, Consistent(d), IsFiniteSet(d.entries)
  PROVE  /\ LinkedDraws(d) = {DrawOf(p) : p \in Pairs(d)}
         /\ IsFiniteSet(LinkedDraws(d))
         /\ \A s : Ledger!Charged(LinkedDraws(d), s) = Paid(d, s)
         /\ \A lot : Ledger!Spent(LinkedDraws(d), lot) = Used(Against(Linked(d), lot))
<1> DEFINE D == LinkedDraws(d)
<1>1. D = {DrawOf(p) : p \in Pairs(d)}
  BY DEF LinkedDraws, Pairs, DrawOf
<1>2. \A p \in Pairs(d) : /\ p[1] \in d.links /\ p[2] \in d.entries /\ p[1][2] = p[2].id
                          /\ DrawOf(p).stay = p[1][1] /\ DrawOf(p).lot = LotOf(p[2])
  BY DEF Pairs, DrawOf
<1>3. \A l \in d.links : \A e \in d.entries :
        l[2] = e.id => <<l, e>> \in Pairs(d) /\ <<l, e>>[1] = l /\ <<l, e>>[2] = e
  BY DEF Pairs
<1>4. IsFiniteSet(D)
  BY <1>1, PairSums
<1>5. ASSUME NEW s
      PROVE  Ledger!Charged(D, s) = Paid(d, s)
  <2> DEFINE P == {p \in Pairs(d) : p[1][1] = s}
  <2>1. {x \in D : x.stay = s} = {DrawOf(p) : p \in P}
    BY <1>1, <1>2
  <2>2. {e \in d.entries : e.id \in LinkedTo(d, s)} = {p[2] : p \in P}
    <3>1. ASSUME NEW e \in d.entries, e.id \in LinkedTo(d, s)
          PROVE  \E p \in P : e = p[2]
      <4>1. PICK l \in d.links : l[1] = s /\ l[2] = e.id
        BY <3>1 DEF LinkedTo
      <4>2. <<l, e>> \in P /\ <<l, e>>[2] = e
        BY <1>3, <4>1
      <4>3. QED
        BY <4>2
    <3>2. \A p \in P : p[2] \in d.entries /\ p[2].id \in LinkedTo(d, s)
      BY <1>2 DEF LinkedTo
    <3> HIDE DEF P
    <3>3. QED
      BY <3>1, <3>2
  <2>3. P \in SUBSET Pairs(d)
    OBVIOUS
  <2> HIDE DEF P, D
  <2>4. Ledger!Points({DrawOf(p) : p \in P}) = Used({p[2] : p \in P})
    BY <2>3, PairSums
  <2>5. QED
    BY <2>1, <2>2, <2>4 DEF Ledger!Charged, Paid
<1>6. ASSUME NEW lot
      PROVE  Ledger!Spent(D, lot) = Used(Against(Linked(d), lot))
  <2> DEFINE P == {p \in Pairs(d) : LotOf(p[2]) = lot}
  <2>1. {x \in D : x.lot = lot} = {DrawOf(p) : p \in P}
    BY <1>1, <1>2
  <2>2. Against(Linked(d), lot) = {p[2] : p \in P}
    <3>1. ASSUME NEW e \in Against(Linked(d), lot)
          PROVE  \E p \in P : e = p[2]
      <4>1. PICK l \in d.links : l[2] = e.id
        BY DEF Against, Linked
      <4>2. <<l, e>> \in P /\ <<l, e>>[2] = e
        BY <1>3, <4>1 DEF Against, Linked
      <4>3. QED
        BY <4>2
    <3>2. \A p \in P : p[2] \in Against(Linked(d), lot)
      BY <1>2 DEF Against, Linked
    <3> HIDE DEF P
    <3>3. QED
      BY <3>1, <3>2
  <2>3. P \in SUBSET Pairs(d)
    OBVIOUS
  <2> HIDE DEF P, D
  <2>4. Ledger!Points({DrawOf(p) : p \in P}) = Used({p[2] : p \in P})
    BY <2>3, PairSums
  <2>5. QED
    BY <2>1, <2>2, <2>4 DEF Ledger!Spent
<1>7. QED
  BY <1>1, <1>4, <1>5, <1>6

\* What a lot has room for and what is spent of it.
LEMMA SpentInRoom ==
  ASSUME NEW d \in DB, Consistent(d), IsFiniteSet(d.entries), InTheBlack(d),
         NEW lot \in LotsIn(d)
  PROVE  /\ RoomIn(d)[lot] \in Nat
         /\ Ledger!Spent(LinkedDraws(d), lot) <= RoomIn(d)[lot]
<1> DEFINE A == Against(LotRows(d), lot)
           L == Against(Linked(d), lot)
           U == Against(Unlinked(d), lot)
<1>1. /\ L \in SUBSET d.entries /\ U \in SUBSET d.entries /\ A \in SUBSET d.entries
      /\ d.entries \in SUBSET Entry
      /\ L \cap U = {} /\ Against(d.entries \cup {}, lot) = L \cup U
  BY DEF Against, Linked, Unlinked, LotRows, DB
<1>2. RoomIn(d)[lot] = Allotted(A) - Used(U)
  BY DEF RoomIn
<1>3. Allotted(A) - Used(L \cup U) >= 0
  BY <1>1 DEF InTheBlack, Balance
<1>4. Ledger!Spent(LinkedDraws(d), lot) = Used(L)
  BY MappedSums
<1> HIDE DEF A, L, U
<1>5. /\ L \in SUBSET Entry /\ U \in SUBSET Entry /\ A \in SUBSET Entry
      /\ IsFiniteSet(L) /\ IsFiniteSet(U) /\ IsFiniteSet(A)
  BY <1>1, FS_Subset
<1>6. Used(L \cup U) = Used(L) + Used(U)
  BY <1>1, <1>5, UsedInTwo
<1>7. Used(L) \in Nat /\ Used(U) \in Nat /\ Allotted(A) \in Nat
  BY <1>5, RowSumType
<1>8. QED
  BY <1>2, <1>3, <1>4, <1>6, <1>7

-----------------------------------------------------------------------------
(* Then what the steps rely on, for requests that book, unbook and add     *)
(* stays.  A deletion of a trip or a stay strands usage (see               *)
(* BookingStranded.cfg) and is no step of TripLedger.                      *)

BookJobs == \A j \in Jobs : j.op \in {"book", "unbook", "addStay"}

AllSettled == \A d \in Databases : Settled(d)

\* Whatever is being unbooked was committed and is linked; and it is all the
\* entries of a stay or none, of stays of the one trip.
GoneWhole(q) ==
  /\ \A i \in tx[q].gone : i[1] \in Requests => pc[i[1]] = "ok"
  /\ \A e \in db.entries : e.id \in tx[q].gone => \E l \in db.links : l[2] = e.id
  /\ \A k, l \in db.links : k[1] = l[1] /\ k[2] \in tx[q].gone => l[2] \in tx[q].gone
  /\ \A l \in db.links : l[2] \in tx[q].gone => TripOf[l[1]] = job[q].trip

\* A booking takes something from each lot it draws from, and draws from lots
\* its snapshot shows.
RowsReal(r) ==
  Underway(r) => \A e \in tx[r].rows : e.used > 0 /\ LotOf(e) \in LotsIn(tx[r].snap)

LedgerInv ==
  /\ MoneyInv /\ ChargeInv
  /\ db.stays \subseteq issued.stays
  /\ \A r \in Requests : GoneWhole(r) /\ RowsReal(r)

\* Apart from the commit of a booking, a step takes away some entries with
\* their links, or nothing: those that are being unbooked.
LEMMA BookTables ==
  ASSUME BookJobs, LedgerInv, NEW r \in Requests, Step(r) \/ Abort(r),
         ~(BookCommit(r) /\ ~LostRace(r))
  PROVE  /\ \E ids \in {{}, tx[r].gone} :
              /\ db'.entries = {e \in db.entries : e.id \notin ids}
              /\ db'.links = {l \in db.links : l[2] \notin ids}
         /\ db' = db \/ AddStay(r) \/ DeleteCommit(r)
         /\ DeleteCommit(r) => db' = Without(db, tx[r].gone, {}, {})
<1>1. OpInv /\ TypeInv /\ db \in DB /\ job[r] \in Jobs
  BY DEF LedgerInv, MoneyInv, PaidInv, OpInv, TypeInv, TypeOK
<1>2. db' = db \/ AddStay(r) \/ DeleteCommit(r)
  <2>1. Underway(r)' => db' = db
    BY <1>1, OpenSteps
  <2>2. DeleteEntries(r) \/ Ends(r) \/ Still(r) => db' = db
    BY DEF DeleteEntries, Ends, Still
  <2>3. TripJobs
    BY DEF BookJobs, TripJobs
  <2>4. QED
    BY <1>1, <2>1, <2>2, <2>3, TripStep
<1>3. AddStay(r) => db'.entries = db.entries /\ db'.links = db.links
  BY <1>1 DEF AddStay, DB
<1>4. CASE DeleteCommit(r)
  <2>1. job[r].op = "unbook"
    BY <1>1, <1>4 DEF DeleteCommit, OpInv, Doing, BookJobs, Deletes
  <2>2. db' = Without(db, tx[r].gone, {}, {})
    BY <1>4, <2>1 DEF DeleteCommit, DeletedStays, DeletedTrips
  <2>3. /\ db'.entries = {e \in db.entries : e.id \notin tx[r].gone}
        /\ db'.links = {l \in db.links : l[2] \notin tx[r].gone}
    BY <1>1, <2>2 DEF Without, DB
  <2>4. QED
    BY <1>2, <2>2, <2>3
<1>5. CASE ~DeleteCommit(r)
  <2>1. db'.entries = db.entries /\ db'.links = db.links
    BY <1>2, <1>3, <1>5
  <2>2. /\ db'.entries = {e \in db.entries : e.id \notin {}}
        /\ db'.links = {l \in db.links : l[2] \notin {}}
    BY <2>1
  <2>3. QED
    BY <1>2, <1>5, <2>2
<1>6. QED
  BY <1>4, <1>5

\* The rows of one stay draw something each, from lots of the snapshot.
LEMMA RowsOfLots ==
  ASSUME TypeInv, NEW r \in Requests, NEW s \in Stays, NEW rows, Inserts(r, s, rows)
  PROVE  \A e \in rows : e.used > 0 /\ LotOf(e) \in LotsIn(tx[r].snap)
<1> DEFINE left == Left(tx[r].snap, tx[r].rows)
<1>1. /\ tx[r].snap \in DB /\ IsFiniteSet(tx[r].snap.entries)
      /\ tx[r].rows \in SUBSET Entry /\ IsFiniteSet(tx[r].rows)
  BY DEF TypeInv, TypeOK, Finite, Tx
<1>2. /\ DOMAIN left = LotsIn(tx[r].snap)
      /\ \A lot \in LotsIn(tx[r].snap) : left[lot] = Balance(tx[r].snap, tx[r].rows, lot)
  BY DEF Left
<1>3. LotsIn(tx[r].snap) \subseteq Lot /\ IsFiniteSet(LotsIn(tx[r].snap))
  BY <1>1, LotsType
<1>4. \A lot \in LotsIn(tx[r].snap) : Balance(tx[r].snap, tx[r].rows, lot) \in Int
  BY <1>1, BalanceType
<1>5. Price[s] \in Int
  BY RowsAssumption
<1>6. Draws(r, s) = AllocateStayPoints(MonthsIn(tx[r].snap), left, CheckIn[s], Price[s])
  BY DEF Draws
<1> HIDE DEF left
<1>7. \A draw \in Draws(r, s) : draw.lot \in LotsIn(tx[r].snap) /\ draw.points \in Nat \ {0}
  BY <1>2, <1>3, <1>4, <1>5, <1>6, DrawsWithinLots
<1>8. rows = {UsageRow(r, s, draw) : draw \in Draws(r, s)}
  BY DEF Inserts
<1>9. \A draw \in Draws(r, s) :
        LotOf(UsageRow(r, s, draw)) = draw.lot /\ UsageRow(r, s, draw).used = draw.points
  BY <1>3, <1>7 DEF LotOf, UsageRow, Lot
<1>10. QED
  BY <1>7, <1>8, <1>9

\* What a step does to the entries a request is unbooking.
LEMMA GoneKept ==
  ASSUME BookJobs, LedgerInv, NEW r \in Requests, Step(r) \/ Abort(r), ~DeleteEntries(r),
         NEW q \in Requests
  PROVE  tx'[q].gone = tx[q].gone \/ tx'[q].gone = {}
<1>1. OpInv /\ TypeInv /\ LinkInv /\ Moves(r) /\ tx \in [Requests -> Tx]
  BY StepMoves DEF LedgerInv, MoneyInv, PaidInv, OpInv, TypeInv, TypeOK
<1>2. NoTx.gone = {}
  BY DEF NoTx
<1>3. CASE q # r
  BY <1>1, <1>3 DEF Moves
<1>4. CASE q = r
  <2>1. CASE Underway(r)'
    <3>1. Begins(r) \/ LocksOn(r) \/ \E s \in Stays : \E rows \in SUBSET Entry : Inserts(r, s, rows)
      BY <1>1, <2>1, OpenSteps
    <3>2. QED
      BY <1>1, <1>4, <3>1 DEF Begins, LocksOn, SameTx, Inserts, Tx
  <2>2. CASE ~Underway(r)'
    <3>1. BookCommit(r) /\ ~LostRace(r) => tx'[r] = NoTx
      BY <1>1, CommitMoves
    <3>2. DeleteCommit(r) \/ AddStay(r) \/ Ends(r) => tx'[r] = NoTx
      BY <1>1 DEF DeleteCommit, AddStay, Ends, Answer
    <3>3. TripJobs
      BY DEF BookJobs, TripJobs
    <3>4. CASE Still(r)
      BY <1>4, <3>4 DEF Still
    <3>5. QED
      BY <1>1, <1>2, <1>4, <2>2, <3>1, <3>2, <3>3, <3>4, TripStep
  <2>3. QED
    BY <2>1, <2>2
<1>5. QED
  BY <1>3, <1>4

\* The commit of a booking links only its own rows, to stays that had none,
\* and no request is unbooking any of them.
LEMMA CommitLinks ==
  ASSUME LedgerInv, NEW r \in Requests, BookCommit(r), ~LostRace(r)
  PROVE  /\ \A l \in tx[r].links :
              /\ l[2][1] = r /\ l[1] \in db.stays /\ TripOf[l[1]] = job[r].trip
              /\ \A k \in db.links : k[1] # l[1] /\ k[2] # l[2]
              /\ \A e \in db.entries : e.id # l[2]
              /\ \A q \in Requests : l[2] \notin tx[q].gone
         /\ \A e \in tx[r].rows : /\ e.id[1] = r /\ <<e.id[2], e.id>> \in tx[r].links
                                  /\ e \notin db.entries
                                  /\ \A k \in db.links : k[2] # e.id
<1>1. /\ LinkInv /\ TxInv /\ FailureLeavesNothing /\ LinksExist(db)
      /\ LinksKnown(r) /\ StaysPaid(r)
  BY DEF LedgerInv, MoneyInv, ChargeInv, PaidInv, LinkInv, LinkIntegrity, Consistent
<1>2. pc[r] = "fund" /\ Underway(r) /\ pc[r] # "ok"
  BY DEF BookCommit, Underway
<1>3. \A e \in db.entries : e.id[1] # r
  BY <1>1, <1>2 DEF FailureLeavesNothing
<1>4. \A k \in db.links : k[2][1] # r
  BY <1>1, <1>3 DEF LinksExist
<1>5. \A e \in tx[r].rows : e.id[1] = r /\ <<e.id[2], e.id>> \in tx[r].links
  BY <1>1, <1>2 DEF TxInv, TxOrder, OwnRows
<1>6. ASSUME NEW l \in tx[r].links
      PROVE  /\ l[2][1] = r /\ l[1] \in db.stays /\ TripOf[l[1]] = job[r].trip
             /\ \A k \in db.links : k[1] # l[1] /\ k[2] # l[2]
             /\ \A e \in db.entries : e.id # l[2]
             /\ \A q \in Requests : l[2] \notin tx[q].gone
  <2>1. l[2][1] = r /\ l[1] \in db.stays
    BY <1>1, <1>2, <1>6, OwnIds
  <2>2. l[1] \in Unbooked(tx[r].snap, job[r].trip)
    BY <1>1, <1>2 DEF StaysPaid, Reached
  <2>3. TripOf[l[1]] = job[r].trip /\ LinkedTo(tx[r].snap, l[1]) = {}
    BY <2>2 DEF Unbooked, StaysOf, Booked
  <2>4. ~tx[r].overtaken
    <3>1. tx[r].rows # {}
      BY <1>1, <1>2 DEF TxInv, TxOrder, OwnLinks
    <3>2. QED
      BY <3>1 DEF LostRace
  <2>5. \A k \in db.links : k[1] # l[1]
    BY <1>1, <1>2, <2>3, <2>4 DEF LinksKnown, LinkedTo
  <2>6. \A q \in Requests : l[2] \notin tx[q].gone
    BY <1>2, <2>1 DEF LedgerInv, GoneWhole
  <2>7. QED
    BY <1>3, <1>4, <2>1, <2>3, <2>5, <2>6
<1>7. QED
  BY <1>3, <1>4, <1>5, <1>6

\* What a request is unbooking stays whole.
LEMMA GoneNext ==
  ASSUME BookJobs, LedgerInv, NEW r \in Requests, Step(r) \/ Abort(r), NEW q \in Requests
  PROVE  GoneWhole(q)'
<1>1. /\ OpInv /\ TypeInv /\ LinkInv /\ Moves(r) /\ job' = job
      /\ tx \in [Requests -> Tx] /\ GoneWhole(q)
      /\ LinksExist(db) /\ LinksUnique(db) /\ FailureLeavesNothing
  BY StepMoves, StepDoing
     DEF LedgerInv, MoneyInv, PaidInv, OpInv, TypeInv, TypeOK, LinkInv, LinkIntegrity, Consistent
<1>2. \A p \in Requests : pc[p] = "ok" => pc'[p] = "ok"
  BY <1>1 DEF Moves, Answers
<1>3. CASE DeleteEntries(r) /\ q = r
  <2> DEFINE ids == EntryIdsOf(db, {s \in db.stays : Named(job[r], s)})
  <2>1. UNCHANGED db /\ tx' = [tx EXCEPT ![r].gone = ids] /\ job[r].op \in Deletes
    BY <1>3 DEF DeleteEntries
  <2>2. job[r] \in Jobs
    BY <1>1 DEF TypeInv, TypeOK
  <2>3. \A s : Named(job[r], s) <=> TripOf[s] = job[r].trip
    BY <2>1, <2>2 DEF Named, BookJobs, Deletes
  <2>4. \A i \in ids : \E l \in db.links : l[2] = i /\ TripOf[l[1]] = job[r].trip
    BY <2>3 DEF EntryIdsOf
  <2>5. \A l \in db.links : TripOf[l[1]] = job[r].trip => l[2] \in ids
    BY <1>1, <2>3 DEF EntryIdsOf, LinksExist
  <2> HIDE DEF ids
  <2>6. tx'[r].gone = ids
    BY <1>1, <2>1 DEF Tx
  <2>7. \A i \in ids : i[1] \in Requests => pc[i[1]] = "ok"
    BY <1>1, <2>4 DEF LinksExist, FailureLeavesNothing
  <2>8. \A l \in db.links : l[2] \in ids => TripOf[l[1]] = job[r].trip
    BY <1>1, <2>4 DEF LinksUnique
  <2>9. QED
    BY <1>1, <1>2, <1>3, <2>1, <2>4, <2>5, <2>6, <2>7, <2>8 DEF GoneWhole
<1>4. CASE tx'[q].gone = {}
  BY <1>4 DEF GoneWhole
<1>5. CASE ~(DeleteEntries(r) /\ q = r) /\ tx'[q].gone = tx[q].gone
  <2>1. \A i \in tx[q].gone : i[1] \in Requests => pc'[i[1]] = "ok"
    BY <1>1, <1>2 DEF GoneWhole
  <2>2. CASE BookCommit(r) /\ ~LostRace(r)
    <3>1. db'.entries = db.entries \cup tx[r].rows /\ db'.links = db.links \cup tx[r].links
      BY <1>1, <2>2, CommitWrites
    <3>2. /\ \A l \in tx[r].links :
               l[2] \notin tx[q].gone /\ \A k \in db.links : k[1] # l[1]
          /\ \A e \in tx[r].rows : <<e.id[2], e.id>> \in tx[r].links
      BY <2>2, CommitLinks
    <3>3. \A e \in tx[r].rows : <<e.id[2], e.id>>[2] = e.id
      OBVIOUS
    <3>4. QED
      BY <1>1, <1>5, <2>1, <3>1, <3>2, <3>3 DEF GoneWhole
  <2>3. CASE ~(BookCommit(r) /\ ~LostRace(r))
    <3>1. PICK ids \in {{}, tx[r].gone} :
            /\ db'.entries = {e \in db.entries : e.id \notin ids}
            /\ db'.links = {l \in db.links : l[2] \notin ids}
      BY <2>3, BookTables
    <3>2. QED
      BY <1>1, <1>5, <2>1, <3>1 DEF GoneWhole
  <2>4. QED
    BY <2>2, <2>3
<1>6. QED
  <2>1. CASE ~DeleteEntries(r)
    BY <1>4, <1>5, <2>1, GoneKept
  <2>2. CASE DeleteEntries(r) /\ q # r
    BY <1>1, <1>5, <2>2 DEF Moves
  <2>3. QED
    BY <1>3, <2>1, <2>2

\* Bookings go on drawing from lots there are, and something from each.
LEMMA RealNext ==
  ASSUME LedgerInv, NEW r \in Requests, Step(r) \/ Abort(r), NEW q \in Requests
  PROVE  RowsReal(q)'
<1>1. TypeInv /\ PaidInv /\ Moves(r) /\ TxInv /\ RowsReal(q) /\ tx \in [Requests -> Tx]
  BY StepMoves DEF LedgerInv, MoneyInv, PaidInv, OpInv, TypeInv, TypeOK, LinkInv
<1>2. CASE q # r
  BY <1>1, <1>2 DEF Moves, RowsReal, Underway
<1>3. CASE q = r
  <2>1. SUFFICES ASSUME Underway(r)'
                 PROVE  \A e \in tx'[r].rows : e.used > 0 /\ LotOf(e) \in LotsIn(tx'[r].snap)
    BY <1>3 DEF RowsReal
  <2>2. Begins(r) \/ LocksOn(r) \/ \E s \in Stays : \E rows \in SUBSET Entry : Inserts(r, s, rows)
    BY <1>1, <2>1, OpenSteps
  <2>3. CASE Begins(r) \/ LocksOn(r)
    <3>1. tx'[r].rows = {}
      BY <1>1, <2>3, NothingReached DEF Begins, LocksOn, SameTx, Tx
    <3>2. QED
      BY <3>1
  <2>4. ASSUME NEW s \in Stays, NEW rows \in SUBSET Entry, Inserts(r, s, rows)
        PROVE  \A e \in tx'[r].rows : e.used > 0 /\ LotOf(e) \in LotsIn(tx'[r].snap)
    <3>1. tx'[r].snap = tx[r].snap /\ tx'[r].rows = tx[r].rows \cup rows
      BY <1>1, <2>4, InsertPays
    <3>2. \A e \in rows : e.used > 0 /\ LotOf(e) \in LotsIn(tx[r].snap)
      BY <1>1, <2>4, RowsOfLots
    <3>3. Underway(r)
      BY <2>4 DEF Inserts, Underway
    <3>4. QED
      BY <1>1, <1>3, <3>1, <3>2, <3>3 DEF RowsReal
  <2>5. QED
    BY <2>2, <2>3, <2>4
<1>4. QED
  BY <1>2, <1>3

\* Every step keeps all of it.
LEMMA LedgerNext == BookJobs /\ LedgerInv /\ [Next]_vars => LedgerInv'
<1>1. SUFFICES ASSUME BookJobs, LedgerInv, [Next]_vars
               PROVE  LedgerInv'
  OBVIOUS
<1>2. MoneyInv' /\ ChargeInv'
  <2>1. TripJobs /\ NothingImported
    BY <1>1, NoneImported
       DEF BookJobs, TripJobs, NoImports, LedgerInv, ChargeInv, PaidInv, LinkInv, LockInv, TypeInv
  <2>2. QED
    BY <1>1, <2>1, MoneyNext, ChargeNext DEF LedgerInv
<1>3. CASE UNCHANGED vars
  BY <1>1, <1>2, <1>3 DEF vars, LedgerInv, GoneWhole, RowsReal, Underway
<1>4. ASSUME NEW r \in Requests, Step(r) \/ Abort(r)
      PROVE  LedgerInv'
  <2>1. \A q \in Requests : GoneWhole(q)' /\ RowsReal(q)'
    BY <1>1, <1>4, GoneNext, RealNext
  <2>2. db'.stays \subseteq issued'.stays
    <3>1. /\ OpInv /\ LinkInv /\ db \in DB /\ db.stays \subseteq issued.stays
          /\ issued \in [trips : SUBSET Trips, stays : SUBSET Stays]
      BY <1>1 DEF LedgerInv, MoneyInv, PaidInv, OpInv, TypeInv, TypeOK
    <3>2. CASE AddStay(r)
      BY <3>1, <3>2 DEF AddStay, DB
    <3>3. CASE ~AddStay(r)
      <4>1. issued' = issued
        <5>1. TripJobs
          BY <1>1 DEF BookJobs, TripJobs
        <5>2. DeleteEntries(r) \/ DeleteCommit(r) \/ BookCommit(r) \/ Ends(r) \/ Still(r)
                => issued' = issued
          BY DEF DeleteEntries, DeleteCommit, BookCommit, Ends, Still
        <5>3. QED
          BY <1>4, <3>1, <3>3, <5>1, <5>2, TripStep
      <4>2. db'.stays \subseteq db.stays
        <5>1. CASE BookCommit(r) /\ ~LostRace(r)
          BY <3>1, <5>1, CommitWrites
        <5>2. CASE ~(BookCommit(r) /\ ~LostRace(r))
          <6>1. db' = db \/ db' = Without(db, tx[r].gone, {}, {})
            BY <1>1, <1>4, <3>3, <5>2, BookTables
          <6>2. Without(db, tx[r].gone, {}, {}).stays = db.stays \ {}
            BY <3>1 DEF Without, DB
          <6>3. QED
            BY <6>1, <6>2
        <5>3. QED
          BY <5>1, <5>2
      <4>3. QED
        BY <3>1, <4>1, <4>2
    <3>4. QED
      BY <3>2, <3>3
  <2>3. QED
    BY <1>2, <2>1, <2>2 DEF LedgerInv
<1>5. QED
  BY <1>1, <1>3, <1>4 DEF Next, Idle

\* It holds at first.
LEMMA LedgerInit == AllSolvent /\ Init => LedgerInv
<1>1. SUFFICES ASSUME AllSolvent, Init
               PROVE  LedgerInv
  OBVIOUS
<1>2. MoneyInv /\ PaidInv
  BY <1>1, MoneyInit, PaidInit
<1>3. \A r \in Requests : tx[r] = NoTx /\ pc[r] = "start" /\ NoTx.gone = {}
  BY <1>1 DEF Init, NoTx
<1>4. ChargeInv /\ \A r \in Requests : GoneWhole(r) /\ RowsReal(r)
  BY <1>2, <1>3 DEF ChargeInv, LinksKnown, GoneWhole, RowsReal, Underway
<1>5. db.stays \subseteq issued.stays
  BY <1>1 DEF Init
<1>6. QED
  BY <1>2, <1>4, <1>5 DEF LedgerInv

-----------------------------------------------------------------------------
(* The steps, one by one. *)

\* The tables, before and after a step.
LEMMA TablesSound ==
  ASSUME LedgerInv, LedgerInv'
  PROVE  /\ db \in DB /\ Consistent(db) /\ IsFiniteSet(db.entries) /\ InTheBlack(db)
         /\ db' \in DB /\ Consistent(db') /\ IsFiniteSet(db'.entries) /\ InTheBlack(db')
<1>1. db \in DB /\ Consistent(db) /\ IsFiniteSet(db.entries) /\ InTheBlack(db)
  BY DEF LedgerInv, MoneyInv, PaidInv, LinkInv, LinkIntegrity, LockInv, TypeInv, TypeOK,
         Finite
<1>2. db' \in DB /\ Consistent(db') /\ IsFiniteSet(db'.entries) /\ InTheBlack(db')
  BY DEF LedgerInv, MoneyInv, PaidInv, LinkInv, LinkIntegrity, LockInv, TypeInv, TypeOK,
         Finite
<1>3. QED
  BY <1>1, <1>2

\* The rooms depend on the lots and on the usage that is not linked.
LEMMA SameRooms ==
  ASSUME LotRows(db') = LotRows(db), Unlinked(db') = Unlinked(db)
  PROVE  RoomIn(db') = RoomIn(db)
BY DEF RoomIn, LotsIn

(***************************************************************************)
(* The commit of a booking that inserted anything books its stays.         *)
(***************************************************************************)
LEMMA CommitIsBook ==
  ASSUME BookJobs, LedgerInv, LedgerInv', [Next]_vars,
         NEW r \in Requests, BookCommit(r), ~LostRace(r), tx[r].rows # {}
  PROVE  Ledger!Book
<1> DEFINE old == LinkedDraws(db)
           all == LinkedDraws(db')
           new == all \ old
<1>1. /\ PaidInv /\ LinkInv /\ TxInv /\ UsageOnly /\ Funds(r) /\ RowsReal(r)
      /\ pc[r] = "fund" /\ Underway(r) /\ NothingImported /\ TripJobs /\ ChargeInv
      /\ LinksExist(db)
  <2>1. TypeOK
    BY DEF LedgerInv, ChargeInv, PaidInv, LinkInv, LockInv, TypeInv
  <2>2. NothingImported
    BY <2>1, NoneImported DEF BookJobs, NoImports
  <2>3. QED
    BY <2>2 DEF LedgerInv, MoneyInv, PaidInv, LinkInv, LinkIntegrity, Consistent, BookCommit,
                Underway, BookJobs, TripJobs
<1>2. /\ db \in DB /\ Consistent(db) /\ IsFiniteSet(db.entries)
      /\ db' \in DB /\ Consistent(db') /\ IsFiniteSet(db'.entries) /\ InTheBlack(db')
  BY TablesSound
<1>3. /\ db'.entries = db.entries \cup tx[r].rows /\ db'.links = db.links \cup tx[r].links
      /\ db'.stays = db.stays
  BY <1>1, CommitWrites
<1>4. /\ \A l \in tx[r].links :
           /\ l[2][1] = r /\ l[1] \in db.stays /\ TripOf[l[1]] = job[r].trip
           /\ \A k \in db.links : k[1] # l[1] /\ k[2] # l[2]
           /\ \A e \in db.entries : e.id # l[2]
      /\ \A e \in tx[r].rows : /\ e.id[1] = r /\ <<e.id[2], e.id>> \in tx[r].links
                               /\ e \notin db.entries
                               /\ \A k \in db.links : k[2] # e.id
  BY CommitLinks
<1>5. /\ old = {DrawOf(p) : p \in Pairs(db)} /\ all = {DrawOf(p) : p \in Pairs(db')}
      /\ IsFiniteSet(all)
  BY <1>2, MappedSums
<1>6. old \subseteq all
  <2>1. Pairs(db) \subseteq Pairs(db')
    BY <1>3 DEF Pairs
  <2>2. QED
    BY <1>5, <2>1
<1>7. \A p \in Pairs(db') : p \in Pairs(db) \/ (p[1] \in tx[r].links /\ p[2] \in tx[r].rows)
  BY <1>3, <1>4 DEF Pairs
<1>8. ASSUME NEW x \in new
      PROVE  /\ x.stay \in db.stays /\ TripOf[x.stay] = job[r].trip
             /\ x.lot \in LotsIn(db) /\ x.points \in Nat \ {0}
             /\ \A k \in db.links : k[1] # x.stay
             /\ x.stay \in Stays
             /\ \E l \in tx[r].links : l[1] = x.stay
  <2>1. PICK p \in Pairs(db') : x = DrawOf(p)
    BY <1>5
  <2>2. p \notin Pairs(db)
    BY <1>5, <2>1
  <2>3. p[1] \in tx[r].links /\ p[2] \in tx[r].rows
    BY <1>7, <2>2
  <2>4. x.stay = p[1][1] /\ x.lot = LotOf(p[2]) /\ x.points = p[2].used
    BY <2>1 DEF DrawOf
  <2>5. p[2].used > 0 /\ LotOf(p[2]) \in LotsIn(tx[r].snap)
    BY <1>1, <2>3 DEF RowsReal
  <2>6. p[2].used \in Nat
    BY <1>2, <1>3, <2>3 DEF DB, Entry
  <2>7. LotsIn(tx[r].snap) = LotsIn(db)
    BY <1>1 DEF Funds, LotsIn
  <2>8. db.stays \subseteq Stays
    BY <1>2 DEF DB
  <2>9. QED
    BY <1>4, <2>3, <2>4, <2>5, <2>6, <2>7, <2>8
<1>9. new # {}
  <2>1. PICK e \in tx[r].rows : TRUE
    OBVIOUS
  <2> DEFINE l == <<e.id[2], e.id>>
             p == <<l, e>>
  <2>2. p \in Pairs(db')
    BY <1>3, <1>4 DEF Pairs
  <2>3. DrawOf(p).id = e.id
    BY DEF DrawOf
  <2>4. \A q \in Pairs(db) : DrawOf(q).id # e.id
    BY <1>4 DEF Pairs, DrawOf
  <2> HIDE DEF p
  <2>5. DrawOf(p) \in all /\ DrawOf(p) \notin old
    BY <1>5, <2>2, <2>3, <2>4
  <2>6. QED
    BY <2>5
<1>10. IsFiniteSet(new)
  BY <1>5, FS_Subset
<1>11. \A x \in old : \E k \in db.links : k[1] = x.stay
  BY <1>5 DEF Pairs, DrawOf
<1>12. ASSUME NEW x \in new
       PROVE  Ledger!Charged(new, x.stay) = Price[x.stay]
  <2>1. {y \in new : y.stay = x.stay} = {y \in all : y.stay = x.stay}
    BY <1>8, <1>11
  <2>2. Ledger!Charged(new, x.stay) = Ledger!Charged(all, x.stay)
    BY <2>1 DEF Ledger!Charged
  <2>3. Ledger!Charged(all, x.stay) = Paid(db', x.stay)
    BY <1>2, MappedSums
  <2>4. PICK l \in tx[r].links : l[1] = x.stay
    BY <1>8
  <2>5. l[2] \in LinkedTo(db', x.stay) /\ l[2] \notin LinkedTo(db, x.stay)
    BY <1>3, <1>8, <2>4 DEF LinkedTo
  <2>6. Paid(db', x.stay) = Price[x.stay]
    BY <1>1, <1>8, <2>5, ChargedOnce
  <2>7. QED
    BY <2>2, <2>3, <2>6
<1>13. RoomIn(db') = RoomIn(db)
  <2>1. LotRows(db') = LotRows(db)
    BY <1>1, TripTables DEF Step
  <2>2. Unlinked(db') = Unlinked(db)
    <3>1. \A e \in tx[r].rows : <<e.id[2], e.id>> \in tx[r].links /\ <<e.id[2], e.id>>[2] = e.id
      BY <1>4
    <3>2. QED
      BY <1>3, <1>4, <3>1 DEF Unlinked
  <2>3. QED
    BY <2>1, <2>2, SameRooms
<1>14. \A lot \in DOMAIN RoomIn(db) : Ledger!Spent(all, lot) <= RoomIn(db)[lot]
  <2>1. DOMAIN RoomIn(db) = LotsIn(db')
    BY <1>13 DEF RoomIn
  <2>2. QED
    BY <1>2, <1>13, <2>1, SpentInRoom
<1>15. \A x \in new : x.stay \in db.stays /\ x.lot \in DOMAIN RoomIn(db) /\ x.points \in Nat \ {0}
  BY <1>8 DEF RoomIn
<1>16. \A x \in new : \A y \in old : x.stay # y.stay
  BY <1>8, <1>11
<1>17. /\ old \subseteq all /\ new # {} /\ IsFiniteSet(new)
       /\ \A x \in new : x.stay \in db.stays /\ x.lot \in DOMAIN RoomIn(db) /\ x.points \in Nat \ {0}
       /\ \A x, y \in new : TripOf[x.stay] = TripOf[y.stay]
       /\ \A x \in new : \A y \in old : x.stay # y.stay
       /\ \A x \in new : Ledger!Charged(new, x.stay) = Price[x.stay]
       /\ \A lot \in DOMAIN RoomIn(db) : Ledger!Spent(all, lot) <= RoomIn(db)[lot]
       /\ db'.stays = db.stays /\ RoomIn(db') = RoomIn(db)
  BY <1>3, <1>6, <1>8, <1>9, <1>10, <1>12, <1>13, <1>14, <1>15, <1>16
<1> HIDE DEF old, all
<1>18. Ledger!OneTrip(Ledger!PaidFor(new))
  BY <1>17 DEF Ledger!OneTrip, Ledger!PaidFor
<1>19. Ledger!PaidFor(new) \cap Ledger!PaidFor(old) = {}
  BY <1>17 DEF Ledger!PaidFor
<1>20. Ledger!InFull(new) /\ Ledger!WithinRoom(all)
  BY <1>17 DEF Ledger!InFull, Ledger!PaidFor, Ledger!WithinRoom
<1>21. QED
  BY <1>17, <1>18, <1>19, <1>20, SameSums DEF Ledger!Book, old, all

(***************************************************************************)
(* The second statement of an unbooking unbooks its stays: all the entries *)
(* of each go, and with them their links.                                  *)
(***************************************************************************)
LEMMA DeleteIsUnbook ==
  ASSUME BookJobs, LedgerInv, LedgerInv', NEW r \in Requests, DeleteCommit(r)
  PROVE  Ledger!Unbook
<1> DEFINE gone == tx[r].gone
           S == {l[1] : l \in {k \in db.links : k[2] \in gone}}
           old == LinkedDraws(db)
           rest == LinkedDraws(db')
<1>1. /\ PaidInv /\ UsageOnly /\ Funds(r) /\ GoneWhole(r) /\ TripJobs /\ LinksExist(db)
      /\ pc[r] \in {"deleting", "cascading"} /\ Step(r)
  BY DEF LedgerInv, MoneyInv, PaidInv, LinkInv, LinkIntegrity, Consistent, DeleteCommit, Step,
         BookJobs, TripJobs
<1>2. /\ db \in DB /\ Consistent(db) /\ IsFiniteSet(db.entries)
      /\ db' \in DB /\ Consistent(db') /\ IsFiniteSet(db'.entries)
  BY TablesSound
<1>3. ~BookCommit(r)
  BY <1>1 DEF BookCommit
<1>4. /\ db'.entries = {e \in db.entries : e.id \notin gone}
      /\ db'.links = {l \in db.links : l[2] \notin gone}
      /\ db'.stays = db.stays
  <2>1. db' = Without(db, gone, {}, {})
    BY <1>1, <1>3, BookTables
  <2>2. QED
    BY <1>2, <2>1 DEF Without, DB
<1>5. /\ old = {DrawOf(p) : p \in Pairs(db)} /\ rest = {DrawOf(p) : p \in Pairs(db')}
  BY <1>2, MappedSums
<1>6. \A p : p \in Pairs(db') <=> p \in Pairs(db) /\ p[2].id \notin gone
  BY <1>4 DEF Pairs
<1>7. \A p \in Pairs(db) : DrawOf(p).stay \in S <=> p[2].id \in gone
  <2>1. SUFFICES ASSUME NEW p \in Pairs(db)
                 PROVE  p[1][1] \in S <=> p[2].id \in gone
    BY DEF DrawOf
  <2>2. p[1] \in db.links /\ p[1][2] = p[2].id
    BY DEF Pairs
  <2>3. p[2].id \in gone => p[1][1] \in S
    BY <2>2
  <2>4. ASSUME p[1][1] \in S
        PROVE  p[2].id \in gone
    <3>1. PICK k \in db.links : k[1] = p[1][1] /\ k[2] \in gone
      BY <2>4
    <3>2. QED
      BY <1>1, <2>2, <3>1 DEF GoneWhole
  <2>5. QED
    BY <2>3, <2>4
<1>8. S \subseteq db.stays /\ \A s, t \in S : TripOf[s] = TripOf[t]
  BY <1>1 DEF LinksExist, GoneWhole
<1>9. RoomIn(db') = RoomIn(db)
  <2>1. LotRows(db') = LotRows(db)
    BY <1>1, TripTables
  <2>2. Unlinked(db') = Unlinked(db)
    BY <1>1, <1>4 DEF Unlinked, GoneWhole
  <2>3. QED
    BY <2>1, <2>2, SameRooms
<1> HIDE DEF gone, S, old, rest
<1>10. rest = {x \in old : x.stay \notin S}
  BY <1>5, <1>6, <1>7
<1>11. Ledger!OneTrip(S)
  BY <1>8 DEF Ledger!OneTrip
<1>12. S \in SUBSET db.stays
  BY <1>8
<1>13. QED
  BY <1>4, <1>9, <1>10, <1>11, <1>12 DEF Ledger!Unbook, old, rest

\* AddStay adds a stay no trip has had before, or changes nothing.
LEMMA AddIsAdd ==
  ASSUME LedgerInv, NEW r \in Requests, AddStay(r)
  PROVE  Ledger!AddStay \/ db' = db
<1>1. db \in DB /\ db.stays \subseteq issued.stays
  BY DEF LedgerInv, MoneyInv, PaidInv, OpInv, TypeInv, TypeOK
<1>2. CASE \E s \in Stays \ issued.stays : db' = [db EXCEPT !.stays = @ \cup {s}]
  <2>1. PICK s \in Stays \ issued.stays : db' = [db EXCEPT !.stays = @ \cup {s}]
    BY <1>2
  <2>2. /\ db'.stays = db.stays \cup {s} /\ s \in Stays \ db.stays
        /\ db'.entries = db.entries /\ db'.links = db.links
    BY <1>1, <2>1 DEF DB
  <2>3. LinkedDraws(db') = LinkedDraws(db)
    BY <2>2 DEF LinkedDraws
  <2>4. RoomIn(db') = RoomIn(db)
    BY <2>2, SameRooms DEF LotRows, Unlinked
  <2>5. QED
    BY <2>2, <2>3, <2>4 DEF Ledger!AddStay
<1>3. QED
  BY <1>2 DEF AddStay

\* Every step is one of TripLedger's, or changes nothing it shows.
LEMMA StepRefines ==
  BookJobs /\ LedgerInv /\ LedgerInv' /\ [Next]_vars => [Ledger!Next]_(Ledger!vars)
<1>1. SUFFICES ASSUME BookJobs, LedgerInv, LedgerInv', [Next]_vars
               PROVE  [Ledger!Next]_(Ledger!vars)
  OBVIOUS
<1>2. db' = db => UNCHANGED Ledger!vars
  BY DEF Ledger!vars
<1>3. CASE UNCHANGED vars
  BY <1>2, <1>3 DEF vars
<1>4. ASSUME NEW r \in Requests, Step(r) \/ Abort(r)
      PROVE  [Ledger!Next]_(Ledger!vars)
  <2>1. CASE BookCommit(r) /\ ~LostRace(r)
    <3>1. tx[r].rows = {} => db' = db
      BY <1>1, <2>1, CommitWrites DEF LedgerInv, MoneyInv, PaidInv
    <3>2. tx[r].rows # {} => Ledger!Book
      BY <1>1, <2>1, CommitIsBook
    <3>3. QED
      BY <1>2, <3>1, <3>2 DEF Ledger!Next
  <2>2. CASE ~(BookCommit(r) /\ ~LostRace(r))
    <3>1. db' = db \/ AddStay(r) \/ DeleteCommit(r)
      BY <1>1, <1>4, <2>2, BookTables
    <3>2. AddStay(r) => Ledger!AddStay \/ db' = db
      BY <1>1, AddIsAdd
    <3>3. DeleteCommit(r) => Ledger!Unbook
      BY <1>1, DeleteIsUnbook
    <3>4. QED
      BY <1>2, <3>1, <3>2, <3>3 DEF Ledger!Next
  <2>3. QED
    BY <2>1, <2>2
<1>5. QED
  BY <1>1, <1>3, <1>4 DEF Next, Idle

\* The tables one starts from are a ledger of TripLedger.
LEMMA InitRefines == AllSolvent /\ AllSettled /\ Init => Ledger!Init
<1>1. SUFFICES ASSUME AllSolvent, AllSettled, Init
               PROVE  Ledger!Init
  OBVIOUS
<1>2. db \in Databases
  BY <1>1 DEF Init
<1>3. /\ db \in DB /\ Consistent(db) /\ IsFiniteSet(db.entries) /\ InTheBlack(db)
      /\ \A e \in Linked(db) : e.used > 0 /\ LotOf(e) \in LotsIn(db)
      /\ \A s \in db.stays : Booked(db, s) => Paid(db, s) = Price[s]
  BY <1>1, <1>2, DatabasesAssumption DEF AllSolvent, AllSettled, Solvent, Settled
<1> DEFINE D == LinkedDraws(db)
<1>4. D = {DrawOf(p) : p \in Pairs(db)} /\ IsFiniteSet(D)
  BY <1>3, MappedSums
<1>5. ASSUME NEW x \in D
      PROVE  /\ x.stay \in db.stays /\ x.lot \in LotsIn(db) /\ x.points \in Nat \ {0}
             /\ Ledger!Charged(D, x.stay) = Price[x.stay]
  <2>1. PICK p \in Pairs(db) : x = DrawOf(p)
    BY <1>4
  <2>2. /\ p[1] \in db.links /\ p[2] \in db.entries /\ p[1][2] = p[2].id
        /\ x.stay = p[1][1] /\ x.lot = LotOf(p[2]) /\ x.points = p[2].used
    BY <2>1 DEF Pairs, DrawOf
  <2>3. p[2] \in Linked(db) /\ p[2].used \in Nat
    BY <1>3, <2>2 DEF Linked, DB, Entry
  <2>4. x.stay \in db.stays /\ Booked(db, x.stay)
    BY <1>3, <2>2 DEF Consistent, LinksExist, Booked, LinkedTo
  <2>5. Ledger!Charged(D, x.stay) = Paid(db, x.stay)
    BY <1>3, MappedSums
  <2>6. QED
    BY <1>3, <2>2, <2>3, <2>4, <2>5
<1>6. DOMAIN RoomIn(db) = LotsIn(db)
  BY DEF RoomIn
<1>7. \A lot \in LotsIn(db) : RoomIn(db)[lot] \in Nat /\ Ledger!Spent(D, lot) <= RoomIn(db)[lot]
  BY <1>3, SpentInRoom
<1>8. db.stays \subseteq Stays
  BY <1>3 DEF DB
<1> HIDE DEF D
<1>9. Ledger!InFull(D) /\ Ledger!WithinRoom(D)
  BY <1>5, <1>6, <1>7 DEF Ledger!InFull, Ledger!WithinRoom, Ledger!PaidFor
<1>10. QED
  BY <1>4, <1>5, <1>6, <1>7, <1>8, <1>9, SameSums DEF Ledger!Init, D

(***************************************************************************)
(* Bookings and unbookings act as if each were one step, whatever they     *)
(* race with: every stay is paid in full or not at all, the stays of a     *)
(* trip are paid and given back together, and no lot is spent beyond its   *)
(* room.                                                                   *)
(***************************************************************************)
THEOREM BookingImplements == BookJobs /\ AllSolvent /\ AllSettled => (Spec => ImplementsTripLedger)
<1>1. SUFFICES ASSUME BookJobs, AllSolvent, AllSettled
               PROVE  Spec => ImplementsTripLedger
  OBVIOUS
<1>2. Init => LedgerInv /\ Ledger!Init
  BY <1>1, LedgerInit, InitRefines
<1>3. LedgerInv /\ [Next]_vars => LedgerInv'
  BY <1>1, LedgerNext
<1>4. LedgerInv /\ LedgerInv' /\ [Next]_vars => [Ledger!Next]_(Ledger!vars)
  BY <1>1, StepRefines
<1>5. QED
  BY <1>2, <1>3, <1>4, PTL DEF Spec, ImplementsTripLedger, Ledger!Spec

=============================================================================
