------------------------------ MODULE TripPages ------------------------------
(***************************************************************************)
(* The trip pages: internal/web/handlers.go with what render.go projects,  *)
(* on the columns of trip and the rows of trip_stay, and the global        *)
(* filters of global_filters.go in memory and in their file.               *)
(*                                                                         *)
(* A handler that edits a trip reads its row, changes fields and writes    *)
(* every column back, in two statements and no transaction.  A handler     *)
(* that adds a stay gets the number of a row and searches again for it.    *)
(* Each statement is a step; each client sends one request at a time, from *)
(* the page it was shown last.                                             *)
(***************************************************************************)
EXTENDS StaySearch, Sequences

CONSTANTS
  Clients,
  TripIds, StayIds,   \* ids the identity columns may hand out
  Plans,              \* what the trip form yields: [from, to, minNights]
  Budgets,            \* what may be typed as a budget override
  Codes,              \* resort codes and room types
  None,               \* no override, no page, nobody
  Invalid,            \* a form that does not parse
  maxResultRows,      \* rows a page shows
  StartTrips, StartTotals,  \* trips and ledger budgets to start from
  MaxSends, MaxRestarts     \* bounds: requests of all clients, restarts

ASSUME FormsAssumption ==
  /\ Plans \subseteq [from : Int, to : Int, minNights : Int]
  /\ Budgets \subseteq Int /\ StartTotals \subseteq Int
  /\ maxResultRows \in Nat
  /\ None \notin Clients

\* Sorting leaves no two stays in the same place.
ASSUME TieAssumption ==
  \A plan \in Plans : \A n \in 0..Cardinality(StaysWithin(plan, {})) :
    \A s, t \in StaysWithin(plan, {}) :
      /\ Tie(n, s) \in Int
      /\ s # t /\ s.points = t.points /\ s.checkIn = t.checkIn => Tie(n, s) # Tie(n, t)

VARIABLES
  trips,     \* the rows of trip: a function of the live ids
  stays,     \* the rows of trip_stay
  used,      \* ids handed out
  total,     \* TripBudget.Total, as the ledger has it
  memory,    \* globalFilters.cfg
  file,      \* config.json
  mu,        \* globalFilters.mu
  unsaved,   \* history: the last SaveConfig failed
  pc, op,    \* where each client's request is, and what it asks for
  row,       \* the trip row a handler has fetched, and perhaps changed
  read,      \* the same row as it was fetched
  left,      \* the budget a handler searches with
  data,      \* the configuration SaveConfig is writing
  page,      \* the trip page each client was shown last
  sent, restarts

tables == <<trips, stays, used, total>>
filters == <<memory, file, mu, unsaved, data>>
locals == <<op, row, read, left>>
vars == <<tables, filters, pc, locals, page, sent, restarts>>

Row == [plan : Plans, override : Budgets \cup {None},
        mode : {"inherit", "override"}, excluded : SUBSET Codes]
NoRow == [plan |-> None, override |-> None, mode |-> "inherit", excluded |-> {}]

\* A trip that inherits the global filters and stores some of its own.
HidesFilters(t) == t.mode = "inherit" /\ t.excluded # {}

ASSUME StartAssumption ==
  \A start \in StartTrips :
    /\ DOMAIN start \subseteq TripIds /\ start \in [DOMAIN start -> Row]
    /\ \A id \in DOMAIN start : ~HidesFilters(start[id])

StayRow == [id : StayIds, trip : TripIds, result : [chart : Nat, col : Nat,
            checkIn : Int, nights : Nat, points : Nat], booked : BOOLEAN]

-----------------------------------------------------------------------------
(* What handlers compute. *)

StaysOf(id) == {s \in stays : s.trip = id}
Points(rows) == SumOver([s \in rows |-> s.result.points], rows)

\* A trip that inherits is searched with the global filters.
EffectiveFilters(t) == IF t.mode = "override" THEN t.excluded ELSE memory

effectiveBudget(t) == IF t.override = None THEN total ELSE t.override

\* toggleString: removed when present, appended when not.
Toggle(set, code) == IF code \in set THEN set \ {code} ELSE set \cup {code}

\* The first maxResultRows results, numbered as Search numbers them.
MutantShown(p) ==  \* the last rows rather than the first
  LET all == Search(p.plan, p.left, p.excluded)
      skip == IF Len(all) > maxResultRows THEN Len(all) - maxResultRows ELSE 0
  IN  SubSeq(all, skip + 1, Len(all))
Shown(p) ==
  LET all == Search(p.plan, p.left, p.excluded)
  IN  IF Len(all) > maxResultRows THEN SubSeq(all, 1, maxResultRows) ELSE all

-----------------------------------------------------------------------------
(* Requests. *)

Go(c, where) == pc' = [pc EXCEPT ![c] = where]

\* The handler returns: its locals are gone.
Finish(c) ==
  /\ Go(c, "ready")
  /\ op' = [op EXCEPT ![c] = None]
  /\ row' = [row EXCEPT ![c] = NoRow]
  /\ read' = [read EXCEPT ![c] = NoRow]
  /\ left' = [left EXCEPT ![c] = 0]

\* What may be sent from any page, and from the page of a trip.
Anywhere ==
  [kind : {"open"}, trip : TripIds]
  \cup [kind : {"create"}, form : Plans \cup {Invalid}]
  \cup [kind : {"global"}, code : Codes]

OnPage(p) ==
  [kind : {"clearBudget", "book", "unbook", "delete", "reset"}, trip : {p.trip}]
  \cup [kind : {"update"}, trip : {p.trip}, form : Plans \cup {Invalid}]
  \cup [kind : {"setBudget"}, trip : {p.trip}, form : Budgets \cup {Invalid}]
  \cup [kind : {"addStay"}, trip : {p.trip}, number : DOMAIN Shown(p)]
  \cup [kind : {"removeStay"}, trip : {p.trip}, stay : {s.id : s \in StaysOf(p.trip)}]
  \cup [kind : {"mode"}, trip : {p.trip}, mode : {"inherit", "override"}]
  \cup [kind : {"toggle"}, trip : {p.trip}, code : Codes]

Starts(k) ==
  CASE k = "create" -> "create"
    [] k = "global" -> "lock"
    [] k \in {"removeStay", "delete"} -> "act"
    [] OTHER -> "get"

Send(c) ==
  /\ pc[c] = "ready" /\ sent < MaxSends
  /\ \E o \in Anywhere \cup (IF page[c] = None THEN {} ELSE OnPage(page[c])) :
       op' = [op EXCEPT ![c] = o] /\ Go(c, Starts(o.kind))
  /\ sent' = sent + 1
  /\ UNCHANGED <<tables, filters, row, read, left, page, restarts>>

\* The rest of the request is that of opening a trip's page: the browser
\* follows a redirect, or the handler ends in renderTripFragment.
ThenShow(c, id) ==
  /\ op' = [op EXCEPT ![c] = [kind |-> "open", trip |-> id]]
  /\ Go(c, "get")

\* createTrip.  A form that does not parse shows the list again.
CreateTrip(c) ==
  /\ pc[c] = "create"
  /\ \/ /\ op[c].form # Invalid
        /\ \E id \in TripIds \ used.trips :
             /\ trips' = [i \in DOMAIN trips \cup {id} |->
                  IF i = id THEN [NoRow EXCEPT !.plan = op[c].form] ELSE trips[i]]
             /\ used' = [used EXCEPT !.trips = @ \cup {id}]
             /\ ThenShow(c, id)
        /\ UNCHANGED <<row, read, left>>
     \/ /\ op[c].form = Invalid \/ used.trips = TripIds  \* bound: no id is left
        /\ Finish(c)
        /\ UNCHANGED <<trips, used>>
  /\ UNCHANGED <<stays, total, filters, page, sent, restarts>>

-----------------------------------------------------------------------------
(* Fetch, change, write back. *)

MutantConflict(o, t) == FALSE  \* no 409
Conflict(o, t) == o.kind = "toggle" /\ t.mode = "inherit"

\* A rejected form shows the page of the row as it was fetched.
MutantAfterGet(o) ==  \* forms are not validated
  CASE o.kind \in {"update", "setBudget", "clearBudget", "mode", "toggle", "reset"} -> "edit"
    [] o.kind \in {"book", "unbook"} -> "act"
    [] OTHER -> "stays"
AfterGet(o) ==
  CASE o.kind \in {"update", "setBudget"} -> IF o.form = Invalid THEN "stays" ELSE "edit"
    [] o.kind \in {"clearBudget", "mode", "toggle", "reset"} -> "edit"
    [] o.kind \in {"book", "unbook"} -> "act"
    [] OTHER -> "stays"

\* GetTrip, or 404; a toggle of a trip that inherits is answered 409.
GetTrip(c) ==
  /\ pc[c] = "get"
  /\ \/ /\ op[c].trip \in DOMAIN trips
        /\ LET t == trips[op[c].trip] IN
             /\ ~Conflict(op[c], t)
             /\ row' = [row EXCEPT ![c] = t]
             /\ read' = [read EXCEPT ![c] = t]
             /\ Go(c, AfterGet(op[c]))
        /\ UNCHANGED <<op, left>>
     \/ /\ op[c].trip \in DOMAIN trips => Conflict(op[c], trips[op[c].trip])
        /\ Finish(c)
  /\ UNCHANGED <<tables, filters, page, sent, restarts>>

\* The row a handler writes.  Switching to override starts from a copy of
\* the global filters, and switching back forgets the trip's own.
Inheriting(t) == [t EXCEPT !.mode = "inherit", !.excluded = {}]
MutantEdited(o, t) ==  \* the form's row alone, without the columns it does not carry
  CASE o.kind = "update" -> [NoRow EXCEPT !.plan = o.form]
    [] o.kind = "setBudget" -> [t EXCEPT !.override = o.form]
    [] o.kind = "clearBudget" -> [t EXCEPT !.override = None]
    [] o.kind = "toggle" -> [t EXCEPT !.excluded = Toggle(@, o.code)]
    [] o.kind = "reset" -> Inheriting(t)
    [] o.kind = "mode" ->
         IF o.mode = "inherit" THEN Inheriting(t)
         ELSE [t EXCEPT !.mode = "override", !.excluded = memory]
Edited(o, t) ==
  CASE o.kind = "update" -> [t EXCEPT !.plan = o.form]
    [] o.kind = "setBudget" -> [t EXCEPT !.override = o.form]
    [] o.kind = "clearBudget" -> [t EXCEPT !.override = None]
    [] o.kind = "toggle" -> [t EXCEPT !.excluded = Toggle(@, o.code)]
    [] o.kind = "reset" -> Inheriting(t)
    [] o.kind = "mode" ->
         IF o.mode = "inherit" THEN Inheriting(t)
         ELSE [t EXCEPT !.mode = "override", !.excluded = memory]

Edit(c) ==
  /\ pc[c] = "edit"
  /\ op[c].kind = "mode" => mu = None  \* globalFilters.Get
  /\ row' = [row EXCEPT ![c] = Edited(op[c], row[c])]
  /\ Go(c, "save")
  /\ UNCHANGED <<tables, filters, op, read, left, page, sent, restarts>>

\* UPDATE trip SET every column WHERE id: writes nothing when the row is gone.
MutantUpdateTrip(id, t) ==  \* INSERT ... ON CONFLICT DO UPDATE
  trips' = [i \in DOMAIN trips \cup {id} |-> IF i = id THEN t ELSE trips[i]]
UpdateTrip(id, t) ==
  trips' = [i \in DOMAIN trips |-> IF i = id THEN t ELSE trips[i]]

\* The filter handlers show the row they wrote, the others fetch it again.
Save(c) ==
  /\ pc[c] = "save"
  /\ UpdateTrip(op[c].trip, row[c])
  /\ IF op[c].kind \in {"mode", "toggle", "reset"}
     THEN Go(c, "stays") /\ UNCHANGED op
     ELSE ThenShow(c, op[c].trip)
  /\ UNCHANGED <<stays, used, total, filters, row, read, left, page, sent, restarts>>

-----------------------------------------------------------------------------
(* buildTripPageView and addStay. *)

ListStays(c) ==
  /\ pc[c] = "stays"
  /\ left' = [left EXCEPT ![c] = -Points({s \in StaysOf(op[c].trip) : ~s.booked})]
  /\ Go(c, "budget")
  /\ UNCHANGED <<tables, filters, op, row, read, page, sent, restarts>>

\* TripBudget, and with it searchBudgetFor.
TripBudget(c) ==
  /\ pc[c] = "budget"
  /\ left' = [left EXCEPT ![c] = @ + effectiveBudget(row[c])]
  /\ Go(c, "search")
  /\ UNCHANGED <<tables, filters, op, row, read, page, sent, restarts>>

Query(c) == [trip |-> op[c].trip, plan |-> row[c].plan, left |-> left[c],
             excluded |-> EffectiveFilters(row[c])]

ShowTrip(c) ==
  /\ pc[c] = "search" /\ op[c].kind # "addStay"
  /\ mu = None  \* globalFilters.Get
  /\ page' = [page EXCEPT ![c] = Query(c)]
  /\ Finish(c)
  /\ UNCHANGED <<tables, filters, sent, restarts>>

\* The row number is looked up in all results; there may be fewer by now.
\* The trip may be gone: the foreign key fails.
InsertStay(c) ==
  LET q == Query(c)
      results == Search(q.plan, q.left, q.excluded)
  IN
  /\ pc[c] = "search" /\ op[c].kind = "addStay"
  /\ mu = None  \* globalFilters.Get
  /\ \/ /\ op[c].number \in DOMAIN results /\ op[c].trip \in DOMAIN trips
        /\ \E id \in StayIds \ used.stays :
             /\ stays' = stays \cup {[id |-> id, trip |-> op[c].trip, booked |-> FALSE,
                                     result |-> results[op[c].number]]}
             /\ used' = [used EXCEPT !.stays = @ \cup {id}]
        /\ ThenShow(c, op[c].trip)
        /\ UNCHANGED <<row, read, left>>
     \/ /\ \/ op[c].number \notin DOMAIN results \/ op[c].trip \notin DOMAIN trips
           \/ used.stays = StayIds  \* bound: no id is left
        /\ Finish(c)
        /\ UNCHANGED <<stays, used>>
  /\ UNCHANGED <<trips, total, filters, page, sent, restarts>>

-----------------------------------------------------------------------------
(* Handlers that leave the ledger to the Store.  Booking has their          *)
(* transactions; here each is one step that moves points between the        *)
(* ledger's budget and the stays.                                           *)

Paid(rows) == Points({s \in rows : s.booked})
Delete(rows) == stays' = stays \ rows /\ total' = total + Paid(rows)
Mark(rows, b) == stays' = (stays \ rows) \cup {[s EXCEPT !.booked = b] : s \in rows}

BookTrip(c) ==
  /\ pc[c] = "act" /\ op[c].kind = "book"
  /\ \/ /\ op[c].trip \in DOMAIN trips
        /\ LET new == {s \in StaysOf(op[c].trip) : ~s.booked}
           IN  Mark(new, TRUE) /\ total' = total - Points(new)
        /\ ThenShow(c, op[c].trip)
        /\ UNCHANGED <<row, read, left>>
     \/ Finish(c) /\ UNCHANGED <<stays, total>>  \* insufficient points, no such trip
  /\ UNCHANGED <<trips, used, filters, page, sent, restarts>>

UnbookTrip(c) ==
  /\ pc[c] = "act" /\ op[c].kind = "unbook"
  /\ LET old == {s \in StaysOf(op[c].trip) : s.booked}
     IN  Mark(old, FALSE) /\ total' = total + Points(old)
  /\ ThenShow(c, op[c].trip)
  /\ UNCHANGED <<trips, used, filters, row, read, left, page, sent, restarts>>

RemoveStay(c) ==
  /\ pc[c] = "act" /\ op[c].kind = "removeStay"
  /\ Delete({s \in stays : s.id = op[c].stay})
  /\ ThenShow(c, op[c].trip)
  /\ UNCHANGED <<trips, used, filters, row, read, left, page, sent, restarts>>

\* The browser goes home, to the list.
DeleteTrip(c) ==
  /\ pc[c] = "act" /\ op[c].kind = "delete"
  /\ trips' = [i \in DOMAIN trips \ {op[c].trip} |-> trips[i]]
  /\ Delete(StaysOf(op[c].trip))
  /\ page' = [page EXCEPT ![c] = None]
  /\ Finish(c)
  /\ UNCHANGED <<used, filters, sent, restarts>>

-----------------------------------------------------------------------------
(* The global filters. *)

\* Toggled in memory under the lock, and encoded for the file.
MutantMayLock == TRUE  \* no mutex
MayLock == mu = None
ToggleGlobal(c) ==
  /\ pc[c] = "lock" /\ MayLock
  /\ mu' = c
  /\ memory' = Toggle(memory, op[c].code)
  /\ data' = [data EXCEPT ![c] = memory']
  /\ Go(c, "saving")
  /\ UNCHANGED <<tables, file, unsaved, locals, page, sent, restarts>>

\* A temporary file renamed over config.json: all or nothing.  When it fails
\* the change stays in memory.  The lock is given back either way.
SaveConfig(c) ==
  /\ pc[c] = "saving"
  /\ \E ok \in BOOLEAN :
       /\ file' = IF ok THEN data[c] ELSE file
       /\ unsaved' = ~ok
       /\ mu' = None
  /\ data' = [data EXCEPT ![c] = {}]
  /\ Finish(c)
  /\ UNCHANGED <<tables, memory, page, sent, restarts>>

-----------------------------------------------------------------------------
(* The server. *)

\* A statement fails, or the client goes away: an error page and no change.
Fail(c) ==
  /\ pc[c] \in {"create", "get", "save", "stays", "budget", "search", "act"}
  /\ Finish(c)
  /\ UNCHANGED <<tables, filters, page, sent, restarts>>

\* The process dies and starts again: requests are lost, LoadConfig reads the file.
Restart ==
  /\ restarts < MaxRestarts
  /\ restarts' = restarts + 1
  /\ memory' = file
  /\ mu' = None
  /\ unsaved' = FALSE
  /\ pc' = [c \in Clients |-> "ready"]
  /\ data' = [c \in Clients |-> {}]
  /\ op' = [c \in Clients |-> None]
  /\ row' = [c \in Clients |-> NoRow] /\ read' = row'
  /\ left' = [c \in Clients |-> 0]
  /\ UNCHANGED <<tables, file, page, sent>>

Handle(c) ==
  \/ CreateTrip(c) \/ GetTrip(c) \/ Edit(c) \/ Save(c)
  \/ ListStays(c) \/ TripBudget(c) \/ ShowTrip(c) \/ InsertStay(c)
  \/ BookTrip(c) \/ UnbookTrip(c) \/ RemoveStay(c) \/ DeleteTrip(c)
  \/ ToggleGlobal(c) \/ SaveConfig(c)

\* All requests have been sent (bound: MaxSends) and answered.
Idle ==
  /\ sent = MaxSends /\ \A c \in Clients : pc[c] = "ready"
  /\ UNCHANGED vars

\* Every client looks at the page of a trip, shown just now.
FreshPage(id) ==
  [trip |-> id, plan |-> trips[id].plan, left |-> effectiveBudget(trips[id]),
   excluded |-> EffectiveFilters(trips[id])]

Init ==
  /\ trips \in StartTrips
  /\ total \in StartTotals
  /\ stays = {} /\ used = [trips |-> DOMAIN trips, stays |-> {}]
  /\ memory = {} /\ file = {} /\ mu = None /\ unsaved = FALSE
  /\ data = [c \in Clients |-> {}]
  /\ pc = [c \in Clients |-> "ready"]
  /\ op = [c \in Clients |-> None]
  /\ row = [c \in Clients |-> NoRow] /\ read = row
  /\ left = [c \in Clients |-> 0]
  /\ page \in [Clients -> {FreshPage(id) : id \in DOMAIN trips}]
  /\ sent = 0 /\ restarts = 0

Next == (\E c \in Clients : Send(c) \/ Handle(c) \/ Fail(c)) \/ Restart \/ Idle

Spec == Init /\ [][Next]_vars

-----------------------------------------------------------------------------
(* Correctness. *)

\* The tables, the filters and the requests hold what they are meant to hold.
TypeOK ==
  /\ DOMAIN trips \subseteq TripIds /\ trips \in [DOMAIN trips -> Row]
  /\ stays \subseteq StayRow
  /\ used \in [trips : SUBSET TripIds, stays : SUBSET StayIds]
  /\ total \in Int
  /\ memory \subseteq Codes /\ file \subseteq Codes
  /\ mu \in Clients \cup {None}
  /\ \A c \in Clients : row[c] = NoRow \/ row[c] \in Row
  /\ left \in [Clients -> Int]

(***************************************************************************)
(* A trip that inherits the global filters stores none of its own, however *)
(* toggles, resets and changes of mode overlap (toggleTripFilter: such     *)
(* exclusions would be invisible and "spring back into effect the moment   *)
(* the trip switches to override").                                        *)
(***************************************************************************)
InheritStoresNoFilters == \A id \in DOMAIN trips : ~HidesFilters(trips[id])

(***************************************************************************)
(* An edit that nothing came between changes only what it was asked to:    *)
(* dates leave budget and filters alone, a budget leaves the filters, and  *)
(* so on (updateTrip and setBudgetOverride say that they once did not).    *)
(***************************************************************************)
Fields(kind) ==
  CASE kind = "update" -> {"plan"}
    [] kind \in {"setBudget", "clearBudget"} -> {"override"}
    [] kind = "toggle" -> {"excluded"}
    [] OTHER -> {"mode", "excluded"}

EditsConfined ==
  [][\A c \in Clients :
       pc[c] = "save" /\ trips' # trips =>
         LET id == op[c].trip IN
         \/ pc'[c] \in {"save", "ready"}  \* another client's step, or none
         \/ trips[id] # read[c]           \* somebody came between
         \/ \A f \in DOMAIN trips[id] \ Fields(op[c].kind) : trips'[id][f] = trips[id][f]]_vars

(***************************************************************************)
(* The stay a row number adds is the one the page showed in that row, as   *)
(* long as the dates and the filters are those of the page: exactly that   *)
(* one when the budget is the same, and one of the same points and         *)
(* check-in when only the budget has moved (stays collected, booked or     *)
(* removed meanwhile), since a budget only cuts the list off at its end.   *)
(***************************************************************************)
AddedAsShown ==
  [][\A c \in Clients :
       pc[c] = "search" /\ stays' # stays /\ pc'[c] = "get" =>
         LET clicked == Shown(page[c])[op[c].number]
             added == (CHOOSE s \in stays' \ stays : TRUE).result
         IN  /\ page[c].plan = row[c].plan /\ page[c].excluded = EffectiveFilters(row[c])
                  => added.points = clicked.points /\ added.checkIn = clicked.checkIn
             /\ page[c] = Query(c) => added = clicked]_vars

(***************************************************************************)
(* A deleted trip stays deleted: no handler that had fetched its row       *)
(* brings it back, and none leaves a stay without a trip.                  *)
(***************************************************************************)
DeletedForGood ==
  [][/\ \A id \in used.trips \ DOMAIN trips : id \notin DOMAIN trips'
     /\ \A s \in stays' : s.trip \in DOMAIN trips']_vars

(***************************************************************************)
(* The filter file holds the filters in memory whenever nobody is changing *)
(* them, unless the last save failed: two toggles never save in the wrong  *)
(* order, and a restart loses a toggle only if its client was told.        *)
(***************************************************************************)
SavedUnlessFailed == mu = None /\ ~unsaved => file = memory

=============================================================================
