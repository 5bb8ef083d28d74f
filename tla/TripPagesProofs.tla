--------------------------- MODULE TripPagesProofs ---------------------------
(***************************************************************************)
(* The trip pages proved: the search lists every stay once and a budget    *)
(* only cuts its list off at the end, so the row a client clicks is the    *)
(* stay that is added; and the handlers keep what the pages promise,       *)
(* whatever the clients, the trips, the charts and the order of statements.*)
(***************************************************************************)
EXTENDS TripPages, AllocationProofs, SequenceTheorems

-----------------------------------------------------------------------------
(* Two lists in order, one of them cut off. *)

\* What a list of stays is sorted by.
CheaperOrEarlier(s, t) ==
  s.points < t.points \/ (s.points = t.points /\ s.checkIn < t.checkIn)

(***************************************************************************)
(* Two lists sorted so, one of them cut off at a budget, have in the same  *)
(* place stays of the same points and check-in.                            *)
(***************************************************************************)
LEMMA CutOffAtTheEnd ==
  ASSUME NEW F, IsFiniteSet(F), \A s \in F : s.points \in Int /\ s.checkIn \in Int,
         NEW b \in Int, NEW C, C = {s \in F : s.points <= b},
         NEW Q, Orders(Q, C), \A s, t \in C : CheaperOrEarlier(s, t) => <<s, t>> \in Q,
         NEW R, Orders(R, F), \A s, t \in F : CheaperOrEarlier(s, t) => <<s, t>> \in R,
         NEW s \in C, NEW t \in F,
         Cardinality(Preceding(Q, C, s)) = Cardinality(Preceding(R, F, t))
  PROVE  s.points = t.points /\ s.checkIn = t.checkIn
<1>1. C \in SUBSET F /\ IsFiniteSet(C)
  BY FS_Subset
<1>2. /\ IsFiniteSet(Preceding(Q, C, s)) /\ Cardinality(Preceding(Q, C, s)) \in Nat
      /\ Cardinality(Preceding(Q, C, s) \cup {s}) = Cardinality(Preceding(Q, C, s)) + 1
      /\ IsFiniteSet(Preceding(R, F, t)) /\ Cardinality(Preceding(R, F, t)) \in Nat
      /\ Cardinality(Preceding(R, F, t) \cup {t}) = Cardinality(Preceding(R, F, t)) + 1
  BY <1>1, BeforeAndItself
<1>3. ASSUME CheaperOrEarlier(s, t)
      PROVE  FALSE
  <2>1. ASSUME NEW x \in Preceding(Q, C, s)
        PROVE  x \in Preceding(R, F, t)
    <3>1. x \in C /\ <<x, s>> \in Q /\ <<s, x>> \notin Q
      BY DEF Preceding, Orders
    <3>2. ~CheaperOrEarlier(s, x)
      BY <3>1
    <3>3. CheaperOrEarlier(x, t)
      BY <1>1, <1>3, <3>1, <3>2 DEF CheaperOrEarlier
    <3>4. QED
      BY <1>1, <3>1, <3>3 DEF Preceding
  <2>2. s \in Preceding(R, F, t)
    BY <1>1, <1>3 DEF Preceding
  <2>3. Preceding(Q, C, s) \cup {s} \in SUBSET Preceding(R, F, t)
    BY <2>1, <2>2
  <2>4. QED
    BY <1>2, <2>3, FS_Subset
<1>4. ASSUME CheaperOrEarlier(t, s)
      PROVE  FALSE
  <2>1. t \in C
    BY <1>1, <1>4 DEF CheaperOrEarlier
  <2>2. ASSUME NEW x \in Preceding(R, F, t)
        PROVE  x \in Preceding(Q, C, s)
    <3>1. x \in F /\ <<x, t>> \in R /\ <<t, x>> \notin R
      BY DEF Preceding, Orders
    <3>2. ~CheaperOrEarlier(t, x)
      BY <3>1
    <3>3. CheaperOrEarlier(x, s) /\ x \in C
      BY <1>1, <1>4, <3>1, <3>2 DEF CheaperOrEarlier
    <3>4. QED
      BY <3>3 DEF Preceding
  <2>3. t \in Preceding(Q, C, s)
    BY <1>4, <2>1 DEF Preceding
  <2>4. Preceding(R, F, t) \cup {t} \in SUBSET Preceding(Q, C, s)
    BY <2>2, <2>3
  <2>5. QED
    BY <1>2, <2>4, FS_Subset
<1>5. QED
  BY <1>1, <1>3, <1>4 DEF CheaperOrEarlier

-----------------------------------------------------------------------------
(* The stays a search finds. *)

StayResult == [chart : Nat, col : Nat, checkIn : Int, nights : Nat, points : Nat]

(***************************************************************************)
(* A night that has a season has a rate, which is a number.                *)
(***************************************************************************)
LEMMA NightType ==
  ASSUME NEW i \in DOMAIN Charts, NEW col \in DOMAIN Charts[i].columns,
         NEW day, SeasonsOf(Charts[i], day) # {}
  PROVE  PointsForNight(Charts[i], col, day) \in Nat
<1> DEFINE K == SeasonsOf(Charts[i], day)
<1>1. K \subseteq DOMAIN Charts[i].seasons /\ K \subseteq Nat
  BY ChartsAssumption DEF SeasonsOf
<1>2. \E m \in K : \A k \in K : m <= k
  <2> HIDE DEF K
  <2> QED BY <1>1, LeastNumber DEF K
<1>3. Min(K) \in K
  BY <1>2 DEF Min
<1>4. QED
  BY <1>1, <1>3, ChartsAssumption DEF PointsForNight

(***************************************************************************)
(* So has a stay without a gap.                                            *)
(***************************************************************************)
LEMMA TotalType ==
  ASSUME NEW i \in DOMAIN Charts, NEW col \in DOMAIN Charts[i].columns,
         NEW checkIn \in Int, NEW nights \in Nat, Gapless(Charts[i], checkIn, nights)
  PROVE  Total(Charts[i], col, checkIn, nights) \in Nat
<1> DEFINE N == Nights(checkIn, nights)
           rate == [day \in N |-> PointsForNight(Charts[i], col, day)]
<1>1. IsFiniteSet(N)
  BY FS_Interval DEF Nights
<1>2. \A day \in N : rate[day] \in Nat
  BY NightType DEF Gapless
<1>3. SumOver(rate, N) \in Nat
  <2> HIDE DEF rate, N
  <2> QED BY <1>1, <1>2, SumType
<1>4. QED
  BY <1>3 DEF Total

(***************************************************************************)
(* The stays of a column are finitely many records.                        *)
(***************************************************************************)
LEMMA ColumnType ==
  ASSUME NEW plan \in Plans, NEW i \in DOMAIN Charts, NEW col \in DOMAIN Charts[i].columns
  PROVE  StaysFrom(plan, i, col) \subseteq StayResult /\ IsFiniteSet(StaysFrom(plan, i, col))
<1> DEFINE D == {e \in (plan.from..plan.to) \X (1..MaxNights) :
                   /\ e[1] + e[2] <= plan.to
                   /\ e[2] >= plan.minNights
                   /\ Gapless(Charts[i], e[1], e[2])}
           stay == [d \in D |-> Stay(i, col, d[1], d[2])]
<1>1. plan.from \in Int /\ plan.to \in Int /\ MaxNights \in Nat
  BY FormsAssumption, MaxNightsAssumption
<1>2. IsFiniteSet((plan.from..plan.to) \X (1..MaxNights))
  <2>1. IsFiniteSet(plan.from..plan.to) /\ IsFiniteSet(1..MaxNights)
    BY <1>1, FS_Interval
  <2>2. QED
    BY <2>1, FS_Product
<1>3. IsFiniteSet(D)
  BY <1>2, FS_Subset
<1>4. StaysFrom(plan, i, col) = {stay[d] : d \in D}
  BY DEF StaysFrom
<1>5. ASSUME NEW d \in D
      PROVE  stay[d] \in StayResult
  <2>1. d[1] \in Int /\ d[2] \in Nat /\ Gapless(Charts[i], d[1], d[2])
    BY <1>1
  <2>2. i \in Nat /\ col \in Nat
    BY ChartsAssumption
  <2>3. Stay(i, col, d[1], d[2]) \in StayResult
    <3> HIDE DEF D
    <3> QED BY <2>1, <2>2, TotalType DEF Stay, StayResult
  <2>4. QED
    BY <2>3
<1>6. QED
  <2> HIDE DEF D, stay
  <2> QED BY <1>3, <1>4, <1>5, ImageFinite

(***************************************************************************)
(* So are the stays of all columns on offer.                               *)
(***************************************************************************)
LEMMA StaysType ==
  ASSUME NEW plan \in Plans, NEW excluded
  PROVE  /\ StaysWithin(plan, excluded) \subseteq StayResult
         /\ IsFiniteSet(StaysWithin(plan, excluded))
         /\ StaysWithin(plan, excluded) \subseteq StaysWithin(plan, {})
<1> DEFINE columns == [i \in DOMAIN Charts |-> {i} \X DOMAIN Charts[i].columns]
           all == UNION {columns[i] : i \in DOMAIN Charts}
           from == [o \in Offered(excluded) |-> StaysFrom(plan, o[1], o[2])]
<1>1. all = UNION {{i} \X DOMAIN Charts[i].columns : i \in DOMAIN Charts}
  OBVIOUS
<1>2. \A o \in all : o[1] \in DOMAIN Charts /\ o[2] \in DOMAIN Charts[o[1]].columns
  BY <1>1
<1>3. IsFiniteSet(all)
  <2>1. IsFiniteSet({columns[i] : i \in DOMAIN Charts})
    <3>1. IsFiniteSet(DOMAIN Charts)
      BY ChartsAssumption
    <3> HIDE DEF columns
    <3>2. QED
      BY <3>1, ImageFinite
  <2>2. \A i \in DOMAIN Charts : IsFiniteSet({i} \X DOMAIN Charts[i].columns)
    BY ChartsAssumption, FS_Singleton, FS_Product
  <2>3. \A i \in DOMAIN Charts : IsFiniteSet(columns[i])
    BY <2>2
  <2>4. QED
    BY <2>1, <2>3, FS_UNION
<1>4. Offered(excluded) \in SUBSET all /\ Offered(excluded) \subseteq Offered({})
  BY <1>1 DEF Offered
<1> HIDE DEF all, columns
<1>5. IsFiniteSet(Offered(excluded))
  BY <1>3, <1>4, FS_Subset
<1>6. StaysWithin(plan, excluded) = UNION {from[o] : o \in Offered(excluded)}
  BY DEF StaysWithin
<1>7. \A o \in Offered(excluded) : from[o] = StaysFrom(plan, o[1], o[2])
  OBVIOUS
<1> HIDE DEF from
<1>8. \A o \in Offered(excluded) : from[o] \subseteq StayResult /\ IsFiniteSet(from[o])
  BY <1>2, <1>4, <1>7, ColumnType
<1>9. IsFiniteSet({from[o] : o \in Offered(excluded)})
  BY <1>5, ImageFinite
<1>10. IsFiniteSet(UNION {from[o] : o \in Offered(excluded)})
  BY <1>8, <1>9, FS_UNION
<1>11. StaysWithin(plan, excluded) \subseteq StaysWithin(plan, {})
  BY <1>4 DEF StaysWithin
<1>12. QED
  BY <1>6, <1>8, <1>10, <1>11

\* What Search sorts n stays by.
SortedBy(n, F) == {d \in F \X F : SortedBefore(n, d[1], d[2])}

(***************************************************************************)
(* The sort is a total order of what was found.                            *)
(***************************************************************************)
LEMMA SortOrders ==
  ASSUME NEW plan \in Plans, NEW excluded, NEW budget \in Int
  PROVE  LET F == Matches(plan, budget, excluded)
             R == SortedBy(Cardinality(F), F)
         IN  /\ F \subseteq StayResult /\ IsFiniteSet(F)
             /\ Orders(R, F)
             /\ \A s, t \in F : CheaperOrEarlier(s, t) => <<s, t>> \in R
<1> DEFINE F == Matches(plan, budget, excluded)
           n == Cardinality(F)
           R == SortedBy(n, F)
<1>1. F \in SUBSET StaysWithin(plan, {}) /\ F \subseteq StayResult
  BY StaysType DEF Matches
<1>2. IsFiniteSet(F) /\ n \in 0..Cardinality(StaysWithin(plan, {}))
  <2>1. IsFiniteSet(StaysWithin(plan, {}))
    BY StaysType
  <2>2. IsFiniteSet(F) /\ n <= Cardinality(StaysWithin(plan, {}))
    BY <1>1, <2>1, FS_Subset
  <2>3. QED
    BY <2>1, <2>2, FS_CardinalityType
<1> HIDE DEF F, n
<1>3. \A s, t \in F :
        /\ Tie(n, s) \in Int /\ Tie(n, t) \in Int
        /\ s # t /\ s.points = t.points /\ s.checkIn = t.checkIn => Tie(n, s) # Tie(n, t)
  BY <1>1, <1>2, TieAssumption
<1>4. \A s \in F : s.points \in Int /\ s.checkIn \in Int
  BY <1>1 DEF StayResult
<1>5. \A s, t \in F : <<s, t>> \in R <=> SortedBefore(n, s, t)
  BY DEF SortedBy
<1>6. \A s \in F : ~SortedBefore(n, s, s)
  BY <1>3, <1>4 DEF SortedBefore
<1>7. \A s, t, u \in F : SortedBefore(n, s, t) /\ SortedBefore(n, t, u) => SortedBefore(n, s, u)
  BY <1>3, <1>4 DEF SortedBefore
<1>8. \A s, t \in F : s = t \/ SortedBefore(n, s, t) \/ SortedBefore(n, t, s)
  BY <1>3, <1>4 DEF SortedBefore
<1>9. Orders(R, F)
  BY <1>5, <1>6, <1>7, <1>8 DEF Orders
<1>10. \A s, t \in F : CheaperOrEarlier(s, t) => <<s, t>> \in R
  BY <1>5 DEF CheaperOrEarlier, SortedBefore
<1>11. QED
  BY <1>1, <1>2, <1>9, <1>10 DEF F, n

(***************************************************************************)
(* Search lists everything it finds, each stay in the place the sort gives *)
(* it.                                                                     *)
(***************************************************************************)
THEOREM SearchListsAll ==
  ASSUME NEW plan \in Plans, NEW excluded, NEW budget \in Int
  PROVE  LET F == Matches(plan, budget, excluded)
             n == Cardinality(F)
             all == Search(plan, budget, excluded)
         IN  /\ n \in Nat /\ all \in Seq(F) /\ Len(all) = n /\ DOMAIN all = 1..n
             /\ \A k \in 1..n :
                  all[k] \in F /\ Cardinality(Preceding(SortedBy(n, F), F, all[k])) = k - 1
             /\ \A s \in F : \E k \in 1..n : all[k] = s
<1> DEFINE F == Matches(plan, budget, excluded)
           n == Cardinality(F)
           R == SortedBy(n, F)
           all == Search(plan, budget, excluded)
<1>1. /\ F \subseteq StayResult /\ IsFiniteSet(F) /\ Orders(R, F)
  BY SortOrders
<1>2. n \in Nat
  BY <1>1, FS_CardinalityType
<1>3. all = [k \in 1..n |->
               CHOOSE s \in F : Cardinality({t \in F : SortedBefore(n, t, s)}) = k - 1]
  BY DEF Search
<1> HIDE DEF F, n, all
<1>4. \A s \in F : Preceding(R, F, s) = {t \in F : SortedBefore(n, t, s)}
  BY DEF Preceding, SortedBy
<1>5. ASSUME NEW k \in 1..n
      PROVE  all[k] \in F /\ Cardinality(Preceding(R, F, all[k])) = k - 1
  <2>1. \E s \in F : Cardinality(Preceding(R, F, s)) = k - 1
    <3> HIDE DEF R
    <3> QED BY <1>1, EveryPlaceTaken DEF n
  <2>2. \E s \in F : Cardinality({t \in F : SortedBefore(n, t, s)}) = k - 1
    BY <1>4, <2>1
  <2>3. all[k] = CHOOSE s \in F : Cardinality({t \in F : SortedBefore(n, t, s)}) = k - 1
    BY <1>3
  <2>4. all[k] \in F /\ Cardinality({t \in F : SortedBefore(n, t, all[k])}) = k - 1
    BY <2>2, <2>3
  <2>5. QED
    BY <1>4, <2>4
<1>6. DOMAIN all = 1..n /\ all \in [1..n -> F]
  BY <1>3, <1>5
<1>7. all \in Seq(F) /\ Len(all) = n
  BY <1>2, <1>6, SeqDef, LenProperties
<1>8. ASSUME NEW s \in F
      PROVE  \E k \in 1..n : all[k] = s
  <2> DEFINE place == Cardinality(Preceding(R, F, s))
  <2>1. place \in Nat /\ place + 1 <= n
    <3>1. Preceding(R, F, s) \cup {s} \in SUBSET F
      BY DEF Preceding
    <3>2. Cardinality(Preceding(R, F, s) \cup {s}) <= n
      BY <1>1, <3>1, FS_Subset DEF n
    <3>3. QED
      <4> HIDE DEF R
      <4> QED BY <1>1, <1>2, <3>2, BeforeAndItself
  <2>2. Cardinality(Preceding(R, F, all[place + 1])) = place /\ all[place + 1] \in F
    BY <1>2, <1>5, <2>1
  <2>3. all[place + 1] = s
    <3> HIDE DEF R
    <3> QED BY <1>1, <2>2, OnePlaceEach
  <2>4. QED
    BY <1>2, <2>1, <2>3
<1>9. QED
  BY <1>2, <1>5, <1>6, <1>7, <1>8 DEF F, n, all

(***************************************************************************)
(* What it lists are stays.                                                *)
(***************************************************************************)
LEMMA ResultType ==
  ASSUME NEW plan \in Plans, NEW excluded, NEW budget \in Int,
         NEW k \in DOMAIN Search(plan, budget, excluded)
  PROVE  Search(plan, budget, excluded)[k] \in StayResult
<1> DEFINE F == Matches(plan, budget, excluded)
<1>1. F \subseteq StayResult
  BY SortOrders
<1>2. /\ DOMAIN Search(plan, budget, excluded) = 1..Cardinality(F)
      /\ \A j \in 1..Cardinality(F) : Search(plan, budget, excluded)[j] \in F
  BY SearchListsAll
<1> HIDE DEF F
<1>3. QED
  BY <1>1, <1>2

(***************************************************************************)
(* A budget only cuts the list off at its end: with another budget, the    *)
(* same row is a stay of the same points and check-in.                     *)
(***************************************************************************)
THEOREM SameRowSameKey ==
  ASSUME NEW plan \in Plans, NEW excluded, NEW b \in Int, NEW c \in Int,
         NEW k \in DOMAIN Search(plan, b, excluded), k \in DOMAIN Search(plan, c, excluded)
  PROVE  /\ Search(plan, b, excluded)[k].points = Search(plan, c, excluded)[k].points
         /\ Search(plan, b, excluded)[k].checkIn = Search(plan, c, excluded)[k].checkIn
<1>1. ASSUME NEW x \in Int, NEW y \in Int, x <= y,
             k \in DOMAIN Search(plan, x, excluded), k \in DOMAIN Search(plan, y, excluded)
      PROVE  /\ Search(plan, x, excluded)[k].points = Search(plan, y, excluded)[k].points
             /\ Search(plan, x, excluded)[k].checkIn = Search(plan, y, excluded)[k].checkIn
  <2> DEFINE C == Matches(plan, x, excluded)
             F == Matches(plan, y, excluded)
             Q == SortedBy(Cardinality(C), C)
             R == SortedBy(Cardinality(F), F)
             s == Search(plan, x, excluded)[k]
             t == Search(plan, y, excluded)[k]
  <2>1. /\ F \subseteq StayResult /\ IsFiniteSet(F) /\ Orders(R, F) /\ Orders(Q, C)
        /\ \A u, v \in F : CheaperOrEarlier(u, v) => <<u, v>> \in R
        /\ \A u, v \in C : CheaperOrEarlier(u, v) => <<u, v>> \in Q
    BY SortOrders
  <2>2. \A u \in F : u.points \in Int /\ u.checkIn \in Int
    BY <2>1 DEF StayResult
  <2>3. C = {u \in F : u.points <= x}
    <3>1. \A u \in StaysWithin(plan, excluded) : u.points \in Int
      BY StaysType DEF StayResult
    <3>2. QED
      BY <1>1, <3>1 DEF Matches
  <2>4. /\ s \in C /\ Cardinality(Preceding(Q, C, s)) = k - 1
        /\ t \in F /\ Cardinality(Preceding(R, F, t)) = k - 1
    <3>1. s \in C /\ Cardinality(Preceding(Q, C, s)) = k - 1
      <4>1. /\ DOMAIN Search(plan, x, excluded) = 1..Cardinality(C)
            /\ \A j \in 1..Cardinality(C) :
                 /\ Search(plan, x, excluded)[j] \in C
                 /\ Cardinality(Preceding(Q, C, Search(plan, x, excluded)[j])) = j - 1
        BY SearchListsAll
      <4>2. QED
        BY <1>1, <4>1
    <3>2. t \in F /\ Cardinality(Preceding(R, F, t)) = k - 1
      <4>1. /\ DOMAIN Search(plan, y, excluded) = 1..Cardinality(F)
            /\ \A j \in 1..Cardinality(F) :
                 /\ Search(plan, y, excluded)[j] \in F
                 /\ Cardinality(Preceding(R, F, Search(plan, y, excluded)[j])) = j - 1
        BY SearchListsAll
      <4>2. QED
        BY <1>1, <4>1
    <3>3. QED
      BY <3>1, <3>2
  <2>5. QED
    <3> HIDE DEF C, F, Q, R, s, t
    <3>1. s.points = t.points /\ s.checkIn = t.checkIn
      BY <2>1, <2>2, <2>3, <2>4, CutOffAtTheEnd
    <3>2. QED
      BY <3>1 DEF s, t
<1>2. QED
  BY <1>1

-----------------------------------------------------------------------------
(* Types.                                                                  *)
(*                                                                         *)
(* What a handler has in its locals depends on where it is: a row has been *)
(* fetched before it is edited or shown, and the request says of what kind *)
(* it is.                                                                  *)

Pcs == {"ready", "create", "get", "edit", "save", "stays", "budget", "search", "act",
        "lock", "saving"}

Edits == {"update", "setBudget", "clearBudget", "mode", "toggle", "reset"}
OfATrip == Edits \cup {"open", "book", "unbook", "delete", "addStay", "removeStay"}

\* What a request of each kind carries.
Asks(o) ==
  /\ o.kind \in OfATrip \cup {"create", "global"}
  /\ o.kind \in OfATrip => o.trip \in TripIds
  /\ o.kind \in {"create", "update"} => o.form \in Plans \cup {Invalid}
  /\ o.kind = "setBudget" => o.form \in Budgets \cup {Invalid}
  /\ o.kind = "mode" => o.mode \in {"inherit", "override"}
  /\ o.kind \in {"toggle", "global"} => o.code \in Codes

PageView == [trip : TripIds, plan : Plans, left : Int, excluded : SUBSET Codes]

\* What a handler may be asked for where it is.
AskedAt(where, o) ==
  /\ Asks(o)
  /\ where = "create" => o.kind = "create"
  /\ where \in {"lock", "saving"} => o.kind = "global"
  /\ where = "get" => o.kind \in OfATrip \ {"delete", "removeStay"}
  /\ where \in {"edit", "save"} =>
       o.kind \in Edits /\ (o.kind \in {"update", "setBudget"} => o.form # Invalid)
  /\ where \in {"stays", "budget", "search"} => o.kind \in OfATrip
  /\ where = "act" => o.kind \in {"book", "unbook", "delete", "removeStay"}

ClientTypes(c) ==
  /\ pc[c] \in Pcs
  /\ pc[c] # "ready" => AskedAt(pc[c], op[c])
  /\ row[c] = NoRow \/ row[c] \in Row
  /\ pc[c] \in {"edit", "save", "stays", "budget", "search"} => row[c] \in Row
  /\ left[c] \in Int
  /\ page[c] = None \/ page[c] \in PageView
  /\ data[c] \subseteq Codes

Domains ==
  /\ DOMAIN pc = Clients /\ DOMAIN op = Clients /\ DOMAIN row = Clients
  /\ DOMAIN read = Clients /\ DOMAIN page = Clients /\ DOMAIN data = Clients
  /\ left \in [Clients -> Int]

TableTypes ==
  /\ DOMAIN trips \subseteq TripIds /\ trips \in [DOMAIN trips -> Row]
  /\ stays \subseteq StayRow /\ IsFiniteSet(stays)
  /\ used \in [trips : SUBSET TripIds, stays : SUBSET StayIds]
  /\ total \in Int
  /\ memory \subseteq Codes /\ file \subseteq Codes
  /\ mu \in Clients \cup {None}

TypeInv == TableTypes /\ Domains /\ \A c \in Clients : ClientTypes(c)

(***************************************************************************)
(* A step of one client leaves the locals of the others alone.             *)
(***************************************************************************)
LEMMA OneClientSteps ==
  ASSUME Domains, NEW c \in Clients, Send(c) \/ Handle(c) \/ Fail(c)
  PROVE  /\ DOMAIN pc' = Clients /\ DOMAIN op' = Clients /\ DOMAIN row' = Clients
         /\ DOMAIN read' = Clients /\ DOMAIN page' = Clients /\ DOMAIN data' = Clients
         /\ DOMAIN left' = Clients /\ left' = [q \in Clients |-> left'[q]]
         /\ \A q \in Clients \ {c} :
              /\ pc'[q] = pc[q] /\ op'[q] = op[q] /\ row'[q] = row[q] /\ read'[q] = read[q]
              /\ left'[q] = left[q] /\ page'[q] = page[q] /\ data'[q] = data[q]
<1> USE DEF Domains, Go, Finish, ThenShow, locals, filters
<1>1. CASE Send(c)
  BY <1>1 DEF Send
<1>2. CASE CreateTrip(c)
  BY <1>2 DEF CreateTrip
<1>3. CASE GetTrip(c)
  BY <1>3 DEF GetTrip
<1>4. CASE Edit(c) \/ Save(c)
  BY <1>4 DEF Edit, Save
<1>5. CASE ListStays(c) \/ TripBudget(c) \/ ShowTrip(c)
  BY <1>5 DEF ListStays, TripBudget, ShowTrip
<1>6. CASE InsertStay(c)
  BY <1>6 DEF InsertStay
<1>7. CASE BookTrip(c) \/ UnbookTrip(c) \/ RemoveStay(c) \/ DeleteTrip(c)
  BY <1>7 DEF BookTrip, UnbookTrip, RemoveStay, DeleteTrip
<1>8. CASE ToggleGlobal(c) \/ SaveConfig(c)
  BY <1>8 DEF ToggleGlobal, SaveConfig
<1>9. CASE Fail(c)
  BY <1>9 DEF Fail
<1>10. QED
  BY <1>1, <1>2, <1>3, <1>4, <1>5, <1>6, <1>7, <1>8, <1>9 DEF Handle

(***************************************************************************)
(* Sums of points, budgets and filters have their types.                   *)
(***************************************************************************)
LEMMA PointsType ==
  ASSUME NEW rows, rows \subseteq StayRow, IsFiniteSet(rows)
  PROVE  Points(rows) \in Nat
<1> DEFINE f == [s \in rows |-> s.result.points]
<1>1. \A s \in rows : f[s] \in Nat
  BY DEF StayRow
<1>2. SumOver(f, rows) \in Nat
  <2> HIDE DEF f
  <2> QED BY <1>1, SumType
<1>3. QED
  BY <1>2 DEF Points

\* What a trip is searched with: a budget and filters of their types.
LEMMA EffectiveTypes ==
  ASSUME TableTypes, NEW t \in Row
  PROVE  EffectiveFilters(t) \subseteq Codes /\ effectiveBudget(t) \in Int /\ t.plan \in Plans
<1>1. t.override \in Budgets \cup {None} /\ t.excluded \subseteq Codes /\ t.plan \in Plans
  BY DEF Row
<1>2. QED
  BY <1>1, FormsAssumption DEF TableTypes, EffectiveFilters, effectiveBudget

(***************************************************************************)
(* Whatever a client may send is a request that its handler understands,   *)
(* and a row number it sends is one of its page's.                         *)
(***************************************************************************)
LEMMA SentIsAsked ==
  ASSUME NEW p, NEW o, o \in Anywhere \/ (p \in PageView /\ o \in OnPage(p))
  PROVE  /\ AskedAt(Starts(o.kind), o)
         /\ o.kind = "addStay" => p \in PageView /\ o.number \in DOMAIN Shown(p)
<1>1. CASE o \in Anywhere
  <2>1. \/ o.kind = "open" /\ o.trip \in TripIds
        \/ o.kind = "create" /\ o.form \in Plans \cup {Invalid}
        \/ o.kind = "global" /\ o.code \in Codes
    BY <1>1 DEF Anywhere
  <2>2. QED
    BY <2>1 DEF AskedAt, Asks, Starts, OfATrip, Edits
<1>2. CASE p \in PageView /\ o \in OnPage(p)
  <2>1. p.trip \in TripIds
    BY <1>2 DEF PageView
  <2>2. /\ o.trip = p.trip
        /\ \/ o.kind \in {"clearBudget", "book", "unbook", "delete", "reset"}
           \/ o.kind = "update" /\ o.form \in Plans \cup {Invalid}
           \/ o.kind = "setBudget" /\ o.form \in Budgets \cup {Invalid}
           \/ o.kind = "addStay" /\ o.number \in DOMAIN Shown(p)
           \/ o.kind = "removeStay"
           \/ o.kind = "mode" /\ o.mode \in {"inherit", "override"}
           \/ o.kind = "toggle" /\ o.code \in Codes
    BY <1>2 DEF OnPage
  <2>3. QED
    BY <1>2, <2>1, <2>2 DEF AskedAt, Asks, Starts, OfATrip, Edits
<1>3. QED
  BY <1>1, <1>2

(***************************************************************************)
(* The row a handler writes has the type of a row.                         *)
(***************************************************************************)
LEMMA EditedType ==
  ASSUME NEW o, Asks(o), o.kind \in Edits,
         o.kind \in {"update", "setBudget"} => o.form # Invalid,
         NEW t \in Row, memory \subseteq Codes
  PROVE  Edited(o, t) \in Row
<1>1. /\ t.plan \in Plans /\ t.override \in Budgets \cup {None}
      /\ t.mode \in {"inherit", "override"} /\ t.excluded \subseteq Codes
  BY DEF Row
<1>2. CASE o.kind = "update"
  <2>1. Edited(o, t) = [t EXCEPT !.plan = o.form] /\ o.form \in Plans
    BY <1>2 DEF Edited, Asks
  <2>2. QED
    BY <2>1 DEF Row
<1>3. CASE o.kind = "setBudget"
  <2>1. Edited(o, t) = [t EXCEPT !.override = o.form] /\ o.form \in Budgets
    BY <1>3 DEF Edited, Asks
  <2>2. QED
    BY <2>1 DEF Row
<1>4. CASE o.kind = "clearBudget"
  BY <1>4 DEF Edited, Row
<1>5. CASE o.kind = "toggle"
  <2>1. Edited(o, t) = [t EXCEPT !.excluded = Toggle(t.excluded, o.code)] /\ o.code \in Codes
    BY <1>5 DEF Edited, Asks
  <2>2. Toggle(t.excluded, o.code) \subseteq Codes
    BY <1>1, <2>1 DEF Toggle
  <2>3. QED
    BY <2>1, <2>2 DEF Row
<1>6. Inheriting(t) \in Row
  BY DEF Inheriting, Row
<1>7. CASE o.kind = "reset"
  BY <1>6, <1>7 DEF Edited
<1>8. CASE o.kind = "mode"
  <2>1. [t EXCEPT !.mode = "override", !.excluded = memory] \in Row
    BY DEF Row
  <2>2. QED
    BY <1>6, <1>8, <2>1 DEF Edited
<1>9. QED
  BY <1>2, <1>3, <1>4, <1>5, <1>7, <1>8 DEF Edits

(***************************************************************************)
(* The tables and the filters have their types at first.                   *)
(***************************************************************************)
LEMMA TypeInit == Init => TypeInv
<1> SUFFICES ASSUME Init PROVE TypeInv
  OBVIOUS
<1>1. DOMAIN trips \subseteq TripIds /\ trips \in [DOMAIN trips -> Row]
  BY StartAssumption DEF Init
<1>2. TableTypes
  BY <1>1, FormsAssumption, FS_EmptySet DEF Init, TableTypes
<1>3. /\ pc = [c \in Clients |-> "ready"] /\ op = [c \in Clients |-> None]
      /\ row = [c \in Clients |-> NoRow] /\ read = row
      /\ left = [c \in Clients |-> 0] /\ data = [c \in Clients |-> {}]
      /\ page \in [Clients -> {FreshPage(id) : id \in DOMAIN trips}]
  BY DEF Init
<1>4. \A id \in DOMAIN trips : FreshPage(id) \in PageView
  BY <1>1, <1>2, EffectiveTypes DEF FreshPage, PageView
<1>5. \A c \in Clients : page[c] \in PageView
  BY <1>3, <1>4
<1>6. Domains
  BY <1>3 DEF Domains
<1>7. \A c \in Clients : ClientTypes(c)
  BY <1>3, <1>5 DEF ClientTypes, Pcs
<1>8. QED
  BY <1>2, <1>6, <1>7 DEF TypeInv

(***************************************************************************)
(* Steps that leave the tables alone.                                      *)
(***************************************************************************)
LEMMA TypeFetch ==
  ASSUME TypeInv, NEW c \in Clients, Send(c) \/ GetTrip(c) \/ Edit(c) \/ Fail(c)
  PROVE  TableTypes' /\ ClientTypes(c)'
<1>1. TableTypes /\ Domains /\ ClientTypes(c)
  BY DEF TypeInv
<1>2. TableTypes'
  BY <1>1 DEF TableTypes, Send, GetTrip, Edit, Fail, tables, filters
<1>3. CASE Send(c)
  <2>1. PICK o \in Anywhere \cup (IF page[c] = None THEN {} ELSE OnPage(page[c])) :
               op' = [op EXCEPT ![c] = o] /\ Go(c, Starts(o.kind))
    BY <1>3 DEF Send
  <2>2. AskedAt(Starts(o.kind), o)
    BY <1>1, <2>1, SentIsAsked DEF ClientTypes
  <2>3. op'[c] = o /\ pc'[c] = Starts(o.kind) /\ UNCHANGED <<row, left, page, data>>
    BY <1>1, <1>3, <2>1 DEF Domains, Go, Send, filters
  <2>4. Starts(o.kind) \in {"create", "lock", "act", "get"}
    BY DEF Starts
  <2>5. QED
    BY <1>1, <1>2, <2>2, <2>3, <2>4 DEF ClientTypes, Pcs
<1>4. CASE GetTrip(c)
  <2>1. UNCHANGED <<page, data>> /\ pc[c] = "get"
    BY <1>4 DEF GetTrip, filters
  <2>2. CASE /\ op[c].trip \in DOMAIN trips
             /\ row' = [row EXCEPT ![c] = trips[op[c].trip]]
             /\ Go(c, AfterGet(op[c]))
             /\ UNCHANGED <<op, left>>
    <3>1. row'[c] \in Row /\ pc'[c] = AfterGet(op[c]) /\ op'[c] = op[c] /\ left'[c] = left[c]
      BY <1>1, <2>2 DEF Domains, Go, TableTypes
    <3>2. AskedAt("get", op[c])
      BY <1>1, <2>1 DEF ClientTypes
    <3>3. AskedAt(AfterGet(op[c]), op[c]) /\ AfterGet(op[c]) \in {"stays", "edit", "act"}
      <4>1. \/ AfterGet(op[c]) = "stays"
            \/ /\ AfterGet(op[c]) = "edit" /\ op[c].kind \in Edits
               /\ op[c].kind \in {"update", "setBudget"} => op[c].form # Invalid
            \/ AfterGet(op[c]) = "act" /\ op[c].kind \in {"book", "unbook"}
        BY DEF AfterGet, Edits
      <4>2. QED
        BY <3>2, <4>1 DEF AskedAt
    <3>4. QED
      BY <1>1, <1>2, <2>1, <3>1, <3>3 DEF ClientTypes, Pcs
  <2>3. CASE Finish(c)
    BY <1>1, <1>2, <2>1, <2>3 DEF Finish, Go, Domains, ClientTypes, Pcs
  <2>4. QED
    BY <1>4, <2>2, <2>3 DEF GetTrip
<1>5. CASE Edit(c)
  <2>1. /\ pc[c] = "edit" /\ row'[c] = Edited(op[c], row[c]) /\ pc'[c] = "save"
        /\ UNCHANGED <<op, left, page, data>>
    BY <1>1, <1>5 DEF Edit, Domains, Go, filters
  <2>2. AskedAt("edit", op[c]) /\ row[c] \in Row
    BY <1>1, <2>1 DEF ClientTypes
  <2>3. row'[c] \in Row
    BY <1>1, <2>1, <2>2, EditedType DEF AskedAt, TableTypes
  <2>4. QED
    BY <1>1, <1>2, <2>1, <2>2, <2>3 DEF ClientTypes, Pcs, AskedAt
<1>6. CASE Fail(c)
  BY <1>1, <1>2, <1>6 DEF Fail, filters, Finish, Go, Domains, ClientTypes, Pcs
<1>7. QED
  BY <1>2, <1>3, <1>4, <1>5, <1>6

(***************************************************************************)
(* Steps that write a trip, and those of the filters.                      *)
(***************************************************************************)
LEMMA TypeWrite ==
  ASSUME TypeInv, NEW c \in Clients,
         CreateTrip(c) \/ Save(c) \/ ToggleGlobal(c) \/ SaveConfig(c)
  PROVE  TableTypes' /\ ClientTypes(c)'
<1>1. TableTypes /\ Domains /\ ClientTypes(c)
  BY DEF TypeInv
<1>2. CASE CreateTrip(c)
  <2>1. /\ UNCHANGED <<stays, total, memory, file, mu, data, page>> /\ pc[c] = "create"
    BY <1>2 DEF CreateTrip, filters
  <2>2. AskedAt("create", op[c])
    BY <1>1, <2>1 DEF ClientTypes
  <2>3. CASE /\ op[c].form # Invalid
             /\ \E id \in TripIds \ used.trips :
                  /\ trips' = [i \in DOMAIN trips \cup {id} |->
                       IF i = id THEN [NoRow EXCEPT !.plan = op[c].form] ELSE trips[i]]
                  /\ used' = [used EXCEPT !.trips = @ \cup {id}]
                  /\ ThenShow(c, id)
             /\ UNCHANGED <<row, read, left>>
    <3>1. PICK id \in TripIds \ used.trips :
                  /\ trips' = [i \in DOMAIN trips \cup {id} |->
                       IF i = id THEN [NoRow EXCEPT !.plan = op[c].form] ELSE trips[i]]
                  /\ used' = [used EXCEPT !.trips = @ \cup {id}]
                  /\ ThenShow(c, id)
      BY <2>3
    <3>2. op[c].form \in Plans
      BY <2>2, <2>3 DEF AskedAt, Asks
    <3>3. [NoRow EXCEPT !.plan = op[c].form] \in Row
      BY <3>2 DEF NoRow, Row
    <3>4. DOMAIN trips' \subseteq TripIds /\ trips' \in [DOMAIN trips' -> Row]
      BY <1>1, <3>1, <3>3 DEF TableTypes
    <3>5. used' \in [trips : SUBSET TripIds, stays : SUBSET StayIds]
      BY <1>1, <3>1 DEF TableTypes
    <3>6. op'[c] = [kind |-> "open", trip |-> id] /\ pc'[c] = "get"
      BY <1>1, <3>1 DEF ThenShow, Go, Domains
    <3>7. AskedAt("get", op'[c])
      BY <3>1, <3>6 DEF AskedAt, Asks, OfATrip, Edits
    <3>8. QED
      BY <1>1, <2>1, <2>3, <3>4, <3>5, <3>6, <3>7 DEF TableTypes, ClientTypes, Pcs
  <2>4. CASE Finish(c) /\ UNCHANGED <<trips, used>>
    BY <1>1, <2>1, <2>4 DEF Finish, Go, Domains, ClientTypes, Pcs, TableTypes
  <2>5. QED
    BY <1>2, <2>3, <2>4 DEF CreateTrip
<1>3. CASE Save(c)
  <2>1. /\ UNCHANGED <<stays, used, total, memory, file, mu, data, page, row, left>>
        /\ pc[c] = "save" /\ UpdateTrip(op[c].trip, row[c])
    BY <1>3 DEF Save, filters
  <2>2. AskedAt("save", op[c]) /\ row[c] \in Row
    BY <1>1, <2>1 DEF ClientTypes
  <2>3. DOMAIN trips' \subseteq TripIds /\ trips' \in [DOMAIN trips' -> Row]
    BY <1>1, <2>1, <2>2 DEF TableTypes, UpdateTrip
  <2>4. TableTypes'
    BY <1>1, <2>1, <2>3 DEF TableTypes
  <2>5. \/ pc'[c] = "stays" /\ op'[c] = op[c]
        \/ pc'[c] = "get" /\ op'[c] = [kind |-> "open", trip |-> op[c].trip]
    BY <1>1, <1>3 DEF Save, ThenShow, Go, Domains
  <2>6. AskedAt(pc'[c], op'[c])
    BY <2>2, <2>5 DEF AskedAt, Asks, OfATrip, Edits
  <2>7. QED
    BY <1>1, <2>1, <2>2, <2>4, <2>5, <2>6 DEF ClientTypes, Pcs
<1>4. CASE ToggleGlobal(c)
  <2>1. /\ UNCHANGED <<trips, stays, used, total, file, op, row, left, page>>
        /\ pc[c] = "lock" /\ mu' = c /\ memory' = Toggle(memory, op[c].code)
        /\ data'[c] = memory' /\ pc'[c] = "saving"
    BY <1>1, <1>4 DEF ToggleGlobal, tables, locals, Go, Domains
  <2>2. AskedAt("lock", op[c])
    BY <1>1, <2>1 DEF ClientTypes
  <2>3. memory' \subseteq Codes
    BY <1>1, <2>1, <2>2 DEF Toggle, AskedAt, Asks, TableTypes
  <2>4. QED
    BY <1>1, <2>1, <2>2, <2>3 DEF TableTypes, ClientTypes, Pcs, AskedAt
<1>5. CASE SaveConfig(c)
  <2>1. /\ UNCHANGED <<trips, stays, used, total, memory, page>> /\ Finish(c)
        /\ mu' = None /\ file' \in {data[c], file} /\ data'[c] = {}
    BY <1>1, <1>5 DEF SaveConfig, tables, Domains
  <2>2. QED
    BY <1>1, <2>1 DEF Finish, Go, Domains, TableTypes, ClientTypes, Pcs
<1>6. QED
  BY <1>2, <1>3, <1>4, <1>5

(***************************************************************************)
(* Steps that build the page of a trip.                                    *)
(***************************************************************************)
LEMMA QueryType ==
  ASSUME TypeInv, NEW c \in Clients, pc[c] = "search"
  PROVE  Query(c) \in PageView
<1>1. TableTypes /\ row[c] \in Row /\ left[c] \in Int /\ AskedAt("search", op[c])
  BY DEF TypeInv, ClientTypes
<1>2. op[c].trip \in TripIds
  BY <1>1 DEF AskedAt, Asks
<1>3. QED
  BY <1>1, <1>2, EffectiveTypes DEF Query, PageView

\* They read the tables, and what InsertStay adds is a stay of the search.
LEMMA TypeShow ==
  ASSUME TypeInv, NEW c \in Clients,
         ListStays(c) \/ TripBudget(c) \/ ShowTrip(c) \/ InsertStay(c)
  PROVE  TableTypes' /\ ClientTypes(c)'
<1>1. TableTypes /\ Domains /\ ClientTypes(c)
  BY DEF TypeInv
<1>2. CASE ListStays(c)
  <2> DEFINE rows == {s \in StaysOf(op[c].trip) : ~s.booked}
  <2>1. rows \in SUBSET stays /\ rows \subseteq StayRow
    BY <1>1 DEF StaysOf, TableTypes
  <2>2. Points(rows) \in Nat
    <3>1. IsFiniteSet(rows)
      BY <1>1, <2>1, FS_Subset DEF TableTypes
    <3> HIDE DEF rows
    <3>2. QED
      BY <2>1, <3>1, PointsType
  <2>3. /\ UNCHANGED <<trips, stays, used, total, memory, file, mu, op, row, page, data>>
        /\ pc[c] = "stays" /\ pc'[c] = "budget" /\ left'[c] = -Points(rows)
    BY <1>1, <1>2 DEF ListStays, tables, filters, Go, Domains
  <2>4. left'[c] \in Int
    BY <2>2, <2>3
  <2>5. QED
    BY <1>1, <2>3, <2>4 DEF TableTypes, ClientTypes, Pcs, AskedAt
<1>3. CASE TripBudget(c)
  <2>1. /\ UNCHANGED <<trips, stays, used, total, memory, file, mu, op, row, page, data>>
        /\ pc[c] = "budget" /\ pc'[c] = "search"
        /\ left'[c] = left[c] + effectiveBudget(row[c])
    BY <1>1, <1>3 DEF TripBudget, tables, filters, Go, Domains
  <2>2. left'[c] \in Int
    BY <1>1, <2>1, EffectiveTypes DEF ClientTypes
  <2>3. QED
    BY <1>1, <2>1, <2>2 DEF TableTypes, ClientTypes, Pcs, AskedAt
<1>4. CASE ShowTrip(c)
  <2>1. /\ UNCHANGED <<trips, stays, used, total, memory, file, mu, data>>
        /\ pc[c] = "search" /\ page'[c] = Query(c) /\ Finish(c)
    BY <1>1, <1>4 DEF ShowTrip, tables, filters, Domains
  <2>2. Query(c) \in PageView
    BY <2>1, QueryType
  <2>3. QED
    BY <1>1, <2>1, <2>2 DEF Finish, Go, Domains, TableTypes, ClientTypes, Pcs
<1>5. CASE InsertStay(c)
  <2> DEFINE results == Search(row[c].plan, left[c], EffectiveFilters(row[c]))
  <2>1. /\ UNCHANGED <<trips, total, memory, file, mu, data, page>> /\ pc[c] = "search"
    BY <1>5 DEF InsertStay, filters
  <2>2. CASE /\ op[c].number \in DOMAIN results /\ op[c].trip \in DOMAIN trips
             /\ \E id \in StayIds \ used.stays :
                  /\ stays' = stays \cup {[id |-> id, trip |-> op[c].trip, booked |-> FALSE,
                                          result |-> results[op[c].number]]}
                  /\ used' = [used EXCEPT !.stays = @ \cup {id}]
             /\ ThenShow(c, op[c].trip)
             /\ UNCHANGED <<row, read, left>>
    <3>1. PICK id \in StayIds \ used.stays :
                  /\ stays' = stays \cup {[id |-> id, trip |-> op[c].trip, booked |-> FALSE,
                                          result |-> results[op[c].number]]}
                  /\ used' = [used EXCEPT !.stays = @ \cup {id}]
      BY <2>2
    <3>2. results[op[c].number] \in StayResult
      <4>1. row[c].plan \in Plans /\ left[c] \in Int
        BY <1>1, <2>1, EffectiveTypes DEF ClientTypes
      <4>2. QED
        BY <2>2, <4>1, ResultType
    <3>3. op[c].trip \in TripIds
      BY <1>1, <2>2 DEF TableTypes
    <3> HIDE DEF results
    <3>4. stays' \subseteq StayRow /\ IsFiniteSet(stays')
      <4>1. [id |-> id, trip |-> op[c].trip, booked |-> FALSE,
             result |-> results[op[c].number]] \in StayRow
        BY <3>2, <3>3 DEF StayRow, StayResult
      <4>2. QED
        BY <1>1, <3>1, <4>1, FS_AddElement DEF TableTypes
    <3>5. used' \in [trips : SUBSET TripIds, stays : SUBSET StayIds]
      BY <1>1, <3>1 DEF TableTypes
    <3>6. op'[c] = [kind |-> "open", trip |-> op[c].trip] /\ pc'[c] = "get"
      BY <1>1, <2>2 DEF ThenShow, Go, Domains
    <3>7. AskedAt("get", op'[c])
      BY <3>3, <3>6 DEF AskedAt, Asks, OfATrip, Edits
    <3>8. QED
      BY <1>1, <2>1, <2>2, <3>4, <3>5, <3>6, <3>7 DEF TableTypes, ClientTypes, Pcs
  <2>3. CASE Finish(c) /\ UNCHANGED <<stays, used>>
    BY <1>1, <2>1, <2>3 DEF Finish, Go, Domains, ClientTypes, Pcs, TableTypes
  <2>4. QED
    BY <1>5, <2>2, <2>3 DEF InsertStay, Query
<1>6. QED
  BY <1>2, <1>3, <1>4, <1>5

(***************************************************************************)
(* Steps that move points between the ledger and the stays.                *)
(***************************************************************************)
LEMMA MarkType ==
  ASSUME stays \subseteq StayRow, IsFiniteSet(stays), NEW rows, rows \subseteq stays,
         NEW b \in BOOLEAN, Mark(rows, b)
  PROVE  stays' \subseteq StayRow /\ IsFiniteSet(stays') /\ Points(rows) \in Nat
<1> DEFINE g == [s \in rows |-> [s EXCEPT !.booked = b]]
<1>1. IsFiniteSet(rows) /\ IsFiniteSet(stays \ rows) /\ rows \subseteq StayRow
  BY FS_Subset
<1>2. \A s \in rows : g[s] \in StayRow
  BY <1>1 DEF StayRow
<1>3. {g[s] : s \in rows} = {[s EXCEPT !.booked = b] : s \in rows}
  OBVIOUS
<1>4. stays' = (stays \ rows) \cup {g[s] : s \in rows}
  BY <1>3 DEF Mark
<1> HIDE DEF g
<1>5. IsFiniteSet({g[s] : s \in rows})
  BY <1>1, ImageFinite
<1>6. Points(rows) \in Nat
  BY <1>1, PointsType
<1>7. QED
  BY <1>1, <1>2, <1>4, <1>5, <1>6, FS_Union

\* BookTrip, UnbookTrip, RemoveStay and DeleteTrip keep the types.
LEMMA TypeBook ==
  ASSUME TypeInv, NEW c \in Clients,
         BookTrip(c) \/ UnbookTrip(c) \/ RemoveStay(c) \/ DeleteTrip(c)
  PROVE  TableTypes' /\ ClientTypes(c)'
<1>1. TableTypes /\ Domains /\ ClientTypes(c)
  BY DEF TypeInv
<1>2. /\ pc[c] = "act"
      /\ UNCHANGED <<used, memory, file, mu, data>>
      /\ op[c].trip \in TripIds
  BY <1>1 DEF BookTrip, UnbookTrip, RemoveStay, DeleteTrip, filters, ClientTypes, AskedAt, Asks,
              OfATrip
<1>3. stays' \subseteq StayRow /\ IsFiniteSet(stays') /\ total' \in Int
  <2>1. CASE UNCHANGED <<stays, total>>
    BY <1>1, <2>1 DEF TableTypes
  <2>2. ASSUME NEW b \in BOOLEAN, NEW rows, rows \subseteq stays, Mark(rows, b),
               total' \in {total - Points(rows), total + Points(rows)}
        PROVE  stays' \subseteq StayRow /\ IsFiniteSet(stays') /\ total' \in Int
    <3>1. stays' \subseteq StayRow /\ IsFiniteSet(stays') /\ Points(rows) \in Nat
      BY <1>1, <2>2, MarkType DEF TableTypes
    <3>2. QED
      BY <1>1, <2>2, <3>1 DEF TableTypes
  <2>3. ASSUME NEW rows, rows \subseteq stays, Delete(rows)
        PROVE  stays' \subseteq StayRow /\ IsFiniteSet(stays') /\ total' \in Int
    <3> DEFINE paid == {s \in rows : s.booked}
    <3>1. stays' \in SUBSET stays /\ paid \in SUBSET stays /\ total' = total + Points(paid)
      BY <2>3 DEF Delete, Paid
    <3> HIDE DEF paid
    <3>2. IsFiniteSet(stays') /\ IsFiniteSet(paid) /\ paid \subseteq StayRow
      BY <1>1, <3>1, FS_Subset DEF TableTypes
    <3>3. Points(paid) \in Nat
      BY <3>2, PointsType
    <3>4. QED
      BY <1>1, <3>1, <3>2, <3>3 DEF TableTypes
  <2>4. CASE BookTrip(c)
    BY <2>1, <2>2, <2>4 DEF BookTrip, StaysOf
  <2>5. CASE UnbookTrip(c)
    BY <2>2, <2>5 DEF UnbookTrip, StaysOf
  <2>6. CASE RemoveStay(c)
    BY <2>3, <2>6 DEF RemoveStay
  <2>7. CASE DeleteTrip(c)
    BY <2>3, <2>7 DEF DeleteTrip, StaysOf
  <2>8. QED
    BY <2>4, <2>5, <2>6, <2>7
<1>4. DOMAIN trips' \subseteq TripIds /\ trips' \in [DOMAIN trips' -> Row]
  BY <1>1 DEF BookTrip, UnbookTrip, RemoveStay, DeleteTrip, TableTypes
<1>5. TableTypes'
  BY <1>1, <1>2, <1>3, <1>4 DEF TableTypes
<1>6. page'[c] \in {page[c], None}
  BY <1>1 DEF BookTrip, UnbookTrip, RemoveStay, DeleteTrip, Domains
<1>7. CASE ThenShow(c, op[c].trip) /\ UNCHANGED <<row, left>>
  <2>1. op'[c] = [kind |-> "open", trip |-> op[c].trip] /\ pc'[c] = "get"
    BY <1>1, <1>7 DEF ThenShow, Go, Domains
  <2>2. AskedAt("get", op'[c])
    BY <1>2, <2>1 DEF AskedAt, Asks, OfATrip, Edits
  <2>3. QED
    BY <1>1, <1>2, <1>5, <1>6, <1>7, <2>1, <2>2 DEF ClientTypes, Pcs
<1>8. CASE Finish(c)
  BY <1>1, <1>2, <1>5, <1>6, <1>8 DEF Finish, Go, Domains, ClientTypes, Pcs
<1>9. QED
  BY <1>7, <1>8 DEF BookTrip, UnbookTrip, RemoveStay, DeleteTrip

(***************************************************************************)
(* Every step keeps the types.                                             *)
(***************************************************************************)
LEMMA TypeNext == TypeInv /\ [Next]_vars => TypeInv'
<1> SUFFICES ASSUME TypeInv, [Next]_vars PROVE TypeInv'
  OBVIOUS
<1>1. CASE Idle \/ UNCHANGED vars
  <2>1. UNCHANGED <<trips, stays, used, total, memory, file, mu, unsaved, data, pc, op, row,
                    read, left, page>>
    BY <1>1 DEF Idle, vars, tables, filters, locals
  <2>2. QED
    BY <2>1 DEF TypeInv, TableTypes, Domains, ClientTypes
<1>2. CASE Restart
  <2>1. UNCHANGED <<trips, stays, used, total, file, page>>
    BY <1>2 DEF Restart, tables
  <2>2. QED
    BY <1>2, <2>1 DEF Restart, TypeInv, TableTypes, Domains, ClientTypes, Pcs
<1>3. ASSUME NEW c \in Clients, Send(c) \/ Handle(c) \/ Fail(c)
      PROVE  TypeInv'
  <2>1. TableTypes' /\ ClientTypes(c)'
    BY <1>3, TypeFetch, TypeWrite, TypeShow, TypeBook DEF Handle
  <2>2. /\ DOMAIN pc' = Clients /\ DOMAIN op' = Clients /\ DOMAIN row' = Clients
        /\ DOMAIN read' = Clients /\ DOMAIN page' = Clients /\ DOMAIN data' = Clients
        /\ DOMAIN left' = Clients /\ left' = [q \in Clients |-> left'[q]]
        /\ \A q \in Clients \ {c} :
             /\ pc'[q] = pc[q] /\ op'[q] = op[q] /\ row'[q] = row[q]
             /\ left'[q] = left[q] /\ page'[q] = page[q] /\ data'[q] = data[q]
    BY <1>3, OneClientSteps DEF TypeInv
  <2>3. \A q \in Clients \ {c} : ClientTypes(q)'
    BY <2>2 DEF TypeInv, ClientTypes
  <2>4. \A q \in Clients : ClientTypes(q)'
    BY <2>1, <2>3
  <2>5. left' \in [Clients -> Int]
    BY <2>2, <2>4 DEF ClientTypes
  <2>6. QED
    BY <2>1, <2>2, <2>4, <2>5 DEF TypeInv, Domains
<1>4. QED
  BY <1>1, <1>2, <1>3 DEF Next

(***************************************************************************)
(* For any number of clients, trips and charts, the tables and the filters *)
(* hold what they are meant to hold: no handler writes a row it has not    *)
(* fetched, or a form that did not parse.                                  *)
(***************************************************************************)
THEOREM TripPagesTypes == Spec => []TypeOK
<1>1. TypeInv => TypeOK
  BY DEF TypeInv, TypeOK, TableTypes, Domains, ClientTypes
<1>2. QED
  BY TypeInit, TypeNext, <1>1, PTL DEF Spec

-----------------------------------------------------------------------------
(* What the handlers promise.                                              *)

(***************************************************************************)
(* The configuration that is saved is the one in memory: while a client    *)
(* saves it holds the mutex, and nobody else changes the filters.          *)
(***************************************************************************)
SaveInv ==
  /\ \A c \in Clients : pc[c] = "saving" <=> mu = c
  /\ \A c \in Clients : mu = c => data[c] = memory
  /\ mu = None /\ ~unsaved => file = memory

\* Nobody holds the mutex at first, and the file is what was loaded.
LEMMA SaveInit == Init => SaveInv
  BY FormsAssumption DEF Init, SaveInv

\* The mutex is taken for a toggle and given back by its save.
LEMMA SaveNext == TypeInv /\ SaveInv /\ [Next]_vars => SaveInv'
<1> SUFFICES ASSUME TypeInv, SaveInv, [Next]_vars PROVE SaveInv'
  OBVIOUS
<1>1. Domains /\ None \notin Clients
  BY FormsAssumption DEF TypeInv
<1>2. CASE Restart
  BY <1>1, <1>2 DEF Restart, SaveInv
<1>3. CASE Idle \/ UNCHANGED vars
  BY <1>3 DEF Idle, vars, tables, filters, locals, SaveInv
<1>4. ASSUME NEW c \in Clients, Send(c) \/ Handle(c) \/ Fail(c)
      PROVE  SaveInv'
  <2>1. \A q \in Clients \ {c} : pc'[q] = pc[q] /\ data'[q] = data[q]
    BY <1>1, <1>4, OneClientSteps
  <2>2. CASE ToggleGlobal(c)
    <3>1. mu = None /\ mu' = c /\ pc'[c] = "saving" /\ data'[c] = memory'
      BY <1>1, <2>2 DEF ToggleGlobal, MayLock, Go, Domains
    <3>2. QED
      BY <1>1, <2>1, <3>1 DEF SaveInv
  <2>3. CASE SaveConfig(c)
    <3>1. /\ pc[c] = "saving" /\ mu' = None /\ pc'[c] = "ready" /\ memory' = memory
          /\ ~unsaved' => file' = data[c]
      BY <1>1, <2>3 DEF SaveConfig, Finish, Go, Domains
    <3>2. mu = c /\ data[c] = memory
      BY <3>1 DEF SaveInv
    <3>3. QED
      BY <1>1, <2>1, <3>1, <3>2 DEF SaveInv
  <2>4. CASE ~ToggleGlobal(c) /\ ~SaveConfig(c)
    <3>1. UNCHANGED filters
      BY <1>4, <2>4 DEF Handle, Send, Fail, CreateTrip, GetTrip, Edit, Save, ListStays,
             TripBudget, ShowTrip, InsertStay, BookTrip, UnbookTrip, RemoveStay, DeleteTrip
    <3>2. pc[c] # "saving" /\ pc'[c] # "saving"
      <4> USE DEF Go, Finish, ThenShow, Domains
      <4>1. CASE Send(c) \/ Fail(c)
        BY <1>1, <4>1 DEF Send, Fail, Starts
      <4>2. CASE CreateTrip(c)
        BY <1>1, <4>2 DEF CreateTrip
      <4>3. CASE GetTrip(c) \/ Edit(c) \/ Save(c)
        BY <1>1, <4>3 DEF GetTrip, Edit, Save, AfterGet
      <4>4. CASE ListStays(c) \/ TripBudget(c) \/ ShowTrip(c) \/ InsertStay(c)
        BY <1>1, <4>4 DEF ListStays, TripBudget, ShowTrip, InsertStay
      <4>5. CASE BookTrip(c) \/ UnbookTrip(c) \/ RemoveStay(c) \/ DeleteTrip(c)
        BY <1>1, <4>5 DEF BookTrip, UnbookTrip, RemoveStay, DeleteTrip
      <4>6. QED
        BY <1>4, <2>4, <4>1, <4>2, <4>3, <4>4, <4>5 DEF Handle
    <3>3. QED
      BY <2>1, <3>1, <3>2 DEF SaveInv, filters
  <2>5. QED
    BY <2>2, <2>3, <2>4
<1>5. QED
  BY <1>2, <1>3, <1>4 DEF Next

(***************************************************************************)
(* Whatever toggles, failing saves and restarts, the file holds what is in *)
(* memory unless the last save failed and its client was told.             *)
(***************************************************************************)
THEOREM ToggledIsSaved == Spec => []SavedUnlessFailed
<1>1. SaveInv => SavedUnlessFailed
  BY DEF SaveInv, SavedUnlessFailed
<1>2. QED
  BY TypeInit, TypeNext, SaveInit, SaveNext, <1>1, PTL DEF Spec

(***************************************************************************)
(* A row hides no filters, in the table or in the hands of a handler: who  *)
(* toggles a filter has fetched a trip that overrides.                     *)
(***************************************************************************)
CleanClient(c) ==
  /\ ~HidesFilters(row[c])
  /\ pc[c] = "edit" /\ op[c].kind = "toggle" => row[c].mode = "override"

CleanInv == InheritStoresNoFilters /\ \A c \in Clients : CleanClient(c)

\* Editing a row that hides nothing hides nothing.
LEMMA EditedClean ==
  ASSUME NEW o, o.kind \in Edits, NEW t \in Row, ~HidesFilters(t),
         o.kind = "toggle" => t.mode = "override"
  PROVE  ~HidesFilters(Edited(o, t))
BY DEF Edits, Edited, Inheriting, HidesFilters, Row

\* The trips one starts from hide no filters.
LEMMA CleanInit == Init => CleanInv
<1> SUFFICES ASSUME Init PROVE CleanInv
  OBVIOUS
<1>1. InheritStoresNoFilters
  BY StartAssumption DEF Init, InheritStoresNoFilters
<1>2. \A c \in Clients : CleanClient(c)
  BY DEF Init, CleanClient, HidesFilters, NoRow
<1>3. QED
  BY <1>1, <1>2 DEF CleanInv

\* No step of a client hides any.
LEMMA CleanStep ==
  ASSUME TypeInv, CleanInv, NEW c \in Clients, Send(c) \/ Handle(c) \/ Fail(c)
  PROVE  CleanInv'
<1>1. Domains /\ TableTypes /\ ClientTypes(c) /\ CleanClient(c) /\ InheritStoresNoFilters
  BY DEF TypeInv, CleanInv
<1>2. \A q \in Clients \ {c} : CleanClient(q)'
  BY <1>1, OneClientSteps DEF CleanInv, CleanClient
<1>3. ~HidesFilters(NoRow)
  BY DEF HidesFilters, NoRow
<1>4. CASE GetTrip(c)
  <2>1. CASE /\ op[c].trip \in DOMAIN trips
             /\ ~Conflict(op[c], trips[op[c].trip])
             /\ row' = [row EXCEPT ![c] = trips[op[c].trip]] /\ op' = op
    <3>1. row'[c] = trips[op[c].trip] /\ op'[c] = op[c] /\ trips[op[c].trip] \in Row
      BY <1>1, <2>1 DEF Domains, TableTypes
    <3>2. op[c].kind = "toggle" => row'[c].mode = "override"
      BY <2>1, <3>1 DEF Conflict, Row
    <3>3. CleanClient(c)'
      BY <1>1, <2>1, <3>1, <3>2 DEF CleanClient, InheritStoresNoFilters
    <3>4. QED
      BY <1>1, <1>2, <1>4, <3>3 DEF GetTrip, tables, InheritStoresNoFilters, CleanInv
  <2>2. CASE Finish(c)
    BY <1>1, <1>2, <1>3, <1>4, <2>2
       DEF GetTrip, tables, Finish, Go, Domains, InheritStoresNoFilters, CleanInv, CleanClient
  <2>3. QED
    BY <1>4, <2>1, <2>2 DEF GetTrip
<1>5. CASE Edit(c)
  <2>1. pc[c] = "edit" /\ row'[c] = Edited(op[c], row[c]) /\ pc'[c] = "save" /\ trips' = trips
    BY <1>1, <1>5 DEF Edit, tables, Go, Domains
  <2>2. row[c] \in Row /\ op[c].kind \in Edits
    BY <1>1, <2>1 DEF ClientTypes, AskedAt
  <2>3. CleanClient(c)'
    BY <1>1, <2>1, <2>2, EditedClean DEF CleanClient
  <2>4. QED
    BY <1>1, <1>2, <2>1, <2>3 DEF InheritStoresNoFilters, CleanInv
<1>6. CASE Save(c)
  <2>1. UpdateTrip(op[c].trip, row[c]) /\ UNCHANGED row /\ pc'[c] # "edit"
    BY <1>1, <1>6 DEF Save, ThenShow, Go, Domains
  <2>2. InheritStoresNoFilters'
    BY <1>1, <2>1 DEF UpdateTrip, InheritStoresNoFilters, CleanClient
  <2>3. QED
    BY <1>1, <1>2, <2>1, <2>2 DEF CleanInv, CleanClient
<1>7. CASE CreateTrip(c)
  <2>1. InheritStoresNoFilters'
    <3>1. CASE trips' = trips
      BY <1>1, <3>1 DEF InheritStoresNoFilters
    <3>2. CASE \E id \in TripIds :
                 trips' = [i \in DOMAIN trips \cup {id} |->
                   IF i = id THEN [NoRow EXCEPT !.plan = op[c].form] ELSE trips[i]]
      BY <1>1, <3>2 DEF InheritStoresNoFilters, HidesFilters, NoRow
    <3>3. QED
      BY <1>7, <3>1, <3>2 DEF CreateTrip
  <2>2. row'[c] \in {row[c], NoRow} /\ pc'[c] # "edit"
    BY <1>1, <1>7 DEF CreateTrip, Finish, ThenShow, Go, Domains
  <2>3. QED
    BY <1>1, <1>2, <1>3, <2>1, <2>2 DEF CleanInv, CleanClient
<1>8. CASE \/ Send(c) \/ Fail(c) \/ ListStays(c) \/ TripBudget(c) \/ ShowTrip(c)
           \/ InsertStay(c) \/ BookTrip(c) \/ UnbookTrip(c) \/ RemoveStay(c) \/ DeleteTrip(c)
           \/ ToggleGlobal(c) \/ SaveConfig(c)
  <2>1. trips' = trips \/ trips' = [i \in DOMAIN trips \ {op[c].trip} |-> trips[i]]
    BY <1>8 DEF Send, Fail, ListStays, TripBudget, ShowTrip, InsertStay, BookTrip, UnbookTrip,
           RemoveStay, DeleteTrip, ToggleGlobal, SaveConfig, tables
  <2>2. InheritStoresNoFilters'
    BY <1>1, <2>1 DEF InheritStoresNoFilters
  <2>3. row'[c] \in {row[c], NoRow} /\ pc'[c] # "edit"
    <3> USE <1>1 DEF Go, Finish, ThenShow, Domains
    <3>1. CASE Send(c) \/ Fail(c) \/ ToggleGlobal(c) \/ SaveConfig(c)
      BY <3>1 DEF Send, Fail, Starts, ToggleGlobal, SaveConfig, locals
    <3>2. CASE ListStays(c) \/ TripBudget(c) \/ ShowTrip(c) \/ InsertStay(c)
      BY <3>2 DEF ListStays, TripBudget, ShowTrip, InsertStay
    <3>3. CASE BookTrip(c) \/ UnbookTrip(c) \/ RemoveStay(c) \/ DeleteTrip(c)
      BY <3>3 DEF BookTrip, UnbookTrip, RemoveStay, DeleteTrip
    <3>4. QED
      BY <1>8, <3>1, <3>2, <3>3
  <2>4. QED
    BY <1>1, <1>2, <1>3, <2>2, <2>3 DEF CleanInv, CleanClient
<1>9. QED
  BY <1>4, <1>5, <1>6, <1>7, <1>8 DEF Handle

\* Nor does a restart, which takes the rows out of the handlers' hands.
LEMMA CleanNext == TypeInv /\ CleanInv /\ [Next]_vars => CleanInv'
<1> SUFFICES ASSUME TypeInv, CleanInv, [Next]_vars PROVE CleanInv'
  OBVIOUS
<1>1. CASE Restart
  <2>1. \A c \in Clients : row'[c] = NoRow /\ pc'[c] = "ready"
    BY <1>1 DEF Restart
  <2>2. trips' = trips
    BY <1>1 DEF Restart, tables
  <2>3. QED
    BY <2>1, <2>2 DEF CleanInv, CleanClient, InheritStoresNoFilters, HidesFilters, NoRow
<1>2. CASE Idle \/ UNCHANGED vars
  BY <1>2 DEF Idle, vars, tables, locals, CleanInv, CleanClient, InheritStoresNoFilters
<1>3. QED
  BY <1>1, <1>2, CleanStep DEF Next

(***************************************************************************)
(* However toggles, resets and changes of mode overlap, a trip that        *)
(* inherits the global filters stores none of its own.                     *)
(***************************************************************************)
THEOREM InheritingHidesNothing == Spec => []InheritStoresNoFilters
<1>1. CleanInv => InheritStoresNoFilters
  BY DEF CleanInv
<1>2. QED
  BY TypeInit, TypeNext, CleanInit, CleanNext, <1>1, PTL DEF Spec

(***************************************************************************)
(* What a handler is about to write differs from what it fetched only in   *)
(* the fields it was asked to change.                                      *)
(***************************************************************************)
RowFields == {"plan", "override", "mode", "excluded"}

EditClient(c) ==
  /\ pc[c] = "edit" => row[c] = read[c]
  /\ pc[c] = "save" => \A f \in RowFields \ Fields(op[c].kind) : row[c][f] = read[c][f]

EditInv == \A c \in Clients : EditClient(c)

(***************************************************************************)
(* Editing changes no field but those.                                     *)
(***************************************************************************)
LEMMA EditedFields ==
  ASSUME NEW o, o.kind \in Edits, NEW t \in Row, NEW f \in RowFields \ Fields(o.kind)
  PROVE  Edited(o, t)[f] = t[f]
<1>1. f \in RowFields /\ f \notin Fields(o.kind)
  OBVIOUS
<1>2. CASE o.kind = "update"
  <2>1. f # "plan" /\ Edited(o, t) = [t EXCEPT !.plan = o.form]
    BY <1>1, <1>2 DEF Fields, Edited
  <2>2. QED
    BY <1>1, <2>1 DEF Row, RowFields
<1>3. CASE o.kind = "setBudget"
  <2>1. f # "override" /\ Edited(o, t) = [t EXCEPT !.override = o.form]
    BY <1>1, <1>3 DEF Fields, Edited
  <2>2. QED
    BY <1>1, <2>1 DEF Row, RowFields
<1>4. CASE o.kind = "clearBudget"
  <2>1. f # "override" /\ Edited(o, t) = [t EXCEPT !.override = None]
    BY <1>1, <1>4 DEF Fields, Edited
  <2>2. QED
    BY <1>1, <2>1 DEF Row, RowFields
<1>5. CASE o.kind = "toggle"
  <2>1. f # "excluded" /\ Edited(o, t) = [t EXCEPT !.excluded = Toggle(t.excluded, o.code)]
    BY <1>1, <1>5 DEF Fields, Edited
  <2>2. QED
    BY <1>1, <2>1 DEF Row, RowFields
<1>6. CASE o.kind \in {"mode", "reset"}
  <2>1. f \in {"plan", "override"}
    BY <1>1, <1>6 DEF Fields, RowFields
  <2>2. Edited(o, t).plan = t.plan /\ Edited(o, t).override = t.override
    BY <1>6 DEF Edited, Inheriting, Row
  <2>3. QED
    BY <2>1, <2>2
<1>7. QED
  BY <1>2, <1>3, <1>4, <1>5, <1>6 DEF Edits

(***************************************************************************)
(* Every step keeps that.                                                  *)
(***************************************************************************)
LEMMA EditInit == Init => EditInv
  BY DEF Init, EditInv, EditClient

(***************************************************************************)
(* (A row is put in a handler's hands by fetching it, and in shape to be   *)
(* written by editing it; no other step leads there.)                      *)
(***************************************************************************)
LEMMA EditNext == TypeInv /\ EditInv /\ [Next]_vars => EditInv'
<1> SUFFICES ASSUME TypeInv, EditInv, [Next]_vars PROVE EditInv'
  OBVIOUS
<1>1. CASE Restart
  BY <1>1 DEF Restart, EditInv, EditClient
<1>2. CASE Idle \/ UNCHANGED vars
  BY <1>2 DEF Idle, vars, locals, EditInv, EditClient
<1>3. ASSUME NEW c \in Clients, Send(c) \/ Handle(c) \/ Fail(c)
      PROVE  EditInv'
  <2>1. Domains /\ ClientTypes(c) /\ EditClient(c)
    BY DEF TypeInv, EditInv
  <2>2. \A q \in Clients \ {c} : EditClient(q)'
    BY <1>3, <2>1, OneClientSteps DEF EditInv, EditClient
  <2>3. CASE GetTrip(c)
    BY <2>1, <2>2, <2>3 DEF GetTrip, AfterGet, Finish, Go, Domains, EditInv, EditClient
  <2>4. CASE Edit(c)
    <3>1. /\ pc[c] = "edit" /\ row'[c] = Edited(op[c], row[c]) /\ pc'[c] = "save"
          /\ op'[c] = op[c] /\ read'[c] = read[c]
      BY <2>1, <2>4 DEF Edit, Go, Domains
    <3>2. row[c] \in Row /\ row[c] = read[c] /\ op[c].kind \in Edits
      BY <2>1, <3>1 DEF ClientTypes, AskedAt, EditClient
    <3>3. EditClient(c)'
      BY <3>1, <3>2, EditedFields DEF EditClient
    <3>4. QED
      BY <2>2, <3>3 DEF EditInv
  <2>5. CASE ~GetTrip(c) /\ ~Edit(c)
    <3>1. pc'[c] \notin {"edit", "save"}
      <4> USE <2>1 DEF Go, Finish, ThenShow, Domains
      <4>1. CASE Send(c) \/ Fail(c) \/ CreateTrip(c)
        BY <4>1 DEF Send, Fail, Starts, CreateTrip
      <4>2. CASE Save(c) \/ ToggleGlobal(c) \/ SaveConfig(c)
        BY <4>2 DEF Save, ToggleGlobal, SaveConfig
      <4>3. CASE ListStays(c) \/ TripBudget(c) \/ ShowTrip(c) \/ InsertStay(c)
        BY <4>3 DEF ListStays, TripBudget, ShowTrip, InsertStay
      <4>4. CASE BookTrip(c) \/ UnbookTrip(c) \/ RemoveStay(c) \/ DeleteTrip(c)
        BY <4>4 DEF BookTrip, UnbookTrip, RemoveStay, DeleteTrip
      <4>5. QED
        BY <1>3, <2>5, <4>1, <4>2, <4>3, <4>4 DEF Handle
    <3>2. QED
      BY <2>2, <3>1 DEF EditInv, EditClient
  <2>6. QED
    BY <2>3, <2>4, <2>5
<1>4. QED
  BY <1>1, <1>2, <1>3 DEF Next

(***************************************************************************)
(* An edit that nothing came between changes only what it was asked to.    *)
(***************************************************************************)
THEOREM EditsTouchNothingElse == Spec => EditsConfined
<1> DEFINE Confined(c) ==
      pc[c] = "save" /\ trips' # trips =>
        LET id == op[c].trip IN
        \/ pc'[c] \in {"save", "ready"}
        \/ trips[id] # read[c]
        \/ \A f \in DOMAIN trips[id] \ Fields(op[c].kind) : trips'[id][f] = trips[id][f]
<1>1. ASSUME TypeInv, EditInv, [Next]_vars, NEW c \in Clients
      PROVE  Confined(c)
  <2> SUFFICES ASSUME pc[c] = "save", trips' # trips, pc'[c] \notin {"save", "ready"},
                      trips[op[c].trip] = read[c]
               PROVE  \A f \in DOMAIN trips[op[c].trip] \ Fields(op[c].kind) :
                        trips'[op[c].trip][f] = trips[op[c].trip][f]
    OBVIOUS
  <2>1. Domains /\ TableTypes /\ EditClient(c)
    BY <1>1 DEF TypeInv, EditInv
  <2>2. Save(c)
    <3>1. ASSUME NEW q \in Clients \ {c}, Send(q) \/ Handle(q) \/ Fail(q)
          PROVE  FALSE
      BY <2>1, <3>1, OneClientSteps
    <3>2. ~Restart /\ ~Idle /\ ~(UNCHANGED vars)
      BY <2>1 DEF Restart, Idle, vars, tables
    <3>3. ~Send(c) /\ ~Fail(c)
      BY <2>1 DEF Send, Fail, Finish, Go, Domains
    <3>4. Handle(c)
      BY <1>1, <3>1, <3>2, <3>3 DEF Next
    <3>5. QED
      BY <3>4 DEF Handle, CreateTrip, GetTrip, Edit, ListStays, TripBudget, ShowTrip, InsertStay,
             BookTrip, UnbookTrip, RemoveStay, DeleteTrip, ToggleGlobal, SaveConfig
  <2>3. trips' = [i \in DOMAIN trips |-> IF i = op[c].trip THEN row[c] ELSE trips[i]]
    BY <2>2 DEF Save, UpdateTrip
  <2>4. op[c].trip \in DOMAIN trips
    <3> SUFFICES ASSUME op[c].trip \notin DOMAIN trips PROVE FALSE
      OBVIOUS
    <3>1. trips' = [i \in DOMAIN trips |-> trips[i]]
      BY <2>3
    <3>2. QED
      BY <2>1, <3>1 DEF TableTypes
  <2>5. trips'[op[c].trip] = row[c] /\ trips[op[c].trip] \in Row
    BY <2>1, <2>3, <2>4 DEF TableTypes
  <2>6. DOMAIN trips[op[c].trip] = RowFields
    BY <2>5 DEF Row, RowFields
  <2>7. QED
    BY <2>1, <2>5, <2>6 DEF EditClient
<1>2. TypeInv /\ EditInv /\ [Next]_vars => [\A c \in Clients : Confined(c)]_vars
  BY <1>1
<1>3. QED
  BY TypeInit, TypeNext, EditInit, EditNext, <1>2, PTL DEF Spec, EditsConfined

(***************************************************************************)
(* Ids are handed out once, and a stay has a trip.                         *)
(***************************************************************************)
IdInv ==
  /\ DOMAIN trips \subseteq used.trips
  /\ \A s \in stays : s.id \in used.stays /\ s.trip \in DOMAIN trips

(***************************************************************************)
(* It is so at first, when there are no stays.                             *)
(***************************************************************************)
LEMMA IdInit == Init => IdInv
  BY DEF Init, IdInv

(***************************************************************************)
(* Stays are written under the ids and the trips they have, and go with    *)
(* their trip; a trip that is written is there already, or is new.         *)
(***************************************************************************)
LEMMA IdStep ==
  ASSUME TypeInv, IdInv, [Next]_vars
  PROVE  /\ IdInv'
         /\ \A id \in used.trips \ DOMAIN trips : id \notin DOMAIN trips'
<1>1. TableTypes
  BY DEF TypeInv
<1>2. CASE UNCHANGED <<trips, stays, used>>
  BY <1>2 DEF IdInv
<1>3. ASSUME NEW c \in Clients, NEW id \in TripIds \ used.trips,
             DOMAIN trips' = DOMAIN trips \cup {id},
             used' = [used EXCEPT !.trips = @ \cup {id}], stays' = stays
      PROVE  /\ IdInv'
             /\ \A i \in used.trips \ DOMAIN trips : i \notin DOMAIN trips'
  BY <1>1, <1>3 DEF IdInv, TableTypes
<1>4. ASSUME NEW c \in Clients, Save(c)
      PROVE  DOMAIN trips' = DOMAIN trips /\ UNCHANGED <<stays, used>>
  BY <1>4 DEF Save, UpdateTrip
<1>5. ASSUME NEW c \in Clients, NEW id \in StayIds \ used.stays, NEW new,
             new.id = id, new.trip \in DOMAIN trips,
             stays' = stays \cup {new}, used' = [used EXCEPT !.stays = @ \cup {id}],
             trips' = trips
      PROVE  /\ IdInv'
             /\ \A i \in used.trips \ DOMAIN trips : i \notin DOMAIN trips'
  BY <1>1, <1>5 DEF IdInv, TableTypes
<1>6. ASSUME NEW rows, rows \subseteq stays, NEW b \in BOOLEAN, Mark(rows, b),
             UNCHANGED <<trips, used>>
      PROVE  /\ IdInv'
             /\ \A i \in used.trips \ DOMAIN trips : i \notin DOMAIN trips'
  <2>1. ASSUME NEW s \in stays'
        PROVE  s.id \in used.stays /\ s.trip \in DOMAIN trips
    <3>1. CASE s \in stays
      BY <3>1 DEF IdInv
    <3>2. CASE s \notin stays
      <4>1. PICK t \in rows : s = [t EXCEPT !.booked = b]
        BY <1>6, <3>2 DEF Mark
      <4>2. t \in StayRow /\ t \in stays
        BY <1>1, <1>6 DEF TableTypes
      <4>3. s.id = t.id /\ s.trip = t.trip
        BY <4>1, <4>2 DEF StayRow
      <4>4. QED
        BY <4>2, <4>3 DEF IdInv
    <3>3. QED
      BY <3>1, <3>2
  <2>2. QED
    BY <1>6, <2>1 DEF IdInv
<1>7. ASSUME NEW c \in Clients, RemoveStay(c)
      PROVE  UNCHANGED <<trips, used>> /\ stays' \subseteq stays
  BY <1>7 DEF RemoveStay, Delete
<1>8. ASSUME NEW c \in Clients, DeleteTrip(c)
      PROVE  /\ DOMAIN trips' = DOMAIN trips \ {op[c].trip} /\ used' = used
             /\ stays' = {s \in stays : s.trip # op[c].trip}
  BY <1>8 DEF DeleteTrip, Delete, StaysOf
<1>9. ASSUME NEW c \in Clients, Handle(c)
      PROVE  /\ IdInv'
             /\ \A id \in used.trips \ DOMAIN trips : id \notin DOMAIN trips'
  <2>1. CASE CreateTrip(c)
    BY <1>2, <1>3, <2>1 DEF CreateTrip
  <2>2. CASE InsertStay(c)
    BY <1>2, <1>5, <2>2 DEF InsertStay
  <2>3. CASE BookTrip(c) \/ UnbookTrip(c)
    BY <1>2, <1>6, <2>3 DEF BookTrip, UnbookTrip, StaysOf
  <2>4. CASE Save(c)
    BY <1>4, <2>4 DEF IdInv
  <2>5. CASE RemoveStay(c)
    BY <1>7, <2>5 DEF IdInv
  <2>6. CASE DeleteTrip(c)
    BY <1>8, <2>6 DEF IdInv
  <2>7. CASE \/ GetTrip(c) \/ Edit(c) \/ ListStays(c) \/ TripBudget(c) \/ ShowTrip(c)
             \/ ToggleGlobal(c) \/ SaveConfig(c)
    BY <1>2, <2>7 DEF GetTrip, Edit, ListStays, TripBudget, ShowTrip, ToggleGlobal, SaveConfig,
           tables
  <2>8. QED
    BY <1>9, <2>1, <2>2, <2>3, <2>4, <2>5, <2>6, <2>7 DEF Handle
<1>10. CASE \/ \E c \in Clients : Send(c) \/ Fail(c)
            \/ Restart \/ Idle \/ UNCHANGED vars
  BY <1>2, <1>10 DEF Send, Fail, Restart, Idle, vars, tables
<1>11. QED
  BY <1>9, <1>10 DEF Next

(***************************************************************************)
(* A deleted trip stays deleted, whoever still holds its row, and no stay  *)
(* is left without a trip.                                                 *)
(***************************************************************************)
THEOREM DeletedStaysDeleted == Spec => DeletedForGood
<1>1. TypeInv /\ IdInv /\ [Next]_vars =>
        /\ IdInv'
        /\ [/\ \A id \in used.trips \ DOMAIN trips : id \notin DOMAIN trips'
            /\ \A s \in stays' : s.trip \in DOMAIN trips']_vars
  BY IdStep DEF IdInv
<1>2. QED
  BY TypeInit, TypeNext, IdInit, <1>1, PTL DEF Spec, DeletedForGood

-----------------------------------------------------------------------------
(* The row that was clicked. *)

(***************************************************************************)
(* A row a page shows is the row of that number in the whole list.         *)
(***************************************************************************)
LEMMA ShownRow ==
  ASSUME NEW p \in PageView, NEW k \in DOMAIN Shown(p)
  PROVE  /\ k \in DOMAIN Search(p.plan, p.left, p.excluded)
         /\ Shown(p)[k] = Search(p.plan, p.left, p.excluded)[k]
<1> DEFINE all == Search(p.plan, p.left, p.excluded)
           F == Matches(p.plan, p.left, p.excluded)
           m == maxResultRows
<1>1. p.plan \in Plans /\ p.left \in Int /\ m \in Nat
  BY FormsAssumption DEF PageView
<1>2. all \in Seq(F) /\ Len(all) \in Nat /\ DOMAIN all = 1..Len(all)
  BY <1>1, SearchListsAll
<1>3. Shown(p) = IF Len(all) > m THEN SubSeq(all, 1, m) ELSE all
  BY DEF Shown
<1> HIDE DEF all, F, m
<1>4. CASE Len(all) > m
  <2>1. \A i \in 1..m : all[i] \in F
    BY <1>1, <1>2, <1>4, ElementOfSeq
  <2>2. /\ SubSeq(all, 1, m) \in Seq(F)
        /\ Len(SubSeq(all, 1, m)) = m
        /\ \A i \in 1..m : SubSeq(all, 1, m)[i] = all[i]
    <3>1. /\ SubSeq(all, 1, m) \in Seq(F)
          /\ Len(SubSeq(all, 1, m)) = IF 1 <= m THEN m - 1 + 1 ELSE 0
          /\ \A i \in 1..(m - 1 + 1) : SubSeq(all, 1, m)[i] = all[1 + i - 1]
      BY <1>1, <2>1, SubSeqProperties
    <3>2. QED
      BY <1>1, <3>1
  <2>3. DOMAIN SubSeq(all, 1, m) = 1..m
    BY <2>2, LenProperties
  <2>4. QED
    BY <1>1, <1>2, <1>3, <1>4, <2>2, <2>3 DEF all
<1>5. CASE ~(Len(all) > m)
  BY <1>3, <1>5 DEF all
<1>6. QED
  BY <1>4, <1>5

(***************************************************************************)
(* As long as a request to add a stay is on its way, its client looks at   *)
(* the page it clicked, and the number is one of that page's rows.         *)
(***************************************************************************)
ClickClient(c) ==
  pc[c] # "ready" /\ op[c].kind = "addStay" =>
    page[c] \in PageView /\ op[c].number \in DOMAIN Shown(page[c])

ClickInv == \A c \in Clients : ClickClient(c)

(***************************************************************************)
(* Nothing has been clicked at first.                                      *)
(***************************************************************************)
LEMMA ClickInit == Init => ClickInv
  BY DEF Init, ClickInv, ClickClient

(***************************************************************************)
(* A client's page changes only when a request of another kind ends.       *)
(***************************************************************************)
LEMMA ClickNext == TypeInv /\ ClickInv /\ [Next]_vars => ClickInv'
<1> SUFFICES ASSUME TypeInv, ClickInv, [Next]_vars PROVE ClickInv'
  OBVIOUS
<1>1. CASE Restart
  BY <1>1 DEF Restart, ClickInv, ClickClient
<1>2. CASE Idle \/ UNCHANGED vars
  <2>1. UNCHANGED <<pc, op, page>>
    BY <1>2 DEF Idle, vars, locals
  <2>2. QED
    BY <2>1 DEF ClickInv, ClickClient
<1>3. ASSUME NEW c \in Clients, Send(c) \/ Handle(c) \/ Fail(c)
      PROVE  ClickInv'
  <2>1. Domains /\ ClientTypes(c) /\ ClickClient(c)
    BY DEF TypeInv, ClickInv
  <2>2. \A q \in Clients \ {c} : ClickClient(q)'
    BY <1>3, <2>1, OneClientSteps DEF ClickInv, ClickClient
  <2>3. CASE Send(c)
    <3>1. PICK o \in Anywhere \cup (IF page[c] = None THEN {} ELSE OnPage(page[c])) :
                 op' = [op EXCEPT ![c] = o]
      BY <2>3 DEF Send
    <3>2. o.kind = "addStay" => page[c] \in PageView /\ o.number \in DOMAIN Shown(page[c])
      BY <2>1, <3>1, SentIsAsked DEF ClientTypes
    <3>3. op'[c] = o /\ page'[c] = page[c]
      BY <2>1, <2>3, <3>1 DEF Domains, Send
    <3>4. QED
      BY <2>2, <3>2, <3>3 DEF ClickInv, ClickClient
  <2>4. CASE ~Send(c)
    <3>1. \/ pc'[c] = "ready"
          \/ op'[c].kind = "open"
          \/ pc[c] # "ready" /\ op'[c] = op[c] /\ page'[c] = page[c]
      <4>1. Finish(c) => pc'[c] = "ready"
        BY <2>1 DEF Finish, Go, Domains
      <4>2. \A id : ThenShow(c, id) => op'[c].kind = "open"
        BY <2>1 DEF ThenShow, Domains
      <4>3. CASE Fail(c) \/ CreateTrip(c) \/ SaveConfig(c) \/ ShowTrip(c) \/ InsertStay(c)
        BY <4>1, <4>2, <4>3 DEF Fail, CreateTrip, SaveConfig, ShowTrip, InsertStay
      <4>4. CASE BookTrip(c) \/ UnbookTrip(c) \/ RemoveStay(c) \/ DeleteTrip(c)
        BY <4>1, <4>2, <4>4 DEF BookTrip, UnbookTrip, RemoveStay, DeleteTrip
      <4>5. CASE GetTrip(c) \/ Save(c)
        BY <4>1, <4>2, <4>5 DEF GetTrip, Save
      <4>6. CASE Edit(c) \/ ToggleGlobal(c) \/ ListStays(c) \/ TripBudget(c)
        BY <4>6 DEF Edit, ToggleGlobal, ListStays, TripBudget, locals
      <4>7. QED
        BY <1>3, <2>4, <4>3, <4>4, <4>5, <4>6 DEF Handle
    <3>2. QED
      BY <2>1, <2>2, <3>1 DEF ClickInv, ClickClient
  <2>5. QED
    BY <2>3, <2>4
<1>4. QED
  BY <1>1, <1>2, <1>3 DEF Next

(***************************************************************************)
(* The stay that is added is the one that was clicked, unless dates or     *)
(* filters have changed: exactly, or, when only the budget has moved, one  *)
(* of the same points and check-in.                                        *)
(***************************************************************************)
THEOREM AddedWasClicked == Spec => AddedAsShown
<1> DEFINE AsShown(c) ==
      pc[c] = "search" /\ stays' # stays /\ pc'[c] = "get" =>
        LET clicked == Shown(page[c])[op[c].number]
            added == (CHOOSE s \in stays' \ stays : TRUE).result
        IN  /\ page[c].plan = row[c].plan /\ page[c].excluded = EffectiveFilters(row[c])
                 => added.points = clicked.points /\ added.checkIn = clicked.checkIn
            /\ page[c] = Query(c) => added = clicked
<1>1. ASSUME TypeInv, IdInv, ClickInv, [Next]_vars, NEW c \in Clients,
             pc[c] = "search", stays' # stays, pc'[c] = "get"
      PROVE  LET clicked == Shown(page[c])[op[c].number]
                 added == (CHOOSE s \in stays' \ stays : TRUE).result
             IN  /\ page[c].plan = row[c].plan /\ page[c].excluded = EffectiveFilters(row[c])
                      => added.points = clicked.points /\ added.checkIn = clicked.checkIn
                 /\ page[c] = Query(c) => added = clicked
  <2> DEFINE k == op[c].number
             q == Query(c)
             p == page[c]
             results == Search(q.plan, q.left, q.excluded)
             new(id) == [id |-> id, trip |-> op[c].trip, booked |-> FALSE,
                         result |-> results[k]]
  <2>1. TableTypes /\ Domains /\ ClickClient(c) /\ q \in PageView
    BY <1>1, QueryType DEF TypeInv, ClickInv
  <2>2. InsertStay(c)
    <3>1. ASSUME NEW d \in Clients \ {c}, Send(d) \/ Handle(d) \/ Fail(d)
          PROVE  FALSE
      BY <1>1, <2>1, <3>1, OneClientSteps
    <3>2. ~Restart /\ ~Idle /\ ~(UNCHANGED vars)
      BY <1>1 DEF Restart, Idle, vars, tables
    <3>3. ~Send(c) /\ ~Fail(c)
      BY <1>1 DEF Send, Fail, tables
    <3>4. Handle(c)
      BY <1>1, <3>1, <3>2, <3>3 DEF Next
    <3>5. QED
      BY <1>1, <3>4 DEF Handle, CreateTrip, GetTrip, Edit, Save, ListStays, TripBudget, ShowTrip,
             BookTrip, UnbookTrip, RemoveStay, DeleteTrip, ToggleGlobal, SaveConfig, tables
  <2>3. PICK id \in StayIds \ used.stays :
               stays' = stays \cup {new(id)} /\ k \in DOMAIN results
    BY <1>1, <2>2 DEF InsertStay
  <2>4. op[c].kind = "addStay"
    BY <2>2 DEF InsertStay
  <2>5. new(id) \notin stays
    BY <1>1 DEF IdInv
  <2>6. stays' \ stays = {new(id)}
    BY <2>3, <2>5
  <2>7. (CHOOSE s \in stays' \ stays : TRUE) = new(id)
    BY <2>6
  <2>8. (CHOOSE s \in stays' \ stays : TRUE).result = results[k]
    <3>1. new(id).result = results[k]
      <4> HIDE DEF results, k
      <4> QED OBVIOUS
    <3>2. QED
      BY <2>7, <3>1
  <2>9. p \in PageView /\ k \in DOMAIN Shown(p)
    BY <1>1, <2>1, <2>4 DEF ClickClient
  <2>10. /\ k \in DOMAIN Search(p.plan, p.left, p.excluded)
         /\ Shown(p)[k] = Search(p.plan, p.left, p.excluded)[k]
    <3> HIDE DEF p, k
    <3> QED BY <2>9, ShownRow
  <2>11. ASSUME p.plan = row[c].plan, p.excluded = EffectiveFilters(row[c])
         PROVE  results[k].points = Shown(p)[k].points /\ results[k].checkIn = Shown(p)[k].checkIn
    <3>1. q.plan = p.plan /\ q.excluded = p.excluded
      BY <2>11 DEF Query
    <3>2. p.plan \in Plans /\ p.left \in Int /\ q.left \in Int
      BY <2>1, <2>9 DEF PageView
    <3> HIDE DEF p, k, q
    <3>3. QED
      BY <2>3, <2>10, <3>1, <3>2, SameRowSameKey
  <2>12. ASSUME p = q
         PROVE  results[k] = Shown(p)[k]
    BY <2>10, <2>12
  <2>13. QED
    <3> HIDE DEF results
    <3> QED BY <2>8, <2>11, <2>12
<1>2. TypeInv /\ IdInv /\ ClickInv /\ [Next]_vars => [\A c \in Clients : AsShown(c)]_vars
  BY <1>1
<1>3. TypeInv /\ IdInv /\ [Next]_vars => IdInv'
  BY IdStep
<1>4. QED
  BY TypeInit, TypeNext, IdInit, ClickInit, ClickNext, <1>2, <1>3, PTL DEF Spec, AddedAsShown

=============================================================================
