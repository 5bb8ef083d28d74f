----------------------------- MODULE FundingProofs -----------------------------
(***************************************************************************)
(* What holds of the trip page's numbers for any tables, trips and         *)
(* requests.                                                               *)
(***************************************************************************)
EXTENDS Funding, BookingRaceProofs

-----------------------------------------------------------------------------
(* The binary search of shortfall.                                         *)

\* What the search of a range returns, when `most` says what the searches of
\* its halves return.
Halved(month, left, checkIn, most, range) ==
  LET lo == range[1]
      hi == range[2]
      mid == (lo + hi + 1) \div 2
  IN  IF lo >= hi THEN lo
      ELSE IF Fundable(month, left, checkIn, mid)
           THEN most[<<mid, hi>>] ELSE most[<<lo, mid - 1>>]

IsSearch(month, left, checkIn, n, most) ==
  most = [range \in (0..n) \X (0..n) |-> Halved(month, left, checkIn, most, range)]

Search(month, left, checkIn, n) == CHOOSE most : IsSearch(month, left, checkIn, n, most)

\* A shortfall is what such a search leaves missing.
LEMMA ShortfallIs ==
  ASSUME NEW left, NEW s
  PROVE  shortfall(left, s)
           = Price[s] - Search(PreviewMonths, left, CheckIn[s], Price[s])[<<0, Price[s]>>]
BY Zenon DEF shortfall, Search, IsSearch, Halved

\* The middle of two numbers.
LEMMA Middle ==
  ASSUME NEW lo \in Nat, NEW hi \in Nat, lo < hi
  PROVE  LET mid == (lo + hi + 1) \div 2 IN mid \in lo + 1..hi
OBVIOUS

(***************************************************************************)
(* The search function exists: it returns the capacity, held to its range. *)
(***************************************************************************)
LEMMA SearchExists ==
  ASSUME NEW month, NEW left, NEW checkIn, Capacity(month, left, checkIn) \in Nat,
         NEW n \in Nat
  PROVE  LET most == Search(month, left, checkIn, n) IN IsSearch(month, left, checkIn, n, most)
<1> DEFINE C == Capacity(month, left, checkIn)
           held(lo, hi) == IF lo >= hi \/ C <= lo THEN lo ELSE IF C >= hi THEN hi ELSE C
           f == [range \in (0..n) \X (0..n) |-> held(range[1], range[2])]
<1>1. ASSUME NEW lo \in 0..n, NEW hi \in 0..n
      PROVE  Halved(month, left, checkIn, f, <<lo, hi>>) = held(lo, hi)
  <2>1. CASE lo >= hi
    BY <2>1 DEF Halved
  <2>2. CASE lo < hi
    <3> DEFINE mid == (lo + hi + 1) \div 2
    <3>1. mid \in lo + 1..hi
      BY <2>2, Middle
    <3> HIDE DEF mid
    <3>2. mid \in 0..n /\ mid - 1 \in 0..n /\ mid > 0
      BY <3>1
    <3>3. f[<<mid, hi>>] = held(mid, hi) /\ f[<<lo, mid - 1>>] = held(lo, mid - 1)
      BY <3>2
    <3>4. Fundable(month, left, checkIn, mid) <=> mid <= C
      BY <3>1 DEF Fundable
    <3>5. Halved(month, left, checkIn, f, <<lo, hi>>)
            = IF mid <= C THEN held(mid, hi) ELSE held(lo, mid - 1)
      <4> HIDE DEF f, held, C
      <4>1. ~(lo >= hi)
        BY <2>2
      <4>2. QED
        BY <3>3, <3>4, <4>1 DEF Halved, mid
    <3> HIDE DEF f
    <3>6. C \in Nat
      OBVIOUS
    <3> HIDE DEF C
    <3>7. (IF mid <= C THEN held(mid, hi) ELSE held(lo, mid - 1)) = held(lo, hi)
      BY <2>2, <3>1, <3>6
    <3>8. QED
      BY <3>5, <3>7
  <2>3. QED
    BY <2>1, <2>2
<1>2. IsSearch(month, left, checkIn, n, f)
  <2> HIDE DEF held
  <2>1. ASSUME NEW range \in (0..n) \X (0..n)
        PROVE  held(range[1], range[2]) = Halved(month, left, checkIn, f, range)
    <3> HIDE DEF f
    <3>1. range = <<range[1], range[2]>> /\ range[1] \in 0..n /\ range[2] \in 0..n
      OBVIOUS
    <3>2. QED
      BY <1>1, <3>1
  <2>2. QED
    BY <2>1, Zenon DEF IsSearch
<1>3. QED
  <2> HIDE DEF f
  <2>1. QED
    BY <1>2, Zenon DEF Search

(***************************************************************************)
(* Whatever satisfies the recursion finds the capacity, when it lies in    *)
(* the range that is searched: each turn keeps it in the half that is left.*)
(***************************************************************************)
LEMMA SearchFinds ==
  ASSUME NEW month, NEW left, NEW checkIn, Capacity(month, left, checkIn) \in Nat,
         NEW n \in Nat, NEW most, IsSearch(month, left, checkIn, n, most),
         Capacity(month, left, checkIn) <= n
  PROVE  most[<<0, n>>] = Capacity(month, left, checkIn)
<1> DEFINE C == Capacity(month, left, checkIn)
           In(lo, hi) == lo \in 0..n /\ hi \in 0..n /\ lo <= C /\ C <= hi
           Found(k) == \A lo, hi \in 0..n : In(lo, hi) /\ hi - lo <= k => most[<<lo, hi>>] = C
           G == {k \in Nat : Found(k)}
<1>1. C \in Nat /\ C <= n
  OBVIOUS
<1>2. ASSUME NEW lo \in 0..n, NEW hi \in 0..n
      PROVE  most[<<lo, hi>>] = Halved(month, left, checkIn, most, <<lo, hi>>)
  BY DEF IsSearch
<1>3. ASSUME NEW k \in Nat, k = 0 \/ Found(k - 1)
      PROVE  Found(k)
  <2>1. SUFFICES ASSUME NEW lo \in 0..n, NEW hi \in 0..n, In(lo, hi), hi - lo <= k
                 PROVE  most[<<lo, hi>>] = C
    OBVIOUS
  <2>2. CASE lo >= hi
    <3>1. most[<<lo, hi>>] = lo
      BY <1>2, <2>2 DEF Halved
    <3>2. QED
      <4> HIDE DEF C
      <4>1. QED
        BY <1>1, <2>1, <2>2, <3>1
  <2>3. CASE lo < hi
    <3> DEFINE mid == (lo + hi + 1) \div 2
    <3>1. mid \in lo + 1..hi
      BY <2>3, Middle
    <3>2. Fundable(month, left, checkIn, mid) <=> mid <= C
      <4> HIDE DEF mid
      <4>1. QED
        BY <3>1 DEF Fundable
    <3>3. most[<<lo, hi>>] = IF mid <= C THEN most[<<mid, hi>>] ELSE most[<<lo, mid - 1>>]
      <4> HIDE DEF C
      <4>1. ~(lo >= hi)
        BY <2>3
      <4>2. QED
        BY <1>2, <3>2, <4>1 DEF Halved
    <3> HIDE DEF mid, C
    <3>4. k # 0 /\ Found(k - 1)
      BY <1>3, <2>1, <2>3
    <3>5. CASE mid <= C
      <4>1. In(mid, hi) /\ hi - mid <= k - 1
        BY <1>1, <2>1, <3>1, <3>5
      <4>2. QED
        BY <3>3, <3>4, <3>5, <4>1
    <3>6. CASE ~(mid <= C)
      <4>1. In(lo, mid - 1) /\ (mid - 1) - lo <= k - 1
        BY <1>1, <2>1, <3>1, <3>6
      <4>2. QED
        BY <3>3, <3>4, <3>6, <4>1
    <3>7. QED
      BY <3>5, <3>6
  <2>4. QED
    BY <2>2, <2>3
<1>4. Nat \subseteq G
  <2> HIDE DEF Found
  <2>1. \A k \in Nat : k = 0 \/ k - 1 \in G => k \in G
    BY <1>3
  <2>2. \A k \in Nat : k = 0 \/ k - 1 \in Nat
    OBVIOUS
  <2>3. Nat \in SUBSET Nat
    OBVIOUS
  <2> HIDE DEF G
  <2>4. QED
    BY <2>1, <2>2, <2>3, Induction
<1>5. Found(n)
  <2> HIDE DEF Found
  <2>1. QED
    BY <1>4
<1>6. 0 \in 0..n /\ n \in 0..n /\ In(0, n) /\ n - 0 <= n
  <2> HIDE DEF C
  <2>1. QED
    BY <1>1
<1>7. QED
  <2> HIDE DEF In
  <2>1. In(0, n) /\ n - 0 <= n => most[<<0, n>>] = C
    BY <1>5, <1>6
  <2>2. QED
    BY <1>6, <2>1

(***************************************************************************)
(* Candidates have points left, so the capacity is a natural number.       *)
(***************************************************************************)
LEMMA CapacityType ==
  ASSUME NEW month, NEW left, IsFiniteSet(DOMAIN left),
         \A lot \in DOMAIN left : left[lot] \in Int, NEW checkIn
  PROVE  Capacity(month, left, checkIn) \in Nat
<1> DEFINE S == Candidates(month, left, checkIn)
<1>1. S \subseteq DOMAIN left /\ \A lot \in S : left[lot] \in Nat
  BY DEF Candidates
<1>2. IsFiniteSet(S)
  BY <1>1, FS_Subset
<1> HIDE DEF S
<1>3. QED
  BY <1>1, <1>2, SumType DEF Capacity, S

(***************************************************************************)
(* A stay that cannot be funded is short by what its lots cannot give: the *)
(* binary search of shortfall is right for every price and every balance.  *)
(***************************************************************************)
THEOREM ShortfallExact ==
  ASSUME NEW left, IsFiniteSet(DOMAIN left), \A lot \in DOMAIN left : left[lot] \in Int,
         NEW s \in Stays, ~Fundable(PreviewMonths, left, CheckIn[s], Price[s])
  PROVE  LET C == Capacity(PreviewMonths, left, CheckIn[s]) IN
         C \in Nat /\ C < Price[s] /\ shortfall(left, s) = Price[s] - C
<1>1. Price[s] \in Nat \ {0}
  BY RowsAssumption
<1>2. Capacity(PreviewMonths, left, CheckIn[s]) \in Nat
  BY CapacityType
<1>3. Capacity(PreviewMonths, left, CheckIn[s]) < Price[s]
  BY <1>1, <1>2 DEF Fundable
<1>4. PICK month : month = PreviewMonths
  OBVIOUS
<1>5. PICK n \in Nat : n = Price[s]
  BY <1>1
<1>6. PICK most : most = Search(month, left, CheckIn[s], n)
  OBVIOUS
<1>7. IsSearch(month, left, CheckIn[s], n, most)
  BY <1>2, <1>4, <1>6, SearchExists
<1>8. most[<<0, n>>] = Capacity(month, left, CheckIn[s])
  BY <1>2, <1>3, <1>4, <1>5, <1>7, SearchFinds
<1>9. shortfall(left, s) = Price[s] - most[<<0, n>>]
  BY <1>4, <1>5, <1>6, ShortfallIs
<1>10. QED
  BY <1>2, <1>3, <1>4, <1>8, <1>9

-----------------------------------------------------------------------------
(* The statements of a page.                                               *)

\* The first n statements.
First(n) == {Reads[i] : i \in 1..n}

\* The ten statements, spelled out.
LEMMA ReadsAre ==
  /\ Reads[1] = "trip" /\ Reads[2] = "stays" /\ Reads[3] = "links" /\ Reads[4] = "used"
  /\ Reads[5] = "contracts" /\ Reads[6] = "summaries" /\ Reads[7] = "months"
  /\ Reads[8] = "lots" /\ Reads[9] = "consumed" /\ Reads[10] = "legacy"
BY DEF Reads, StayReads, BudgetReads, PreviewReads

\* No statement is repeated.
LEMMA ReadsDiffer == \A i, j \in 1..10 : Reads[i] = Reads[j] => i = j
<1>1. SUFFICES ASSUME NEW i \in 1..10, NEW j \in 1..10, Reads[i] = Reads[j]
               PROVE  i = j
  OBVIOUS
<1>2. /\ i = 1 \/ i = 2 \/ i = 3 \/ i = 4 \/ i = 5 \/ i = 6 \/ i = 7 \/ i = 8 \/ i = 9 \/ i = 10
      /\ j = 1 \/ j = 2 \/ j = 3 \/ j = 4 \/ j = 5 \/ j = 6 \/ j = 7 \/ j = 8 \/ j = 9 \/ j = 10
  OBVIOUS
<1>3. QED
  BY <1>1, <1>2, ReadsAre

\* The statements run so far count themselves.
LEMMA FirstReads ==
  /\ \A n \in 0..10 : IsFiniteSet(First(n)) /\ Cardinality(First(n)) = n
  /\ \A n \in 0..9 : First(n + 1) = First(n) \cup {Reads[n + 1]}
  /\ \A n \in 0..10, i \in 1..10 : Reads[i] \in First(n) <=> i <= n
  /\ First(0) = {}
<1>1. First(0) = {}
  BY DEF First
<1>2. ASSUME NEW n \in 0..9
      PROVE  First(n + 1) = First(n) \cup {Reads[n + 1]}
  <2>1. 1..n + 1 = (1..n) \cup {n + 1}
    OBVIOUS
  <2>2. QED
    BY <2>1 DEF First
<1>3. ASSUME NEW n \in 0..10, NEW i \in 1..10
      PROVE  Reads[i] \in First(n) <=> i <= n
  <2>1. ASSUME Reads[i] \in First(n)
        PROVE  i <= n
    <3>1. PICK j \in 1..n : Reads[i] = Reads[j]
      BY <2>1 DEF First
    <3>2. j \in 1..10
      OBVIOUS
    <3>3. QED
      BY <3>1, <3>2, ReadsDiffer
  <2>2. i <= n => Reads[i] \in First(n)
    BY DEF First
  <2>3. QED
    BY <2>1, <2>2
<1>4. \A n \in 0..10 : IsFiniteSet(First(n)) /\ Cardinality(First(n)) = n
  <2> DEFINE G == {n \in 0..10 : IsFiniteSet(First(n)) /\ Cardinality(First(n)) = n}
  <2>1. \A n \in 0..10 : n = 0 \/ n - 1 \in G => n \in G
    <3>1. SUFFICES ASSUME NEW n \in 0..10, n = 0 \/ n - 1 \in G
                   PROVE  n \in G
      OBVIOUS
    <3>2. CASE n = 0
      BY <1>1, <3>2, FS_EmptySet
    <3>3. CASE n # 0
      <4>1. n - 1 \in 0..9 /\ (n - 1) + 1 = n /\ n \in 1..10
        BY <3>3
      <4>2. First(n) = First(n - 1) \cup {Reads[n]}
        BY <1>2, <4>1
      <4>3. Reads[n] \notin First(n - 1)
        BY <1>3, <4>1
      <4>4. IsFiniteSet(First(n - 1)) /\ Cardinality(First(n - 1)) = n - 1
        BY <3>1, <3>3
      <4>5. QED
        BY <4>1, <4>2, <4>3, <4>4, FS_AddElement
    <3>4. QED
      BY <3>2, <3>3
  <2>2. 0..10 \in SUBSET Nat /\ \A n \in 0..10 : n = 0 \/ n - 1 \in 0..10
    OBVIOUS
  <2> HIDE DEF G
  <2>3. 0..10 \subseteq G
    BY <2>1, <2>2, Induction
  <2>4. QED
    BY <2>3 DEF G
<1>5. QED
  BY <1>1, <1>2, <1>3, <1>4

(***************************************************************************)
(* What a page holds: what its first statements saw, tables in each of     *)
(* which keys and types are sound and sums are numbers.                    *)
(***************************************************************************)
Sound(d) ==
  d \in DB /\ Consistent(d)
    /\ IsFiniteSet(d.entries) /\ IsFiniteSet(d.stays) /\ IsFiniteSet(d.contracts)

ReadSoFar(n) ==
  /\ page.trip \in Trips
  /\ page = [trip |-> page.trip, saw |-> page.saw]
  /\ page.saw = [x \in First(n) |-> page.saw[x]]

PageInv ==
  /\ page = Closed \/ \E n \in 0..10 : ReadSoFar(n)
  /\ \A x \in Reading : Sound(page.saw[x])

\* A closed page has read nothing.
LEMMA ClosedIs == Closed.trip = "none" /\ Closed.saw = << >> /\ DOMAIN Closed.saw = {}
BY DEF Closed

\* Which statements were read follows from how many.
LEMMA HeldReads ==
  ASSUME NEW n \in 0..10, ReadSoFar(n)
  PROVE  Reading = First(n) /\ Cardinality(Reading) = n
BY FirstReads DEF ReadSoFar, Reading

\* A page is shown when its stays and its budget were read, and the preview
\* when one of its stays is not booked.
LEMMA ShownReads ==
  ASSUME PageInv, Shown
  PROVE  \E n \in 6..10 : ReadSoFar(n) /\ (ShownUnbooked # {} => n = 10)
<1>1. \E n \in 0..10 : ReadSoFar(n)
  <2>1. "summaries" \in Reading
    BY DEF Shown
  <2>2. page # Closed
    BY <2>1, ClosedIs DEF Reading
  <2>3. QED
    BY <2>2 DEF PageInv
<1>2. PICK n \in 0..10 : ReadSoFar(n)
  BY <1>1
<1>3. Reading = First(n)
  BY <1>2, HeldReads
<1>4. n >= 6
  <2>1. Reads[6] \in First(n) /\ 6 \in 1..10
    BY <1>3, ReadsAre DEF Shown
  <2>2. QED
    BY <2>1, FirstReads
<1>5. ShownUnbooked # {} => n >= 10
  <2>1. ShownUnbooked # {} => Reads[10] \in First(n) /\ 10 \in 1..10
    BY <1>3, ReadsAre DEF Shown, LastRead
  <2>2. QED
    BY <2>1, FirstReads
<1>6. QED
  BY <1>2, <1>4, <1>5

\* What a shown page has read.
LEMMA ShownSaw ==
  ASSUME PageInv, Shown
  PROVE  /\ page.trip \in Trips
         /\ \A x \in {"stays", "links", "used", "contracts", "summaries"} :
              x \in Reading /\ Sound(page.saw[x])
         /\ ShownUnbooked # {} =>
              \A x \in {"months", "lots", "consumed", "legacy"} :
                x \in Reading /\ Sound(page.saw[x])
<1>1. PICK n \in 6..10 : ReadSoFar(n) /\ (ShownUnbooked # {} => n = 10)
  BY ShownReads
<1>2. Reading = First(n) /\ page.trip \in Trips
  BY <1>1, HeldReads DEF ReadSoFar
<1>3. \A i \in 1..10 : i <= n => Reads[i] \in Reading
  BY <1>2, FirstReads
<1>4. /\ Reads[2] \in Reading /\ Reads[3] \in Reading /\ Reads[4] \in Reading
      /\ Reads[5] \in Reading /\ Reads[6] \in Reading
  BY <1>3
<1>5. ShownUnbooked # {} => /\ Reads[7] \in Reading /\ Reads[8] \in Reading
                            /\ Reads[9] \in Reading /\ Reads[10] \in Reading
  BY <1>1, <1>3
<1>6. QED
  BY <1>2, <1>4, <1>5, ReadsAre DEF PageInv

-----------------------------------------------------------------------------
(* The tables stay sound and so does what a page has seen of them.         *)

\* A step of the page reads one more statement from the tables of the moment.
ReadsNext ==
  \E n \in 0..9 :
    /\ ReadSoFar(n) /\ ReadSoFar(n + 1)' /\ page'.trip = page.trip
    /\ \A x \in First(n) : page'.saw[x] = page.saw[x]
    /\ page'.saw[Reads[n + 1]] = db

\* A page reads its next statement, or is closed.
LEMMA PageStep ==
  ASSUME PageInv, Read
  PROVE  page' = Closed \/ ReadsNext
<1>1. PICK n \in 0..10 : ReadSoFar(n)
  <2>1. CASE page = Closed
    <3>1. DOMAIN page.saw = First(0) /\ page.saw = << >> /\ page = [trip |-> page.trip, saw |-> page.saw]
      BY <2>1, FirstReads DEF Closed
    <3>2. page.saw = [x \in First(0) |-> page.saw[x]]
      BY <3>1, FirstReads
    <3>3. ReadSoFar(0)
      BY <3>1, <3>2 DEF ReadSoFar, Read, Open
    <3>4. QED
      BY <3>3
  <2>2. QED
    BY <2>1 DEF PageInv
<1>2. Reading = First(n) /\ Cardinality(Reading) = n
  BY <1>1, HeldReads
<1>3. n \in 0..9
  <2>1. SUFFICES ASSUME n = 10
                 PROVE  FALSE
    OBVIOUS
  <2>2. \A i \in 1..10 : Reads[i] \in Reading
    BY <1>2, <2>1, FirstReads
  <2>3. Reads[3] \in Reading /\ Reads[4] \in Reading /\ Reads[6] \in Reading /\ Reads[10] \in Reading
    BY <2>2
  <2>4. Shown
    BY <2>3, ReadsAre DEF Shown, LastRead, Read
  <2>5. QED
    BY <2>4 DEF Read
<1>4. CASE page' = [page EXCEPT !.saw = [y \in Reading \cup {Reads[n + 1]} |->
                                            IF y = Reads[n + 1] THEN db ELSE page.saw[y]]]
  <2> DEFINE saw == [y \in Reading \cup {Reads[n + 1]} |->
                       IF y = Reads[n + 1] THEN db ELSE page.saw[y]]
  <2>1. Reading \cup {Reads[n + 1]} = First(n + 1)
    BY <1>2, <1>3, FirstReads
  <2>2. Reads[n + 1] \notin First(n)
    BY <1>3, FirstReads
  <2>3. page' = [trip |-> page.trip, saw |-> saw]
    <3> HIDE DEF saw
    <3>1. page = [trip |-> page.trip, saw |-> page.saw]
      BY <1>1 DEF ReadSoFar
    <3>2. page' = [page EXCEPT !.saw = saw]
      BY <1>4 DEF saw
    <3>3. QED
      BY <3>1, <3>2
  <2>4. page'.trip = page.trip /\ page'.saw = saw
    BY <2>3
  <2>5. saw = [x \in First(n + 1) |-> saw[x]]
    BY <2>1
  <2>6. /\ \A x \in First(n) : saw[x] = page.saw[x]
        /\ saw[Reads[n + 1]] = db
    BY <1>2, <2>2
  <2>7. page.trip \in Trips
    BY <1>1 DEF ReadSoFar
  <2> HIDE DEF saw
  <2>8. ReadSoFar(n + 1)'
    BY <2>3, <2>4, <2>5, <2>7 DEF ReadSoFar, First
  <2>9. QED
    BY <1>1, <1>3, <2>4, <2>6, <2>8 DEF ReadsNext
<1>5. QED
  BY <1>2, <1>4, Zenon DEF Read

\* Everything a page may hold is kept by every step.
LEMMA PageKept ==
  ASSUME PageInv, Sound(db), [FundingNext]_fundingVars
  PROVE  PageInv'
<1>1. CASE page' = page
  BY <1>1 DEF PageInv, ReadSoFar, First, Reading
<1>2. CASE page' = Closed
  BY <1>2, ClosedIs DEF PageInv, Reading
<1>3. ASSUME NEW t \in Trips, OpenPage(t)
      PROVE  PageInv'
  <2>1. page' = [trip |-> t, saw |-> << >>] /\ page'.saw = << >> /\ DOMAIN page'.saw = {}
        /\ page'.trip = t
    BY <1>3 DEF OpenPage
  <2>2. page'.saw = [x \in First(0) |-> page'.saw[x]]
    BY <2>1, FirstReads
  <2>3. ReadSoFar(0)'
    BY <2>1, <2>2 DEF ReadSoFar, First
  <2>4. QED
    BY <2>1, <2>3 DEF PageInv, Reading
<1>4. CASE Read
  <2>1. SUFFICES ASSUME ReadsNext
                 PROVE  PageInv'
    BY <1>2, <1>4, PageStep
  <2>2. PICK n \in 0..9 : /\ ReadSoFar(n) /\ ReadSoFar(n + 1)'
                          /\ \A x \in First(n) : page'.saw[x] = page.saw[x]
                          /\ page'.saw[Reads[n + 1]] = db
    BY <2>1 DEF ReadsNext
  <2>3. DOMAIN page'.saw = First(n + 1)
    BY <2>2 DEF ReadSoFar, First
  <2>4. Reading = First(n) /\ First(n + 1) = First(n) \cup {Reads[n + 1]}
    BY <2>2, HeldReads, FirstReads
  <2>5. \A x \in Reading' : Sound(page'.saw[x])
    BY <2>2, <2>3, <2>4 DEF PageInv, Reading
  <2>6. n + 1 \in 0..10
    OBVIOUS
  <2>7. QED
    BY <2>2, <2>5, <2>6 DEF PageInv, Sound
<1>5. QED
  BY <1>1, <1>2, <1>3, <1>4 DEF FundingNext, fundingVars, ClosePage

-----------------------------------------------------------------------------
(* How the tables grow while the ledger only sees bookings.                *)

\* The tables d some steps ago: contracts are the same, new rows are usage,
\* and a stay has gained links only if it had none.
Grown(d, e) ==
  /\ e.contracts = d.contracts /\ e.months = d.months
  /\ d.stays \subseteq e.stays
  /\ d.entries \subseteq e.entries
  /\ \A x \in e.entries \ d.entries : x.allotted = 0
  /\ d.links \subseteq e.links
  /\ \A l \in e.links \ d.links : ~Booked(d, l[1])

\* Tables have grown from themselves.
LEMMA GrownItself == \A d : Grown(d, d)
BY DEF Grown

\* Tables that grow twice have grown.
LEMMA GrownOn ==
  ASSUME NEW d, NEW e, NEW f, Grown(d, e), Grown(e, f)
  PROVE  Grown(d, f)
<1>1. \A s : Booked(d, s) => Booked(e, s)
  BY DEF Grown, Booked, LinkedTo
<1>2. QED
  BY <1>1 DEF Grown

\* The rows of a booking are usage.
OnlyUsage(r) == Underway(r) => \A e \in tx[r].rows : e.allotted = 0

UsageInv == PaidInv /\ \A r \in Requests : OnlyUsage(r)

\* No booking has inserted anything at first.
LEMMA UsageInit == Init => UsageInv
BY PaidInit DEF Init, UsageInv, OnlyUsage, Underway

\* Every step keeps what bookings insert usage.
LEMMA UsageNext == UsageInv /\ [Next]_vars => UsageInv'
<1>1. SUFFICES ASSUME UsageInv, [Next]_vars
               PROVE  UsageInv'
  OBVIOUS
<1>2. PaidInv /\ PaidInv' /\ TypeInv /\ TxInv
  BY <1>1, PaidNext DEF UsageInv, PaidInv, LinkInv, LockInv
<1>3. CASE UNCHANGED vars
  BY <1>1, <1>2, <1>3 DEF vars, UsageInv, OnlyUsage, Underway
<1>4. ASSUME NEW r \in Requests, Step(r) \/ Abort(r)
      PROVE  UsageInv'
  <2>1. Moves(r)
    BY <1>2, <1>4, StepMoves
  <2>2. \A q \in Requests \ {r} : OnlyUsage(q)'
    BY <1>1, <2>1 DEF Moves, UsageInv, OnlyUsage, Underway
  <2>3. OnlyUsage(r)'
    <3>1. SUFFICES ASSUME Underway(r)'
                   PROVE  \A e \in tx'[r].rows : e.allotted = 0
      BY DEF OnlyUsage
    <3>2. CASE Begins(r) \/ LocksOn(r)
      <4>1. tx[r].rows = {}
        BY <1>2, <3>2, NothingReached DEF Begins, LocksOn
      <4>2. tx'[r].rows = tx[r].rows
        BY <1>2, <3>2 DEF Begins, LocksOn, SameTx, TypeInv, TypeOK, Tx
      <4>3. QED
        BY <4>1, <4>2
    <3>3. ASSUME NEW s \in Stays, NEW rows \in SUBSET Entry, Inserts(r, s, rows)
          PROVE  \A e \in tx'[r].rows : e.allotted = 0
      <4>1. tx'[r].rows = tx[r].rows \cup rows
        BY <1>2, <3>3, InsertPays
      <4>2. \A e \in rows : e.allotted = 0
        BY <3>3 DEF Inserts, UsageRow
      <4>3. \A e \in tx[r].rows : e.allotted = 0
        BY <1>1, <3>3 DEF UsageInv, OnlyUsage, Underway, Inserts
      <4>4. QED
        BY <4>1, <4>2, <4>3
    <3>4. QED
      BY <1>2, <1>4, <3>1, <3>2, <3>3, OpenSteps
  <2>4. QED
    BY <1>2, <2>2, <2>3 DEF UsageInv
<1>5. QED
  BY <1>1, <1>3, <1>4 DEF Next, Idle

-----------------------------------------------------------------------------
(* Which links a booking knows, whatever the other requests do.            *)

\* Until another booking overtakes it, a booking has seen every link of the
\* stays it has seen: links of other stays come from imports.
KnownLinks(r) ==
  Underway(r) =>
    /\ tx[r].snap.stays \subseteq issued.stays
    /\ ~tx[r].overtaken =>
         \A l \in db.links : l[1] \in tx[r].snap.stays => l \in tx[r].snap.links

\* An import is putting a trip together.
Gathering(r) == pc[r] \in {"checking", "linking"}

\* The stays an import is about to insert are stays nobody has seen.
Unseen(r) ==
  Gathering(r) => \A s \in Reached(r) :
    /\ s \in issued.stays \ db.stays
    /\ \A q \in Requests : Underway(q) => s \notin tx[q].snap.stays
    /\ \A q \in Requests \ {r} : Gathering(q) => s \notin Reached(q)

KnownInv ==
  /\ UsageInv /\ db.stays \subseteq issued.stays
  /\ \A r \in Requests : KnownLinks(r) /\ Unseen(r)

\* No booking knows of any link at first.
LEMMA KnownInit == Init => KnownInv
<1>1. SUFFICES ASSUME Init
               PROVE  KnownInv
  OBVIOUS
<1>2. UsageInv
  BY <1>1, UsageInit
<1>3. \A r \in Requests : pc[r] = "start"
  BY <1>1 DEF Init
<1>4. issued.stays = db.stays
  BY <1>1 DEF Init
<1>5. QED
  BY <1>2, <1>3, <1>4 DEF KnownInv, KnownLinks, Unseen, Underway, Gathering

\* The steps that bring in stays, and those that only take away.
Takes(r) ==
  /\ db' = db /\ pc'[r] = "checking"
  /\ \E s \in Stays :
       /\ s \notin issued.stays \/ (Gathering(r) /\ s \in Reached(r))
       /\ issued'.stays = issued.stays \cup {s}
       /\ tx'[r].links \subseteq tx[r].links \cup ({s} \X EntryId)
  /\ Gathering(r) \/ tx[r].links = {}
Imports(r) ==
  /\ pc[r] = "linking" /\ pc'[r] = "ok" /\ issued' = issued
  /\ db'.stays = db.stays \cup Reached(r)
  /\ db'.links = db.links \cup tx[r].links
Adds(r) ==
  /\ pc'[r] = "ok" /\ db'.links = db.links
  /\ \E s \in Stays \ issued.stays :
       issued'.stays = issued.stays \cup {s} /\ db'.stays = db.stays \cup {s}
TakesAway(r) ==
  /\ issued' = issued
  /\ Gathering(r)' => Gathering(r) /\ tx'[r].links = tx[r].links
  /\ db'.stays \subseteq db.stays /\ db'.links \subseteq db.links

\* A check either starts on a new stay or adds to the current one.
LEMMA CheckTakes ==
  ASSUME LinkInv, NEW r \in Requests, ImportCheck(r)
  PROVE  Takes(r) \/ TakesAway(r)
<1>1. TypeInv /\ pc \in [Requests -> PcType] /\ db \in DB
      /\ issued \in [trips : SUBSET Trips, stays : SUBSET Stays]
  BY DEF LinkInv, LockInv, TypeInv, TypeOK, PcType
<1>2. CASE Answer(r, "rejected") /\ UNCHANGED issued
  BY <1>1, <1>2 DEF Answer, ImportCheck, TakesAway, Gathering
<1>3. ASSUME NEW s \in NewStays(r) \cup CurrentStays(r), NEW e \in db.entries,
             issued' = [issued EXCEPT !.stays = @ \cup {s}, !.trips = @ \cup {TripOf[s]}],
             tx' = [tx EXCEPT ![r].rows = @ \cup {e}, ![r].links = @ \cup {<<s, e.id>>}],
             pc' = [pc EXCEPT ![r] = "checking"]
      PROVE  Takes(r)
  <2>1. s \in Stays /\ (s \notin issued.stays \/ s \in Reached(r))
    BY <1>1 DEF NewStays, CurrentStays, Reached, TypeInv, TypeOK, Tx
  <2>2. Gathering(r) \/ tx[r].links = {}
    <3>1. NothingYet(r)
      BY DEF LinkInv, TxInv, TxOrder
    <3>2. pc[r] \in {"start", "checking"}
      BY DEF ImportCheck
    <3>3. QED
      BY <3>1, <3>2 DEF NothingYet, Gathering
  <2>3. Gathering(r) \/ Reached(r) = {}
    BY <2>2 DEF Reached
  <2>4. issued'.stays = issued.stays \cup {s}
    BY <1>1, <1>3
  <2>5. e \in Entry /\ e.id \in EntryId
    BY <1>1 DEF DB, Entry
  <2>6. tx'[r].links = tx[r].links \cup {<<s, e.id>>}
    BY <1>1, <1>3, <2>1, <2>5, ImportedRow DEF ReadsRow
  <2>7. db' = db /\ pc'[r] = "checking"
    BY <1>1, <1>3 DEF ImportCheck
  <2>8. QED
    BY <2>1, <2>2, <2>3, <2>4, <2>5, <2>6, <2>7 DEF Takes
<1>4. QED
  BY <1>2, <1>3, Zenon DEF ImportCheck

\* What the last step of a request does.
LEMMA FinishTakes ==
  ASSUME TypeInv, NEW r \in Requests, Finishes(r)
  PROVE  Imports(r) \/ Adds(r) \/ TakesAway(r)
<1>1. db \in DB /\ pc \in [Requests -> PcType]
      /\ issued \in [trips : SUBSET Trips, stays : SUBSET Stays]
  BY DEF TypeInv, TypeOK, PcType
<1>2. PICK a \in {"ok", "rejected", "aborted"} : Answer(r, a) /\ (db' = db \/ a = "ok")
  BY FinishMoves
<1>3. pc'[r] = a /\ ~Gathering(r)'
  BY <1>1, <1>2 DEF Answer, Gathering
<1>4. CASE issued' = issued /\ db'.stays \subseteq db.stays /\ db'.links \subseteq db.links
  BY <1>3, <1>4 DEF TakesAway
<1>5. CASE db' = db /\ issued' = issued
  BY <1>4, <1>5
<1>6. CASE DeleteCommit(r) \/ DeleteEntry(r)
  <2>1. UNCHANGED db \/ \E ids, stays, trips : db' = Without(db, ids, stays, trips)
    BY <1>6 DEF DeleteCommit, DeleteEntry
  <2>2. db'.stays \subseteq db.stays /\ db'.links \subseteq db.links
    BY <1>1, <2>1 DEF Without, DB
  <2>3. issued' = issued
    BY <1>6 DEF DeleteCommit, DeleteEntry
  <2>4. QED
    BY <1>4, <2>2, <2>3
<1>7. CASE AddEntry(r) \/ EditCommit(r) \/ ContractCommit(r) \/ UpdateContract(r) \/ Abort(r)
  <2>1. ASSUME NEW E, db' = [db EXCEPT !.entries = E]
        PROVE  db'.stays = db.stays /\ db'.links = db.links
    BY <1>1, <2>1 DEF DB
  <2>2. ASSUME NEW C, NEW E, db' = [db EXCEPT !.contracts = C, !.entries = E]
        PROVE  db'.stays = db.stays /\ db'.links = db.links
    BY <1>1, <2>2 DEF DB
  <2>3. ASSUME NEW c, NEW m, db' = [db EXCEPT !.months[c] = m]
        PROVE  db'.stays = db.stays /\ db'.links = db.links
    BY <1>1, <2>3 DEF DB
  <2>4. CASE AddEntry(r)
    BY <1>4, <2>1, <2>4, Zenon DEF AddEntry
  <2>5. CASE EditCommit(r)
    BY <1>4, <2>1, <2>5, Zenon DEF EditCommit
  <2>6. CASE ContractCommit(r)
    BY <1>4, <2>2, <2>6, Zenon DEF ContractCommit
  <2>7. CASE UpdateContract(r)
    BY <1>4, <2>3, <2>7, Zenon DEF UpdateContract
  <2>8. CASE Abort(r)
    BY <1>5, <2>8 DEF Abort
  <2>9. QED
    BY <1>7, <2>4, <2>5, <2>6, <2>7, <2>8
<1>8. CASE AddStay(r)
  <2>1. ASSUME NEW s \in Stays \ issued.stays, issued' = [issued EXCEPT !.stays = @ \cup {s}],
               db' = [db EXCEPT !.stays = @ \cup {s}], Answer(r, "ok")
        PROVE  Adds(r)
    <3>1. pc'[r] = "ok"
      BY <1>1, <2>1 DEF Answer
    <3>2. QED
      BY <1>1, <2>1, <3>1 DEF Adds, DB
  <2>2. QED
    BY <1>5, <1>8, <2>1 DEF AddStay
<1>9. CASE ImportCommit(r)
  <2>1. pc[r] = "linking" /\ issued' = issued /\ Answer(r, "ok")
        /\ db' = [db EXCEPT !.trips = @ \cup {TripOf[s] : s \in Reached(r)},
                            !.stays = @ \cup Reached(r), !.links = @ \cup tx[r].links]
    BY <1>9 DEF ImportCommit
  <2>2. pc'[r] = "ok"
    BY <1>1, <2>1 DEF Answer
  <2>3. db'.stays = db.stays \cup Reached(r) /\ db'.links = db.links \cup tx[r].links
    BY <1>1, <2>1 DEF DB
  <2>4. QED
    BY <2>1, <2>2, <2>3 DEF Imports
<1>10. QED
  BY <1>6, <1>7, <1>8, <1>9 DEF Finishes

\* But for a commit, a step is one of these.
LEMMA StaysBrought ==
  ASSUME LinkInv, NEW r \in Requests, Step(r) \/ Abort(r), ~(BookCommit(r) /\ ~LostRace(r))
  PROVE  Takes(r) \/ Imports(r) \/ Adds(r) \/ TakesAway(r)
<1>1. TypeInv /\ pc \in [Requests -> PcType]
  BY DEF LinkInv, LockInv, TypeInv, TypeOK, PcType
<1>2. \A a : Answer(r, a) => pc'[r] = a
  BY <1>1 DEF Answer
<1>3. Retry(r) => ~Gathering(r)'
  BY <1>2 DEF Retry, Gathering
<1>4. CASE UNCHANGED <<db, issued>> /\ ~Gathering(r)'
  BY <1>4 DEF TakesAway
<1>5. CASE LockStep(r)
  <2>1. UNCHANGED <<db, issued>>
    BY <1>1, <1>5, LockSteps
  <2>2. ASSUME NEW m \in QuietMoves, Quiet(r, m[1], m[2])
        PROVE  TakesAway(r)
    <3>1. pc[r] = m[1] /\ pc'[r] = m[2] /\ tx'[r].links = tx[r].links
      BY <1>1, <2>2, QuietTx
    <3>2. Gathering(r)' => Gathering(r)
      BY <3>1 DEF Gathering, QuietMoves
    <3>3. QED
      BY <2>1, <3>1, <3>2 DEF TakesAway
  <2>3. Answer(r, "rejected") => ~Gathering(r)'
    BY <1>2 DEF Gathering
  <2>4. QED
    BY <1>1, <1>3, <1>4, <1>5, <2>1, <2>2, <2>3, LockSteps
<1>6. CASE FundStay(r)
  <2>1. UNCHANGED <<db, issued>> /\ pc[r] = "fund"
    BY <1>6, FundCases
  <2>2. Answer(r, "insufficient") \/ Retry(r) \/ UNCHANGED pc
    BY <1>6, FundCases
  <2>3. Answer(r, "insufficient") => ~Gathering(r)'
    BY <1>2 DEF Gathering
  <2>4. QED
    BY <1>3, <1>4, <2>1, <2>2, <2>3 DEF Gathering
<1>7. CASE BookCommit(r) /\ LostRace(r)
  <2>1. UNCHANGED <<db, issued>> /\ Retry(r)
    BY <1>7, Zenon DEF BookCommit
  <2>2. QED
    BY <1>3, <1>4, <2>1
<1>8. CASE BookBegin(r) \/ DeleteEntries(r) \/ EditEntry(r) \/ DeleteContract(r)
  <2>1. UNCHANGED <<db, issued>>
        /\ \E a \in {"lock", "notFound", "deleting", "editing", "nulling", "ok"} :
             pc' = [pc EXCEPT ![r] = a]
    BY <1>8, Zenon DEF BookBegin, DeleteEntries, EditEntry, DeleteContract, Answer
  <2>2. ~Gathering(r)'
    BY <1>1, <2>1 DEF Gathering
  <2>3. QED
    BY <1>4, <2>1, <2>2
<1>9. CASE ImportCheck(r)
  BY <1>9, CheckTakes
<1>10. CASE Finishes(r)
  BY <1>1, <1>10, FinishTakes
<1>11. QED
  BY <1>5, <1>6, <1>7, <1>8, <1>9, <1>10 DEF Step, LockStep, Finishes

\* What the others know, and whom they will link, they still do.
LEMMA OthersKnow ==
  ASSUME KnownInv, NEW r \in Requests, Step(r) \/ Abort(r), NEW q \in Requests \ {r}
  PROVE  KnownLinks(q)' /\ issued.stays \subseteq issued'.stays
<1>1. /\ TypeInv /\ LinkInv /\ Moves(r)
  BY StepMoves DEF KnownInv, UsageInv, PaidInv, LinkInv, LockInv
<1>2. /\ KnownLinks(q) /\ Unseen(r) /\ db.stays \subseteq issued.stays
  BY DEF KnownInv
<1>3. /\ pc'[q] = pc[q] /\ tx'[q].snap = tx[q].snap
  BY <1>1 DEF Moves
<1>4. CASE BookCommit(r) /\ ~LostRace(r)
  <2>1. issued' = issued
    BY <1>4 DEF BookCommit
  <2>2. CASE tx[r].rows = {}
    <3>1. db' = db
      BY <1>1, <1>4, <2>2, CommitWrites
    <3>2. tx'[q].overtaken <=> tx[q].overtaken
      BY <1>1, <1>4, <2>2, CommitMoves
    <3>3. QED
      BY <1>2, <1>3, <2>1, <3>1, <3>2 DEF KnownLinks, Underway
  <2>3. CASE tx[r].rows # {}
    <3>1. Underway(q) => tx'[q].overtaken
      BY <1>1, <1>4, <2>3, CommitWrites
    <3>2. QED
      BY <1>2, <1>3, <2>1, <3>1 DEF KnownLinks, Underway
  <2>4. QED
    BY <2>2, <2>3
<1>5. CASE ~(BookCommit(r) /\ ~LostRace(r))
  <2>1. tx'[q] = tx[q]
    BY <1>1, <1>5, OthersKeep
  <2>2. issued.stays \subseteq issued'.stays
    BY <1>1, <1>5, StaysBrought DEF Takes, Imports, Adds, TakesAway
  <2>3. ASSUME Underway(q)
        PROVE  \A l \in db'.links : l[1] \in tx[q].snap.stays => l \in db.links
    <3>1. CASE Imports(r)
      BY <1>2, <2>3, <3>1 DEF Imports, Unseen, Gathering, Reached
    <3>2. CASE Takes(r) \/ Adds(r) \/ TakesAway(r)
      BY <3>2 DEF Takes, Adds, TakesAway
    <3>3. QED
      BY <1>1, <1>5, <3>1, <3>2, StaysBrought
  <2>4. QED
    BY <1>2, <1>3, <2>1, <2>2, <2>3 DEF KnownLinks, Underway
<1>6. QED
  BY <1>4, <1>5

\* What the request itself knows when it has begun, and goes on to know.
LEMMA ItselfKnows ==
  ASSUME KnownInv, NEW r \in Requests, Step(r) \/ Abort(r)
  PROVE  KnownLinks(r)'
<1>1. TypeInv /\ PaidInv /\ KnownLinks(r) /\ db.stays \subseteq issued.stays /\ tx[r] \in Tx
  BY DEF KnownInv, UsageInv, PaidInv, LinkInv, LockInv, TypeInv, TypeOK
<1>2. SUFFICES ASSUME Underway(r)'
               PROVE  /\ tx'[r].snap.stays \subseteq issued'.stays
                      /\ ~tx'[r].overtaken =>
                           \A l \in db'.links : l[1] \in tx'[r].snap.stays => l \in tx'[r].snap.links
  BY DEF KnownLinks
<1>3. /\ db' = db /\ issued' = issued
      /\ Begins(r) \/ LocksOn(r) \/ \E s \in Stays : \E rows \in SUBSET Entry : Inserts(r, s, rows)
  BY <1>1, <1>2, OpenSteps
<1>4. CASE Begins(r)
  <2>1. tx'[r].snap = db
    BY <1>1, <1>4 DEF Begins, Tx
  <2>2. QED
    BY <1>1, <1>3, <2>1
<1>5. CASE LocksOn(r) \/ \E s \in Stays : \E rows \in SUBSET Entry : Inserts(r, s, rows)
  <2>1. Underway(r) /\ tx'[r].snap = tx[r].snap /\ tx'[r].overtaken = tx[r].overtaken
    BY <1>5 DEF LocksOn, SameTx, Inserts, Underway
  <2>2. QED
    BY <1>1, <1>3, <2>1 DEF KnownLinks
<1>6. QED
  BY <1>3, <1>4, <1>5

\* What is about to be imported stays unseen.
LEMMA StaysUnseen ==
  ASSUME KnownInv, NEW r \in Requests, Step(r) \/ Abort(r)
  PROVE  /\ db'.stays \subseteq issued'.stays
         /\ \A q \in Requests : Unseen(q)'
<1>1. /\ TypeInv /\ LinkInv /\ Moves(r) /\ tx[r] \in Tx
      /\ db.stays \subseteq issued.stays
  BY StepMoves DEF KnownInv, UsageInv, PaidInv, LinkInv, LockInv, TypeInv, TypeOK
<1>2. \A q \in Requests : KnownLinks(q) /\ Unseen(q)
  BY DEF KnownInv
<1>3. \A q \in Requests \ {r} : /\ pc'[q] = pc[q] /\ tx'[q].snap = tx[q].snap
                                /\ Reached(q)' = Reached(q)
  BY <1>1 DEF Moves, Reached
<1>4. Underway(r)' => /\ db' = db /\ issued' = issued
                      /\ tx'[r].snap = db \/ (Underway(r) /\ tx'[r].snap = tx[r].snap)
  <2>1. SUFFICES ASSUME Underway(r)'
                 PROVE  /\ db' = db /\ issued' = issued
                        /\ tx'[r].snap = db \/ (Underway(r) /\ tx'[r].snap = tx[r].snap)
    OBVIOUS
  <2>2. /\ db' = db /\ issued' = issued
        /\ Begins(r) \/ LocksOn(r) \/ \E s \in Stays : \E rows \in SUBSET Entry : Inserts(r, s, rows)
    BY <1>1, <2>1, OpenSteps
  <2>3. CASE Begins(r)
    BY <1>1, <2>2, <2>3 DEF Begins, Tx
  <2>4. CASE LocksOn(r) \/ \E s \in Stays : \E rows \in SUBSET Entry : Inserts(r, s, rows)
    BY <2>2, <2>4 DEF LocksOn, SameTx, Inserts, Underway
  <2>5. QED
    BY <2>2, <2>3, <2>4
\* Stays that are waited for are none of those that are seen by now.
<1> DEFINE Waits(q, s) == q \in Requests \ {r} /\ Gathering(q) /\ s \in Reached(q)
<1>5. ASSUME NEW q, NEW s, Waits(q, s)
      PROVE  /\ s \in issued.stays \ db.stays
             /\ \A p \in Requests : Underway(p)' => s \notin tx'[p].snap.stays
             /\ \A p \in Requests \ {q} : Gathering(p) => s \notin Reached(p)
  <2>1. /\ s \in issued.stays \ db.stays
        /\ \A p \in Requests : Underway(p) => s \notin tx[p].snap.stays
        /\ \A p \in Requests \ {q} : Gathering(p) => s \notin Reached(p)
    BY <1>2, <1>5 DEF Unseen
  <2>2. QED
    BY <1>3, <1>4, <2>1 DEF Underway
\* Those of the other requests stay unseen, when r itself comes to none of them.
<1>6. ASSUME db'.stays \subseteq db.stays \/ \A q, s : Waits(q, s) => s \notin db'.stays,
             issued.stays \subseteq issued'.stays,
             Gathering(r)' => \A q, s : Waits(q, s) => s \notin Reached(r)',
             NEW q \in Requests \ {r}
      PROVE  Unseen(q)'
  <2>1. SUFFICES ASSUME Gathering(q), NEW s \in Reached(q)
                 PROVE  /\ s \in issued'.stays \ db'.stays
                        /\ \A p \in Requests : Underway(p)' => s \notin tx'[p].snap.stays
                        /\ \A p \in Requests \ {q} : Gathering(p)' => s \notin Reached(p)'
    BY <1>3 DEF Unseen, Gathering
  <2>2. Waits(q, s)
    BY <2>1
  <2> HIDE DEF Waits
  <2>3. /\ s \in issued.stays \ db.stays
        /\ \A p \in Requests : Underway(p)' => s \notin tx'[p].snap.stays
        /\ \A p \in Requests \ {q} : Gathering(p) => s \notin Reached(p)
    BY <1>5, <2>2
  <2>4. \A p \in Requests \ {q} : Gathering(p)' => s \notin Reached(p)'
    <3>1. Gathering(r)' => s \notin Reached(r)'
      BY <1>6, <2>2
    <3>2. \A p \in Requests \ {q, r} : Gathering(p)' => s \notin Reached(p)'
      BY <1>3, <2>3 DEF Gathering
    <3>3. QED
      BY <3>1, <3>2
  <2>5. QED
    BY <1>6, <2>2, <2>3, <2>4
<1>7. CASE TakesAway(r) \/ (BookCommit(r) /\ ~LostRace(r))
  <2>1. /\ issued' = issued /\ db'.stays \subseteq db.stays
        /\ Gathering(r)' => Gathering(r) /\ tx'[r].links = tx[r].links
    <3>1. CASE TakesAway(r)
      BY <3>1 DEF TakesAway
    <3>2. CASE BookCommit(r) /\ ~LostRace(r)
      <4>1. pc'[r] = "ok"
        BY <1>1, <3>2, CommitMoves
      <4>2. QED
        BY <1>1, <3>2, <4>1, CommitWrites DEF BookCommit, Gathering
    <3>3. QED
      BY <1>7, <3>1, <3>2
  <2>2. Gathering(r)' => Gathering(r) /\ Reached(r)' = Reached(r)
    BY <2>1 DEF Reached
  <2>3. Gathering(r)' => \A q, s : Waits(q, s) => s \notin Reached(r)'
    BY <1>5, <2>2
  <2>4. \A q \in Requests \ {r} : Unseen(q)'
    <3> HIDE DEF Waits
    <3>1. QED
      BY <1>6, <2>1, <2>3
  <2>5. Unseen(r)'
    <3>1. SUFFICES ASSUME Gathering(r)'
                   PROVE  Unseen(r)'
      BY DEF Unseen
    <3>2. Gathering(r) /\ Reached(r)' = Reached(r) /\ ~Underway(r)'
      BY <2>2, <3>1 DEF Gathering, Underway
    <3>3. Unseen(r)
      BY <1>2
    <3>4. QED
      BY <1>3, <2>1, <3>2, <3>3 DEF Unseen, Gathering, Underway
  <2>6. QED
    BY <1>1, <2>1, <2>4, <2>5
<1>8. CASE Imports(r)
  <2>1. Reached(r) \subseteq issued.stays /\ Gathering(r) /\ ~Gathering(r)'
    BY <1>2, <1>8 DEF Imports, Unseen, Gathering
  <2>2. \A q, s : Waits(q, s) => s \notin db'.stays
    BY <1>5, <1>8, <2>1 DEF Imports
  <2>3. issued' = issued /\ db'.stays \subseteq issued'.stays
    BY <1>1, <1>8, <2>1 DEF Imports
  <2>4. \A q \in Requests \ {r} : Unseen(q)'
    <3> HIDE DEF Waits
    <3>1. QED
      BY <1>6, <2>1, <2>2, <2>3
  <2>5. QED
    BY <2>1, <2>3, <2>4 DEF Unseen
<1>9. CASE Adds(r)
  <2>1. PICK s \in Stays \ issued.stays :
          issued'.stays = issued.stays \cup {s} /\ db'.stays = db.stays \cup {s}
    BY <1>9 DEF Adds
  <2>2. ~Gathering(r)'
    BY <1>9 DEF Adds, Gathering
  <2>3. \A q, t : Waits(q, t) => t \notin db'.stays
    BY <1>5, <2>1
  <2>4. \A q \in Requests \ {r} : Unseen(q)'
    <3> HIDE DEF Waits
    <3>1. QED
      BY <1>6, <2>1, <2>2, <2>3
  <2>5. QED
    BY <1>1, <2>1, <2>2, <2>4 DEF Unseen
<1>10. CASE Takes(r)
  <2>1. PICK s \in Stays : /\ s \notin issued.stays \/ (Gathering(r) /\ s \in Reached(r))
                           /\ issued'.stays = issued.stays \cup {s}
                           /\ tx'[r].links \subseteq tx[r].links \cup ({s} \X EntryId)
    BY <1>10 DEF Takes
  <2>2. db' = db /\ pc'[r] = "checking" /\ (Gathering(r) \/ Reached(r) = {})
    BY <1>10 DEF Takes, Reached
  <2>3. Reached(r)' \subseteq Reached(r) \cup {s}
    BY <2>1 DEF Reached
  <2>4. \A q, t : Waits(q, t) => t # s /\ t \notin Reached(r)'
    <3>1. SUFFICES ASSUME NEW q, NEW t, Waits(q, t)
                   PROVE  t # s /\ t \notin Reached(r)'
      OBVIOUS
    <3>2. t \in issued.stays /\ (Gathering(r) => t \notin Reached(r))
      <4>1. r \in Requests \ {q}
        BY <3>1
      <4>2. QED
        BY <1>5, <3>1, <4>1
    <3>3. QED
      BY <2>1, <2>2, <2>3, <3>2
  <2>5. ~Underway(r)' /\ Gathering(r)'
    BY <2>2 DEF Underway, Gathering
  <2>6. Unseen(r)'
    <3>1. SUFFICES ASSUME NEW t \in Reached(r)'
                   PROVE  /\ t \in issued'.stays \ db'.stays
                          /\ \A q \in Requests : Underway(q)' => t \notin tx'[q].snap.stays
                          /\ \A q \in Requests \ {r} : Gathering(q)' => t \notin Reached(q)'
      BY DEF Unseen
    <3>2. \A q \in Requests \ {r} : Gathering(q)' => t \notin Reached(q)'
      BY <1>3, <2>4, <3>1 DEF Gathering
    <3>3. CASE t \notin issued.stays
      <4>1. t = s \/ t \in Reached(r)
        BY <2>3, <3>1
      <4>2. t \in issued'.stays \ db'.stays
        <5>1. Gathering(r) => Reached(r) \subseteq issued.stays
          BY <1>2 DEF Unseen
        <5>2. QED
          BY <1>1, <2>1, <2>2, <3>3, <4>1, <5>1
      <4>3. \A q \in Requests \ {r} : Underway(q) => t \notin tx[q].snap.stays
        BY <1>2, <3>3 DEF KnownLinks
      <4>4. QED
        BY <1>3, <2>5, <3>2, <4>2, <4>3 DEF Underway
    <3>4. CASE t \in issued.stays
      <4>1. Gathering(r) /\ t \in Reached(r)
        BY <2>1, <2>2, <2>3, <3>1, <3>4
      <4>2. /\ t \in issued.stays \ db.stays
            /\ \A q \in Requests : Underway(q) => t \notin tx[q].snap.stays
        BY <1>2, <4>1 DEF Unseen
      <4>3. QED
        BY <1>3, <2>1, <2>2, <2>5, <3>2, <4>2 DEF Underway
    <3>5. QED
      BY <3>3, <3>4
  <2>7. \A q \in Requests \ {r} : Unseen(q)'
    <3> HIDE DEF Waits
    <3>1. QED
      BY <1>6, <2>1, <2>2, <2>4
  <2>8. QED
    BY <1>1, <2>1, <2>2, <2>6, <2>7
<1>11. QED
  BY <1>1, <1>7, <1>8, <1>9, <1>10, StaysBrought

(***************************************************************************)
(* An import brings stays of its own, so only bookings link the stays      *)
(* another booking may be about to pay for.                                *)
(***************************************************************************)
LEMMA KnownNext == KnownInv /\ [Next]_vars => KnownInv'
<1>1. SUFFICES ASSUME KnownInv, [Next]_vars
               PROVE  KnownInv'
  OBVIOUS
<1>2. UsageInv'
  BY <1>1, UsageNext DEF KnownInv
<1>3. CASE UNCHANGED vars
  BY <1>1, <1>2, <1>3 DEF vars, KnownInv, KnownLinks, Unseen, Underway, Gathering, Reached
<1>4. ASSUME NEW r \in Requests, Step(r) \/ Abort(r)
      PROVE  KnownInv'
  <2>1. \A q \in Requests : KnownLinks(q)'
    BY <1>1, <1>4, OthersKnow, ItselfKnows
  <2>2. db'.stays \subseteq issued'.stays /\ \A q \in Requests : Unseen(q)'
    BY <1>1, <1>4, StaysUnseen
  <2>3. QED
    BY <1>2, <2>1, <2>2 DEF KnownInv
<1>5. QED
  BY <1>1, <1>3, <1>4 DEF Next, Idle

-----------------------------------------------------------------------------
(* The tables stay sound: only so many stays have been handed out.         *)

\* A step hands out at most one stay and never inserts a contract.
LEMMA StepTables ==
  ASSUME LinkInv, NEW r \in Requests, Step(r) \/ Abort(r)
  PROVE  /\ \E s : issued'.stays \subseteq issued.stays \cup {s}
         /\ db'.contracts \subseteq db.contracts
<1>1. TypeInv /\ db \in DB
  BY DEF LinkInv, LockInv, TypeInv, TypeOK
<1>2. \E s : issued'.stays \subseteq issued.stays \cup {s}
  <2>1. CASE BookCommit(r)
    BY <2>1 DEF BookCommit
  <2>2. CASE ~BookCommit(r)
    BY <2>2, StaysBrought DEF Takes, Imports, Adds, TakesAway
  <2>3. QED
    BY <2>1, <2>2
<1>3. db'.contracts \subseteq db.contracts
  <2>1. CASE BookCommit(r) /\ ~LostRace(r)
    BY <1>1, <2>1, CommitWrites
  <2>2. CASE db' = db
    BY <2>2
  <2>3. CASE DeleteCommit(r) \/ DeleteEntry(r)
    <3>1. UNCHANGED db \/ \E ids, stays, trips : db' = Without(db, ids, stays, trips)
      BY <2>3 DEF DeleteCommit, DeleteEntry
    <3>2. QED
      BY <1>1, <3>1 DEF Without, DB
  <2>4. CASE ImportCommit(r)
    <3>1. PICK R : R = Reached(r)
      OBVIOUS
    <3>2. db' = [db EXCEPT !.trips = @ \cup {TripOf[s] : s \in R},
                           !.stays = @ \cup R, !.links = @ \cup tx[r].links]
      BY <2>4, <3>1 DEF ImportCommit
    <3>3. QED
      BY <1>1, <3>2 DEF DB
  <2>5. CASE AddStay(r) \/ AddEntry(r) \/ EditCommit(r) \/ ContractCommit(r) \/ UpdateContract(r)
    <3>1. ASSUME NEW E, db' = [db EXCEPT !.entries = E]
          PROVE  db'.contracts = db.contracts
      BY <1>1, <3>1 DEF DB
    <3>2. ASSUME NEW S, db' = [db EXCEPT !.stays = S]
          PROVE  db'.contracts = db.contracts
      BY <1>1, <3>2 DEF DB
    <3>3. ASSUME NEW C, NEW E, db' = [db EXCEPT !.contracts = db.contracts \ C, !.entries = E]
          PROVE  db'.contracts \subseteq db.contracts
      BY <1>1, <3>3 DEF DB
    <3>4. ASSUME NEW c, NEW m, db' = [db EXCEPT !.months[c] = m]
          PROVE  db'.contracts = db.contracts
      BY <1>1, <3>4 DEF DB
    <3>5. AddStay(r) => db' = db \/ db'.contracts = db.contracts
      BY <3>2, Zenon DEF AddStay
    <3>6. AddEntry(r) => db' = db \/ db'.contracts = db.contracts
      BY <3>1, Zenon DEF AddEntry
    <3>7. EditCommit(r) => db' = db \/ db'.contracts = db.contracts
      BY <3>1, Zenon DEF EditCommit
    <3>8. ContractCommit(r) => db'.contracts \subseteq db.contracts
      <4>1. SUFFICES ASSUME ContractCommit(r)
                     PROVE  db'.contracts \subseteq db.contracts
        OBVIOUS
      <4>2. db' = [db EXCEPT !.contracts = db.contracts \ Leaving(r),
                             !.entries = {Nulled(e, Leaving(r)) : e \in db.entries}]
        BY <4>1, Zenon DEF ContractCommit
      <4>3. QED
        BY <3>3, <4>2
    <3>9. UpdateContract(r) => db' = db \/ db'.contracts = db.contracts
      BY <3>4, Zenon DEF UpdateContract
    <3>10. QED
      BY <2>5, <3>5, <3>6, <3>7, <3>8, <3>9
  <2>6. LockStep(r) \/ FundStay(r) => db' = db
    BY <1>1, LockSteps, FundCases
  <2>7. BookBegin(r) \/ DeleteEntries(r) \/ ImportCheck(r) \/ EditEntry(r) \/ DeleteContract(r)
          \/ Abort(r) \/ (BookCommit(r) /\ LostRace(r)) => db' = db
    BY Zenon DEF BookBegin, DeleteEntries, ImportCheck, EditEntry, DeleteContract, Abort,
       BookCommit
  <2>8. QED
    BY <2>1, <2>2, <2>3, <2>4, <2>5, <2>6, <2>7 DEF Step, LockStep
<1>4. QED
  BY <1>2, <1>3

TablesInv == LinkInv /\ Sound(db) /\ IsFiniteSet(issued.stays)

\* The tables one starts from are sound.
LEMMA TablesInit == Init => TablesInv
<1>1. SUFFICES ASSUME Init
               PROVE  TablesInv
  OBVIOUS
<1>2. LinkInv /\ db \in Databases /\ issued.stays = db.stays
  BY <1>1, LinkInit DEF Init
<1>3. db \in DB /\ IsFiniteSet(db.entries) /\ Consistent(db)
  BY <1>2 DEF LinkInv, LockInv, TypeInv, TypeOK, Finite, LinkIntegrity
<1>4. QED
  BY <1>2, <1>3, FundingAssumption DEF TablesInv, Sound

\* Every step keeps them sound.
LEMMA TablesNext == KnownInv /\ TablesInv /\ [Next]_vars => TablesInv'
<1>1. SUFFICES ASSUME KnownInv, TablesInv, [Next]_vars
               PROVE  TablesInv'
  OBVIOUS
<1>2. LinkInv /\ LinkInv' /\ KnownInv'
  BY <1>1, LinkNext, KnownNext DEF TablesInv
<1>3. IsFiniteSet(issued'.stays) /\ IsFiniteSet(db'.contracts)
  <2>1. IsFiniteSet(issued.stays) /\ IsFiniteSet(db.contracts)
    BY <1>1 DEF TablesInv, Sound
  <2>2. CASE UNCHANGED vars
    BY <2>1, <2>2 DEF vars
  <2>3. ASSUME NEW r \in Requests, Step(r) \/ Abort(r)
        PROVE  IsFiniteSet(issued'.stays) /\ IsFiniteSet(db'.contracts)
    <3>1. PICK s : issued'.stays \subseteq issued.stays \cup {s}
      BY <1>2, <2>3, StepTables
    <3>2. IsFiniteSet(issued.stays \cup {s})
      BY <2>1, FS_AddElement
    <3>3. db'.contracts \subseteq db.contracts
      BY <1>2, <2>3, StepTables
    <3>4. QED
      BY <2>1, <3>1, <3>2, <3>3, FS_Subset
  <2>4. QED
    BY <1>1, <2>2, <2>3 DEF Next, Idle
<1>4. IsFiniteSet(db'.stays)
  BY <1>2, <1>3, FS_Subset DEF KnownInv
<1>5. db' \in DB /\ IsFiniteSet(db'.entries) /\ Consistent(db')
  BY <1>2 DEF LinkInv, LockInv, TypeInv, TypeOK, Finite, LinkIntegrity
<1>6. QED
  BY <1>2, <1>3, <1>4, <1>5 DEF TablesInv, Sound

\* A commit reaches stays that exist and are not booked yet.
LEMMA ReachedUnbooked ==
  ASSUME KnownInv, NEW r \in Requests, BookCommit(r), ~LostRace(r), tx[r].rows # {}
  PROVE  Reached(r) \subseteq Unbooked(db, job[r].trip)
<1>1. pc[r] = "fund" /\ Underway(r) /\ ~tx[r].overtaken
  BY DEF BookCommit, Underway, LostRace
<1>2. StaysPaid(r) /\ KnownLinks(r) /\ TxInv
  BY DEF KnownInv, UsageInv, PaidInv, LinkInv
<1>3. SUFFICES ASSUME NEW s \in Reached(r)
               PROVE  s \in db.stays /\ TripOf[s] = job[r].trip /\ ~Booked(db, s)
  BY DEF Unbooked, StaysOf
<1>4. s \in tx[r].snap.stays /\ TripOf[s] = job[r].trip /\ ~Booked(tx[r].snap, s)
  BY <1>1, <1>2 DEF StaysPaid, Unbooked, StaysOf
<1>5. \A l \in db.links : l[1] = s => l \in tx[r].snap.links
  BY <1>1, <1>2, <1>4 DEF KnownLinks
<1>6. ~Booked(db, s)
  BY <1>4, <1>5 DEF Booked, LinkedTo
<1>7. s \in db.stays
  <2>1. PICK l \in tx[r].links : s = l[1]
    BY DEF Reached
  <2>2. QED
    BY <1>1, <1>2, <2>1, OwnIds
<1>8. QED
  BY <1>4, <1>6, <1>7

-----------------------------------------------------------------------------
(* Growth, and the invariant.                                              *)

(***************************************************************************)
(* A step of requests that book and add stays lets the tables grow.  That  *)
(* a commit links only unbooked stays is what KnownInv is for.             *)
(***************************************************************************)
LEMMA BookingsGrow ==
  ASSUME OnlyBookings, KnownInv, NEW r \in Requests, Step(r) \/ Abort(r)
  PROVE  Grown(db, db')
<1>1. /\ PaidInv /\ LinkInv /\ OpInv /\ TypeInv /\ TxInv /\ db \in DB
      /\ OnlyUsage(r)
  BY DEF KnownInv, UsageInv, PaidInv, LinkInv, LockInv, TypeInv, TypeOK
<1>2. CASE UNCHANGED db
  BY <1>2, GrownItself
<1>3. CASE BookCommit(r) /\ ~LostRace(r)
  <2>1. CASE tx[r].rows = {}
    BY <1>1, <1>2, <1>3, <2>1, CommitWrites
  <2>2. CASE tx[r].rows # {}
    <3>1. /\ db'.entries = db.entries \cup tx[r].rows /\ db'.links = db.links \cup tx[r].links
          /\ db'.stays = db.stays /\ db'.contracts = db.contracts /\ db'.months = db.months
          /\ Underway(r)
      BY <1>1, <1>3, CommitWrites DEF Underway
    <3>2. \A l \in tx[r].links : ~Booked(db, l[1])
      BY <1>3, <2>2, ReachedUnbooked DEF Reached, Unbooked
    <3>3. QED
      BY <1>1, <3>1, <3>2 DEF Grown, OnlyUsage
  <2>3. QED
    BY <2>1, <2>2
<1>4. CASE AddStay(r)
  BY <1>1, <1>4 DEF AddStay, Grown, DB
<1>5. job[r].op \in {"book", "addStay"}
  BY DEF OnlyBookings
<1>6. QED
  <2>1. ~(AddEntry(r) \/ DeleteEntry(r) \/ UpdateContract(r))
    BY <1>5, Zenon DEF AddEntry, DeleteEntry, UpdateContract
  <2>2. ~(DeleteCommit(r) \/ ImportCommit(r) \/ EditCommit(r) \/ ContractCommit(r))
    <3>1. Doing(r)
      BY <1>1 DEF OpInv
    <3>2. pc[r] \notin {"deleting", "cascading", "linking", "editing", "nulling"}
      BY <1>5, <3>1 DEF Doing, Deletes
    <3>3. QED
      BY <3>2, Zenon DEF DeleteCommit, ImportCommit, EditCommit, ContractCommit
  <2>3. LockStep(r) \/ FundStay(r) => UNCHANGED db
    BY <1>1, LockSteps, FundCases
  <2>4. BookBegin(r) \/ DeleteEntries(r) \/ ImportCheck(r) \/ EditEntry(r) \/ DeleteContract(r)
          \/ Abort(r) \/ (BookCommit(r) /\ LostRace(r)) => UNCHANGED db
    BY Zenon DEF BookBegin, DeleteEntries, ImportCheck, EditEntry, DeleteContract, Abort,
       BookCommit
  <2>5. QED
    BY <1>2, <1>3, <1>4, <2>1, <2>2, <2>3, <2>4 DEF Step, LockStep

(***************************************************************************)
(* Each statement of a page saw the tables as they had grown since the one *)
(* before it.                                                              *)
(***************************************************************************)
InTurn ==
  \A i \in 1..10 : Reads[i] \in Reading =>
    /\ Grown(page.saw[Reads[i]], db)
    /\ \A j \in i..10 : Reads[j] \in Reading => Grown(page.saw[Reads[i]], page.saw[Reads[j]])

NumbersInv ==
  /\ TablesInv /\ KnownInv /\ PageInv
  /\ OnlyBookings => InTurn

\* At first there is no page, and the tables are sound.
LEMMA NumbersInit == FundingInit => NumbersInv
<1>1. SUFFICES ASSUME FundingInit
               PROVE  NumbersInv
  OBVIOUS
<1>2. TablesInv /\ KnownInv
  BY <1>1, TablesInit, KnownInit DEF FundingInit
<1>3. PageInv /\ InTurn
  BY <1>1, ClosedIs DEF FundingInit, PageInv, InTurn, Reading
<1>4. QED
  BY <1>2, <1>3 DEF NumbersInv

\* A step of the tables or a step of the page.
LEMMA FundingSteps ==
  ASSUME [FundingNext]_fundingVars
  PROVE  \/ [Next]_vars /\ page' = page
         \/ UNCHANGED vars /\ (Read \/ page'.saw = << >>)
<1>1. CASE UNCHANGED fundingVars
  BY <1>1 DEF fundingVars
<1>2. CASE (\E t \in Trips : OpenPage(t)) \/ ClosePage
  BY <1>2 DEF OpenPage, ClosePage, Closed
<1>3. CASE Read
  BY <1>3 DEF Read
<1>4. CASE Next /\ UNCHANGED page
  BY <1>4
<1>5. QED
  BY <1>1, <1>2, <1>3, <1>4 DEF FundingNext

\* Where there are only bookings, what a page saw has grown, in turn.
LEMMA InTurnNext ==
  ASSUME NumbersInv, OnlyBookings, [FundingNext]_fundingVars
  PROVE  InTurn'
<1>1. InTurn /\ PageInv
  BY DEF NumbersInv
<1>2. CASE page' = page /\ Grown(db, db')
  <2>1. SUFFICES ASSUME NEW i \in 1..10, Reads[i] \in Reading
                 PROVE  /\ Grown(page.saw[Reads[i]], db')
                        /\ \A j \in i..10 : Reads[j] \in Reading =>
                             Grown(page.saw[Reads[i]], page.saw[Reads[j]])
    BY <1>2 DEF InTurn, Reading, Reads, StayReads, BudgetReads, PreviewReads
  <2>2. QED
    BY <1>1, <1>2, <2>1, GrownOn DEF InTurn
<1>3. CASE UNCHANGED vars /\ page'.saw = << >>
  <2>1. Reading' = {}
    BY <1>3 DEF Reading
  <2>2. QED
    BY <2>1 DEF InTurn
<1>4. CASE UNCHANGED vars /\ Read /\ ReadsNext
  <2>1. PICK n \in 0..9 : /\ ReadSoFar(n) /\ ReadSoFar(n + 1)'
                          /\ \A x \in First(n) : page'.saw[x] = page.saw[x]
                          /\ page'.saw[Reads[n + 1]] = db
    BY <1>4 DEF ReadsNext
  <2>2. Reading' = First(n + 1) /\ Reading = First(n)
    BY <2>1, HeldReads DEF ReadSoFar, First, Reading
  <2>3. \A i \in 1..10 : Reads[i] \in Reading' => i <= n + 1
    <3>1. n + 1 \in 0..10
      OBVIOUS
    <3>2. QED
      BY <2>2, <3>1, FirstReads
  <2>4. \A i \in 1..10 : i <= n => Reads[i] \in First(n)
    <3>1. n \in 0..10
      OBVIOUS
    <3>2. QED
      BY <3>1, FirstReads
  <2>5. db' = db
    BY <1>4 DEF vars
  <2>6. ASSUME NEW i \in 1..10, i <= n + 1
        PROVE  /\ Grown(page'.saw[Reads[i]], db)
               /\ \A j \in i..10 : j <= n + 1 => Grown(page'.saw[Reads[i]], page'.saw[Reads[j]])
    <3>1. CASE i = n + 1
      <4>1. \A j \in i..10 : j <= n + 1 => j = n + 1
        BY <3>1
      <4>2. QED
        BY <2>1, <3>1, <4>1, GrownItself
    <3>2. CASE i <= n
      <4>1. page'.saw[Reads[i]] = page.saw[Reads[i]] /\ Reads[i] \in Reading
        BY <2>1, <2>2, <2>4, <3>2
      <4>2. Grown(page.saw[Reads[i]], db)
        BY <1>1, <4>1 DEF InTurn
      <4>3. ASSUME NEW j \in i..10, j <= n + 1
            PROVE  Grown(page.saw[Reads[i]], page'.saw[Reads[j]])
        <5>1. CASE j = n + 1
          BY <2>1, <4>2, <5>1
        <5>2. CASE j <= n
          <6>1. j \in 1..10
            OBVIOUS
          <6>2. page'.saw[Reads[j]] = page.saw[Reads[j]] /\ Reads[j] \in Reading
            BY <2>1, <2>2, <2>4, <5>2, <6>1
          <6>3. QED
            BY <1>1, <4>1, <6>2 DEF InTurn
        <5>3. QED
          BY <4>3, <5>1, <5>2
      <4>4. QED
        BY <4>1, <4>2, <4>3
    <3>3. QED
      BY <2>6, <3>1, <3>2
  <2>7. QED
    <3>1. \A i \in 1..10 : Reads[i] \in Reading' => Grown(page'.saw[Reads[i]], db')
      BY <2>3, <2>5, <2>6
    <3>2. \A i \in 1..10 : \A j \in i..10 :
            Reads[i] \in Reading' /\ Reads[j] \in Reading' =>
              Grown(page'.saw[Reads[i]], page'.saw[Reads[j]])
      <4>1. \A i \in 1..10 : \A j \in i..10 : j \in 1..10
        OBVIOUS
      <4>2. QED
        BY <2>3, <2>6, <4>1
    <3>3. QED
      BY <3>1, <3>2 DEF InTurn, Reads, StayReads, BudgetReads, PreviewReads
<1>5. [Next]_vars => Grown(db, db')
  <2>1. CASE UNCHANGED vars
    BY <2>1, GrownItself DEF vars
  <2>2. ASSUME NEW r \in Requests, Step(r) \/ Abort(r)
        PROVE  Grown(db, db')
    BY <2>2, BookingsGrow DEF NumbersInv
  <2>3. QED
    BY <2>1, <2>2 DEF Next, Idle
<1>6. Read => page' = Closed \/ ReadsNext
  BY <1>1, PageStep
<1>7. Closed.saw = << >>
  BY ClosedIs
<1>8. QED
  BY <1>2, <1>3, <1>4, <1>5, <1>6, <1>7, FundingSteps

(***************************************************************************)
(* Every step keeps all of it.                                             *)
(***************************************************************************)
LEMMA NumbersNext == NumbersInv /\ [FundingNext]_fundingVars => NumbersInv'
<1>1. SUFFICES ASSUME NumbersInv, [FundingNext]_fundingVars
               PROVE  NumbersInv'
  OBVIOUS
<1>2. [Next]_vars
  BY <1>1, FundingSteps
<1>3. TablesInv' /\ KnownInv' /\ PageInv'
  BY <1>1, <1>2, TablesNext, KnownNext, PageKept DEF NumbersInv, TablesInv
<1>4. job' = job
  BY <1>1, <1>2, OpNext DEF NumbersInv, KnownInv, UsageInv, PaidInv
<1>5. OnlyBookings => InTurn'
  BY <1>1, InTurnNext
<1>6. QED
  BY <1>3, <1>4, <1>5 DEF NumbersInv, OnlyBookings

-----------------------------------------------------------------------------
(* What a page says of its stays and of the budget: ShownAsPaid,           *)
(* RemainingErrsLow.                                                       *)

\* Tables a shown page has seen, one after the other.
LEMMA SeenInTurn ==
  ASSUME NumbersInv, OnlyBookings, Shown
  PROVE  /\ Grown(page.saw["links"], page.saw["used"])
         /\ Grown(page.saw["links"], page.saw["contracts"])
         /\ Grown(page.saw["links"], page.saw["summaries"])
         /\ Grown(page.saw["used"], db) /\ Grown(page.saw["links"], db)
<1>1. InTurn /\ PageInv
  BY DEF NumbersInv
<1>2. /\ "links" \in Reading /\ "used" \in Reading
      /\ "contracts" \in Reading /\ "summaries" \in Reading
  BY <1>1, ShownSaw
<1>3. /\ Reads[3] \in Reading /\ Reads[4] \in Reading
      /\ Reads[5] \in Reading /\ Reads[6] \in Reading
  BY <1>2, ReadsAre
<1>4. /\ 3 \in 1..10 /\ 4 \in 1..10
      /\ 3 \in 3..10 /\ 4 \in 3..10 /\ 5 \in 3..10 /\ 6 \in 3..10
  OBVIOUS
<1>5. /\ Grown(page.saw[Reads[3]], page.saw[Reads[4]])
      /\ Grown(page.saw[Reads[3]], page.saw[Reads[5]])
      /\ Grown(page.saw[Reads[3]], page.saw[Reads[6]])
      /\ Grown(page.saw[Reads[4]], db) /\ Grown(page.saw[Reads[3]], db)
  BY <1>1, <1>3, <1>4, Zenon DEF InTurn
<1>6. QED
  BY <1>5, ReadsAre

\* What a booked stay was charged does not change any more.
LEMMA PaidForGood ==
  ASSUME NEW d, NEW e, Consistent(d), Consistent(e), Grown(d, e), NEW s, Booked(d, s)
  PROVE  Paid(d, s) = Paid(e, s) /\ Booked(e, s)
<1>1. LinkedTo(d, s) = LinkedTo(e, s)
  BY DEF LinkedTo, Grown
<1>2. {x \in d.entries : x.id \in LinkedTo(d, s)} = {x \in e.entries : x.id \in LinkedTo(e, s)}
  <2>1. SUFFICES ASSUME NEW x \in e.entries, x.id \in LinkedTo(d, s)
                 PROVE  x \in d.entries
    BY <1>1 DEF Grown
  <2>2. PICK l \in d.links : l[2] = x.id
    BY <2>1 DEF LinkedTo
  <2>3. PICK y \in d.entries : y.id = x.id
    BY <2>2 DEF Consistent, LinksExist
  <2>4. QED
    BY <2>1, <2>3 DEF Consistent, IdsUnique, Grown
<1>3. QED
  BY <1>1, <1>2 DEF Paid, Booked

\* The invariant says what a shown page says of paid stays.
LEMMA PaidAsShown == NumbersInv => ShownAsPaid
<1>1. SUFFICES ASSUME NumbersInv, OnlyBookings, Shown
               PROVE  /\ \A s \in ShownStays : ShownBooked(s) =>
                           (PartiallyBooked(s) <=> Paid(db, s) < Price[s])
                      /\ Status = "booked" => \A s \in ShownStays : Booked(db, s)
  BY DEF ShownAsPaid
<1>2. /\ Grown(page.saw["links"], page.saw["used"])
      /\ Grown(page.saw["used"], db) /\ Grown(page.saw["links"], db)
  BY <1>1, SeenInTurn
<1>3. Consistent(page.saw["links"]) /\ Consistent(page.saw["used"]) /\ Consistent(db)
  BY <1>1, ShownSaw DEF NumbersInv, TablesInv, Sound
<1>4. ASSUME NEW s \in ShownStays, ShownBooked(s)
      PROVE  PartiallyBooked(s) <=> Paid(db, s) < Price[s]
  <2>1. Booked(page.saw["used"], s)
    BY <1>2, <1>3, <1>4, PaidForGood DEF ShownBooked
  <2>2. Paid(page.saw["used"], s) = Paid(db, s)
    BY <1>2, <1>3, <2>1, PaidForGood
  <2>3. QED
    BY <1>4, <2>2 DEF PartiallyBooked
<1>5. ASSUME Status = "booked", NEW s \in ShownStays
      PROVE  Booked(db, s)
  <2>1. ShownUnbooked = {}
    BY <1>5 DEF Status
  <2>2. Booked(page.saw["links"], s)
    BY <2>1 DEF ShownUnbooked, ShownBooked
  <2>3. QED
    BY <1>2, <1>3, <2>2, PaidForGood
<1>6. QED
  BY <1>4, <1>5

(***************************************************************************)
(* While the ledger only sees bookings, what the page says of a stay       *)
(* (booked, partially booked) and of a trip (booked) is true of the tables *)
(* at that moment, although links and points were read one after the other.*)
(***************************************************************************)
THEOREM StaysShownAsPaid == FundingSpec => []ShownAsPaid
<1>1. FundingInit => NumbersInv
  BY NumbersInit
<1>2. NumbersInv /\ [FundingNext]_fundingVars => NumbersInv'
  BY NumbersNext
<1>3. NumbersInv => ShownAsPaid
  BY PaidAsShown
<1>4. QED
  BY <1>1, <1>2, <1>3, PTL DEF FundingSpec

\* Sums of some of the rows of d.
LEMMA PartSums ==
  ASSUME NEW d, Sound(d), NEW part \in SUBSET d.entries
  PROVE  /\ part \in SUBSET Entry /\ IsFiniteSet(part)
         /\ Used(part) \in Nat /\ Allotted(part) \in Nat
<1>1. d.entries \in SUBSET Entry /\ IsFiniteSet(d.entries)
  BY DEF Sound, DB
<1>2. part \in SUBSET Entry /\ IsFiniteSet(part)
  BY <1>1, FS_Subset
<1>3. QED
  BY <1>2, RowSumType

\* Rows that allot nothing add nothing to what is allotted.
LEMMA AllottedKept ==
  ASSUME NEW rows \in SUBSET Entry, IsFiniteSet(rows), NEW part \in SUBSET rows,
         \A x \in rows \ part : x.allotted = 0
  PROVE  Allotted(rows) = Allotted(part)
<1>1. IsFiniteSet(part) /\ IsFiniteSet(rows \ part)
  BY FS_Subset
<1>2. part \cap (rows \ part) = {} /\ part \cup (rows \ part) = rows
  OBVIOUS
<1>3. \A x \in rows : AllottedOf[x] \in Nat
  BY RowSums
<1>4. SumOver(AllottedOf, rows) = SumOver(AllottedOf, part) + SumOver(AllottedOf, rows \ part)
  BY <1>1, <1>2, <1>3, SumDisjoint
<1>5. SumOver(AllottedOf, rows \ part) = 0
  <2>1. \A x \in rows \ part : AllottedOf[x] \in Nat /\ AllottedOf[x] = 0
    BY DEF AllottedOf
  <2>2. AllPoints(AllottedOf, rows \ part) = {}
    BY <2>1 DEF AllPoints, PointsOf
  <2>3. QED
    BY <2>2, FS_EmptySet DEF SumOver
<1>6. SumOver(AllottedOf, part) \in Nat
  BY <1>1, <1>3, SumType
<1>7. QED
  BY <1>4, <1>5, <1>6, RowSums

\* Rows of a use year: as many points allotted as before, and no fewer used.
LEMMA YearGrows ==
  ASSUME NEW d, NEW e, Sound(d), Sound(e), Grown(d, e), NEW y
  PROVE  /\ Used(InYear(d, y)) \in Nat /\ Used(InYear(e, y)) \in Nat
         /\ Allotted(InYear(d, y)) \in Nat
         /\ Used(InYear(d, y)) <= Used(InYear(e, y))
         /\ Allotted(InYear(e, y)) = Allotted(InYear(d, y))
<1> DEFINE old == InYear(d, y)
           all == InYear(e, y)
<1>1. old \in SUBSET d.entries /\ all \in SUBSET e.entries
  BY DEF InYear
<1>2. old \subseteq all /\ \A x \in all \ old : x.allotted = 0
  BY DEF InYear, Grown
<1> HIDE DEF old, all
<1>3. /\ old \in SUBSET Entry /\ IsFiniteSet(old) /\ Used(old) \in Nat /\ Allotted(old) \in Nat
      /\ all \in SUBSET Entry /\ IsFiniteSet(all) /\ Used(all) \in Nat
  BY <1>1, PartSums
<1>4. Used(old) <= Used(all)
  BY <1>2, <1>3, UsedInPart
<1>5. Allotted(all) = Allotted(old)
  BY <1>2, <1>3, AllottedKept
<1>6. QED
  BY <1>3, <1>4, <1>5 DEF old, all

\* What may be borrowed in a year is bounded by the annual points.
LEMMA AnnualType ==
  ASSUME NEW k, Sound(k)
  PROVE  SumOver(Annual, k.contracts) \in Nat
<1>1. \A c \in k.contracts : Annual[c] \in Nat
  BY FundingAssumption DEF Sound, DB
<1>2. IsFiniteSet(k.contracts)
  BY DEF Sound
<1>3. QED
  BY <1>1, <1>2, SumType

(***************************************************************************)
(* A budget never rises while the tables grow by bookings.                 *)
(***************************************************************************)
LEMMA BudgetFalls ==
  ASSUME NEW d, NEW e, Sound(d), Sound(e), Grown(d, e),
         NEW j, NEW k, Sound(j), j.contracts = k.contracts, NEW y
  PROVE  /\ BudgetForUseYear(d, j, y) \in Int /\ BudgetForUseYear(e, k, y) \in Int
         /\ BudgetForUseYear(e, k, y) <= BudgetForUseYear(d, j, y)
<1>1. PICK a \in Nat : a = SumOver(Annual, j.contracts)
  BY AnnualType
<1>2. \A z : /\ Used(InYear(d, z)) \in Nat /\ Used(InYear(e, z)) \in Nat
             /\ Allotted(InYear(d, z)) \in Nat
             /\ Used(InYear(d, z)) <= Used(InYear(e, z))
             /\ Allotted(InYear(e, z)) = Allotted(InYear(d, z))
  BY YearGrows
<1>3. \A z : Net(d, z) \in Int /\ Net(e, z) \in Int /\ Net(e, z) <= Net(d, z)
  BY <1>2 DEF Net
<1>4. PICK u \in Nat : u = Used(InYear(d, y + 1))
  BY <1>2
<1>5. PICK v \in Nat : v = Used(InYear(e, y + 1))
  BY <1>2
<1>6. u <= v
  BY <1>2, <1>4, <1>5
<1>7. /\ Borrowable(d, j, y) = IF a - u < 0 THEN 0 ELSE a - u
      /\ Borrowable(e, k, y) = IF a - v < 0 THEN 0 ELSE a - v
  BY <1>1, <1>4, <1>5 DEF Borrowable
<1>8. /\ Borrowable(d, j, y) \in Nat /\ Borrowable(e, k, y) \in Nat
      /\ Borrowable(e, k, y) <= Borrowable(d, j, y)
  BY <1>6, <1>7
<1>9. PICK n \in Int, p \in Int, m \in Int, q \in Int :
        /\ n = Net(d, y) /\ p = Net(d, y - 1) /\ m = Net(e, y) /\ q = Net(e, y - 1)
        /\ m <= n /\ q <= p
  BY <1>3
<1>10. /\ BudgetForUseYear(d, j, y) = n + p + Borrowable(d, j, y)
       /\ BudgetForUseYear(e, k, y) = m + q + Borrowable(e, k, y)
  BY <1>9 DEF BudgetForUseYear
<1>11. QED
  BY <1>8, <1>9, <1>10

\* The points of stays of sound tables.
LEMMA PriceType ==
  ASSUME NEW d, Sound(d), NEW S \in SUBSET d.stays
  PROVE  IsFiniteSet(S) /\ SumOver(Price, S) \in Nat
<1>1. IsFiniteSet(S)
  BY FS_Subset DEF Sound
<1>2. \A s \in S : Price[s] \in Nat
  BY RowsAssumption DEF Sound, DB
<1>3. QED
  BY <1>1, <1>2, SumType

\* And that its Remaining is not too high.
LEMMA ErrsLow == NumbersInv => RemainingErrsLow
<1>1. SUFFICES ASSUME NumbersInv, OnlyBookings, Shown
               PROVE  ShownRemaining
                        <= searchBudgetFor(page.trip, ShownUnbooked, page.saw["links"],
                                           page.saw["links"])
  BY DEF RemainingErrsLow
<1>2. PICK t \in Trips : t = page.trip
  BY <1>1, ShownSaw DEF NumbersInv
<1>3. PICK d : d = page.saw["links"]
  OBVIOUS
<1>4. PICK k : k = page.saw["contracts"]
  OBVIOUS
<1>5. PICK e : e = page.saw["summaries"]
  OBVIOUS
<1>6. /\ Sound(d) /\ Sound(k) /\ Sound(e) /\ Grown(d, e) /\ Grown(d, k)
  BY <1>1, <1>3, <1>4, <1>5, ShownSaw, SeenInTurn DEF NumbersInv
<1>7. SumOver(Price, ShownUnbooked) \in Nat
  <2>1. Sound(page.saw["stays"])
    BY <1>1, ShownSaw DEF NumbersInv
  <2>2. ShownUnbooked \in SUBSET page.saw["stays"].stays
    BY DEF ShownUnbooked, ShownStays, StaysOf
  <2>3. QED
    BY <2>1, <2>2, PriceType
<1>8. k.contracts = d.contracts /\ StartYear(t, k) = StartYear(t, d)
  BY <1>6 DEF Grown, StartYear, UseYearStartMonth
<1>9. /\ effectiveBudget(t, e, k) \in Int /\ effectiveBudget(t, d, d) \in Int
      /\ effectiveBudget(t, e, k) <= effectiveBudget(t, d, d)
  <2>1. CASE Override[t] # NoOverride
    <3>1. Override[t] \in Nat
      BY <2>1, FundingAssumption
    <3>2. effectiveBudget(t, e, k) = Override[t] /\ effectiveBudget(t, d, d) = Override[t]
      BY <2>1 DEF effectiveBudget
    <3>3. QED
      BY <3>1, <3>2
  <2>2. CASE Override[t] = NoOverride
    <3>1. PICK y : y = StartYear(t, d)
      OBVIOUS
    <3>2. /\ effectiveBudget(t, e, k) = BudgetForUseYear(e, k, y)
          /\ effectiveBudget(t, d, d) = BudgetForUseYear(d, d, y)
      BY <1>8, <2>2, <3>1 DEF effectiveBudget
    <3>3. QED
      BY <1>6, <1>8, <3>2, BudgetFalls
  <2>3. QED
    BY <2>1, <2>2
<1>10. PICK p \in Nat : p = SumOver(Price, ShownUnbooked)
  BY <1>7
<1>11. /\ ShownRemaining = effectiveBudget(t, e, k) - p
       /\ searchBudgetFor(t, ShownUnbooked, d, d) = effectiveBudget(t, d, d) - p
  BY <1>2, <1>4, <1>5, <1>10 DEF ShownRemaining, searchBudgetFor
<1>12. effectiveBudget(t, e, k) - p <= effectiveBudget(t, d, d) - p
  BY <1>9
<1>13. QED
  BY <1>2, <1>3, <1>11, <1>12

(***************************************************************************)
(* While the ledger only sees bookings, Remaining is never more than it    *)
(* was when the links of the stays were read: a booking that commits in    *)
(* between is counted twice, never not at all.                             *)
(***************************************************************************)
THEOREM RemainingNeverHigh == FundingSpec => []RemainingErrsLow
<1>1. FundingInit => NumbersInv
  BY NumbersInit
<1>2. NumbersInv /\ [FundingNext]_fundingVars => NumbersInv'
  BY NumbersNext
<1>3. NumbersInv => RemainingErrsLow
  BY ErrsLow
<1>4. QED
  BY <1>1, <1>2, <1>3, PTL DEF FundingSpec

-----------------------------------------------------------------------------
(* The stays a preview goes through, in the order of the page.             *)

\* ListedBefore as a relation on the stays of S.
Listing(S) == {p \in S \X S : ListedBefore(p[1], p[2])}

\* By date, then by id: an order of the stays.
LEMMA ListingOrders ==
  ASSUME NEW S \in SUBSET Stays
  PROVE  /\ Orders(Listing(S), S)
         /\ \A s \in S : Preceding(Listing(S), S, s) = {u \in S : ListedBefore(u, s)}
<1>1. \A s \in S : s \in Nat /\ CheckIn[s].year \in Nat /\ CheckIn[s].month \in Nat
  BY RowsAssumption
<1>2. \A s, t \in S : ListedBefore(s, t) <=>
        \/ CheckIn[s].year < CheckIn[t].year
        \/ CheckIn[s].year = CheckIn[t].year /\ CheckIn[s].month < CheckIn[t].month
        \/ CheckIn[s].year = CheckIn[t].year /\ CheckIn[s].month = CheckIn[t].month /\ s < t
  BY DEF ListedBefore
<1>3. \A s, t \in S : <<s, t>> \in Listing(S) <=> ListedBefore(s, t)
  BY DEF Listing
<1>4. \A s \in S : ~ListedBefore(s, s)
  BY <1>1, <1>2
<1>5. ASSUME NEW s \in S, NEW t \in S, NEW u \in S, ListedBefore(s, t), ListedBefore(t, u)
      PROVE  ListedBefore(s, u)
  BY <1>1, <1>2, <1>5
<1>6. ASSUME NEW s \in S, NEW t \in S
      PROVE  s = t \/ ListedBefore(s, t) \/ ListedBefore(t, s)
  BY <1>1, <1>2
<1>7. Orders(Listing(S), S)
  BY <1>3, <1>4, <1>5, <1>6 DEF Orders
<1>8. QED
  BY <1>3, <1>7 DEF Preceding

\* How many stays are listed before s.
Place(S, s) == Cardinality({u \in S : ListedBefore(u, s)})

\* Places are whole numbers, one for each stay, in the order listed.
LEMMA Places ==
  ASSUME NEW S \in SUBSET Stays, IsFiniteSet(S)
  PROVE  /\ Cardinality(S) \in Nat
         /\ \A s \in S : Place(S, s) \in Nat /\ Place(S, s) < Cardinality(S)
         /\ \A s, t \in S : ListedBefore(s, t) <=> Place(S, s) < Place(S, t)
         /\ \A s, t \in S : Place(S, s) = Place(S, t) => s = t
         /\ \A k \in 1..Cardinality(S) : \E s \in S : Place(S, s) = k - 1
<1> DEFINE R == Listing(S)
<1>1. Orders(R, S) /\ \A s \in S : Cardinality(Preceding(R, S, s)) = Place(S, s)
  BY ListingOrders DEF Place
<1>2. \A s, t \in S : <<s, t>> \in R <=> ListedBefore(s, t)
  BY DEF Listing
<1> HIDE DEF R
<1>3. Cardinality(S) \in Nat
  BY FS_CardinalityType
<1>4. ASSUME NEW s \in S
      PROVE  Place(S, s) \in Nat /\ Place(S, s) < Cardinality(S)
  <2>1. /\ Cardinality(Preceding(R, S, s) \cup {s}) = Place(S, s) + 1 /\ Place(S, s) \in Nat
    <3>1. /\ Cardinality(Preceding(R, S, s)) \in Nat
          /\ Cardinality(Preceding(R, S, s) \cup {s}) = Cardinality(Preceding(R, S, s)) + 1
      BY <1>1, BeforeAndItself
    <3>2. QED
      BY <1>1, <3>1
  <2>2. Preceding(R, S, s) \cup {s} \in SUBSET S
    BY DEF Preceding
  <2>3. Cardinality(Preceding(R, S, s) \cup {s}) <= Cardinality(S)
    BY <2>2, FS_Subset
  <2>4. QED
    BY <1>3, <2>1, <2>3
<1>5. ASSUME NEW s \in S, NEW t \in S, ListedBefore(s, t)
      PROVE  Place(S, s) < Place(S, t)
  <2>1. Preceding(R, S, s) \cup {s} \in SUBSET Preceding(R, S, t)
    BY <1>1, <1>2, <1>5 DEF Preceding, Orders
  <2>2. Cardinality(Preceding(R, S, s) \cup {s}) <= Cardinality(Preceding(R, S, t))
    BY <1>1, <2>1, BeforeAndItself, FS_Subset
  <2>3. /\ Cardinality(Preceding(R, S, s) \cup {s}) = Place(S, s) + 1
        /\ Cardinality(Preceding(R, S, t)) = Place(S, t)
    BY <1>1, BeforeAndItself
  <2>4. QED
    BY <1>4, <2>2, <2>3
<1>6. ASSUME NEW s \in S, NEW t \in S, Place(S, s) = Place(S, t)
      PROVE  s = t
  BY <1>1, <1>6, OnePlaceEach
<1>7. ASSUME NEW s \in S, NEW t \in S
      PROVE  ListedBefore(s, t) <=> Place(S, s) < Place(S, t)
  <2>1. s = t \/ ListedBefore(s, t) \/ ListedBefore(t, s)
    BY <1>1, <1>2 DEF Orders
  <2>2. QED
    BY <1>4, <1>5, <2>1
<1>8. ASSUME NEW k \in 1..Cardinality(S)
      PROVE  \E s \in S : Place(S, s) = k - 1
  <2>1. PICK s \in S : Cardinality(Preceding(R, S, s)) = k - 1
    BY <1>1, EveryPlaceTaken
  <2>2. QED
    BY <1>1, <2>1
<1>9. QED
  BY <1>3, <1>4, <1>6, <1>7, <1>8

\* The shown stays are finitely many rows of trip_stay.
LEMMA ShownStaysType ==
  ASSUME PageInv, Shown
  PROVE  ShownUnbooked \in SUBSET Stays /\ IsFiniteSet(ShownUnbooked)
<1>1. Sound(page.saw["stays"])
  BY ShownSaw
<1>2. ShownUnbooked \in SUBSET page.saw["stays"].stays
  BY DEF ShownUnbooked, ShownStays, StaysOf
<1>3. QED
  BY <1>1, <1>2, PriceType DEF Sound, DB

(***************************************************************************)
(* The list names every unbooked stay at its place.                        *)
(***************************************************************************)
LEMMA ListedAll ==
  ASSUME PageInv, Shown
  PROVE  LET n == Cardinality(ShownUnbooked) IN
         /\ n \in Nat /\ Len(Listed) = n
         /\ Listed \in [1..n -> ShownUnbooked]
         /\ \A i \in 1..n : Place(ShownUnbooked, Listed[i]) = i - 1
<1> DEFINE S == ShownUnbooked
           n == Cardinality(S)
           at(i) == CHOOSE s \in S : Place(S, s) = i - 1
<1>1. S \in SUBSET Stays /\ IsFiniteSet(S)
  BY ShownStaysType
<1>2. Listed = [i \in 1..n |-> at(i)]
  BY Zenon DEF Listed, Place
<1> HIDE DEF S
<1>3. n \in Nat /\ \A i \in 1..n : \E s \in S : Place(S, s) = i - 1
  BY <1>1, Places
<1>4. \A i \in 1..n : at(i) \in S /\ Place(S, at(i)) = i - 1
  BY <1>3
<1> HIDE DEF at, n
<1>5. Listed \in [1..n -> S] /\ \A i \in 1..n : Place(S, Listed[i]) = i - 1
  BY <1>2, <1>4
<1>6. Len(Listed) = n
  BY <1>3, <1>5
<1>7. QED
  BY <1>3, <1>5, <1>6 DEF S, n

-----------------------------------------------------------------------------
(* What the preview decides, one stay at a time.                           *)

\* What has been decided after each stay of the list.
AreTurns(after) ==
  after = [i \in 0..Len(Listed) |-> IF i = 0 THEN Undecided ELSE Decide(after[i - 1], Listed[i])]

Turns == CHOOSE after : AreTurns(after)

\* The preview ends with the decision of the last turn.
LEMMA DecidedIs == Decided = Turns[Len(Listed)]
BY Zenon DEF Decided, Turns, AreTurns

\* A draw of the preview.
PageDraw ==
  [stay : ShownUnbooked, lot : LotsIn(page.saw["lots"]), rank : Int, points : Nat \ {0}]

\* Draws a preview may have decided.
IsDraws(draws) == draws \in SUBSET PageDraw /\ IsFiniteSet(draws)

\* Points of some draws are a whole number.
LEMMA DrawsSum ==
  ASSUME NEW draws, IsDraws(draws), NEW part \in SUBSET draws
  PROVE  SumOver([d \in draws |-> d.points], part) \in Nat
<1>1. IsFiniteSet(part)
  BY FS_Subset DEF IsDraws
<1>2. \A d \in part : [x \in draws |-> x.points][d] \in Nat
  BY DEF IsDraws, PageDraw
<1>3. QED
  BY <1>1, <1>2, SumType

\* The balances a preview works with are finitely many whole numbers.
LEMMA PreviewType ==
  ASSUME PageInv, Shown, ShownUnbooked # {}, NEW draws, IsDraws(draws)
  PROVE  /\ IsFiniteSet(DOMAIN PreviewLeft(draws))
         /\ DOMAIN PreviewLeft(draws) = LotsIn(page.saw["lots"])
         /\ LotsIn(page.saw["lots"]) \subseteq Lot
         /\ \A lot \in DOMAIN PreviewLeft(draws) : PreviewLeft(draws)[lot] \in Int
         /\ PreviewAvailable(draws) \in Int
<1> DEFINE lots == page.saw["lots"]
           consumed == page.saw["consumed"]
           legacy == page.saw["legacy"]
<1>1. Sound(lots) /\ Sound(consumed) /\ Sound(legacy)
  BY ShownSaw
<1>2. LotsIn(lots) \subseteq Lot /\ IsFiniteSet(LotsIn(lots))
  BY <1>1, LotsType DEF Sound
<1>3. DOMAIN PreviewLeft(draws) = LotsIn(lots)
  BY DEF PreviewLeft
<1>4. ASSUME NEW lot \in LotsIn(lots)
      PROVE  PreviewLeft(draws)[lot] \in Int
  <2>1. Against(LotRows(lots), lot) \in SUBSET lots.entries
    BY DEF Against, LotRows
  <2>2. PICK a \in Nat : a = Allotted(Against(LotRows(lots), lot))
    BY <1>1, <2>1, PartSums
  <2>3. Against(consumed.entries, lot) \in SUBSET consumed.entries
    BY DEF Against
  <2>4. PICK u \in Nat : u = Used(Against(consumed.entries, lot))
    BY <1>1, <2>3, PartSums
  <2>5. PICK p \in Nat : p = DrawnFrom(draws, lot)
    <3>1. {d \in draws : d.lot = lot} \in SUBSET draws
      OBVIOUS
    <3>2. QED
      BY <3>1, DrawsSum DEF DrawnFrom
  <2>6. PreviewLeft(draws)[lot] = a - u - p
    BY <2>2, <2>4, <2>5 DEF PreviewLeft
  <2>7. QED
    BY <2>6
<1>5. PreviewAvailable(draws) \in Int
  <2>1. LotRows(lots) \in SUBSET lots.entries
    BY DEF LotRows
  <2>2. PICK a \in Nat : a = Allotted(LotRows(lots))
    BY <1>1, <2>1, PartSums
  <2>3. {e \in consumed.entries : e.contract # NoContract} \in SUBSET consumed.entries
    OBVIOUS
  <2>4. PICK u \in Nat : u = Used({e \in consumed.entries : e.contract # NoContract})
    BY <1>1, <2>3, PartSums
  <2>5. {e \in legacy.entries : e.contract = NoContract} \in SUBSET legacy.entries
    OBVIOUS
  <2>6. PICK v \in Nat : v = Used({e \in legacy.entries : e.contract = NoContract})
    BY <1>1, <2>5, PartSums
  <2>7. draws \in SUBSET draws
    OBVIOUS
  <2>8. PICK p \in Nat : p = SumOver([d \in draws |-> d.points], draws)
    BY <2>7, DrawsSum
  <2>9. PreviewAvailable(draws) = a - u - p - v
    BY <2>2, <2>4, <2>6, <2>8 DEF PreviewAvailable
  <2>10. QED
    BY <2>9
<1>6. QED
  BY <1>2, <1>3, <1>4, <1>5

\* What is drawn for a stay is draws of the preview.
LEMMA DrawsForType ==
  ASSUME PageInv, Shown, ShownUnbooked # {}, NEW draws, IsDraws(draws),
         NEW s \in ShownUnbooked
  PROVE  IsDraws(DrawsFor(draws, s))
<1> DEFINE left == PreviewLeft(draws)
           drawn == AllocateStayPoints(PreviewMonths, left, CheckIn[s], Price[s])
           row(d) == [stay |-> s, lot |-> d.lot, rank |-> d.rank, points |-> d.points]
<1>1. Price[s] \in Int
  <2>1. s \in Stays
    BY ShownStaysType
  <2>2. QED
    BY <2>1, RowsAssumption
<1>2. /\ IsFiniteSet(DOMAIN left) /\ \A lot \in DOMAIN left : left[lot] \in Int
      /\ DOMAIN left = LotsIn(page.saw["lots"]) /\ LotsIn(page.saw["lots"]) \subseteq Lot
  BY PreviewType
<1>3. DrawsFor(draws, s) = {row(d) : d \in drawn}
  BY DEF DrawsFor
<1> HIDE DEF left
<1>4. /\ IsFiniteSet(drawn)
      /\ \A d \in drawn : d.lot \in DOMAIN left /\ d.points \in Nat \ {0}
  BY <1>1, <1>2, DrawsWithinLots
<1>5. ASSUME NEW d \in drawn
      PROVE  d.rank \in Int
  <2>1. PICK lot \in Candidates(PreviewMonths, left, CheckIn[s]) :
          d.rank = Rank(PreviewMonths, CheckIn[s], lot)
    BY DEF AllocateStayPoints
  <2>2. QED
    BY <2>1 DEF Candidates, Eligible
<1> HIDE DEF drawn
<1>6. IsFiniteSet({[x \in drawn |-> row(x)][d] : d \in drawn})
  BY <1>4, ImageFinite
<1>7. {[x \in drawn |-> row(x)][d] : d \in drawn} = {row(d) : d \in drawn}
  OBVIOUS
<1>8. \A d \in drawn : row(d) \in PageDraw
  BY <1>2, <1>4, <1>5 DEF PageDraw
<1>9. QED
  BY <1>3, <1>6, <1>7, <1>8 DEF IsDraws

\* What a preview may have decided after some stays: draws for these, and at
\* most one stay that is short.
Deciding(b, i) ==
  /\ b = [draws |-> b.draws, short |-> b.short]
  /\ IsDraws(b.draws) /\ b.short \subseteq ShownUnbooked
  /\ \A d \in b.draws : \E j \in 1..i : d.stay = Listed[j]
  /\ \A s \in b.short : b.short = {s} /\ ~CanDraw(b.draws, s)

\* Deciding one more stay keeps to what may be decided.
LEMMA TurnType ==
  ASSUME PageInv, Shown, ShownUnbooked # {}, NEW m \in 0..Len(Listed),
         NEW i \in 1..m, NEW k \in 0..m, NEW b, Deciding(b, k)
  PROVE  Deciding(Decide(b, Listed[i]), m)
<1> DEFINE s == Listed[i]
           c == Decide(b, s)
<1>1. s \in ShownUnbooked /\ m \in Nat
  <2>1. Len(Listed) \in Nat /\ Listed \in [1..Len(Listed) -> ShownUnbooked]
    BY ListedAll
  <2>2. QED
    BY <2>1
<1>2. \A d \in b.draws : \E j \in 1..m : d.stay = Listed[j]
  <2>1. \A j \in 1..k : j \in 1..m
    BY <1>1
  <2>2. QED
    BY <2>1 DEF Deciding
<1>3. CASE b.short # {}
  BY <1>2, <1>3 DEF Decide, Deciding
<1>4. CASE b.short = {} /\ CanDraw(b.draws, s)
  <2> DEFINE more == DrawsFor(b.draws, s)
  <2>1. IsDraws(more)
    BY <1>1, DrawsForType DEF Deciding
  <2>2. \A d \in more : d.stay = s
    BY DEF DrawsFor
  <2>3. c = [b EXCEPT !.draws = b.draws \cup more]
    BY <1>4 DEF Decide
  <2> HIDE DEF more, c
  <2>4. c = [draws |-> b.draws \cup more, short |-> {}]
    BY <1>4, <2>3 DEF Deciding
  <2>5. IsDraws(c.draws)
    BY <2>1, <2>4, FS_Union DEF Deciding, IsDraws
  <2>6. QED
    BY <1>2, <2>2, <2>4, <2>5 DEF Deciding, c
<1>5. CASE b.short = {} /\ ~CanDraw(b.draws, s)
  <2>1. c = [b EXCEPT !.short = {s}]
    BY <1>5 DEF Decide
  <2> HIDE DEF c
  <2>2. c = [draws |-> b.draws, short |-> {s}]
    BY <2>1 DEF Deciding
  <2>3. QED
    BY <1>1, <1>2, <1>5, <2>2 DEF Deciding, c
<1>6. QED
  BY <1>3, <1>4, <1>5

(***************************************************************************)
(* The loop has a result for every stay it may stop at, and this is it.    *)
(***************************************************************************)
LEMMA TurnsExist ==
  ASSUME PageInv, Shown, ShownUnbooked # {}
  PROVE  AreTurns(Turns) /\ \A i \in 0..Len(Listed) : Deciding(Turns[i], i)
<1> DEFINE n == Len(Listed)
           V == {b \in [draws : SUBSET PageDraw, short : SUBSET ShownUnbooked] : Deciding(b, n)}
           h == [p \in (0..n) \X V |-> IF p[1] = 0 THEN Undecided ELSE Decide(p[2], Listed[p[1]])]
<1>1. n \in Nat
  BY ListedAll
<1>2. ASSUME NEW b, Deciding(b, n)
      PROVE  b \in V
  BY <1>2 DEF Deciding, IsDraws
<1>3. Deciding(Undecided, 0) /\ Deciding(Undecided, n)
  <2>1. IsDraws({})
    BY FS_EmptySet DEF IsDraws
  <2>2. QED
    BY <2>1 DEF Deciding, Undecided
<1>4. ASSUME NEW i \in 0..n, NEW b \in V
      PROVE  h[<<i, b>>] \in V
  <2>1. CASE i = 0
    BY <1>2, <1>3, <2>1
  <2>2. CASE i # 0
    <3>1. n \in 0..n /\ i \in 1..n
      BY <1>1, <2>2
    <3>2. Deciding(Decide(b, Listed[i]), n)
      BY <3>1, TurnType
    <3>3. h[<<i, b>>] = Decide(b, Listed[i])
      BY <2>2
    <3>4. QED
      BY <1>2, <3>2, <3>3
  <2>3. QED
    BY <2>1, <2>2
<1>5. PICK f \in [0..n -> V] : Recurs(f, 0..n, Undecided, h)
  <2>1. Undecided \in V
    BY <1>2, <1>3
  <2>2. 0..n \in SUBSET Nat /\ Downward(0..n)
    BY <1>1 DEF Downward
  <2>3. ClosedIn(h, 0..n, V)
    BY <1>4 DEF ClosedIn
  <2> HIDE DEF h, V
  <2>4. QED
    BY <2>1, <2>2, <2>3, Recursion
<1>6. AreTurns(f)
  <2>1. ASSUME NEW i \in 0..n
        PROVE  f[i] = IF i = 0 THEN Undecided ELSE Decide(f[i - 1], Listed[i])
    <3>1. CASE i = 0
      BY <1>5, <3>1 DEF Recurs
    <3>2. CASE i # 0
      <4>1. i - 1 \in 0..n
        BY <1>1, <3>2
      <4>2. f[i - 1] \in V
        BY <4>1
      <4>3. f[i] = h[<<i, f[i - 1]>>]
        BY <1>5, <3>2 DEF Recurs
      <4> HIDE DEF V
      <4>4. h[<<i, f[i - 1]>>] = Decide(f[i - 1], Listed[i])
        BY <3>2, <4>2
      <4>5. QED
        BY <3>2, <4>3, <4>4
    <3>3. QED
      BY <3>1, <3>2
  <2> HIDE DEF V, h
  <2>2. f = [i \in 0..n |-> f[i]]
    OBVIOUS
  <2>3. [i \in 0..n |-> f[i]]
          = [i \in 0..n |-> IF i = 0 THEN Undecided ELSE Decide(f[i - 1], Listed[i])]
    BY <2>1
  <2>4. QED
    BY <2>2, <2>3, Zenon DEF AreTurns
<1>7. AreTurns(Turns)
  BY <1>6, Zenon DEF Turns
<1>8. ASSUME NEW i \in 0..n
      PROVE  Turns[i] = IF i = 0 THEN Undecided ELSE Decide(Turns[i - 1], Listed[i])
  <2>1. PICK after : after = Turns
    OBVIOUS
  <2>2. QED
    BY <1>7, <2>1 DEF AreTurns
<1> DEFINE G == {i \in 0..n : Deciding(Turns[i], i)}
<1>9. ASSUME NEW i \in 0..n, i = 0 \/ i - 1 \in G
      PROVE  i \in G
  <2>1. CASE i = 0
    BY <1>3, <1>8, <2>1
  <2>2. CASE i # 0
    <3>1. i \in 1..i /\ i - 1 \in 0..i /\ Deciding(Turns[i - 1], i - 1)
      BY <1>1, <1>9, <2>2
    <3>2. Deciding(Decide(Turns[i - 1], Listed[i]), i)
      BY <3>1, TurnType
    <3>3. QED
      BY <1>8, <2>2, <3>2
  <2>3. QED
    BY <2>1, <2>2
<1>10. 0..n \subseteq G
  <2>1. 0..n \in SUBSET Nat /\ \A i \in 0..n : i = 0 \/ i - 1 \in 0..n
    BY <1>1
  <2> HIDE DEF G
  <2>2. QED
    BY <1>9, <2>1, Induction
<1>11. QED
  BY <1>7, <1>10

\* What the preview has decided when it ends.
LEMMA DecidedType ==
  ASSUME PageInv, Shown, ShownUnbooked # {}
  PROVE  Deciding(Decided, Len(Listed))
<1>1. Len(Listed) \in Nat /\ Len(Listed) \in 0..Len(Listed)
  BY ListedAll
<1>2. QED
  BY <1>1, TurnsExist, DecidedIs

(***************************************************************************)
(* A stay that cannot be drawn is short of something, and fewer points     *)
(* would not do.  When the ledger as a whole has enough, what its lots     *)
(* lack would.                                                             *)
(***************************************************************************)
Needed(draws, s, by) ==
  /\ by \in Nat \ {0}
  /\ \A fewer \in 0..(by - 1) : ~FundedWith(fewer, draws, s)
  /\ Price[s] <= PreviewAvailable(draws) => FundedWith(by, draws, s)

LEMMA ShortNeeded ==
  ASSUME PageInv, Shown, ShownUnbooked # {},
         NEW draws, IsDraws(draws), NEW s \in ShownUnbooked, ~CanDraw(draws, s)
  PROVE  Needed(draws, s, ShortBy(draws, s))
<1>1. s \in Stays
  BY ShownStaysType
<1>2. PICK p \in Nat : p = Price[s]
  BY <1>1, RowsAssumption
<1>3. PICK a \in Int : a = PreviewAvailable(draws)
  BY PreviewType
<1>4. CASE p > a
  <2>1. ShortBy(draws, s) = p - a /\ p - a \in Nat \ {0}
    BY <1>2, <1>3, <1>4 DEF ShortBy
  <2>2. ASSUME NEW fewer \in 0..(p - a - 1)
        PROVE  ~FundedWith(fewer, draws, s)
    BY <1>2, <1>3, <2>2 DEF FundedWith
  <2>3. QED
    BY <1>2, <1>3, <1>4, <2>1, <2>2 DEF Needed
<1>5. CASE ~(p > a)
  <2>1. PICK left : left = PreviewLeft(draws)
    OBVIOUS
  <2>2. ~Fundable(PreviewMonths, left, CheckIn[s], p)
    BY <1>2, <1>3, <1>5, <2>1 DEF CanDraw
  <2>3. IsFiniteSet(DOMAIN left) /\ \A lot \in DOMAIN left : left[lot] \in Int
    BY <2>1, PreviewType
  <2>4. PICK c \in Nat : /\ c = Capacity(PreviewMonths, left, CheckIn[s])
                         /\ c < p /\ shortfall(left, s) = p - c
    BY <1>1, <1>2, <2>2, <2>3, ShortfallExact
  <2>5. ShortBy(draws, s) = p - c /\ p - c \in Nat \ {0}
    BY <1>2, <1>3, <1>5, <2>1, <2>4 DEF ShortBy
  <2>6. ASSUME NEW more \in 0..p
        PROVE  FundedWith(more, draws, s) <=> p - more <= a /\ (p - more = 0 \/ p - more <= c)
    <3>1. PICK rest \in Nat : rest = p - more
      BY <2>6
    <3>2. Fundable(PreviewMonths, left, CheckIn[s], rest) <=> rest <= c
      BY <2>4, <3>1 DEF Fundable
    <3>3. QED
      BY <1>2, <1>3, <2>1, <2>4, <3>1, <3>2 DEF FundedWith
  <2>7. \A fewer \in 0..(p - c - 1) : ~FundedWith(fewer, draws, s)
    BY <2>4, <2>6
  <2>8. FundedWith(p - c, draws, s)
    BY <1>5, <2>4, <2>6
  <2>9. QED
    BY <2>5, <2>7, <2>8 DEF Needed
<1>6. QED
  BY <1>2, <1>3, <1>4, <1>5

\* What a shown page says of a stay it finds short.
LEMMA ShortStays ==
  ASSUME PageInv, Shown, ShownUnbooked # {}, NEW short \in PreviewTripFunding.short
  PROVE  short.stay \in ShownUnbooked /\ Needed(PreviewTripFunding.draws, short.stay, short.by)
<1>1. PICK b : b = Decided
  OBVIOUS
<1>2. Deciding(b, Len(Listed))
  BY <1>1, DecidedType
<1>3. PreviewTripFunding.draws = b.draws
  BY <1>1 DEF PreviewTripFunding
<1>4. PICK s \in b.short : short = [stay |-> s, by |-> ShortBy(b.draws, s)]
  BY <1>1 DEF PreviewTripFunding
<1>5. IsDraws(b.draws) /\ s \in ShownUnbooked /\ ~CanDraw(b.draws, s)
  BY <1>2 DEF Deciding
<1>6. QED
  BY <1>3, <1>4, <1>5, ShortNeeded

\* The invariant says what the two theorems below do.
LEMMA PageShort == NumbersInv => PageTypeOK /\ ShortByIsNeeded
<1> SUFFICES ASSUME NumbersInv
             PROVE  PageTypeOK /\ ShortByIsNeeded
  OBVIOUS
<1>1. PageInv
  BY DEF NumbersInv
<1>2. page = Closed \/ page.trip \in Trips
  BY <1>1 DEF PageInv, ReadSoFar
<1>3. \A x \in Reading : page.saw[x] \in DB
  BY <1>1 DEF PageInv, Sound
<1>4. ASSUME Shown, ShownUnbooked # {}, NEW short \in PreviewTripFunding.short
      PROVE  short.stay \in ShownUnbooked /\ Needed(PreviewTripFunding.draws, short.stay, short.by)
  BY <1>1, <1>4, ShortStays
<1>5. PageTypeOK
  BY <1>2, <1>3, <1>4 DEF PageTypeOK, Needed
<1>6. ShortByIsNeeded
  BY <1>4 DEF ShortByIsNeeded, Needed
<1>7. QED
  BY <1>5, <1>6

(***************************************************************************)
(* A page has a trip and what its statements saw; a preview that finds a   *)
(* stay short names an unbooked stay and at least one missing point.       *)
(***************************************************************************)
THEOREM PagesCorrect == FundingSpec => []PageTypeOK
<1>1. FundingInit => NumbersInv
  BY NumbersInit
<1>2. NumbersInv /\ [FundingNext]_fundingVars => NumbersInv'
  BY NumbersNext
<1>3. NumbersInv => PageTypeOK
  BY PageShort
<1>4. QED
  BY <1>1, <1>2, <1>3, PTL DEF FundingSpec

(***************************************************************************)
(* Fewer points than a page asks for would not fund the stay it finds      *)
(* short, whatever the lots, the stays before it and what the statements   *)
(* saw; where the ledger as a whole has enough, as many as it asks for do. *)
(***************************************************************************)
THEOREM NeverAskedTooMuch == FundingSpec => []ShortByIsNeeded
<1>1. FundingInit => NumbersInv
  BY NumbersInit
<1>2. NumbersInv /\ [FundingNext]_fundingVars => NumbersInv'
  BY NumbersNext
<1>3. NumbersInv => ShortByIsNeeded
  BY PageShort
<1>4. QED
  BY <1>1, <1>2, <1>3, PTL DEF FundingSpec

-----------------------------------------------------------------------------
(* What a booking does to Remaining.                                       *)

\* The rows of a booking that commits are the price of the stays it reached.
LEMMA RowsPay ==
  ASSUME UsageInv, NEW r \in Requests, pc[r] = "fund"
  PROVE  /\ Rows(r) \in SUBSET Entry /\ IsFiniteSet(Rows(r)) /\ IsFiniteSet(Reached(r))
         /\ Reached(r) \subseteq Stays
         /\ Used(Rows(r)) = SumOver(Price, Reached(r))
<1>1. TxInv /\ TypeInv /\ StaysPaid(r) /\ Underway(r)
  BY DEF UsageInv, PaidInv, LinkInv, LockInv, Underway
<1>2. PICK rows : rows = tx[r].rows
  OBVIOUS
<1>3. rows \in SUBSET Entry /\ IsFiniteSet(rows) /\ tx[r].links \subseteq Stays \X EntryId
  BY <1>1, <1>2 DEF TypeInv, TypeOK, Finite, Tx
<1>4. /\ \A e \in rows : <<e.id[2], e.id>> \in tx[r].links
      /\ \A l \in tx[r].links : l[2][2] = l[1] /\ \E e \in rows : e.id = l[2]
  <2>1. OwnRows(r) /\ OwnLinks(r)
    BY <1>1 DEF TxInv, TxOrder
  <2>2. QED
    BY <1>2, <2>1 DEF OwnRows, OwnLinks
<1> DEFINE stayOf == [e \in rows |-> e.id[2]]
<1>5. Reached(r) = {stayOf[e] : e \in rows}
  <2>1. ASSUME NEW s \in Reached(r)
        PROVE  \E e \in rows : stayOf[e] = s
    <3>1. PICK l \in tx[r].links : s = l[1]
      BY DEF Reached
    <3>2. PICK e \in rows : e.id = l[2]
      BY <1>4
    <3>3. QED
      BY <1>4, <3>1, <3>2
  <2>2. ASSUME NEW e \in rows
        PROVE  stayOf[e] \in Reached(r)
    <3>1. <<e.id[2], e.id>> \in tx[r].links
      BY <1>4
    <3>2. \A k, i : <<k, i>> \in tx[r].links => k \in Reached(r)
      <4>1. SUFFICES ASSUME NEW k, NEW i, <<k, i>> \in tx[r].links
                     PROVE  \E l \in tx[r].links : k = l[1]
        BY DEF Reached
      <4>2. QED
        BY <4>1
    <3>3. QED
      BY <3>1, <3>2
  <2>3. QED
    BY <2>1, <2>2
<1>6. IsFiniteSet(Reached(r)) /\ Reached(r) \subseteq Stays
  <2>1. IsFiniteSet({stayOf[e] : e \in rows})
    BY <1>3, ImageFinite
  <2>2. QED
    BY <1>3, <1>5, <2>1 DEF Reached
<1>7. \A s \in Reached(r) : Price[s] \in Nat
  BY <1>6, RowsAssumption
<1> DEFINE of(T) == {e \in rows : e.id[2] \in T}
           G == {T \in SUBSET Reached(r) : Used(of(T)) = SumOver(Price, T)}
<1>8. {} \in G
  <2>1. Used({}) = 0
    BY SumEmpty DEF Used
  <2>2. of({}) = {}
    OBVIOUS
  <2> HIDE DEF of
  <2>3. QED
    BY <2>1, <2>2, SumEmpty
<1>9. ASSUME NEW T \in SUBSET Reached(r), NEW s \in Reached(r) \ T, T \in G
      PROVE  T \cup {s} \in G
  <2>1. of(T \cup {s}) = of(T) \cup RowsFor(r, s)
    BY <1>2 DEF RowsFor
  <2>2. of(T) \cap RowsFor(r, s) = {}
    BY <1>9 DEF RowsFor
  <2>3. /\ of(T) \in SUBSET Entry /\ IsFiniteSet(of(T))
        /\ RowsFor(r, s) \in SUBSET Entry /\ IsFiniteSet(RowsFor(r, s))
    BY <1>2, <1>3, FS_Subset DEF RowsFor
  <2>4. Used(RowsFor(r, s)) = Price[s]
    BY <1>1 DEF StaysPaid
  <2>5. Used(of(T)) = SumOver(Price, T)
    BY <1>9
  <2>6. SumOver(Price, T \cup {s}) = SumOver(Price, T) + Price[s]
    <3>1. IsFiniteSet(T)
      BY <1>6, FS_Subset
    <3>2. QED
      BY <1>7, <3>1, SumAdd
  <2> HIDE DEF of
  <2>7. Used(of(T) \cup RowsFor(r, s)) = Used(of(T)) + Used(RowsFor(r, s))
    BY <2>2, <2>3, UsedInTwo
  <2>8. QED
    BY <2>1, <2>4, <2>5, <2>6, <2>7
<1>10. Reached(r) \in G
  <2> HIDE DEF G
  <2>1. QED
    BY <1>6, <1>8, <1>9, SetInduction
<1>11. of(Reached(r)) = rows
  BY <1>5
<1>12. QED
  BY <1>2, <1>3, <1>6, <1>10, <1>11 DEF Rows

\* Points used in a use year.
UsedIn(rows, y) == Used({e \in rows : e.useYear = y})

\* The rows of a booking by use year: those the budget counts, and the rest.
LEMMA UsedByYear ==
  ASSUME NEW rows \in SUBSET Entry, IsFiniteSet(rows), NEW y \in Int
  PROVE  /\ \A z : UsedIn(rows, z) \in Nat
         /\ Used({e \in rows : e.useYear \notin (y - 1)..(y + 1)}) \in Nat
         /\ Used(rows) = UsedIn(rows, y - 1) + UsedIn(rows, y) + UsedIn(rows, y + 1)
                           + Used({e \in rows : e.useYear \notin (y - 1)..(y + 1)})
<1> DEFINE one(z) == {e \in rows : e.useYear = z}
           others == {e \in rows : e.useYear \notin (y - 1)..(y + 1)}
<1>1. /\ \A z : one(z) \in SUBSET Entry /\ IsFiniteSet(one(z))
      /\ others \in SUBSET Entry /\ IsFiniteSet(others)
  BY FS_Subset
<1>2. (\A z : Used(one(z)) \in Nat) /\ Used(others) \in Nat
  BY <1>1, RowSumType
<1>3. \A e \in rows : e.useYear \in Int
  BY DEF Entry, Years
<1>4. /\ one(y - 1) \cap one(y) = {}
      /\ (one(y - 1) \cup one(y)) \cap one(y + 1) = {}
      /\ (one(y - 1) \cup one(y) \cup one(y + 1)) \cap others = {}
      /\ rows = one(y - 1) \cup one(y) \cup one(y + 1) \cup others
  BY <1>3
<1>5. PICK A : A = one(y - 1)
  OBVIOUS
<1>6. PICK B : B = one(y)
  OBVIOUS
<1>7. PICK C : C = one(y + 1)
  OBVIOUS
<1>8. PICK O : O = others
  OBVIOUS
<1>9. /\ A \in SUBSET Entry /\ IsFiniteSet(A) /\ B \in SUBSET Entry /\ IsFiniteSet(B)
      /\ C \in SUBSET Entry /\ IsFiniteSet(C) /\ O \in SUBSET Entry /\ IsFiniteSet(O)
  BY <1>1, <1>5, <1>6, <1>7, <1>8
<1>10. /\ A \cap B = {} /\ (A \cup B) \cap C = {} /\ (A \cup B \cup C) \cap O = {}
       /\ rows = A \cup B \cup C \cup O
  BY <1>4, <1>5, <1>6, <1>7, <1>8
<1>11. /\ UsedIn(rows, y - 1) = Used(A) /\ UsedIn(rows, y) = Used(B)
       /\ UsedIn(rows, y + 1) = Used(C) /\ \A z : UsedIn(rows, z) = Used(one(z))
  BY <1>5, <1>6, <1>7 DEF UsedIn
<1> HIDE DEF one, others
<1>12. /\ IsFiniteSet(A \cup B) /\ A \cup B \in SUBSET Entry
       /\ IsFiniteSet(A \cup B \cup C) /\ A \cup B \cup C \in SUBSET Entry
  BY <1>9, FS_Union
<1>13. /\ Used(A \cup B) = Used(A) + Used(B)
       /\ Used(A \cup B \cup C) = Used(A \cup B) + Used(C)
       /\ Used(A \cup B \cup C \cup O) = Used(A \cup B \cup C) + Used(O)
  BY <1>9, <1>10, <1>12, UsedInTwo
<1>14. Used(rows) = Used(A) + Used(B) + Used(C) + Used(O)
  BY <1>10, <1>13
<1>15. QED
  BY <1>2, <1>8, <1>11, <1>14 DEF others

\* The use year a trip starts in.
LEMMA StartYearType ==
  ASSUME NEW t \in Trips, NEW k
  PROVE  StartYear(t, k) \in Int
<1>1. Start[t].year \in Int
  BY FundingAssumption
<1>2. QED
  BY <1>1 DEF StartYear, UseYearForDate

\* What a commit adds to the rows of a use year.
LEMMA CommitByYear ==
  ASSUME NumbersInv, NEW r \in Requests, BookCommit(r), ~LostRace(r)
  PROVE  /\ db'.contracts = db.contracts /\ db'.months = db.months
         /\ \A z : /\ Net(db, z) \in Int
                   /\ Net(db', z) = Net(db, z) - UsedIn(Rows(r), z)
                   /\ Used(InYear(db, z)) \in Nat
                   /\ Used(InYear(db', z)) = Used(InYear(db, z)) + UsedIn(Rows(r), z)
<1>1. /\ LinkInv /\ TxInv /\ FailureLeavesNothing /\ Sound(db) /\ UsageInv
  BY DEF NumbersInv, TablesInv, LinkInv, LockInv, KnownInv
<1>2. pc[r] = "fund" /\ Underway(r)
  BY DEF BookCommit, Underway
<1>3. PICK rows : rows = Rows(r)
  OBVIOUS
<1>4. /\ db'.entries = db.entries \cup rows
      /\ db'.contracts = db.contracts /\ db'.months = db.months
  BY <1>1, <1>3, CommitWrites DEF Rows
<1>5. /\ rows \in SUBSET Entry /\ IsFiniteSet(rows)
      /\ \A e \in rows : e.allotted = 0 /\ e \notin db.entries
  <2>1. \A e \in rows : e.id[1] = r
    <3>1. OwnRows(r)
      BY <1>1 DEF TxInv, TxOrder
    <3>2. QED
      BY <1>2, <1>3, <3>1 DEF OwnRows, Rows
  <2>2. \A e \in db.entries : e.id[1] # r
    BY <1>1, <1>2 DEF FailureLeavesNothing
  <2>3. \A e \in rows : e.allotted = 0
    BY <1>1, <1>2, <1>3 DEF UsageInv, OnlyUsage, Rows
  <2>4. QED
    BY <1>1, <1>2, <1>3, <2>1, <2>2, <2>3, RowsPay
<1>6. ASSUME NEW z
      PROVE  /\ Net(db, z) \in Int
             /\ Net(db', z) = Net(db, z) - UsedIn(rows, z)
             /\ Used(InYear(db, z)) \in Nat
             /\ Used(InYear(db', z)) = Used(InYear(db, z)) + UsedIn(rows, z)
  <2>1. PICK old : old = InYear(db, z)
    OBVIOUS
  <2>2. PICK new : new = {e \in rows : e.useYear = z}
    OBVIOUS
  <2>3. PICK all : all = InYear(db', z)
    OBVIOUS
  <2>4. all = old \cup new /\ old \cap new = {}
    BY <1>4, <1>5, <2>1, <2>2, <2>3 DEF InYear
  <2>5. old \in SUBSET Entry /\ IsFiniteSet(old) /\ Used(old) \in Nat /\ Allotted(old) \in Nat
    <3>1. old \in SUBSET db.entries
      BY <2>1 DEF InYear
    <3>2. QED
      BY <1>1, <3>1, PartSums
  <2>6. new \in SUBSET Entry /\ IsFiniteSet(new) /\ \A e \in new : e.allotted = 0
    BY <1>5, <2>2, FS_Subset
  <2>7. Used(new) \in Nat /\ Used(new) = UsedIn(rows, z)
    BY <2>2, <2>6, RowSumType DEF UsedIn
  <2>8. Used(all) = Used(old) + Used(new)
    BY <2>4, <2>5, <2>6, UsedInTwo
  <2>9. Allotted(all) = Allotted(old)
    <3>1. all \in SUBSET Entry /\ IsFiniteSet(all) /\ old \in SUBSET all
      BY <2>4, <2>5, <2>6, FS_Union
    <3>2. \A e \in all \ old : e.allotted = 0
      BY <2>4, <2>6
    <3>3. QED
      BY <3>1, <3>2, AllottedKept
  <2>10. Net(db, z) = Allotted(old) - Used(old) /\ Net(db', z) = Allotted(all) - Used(all)
    BY <2>1, <2>3 DEF Net
  <2>11. QED
    BY <2>1, <2>3, <2>5, <2>7, <2>8, <2>9, <2>10
<1>7. QED
  BY <1>3, <1>4, <1>6

\* The unbooked stays cost less by the price of the stays that were booked.
LEMMA CommitBooks ==
  ASSUME NumbersInv, NEW r \in Requests, BookCommit(r), ~LostRace(r)
  PROVE  LET t == job[r].trip IN
         /\ SumOver(Price, Unbooked(db', t)) \in Nat
         /\ SumOver(Price, Unbooked(db, t)) = SumOver(Price, Unbooked(db', t)) + Used(Rows(r))
<1>1. /\ LinkInv /\ TxInv /\ KnownInv /\ UsageInv /\ Sound(db) /\ pc[r] = "fund"
  BY DEF NumbersInv, TablesInv, LinkInv, LockInv, KnownInv, BookCommit
<1>2. PICK t : t = job[r].trip
  OBVIOUS
<1>3. PICK S : S = Unbooked(db, t)
  OBVIOUS
<1>4. PICK R : R = Reached(r)
  OBVIOUS
<1>5. /\ db'.links = db.links \cup tx[r].links /\ db'.stays = db.stays
      /\ tx[r].rows = {} => tx[r].links = {}
  BY <1>1, CommitWrites
<1>6. R \subseteq S
  <2>1. CASE tx[r].rows = {}
    BY <1>4, <1>5, <2>1 DEF Reached
  <2>2. CASE tx[r].rows # {}
    BY <1>1, <1>2, <1>3, <1>4, <2>2, ReachedUnbooked
  <2>3. QED
    BY <2>1, <2>2
<1>7. Unbooked(db', t) = S \ R
  <2>1. ASSUME NEW s
        PROVE  Booked(db', s) <=> Booked(db, s) \/ s \in R
    BY <1>4, <1>5 DEF Booked, LinkedTo, Reached
  <2>2. QED
    BY <1>3, <1>5, <2>1 DEF Unbooked, StaysOf
<1>8. S \in SUBSET db.stays /\ db.stays \subseteq Stays
  BY <1>1, <1>3 DEF Unbooked, StaysOf, Sound, DB
<1>9. /\ IsFiniteSet(S \ R) /\ IsFiniteSet(R) /\ SumOver(Price, S \ R) \in Nat
  BY <1>1, <1>6, <1>8, PriceType, FS_Subset DEF Sound
<1>10. SumOver(Price, (S \ R) \cup R) = SumOver(Price, S \ R) + SumOver(Price, R)
  <2>1. \A s \in (S \ R) \cup R : Price[s] \in Nat
    BY <1>6, <1>8, RowsAssumption
  <2>2. (S \ R) \cap R = {}
    OBVIOUS
  <2>3. QED
    BY <1>9, <2>1, <2>2, SumDisjoint
<1>11. (S \ R) \cup R = S
  BY <1>6
<1>12. SumOver(Price, R) = Used(Rows(r))
  BY <1>1, <1>4, RowsPay
<1>13. QED
  BY <1>2, <1>3, <1>7, <1>9, <1>10, <1>11, <1>12

\* What a commit does to the Remaining of its trip.
LEMMA CommitMovesRemaining ==
  ASSUME NumbersInv, NEW r \in Requests, BookCommit(r), ~LostRace(r),
         NEW t \in Trips, t = job[r].trip
  PROVE  LET moved == RemainingIn(db', t) - RemainingIn(db, t)
         IN  /\ moved >= 0
             /\ moved = IF Override[t] # NoOverride THEN Used(Rows(r))
                        ELSE Uncounted(r, t) + Excess(db', t) - Excess(db, t)
<1> DEFINE d == db
           e == db'
           rows == Rows(r)
<1>1. /\ Sound(d) /\ UsageInv /\ pc[r] = "fund"
  BY DEF NumbersInv, TablesInv, KnownInv, BookCommit
<1>2. /\ e.contracts = d.contracts /\ e.months = d.months
  BY CommitByYear
<1>3. rows \in SUBSET Entry /\ IsFiniteSet(rows)
  BY <1>1, RowsPay
<1>4. PICK left \in Nat : left = SumOver(Price, Unbooked(e, t))
  BY CommitBooks
<1>5. PICK paid \in Nat : paid = Used(rows)
  BY <1>3, RowSumType
<1>6. SumOver(Price, Unbooked(d, t)) = left + paid
  BY <1>4, <1>5, CommitBooks
<1>7. /\ RemainingIn(d, t) = effectiveBudget(t, d, d) - (left + paid)
      /\ RemainingIn(e, t) = effectiveBudget(t, e, e) - left
  BY <1>4, <1>6 DEF RemainingIn, searchBudgetFor
<1>8. CASE Override[t] # NoOverride
  <2>1. PICK b \in Nat : b = Override[t]
    BY <1>8, FundingAssumption
  <2>2. effectiveBudget(t, d, d) = b /\ effectiveBudget(t, e, e) = b
    BY <1>8, <2>1 DEF effectiveBudget
  <2>3. RemainingIn(e, t) - RemainingIn(d, t) = paid
    <3> HIDE DEF d, e, rows
    <3>1. QED
      BY <1>7, <2>2
  <2>4. QED
    BY <1>5, <1>8, <2>3
<1>9. CASE Override[t] = NoOverride
  <2>1. PICK y \in Int : y = StartYear(t, d)
    BY StartYearType
  <2>2. StartYear(t, e) = y
    BY <1>2, <2>1 DEF StartYear, UseYearStartMonth
  <2>3. PICK k \in Int : k = SumOver(Annual, d.contracts)
    BY <1>1, AnnualType
  <2>4. PICK n \in Int, p \in Int, v \in Nat :
          n = Net(d, y) /\ p = Net(d, y - 1) /\ v = Used(InYear(d, y + 1))
    BY CommitByYear
  <2>5. PICK a \in Nat, b \in Nat, c \in Nat, o \in Nat :
          /\ a = UsedIn(rows, y - 1) /\ b = UsedIn(rows, y) /\ c = UsedIn(rows, y + 1)
          /\ o = Used({x \in rows : x.useYear \notin (y - 1)..(y + 1)})
          /\ paid = a + b + c + o
    <3>1. \A z : UsedIn(rows, z) \in Nat
      BY <1>3, <2>1, UsedByYear
    <3>2. PICK o \in Nat : o = Used({x \in rows : x.useYear \notin (y - 1)..(y + 1)})
      BY <1>3, <2>1, UsedByYear
    <3>3. Used(rows) = UsedIn(rows, y - 1) + UsedIn(rows, y) + UsedIn(rows, y + 1) + o
      BY <1>3, <2>1, <3>2, UsedByYear
    <3> HIDE DEF rows
    <3>4. QED
      BY <1>5, <3>1, <3>2, <3>3
  <2>6. /\ Net(e, y) = n - b /\ Net(e, y - 1) = p - a
        /\ Used(InYear(e, y + 1)) = v + c
    BY <2>4, <2>5, CommitByYear
  <2> DEFINE can(u) == IF k - u < 0 THEN 0 ELSE k - u
             over(u) == IF u - k > 0 THEN u - k ELSE 0
  <2>7. Borrowable(d, d, y) = can(v) /\ Borrowable(e, e, y) = can(v + c)
    BY <1>2, <2>3, <2>4, <2>6 DEF Borrowable
  <2>8. Excess(d, t) = over(v) /\ Excess(e, t) = over(v + c)
    BY <1>2, <2>1, <2>2, <2>3, <2>4, <2>6 DEF Excess
  <2>9. /\ effectiveBudget(t, d, d) = n + p + can(v)
        /\ effectiveBudget(t, e, e) = (n - b) + (p - a) + can(v + c)
    BY <1>9, <2>1, <2>2, <2>4, <2>6, <2>7 DEF effectiveBudget, BudgetForUseYear
  <2>10. Uncounted(r, t) = o
    BY <2>1, <2>5 DEF Uncounted
  <2>11. \A x \in Int : can(x) = k - x + over(x) /\ over(x) \in Nat
    OBVIOUS
  <2>12. over(v) <= over(v + c)
    OBVIOUS
  <2> HIDE DEF can, over, d, e, rows
  <2>13. can(v) = k - v + over(v) /\ can(v + c) = k - (v + c) + over(v + c)
    BY <2>11
  <2>14. over(v) \in Nat /\ over(v + c) \in Nat
    BY <2>11
  <2>15. PICK i \in Nat, j \in Nat : i = over(v) /\ j = over(v + c) /\ i <= j
    BY <2>12, <2>14
  <2>16. /\ RemainingIn(d, t) = n + p + (k - v + i) - (left + (a + b + c + o))
         /\ RemainingIn(e, t) = (n - b) + (p - a) + (k - (v + c) + j) - left
    BY <1>7, <2>5, <2>9, <2>13, <2>15
  <2>17. RemainingIn(e, t) - RemainingIn(d, t) = o + j - i
    BY <2>16
  <2>18. Uncounted(r, t) + Excess(e, t) - Excess(d, t) = o + j - i
    BY <2>8, <2>10, <2>15
  <2>19. o + j - i >= 0
    BY <2>15
  <2>20. QED
    BY <1>9, <2>17, <2>18, <2>19 DEF d, e
<1>10. QED
  BY <1>8, <1>9

(***************************************************************************)
(* What a booking does to Remaining, the number searches run against: it   *)
(* moves only by the points the budget cannot see go, and it never falls.  *)
(* So whatever else happens meanwhile, and whoever else books or imports,  *)
(* the counted points and the price of the booked stays cancel out.        *)
(***************************************************************************)
THEOREM RemainingMovesUp == FundingSpec => BookingMovesRemaining
<1>1. FundingInit => NumbersInv
  BY NumbersInit
<1>2. NumbersInv /\ [FundingNext]_fundingVars => NumbersInv'
  BY NumbersNext
<1>3. NumbersInv /\ [FundingNext]_fundingVars =>
        [\A r \in Requests : BookingCommits(r) =>
           LET t == job[r].trip
               moved == RemainingIn(db', t) - RemainingIn(db, t)
           IN  t \in db.trips =>
                 /\ moved >= 0
                 /\ moved = IF Override[t] # NoOverride THEN Used(Rows(r))
                            ELSE Uncounted(r, t) + Excess(db', t) - Excess(db, t)]_fundingVars
  <2>1. SUFFICES ASSUME NumbersInv, [FundingNext]_fundingVars,
                        NEW r \in Requests, BookingCommits(r), job[r].trip \in db.trips
                 PROVE  LET t == job[r].trip
                            moved == RemainingIn(db', t) - RemainingIn(db, t)
                        IN  /\ moved >= 0
                            /\ moved = IF Override[t] # NoOverride THEN Used(Rows(r))
                                       ELSE Uncounted(r, t) + Excess(db', t) - Excess(db, t)
    OBVIOUS
  <2>2. [Next]_vars
    BY <2>1, FundingSteps
  <2>3. TypeInv /\ db \in DB
    BY <2>1 DEF NumbersInv, TablesInv, LinkInv, LockInv, Sound
  <2>4. BookCommit(r) /\ ~LostRace(r)
    BY <2>1, <2>2, <2>3, OnlyCommitBooks DEF BookingCommits
  <2>5. PICK t \in Trips : t = job[r].trip
    BY <2>1, <2>3 DEF DB
  <2>6. QED
    BY <2>1, <2>4, <2>5, CommitMovesRemaining
<1>4. QED
  BY <1>1, <1>2, <1>3, PTL DEF FundingSpec, BookingMovesRemaining

-----------------------------------------------------------------------------
(* What a booking has drawn so far, stay by stay: PreviewIsWhatBookingDoes. *)

\* ListStays orders the stays: any two, and one way only.
LEMMA StayOrder ==
  /\ \A s \in Stays : ~ListedBefore(s, s)
  /\ \A s, t \in Stays : ~(ListedBefore(s, t) /\ ListedBefore(t, s))
  /\ \A s, t \in Stays : s = t \/ ListedBefore(s, t) \/ ListedBefore(t, s)
<1>1. Orders(Listing(Stays), Stays)
  BY ListingOrders
<1>2. \A s, t \in Stays : <<s, t>> \in Listing(Stays) <=> ListedBefore(s, t)
  BY DEF Listing
<1>3. QED
  BY <1>1, <1>2 DEF Orders

\* The rows of the stays listed before s.
Earlier(r, s) == {e \in tx[r].rows : ListedBefore(e.id[2], s)}

\* CanFund and Draws, with rows of one's own that need not be all there are.
FundedOn(d, own, s) ==
  /\ Price[s] <= Available(d, own)
  /\ Fundable(MonthsIn(d), Left(d, own), CheckIn[s], Price[s])
DrawnOn(d, own, s) ==
  AllocateStayPoints(MonthsIn(d), Left(d, own), CheckIn[s], Price[s])

(***************************************************************************)
(* A booking reaches the stays in the order they are listed, and draws for *)
(* each from what the stays before it have left.                           *)
(***************************************************************************)
PaidInTurn(r) ==
  pc[r] = "fund" => \A s \in Reached(r) :
    /\ \A u \in Unbooked(tx[r].snap, job[r].trip) : ListedBefore(u, s) => u \in Reached(r)
    /\ FundedOn(tx[r].snap, Earlier(r, s), s)
    /\ RowsFor(r, s) = {UsageRow(r, s, draw) : draw \in DrawnOn(tx[r].snap, Earlier(r, s), s)}

\* The stays reached come before the stay whose turn it is.
LEMMA ReachedFirst ==
  ASSUME PaidInv, NEW r \in Requests, pc[r] = "fund", PaidInTurn(r),
         NEW s \in ToFund(r), \A t \in ToFund(r) \ {s} : ListedBefore(s, t)
  PROVE  /\ \A t \in Reached(r) : ListedBefore(t, s)
         /\ \A u \in Unbooked(tx[r].snap, job[r].trip) : ListedBefore(u, s) => u \in Reached(r)
         /\ Earlier(r, s) = tx[r].rows
<1> DEFINE S == Unbooked(tx[r].snap, job[r].trip)
<1>1. S \subseteq Stays /\ Reached(r) \subseteq S
  BY DEF PaidInv, LinkInv, LockInv, TypeInv, TypeOK, Tx, DB, Unbooked, StaysOf, StaysPaid, Underway
<1>2. s \in S /\ s \notin Reached(r)
  BY DEF ToFund
<1>3. ASSUME NEW t \in Reached(r)
      PROVE  ListedBefore(t, s)
  <2>1. ~ListedBefore(s, t)
    BY <1>2 DEF PaidInTurn
  <2>2. QED
    BY <1>1, <1>2, <2>1, StayOrder
<1>4. ASSUME NEW u \in S, ListedBefore(u, s)
      PROVE  u \in Reached(r)
  <2>1. SUFFICES ASSUME u \notin Reached(r)
                 PROVE  FALSE
    OBVIOUS
  <2>2. u \in ToFund(r) /\ u # s
    BY <1>1, <1>2, <1>4, <2>1, StayOrder DEF ToFund
  <2>3. ListedBefore(s, u)
    BY <2>2
  <2>4. QED
    BY <1>1, <1>2, <1>4, <2>3, StayOrder
<1>5. \A e \in tx[r].rows : e.id[2] \in Reached(r)
  <2>1. \A e \in tx[r].rows : <<e.id[2], e.id>> \in tx[r].links
    BY DEF PaidInv, LinkInv, TxInv, TxOrder, OwnRows
  <2>2. \A k, i : <<k, i>> \in tx[r].links => k \in Reached(r)
    <3>1. SUFFICES ASSUME NEW k, NEW i, <<k, i>> \in tx[r].links
                   PROVE  \E l \in tx[r].links : k = l[1]
      BY DEF Reached
    <3>2. QED
      BY <3>1
  <2>3. QED
    BY <2>1, <2>2
<1>6. QED
  BY <1>3, <1>4, <1>5 DEF Earlier

\* A turn of the loop draws for the first stay not reached yet.
LEMMA InsertsInTurn ==
  ASSUME PaidInv, NEW r \in Requests, PaidInTurn(r), job' = job,
         NEW s \in Stays, NEW rows \in SUBSET Entry, Inserts(r, s, rows)
  PROVE  PaidInTurn(r)'
<1>1. /\ tx'[r].snap = tx[r].snap /\ tx'[r].rows = tx[r].rows \cup rows
      /\ Reached(r)' \subseteq Reached(r) \cup {s} /\ s \notin Reached(r)
      /\ RowsFor(r, s)' = rows
      /\ \A t \in Reached(r) : RowsFor(r, t)' = RowsFor(r, t)
  BY InsertPays
<1>2. /\ pc[r] = "fund" /\ s \in ToFund(r) /\ CanFund(r, s)
      /\ \A t \in ToFund(r) \ {s} : ListedBefore(s, t)
      /\ rows = {UsageRow(r, s, draw) : draw \in Draws(r, s)}
  BY DEF Inserts, NextStay
<1>3. /\ \A t \in Reached(r) : ListedBefore(t, s)
      /\ \A u \in Unbooked(tx[r].snap, job[r].trip) : ListedBefore(u, s) => u \in Reached(r)
      /\ Earlier(r, s) = tx[r].rows
  BY <1>2, ReachedFirst
<1>4. Reached(r) \subseteq Reached(r)' /\ Reached(r) \subseteq Stays
  <2>1. tx[r] \in Tx
    BY DEF PaidInv, OpInv, TypeInv, TypeOK
  <2>2. tx'[r].links = tx[r].links \cup LinksTo(s, rows)
    BY <2>1 DEF Inserts, Tx
  <2>3. QED
    BY <2>1, <2>2 DEF Reached, Tx
<1>5. \A e \in rows : e.id[2] = s
  BY <1>2 DEF UsageRow
<1>6. Earlier(r, s)' = tx[r].rows
  BY <1>1, <1>3, <1>5, StayOrder DEF Earlier
<1>7. \A t \in Reached(r) : Earlier(r, t)' = Earlier(r, t)
  <2>1. \A t \in Reached(r) : ~ListedBefore(s, t)
    BY <1>3, <1>4, StayOrder
  <2>2. QED
    BY <1>1, <1>5, <2>1 DEF Earlier
<1>8. SUFFICES ASSUME NEW t \in Reached(r)'
               PROVE  /\ \A u \in Unbooked(tx[r].snap, job[r].trip) :
                           ListedBefore(u, t) => u \in Reached(r)'
                      /\ FundedOn(tx[r].snap, Earlier(r, t)', t)
                      /\ RowsFor(r, t)'
                           = {UsageRow(r, t, draw) : draw \in DrawnOn(tx[r].snap, Earlier(r, t)', t)}
  BY <1>1 DEF PaidInTurn, Unbooked, StaysOf, UsageRow, FundedOn, DrawnOn
<1>9. CASE t \in Reached(r)
  BY <1>1, <1>2, <1>4, <1>7, <1>9 DEF PaidInTurn
<1>10. CASE t = s
  <2>1. FundedOn(tx[r].snap, tx[r].rows, s)
    BY <1>2 DEF CanFund, FundedOn
  <2>2. Draws(r, s) = DrawnOn(tx[r].snap, tx[r].rows, s)
    BY DEF Draws, DrawnOn
  <2>3. QED
    BY <1>1, <1>2, <1>3, <1>4, <1>6, <1>10, <2>1, <2>2
<1>11. QED
  BY <1>1, <1>9, <1>10

\* The snapshot holds no row of the booking itself.
Apart(r) == Underway(r) => \A e \in tx[r].snap.entries : e.id[1] # r

LoopInv == KnownInv /\ \A r \in Requests : PaidInTurn(r) /\ Apart(r)

\* Nothing is drawn at first.
LEMMA LoopInit == Init => LoopInv
BY KnownInit DEF Init, LoopInv, PaidInTurn, Apart, Underway

\* Every step keeps what bookings have drawn in turn.
LEMMA LoopNext == LoopInv /\ [Next]_vars => LoopInv'
<1>1. SUFFICES ASSUME LoopInv, [Next]_vars
               PROVE  LoopInv'
  OBVIOUS
<1>2. KnownInv' /\ PaidInv /\ TypeInv /\ TxInv
  BY <1>1, KnownNext DEF LoopInv, KnownInv, UsageInv, PaidInv, LinkInv, LockInv
<1>3. CASE UNCHANGED vars
  BY <1>1, <1>2, <1>3 DEF vars, LoopInv, PaidInTurn, Reached, RowsFor, Earlier,
     Unbooked, StaysOf, UsageRow, Apart, Underway
<1>4. ASSUME NEW r \in Requests, Step(r) \/ Abort(r)
      PROVE  LoopInv'
  <2>1. Moves(r) /\ job' = job
    BY <1>1, <1>2, <1>4, StepMoves, OpNext DEF PaidInv
  <2>2. ASSUME NEW q \in Requests \ {r}
        PROVE  PaidInTurn(q)' /\ Apart(q)'
    <3>1. /\ pc'[q] = pc[q] /\ tx'[q].snap = tx[q].snap
          /\ tx'[q].rows = tx[q].rows /\ tx'[q].links = tx[q].links
      BY <2>1 DEF Moves
    <3>2. Reached(q)' = Reached(q) /\ \A s : RowsFor(q, s)' = RowsFor(q, s)
      BY <3>1, SameRows
    <3>3. \A s : Earlier(q, s)' = Earlier(q, s)
      BY <3>1 DEF Earlier
    <3>4. PaidInTurn(q) /\ Apart(q)
      BY <1>1 DEF LoopInv
    <3>5. PaidInTurn(q)'
      BY <2>1, <3>1, <3>2, <3>3, <3>4 DEF PaidInTurn, UsageRow
    <3>6. QED
      BY <3>1, <3>4, <3>5 DEF Apart, Underway
  <2>3. PaidInTurn(r)'
    <3>1. CASE pc'[r] # "fund"
      BY <3>1 DEF PaidInTurn
    <3>2. CASE pc'[r] = "fund"
      <4>1. Begins(r) \/ LocksOn(r) \/ \E s \in Stays : \E rows \in SUBSET Entry : Inserts(r, s, rows)
        BY <1>2, <1>4, <3>2, OpenSteps DEF Underway
      <4>2. ~Begins(r)
        BY <3>2 DEF Begins
      <4>3. CASE LocksOn(r)
        <5>1. Reached(r) = {}
          BY <1>2, <4>3, NothingReached DEF LocksOn
        <5>2. Reached(r)' = {}
          BY <4>3, <5>1 DEF LocksOn, SameTx, Reached
        <5>3. QED
          BY <5>2 DEF PaidInTurn
      <4>4. ASSUME NEW s \in Stays, NEW rows \in SUBSET Entry, Inserts(r, s, rows)
            PROVE  PaidInTurn(r)'
        BY <1>1, <1>2, <2>1, <4>4, InsertsInTurn DEF LoopInv
      <4>5. QED
        BY <4>1, <4>2, <4>3, <4>4
    <3>3. QED
      BY <3>1, <3>2
  <2>4. Apart(r)'
    <3>1. SUFFICES ASSUME Underway(r)'
                   PROVE  \A e \in tx'[r].snap.entries : e.id[1] # r
      BY DEF Apart
    <3>2. CASE Begins(r)
      <4>1. tx'[r].snap = db
        BY <1>2, <3>2 DEF Begins, TypeInv, TypeOK, Tx
      <4>2. \A e \in db.entries : e.id[1] # r
        BY <1>2, <3>2 DEF Begins, PaidInv, LinkInv, FailureLeavesNothing
      <4>3. QED
        BY <4>1, <4>2
    <3>3. CASE LocksOn(r)
      BY <1>1, <3>3 DEF LocksOn, SameTx, LoopInv, Apart, Underway
    <3>4. ASSUME NEW s \in Stays, NEW rows \in SUBSET Entry, Inserts(r, s, rows)
          PROVE  \A e \in tx'[r].snap.entries : e.id[1] # r
      <4>1. tx'[r].snap = tx[r].snap /\ Underway(r)
        BY <1>2, <3>4, InsertPays DEF Inserts, Underway
      <4>2. QED
        BY <1>1, <4>1 DEF LoopInv, Apart
    <3>5. QED
      BY <1>2, <1>4, <3>1, <3>2, <3>3, <3>4, OpenSteps
  <2>5. QED
    BY <1>2, <2>2, <2>3, <2>4 DEF LoopInv
<1>5. QED
  BY <1>1, <1>3, <1>4 DEF Next, Idle

\* The points of some draws.
PointsIn(draws) == SumOver([d \in draws |-> d.points], draws)

\* Some of the draws are draws, with points of their own.
LEMMA PointsOfPart ==
  ASSUME NEW draws, IsDraws(draws), NEW part \in SUBSET draws
  PROVE  /\ SumOver([d \in draws |-> d.points], part) = PointsIn(part)
         /\ PointsIn(part) \in Nat /\ IsDraws(part)
<1>1. \A d \in part : [x \in draws |-> x.points][d] = [x \in part |-> x.points][d]
  OBVIOUS
<1>2. SumOver([d \in draws |-> d.points], part) = SumOver([d \in part |-> d.points], part)
  BY <1>1, SumCongruent
<1>3. IsDraws(part)
  BY FS_Subset DEF IsDraws
<1>4. QED
  BY <1>2, <1>3, DrawsSum DEF PointsIn

\* Draws that are apart add up.
LEMMA PointsOfTwo ==
  ASSUME NEW draws, IsDraws(draws), NEW more, IsDraws(more), draws \cap more = {}
  PROVE  IsDraws(draws \cup more) /\ PointsIn(draws \cup more) = PointsIn(draws) + PointsIn(more)
<1> DEFINE all == draws \cup more
           f == [d \in all |-> d.points]
<1>1. IsDraws(all)
  BY FS_Union DEF IsDraws
<1>2. \A d \in all : f[d] \in Nat
  BY <1>1 DEF IsDraws, PageDraw
<1>3. draws \in SUBSET all /\ more \in SUBSET all
  OBVIOUS
<1>4. SumOver(f, draws) = PointsIn(draws) /\ SumOver(f, more) = PointsIn(more)
  <2> HIDE DEF all
  <2>1. QED
    BY <1>1, <1>3, PointsOfPart
<1>5. SumOver(f, all) = SumOver(f, draws) + SumOver(f, more)
  <2> HIDE DEF f
  <2>1. QED
    BY <1>2, SumDisjoint DEF IsDraws
<1>6. QED
  BY <1>1, <1>4, <1>5 DEF PointsIn

\* Draws of a preview against a lot.
DrawsOf(draws, lot) == {d \in draws : d.lot = lot}

\* What is drawn from a lot is the points of its draws.
LEMMA DrawnIs ==
  ASSUME NEW draws, IsDraws(draws), NEW lot
  PROVE  /\ DrawnFrom(draws, lot) = PointsIn(DrawsOf(draws, lot))
         /\ DrawnFrom(draws, lot) \in Nat /\ IsDraws(DrawsOf(draws, lot))
<1>1. DrawsOf(draws, lot) \in SUBSET draws
  BY DEF DrawsOf
<1>2. QED
  BY <1>1, PointsOfPart DEF DrawsOf, DrawnFrom

(***************************************************************************)
(* The rows a booking has inserted and the draws a preview has decided     *)
(* take the same points from every lot, and in all.                        *)
(***************************************************************************)
Matches(own, draws) ==
  /\ \A lot : Used(Against(own, lot)) = DrawnFrom(draws, lot)
  /\ Used(own) = PointsIn(draws)

\* Rows inserted for draws of one stay match the draws.
LEMMA RowsMatch ==
  ASSUME NEW r \in Requests, NEW s \in ShownUnbooked, s \in Nat, NEW D, IsFiniteSet(D),
         \A d \in D : /\ d.lot \in LotsIn(page.saw["lots"]) /\ d.lot \in Lot
                      /\ d.rank \in Int /\ d.points \in Nat \ {0},
         \A a, b \in D : a.lot = b.lot => a = b
  PROVE  LET rows == {UsageRow(r, s, d) : d \in D}
             more == {[stay |-> s, lot |-> d.lot, rank |-> d.rank, points |-> d.points] : d \in D}
         IN  rows \in SUBSET Entry /\ IsFiniteSet(rows) /\ IsDraws(more) /\ Matches(rows, more)
<1> DEFINE toRow == [d \in D |-> UsageRow(r, s, d)]
           toDraw == [d \in D |-> [stay |-> s, lot |-> d.lot, rank |-> d.rank,
                                   points |-> d.points]]
           rowsOf(P) == {toRow[d] : d \in P}
           drawsOf(P) == {toDraw[d] : d \in P}
           weight == [d \in D |-> d.points]
<1>1. /\ \A d \in D : toRow[d] \in Entry
      /\ \A d \in D : toRow[d].used = d.points /\ LotOf(toRow[d]) = d.lot /\ toRow[d].id[3] = d.lot
  <2>1. ASSUME NEW d \in D
        PROVE  /\ UsageRow(r, s, d) \in Entry /\ UsageRow(r, s, d).used = d.points
               /\ LotOf(UsageRow(r, s, d)) = d.lot /\ UsageRow(r, s, d).id[3] = d.lot
    <3>1. d.lot \in Lot /\ d.points \in Nat
      OBVIOUS
    <3>2. /\ d.lot.contract \in Contracts \cup {NoContract} /\ d.lot.useYear \in Years
          /\ d.lot = [contract |-> d.lot.contract, useYear |-> d.lot.useYear]
      BY <3>1 DEF Lot
    <3>3. QED
      BY <3>1, <3>2 DEF UsageRow, Entry, EntryId, LotOf
  <2>2. QED
    BY <2>1
<1>2. \A d \in D : toDraw[d] \in PageDraw /\ toDraw[d].points = d.points /\ toDraw[d].lot = d.lot
  BY DEF PageDraw
<1>3. \A d \in D : weight[d] \in Nat /\ weight[d] = d.points
  OBVIOUS
<1> HIDE DEF toRow, toDraw, weight
<1>4. ASSUME NEW P \in SUBSET D
      PROVE  /\ rowsOf(P) \in SUBSET Entry /\ IsFiniteSet(rowsOf(P)) /\ IsDraws(drawsOf(P))
             /\ Used(rowsOf(P)) = PointsIn(drawsOf(P))
  <2>1. IsFiniteSet(P)
    BY FS_Subset
  <2>2. IsFiniteSet(rowsOf(P)) /\ IsFiniteSet(drawsOf(P))
    BY <2>1, ImageFinite
  <2>3. rowsOf(P) \in SUBSET Entry /\ IsDraws(drawsOf(P))
    BY <1>1, <1>2, <2>2 DEF IsDraws
  <2>4. Used(rowsOf(P)) = SumOver(weight, P)
    <3> DEFINE h == [e \in rowsOf(P) |-> e.used]
    <3>1. \A x, y \in P : toRow[x] = toRow[y] => x = y
      BY <1>1
    <3>2. \A d \in P : h[toRow[d]] = weight[d] /\ weight[d] \in Nat
      BY <1>1, <1>3
    <3> HIDE DEF h
    <3>3. SumOver(h, {toRow[d] : d \in P}) = SumOver(weight, P)
      BY <2>1, <3>1, <3>2, SumRenamed
    <3>4. QED
      BY <3>3 DEF h, Used
  <2>5. PointsIn(drawsOf(P)) = SumOver(weight, P)
    <3> DEFINE h == [e \in drawsOf(P) |-> e.points]
    <3>1. \A x, y \in P : toDraw[x] = toDraw[y] => x = y
      BY <1>2
    <3>2. \A d \in P : h[toDraw[d]] = weight[d] /\ weight[d] \in Nat
      BY <1>2, <1>3
    <3> HIDE DEF h
    <3>3. SumOver(h, {toDraw[d] : d \in P}) = SumOver(weight, P)
      BY <2>1, <3>1, <3>2, SumRenamed
    <3>4. QED
      BY <3>3 DEF h, PointsIn
  <2>6. QED
    BY <2>2, <2>3, <2>4, <2>5
<1>5. ASSUME NEW lot
      PROVE  Used(Against(rowsOf(D), lot)) = DrawnFrom(drawsOf(D), lot)
  <2> DEFINE P == {d \in D : d.lot = lot}
  <2>1. Against(rowsOf(D), lot) = rowsOf(P)
    BY <1>1 DEF Against
  <2>2. DrawsOf(drawsOf(D), lot) = drawsOf(P)
    BY <1>2 DEF DrawsOf
  <2>3. P \in SUBSET D
    OBVIOUS
  <2>4. Used(rowsOf(P)) = PointsIn(drawsOf(P)) /\ IsDraws(drawsOf(D))
    BY <1>4, <2>3
  <2> HIDE DEF P
  <2>5. QED
    BY <2>1, <2>2, <2>4, DrawnIs
<1>6. Matches(rowsOf(D), drawsOf(D))
  BY <1>4, <1>5 DEF Matches
<1>7. /\ rowsOf(D) = {UsageRow(r, s, d) : d \in D}
      /\ drawsOf(D) = {[stay |-> s, lot |-> d.lot, rank |-> d.rank, points |-> d.points] : d \in D}
  BY DEF toRow, toDraw
<1>8. QED
  BY <1>4, <1>6, <1>7

\* Matches of rows and draws that are apart add up.
LEMMA MatchesAdd ==
  ASSUME NEW own \in SUBSET Entry, IsFiniteSet(own), NEW rows \in SUBSET Entry, IsFiniteSet(rows),
         own \cap rows = {}, NEW draws, IsDraws(draws), NEW more, IsDraws(more),
         draws \cap more = {}, Matches(own, draws), Matches(rows, more)
  PROVE  Matches(own \cup rows, draws \cup more)
<1>1. ASSUME NEW lot
      PROVE  Used(Against(own \cup rows, lot)) = DrawnFrom(draws \cup more, lot)
  <2>1. PICK a : a = Against(own, lot)
    OBVIOUS
  <2>2. PICK b : b = Against(rows, lot)
    OBVIOUS
  <2>3. Against(own \cup rows, lot) = a \cup b /\ a \cap b = {}
    BY <2>1, <2>2 DEF Against
  <2>4. a \in SUBSET Entry /\ IsFiniteSet(a) /\ b \in SUBSET Entry /\ IsFiniteSet(b)
    BY <2>1, <2>2, FS_Subset DEF Against
  <2>5. Used(a \cup b) = Used(a) + Used(b)
    BY <2>3, <2>4, UsedInTwo
  <2>6. PICK c : c = DrawsOf(draws, lot)
    OBVIOUS
  <2>7. PICK d : d = DrawsOf(more, lot)
    OBVIOUS
  <2>8. DrawsOf(draws \cup more, lot) = c \cup d /\ c \cap d = {}
    BY <2>6, <2>7 DEF DrawsOf
  <2>9. IsDraws(c) /\ IsDraws(d)
    BY <2>6, <2>7, DrawnIs
  <2>10. PointsIn(c \cup d) = PointsIn(c) + PointsIn(d)
    BY <2>8, <2>9, PointsOfTwo
  <2>11. Used(a) = PointsIn(c) /\ Used(b) = PointsIn(d)
    BY <2>1, <2>2, <2>6, <2>7, DrawnIs DEF Matches
  <2>12. DrawnFrom(draws \cup more, lot) = PointsIn(c \cup d)
    BY <2>8, DrawnIs, PointsOfTwo
  <2>13. QED
    BY <2>3, <2>5, <2>10, <2>11, <2>12
<1>2. Used(own \cup rows) = Used(own) + Used(rows)
  BY UsedInTwo
<1>3. PointsIn(draws \cup more) = PointsIn(draws) + PointsIn(more)
  BY PointsOfTwo
<1>4. QED
  BY <1>1, <1>2, <1>3 DEF Matches

\* A page every statement of which saw d.
LEMMA SteadySaw ==
  ASSUME PageInv, NEW d, Steady(d), ShownUnbooked # {}
  PROVE  /\ Sound(d) /\ Shown
         /\ page.saw["lots"] = d /\ page.saw["consumed"] = d /\ page.saw["legacy"] = d
         /\ PreviewMonths = MonthsIn(d) /\ ShownUnbooked = Unbooked(d, page.trip)
<1>1. Shown
  BY DEF Steady
<1>2. \A x \in {"stays", "links", "used", "contracts", "summaries"} :
        x \in Reading /\ Sound(page.saw[x])
  BY <1>1, ShownSaw
<1>3. \A x \in {"months", "lots", "consumed", "legacy"} : x \in Reading
  BY <1>1, ShownSaw
<1>4. \A x \in {"stays", "links", "months", "lots", "consumed", "legacy"} : page.saw[x] = d
  BY <1>2, <1>3 DEF Steady
<1>5. Sound(d)
  BY <1>2, <1>4
<1>6. PreviewMonths = MonthsIn(d)
  BY <1>4 DEF PreviewMonths
<1>7. ShownUnbooked = Unbooked(d, page.trip)
  BY <1>4 DEF ShownUnbooked, ShownStays, ShownBooked, Unbooked
<1>8. QED
  BY <1>1, <1>4, <1>5, <1>6, <1>7

(***************************************************************************)
(* The balances a booking works with are those of a preview whose draws    *)
(* match its rows, whichever way each of them sums up the ledger.          *)
(***************************************************************************)
LEMMA SameBalances ==
  ASSUME PageInv, NEW d, Steady(d), ShownUnbooked # {},
         NEW own \in SUBSET Entry, IsFiniteSet(own), own \cap d.entries = {},
         NEW draws, IsDraws(draws), Matches(own, draws)
  PROVE  /\ Left(d, own) = PreviewLeft(draws)
         /\ Available(d, own) = PreviewAvailable(draws)
<1>1. /\ Sound(d) /\ page.saw["lots"] = d /\ page.saw["consumed"] = d /\ page.saw["legacy"] = d
  BY SteadySaw
<1>2. d.entries \in SUBSET Entry /\ IsFiniteSet(d.entries)
  BY <1>1 DEF Sound, DB
<1>3. ASSUME NEW lot \in LotsIn(d)
      PROVE  Balance(d, own, lot)
               = Allotted(Against(LotRows(d), lot)) - Used(Against(d.entries, lot))
                   - DrawnFrom(draws, lot)
  <2>1. PICK a : a = Against(d.entries, lot)
    OBVIOUS
  <2>2. PICK b : b = Against(own, lot)
    OBVIOUS
  <2>3. Against(d.entries \cup own, lot) = a \cup b /\ a \cap b = {}
    BY <2>1, <2>2 DEF Against
  <2>4. a \in SUBSET Entry /\ IsFiniteSet(a) /\ b \in SUBSET Entry /\ IsFiniteSet(b)
    BY <1>2, <2>1, <2>2, FS_Subset DEF Against
  <2>5. Used(a \cup b) = Used(a) + Used(b) /\ Used(a) \in Nat /\ Used(b) \in Nat
    BY <2>3, <2>4, UsedInTwo, RowSumType
  <2>6. Used(b) = DrawnFrom(draws, lot)
    BY <2>2 DEF Matches
  <2>7. PICK g \in Nat : g = Allotted(Against(LotRows(d), lot))
    <3>1. Against(LotRows(d), lot) \in SUBSET d.entries
      BY DEF Against, LotRows
    <3>2. QED
      BY <1>1, <3>1, PartSums
  <2>8. Balance(d, own, lot) = g - Used(a \cup b)
    BY <2>3, <2>7 DEF Balance
  <2>9. QED
    BY <2>1, <2>5, <2>6, <2>7, <2>8
<1>4. Left(d, own) = PreviewLeft(draws)
  BY <1>1, <1>3 DEF Left, PreviewLeft
<1>5. Available(d, own) = PreviewAvailable(draws)
  <2>1. PICK a : a = {e \in d.entries : e.contract # NoContract}
    OBVIOUS
  <2>2. PICK b : b = {e \in d.entries : e.contract = NoContract}
    OBVIOUS
  <2>3. d.entries = a \cup b /\ a \cap b = {}
    BY <2>1, <2>2
  <2>4. a \in SUBSET Entry /\ IsFiniteSet(a) /\ b \in SUBSET Entry /\ IsFiniteSet(b)
    BY <1>2, <2>1, <2>2, FS_Subset
  <2>5. Used(d.entries) = Used(a) + Used(b) /\ Used(a) \in Nat /\ Used(b) \in Nat
    BY <2>3, <2>4, UsedInTwo, RowSumType
  <2>6. Used(d.entries \cup own) = Used(d.entries) + Used(own) /\ Used(own) \in Nat
    BY <1>2, UsedInTwo, RowSumType
  <2>7. PICK g \in Nat : g = Allotted(LotRows(d))
    <3>1. LotRows(d) \in SUBSET d.entries
      BY DEF LotRows
    <3>2. QED
      BY <1>1, <3>1, PartSums
  <2>8. Available(d, own) = g - Used(d.entries \cup own)
    BY <2>7 DEF Available
  <2>9. PreviewAvailable(draws) = g - Used(a) - PointsIn(draws) - Used(b)
    BY <1>1, <2>1, <2>2, <2>7 DEF PreviewAvailable, PointsIn
  <2>10. Used(own) = PointsIn(draws)
    BY DEF Matches
  <2>11. QED
    BY <2>5, <2>6, <2>8, <2>9, <2>10
<1>6. QED
  BY <1>4, <1>5

\* The stays of the page and of a booking of its trip that saw the same.
LEMMA SameStays ==
  ASSUME PageInv, LoopInv, NEW r \in Requests, pc[r] = "fund", ForPage(r),
         Steady(tx[r].snap), ShownUnbooked # {}
  PROVE  /\ ShownUnbooked = Unbooked(tx[r].snap, job[r].trip)
         /\ Reached(r) \subseteq ShownUnbooked
         /\ \A e \in tx[r].rows : e.id[2] \in Reached(r)
         /\ tx[r].rows \in SUBSET Entry /\ IsFiniteSet(tx[r].rows)
         /\ tx[r].rows \cap tx[r].snap.entries = {}
<1>1. ShownUnbooked = Unbooked(tx[r].snap, job[r].trip)
  BY SteadySaw DEF ForPage
<1>2. /\ PaidInv /\ UsageInv /\ StaysPaid(r) /\ TxInv /\ Apart(r) /\ Underway(r)
  BY DEF LoopInv, KnownInv, UsageInv, PaidInv, LinkInv, Underway
<1>3. tx[r].rows \in SUBSET Entry /\ IsFiniteSet(tx[r].rows)
  BY <1>2, RowsPay DEF Rows
<1>4. \A e \in tx[r].rows : e.id[1] = r /\ <<e.id[2], e.id>> \in tx[r].links
  BY <1>2 DEF TxInv, TxOrder, OwnRows
<1>5. \A k, i : <<k, i>> \in tx[r].links => k \in Reached(r)
  <2>1. SUFFICES ASSUME NEW k, NEW i, <<k, i>> \in tx[r].links
                 PROVE  \E l \in tx[r].links : k = l[1]
    BY DEF Reached
  <2>2. QED
    BY <2>1
<1>6. QED
  BY <1>1, <1>2, <1>3, <1>4, <1>5 DEF StaysPaid, Apart

\* The rows a booking has inserted for the first i stays of the list.
Upto(r, i) == {e \in tx[r].rows : Place(ShownUnbooked, e.id[2]) < i}

\* One more stay of the list adds its rows to those before.
LEMMA UptoTurn ==
  ASSUME PageInv, LoopInv, NEW r \in Requests, pc[r] = "fund", ForPage(r),
         Steady(tx[r].snap), ShownUnbooked # {}, NEW i \in 1..Len(Listed)
  PROVE  LET s == Listed[i] IN
         /\ s \in ShownUnbooked /\ Place(ShownUnbooked, s) = i - 1
         /\ Upto(r, i - 1) = Earlier(r, s)
         /\ Upto(r, i) = Upto(r, i - 1) \cup RowsFor(r, s)
         /\ Upto(r, i - 1) \cap RowsFor(r, s) = {}
<1>1. PICK S : S = ShownUnbooked
  OBVIOUS
<1>2. S \in SUBSET Stays /\ IsFiniteSet(S)
  BY <1>1, ShownStaysType DEF Steady
<1>3. PICK s : s = Listed[i]
  OBVIOUS
<1>4. s \in S /\ Place(S, s) = i - 1 /\ i \in Nat
  <2>1. /\ Len(Listed) \in Nat /\ Listed \in [1..Len(Listed) -> S]
        /\ \A j \in 1..Len(Listed) : Place(S, Listed[j]) = j - 1
    BY <1>1, ListedAll DEF Steady
  <2>2. QED
    BY <1>3, <2>1
<1>5. \A e \in tx[r].rows : e.id[2] \in S
  BY <1>1, SameStays
<1>6. /\ \A u \in S : Place(S, u) \in Nat
      /\ \A u \in S : ListedBefore(u, s) <=> Place(S, u) < i - 1
      /\ \A u \in S : Place(S, u) = i - 1 => u = s
  BY <1>2, <1>4, Places
<1>7. Upto(r, i - 1) = Earlier(r, s)
  BY <1>1, <1>5, <1>6 DEF Upto, Earlier
<1>8. \A u \in S : Place(S, u) < i <=> Place(S, u) < i - 1 \/ u = s
  BY <1>4, <1>6
<1>9. Upto(r, i) = Upto(r, i - 1) \cup RowsFor(r, s)
  BY <1>1, <1>5, <1>8 DEF Upto, RowsFor
<1>10. Upto(r, i - 1) \cap RowsFor(r, s) = {}
  BY <1>1, <1>4 DEF Upto, RowsFor
<1>11. QED
  BY <1>1, <1>3, <1>4, <1>7, <1>9, <1>10

\* The turns one by one.
LEMMA TurnsAre ==
  ASSUME PageInv, Shown, ShownUnbooked # {}
  PROVE  /\ \A i \in 0..Len(Listed) : Deciding(Turns[i], i)
         /\ Turns[0] = Undecided
         /\ \A i \in 1..Len(Listed) : Turns[i] = Decide(Turns[i - 1], Listed[i])
<1>1. AreTurns(Turns) /\ \A i \in 0..Len(Listed) : Deciding(Turns[i], i)
  BY TurnsExist
<1>2. Len(Listed) \in Nat
  BY ListedAll
<1>3. ASSUME NEW i \in 0..Len(Listed)
      PROVE  Turns[i] = IF i = 0 THEN Undecided ELSE Decide(Turns[i - 1], Listed[i])
  <2>1. PICK after : after = Turns
    OBVIOUS
  <2>2. QED
    BY <1>1, <2>1 DEF AreTurns
<1>4. QED
  BY <1>1, <1>2, <1>3

\* With matching draws, a booking can fund what the preview can draw, and
\* draws what the preview draws.
LEMMA SameDecision ==
  ASSUME PageInv, NEW d, Steady(d), ShownUnbooked # {},
         NEW own \in SUBSET Entry, IsFiniteSet(own), own \cap d.entries = {},
         NEW draws, IsDraws(draws), Matches(own, draws), NEW s
  PROVE  /\ FundedOn(d, own, s) <=> CanDraw(draws, s)
         /\ DrawnOn(d, own, s)
              = AllocateStayPoints(PreviewMonths, PreviewLeft(draws), CheckIn[s], Price[s])
<1>1. Left(d, own) = PreviewLeft(draws) /\ Available(d, own) = PreviewAvailable(draws)
  BY SameBalances
<1>2. PreviewMonths = MonthsIn(d)
  BY SteadySaw
<1>3. QED
  BY <1>1, <1>2 DEF FundedOn, DrawnOn, CanDraw

\* Matching so far, a booking and a preview still match after one more stay.
LEMMA TurnMatches ==
  ASSUME PageInv, LoopInv, NEW r \in Requests, pc[r] = "fund", ForPage(r),
         Steady(tx[r].snap), ShownUnbooked # {}, NEW i \in 1..Len(Listed),
         Listed[i] \in Reached(r), NEW b, Deciding(b, i - 1), b.short = {},
         Matches(Upto(r, i - 1), b.draws)
  PROVE  /\ Decide(b, Listed[i]).short = {}
         /\ Matches(Upto(r, i), Decide(b, Listed[i]).draws)
<1>1. PICK s : s = Listed[i]
  OBVIOUS
<1>2. PICK own : own = Upto(r, i - 1)
  OBVIOUS
<1>3. PICK d : d = tx[r].snap
  OBVIOUS
<1>4. /\ s \in ShownUnbooked /\ Place(ShownUnbooked, s) = i - 1 /\ s \in Reached(r)
      /\ own = Earlier(r, s)
      /\ Upto(r, i) = own \cup RowsFor(r, s) /\ own \cap RowsFor(r, s) = {}
  BY <1>1, <1>2, UptoTurn
<1>5. /\ tx[r].rows \in SUBSET Entry /\ IsFiniteSet(tx[r].rows)
      /\ tx[r].rows \cap d.entries = {}
  BY <1>3, SameStays
<1>6. own \in SUBSET Entry /\ IsFiniteSet(own) /\ own \cap d.entries = {}
  <2>1. own \in SUBSET tx[r].rows
    BY <1>2 DEF Upto
  <2>2. QED
    BY <1>5, <2>1, FS_Subset
<1>7. /\ FundedOn(d, own, s)
      /\ RowsFor(r, s) = {UsageRow(r, s, draw) : draw \in DrawnOn(d, own, s)}
  BY <1>3, <1>4 DEF LoopInv, PaidInTurn
<1>8. IsDraws(b.draws) /\ \A x \in b.draws : \E j \in 1..(i - 1) : x.stay = Listed[j]
  BY DEF Deciding
<1>9. PICK left : left = PreviewLeft(b.draws)
  OBVIOUS
<1>10. PICK D : D = AllocateStayPoints(PreviewMonths, left, CheckIn[s], Price[s])
  OBVIOUS
<1>11. CanDraw(b.draws, s) /\ DrawnOn(d, own, s) = D
  BY <1>2, <1>3, <1>6, <1>7, <1>8, <1>9, <1>10, SameDecision
<1>12. PICK more : more = DrawsFor(b.draws, s)
  OBVIOUS
<1>13. more = {[stay |-> s, lot |-> x.lot, rank |-> x.rank, points |-> x.points] : x \in D}
  BY <1>9, <1>10, <1>12 DEF DrawsFor
<1>14. Decide(b, s) = [draws |-> b.draws \cup more, short |-> {}]
  BY <1>11, <1>12 DEF Decide, Deciding
<1>15. Shown
  BY DEF Steady
<1>16. s \in Stays /\ s \in Nat /\ Price[s] \in Int
  <2>1. s \in Stays
    BY <1>4, <1>15, ShownStaysType
  <2>2. QED
    BY <2>1, RowsAssumption
<1>17. /\ IsFiniteSet(DOMAIN left) /\ \A lot \in DOMAIN left : left[lot] \in Int
       /\ DOMAIN left = LotsIn(page.saw["lots"]) /\ LotsIn(page.saw["lots"]) \subseteq Lot
  BY <1>8, <1>9, <1>15, PreviewType
<1>18. /\ IsFiniteSet(D) /\ \A x, y \in D : x.lot = y.lot => x = y
       /\ \A x \in D : x.lot \in DOMAIN left /\ x.points \in Nat \ {0}
  BY <1>10, <1>16, <1>17, DrawsWithinLots
<1>19. ASSUME NEW x \in D
       PROVE  x.rank \in Int
  <2>1. PICK lot \in Candidates(PreviewMonths, left, CheckIn[s]) :
          x.rank = Rank(PreviewMonths, CheckIn[s], lot)
    BY <1>10 DEF AllocateStayPoints
  <2>2. QED
    BY <2>1 DEF Candidates, Eligible
<1>20. /\ RowsFor(r, s) \in SUBSET Entry /\ IsFiniteSet(RowsFor(r, s)) /\ IsDraws(more)
       /\ Matches(RowsFor(r, s), more)
  <2>1. RowsFor(r, s) = {UsageRow(r, s, x) : x \in D}
    BY <1>7, <1>11
  <2>2. \A x \in D : /\ x.lot \in LotsIn(page.saw["lots"]) /\ x.lot \in Lot
                     /\ x.rank \in Int /\ x.points \in Nat \ {0}
    BY <1>17, <1>18, <1>19
  <2>3. IsFiniteSet(D) /\ \A x, y \in D : x.lot = y.lot => x = y
    BY <1>18
  <2>4. s \in ShownUnbooked /\ s \in Nat
    BY <1>4, <1>16
  <2>5. PICK rows : rows = {UsageRow(r, s, x) : x \in D}
    OBVIOUS
  <2>6. /\ rows \in SUBSET Entry /\ IsFiniteSet(rows)
        /\ IsDraws(more) /\ Matches(rows, more)
    BY <1>13, <2>2, <2>3, <2>4, <2>5, RowsMatch
  <2>7. QED
    BY <2>1, <2>5, <2>6
<1>21. b.draws \cap more = {}
  <2>1. \A x \in more : x.stay = s
    BY <1>13
  <2>2. \A j \in 1..(i - 1) : Listed[j] # s
    <3>1. \A j \in 1..Len(Listed) : Place(ShownUnbooked, Listed[j]) = j - 1
      BY <1>15, ListedAll
    <3>2. Len(Listed) \in Nat
      BY <1>15, ListedAll
    <3>3. QED
      BY <1>4, <3>1, <3>2
  <2>3. QED
    BY <1>8, <2>1, <2>2
<1>22. Matches(own \cup RowsFor(r, s), b.draws \cup more)
  BY <1>2, <1>4, <1>6, <1>8, <1>20, <1>21, MatchesAdd
<1>23. QED
  BY <1>1, <1>4, <1>14, <1>22

(***************************************************************************)
(* While the booking has funded every stay the preview has come to, both   *)
(* have drawn the same.                                                    *)
(***************************************************************************)
LEMMA TurnsMatch ==
  ASSUME PageInv, LoopInv, NEW r \in Requests, pc[r] = "fund", ForPage(r),
         Steady(tx[r].snap), ShownUnbooked # {}, NEW k \in 0..Len(Listed),
         \A j \in 1..k : Listed[j] \in Reached(r)
  PROVE  Turns[k].short = {} /\ Matches(Upto(r, k), Turns[k].draws)
<1> DEFINE G == {i \in 0..k : Turns[i].short = {} /\ Matches(Upto(r, i), Turns[i].draws)}
<1>1. Shown
  BY DEF Steady
<1>2. Len(Listed) \in Nat /\ k \in Nat
  BY <1>1, ListedAll
<1>3. /\ \A i \in 0..Len(Listed) : Deciding(Turns[i], i)
      /\ Turns[0] = Undecided
      /\ \A i \in 1..Len(Listed) : Turns[i] = Decide(Turns[i - 1], Listed[i])
  BY <1>1, <1>2, TurnsAre
<1>4. 0 \in G
  <2>1. Upto(r, 0) = {}
    <3>1. \A e \in tx[r].rows : e.id[2] \in ShownUnbooked
      BY SameStays
    <3>2. \A s \in ShownUnbooked : Place(ShownUnbooked, s) \in Nat
      BY <1>1, ShownStaysType, Places
    <3>3. QED
      BY <3>1, <3>2 DEF Upto
  <2>2. Matches({}, {})
    <3>1. Against({}, 0) = {} /\ \A lot : Against({}, lot) = {} /\ DrawsOf({}, lot) = {}
      BY DEF Against, DrawsOf
    <3>2. Used({}) = 0 /\ PointsIn({}) = 0
      BY SumEmpty DEF Used, PointsIn
    <3>3. IsDraws({})
      BY FS_EmptySet DEF IsDraws
    <3>4. \A lot : DrawnFrom({}, lot) = 0
      BY <3>1, <3>2, <3>3, DrawnIs
    <3>5. QED
      BY <3>1, <3>2, <3>4 DEF Matches
  <2>3. PICK b : b = Turns[0]
    OBVIOUS
  <2>4. b.short = {} /\ b.draws = {}
    BY <1>3, <2>3 DEF Undecided
  <2>5. b.short = {} /\ Matches(Upto(r, 0), b.draws)
    BY <2>1, <2>2, <2>4
  <2>6. 0 \in 0..k
    BY <1>2
  <2>7. QED
    BY <2>3, <2>5, <2>6
<1>5. ASSUME NEW i \in 0..k, i = 0 \/ i - 1 \in G
      PROVE  i \in G
  <2>1. CASE i = 0
    BY <1>4, <2>1
  <2>2. CASE i # 0
    <3>1. i \in 1..Len(Listed) /\ i \in 1..k /\ i - 1 \in 0..Len(Listed) /\ i - 1 \in G
      BY <1>2, <1>5, <2>2
    <3>2. PICK b : b = Turns[i - 1]
      OBVIOUS
    <3>3. Deciding(b, i - 1) /\ b.short = {} /\ Matches(Upto(r, i - 1), b.draws)
      BY <1>3, <3>1, <3>2
    <3>4. Listed[i] \in Reached(r)
      BY <3>1
    <3>5. PICK c : c = Decide(b, Listed[i])
      OBVIOUS
    <3>6. c.short = {} /\ Matches(Upto(r, i), c.draws)
      BY <3>1, <3>3, <3>4, <3>5, TurnMatches
    <3>7. Turns[i] = c
      BY <1>3, <3>1, <3>2, <3>5
    <3>8. QED
      BY <3>6, <3>7
  <2>3. QED
    BY <2>1, <2>2
<1>6. 0..k \subseteq G
  <2>1. 0..k \in SUBSET Nat /\ \A i \in 0..k : i = 0 \/ i - 1 \in 0..k
    BY <1>2
  <2> HIDE DEF G
  <2>2. QED
    BY <1>5, <2>1, Induction
<1>7. k \in 0..k
  BY <1>2
<1>8. QED
  BY <1>6, <1>7

\* The lines of the page for a lot are what the preview draws from it.
LEMMA LinesAdd ==
  ASSUME PageInv, Shown, ShownUnbooked # {}, NEW lot
  PROVE  SumOver(FundingLines, {line \in DOMAIN FundingLines : line[1] = lot})
           = DrawnFrom(Decided.draws, lot)
<1>1. PICK draws : draws = Decided.draws
  OBVIOUS
<1>2. IsDraws(draws)
  BY <1>1, DecidedType DEF Deciding
<1> DEFINE lineOf == [d \in draws |-> <<d.lot, d.rank>>]
           lines == {lineOf[d] : d \in draws}
           on(P) == {d \in draws : lineOf[d] \in P}
<1>3. FundingLines = [line \in lines |-> PointsIn(on({line}))]
  <2>1. FundingLines = [line \in {<<d.lot, d.rank>> : d \in draws} |->
                          SumOver([d \in draws |-> d.points],
                                  {d \in draws : <<d.lot, d.rank>> = line})]
    BY <1>1, Zenon DEF FundingLines, PreviewTripFunding
  <2>2. {<<d.lot, d.rank>> : d \in draws} = lines
    OBVIOUS
  <2>3. ASSUME NEW line \in lines
        PROVE  SumOver([d \in draws |-> d.points], {d \in draws : <<d.lot, d.rank>> = line})
                 = PointsIn(on({line}))
    <3>1. {d \in draws : <<d.lot, d.rank>> = line} = on({line})
      OBVIOUS
    <3>2. on({line}) \in SUBSET draws
      OBVIOUS
    <3> HIDE DEF on
    <3>3. QED
      BY <1>2, <3>1, <3>2, PointsOfPart
  <2> HIDE DEF lines, on
  <2>4. QED
    BY <2>1, <2>2, <2>3
<1>4. IsFiniteSet(lines)
  <2>1. IsFiniteSet({lineOf[d] : d \in draws})
    <3> HIDE DEF lineOf
    <3>1. QED
      BY <1>2, ImageFinite DEF IsDraws
  <2>2. QED
    BY <2>1
<1>5. ASSUME NEW P \in SUBSET lines
      PROVE  on(P) \in SUBSET draws /\ IsDraws(on(P)) /\ PointsIn(on(P)) \in Nat
  <2>1. on(P) \in SUBSET draws
    OBVIOUS
  <2> HIDE DEF on
  <2>2. QED
    BY <1>2, <2>1, PointsOfPart
<1>6. \A line \in lines : FundingLines[line] = PointsIn(on({line})) /\ FundingLines[line] \in Nat
  <2>1. \A line \in lines : {line} \in SUBSET lines
    OBVIOUS
  <2> HIDE DEF lines, on
  <2>2. QED
    BY <1>3, <1>5, <2>1
<1> DEFINE G == {P \in SUBSET lines : SumOver(FundingLines, P) = PointsIn(on(P))}
<1>7. {} \in G
  <2>1. on({}) = {}
    OBVIOUS
  <2>2. PointsIn({}) = 0 /\ SumOver(FundingLines, {}) = 0
    BY SumEmpty DEF PointsIn
  <2> HIDE DEF on, lines
  <2>3. QED
    BY <2>1, <2>2
<1>8. ASSUME NEW P \in SUBSET lines, NEW line \in lines \ P, P \in G
      PROVE  P \cup {line} \in G
  <2>1. on(P \cup {line}) = on(P) \cup on({line}) /\ on(P) \cap on({line}) = {}
    OBVIOUS
  <2>2. IsFiniteSet(P)
    BY <1>4, FS_Subset
  <2>3. {line} \in SUBSET lines
    OBVIOUS
  <2> HIDE DEF lines, on
  <2>4. PointsIn(on(P) \cup on({line})) = PointsIn(on(P)) + PointsIn(on({line}))
    BY <1>5, <2>1, <2>3, PointsOfTwo
  <2>5. SumOver(FundingLines, P \cup {line}) = SumOver(FundingLines, P) + FundingLines[line]
    BY <1>6, <2>2, SumAdd
  <2>6. QED
    BY <1>6, <1>8, <2>1, <2>4, <2>5
<1> DEFINE P == {line \in lines : line[1] = lot}
<1>9. P \in G
  <2>1. IsFiniteSet(P) /\ P \in SUBSET lines
    BY <1>4, FS_Subset
  <2>2. \A T \in SUBSET P : \A x \in P \ T : T \in G => T \cup {x} \in G
    BY <1>8
  <2> HIDE DEF P, G
  <2>3. QED
    BY <1>7, <2>1, <2>2, SetInduction
<1>10. on(P) = DrawsOf(draws, lot)
  BY DEF DrawsOf
<1>11. {line \in DOMAIN FundingLines : line[1] = lot} = P
  <2> HIDE DEF lines, on
  <2>1. QED
    BY <1>3
<1>12. SumOver(FundingLines, P) = PointsIn(on(P))
  BY <1>9
<1> HIDE DEF P, on, lines
<1>13. QED
  BY <1>1, <1>2, <1>10, <1>11, <1>12, DrawnIs

(***************************************************************************)
(* A booking that has reached every stay has drawn what the page says.     *)
(***************************************************************************)
LEMMA CommitMatches ==
  ASSUME PageInv, LoopInv, NEW r \in Requests, pc[r] = "fund", ForPage(r),
         Steady(tx[r].snap), ShownUnbooked # {}, ToFund(r) = {}
  PROVE  /\ PreviewTripFunding.fundable
         /\ \A lot \in LotsIn(tx[r].snap) :
              Used(Against(Rows(r), lot)) =
                SumOver(FundingLines, {line \in DOMAIN FundingLines : line[1] = lot})
<1>1. PICK n : n = Len(Listed)
  OBVIOUS
<1>2. Shown
  BY DEF Steady
<1>3. /\ n \in Nat /\ n = Cardinality(ShownUnbooked)
      /\ \A j \in 1..n : Listed[j] \in ShownUnbooked
  BY <1>1, <1>2, ListedAll
<1>4. \A j \in 1..n : Listed[j] \in Reached(r)
  BY <1>3, SameStays DEF ToFund
<1>5. PICK b : b = Decided
  OBVIOUS
<1>6. b.short = {} /\ Matches(Upto(r, n), b.draws)
  <2>1. n \in 0..Len(Listed) /\ \A j \in 1..n : Listed[j] \in Reached(r)
    BY <1>1, <1>3, <1>4
  <2>2. Turns[n].short = {} /\ Matches(Upto(r, n), Turns[n].draws)
    BY <2>1, TurnsMatch
  <2>3. QED
    BY <1>1, <1>5, <2>2, DecidedIs
<1>7. Upto(r, n) = Rows(r)
  <2>1. \A e \in tx[r].rows : e.id[2] \in ShownUnbooked
    BY SameStays
  <2>2. \A s \in ShownUnbooked : Place(ShownUnbooked, s) < n
    BY <1>2, <1>3, ShownStaysType, Places
  <2>3. QED
    BY <2>1, <2>2 DEF Upto, Rows
<1>8. PreviewTripFunding.fundable
  BY <1>5, <1>6 DEF PreviewTripFunding
<1>9. \A lot : Used(Against(Rows(r), lot)) =
                 SumOver(FundingLines, {line \in DOMAIN FundingLines : line[1] = lot})
  <2>1. ASSUME NEW lot
        PROVE  Used(Against(Rows(r), lot)) =
                 SumOver(FundingLines, {line \in DOMAIN FundingLines : line[1] = lot})
    <3>1. Used(Against(Rows(r), lot)) = DrawnFrom(b.draws, lot)
      BY <1>6, <1>7 DEF Matches
    <3>2. QED
      BY <1>2, <1>5, <3>1, LinesAdd
  <2>2. QED
    BY <2>1
<1>10. QED
  BY <1>8, <1>9

\* A booking is refused by the turn of its loop for a stay it cannot fund.
LEMMA OnlyFundStayRefuses ==
  ASSUME TypeInv, NEW r \in Requests, pc[r] = "fund", pc'[r] = "insufficient", [Next]_vars
  PROVE  \E s \in ToFund(r) : /\ \A t \in ToFund(r) \ {s} : ListedBefore(s, t)
                              /\ ~CanFund(r, s)
<1>1. pc[r] # pc'[r] /\ ~Answered(r)
  BY DEF Answered, Answers
<1>2. PICK q \in Requests : Step(q) \/ Abort(q)
  BY <1>1 DEF Next, Idle, vars
<1>3. Moves(q)
  BY <1>2, StepMoves
<1>4. q = r
  BY <1>1, <1>3 DEF Moves
<1>5. pc \in [Requests -> PcType]
  BY DEF TypeInv, TypeOK, PcType
<1>6. \A a : Answer(r, a) => pc'[r] = a
  BY <1>5 DEF Answer
<1>7. ~Retry(r)
  BY <1>6 DEF Retry
<1>8. ~LockStep(r)
  <2>1. SUFFICES ASSUME LockStep(r)
                 PROVE  FALSE
    OBVIOUS
  <2>2. PICK m \in QuietMoves : Quiet(r, m[1], m[2])
    BY <1>6, <1>7, <2>1, LockSteps
  <2>3. pc'[r] = m[2]
    BY <2>2, QuietTx
  <2>4. QED
    BY <2>3 DEF QuietMoves
<1>9. ~BookCommit(r)
  <2>1. BookCommit(r) => pc' = [pc EXCEPT ![r] = "ok"]
    BY <1>7, Zenon DEF BookCommit
  <2>2. QED
    BY <1>5, <2>1
<1>10. ~Finishes(r)
  BY <1>6, FinishMoves
<1>11. ~(BookBegin(r) \/ DeleteEntries(r) \/ ImportCheck(r) \/ EditEntry(r) \/ DeleteContract(r))
  BY Zenon DEF BookBegin, DeleteEntries, ImportCheck, EditEntry, DeleteContract
<1>12. FundStay(r)
  BY <1>2, <1>4, <1>8, <1>9, <1>10, <1>11 DEF Step, LockStep, Finishes
<1>13. PICK s \in NextStay(r) : ~CanFund(r, s)
  BY <1>1, <1>7, <1>12, FundCases
<1>14. QED
  BY <1>13 DEF NextStay

(***************************************************************************)
(* The stay a booking is refused for is the one the page names.            *)
(***************************************************************************)
LEMMA RefusalMatches ==
  ASSUME PageInv, LoopInv, NEW r \in Requests, pc[r] = "fund", ForPage(r),
         Steady(tx[r].snap), ShownUnbooked # {}, NEW s \in ToFund(r),
         \A t \in ToFund(r) \ {s} : ListedBefore(s, t), ~CanFund(r, s)
  PROVE  Decided.short = {s}
<1>1. Shown /\ PaidInv /\ PaidInTurn(r)
  BY DEF Steady, LoopInv, KnownInv, UsageInv
<1>2. PICK n : n = Len(Listed)
  OBVIOUS
<1>3. PICK S : S = ShownUnbooked
  OBVIOUS
<1>4. /\ n \in Nat /\ n = Cardinality(S) /\ S \in SUBSET Stays /\ IsFiniteSet(S)
      /\ \A j \in 1..n : Listed[j] \in S /\ Place(S, Listed[j]) = j - 1
  BY <1>1, <1>2, <1>3, ListedAll, ShownStaysType
<1>5. /\ \A u \in S : Place(S, u) \in Nat /\ Place(S, u) < n
      /\ \A u, v \in S : ListedBefore(u, v) <=> Place(S, u) < Place(S, v)
      /\ \A u, v \in S : Place(S, u) = Place(S, v) => u = v
  BY <1>4, Places
<1>6. S = Unbooked(tx[r].snap, job[r].trip) /\ s \in S
  BY <1>3, SameStays DEF ToFund
<1>7. PICK k \in 1..n : k = Place(S, s) + 1
  BY <1>4, <1>5, <1>6
<1>8. Listed[k] = s
  BY <1>4, <1>5, <1>6, <1>7
<1>9. /\ \A u \in S : ListedBefore(u, s) => u \in Reached(r)
      /\ Earlier(r, s) = tx[r].rows
  BY <1>1, <1>6, ReachedFirst
<1>10. \A j \in 1..(k - 1) : Listed[j] \in Reached(r)
  <2>1. SUFFICES ASSUME NEW j \in 1..(k - 1)
                 PROVE  Listed[j] \in Reached(r)
    OBVIOUS
  <2>2. j \in 1..n /\ j - 1 < k - 1
    BY <1>4, <1>7
  <2>3. QED
    BY <1>4, <1>5, <1>6, <1>7, <1>9, <2>2
<1>11. PICK b : b = Turns[k - 1]
  OBVIOUS
<1>12. k - 1 \in 0..n
  BY <1>4, <1>7
<1>13. /\ b.short = {} /\ Matches(Upto(r, k - 1), b.draws) /\ Deciding(b, k - 1)
       /\ \A i \in 1..n : Turns[i] = Decide(Turns[i - 1], Listed[i])
  BY <1>1, <1>2, <1>10, <1>11, <1>12, TurnsMatch, TurnsAre
<1>14. Upto(r, k - 1) = tx[r].rows
  BY <1>2, <1>7, <1>8, <1>9, UptoTurn
<1>15. ~CanDraw(b.draws, s)
  <2>1. ~FundedOn(tx[r].snap, tx[r].rows, s)
    BY DEF CanFund, FundedOn
  <2>2. /\ tx[r].rows \in SUBSET Entry /\ IsFiniteSet(tx[r].rows)
        /\ tx[r].rows \cap tx[r].snap.entries = {}
    BY SameStays
  <2>3. IsDraws(b.draws) /\ Matches(tx[r].rows, b.draws)
    BY <1>13, <1>14 DEF Deciding
  <2>4. QED
    BY <2>1, <2>2, <2>3, SameDecision
<1> DEFINE G == {i \in 0..n : i >= k => Turns[i].short = {s}}
<1>16. ASSUME NEW i \in 0..n, i = 0 \/ i - 1 \in G
       PROVE  i \in G
  <2>1. CASE i < k
    BY <1>4, <1>7, <2>1
  <2>2. CASE i = k
    <3>1. Decide(b, s).short = {s}
      <4>1. Decide(b, s) = [b EXCEPT !.short = {s}]
        BY <1>13, <1>15 DEF Decide
      <4>2. b = [draws |-> b.draws, short |-> b.short]
        BY <1>13 DEF Deciding
      <4>3. QED
        BY <4>1, <4>2
    <3>2. Turns[i] = Decide(b, s)
      BY <1>7, <1>8, <1>11, <1>13, <2>2
    <3>3. QED
      BY <2>2, <3>1, <3>2
  <2>3. CASE i > k
    <3>1. i \in 1..n /\ i - 1 \in 0..n /\ i - 1 >= k /\ i # 0
      BY <1>4, <1>7, <2>3
    <3>2. PICK c : c = Turns[i - 1]
      OBVIOUS
    <3>3. c.short = {s}
      BY <1>16, <3>1, <3>2
    <3>4. Turns[i] = Decide(c, Listed[i])
      BY <1>13, <3>1, <3>2
    <3>5. Turns[i] = c
      BY <3>3, <3>4 DEF Decide
    <3>6. QED
      BY <3>3, <3>5
  <2>4. QED
    BY <1>4, <1>7, <2>1, <2>2, <2>3
<1>17. n \in G
  <2>1. 0..n \in SUBSET Nat /\ \A i \in 0..n : i = 0 \/ i - 1 \in 0..n
    BY <1>4
  <2> HIDE DEF G
  <2>2. 0..n \subseteq G
    BY <1>16, <2>1, Induction
  <2>3. QED
    BY <1>4, <2>2
<1>18. n >= k
  BY <1>4, <1>7
<1>19. QED
  BY <1>2, <1>17, <1>18, DecidedIs

(***************************************************************************)
(* What a page says booking would do is what booking then does: a booking  *)
(* of its trip that starts from the tables the page showed commits just    *)
(* the draws of its lines, lot by lot, and is refused just for the stay it *)
(* names.  Whatever others do to the tables meanwhile: a booking works on  *)
(* its snapshot, and draws its stays in the order the page lists them.     *)
(***************************************************************************)
THEOREM PreviewsAreExact == FundingSpec => PreviewIsWhatBookingDoes
<1> DEFINE I == NumbersInv /\ LoopInv
<1>1. FundingInit => I
  BY NumbersInit, LoopInit DEF FundingInit
<1>2. I /\ [FundingNext]_fundingVars => I'
  <2>1. SUFFICES ASSUME I, [FundingNext]_fundingVars
                 PROVE  NumbersInv' /\ LoopInv'
    OBVIOUS
  <2>2. NumbersInv'
    BY <2>1, NumbersNext
  <2>3. [Next]_vars
    BY <2>1, FundingSteps
  <2>4. LoopInv'
    BY <2>1, <2>3, LoopNext
  <2>5. QED
    BY <2>2, <2>4
<1>3. I /\ [FundingNext]_fundingVars =>
        [\A r \in Requests :
           pc[r] = "fund" /\ ForPage(r) /\ Steady(tx[r].snap) /\ ShownUnbooked # {} =>
             /\ pc'[r] = "ok" =>
                  /\ PreviewTripFunding.fundable
                  /\ \A lot \in LotsIn(tx[r].snap) :
                       Used(Against(Rows(r), lot)) =
                         SumOver(FundingLines, {line \in DOMAIN FundingLines : line[1] = lot})
             /\ pc'[r] = "insufficient" =>
                  \A s \in ToFund(r) :
                    (\A u \in ToFund(r) \ {s} : ListedBefore(s, u))
                      <=> s \in {short.stay : short \in PreviewTripFunding.short}]_fundingVars
  <2>1. SUFFICES ASSUME I, [FundingNext]_fundingVars,
                        NEW r \in Requests, pc[r] = "fund", ForPage(r),
                        Steady(tx[r].snap), ShownUnbooked # {}
                 PROVE  /\ pc'[r] = "ok" =>
                             /\ PreviewTripFunding.fundable
                             /\ \A lot \in LotsIn(tx[r].snap) :
                                  Used(Against(Rows(r), lot)) =
                                    SumOver(FundingLines,
                                            {line \in DOMAIN FundingLines : line[1] = lot})
                        /\ pc'[r] = "insufficient" =>
                             \A s \in ToFund(r) :
                               (\A u \in ToFund(r) \ {s} : ListedBefore(s, u))
                                 <=> s \in {short.stay : short \in PreviewTripFunding.short}
    OBVIOUS
  <2>2. PageInv /\ LoopInv /\ TypeInv
    BY <2>1 DEF NumbersInv, TablesInv, LinkInv, LockInv
  <2>3. [Next]_vars
    BY <2>1, FundingSteps
  <2>4. CASE pc'[r] = "ok"
    <3>1. ToFund(r) = {}
      BY <2>1, <2>2, <2>3, <2>4, OnlyCommitBooks DEF BookCommit
    <3>2. QED
      BY <2>1, <2>2, <2>4, <3>1, CommitMatches
  <2>5. CASE pc'[r] = "insufficient"
    <3>1. PICK s \in ToFund(r) : /\ \A t \in ToFund(r) \ {s} : ListedBefore(s, t)
                                 /\ ~CanFund(r, s)
      BY <2>1, <2>2, <2>3, <2>5, OnlyFundStayRefuses
    <3>2. Decided.short = {s}
      BY <2>1, <2>2, <3>1, RefusalMatches
    <3>3. {short.stay : short \in PreviewTripFunding.short} = {s}
      <4>1. PICK b : b = Decided
        OBVIOUS
      <4>2. PreviewTripFunding.short = {[stay |-> u, by |-> ShortBy(b.draws, u)] : u \in b.short}
        BY <4>1 DEF PreviewTripFunding
      <4>3. PreviewTripFunding.short = {[stay |-> s, by |-> ShortBy(b.draws, s)]}
        BY <3>2, <4>1, <4>2
      <4>4. QED
        BY <4>3
    <3>4. ToFund(r) \subseteq Stays
      <4>1. ToFund(r) \subseteq ShownUnbooked
        BY <2>1, <2>2, SameStays DEF ToFund
      <4>2. QED
        BY <2>1, <2>2, <4>1, ShownStaysType DEF Steady
    <3>5. ASSUME NEW t \in ToFund(r), \A u \in ToFund(r) \ {t} : ListedBefore(t, u)
          PROVE  t = s
      BY <3>1, <3>4, <3>5, StayOrder
    <3>6. QED
      BY <2>5, <3>1, <3>3, <3>5
  <2>6. QED
    BY <2>4, <2>5
<1>4. QED
  BY <1>1, <1>2, <1>3, PTL DEF FundingSpec, PreviewIsWhatBookingDoes

=============================================================================
