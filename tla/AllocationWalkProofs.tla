-------------------------- MODULE AllocationWalkProofs --------------------------
(***************************************************************************)
(* The loops of AllocateStayPoints proved: whatever the lots, the draws    *)
(* and the order they are listed in, the walk returns what Allocation      *)
(* says in closed form.                                                    *)
(***************************************************************************)
EXTENDS AllocationWalk, AllocationProofs

-----------------------------------------------------------------------------
(* The call. *)

\* What the lots have left when the call begins, and the lots among them the
\* stay can draw from.
Left == Remaining(in)
Wanted == Candidates(in.month, Left, in.checkIn)
Comes(a, b) == DrawnBefore(in.month, in.checkIn, a, b)
NeedFor(lot) == NeedAt(in.month, Left, in.checkIn, in.points, lot)

\* The arguments never change.
LEMMA SameCall ==
  ASSUME in' = in
  PROVE  /\ Left' = Left /\ Wanted' = Wanted
         /\ \A a, b : Comes(a, b)' <=> Comes(a, b)
         /\ \A lot : NeedFor(lot)' = NeedFor(lot)
BY DEF Left, Wanted, Comes, NeedFor

(***************************************************************************)
(* Each lot of the list has a whole number of points left.                 *)
(***************************************************************************)
LEMMA LeftType ==
  ASSUME in \in Inputs
  PROVE  /\ in.lots \in Seq(PointRow) /\ in.points \in Int
         /\ DOMAIN in.month \subseteq Int /\ (\A c \in DOMAIN in.month : in.month[c] \in Int)
         /\ in.checkIn.year \in Int /\ in.checkIn.month \in Int
         /\ Left \in [DOMAIN Left -> Int] /\ IsFiniteSet(DOMAIN Left)
         /\ DOMAIN Left = {LotOf(row) : row \in Members(in.lots)}
         /\ \A i \in 1..Len(in.lots) : LotOf(in.lots[i]) \in DOMAIN Left
         /\ \A lot \in DOMAIN Left :
              /\ \E i \in 1..Len(in.lots) : lot = LotOf(in.lots[i])
              /\ lot = [contract |-> lot.contract, useYear |-> lot.useYear]
              /\ lot.contract \in Int /\ lot.useYear \in Int
<1>1. /\ in.lots \in Seq(PointRow) /\ in.consumed \in Seq(PointRow) /\ in.points \in Int
      /\ DOMAIN in.month \subseteq Int /\ (\A c \in DOMAIN in.month : in.month[c] \in 1..12)
      /\ in.checkIn.year \in Int /\ in.checkIn.month \in 1..12
  BY InputsAssumption
<1>2. DOMAIN Left = {LotOf(row) : row \in Members(in.lots)}
  BY DEF Left, Remaining
<1>3. Members(in.lots) = {in.lots[i] : i \in 1..Len(in.lots)} /\ Members(in.lots) \subseteq PointRow
  BY <1>1 DEF Members
<1>4. \A lot \in DOMAIN Left : \E i \in 1..Len(in.lots) : lot = LotOf(in.lots[i])
  BY <1>2, <1>3
<1>5. \A i \in 1..Len(in.lots) : LotOf(in.lots[i]) \in DOMAIN Left
  BY <1>2, <1>3
<1>6. IsFiniteSet(DOMAIN Left)
  <2> DEFINE g == [i \in 1..Len(in.lots) |-> LotOf(in.lots[i])]
  <2>1. IsFiniteSet(1..Len(in.lots))
    BY <1>1, FS_Interval
  <2>2. IsFiniteSet({g[i] : i \in 1..Len(in.lots)})
    <3> HIDE DEF g
    <3> QED BY <2>1, ImageFinite
  <2>3. DOMAIN Left = {g[i] : i \in 1..Len(in.lots)}
    BY <1>4, <1>5
  <2>4. QED
    BY <2>2, <2>3
<1>7. ASSUME NEW rows \in Seq(PointRow), NEW lot
      PROVE  RowSum(rows, lot) \in Nat
  <2> DEFINE f == [i \in DOMAIN rows |-> rows[i].points]
             S == {i \in DOMAIN rows : LotOf(rows[i]) = lot}
  <2>1. DOMAIN rows = 1..Len(rows) /\ IsFiniteSet(1..Len(rows)) /\ S \in SUBSET (1..Len(rows))
    BY FS_Interval
  <2>2. IsFiniteSet(S)
    BY <2>1, FS_Subset
  <2>3. \A i \in S : f[i] \in Nat
    <3>1. \A i \in 1..Len(rows) : rows[i] \in PointRow
      OBVIOUS
    <3>2. \A i \in S : f[i] = rows[i].points /\ rows[i] \in PointRow
      BY <2>1, <3>1
    <3> HIDE DEF f, S
    <3>3. QED
      BY <3>2 DEF PointRow
  <2>4. SumOver(f, S) \in Nat
    <3> HIDE DEF f, S
    <3> QED BY <2>2, <2>3, SumType
  <2>5. QED
    BY <2>4 DEF RowSum
<1>8. ASSUME NEW lot \in DOMAIN Left
      PROVE  Left[lot] \in Int
  <2>1. Left[lot] = RowSum(in.lots, lot) - RowSum(in.consumed, lot)
    BY <1>2 DEF Left, Remaining
  <2>2. QED
    BY <1>1, <1>7, <2>1
<1>9. Left = [lot \in DOMAIN Left |-> Left[lot]]
  BY DEF Left, Remaining
<1>10. Left \in [DOMAIN Left -> Int]
  BY <1>8, <1>9
<1>11. \A lot \in DOMAIN Left :
         /\ lot = [contract |-> lot.contract, useYear |-> lot.useYear]
         /\ lot.contract \in Int /\ lot.useYear \in Int
  <2> TAKE lot \in DOMAIN Left
  <2>1. PICK i \in 1..Len(in.lots) : lot = LotOf(in.lots[i])
    BY <1>4
  <2>2. in.lots[i] \in PointRow
    BY <1>1
  <2>3. QED
    BY <2>1, <2>2 DEF LotOf, PointRow
<1>12. \A c \in DOMAIN in.month : in.month[c] \in Int
  <2> TAKE c \in DOMAIN in.month
  <2>1. in.month[c] \in 1..12
    BY <1>1
  <2>2. QED
    BY <2>1
<1>13. in.checkIn.month \in Int
  BY <1>1
<1>14. QED
  BY <1>1, <1>2, <1>4, <1>5, <1>6, <1>10, <1>11, <1>12, <1>13, Zenon

(***************************************************************************)
(* The candidates are finitely many, have something left and are drawn in  *)
(* a strict total order.                                                   *)
(***************************************************************************)
LEMMA WantedFacts ==
  ASSUME in \in Inputs
  PROVE  /\ Wanted \in SUBSET DOMAIN Left /\ IsFiniteSet(Wanted)
         /\ \A lot \in DOMAIN Left :
              lot \in Wanted <=> Left[lot] > 0 /\ Eligible(in.month, in.checkIn, lot)
         /\ \A lot \in Wanted : /\ Left[lot] \in Nat \ {0}
                                /\ Rank(in.month, in.checkIn, lot) \in Int
         /\ \A a \in Wanted : ~Comes(a, a)
         /\ \A a, b, c \in Wanted : Comes(a, b) /\ Comes(b, c) => Comes(a, c)
         /\ \A a, b \in Wanted : a = b \/ Comes(a, b) \/ Comes(b, a)
<1>1. /\ Left \in [DOMAIN Left -> Int] /\ IsFiniteSet(DOMAIN Left)
      /\ DOMAIN in.month \subseteq Int /\ (\A c \in DOMAIN in.month : in.month[c] \in Int)
      /\ in.checkIn.year \in Int /\ in.checkIn.month \in Int
      /\ \A lot \in DOMAIN Left :
           lot = [contract |-> lot.contract, useYear |-> lot.useYear] /\ lot.useYear \in Int
  BY LeftType
<1>2. \A lot \in DOMAIN Left :
        lot \in Wanted <=> Left[lot] > 0 /\ Eligible(in.month, in.checkIn, lot)
  BY DEF Wanted, Candidates
<1>3. Wanted \in SUBSET DOMAIN Left
  BY DEF Wanted, Candidates
<1>4. \A lot \in Wanted : Left[lot] \in Nat \ {0} /\ Rank(in.month, in.checkIn, lot) \in Int
  BY <1>1, <1>2, <1>3 DEF Eligible
<1>5. IsFiniteSet(Wanted)
  BY <1>1, <1>3, FS_Subset
<1>6. ASSUME NEW a \in Wanted, NEW b \in Wanted, NEW c \in Wanted
      PROVE  /\ ~Comes(a, a)
             /\ Comes(a, b) /\ Comes(b, c) => Comes(a, c)
             /\ a = b \/ Comes(a, b) \/ Comes(b, a)
  <2>1. /\ a \in Candidates(in.month, Left, in.checkIn)
        /\ b \in Candidates(in.month, Left, in.checkIn)
        /\ c \in Candidates(in.month, Left, in.checkIn)
    BY DEF Wanted
  <2>2. \A lot \in DOMAIN Left : Left[lot] \in Int
    BY <1>1
  <2>3. QED
    BY <1>1, <2>1, <2>2, DrawnInOrder DEF Comes
<1>7. QED
  BY <1>2, <1>3, <1>4, <1>5, <1>6

-----------------------------------------------------------------------------
(* The sort. *)

(***************************************************************************)
(* Sorting a list that names each lot once puts the lots in the order they *)
(* are drawn in, and loses none.                                           *)
(***************************************************************************)
LEMMA SortedInOrder ==
  ASSUME in \in Inputs, NEW list \in Seq(Wanted),
         \A i, j \in 1..Len(list) : list[i] = list[j] => i = j
  PROVE  LET s == Sorted(list) IN
         /\ s \in Seq(Wanted) /\ Len(s) = Len(list)
         /\ Members(s) = Members(list)
         /\ \A i, j \in 1..Len(s) : i < j => Comes(s[i], s[j])
<1> DEFINE n == Len(list)
           S == {list[i] : i \in 1..n}
           R == {p \in S \X S : Comes(p[1], p[2])}
           sorts(p) == \A i, j \in 1..n : i < j => ~Comes(list[p[j]], list[p[i]])
<1>1. n \in Nat /\ list \in [1..n -> Wanted] /\ S \subseteq Wanted
  OBVIOUS
<1>2. IsFiniteSet(1..n) /\ Cardinality(1..n) = n
  <2> HIDE DEF n
  <2> QED BY <1>1, FS_Interval
<1>3. IsFiniteSet(S) /\ Cardinality(S) = n
  <2>1. list \in Bijection(1..n, S)
    BY <1>1 DEF Bijection, Injection, IsInjective, Surjection
  <2> HIDE DEF S, n
  <2>2. QED
    BY <1>2, <2>1, FS_Bijection, Fun_ExistsBij
<1>4. \A a, b \in S : <<a, b>> \in R <=> Comes(a, b)
  OBVIOUS
<1>5. Orders(R, S)
  <2>1. \A a, b, c \in S : /\ ~Comes(a, a)
                           /\ Comes(a, b) /\ Comes(b, c) => Comes(a, c)
                           /\ a = b \/ Comes(a, b) \/ Comes(b, a)
    BY <1>1, WantedFacts
  <2> HIDE DEF S, R
  <2>2. \A a \in S : <<a, a>> \notin R
    BY <1>4, <2>1
  <2>3. \A a, b, c \in S : <<a, b>> \in R /\ <<b, c>> \in R => <<a, c>> \in R
    BY <1>4, <2>1
  <2>4. \A a, b \in S : a = b \/ <<a, b>> \in R \/ <<b, a>> \in R
    BY <1>4, <2>1
  <2>5. QED
    BY <2>2, <2>3, <2>4 DEF Orders
<1> HIDE DEF R
<1>6. PICK p \in Bijection(1..n, 1..n) : sorts(p)
  <2> DEFINE rank(i) == Cardinality(Preceding(R, S, list[i]))
             p == [k \in 1..n |-> CHOOSE i \in 1..n : rank(i) = k - 1]
  <2>1. \A k \in 1..n : p[k] \in 1..n /\ rank(p[k]) = k - 1
    <3> TAKE k \in 1..n
    <3>1. PICK s \in S : Cardinality(Preceding(R, S, s)) = k - 1
      <4> HIDE DEF S, n
      <4> QED BY <1>3, <1>5, EveryPlaceTaken
    <3>2. PICK i \in 1..n : s = list[i]
      OBVIOUS
    <3>3. rank(i) = k - 1
      BY <3>1, <3>2
    <3> HIDE DEF rank
    <3>4. QED
      BY <3>3
  <2> HIDE DEF p
  <2>2. p \in [1..n -> 1..n]
    <3> HIDE DEF n, rank
    <3> QED BY <2>1 DEF p
  <2>3. \A k, l \in 1..n : p[k] = p[l] => k = l
    <3> TAKE k, l \in 1..n
    <3> HAVE p[k] = p[l]
    <3>1. rank(p[k]) = k - 1 /\ rank(p[l]) = l - 1 /\ rank(p[k]) = rank(p[l])
      BY <2>1
    <3> HIDE DEF rank
    <3>2. QED
      BY <3>1
  <2>4. p \in Injection(1..n, 1..n)
    <3> HIDE DEF n
    <3> QED BY <2>2, <2>3 DEF Injection, IsInjective
  <2>5. p \in Bijection(1..n, 1..n)
    <3> HIDE DEF n
    <3>1. p \in Surjection(1..n, 1..n)
      BY <1>2, <2>4, FS_Injection
    <3>2. QED
      BY <2>4, <3>1 DEF Bijection
  <2>6. ASSUME NEW i \in 1..n, NEW j \in 1..n, i < j, Comes(list[p[j]], list[p[i]])
        PROVE  FALSE
    <3> DEFINE a == list[p[j]]
               b == list[p[i]]
    <3>1. a \in S /\ b \in S /\ <<a, b>> \in R
      BY <1>4, <2>1, <2>6
    <3>2. Cardinality(Preceding(R, S, a)) = j - 1 /\ Cardinality(Preceding(R, S, b)) = i - 1
      BY <2>1
    <3> HIDE DEF a, b, S
    <3>3. Preceding(R, S, a) \cup {a} \in SUBSET Preceding(R, S, b)
      BY <1>5, <3>1 DEF Preceding, Orders
    <3>4. /\ Cardinality(Preceding(R, S, a) \cup {a}) = Cardinality(Preceding(R, S, a)) + 1
          /\ IsFiniteSet(Preceding(R, S, b))
      BY <1>3, <1>5, <3>1, BeforeAndItself
    <3>5. Cardinality(Preceding(R, S, a) \cup {a}) <= Cardinality(Preceding(R, S, b))
      BY <3>3, <3>4, FS_Subset
    <3>6. j <= i - 1
      BY <3>2, <3>4, <3>5
    <3>7. QED
      BY <2>6, <3>6
  <2>7. sorts(p)
    BY <2>6
  <2>8. QED
    BY <2>5, <2>7
<1> DEFINE order == CHOOSE q \in Bijection(1..n, 1..n) : sorts(q)
<1>7. order \in Bijection(1..n, 1..n) /\ sorts(order)
  <2> HIDE DEF sorts
  <2> QED BY <1>6
<1>8. Sorted(list) = [i \in 1..n |-> list[order[i]]]
  BY DEF Sorted, Comes
<1> HIDE DEF order
<1>9. /\ \A i \in 1..n : order[i] \in 1..n
      /\ \A i, j \in 1..n : order[i] = order[j] => i = j
      /\ \A k \in 1..n : \E i \in 1..n : order[i] = k
  BY <1>7 DEF Bijection, Injection, IsInjective, Surjection
<1> DEFINE s == Sorted(list)
<1>10. s \in [1..n -> Wanted] /\ \A i \in 1..n : s[i] = list[order[i]]
  BY <1>1, <1>8, <1>9
<1> HIDE DEF s
<1>11. s \in Seq(Wanted) /\ Len(s) = n /\ DOMAIN s = 1..n
  BY <1>1, <1>10
<1>12. Members(s) = Members(list)
  <2>1. Members(s) = {s[i] : i \in 1..n} /\ Members(list) = {list[i] : i \in 1..n}
    BY <1>1, <1>11 DEF Members
  <2> HIDE DEF n
  <2>2. \A i \in 1..n : s[i] \in Members(list)
    BY <1>9, <1>10, <2>1
  <2>3. \A k \in 1..n : list[k] \in Members(s)
    <3> TAKE k \in 1..n
    <3>1. PICK i \in 1..n : order[i] = k
      BY <1>9
    <3>2. QED
      BY <1>10, <2>1, <3>1
  <2>4. QED
    BY <2>1, <2>2, <2>3
<1>13. ASSUME NEW i \in 1..n, NEW j \in 1..n, i < j
       PROVE  Comes(s[i], s[j])
  <2>1. ~Comes(list[order[j]], list[order[i]])
    BY <1>7, <1>13
  <2>2. order[i] # order[j] /\ order[i] \in 1..n /\ order[j] \in 1..n
    BY <1>9, <1>13
  <2>3. list[order[i]] # list[order[j]] /\ list[order[i]] \in Wanted /\ list[order[j]] \in Wanted
    BY <1>1, <2>2
  <2>4. QED
    BY <1>10, <2>1, <2>3, WantedFacts
<1>14. QED
  BY <1>11, <1>12, <1>13 DEF s

-----------------------------------------------------------------------------
(* The invariant.                                                          *)
(*                                                                         *)
(* While the walk draws, the lots it has drawn from come before all that   *)
(* are still to come; each has given what the closed form says, all of     *)
(* them but the last have nothing left, and what is needed is the price    *)
(* less what they had.                                                     *)

Taken == {result[i].lot : i \in DOMAIN result}

Pcs == {"collect", "draw", "done", "short"}

TypeInv ==
  /\ in \in Inputs /\ pc \in Pcs
  /\ next \in 1..Len(in.lots) + 1
  /\ candidates \in Seq(Wanted)
  /\ remaining \in [DOMAIN Left -> Int]
  /\ need \in Smaller(0, in.points)..in.points
  /\ result \in Seq([lot : Wanted, rank : Int, points : Int])

\* What the first loop has collected from the rows it has looked at.
Collecting ==
  pc = "collect" =>
    /\ in.points > 0 /\ remaining = Left /\ need = in.points /\ result = <<>>
    /\ Members(candidates) = {lot \in Wanted : \E i \in 1..next - 1 : LotOf(in.lots[i]) = lot}
    /\ \A i, j \in 1..Len(candidates) : candidates[i] = candidates[j] => i = j

\* The second loop has begun.
Walked == pc = "draw" \/ (pc = "done" /\ in.points > 0)

\* What the second loop still has before it.
ToCome ==
  Walked =>
    /\ in.points > 0
    /\ \A i, j \in 1..Len(candidates) : i < j => Comes(candidates[i], candidates[j])
    /\ Members(candidates) = Wanted \ Taken
    /\ \A a \in Taken, b \in Members(candidates) : Comes(a, b)

\* The draws made so far, one by one.
DrawnRight ==
  \A i \in 1..Len(result) :
    LET lot == result[i].lot IN
    /\ NeedFor(lot) > 0
    /\ result[i] = [lot |-> lot, rank |-> Rank(in.month, in.checkIn, lot),
                    points |-> Smaller(NeedFor(lot), Left[lot])]
    /\ remaining[lot] = Left[lot] - result[i].points
    /\ i < Len(result) \/ need > 0 => remaining[lot] = 0
    /\ \A j \in 1..Len(result) : i < j => Comes(lot, result[j].lot)

\* The draws and the need together.
Points == [i \in DOMAIN result |-> result[i].points]
NeedRight ==
  /\ SumOver(Points, DOMAIN result) + need = in.points
  /\ in.points - SumOver(Left, Taken) <= need
  /\ need > 0 => need = in.points - SumOver(Left, Taken)

Drawing ==
  Walked =>
    /\ DrawnRight /\ NeedRight
    /\ \A lot \in DOMAIN Left \ Taken : remaining[lot] = Left[lot]

NothingToPay == pc = "done" /\ in.points <= 0 => result = <<>>

WalkInv ==
  TypeInv /\ Collecting /\ ToCome /\ Drawing /\ NothingToPay /\ WalkMatchesAllocation

(***************************************************************************)
(* At first nothing is collected and nothing is drawn; a stay that costs   *)
(* nothing is done.                                                        *)
(***************************************************************************)
LEMMA WalkInit == Init => WalkInv
<1>1. SUFFICES ASSUME Init
               PROVE  WalkInv
  OBVIOUS
<1>2. /\ in \in Inputs /\ next = 1 /\ candidates = <<>> /\ remaining = Left
      /\ need = in.points /\ result = <<>>
      /\ pc = (IF in.points <= 0 THEN "done" ELSE "collect")
  BY <1>1 DEF Init, Left
<1>3. in.points \in Int /\ Len(in.lots) \in Nat /\ Left \in [DOMAIN Left -> Int]
  BY <1>2, LeftType
<1>4. TypeInv
  <2>1. need \in Smaller(0, in.points)..in.points
    BY <1>2, <1>3 DEF Smaller
  <2>2. candidates \in Seq(Wanted) /\ result \in Seq([lot : Wanted, rank : Int, points : Int])
    BY <1>2
  <2>3. next \in 1..Len(in.lots) + 1
    BY <1>2, <1>3
  <2>4. pc \in Pcs
    BY <1>2 DEF Pcs
  <2>5. QED
    BY <1>2, <1>3, <2>1, <2>2, <2>3, <2>4 DEF TypeInv
<1>5. Collecting
  <2>1. Len(candidates) = 0 /\ Members(candidates) = {} /\ 1..next - 1 = {}
    BY <1>2 DEF Members
  <2>2. pc = "collect" => in.points > 0
    BY <1>2, <1>3
  <2>3. QED
    BY <1>2, <2>1, <2>2 DEF Collecting
<1>6. ToCome /\ Drawing /\ NothingToPay
  <2>1. pc # "draw" /\ ~(pc = "done" /\ in.points > 0)
    BY <1>2, <1>3
  <2>2. QED
    BY <1>2, <2>1 DEF ToCome, Drawing, Walked, NothingToPay
<1>7. WalkMatchesAllocation
  <2>1. CASE pc = "done"
    <3>1. in.points <= 0
      BY <1>2, <1>3, <2>1
    <3>2. Members(result) = {} /\ DOMAIN result = {}
      BY <1>2 DEF Members
    <3>3. QED
      BY <2>1, <3>1, <3>2 DEF WalkMatchesAllocation, Fundable
  <2>2. CASE pc = "collect"
    BY <2>2 DEF WalkMatchesAllocation, Returned
  <2>3. QED
    BY <1>2, <2>1, <2>2
<1>8. QED
  BY <1>4, <1>5, <1>6, <1>7 DEF WalkInv

(***************************************************************************)
(* A turn of the first loop collects the lot of its row, if the stay can   *)
(* draw from it and it is not collected yet.                               *)
(***************************************************************************)
LEMMA CollectStep ==
  ASSUME WalkInv, Collect
  PROVE  WalkInv'
<1> DEFINE lot == LotOf(in.lots[next])
<1>1. /\ in \in Inputs /\ pc = "collect" /\ next \in 1..Len(in.lots) + 1 /\ next <= Len(in.lots)
      /\ candidates \in Seq(Wanted) /\ remaining = Left
      /\ UNCHANGED <<in, pc, remaining, need, result>> /\ next' = next + 1
  BY DEF WalkInv, TypeInv, Collecting, Collect
<1>2. Len(in.lots) \in Nat /\ next \in 1..Len(in.lots) /\ lot \in DOMAIN Left
  <2>1. Len(in.lots) \in Nat
    BY <1>1, LeftType
  <2>2. next \in 1..Len(in.lots)
    BY <1>1, <2>1
  <2>3. QED
    BY <1>1, <2>1, <2>2, LeftType
<1>3. IsCandidate(lot) <=> lot \in Wanted /\ lot \notin Members(candidates)
  BY <1>1, <1>2, WantedFacts DEF IsCandidate
<1>4. candidates' = IF IsCandidate(lot) THEN Append(candidates, lot) ELSE candidates
  BY DEF Collect
<1> HIDE DEF lot
<1>5. candidates' \in Seq(Wanted)
  BY <1>1, <1>3, <1>4
<1>6. Members(candidates') = Members(candidates) \cup ({lot} \cap Wanted)
  <2>1. CASE IsCandidate(lot)
    <3>1. /\ DOMAIN candidates = 1..Len(candidates) /\ Len(candidates) \in Nat
          /\ candidates' = Append(candidates, lot)
          /\ DOMAIN candidates' = 1..Len(candidates) + 1
          /\ \A i \in 1..Len(candidates) : candidates'[i] = candidates[i]
          /\ candidates'[Len(candidates) + 1] = lot
      BY <1>1, <1>3, <1>4, <2>1
    <3>2. Members(candidates') \subseteq Members(candidates) \cup {lot}
      BY <3>1 DEF Members
    <3>3. Members(candidates) \cup {lot} \subseteq Members(candidates')
      <4>1. \A i \in 1..Len(candidates) : i \in 1..Len(candidates) + 1
        BY <3>1
      <4>2. Len(candidates) + 1 \in 1..Len(candidates) + 1
        BY <3>1
      <4>3. QED
        BY <3>1, <4>1, <4>2 DEF Members
    <3>4. QED
      BY <1>3, <2>1, <3>2, <3>3
  <2>2. CASE ~IsCandidate(lot)
    BY <1>3, <1>4, <2>2
  <2>3. QED
    BY <2>1, <2>2
<1>7. Members(candidates') =
        {l \in Wanted : \E i \in 1..next' - 1 : LotOf(in.lots[i]) = l}
  <2>1. Members(candidates) = {l \in Wanted : \E i \in 1..next - 1 : LotOf(in.lots[i]) = l}
    BY <1>1 DEF WalkInv, Collecting
  <2>2. \A i : i \in 1..next' - 1 <=> i \in 1..next - 1 \/ i = next
    BY <1>1, <1>2
  <2>3. \A l : (\E i \in 1..next' - 1 : LotOf(in.lots[i]) = l)
                 <=> (\E i \in 1..next - 1 : LotOf(in.lots[i]) = l) \/ l = lot
    BY <2>2 DEF lot
  <2>4. QED
    BY <1>6, <2>1, <2>3
<1>8. \A i, j \in 1..Len(candidates') : candidates'[i] = candidates'[j] => i = j
  <2>1. \A i, j \in 1..Len(candidates) : candidates[i] = candidates[j] => i = j
    BY <1>1 DEF WalkInv, Collecting
  <2>2. CASE IsCandidate(lot)
    <3>1. /\ Len(candidates) \in Nat /\ Len(candidates') = Len(candidates) + 1
          /\ \A i \in 1..Len(candidates) : candidates'[i] = candidates[i]
          /\ candidates'[Len(candidates) + 1] = lot
      BY <1>1, <1>3, <1>4, <2>2
    <3>2. \A i \in 1..Len(candidates) : candidates[i] # lot
      BY <1>1, <1>3, <2>2 DEF Members
    <3>3. \A i \in 1..Len(candidates') : i \in 1..Len(candidates) \/ i = Len(candidates) + 1
      BY <3>1
    <3>4. QED
      BY <2>1, <3>1, <3>2, <3>3
  <2>3. CASE ~IsCandidate(lot)
    BY <1>4, <2>1, <2>3
  <2>4. QED
    BY <2>2, <2>3
<1>9. Left' = Left /\ Wanted' = Wanted
  BY <1>1, SameCall
<1>10. TypeInv'
  <2>1. next' \in 1..Len(in.lots) + 1
    BY <1>1, <1>2
  <2>2. QED
    BY <1>1, <1>5, <1>9, <2>1 DEF WalkInv, TypeInv
<1>11. Collecting'
  BY <1>1, <1>7, <1>8, <1>9 DEF WalkInv, Collecting
<1>12. ToCome' /\ Drawing' /\ NothingToPay' /\ WalkMatchesAllocation'
  BY <1>1 DEF ToCome, Drawing, Walked, NothingToPay, WalkMatchesAllocation, Returned
<1>13. QED
  BY <1>10, <1>11, <1>12 DEF WalkInv

(***************************************************************************)
(* The first loop has seen every row, so it has collected every lot the    *)
(* stay can draw from; the sort puts them in order and nothing is drawn.   *)
(***************************************************************************)
LEMMA SortStep ==
  ASSUME WalkInv, Sort
  PROVE  WalkInv'
<1>1. /\ in \in Inputs /\ pc = "collect" /\ next \in 1..Len(in.lots) + 1 /\ next > Len(in.lots)
      /\ candidates \in Seq(Wanted) /\ remaining \in [DOMAIN Left -> Int]
      /\ in.points > 0 /\ remaining = Left /\ need = in.points /\ result = <<>>
      /\ Members(candidates) = {lot \in Wanted : \E i \in 1..next - 1 : LotOf(in.lots[i]) = lot}
      /\ \A i, j \in 1..Len(candidates) : candidates[i] = candidates[j] => i = j
      /\ pc' = "draw" /\ UNCHANGED <<in, next, remaining, need, result>>
      /\ candidates' = Sorted(candidates)
      /\ need \in Smaller(0, in.points)..in.points
  BY DEF WalkInv, TypeInv, Collecting, Sort
<1>2. Members(candidates) = Wanted
  <2>1. Len(in.lots) \in Nat
    BY <1>1, LeftType
  <2>2. next - 1 = Len(in.lots)
    BY <1>1, <2>1
  <2>3. \A lot \in Wanted : \E i \in 1..Len(in.lots) : LotOf(in.lots[i]) = lot
    BY <1>1, LeftType, WantedFacts
  <2>4. QED
    BY <1>1, <2>2, <2>3
<1>3. /\ candidates' \in Seq(Wanted) /\ Members(candidates') = Wanted
      /\ \A i, j \in 1..Len(candidates') : i < j => Comes(candidates'[i], candidates'[j])
  BY <1>1, <1>2, SortedInOrder
<1>4. /\ Left' = Left /\ Wanted' = Wanted
      /\ \A a, b : Comes(a, b)' <=> Comes(a, b)
  BY <1>1, SameCall
<1>5. result' = <<>> /\ DOMAIN result' = {} /\ Len(result') = 0 /\ Taken' = {}
  BY <1>1 DEF Taken
<1>6. in.points \in Int
  BY <1>1, LeftType
<1>7. TypeInv'
  BY <1>1, <1>3, <1>4, <1>5 DEF TypeInv, Pcs
<1>8. Collecting' /\ NothingToPay'
  BY <1>1 DEF Collecting, NothingToPay
<1>9. ToCome'
  BY <1>1, <1>3, <1>4, <1>5 DEF ToCome
<1>10. Drawing'
  <2>1. DrawnRight'
    BY <1>5 DEF DrawnRight
  <2>2. NeedRight'
    <3>1. SumOver(Points, DOMAIN result)' = 0 /\ SumOver(Left, Taken)' = 0
      BY <1>4, <1>5, SumEmpty
    <3>2. QED
      BY <1>1, <1>6, <3>1 DEF NeedRight
  <2>3. \A lot \in DOMAIN Left \ Taken : remaining[lot] = Left[lot]
    BY <1>1
  <2>4. (\A lot \in DOMAIN Left \ Taken : remaining[lot] = Left[lot])'
    BY <1>1, <1>4
  <2>5. QED
    BY <2>1, <2>2, <2>4 DEF Drawing
<1>11. WalkMatchesAllocation'
  BY <1>1 DEF WalkMatchesAllocation, Returned
<1>12. QED
  BY <1>7, <1>8, <1>9, <1>10, <1>11 DEF WalkInv

(***************************************************************************)
(* The lots drawn from so far: finitely many, each worth what it had.      *)
(***************************************************************************)
LEMMA TakenFacts ==
  ASSUME TypeInv
  PROVE  /\ Taken \in SUBSET Wanted /\ IsFiniteSet(Taken)
         /\ SumOver(Left, Taken) \in Nat /\ SumOver(Left, Wanted) \in Nat
         /\ SumOver(Left, Taken) <= SumOver(Left, Wanted)
<1> DEFINE Draws == [lot : Wanted, rank : Int, points : Int]
<1>1. in \in Inputs /\ result \in Seq(Draws)
  BY DEF TypeInv
<1>2. Taken \in SUBSET Wanted
  <2>1. \A i \in DOMAIN result : result[i] \in Draws
    <3> HIDE DEF Draws
    <3> QED BY <1>1
  <2>2. \A draw \in Draws : draw.lot \in Wanted
    OBVIOUS
  <2> HIDE DEF Draws
  <2>3. QED
    BY <2>1, <2>2 DEF Taken
<1>3. IsFiniteSet(Wanted) /\ \A lot \in Wanted : Left[lot] \in Nat
  BY <1>1, WantedFacts
<1>4. IsFiniteSet(Taken)
  BY <1>2, <1>3, FS_Subset
<1>5. SumOver(Left, Taken) \in Nat /\ SumOver(Left, Wanted) \in Nat
  BY <1>2, <1>3, <1>4, SumType
<1>6. QED
  BY <1>2, <1>3, <1>4, <1>5, SumMonotone

(***************************************************************************)
(* What comes before the first lot still to come is what has been drawn    *)
(* from, so the loop needs there what the closed form says.                *)
(***************************************************************************)
LEMMA HeadNeeds ==
  ASSUME WalkInv, pc = "draw", need # 0, candidates # <<>>
  PROVE  LET lot == Head(candidates) IN
         /\ lot \in Wanted \ Taken
         /\ \A a \in Taken : Comes(a, lot)
         /\ \A b \in Members(Tail(candidates)) : Comes(lot, b)
         /\ Members(Tail(candidates)) = Wanted \ (Taken \cup {lot})
         /\ need = NeedFor(lot) /\ need \in Nat \ {0}
         /\ remaining[lot] = Left[lot]
<1> DEFINE lot == Head(candidates)
<1>1. /\ TypeInv /\ in \in Inputs /\ candidates \in Seq(Wanted)
      /\ need \in Smaller(0, in.points)..in.points
      /\ result \in Seq([lot : Wanted, rank : Int, points : Int])
  BY DEF WalkInv, TypeInv
<1>2. /\ in.points > 0
      /\ \A i, j \in 1..Len(candidates) : i < j => Comes(candidates[i], candidates[j])
      /\ Members(candidates) = Wanted \ Taken
      /\ \A a \in Taken, b \in Members(candidates) : Comes(a, b)
      /\ NeedRight /\ \A l \in DOMAIN Left \ Taken : remaining[l] = Left[l]
  BY DEF WalkInv, ToCome, Drawing, Walked
<1>3. /\ Len(candidates) \in Nat \ {0} /\ lot = candidates[1] /\ DOMAIN candidates = 1..Len(candidates)
      /\ 1 \in 1..Len(candidates)
      /\ Tail(candidates) \in Seq(Wanted) /\ Len(Tail(candidates)) = Len(candidates) - 1
      /\ DOMAIN Tail(candidates) = 1..Len(candidates) - 1
      /\ \A i \in 1..Len(candidates) - 1 : Tail(candidates)[i] = candidates[i + 1]
  BY <1>1
<1>4. Members(candidates) = {candidates[i] : i \in 1..Len(candidates)}
  BY <1>3 DEF Members
<1>5. lot \in Members(candidates) /\ lot \in Wanted \ Taken
  BY <1>2, <1>3, <1>4
<1> HIDE DEF lot
<1>6. /\ \A a \in Wanted : ~Comes(a, a)
      /\ \A a, b, c \in Wanted : Comes(a, b) /\ Comes(b, c) => Comes(a, c)
      /\ Wanted \in SUBSET DOMAIN Left
  BY <1>1, WantedFacts
<1>7. \A b \in Members(candidates) : b = lot \/ Comes(lot, b)
  <2> TAKE b \in Members(candidates)
  <2>1. PICK i \in 1..Len(candidates) : b = candidates[i]
    BY <1>4
  <2>2. CASE i = 1
    BY <1>3, <2>1, <2>2
  <2>3. CASE 1 < i
    <3>1. Comes(candidates[1], candidates[i])
      BY <1>2, <1>3, <2>3
    <3>2. QED
      BY <1>3, <2>1, <3>1
  <2>4. QED
    BY <1>3, <2>2, <2>3
<1>8. Members(Tail(candidates)) = Members(candidates) \ {lot}
  <2>1. Members(Tail(candidates)) = {candidates[i + 1] : i \in 1..Len(candidates) - 1}
    BY <1>3 DEF Members
  <2>2. \A i \in 1..Len(candidates) - 1 :
          /\ i + 1 \in 1..Len(candidates) /\ 1 < i + 1
    BY <1>3
  <2>3. \A i \in 1..Len(candidates) - 1 :
          /\ candidates[i + 1] \in Members(candidates) /\ Comes(lot, candidates[i + 1])
    BY <1>2, <1>3, <1>4, <2>2
  <2>4. \A i \in 1..Len(candidates) : i = 1 \/ (i - 1 \in 1..Len(candidates) - 1 /\ (i - 1) + 1 = i)
    BY <1>3
  <2>5. \A b \in Members(candidates) : b = lot \/ b \in Members(Tail(candidates))
    <3> TAKE b \in Members(candidates)
    <3>1. PICK i \in 1..Len(candidates) : b = candidates[i]
      BY <1>4
    <3>2. i = 1 \/ \E k \in 1..Len(candidates) - 1 : k + 1 = i
      BY <2>4
    <3>3. QED
      BY <1>3, <2>1, <3>1, <3>2
  <2>6. lot \notin Members(Tail(candidates))
    BY <1>5, <1>6, <2>1, <2>3
  <2>7. QED
    BY <2>1, <2>3, <2>5, <2>6
<1>9. {a \in Wanted : Comes(a, lot)} = Taken
  <2>1. \A a \in Taken : a \in Wanted /\ Comes(a, lot)
    BY <1>1, <1>2, <1>5, TakenFacts
  <2>2. \A a \in Wanted : Comes(a, lot) => a \in Taken
    BY <1>2, <1>5, <1>6, <1>7
  <2>3. QED
    BY <2>1, <2>2
<1>10. NeedFor(lot) = in.points - SumOver(Left, Taken)
  BY <1>9 DEF NeedFor, NeedAt, Wanted, Comes
<1>11. need \in Nat \ {0}
  BY <1>1, <1>2, LeftType DEF Smaller
<1>12. need = NeedFor(lot)
  BY <1>2, <1>10, <1>11 DEF NeedRight
<1>13. \A b \in Members(Tail(candidates)) : Comes(lot, b)
  BY <1>7, <1>8
<1>14. remaining[lot] = Left[lot]
  BY <1>2, <1>5, <1>6
<1>15. Members(Tail(candidates)) = Wanted \ (Taken \cup {lot})
  BY <1>2, <1>8
<1>16. QED
  BY <1>2, <1>5, <1>11, <1>12, <1>13, <1>14, <1>15 DEF lot

(***************************************************************************)
(* A turn of the second loop empties the first lot to come, or takes from  *)
(* it the last points needed.                                              *)
(***************************************************************************)
LEMMA DrawStep ==
  ASSUME WalkInv, Draw
  PROVE  WalkInv'
<1> DEFINE lot == Head(candidates)
           drawn == Smaller(need, remaining[lot])
           Draws == [lot : Wanted, rank : Int, points : Int]
           draw == [lot |-> lot, rank |-> Rank(in.month, in.checkIn, lot), points |-> drawn]
           n == Len(result)
<1>1. /\ in \in Inputs /\ pc = "draw" /\ need # 0 /\ candidates # <<>>
      /\ candidates \in Seq(Wanted) /\ remaining \in [DOMAIN Left -> Int]
      /\ result \in Seq(Draws) /\ next \in 1..Len(in.lots) + 1
  BY DEF WalkInv, TypeInv, Draw
<1>2. PICK l : l = lot
  OBVIOUS
<1>3. PICK d : d = drawn
  OBVIOUS
<1>4. PICK r : r = draw
  OBVIOUS
<1>5. /\ in' = in /\ pc' = "draw" /\ next' = next /\ result' = Append(result, r)
      /\ remaining' = [remaining EXCEPT ![l] = @ - d] /\ need' = need - d
      /\ candidates' = Tail(candidates)
  BY <1>1, <1>2, <1>3, <1>4 DEF Draw, Drawn
<1>6. /\ l \in Wanted \ Taken /\ (\A a \in Taken : Comes(a, l))
      /\ (\A b \in Members(Tail(candidates)) : Comes(l, b))
      /\ Members(Tail(candidates)) = Wanted \ (Taken \cup {l})
      /\ need = NeedFor(l) /\ need \in Nat \ {0} /\ remaining[l] = Left[l]
  BY <1>1, <1>2, HeadNeeds
<1>7. /\ in.points > 0 /\ DrawnRight /\ NeedRight
      /\ \A a \in DOMAIN Left \ Taken : remaining[a] = Left[a]
      /\ \A i, j \in 1..Len(candidates) : i < j => Comes(candidates[i], candidates[j])
  BY <1>1 DEF WalkInv, ToCome, Drawing, Walked
<1>8. /\ Wanted \in SUBSET DOMAIN Left /\ Left[l] \in Nat \ {0}
      /\ Rank(in.month, in.checkIn, l) \in Int /\ in.points \in Int
      /\ \A a \in Wanted : Left[a] \in Nat
  BY <1>1, <1>6, LeftType, WantedFacts
<1>9. d = Smaller(need, Left[l]) /\ d \in Nat \ {0} /\ d <= need /\ d <= Left[l]
      /\ (d < need => d = Left[l])
  BY <1>2, <1>3, <1>6, <1>8 DEF Smaller
<1>10. r = [lot |-> l, rank |-> Rank(in.month, in.checkIn, l), points |-> d]
       /\ r.lot = l /\ r.points = d
  BY <1>2, <1>3, <1>4
<1>11. r \in Draws
  BY <1>6, <1>8, <1>9, <1>10
<1> HIDE DEF lot, drawn, draw, Draws
<1>12. /\ n \in Nat /\ DOMAIN result = 1..n /\ result' \in Seq(Draws)
       /\ Len(result') = n + 1 /\ DOMAIN result' = 1..n + 1
       /\ (\A i \in 1..n : result'[i] = result[i]) /\ result'[n + 1] = r
  BY <1>1, <1>5, <1>11
<1>13. PICK m : m = n
  OBVIOUS
<1>14. \A i \in 1..m + 1 : i \in 1..m \/ i = m + 1
  BY <1>12, <1>13
<1>15. /\ Left' = Left /\ Wanted' = Wanted
       /\ (\A a, b : Comes(a, b)' <=> Comes(a, b)) /\ \A a : NeedFor(a)' = NeedFor(a)
  BY <1>5, SameCall
<1>16. Taken' = Taken \cup {l}
  <2>1. Taken' = {result'[i].lot : i \in 1..m + 1}
    BY <1>12, <1>13 DEF Taken
  <2>2. Taken = {result[i].lot : i \in 1..m}
    BY <1>12, <1>13 DEF Taken
  <2>3. \A i \in 1..m : i \in 1..m + 1 /\ result'[i].lot = result[i].lot
    BY <1>12, <1>13
  <2>4. m + 1 \in 1..m + 1 /\ result'[m + 1].lot = l
    BY <1>10, <1>12, <1>13
  <2>5. QED
    BY <1>14, <2>1, <2>2, <2>3, <2>4
<1>17. /\ remaining' \in [DOMAIN Left -> Int] /\ remaining'[l] = Left[l] - d
       /\ \A a \in DOMAIN Left \ {l} : remaining'[a] = remaining[a]
  <2>1. PICK lots : lots = DOMAIN Left
    OBVIOUS
  <2>2. l \in lots /\ d \in Int /\ remaining[l] = Left[l] /\ remaining[l] - d \in Int
    BY <1>6, <1>8, <1>9, <2>1
  <2>3. remaining \in [lots -> Int] /\ remaining' = [remaining EXCEPT ![l] = @ - d]
    BY <1>1, <1>5, <2>1
  <2>4. /\ remaining' \in [lots -> Int] /\ remaining'[l] = remaining[l] - d
        /\ \A a \in lots \ {l} : remaining'[a] = remaining[a]
    BY <2>2, <2>3
  <2>5. QED
    BY <2>1, <2>2, <2>4
<1>18. /\ Tail(candidates) \in Seq(Wanted) /\ Len(Tail(candidates)) = Len(candidates) - 1
       /\ Len(candidates) \in Nat \ {0}
       /\ \A i \in 1..Len(candidates) - 1 : Tail(candidates)[i] = candidates[i + 1]
  BY <1>1
<1>19. TypeInv'
  <2>1. need \in Smaller(0, in.points)..in.points
    BY DEF WalkInv, TypeInv
  <2>2. need' \in Smaller(0, in.points)..in.points
    BY <1>5, <1>6, <1>7, <1>8, <1>9, <2>1 DEF Smaller
  <2>3. result' \in Seq([lot : Wanted, rank : Int, points : Int])
    BY <1>12 DEF Draws
  <2>4. pc' \in Pcs
    BY <1>5 DEF Pcs
  <2>5. QED
    BY <1>1, <1>5, <1>15, <1>17, <1>18, <2>2, <2>3, <2>4 DEF TypeInv
<1>20. ToCome'
  <2>1. \A i, j \in 1..Len(candidates') : i < j => Comes(candidates'[i], candidates'[j])
    <3>1. ASSUME NEW i \in 1..Len(candidates) - 1, NEW j \in 1..Len(candidates) - 1, i < j
          PROVE  Comes(Tail(candidates)[i], Tail(candidates)[j])
      <4>1. i + 1 \in 1..Len(candidates) /\ j + 1 \in 1..Len(candidates) /\ i + 1 < j + 1
        BY <1>18, <3>1
      <4>2. QED
        BY <1>7, <1>18, <4>1
    <3>2. QED
      BY <1>5, <1>18, <3>1
  <2>2. Members(candidates') = Wanted \ Taken'
    BY <1>5, <1>6, <1>16
  <2>3. \A a \in Taken', b \in Members(candidates') : Comes(a, b)
    <3>1. ASSUME NEW a \in Taken, NEW b \in Members(Tail(candidates))
          PROVE  Comes(a, b)
      <4>1. a \in Wanted /\ b \in Wanted /\ l \in Wanted
        BY <1>6, TakenFacts DEF WalkInv
      <4>2. Comes(a, l) /\ Comes(l, b)
        BY <1>6
      <4>3. QED
        BY <1>1, <4>1, <4>2, WantedFacts
    <3>2. QED
      BY <1>5, <1>6, <1>16, <3>1
  <2>4. QED
    BY <1>5, <1>7, <1>15, <2>1, <2>2, <2>3 DEF ToCome
<1>21. DrawnRight'
  <2> DEFINE Right(i) ==
        LET a == result'[i].lot IN
        /\ NeedFor(a) > 0
        /\ result'[i] = [lot |-> a, rank |-> Rank(in.month, in.checkIn, a),
                         points |-> Smaller(NeedFor(a), Left[a])]
        /\ remaining'[a] = Left[a] - result'[i].points
        /\ i < m + 1 \/ need' > 0 => remaining'[a] = 0
        /\ \A j \in 1..m + 1 : i < j => Comes(a, result'[j].lot)
  <2>1. ASSUME NEW i \in 1..m
        PROVE  Right(i)
    <3> DEFINE a == result[i].lot
    <3>1. /\ NeedFor(a) > 0
          /\ result[i] = [lot |-> a, rank |-> Rank(in.month, in.checkIn, a),
                          points |-> Smaller(NeedFor(a), Left[a])]
          /\ remaining[a] = Left[a] - result[i].points
          /\ i < m \/ need > 0 => remaining[a] = 0
          /\ \A j \in 1..m : i < j => Comes(a, result[j].lot)
      BY <1>7, <1>13 DEF DrawnRight
    <3>2. result'[i] = result[i] /\ a \in Taken
      BY <1>12, <1>13 DEF Taken
    <3>3. a # l /\ a \in DOMAIN Left
      BY <1>6, <1>8, <3>2, TakenFacts DEF WalkInv
    <3>4. remaining'[a] = remaining[a] /\ remaining[a] = 0
      BY <1>6, <1>17, <3>1, <3>3
    <3>5. \A j \in 1..m + 1 : i < j => Comes(a, result'[j].lot)
      <4>1. \A j \in 1..m : i < j => Comes(a, result'[j].lot)
        BY <1>12, <1>13, <3>1
      <4>2. Comes(a, result'[m + 1].lot)
        BY <1>6, <1>10, <1>12, <1>13, <3>2
      <4>3. QED
        BY <1>14, <4>1, <4>2
    <3> HIDE DEF a
    <3>6. result'[i].lot = a
      BY <3>2 DEF a
    <3>7. QED
      BY <3>1, <3>2, <3>4, <3>5, <3>6
  <2>2. Right(m + 1)
    <3>1. result'[m + 1] = r /\ result'[m + 1].lot = l
      BY <1>10, <1>12, <1>13
    <3>2. need' > 0 => remaining'[l] = 0
      BY <1>5, <1>6, <1>8, <1>9, <1>17
    <3>3. ~(m + 1 < m + 1) /\ \A j \in 1..m + 1 : ~(m + 1 < j)
      BY <1>12, <1>13
    <3>4. NeedFor(l) > 0 /\ remaining'[l] = Left[l] - r.points
          /\ r = [lot |-> l, rank |-> Rank(in.month, in.checkIn, l),
                  points |-> Smaller(NeedFor(l), Left[l])]
      BY <1>6, <1>9, <1>10, <1>17
    <3>5. QED
      BY <3>1, <3>2, <3>3, <3>4
  <2>3. \A i \in 1..m + 1 : Right(i)
    <3> HIDE DEF Right
    <3> QED BY <1>14, <2>1, <2>2
  <2>4. Len(result') = m + 1
    BY <1>12, <1>13
  <2>5. QED
    BY <1>5, <1>15, <2>3, <2>4 DEF DrawnRight
<1>22. NeedRight'
  <2>1. /\ SumOver(Points', 1..m + 1) = SumOver(Points, 1..m) + d
        /\ SumOver(Points, 1..m) \in Nat
    <3> DEFINE f == Points
               g == Points'
    <3>1. /\ \A i \in 1..m : f[i] = result[i].points
          /\ \A i \in 1..m + 1 : g[i] = result'[i].points
      BY <1>12, <1>13 DEF Points
    <3>2. \A i \in 1..m : i \in 1..m + 1 /\ g[i] = f[i] /\ g[i] \in Nat
      <4> TAKE i \in 1..m
      <4>1. i \in 1..m + 1 /\ g[i] = f[i] /\ f[i] = result[i].points
        BY <1>12, <1>13, <3>1
      <4>2. /\ NeedFor(result[i].lot) > 0
            /\ result[i] = [lot |-> result[i].lot,
                            rank |-> Rank(in.month, in.checkIn, result[i].lot),
                            points |-> Smaller(NeedFor(result[i].lot), Left[result[i].lot])]
        BY <1>7, <1>13 DEF DrawnRight
      <4>3. result[i].points = Smaller(NeedFor(result[i].lot), Left[result[i].lot])
        BY <4>2
      <4>4. result[i].lot \in Wanted
        BY <1>12, <1>13, TakenFacts DEF WalkInv, Taken
      <4>5. Left[result[i].lot] \in Nat /\ NeedFor(result[i].lot) \in Int
        <5>1. NeedFor(result[i].lot) \in Int
          BY <1>1, LeftType, NeedAtType DEF NeedFor
        <5>2. QED
          BY <1>8, <4>4, <5>1
      <4>6. QED
        BY <4>1, <4>2, <4>3, <4>5 DEF Smaller
    <3>3. g[m + 1] = d
      BY <1>10, <1>12, <1>13, <3>1
    <3> HIDE DEF f, g
    <3>4. SumOver(g, 1..m) = SumOver(f, 1..m)
      BY <3>2, SumCongruent
    <3>5. IsFiniteSet(1..m) /\ m + 1 \notin 1..m /\ (1..m) \cup {m + 1} = 1..m + 1
      <4>1. IsFiniteSet(1..m)
        BY <1>12, <1>13, FS_Interval
      <4>2. m \in Nat
        BY <1>12, <1>13
      <4>3. QED
        BY <4>1, <4>2
    <3> DEFINE S == 1..m
    <3>6. \A i \in S : g[i] \in Nat /\ f[i] \in Nat
      BY <3>2
    <3>7. g[m + 1] \in Nat
      BY <1>9, <3>3
    <3> HIDE DEF S
    <3>8. \A i \in S \cup {m + 1} : g[i] \in Nat
      BY <3>6, <3>7
    <3>9. IsFiniteSet(S) /\ m + 1 \notin S
      BY <3>5 DEF S
    <3>10. SumOver(g, S \cup {m + 1}) = SumOver(g, S) + g[m + 1]
      BY <3>8, <3>9, SumAdd
    <3>11. SumOver(f, S) \in Nat
      BY <3>6, <3>9, SumType
    <3>12. SumOver(g, 1..m + 1) = SumOver(f, 1..m) + d
      BY <3>3, <3>4, <3>5, <3>10 DEF S
    <3>13. QED
      BY <3>11, <3>12 DEF f, g, S
  <2>2. SumOver(Left, Taken \cup {l}) = SumOver(Left, Taken) + Left[l]
        /\ SumOver(Left, Taken) \in Nat
    <3>1. /\ Taken \in SUBSET Wanted /\ IsFiniteSet(Taken) /\ SumOver(Left, Taken) \in Nat
      BY TakenFacts DEF WalkInv
    <3>2. \A a \in Taken \cup {l} : Left[a] \in Nat
      BY <1>6, <1>8, <3>1
    <3>3. QED
      BY <1>6, <3>1, <3>2, SumAdd
  <2>3. /\ SumOver(Points, 1..m) + need = in.points
        /\ need = in.points - SumOver(Left, Taken)
    BY <1>6, <1>7, <1>12, <1>13 DEF NeedRight
  <2>4. SumOver(Points, DOMAIN result)' = SumOver(Points, 1..m) + d
    BY <1>12, <1>13, <2>1
  <2>5. SumOver(Left, Taken)' = SumOver(Left, Taken) + Left[l]
    BY <1>15, <1>16, <2>2
  <2>6. SumOver(Points, 1..m) + d + (need - d) = in.points
    BY <1>6, <1>8, <1>9, <2>1, <2>3
  <2>7. /\ in.points - (SumOver(Left, Taken) + Left[l]) <= need - d
        /\ need - d > 0 => need - d = in.points - (SumOver(Left, Taken) + Left[l])
    BY <1>6, <1>8, <1>9, <2>2, <2>3
  <2>8. QED
    BY <1>5, <2>4, <2>5, <2>6, <2>7 DEF NeedRight
<1>23. Drawing'
  <2>1. \A a \in DOMAIN Left \ (Taken \cup {l}) : remaining'[a] = Left[a]
    BY <1>7, <1>17
  <2>2. (\A a \in DOMAIN Left \ Taken : remaining[a] = Left[a])'
    BY <1>15, <1>16, <2>1
  <2>3. QED
    BY <1>21, <1>22, <2>2 DEF Drawing
<1>24. Collecting' /\ NothingToPay' /\ WalkMatchesAllocation'
  BY <1>5 DEF Collecting, NothingToPay, WalkMatchesAllocation, Returned
<1>25. QED
  BY <1>19, <1>20, <1>23, <1>24 DEF WalkInv

(***************************************************************************)
(* When the loop ends with nothing left to pay, the draws are those of the *)
(* closed form: a lot not reached would find nothing needed.               *)
(***************************************************************************)
LEMMA PaidInFull ==
  ASSUME WalkInv, pc = "draw", need = 0
  PROVE  /\ Fundable(in.month, Left, in.checkIn, in.points)
         /\ Members(result) = AllocateStayPoints(in.month, Left, in.checkIn, in.points)
<1>1. /\ TypeInv /\ in \in Inputs /\ in.points > 0 /\ in.points \in Int
      /\ Members(candidates) = Wanted \ Taken
      /\ (\A a \in Taken, b \in Members(candidates) : Comes(a, b))
      /\ DrawnRight /\ NeedRight
  BY LeftType DEF WalkInv, TypeInv, ToCome, Drawing, Walked
<1>2. /\ Taken \in SUBSET Wanted /\ IsFiniteSet(Taken) /\ SumOver(Left, Taken) \in Nat
      /\ SumOver(Left, Wanted) \in Nat /\ SumOver(Left, Taken) <= SumOver(Left, Wanted)
  BY <1>1, TakenFacts
<1>3. in.points <= SumOver(Left, Taken)
  BY <1>1, <1>2 DEF NeedRight
<1>4. Fundable(in.month, Left, in.checkIn, in.points)
  <2>1. Capacity(in.month, Left, in.checkIn) = SumOver(Left, Wanted)
    BY DEF Capacity, Wanted
  <2>2. QED
    BY <1>1, <1>2, <1>3, <2>1 DEF Fundable
<1> DEFINE row(a) == [lot |-> a, rank |-> Rank(in.month, in.checkIn, a),
                      points |-> Smaller(NeedFor(a), Left[a])]
           D == AllocateStayPoints(in.month, Left, in.checkIn, in.points)
<1>5. D = {row(a) : a \in {w \in Wanted : NeedFor(w) > 0}}
  BY DEF AllocateStayPoints, Wanted, NeedFor
<1>6. DOMAIN result = 1..Len(result)
  BY <1>1 DEF TypeInv
<1>7. \A i \in 1..Len(result) : NeedFor(result[i].lot) > 0 /\ result[i] = row(result[i].lot)
  BY <1>1 DEF DrawnRight
<1>8. \A i \in 1..Len(result) : result[i].lot \in Wanted
  BY <1>2, <1>6 DEF Taken
<1>9. ASSUME NEW a \in Wanted, NeedFor(a) > 0
      PROVE  a \in Taken
  <2>1. SUFFICES ASSUME a \notin Taken
                 PROVE  FALSE
    OBVIOUS
  <2> DEFINE before == {b \in Wanted : Comes(b, a)}
  <2>2. Taken \in SUBSET before
    BY <1>1, <1>2, <1>9, <2>1
  <2>3. before \in SUBSET Wanted /\ IsFiniteSet(before) /\ \A b \in before : Left[b] \in Nat
    <3>1. before \in SUBSET Wanted
      OBVIOUS
    <3> HIDE DEF before
    <3>2. QED
      BY <1>1, <3>1, WantedFacts, FS_Subset
  <2>4. NeedFor(a) = in.points - SumOver(Left, before)
    BY DEF NeedFor, NeedAt, Wanted, Comes
  <2> HIDE DEF before
  <2>5. SumOver(Left, Taken) <= SumOver(Left, before) /\ SumOver(Left, before) \in Nat
    BY <2>2, <2>3, SumMonotone, SumType
  <2>6. QED
    BY <1>1, <1>2, <1>3, <1>9, <2>4, <2>5
<1> HIDE DEF row, D
<1>10. Members(result) = D
  <2>1. Members(result) \subseteq D
    BY <1>5, <1>6, <1>7, <1>8 DEF Members
  <2>2. ASSUME NEW a \in Wanted, NeedFor(a) > 0
        PROVE  row(a) \in Members(result)
    <3>1. PICK i \in 1..Len(result) : a = result[i].lot
      BY <1>6, <1>9, <2>2 DEF Taken
    <3>2. QED
      BY <1>6, <1>7, <3>1 DEF Members
  <2>3. QED
    BY <1>5, <2>1, <2>2
<1>11. QED
  BY <1>4, <1>10 DEF D

(***************************************************************************)
(* When the loop runs out of lots with something left to pay, everything   *)
(* the stay could use is drawn and is not enough.                          *)
(***************************************************************************)
LEMMA RunsShort ==
  ASSUME WalkInv, pc = "draw", need # 0, candidates = <<>>
  PROVE  ~Fundable(in.month, Left, in.checkIn, in.points)
<1>1. /\ TypeInv /\ in \in Inputs /\ in.points > 0 /\ in.points \in Int
      /\ Members(candidates) = Wanted \ Taken /\ NeedRight
      /\ need \in Smaller(0, in.points)..in.points
  BY LeftType DEF WalkInv, TypeInv, ToCome, Drawing, Walked
<1>2. Taken = Wanted /\ SumOver(Left, Wanted) \in Nat
  <2>1. Members(candidates) = {}
    BY DEF Members
  <2>2. QED
    BY <1>1, <2>1, TakenFacts
<1>3. need > 0
  BY <1>1 DEF Smaller
<1>4. in.points > SumOver(Left, Wanted)
  BY <1>1, <1>2, <1>3 DEF NeedRight
<1>5. Capacity(in.month, Left, in.checkIn) = SumOver(Left, Wanted)
  BY DEF Capacity, Wanted
<1>6. QED
  BY <1>1, <1>2, <1>4, <1>5 DEF Fundable

(***************************************************************************)
(* The call returns what it should.                                        *)
(***************************************************************************)
LEMMA ReturnStep ==
  ASSUME WalkInv, Return
  PROVE  WalkInv'
<1>1. /\ pc = "draw" /\ (need = 0 \/ candidates = <<>>)
      /\ pc' = (IF need = 0 THEN "done" ELSE "short")
      /\ result' = (IF need = 0 THEN result ELSE <<>>)
      /\ in' = in /\ next' = next /\ candidates' = candidates
      /\ remaining' = remaining /\ need' = need
  BY DEF Return
<1>2. /\ Left' = Left /\ Wanted' = Wanted
      /\ (\A a, b : Comes(a, b)' <=> Comes(a, b)) /\ \A a : NeedFor(a)' = NeedFor(a)
  BY <1>1, SameCall
<1>3. TypeInv /\ in.points > 0 /\ in.points \in Int /\ ToCome /\ Drawing
  BY <1>1, LeftType DEF WalkInv, TypeInv, ToCome, Walked
<1>4. Collecting'
  BY <1>1 DEF Collecting
<1>5. NothingToPay'
  BY <1>1, <1>3 DEF NothingToPay
<1>6. CASE need = 0
  <2>1. result' = result /\ pc' = "done" /\ Taken' = Taken /\ Points' = Points
    BY <1>1, <1>6 DEF Taken, Points
  <2>2. TypeInv'
    BY <1>1, <1>2, <1>3, <2>1 DEF TypeInv, Pcs
  <2>3. ToCome'
    BY <1>1, <1>2, <1>3, <2>1 DEF ToCome, Walked
  <2>4. DrawnRight /\ NeedRight /\ \A lot \in DOMAIN Left \ Taken : remaining[lot] = Left[lot]
    BY <1>1, <1>3 DEF Drawing, Walked
  <2>5. DrawnRight'
    BY <1>1, <1>2, <2>1, <2>4 DEF DrawnRight
  <2>6. NeedRight'
    BY <1>1, <1>2, <2>1, <2>4 DEF NeedRight
  <2>7. Drawing'
    BY <1>1, <1>2, <2>1, <2>4, <2>5, <2>6 DEF Drawing
  <2>8. WalkMatchesAllocation'
    <3>1. /\ Fundable(in.month, Left, in.checkIn, in.points)
          /\ Members(result) = AllocateStayPoints(in.month, Left, in.checkIn, in.points)
      BY <1>1, <1>6, PaidInFull
    <3>2. DOMAIN result = 1..Len(result) /\ Len(result) \in Nat
      BY <1>3 DEF TypeInv
    <3>3. \A i, j \in DOMAIN result :
            i < j => DrawnBefore(in.month, in.checkIn, result[i].lot, result[j].lot)
      BY <2>4, <3>2 DEF DrawnRight, Comes
    <3>4. ~(in.points <= 0)
      BY <1>3
    <3>5. QED
      BY <1>1, <2>1, <3>1, <3>3, <3>4 DEF WalkMatchesAllocation, Left
  <2>9. QED
    BY <1>4, <1>5, <2>2, <2>3, <2>7, <2>8 DEF WalkInv
<1>7. CASE need # 0
  <2>1. result' = <<>> /\ pc' = "short" /\ candidates = <<>>
    BY <1>1, <1>7
  <2>2. TypeInv'
    <3>1. result' \in Seq([lot : Wanted, rank : Int, points : Int])
      BY <2>1
    <3>2. QED
      BY <1>1, <1>2, <1>3, <2>1, <3>1 DEF TypeInv, Pcs
  <2>3. ToCome' /\ Drawing'
    BY <2>1 DEF ToCome, Drawing, Walked
  <2>4. WalkMatchesAllocation'
    <3>1. ~Fundable(in.month, Left, in.checkIn, in.points)
      BY <1>1, <1>7, <2>1, RunsShort
    <3>2. QED
      BY <1>1, <2>1, <3>1 DEF WalkMatchesAllocation, Left
  <2>5. QED
    BY <1>4, <1>5, <2>2, <2>3, <2>4 DEF WalkInv
<1>8. QED
  BY <1>6, <1>7

(***************************************************************************)
(* No step of the call disturbs the invariant.                             *)
(***************************************************************************)
LEMMA WalkNext == WalkInv /\ [Next]_vars => WalkInv'
<1> SUFFICES ASSUME WalkInv, [Next]_vars
             PROVE  WalkInv'
  OBVIOUS
<1>1. CASE Collect
  BY <1>1, CollectStep
<1>2. CASE Sort
  BY <1>2, SortStep
<1>3. CASE Draw
  BY <1>3, DrawStep
<1>4. CASE Return
  BY <1>4, ReturnStep
<1>5. CASE UNCHANGED vars
  <2>1. /\ in' = in /\ pc' = pc /\ next' = next /\ candidates' = candidates
        /\ remaining' = remaining /\ need' = need /\ result' = result
    BY <1>5 DEF vars
  <2>2. /\ Left' = Left /\ Wanted' = Wanted
        /\ (\A a, b : Comes(a, b)' <=> Comes(a, b)) /\ \A a : NeedFor(a)' = NeedFor(a)
    BY <2>1, SameCall
  <2>3. Taken' = Taken /\ Points' = Points
    BY <2>1 DEF Taken, Points
  <2>4. TypeInv' /\ Collecting' /\ ToCome' /\ NothingToPay'
    BY <2>1, <2>2, <2>3 DEF WalkInv, TypeInv, Collecting, ToCome, Walked, NothingToPay
  <2>5. Drawing'
    BY <2>1, <2>2, <2>3 DEF WalkInv, Drawing, Walked, DrawnRight, NeedRight
  <2>6. WalkMatchesAllocation'
    BY <2>1 DEF WalkInv, WalkMatchesAllocation, Returned
  <2>7. QED
    BY <2>4, <2>5, <2>6 DEF WalkInv
<1>6. QED
  BY <1>1, <1>2, <1>3, <1>4, <1>5 DEF Next

-----------------------------------------------------------------------------
(* What the invariant gives. *)

(***************************************************************************)
(* Every draw takes something and leaves its lot at zero or more, and no   *)
(* lot is drawn twice.                                                     *)
(***************************************************************************)
LEMMA DrawsOneByOne ==
  ASSUME WalkInv, Walked
  PROVE  /\ DOMAIN result = 1..Len(result) /\ Len(result) \in Nat
         /\ \A i \in 1..Len(result) :
              /\ result[i].lot \in Taken /\ result[i].lot \in Wanted
              /\ result[i].rank = Rank(in.month, in.checkIn, result[i].lot)
              /\ result[i].points > 0 /\ remaining[result[i].lot] >= 0
              /\ i < Len(result) => remaining[result[i].lot] = 0
         /\ \A i, j \in 1..Len(result) : i < j => Comes(result[i].lot, result[j].lot)
         /\ \A i, j \in 1..Len(result) : result[i].lot = result[j].lot => i = j
<1>1. /\ in \in Inputs /\ TypeInv /\ DrawnRight
      /\ DOMAIN result = 1..Len(result) /\ Len(result) \in Nat
  BY DEF WalkInv, TypeInv, Drawing
<1>2. \A i \in 1..Len(result) : result[i].lot \in Taken
  BY <1>1 DEF Taken
<1>3. \A lot \in Wanted : /\ Left[lot] \in Nat \ {0} /\ ~Comes(lot, lot)
                          /\ NeedFor(lot) \in Int
  <2>1. \A lot \in Wanted : NeedFor(lot) \in Int
    BY <1>1, LeftType, NeedAtType DEF NeedFor
  <2>2. QED
    BY <1>1, <2>1, WantedFacts
<1>4. ASSUME NEW i \in 1..Len(result)
      PROVE  /\ result[i].lot \in Wanted
             /\ result[i].rank = Rank(in.month, in.checkIn, result[i].lot)
             /\ result[i].points > 0 /\ remaining[result[i].lot] >= 0
             /\ i < Len(result) => remaining[result[i].lot] = 0
  <2>1. PICK lot : lot = result[i].lot
    OBVIOUS
  <2>2. lot \in Wanted
    BY <1>1, <1>2, <2>1, TakenFacts
  <2>3. /\ NeedFor(lot) > 0
        /\ result[i] = [lot |-> lot, rank |-> Rank(in.month, in.checkIn, lot),
                        points |-> Smaller(NeedFor(lot), Left[lot])]
        /\ remaining[lot] = Left[lot] - result[i].points
        /\ i < Len(result) => remaining[lot] = 0
    BY <1>1, <2>1 DEF DrawnRight
  <2>4. result[i].points = Smaller(NeedFor(lot), Left[lot])
        /\ result[i].rank = Rank(in.month, in.checkIn, lot)
    BY <2>3
  <2>5. result[i].points > 0 /\ remaining[lot] >= 0
    BY <1>3, <2>2, <2>3, <2>4 DEF Smaller
  <2>6. QED
    BY <2>1, <2>2, <2>3, <2>4, <2>5
<1>5. \A i, j \in 1..Len(result) : i < j => Comes(result[i].lot, result[j].lot)
  BY <1>1 DEF DrawnRight
<1>6. \A i, j \in 1..Len(result) : result[i].lot = result[j].lot => i = j
  <2> TAKE i, j \in 1..Len(result)
  <2> HAVE result[i].lot = result[j].lot
  <2>1. ~Comes(result[i].lot, result[j].lot) /\ ~Comes(result[j].lot, result[i].lot)
    BY <1>3, <1>4
  <2>2. ~(i < j) /\ ~(j < i)
    BY <1>5, <2>1
  <2>3. QED
    BY <1>1, <2>2
<1>7. QED
  BY <1>1, <1>2, <1>4, <1>5, <1>6

(***************************************************************************)
(* TypeOK, DrawsAccounted and ExpiringFirst follow from the invariant.     *)
(***************************************************************************)
LEMMA WalkConsequences == WalkInv => TypeOK /\ DrawsAccounted /\ ExpiringFirst
<1> SUFFICES ASSUME WalkInv
             PROVE  TypeOK /\ DrawsAccounted /\ ExpiringFirst
  OBVIOUS
<1>1. /\ in \in Inputs /\ TypeInv /\ in.points \in Int
      /\ DOMAIN remaining = DOMAIN Left /\ Wanted \in SUBSET DOMAIN Left
  BY LeftType, WantedFacts DEF WalkInv, TypeInv
<1>2. TypeOK
  <2>1. DOMAIN remaining = {LotOf(row) : row \in Members(in.lots)}
    BY <1>1, LeftType
  <2>2. Members(candidates) \subseteq DOMAIN remaining
    <3>1. candidates \in Seq(Wanted)
      BY <1>1 DEF TypeInv
    <3>2. Members(candidates) \subseteq Wanted
      BY <3>1 DEF Members
    <3>3. QED
      BY <1>1, <3>2
  <2>3. QED
    BY <1>1, <2>1, <2>2 DEF TypeOK, TypeInv, Pcs
<1>3. DrawsAccounted
  <2>1. SUFFICES ASSUME pc \in {"draw", "done"}, in.points > 0
                 PROVE  /\ SumOver(Points, DOMAIN result) + need = in.points
                        /\ \A i \in DOMAIN result :
                             /\ result[i].points > 0
                             /\ \A j \in DOMAIN result :
                                  result[i].lot = result[j].lot => i = j
                        /\ \A i \in DOMAIN result : remaining[result[i].lot] >= 0
    BY DEF DrawsAccounted, Points
  <2>2. Walked
    BY <2>1 DEF Walked
  <2>3. NeedRight
    BY <2>2 DEF WalkInv, Drawing
  <2>4. QED
    BY <2>2, <2>3, DrawsOneByOne DEF NeedRight
<1>4. ExpiringFirst
  <2>1. SUFFICES ASSUME pc \in {"draw", "done"},
                        NEW i \in DOMAIN result, NEW lot \in DOMAIN remaining,
                        Eligible(in.month, in.checkIn, lot),
                        Rank(in.month, in.checkIn, lot) < result[i].rank
                 PROVE  remaining[lot] <= 0
    BY DEF ExpiringFirst
  <2>2. Walked
    <3>1. CASE pc = "draw"
      BY <3>1 DEF Walked
    <3>2. CASE pc = "done"
      <4>1. result # <<>>
        BY <2>1
      <4>2. in.points > 0
        BY <1>1, <3>2, <4>1 DEF WalkInv, NothingToPay
      <4>3. QED
        BY <3>2, <4>2 DEF Walked
    <3>3. QED
      BY <2>1, <3>1, <3>2
  <2>3. /\ Members(candidates) = Wanted \ Taken
        /\ \A a \in Taken, b \in Members(candidates) : Comes(a, b)
        /\ \A a \in DOMAIN Left \ Taken : remaining[a] = Left[a]
    BY <2>2 DEF WalkInv, ToCome, Drawing
  <2>4. PICK last : last = result[i].lot
    OBVIOUS
  <2>5. /\ last \in Taken /\ last \in Wanted
        /\ Rank(in.month, in.checkIn, lot) < Rank(in.month, in.checkIn, last)
    BY <2>1, <2>2, <2>4, DrawsOneByOne
  <2>6. CASE lot \notin Wanted
    <3>1. lot \in DOMAIN Left /\ ~(Left[lot] > 0) /\ Left[lot] \in Int
      BY <1>1, <2>1, <2>6, LeftType, WantedFacts
    <3>2. lot \notin Taken
      BY <1>1, <2>6, TakenFacts
    <3>3. QED
      BY <2>3, <3>1, <3>2
  <2>7. CASE lot \in Wanted
    <3>1. ~Comes(last, lot) /\ Comes(lot, last)
      <4>1. Rank(in.month, in.checkIn, lot) \in Int /\ Rank(in.month, in.checkIn, last) \in Int
        BY <1>1, <2>5, <2>7, WantedFacts
      <4>2. Comes(lot, last)
        BY <2>5 DEF Comes, DrawnBefore
      <4>3. ~Comes(last, lot)
        BY <2>5, <4>1 DEF Comes, DrawnBefore
      <4>4. QED
        BY <4>2, <4>3
    <3>2. lot \in Taken
      BY <2>3, <2>5, <2>7, <3>1
    <3>3. PICK j \in 1..Len(result) : lot = result[j].lot
      BY <2>2, <3>2, DrawsOneByOne DEF Taken
    <3>4. i \in 1..Len(result) /\ Len(result) \in Nat
      BY <2>2, DrawsOneByOne
    <3>5. j < i
      <4>1. ~(i < j)
        BY <2>2, <2>4, <3>1, <3>3, <3>4, DrawsOneByOne
      <4>2. i # j
        BY <2>4, <2>5, <3>1, <3>3, <1>1, WantedFacts
      <4>3. QED
        BY <3>4, <4>1, <4>2
    <3>6. j < Len(result)
      BY <3>4, <3>5
    <3>7. QED
      BY <2>2, <3>3, <3>6, DrawsOneByOne
  <2>8. QED
    BY <2>6, <2>7
<1>5. QED
  BY <1>2, <1>3, <1>4

-----------------------------------------------------------------------------
(* The theorems. *)

(***************************************************************************)
(* The invariant holds of every call of AllocateStayPoints.                *)
(***************************************************************************)
LEMMA WalkInvariant == Spec => []WalkInv
BY WalkInit, WalkNext, PTL DEF Spec

(***************************************************************************)
(* The loops stay within their lists and never need more than the price.   *)
(***************************************************************************)
THEOREM WalkTypes == Spec => []TypeOK
<1>1. WalkInv => TypeOK
  BY WalkConsequences
<1>2. QED
  BY <1>1, WalkInvariant, PTL

(***************************************************************************)
(* AllocateStayPoints returns the draws, in order, or the error that       *)
(* Allocation gives in closed form, for every list of lots and of draws:   *)
(* how the lists are ordered and split into rows makes no difference.      *)
(***************************************************************************)
THEOREM WalkComputesAllocation == Spec => []WalkMatchesAllocation
<1>1. WalkInv => WalkMatchesAllocation
  BY DEF WalkInv
<1>2. QED
  BY <1>1, WalkInvariant, PTL

(***************************************************************************)
(* At every turn of the loop the draws and the need add up to the price of *)
(* the stay, no lot is drawn twice and none below zero.                    *)
(***************************************************************************)
THEOREM EveryPointAccounted == Spec => []DrawsAccounted
<1>1. WalkInv => DrawsAccounted
  BY WalkConsequences
<1>2. QED
  BY <1>1, WalkInvariant, PTL

(***************************************************************************)
(* No lot is drawn from while a lot of an earlier disposition, of any      *)
(* contract, has points the stay could use: what expires first goes first. *)
(***************************************************************************)
THEOREM ExpiringPointsFirst == Spec => []ExpiringFirst
<1>1. WalkInv => ExpiringFirst
  BY WalkConsequences
<1>2. QED
  BY <1>1, WalkInvariant, PTL

=============================================================================
