------------------------------ MODULE CostBasis ------------------------------
(***************************************************************************)
(* What points cost in dollars: internal/ledger/cost.go and money.go.      *)
(* A basis is derived from the contracts and the stored dues rates and     *)
(* prices points by a contract's rate and the dues of a use year.          *)
(*                                                                         *)
(* contracts : id -> [annual, month, term, price, closing]                 *)
(* dues      : use year -> rate                                            *)
(***************************************************************************)
EXTENDS Integers, Sequences, FiniteSets, FiniteSetsExt, Sums

CONSTANTS
  microsPerCent,   \* 10 000 in the code
  duesGrowthBase   \* 1 000 000 in the code: TLC computes with 32 bits

ASSUME ScalesAssumption ==
  microsPerCent \in Nat \ {0} /\ duesGrowthBase \in Nat \ {0}

Absolute(n) == IF n < 0 THEN -n ELSE n

\* Division that rounds half away from zero.
MutantDivRound(n, d) ==  \* towards zero
  LET q == Absolute(n) \div Absolute(d)
  IN  IF (n < 0) # (d < 0) THEN -q ELSE q
divRound(n, d) ==
  LET up == 2 * (Absolute(n) % Absolute(d)) >= Absolute(d)
      q == Absolute(n) \div Absolute(d) + (IF up THEN 1 ELSE 0)
  IN  IF (n < 0) # (d < 0) THEN -q ELSE q

\* A contract without its price, term or points has no cost.
HasPrice(c) == c.term > 0 /\ c.price > 0 /\ c.closing >= 0 /\ c.annual > 0
PricePerPointYear(c) ==
  divRound((c.price + c.closing) * microsPerCent, c.annual * c.term)

\* The mean of the contracts' rates, weighted by their points.
MutantBlended(contracts) ==  \* unpriced contracts weigh in
  LET priced == {c \in DOMAIN contracts : HasPrice(contracts[c])}
  IN  divRound(SumOver([c \in priced |-> contracts[c].annual * PricePerPointYear(contracts[c])], priced),
               SumOver([c \in DOMAIN contracts |-> contracts[c].annual], DOMAIN contracts))
Blended(contracts) ==
  LET priced == {c \in DOMAIN contracts : HasPrice(contracts[c])}
  IN  IF priced = {} THEN 0
      ELSE divRound(SumOver([c \in priced |-> contracts[c].annual * PricePerPointYear(contracts[c])], priced),
                    SumOver([c \in priced |-> contracts[c].annual], priced))

\* Mean year-over-year growth, over pairs of stored years one year apart;
\* flat when there is none.
duesGrowth(dues) ==
  LET pairs == {y \in DOMAIN dues : y + 1 \in DOMAIN dues}
      ratio == [y \in pairs |-> divRound(dues[y + 1] * duesGrowthBase, dues[y])]
  IN  IF pairs = {} THEN duesGrowthBase
      ELSE divRound(SumOver(ratio, pairs), Cardinality(pairs))

UseYearStartMonth(contracts) ==
  IF DOMAIN contracts = {} THEN 1 ELSE contracts[Min(DOMAIN contracts)].month

NewCostBasis(contracts, dues) ==
  LET priced == {c \in DOMAIN contracts : HasPrice(contracts[c])}
      stored == [y \in {z \in DOMAIN dues : dues[z] > 0} |-> dues[y]]
  IN  [rates   |-> [c \in priced |-> PricePerPointYear(contracts[c])],
       blended |-> Blended(contracts),
       dues    |-> stored,
       growth  |-> duesGrowth(stored),
       month   |-> UseYearStartMonth(contracts)]

Known(basis) == DOMAIN basis.rates # {} /\ DOMAIN basis.dues # {}

\* The basis of a planner page that could not get one: its month is none.
ZeroBasis == [rates |-> << >>, blended |-> 0, dues |-> << >>, growth |-> 0, month |-> 0]

RateFor(basis, contract) ==
  IF contract \in DOMAIN basis.rates THEN basis.rates[contract] ELSE basis.blended

\* One year forwards from a rate, and one year backwards.
MutantBackward(basis, rate) == divRound(rate * basis.growth, duesGrowthBase)
Forward(basis, rate) == divRound(rate * basis.growth, duesGrowthBase)
Backward(basis, rate) == divRound(rate * duesGrowthBase, basis.growth)

compoundDues(basis, year, steps) ==
  LET ahead[n \in Nat] == IF n = 0 THEN basis.dues[year] ELSE Forward(basis, ahead[n - 1])
      back[n \in Nat] == IF n = 0 THEN basis.dues[year] ELSE Backward(basis, back[n - 1])
  IN  IF basis.growth <= 0 THEN basis.dues[year]
      ELSE IF steps >= 0 THEN ahead[steps] ELSE back[-steps]

\* The rate of a stored year, or one projected from the nearest stored year
\* below, or else from the first.
DuesFor(basis, year) ==
  LET below == {y \in DOMAIN basis.dues : y <= year}
  IN  IF DOMAIN basis.dues = {} THEN [rate |-> 0, projected |-> FALSE]
      ELSE LET from == IF below = {} THEN Min(DOMAIN basis.dues) ELSE Max(below)
           IN  [rate |-> compoundDues(basis, from, year - from), projected |-> from # year]

PointCost(points, rate, dues) == divRound(points * (rate + dues), microsPerCent)

\* Nothing is priced without a rate and dues, nor are points nobody used.
Cost(basis, points, year, contract) ==
  IF ~Known(basis) \/ points <= 0
  THEN [cents |-> 0, projected |-> FALSE, known |-> FALSE]
  ELSE [cents     |-> PointCost(points, RateFor(basis, contract), DuesFor(basis, year).rate),
        projected |-> DuesFor(basis, year).projected,
        known     |-> TRUE]

=============================================================================
