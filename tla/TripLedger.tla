----------------------------- MODULE TripLedger -----------------------------
(***************************************************************************)
(* What booking promises, without transactions, locks or link rows: a stay *)
(* is paid in full or not at all, a booking pays for stays of one trip in  *)
(* one step, and no lot of points is ever spent beyond the room it has.    *)
(* Booking implements this module.                                         *)
(***************************************************************************)
EXTENDS Integers, FiniteSets, Sums

CONSTANTS Stays, TripOf, Price

VARIABLES
  live,   \* the stays on trips
  draws,  \* records [id, stay, lot, points]: the points of lot that pay for stay
  room    \* points each lot may be spent on stays

vars == <<live, draws, room>>

Points(D) == SumOver([d \in D |-> d.points], D)
Charged(D, s) == Points({d \in D : d.stay = s})
Spent(D, lot) == Points({d \in D : d.lot = lot})

PaidFor(D) == {d.stay : d \in D}

InFull(D) == \A s \in PaidFor(D) : Charged(D, s) = Price[s]
WithinRoom(D) == \A lot \in DOMAIN room : Spent(D, lot) <= room[lot]

OneTrip(S) == \A s, t \in S : TripOf[s] = TripOf[t]

Init ==
  /\ live \subseteq Stays
  /\ IsFiniteSet(draws)
  /\ \A d \in draws : d.stay \in live /\ d.lot \in DOMAIN room /\ d.points \in Nat \ {0}
  /\ \A lot \in DOMAIN room : room[lot] \in Nat
  /\ InFull(draws) /\ WithinRoom(draws)

\* Some unpaid stays of a trip are paid for, from the lots.
Book ==
  LET new == draws' \ draws IN
  /\ draws \subseteq draws'
  /\ new # {} /\ IsFiniteSet(new)
  /\ \A d \in new : d.stay \in live /\ d.lot \in DOMAIN room /\ d.points \in Nat \ {0}
  /\ OneTrip(PaidFor(new))
  /\ PaidFor(new) \cap PaidFor(draws) = {}
  /\ InFull(new) /\ WithinRoom(draws')
  /\ UNCHANGED <<live, room>>

\* Stays of a trip are unbooked: everything they were charged is given back.
Unbook ==
  \E S \in SUBSET live :
    /\ OneTrip(S)
    /\ draws' = {d \in draws : d.stay \notin S}
    /\ UNCHANGED <<live, room>>

AddStay ==
  /\ \E s \in Stays \ live : live' = live \cup {s}
  /\ UNCHANGED <<draws, room>>

Next == Book \/ Unbook \/ AddStay

Spec == Init /\ [][Next]_vars

=============================================================================
