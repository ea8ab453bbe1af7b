--------------------------- MODULE CheckoutProofs ---------------------------
(***************************************************************************)
(* Theorems of the checkout and of the reservation engine it calls, for    *)
(* any lots, seats, holds, orders, sessions, buyers and deadlines:         *)
(*                                                                         *)
(*   1. what each statement of the lots and of the engine keeps, for any   *)
(*      table it may be applied to;                                        *)
(*   2. the invariant of the tables: types, seats and counters, who owns   *)
(*      a hold, and what the live sessions reserve of a lot;               *)
(*   3. the tickets: how many are issued, for which order, and that none   *)
(*      is lost;                                                           *)
(*   4. the steps of SeatSales, which are all that is seen of the seats;   *)
(*   5. the anti-hole rule.                                                *)
(***************************************************************************)
EXTENDS Checkout, Sums

-----------------------------------------------------------------------------
(***************************************************************************)
(* Facts about the statements of the lot counters and of the reservation   *)
(* engine, for any table they may be applied to.  Sound is what every      *)
(* statement keeps: live holds own their seats, tickets and occupied seats  *)
(* agree, and the tickets are finitely many, so that they can be counted.  *)
(***************************************************************************)

-----------------------------------------------------------------------------
(* The lot counters                                                        *)

\* catalog.go, GREATEST(held_count - n, 0): the floor stays between 0 and held.
LEMMA FloorBounds == ASSUME NEW a \in Nat, NEW b \in Nat PROVE Floor(a, b) \in 0..a
BY DEF Floor

\* Giving capacity back keeps the counters natural and takes no lot over quantity.
LEMMA LotsReleased ==
    ASSUME NEW lt \in [Lots -> Counters], NEW owed \in [Lots -> Nat]
    PROVE  /\ ReleaseFromLots(lt, owed) \in [Lots -> Counters]
           /\ CapacityChk(lt) => CapacityChk(ReleaseFromLots(lt, owed))
<1>1. ASSUME NEW l \in Lots PROVE Floor(lt[l].held, owed[l]) \in 0..lt[l].held
  BY FloorBounds DEF Counters
<1>2. ReleaseFromLots(lt, owed) \in [Lots -> Counters]
  BY <1>1 DEF ReleaseFromLots, Counters
<1>3. ASSUME CapacityChk(lt), NEW l \in Lots
      PROVE  ReleaseFromLots(lt, owed)[l].sold + ReleaseFromLots(lt, owed)[l].held <= Quantity[l]
  <2>1. lt[l].sold + lt[l].held <= Quantity[l]
    BY <1>3 DEF CapacityChk
  <2>2. /\ ReleaseFromLots(lt, owed)[l].sold = lt[l].sold
        /\ ReleaseFromLots(lt, owed)[l].held = Floor(lt[l].held, owed[l])
    BY DEF ReleaseFromLots, Counters
  <2> QED BY <2>1, <2>2, <1>1, QuantityAssumption DEF Counters
<1> QED BY <1>2, <1>3 DEF CapacityChk

\* A reservation that fits keeps the lot within its quantity.
LEMMA LotReserved ==
    ASSUME NEW lt \in [Lots -> Counters], NEW l \in Lots, NEW qty \in Nat, Fits(lt, l, qty)
    PROVE  /\ ReserveFromLot(lt, l, qty) \in [Lots -> Counters]
           /\ CapacityChk(lt) => CapacityChk(ReserveFromLot(lt, l, qty))
<1>1. ReserveFromLot(lt, l, qty) \in [Lots -> Counters]
  BY DEF ReserveFromLot, Counters
<1>2. ASSUME CapacityChk(lt), NEW x \in Lots
      PROVE  ReserveFromLot(lt, l, qty)[x].sold + ReserveFromLot(lt, l, qty)[x].held <= Quantity[x]
  <2>1. CASE x = l
    BY <2>1, QuantityAssumption DEF ReserveFromLot, Fits, Counters
  <2>2. CASE x # l
    BY <2>2, <1>2 DEF ReserveFromLot, CapacityChk
  <2> QED BY <2>1, <2>2
<1> QED BY <1>1, <1>2 DEF CapacityChk

\* Confirming moves units from held to sold and leaves natural counters.
LEMMA LotConfirmed ==
    ASSUME NEW lt \in [Lots -> Counters], NEW l \in Lots, NEW qty \in Nat
    PROVE  ConfirmFromLot(lt, l, qty) \in [Lots -> Counters]
<1>1. Floor(lt[l].held, qty) \in Nat
  BY FloorBounds DEF Counters
<1> QED BY <1>1 DEF ConfirmFromLot, Counters

-----------------------------------------------------------------------------
(* The reservation engine                                                  *)

Sound(iv) ==
    /\ iv \in Tables
    /\ IsFiniteSet(iv.tickets)
    /\ \A h \in Holds : CanConfirm(iv, h) =>
          \A s \in iv.hold[h].seats : /\ iv.occ[s].kind = "hold"
                                      /\ iv.occ[s].hold = h
                                      /\ iv.occ[s].left >= iv.hold[h].left
    /\ \A s \in Seats : iv.occ[s].kind = "hold" =>
          /\ iv.occ[s].hold \in Holds
          /\ iv.hold[iv.occ[s].hold].status # "none"
          /\ s \in iv.hold[iv.occ[s].hold].seats
    /\ \A s \in Seats : iv.occ[s].kind = "ticket" =>
          iv.occ[s].ticket \in iv.tickets /\ iv.occ[s].ticket.seat = s
    /\ \A t \in iv.tickets : t.seat \in Seats =>
          iv.occ[t.seat].kind = "ticket" /\ iv.occ[t.seat].ticket = t

\* The empty tables are sound.
LEMMA SoundEmpty == Sound(Empty)
BY InventoryAssumption, FS_EmptySet DEF Sound, Empty, Free, Tables, Occupancy, HoldRow, CanConfirm

\* Freeing seats whose hold cannot be confirmed any more keeps the tables sound.
LEMMA SoundFreed ==
    ASSUME NEW iv, Sound(iv), NEW S \in SUBSET Seats,
           \A s \in S : iv.occ[s].kind = "hold" /\ ~CanConfirm(iv, iv.occ[s].hold)
    PROVE  Sound(Freed(iv, S))
<1> DEFINE fv == Freed(iv, S)
<1>1. /\ fv.hold = iv.hold
      /\ fv.tickets = iv.tickets
      /\ fv.occ = [s \in Seats |-> IF s \in S THEN Free ELSE iv.occ[s]]
  BY DEF Freed, Sound, Tables
<1>2. fv \in Tables
  BY DEF Freed, Sound, Tables, Free, Occupancy
<1>3. \A h \in Holds : CanConfirm(fv, h) <=> CanConfirm(iv, h)
  BY <1>1 DEF CanConfirm
<1> HIDE DEF fv
<1>4. ASSUME NEW h \in Holds, CanConfirm(fv, h), NEW s \in fv.hold[h].seats
      PROVE  fv.occ[s].kind = "hold" /\ fv.occ[s].hold = h /\ fv.occ[s].left >= fv.hold[h].left
  BY <1>1, <1>3, <1>4 DEF Sound, Tables, HoldRow
<1>5. \A s \in Seats : fv.occ[s].kind = "hold" =>
         /\ fv.occ[s].hold \in Holds
         /\ fv.hold[fv.occ[s].hold].status # "none"
         /\ s \in fv.hold[fv.occ[s].hold].seats
  BY <1>1 DEF Sound, Free
<1>6. \A s \in Seats : fv.occ[s].kind = "ticket" =>
         fv.occ[s].ticket \in fv.tickets /\ fv.occ[s].ticket.seat = s
  BY <1>1 DEF Sound, Free
<1>7. \A t \in fv.tickets : t.seat \in Seats =>
         fv.occ[t.seat].kind = "ticket" /\ fv.occ[t.seat].ticket = t
  BY <1>1 DEF Sound
<1> QED BY <1>1, <1>2, <1>4, <1>5, <1>6, <1>7 DEF Sound, fv

\* Hold: new seats for a new hold; the seats it takes were free or overdue, so no
\* hold that could be confirmed loses one.
LEMMA SoundHold ==
    ASSUME NEW iv, Sound(iv), NEW h \in Holds, iv.hold[h].status = "none",
           NEW S \in SUBSET Seats, CanHold(iv, S)
    PROVE  Sound(Hold(iv, h, S))
<1> DEFINE nv == Hold(iv, h, S)
           row == [status |-> "held", seats |-> S, order |-> NoOrder, left |-> HoldTTL]
<1>1. /\ nv.hold = [iv.hold EXCEPT ![h] = row]
      /\ nv.tickets = iv.tickets
      /\ nv.occ = [s \in Seats |-> IF s \in S THEN HeldUntil(h, HoldTTL) ELSE iv.occ[s]]
  BY DEF Hold, Sound, Tables
<1>2. nv \in Tables
  <2>1. row \in HoldRow /\ HeldUntil(h, HoldTTL) \in Occupancy
    BY InventoryAssumption DEF HeldUntil, Occupancy, HoldRow
  <2> QED BY <2>1 DEF Hold, Sound, Tables
<1>3. ASSUME NEW s \in S
      PROVE  iv.occ[s].kind = "free" \/ (iv.occ[s].kind = "hold" /\ iv.occ[s].left <= 0)
  <2>1. Freed(iv, Overdue(iv) \cap S).occ[s].kind = "free"
    BY <1>3 DEF CanHold
  <2>2. s \notin Overdue(iv) => Freed(iv, Overdue(iv) \cap S).occ[s] = iv.occ[s]
    BY <1>3 DEF Freed, Sound, Tables
  <2>3. CASE s \in Overdue(iv)
    BY <2>3 DEF Overdue
  <2>4. CASE s \notin Overdue(iv)
    BY <2>1, <2>2, <2>4
  <2> QED BY <2>3, <2>4
<1> HIDE DEF nv
<1>4. ASSUME NEW x \in Holds, CanConfirm(nv, x), NEW s \in nv.hold[x].seats
      PROVE  nv.occ[s].kind = "hold" /\ nv.occ[s].hold = x /\ nv.occ[s].left >= nv.hold[x].left
  <2>1. CASE x = h
    BY <2>1, <1>1, <1>4, InventoryAssumption DEF HeldUntil, Sound, Tables
  <2>2. CASE x # h
    <3>1. nv.hold[x] = iv.hold[x] /\ CanConfirm(iv, x)
      BY <2>2, <1>1, <1>4 DEF CanConfirm, Sound, Tables
    <3>2. /\ s \in Seats
          /\ iv.occ[s].kind = "hold" /\ iv.occ[s].hold = x /\ iv.occ[s].left >= iv.hold[x].left
      BY <3>1, <1>4 DEF Sound, Tables, HoldRow
    <3>3. iv.hold[x].left > 0 /\ iv.hold[x].left \in Nat /\ iv.occ[s].left \in Int
      BY <3>1, <3>2 DEF CanConfirm, Sound, Tables, HoldRow, Occupancy
    <3>4. s \notin S
      BY <3>2, <3>3, <1>3
    <3> QED BY <3>1, <3>2, <3>4, <1>1
  <2> QED BY <2>1, <2>2
<1>5. \A s \in Seats : nv.occ[s].kind = "hold" =>
         /\ nv.occ[s].hold \in Holds
         /\ nv.hold[nv.occ[s].hold].status # "none"
         /\ s \in nv.hold[nv.occ[s].hold].seats
  BY <1>1 DEF Sound, HeldUntil, Tables
<1>6. \A s \in Seats : nv.occ[s].kind = "ticket" =>
         nv.occ[s].ticket \in nv.tickets /\ nv.occ[s].ticket.seat = s
  BY <1>1 DEF Sound, HeldUntil
<1>7. \A t \in nv.tickets : t.seat \in Seats =>
         nv.occ[t.seat].kind = "ticket" /\ nv.occ[t.seat].ticket = t
  BY <1>1, <1>3 DEF Sound
<1> QED BY <1>1, <1>2, <1>4, <1>5, <1>6, <1>7 DEF Sound, nv

\* Tables that differ from sound ones only in holds that are over.
LEMMA SoundHoldsOver ==
    ASSUME NEW iv, Sound(iv), NEW hd \in [Holds -> HoldRow],
           \A h \in Holds : /\ hd[h].seats = iv.hold[h].seats
                            /\ hd[h].left = iv.hold[h].left
                            /\ hd[h].status = "none" => iv.hold[h].status = "none"
                            /\ hd[h].status = "held" => iv.hold[h].status = "held"
    PROVE  Sound([iv EXCEPT !.hold = hd])
<1> DEFINE nv == [iv EXCEPT !.hold = hd]
<1>1. nv.hold = hd /\ nv.tickets = iv.tickets /\ nv.occ = iv.occ /\ nv \in Tables
  BY DEF Sound, Tables
<1> HIDE DEF nv
<1>2. \A h \in Holds : CanConfirm(nv, h) => CanConfirm(iv, h)
  BY <1>1 DEF CanConfirm
<1> QED BY <1>1, <1>2 DEF Sound, nv

\* Release: what the holds H occupy is freed and they can never be confirmed.
LEMMA SoundRelease ==
    ASSUME NEW iv, Sound(iv), NEW H
    PROVE  Sound(Release(iv, H))
<1> DEFINE hd == [h \in Holds |-> IF h \in H /\ iv.hold[h].status = "held"
                                  THEN [iv.hold[h] EXCEPT !.status = "released"] ELSE iv.hold[h]]
           rv == [iv EXCEPT !.hold = hd]
<1>1. hd \in [Holds -> HoldRow]
  BY DEF Sound, Tables, HoldRow
<1>2. \A h \in Holds : /\ hd[h].seats = iv.hold[h].seats
                       /\ hd[h].left = iv.hold[h].left
                       /\ hd[h].status = "none" => iv.hold[h].status = "none"
                       /\ hd[h].status = "held" => iv.hold[h].status = "held" /\ h \notin H
  BY DEF Sound, Tables, HoldRow
<1>3. Sound(rv)
  <2> HIDE DEF hd
  <2> QED BY <1>1, <1>2, SoundHoldsOver
<1>4. /\ rv.occ = iv.occ
      /\ rv.hold = hd
      /\ HeldBy(rv, H) = HeldBy(iv, H)
  BY DEF HeldBy, Sound, Tables
<1>5. \A s \in HeldBy(iv, H) : rv.occ[s].kind = "hold" /\ ~CanConfirm(rv, rv.occ[s].hold)
  <2> HIDE DEF hd, rv
  <2> QED BY <1>2, <1>4 DEF HeldBy, CanConfirm, Sound
<1>6. Sound(Freed(rv, HeldBy(iv, H)))
  <2> HIDE DEF rv
  <2> QED BY <1>3, <1>5, SoundFreed DEF HeldBy
<1>7. Release(iv, H) = Freed(rv, HeldBy(iv, H))
  <2> DEFINE oc == [s \in Seats |-> IF s \in HeldBy(iv, H) THEN Free ELSE iv.occ[s]]
  <2>1. Freed(iv, HeldBy(iv, H)) = [iv EXCEPT !.occ = oc] /\ [iv EXCEPT !.occ = oc].hold = iv.hold
    BY DEF Freed, Sound, Tables
  <2>2. Release(iv, H) = [[iv EXCEPT !.occ = oc] EXCEPT !.hold = hd]
    BY <2>1 DEF Release
  <2>3. Freed(rv, HeldBy(iv, H)) = [[iv EXCEPT !.hold = hd] EXCEPT !.occ = oc]
    BY <1>4 DEF Freed
  <2> HIDE DEF oc, hd
  <2> QED BY <2>2, <2>3 DEF Sound, Tables
<1> QED BY <1>6, <1>7

\* ExpireDue: overdue occupancies are freed, overdue holds expire.
LEMMA SoundExpireDue ==
    ASSUME NEW iv, Sound(iv)
    PROVE  Sound(ExpireDue(iv))
<1> DEFINE hd == [h \in Holds |-> IF iv.hold[h].status = "held" /\ iv.hold[h].left = 0
                                  THEN [iv.hold[h] EXCEPT !.status = "expired"] ELSE iv.hold[h]]
           fv == Freed(iv, Overdue(iv))
<1>1. \A s \in Overdue(iv) : iv.occ[s].kind = "hold" /\ ~CanConfirm(iv, iv.occ[s].hold)
  <2> SUFFICES ASSUME NEW s \in Overdue(iv), CanConfirm(iv, iv.occ[s].hold) PROVE FALSE
    BY DEF Overdue
  <2> DEFINE h == iv.occ[s].hold
  <2>1. s \in Seats /\ iv.occ[s].kind = "hold" /\ iv.occ[s].left <= 0 /\ iv.occ[s].left \in Int
    BY DEF Overdue, Sound, Tables, Occupancy
  <2>2. h \in Holds /\ s \in iv.hold[h].seats /\ iv.hold[h].left \in Nat
    BY <2>1 DEF Sound, Tables, HoldRow
  <2>3. iv.hold[h].left > 0 /\ iv.occ[s].left >= iv.hold[h].left
    BY <2>2 DEF Sound, CanConfirm
  <2> QED BY <2>1, <2>2, <2>3
<1>2. Sound(fv)
  BY <1>1, SoundFreed DEF Overdue
<1>3. fv.hold = iv.hold
  BY DEF Freed, Sound, Tables
<1>4. hd \in [Holds -> HoldRow]
  BY DEF Sound, Tables, HoldRow
<1>5. \A h \in Holds : /\ hd[h].seats = fv.hold[h].seats
                       /\ hd[h].left = fv.hold[h].left
                       /\ hd[h].status = "none" => fv.hold[h].status = "none"
                       /\ hd[h].status = "held" => fv.hold[h].status = "held"
  BY <1>3 DEF Sound, Tables, HoldRow
<1>6. ExpireDue(iv) = [fv EXCEPT !.hold = hd]
  BY <1>3 DEF ExpireDue, Freed, Sound, Tables
<1> QED
  <2> HIDE DEF hd, fv
  <2> QED BY <1>2, <1>4, <1>5, <1>6, SoundHoldsOver

\* The grace moves the deadline of occupancies further, and nothing else.
LEMMA SoundExtend ==
    ASSUME NEW iv, Sound(iv), NEW H
    PROVE  Sound(Extend(iv, H))
<1> DEFINE nv == Extend(iv, H)
           oc == [s \in Seats |-> IF s \in HeldBy(iv, H)
                                  THEN [iv.occ[s] EXCEPT !.left = @ + AuthGrace] ELSE iv.occ[s]]
<1>1. nv.hold = iv.hold /\ nv.tickets = iv.tickets /\ nv.occ = oc
  <2>1. nv = [iv EXCEPT !.occ = oc]
    BY DEF Extend
  <2> HIDE DEF oc, nv
  <2> QED BY <2>1 DEF Sound, Tables
<1>2. \A s \in Seats : /\ nv.occ[s].kind = iv.occ[s].kind
                       /\ nv.occ[s].hold = iv.occ[s].hold
                       /\ nv.occ[s].ticket = iv.occ[s].ticket
                       /\ nv.occ[s].left >= iv.occ[s].left
                       /\ nv.occ[s] \in Occupancy
  <2>1. AuthGrace \in Nat
    BY InventoryAssumption
  <2> QED BY <1>1, <2>1 DEF Sound, Tables, Occupancy
<1>3. nv \in Tables
  <2>1. nv = [iv EXCEPT !.occ = nv.occ]
    BY <1>1 DEF Extend
  <2>2. nv.occ \in [Seats -> Occupancy]
    BY <1>1, <1>2
  <2> HIDE DEF nv
  <2> QED BY <2>1, <2>2 DEF Sound, Tables
<1> HIDE DEF nv
<1>4. ASSUME NEW h \in Holds, CanConfirm(nv, h), NEW s \in nv.hold[h].seats
      PROVE  nv.occ[s].kind = "hold" /\ nv.occ[s].hold = h /\ nv.occ[s].left >= nv.hold[h].left
  <2>1. CanConfirm(iv, h) /\ s \in iv.hold[h].seats /\ s \in Seats
    BY <1>1, <1>4 DEF CanConfirm, Sound, Tables, HoldRow
  <2>2. /\ iv.occ[s].kind = "hold" /\ iv.occ[s].hold = h /\ iv.occ[s].left >= iv.hold[h].left
        /\ iv.hold[h].left \in Nat /\ iv.occ[s].left \in Int /\ nv.occ[s].left \in Int
    BY <2>1, <1>2 DEF Sound, Tables, HoldRow, Occupancy
  <2> QED BY <2>1, <2>2, <1>1, <1>2
<1>5. \A s \in Seats : nv.occ[s].kind = "hold" =>
         /\ nv.occ[s].hold \in Holds
         /\ nv.hold[nv.occ[s].hold].status # "none"
         /\ s \in nv.hold[nv.occ[s].hold].seats
  BY <1>1, <1>2 DEF Sound
<1>6. \A s \in Seats : nv.occ[s].kind = "ticket" =>
         nv.occ[s].ticket \in nv.tickets /\ nv.occ[s].ticket.seat = s
  BY <1>1, <1>2 DEF Sound
<1>7. \A t \in nv.tickets : t.seat \in Seats =>
         nv.occ[t.seat].kind = "ticket" /\ nv.occ[t.seat].ticket = t
  BY <1>1, <1>2 DEF Sound
<1> QED BY <1>1, <1>3, <1>4, <1>5, <1>6, <1>7 DEF Sound, nv

\* A tick brings both deadlines nearer, that of the hold never past that of its seats.
LEMMA SoundAge ==
    ASSUME NEW iv, Sound(iv)
    PROVE  Sound(Age(iv))
<1> DEFINE nv == Age(iv)
           oc == [s \in Seats |-> IF iv.occ[s].kind = "hold"
                                  THEN [iv.occ[s] EXCEPT !.left = Less(@, -AuthGrace)] ELSE iv.occ[s]]
           hd == [h \in Holds |-> [iv.hold[h] EXCEPT !.left = Less(@, 0)]]
<1>1. nv.tickets = iv.tickets /\ nv.hold = hd /\ nv.occ = oc
  <2>1. nv = [iv EXCEPT !.occ = oc, !.hold = hd]
    BY DEF Age
  <2> HIDE DEF oc, hd, nv
  <2> QED BY <2>1 DEF Sound, Tables
<1>2. \A n \in Nat : Less(n, 0) \in Nat /\ Less(n, 0) <= n
  BY DEF Less
<1>3. \A n \in Int : Less(n, -AuthGrace) \in Int
  BY InventoryAssumption DEF Less
<1>4. \A h \in Holds : /\ nv.hold[h].status = iv.hold[h].status
                       /\ nv.hold[h].seats = iv.hold[h].seats
                       /\ nv.hold[h].left = Less(iv.hold[h].left, 0)
                       /\ nv.hold[h] \in HoldRow
  <2> SUFFICES ASSUME NEW h \in Holds
               PROVE  /\ hd[h].status = iv.hold[h].status
                      /\ hd[h].seats = iv.hold[h].seats
                      /\ hd[h].left = Less(iv.hold[h].left, 0)
                      /\ hd[h] \in HoldRow
    BY <1>1
  <2>1. iv.hold[h] \in HoldRow
    BY DEF Sound, Tables
  <2>2. Less(iv.hold[h].left, 0) \in Nat
    BY <2>1, <1>2 DEF HoldRow
  <2> QED BY <2>1, <2>2 DEF HoldRow
<1>5. \A s \in Seats : /\ nv.occ[s].kind = iv.occ[s].kind
                       /\ nv.occ[s].hold = iv.occ[s].hold
                       /\ nv.occ[s].ticket = iv.occ[s].ticket
                       /\ nv.occ[s].kind = "hold" => nv.occ[s].left = Less(iv.occ[s].left, -AuthGrace)
                       /\ nv.occ[s] \in Occupancy
  BY <1>1, <1>3 DEF Sound, Tables, Occupancy
<1>6. nv \in Tables
  <2>1. nv = [iv EXCEPT !.occ = nv.occ, !.hold = nv.hold]
    BY <1>1 DEF Age
  <2>2. nv.occ \in [Seats -> Occupancy] /\ nv.hold \in [Holds -> HoldRow]
    BY <1>1, <1>4, <1>5
  <2> HIDE DEF nv
  <2> QED BY <2>1, <2>2 DEF Sound, Tables
<1> HIDE DEF nv
<1>7. ASSUME NEW h \in Holds, CanConfirm(nv, h), NEW s \in nv.hold[h].seats
      PROVE  nv.occ[s].kind = "hold" /\ nv.occ[s].hold = h /\ nv.occ[s].left >= nv.hold[h].left
  <2>1. iv.hold[h].left \in Nat /\ s \in iv.hold[h].seats /\ s \in Seats
    BY <1>4, <1>7 DEF Sound, Tables, HoldRow
  <2>2. nv.hold[h].left > 0 /\ iv.hold[h].status = "held"
    BY <1>4, <1>7 DEF CanConfirm
  <2>3. nv.hold[h].left = iv.hold[h].left - 1 /\ iv.hold[h].left > 0
    BY <2>1, <2>2, <1>4 DEF Less
  <2>4. iv.occ[s].kind = "hold" /\ iv.occ[s].hold = h /\ iv.occ[s].left >= iv.hold[h].left
    BY <2>1, <2>2, <2>3 DEF Sound, CanConfirm
  <2>5. iv.occ[s].left \in Int
    BY <2>1 DEF Sound, Tables, Occupancy
  <2>6. nv.occ[s].left = iv.occ[s].left - 1
    BY <2>1, <2>3, <2>4, <2>5, <1>5, InventoryAssumption DEF Less
  <2> QED BY <2>1, <2>3, <2>4, <2>5, <2>6, <1>5
<1>8. \A s \in Seats : nv.occ[s].kind = "hold" =>
         /\ nv.occ[s].hold \in Holds
         /\ nv.hold[nv.occ[s].hold].status # "none"
         /\ s \in nv.hold[nv.occ[s].hold].seats
  BY <1>4, <1>5 DEF Sound
<1>9. \A s \in Seats : nv.occ[s].kind = "ticket" =>
         nv.occ[s].ticket \in nv.tickets /\ nv.occ[s].ticket.seat = s
  BY <1>1, <1>5 DEF Sound
<1>10. \A t \in nv.tickets : t.seat \in Seats =>
         nv.occ[t.seat].kind = "ticket" /\ nv.occ[t.seat].ticket = t
  BY <1>1, <1>5 DEF Sound
<1>11. IsFiniteSet(nv.tickets)
  BY <1>1 DEF Sound
<1> QED BY <1>6, <1>7, <1>8, <1>9, <1>10, <1>11 DEF Sound, nv

\* Linking a hold to an order changes nothing a seat depends on.
LEMMA SoundLink ==
    ASSUME NEW iv, Sound(iv), NEW h \in Holds, NEW o \in Orders
    PROVE  Sound(LinkToOrder(iv, h, o))
<1> DEFINE hd == [iv.hold EXCEPT ![h].order = o]
<1>1. hd \in [Holds -> HoldRow]
  BY DEF Sound, Tables, HoldRow
<1>2. \A x \in Holds : /\ hd[x].seats = iv.hold[x].seats
                       /\ hd[x].left = iv.hold[x].left
                       /\ hd[x].status = iv.hold[x].status
  BY DEF Sound, Tables, HoldRow
<1>3. LinkToOrder(iv, h, o) = [iv EXCEPT !.hold = hd]
  BY DEF LinkToOrder
<1> HIDE DEF hd
<1> QED BY <1>1, <1>2, <1>3, SoundHoldsOver

\* The tickets of one order can be counted.
LEMMA IssuedIsNat ==
    ASSUME NEW iv, Sound(iv), NEW o
    PROVE  Issued(iv, o) \in Nat
<1>1. {t \in iv.tickets : t.order = o} \in SUBSET iv.tickets
  OBVIOUS
<1> QED BY <1>1, FS_Subset, FS_CardinalityType DEF Sound, Issued

\* What IssueStanding and Confirm add to the tickets.
NewStanding(iv, o, l, qty) == {StandingTicket(o, l, Issued(iv, o) + n) : n \in 1..qty}

NewSeated(S, o, l) == {SeatTicket(o, l, s) : s \in S}

\* qty tickets without a seat, of the order and the lot.
LEMMA NewStandingFacts ==
    ASSUME NEW iv, Sound(iv), NEW o \in Orders, NEW l \in Lots, NEW qty \in 1..MaxIssued
    PROVE  /\ NewStanding(iv, o, l, qty) \subseteq Ticket
           /\ IsFiniteSet(NewStanding(iv, o, l, qty))
           /\ Cardinality(NewStanding(iv, o, l, qty)) = qty
           /\ \A t \in NewStanding(iv, o, l, qty) : t.seat = NoSeat /\ t.order = o /\ t.lot = l
<1> DEFINE f   == [n \in 1..qty |-> StandingTicket(o, l, Issued(iv, o) + n)]
           new == NewStanding(iv, o, l, qty)
<1>1. Issued(iv, o) \in Nat
  BY IssuedIsNat
<1>2. qty \in Nat /\ qty \in Int
  BY InventoryAssumption
<1>3. IsFiniteSet(1..qty) /\ Cardinality(1..qty) = qty
  BY <1>2, FS_Interval
<1>4. f \in Surjection(1..qty, new) /\ f \in Injection(1..qty, new)
  <2>1. \A n, m \in 1..qty : f[n] = f[m] => n = m
    BY <1>1, <1>2 DEF StandingTicket
  <2>2. f \in Surjection(1..qty, new)
    BY DEF Surjection, NewStanding
  <2> HIDE DEF f
  <2> QED BY <2>1, <2>2 DEF Injection, IsInjective, Surjection
<1>5. IsFiniteSet(new) /\ Cardinality(new) = qty
  <2> HIDE DEF f, new
  <2> QED BY <1>3, <1>4, FS_Surjection
<1>6. \A n \in 1..qty : StandingTicket(o, l, Issued(iv, o) + n) \in Ticket
  BY <1>1, <1>2 DEF StandingTicket, Ticket
<1>7. \A t \in new : t \in Ticket /\ t.seat = NoSeat /\ t.order = o /\ t.lot = l
  BY <1>6 DEF StandingTicket, NewStanding
<1> QED BY <1>5, <1>7

\* Tickets without a seat leave the seats alone.
LEMMA SoundStanding ==
    ASSUME NEW iv, Sound(iv), NEW o \in Orders, NEW l \in Lots, NEW qty \in 1..MaxIssued
    PROVE  Sound(IssueStanding(iv, o, l, qty))
<1> DEFINE nv  == IssueStanding(iv, o, l, qty)
           new == NewStanding(iv, o, l, qty)
<1>1. nv = [iv EXCEPT !.tickets = iv.tickets \cup new]
  BY DEF IssueStanding, NewStanding
<1>2. new \subseteq Ticket /\ IsFiniteSet(new) /\ \A t \in new : t.seat = NoSeat
  BY NewStandingFacts
<1>3. \A t \in new : t.seat \notin Seats
  BY <1>2, InventoryAssumption
<1> HIDE DEF new, nv
<1>4. nv.occ = iv.occ /\ nv.hold = iv.hold /\ nv.tickets = iv.tickets \cup new /\ nv \in Tables
  BY <1>1, <1>2 DEF Sound, Tables
<1>5. \A h \in Holds : CanConfirm(nv, h) <=> CanConfirm(iv, h)
  BY <1>4 DEF CanConfirm
<1>6. IsFiniteSet(nv.tickets)
  <2>1. IsFiniteSet(iv.tickets \cup new)
    BY <1>2, FS_Union DEF Sound
  <2> QED BY <2>1, <1>4
<1> QED BY <1>3, <1>4, <1>5, <1>6 DEF Sound, nv

\* A courtesy takes a seat nobody has.
LEMMA SoundCourtesy ==
    ASSUME NEW iv, Sound(iv), NEW t \in Ticket,
           t.seat # NoSeat => iv.occ[t.seat].kind = "free"
    PROVE  Sound(IssueCourtesyTicket(iv, t))
<1> DEFINE nv == IssueCourtesyTicket(iv, t)
           oc == [s \in Seats |-> IF s = t.seat THEN Ticketed(NoHold, t) ELSE iv.occ[s]]
<1>1. nv = [iv EXCEPT !.tickets = iv.tickets \cup {t}, !.occ = oc]
  BY DEF IssueCourtesyTicket
<1>2. oc \in [Seats -> Occupancy]
  BY DEF Ticketed, Occupancy, Sound, Tables
<1>3. \A s \in Seats : oc[s] = IF s = t.seat THEN Ticketed(NoHold, t) ELSE iv.occ[s]
  OBVIOUS
<1> HIDE DEF oc, nv
<1>4. nv.occ = oc /\ nv.hold = iv.hold /\ nv.tickets = iv.tickets \cup {t} /\ nv \in Tables
  BY <1>1, <1>2 DEF Sound, Tables
<1>5. \A h \in Holds : CanConfirm(nv, h) <=> CanConfirm(iv, h)
  BY <1>4 DEF CanConfirm
<1>6. \A s \in Seats : s = t.seat => iv.occ[s].kind = "free"
  BY InventoryAssumption
<1>7. ASSUME NEW h \in Holds, CanConfirm(nv, h), NEW s \in nv.hold[h].seats
      PROVE  nv.occ[s].kind = "hold" /\ nv.occ[s].hold = h /\ nv.occ[s].left >= nv.hold[h].left
  <2>1. s \in Seats
    BY <1>4, <1>7 DEF Sound, Tables, HoldRow
  <2> QED BY <2>1, <1>3, <1>4, <1>5, <1>6, <1>7 DEF Sound
<1>8. \A s \in Seats : nv.occ[s].kind = "hold" =>
         /\ nv.occ[s].hold \in Holds
         /\ nv.hold[nv.occ[s].hold].status # "none"
         /\ s \in nv.hold[nv.occ[s].hold].seats
  BY <1>3, <1>4 DEF Sound, Ticketed
<1>9. \A s \in Seats : nv.occ[s].kind = "ticket" =>
         nv.occ[s].ticket \in nv.tickets /\ nv.occ[s].ticket.seat = s
  BY <1>3, <1>4 DEF Sound, Ticketed
<1>10. \A x \in nv.tickets : x.seat \in Seats =>
         nv.occ[x.seat].kind = "ticket" /\ nv.occ[x.seat].ticket = x
  BY <1>3, <1>4, <1>6 DEF Sound, Ticketed
<1>11. IsFiniteSet(nv.tickets)
  BY <1>4, FS_AddElement DEF Sound
<1> QED BY <1>11, <1>4, <1>7, <1>8, <1>9, <1>10 DEF Sound, nv

\* One ticket per seat: finitely many, no more than the seats.
LEMMA NewSeatedFacts ==
    ASSUME NEW S \in SUBSET Seats, NEW o, NEW l
    PROVE  /\ IsFiniteSet(NewSeated(S, o, l))
           /\ Cardinality(NewSeated(S, o, l)) <= Cardinality(S)
           /\ \A t \in NewSeated(S, o, l) : t.order = o /\ t.lot = l
<1> DEFINE f == [s \in S |-> SeatTicket(o, l, s)]
           T == NewSeated(S, o, l)
<1>1. f \in Surjection(S, T)
  BY DEF Surjection, NewSeated
<1>2. IsFiniteSet(S)
  BY InventoryAssumption, FS_Subset
<1>3. \A t \in T : t.order = o /\ t.lot = l
  BY DEF NewSeated, SeatTicket
<1> HIDE DEF f, T
<1>4. IsFiniteSet(T) /\ Cardinality(T) <= Cardinality(S)
  BY <1>1, <1>2, FS_Surjection
<1> QED BY <1>3, <1>4 DEF T

\* Confirm: every seat the hold occupies gets its own ticket in one step.
LEMMA SoundConfirm ==
    ASSUME NEW iv, Sound(iv), NEW h \in Holds, NEW o \in Orders, NEW l \in Lots,
           iv.hold[h].status = "held"
    PROVE  Sound(Confirm(iv, h, o, l))
<1> DEFINE nv == Confirm(iv, h, o, l)
           S  == HeldBy(iv, {h})
           T  == NewSeated(S, o, l)
           oc == [s \in Seats |-> IF s \in S THEN Ticketed(h, SeatTicket(o, l, s)) ELSE iv.occ[s]]
           hd == [iv.hold EXCEPT ![h] = [iv.hold[h] EXCEPT !.status = "confirmed", !.order = o]]
<1>1. nv = [iv EXCEPT !.occ = oc, !.hold = hd, !.tickets = iv.tickets \cup T]
  BY DEF Confirm, NewSeated, Sound, Tables
<1>2. \A s \in Seats : SeatTicket(o, l, s) \in Ticket /\ SeatTicket(o, l, s).seat = s
  BY InventoryAssumption DEF SeatTicket, Ticket
<1>3. \A s \in S : s \in Seats /\ iv.occ[s].kind = "hold" /\ iv.occ[s].hold = h
  BY DEF HeldBy
<1>4. /\ oc \in [Seats -> Occupancy]
      /\ hd \in [Holds -> HoldRow]
      /\ T \subseteq Ticket
  <2>1. oc \in [Seats -> Occupancy]
    BY <1>2 DEF Ticketed, Occupancy, Sound, Tables
  <2>2. hd \in [Holds -> HoldRow]
    <3>1. iv.hold \in [Holds -> HoldRow]
      BY DEF Sound, Tables
    <3>2. [iv.hold[h] EXCEPT !.status = "confirmed", !.order = o] \in HoldRow
      BY <3>1 DEF HoldRow
    <3> QED BY <3>1, <3>2
  <2>3. T \subseteq Ticket
    BY <1>2, <1>3 DEF NewSeated
  <2> QED BY <2>1, <2>2, <2>3
<1>5. \A s \in Seats : oc[s] = IF s \in S THEN Ticketed(h, SeatTicket(o, l, s)) ELSE iv.occ[s]
  OBVIOUS
<1>6. /\ hd[h].status = "confirmed"
      /\ \A x \in Holds : x # h => hd[x] = iv.hold[x]
      /\ \A x \in Holds : hd[x].seats = iv.hold[x].seats
  BY DEF Sound, Tables, HoldRow
<1>7. \A t \in T : t.seat \in S /\ t = SeatTicket(o, l, t.seat)
  BY <1>2, <1>3 DEF NewSeated
<1>8. \A s \in S : SeatTicket(o, l, s) \in T
  BY DEF NewSeated
<1> HIDE DEF oc, hd, nv, S, T
<1>9. /\ nv.occ = oc /\ nv.hold = hd /\ nv.tickets = iv.tickets \cup T /\ nv \in Tables
  BY <1>1, <1>4 DEF Sound, Tables
<1>10. ASSUME NEW x \in Holds, CanConfirm(nv, x), NEW s \in nv.hold[x].seats
      PROVE  nv.occ[s].kind = "hold" /\ nv.occ[s].hold = x /\ nv.occ[s].left >= nv.hold[x].left
  <2>1. x # h /\ nv.hold[x] = iv.hold[x] /\ CanConfirm(iv, x)
    BY <1>6, <1>9, <1>10 DEF CanConfirm
  <2>2. s \in Seats
    BY <2>1, <1>10 DEF Sound, Tables, HoldRow
  <2>3. iv.occ[s].kind = "hold" /\ iv.occ[s].hold = x /\ iv.occ[s].left >= iv.hold[x].left
    BY <2>1, <1>10 DEF Sound
  <2>4. s \notin S
    BY <2>1, <2>3, <1>3
  <2> QED BY <2>1, <2>2, <2>3, <2>4, <1>5, <1>9
<1>11. \A s \in Seats : nv.occ[s].kind = "hold" =>
         /\ nv.occ[s].hold \in Holds
         /\ nv.hold[nv.occ[s].hold].status # "none"
         /\ s \in nv.hold[nv.occ[s].hold].seats
  <2> SUFFICES ASSUME NEW s \in Seats, nv.occ[s].kind = "hold"
               PROVE  /\ nv.occ[s].hold \in Holds
                      /\ nv.hold[nv.occ[s].hold].status # "none"
                      /\ s \in nv.hold[nv.occ[s].hold].seats
    OBVIOUS
  <2>1. \A x \in Holds : iv.hold[x].status # "none" => hd[x].status # "none"
    BY <1>6
  <2>2. nv.occ[s] = iv.occ[s]
    <3>1. \A t : Ticketed(h, t).kind = "ticket"
      BY DEF Ticketed
    <3> QED BY <3>1, <1>5, <1>9
  <2>3. /\ iv.occ[s].hold \in Holds
        /\ iv.hold[iv.occ[s].hold].status # "none"
        /\ s \in iv.hold[iv.occ[s].hold].seats
    BY <2>2 DEF Sound
  <2> QED BY <2>1, <2>2, <2>3, <1>6, <1>9
<1>12. \A s \in Seats : nv.occ[s].kind = "ticket" =>
         nv.occ[s].ticket \in nv.tickets /\ nv.occ[s].ticket.seat = s
  <2> SUFFICES ASSUME NEW s \in Seats, nv.occ[s].kind = "ticket"
               PROVE  nv.occ[s].ticket \in nv.tickets /\ nv.occ[s].ticket.seat = s
    OBVIOUS
  <2>1. CASE s \in S
    <3>1. nv.occ[s].ticket = SeatTicket(o, l, s)
      <4>1. nv.occ[s] = Ticketed(h, SeatTicket(o, l, s))
        BY <2>1, <1>5, <1>9
      <4>2. Ticketed(h, SeatTicket(o, l, s)).ticket = SeatTicket(o, l, s)
        BY DEF Ticketed
      <4> QED BY <4>1, <4>2
    <3> QED BY <3>1, <2>1, <1>2, <1>8, <1>9
  <2>2. CASE s \notin S
    BY <2>2, <1>5, <1>9 DEF Sound
  <2> QED BY <2>1, <2>2
<1>13. \A t \in nv.tickets : t.seat \in Seats =>
         nv.occ[t.seat].kind = "ticket" /\ nv.occ[t.seat].ticket = t
  <2>1. ASSUME NEW t \in T PROVE nv.occ[t.seat].kind = "ticket" /\ nv.occ[t.seat].ticket = t
    <3>1. t.seat \in S /\ t.seat \in Seats /\ t = SeatTicket(o, l, t.seat)
      BY <2>1, <1>3, <1>7
    <3>2. nv.occ[t.seat] = Ticketed(h, SeatTicket(o, l, t.seat))
      BY <3>1, <1>5, <1>9
    <3>3. Ticketed(h, SeatTicket(o, l, t.seat)).ticket = SeatTicket(o, l, t.seat)
          /\ Ticketed(h, SeatTicket(o, l, t.seat)).kind = "ticket"
      BY DEF Ticketed
    <3> QED BY <3>1, <3>2, <3>3
  <2>2. ASSUME NEW t \in iv.tickets, t.seat \in Seats
        PROVE  nv.occ[t.seat].kind = "ticket" /\ nv.occ[t.seat].ticket = t
    BY <2>2, <1>3, <1>5, <1>9 DEF Sound
  <2> QED BY <2>1, <2>2, <1>9
<1>14. IsFiniteSet(nv.tickets)
  <2>1. S \in SUBSET Seats
    BY <1>3
  <2>2. IsFiniteSet(T)
    BY <2>1, NewSeatedFacts DEF T
  <2>3. IsFiniteSet(iv.tickets \cup T)
    BY <2>2, FS_Union DEF Sound
  <2> QED BY <2>3, <1>9
<1> QED BY <1>9, <1>10, <1>11, <1>12, <1>13, <1>14 DEF Sound, nv

-----------------------------------------------------------------------------
(***************************************************************************)
(* Invariants of the checkout for any lots, seats, holds, orders, sessions *)
(* and deadlines.  The seats depend on the whole of Sound, which mentions  *)
(* no session and no order; the counters depend on the CHECK alone.  What  *)
(* ties the tables together is Filled: a row in use names a selection, so  *)
(* that every quantity added to a counter or issued as tickets is one.     *)
(***************************************************************************)

\* A session or an order in use has a selection, an order in use is of a session
\* in use, and a charge or a notice is of an order in use.
Filled ==
    /\ \A s \in Sessions : session[s].status # "none" => session[s].sel \in Selections
    /\ \A o \in Orders : order[o].status # "none" =>
          /\ order[o].sel \in Selections
          /\ order[o].session \in Sessions
          /\ session[order[o].session].status # "none"
    /\ \A o \in Orders : charge[o] # "none" => order[o].status # "none"
    /\ \A o \in Orders, e \in Events : notice[o][e] # "none" => order[o].status # "none"

IInv == TypeOK /\ Sound(inventory) /\ CapacityChk(lot) /\ Filled

\* A selection has a lot and a quantity of tickets.
LEMMA SelectionType ==
    ASSUME NEW sel \in Selections
    PROVE  sel.lot \in Lots /\ sel.qty \in 1..MaxIssued /\ sel.qty \in Nat /\ sel.seats \subseteq Seats
           /\ 1 <= MaxIssued
BY CheckoutAssumption, InventoryAssumption DEF Selection

\* The type of the rows alone, for the steps that need nothing else.
LEMMA RowTypes ==
    ASSUME IInv
    PROVE  /\ session \in [Sessions -> SessionRow]
           /\ order \in [Orders -> OrderRow]
BY DEF IInv, TypeOK

\* session.go: closing sessions changes their status and nothing else.
LEMMA SessionsExpired ==
    ASSUME TypeOK, NEW S \in SUBSET Sessions, \A s \in S : session[s].status # "none"
    PROVE  /\ Close(S, Expired) \in [Sessions -> SessionRow]
           /\ \A s \in Sessions : /\ Close(S, Expired)[s].sel = session[s].sel
                                  /\ Close(S, Expired)[s].hold = session[s].hold
                                  /\ session[s].status = "none" <=> Close(S, Expired)[s].status = "none"
BY DEF Close, Expired, TypeOK, SessionRow

LEMMA SessionsSwept ==
    ASSUME TypeOK, NEW S \in SUBSET Sessions, \A s \in S : session[s].status # "none"
    PROVE  /\ Close(S, ClosedAs) \in [Sessions -> SessionRow]
           /\ \A s \in Sessions : /\ Close(S, ClosedAs)[s].sel = session[s].sel
                                  /\ Close(S, ClosedAs)[s].hold = session[s].hold
                                  /\ session[s].status = "none" <=> Close(S, ClosedAs)[s].status = "none"
<1> DEFINE row(s) == [session[s] EXCEPT !.status = ClosedAs(s)]
<1>1. ASSUME NEW s \in Sessions
      PROVE  row(s) \in SessionRow /\ row(s).status # "none" /\ row(s).sel = session[s].sel /\ row(s).hold = session[s].hold
  <2>1. ClosedAs(s) \in {"abandoned", "expired"}
    BY DEF ClosedAs
  <2>2. session[s] \in SessionRow
    BY DEF TypeOK
  <2> QED BY <2>1, <2>2 DEF SessionRow
<1> HIDE DEF row
<1>2. Close(S, ClosedAs) = [s \in Sessions |-> IF s \in S THEN row(s) ELSE session[s]]
  BY DEF Close, row
<1>3. \A s \in Sessions : session[s] \in SessionRow
  BY DEF TypeOK
<1> QED BY <1>1, <1>2, <1>3

\* What rows in use ask for together is a number of tickets.
LEMMA UnitsType ==
    ASSUME IInv
    PROVE  /\ \A S \in SUBSET Sessions : (\A x \in S : session[x].status # "none") => Units(S) \in Nat
           /\ \A O \in SUBSET Orders : (\A x \in O : order[x].status # "none") => UnitsOrdered(O) \in Nat
<1>1. ASSUME NEW S \in SUBSET Sessions, \A x \in S : session[x].status # "none" PROVE Units(S) \in Nat
  <2> DEFINE f == [x \in S |-> session[x].sel.qty]
  <2>1. IsFiniteSet(S)
    BY CheckoutAssumption, FS_Subset
  <2>2. \A x \in S : f[x] \in Nat
    BY <1>1, SelectionType DEF IInv, Filled
  <2>3. Units(S) = SumFunctionOnSet(f, S)
    BY DEF Units, SumFunction
  <2> HIDE DEF f
  <2> QED BY <2>1, <2>2, <2>3, SumNat
<1>2. ASSUME NEW O \in SUBSET Orders, \A x \in O : order[x].status # "none" PROVE UnitsOrdered(O) \in Nat
  <2> DEFINE f == [x \in O |-> order[x].sel.qty]
  <2>1. IsFiniteSet(O)
    BY CheckoutAssumption, FS_Subset
  <2>2. \A x \in O : f[x] \in Nat
    BY <1>2, SelectionType DEF IInv, Filled
  <2>3. UnitsOrdered(O) = SumFunctionOnSet(f, O)
    BY DEF UnitsOrdered, SumFunction
  <2> HIDE DEF f
  <2> QED BY <2>1, <2>2, <2>3, SumNat
<1> QED BY <1>1, <1>2

LEMMA OwedType ==
    ASSUME IInv
    PROVE  /\ \A S \in SUBSET Sessions : (\A x \in S : session[x].status # "none") => Owed(S) \in [Lots -> Nat]
           /\ OwedByOrders(Abandoned) \in [Lots -> Nat]
<1>1. ASSUME NEW S \in SUBSET Sessions, \A x \in S : session[x].status # "none" PROVE Owed(S) \in [Lots -> Nat]
  <2>1. ASSUME NEW l \in Lots PROVE Units({s \in S : session[s].hold = NoHold /\ session[s].sel.lot = l}) \in Nat
    <3> DEFINE T == {s \in S : session[s].hold = NoHold /\ session[s].sel.lot = l}
    <3>1. T \in SUBSET Sessions /\ \A x \in T : session[x].status # "none"
      BY <1>1
    <3> HIDE DEF T
    <3>2. Units(T) \in Nat
      BY <3>1, UnitsType
    <3> QED BY <3>2 DEF T
  <2> QED BY <2>1 DEF Owed
<1>2. ASSUME NEW l \in Lots PROVE UnitsOrdered({o \in Abandoned : order[o].sel.lot = l}) \in Nat
  <2> DEFINE T == {o \in Abandoned : order[o].sel.lot = l}
  <2>1. T \in SUBSET Orders /\ \A x \in T : order[x].status # "none"
    BY DEF Abandoned
  <2> HIDE DEF T
  <2>2. UnitsOrdered(T) \in Nat
    BY <2>1, UnitsType
  <2> QED BY <2>2 DEF T
<1>3. OwedByOrders(Abandoned) \in [Lots -> Nat]
  BY <1>2 DEF OwedByOrders
<1> QED BY <1>1, <1>3

\* Giving back what sessions owe keeps the counters and the seats sound.
LEMMA GivenBack ==
    ASSUME IInv, NEW S \in SUBSET Sessions, \A x \in S : session[x].status # "none", NEW H
    PROVE  /\ ReleaseFromLots(lot, Owed(S)) \in [Lots -> Counters]
           /\ CapacityChk(ReleaseFromLots(lot, Owed(S)))
           /\ Sound(Release(inventory, H))
BY OwedType, LotsReleased, SoundRelease DEF IInv, TypeOK

\* reserve: lot and seats together, from sound tables to sound tables.
LEMMA ReserveSound ==
    ASSUME NEW lt \in [Lots -> Counters], CapacityChk(lt), NEW iv, Sound(iv),
           NEW sel \in Selections, NEW h, CanReserve(lt, iv, sel, h)
    PROVE  /\ ReserveFromLot(lt, sel.lot, sel.qty) \in [Lots -> Counters]
           /\ CapacityChk(ReserveFromLot(lt, sel.lot, sel.qty))
           /\ Sound(Reserved(iv, sel, h))
           /\ h \in Holds \cup {NoHold}
<1>1. sel.lot \in Lots /\ sel.qty \in Nat /\ sel.seats \in SUBSET Seats
  BY SelectionType
<1>2. Fits(lt, sel.lot, sel.qty)
  BY DEF CanReserve
<1>3. ReserveFromLot(lt, sel.lot, sel.qty) \in [Lots -> Counters] /\ CapacityChk(ReserveFromLot(lt, sel.lot, sel.qty))
  BY <1>1, <1>2, LotReserved
<1>4. CASE sel.seats = {}
  BY <1>3, <1>4 DEF CanReserve, Reserved
<1>5. CASE sel.seats # {}
  <2>1. h \in Holds /\ iv.hold[h].status = "none" /\ CanHold(iv, sel.seats)
    BY <1>5 DEF CanReserve
  <2>2. Sound(Hold(iv, h, sel.seats)) /\ h # NoHold
    BY <2>1, <1>1, SoundHold, InventoryAssumption
  <2> QED BY <2>1, <2>2, <1>3 DEF Reserved
<1> QED BY <1>4, <1>5

\* The empty database.
LEMMA InitIInv == Init => IInv
<1> SUFFICES ASSUME Init PROVE IInv
  OBVIOUS
<1>1. Sound(inventory)
  BY SoundEmpty DEF Init
<1>2. inventory \in Tables
  BY <1>1 DEF Sound
<1>3. CapacityChk(lot)
  BY QuantityAssumption DEF Init, CapacityChk
<1>4. TypeOK
  BY <1>2 DEF Init, TypeOK, Counters, SessionRow, OrderRow, NoticeState
<1>5. Filled
  BY DEF Init, Filled
<1> QED BY <1>1, <1>3, <1>4, <1>5 DEF IInv

-----------------------------------------------------------------------------
(* One lemma per action                                                    *)

LEMMA CreateSessionStep ==
    ASSUME IInv, NEW s \in Sessions, NEW b \in Browsers, NEW sel \in Selections, NEW h,
           NEW others \in SUBSET Sessions, CreateSession(s, b, sel, h, others)
    PROVE  IInv'
<1> DEFINE lt == ReleaseFromLots(lot, Owed(others))
           iv == Release(inventory, HoldsOf(others))
           row == [status |-> "open", browser |-> b, sel |-> sel,
                   hold |-> h, grace |-> FALSE, left |-> AnonTTL]
<1>1. /\ CanReserve(lt, iv, sel, h)
      /\ lot' = ReserveFromLot(lt, sel.lot, sel.qty)
      /\ inventory' = Reserved(iv, sel, h)
      /\ session' = [Close(others, Expired) EXCEPT ![s] = row]
      /\ UNCHANGED <<order, charge, notice>>
  BY DEF CreateSession
<1>2. \A x \in others : session[x].status # "none"
  BY DEF CreateSession, OwnedElsewhere, Live
<1>3. lt \in [Lots -> Counters] /\ CapacityChk(lt) /\ Sound(iv)
  BY <1>2, GivenBack
<1> HIDE DEF lt, iv
<1>4. lot' \in [Lots -> Counters] /\ CapacityChk(lot)' /\ Sound(inventory)' /\ h \in Holds \cup {NoHold}
  BY <1>1, <1>3, ReserveSound DEF CapacityChk
<1>5. row \in SessionRow
  BY <1>4, CheckoutAssumption DEF SessionRow, Live
<1>6. /\ session' \in [Sessions -> SessionRow]
      /\ \A x \in Sessions : /\ session'[x].status # "none" => session'[x].sel \in Selections
                             /\ session[x].status # "none" => session'[x].status # "none"
  <2> DEFINE cl == Close(others, Expired)
  <2>1. /\ cl \in [Sessions -> SessionRow]
        /\ \A x \in Sessions : cl[x].sel = session[x].sel /\ (session[x].status = "none" <=> cl[x].status = "none")
    BY <1>2, SessionsExpired DEF IInv
  <2>2. session' = [cl EXCEPT ![s] = row]
    BY <1>1
  <2> HIDE DEF cl
  <2>3. session'[s] = row /\ \A x \in Sessions : x # s => session'[x] = cl[x]
    BY <2>1, <2>2
  <2>4. row.sel = sel /\ row.status # "none"
    OBVIOUS
  <2> HIDE DEF row
  <2> QED BY <2>1, <2>2, <2>3, <2>4, <1>5 DEF IInv, Filled
<1>7. TypeOK'
  BY <1>1, <1>4, <1>6 DEF IInv, TypeOK, Sound
<1>8. Filled'
  BY <1>1, <1>6 DEF IInv, Filled
<1> QED BY <1>4, <1>7, <1>8 DEF IInv

LEMMA UpdateSessionStep ==
    ASSUME IInv, NEW s \in Sessions, NEW sel \in Selections, NEW h, NEW others \in SUBSET Sessions,
           session[s].status \in Live, \A x \in others : session[x].status # "none",
           UpdateSession(s, sel, h, others)
    PROVE  IInv'
<1> DEFINE gone == others \cup {s}
           lt == ReleaseFromLots(lot, Owed(gone))
           iv == Release(inventory, HoldsOf(gone))
           cl == Close(others, Expired)
           row == Changed(s, sel, h)
<1>1. /\ CanReserve(lt, iv, sel, h)
      /\ lot' = ReserveFromLot(lt, sel.lot, sel.qty)
      /\ inventory' = Reserved(iv, sel, h)
      /\ session' = [cl EXCEPT ![s] = row]
      /\ UNCHANGED <<order, charge, notice>>
  BY DEF UpdateSession
<1> HIDE DEF gone
<1>2. lt \in [Lots -> Counters] /\ CapacityChk(lt) /\ Sound(iv)
  <2>1. gone \in SUBSET Sessions /\ \A x \in gone : session[x].status # "none"
    BY DEF gone, Live
  <2> QED BY <2>1, GivenBack
<1> HIDE DEF lt, iv
<1>3. lot' \in [Lots -> Counters] /\ CapacityChk(lot)' /\ Sound(inventory)' /\ h \in Holds \cup {NoHold}
  BY <1>1, <1>2, ReserveSound DEF CapacityChk
<1>4. row \in SessionRow /\ row.sel = sel /\ row.status # "none"
  BY <1>3, CheckoutAssumption DEF Changed, IInv, TypeOK, SessionRow, Live
<1>5. /\ cl \in [Sessions -> SessionRow]
      /\ \A x \in Sessions : cl[x].sel = session[x].sel /\ (session[x].status = "none" <=> cl[x].status = "none")
  BY SessionsExpired DEF IInv
<1> HIDE DEF cl, row
<1>6. session' \in [Sessions -> SessionRow]
  BY <1>1, <1>4, <1>5
<1>7. ASSUME NEW x \in Sessions
      PROVE  /\ session'[x].status # "none" => session'[x].sel \in Selections
             /\ session[x].status # "none" => session'[x].status # "none"
  <2>1. CASE x = s
    <3>1. session'[s] = row
      BY <1>1, <1>5
    <3> QED BY <2>1, <3>1, <1>4
  <2>2. CASE x # s
    <3>1. session'[x] = cl[x]
      BY <2>2, <1>1, <1>5
    <3> QED BY <3>1, <1>5 DEF IInv, Filled
  <2> QED BY <2>1, <2>2
<1>8. TypeOK'
  BY <1>1, <1>3, <1>6 DEF IInv, TypeOK, Sound
<1>9. Filled'
  BY <1>1, <1>7 DEF IInv, Filled
<1> QED BY <1>3, <1>8, <1>9 DEF IInv

LEMMA ResumeSessionStep ==
    ASSUME IInv, NEW s \in Sessions, NEW sel \in Selections, NEW h,
           NEW others \in SUBSET Sessions, ResumeSession(s, sel, h, others)
    PROVE  IInv'
<1>1. \A x \in others : session[x].status # "none"
  BY DEF ResumeSession, OwnedElsewhere, Live
<1>2. CASE sel # session[s].sel
  BY <1>1, <1>2, UpdateSessionStep DEF ResumeSession
<1>3. CASE sel = session[s].sel
  <2>1. /\ lot' = ReleaseFromLots(lot, Owed(others))
        /\ inventory' = Release(inventory, HoldsOf(others))
        /\ session' = Close(others, Expired)
        /\ UNCHANGED <<order, charge, notice>>
    BY <1>3 DEF ResumeSession
  <2>2. lot' \in [Lots -> Counters] /\ CapacityChk(lot)' /\ Sound(inventory)'
    BY <1>1, <2>1, GivenBack DEF CapacityChk
  <2>3. /\ session' \in [Sessions -> SessionRow]
        /\ \A x \in Sessions : /\ session'[x].sel = session[x].sel
                               /\ session[x].status = "none" <=> session'[x].status = "none"
    BY <1>1, <2>1, SessionsExpired DEF IInv
  <2>4. TypeOK'
    BY <2>1, <2>2, <2>3 DEF IInv, TypeOK, Sound
  <2>5. Filled'
    BY <2>1, <2>3 DEF IInv, Filled
  <2> QED BY <2>2, <2>4, <2>5 DEF IInv
<1> QED BY <1>2, <1>3

LEMMA SweepSessionsStep == ASSUME IInv, SweepSessions PROVE IInv'
<1>1. /\ DueSessions \in SUBSET Sessions
      /\ \A x \in DueSessions : session[x].status # "none"
  BY DEF DueSessions, Live
<1>2. /\ lot' = ReleaseFromLots(lot, Owed(DueSessions))
      /\ inventory' = Release(inventory, HoldsOf(DueSessions))
      /\ session' = Close(DueSessions, ClosedAs)
      /\ UNCHANGED <<order, charge, notice>>
  BY DEF SweepSessions
<1>3. lot' \in [Lots -> Counters] /\ CapacityChk(lot)' /\ Sound(inventory)'
  BY <1>1, <1>2, GivenBack DEF CapacityChk
<1>4. /\ session' \in [Sessions -> SessionRow]
      /\ \A x \in Sessions : /\ session'[x].sel = session[x].sel
                             /\ session[x].status = "none" <=> session'[x].status = "none"
  BY <1>1, <1>2, SessionsSwept DEF IInv
<1>5. TypeOK'
  BY <1>2, <1>3, <1>4 DEF IInv, TypeOK, Sound
<1>6. Filled'
  BY <1>2, <1>4 DEF IInv, Filled
<1> QED BY <1>3, <1>5, <1>6 DEF IInv

\* The grace: seats and session, neither a counter nor an order.
LEMMA GraceStep ==
    ASSUME IInv, NEW s \in Sessions, AuthStarted(s) \/ BindSession(s)
    PROVE  IInv'
<1>1. UNCHANGED <<lot, order, charge, notice>>
  BY DEF AuthStarted, BindSession
<1>2. Sound(inventory)'
  BY SoundExtend DEF AuthStarted, BindSession, IInv
<1>3. CapacityChk(lot)'
  BY <1>1 DEF IInv, CapacityChk
<1>4. PICK st \in Live, gr \in BOOLEAN, n \in Nat :
         session' = [session EXCEPT ![s].status = st, ![s].grace = gr, ![s].left = n]
  <2>1. CASE AuthStarted(s)
    <3>1. session' = [session EXCEPT ![s].status = "open", ![s].grace = TRUE, ![s].left = AuthGrace]
      <4>1. session' = [session EXCEPT ![s].grace = TRUE, ![s].left = AuthGrace] /\ session[s].status = "open"
        BY <2>1 DEF AuthStarted
      <4>2. [session[s] EXCEPT !.grace = TRUE, !.left = AuthGrace]
              = [session[s] EXCEPT !.status = "open", !.grace = TRUE, !.left = AuthGrace]
        BY <4>1 DEF IInv, TypeOK, SessionRow
      <4> QED BY <4>1, <4>2 DEF IInv, TypeOK
    <3> QED BY <3>1, InventoryAssumption DEF Live
  <2>2. CASE BindSession(s)
    <3>1. (IF session[s].grace THEN AuthedTTL ELSE AuthedTTL + AuthGrace) \in Nat
      BY InventoryAssumption, CheckoutAssumption
    <3> QED BY <2>2, <3>1 DEF BindSession, Live
  <2> QED BY <2>1, <2>2
<1>5. session[s].status # "none"
  BY DEF AuthStarted, BindSession, Live
<1>6. session' \in [Sessions -> SessionRow]
  <2>1. [session[s] EXCEPT !.status = st, !.grace = gr, !.left = n] \in SessionRow
    BY DEF IInv, TypeOK, SessionRow
  <2>2. session' = [session EXCEPT ![s] = [session[s] EXCEPT !.status = st, !.grace = gr, !.left = n]]
    BY <1>4 DEF IInv, TypeOK
  <2> QED BY <2>1, <2>2 DEF IInv, TypeOK
<1>7. \A x \in Sessions : /\ session'[x].status # "none" => session'[x].sel \in Selections
                          /\ session[x].status # "none" => session'[x].status # "none"
  <2> SUFFICES ASSUME NEW x \in Sessions
               PROVE  /\ session'[x].status # "none" => session'[x].sel \in Selections
                      /\ session[x].status # "none" => session'[x].status # "none"
    OBVIOUS
  <2>1. session'[x].sel = session[x].sel
    BY <1>4 DEF IInv, TypeOK, SessionRow
  <2>2. CASE x = s
    BY <2>1, <2>2, <1>4, <1>5 DEF IInv, TypeOK, SessionRow, Filled, Live
  <2>3. CASE x # s
    <3>1. session'[x] = session[x]
      BY <2>3, <1>4 DEF IInv, TypeOK
    <3> QED BY <3>1 DEF IInv, Filled
  <2> QED BY <2>2, <2>3
<1>8. TypeOK' /\ Filled'
  <2>1. TypeOK'
    BY <1>1, <1>2, <1>6 DEF IInv, TypeOK, Sound
  <2>2. Filled'
    BY <1>1, <1>7 DEF IInv, Filled
  <2> QED BY <2>1, <2>2
<1> QED BY <1>2, <1>3, <1>8 DEF IInv

\* POST /pay up to the gateway: an order takes the selection of a session in use.
LEMMA PayBeginStep ==
    ASSUME IInv, NEW o \in Orders, NEW s \in Sessions, PayBegin(o, s)
    PROVE  IInv'
<1> DEFINE row == [order[o] EXCEPT !.status = "reading", !.session = s,
                                   !.sel = session[s].sel, !.hold = session[s].hold]
<1>1. /\ UNCHANGED <<lot, inventory, session, charge, notice>>
      /\ session[s].status # "none"
      /\ session[s].sel \in Selections
      /\ session[s].hold \in Holds \cup {NoHold}
  BY DEF PayBegin, IInv, Filled, TypeOK, SessionRow
<1>2. row \in OrderRow /\ row.status # "none" /\ row.session = s /\ row.sel = session[s].sel
  BY <1>1 DEF IInv, TypeOK, OrderRow
<1>3. order' = [order EXCEPT ![o] = row]
  BY DEF PayBegin, IInv, TypeOK
<1> HIDE DEF row
<1>4. order' \in [Orders -> OrderRow]
  BY <1>2, <1>3 DEF IInv, TypeOK
<1>5. \A x \in Orders : order'[x] = IF x = o THEN row ELSE order[x]
  BY <1>3 DEF IInv, TypeOK
<1>6. TypeOK'
  BY <1>1, <1>4 DEF IInv, TypeOK
<1>7. Filled'
  BY <1>1, <1>2, <1>5 DEF IInv, Filled
<1> QED BY <1>1, <1>6, <1>7 DEF IInv, Sound, CapacityChk

\* A step that changes order[o] but not what it was placed for keeps Filled.
LEMMA OrderStep ==
    ASSUME IInv, NEW o \in Orders, order[o].status # "none",
           \A x \in Sessions : /\ session'[x].sel = session[x].sel
                               /\ session[x].status = "none" <=> session'[x].status = "none",
           order' \in [Orders -> OrderRow],
           \A x \in Orders : /\ order'[x].sel = order[x].sel
                             /\ order'[x].session = order[x].session
                             /\ order[x].status = "none" <=> order'[x].status = "none"
                             /\ x # o => charge'[x] = charge[x] /\ notice'[x] = notice[x]
    PROVE  Filled'
BY DEF IInv, Filled

LEMMA CreateChargeStep ==
    ASSUME IInv, NEW o \in Orders, CreateCharge(o)
    PROVE  IInv'
<1>1. UNCHANGED <<lot, inventory, session, notice>> /\ order[o].status # "none"
  BY DEF CreateCharge
<1>2. order' \in [Orders -> OrderRow]
  BY RowTypes DEF CreateCharge, OrderRow
<1>3. \A x \in Orders : /\ order'[x].sel = order[x].sel
                        /\ order'[x].session = order[x].session
                        /\ order[x].status = "none" <=> order'[x].status = "none"
  BY RowTypes DEF CreateCharge, OrderRow
<1>4. /\ charge' \in [Orders -> {"none", "open", "paid"}]
      /\ \A x \in Orders : x # o => charge'[x] = charge[x]
  BY DEF CreateCharge, IInv, TypeOK
<1>5. Filled'
  BY <1>1, <1>2, <1>3, <1>4, OrderStep
<1> QED BY <1>1, <1>2, <1>4, <1>5 DEF IInv, TypeOK, Sound, CapacityChk

LEMMA PayCommitStep ==
    ASSUME IInv, NEW o \in Orders, PayCommit(o)
    PROVE  IInv'
<1>1. UNCHANGED <<lot, charge, notice>> /\ order[o].status # "none"
  BY DEF PayCommit
<1>2. Sound(inventory)'
  <2>1. order[o].hold \in Holds \cup {NoHold}
    BY DEF IInv, TypeOK, OrderRow
  <2> QED BY <2>1, SoundLink DEF PayCommit, IInv
<1>3. order' \in [Orders -> OrderRow]
  <2>1. [order[o] EXCEPT !.status = "pending", !.payment = "pending", !.left = AbandonTTL] \in OrderRow
    BY CheckoutAssumption DEF IInv, TypeOK, OrderRow, Committed
  <2>2. order' = [order EXCEPT ![o] = [order[o] EXCEPT !.status = "pending", !.payment = "pending",
                                                        !.left = AbandonTTL]]
    BY DEF PayCommit, IInv, TypeOK
  <2> QED BY <2>1, <2>2 DEF IInv, TypeOK
<1>4. \A x \in Orders : /\ order'[x].sel = order[x].sel
                        /\ order'[x].session = order[x].session
                        /\ order[x].status = "none" <=> order'[x].status = "none"
  BY RowTypes DEF PayCommit, OrderRow
<1>5. /\ session' \in [Sessions -> SessionRow]
      /\ \A x \in Sessions : /\ session'[x].sel = session[x].sel
                             /\ session[x].status = "none" <=> session'[x].status = "none"
  <2>1. order[o].session \in Sessions /\ session[order[o].session].status # "none"
    BY <1>1 DEF IInv, Filled
  <2> QED BY <2>1, RowTypes DEF PayCommit, SessionRow, Live
<1>6. Filled'
  BY <1>1, <1>3, <1>4, <1>5, OrderStep
<1> QED BY <1>1, <1>2, <1>3, <1>5, <1>6 DEF IInv, TypeOK, Sound, CapacityChk

LEMMA PayAbortStep ==
    ASSUME IInv, NEW o \in Orders, PayAbort(o)
    PROVE  IInv'
<1>1. UNCHANGED <<lot, inventory, session, charge, notice>> /\ order[o].status # "none"
  BY DEF PayAbort
<1>2. order' \in [Orders -> OrderRow]
  BY RowTypes DEF PayAbort, OrderRow
<1>3. \A x \in Orders : /\ order'[x].sel = order[x].sel
                        /\ order'[x].session = order[x].session
                        /\ order[x].status = "none" <=> order'[x].status = "none"
  BY RowTypes DEF PayAbort, OrderRow
<1>4. Filled'
  BY <1>1, <1>2, <1>3, OrderStep
<1> QED BY <1>1, <1>2, <1>4 DEF IInv, TypeOK, Sound, CapacityChk

LEMMA PayChargeStep ==
    ASSUME IInv, NEW o \in Orders, PayCharge(o)
    PROVE  IInv'
<1>1. UNCHANGED <<lot, inventory, session, order, notice>> /\ order[o].status # "none"
  BY DEF PayCharge, IInv, Filled
<1>2. /\ charge' \in [Orders -> {"none", "open", "paid"}]
      /\ \A x \in Orders : x # o => charge'[x] = charge[x]
  BY DEF PayCharge, IInv, TypeOK
<1>3. Filled'
  BY <1>1, <1>2, OrderStep DEF IInv, TypeOK
<1> QED BY <1>1, <1>2, <1>3 DEF IInv, TypeOK, Sound, CapacityChk

\* A notice moves within its states; the other orders' notices stay.
LEMMA NoticeMoves ==
    ASSUME IInv, NEW o \in Orders, NEW e \in Events, NEW st \in NoticeState,
           notice' = [notice EXCEPT ![o][e] = st]
    PROVE  /\ notice' \in [Orders -> [Events -> NoticeState]]
           /\ \A x \in Orders : x # o => notice'[x] = notice[x]
<1>1. notice' = [notice EXCEPT ![o] = [notice[o] EXCEPT ![e] = st]]
  BY DEF IInv, TypeOK
<1>2. [notice[o] EXCEPT ![e] = st] \in [Events -> NoticeState]
  BY DEF IInv, TypeOK
<1> QED BY <1>1, <1>2 DEF IInv, TypeOK

\* The steps of the webhook that only move the notice.
LEMMA NoticeStep ==
    ASSUME IInv, NEW o \in Orders, NEW e \in Events,
           NoticeSeen(o, e) \/ ConfirmRead(o, e) \/ NoticeFails(o, e) \/ NoticeResent(o, e)
    PROVE  IInv'
<1>1. UNCHANGED <<lot, inventory, session, order, charge>>
  BY DEF NoticeSeen, ConfirmRead, NoticeFails, NoticeResent
<1>2. charge[o] # "none" \/ notice[o][e] # "none"
  BY DEF NoticeSeen, ConfirmRead, NoticeFails, NoticeResent, Processing
<1>3. PICK st \in NoticeState : notice' = [notice EXCEPT ![o][e] = st]
  BY DEF NoticeSeen, ConfirmRead, NoticeFails, NoticeResent, NoticeState, Processing
<1>4. /\ notice' \in [Orders -> [Events -> NoticeState]]
      /\ \A x \in Orders : x # o => notice'[x] = notice[x]
  BY <1>3, NoticeMoves
<1>5. order[o].status # "none"
  BY <1>2 DEF IInv, Filled
<1>6. Filled'
  BY <1>1, <1>4, <1>5, OrderStep DEF IInv, TypeOK
<1> QED BY <1>1, <1>4, <1>6 DEF IInv, TypeOK, Sound, CapacityChk

\* ConfirmPayment: the CHECK guards the counters, SoundConfirm and SoundStanding
\* the seats.
LEMMA ConfirmPaymentStep ==
    ASSUME IInv, NEW o \in Orders, NEW e \in Events, ConfirmPayment(o, e)
    PROVE  IInv'
<1> DEFINE sel == order[o].sel
           row == [order[o] EXCEPT !.status = "paid", !.payment = "confirmed"]
<1>1. /\ UNCHANGED <<session, charge>>
      /\ notice[o][e] # "none"
      /\ lot' = ConfirmFromLot(lot, sel.lot, sel.qty)
      /\ CapacityChk(ConfirmFromLot(lot, sel.lot, sel.qty))
  BY DEF ConfirmPayment, Processing
<1>2. order[o].status # "none"
  BY <1>1 DEF IInv, Filled
<1>3. /\ sel \in Selections /\ sel.lot \in Lots
      /\ sel.qty \in 1..MaxIssued /\ sel.qty \in Nat /\ 1 <= MaxIssued
  BY <1>2, SelectionType DEF IInv, Filled
<1>4. lot' \in [Lots -> Counters] /\ CapacityChk(lot)'
  BY <1>1, <1>3, LotConfirmed DEF IInv, TypeOK, CapacityChk
<1>5. Sound(inventory)'
  <2>1. CASE \E h \in HoldsOfOrder(o) : inventory' = Confirm(inventory, h, o, sel.lot)
    <3>1. PICK h \in HoldsOfOrder(o) : inventory' = Confirm(inventory, h, o, sel.lot)
      BY <2>1
    <3>2. h \in Holds /\ inventory.hold[h].status = "held"
      BY <3>1 DEF HoldsOfOrder
    <3>3. Sound(Confirm(inventory, h, o, sel.lot))
      <4> HIDE DEF sel
      <4> QED BY <3>2, <1>3, SoundConfirm DEF IInv
    <3> QED BY <3>1, <3>3
  <2>2. CASE inventory' = IssueStanding(inventory, o, sel.lot, sel.qty)
    <3>1. Sound(IssueStanding(inventory, o, sel.lot, sel.qty))
      <4> HIDE DEF sel
      <4> QED BY <1>3, SoundStanding DEF IInv
    <3> QED BY <2>2, <3>1
  <2> QED BY <2>1, <2>2 DEF ConfirmPayment
<1>6. /\ notice' \in [Orders -> [Events -> NoticeState]]
      /\ \A x \in Orders : x # o => notice'[x] = notice[x]
  BY NoticeMoves DEF ConfirmPayment, NoticeState
<1>7. /\ order' \in [Orders -> OrderRow]
      /\ \A x \in Orders : /\ order'[x].sel = order[x].sel
                           /\ order'[x].session = order[x].session
                           /\ order[x].status = "none" <=> order'[x].status = "none"
  <2>1. row \in OrderRow /\ row.sel = order[o].sel /\ row.session = order[o].session /\ row.status # "none"
    BY DEF IInv, TypeOK, OrderRow, Committed
  <2>2. order' = [order EXCEPT ![o] = row]
    BY DEF ConfirmPayment, IInv, TypeOK
  <2> HIDE DEF row
  <2> QED BY <2>1, <2>2, <1>2 DEF IInv, TypeOK
<1>8. Filled'
  BY <1>1, <1>2, <1>6, <1>7, OrderStep
<1>9. TypeOK'
  BY <1>1, <1>4, <1>5, <1>6, <1>7 DEF IInv, TypeOK, Sound
<1> QED BY <1>4, <1>5, <1>8, <1>9 DEF IInv

LEMMA SweepInventoryStep == ASSUME IInv, SweepInventory PROVE IInv'
<1>1. /\ lot' = ReleaseFromLots(lot, OwedByOrders(Abandoned))
      /\ inventory' = ExpireDue(inventory)
      /\ UNCHANGED <<session, charge, notice>>
  BY DEF SweepInventory
<1>2. lot' \in [Lots -> Counters] /\ CapacityChk(lot)'
  BY <1>1, OwedType, LotsReleased DEF IInv, TypeOK, CapacityChk
<1>3. Sound(inventory)'
  BY <1>1, SoundExpireDue DEF IInv
<1>4. /\ order' \in [Orders -> OrderRow]
      /\ \A x \in Orders : /\ order'[x].sel = order[x].sel
                           /\ order'[x].session = order[x].session
                           /\ order[x].status = "none" <=> order'[x].status = "none"
  BY RowTypes DEF SweepInventory, Abandoned, OrderRow, Committed
<1>5. Filled'
  BY <1>1, <1>4 DEF IInv, Filled
<1> QED BY <1>1, <1>2, <1>3, <1>4, <1>5 DEF IInv, TypeOK, Sound

LEMMA IssueCourtesyStep ==
    ASSUME IInv, NEW l \in Lots, NEW s \in Seats \cup {NoSeat}, IssueCourtesy(l, s)
    PROVE  IInv'
<1> DEFINE t == CourtesyTicket(inventory, l, s)
<1>1. /\ UNCHANGED <<lot, session, order, charge, notice>>
      /\ inventory' = IssueCourtesyTicket(inventory, t)
      /\ s # NoSeat => inventory.occ[s].kind = "free"
  BY DEF IssueCourtesy
<1>2. t \in Ticket /\ t.seat = s
  <2>1. Issued(inventory, NoOrder) + 1 \in Nat
    BY IssuedIsNat DEF IInv
  <2> QED BY <2>1 DEF CourtesyTicket, Ticket
<1> HIDE DEF t
<1>3. Sound(inventory)'
  BY <1>1, <1>2, SoundCourtesy DEF IInv
<1> QED BY <1>1, <1>3 DEF IInv, TypeOK, Sound, CapacityChk, Filled

LEMMA TickStep == ASSUME IInv, Tick PROVE IInv'
<1>1. UNCHANGED <<lot, charge, notice>>
  BY DEF Tick
<1>2. Sound(inventory)'
  BY SoundAge DEF Tick, IInv
<1>3. \A n \in Nat : Less(n, 0) \in Nat
  BY DEF Less
<1>4. /\ session' \in [Sessions -> SessionRow]
      /\ \A x \in Sessions : /\ session'[x].sel = session[x].sel
                             /\ session[x].status = "none" <=> session'[x].status = "none"
  BY <1>3 DEF Tick, IInv, TypeOK, SessionRow
<1>5. /\ order' \in [Orders -> OrderRow]
      /\ \A x \in Orders : /\ order'[x].sel = order[x].sel
                           /\ order'[x].session = order[x].session
                           /\ order[x].status = "none" <=> order'[x].status = "none"
  BY <1>3 DEF Tick, IInv, TypeOK, OrderRow
<1>6. Filled'
  BY <1>1, <1>4, <1>5 DEF IInv, Filled
<1> QED BY <1>1, <1>2, <1>4, <1>5, <1>6 DEF IInv, TypeOK, Sound, CapacityChk

-----------------------------------------------------------------------------
(* The theorems                                                            *)

\* No step of the checkout leaves IInv.
LEMMA NextIInv == IInv /\ [Next]_vars => IInv'
<1> SUFFICES ASSUME IInv, [Next]_vars PROVE IInv'
  OBVIOUS
<1>1. ASSUME NEW s \in Sessions, NEW sel \in Selections, NEW h \in Holds \cup {NoHold},
             NEW others \in SUBSET Sessions, NEW b \in Browsers,
             CreateSession(s, b, sel, h, others)
      PROVE  IInv'
  BY <1>1, CreateSessionStep
<1>2. ASSUME NEW s \in Sessions, NEW sel \in Selections, NEW h \in Holds \cup {NoHold},
             PatchSession(s, sel, h)
      PROVE  IInv'
  <2>1. session[s].status \in Live /\ UpdateSession(s, sel, h, {})
    BY <1>2 DEF PatchSession, Live
  <2> QED BY <2>1, UpdateSessionStep
<1>3. ASSUME NEW s \in Sessions, NEW sel \in Selections, NEW h \in Holds \cup {NoHold},
             NEW others \in SUBSET Sessions, ResumeSession(s, sel, h, others)
      PROVE  IInv'
  BY <1>3, ResumeSessionStep
<1>4. ASSUME NEW s \in Sessions, AuthStarted(s) \/ BindSession(s)
      PROVE  IInv'
  BY <1>4, GraceStep
<1>5. ASSUME NEW o \in Orders, NEW s \in Sessions, PayBegin(o, s)
      PROVE  IInv'
  BY <1>5, PayBeginStep
<1>6. ASSUME NEW o \in Orders,
             CreateCharge(o) \/ PayCommit(o) \/ PayAbort(o) \/ PayCharge(o)
      PROVE  IInv'
  BY <1>6, CreateChargeStep, PayCommitStep, PayAbortStep, PayChargeStep
<1>7. ASSUME NEW o \in Orders, NEW e \in Events,
             \/ NoticeSeen(o, e) \/ ConfirmRead(o, e) \/ ConfirmPayment(o, e)
             \/ NoticeFails(o, e) \/ NoticeResent(o, e)
      PROVE  IInv'
  BY <1>7, NoticeStep, ConfirmPaymentStep
<1>8. ASSUME NEW l \in Lots, NEW s \in Seats \cup {NoSeat}, IssueCourtesy(l, s)
      PROVE  IInv'
  BY <1>8, IssueCourtesyStep
<1>9. CASE SweepInventory \/ SweepSessions \/ Tick
  BY <1>9, SweepInventoryStep, SweepSessionsStep, TickStep
<1>10. CASE UNCHANGED vars
  BY <1>10 DEF vars, IInv, TypeOK, Sound, CapacityChk, Filled
<1> QED BY <1>1, <1>2, <1>3, <1>4, <1>5, <1>6, <1>7, <1>8, <1>9, <1>10 DEF Next

\* Every reachable state of the checkout satisfies IInv.
LEMMA Invariance == Spec => []IInv
BY InitIInv, NextIInv, PTL DEF Spec

\* Type correctness: in particular no counter, deadline or quantity leaves its range.
THEOREM TypeCorrectness == Spec => []TypeOK
<1>1. IInv => TypeOK
  BY DEF IInv
<1> QED BY <1>1, Invariance, PTL

\* A hold that Confirm would accept owns all of its seats, until its own deadline
\* at least: for any number of buyers and seats, and any deadlines and grace.
THEOREM LiveHoldsKeepTheirSeats == Spec => []LiveHoldOwnsSeats
<1>1. IInv => LiveHoldOwnsSeats
  BY DEF IInv, Sound, LiveHoldOwnsSeats
<1> QED BY <1>1, Invariance, PTL

\* No seat has two tickets, and a seat is occupied by a ticket exactly when it is sold.
THEOREM NoSeatIsSoldTwice == Spec => []SeatSoldOnce
<1>1. IInv => SeatSoldOnce
  <2> SUFFICES ASSUME Sound(inventory), NEW s \in Seats
               PROVE  {t \in inventory.tickets : t.seat = s}
                        = IF inventory.occ[s].kind = "ticket" THEN {inventory.occ[s].ticket} ELSE {}
    BY DEF IInv, SeatSoldOnce
  <2>1. \A t \in inventory.tickets : t.seat = s =>
           inventory.occ[s].kind = "ticket" /\ inventory.occ[s].ticket = t
    BY DEF Sound
  <2>2. inventory.occ[s].kind = "ticket" =>
           inventory.occ[s].ticket \in inventory.tickets /\ inventory.occ[s].ticket.seat = s
    BY DEF Sound
  <2> QED BY <2>1, <2>2
<1> QED BY <1>1, Invariance, PTL

-----------------------------------------------------------------------------
(* Who owns a hold.  A hold, once taken, keeps its seats and is never free *)
(* to be taken again; so a session that took it stays its only owner.      *)

Owns ==
    /\ \A s \in Sessions : session[s].status \in Live => (session[s].hold = NoHold <=> session[s].sel.seats = {})
    /\ \A s \in Sessions : session[s].hold # NoHold =>
          /\ inventory.hold[session[s].hold].status # "none"
          /\ inventory.hold[session[s].hold].seats = session[s].sel.seats
    /\ \A s, x \in Sessions : session[s].hold # NoHold /\ session[s].hold = session[x].hold => s = x

\* What no operation on the tables does: give a hold other seats, or take it anew.
Held(old, new) ==
    \A h \in Holds : old.hold[h].status # "none" =>
        new.hold[h].status # "none" /\ new.hold[h].seats = old.hold[h].seats

LEMMA HeldReleased ==
    ASSUME NEW iv, iv \in Tables, NEW H
    PROVE  Held(iv, Release(iv, H)) /\ \A h \in Holds : Release(iv, H).hold[h].status = "none" => iv.hold[h].status = "none"
<1> DEFINE hd == [h \in Holds |-> IF h \in H /\ iv.hold[h].status = "held"
                                  THEN [iv.hold[h] EXCEPT !.status = "released"] ELSE iv.hold[h]]
<1>1. Release(iv, H).hold = hd
  BY DEF Release, Freed, Tables
<1>2. \A h \in Holds : hd[h].seats = iv.hold[h].seats /\ (hd[h].status = "none" <=> iv.hold[h].status = "none")
  BY DEF Tables, HoldRow
<1> QED BY <1>1, <1>2 DEF Held

LEMMA HeldExpired == ASSUME NEW iv, iv \in Tables PROVE Held(iv, ExpireDue(iv))
<1> DEFINE hd == [h \in Holds |-> IF iv.hold[h].status = "held" /\ iv.hold[h].left = 0
                                  THEN [iv.hold[h] EXCEPT !.status = "expired"] ELSE iv.hold[h]]
<1>1. ExpireDue(iv).hold = hd
  BY DEF ExpireDue, Freed, Tables
<1>2. \A h \in Holds : hd[h].seats = iv.hold[h].seats /\ (hd[h].status = "none" <=> iv.hold[h].status = "none")
  BY DEF Tables, HoldRow
<1> QED BY <1>1, <1>2 DEF Held

LEMMA HeldAged == ASSUME NEW iv, iv \in Tables PROVE Held(iv, Age(iv))
<1> DEFINE hd == [h \in Holds |-> [iv.hold[h] EXCEPT !.left = Less(@, 0)]]
<1>1. Age(iv).hold = hd
  BY DEF Age, Tables
<1>2. \A h \in Holds : hd[h].seats = iv.hold[h].seats /\ hd[h].status = iv.hold[h].status
  BY DEF Tables, HoldRow
<1> QED BY <1>1, <1>2 DEF Held

LEMMA HeldElse ==
    ASSUME NEW iv, iv \in Tables, NEW o, NEW l
    PROVE  /\ \A H : Held(iv, Extend(iv, H))
           /\ \A h \in Holds : Held(iv, LinkToOrder(iv, h, o))
           /\ \A h \in Holds : Held(iv, Confirm(iv, h, o, l))
           /\ \A qty : Held(iv, IssueStanding(iv, o, l, qty))
           /\ \A t : Held(iv, IssueCourtesyTicket(iv, t))
<1>1. ASSUME NEW H PROVE Held(iv, Extend(iv, H))
  BY DEF Held, Extend, Tables
<1>2. ASSUME NEW h \in Holds PROVE Held(iv, LinkToOrder(iv, h, o))
  <2>1. LinkToOrder(iv, h, o).hold = [iv.hold EXCEPT ![h].order = o]
    BY DEF LinkToOrder, Tables
  <2> QED BY <2>1 DEF Held, Tables, HoldRow
<1>3. ASSUME NEW h \in Holds PROVE Held(iv, Confirm(iv, h, o, l))
  <2>1. Confirm(iv, h, o, l).hold = [iv.hold EXCEPT ![h] = [iv.hold[h] EXCEPT !.status = "confirmed", !.order = o]]
    BY DEF Confirm, Tables
  <2> QED BY <2>1 DEF Held, Tables, HoldRow
<1>4. ASSUME NEW qty PROVE Held(iv, IssueStanding(iv, o, l, qty))
  BY DEF Held, IssueStanding, Tables
<1>5. ASSUME NEW t PROVE Held(iv, IssueCourtesyTicket(iv, t))
  BY DEF Held, IssueCourtesyTicket, Tables
<1> QED BY <1>1, <1>2, <1>3, <1>4, <1>5

\* A step that gives no session another hold, other seats or another life.
LEMMA OwnsStays ==
    ASSUME IInv, Owns, Held(inventory, inventory'),
           \A s \in Sessions : /\ session'[s].sel = session[s].sel /\ session'[s].hold = session[s].hold
                               /\ session'[s].status \in Live => session[s].status \in Live
    PROVE  Owns'
<1>1. \A s \in Sessions : session[s].hold \in Holds \cup {NoHold}
  BY RowTypes DEF SessionRow
<1> QED BY <1>1 DEF Owns, Held

\* A step that gives one session a hold nobody had, or none.
LEMMA OwnsTaken ==
    ASSUME IInv, Owns, NEW s \in Sessions, NEW sel \in Selections, NEW h, NEW lt, NEW iv, Sound(iv),
           Held(inventory, iv), \A x \in Holds : iv.hold[x].status = "none" => inventory.hold[x].status = "none",
           CanReserve(lt, iv, sel, h), inventory' = Reserved(iv, sel, h),
           session'[s].sel = sel, session'[s].hold = h,
           \A x \in Sessions \ {s} : /\ session'[x].sel = session[x].sel /\ session'[x].hold = session[x].hold
                                     /\ session'[x].status \in Live => session[x].status \in Live
    PROVE  Owns'
<1>1. \A x \in Sessions : session[x].hold \in Holds \cup {NoHold}
  BY RowTypes DEF SessionRow
<1>2. CASE sel.seats = {}
  <2>1. h = NoHold /\ inventory' = iv
    BY <1>2 DEF CanReserve, Reserved
  <2> QED BY <1>1, <1>2, <2>1 DEF Owns, Held
<1>3. CASE sel.seats # {}
  <2> DEFINE row == [status |-> "held", seats |-> sel.seats, order |-> NoOrder, left |-> HoldTTL]
  <2>1. h \in Holds /\ h # NoHold /\ inventory.hold[h].status = "none"
    BY <1>3, InventoryAssumption DEF CanReserve
  <2>2. inventory'.hold = [iv.hold EXCEPT ![h] = row]
    BY <2>1 DEF Reserved, Hold, Sound, Tables
  <2>3. row.status # "none" /\ row.seats = sel.seats
    OBVIOUS
  <2>4. iv.hold \in [Holds -> HoldRow]
    BY DEF Sound, Tables
  <2> HIDE DEF row
  <2>5. inventory'.hold[h] = row /\ \A x \in Holds \ {h} : inventory'.hold[x] = iv.hold[x]
    BY <2>1, <2>2, <2>4
  <2>6. \A x \in Sessions : session[x].hold # h
    BY <2>1 DEF Owns
  <2>7. (\A x \in Sessions : session[x].status \in Live => (session[x].hold = NoHold <=> session[x].sel.seats = {}))'
    BY <1>3, <2>1 DEF Owns
  <2>8. ASSUME NEW x \in Sessions, session'[x].hold # NoHold
        PROVE  /\ inventory'.hold[session'[x].hold].status # "none"
               /\ inventory'.hold[session'[x].hold].seats = session'[x].sel.seats
    <3>1. CASE x = s
      BY <3>1, <2>3, <2>5
    <3>2. CASE x # s
      <4>1. session'[x].hold = session[x].hold /\ session'[x].sel = session[x].sel /\ session[x].hold \in Holds \ {h}
        BY <3>2, <1>1, <2>6, <2>8
      <4> QED BY <4>1, <2>5, <2>8 DEF Owns, Held
    <3> QED BY <3>1, <3>2
  <2>9. (\A x, y \in Sessions : session[x].hold # NoHold /\ session[x].hold = session[y].hold => x = y)'
    BY <2>6 DEF Owns
  <2> QED BY <2>7, <2>8, <2>9 DEF Owns
<1> QED BY <1>2, <1>3

LEMMA OwnsUpdated ==
    ASSUME IInv, Owns, NEW s \in Sessions, NEW sel \in Selections, NEW h, NEW others \in SUBSET Sessions,
           \A x \in others : session[x].status # "none", UpdateSession(s, sel, h, others)
    PROVE  Owns'
<1> DEFINE gone == others \cup {s}
           lt == ReleaseFromLots(lot, Owed(gone))
           iv == Release(inventory, HoldsOf(gone))
           cl == Close(others, Expired)
           row == Changed(s, sel, h)
<1>1. /\ CanReserve(lt, iv, sel, h) /\ inventory' = Reserved(iv, sel, h)
      /\ session' = [cl EXCEPT ![s] = row]
  BY DEF UpdateSession
<1>2. Sound(iv)
  BY SoundRelease DEF IInv
<1>3. Held(inventory, iv) /\ \A x \in Holds : iv.hold[x].status = "none" => inventory.hold[x].status = "none"
  BY HeldReleased DEF IInv, TypeOK
<1>4. row.sel = sel /\ row.hold = h
  BY RowTypes DEF Changed, SessionRow
<1>5. /\ cl \in [Sessions -> SessionRow]
      /\ \A x \in Sessions : /\ cl[x].sel = session[x].sel /\ cl[x].hold = session[x].hold
                             /\ cl[x].status \in Live => session[x].status \in Live
  <2>1. cl \in [Sessions -> SessionRow] /\ \A x \in Sessions : cl[x].sel = session[x].sel /\ cl[x].hold = session[x].hold
    BY SessionsExpired DEF IInv
  <2>2. \A x \in Sessions : cl[x].status \in Live => session[x].status \in Live
    BY RowTypes DEF Close, Expired, Live, SessionRow
  <2> QED BY <2>1, <2>2
<1> HIDE DEF lt, iv, cl, row
<1>6. session'[s] = row /\ \A x \in Sessions \ {s} : session'[x] = cl[x]
  BY <1>1, <1>5
<1> QED BY <1>1, <1>2, <1>3, <1>4, <1>5, <1>6, OwnsTaken

LEMMA OwnsCreated ==
    ASSUME IInv, Owns, NEW s \in Sessions, NEW b \in Browsers, NEW sel \in Selections, NEW h,
           NEW others \in SUBSET Sessions, CreateSession(s, b, sel, h, others)
    PROVE  Owns'
<1> DEFINE lt == ReleaseFromLots(lot, Owed(others))
           iv == Release(inventory, HoldsOf(others))
           cl == Close(others, Expired)
           row == [status |-> "open", browser |-> b, sel |-> sel,
                   hold |-> h, grace |-> FALSE, left |-> AnonTTL]
<1>1. /\ CanReserve(lt, iv, sel, h) /\ inventory' = Reserved(iv, sel, h)
      /\ session' = [cl EXCEPT ![s] = row] /\ \A x \in others : session[x].status # "none"
  BY DEF CreateSession, OwnedElsewhere, Live
<1>2. Sound(iv)
  BY SoundRelease DEF IInv
<1>3. Held(inventory, iv) /\ \A x \in Holds : iv.hold[x].status = "none" => inventory.hold[x].status = "none"
  BY HeldReleased DEF IInv, TypeOK
<1>4. row.sel = sel /\ row.hold = h
  OBVIOUS
<1>5. /\ cl \in [Sessions -> SessionRow]
      /\ \A x \in Sessions : /\ cl[x].sel = session[x].sel /\ cl[x].hold = session[x].hold
                             /\ cl[x].status \in Live => session[x].status \in Live
  <2>1. cl \in [Sessions -> SessionRow] /\ \A x \in Sessions : cl[x].sel = session[x].sel /\ cl[x].hold = session[x].hold
    BY <1>1, SessionsExpired DEF IInv
  <2>2. \A x \in Sessions : cl[x].status \in Live => session[x].status \in Live
    BY RowTypes DEF Close, Expired, Live, SessionRow
  <2> QED BY <2>1, <2>2
<1> HIDE DEF lt, iv, cl, row
<1>6. session'[s] = row /\ \A x \in Sessions \ {s} : session'[x] = cl[x]
  BY <1>1, <1>5
<1> QED BY <1>1, <1>2, <1>3, <1>4, <1>5, <1>6, OwnsTaken

\* Closing sessions and giving their holds back.
LEMMA OwnsClosed ==
    ASSUME IInv, Owns, NEW S \in SUBSET Sessions, NEW H, inventory' = Release(inventory, H),
           session' = Close(S, Expired) \/ session' = Close(S, ClosedAs)
    PROVE  Owns'
<1>1. Held(inventory, inventory')
  BY HeldReleased DEF IInv, TypeOK
<1>2. \A x \in Sessions : /\ session'[x].sel = session[x].sel /\ session'[x].hold = session[x].hold
                          /\ session'[x].status \in Live => session[x].status \in Live
  BY RowTypes DEF Close, Expired, ClosedAs, Live, SessionRow
<1> QED BY <1>1, <1>2, OwnsStays

LEMMA NextOwns == IInv /\ Owns /\ [Next]_vars => Owns'
<1> SUFFICES ASSUME IInv, Owns, [Next]_vars PROVE Owns'
  OBVIOUS
<1>1. inventory \in Tables
  BY DEF IInv, TypeOK
<1>2. Held(inventory, inventory)
  BY DEF Held
<1>3. ASSUME NEW s \in Sessions, NEW sel \in Selections, NEW h \in Holds \cup {NoHold},
             NEW others \in SUBSET Sessions, NEW b \in Browsers, CreateSession(s, b, sel, h, others)
      PROVE  Owns'
  BY <1>3, OwnsCreated
<1>4. ASSUME NEW s \in Sessions, NEW sel \in Selections, NEW h \in Holds \cup {NoHold}, PatchSession(s, sel, h)
      PROVE  Owns'
  BY <1>4, OwnsUpdated DEF PatchSession
<1>5. ASSUME NEW s \in Sessions, NEW sel \in Selections, NEW h \in Holds \cup {NoHold},
             NEW others \in SUBSET Sessions, ResumeSession(s, sel, h, others)
      PROVE  Owns'
  <2>1. \A x \in others : session[x].status # "none"
    BY <1>5 DEF ResumeSession, OwnedElsewhere, Live
  <2>2. CASE sel # session[s].sel
    BY <1>5, <2>1, <2>2, OwnsUpdated DEF ResumeSession
  <2>3. CASE sel = session[s].sel
    BY <1>5, <2>3, OwnsClosed DEF ResumeSession
  <2> QED BY <2>2, <2>3
<1>6. ASSUME NEW s \in Sessions, AuthStarted(s) \/ BindSession(s) PROVE Owns'
  <2>1. Held(inventory, inventory')
    BY <1>1, <1>2, <1>6, HeldElse DEF AuthStarted, BindSession
  <2>2. \A x \in Sessions : /\ session'[x].sel = session[x].sel /\ session'[x].hold = session[x].hold
                            /\ session'[x].status \in Live => session[x].status \in Live
    BY <1>6, RowTypes DEF AuthStarted, BindSession, SessionRow, Live
  <2> QED BY <2>1, <2>2, OwnsStays
<1>7. ASSUME UNCHANGED session, Held(inventory, inventory') PROVE Owns'
  BY <1>7, OwnsStays
<1>8. ASSUME NEW o \in Orders, PayCommit(o) PROVE Owns'
  <2>1. order[o].hold \in Holds \cup {NoHold}
    BY RowTypes DEF OrderRow
  <2>2. Held(inventory, inventory')
    BY <1>1, <1>2, <1>8, <2>1, HeldElse DEF PayCommit
  <2>3. \A x \in Sessions : /\ session'[x].sel = session[x].sel /\ session'[x].hold = session[x].hold
                            /\ session'[x].status \in Live => session[x].status \in Live
    BY <1>8, RowTypes DEF PayCommit, SessionRow, Live
  <2> QED BY <2>2, <2>3, OwnsStays
<1>9. ASSUME NEW o \in Orders,
             CreateCharge(o) \/ PayAbort(o) \/ PayCharge(o) \/ \E s \in Sessions : PayBegin(o, s)
      PROVE  Owns'
  BY <1>2, <1>7, <1>9 DEF CreateCharge, PayAbort, PayCharge, PayBegin
<1>10. ASSUME NEW o \in Orders, NEW e \in Events,
              NoticeSeen(o, e) \/ ConfirmRead(o, e) \/ NoticeFails(o, e) \/ NoticeResent(o, e)
       PROVE  Owns'
  BY <1>2, <1>7, <1>10 DEF NoticeSeen, ConfirmRead, NoticeFails, NoticeResent
<1>11. ASSUME NEW o \in Orders, NEW e \in Events, ConfirmPayment(o, e) PROVE Owns'
  <2>1. Held(inventory, inventory')
    BY <1>1, <1>11, HeldElse DEF ConfirmPayment, HoldsOfOrder
  <2> QED BY <1>7, <1>11, <2>1 DEF ConfirmPayment
<1>12. ASSUME NEW l \in Lots, NEW s \in Seats \cup {NoSeat}, IssueCourtesy(l, s) PROVE Owns'
  <2>1. Held(inventory, inventory')
    BY <1>1, <1>12, HeldElse DEF IssueCourtesy
  <2> QED BY <1>7, <1>12, <2>1 DEF IssueCourtesy
<1>13. CASE SweepInventory
  BY <1>1, <1>7, <1>13, HeldExpired DEF SweepInventory
<1>14. CASE SweepSessions
  <2>1. DueSessions \in SUBSET Sessions
    BY DEF DueSessions
  <2> QED BY <1>14, <2>1, OwnsClosed DEF SweepSessions
<1>15. CASE Tick
  <2>1. \A x \in Sessions : /\ session'[x].sel = session[x].sel /\ session'[x].hold = session[x].hold
                            /\ session'[x].status \in Live => session[x].status \in Live
    BY <1>15, RowTypes DEF Tick, SessionRow
  <2> QED BY <1>1, <1>15, <2>1, HeldAged, OwnsStays DEF Tick
<1>16. CASE UNCHANGED vars
  BY <1>2, <1>7, <1>16 DEF vars
<1> QED BY <1>3, <1>4, <1>5, <1>6, <1>8, <1>9, <1>10, <1>11, <1>12, <1>13, <1>14, <1>15, <1>16 DEF Next

\* Whatever a buyer changes, abandons or resumes, a session that may be paid owns
\* its hold alone, and the hold is of the seats it shows.
THEOREM SessionsOwnTheirHolds == Spec => []SessionOwnsItsHold
<1>1. Init => Owns
  BY DEF Init, Owns, Live
<1>2. Owns => SessionOwnsItsHold
  BY DEF Owns, SessionOwnsItsHold
<1> QED BY <1>1, <1>2, NextOwns, Invariance, PTL DEF Spec

-----------------------------------------------------------------------------
(* What live sessions reserve of a lot without a map.  Such a session has  *)
(* no hold, because it owns one only for seats, so that closing it gives   *)
(* its whole quantity back to the lot; and what is given back is part of   *)
(* what is held, so that the floor at zero hides nothing.                  *)

\* The live sessions on lot l and what they ask for, in the table ss.
LiveOn(ss, l) == {s \in Sessions : ss[s].status \in Live /\ ss[s].sel.lot = l}

Asked(ss, l) == SumFunctionOnSet([s \in Sessions |-> ss[s].sel.qty], LiveOn(ss, l))

NoneOrdered == \A o \in Orders : order[o].status = "none"

LEMMA AskedIs ==
    ASSUME NEW ss, NEW l
    PROVE  SumFunction([s \in {s \in Sessions : ss[s].status \in Live /\ ss[s].sel.lot = l} |-> ss[s].sel.qty]) = Asked(ss, l)
<1> DEFINE T == {s \in Sessions : ss[s].status \in Live /\ ss[s].sel.lot = l}
           f == [s \in T |-> ss[s].sel.qty]
           g == [s \in Sessions |-> ss[s].sel.qty]
<1>1. IsFiniteSet(T)
  BY CheckoutAssumption, FS_Subset
<1>2. \A s \in T : f[s] = g[s]
  OBVIOUS
<1>3. DOMAIN f = T
  OBVIOUS
<1> HIDE DEF f, g
<1>4. SumFunctionOnSet(f, T) = SumFunctionOnSet(g, T)
  <2> HIDE DEF T
  <2> QED BY <1>1, <1>2, SumSame
<1>5. SumFunction(f) = SumFunctionOnSet(g, T)
  BY <1>3, <1>4 DEF SumFunction
<1> QED BY <1>5 DEF Asked, LiveOn, f, g

\* The same sessions are live and ask for the same: so do they together.
LEMMA AskedSame ==
    ASSUME NEW ss, NEW st, NEW l,
           \A x \in Sessions : ss[x].sel = st[x].sel /\ (ss[x].status \in Live <=> st[x].status \in Live)
    PROVE  Asked(ss, l) = Asked(st, l)
<1>1. LiveOn(ss, l) = LiveOn(st, l)
  BY DEF LiveOn
<1>2. [x \in Sessions |-> ss[x].sel.qty] = [x \in Sessions |-> st[x].sel.qty]
  OBVIOUS
<1> QED BY <1>1, <1>2 DEF Asked

\* One more session is live.
LEMMA AskedMore ==
    ASSUME NEW ss, NEW st, NEW l, NEW s \in Sessions, ss[s].status \notin Live, st[s].status \in Live,
           \A x \in Sessions \ {s} : st[x].sel = ss[x].sel /\ (st[x].status \in Live <=> ss[x].status \in Live),
           \A x \in Sessions : st[x].status \in Live => st[x].sel.qty \in Nat
    PROVE  /\ Asked(ss, l) \in Nat
           /\ Asked(st, l) = Asked(ss, l) + (IF st[s].sel.lot = l THEN st[s].sel.qty ELSE 0)
<1> DEFINE f == [x \in Sessions |-> ss[x].sel.qty]
           g == [x \in Sessions |-> st[x].sel.qty]
           A == LiveOn(ss, l)
<1>1. s \notin A /\ IsFiniteSet(A)
  BY CheckoutAssumption, FS_Subset DEF LiveOn
<1>2. \A x \in A : f[x] = g[x] /\ f[x] \in Nat /\ g[x] \in Nat
  BY DEF LiveOn
<1>3. g[s] = st[s].sel.qty /\ g[s] \in Nat
  OBVIOUS
<1>4. IF st[s].sel.lot = l THEN LiveOn(st, l) = A \cup {s} ELSE LiveOn(st, l) = A
  BY DEF LiveOn
<1>5. Asked(ss, l) = SumFunctionOnSet(f, A) /\ Asked(st, l) = SumFunctionOnSet(g, LiveOn(st, l))
  BY DEF Asked
<1> HIDE DEF f, g, A
<1>6. SumFunctionOnSet(f, A) = SumFunctionOnSet(g, A) /\ SumFunctionOnSet(f, A) \in Nat
  BY <1>1, <1>2, SumSame, SumNat
<1>7. SumFunctionOnSet(g, A \cup {s}) = g[s] + SumFunctionOnSet(g, A)
  BY <1>1, <1>2, <1>3, SumAdd
<1>8. CASE st[s].sel.lot = l
  <2>1. Asked(st, l) = SumFunctionOnSet(g, A \cup {s})
    BY <1>4, <1>5, <1>8
  <2> QED BY <1>3, <1>5, <1>6, <1>7, <1>8, <2>1
<1>9. CASE st[s].sel.lot # l
  <2>1. Asked(st, l) = SumFunctionOnSet(g, A)
    BY <1>4, <1>5, <1>9
  <2> QED BY <1>5, <1>6, <1>9, <2>1
<1> QED BY <1>8, <1>9

\* session.go, releaseReservation: closing live sessions leaves in a lot without a
\* map what the other ones reserve.
LEMMA HeldClosed ==
    ASSUME IInv, Owns, NEW l \in Lots, SoldWithoutMap(l), lot[l].held = Asked(session, l),
           NEW S \in SUBSET Sessions, \A x \in S : session[x].status \in Live,
           NEW st, \A x \in Sessions : /\ st[x].sel = session[x].sel
                                       /\ st[x].status \in Live <=> session[x].status \in Live /\ x \notin S
    PROVE  ReleaseFromLots(lot, Owed(S))[l].held = Asked(st, l)
<1> DEFINE f == [x \in Sessions |-> session[x].sel.qty]
           A == LiveOn(st, l)
           B == {s \in S : session[s].hold = NoHold /\ session[s].sel.lot = l}
<1>1. \A s \in Sessions : session[s].status \in Live => session[s].sel \in Selections
  BY DEF IInv, Filled, Live
<1>2. \A s \in S : session[s].sel.lot = l => session[s].hold = NoHold
  BY <1>1 DEF SoldWithoutMap, Owns
<1>3. A \cap B = {} /\ A \cup B = LiveOn(session, l)
  BY <1>2 DEF LiveOn
<1>4. IsFiniteSet(A) /\ IsFiniteSet(B)
  BY CheckoutAssumption, FS_Subset DEF LiveOn
<1>5. \A x \in A \cup B : f[x] \in Nat
  BY <1>1, SelectionType DEF LiveOn
<1>6. [x \in Sessions |-> st[x].sel.qty] = f
  OBVIOUS
<1>7. Asked(st, l) = SumFunctionOnSet(f, A) /\ Asked(session, l) = SumFunctionOnSet(f, LiveOn(session, l))
  BY <1>6 DEF Asked
<1>8. Owed(S)[l] = SumFunctionOnSet(f, B)
  <2> DEFINE q == [x \in B |-> session[x].sel.qty]
  <2>1. Owed(S)[l] = SumFunction(q)
    BY DEF Owed, Units
  <2>2. DOMAIN q = B /\ \A x \in B : q[x] = f[x]
    OBVIOUS
  <2> HIDE DEF q, f, B
  <2>3. SumFunctionOnSet(q, B) = SumFunctionOnSet(f, B)
    BY <1>4, <2>2, SumSame
  <2> QED BY <2>1, <2>2, <2>3 DEF SumFunction
<1> HIDE DEF f, A, B
<1>9. /\ SumFunctionOnSet(f, A) \in Nat /\ SumFunctionOnSet(f, B) \in Nat
      /\ SumFunctionOnSet(f, A \cup B) = SumFunctionOnSet(f, A) + SumFunctionOnSet(f, B)
  BY <1>3, <1>4, <1>5, SumNat, SumUnion
<1>10. ReleaseFromLots(lot, Owed(S))[l].held = Floor(lot[l].held, Owed(S)[l])
  BY DEF ReleaseFromLots, IInv, TypeOK, Counters
<1>11. lot[l].held = SumFunctionOnSet(f, A) + SumFunctionOnSet(f, B)
  BY <1>3, <1>7, <1>9
<1> QED BY <1>7, <1>8, <1>9, <1>10, <1>11 DEF Floor

\* Closing `gone' and reserving for a row that takes the place of session s.
LEMMA HeldReserved ==
    ASSUME IInv, IInv', Owns, NEW l \in Lots, SoldWithoutMap(l), lot[l].held = Asked(session, l),
           NEW gone \in SUBSET Sessions, \A x \in gone : session[x].status \in Live,
           NEW s \in Sessions, s \in gone \/ session[s].status \notin Live, NEW sel \in Selections,
           lot' = ReserveFromLot(ReleaseFromLots(lot, Owed(gone)), sel.lot, sel.qty),
           session'[s].sel = sel, session'[s].status \in Live,
           \A x \in Sessions \ {s} : /\ session'[x].sel = session[x].sel
                                     /\ session'[x].status \in Live <=> session[x].status \in Live /\ x \notin gone
    PROVE  lot'[l].held = Asked(session', l)
<1> DEFINE st == Close(gone, Expired)
           lt == ReleaseFromLots(lot, Owed(gone))
<1>1. \A x \in Sessions : /\ st[x].sel = session[x].sel
                          /\ st[x].status \in Live <=> session[x].status \in Live /\ x \notin gone
  BY RowTypes DEF Close, Expired, SessionRow, Live
<1> HIDE DEF st
<1>2. lt[l].held = Asked(st, l)
  BY <1>1, HeldClosed
<1>3. lt \in [Lots -> Counters]
  BY GivenBack DEF Live
<1>4. \A x \in Sessions : session'[x].status \in Live => session'[x].sel.qty \in Nat
  <2>1. \A x \in Sessions : session'[x].status \in Live => session'[x].sel \in Selections
    BY DEF IInv, Filled, Live
  <2> QED BY <2>1, SelectionType
<1>5. /\ st[s].status \notin Live
      /\ \A x \in Sessions \ {s} : /\ session'[x].sel = st[x].sel
                                   /\ session'[x].status \in Live <=> st[x].status \in Live
  BY <1>1
<1>6. /\ Asked(st, l) \in Nat
      /\ Asked(session', l) = Asked(st, l) + (IF sel.lot = l THEN sel.qty ELSE 0)
  BY <1>4, <1>5, AskedMore
<1> HIDE DEF lt
<1>7. lot' = ReserveFromLot(lt, sel.lot, sel.qty)
  BY DEF lt
<1>8. lot'[l].held = lt[l].held + (IF sel.lot = l THEN sel.qty ELSE 0)
  BY <1>2, <1>3, <1>6, <1>7 DEF ReserveFromLot, Counters
<1> QED BY <1>2, <1>6, <1>8

LEMMA HeldUpdated ==
    ASSUME IInv, IInv', Owns, NEW l \in Lots, SoldWithoutMap(l), lot[l].held = Asked(session, l),
           NEW s \in Sessions, session[s].status \in Live, NEW sel \in Selections, NEW h,
           NEW others \in SUBSET Sessions, \A x \in others : session[x].status \in Live,
           UpdateSession(s, sel, h, others)
    PROVE  lot'[l].held = Asked(session', l)
<1> DEFINE gone == others \cup {s}
           cl == Close(others, Expired)
           row == Changed(s, sel, h)
<1>1. /\ lot' = ReserveFromLot(ReleaseFromLots(lot, Owed(gone)), sel.lot, sel.qty)
      /\ session' = [cl EXCEPT ![s] = row]
  BY DEF UpdateSession
<1>2. row.sel = sel /\ row.status \in Live
  BY RowTypes DEF Changed, SessionRow
<1>3. /\ DOMAIN cl = Sessions
      /\ \A x \in Sessions : cl[x].sel = session[x].sel /\ (cl[x].status \in Live <=> session[x].status \in Live /\ x \notin others)
  BY RowTypes DEF Close, Expired, SessionRow, Live
<1>4. gone \in SUBSET Sessions /\ s \in gone /\ \A x \in gone : session[x].status \in Live
  OBVIOUS
<1> HIDE DEF cl, row
<1>5. session'[s] = row /\ \A x \in Sessions \ {s} : session'[x] = cl[x]
  BY <1>1, <1>3
<1>6. \A x \in Sessions \ {s} : /\ session'[x].sel = session[x].sel
                                /\ session'[x].status \in Live <=> session[x].status \in Live /\ x \notin gone
  BY <1>3, <1>5
<1> HIDE DEF gone
<1> QED BY <1>1, <1>2, <1>4, <1>5, <1>6, HeldReserved

LEMMA HeldCreated ==
    ASSUME IInv, IInv', Owns, NEW l \in Lots, SoldWithoutMap(l), lot[l].held = Asked(session, l),
           NEW s \in Sessions, NEW b \in Browsers, NEW sel \in Selections, NEW h,
           NEW others \in SUBSET Sessions, CreateSession(s, b, sel, h, others)
    PROVE  lot'[l].held = Asked(session', l)
<1> DEFINE cl == Close(others, Expired)
           row == [status |-> "open", browser |-> b, sel |-> sel,
                   hold |-> h, grace |-> FALSE, left |-> AnonTTL]
<1>1. /\ lot' = ReserveFromLot(ReleaseFromLots(lot, Owed(others)), sel.lot, sel.qty)
      /\ session' = [cl EXCEPT ![s] = row]
      /\ session[s].status \notin Live
      /\ \A x \in others : session[x].status \in Live
  BY DEF CreateSession, OwnedElsewhere, Live
<1>2. row.sel = sel /\ row.status \in Live
  BY DEF Live
<1>3. /\ DOMAIN cl = Sessions
      /\ \A x \in Sessions : cl[x].sel = session[x].sel /\ (cl[x].status \in Live <=> session[x].status \in Live /\ x \notin others)
  BY RowTypes DEF Close, Expired, SessionRow, Live
<1> HIDE DEF cl, row
<1>4. session'[s] = row /\ \A x \in Sessions \ {s} : session'[x] = cl[x]
  BY <1>1, <1>3
<1>5. \A x \in Sessions \ {s} : /\ session'[x].sel = session[x].sel
                                /\ session'[x].status \in Live <=> session[x].status \in Live /\ x \notin others
  BY <1>3, <1>4
<1> QED BY <1>1, <1>2, <1>4, <1>5, HeldReserved

\* Closing sessions, and nothing else.
LEMMA HeldSwept ==
    ASSUME IInv, Owns, NEW l \in Lots, SoldWithoutMap(l), lot[l].held = Asked(session, l),
           NEW S \in SUBSET Sessions, \A x \in S : session[x].status \in Live,
           lot' = ReleaseFromLots(lot, Owed(S)),
           session' = Close(S, Expired) \/ session' = Close(S, ClosedAs)
    PROVE  lot'[l].held = Asked(session', l)
<1>1. \A x \in Sessions : /\ session'[x].sel = session[x].sel
                          /\ session'[x].status \in Live <=> session[x].status \in Live /\ x \notin S
  BY RowTypes DEF Close, Expired, ClosedAs, SessionRow, Live
<1> QED BY <1>1, HeldClosed

\* The steps of paying leave the order in use, and the others as they are.
LEMMA OrdersMove ==
    ASSUME IInv, NEW o \in Orders,
           \/ \E s \in Sessions : PayBegin(o, s)
           \/ CreateCharge(o) \/ PayCommit(o) \/ PayAbort(o)
           \/ \E e \in Events : ConfirmPayment(o, e)
    PROVE  order'[o].status # "none" /\ \A x \in Orders \ {o} : order'[x] = order[x]
<1>1. order \in [Orders -> OrderRow]
  BY RowTypes
<1>2. PICK row : order' = [order EXCEPT ![o] = row] /\ row.status # "none"
  <2>1. ASSUME NEW s \in Sessions, PayBegin(o, s)
        PROVE  \E row : order' = [order EXCEPT ![o] = row] /\ row.status # "none"
    <3> DEFINE row == [order[o] EXCEPT !.status = "reading", !.session = s, !.sel = session[s].sel, !.hold = session[s].hold]
    <3>1. row.status # "none"
      BY <1>1 DEF OrderRow
    <3>2. order' = [order EXCEPT ![o] = row]
      BY <1>1, <2>1 DEF PayBegin
    <3> HIDE DEF row
    <3> QED BY <3>1, <3>2
  <2>2. CASE CreateCharge(o) \/ PayAbort(o)
    <3> PICK st \in {"charged", "aborted"} : order' = [order EXCEPT ![o].status = st]
      BY <2>2 DEF CreateCharge, PayAbort
    <3>1. [order[o] EXCEPT !.status = st].status # "none"
      BY <1>1 DEF OrderRow
    <3> QED BY <1>1, <3>1
  <2>3. CASE PayCommit(o)
    <3> DEFINE row == [order[o] EXCEPT !.status = "pending", !.payment = "pending", !.left = AbandonTTL]
    <3>1. row.status # "none"
      BY <1>1 DEF OrderRow
    <3>2. order' = [order EXCEPT ![o] = row]
      BY <1>1, <2>3 DEF PayCommit
    <3> HIDE DEF row
    <3> QED BY <3>1, <3>2
  <2>4. ASSUME NEW e \in Events, ConfirmPayment(o, e)
        PROVE  \E row : order' = [order EXCEPT ![o] = row] /\ row.status # "none"
    <3> DEFINE row == [order[o] EXCEPT !.status = "paid", !.payment = "confirmed"]
    <3>1. row.status # "none"
      BY <1>1 DEF OrderRow
    <3>2. order' = [order EXCEPT ![o] = row]
      BY <1>1, <2>4 DEF ConfirmPayment
    <3> HIDE DEF row
    <3> QED BY <3>1, <3>2
  <2> QED BY <2>1, <2>2, <2>3, <2>4
<1> QED BY <1>1, <1>2

\* A step before anybody pays: after one, some order is in use for ever.
LEMMA NextHeld ==
    ASSUME IInv, IInv', Owns, NEW l \in Lots, SoldWithoutMap(l), lot[l].held = Asked(session, l),
           NoneOrdered', [Next]_vars
    PROVE  lot'[l].held = Asked(session', l)
<1>1. ASSUME UNCHANGED lot,
             \A x \in Sessions : session'[x].sel = session[x].sel /\ (session'[x].status \in Live <=> session[x].status \in Live)
      PROVE  lot'[l].held = Asked(session', l)
  BY <1>1, AskedSame
<1>2. ASSUME NEW s \in Sessions, NEW sel \in Selections, NEW h, NEW others \in SUBSET Sessions,
             NEW b \in Browsers, CreateSession(s, b, sel, h, others)
      PROVE  lot'[l].held = Asked(session', l)
  BY <1>2, HeldCreated
<1>3. ASSUME NEW s \in Sessions, NEW sel \in Selections, NEW h, PatchSession(s, sel, h)
      PROVE  lot'[l].held = Asked(session', l)
  BY <1>3, HeldUpdated DEF PatchSession
<1>4. ASSUME NEW s \in Sessions, NEW sel \in Selections, NEW h, NEW others \in SUBSET Sessions,
             ResumeSession(s, sel, h, others)
      PROVE  lot'[l].held = Asked(session', l)
  <2>1. session[s].status \in Live /\ \A x \in others : session[x].status \in Live
    BY <1>4 DEF ResumeSession, OwnedElsewhere
  <2>2. CASE sel # session[s].sel
    BY <1>4, <2>1, <2>2, HeldUpdated DEF ResumeSession
  <2>3. CASE sel = session[s].sel
    BY <1>4, <2>1, <2>3, HeldSwept DEF ResumeSession
  <2> QED BY <2>2, <2>3
<1>5. ASSUME NEW s \in Sessions, AuthStarted(s) \/ BindSession(s) PROVE lot'[l].held = Asked(session', l)
  <2>1. \A x \in Sessions : session'[x].sel = session[x].sel /\ (session'[x].status \in Live <=> session[x].status \in Live)
    BY <1>5, RowTypes DEF AuthStarted, BindSession, SessionRow, Live
  <2> QED BY <1>1, <1>5, <2>1 DEF AuthStarted, BindSession
<1>6. CASE SweepSessions
  <2>1. DueSessions \in SUBSET Sessions /\ \A x \in DueSessions : session[x].status \in Live
    BY DEF DueSessions
  <2> QED BY <1>6, <2>1, HeldSwept DEF SweepSessions
<1>7. CASE Tick
  <2>1. \A x \in Sessions : session'[x].sel = session[x].sel /\ (session'[x].status \in Live <=> session[x].status \in Live)
    BY <1>7, RowTypes DEF Tick, SessionRow
  <2> QED BY <1>1, <1>7, <2>1 DEF Tick
<1>8. CASE SweepInventory
  <2>1. Abandoned = {}
    BY <1>8, RowTypes DEF SweepInventory, Abandoned, NoneOrdered, OrderRow
  <2>2. OwedByOrders(Abandoned)[l] = 0
    <3> DEFINE O == {o \in Abandoned : order[o].sel.lot = l}
               q == [o \in O |-> order[o].sel.qty]
    <3>1. O = {} /\ DOMAIN q = O
      BY <2>1
    <3>2. OwedByOrders(Abandoned)[l] = SumFunction(q)
      BY DEF OwedByOrders, UnitsOrdered
    <3> HIDE DEF O, q
    <3>3. SumFunctionOnSet(q, {}) = 0
      BY SumEmpty
    <3> QED BY <3>1, <3>2, <3>3 DEF SumFunction
  <2>3. lot'[l].held = Floor(lot[l].held, 0) /\ lot[l].held \in Nat
    BY <1>8, <2>2 DEF SweepInventory, ReleaseFromLots, IInv, TypeOK, Counters
  <2>4. lot'[l].held = lot[l].held
    BY <2>3 DEF Floor
  <2>5. session' = session
    BY <1>8 DEF SweepInventory
  <2> QED BY <2>4, <2>5
<1>9. ASSUME NEW x \in Lots, NEW s \in Seats \cup {NoSeat}, IssueCourtesy(x, s) PROVE lot'[l].held = Asked(session', l)
  BY <1>1, <1>9 DEF IssueCourtesy
<1>10. CASE UNCHANGED vars
  BY <1>1, <1>10 DEF vars
<1>11. ASSUME NEW o \in Orders,
              \/ \E s \in Sessions : PayBegin(o, s)
              \/ CreateCharge(o) \/ PayCommit(o) \/ PayAbort(o)
       PROVE  FALSE
  <2>1. order'[o].status # "none"
    BY <1>11, OrdersMove
  <2> QED BY <2>1 DEF NoneOrdered
<1>12. ASSUME NEW o \in Orders, PayCharge(o) PROVE FALSE
  BY <1>12 DEF PayCharge, NoneOrdered, IInv, Filled
<1>13. ASSUME NEW o \in Orders, NEW e \in Events,
              NoticeSeen(o, e) \/ ConfirmRead(o, e) \/ NoticeFails(o, e) \/ NoticeResent(o, e)
       PROVE  FALSE
  BY <1>13 DEF NoticeSeen, ConfirmRead, NoticeFails, NoticeResent, NoneOrdered, IInv, Filled, Processing
<1>14. ASSUME NEW o \in Orders, NEW e \in Events, ConfirmPayment(o, e) PROVE FALSE
  BY <1>14, RowTypes DEF ConfirmPayment, NoneOrdered, OrderRow
<1> QED BY <1>2, <1>3, <1>4, <1>5, <1>6, <1>7, <1>8, <1>9, <1>10, <1>11, <1>12, <1>13, <1>14 DEF Next

\* No order is taken back: if none is in use after a step, none was before.
LEMMA OrdersStayInUse == IInv /\ [Next]_vars /\ NoneOrdered' => NoneOrdered
<1> SUFFICES ASSUME IInv, [Next]_vars, NEW o \in Orders, order'[o].status = "none" PROVE order[o].status = "none"
  BY DEF NoneOrdered
<1>1. order \in [Orders -> OrderRow]
  BY RowTypes
<1>2. CASE UNCHANGED order
  BY <1>2
<1>3. ASSUME NEW x \in Orders,
             \/ \E s \in Sessions : PayBegin(x, s)
             \/ CreateCharge(x) \/ PayCommit(x) \/ PayAbort(x)
             \/ \E e \in Events : ConfirmPayment(x, e)
      PROVE  order[o].status = "none"
  BY <1>3, OrdersMove
<1>4. CASE SweepInventory
  BY <1>1, <1>4 DEF SweepInventory, OrderRow
<1>5. CASE Tick
  BY <1>1, <1>5 DEF Tick, OrderRow
<1>6. ASSUME NEW s \in Sessions,
             \/ \E sel \in Selections, h \in Holds \cup {NoHold} :
                   \/ PatchSession(s, sel, h)
                   \/ \E others \in SUBSET Sessions : \/ \E b \in Browsers : CreateSession(s, b, sel, h, others)
                                                      \/ ResumeSession(s, sel, h, others)
             \/ AuthStarted(s) \/ BindSession(s)
      PROVE  order[o].status = "none"
  <2>1. ASSUME NEW sel \in Selections, NEW h, PatchSession(s, sel, h) PROVE UNCHANGED order
    BY <2>1 DEF PatchSession, UpdateSession
  <2>2. ASSUME NEW sel \in Selections, NEW h, NEW others \in SUBSET Sessions, NEW b \in Browsers,
               CreateSession(s, b, sel, h, others)
        PROVE  UNCHANGED order
    BY <2>2 DEF CreateSession
  <2>3. ASSUME NEW sel \in Selections, NEW h, NEW others \in SUBSET Sessions, ResumeSession(s, sel, h, others)
        PROVE  UNCHANGED order
    <3>1. CASE sel # session[s].sel
      BY <2>3, <3>1 DEF ResumeSession, UpdateSession
    <3>2. CASE sel = session[s].sel
      BY <2>3, <3>2 DEF ResumeSession
    <3> QED BY <3>1, <3>2
  <2>4. CASE AuthStarted(s) \/ BindSession(s)
    BY <2>4 DEF AuthStarted, BindSession
  <2> QED BY <1>2, <1>6, <2>1, <2>2, <2>3, <2>4
<1>7. ASSUME NEW x \in Orders,
             \/ PayCharge(x)
             \/ \E e \in Events : NoticeSeen(x, e) \/ ConfirmRead(x, e) \/ NoticeFails(x, e) \/ NoticeResent(x, e)
      PROVE  order[o].status = "none"
  BY <1>2, <1>7 DEF PayCharge, NoticeSeen, ConfirmRead, NoticeFails, NoticeResent
<1>8. CASE SweepSessions \/ UNCHANGED vars \/ \E l \in Lots, s \in Seats \cup {NoSeat} : IssueCourtesy(l, s)
  BY <1>2, <1>8 DEF SweepSessions, vars, IssueCourtesy
<1> QED BY <1>3, <1>4, <1>5, <1>6, <1>7, <1>8 DEF Next

\* Until somebody pays, a lot without a map holds what its live sessions reserve,
\* to the unit: no way of leaving a session leaks a unit or gives one back twice.
THEOREM NothingLeaksBeforePaying == Spec => []HeldIsExactBeforePaying
<1> DEFINE Exact == NoneOrdered => \A l \in Lots : SoldWithoutMap(l) => lot[l].held = Asked(session, l)
<1>1. Init => Exact
  <2> SUFFICES ASSUME Init, NEW l \in Lots PROVE lot[l].held = Asked(session, l)
    OBVIOUS
  <2>1. LiveOn(session, l) = {} /\ lot[l].held = 0
    BY DEF Init, LiveOn, Live
  <2> QED BY <2>1, SumEmpty DEF Asked
<1>2. IInv /\ IInv' /\ Owns /\ Exact /\ [Next]_vars => Exact'
  <2> SUFFICES ASSUME IInv, IInv', Owns, Exact, [Next]_vars, NoneOrdered', NEW l \in Lots, SoldWithoutMap(l)
               PROVE  lot'[l].held = Asked(session', l)
    BY DEF SoldWithoutMap, Asked, LiveOn
  <2>1. NoneOrdered
    BY OrdersStayInUse
  <2>2. lot[l].held = Asked(session, l)
    BY <2>1
  <2> QED BY <2>2, NextHeld
<1>3. Exact => HeldIsExactBeforePaying
  <2>1. \A l \in Lots : ReservedBySessions(l) = Asked(session, l)
    BY AskedIs DEF ReservedBySessions, Units
  <2> QED BY <2>1 DEF HeldIsExactBeforePaying, NoneOrdered
<1>4. Init => Owns
  BY DEF Init, Owns, Live
<1> HIDE DEF Exact
<1> QED BY <1>1, <1>2, <1>3, <1>4, NextOwns, Invariance, PTL DEF Spec

-----------------------------------------------------------------------------
(***************************************************************************)
(* Tickets for any lots, seats, buyers and notices: how many are issued,   *)
(* for which order, and that none is lost.  The counters and the tickets   *)
(* are tied by what the tables say of each other: a session or an order    *)
(* with a hold names the hold's own seats (Linked), and a payment is       *)
(* confirmed by one notice at a time (PaidOnce).                           *)
(***************************************************************************)

-----------------------------------------------------------------------------
(* What the statements of the reservation engine leave as it is            *)

\* Tickets, sold seats, and the seats of every hold that was ever taken.
Kept(iv, nv) ==
    /\ iv.tickets \subseteq nv.tickets
    /\ \A s \in Seats : iv.occ[s].kind = "ticket" => nv.occ[s] = iv.occ[s]
    /\ \A h \in Holds : iv.hold[h].status # "none" =>
          nv.hold[h].status # "none" /\ nv.hold[h].seats = iv.hold[h].seats

\* A statement that issues no ticket and links no hold to an order.
Quiet(iv, nv) ==
    /\ Kept(iv, nv)
    /\ nv.tickets = iv.tickets
    /\ \A h \in Holds : nv.hold[h].order \in {iv.hold[h].order, NoOrder}

\* Statements of one transaction add up.
LEMMA QuietChain ==
    ASSUME NEW iv, NEW jv, NEW kv, Quiet(iv, jv), Quiet(jv, kv)
    PROVE  Quiet(iv, kv)
BY DEF Quiet, Kept

\* Release and ExpireDue free seats that are held, never sold.
LEMMA QuietRelease ==
    ASSUME NEW iv, Sound(iv), NEW H
    PROVE  Quiet(iv, Release(iv, H))
<1> DEFINE oc == [s \in Seats |-> IF s \in HeldBy(iv, H) THEN Free ELSE iv.occ[s]]
           hd == [h \in Holds |-> IF h \in H /\ iv.hold[h].status = "held"
                                  THEN [iv.hold[h] EXCEPT !.status = "released"] ELSE iv.hold[h]]
           nv == Release(iv, H)
<1>1. nv = [[iv EXCEPT !.occ = oc] EXCEPT !.hold = hd]
  BY DEF Release, Freed, Sound, Tables
<1>2. \A s \in Seats : iv.occ[s].kind = "ticket" => oc[s] = iv.occ[s]
  BY DEF HeldBy
<1>3. \A h \in Holds : /\ iv.hold[h].status # "none" => hd[h].status # "none"
                       /\ hd[h].seats = iv.hold[h].seats
                       /\ hd[h].order = iv.hold[h].order
  BY DEF Sound, Tables, HoldRow
<1> HIDE DEF oc, hd, nv
<1>4. nv.occ = oc /\ nv.hold = hd /\ nv.tickets = iv.tickets
  BY <1>1 DEF Sound, Tables
<1> QED BY <1>2, <1>3, <1>4 DEF Quiet, Kept, nv

LEMMA QuietExpireDue ==
    ASSUME NEW iv, Sound(iv)
    PROVE  Quiet(iv, ExpireDue(iv))
<1> DEFINE oc == [s \in Seats |-> IF s \in Overdue(iv) THEN Free ELSE iv.occ[s]]
           hd == [h \in Holds |-> IF iv.hold[h].status = "held" /\ iv.hold[h].left = 0
                                  THEN [iv.hold[h] EXCEPT !.status = "expired"] ELSE iv.hold[h]]
           nv == ExpireDue(iv)
<1>1. nv = [[iv EXCEPT !.occ = oc] EXCEPT !.hold = hd]
  BY DEF ExpireDue, Freed, Sound, Tables
<1>2. \A s \in Seats : iv.occ[s].kind = "ticket" => oc[s] = iv.occ[s]
  BY DEF Overdue
<1>3. \A h \in Holds : /\ iv.hold[h].status # "none" => hd[h].status # "none"
                       /\ hd[h].seats = iv.hold[h].seats
                       /\ hd[h].order = iv.hold[h].order
  BY DEF Sound, Tables, HoldRow
<1> HIDE DEF oc, hd, nv
<1>4. nv.occ = oc /\ nv.hold = hd /\ nv.tickets = iv.tickets
  BY <1>1 DEF Sound, Tables
<1> QED BY <1>2, <1>3, <1>4 DEF Quiet, Kept, nv

\* A new hold takes seats that nobody was sold, and is linked to no order.
LEMMA QuietHold ==
    ASSUME NEW iv, Sound(iv), NEW h \in Holds, iv.hold[h].status = "none",
           NEW S \in SUBSET Seats, CanHold(iv, S)
    PROVE  /\ Quiet(iv, Hold(iv, h, S))
           /\ Hold(iv, h, S).hold[h].status = "held"
           /\ Hold(iv, h, S).hold[h].seats = S
<1> DEFINE oc == [s \in Seats |-> IF s \in S THEN HeldUntil(h, HoldTTL) ELSE iv.occ[s]]
           row == [status |-> "held", seats |-> S, order |-> NoOrder, left |-> HoldTTL]
           nv == Hold(iv, h, S)
<1>1. nv = [iv EXCEPT !.occ = oc, !.hold[h] = row]
  BY DEF Hold
<1>2. ASSUME NEW s \in S PROVE iv.occ[s].kind # "ticket"
  <2>1. Freed(iv, Overdue(iv) \cap S).occ[s].kind = "free"
    BY DEF CanHold
  <2>2. Freed(iv, Overdue(iv) \cap S).occ[s] = IF s \in Overdue(iv) THEN Free ELSE iv.occ[s]
    BY DEF Freed, Sound, Tables
  <2> QED BY <2>1, <2>2 DEF Overdue
<1>3. \A s \in Seats : iv.occ[s].kind = "ticket" => oc[s] = iv.occ[s]
  BY <1>2
<1>4. row.status = "held" /\ row.seats = S /\ row.order = NoOrder
  OBVIOUS
<1> HIDE DEF oc, row, nv
<1>5. /\ nv.occ = oc
      /\ nv.tickets = iv.tickets
      /\ nv.hold[h] = row
      /\ \A x \in Holds : x # h => nv.hold[x] = iv.hold[x]
  BY <1>1 DEF Sound, Tables
<1> QED BY <1>3, <1>4, <1>5 DEF Quiet, Kept, nv

\* The grace and the clock move deadlines only.
LEMMA QuietExtend ==
    ASSUME NEW iv, Sound(iv), NEW H
    PROVE  Quiet(iv, Extend(iv, H))
<1> DEFINE oc == [s \in Seats |-> IF s \in HeldBy(iv, H)
                                  THEN [iv.occ[s] EXCEPT !.left = @ + AuthGrace] ELSE iv.occ[s]]
           nv == Extend(iv, H)
<1>1. nv = [iv EXCEPT !.occ = oc]
  BY DEF Extend
<1>2. \A s \in Seats : iv.occ[s].kind = "ticket" => oc[s] = iv.occ[s]
  BY DEF HeldBy
<1> HIDE DEF oc, nv
<1>3. nv.occ = oc /\ nv.hold = iv.hold /\ nv.tickets = iv.tickets
  BY <1>1 DEF Sound, Tables
<1> QED BY <1>2, <1>3 DEF Quiet, Kept, nv

LEMMA QuietAge ==
    ASSUME NEW iv, Sound(iv)
    PROVE  Quiet(iv, Age(iv))
<1> DEFINE oc == [s \in Seats |-> IF iv.occ[s].kind = "hold"
                                  THEN [iv.occ[s] EXCEPT !.left = Less(@, -AuthGrace)] ELSE iv.occ[s]]
           hd == [h \in Holds |-> [iv.hold[h] EXCEPT !.left = Less(@, 0)]]
           nv == Age(iv)
<1>1. nv = [iv EXCEPT !.occ = oc, !.hold = hd]
  BY DEF Age
<1>2. \A s \in Seats : iv.occ[s].kind = "ticket" => oc[s] = iv.occ[s]
  OBVIOUS
<1>3. \A h \in Holds : /\ hd[h].status = iv.hold[h].status
                       /\ hd[h].seats = iv.hold[h].seats
                       /\ hd[h].order = iv.hold[h].order
  BY DEF Sound, Tables, HoldRow
<1> HIDE DEF oc, hd, nv
<1>4. nv.occ = oc /\ nv.hold = hd /\ nv.tickets = iv.tickets
  BY <1>1 DEF Sound, Tables
<1> QED BY <1>2, <1>3, <1>4 DEF Quiet, Kept, nv
\* PayCommit: the hold is the order's, and nothing else changes.
LEMMA KeptLink ==
    ASSUME NEW iv, Sound(iv), NEW h \in Holds, NEW o \in Orders
    PROVE  /\ Kept(iv, LinkToOrder(iv, h, o))
           /\ LinkToOrder(iv, h, o).tickets = iv.tickets
           /\ \A x \in Holds : LinkToOrder(iv, h, o).hold[x].order = IF x = h THEN o ELSE iv.hold[x].order
<1> DEFINE nv == LinkToOrder(iv, h, o)
           hd == [iv.hold EXCEPT ![h].order = o]
<1>1. nv = [iv EXCEPT !.hold = hd]
  BY DEF LinkToOrder
<1>2. \A x \in Holds : /\ hd[x].status = iv.hold[x].status
                       /\ hd[x].seats = iv.hold[x].seats
                       /\ hd[x].order = IF x = h THEN o ELSE iv.hold[x].order
  BY DEF Sound, Tables, HoldRow
<1> HIDE DEF hd, nv
<1>3. nv.occ = iv.occ /\ nv.hold = hd /\ nv.tickets = iv.tickets
  BY <1>1 DEF Sound, Tables
<1> QED BY <1>2, <1>3 DEF Kept, nv

\* Confirm: no more tickets than the seats the hold took, all of the order and lot.
LEMMA ConfirmIssues ==
    ASSUME NEW iv, Sound(iv), NEW h \in Holds, iv.hold[h].status = "held",
           NEW o \in Orders, NEW l \in Lots
    PROVE  /\ Kept(iv, Confirm(iv, h, o, l))
           /\ Confirm(iv, h, o, l).tickets = iv.tickets \cup NewSeated(HeldBy(iv, {h}), o, l)
           /\ \A x \in Holds : Confirm(iv, h, o, l).hold[x].order = IF x = h THEN o ELSE iv.hold[x].order
           /\ IsFiniteSet(NewSeated(HeldBy(iv, {h}), o, l))
           /\ Cardinality(NewSeated(HeldBy(iv, {h}), o, l)) <= Cardinality(iv.hold[h].seats)
<1> DEFINE nv == Confirm(iv, h, o, l)
           S  == HeldBy(iv, {h})
           oc == [s \in Seats |-> IF s \in S THEN Ticketed(h, SeatTicket(o, l, s)) ELSE iv.occ[s]]
           hd == [iv.hold EXCEPT ![h] = [iv.hold[h] EXCEPT !.status = "confirmed", !.order = o]]
<1>1. nv = [iv EXCEPT !.occ = oc, !.hold = hd, !.tickets = iv.tickets \cup NewSeated(S, o, l)]
  BY DEF Confirm, NewSeated, Sound, Tables
<1>2. \A s \in Seats : iv.occ[s].kind = "ticket" => oc[s] = iv.occ[s]
  BY DEF HeldBy
<1>3. \A x \in Holds : /\ iv.hold[x].status # "none" => hd[x].status # "none"
                       /\ hd[x].seats = iv.hold[x].seats
                       /\ hd[x].order = IF x = h THEN o ELSE iv.hold[x].order
  BY DEF Sound, Tables, HoldRow
<1>4. S \in SUBSET iv.hold[h].seats /\ iv.hold[h].seats \in SUBSET Seats
  BY DEF HeldBy, Sound, Tables, HoldRow
<1> HIDE DEF oc, hd, nv, S
<1>5. nv.occ = oc /\ nv.hold = hd /\ nv.tickets = iv.tickets \cup NewSeated(S, o, l)
  BY <1>1 DEF Sound, Tables
<1>6. IsFiniteSet(iv.hold[h].seats)
  BY <1>4, InventoryAssumption, FS_Subset
<1>7. IsFiniteSet(S) /\ Cardinality(S) <= Cardinality(iv.hold[h].seats)
  BY <1>4, <1>6, FS_Subset
<1>8. S \in SUBSET Seats
  BY <1>4
<1>9. IsFiniteSet(NewSeated(S, o, l)) /\ Cardinality(NewSeated(S, o, l)) <= Cardinality(S)
  BY <1>8, NewSeatedFacts
<1>10. Cardinality(NewSeated(S, o, l)) <= Cardinality(iv.hold[h].seats)
  <2>1. /\ Cardinality(NewSeated(S, o, l)) \in Nat
        /\ Cardinality(S) \in Nat
        /\ Cardinality(iv.hold[h].seats) \in Nat
    BY <1>6, <1>7, <1>9, FS_CardinalityType
  <2> QED BY <2>1, <1>7, <1>9
<1> QED BY <1>2, <1>3, <1>5, <1>9, <1>10 DEF Kept, nv, S

\* IssueStanding and IssueCourtesyTicket touch no hold.
LEMMA StandingIssues ==
    ASSUME NEW iv, Sound(iv), NEW o \in Orders, NEW l \in Lots, NEW qty \in 1..MaxIssued
    PROVE  /\ Kept(iv, IssueStanding(iv, o, l, qty))
           /\ IssueStanding(iv, o, l, qty).tickets = iv.tickets \cup NewStanding(iv, o, l, qty)
           /\ IssueStanding(iv, o, l, qty).hold = iv.hold
<1> DEFINE nv == IssueStanding(iv, o, l, qty)
<1>1. nv = [iv EXCEPT !.tickets = iv.tickets \cup NewStanding(iv, o, l, qty)]
  BY DEF IssueStanding, NewStanding
<1> HIDE DEF nv
<1>2. nv.occ = iv.occ /\ nv.hold = iv.hold /\ nv.tickets = iv.tickets \cup NewStanding(iv, o, l, qty)
  BY <1>1 DEF Sound, Tables
<1> QED BY <1>2 DEF Kept, nv

LEMMA CourtesyIssues ==
    ASSUME NEW iv, Sound(iv), NEW t \in Ticket, t.seat # NoSeat => iv.occ[t.seat].kind = "free"
    PROVE  /\ Kept(iv, IssueCourtesyTicket(iv, t))
           /\ IssueCourtesyTicket(iv, t).tickets = iv.tickets \cup {t}
           /\ IssueCourtesyTicket(iv, t).hold = iv.hold
<1> DEFINE nv == IssueCourtesyTicket(iv, t)
           oc == [s \in Seats |-> IF s = t.seat THEN Ticketed(NoHold, t) ELSE iv.occ[s]]
<1>1. nv = [iv EXCEPT !.tickets = iv.tickets \cup {t}, !.occ = oc]
  BY DEF IssueCourtesyTicket
<1>2. \A s \in Seats : iv.occ[s].kind = "ticket" => oc[s] = iv.occ[s]
  BY InventoryAssumption
<1> HIDE DEF nv, oc
<1>3. nv.occ = oc /\ nv.hold = iv.hold /\ nv.tickets = iv.tickets \cup {t}
  BY <1>1 DEF Sound, Tables
<1> QED BY <1>2, <1>3 DEF Kept, nv

-----------------------------------------------------------------------------
(* The invariant                                                           *)

\* A session or an order with a hold names the seats that the hold took.
BoundRow(iv, row) ==
    row.hold \in Holds =>
        /\ iv.hold[row.hold].status # "none"
        /\ iv.hold[row.hold].seats = row.sel.seats
        /\ row.sel.seats # {}

\* ... and a hold is linked to no order but the one that names it.
Linked ==
    /\ \A s \in Sessions : BoundRow(inventory, session[s])
    /\ \A o \in Orders : BoundRow(inventory, order[o])
    /\ \A h \in Holds : inventory.hold[h].order \in Orders => order[inventory.hold[h].order].hold = h

Uncommitted == {"none", "reading", "charged", "aborted"}

\* A payment exists once its order is committed, and the lock on it lets one notice
\* confirm it, only while it is pending.
PaidOnce ==
    /\ \A o \in Orders : order[o].status = "none" => order[o].hold = NoHold
    /\ \A o \in Orders : order[o].status \in Uncommitted => order[o].payment = "none"
    /\ \A o \in Orders, e \in Events : notice[o][e] \in Processing =>
          /\ order[o].payment = "pending"
          /\ \A x \in Events : notice[o][x] \in Processing => x = e

\* sold_count is at least the tickets issued, and exactly that without a map.
Counted ==
    /\ \A l \in Lots : Cardinality(SoldFrom(l)) <= lot[l].sold
    /\ SoldIsIssued

TInv == IInv /\ Linked /\ PaidOnce /\ Counted /\ IssuedExactlyOnce

LEMMA BoundKept ==
    ASSUME NEW iv, NEW nv, Kept(iv, nv), NEW row, BoundRow(iv, row)
    PROVE  BoundRow(nv, row)
BY DEF Kept, BoundRow

\* Lot counters: giving back and reserving move held_count only.
LEMMA SoldStays ==
    ASSUME NEW lt \in [Lots -> Counters], NEW owed \in [Lots -> Nat], NEW l \in Lots, NEW qty \in Nat
    PROVE  /\ \A x \in Lots : ReleaseFromLots(lt, owed)[x].sold = lt[x].sold
           /\ \A x \in Lots : ReserveFromLot(lt, l, qty)[x].sold = lt[x].sold
BY DEF ReleaseFromLots, ReserveFromLot, Counters

\* reserve: the row that asked for it names the seats of its new hold.
LEMMA ReserveQuiet ==
    ASSUME NEW lt, NEW iv, Sound(iv), NEW sel \in Selections, NEW h, CanReserve(lt, iv, sel, h)
    PROVE  /\ Quiet(iv, Reserved(iv, sel, h))
           /\ \A row : row.hold = h /\ row.sel = sel => BoundRow(Reserved(iv, sel, h), row)
<1>1. sel.seats \in SUBSET Seats
  BY SelectionType
<1>2. CASE sel.seats = {}
  <2>1. h = NoHold /\ Reserved(iv, sel, h) = iv
    BY <1>2 DEF CanReserve, Reserved
  <2> QED BY <2>1, InventoryAssumption DEF Quiet, Kept, BoundRow
<1>3. CASE sel.seats # {}
  <2>1. h \in Holds /\ iv.hold[h].status = "none" /\ CanHold(iv, sel.seats)
    BY <1>3 DEF CanReserve
  <2>2. Reserved(iv, sel, h) = Hold(iv, h, sel.seats)
    BY <2>1, InventoryAssumption DEF Reserved
  <2>3. /\ Quiet(iv, Hold(iv, h, sel.seats))
        /\ Hold(iv, h, sel.seats).hold[h].status = "held"
        /\ Hold(iv, h, sel.seats).hold[h].seats = sel.seats
    BY <1>1, <2>1, QuietHold
  <2> QED BY <2>2, <2>3, <1>3 DEF BoundRow
<1> QED BY <1>2, <1>3

-----------------------------------------------------------------------------
(* Steps that issue no ticket                                              *)

\* Without new tickets, and with the same orders, everything is as counted before.
LEMMA QuietStep ==
    ASSUME TInv, IInv', Quiet(inventory, inventory'),
           \A l \in Lots : lot'[l].sold = lot[l].sold,
           \A s \in Sessions : BoundRow(inventory', session'[s]),
           \A o \in Orders : /\ order'[o].sel = order[o].sel
                             /\ order'[o].hold = order[o].hold
                             /\ order'[o].payment = order[o].payment
                             /\ order'[o].status = "none" => order[o].status = "none"
                             /\ order'[o].status \in Uncommitted => order[o].status \in Uncommitted,
           notice' = notice
    PROVE  TInv' /\ Kept(inventory, inventory')
<1>1. inventory'.tickets = inventory.tickets
  BY DEF Quiet
<1>2. Linked'
  <2>1. \A o \in Orders : BoundRow(inventory, order'[o])
    BY DEF TInv, Linked, BoundRow
  <2>2. \A o \in Orders : BoundRow(inventory', order'[o])
    BY <2>1, BoundKept DEF Quiet
  <2>3. NoOrder \notin Orders
    BY InventoryAssumption
  <2>4. \A h \in Holds : inventory'.hold[h].order \in Orders => order'[inventory'.hold[h].order].hold = h
    BY <2>3 DEF TInv, Linked, Quiet
  <2> QED BY <2>2, <2>4 DEF Linked
<1>3. PaidOnce'
  BY DEF TInv, PaidOnce
<1>4. Counted'
  BY <1>1 DEF TInv, Counted, SoldIsIssued, SoldFrom
<1>5. IssuedExactlyOnce'
  BY <1>1 DEF TInv, IssuedExactlyOnce, TicketsOf
<1> QED BY <1>2, <1>3, <1>4, <1>5 DEF TInv, Quiet

\* Steps of sessions: the orders are as they were.
LEMMA SessionStep ==
    ASSUME TInv, IInv', Quiet(inventory, inventory'),
           \A l \in Lots : lot'[l].sold = lot[l].sold,
           \A s \in Sessions : BoundRow(inventory', session'[s]),
           UNCHANGED <<order, charge, notice>>
    PROVE  TInv' /\ Kept(inventory, inventory')
BY QuietStep

\* The sessions S that close give back what they owe; they keep the name of their hold.
LEMMA CloseQuiet ==
    ASSUME TInv, NEW S \in SUBSET Sessions, \A s \in S : session[s].status # "none"
    PROVE  /\ Quiet(inventory, Release(inventory, HoldsOf(S)))
           /\ \A l \in Lots : ReleaseFromLots(lot, Owed(S))[l].sold = lot[l].sold
           /\ \A s \in Sessions : /\ BoundRow(inventory, Close(S, Expired)[s])
                                  /\ BoundRow(inventory, Close(S, ClosedAs)[s])
<1>1. Quiet(inventory, Release(inventory, HoldsOf(S)))
  BY QuietRelease DEF TInv, IInv
<1>2. \A l \in Lots : ReleaseFromLots(lot, Owed(S))[l].sold = lot[l].sold
  BY OwedType, SoldStays DEF TInv, IInv, TypeOK
<1>3. TypeOK
  BY DEF TInv, IInv
<1>4. \A s \in Sessions : /\ Close(S, Expired)[s].hold = session[s].hold
                          /\ Close(S, Expired)[s].sel = session[s].sel
                          /\ Close(S, ClosedAs)[s].hold = session[s].hold
                          /\ Close(S, ClosedAs)[s].sel = session[s].sel
  BY <1>3, SessionsExpired, SessionsSwept
<1>5. \A s \in Sessions : BoundRow(inventory, session[s])
  BY DEF TInv, Linked
<1> QED BY <1>1, <1>2, <1>4, <1>5 DEF BoundRow

\* Closing S and reserving for a row that takes the place of session s.
LEMMA ReserveStep ==
    ASSUME TInv, IInv', NEW s \in Sessions, NEW sel \in Selections, NEW h, NEW row,
           row.hold = h, row.sel = sel,
           NEW S \in SUBSET Sessions, NEW gone \in SUBSET Sessions, S \subseteq gone,
           \A x \in gone : session[x].status # "none",
           CanReserve(ReleaseFromLots(lot, Owed(gone)), Release(inventory, HoldsOf(gone)), sel, h),
           lot' = ReserveFromLot(ReleaseFromLots(lot, Owed(gone)), sel.lot, sel.qty),
           inventory' = Reserved(Release(inventory, HoldsOf(gone)), sel, h),
           session' = [Close(S, Expired) EXCEPT ![s] = row],
           UNCHANGED <<order, charge, notice>>
    PROVE  TInv' /\ Kept(inventory, inventory')
<1> DEFINE lt == ReleaseFromLots(lot, Owed(gone))
           iv == Release(inventory, HoldsOf(gone))
           cl == Close(S, Expired)
<1>1. Quiet(inventory, iv) /\ \A l \in Lots : lt[l].sold = lot[l].sold
  BY CloseQuiet
<1>2. lt \in [Lots -> Counters] /\ Sound(iv)
  BY GivenBack DEF TInv
<1>3. cl \in [Sessions -> SessionRow] /\ \A x \in Sessions : BoundRow(inventory, cl[x])
  <2>1. TypeOK /\ \A x \in S : session[x].status # "none"
    BY DEF TInv, IInv
  <2>2. cl \in [Sessions -> SessionRow]
    BY <2>1, SessionsExpired
  <2>3. \A x \in Sessions : cl[x].hold = session[x].hold /\ cl[x].sel = session[x].sel
    BY <2>1, SessionsExpired
  <2> QED BY <2>2, <2>3 DEF TInv, Linked, BoundRow
<1>4. sel.lot \in Lots /\ sel.qty \in Nat
  BY SelectionType
<1>5. CanReserve(lt, iv, sel, h) /\ lot' = ReserveFromLot(lt, sel.lot, sel.qty)
      /\ inventory' = Reserved(iv, sel, h) /\ session' = [cl EXCEPT ![s] = row]
  OBVIOUS
<1> HIDE DEF lt, iv, cl
<1>6. Quiet(iv, inventory') /\ BoundRow(inventory', row)
  BY <1>2, <1>5, ReserveQuiet
<1>7. Quiet(inventory, inventory')
  BY <1>1, <1>6, QuietChain
<1>8. \A l \in Lots : lot'[l].sold = lot[l].sold
  <2>1. \A l \in Lots : ReserveFromLot(lt, sel.lot, sel.qty)[l].sold = lt[l].sold
    BY <1>2, <1>4 DEF ReserveFromLot, Counters
  <2> QED BY <2>1, <1>1, <1>5
<1>9. \A x \in Sessions : BoundRow(inventory', session'[x])
  <2> SUFFICES ASSUME NEW x \in Sessions PROVE BoundRow(inventory', session'[x])
    OBVIOUS
  <2>1. CASE x = s
    <3>1. session'[s] = row
      BY <1>3, <1>5
    <3> QED BY <2>1, <3>1, <1>6
  <2>2. CASE x # s
    <3>1. session'[x] = cl[x]
      BY <2>2, <1>3, <1>5
    <3>2. BoundRow(inventory', cl[x])
      BY <1>3, <1>7, BoundKept DEF Quiet
    <3> QED BY <3>1, <3>2
  <2> QED BY <2>1, <2>2
<1> QED BY <1>7, <1>8, <1>9, SessionStep

LEMMA CreateSessionCounts ==
    ASSUME TInv, IInv', NEW s \in Sessions, NEW b \in Browsers, NEW sel \in Selections, NEW h,
           NEW others \in SUBSET Sessions, CreateSession(s, b, sel, h, others)
    PROVE  TInv' /\ Kept(inventory, inventory')
<1> DEFINE row == [status |-> "open", browser |-> b, sel |-> sel,
                   hold |-> h, grace |-> FALSE, left |-> AnonTTL]
<1>1. row.hold = h /\ row.sel = sel
  OBVIOUS
<1>2. \A x \in others : session[x].status # "none"
  BY DEF CreateSession, OwnedElsewhere, Live
<1>3. /\ CanReserve(ReleaseFromLots(lot, Owed(others)), Release(inventory, HoldsOf(others)), sel, h)
      /\ lot' = ReserveFromLot(ReleaseFromLots(lot, Owed(others)), sel.lot, sel.qty)
      /\ inventory' = Reserved(Release(inventory, HoldsOf(others)), sel, h)
      /\ session' = [Close(others, Expired) EXCEPT ![s] = row]
      /\ UNCHANGED <<order, charge, notice>>
  BY DEF CreateSession
<1> HIDE DEF row
<1> QED BY <1>1, <1>2, <1>3, ReserveStep

LEMMA UpdateSessionCounts ==
    ASSUME TInv, IInv', NEW s \in Sessions, NEW sel \in Selections, NEW h, NEW others \in SUBSET Sessions,
           session[s].status \in Live, \A x \in others : session[x].status # "none",
           UpdateSession(s, sel, h, others)
    PROVE  TInv' /\ Kept(inventory, inventory')
<1> DEFINE gone == others \cup {s}
           row  == Changed(s, sel, h)
<1>1. row.hold = h /\ row.sel = sel
  BY DEF Changed, TInv, IInv, TypeOK, SessionRow
<1>2. \A x \in gone : session[x].status # "none"
  BY DEF Live
<1>3. gone \in SUBSET Sessions /\ others \subseteq gone
  OBVIOUS
<1>4. /\ CanReserve(ReleaseFromLots(lot, Owed(gone)), Release(inventory, HoldsOf(gone)), sel, h)
      /\ lot' = ReserveFromLot(ReleaseFromLots(lot, Owed(gone)), sel.lot, sel.qty)
      /\ inventory' = Reserved(Release(inventory, HoldsOf(gone)), sel, h)
      /\ session' = [Close(others, Expired) EXCEPT ![s] = row]
      /\ UNCHANGED <<order, charge, notice>>
  BY DEF UpdateSession
<1> HIDE DEF row, gone
<1> QED BY <1>1, <1>2, <1>3, <1>4, ReserveStep

LEMMA ResumeSessionCounts ==
    ASSUME TInv, IInv', NEW s \in Sessions, NEW sel \in Selections, NEW h,
           NEW others \in SUBSET Sessions, ResumeSession(s, sel, h, others)
    PROVE  TInv' /\ Kept(inventory, inventory')
<1>1. \A x \in others : session[x].status # "none"
  BY DEF ResumeSession, OwnedElsewhere, Live
<1>2. CASE sel # session[s].sel
  BY <1>1, <1>2, UpdateSessionCounts DEF ResumeSession
<1>3. CASE sel = session[s].sel
  <2>1. /\ lot' = ReleaseFromLots(lot, Owed(others))
        /\ inventory' = Release(inventory, HoldsOf(others))
        /\ session' = Close(others, Expired)
        /\ UNCHANGED <<order, charge, notice>>
    BY <1>3 DEF ResumeSession
  <2>2. /\ Quiet(inventory, inventory')
        /\ \A l \in Lots : lot'[l].sold = lot[l].sold
        /\ \A x \in Sessions : BoundRow(inventory, session'[x])
    BY <1>1, <2>1, CloseQuiet
  <2>3. \A x \in Sessions : BoundRow(inventory', session'[x])
    BY <2>2, BoundKept DEF Quiet
  <2> QED BY <2>1, <2>2, <2>3, SessionStep
<1> QED BY <1>2, <1>3

LEMMA SweepSessionsCounts == ASSUME TInv, IInv', SweepSessions PROVE TInv' /\ Kept(inventory, inventory')
<1>1. DueSessions \in SUBSET Sessions /\ \A x \in DueSessions : session[x].status # "none"
  BY DEF DueSessions, Live
<1>2. /\ lot' = ReleaseFromLots(lot, Owed(DueSessions))
      /\ inventory' = Release(inventory, HoldsOf(DueSessions))
      /\ session' = Close(DueSessions, ClosedAs)
      /\ UNCHANGED <<order, charge, notice>>
  BY DEF SweepSessions
<1>3. /\ Quiet(inventory, inventory')
      /\ \A l \in Lots : lot'[l].sold = lot[l].sold
      /\ \A x \in Sessions : BoundRow(inventory, session'[x])
  BY <1>1, <1>2, CloseQuiet
<1>4. \A x \in Sessions : BoundRow(inventory', session'[x])
  BY <1>3, BoundKept DEF Quiet
<1> QED BY <1>2, <1>3, <1>4, SessionStep

LEMMA GraceCounts ==
    ASSUME TInv, IInv', NEW s \in Sessions, AuthStarted(s) \/ BindSession(s)
    PROVE  TInv' /\ Kept(inventory, inventory')
<1>1. UNCHANGED <<lot, order, charge, notice>>
  BY DEF AuthStarted, BindSession
<1>2. Quiet(inventory, inventory')
  <2>1. Quiet(inventory, inventory)
    BY DEF Quiet, Kept
  <2> QED BY <2>1, QuietExtend DEF AuthStarted, BindSession, TInv, IInv
<1>3. \A x \in Sessions : session'[x].hold = session[x].hold /\ session'[x].sel = session[x].sel
  <2>1. session \in [Sessions -> SessionRow]
    BY RowTypes DEF TInv
  <2> QED BY <2>1 DEF AuthStarted, BindSession, SessionRow
<1>4. \A x \in Sessions : BoundRow(inventory, session'[x])
  BY <1>3 DEF TInv, Linked, BoundRow
<1>5. \A x \in Sessions : BoundRow(inventory', session'[x])
  BY <1>2, <1>4, BoundKept DEF Quiet
<1> QED BY <1>1, <1>2, <1>5, SessionStep

\* Steps of an order that leave its selection, hold and payment alone.
LEMMA OrderStepCounts ==
    ASSUME TInv, IInv', NEW o \in Orders, CreateCharge(o) \/ PayAbort(o) \/ PayCharge(o)
    PROVE  TInv' /\ Kept(inventory, inventory')
<1>1. UNCHANGED <<lot, inventory, session, notice>>
  BY DEF CreateCharge, PayAbort, PayCharge
<1>2. Quiet(inventory, inventory') /\ \A s \in Sessions : BoundRow(inventory', session'[s])
  BY <1>1 DEF Quiet, Kept, TInv, Linked
<1>3. \A x \in Orders : /\ order'[x].sel = order[x].sel
                        /\ order'[x].hold = order[x].hold
                        /\ order'[x].payment = order[x].payment
                        /\ order'[x].status = "none" => order[x].status = "none"
                        /\ order'[x].status \in Uncommitted => order[x].status \in Uncommitted
  <2>1. order \in [Orders -> OrderRow]
    BY RowTypes DEF TInv
  <2> QED BY <2>1 DEF CreateCharge, PayAbort, PayCharge, OrderRow, Uncommitted
<1> QED BY <1>1, <1>2, <1>3, QuietStep

LEMMA TickCounts == ASSUME TInv, IInv', Tick PROVE TInv' /\ Kept(inventory, inventory')
<1>1. UNCHANGED <<lot, charge, notice>>
  BY DEF Tick
<1>2. Quiet(inventory, inventory')
  BY QuietAge DEF Tick, TInv, IInv
<1>3. session \in [Sessions -> SessionRow] /\ order \in [Orders -> OrderRow]
  BY RowTypes DEF TInv
<1>4. \A s \in Sessions : session'[s].hold = session[s].hold /\ session'[s].sel = session[s].sel
  BY <1>3 DEF Tick, SessionRow
<1>5. \A s \in Sessions : BoundRow(inventory, session'[s])
  BY <1>4 DEF TInv, Linked, BoundRow
<1>6. \A s \in Sessions : BoundRow(inventory', session'[s])
  BY <1>2, <1>5, BoundKept DEF Quiet
<1>7. \A x \in Orders : /\ order'[x].sel = order[x].sel
                        /\ order'[x].hold = order[x].hold
                        /\ order'[x].payment = order[x].payment
                        /\ order'[x].status = order[x].status
  BY <1>3 DEF Tick, OrderRow
<1> QED BY <1>1, <1>2, <1>6, <1>7, QuietStep

LEMMA SweepInventoryCounts == ASSUME TInv, IInv', SweepInventory PROVE TInv' /\ Kept(inventory, inventory')
<1>1. UNCHANGED <<session, charge, notice>>
  BY DEF SweepInventory
<1>2. Quiet(inventory, inventory')
  BY QuietExpireDue DEF SweepInventory, TInv, IInv
<1>3. \A l \in Lots : lot'[l].sold = lot[l].sold
  <2>1. lot \in [Lots -> Counters]
    BY DEF TInv, IInv, TypeOK
  <2> QED BY <2>1 DEF SweepInventory, ReleaseFromLots, Counters
<1>4. \A s \in Sessions : BoundRow(inventory', session'[s])
  <2>1. \A s \in Sessions : BoundRow(inventory, session'[s])
    BY <1>1 DEF TInv, Linked
  <2> QED BY <2>1, <1>2, BoundKept DEF Quiet
<1>5. \A x \in Orders : /\ order'[x].sel = order[x].sel
                        /\ order'[x].hold = order[x].hold
                        /\ order'[x].payment = order[x].payment
                        /\ order'[x].status = "none" => order[x].status = "none"
                        /\ order'[x].status \in Uncommitted => order[x].status \in Uncommitted
  <2>1. order \in [Orders -> OrderRow]
    BY RowTypes DEF TInv
  <2> QED BY <2>1 DEF SweepInventory, OrderRow, Abandoned, Uncommitted
<1> QED BY <1>1, <1>2, <1>3, <1>4, <1>5, QuietStep

\* A new order takes selection and hold from its session; it has no payment yet.
LEMMA PayBeginCounts ==
    ASSUME TInv, IInv', NEW o \in Orders, NEW s \in Sessions, PayBegin(o, s)
    PROVE  TInv' /\ Kept(inventory, inventory')
<1>1. UNCHANGED <<lot, inventory, session, charge, notice>> /\ order[o].status = "none"
  BY DEF PayBegin
<1>2. /\ order'[o].status = "reading" /\ order'[o].payment = order[o].payment
      /\ order'[o].sel = session[s].sel /\ order'[o].hold = session[s].hold
      /\ \A x \in Orders : x # o => order'[x] = order[x]
  <2>1. order \in [Orders -> OrderRow]
    BY RowTypes DEF TInv
  <2> QED BY <2>1 DEF PayBegin, OrderRow
<1>3. order[o].hold = NoHold /\ order[o].payment = "none"
  BY <1>1 DEF TInv, PaidOnce, Uncommitted
<1>4. Linked'
  <2>1. BoundRow(inventory, order'[o])
    BY <1>2 DEF TInv, Linked, BoundRow
  <2>2. \A x \in Orders : BoundRow(inventory, order'[x])
    BY <2>1, <1>2 DEF TInv, Linked
  <2>3. \A h \in Holds : inventory.hold[h].order \in Orders => order'[inventory.hold[h].order].hold = h
    <3>1. \A h \in Holds : inventory.hold[h].order # o
      BY <1>3, InventoryAssumption DEF TInv, Linked
    <3> QED BY <3>1, <1>2 DEF TInv, Linked
  <2> QED BY <2>2, <2>3, <1>1 DEF TInv, Linked
<1>5. PaidOnce'
  <2>1. \A x \in Orders : order'[x].payment = order[x].payment
    BY <1>2
  <2>2. \A x \in Orders : /\ order'[x].status = "none" => order[x].status = "none" /\ order'[x] = order[x]
                          /\ order'[x].status \in Uncommitted => order[x].status \in Uncommitted
    BY <1>1, <1>2 DEF Uncommitted
  <2> QED BY <2>1, <2>2, <1>1 DEF TInv, PaidOnce
<1>6. Counted'
  BY <1>1 DEF TInv, Counted, SoldIsIssued, SoldFrom
<1>7. IssuedExactlyOnce'
  <2>1. \A x \in Orders : order'[x].payment # "confirmed" <=> order[x].payment # "confirmed"
    BY <1>2
  <2>2. order'[o].payment # "confirmed"
    BY <1>2, <1>3
  <2> QED BY <2>1, <2>2, <1>1, <1>2 DEF TInv, IssuedExactlyOnce, TicketsOf
<1>8. Kept(inventory, inventory')
  BY <1>1 DEF Kept
<1> QED BY <1>4, <1>5, <1>6, <1>7, <1>8 DEF TInv

LEMMA PayCommitCounts ==
    ASSUME TInv, IInv', NEW o \in Orders, PayCommit(o)
    PROVE  TInv' /\ Kept(inventory, inventory')
<1>1. UNCHANGED <<lot, charge, notice>> /\ order[o].status = "charged"
  BY DEF PayCommit
<1>2. session \in [Sessions -> SessionRow] /\ order \in [Orders -> OrderRow] /\ Sound(inventory)
  BY RowTypes DEF TInv, IInv
<1>3. \A x \in Sessions : session'[x].hold = session[x].hold /\ session'[x].sel = session[x].sel
  BY <1>2 DEF PayCommit, SessionRow
<1>4. /\ \A x \in Orders : order'[x].hold = order[x].hold /\ order'[x].sel = order[x].sel
      /\ order'[o].status = "pending" /\ order'[o].payment = "pending"
      /\ \A x \in Orders : x # o => order'[x] = order[x]
  BY <1>2 DEF PayCommit, OrderRow
<1>5. order[o].payment = "none"
  BY <1>1 DEF TInv, PaidOnce, Uncommitted
<1>6. /\ Kept(inventory, inventory')
      /\ inventory'.tickets = inventory.tickets
      /\ \A h \in Holds : inventory'.hold[h].order = inventory.hold[h].order
                             \/ (inventory'.hold[h].order = o /\ h = order[o].hold)
  <2>1. CASE order[o].hold = NoHold
    <3>1. inventory' = inventory
      BY <2>1 DEF PayCommit
    <3> QED BY <3>1 DEF Kept
  <2>2. CASE order[o].hold # NoHold
    <3>1. order[o].hold \in Holds /\ inventory' = LinkToOrder(inventory, order[o].hold, o)
      BY <2>2, <1>2 DEF PayCommit, OrderRow
    <3> QED BY <3>1, <1>2, KeptLink
  <2> QED BY <2>1, <2>2
<1>7. Linked'
  <2>1. \A x \in Sessions : BoundRow(inventory, session'[x])
    BY <1>3 DEF TInv, Linked, BoundRow
  <2>2. \A x \in Orders : BoundRow(inventory, order'[x])
    BY <1>4 DEF TInv, Linked, BoundRow
  <2>3. \A h \in Holds : inventory'.hold[h].order \in Orders => order'[inventory'.hold[h].order].hold = h
    BY <1>4, <1>6 DEF TInv, Linked
  <2>4. \A x \in Sessions : BoundRow(inventory', session'[x])
    BY <2>1, <1>6, BoundKept
  <2>5. \A x \in Orders : BoundRow(inventory', order'[x])
    BY <2>2, <1>6, BoundKept
  <2> QED BY <2>3, <2>4, <2>5 DEF Linked
<1>8. PaidOnce'
  BY <1>1, <1>4, <1>5 DEF TInv, PaidOnce, Uncommitted
<1>9. Counted'
  BY <1>1, <1>6 DEF TInv, Counted, SoldIsIssued, SoldFrom
<1>10. IssuedExactlyOnce'
  BY <1>4, <1>5, <1>6 DEF TInv, IssuedExactlyOnce, TicketsOf
<1> QED BY <1>6, <1>7, <1>8, <1>9, <1>10 DEF TInv

\* A notice is in Processing only after it took the lock on a pending payment.
LEMMA NoticeCounts ==
    ASSUME TInv, IInv', NEW o \in Orders, NEW e \in Events,
           NoticeSeen(o, e) \/ ConfirmRead(o, e) \/ NoticeFails(o, e) \/ NoticeResent(o, e)
    PROVE  TInv' /\ Kept(inventory, inventory')
<1>1. UNCHANGED <<lot, inventory, session, order, charge>>
  BY DEF NoticeSeen, ConfirmRead, NoticeFails, NoticeResent
<1>2. PICK st \in NoticeState : notice' = [notice EXCEPT ![o][e] = st]
                                /\ (st \in Processing => ConfirmRead(o, e) /\ ToConfirm(o))
  BY DEF NoticeSeen, ConfirmRead, NoticeFails, NoticeResent, NoticeState, Processing
<1>3. \A x \in Orders, y \in Events : notice'[x][y] = IF x = o /\ y = e THEN st ELSE notice[x][y]
  <2>1. notice \in [Orders -> [Events -> NoticeState]]
    BY DEF TInv, IInv, TypeOK
  <2> QED BY <2>1, <1>2
<1>4. PaidOnce'
  <2>1. CASE st \in Processing
    <3>1. order[o].payment = "pending" /\ \A x \in Events : notice[o][x] \notin Processing
      BY <2>1, <1>2 DEF ConfirmRead, ToConfirm
    <3> QED BY <3>1, <1>1, <1>3 DEF TInv, PaidOnce
  <2>2. CASE st \notin Processing
    BY <2>2, <1>1, <1>3 DEF TInv, PaidOnce
  <2> QED BY <2>1, <2>2
<1>5. Linked'
  BY <1>1 DEF TInv, Linked
<1>6. Counted' /\ IssuedExactlyOnce'
  BY <1>1 DEF TInv, Counted, SoldIsIssued, SoldFrom, IssuedExactlyOnce, TicketsOf
<1>7. Kept(inventory, inventory')
  BY <1>1 DEF Kept
<1> QED BY <1>4, <1>5, <1>6, <1>7 DEF TInv

\* A courtesy is of no order, and counts neither as sold nor as issued to one.
LEMMA IssueCourtesyCounts ==
    ASSUME TInv, IInv', NEW l \in Lots, NEW s \in Seats \cup {NoSeat}, IssueCourtesy(l, s)
    PROVE  TInv' /\ Kept(inventory, inventory')
<1> DEFINE t == CourtesyTicket(inventory, l, s)
<1>1. /\ UNCHANGED <<lot, session, order, charge, notice>>
      /\ inventory' = IssueCourtesyTicket(inventory, t)
      /\ s # NoSeat => inventory.occ[s].kind = "free"
  BY DEF IssueCourtesy
<1>2. t \in Ticket /\ t.seat = s /\ t.order = NoOrder
  <2>1. Issued(inventory, NoOrder) + 1 \in Nat
    BY IssuedIsNat DEF TInv, IInv
  <2> QED BY <2>1 DEF CourtesyTicket, Ticket
<1> HIDE DEF t
<1>3. /\ Kept(inventory, inventory')
      /\ inventory'.tickets = inventory.tickets \cup {t}
      /\ inventory'.hold = inventory.hold
  BY <1>1, <1>2, CourtesyIssues DEF TInv, IInv
<1>4. Linked'
  <2>1. \A x \in Sessions : BoundRow(inventory', session[x])
    BY <1>3, BoundKept DEF TInv, Linked
  <2>2. \A x \in Orders : BoundRow(inventory', order[x])
    BY <1>3, BoundKept DEF TInv, Linked
  <2> QED BY <2>1, <2>2, <1>1, <1>3 DEF TInv, Linked
<1>5. PaidOnce'
  BY <1>1 DEF TInv, PaidOnce
<1>6. Counted'
  <2>1. \A x \in Lots : SoldFrom(x)' = SoldFrom(x)
    BY <1>2, <1>3 DEF SoldFrom
  <2> QED BY <2>1, <1>1 DEF TInv, Counted, SoldIsIssued
<1>7. IssuedExactlyOnce'
  <2>1. \A o \in Orders : TicketsOf(o)' = TicketsOf(o)
    BY <1>2, <1>3, InventoryAssumption DEF TicketsOf
  <2> QED BY <2>1, <1>1 DEF TInv, IssuedExactlyOnce
<1> QED BY <1>3, <1>4, <1>5, <1>6, <1>7 DEF TInv

-----------------------------------------------------------------------------
(* Confirming a payment                                                    *)

\* What ConfirmPayment adds to the tickets: of the order and its lot, finitely many,
\* no more than the quantity, and all of it when the order has no hold.
LEMMA ConfirmAdds ==
    ASSUME TInv, NEW o \in Orders, NEW e \in Events, ConfirmPayment(o, e)
    PROVE  \E new :
              /\ inventory'.tickets = inventory.tickets \cup new
              /\ \A t \in new : t.order = o /\ t.lot = order[o].sel.lot
              /\ IsFiniteSet(new)
              /\ Cardinality(new) <= order[o].sel.qty
              /\ order[o].hold = NoHold => Cardinality(new) = order[o].sel.qty
              /\ Kept(inventory, inventory')
              /\ \A h \in Holds : inventory'.hold[h].order = inventory.hold[h].order
<1> DEFINE sel == order[o].sel
<1>1. Sound(inventory)
  BY DEF TInv, IInv
<1>2. order[o].payment = "pending"
  BY DEF ConfirmPayment, TInv, PaidOnce
<1>3. order[o].status # "none"
  BY <1>2 DEF TInv, PaidOnce, Uncommitted
<1>4. sel \in Selections /\ sel.lot \in Lots /\ sel.qty \in 1..MaxIssued /\ sel.qty \in Nat
  BY <1>3, SelectionType DEF TInv, IInv, Filled
<1>5. CASE \E h \in HoldsOfOrder(o) : inventory' = Confirm(inventory, h, o, sel.lot)
  <2>1. PICK h \in HoldsOfOrder(o) : inventory' = Confirm(inventory, h, o, sel.lot)
    BY <1>5
  <2>2. h \in Holds /\ inventory.hold[h].status = "held" /\ inventory.hold[h].order = o
    BY <2>1 DEF HoldsOfOrder
  <2>3. order[o].hold = h
    BY <2>2 DEF TInv, Linked
  <2>4. inventory.hold[h].seats = sel.seats /\ sel.seats # {}
    BY <2>2, <2>3 DEF TInv, Linked, BoundRow
  <2>5. Cardinality(inventory.hold[h].seats) = sel.qty
    BY <2>4, <1>4, CheckoutAssumption
  <2> DEFINE new == NewSeated(HeldBy(inventory, {h}), o, sel.lot)
  <2>6. HeldBy(inventory, {h}) \in SUBSET Seats
    BY DEF HeldBy
  <2> HIDE DEF sel
  <2>7. \A t \in new : t.order = o /\ t.lot = sel.lot
    BY <2>6, NewSeatedFacts
  <2>8. /\ Kept(inventory, inventory')
        /\ inventory'.tickets = inventory.tickets \cup new
        /\ \A x \in Holds : inventory'.hold[x].order = IF x = h THEN o ELSE inventory.hold[x].order
        /\ IsFiniteSet(new)
        /\ Cardinality(new) <= Cardinality(inventory.hold[h].seats)
    BY <1>1, <1>4, <2>1, <2>2, ConfirmIssues
  <2>9. order[o].hold # NoHold
    BY <2>2, <2>3, InventoryAssumption
  <2>10. \A x \in Holds : inventory'.hold[x].order = inventory.hold[x].order
    BY <2>2, <2>8
  <2> HIDE DEF new
  <2> QED BY <2>5, <2>7, <2>8, <2>9, <2>10 DEF sel
<1>6. CASE inventory' = IssueStanding(inventory, o, sel.lot, sel.qty)
  <2> DEFINE new == NewStanding(inventory, o, sel.lot, sel.qty)
  <2> HIDE DEF sel
  <2>1. /\ Kept(inventory, inventory')
        /\ inventory'.tickets = inventory.tickets \cup new
        /\ inventory'.hold = inventory.hold
    BY <1>1, <1>4, <1>6, StandingIssues
  <2>2. /\ IsFiniteSet(new) /\ Cardinality(new) = sel.qty
        /\ \A t \in new : t.order = o /\ t.lot = sel.lot
    BY <1>1, <1>4, NewStandingFacts
  <2> HIDE DEF new
  <2> QED BY <2>1, <2>2, <1>4 DEF sel
<1> QED BY <1>5, <1>6 DEF ConfirmPayment

LEMMA ConfirmPaymentCounts ==
    ASSUME TInv, IInv', NEW o \in Orders, NEW e \in Events, ConfirmPayment(o, e)
    PROVE  TInv' /\ Kept(inventory, inventory')
<1>1. notice[o][e] \in Processing
  BY DEF ConfirmPayment
<1>2. order[o].payment = "pending" /\ \A x \in Events : notice[o][x] \in Processing => x = e
  BY <1>1 DEF TInv, PaidOnce
<1>3. order[o].sel \in Selections
  BY <1>2 DEF TInv, PaidOnce, Uncommitted, IInv, Filled
<1>4. PICK l \in Lots, q \in Nat : l = order[o].sel.lot /\ q = order[o].sel.qty
  BY <1>3, SelectionType
<1>5. PICK new :
          /\ inventory'.tickets = inventory.tickets \cup new
          /\ \A t \in new : t.order = o /\ t.lot = l
          /\ IsFiniteSet(new)
          /\ Cardinality(new) <= q
          /\ order[o].hold = NoHold => Cardinality(new) = q
          /\ Kept(inventory, inventory')
          /\ \A h \in Holds : inventory'.hold[h].order = inventory.hold[h].order
  BY <1>4, ConfirmAdds
<1>6. /\ \A x \in Orders : order'[x].sel = order[x].sel /\ order'[x].hold = order[x].hold
      /\ order'[o].status = "paid" /\ order'[o].payment = "confirmed"
      /\ \A x \in Orders : x # o => order'[x] = order[x]
  <2>1. order \in [Orders -> OrderRow]
    BY RowTypes DEF TInv
  <2> QED BY <2>1 DEF ConfirmPayment, OrderRow
<1>7. \A x \in Orders, y \in Events : notice'[x][y] = IF x = o /\ y = e THEN "acked" ELSE notice[x][y]
  <2>1. notice \in [Orders -> [Events -> NoticeState]]
    BY DEF TInv, IInv, TypeOK
  <2> QED BY <2>1 DEF ConfirmPayment
<1>8. IsFiniteSet(inventory.tickets)
  BY DEF TInv, IInv, Sound
<1>9. UNCHANGED <<session, charge>> /\ lot' = ConfirmFromLot(lot, l, q)
  BY <1>4 DEF ConfirmPayment
<1>10. Linked'
  <2>1. \A x \in Sessions : BoundRow(inventory', session'[x])
    BY <1>5, <1>9, BoundKept DEF TInv, Linked
  <2>2. \A x \in Orders : BoundRow(inventory, order'[x])
    BY <1>6 DEF TInv, Linked, BoundRow
  <2>3. \A x \in Orders : BoundRow(inventory', order'[x])
    BY <2>2, <1>5, BoundKept
  <2>4. \A h \in Holds : inventory'.hold[h].order \in Orders => order'[inventory'.hold[h].order].hold = h
    BY <1>5, <1>6 DEF TInv, Linked
  <2> QED BY <2>1, <2>3, <2>4 DEF Linked
<1>11. PaidOnce'
  <2>1. "acked" \notin Processing
    BY DEF Processing
  <2>2. \A y \in Events : notice'[o][y] \notin Processing
    BY <2>1, <1>2, <1>7
  <2>3. ASSUME NEW x \in Orders, x # o
        PROVE  order'[x] = order[x] /\ \A y \in Events : notice'[x][y] = notice[x][y]
    BY <2>3, <1>6, <1>7
  <2> QED BY <2>2, <2>3, <1>6 DEF TInv, PaidOnce, Uncommitted
<1>12. TicketsOf(o) = {}
  <2>1. Cardinality(TicketsOf(o)) = 0
    BY <1>2 DEF TInv, IssuedExactlyOnce
  <2>2. IsFiniteSet(TicketsOf(o))
    BY <1>8, FS_Subset DEF TicketsOf
  <2> QED BY <2>1, <2>2, FS_EmptySet
<1>13. Counted'
  <2>1. lot \in [Lots -> Counters]
    BY DEF TInv, IInv, TypeOK
  <2>2. /\ lot'[l].sold = lot[l].sold + q
        /\ \A x \in Lots : x # l => lot'[x].sold = lot[x].sold
    BY <2>1, <1>9, <1>4 DEF ConfirmFromLot, Counters
  <2>3. /\ SoldFrom(l)' = SoldFrom(l) \cup new
        /\ \A x \in Lots : x # l => SoldFrom(x)' = SoldFrom(x)
    BY <1>5, InventoryAssumption DEF SoldFrom
  <2>4. IsFiniteSet(SoldFrom(l))
    BY <1>8, FS_Subset DEF SoldFrom
  <2>5. SoldFrom(l) \cap new = {}
    BY <1>5, <1>12 DEF SoldFrom, TicketsOf
  <2>6. Cardinality(SoldFrom(l) \cup new) = Cardinality(SoldFrom(l)) + Cardinality(new)
    <3>1. Cardinality(SoldFrom(l) \cap new) = 0
      BY <2>5, FS_EmptySet
    <3>2. Cardinality(SoldFrom(l) \cup new)
            = Cardinality(SoldFrom(l)) + Cardinality(new) - Cardinality(SoldFrom(l) \cap new)
      BY <2>4, <1>5, FS_Union
    <3>3. Cardinality(SoldFrom(l)) \in Nat /\ Cardinality(new) \in Nat
      BY <2>4, <1>5, FS_CardinalityType
    <3> QED BY <3>1, <3>2, <3>3
  <2>7. Cardinality(SoldFrom(l)) \in Nat /\ Cardinality(new) \in Nat /\ lot[l].sold \in Nat
    BY <2>1, <2>4, <1>5, <1>4, FS_CardinalityType DEF Counters
  <2>8. \A x \in Lots : Cardinality(SoldFrom(x)') <= lot'[x].sold
    <3>1. \A x \in Lots : Cardinality(SoldFrom(x)) <= lot[x].sold
      BY DEF TInv, Counted
    <3>2. Cardinality(SoldFrom(l) \cup new) <= lot[l].sold + q
      BY <3>1, <2>6, <2>7, <1>5, <1>4
    <3> QED BY <3>1, <3>2, <2>2, <2>3
  <2>9. SoldIsIssued'
    <3>1. ASSUME SoldWithoutMap(l) PROVE lot'[l].sold = Cardinality(SoldFrom(l)')
      <4>1. order[o].sel.seats = {}
        BY <3>1, <1>3, <1>4 DEF SoldWithoutMap
      <4>2. order[o].hold = NoHold
        <5>1. order[o].hold \in Holds \cup {NoHold}
          BY RowTypes DEF TInv, OrderRow
        <5> QED BY <5>1, <4>1 DEF TInv, Linked, BoundRow
      <4>3. Cardinality(new) = q /\ lot[l].sold = Cardinality(SoldFrom(l))
        BY <4>2, <3>1, <1>5, <1>4 DEF TInv, Counted, SoldIsIssued
      <4> QED BY <4>3, <2>2, <2>3, <2>6
    <3>2. ASSUME NEW x \in Lots, x # l, SoldWithoutMap(x)
          PROVE  lot'[x].sold = Cardinality(SoldFrom(x)')
      BY <3>2, <2>2, <2>3 DEF TInv, Counted, SoldIsIssued
    <3> QED BY <3>1, <3>2 DEF SoldIsIssued, SoldWithoutMap
  <2> QED BY <2>8, <2>9 DEF Counted
<1>14. IssuedExactlyOnce'
  <2>1. TicketsOf(o)' = new
    BY <1>5, <1>12 DEF TicketsOf
  <2>2. ASSUME NEW x \in Orders, x # o PROVE TicketsOf(x)' = TicketsOf(x)
    BY <2>2, <1>5 DEF TicketsOf
  <2>3. order'[o].sel.qty = q /\ order'[o].hold = order[o].hold
    BY <1>4, <1>6
  <2> QED BY <2>1, <2>2, <2>3, <1>5, <1>6 DEF TInv, IssuedExactlyOnce
<1> QED BY <1>5, <1>10, <1>11, <1>13, <1>14 DEF TInv

-----------------------------------------------------------------------------
(* The theorems                                                            *)

LEMMA InitTInv == Init => TInv
<1> SUFFICES ASSUME Init PROVE TInv
  OBVIOUS
<1>1. IInv
  BY InitIInv
<1>2. inventory.tickets = {} /\ \A h \in Holds : inventory.hold[h].order = NoOrder
  BY DEF Init, Empty
<1>3. Linked
  BY <1>2, InventoryAssumption DEF Init, Linked, BoundRow
<1>4. PaidOnce
  BY DEF Init, PaidOnce, Processing
<1>5. Counted
  <2>1. \A l \in Lots : Cardinality(SoldFrom(l)) = 0
    BY <1>2, FS_EmptySet DEF SoldFrom
  <2> QED BY <2>1 DEF Init, Counted, SoldIsIssued
<1>6. IssuedExactlyOnce
  <2>1. \A o \in Orders : Cardinality(TicketsOf(o)) = 0
    BY <1>2, FS_EmptySet DEF TicketsOf
  <2> QED BY <2>1 DEF Init, IssuedExactlyOnce
<1> QED BY <1>1, <1>3, <1>4, <1>5, <1>6 DEF TInv

\* No step leaves TInv, and none takes a ticket or a sold seat back.
LEMMA NextTInv == TInv /\ [Next]_vars => TInv' /\ Kept(inventory, inventory')
<1> SUFFICES ASSUME TInv, [Next]_vars PROVE TInv' /\ Kept(inventory, inventory')
  OBVIOUS
<1>0. IInv'
  BY NextIInv DEF TInv
<1>1. ASSUME NEW s \in Sessions, NEW sel \in Selections, NEW h \in Holds \cup {NoHold},
             NEW others \in SUBSET Sessions, NEW b \in Browsers,
             CreateSession(s, b, sel, h, others)
      PROVE  TInv' /\ Kept(inventory, inventory')
  BY <1>0, <1>1, CreateSessionCounts
<1>2. ASSUME NEW s \in Sessions, NEW sel \in Selections, NEW h \in Holds \cup {NoHold},
             PatchSession(s, sel, h)
      PROVE  TInv' /\ Kept(inventory, inventory')
  <2>1. session[s].status \in Live /\ UpdateSession(s, sel, h, {})
    BY <1>2 DEF PatchSession
  <2> QED BY <1>0, <2>1, UpdateSessionCounts
<1>3. ASSUME NEW s \in Sessions, NEW sel \in Selections, NEW h \in Holds \cup {NoHold},
             NEW others \in SUBSET Sessions, ResumeSession(s, sel, h, others)
      PROVE  TInv' /\ Kept(inventory, inventory')
  BY <1>0, <1>3, ResumeSessionCounts
<1>4. ASSUME NEW s \in Sessions, AuthStarted(s) \/ BindSession(s)
      PROVE  TInv' /\ Kept(inventory, inventory')
  BY <1>0, <1>4, GraceCounts
<1>5. ASSUME NEW o \in Orders, NEW s \in Sessions, PayBegin(o, s)
      PROVE  TInv' /\ Kept(inventory, inventory')
  BY <1>0, <1>5, PayBeginCounts
<1>6. ASSUME NEW o \in Orders,
             CreateCharge(o) \/ PayCommit(o) \/ PayAbort(o) \/ PayCharge(o)
      PROVE  TInv' /\ Kept(inventory, inventory')
  BY <1>0, <1>6, OrderStepCounts, PayCommitCounts
<1>7. ASSUME NEW o \in Orders, NEW e \in Events,
             \/ NoticeSeen(o, e) \/ ConfirmRead(o, e) \/ ConfirmPayment(o, e)
             \/ NoticeFails(o, e) \/ NoticeResent(o, e)
      PROVE  TInv' /\ Kept(inventory, inventory')
  BY <1>0, <1>7, NoticeCounts, ConfirmPaymentCounts
<1>8. ASSUME NEW l \in Lots, NEW s \in Seats \cup {NoSeat}, IssueCourtesy(l, s)
      PROVE  TInv' /\ Kept(inventory, inventory')
  BY <1>0, <1>8, IssueCourtesyCounts
<1>9. CASE SweepInventory \/ SweepSessions \/ Tick
  BY <1>0, <1>9, SweepInventoryCounts, SweepSessionsCounts, TickCounts
<1>10. CASE UNCHANGED vars
  BY <1>0, <1>10 DEF vars, TInv, Linked, PaidOnce, Counted, SoldIsIssued, SoldFrom,
                     IssuedExactlyOnce, TicketsOf, Kept
<1> QED BY <1>1, <1>2, <1>3, <1>4, <1>5, <1>6, <1>7, <1>8, <1>9, <1>10 DEF Next

\* Every reachable state of the checkout satisfies TInv.
LEMMA TicketInvariance == Spec => []TInv
BY InitTInv, NextTInv, PTL DEF Spec

\* No lot ever sells more tickets than its quantity, whatever is released twice,
\* confirmed late, paid twice or floored at zero.
THEOREM NoLotIsOversold == Spec => []NeverOversold
<1>1. TInv => NeverOversold
  <2> SUFFICES ASSUME TInv, NEW l \in Lots PROVE Cardinality(SoldFrom(l)) <= Quantity[l]
    BY DEF NeverOversold
  <2>1. lot[l] \in Counters /\ Quantity[l] \in Nat
    BY QuantityAssumption DEF TInv, IInv, TypeOK
  <2>2. lot[l].sold + lot[l].held <= Quantity[l] /\ Cardinality(SoldFrom(l)) <= lot[l].sold
    BY DEF TInv, IInv, CapacityChk, Counted
  <2>3. Cardinality(SoldFrom(l)) \in Nat
    <3>1. IsFiniteSet(SoldFrom(l))
      BY FS_Subset DEF TInv, IInv, Sound, SoldFrom
    <3> QED BY <3>1, FS_CardinalityType
  <2> QED BY <2>1, <2>2, <2>3 DEF Counters
<1> QED BY <1>1, TicketInvariance, PTL

\* A lot sold without a map counts as sold exactly the tickets it issued to orders.
THEOREM SoldCountIsExact == Spec => []SoldIsIssued
<1>1. TInv => SoldIsIssued
  BY DEF TInv, Counted
<1> QED BY <1>1, TicketInvariance, PTL

\* However many notices a payment has, its order is issued its tickets once.
THEOREM TicketsAreIssuedOnce == Spec => []IssuedExactlyOnce
<1>1. TInv => IssuedExactlyOnce
  BY DEF TInv
<1> QED BY <1>1, TicketInvariance, PTL

\* No step of sweeper, release or later buyer takes a ticket or a sold seat away.
THEOREM TicketsStay == Spec => TicketsArePermanent
<1>1. TInv /\ [Next]_vars =>
         [ /\ inventory.tickets \subseteq inventory'.tickets
           /\ \A s \in Seats : inventory.occ[s].kind = "ticket" =>
                  inventory'.occ[s] = inventory.occ[s] ]_vars
  BY NextTInv DEF Kept
<1> QED BY <1>1, TicketInvariance, PTL DEF Spec, TicketsArePermanent

-----------------------------------------------------------------------------
(***************************************************************************)
(* The checkout implements SeatSales.  Every statement of the engine is    *)
(* one of its steps or none: reservations end (Ends), one is made on top   *)
(* of that (Takes), one is sold (Sells), a ticket is given (Gives), or the *)
(* owners and the reservations look as before.  A seat is only taken from  *)
(* a reservation that is over because live holds own theirs (Sound) and    *)
(* because a hold that was sold has left no seat behind (SoldOut).         *)
(***************************************************************************)

\* OwnerOf and StateOf, of any tables.
Whose(iv, s) == IF iv.occ[s].kind = "free" THEN NoHold
                ELSE IF iv.occ[s].kind = "hold" THEN iv.occ[s].hold ELSE iv.occ[s].ticket

Stage(iv, h) == IF iv.hold[h].status = "none" THEN "unused"
                ELSE IF iv.hold[h].status = "confirmed" THEN "sold"
                ELSE IF CanConfirm(iv, h) THEN "in force" ELSE "over"

\* The seats of a confirmed hold are tickets.
SoldOut(iv) == \A s \in Seats : iv.occ[s].kind = "hold" => iv.hold[iv.occ[s].hold].status # "confirmed"

\* The steps of SeatSales, from the tables iv to the tables nv.
Same(iv, nv) == /\ \A s \in Seats : Whose(nv, s) = Whose(iv, s)
                /\ \A h \in Holds : Stage(nv, h) = Stage(iv, h)

EndsOf(iv, nv, H, F) ==
    /\ \A h \in H : Stage(iv, h) = "in force"
    /\ \A h \in Holds : Stage(nv, h) = IF h \in H THEN "over" ELSE Stage(iv, h)
    /\ \A s \in F : Whose(iv, s) \in Holds /\ Stage(nv, Whose(iv, s)) = "over"
    /\ \A s \in Seats : Whose(nv, s) = IF s \in F THEN NoHold ELSE Whose(iv, s)

Ends(iv, nv) == \E H \in SUBSET Holds, F \in SUBSET Seats : EndsOf(iv, nv, H, F)

TakesOf(iv, nv, H, F, h, S) ==
    /\ Stage(iv, h) = "unused"
    /\ S # {}
    /\ \A x \in H : Stage(iv, x) = "in force"
    /\ \A x \in Holds : Stage(nv, x) = IF x = h THEN "in force" ELSE IF x \in H THEN "over" ELSE Stage(iv, x)
    /\ \A s \in F : Whose(iv, s) \in Holds /\ Stage(nv, Whose(iv, s)) = "over"
    /\ \A s \in S : Whose(iv, s) = NoHold \/ s \in F
    /\ \A s \in Seats : Whose(nv, s) = IF s \in S THEN h ELSE IF s \in F THEN NoHold ELSE Whose(iv, s)

Takes(iv, nv) ==
    \E H \in SUBSET Holds, F \in SUBSET Seats, h \in Holds, S \in SUBSET Seats : TakesOf(iv, nv, H, F, h, S)

SellsOf(iv, nv, h, ticket) ==
    /\ Stage(iv, h) \in {"in force", "over"}
    /\ \A s \in Seats : Whose(iv, s) = h => ticket[s] \in SeatTickets /\ \A x \in Seats : Whose(iv, x) # ticket[s]
    /\ \A s, x \in Seats : ticket[s] = ticket[x] => s = x
    /\ \A x \in Holds : Stage(nv, x) = IF x = h THEN "sold" ELSE Stage(iv, x)
    /\ \A s \in Seats : Whose(nv, s) = IF Whose(iv, s) = h THEN ticket[s] ELSE Whose(iv, s)

Sells(iv, nv) == \E h \in Holds : \E ticket : SellsOf(iv, nv, h, ticket)

GivesOf(iv, nv, s, t) ==
    /\ Whose(iv, s) = NoHold
    /\ \A x \in Seats : Whose(iv, x) # t
    /\ \A x \in Seats : Whose(nv, x) = IF x = s THEN t ELSE Whose(iv, x)
    /\ \A h \in Holds : Stage(nv, h) = Stage(iv, h)

Gives(iv, nv) == \E s \in Seats, t \in SeatTickets : GivesOf(iv, nv, s, t)

SalesStep(iv, nv) == Same(iv, nv) \/ Ends(iv, nv) \/ Takes(iv, nv) \/ Sells(iv, nv) \/ Gives(iv, nv)

\* Whose seat it is tells what it is occupied by.
LEMMA WhoseTells ==
    ASSUME NEW iv, Sound(iv), NEW s \in Seats
    PROVE  /\ Whose(iv, s) \in Holds <=> iv.occ[s].kind = "hold"
           /\ Whose(iv, s) = NoHold <=> iv.occ[s].kind = "free"
           /\ Whose(iv, s) \in Ticket <=> iv.occ[s].kind = "ticket"
<1>1. iv.occ[s] \in Occupancy /\ iv.occ[s].kind \in {"free", "hold", "ticket"}
  BY DEF Sound, Tables, Occupancy
<1>2. iv.occ[s].kind = "hold" => iv.occ[s].hold \in Holds
  BY DEF Sound
<1>3. iv.occ[s].kind = "ticket" => iv.occ[s].ticket \in Ticket
  BY DEF Sound, Tables
<1>4. NoHold \notin Holds /\ NoHold \notin Ticket /\ \A h \in Holds : h \notin Ticket
  BY InventoryAssumption, OwnersAssumption
<1> QED BY <1>1, <1>2, <1>3, <1>4 DEF Whose

\* What a hold is does not change while its status and its time do not.
LEMMA SameStage ==
    ASSUME NEW iv, NEW nv, NEW h, nv.hold[h].status = iv.hold[h].status, nv.hold[h].left = iv.hold[h].left
    PROVE  Stage(nv, h) = Stage(iv, h)
BY DEF Stage, CanConfirm

\* A hold still on a seat was taken, was not sold, and if it is in force the seat is not overdue.
LEMMA HolderStage ==
    ASSUME NEW iv, Sound(iv), SoldOut(iv), NEW s \in Seats, iv.occ[s].kind = "hold"
    PROVE  /\ iv.occ[s].hold \in Holds
           /\ Whose(iv, s) = iv.occ[s].hold
           /\ Stage(iv, iv.occ[s].hold) \in {"in force", "over"}
           /\ Stage(iv, iv.occ[s].hold) = "in force" => s \notin Overdue(iv)
<1> DEFINE h == iv.occ[s].hold
<1>1. /\ h \in Holds /\ iv.hold[h].status \notin {"none", "confirmed"} /\ s \in iv.hold[h].seats
      /\ iv.hold[h].left \in Nat /\ iv.occ[s].left \in Int
  BY DEF Sound, SoldOut, Tables, HoldRow, Occupancy
<1>2. CanConfirm(iv, h) => iv.occ[s].left > 0
  <2>1. CanConfirm(iv, h) => iv.hold[h].left > 0 /\ iv.occ[s].left >= iv.hold[h].left
    BY <1>1 DEF Sound, CanConfirm
  <2> QED BY <1>1, <2>1
<1> QED BY <1>1, <1>2 DEF Whose, Stage, Overdue

\* Release: the reservations released end, and what they have is freed.
LEMMA ReleaseEnds ==
    ASSUME NEW iv, Sound(iv), SoldOut(iv), NEW H \in SUBSET Holds
    PROVE  /\ SoldOut(Release(iv, H))
           /\ Ends(iv, Release(iv, H))
           /\ \A h \in Holds : Release(iv, H).hold[h].status = "none" => iv.hold[h].status = "none"
<1> DEFINE nv == Release(iv, H)
           hd == [h \in Holds |-> IF h \in H /\ iv.hold[h].status = "held"
                                  THEN [iv.hold[h] EXCEPT !.status = "released"] ELSE iv.hold[h]]
           F == HeldBy(iv, H)
           R == {h \in H : Stage(iv, h) = "in force"}
<1>1. nv.hold = hd /\ nv.occ = [s \in Seats |-> IF s \in F THEN Free ELSE iv.occ[s]]
  BY DEF Release, Freed, Sound, Tables
<1>2. \A h \in Holds : hd[h].status = IF h \in H /\ iv.hold[h].status = "held" THEN "released" ELSE iv.hold[h].status
  BY DEF Sound, Tables, HoldRow
<1>3. \A h \in Holds : hd[h].left = iv.hold[h].left
  BY DEF Sound, Tables, HoldRow
<1> HIDE DEF nv, hd
<1>4. \A h \in Holds : Stage(nv, h) = IF h \in R THEN "over" ELSE Stage(iv, h)
  BY <1>1, <1>2, <1>3 DEF Stage, CanConfirm
<1>5. \A s \in F : Whose(iv, s) \in Holds /\ Stage(nv, Whose(iv, s)) = "over"
  <2> SUFFICES ASSUME NEW s \in F PROVE Whose(iv, s) \in Holds /\ Stage(nv, Whose(iv, s)) = "over"
    OBVIOUS
  <2>1. s \in Seats /\ iv.occ[s].kind = "hold" /\ iv.occ[s].hold \in H
    BY DEF HeldBy
  <2>2. Whose(iv, s) \in Holds /\ Whose(iv, s) \in H /\ Stage(iv, Whose(iv, s)) \in {"in force", "over"}
    BY <2>1, HolderStage
  <2> QED BY <2>2, <1>4
<1>6. \A s \in Seats : Whose(nv, s) = IF s \in F THEN NoHold ELSE Whose(iv, s)
  BY <1>1 DEF Whose, Free
<1>7. SoldOut(nv)
  BY <1>1, <1>2 DEF SoldOut, Free, Sound
<1>8. F \in SUBSET Seats /\ R \in SUBSET Holds
  BY DEF HeldBy
<1>9. EndsOf(iv, nv, R, F)
  BY <1>4, <1>5, <1>6 DEF EndsOf
<1> QED BY <1>1, <1>2, <1>7, <1>8, <1>9 DEF Ends, nv

\* ExpireDue: holds expire whose time is over already, and overdue seats are freed.
LEMMA ExpireEnds ==
    ASSUME NEW iv, Sound(iv), SoldOut(iv)
    PROVE  SoldOut(ExpireDue(iv)) /\ Ends(iv, ExpireDue(iv))
<1> DEFINE nv == ExpireDue(iv)
           hd == [h \in Holds |-> IF iv.hold[h].status = "held" /\ iv.hold[h].left = 0
                                  THEN [iv.hold[h] EXCEPT !.status = "expired"] ELSE iv.hold[h]]
           F == Overdue(iv)
<1>1. nv.hold = hd /\ nv.occ = [s \in Seats |-> IF s \in F THEN Free ELSE iv.occ[s]]
  BY DEF ExpireDue, Freed, Sound, Tables
<1>2. \A h \in Holds : hd[h].status = IF iv.hold[h].status = "held" /\ iv.hold[h].left = 0 THEN "expired" ELSE iv.hold[h].status
  BY DEF Sound, Tables, HoldRow
<1>3. \A h \in Holds : hd[h].left = iv.hold[h].left /\ iv.hold[h].left \in Nat
  BY DEF Sound, Tables, HoldRow
<1> HIDE DEF nv, hd
<1>4. \A h \in Holds : Stage(nv, h) = Stage(iv, h)
  <2> SUFFICES ASSUME NEW h \in Holds PROVE Stage(nv, h) = Stage(iv, h)
    OBVIOUS
  <2>1. nv.hold[h].left = iv.hold[h].left /\ iv.hold[h].left \in Nat
    BY <1>1, <1>3
  <2>2. CASE iv.hold[h].status = "held" /\ iv.hold[h].left = 0
    <3>1. nv.hold[h].status = "expired"
      BY <1>1, <1>2, <2>2
    <3>2. ~CanConfirm(nv, h) /\ ~CanConfirm(iv, h)
      BY <2>1, <2>2 DEF CanConfirm
    <3> QED BY <2>2, <3>1, <3>2 DEF Stage
  <2>3. CASE ~(iv.hold[h].status = "held" /\ iv.hold[h].left = 0)
    <3>1. nv.hold[h].status = iv.hold[h].status
      BY <1>1, <1>2, <2>3
    <3> QED BY <2>1, <3>1, SameStage
  <2> QED BY <2>2, <2>3
<1>5. \A s \in F : Whose(iv, s) \in Holds /\ Stage(nv, Whose(iv, s)) = "over"
  <2> SUFFICES ASSUME NEW s \in F PROVE Whose(iv, s) \in Holds /\ Stage(nv, Whose(iv, s)) = "over"
    OBVIOUS
  <2>1. s \in Seats /\ iv.occ[s].kind = "hold"
    BY DEF Overdue
  <2>2. Whose(iv, s) \in Holds /\ Stage(iv, Whose(iv, s)) = "over"
    BY <2>1, HolderStage
  <2> QED BY <2>2, <1>4
<1>6. \A s \in Seats : Whose(nv, s) = IF s \in F THEN NoHold ELSE Whose(iv, s)
  BY <1>1 DEF Whose, Free
<1>7. SoldOut(nv)
  BY <1>1, <1>2 DEF SoldOut, Free, Sound
<1>8. F \in SUBSET Seats
  BY DEF Overdue
<1>9. EndsOf(iv, nv, {}, F)
  BY <1>4, <1>5, <1>6 DEF EndsOf
<1> QED BY <1>7, <1>8, <1>9 DEF Ends, nv

\* Age: the reservations whose last tick this was end; no seat moves.
LEMMA AgeEnds ==
    ASSUME NEW iv, Sound(iv), SoldOut(iv)
    PROVE  SoldOut(Age(iv)) /\ Ends(iv, Age(iv))
<1> DEFINE nv == Age(iv)
           hd == [h \in Holds |-> [iv.hold[h] EXCEPT !.left = Less(@, 0)]]
           R == {h \in Holds : Stage(iv, h) = "in force" /\ iv.hold[h].left = 1}
<1>1. /\ nv.hold = hd
      /\ nv.occ = [s \in Seats |-> IF iv.occ[s].kind = "hold"
                                   THEN [iv.occ[s] EXCEPT !.left = Less(@, -AuthGrace)]
                                   ELSE iv.occ[s]]
  BY DEF Age, Sound, Tables
<1>2. \A h \in Holds : hd[h].status = iv.hold[h].status /\ hd[h].left = Less(iv.hold[h].left, 0) /\ iv.hold[h].left \in Nat
  BY DEF Sound, Tables, HoldRow
<1>3. \A s \in Seats : /\ nv.occ[s].kind = iv.occ[s].kind
                       /\ nv.occ[s].hold = iv.occ[s].hold
                       /\ nv.occ[s].ticket = iv.occ[s].ticket
  BY <1>1 DEF Sound, Tables, Occupancy
<1> HIDE DEF nv, hd
<1>4. \A h \in Holds : Stage(nv, h) = IF h \in R THEN "over" ELSE Stage(iv, h)
  <2> SUFFICES ASSUME NEW h \in Holds PROVE Stage(nv, h) = IF h \in R THEN "over" ELSE Stage(iv, h)
    OBVIOUS
  <2>1. nv.hold[h].status = iv.hold[h].status /\ nv.hold[h].left = Less(iv.hold[h].left, 0) /\ iv.hold[h].left \in Nat
    BY <1>1, <1>2
  <2>2. nv.hold[h].left > 0 <=> iv.hold[h].left > 1
    BY <2>1 DEF Less
  <2>3. h \in R <=> iv.hold[h].status = "held" /\ iv.hold[h].left = 1
    BY <2>1 DEF Stage, CanConfirm
  <2>4. iv.hold[h].left > 0 <=> iv.hold[h].left = 1 \/ nv.hold[h].left > 0
    BY <2>1, <2>2
  <2> HIDE DEF R
  <2>5. CanConfirm(nv, h) <=> CanConfirm(iv, h) /\ h \notin R
    BY <2>1, <2>2, <2>3, <2>4 DEF CanConfirm
  <2> QED BY <2>1, <2>3, <2>5 DEF Stage
<1>5. \A s \in Seats : Whose(nv, s) = Whose(iv, s)
  BY <1>3 DEF Whose
<1>6. SoldOut(nv)
  BY <1>1, <1>2, <1>3 DEF SoldOut, Sound
<1>7. EndsOf(iv, nv, R, {})
  BY <1>4, <1>5 DEF EndsOf
<1> QED BY <1>6, <1>7 DEF Ends, nv

\* Statements that move no owner and no status.
LEMMA ElseSame ==
    ASSUME NEW iv, Sound(iv), SoldOut(iv)
    PROVE  /\ \A H : SoldOut(Extend(iv, H)) /\ Same(iv, Extend(iv, H))
           /\ \A h \in Holds, o \in Orders : SoldOut(LinkToOrder(iv, h, o)) /\ Same(iv, LinkToOrder(iv, h, o))
           /\ \A o, l, qty : SoldOut(IssueStanding(iv, o, l, qty)) /\ Same(iv, IssueStanding(iv, o, l, qty))
<1>1. ASSUME NEW H PROVE SoldOut(Extend(iv, H)) /\ Same(iv, Extend(iv, H))
  <2> DEFINE nv == Extend(iv, H)
  <2>1. nv.hold = iv.hold
    BY DEF Extend, Sound, Tables
  <2>2. \A s \in Seats : /\ nv.occ[s].kind = iv.occ[s].kind
                         /\ nv.occ[s].hold = iv.occ[s].hold
                         /\ nv.occ[s].ticket = iv.occ[s].ticket
    BY DEF Extend, Sound, Tables, Occupancy
  <2> HIDE DEF nv
  <2>3. SoldOut(nv)
    BY <2>1, <2>2 DEF SoldOut
  <2>4. Same(iv, nv)
    BY <2>1, <2>2, SameStage DEF Same, Whose
  <2> QED BY <2>3, <2>4 DEF nv
<1>2. ASSUME NEW h \in Holds, NEW o \in Orders PROVE SoldOut(LinkToOrder(iv, h, o)) /\ Same(iv, LinkToOrder(iv, h, o))
  <2> DEFINE nv == LinkToOrder(iv, h, o)
  <2>1. nv.occ = iv.occ /\ nv.hold = [iv.hold EXCEPT ![h].order = o]
    BY DEF LinkToOrder, Sound, Tables
  <2>2. \A x \in Holds : nv.hold[x].status = iv.hold[x].status /\ nv.hold[x].left = iv.hold[x].left
    BY <2>1 DEF Sound, Tables, HoldRow
  <2> HIDE DEF nv
  <2>3. SoldOut(nv)
    BY <2>1, <2>2 DEF SoldOut, Sound
  <2>4. Same(iv, nv)
    BY <2>1, <2>2, SameStage DEF Same, Whose
  <2> QED BY <2>3, <2>4 DEF nv
<1>3. ASSUME NEW o, NEW l, NEW qty PROVE SoldOut(IssueStanding(iv, o, l, qty)) /\ Same(iv, IssueStanding(iv, o, l, qty))
  <2> DEFINE nv == IssueStanding(iv, o, l, qty)
  <2>1. nv.occ = iv.occ /\ nv.hold = iv.hold
    BY DEF IssueStanding, Sound, Tables
  <2> HIDE DEF nv
  <2>2. SoldOut(nv) /\ Same(iv, nv)
    BY <2>1, SameStage DEF SoldOut, Same, Whose
  <2> QED BY <2>2 DEF nv
<1> QED BY <1>1, <1>2, <1>3

\* Hold: the seats of the new hold were free, or of a reservation that is over.
LEMMA HoldTakes ==
    ASSUME NEW iv, Sound(iv), SoldOut(iv), NEW h \in Holds, iv.hold[h].status = "none",
           NEW S \in SUBSET Seats, CanHold(iv, S)
    PROVE  /\ SoldOut(Hold(iv, h, S))
           /\ TakesOf(iv, Hold(iv, h, S), {}, Overdue(iv) \cap S, h, S)
<1> DEFINE nv == Hold(iv, h, S)
           row == [status |-> "held", seats |-> S, order |-> NoOrder, left |-> HoldTTL]
           F == Overdue(iv) \cap S
<1>1. /\ nv.hold = [iv.hold EXCEPT ![h] = row]
      /\ nv.occ = [s \in Seats |-> IF s \in S THEN HeldUntil(h, HoldTTL) ELSE iv.occ[s]]
  BY DEF Hold, Sound, Tables
<1>2. S # {} /\ \A s \in S : iv.occ[s].kind = "free" \/ s \in F
  BY DEF CanHold, Freed, Sound, Tables
<1>3. nv.hold[h] = row /\ \A x \in Holds : x # h => nv.hold[x] = iv.hold[x]
  BY <1>1 DEF Sound, Tables
<1> HIDE DEF nv
<1>4. Stage(iv, h) = "unused" /\ \A x \in Holds : Stage(nv, x) = IF x = h THEN "in force" ELSE Stage(iv, x)
  <2>1. CanConfirm(nv, h) /\ nv.hold[h].status = "held"
    <3>1. HoldTTL > 0
      BY InventoryAssumption
    <3> QED BY <1>3, <3>1 DEF CanConfirm
  <2>2. \A x \in Holds : x # h => nv.hold[x].status = iv.hold[x].status /\ nv.hold[x].left = iv.hold[x].left
    BY <1>3
  <2>3. \A x \in Holds : x # h => Stage(nv, x) = Stage(iv, x)
    BY <2>2, SameStage
  <2> QED BY <2>1, <2>3 DEF Stage
<1>5. \A s \in Seats : Whose(nv, s) = IF s \in S THEN h ELSE Whose(iv, s)
  BY <1>1 DEF Whose, HeldUntil
<1>6. \A s \in F : Whose(iv, s) \in Holds /\ Stage(iv, Whose(iv, s)) = "over" /\ Whose(iv, s) # h
  <2> SUFFICES ASSUME NEW s \in F PROVE Whose(iv, s) \in Holds /\ Stage(iv, Whose(iv, s)) = "over" /\ Whose(iv, s) # h
    OBVIOUS
  <2>1. s \in Seats /\ iv.occ[s].kind = "hold"
    BY DEF Overdue
  <2> QED BY <2>1, <1>4, HolderStage
<1>7. SoldOut(nv)
  BY <1>1, <1>3 DEF SoldOut, HeldUntil, Sound
<1>8. \A s \in S : Whose(iv, s) = NoHold \/ s \in F
  BY <1>2 DEF Whose
<1>9. TakesOf(iv, nv, {}, F, h, S)
  BY <1>2, <1>4, <1>5, <1>6, <1>8 DEF TakesOf
<1> QED BY <1>7, <1>9 DEF nv

\* What ends before a reservation is made ends with it.
LEMMA EndsThenTakes ==
    ASSUME NEW iv, NEW mv, NEW nv, Sound(iv), Sound(mv), Ends(iv, mv),
           NEW F \in SUBSET Seats, NEW h \in Holds, NEW S \in SUBSET Seats, TakesOf(mv, nv, {}, F, h, S)
    PROVE  Takes(iv, nv)
<1>1. PICK R \in SUBSET Holds, E \in SUBSET Seats : EndsOf(iv, mv, R, E)
  BY DEF Ends
<1>2. NoHold \notin Holds
  BY InventoryAssumption
<1>3. \A s \in F : s \notin E /\ Whose(mv, s) = Whose(iv, s)
  BY <1>1, <1>2 DEF EndsOf, TakesOf
<1>4. h \notin R /\ Stage(iv, h) = "unused"
  BY <1>1 DEF EndsOf, TakesOf
<1>5. \A x \in Holds : Stage(nv, x) = IF x = h THEN "in force" ELSE IF x \in R THEN "over" ELSE Stage(iv, x)
  BY <1>1, <1>4 DEF EndsOf, TakesOf
<1>6. \A s \in F \cup E : Whose(iv, s) \in Holds /\ Stage(nv, Whose(iv, s)) = "over"
  <2>1. \A s \in E : Whose(iv, s) \in Holds /\ Stage(mv, Whose(iv, s)) = "over"
    BY <1>1 DEF EndsOf
  <2>2. \A s \in E : Whose(iv, s) # h
    BY <2>1 DEF TakesOf
  <2>3. \A x \in Holds : x # h => Stage(nv, x) = Stage(mv, x)
    BY DEF TakesOf
  <2>4. \A s \in F : Whose(iv, s) \in Holds /\ Stage(nv, Whose(iv, s)) = "over"
    BY <1>3 DEF TakesOf
  <2> QED BY <2>1, <2>2, <2>3, <2>4
<1>7. \A s \in S : Whose(iv, s) = NoHold \/ s \in F \cup E
  BY <1>1 DEF EndsOf, TakesOf
<1>8. \A s \in Seats : Whose(nv, s) = IF s \in S THEN h ELSE IF s \in F \cup E THEN NoHold ELSE Whose(iv, s)
  BY <1>1 DEF EndsOf, TakesOf
<1>9. S # {} /\ \A x \in R : Stage(iv, x) = "in force"
  BY <1>1 DEF EndsOf, TakesOf
<1>10. TakesOf(iv, nv, R, F \cup E, h, S)
  BY <1>4, <1>5, <1>6, <1>7, <1>8, <1>9 DEF TakesOf
<1>11. F \cup E \in SUBSET Seats
  OBVIOUS
<1> QED BY <1>10, <1>11 DEF Takes

\* Confirm: what the hold still has becomes one new ticket a seat.
LEMMA ConfirmSells ==
    ASSUME NEW iv, Sound(iv), SoldOut(iv), NEW h \in Holds, iv.hold[h].status = "held",
           NEW o \in Orders, NEW l \in Lots, MaxCourtesies \in Nat
    PROVE  SoldOut(Confirm(iv, h, o, l)) /\ Sells(iv, Confirm(iv, h, o, l))
<1> DEFINE nv == Confirm(iv, h, o, l)
           S  == HeldBy(iv, {h})
           hd == [iv.hold EXCEPT ![h] = [iv.hold[h] EXCEPT !.status = "confirmed", !.order = o]]
           ticket == [s \in Seats |-> SeatTicket(o, l, s)]
<1>1. /\ nv.hold = hd
      /\ nv.occ = [s \in Seats |-> IF s \in S THEN Ticketed(h, SeatTicket(o, l, s)) ELSE iv.occ[s]]
  BY DEF Confirm, Sound, Tables
<1>2. /\ hd[h].status = "confirmed"
      /\ \A x \in Holds : x # h => hd[x] = iv.hold[x]
  BY DEF Sound, Tables, HoldRow
<1> HIDE DEF nv, hd
<1>3. \A s \in Seats : s \in S <=> Whose(iv, s) = h
  BY WhoseTells DEF HeldBy, Whose
<1>4. Stage(iv, h) \in {"in force", "over"}
  BY DEF Stage
<1>5. \A s \in Seats : ticket[s] \in SeatTickets /\ ticket[s] \in Ticket /\ ticket[s].seat = s
  BY InventoryAssumption DEF SeatTickets, SeatTicket, Ticket
<1>6. ASSUME NEW s \in Seats, Whose(iv, s) = h, NEW x \in Seats PROVE Whose(iv, x) # ticket[s]
  <2> SUFFICES ASSUME Whose(iv, x) = ticket[s] PROVE FALSE
    OBVIOUS
  <2> HIDE DEF ticket
  <2>1. iv.occ[x].kind = "ticket"
    BY <1>5, WhoseTells
  <2>2. iv.occ[x].ticket = ticket[s] /\ iv.occ[x].ticket.seat = x
    BY <2>1 DEF Whose, Sound
  <2>3. x = s
    BY <2>2, <1>5
  <2>4. iv.occ[s].kind = "hold"
    BY <1>6, WhoseTells
  <2> QED BY <2>1, <2>3, <2>4
<1>7. \A s, x \in Seats : ticket[s] = ticket[x] => s = x
  <2> HIDE DEF ticket
  <2> QED BY <1>5
<1>8. \A x \in Holds : Stage(nv, x) = IF x = h THEN "sold" ELSE Stage(iv, x)
  <2>1. \A x \in Holds : x # h => Stage(nv, x) = Stage(iv, x)
    BY <1>1, <1>2, SameStage
  <2> QED BY <1>1, <1>2, <2>1 DEF Stage
<1>9. \A s \in Seats : Whose(nv, s) = IF Whose(iv, s) = h THEN ticket[s] ELSE Whose(iv, s)
  <2> SUFFICES ASSUME NEW s \in Seats PROVE Whose(nv, s) = IF Whose(iv, s) = h THEN ticket[s] ELSE Whose(iv, s)
    OBVIOUS
  <2>1. CASE s \in S
    <3>1. Whose(iv, s) = h
      BY <2>1, <1>3
    <3>2. nv.occ[s] = Ticketed(h, SeatTicket(o, l, s))
      BY <2>1, <1>1
    <3>3. Whose(nv, s) = SeatTicket(o, l, s)
      BY <3>2 DEF Whose, Ticketed
    <3> QED BY <3>1, <3>3
  <2>2. CASE s \notin S
    <3>1. Whose(iv, s) # h /\ nv.occ[s] = iv.occ[s]
      BY <2>2, <1>1, <1>3
    <3> QED BY <3>1 DEF Whose
  <2> QED BY <2>1, <2>2
<1>10. SoldOut(nv)
  <2> SUFFICES ASSUME NEW s \in Seats, nv.occ[s].kind = "hold" PROVE nv.hold[nv.occ[s].hold].status # "confirmed"
    BY DEF SoldOut
  <2>1. s \notin S /\ nv.occ[s] = iv.occ[s]
    BY <1>1 DEF Ticketed
  <2>2. iv.occ[s].hold \in Holds /\ iv.occ[s].hold # h
    BY <2>1 DEF Sound, HeldBy
  <2> QED BY <2>1, <2>2, <1>1, <1>2 DEF SoldOut
<1>11. SellsOf(iv, nv, h, ticket)
  <2> HIDE DEF ticket
  <2> QED BY <1>4, <1>5, <1>6, <1>7, <1>8, <1>9 DEF SellsOf
<1>12. Sells(iv, nv)
  <2> HIDE DEF ticket
  <2> QED BY <1>11 DEF Sells
<1> QED BY <1>10, <1>12 DEF nv

\* IssueCourtesyTicket: a new ticket for a free seat, or one that has no seat.
LEMMA CourtesyGives ==
    ASSUME NEW iv, Sound(iv), SoldOut(iv), NEW t \in Ticket, t.seat # NoSeat => iv.occ[t.seat].kind = "free" /\ t \in SeatTickets
    PROVE  SoldOut(IssueCourtesyTicket(iv, t)) /\ (Gives(iv, IssueCourtesyTicket(iv, t)) \/ Same(iv, IssueCourtesyTicket(iv, t)))
<1> DEFINE nv == IssueCourtesyTicket(iv, t)
<1>1. /\ nv.hold = iv.hold
      /\ nv.occ = [s \in Seats |-> IF s = t.seat THEN Ticketed(NoHold, t) ELSE iv.occ[s]]
  BY DEF IssueCourtesyTicket, Sound, Tables
<1> HIDE DEF nv
<1>2. SoldOut(nv)
  BY <1>1 DEF SoldOut, Ticketed
<1>3. \A h \in Holds : Stage(nv, h) = Stage(iv, h)
  BY <1>1, SameStage
<1>4. \A x \in Seats : Whose(nv, x) = IF x = t.seat THEN t ELSE Whose(iv, x)
  BY <1>1 DEF Whose, Ticketed
<1>5. ASSUME t.seat = NoSeat PROVE Same(iv, nv)
  <2>1. \A x \in Seats : x # t.seat
    BY <1>5, InventoryAssumption
  <2>2. \A x \in Seats : Whose(nv, x) = Whose(iv, x)
    BY <2>1, <1>4
  <2> QED BY <2>2, <1>3 DEF Same
<1>6. ASSUME t.seat # NoSeat PROVE Gives(iv, nv)
  <2>1. t.seat \in Seats /\ Whose(iv, t.seat) = NoHold
    BY <1>6 DEF Ticket, Whose
  <2>2. ASSUME NEW x \in Seats, Whose(iv, x) = t PROVE FALSE
    <3>1. iv.occ[x].kind = "ticket"
      BY <2>2, WhoseTells
    <3>2. iv.occ[x].ticket = t /\ t.seat = x
      BY <3>1, <2>2 DEF Whose, Sound
    <3> QED BY <3>1, <3>2, <1>6
  <2>3. GivesOf(iv, nv, t.seat, t)
    BY <2>1, <2>2, <1>3, <1>4 DEF GivesOf
  <2>4. t \in SeatTickets
    BY <1>6
  <2>5. \E s \in Seats, u \in SeatTickets : GivesOf(iv, nv, s, u)
    BY <2>1, <2>3, <2>4, Zenon
  <2> QED BY <2>5 DEF Gives
<1> QED BY <1>2, <1>5, <1>6 DEF nv

-----------------------------------------------------------------------------
(* The transactions                                                        *)

SalesInv == IInv /\ SoldOut(inventory)

\* Whatever is released, and then reserved or not.
LEMMA ReserveSells ==
    ASSUME SalesInv, NEW H \in SUBSET Holds, NEW lt, NEW sel \in Selections, NEW h,
           CanReserve(lt, Release(inventory, H), sel, h), inventory' = Reserved(Release(inventory, H), sel, h)
    PROVE  SoldOut(inventory)' /\ SalesStep(inventory, inventory')
<1> DEFINE mv == Release(inventory, H)
<1>1. Sound(inventory) /\ Sound(mv)
  BY SoundRelease DEF SalesInv, IInv
<1>2. SoldOut(mv) /\ Ends(inventory, mv)
  BY <1>1, ReleaseEnds DEF SalesInv
<1> HIDE DEF mv
<1>3. CASE sel.seats = {}
  <2>1. inventory' = mv
    BY <1>3 DEF CanReserve, Reserved, mv
  <2> QED BY <1>2, <2>1 DEF SalesStep, SoldOut
<1>4. CASE sel.seats # {}
  <2>1. h \in Holds /\ mv.hold[h].status = "none" /\ CanHold(mv, sel.seats) /\ sel.seats \in SUBSET Seats
    BY <1>4, SelectionType DEF CanReserve, mv
  <2>2. inventory' = Hold(mv, h, sel.seats)
    BY <2>1, InventoryAssumption DEF Reserved, mv
  <2>3. SoldOut(Hold(mv, h, sel.seats)) /\ TakesOf(mv, Hold(mv, h, sel.seats), {}, Overdue(mv) \cap sel.seats, h, sel.seats)
    BY <1>1, <1>2, <2>1, HoldTakes
  <2>4. Overdue(mv) \cap sel.seats \in SUBSET Seats
    BY <2>1
  <2>5. Takes(inventory, Hold(mv, h, sel.seats))
    BY <1>1, <1>2, <2>1, <2>3, <2>4, EndsThenTakes
  <2> QED BY <2>2, <2>3, <2>5 DEF SalesStep, SoldOut
<1> QED BY <1>3, <1>4

\* A step that leaves the tables as they are.
LEMMA NothingSold ==
    ASSUME SalesInv, UNCHANGED inventory
    PROVE  SoldOut(inventory)' /\ SalesStep(inventory, inventory')
BY DEF SalesInv, SoldOut, SalesStep, Same

LEMMA HoldsOfType == ASSUME IInv, NEW S \in SUBSET Sessions PROVE HoldsOf(S) \in SUBSET Holds
BY DEF HoldsOf, IInv, TypeOK, SessionRow

LEMMA StepsSell ==
    ASSUME SalesInv, [Next]_vars
    PROVE  SoldOut(inventory)' /\ SalesStep(inventory, inventory')
<1> DEFINE Goal == SoldOut(inventory)' /\ SalesStep(inventory, inventory')
<1>1. IInv /\ Sound(inventory) /\ SoldOut(inventory)
  BY DEF SalesInv, IInv
<1>2. ASSUME UNCHANGED inventory PROVE Goal
  BY <1>2, NothingSold
<1>3. ASSUME NEW H \in SUBSET Holds, NEW lt, NEW sel \in Selections, NEW h,
             CanReserve(lt, Release(inventory, H), sel, h), inventory' = Reserved(Release(inventory, H), sel, h)
      PROVE  Goal
  BY <1>3, ReserveSells
<1>4. ASSUME NEW H \in SUBSET Holds, inventory' = Release(inventory, H) PROVE Goal
  <2>1. SoldOut(Release(inventory, H)) /\ Ends(inventory, Release(inventory, H))
    BY <1>1, ReleaseEnds
  <2> QED BY <1>4, <2>1 DEF SalesStep, SoldOut
<1>5. ASSUME NEW s \in Sessions, NEW sel \in Selections, NEW h, NEW others \in SUBSET Sessions,
             UpdateSession(s, sel, h, others)
      PROVE  Goal
  <2>1. HoldsOf(others \cup {s}) \in SUBSET Holds
    BY <1>1, HoldsOfType
  <2>2. PICK lt : /\ CanReserve(lt, Release(inventory, HoldsOf(others \cup {s})), sel, h)
                  /\ inventory' = Reserved(Release(inventory, HoldsOf(others \cup {s})), sel, h)
    BY <1>5 DEF UpdateSession
  <2> QED BY <2>1, <2>2, <1>3
<1>6. ASSUME NEW s \in Sessions, NEW sel \in Selections, NEW h, NEW others \in SUBSET Sessions, NEW b \in Browsers,
             CreateSession(s, b, sel, h, others)
      PROVE  Goal
  <2>1. HoldsOf(others) \in SUBSET Holds
    BY <1>1, HoldsOfType
  <2>2. PICK lt : /\ CanReserve(lt, Release(inventory, HoldsOf(others)), sel, h)
                  /\ inventory' = Reserved(Release(inventory, HoldsOf(others)), sel, h)
    BY <1>6 DEF CreateSession
  <2> QED BY <2>1, <2>2, <1>3
<1>7. ASSUME NEW s \in Sessions, NEW sel \in Selections, NEW h, NEW others \in SUBSET Sessions,
             ResumeSession(s, sel, h, others)
      PROVE  Goal
  <2>1. HoldsOf(others) \in SUBSET Holds
    BY <1>1, HoldsOfType
  <2>2. CASE sel # session[s].sel
    BY <1>5, <1>7, <2>2 DEF ResumeSession
  <2>3. CASE sel = session[s].sel
    BY <1>4, <1>7, <2>1, <2>3 DEF ResumeSession
  <2> QED BY <2>2, <2>3
<1>8. ASSUME NEW s \in Sessions, AuthStarted(s) \/ BindSession(s) PROVE Goal
  <2>1. inventory' = inventory \/ inventory' = Extend(inventory, {session[s].hold})
    BY <1>8 DEF AuthStarted, BindSession
  <2>2. SoldOut(Extend(inventory, {session[s].hold})) /\ Same(inventory, Extend(inventory, {session[s].hold}))
    BY <1>1, ElseSame
  <2> QED BY <1>2, <2>1, <2>2 DEF SalesStep, SoldOut
<1>9. ASSUME NEW o \in Orders, PayCommit(o) PROVE Goal
  <2>1. inventory' = inventory \/ (order[o].hold \in Holds /\ inventory' = LinkToOrder(inventory, order[o].hold, o))
    BY <1>1, <1>9, RowTypes DEF PayCommit, OrderRow
  <2>2. order[o].hold \in Holds => /\ SoldOut(LinkToOrder(inventory, order[o].hold, o))
                                  /\ Same(inventory, LinkToOrder(inventory, order[o].hold, o))
    BY <1>1, ElseSame
  <2> QED BY <1>2, <2>1, <2>2 DEF SalesStep, SoldOut
<1>10. ASSUME NEW o \in Orders, NEW e \in Events, ConfirmPayment(o, e) PROVE Goal
  <2>1. order[o].sel.lot \in Lots /\ MaxCourtesies \in Nat
    <3>1. order[o].sel \in Selections
      BY <1>1, <1>10 DEF ConfirmPayment, IInv, Filled, Processing
    <3> QED BY <3>1, SelectionType, CheckoutAssumption, InventoryAssumption
  <2>2. CASE \E h \in HoldsOfOrder(o) : inventory' = Confirm(inventory, h, o, order[o].sel.lot)
    <3>1. PICK h \in HoldsOfOrder(o) : inventory' = Confirm(inventory, h, o, order[o].sel.lot)
      BY <2>2
    <3>2. h \in Holds /\ inventory.hold[h].status = "held"
      BY DEF HoldsOfOrder
    <3>3. SoldOut(Confirm(inventory, h, o, order[o].sel.lot)) /\ Sells(inventory, Confirm(inventory, h, o, order[o].sel.lot))
      BY <1>1, <2>1, <3>2, ConfirmSells
    <3> QED BY <3>1, <3>3 DEF SalesStep, SoldOut
  <2>3. CASE inventory' = IssueStanding(inventory, o, order[o].sel.lot, order[o].sel.qty)
    <3>1. /\ SoldOut(IssueStanding(inventory, o, order[o].sel.lot, order[o].sel.qty))
          /\ Same(inventory, IssueStanding(inventory, o, order[o].sel.lot, order[o].sel.qty))
      BY <1>1, ElseSame
    <3> QED BY <2>3, <3>1 DEF SalesStep, SoldOut
  <2> QED BY <1>10, <2>2, <2>3 DEF ConfirmPayment
<1>11. ASSUME NEW l \in Lots, NEW s \in Seats \cup {NoSeat}, IssueCourtesy(l, s) PROVE Goal
  <2> DEFINE t == CourtesyTicket(inventory, l, s)
  <2>1. Issued(inventory, NoOrder) \in Nat /\ Issued(inventory, NoOrder) < MaxCourtesies /\ MaxCourtesies \in Nat
    BY <1>1, <1>11, IssuedIsNat, CheckoutAssumption, InventoryAssumption DEF IssueCourtesy
  <2>2. t \in Ticket /\ t.seat = s
    BY <2>1 DEF CourtesyTicket, Ticket
  <2>3. s # NoSeat => inventory.occ[s].kind = "free" /\ t \in SeatTickets
    BY <1>11, <2>1 DEF IssueCourtesy, CourtesyTicket, SeatTickets
  <2> HIDE DEF t
  <2>4. SoldOut(IssueCourtesyTicket(inventory, t))
        /\ (Gives(inventory, IssueCourtesyTicket(inventory, t)) \/ Same(inventory, IssueCourtesyTicket(inventory, t)))
    BY <1>1, <2>2, <2>3, CourtesyGives
  <2>5. inventory' = IssueCourtesyTicket(inventory, t)
    BY <1>11 DEF IssueCourtesy, t
  <2> QED BY <2>4, <2>5 DEF SalesStep, SoldOut
<1>12. ASSUME SweepInventory PROVE Goal
  <2>1. SoldOut(ExpireDue(inventory)) /\ Ends(inventory, ExpireDue(inventory))
    BY <1>1, ExpireEnds
  <2> QED BY <1>12, <2>1 DEF SweepInventory, SalesStep, SoldOut
<1>13. ASSUME SweepSessions PROVE Goal
  <2>1. HoldsOf(DueSessions) \in SUBSET Holds
    BY <1>1, HoldsOfType DEF DueSessions
  <2> QED BY <1>4, <1>13, <2>1 DEF SweepSessions
<1>14. ASSUME Tick PROVE Goal
  <2>1. SoldOut(Age(inventory)) /\ Ends(inventory, Age(inventory))
    BY <1>1, AgeEnds
  <2> QED BY <1>14, <2>1 DEF Tick, SalesStep, SoldOut
<1>15. ASSUME NEW s \in Sessions, NEW sel \in Selections, NEW h, PatchSession(s, sel, h) PROVE Goal
  BY <1>5, <1>15 DEF PatchSession
<1>16. ASSUME NEW o \in Orders, NEW s \in Sessions, PayBegin(o, s) PROVE Goal
  BY <1>2, <1>16 DEF PayBegin
<1>17. ASSUME NEW o \in Orders, CreateCharge(o) \/ PayAbort(o) \/ PayCharge(o) PROVE Goal
  BY <1>2, <1>17 DEF CreateCharge, PayAbort, PayCharge
<1>18. ASSUME NEW o \in Orders, NEW e \in Events,
              NoticeSeen(o, e) \/ ConfirmRead(o, e) \/ NoticeFails(o, e) \/ NoticeResent(o, e)
       PROVE  Goal
  BY <1>2, <1>18 DEF NoticeSeen, ConfirmRead, NoticeFails, NoticeResent
<1>19. ASSUME UNCHANGED vars PROVE Goal
  BY <1>2, <1>19 DEF vars
<1> HIDE DEF Goal
<1>20. Goal
  BY <1>6, <1>7, <1>8, <1>9, <1>10, <1>11, <1>12, <1>13, <1>14, <1>15, <1>16, <1>17, <1>18, <1>19 DEF Next
<1> QED BY <1>20 DEF Goal

\* What SeatSales sees of the tables.
Owners == [s \in Seats |-> OwnerOf(s)]
States == [h \in Holds |-> StateOf(h)]

\* Both are tables, before and after.
LEMMA Shown ==
    /\ Owners' = [s \in Seats |-> Owners'[s]]
    /\ States' = [h \in Holds |-> States'[h]]
BY DEF Owners, States

LEMMA Seen ==
    ASSUME TypeOK
    PROVE  /\ \A s \in Seats : Owners[s] = Whose(inventory, s)
           /\ \A h \in Holds : States[h] = Stage(inventory, h)
<1>1. ASSUME NEW s \in Seats PROVE Owners[s] = Whose(inventory, s)
  <2>1. inventory.occ[s].kind \in {"free", "hold", "ticket"}
    BY DEF TypeOK, Tables, Occupancy
  <2>2. OwnerOf(s) = Whose(inventory, s)
    BY <2>1 DEF OwnerOf, Whose
  <2> QED BY <2>2 DEF Owners
<1>2. ASSUME NEW h \in Holds PROVE States[h] = Stage(inventory, h)
  <2>1. StateOf(h) = Stage(inventory, h)
    BY DEF StateOf, Stage, CanConfirm
  <2> QED BY <2>1 DEF States
<1> QED BY <1>1, <1>2

LEMMA SeenNext ==
    ASSUME TypeOK'
    PROVE  /\ \A s \in Seats : Owners'[s] = Whose(inventory', s)
           /\ \A h \in Holds : States'[h] = Stage(inventory', h)
<1>1. ASSUME NEW s \in Seats PROVE Owners'[s] = Whose(inventory', s)
  <2>1. inventory'.occ[s].kind \in {"free", "hold", "ticket"}
    BY DEF TypeOK, Tables, Occupancy
  <2>2. OwnerOf(s)' = Whose(inventory', s)
    BY <2>1 DEF OwnerOf, Whose
  <2> QED BY <2>2 DEF Owners
<1>2. ASSUME NEW h \in Holds PROVE States'[h] = Stage(inventory', h)
  <2>1. StateOf(h)' = Stage(inventory', h)
    BY DEF StateOf, Stage, CanConfirm
  <2> QED BY <2>1 DEF States
<1> QED BY <1>1, <1>2

\* Each of the steps is the step of SeatSales of that name.
LEMMA EndsImplements ==
    ASSUME TypeOK, TypeOK', Ends(inventory, inventory')
    PROVE  Sales!Next
<1>1. PICK H \in SUBSET Holds, F \in SUBSET Seats : EndsOf(inventory, inventory', H, F)
  BY DEF Ends
<1>2. H \in SUBSET Sales!InForce
  BY <1>1, Seen DEF EndsOf, Sales!InForce, States
<1>3. F \in SUBSET {s \in Seats : Owners[s] \in Holds}
  BY <1>1, Seen DEF EndsOf
<1>4. States' = [h \in Holds |-> IF h \in H THEN "over" ELSE States[h]]
  <2>1. \A h \in Holds : States'[h] = IF h \in H THEN "over" ELSE States[h]
    <3>1. \A h \in Holds : Stage(inventory', h) = IF h \in H THEN "over" ELSE Stage(inventory, h)
      BY <1>1 DEF EndsOf
    <3>2. ASSUME NEW h \in Holds PROVE States'[h] = IF h \in H THEN "over" ELSE States[h]
      <4>1. States'[h] = Stage(inventory', h) /\ States[h] = Stage(inventory, h)
        BY Seen, SeenNext
      <4> QED BY <3>1, <4>1
    <3> QED BY <3>2
  <2> QED BY <2>1, Shown
<1>5. Owners' = [s \in Seats |-> IF s \in F THEN NoHold ELSE Owners[s]]
  <2>1. \A s \in Seats : Owners'[s] = IF s \in F THEN NoHold ELSE Owners[s]
    <3>1. \A s \in Seats : Whose(inventory', s) = IF s \in F THEN NoHold ELSE Whose(inventory, s)
      BY <1>1 DEF EndsOf
    <3>2. ASSUME NEW s \in Seats PROVE Owners'[s] = IF s \in F THEN NoHold ELSE Owners[s]
      <4>1. Owners'[s] = Whose(inventory', s) /\ Owners[s] = Whose(inventory, s)
        BY Seen, SeenNext
      <4> QED BY <3>1, <4>1
    <3> QED BY <3>2
  <2> QED BY <2>1, Shown
<1>6. \A s \in F : Owners[s] \in Holds /\ States'[Owners[s]] = "over"
  BY <1>1, Seen, SeenNext DEF EndsOf
<1>7. Sales!End(H, F)
  BY <1>2, <1>4, <1>5, <1>6 DEF Sales!End, Sales!Ended, Owners, States
<1> QED BY <1>2, <1>3, <1>7 DEF Sales!Next, Owners

LEMMA TakesImplements ==
    ASSUME TypeOK, TypeOK', Takes(inventory, inventory')
    PROVE  Sales!Next
<1>1. PICK H \in SUBSET Holds, F \in SUBSET Seats, r \in Holds, S \in SUBSET Seats :
         TakesOf(inventory, inventory', H, F, r, S)
  BY DEF Takes
<1>2. H \in SUBSET Sales!InForce /\ States[r] = "unused"
  BY <1>1, Seen DEF TakesOf, Sales!InForce, States
<1>3. F \in SUBSET {s \in Seats : Owners[s] \in Holds}
  BY <1>1, Seen DEF TakesOf
<1>4. States' = [[h \in Holds |-> IF h \in H THEN "over" ELSE States[h]] EXCEPT ![r] = "in force"]
  <2>1. \A h \in Holds : States'[h] = IF h = r THEN "in force" ELSE IF h \in H THEN "over" ELSE States[h]
    <3>1. \A h \in Holds : Stage(inventory', h) = IF h = r THEN "in force" ELSE IF h \in H THEN "over" ELSE Stage(inventory, h)
      BY <1>1 DEF TakesOf
    <3>2. ASSUME NEW h \in Holds PROVE States'[h] = IF h = r THEN "in force" ELSE IF h \in H THEN "over" ELSE States[h]
      <4>1. States'[h] = Stage(inventory', h) /\ States[h] = Stage(inventory, h)
        BY Seen, SeenNext
      <4> QED BY <3>1, <4>1
    <3> QED BY <3>2
  <2> QED BY <2>1, Shown
<1>5. Owners' = [s \in Seats |-> IF s \in S THEN r ELSE IF s \in F THEN NoHold ELSE Owners[s]]
  <2>1. \A s \in Seats : Owners'[s] = IF s \in S THEN r ELSE IF s \in F THEN NoHold ELSE Owners[s]
    <3>1. \A s \in Seats : Whose(inventory', s) = IF s \in S THEN r ELSE IF s \in F THEN NoHold ELSE Whose(inventory, s)
      BY <1>1 DEF TakesOf
    <3>2. ASSUME NEW s \in Seats PROVE Owners'[s] = IF s \in S THEN r ELSE IF s \in F THEN NoHold ELSE Owners[s]
      <4>1. Owners'[s] = Whose(inventory', s) /\ Owners[s] = Whose(inventory, s)
        BY Seen, SeenNext
      <4> QED BY <3>1, <4>1
    <3> QED BY <3>2
  <2> QED BY <2>1, Shown
<1>6. /\ \A s \in F : Owners[s] \in Holds /\ States'[Owners[s]] = "over"
      /\ \A s \in S : Owners[s] = NoHold \/ s \in F
      /\ S # {}
  BY <1>1, Seen, SeenNext DEF TakesOf
<1>7. Sales!Reserve(H, F, r, S)
  BY <1>2, <1>4, <1>5, <1>6 DEF Sales!Reserve, Sales!Ended, Owners, States
<1> QED BY <1>2, <1>3, <1>7 DEF Sales!Next, Owners

LEMMA SellsImplements ==
    ASSUME TypeOK, TypeOK', Sells(inventory, inventory')
    PROVE  Sales!Next
<1>1. PICK r \in Holds : \E ticket : SellsOf(inventory, inventory', r, ticket)
  BY DEF Sells
<1>2. PICK given : SellsOf(inventory, inventory', r, given)
  BY <1>1
<1> DEFINE mine == {s \in Seats : Owners[s] = r}
           ticket == [s \in mine |-> given[s]]
<1>3. \A s \in mine : s \in Seats /\ Whose(inventory, s) = r /\ ticket[s] = given[s] /\ ticket[s] \in SeatTickets
  BY <1>2, Seen DEF SellsOf
<1>4. ticket \in [mine -> SeatTickets]
  BY <1>3
<1>5. mine = Sales!SeatsOf(r)
  BY DEF Sales!SeatsOf, Owners
<1>6. States' = [States EXCEPT ![r] = "sold"]
  <2>1. States = [h \in Holds |-> States[h]]
    BY DEF States
  <2>2. \A h \in Holds : States'[h] = IF h = r THEN "sold" ELSE States[h]
    BY <1>2, Seen, SeenNext DEF SellsOf
  <2> QED BY <2>1, <2>2, Shown
<1>7. Owners' = [s \in Seats |-> IF s \in mine THEN ticket[s] ELSE Owners[s]]
  <2>1. \A s \in Seats : Owners'[s] = IF Whose(inventory, s) = r THEN given[s] ELSE Owners[s]
    BY <1>2, Seen, SeenNext DEF SellsOf
  <2>2. \A s \in Seats : s \in mine <=> Whose(inventory, s) = r
    BY Seen
  <2>3. \A s \in Seats : Owners'[s] = IF s \in mine THEN ticket[s] ELSE Owners[s]
    <3> HIDE DEF mine, ticket
    <3> QED BY <1>3, <2>1, <2>2
  <2> QED BY <2>3, Shown
<1>8. /\ States[r] \in {"in force", "over"}
      /\ \A s \in mine : \A x \in Seats : Owners[x] # ticket[s]
      /\ \A s, x \in mine : ticket[s] = ticket[x] => s = x
  <2>1. States[r] \in {"in force", "over"}
    BY <1>2, Seen DEF SellsOf
  <2>2. \A s \in mine : \A x \in Seats : Owners[x] # given[s]
    <3>1. \A s \in Seats : Whose(inventory, s) = r => \A x \in Seats : Whose(inventory, x) # given[s]
      BY <1>2 DEF SellsOf
    <3> HIDE DEF mine, ticket
    <3> QED BY <1>3, <3>1, Seen
  <2>3. \A s, x \in mine : given[s] = given[x] => s = x
    BY <1>2, <1>3 DEF SellsOf
  <2> HIDE DEF mine, ticket
  <2> QED BY <1>3, <2>1, <2>2, <2>3
<1> HIDE DEF mine, ticket
<1>9. Sales!Sell(r, ticket)
  BY <1>5, <1>6, <1>7, <1>8 DEF Sales!Sell, Owners, States
<1> QED BY <1>4, <1>5, <1>9 DEF Sales!Next

LEMMA GivesImplements ==
    ASSUME TypeOK, TypeOK', Gives(inventory, inventory')
    PROVE  Sales!Next
<1>1. PICK s \in Seats, t \in SeatTickets : GivesOf(inventory, inventory', s, t)
  BY DEF Gives
<1>2. Owners' = [Owners EXCEPT ![s] = t]
  <2>1. Owners = [x \in Seats |-> Owners[x]]
    BY DEF Owners
  <2>2. \A x \in Seats : Owners'[x] = IF x = s THEN t ELSE Owners[x]
    BY <1>1, Seen, SeenNext DEF GivesOf
  <2> QED BY <2>1, <2>2, Shown
<1>3. States' = States
  <2>1. States = [h \in Holds |-> States[h]]
    BY DEF States
  <2>2. \A h \in Holds : States'[h] = States[h]
    BY <1>1, Seen, SeenNext DEF GivesOf
  <2> QED BY <2>1, <2>2, Shown
<1>4. Owners[s] = NoHold /\ \A x \in Seats : Owners[x] # t
  BY <1>1, Seen DEF GivesOf
<1>5. Sales!Give(s, t)
  BY <1>2, <1>3, <1>4 DEF Sales!Give, Owners, States
<1> QED BY <1>5 DEF Sales!Next

LEMMA SameImplements ==
    ASSUME TypeOK, TypeOK', Same(inventory, inventory')
    PROVE  Owners' = Owners /\ States' = States
<1>1. Owners = [x \in Seats |-> Owners[x]] /\ States = [h \in Holds |-> States[h]]
  BY DEF Owners, States
<1>2. \A x \in Seats : Owners'[x] = Owners[x]
  BY Seen, SeenNext DEF Same
<1>3. \A h \in Holds : States'[h] = States[h]
  BY Seen, SeenNext DEF Same
<1> QED BY <1>1, <1>2, <1>3, Shown

\* The checkout implements SeatSales, for any lots, seats, holds, sessions, orders, deadlines and
\* courtesies: a reservation keeps all of its seats while it is in force, a seat has one owner, and
\* a sold seat stays sold.
THEOREM CheckoutImplementsSeatSales == Spec => ImplementsSeatSales
<1>1. Init => SoldOut(inventory) /\ Sales!Init
  <2> SUFFICES ASSUME Init PROVE SoldOut(inventory) /\ Sales!Init
    OBVIOUS
  <2>1. inventory = Empty
    BY DEF Init
  <2>2. \A s \in Seats : inventory.occ[s] = Free
    BY <2>1 DEF Empty
  <2>3. \A h \in Holds : inventory.hold[h].status = "none"
    BY <2>1 DEF Empty
  <2>4. \A s \in Seats : OwnerOf(s) = NoHold
    BY <2>2 DEF OwnerOf, Free
  <2>5. \A h \in Holds : StateOf(h) = "unused"
    BY <2>3 DEF StateOf, CanConfirm
  <2>6. SoldOut(inventory)
    BY <2>2 DEF SoldOut, Free
  <2> QED BY <2>4, <2>5, <2>6 DEF Sales!Init
<1>2. Init => IInv
  BY InitIInv
<1>3. SalesInv /\ [Next]_vars => SalesInv'
  BY NextIInv, StepsSell DEF SalesInv
<1>4. SalesInv /\ [Next]_vars => [Sales!Next]_<<[s \in Seats |-> OwnerOf(s)], [h \in Holds |-> StateOf(h)]>>
  <2> SUFFICES ASSUME SalesInv, [Next]_vars PROVE Sales!Next \/ (Owners' = Owners /\ States' = States)
    BY DEF Owners, States
  <2>1. TypeOK /\ TypeOK'
    BY <1>3 DEF SalesInv, IInv
  <2>2. SalesStep(inventory, inventory')
    BY StepsSell
  <2> QED BY <2>1, <2>2, SameImplements, EndsImplements, TakesImplements, SellsImplements, GivesImplements DEF SalesStep
<1> QED BY <1>1, <1>2, <1>3, <1>4, PTL DEF Spec, SalesInv, ImplementsSeatSales, Sales!Spec, Sales!vars

-----------------------------------------------------------------------------
(***************************************************************************)
(* The anti-hole rule.  Only the statement Hold turns an unused hold into  *)
(* a held one, and it looked at the very seats that are taken after it:    *)
(* what it releases on the way are seats it takes again.                   *)
(***************************************************************************)
NoHole(nv, S) ==
    \A row \in Rows : (\E i \in DOMAIN row : row[i] \in S) =>
        \A i \in 2..(Len(row) - 1) :
            nv.occ[row[i]].kind = "free" =>
                nv.occ[row[i - 1]].kind = "free" \/ nv.occ[row[i + 1]].kind = "free"

\* The holds a statement takes leave no hole.
TakesNoHole(iv, nv) ==
    \A h \in Holds : AntiHole /\ iv.hold[h].status = "none" /\ nv.hold[h].status = "held" => NoHole(nv, nv.hold[h].seats)

\* inventory.go, checkAntiHole, before the seats are taken, tells how the rows are after it.
LEMMA HoldLeavesNoHole ==
    ASSUME NEW iv, Sound(iv), NEW h \in Holds, NEW S \in SUBSET Seats, CanHold(iv, S), AntiHole
    PROVE  NoHole(Hold(iv, h, S), S)
<1> DEFINE nv == Hold(iv, h, S)
           fresh == Freed(iv, Overdue(iv) \cap S)
           taken(s) == fresh.occ[s].kind # "free" \/ s \in S
<1>1. nv.occ = [s \in Seats |-> IF s \in S THEN HeldUntil(h, HoldTTL) ELSE iv.occ[s]]
  BY DEF Hold, Sound, Tables
<1>2. fresh.occ = [s \in Seats |-> IF s \in Overdue(iv) \cap S THEN Free ELSE iv.occ[s]]
  BY DEF Freed, Sound, Tables
<1>3. ~LeavesHole(fresh, S)
  BY DEF CanHold
<1> HIDE DEF nv, fresh
<1>4. ASSUME NEW s \in Seats PROVE taken(s) <=> nv.occ[s].kind # "free"
  BY <1>1, <1>2 DEF HeldUntil
<1>5. ASSUME NEW row \in Rows, NEW j \in DOMAIN row, row[j] \in S, NEW i \in 2..(Len(row) - 1),
             nv.occ[row[i]].kind = "free", nv.occ[row[i - 1]].kind # "free", nv.occ[row[i + 1]].kind # "free"
      PROVE  FALSE
  <2>1. row \in Seq(Seats)
    BY InventoryAssumption
  <2>2. row[i] \in Seats /\ row[i - 1] \in Seats /\ row[i + 1] \in Seats
    BY <2>1
  <2>3. ~taken(row[i]) /\ taken(row[i - 1]) /\ taken(row[i + 1])
    <3> HIDE DEF taken
    <3> QED BY <1>4, <1>5, <2>2
  <2> QED BY <1>3, <1>5, <2>3 DEF LeavesHole
<1> QED BY <1>5 DEF NoHole, nv

LEMMA ReserveLeavesNoHole ==
    ASSUME IInv, NEW H, NEW lt, NEW sel \in Selections, NEW h,
           CanReserve(lt, Release(inventory, H), sel, h), inventory' = Reserved(Release(inventory, H), sel, h)
    PROVE  TakesNoHole(inventory, inventory')
<1> DEFINE mv == Release(inventory, H)
<1>1. Sound(mv)
  BY SoundRelease DEF IInv
<1>2. \A x \in Holds : inventory.hold[x].status = "none" => mv.hold[x].status = "none"
  BY DEF Release, Freed, IInv, TypeOK, Tables
<1> HIDE DEF mv
<1>3. CASE sel.seats = {}
  <2>1. inventory' = mv
    BY <1>3 DEF CanReserve, Reserved, mv
  <2> QED BY <1>2, <2>1 DEF TakesNoHole
<1>4. CASE sel.seats # {}
  <2>1. h \in Holds /\ CanHold(mv, sel.seats) /\ sel.seats \in SUBSET Seats
    BY <1>4, SelectionType DEF CanReserve, mv
  <2>2. inventory' = Hold(mv, h, sel.seats)
    BY <2>1, InventoryAssumption DEF Reserved, mv
  <2>3. inventory'.hold = [mv.hold EXCEPT ![h] = [status |-> "held", seats |-> sel.seats, order |-> NoOrder, left |-> HoldTTL]]
    BY <1>1, <2>2 DEF Hold, Sound, Tables
  <2>4. /\ inventory'.hold[h].seats = sel.seats
        /\ \A x \in Holds : x # h => inventory'.hold[x] = mv.hold[x]
    BY <1>1, <2>1, <2>3 DEF Sound, Tables
  <2>5. AntiHole => NoHole(inventory', sel.seats)
    BY <1>1, <2>1, <2>2, HoldLeavesNoHole
  <2>6. ASSUME NEW x \in Holds, AntiHole, inventory.hold[x].status = "none", inventory'.hold[x].status = "held"
        PROVE  NoHole(inventory', inventory'.hold[x].seats)
    <3>1. x = h
      BY <1>2, <2>4, <2>6
    <3> QED BY <3>1, <2>4, <2>5, <2>6
  <2> QED BY <2>6 DEF TakesNoHole
<1> QED BY <1>3, <1>4

\* The other statements take no hold.
LEMMA NoneTaken ==
    ASSUME NEW iv, iv \in Tables, NEW o, NEW l
    PROVE  /\ \A H : TakesNoHole(iv, Release(iv, H)) /\ TakesNoHole(iv, Extend(iv, H))
           /\ \A h \in Holds : TakesNoHole(iv, LinkToOrder(iv, h, o)) /\ TakesNoHole(iv, Confirm(iv, h, o, l))
           /\ \A qty : TakesNoHole(iv, IssueStanding(iv, o, l, qty))
           /\ \A t : TakesNoHole(iv, IssueCourtesyTicket(iv, t))
           /\ TakesNoHole(iv, ExpireDue(iv)) /\ TakesNoHole(iv, Age(iv))
<1> DEFINE Keeps(nv) == \A x \in Holds : iv.hold[x].status = "none" => nv.hold[x].status # "held"
<1>1. ASSUME NEW H PROVE Keeps(Release(iv, H)) /\ Keeps(Extend(iv, H))
  BY DEF Release, Freed, Extend, Tables
<1>2. ASSUME NEW h \in Holds PROVE Keeps(LinkToOrder(iv, h, o)) /\ Keeps(Confirm(iv, h, o, l))
  <2>1. LinkToOrder(iv, h, o).hold = [iv.hold EXCEPT ![h].order = o]
    BY DEF LinkToOrder, Tables
  <2>2. Confirm(iv, h, o, l).hold = [iv.hold EXCEPT ![h] = [iv.hold[h] EXCEPT !.status = "confirmed", !.order = o]]
    BY DEF Confirm, Tables
  <2> QED BY <2>1, <2>2 DEF Tables, HoldRow
<1>3. \A qty : Keeps(IssueStanding(iv, o, l, qty))
  BY DEF IssueStanding, Tables
<1>4. \A t : Keeps(IssueCourtesyTicket(iv, t))
  BY DEF IssueCourtesyTicket, Tables
<1>5. Keeps(ExpireDue(iv)) /\ Keeps(Age(iv))
  <2>1. Age(iv).hold = [x \in Holds |-> [iv.hold[x] EXCEPT !.left = Less(@, 0)]]
    BY DEF Age, Tables
  <2>2. ExpireDue(iv).hold = [x \in Holds |-> IF iv.hold[x].status = "held" /\ iv.hold[x].left = 0
                                              THEN [iv.hold[x] EXCEPT !.status = "expired"] ELSE iv.hold[x]]
    BY DEF ExpireDue, Freed, Tables
  <2> QED BY <2>1, <2>2 DEF Tables, HoldRow
<1> QED BY <1>1, <1>2, <1>3, <1>4, <1>5 DEF TakesNoHole

LEMMA StepsLeaveNoHole == ASSUME IInv, [Next]_vars PROVE TakesNoHole(inventory, inventory')
<1> DEFINE Goal == TakesNoHole(inventory, inventory')
<1>1. inventory \in Tables
  BY DEF IInv, TypeOK
<1>2. ASSUME UNCHANGED inventory PROVE Goal
  BY <1>2 DEF TakesNoHole
<1>3. ASSUME NEW H, NEW lt, NEW sel \in Selections, NEW h,
             CanReserve(lt, Release(inventory, H), sel, h), inventory' = Reserved(Release(inventory, H), sel, h)
      PROVE  Goal
  BY <1>3, ReserveLeavesNoHole
<1>4. ASSUME NEW H, inventory' = Release(inventory, H) PROVE Goal
  BY <1>1, <1>4, NoneTaken
<1>5. ASSUME NEW s \in Sessions, NEW sel \in Selections, NEW h, NEW others \in SUBSET Sessions,
             UpdateSession(s, sel, h, others)
      PROVE  Goal
  <2>1. PICK lt : /\ CanReserve(lt, Release(inventory, HoldsOf(others \cup {s})), sel, h)
                  /\ inventory' = Reserved(Release(inventory, HoldsOf(others \cup {s})), sel, h)
    BY <1>5 DEF UpdateSession
  <2> QED BY <2>1, <1>3
<1>6. ASSUME NEW s \in Sessions, NEW sel \in Selections, NEW h, NEW others \in SUBSET Sessions, NEW b \in Browsers,
             CreateSession(s, b, sel, h, others)
      PROVE  Goal
  <2>1. PICK lt : /\ CanReserve(lt, Release(inventory, HoldsOf(others)), sel, h)
                  /\ inventory' = Reserved(Release(inventory, HoldsOf(others)), sel, h)
    BY <1>6 DEF CreateSession
  <2> QED BY <2>1, <1>3
<1>7. ASSUME NEW s \in Sessions, NEW sel \in Selections, NEW h, NEW others \in SUBSET Sessions,
             ResumeSession(s, sel, h, others)
      PROVE  Goal
  <2>1. CASE sel # session[s].sel
    BY <1>5, <1>7, <2>1 DEF ResumeSession
  <2>2. CASE sel = session[s].sel
    BY <1>4, <1>7, <2>2 DEF ResumeSession
  <2> QED BY <2>1, <2>2
<1>8. ASSUME NEW s \in Sessions, AuthStarted(s) \/ BindSession(s) PROVE Goal
  BY <1>1, <1>2, <1>8, NoneTaken DEF AuthStarted, BindSession
<1>9. ASSUME NEW o \in Orders, PayCommit(o) PROVE Goal
  <2>1. inventory' = inventory \/ (order[o].hold \in Holds /\ inventory' = LinkToOrder(inventory, order[o].hold, o))
    BY <1>9, RowTypes DEF PayCommit, OrderRow
  <2> QED BY <1>1, <1>2, <2>1, NoneTaken
<1>10. ASSUME NEW o \in Orders, NEW e \in Events, ConfirmPayment(o, e) PROVE Goal
  BY <1>1, <1>10, NoneTaken DEF ConfirmPayment, HoldsOfOrder
<1>11. ASSUME NEW l \in Lots, NEW s \in Seats \cup {NoSeat}, IssueCourtesy(l, s) PROVE Goal
  BY <1>1, <1>11, NoneTaken DEF IssueCourtesy
<1>12. ASSUME SweepInventory PROVE Goal
  BY <1>1, <1>12, NoneTaken DEF SweepInventory
<1>13. ASSUME SweepSessions PROVE Goal
  BY <1>4, <1>13 DEF SweepSessions
<1>14. ASSUME Tick PROVE Goal
  BY <1>1, <1>14, NoneTaken DEF Tick
<1>15. ASSUME NEW s \in Sessions, NEW sel \in Selections, NEW h, PatchSession(s, sel, h) PROVE Goal
  BY <1>5, <1>15 DEF PatchSession
<1>16. ASSUME NEW o \in Orders, NEW s \in Sessions, PayBegin(o, s) PROVE Goal
  BY <1>2, <1>16 DEF PayBegin
<1>17. ASSUME NEW o \in Orders, CreateCharge(o) \/ PayAbort(o) \/ PayCharge(o) PROVE Goal
  BY <1>2, <1>17 DEF CreateCharge, PayAbort, PayCharge
<1>18. ASSUME NEW o \in Orders, NEW e \in Events,
              NoticeSeen(o, e) \/ ConfirmRead(o, e) \/ NoticeFails(o, e) \/ NoticeResent(o, e)
       PROVE  Goal
  BY <1>2, <1>18 DEF NoticeSeen, ConfirmRead, NoticeFails, NoticeResent
<1>19. ASSUME UNCHANGED vars PROVE Goal
  BY <1>2, <1>19 DEF vars
<1> HIDE DEF Goal
<1>20. Goal
  BY <1>6, <1>7, <1>8, <1>9, <1>10, <1>11, <1>12, <1>13, <1>14, <1>15, <1>16, <1>17, <1>18, <1>19 DEF Next
<1> QED BY <1>20 DEF Goal

\* With the anti-hole rule on, no reservation leaves a free seat between two taken ones in a row
\* it touches, whatever it releases on the way: overdue seats, or those of the same browser.
THEOREM NoReservationLeavesAHole == Spec => NoIsolatedSeat
<1>1. IInv /\ [Next]_vars =>
        (\A h \in Holds :
          AntiHole /\ inventory.hold[h].status = "none" /\ inventory'.hold[h].status = "held" =>
            \A row \in Rows : (\E i \in DOMAIN row : row[i] \in inventory'.hold[h].seats) =>
              \A i \in 2..(Len(row) - 1) :
                 inventory'.occ[row[i]].kind = "free" =>
                    \/ inventory'.occ[row[i - 1]].kind = "free"
                    \/ inventory'.occ[row[i + 1]].kind = "free")
  BY StepsLeaveNoHole DEF TakesNoHole, NoHole
<1> QED BY <1>1, Invariance, PTL DEF Spec, NoIsolatedSeat
=============================================================================
