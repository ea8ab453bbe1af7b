------------------------------ MODULE Inventory ------------------------------
(***************************************************************************)
(* The reservation engine (internal/inventory): holds, the live occupancy  *)
(* of each seat and the tickets.  The three tables are the fields of one   *)
(* record, and every operator maps the tables before a statement to the    *)
(* tables after it, so that a transaction of the checkout chains them.     *)
(*                                                                         *)
(* occ[s] is the row of seat_occupancy with seat s that is not released:   *)
(* the partial unique index seat_occupancy_live_key allows at most one.    *)
(*                                                                         *)
(* Time is the number of ticks left until a deadline.  A hold has two      *)
(* deadlines: its own (holds.expires_at) and that of the occupancy of its  *)
(* seats (seat_occupancy.expires_at).  The second is compared, and also    *)
(* extended, so it is kept below zero as far as an extension reaches.      *)
(***************************************************************************)
EXTENDS Lots, Sequences

CONSTANTS Seats, Holds, Orders,
          Rows,        \* the seats of each row of the map, in order
          Blocked,     \* seats with a blocked_reason
          AntiHole,    \* events.anti_hole
          HoldTTL,     \* inventory.DefaultTTL
          AuthGrace,   \* checkout.Limits.AuthGrace
          MaxIssued,   \* bound: tickets a buyer may ask for
          NoHold, NoOrder, NoSeat, NoTicket

ASSUME InventoryAssumption ==
    /\ HoldTTL \in Nat \ {0}
    /\ AuthGrace \in Nat
    /\ MaxIssued \in Nat
    /\ IsFiniteSet(Seats)
    /\ Rows \subseteq Seq(Seats)
    /\ Blocked \subseteq Seats
    /\ AntiHole \in BOOLEAN
    /\ NoHold \notin Holds
    /\ NoOrder \notin Orders
    /\ NoSeat \notin Seats

\* `no' tells apart the tickets an order, or the producer, has without a seat.
Ticket == [order : Orders \cup {NoOrder}, lot : Lots, seat : Seats \cup {NoSeat}, no : Nat]

ASSUME NoTicketAssumption == NoTicket \notin Ticket

\* A ticket is not mistaken for a hold.
ASSUME OwnersAssumption == \A h \in Holds \cup {NoHold} : h \notin Ticket

Occupancy == [kind : {"free", "hold", "ticket"}, hold : Holds \cup {NoHold},
              ticket : Ticket \cup {NoTicket}, left : Int]

HoldRow == [status : {"none", "held", "confirmed", "expired", "released"},
            seats : SUBSET Seats, order : Orders \cup {NoOrder}, left : Nat]

Tables == [occ : [Seats -> Occupancy], hold : [Holds -> HoldRow], tickets : SUBSET Ticket]

Free == [kind |-> "free", hold |-> NoHold, ticket |-> NoTicket, left |-> 0]

HeldUntil(h, left) == [kind |-> "hold", hold |-> h, ticket |-> NoTicket, left |-> left]

Ticketed(h, t) == [kind |-> "ticket", hold |-> h, ticket |-> t, left |-> 0]

Empty == [occ |-> [s \in Seats |-> Free],
          hold |-> [h \in Holds |-> [status |-> "none", seats |-> {},
                                     order |-> NoOrder, left |-> 0]],
          tickets |-> {}]

HeldBy(iv, H) == {s \in Seats : iv.occ[s].kind = "hold" /\ iv.occ[s].hold \in H}

\* Mutants: a tick too early, and any occupancy rather than a hold's.
OverdueEarlyMutant(iv) == {s \in Seats : iv.occ[s].kind = "hold" /\ iv.occ[s].left <= 1}
OverdueAnyMutant(iv) == {s \in Seats : iv.occ[s].kind # "free" /\ iv.occ[s].left <= 0}

Overdue(iv) == {s \in Seats : iv.occ[s].kind = "hold" /\ iv.occ[s].left <= 0}

Freed(iv, S) == [iv EXCEPT !.occ = [s \in Seats |-> IF s \in S THEN Free ELSE iv.occ[s]]]

\* Mutant: the last inner seat of a row is not looked at.
LeavesHoleMutant(iv, S) ==
    LET taken(s) == iv.occ[s].kind # "free" \/ s \in S
    IN  \E row \in Rows :
            /\ \E i \in DOMAIN row : row[i] \in S
            /\ \E i \in 2..(Len(row) - 2) :
                  ~taken(row[i]) /\ taken(row[i - 1]) /\ taken(row[i + 1])

(***************************************************************************)
(* checkAntiHole: in a row the reservation touches, no free seat may be    *)
(* left between two taken ones.                                            *)
(***************************************************************************)
LeavesHole(iv, S) ==
    LET taken(s) == iv.occ[s].kind # "free" \/ s \in S
    IN  \E row \in Rows :
            /\ \E i \in DOMAIN row : row[i] \in S
            /\ \E i \in 2..(Len(row) - 1) :
                  ~taken(row[i]) /\ taken(row[i - 1]) /\ taken(row[i + 1])

\* Mutant: a live-seat index over held occupancies only, not over sold ones.
CanHoldMutant(iv, S) ==
    /\ S # {}
    /\ S \cap Blocked = {}
    /\ \A s \in S : Freed(iv, Overdue(iv) \cap S).occ[s].kind # "hold"

(***************************************************************************)
(* Hold takes all of S or nothing.  Overdue holds of these seats are       *)
(* released first, and do not stand in the way of the new buyer.           *)
(***************************************************************************)
CanHold(iv, S) ==
    LET fresh == Freed(iv, Overdue(iv) \cap S)
    IN  /\ S # {}
        /\ S \cap Blocked = {}
        /\ AntiHole => ~LeavesHole(fresh, S)
        /\ \A s \in S : fresh.occ[s].kind = "free"

\* Mutant: the seats end before the hold does.
HoldMutant(iv, h, S) ==
    [iv EXCEPT !.occ = [s \in Seats |-> IF s \in S THEN HeldUntil(h, HoldTTL - 1) ELSE iv.occ[s]],
               !.hold[h] = [status |-> "held", seats |-> S, order |-> NoOrder, left |-> HoldTTL]]

Hold(iv, h, S) ==
    [iv EXCEPT !.occ = [s \in Seats |-> IF s \in S THEN HeldUntil(h, HoldTTL) ELSE iv.occ[s]],
               !.hold[h] = [status |-> "held", seats |-> S, order |-> NoOrder, left |-> HoldTTL]]

Release(iv, H) ==
    [Freed(iv, HeldBy(iv, H)) EXCEPT
        !.hold = [h \in Holds |->
                    IF h \in H /\ iv.hold[h].status = "held"
                    THEN [iv.hold[h] EXCEPT !.status = "released"] ELSE iv.hold[h]]]

(***************************************************************************)
(* Confirm turns the occupancy of a live hold into tickets, one per seat.  *)
(***************************************************************************)
CanConfirm(iv, h) == iv.hold[h].status = "held" /\ iv.hold[h].left > 0

SeatTicket(o, l, s) == [order |-> o, lot |-> l, seat |-> s, no |-> 1]

Confirm(iv, h, o, l) ==
    LET S == HeldBy(iv, {h})
    IN  [iv EXCEPT
            !.occ = [s \in Seats |-> IF s \in S THEN Ticketed(h, SeatTicket(o, l, s)) ELSE iv.occ[s]],
            !.hold[h] = [@ EXCEPT !.status = "confirmed", !.order = o],
            !.tickets = @ \cup {SeatTicket(o, l, s) : s \in S}]

Issued(iv, o) == Cardinality({t \in iv.tickets : t.order = o})

StandingTicket(o, l, n) == [order |-> o, lot |-> l, seat |-> NoSeat, no |-> n]

\* ConfirmPayment without a hold: qty more tickets, none of them with a seat.
IssueStanding(iv, o, l, qty) ==
    [iv EXCEPT !.tickets = @ \cup {StandingTicket(o, l, Issued(iv, o) + n) : n \in 1..qty}]

\* IssueCourtesy: one more ticket without order; it takes its seat, when it has one.
CourtesyTicket(iv, l, s) ==
    [order |-> NoOrder, lot |-> l, seat |-> s, no |-> Issued(iv, NoOrder) + 1]

IssueCourtesyTicket(iv, t) ==
    [iv EXCEPT !.tickets = @ \cup {t},
               !.occ = [s \in Seats |-> IF s = t.seat THEN Ticketed(NoHold, t) ELSE iv.occ[s]]]

\* Mutant: the holds expire and their seats stay taken.
ExpireDueMutant(iv) ==
    [iv EXCEPT !.hold = [h \in Holds |->
        IF iv.hold[h].status = "held" /\ iv.hold[h].left = 0
        THEN [iv.hold[h] EXCEPT !.status = "expired"] ELSE iv.hold[h]]]

(***************************************************************************)
(* ExpireDue: occupancies by their own deadline, then holds by theirs.     *)
(***************************************************************************)
ExpireDue(iv) ==
    [Freed(iv, Overdue(iv)) EXCEPT
        !.hold = [h \in Holds |->
                    IF iv.hold[h].status = "held" /\ iv.hold[h].left = 0
                    THEN [iv.hold[h] EXCEPT !.status = "expired"] ELSE iv.hold[h]]]

\* The grace of the session: only the occupancy moves, holds.expires_at stays.
Extend(iv, H) ==
    [iv EXCEPT !.occ = [s \in Seats |-> IF s \in HeldBy(iv, H)
                                        THEN [iv.occ[s] EXCEPT !.left = @ + AuthGrace]
                                        ELSE iv.occ[s]]]

LinkToOrder(iv, h, o) == [iv EXCEPT !.hold[h].order = o]

Less(n, floor) == IF n > floor THEN n - 1 ELSE floor

\* A tick of the clock.
Age(iv) ==
    [iv EXCEPT
        !.occ = [s \in Seats |-> IF iv.occ[s].kind = "hold"
                                 THEN [iv.occ[s] EXCEPT !.left = Less(@, -AuthGrace)]
                                 ELSE iv.occ[s]],
        !.hold = [h \in Holds |-> [iv.hold[h] EXCEPT !.left = Less(@, 0)]]]

=============================================================================
