------------------------------ MODULE Checkout ------------------------------
(***************************************************************************)
(* The sale of a ticket: checkout sessions that reserve capacity and       *)
(* seats, orders and charges, the confirmation by the gateway's webhook,   *)
(* and the two sweepers that give abandoned reservations back.             *)
(*                                                                         *)
(* A transaction is one action, except where it reads a row without a lock *)
(* and acts on it later: POST /pay reads the session, calls the gateway    *)
(* and then writes; the webhook records the notice, reads the order and    *)
(* then writes.  Those are the steps other transactions interleave with.   *)
(***************************************************************************)
EXTENDS Inventory, Functions

CONSTANTS Sessions,     \* rows of checkout_sessions
          Browsers,     \* values of anon_token
          Selections,   \* what a buyer may ask for: [lot, qty, seats]
          EventOf,      \* the event of each lot
          AddressOf,    \* the client IP of each browser
          Events,       \* the events a paid charge is notified with
          AnonTTL, AuthedTTL, AbandonTTL,
          MaxOpen, MaxHeldSeats,      \* limits per IP
          MaxCourtesies,              \* bound: courtesies the producer issues
          NoSession, NoBrowser, NoSelection

Selection == [lot : Lots, qty : 1..MaxIssued, seats : SUBSET Seats]

\* reserve refuses a seated request whose quantity is not the number of seats.
ASSUME CheckoutAssumption ==
    /\ Selections \subseteq Selection
    /\ \A sel \in Selections : sel.seats # {} => sel.qty = Cardinality(sel.seats)
    /\ AnonTTL \in Nat \ {0} /\ AuthedTTL \in Nat \ {0} /\ AbandonTTL \in Nat \ {0}
    /\ MaxOpen \in Nat /\ MaxHeldSeats \in Nat /\ MaxCourtesies \in 0..MaxIssued
    /\ NoSession \notin Sessions /\ NoBrowser \notin Browsers
    /\ NoSelection \notin Selections
    /\ IsFiniteSet(Sessions) /\ IsFiniteSet(Orders)

VARIABLES
    lot,         \* the counters of each lot
    inventory,   \* holds, seat occupancy and tickets
    session,     \* checkout_sessions
    order,       \* orders with their items and payment
    charge,      \* the charge at the gateway
    notice       \* the gateway's webhook events for that charge

vars == <<lot, inventory, session, order, charge, notice>>

Live == {"open", "authenticated"}

SessionRow == [status : Live \cup {"none", "paid", "expired", "abandoned"},
               browser : Browsers \cup {NoBrowser}, sel : Selections \cup {NoSelection},
               hold : Holds \cup {NoHold}, grace : BOOLEAN, left : Nat]

(***************************************************************************)
(* "reading" and "charged" are an order whose transaction has not ended:   *)
(* no other transaction sees it.  "aborted" is one that rolled back.       *)
(***************************************************************************)
Committed == {"pending", "paid", "cancelled"}

OrderRow == [status : Committed \cup {"none", "reading", "charged", "aborted"},
             session : Sessions \cup {NoSession}, sel : Selections \cup {NoSelection},
             hold : Holds \cup {NoHold}, left : Nat, payment : {"none", "pending", "confirmed"}]

(***************************************************************************)
(* Where a notice of a paid charge is: "seen" has its row in               *)
(* webhook_events, "confirming" and "refusing" have read the order pending *)
(* in a transaction that began before, or after, the end of its hold, and  *)
(* "failed" was answered with an error.                                    *)
(***************************************************************************)
Processing == {"confirming", "refusing"}

NoticeState == Processing \cup {"none", "seen", "failed", "acked"}

TypeOK == /\ lot \in [Lots -> Counters]
          /\ inventory \in Tables
          /\ session \in [Sessions -> SessionRow]
          /\ order \in [Orders -> OrderRow]
          /\ charge \in [Orders -> {"none", "open", "paid"}]
          /\ notice \in [Orders -> [Events -> NoticeState]]

Init ==
    /\ lot = [l \in Lots |-> [sold |-> 0, held |-> 0]]
    /\ inventory = Empty
    /\ session = [s \in Sessions |-> [status |-> "none", browser |-> NoBrowser, sel |-> NoSelection,
                                      hold |-> NoHold, grace |-> FALSE, left |-> 0]]
    /\ order = [o \in Orders |-> [status |-> "none", session |-> NoSession, sel |-> NoSelection,
                                  hold |-> NoHold, left |-> 0, payment |-> "none"]]
    /\ charge = [o \in Orders |-> "none"]
    /\ notice = [o \in Orders |-> [e \in Events |-> "none"]]

-----------------------------------------------------------------------------
(* Reserving and giving back                                               *)

EventOfSession(s) == EventOf[session[s].sel.lot]

HoldsOf(S) == {session[s].hold : s \in S} \ {NoHold}

\* The quantity that sessions, or orders, ask for together.
Units(S) == SumFunction([s \in S |-> session[s].sel.qty])
UnitsOrdered(O) == SumFunction([o \in O |-> order[o].sel.qty])

\* Mutant: only sessions still open give their quantity back.
OwedMutant(S) ==
    [l \in Lots |-> Units({s \in S : session[s].status = "open" /\ session[s].sel.lot = l})]

(***************************************************************************)
(* What closing the sessions S gives back to each lot.  A session with a   *)
(* hold gives back its hold and nothing to the lot.                        *)
(***************************************************************************)
Owed(S) ==
    [l \in Lots |-> Units({s \in S : session[s].hold = NoHold /\ session[s].sel.lot = l})]

Close(S, status(_)) ==
    [s \in Sessions |-> IF s \in S THEN [session[s] EXCEPT !.status = status(s)] ELSE session[s]]

Expired(s) == "expired"

(***************************************************************************)
(* The browser's live sessions on events other than e, which               *)
(* expireOwnedSessions expires.  It skips the rows that another            *)
(* transaction has locked (SKIP LOCKED), so that any of them may be left.  *)
(***************************************************************************)
OwnedElsewhere(b, e) ==
    {s \in Sessions : /\ session[s].status \in Live
                      /\ session[s].browser = b
                      /\ EventOfSession(s) # e}

(***************************************************************************)
(* reserve: the lot first, then the seats, from the tables lt and iv.  The *)
(* hold it takes is h, or NoHold for a selection without seats.            *)
(***************************************************************************)
CanReserve(lt, iv, sel, h) ==
    /\ Fits(lt, sel.lot, sel.qty)
    /\ IF sel.seats = {} THEN h = NoHold
       ELSE /\ h \in Holds
            /\ iv.hold[h].status = "none"
            /\ CanHold(iv, sel.seats)

Reserved(iv, sel, h) == IF h = NoHold THEN iv ELSE Hold(iv, h, sel.seats)

-----------------------------------------------------------------------------
(* Sessions                                                                *)

OpenFrom(ip, S) ==
    {s \in S : session[s].status \in Live /\ AddressOf[session[s].browser] = ip}

(***************************************************************************)
(* POST /checkout/sessions without a live session of this browser on the   *)
(* event: its sessions on other events are expired, the limits of the IP   *)
(* are checked and the selection is reserved.                              *)
(***************************************************************************)
CreateSession(s, b, sel, h, others) ==
    LET rest == OpenFrom(AddressOf[b], Sessions \ others)
        lt   == ReleaseFromLots(lot, Owed(others))
        iv   == Release(inventory, HoldsOf(others))
    IN  /\ others \subseteq OwnedElsewhere(b, EventOf[sel.lot])
        /\ session[s].status = "none"
        /\ ~\E x \in Sessions : /\ session[x].status \in Live /\ session[x].left > 0
                                /\ session[x].browser = b
                                /\ EventOfSession(x) = EventOf[sel.lot]
        /\ Cardinality(rest) < MaxOpen
        /\ sel.seats # {} => Cardinality(HeldBy(iv, HoldsOf(rest))) + sel.qty <= MaxHeldSeats
        /\ CanReserve(lt, iv, sel, h)
        /\ lot' = ReserveFromLot(lt, sel.lot, sel.qty)
        /\ inventory' = Reserved(iv, sel, h)
        /\ session' = [Close(others, Expired) EXCEPT
                          ![s] = [status |-> "open", browser |-> b, sel |-> sel,
                                  hold |-> h, grace |-> FALSE, left |-> AnonTTL]]
        /\ UNCHANGED <<order, charge, notice>>

\* Mutant: the row keeps the hold it had.
ChangedMutant(s, sel, h) ==
    [session[s] EXCEPT !.sel = sel,
                       !.left = IF session[s].status = "authenticated" THEN AuthedTTL ELSE AnonTTL]

Changed(s, sel, h) ==
    [session[s] EXCEPT !.sel = sel,
                       !.hold = h,
                       !.left = IF session[s].status = "authenticated" THEN AuthedTTL ELSE AnonTTL]

(***************************************************************************)
(* UpdateSession on top of closing `others': what the session reserved is  *)
(* given back and the new selection is reserved, in the same transaction.  *)
(***************************************************************************)
UpdateSession(s, sel, h, others) ==
    LET gone == others \cup {s}
        lt   == ReleaseFromLots(lot, Owed(gone))
        iv   == Release(inventory, HoldsOf(gone))
    IN  /\ CanReserve(lt, iv, sel, h)
        /\ lot' = ReserveFromLot(lt, sel.lot, sel.qty)
        /\ inventory' = Reserved(iv, sel, h)
        /\ session' = [Close(others, Expired) EXCEPT ![s] = Changed(s, sel, h)]
        /\ UNCHANGED <<order, charge, notice>>

\* PATCH /checkout/sessions/{id}: the handler has read the session open, and by
\* the time it is locked a buyer may be bound; its deadline is not looked at.
PatchSession(s, sel, h) ==
    /\ session[s].status \in Live
    /\ EventOf[sel.lot] = EventOfSession(s)
    /\ UpdateSession(s, sel, h, {})

\* POST /checkout/sessions by a browser with a live session on the event.
ResumeSession(s, sel, h, others) ==
    /\ session[s].status \in Live
    /\ session[s].left > 0
    /\ EventOf[sel.lot] = EventOfSession(s)
    /\ others \subseteq OwnedElsewhere(session[s].browser, EventOfSession(s))
    /\ IF sel # session[s].sel
       THEN UpdateSession(s, sel, h, others)
       ELSE /\ h = NoHold
            /\ lot' = ReleaseFromLots(lot, Owed(others))
            /\ inventory' = Release(inventory, HoldsOf(others))
            /\ session' = Close(others, Expired)
            /\ UNCHANGED <<order, charge, notice>>

\* The access code was asked for: one grace for the seats and for the session.
AuthStarted(s) ==
    /\ session[s].status = "open"
    /\ ~session[s].grace
    /\ session' = [session EXCEPT ![s].grace = TRUE, ![s].left = AuthGrace]
    /\ inventory' = Extend(inventory, {session[s].hold})
    /\ UNCHANGED <<lot, order, charge, notice>>

\* The buyer logged in: the session is theirs, with the grace if still unused.
BindSession(s) ==
    /\ session[s].status \in Live
    /\ session' = [session EXCEPT
                      ![s].status = "authenticated",
                      ![s].grace = TRUE,
                      ![s].left = IF session[s].grace THEN AuthedTTL ELSE AuthedTTL + AuthGrace]
    /\ inventory' = IF session[s].grace THEN inventory
                    ELSE Extend(inventory, {session[s].hold})
    /\ UNCHANGED <<lot, order, charge, notice>>

-----------------------------------------------------------------------------
(* Paying                                                                  *)

(***************************************************************************)
(* POST /checkout/sessions/{id}/pay.  The session is read without a lock,  *)
(* and neither its deadline nor that of its hold is looked at.             *)
(***************************************************************************)
PayBegin(o, s) ==
    /\ order[o].status = "none"
    /\ session[s].status = "authenticated"
    /\ order' = [order EXCEPT ![o].status = "reading", ![o].session = s,
                              ![o].sel = session[s].sel, ![o].hold = session[s].hold]
    /\ UNCHANGED <<lot, inventory, session, charge, notice>>

\* finalizeOrder calls the gateway inside the transaction; a card is captured at once.
CreateCharge(o) ==
    /\ order[o].status = "reading"
    /\ order' = [order EXCEPT ![o].status = "charged"]
    /\ charge' = [charge EXCEPT ![o] = "open"]
    /\ UNCHANGED <<lot, inventory, session, notice>>

\* The order commits, linked to the hold read at the beginning, whatever became
\* of it since; the session becomes "paid" whatever it is by now.
PayCommit(o) ==
    /\ order[o].status = "charged"
    /\ order' = [order EXCEPT ![o].status = "pending", ![o].payment = "pending",
                              ![o].left = AbandonTTL]
    /\ inventory' = IF order[o].hold = NoHold THEN inventory
                    ELSE LinkToOrder(inventory, order[o].hold, o)
    /\ session' = [session EXCEPT ![order[o].session].status = "paid"]
    /\ UNCHANGED <<lot, charge, notice>>

\* Any error rolls the order back.  What the gateway created stays.
PayAbort(o) ==
    /\ order[o].status \in {"reading", "charged"}
    /\ order' = [order EXCEPT ![o].status = "aborted"]
    /\ UNCHANGED <<lot, inventory, session, charge, notice>>

\* The buyer pays the charge; from now on the gateway posts its events.
PayCharge(o) ==
    /\ charge[o] = "open"
    /\ charge' = [charge EXCEPT ![o] = "paid"]
    /\ UNCHANGED <<lot, inventory, session, order, notice>>

-----------------------------------------------------------------------------
(* The webhook.  PAYMENT_CONFIRMED and PAYMENT_RECEIVED of one charge are  *)
(* two events, in any order, and each of them confirms.                    *)

\* firstTimeSeeingEvent: the event id is committed to webhook_events.
NoticeSeen(o, e) ==
    /\ charge[o] = "paid"
    /\ notice[o][e] = "none"
    /\ notice' = [notice EXCEPT ![o][e] = "seen"]
    /\ UNCHANGED <<lot, inventory, session, order, charge>>

HoldsOfOrder(o) ==
    {h \in Holds : inventory.hold[h].order = o /\ inventory.hold[h].status = "held"}

HoldsInTime(o) == \A h \in HoldsOfOrder(o) : CanConfirm(inventory, h)

\* Mutant: a payment already confirmed is confirmed again.
ToConfirmMutant(o) == order[o].status \in {"pending", "paid"}

ToConfirm(o) == order[o].status \in {"pending", "paid"} /\ order[o].payment = "pending"

(***************************************************************************)
(* The charge is looked up and its payment locked, so that its notices     *)
(* wait for one another.  An order that is not committed yet is an unknown *)
(* reference, a confirmed payment is left as it is and so is a cancelled   *)
(* order: all are answered 200.  Otherwise the order is confirmed on the   *)
(* strength of a status read without a lock.  The transaction starts here, *)
(* and the now() that inventory.Confirm compares with the deadline of the  *)
(* hold is its start.                                                      *)
(***************************************************************************)
ConfirmRead(o, e) ==
    /\ notice[o][e] = "seen"
    /\ \A x \in Events : notice[o][x] \notin Processing
    /\ notice' = [notice EXCEPT ![o][e] = IF ~ToConfirm(o) THEN "acked"
                                         ELSE IF HoldsInTime(o) THEN "confirming" ELSE "refusing"]
    /\ UNCHANGED <<lot, inventory, session, order, charge>>

(***************************************************************************)
(* ConfirmPayment: the lot counters, then the tickets, then payment and    *)
(* order.  The order's hold is the one still 'held', with the seats nobody *)
(* has taken from it; an order without such a hold takes the branch of an  *)
(* event without seats.                                                    *)
(***************************************************************************)
ConfirmPayment(o, e) ==
    LET sel == order[o].sel
        lt  == ConfirmFromLot(lot, sel.lot, sel.qty)
    IN  /\ notice[o][e] \in Processing
        /\ CapacityChk(lt)
        /\ lot' = lt
        /\ \/ \E h \in HoldsOfOrder(o) :
                 /\ notice[o][e] = "confirming"
                 /\ inventory' = Confirm(inventory, h, o, sel.lot)
           \/ /\ HoldsOfOrder(o) = {}
              /\ inventory' = IssueStanding(inventory, o, sel.lot, sel.qty)
        /\ order' = [order EXCEPT ![o].status = "paid", ![o].payment = "confirmed"]
        /\ notice' = [notice EXCEPT ![o][e] = "acked"]
        /\ UNCHANGED <<session, charge>>

\* An error (an expired hold, a deadlock) or a crash: rolled back, not answered 200.
NoticeFails(o, e) ==
    /\ notice[o][e] \in Processing \cup {"seen"}
    /\ notice' = [notice EXCEPT ![o][e] = "failed"]
    /\ UNCHANGED <<lot, inventory, session, order, charge>>

\* The gateway posts again what was not answered 200: the event id is known.
NoticeResent(o, e) ==
    /\ notice[o][e] = "failed"
    /\ notice' = [notice EXCEPT ![o][e] = "acked"]
    /\ UNCHANGED <<lot, inventory, session, order, charge>>

-----------------------------------------------------------------------------
(* Sweepers, courtesies and time                                           *)

\* Mutant: orders with seats are left to their holds.
AbandonedMutant ==
    {o \in Orders : order[o].status = "pending" /\ order[o].left = 0 /\ order[o].hold = NoHold}

Abandoned == {o \in Orders : order[o].status = "pending" /\ order[o].left = 0}

OwedByOrders(O) ==
    [l \in Lots |-> UnitsOrdered({o \in O : order[o].sel.lot = l})]

(***************************************************************************)
(* inventory.Sweeper: ExpireDue and ReleaseAbandonedLotHolds in one        *)
(* transaction.  Cancelling an order does not touch its hold.              *)
(***************************************************************************)
SweepInventory ==
    /\ inventory' = ExpireDue(inventory)
    /\ lot' = ReleaseFromLots(lot, OwedByOrders(Abandoned))
    /\ order' = [o \in Orders |-> IF o \in Abandoned THEN [order[o] EXCEPT !.status = "cancelled"]
                                   ELSE order[o]]
    /\ UNCHANGED <<session, charge, notice>>

DueSessions == {s \in Sessions : session[s].status \in Live /\ session[s].left = 0}

\* Mutant: an authenticated session is given back and stays.
ClosedAsMutant(s) == IF session[s].status = "authenticated" THEN "authenticated" ELSE "expired"

ClosedAs(s) == IF session[s].status = "authenticated" THEN "abandoned" ELSE "expired"

\* SessionSweeper: ExpireOpenSessions.
SweepSessions ==
    /\ DueSessions # {}
    /\ lot' = ReleaseFromLots(lot, Owed(DueSessions))
    /\ inventory' = Release(inventory, HoldsOf(DueSessions))
    /\ session' = Close(DueSessions, ClosedAs)
    /\ UNCHANGED <<order, charge, notice>>

\* The producer gives a ticket away: no lot counter moves, and a seat must be
\* free of any occupancy, overdue ones included.
IssueCourtesy(l, s) ==
    /\ Issued(inventory, NoOrder) < MaxCourtesies
    /\ s # NoSeat => inventory.occ[s].kind = "free"
    /\ inventory' = IssueCourtesyTicket(inventory, CourtesyTicket(inventory, l, s))
    /\ UNCHANGED <<lot, session, order, charge, notice>>

Tick ==
    /\ inventory' = Age(inventory)
    /\ session' = [s \in Sessions |-> [session[s] EXCEPT !.left = Less(@, 0)]]
    /\ order' = [o \in Orders |-> [order[o] EXCEPT !.left = Less(@, 0)]]
    /\ UNCHANGED <<lot, charge, notice>>

Next ==
    \/ \E s \in Sessions, sel \in Selections, h \in Holds \cup {NoHold} :
          \/ PatchSession(s, sel, h)
          \/ \E others \in SUBSET Sessions :
                \/ \E b \in Browsers : CreateSession(s, b, sel, h, others)
                \/ ResumeSession(s, sel, h, others)
    \/ \E s \in Sessions : AuthStarted(s) \/ BindSession(s)
    \/ \E o \in Orders :
          \/ \E s \in Sessions : PayBegin(o, s)
          \/ CreateCharge(o) \/ PayCommit(o) \/ PayAbort(o) \/ PayCharge(o)
          \/ \E e \in Events :
                \/ NoticeSeen(o, e) \/ ConfirmRead(o, e) \/ ConfirmPayment(o, e)
                \/ NoticeFails(o, e) \/ NoticeResent(o, e)
    \/ \E l \in Lots, s \in Seats \cup {NoSeat} : IssueCourtesy(l, s)
    \/ SweepInventory \/ SweepSessions \/ Tick

Spec == Init /\ [][Next]_vars

-----------------------------------------------------------------------------
(* Properties                                                              *)

\* The tickets of a lot that were sold; courtesies are not.
SoldFrom(l) == {t \in inventory.tickets : t.lot = l /\ t.order # NoOrder}

\* No lot sells more tickets than it has, even when one session is paid twice, an
\* order is confirmed after its quantity went back, or a release floors at zero.
NeverOversold == \A l \in Lots : Cardinality(SoldFrom(l)) <= Quantity[l]

\* A hold that inventory.Confirm would accept still owns every seat it took,
\* until at least its own deadline: the grace, the sweeper, the release of
\* overdue seats by another buyer and courtesies never take one away.
LiveHoldOwnsSeats ==
    \A h \in Holds : CanConfirm(inventory, h) =>
        \A s \in inventory.hold[h].seats :
            /\ inventory.occ[s].kind = "hold"
            /\ inventory.occ[s].hold = h
            /\ inventory.occ[s].left >= inventory.hold[h].left

\* A seat is sold once: it is occupied by a ticket exactly when a ticket for it
\* exists, and that ticket is the only one, courtesies included.
SeatSoldOnce ==
    \A s \in Seats :
        LET sold == {t \in inventory.tickets : t.seat = s}
        IN  sold = IF inventory.occ[s].kind = "ticket" THEN {inventory.occ[s].ticket} ELSE {}

TicketsOf(o) == {t \in inventory.tickets : t.order = o}

\* However many notices a payment has and whatever they race with, a confirmed
\* order without seats has as many tickets as it asked for, an order with seats
\* no more than that, and an unconfirmed one has none.
IssuedExactlyOnce ==
    \A o \in Orders :
        LET issued == Cardinality(TicketsOf(o))
        IN  IF order[o].payment # "confirmed" THEN issued = 0
            ELSE IF order[o].hold = NoHold THEN issued = order[o].sel.qty
            ELSE issued <= order[o].sel.qty

SoldWithoutMap(l) == \A sel \in Selections : sel.lot = l => sel.seats = {}

\* The sold_count of a lot sold without a map is the number of tickets issued from
\* it to orders, so that no confirmation counts twice and none is lost.
SoldIsIssued ==
    \A l \in Lots : SoldWithoutMap(l) => lot[l].sold = Cardinality(SoldFrom(l))

\* A session that may still be paid owns its hold alone, and the hold is of the
\* seats the session shows to the buyer.
SessionOwnsItsHold ==
    \A s \in Sessions : session[s].status \in Live =>
        /\ session[s].hold = NoHold <=> session[s].sel.seats = {}
        /\ session[s].hold # NoHold =>
              /\ inventory.hold[session[s].hold].seats = session[s].sel.seats
              /\ \A x \in Sessions \ {s} : session[x].hold # session[s].hold

\* A ticket, once issued, and the seat it occupies are out of the reach of
\* sweepers, releases and later buyers.
TicketsArePermanent ==
    [][ /\ inventory.tickets \subseteq inventory'.tickets
        /\ \A s \in Seats : inventory.occ[s].kind = "ticket" =>
               inventory'.occ[s] = inventory.occ[s] ]_vars

ReservedBySessions(l) ==
    Units({s \in Sessions : session[s].status \in Live /\ session[s].sel.lot = l})

OwedToPending(l) ==
    UnitsOrdered({o \in Orders : order[o].status = "pending" /\ order[o].sel.lot = l})

(***************************************************************************)
(* Before anybody pays, the counter of a lot sold without a map is exactly *)
(* what its live sessions reserve: creating, changing, resuming, leaving   *)
(* for another event and expiring neither leak a unit nor give one twice.  *)
(***************************************************************************)
HeldIsExactBeforePaying ==
    (\A o \in Orders : order[o].status = "none") =>
        \A l \in Lots : SoldWithoutMap(l) => lot[l].held = ReservedBySessions(l)

\* With the anti-hole rule on, taking seats never leaves a free seat between two
\* taken ones in the rows it touches.  Reservations of one lot, that is: the lock
\* on its row, taken first, is what makes their checks wait for one another.
NoIsolatedSeat ==
    [][ \A h \in Holds :
          AntiHole /\ inventory.hold[h].status = "none" /\ inventory'.hold[h].status = "held" =>
            \A row \in Rows : (\E i \in DOMAIN row : row[i] \in inventory'.hold[h].seats) =>
              \A i \in 2..(Len(row) - 1) :
                 inventory'.occ[row[i]].kind = "free" =>
                    \/ inventory'.occ[row[i - 1]].kind = "free"
                    \/ inventory'.occ[row[i + 1]].kind = "free" ]_vars

\* Seats, seen without sessions, orders and clocks: who owns each one, and which
\* reservations can still become tickets.
OwnerOf(s) == CASE inventory.occ[s].kind = "free"   -> NoHold
                [] inventory.occ[s].kind = "hold"   -> inventory.occ[s].hold
                [] inventory.occ[s].kind = "ticket" -> inventory.occ[s].ticket

StateOf(h) == CASE inventory.hold[h].status = "none"      -> "unused"
                [] inventory.hold[h].status = "confirmed" -> "sold"
                [] CanConfirm(inventory, h)               -> "in force"
                [] OTHER                                  -> "over"

SeatTickets == {t \in [order : Orders \cup {NoOrder}, lot : Lots, seat : Seats,
                        no : 1..(MaxCourtesies + 1)] : t.order # NoOrder => t.no = 1}

Sales == INSTANCE SeatSales WITH Reservations <- Holds, Tickets <- SeatTickets, Nobody <- NoHold,
                                 owner <- [s \in Seats |-> OwnerOf(s)],
                                 state <- [h \in Holds |-> StateOf(h)]

\* The checkout keeps what SeatSales promises: a reservation keeps all of its
\* seats while it is in force, never gives a seat to two owners, and a sold seat
\* stays sold.
ImplementsSeatSales == Sales!Spec

-----------------------------------------------------------------------------
(* Fairness: the goroutines of the two sweepers run every 30 seconds while *)
(* the server is up, and time passes.  Buyers, the gateway and the webhook *)
(* promise nothing.                                                        *)

SweepersRun == WF_vars(Tick) /\ WF_vars(SweepInventory) /\ WF_vars(SweepSessions)

FairSpec == Spec /\ SweepersRun

\* Seats held but not bought return to sale, whatever grace was applied.
HoldsEnd ==
    \A h \in Holds, s \in Seats :
        inventory.occ[s].hold = h /\ inventory.occ[s].kind = "hold"
            ~> ~(inventory.occ[s].hold = h /\ inventory.occ[s].kind = "hold")

\* A session past its deadline is closed unless the buyer moves the deadline.
DueSessionsClose ==
    \A s \in Sessions : s \in DueSessions ~> s \notin DueSessions

\* A pending order is confirmed or cancelled: it does not keep the lot forever.
OrdersEnd == \A o \in Orders : order[o].status = "pending" ~> order[o].status # "pending"

\* The two sweepers together reach everything that was left behind, whichever
\* deadline passes first and whatever the grace moved.
SweepersReachAll == HoldsEnd /\ DueSessionsClose /\ OrdersEnd

-----------------------------------------------------------------------------
(* What comments and documents promise and the code does not keep          *)

\* session.go:169 "sessoes do mesmo anon_token em OUTROS eventos sao expiradas": a
\* browser keeps reservations on one event, so that it locks stock in one place.
BrowserOnOneEvent ==
    \A s, x \in Sessions :
        /\ session[s].status \in Live /\ session[x].status \in Live
        /\ session[s].browser = session[x].browser
        => EventOfSession(s) = EventOfSession(x)

\* session.go:387 "libera a reserva (hold ou lote)": what is held in a lot is
\* held for a session or an order that can still become a sale.
HeldIsReserved == \A l \in Lots : lot[l].held <= ReservedBySessions(l) + OwedToPending(l)

\* checkout.go:164 "a partir de uma reserva JA feita": a pending order's
\* quantity is still held in its lot.
PendingIsHeld == \A l \in Lots : OwedToPending(l) <= lot[l].held

\* checkout.go:421 "Ordem ja cancelada/estornada [...] nao emite nem re-debita
\* capacidade": a cancelled order stays cancelled.
CancelledStaysCancelled ==
    [][\A o \in Orders : order[o].status = "cancelled" => order'[o].status = "cancelled"]_vars

\* checkout.go:471 "com mapa: converte o hold (assento) em ingressos": an order
\* of seats that is paid has tickets for these seats.
PaidOrdersHaveTheirSeats ==
    \A o \in Orders : order[o].status = "paid" =>
        order[o].sel.seats = {t.seat : t \in TicketsOf(o)} \ {NoSeat}

\* SPEC.md:42 "Concluido o pagamento, o ingresso existe e e valido": when the
\* webhook has answered 200 to every notice of a payment, its tickets exist.
PaymentsAreTicketed ==
    \A o \in Orders : (\A e \in Events : notice[o][e] = "acked") => TicketsOf(o) # {}

\* api/checkout.go:363 "o gateway reenvia quando nao recebe 200": the notice
\* that failed is processed when it comes again.
ResentNoticeIsProcessed ==
    [][\A o \in Orders, e \in Events :
          notice[o][e] = "failed" /\ notice'[o][e] = "acked" /\ order[o].status = "pending"
             => order'[o].status = "paid"]_vars

=============================================================================
