-------------------------------- MODULE Shop --------------------------------
(***************************************************************************)
(* One event on sale: its life from draft to cancelled, its row in the     *)
(* public directory, its lots and the queue that decides which of them a   *)
(* buyer is offered, the exclusive links of hidden lots, a coupon, and the *)
(* orders, from the lot the buyer resolves to the confirmed payment.       *)
(*                                                                         *)
(* Transactions are READ COMMITTED: resolving a lot and reserving it are   *)
(* two statements, so are the read and the write of UpdateLot, the read of *)
(* the session that is paid and the write of its order, and the read of    *)
(* the order that is confirmed and its effects; others act in between.     *)
(***************************************************************************)
EXTENDS Prices, Tables, Sequences, FiniteSets, FiniteSetsExt, Functions

CONSTANTS Queue,       \* the lots, in their sort_order
          Templates,   \* Templates[l]: the rows a producer may create lot l with
          Links,       \* exclusive links
          LinkLot,     \* the lot each link opens
          MaxUses,     \* lot_links.max_uses
          LinkEnds,    \* lot_links.expires_at
          CouponMax,   \* coupons.max_uses
          CouponPct,   \* coupons.discount_pct, in hundredths
          Patches,     \* Patches[l]: the partial edits a producer may send, functions of some columns
          Buyers,
          Asks,        \* what a buyer may ask for
          Attempts,    \* maxLotResolveAttempts
          EventStart,  \* events.starts_at
          MaxTime,     \* the clock stops here
          None

Lots == Range(Queue)

\* What a producer fills in of a row of lots.
Column == [price |-> Nat, quantity |-> Nat, start |-> Nat, end |-> Nat, min |-> Nat, max |-> Nat,
           hidden |-> BOOLEAN, availability |-> STRING, trigger |-> STRING]
Fields == DOMAIN Column

\* Lots have places of their own in the queue; requests have the columns' types.
ASSUME ShopAssumption ==
    /\ Queue \in Seq(Lots) /\ \A i, j \in DOMAIN Queue : Queue[i] = Queue[j] => i = j
    /\ \A l \in Lots : \A row \in Templates[l] :
          row = [f \in Fields |-> row[f]] /\ \A f \in Fields : row[f] \in Column[f]
    /\ \A l \in Lots : \A p \in Patches[l] :
          DOMAIN p \subseteq Fields /\ \A f \in DOMAIN p : p[f] \in Column[f]
    /\ LinkLot \in [Links -> Lots] /\ MaxUses \in [Links -> Nat]
    /\ CouponPct \in Nat /\ Attempts \in Nat
    /\ IsFiniteSet(Buyers) /\ None \notin Nat
    /\ \A a \in Asks : a.qty \in Nat /\ a.half \in 0..a.qty /\ a.coupon \in BOOLEAN

VARIABLES status,    \* events.status
          directory, \* the event's row in public.event_directory: its lowest price
          lot,       \* the lots table: the row of each lot there is, and its two counters
          link,      \* lot_links: the links there are
          uses,      \* coupons.uses; None before CreateCoupon
          order,     \* the checkout of each buyer: session, then order
          unpaid,    \* the sessions that are 'open' or 'authenticated'
          reserved,  \* not in the tables: the sessions whose units held_count still counts
          excess,    \* nor this: the units an order took off held_count that others had given back
          edit,      \* the UpdateLot in progress
          ledger,    \* the 'repasse' lines of ledger_entries
          now

claims == <<unpaid, reserved, excess>>
vars == <<status, directory, lot, link, uses, order, claims, edit, ledger, now>>

Absent == [listed |-> FALSE, price |-> None]
NoOrder == [st |-> "none", ask |-> None, tries |-> 0, last |-> None, lot |-> None,
            session |-> None, link |-> None, bill |-> None]

Init ==
    /\ status = "draft" /\ directory = Absent
    /\ lot = << >>
    /\ link = << >>
    /\ uses = None
    /\ order = [b \in Buyers |-> NoOrder]
    /\ unpaid = {} /\ reserved = {} /\ excess = [b \in Buyers |-> 0]
    /\ edit = None
    /\ ledger = 0
    /\ now = 0

\* ListLots: the lots of the event.
ListLots == DOMAIN lot

(***************************** What is on offer ****************************)

\* aberto: within the lot's dates; a lot that ends by selling out ignores its end date.
Open(l) == LET row == lot[l].row IN row.start <= now /\ (row.trigger = "sellout" \/ now < row.end)

\* temSaldo: room for the smallest purchase.
HasStock(l) == lot[l].row.quantity - lot[l].sold - lot[l].held >= lot[l].row.min

\* A lot the loop of AvailableLots does not skip.
Visible(l) == l \in ListLots /\ ~lot[l].row.hidden /\ Open(l)

InTurn(l) == lot[l].row.availability # "always"

\* Mutant: a lot that turns by date lets the next one open when it sells out.
SettlesMutant(l) == Visible(l) /\ InTurn(l) /\ HasStock(l)

\* Whether the queue goes no further than this lot: it is on sale, or its date must come first.
Settles(l) == Visible(l) /\ InTurn(l) /\ (HasStock(l) \/ lot[l].row.trigger = "date")

\* filaResolvida, after i turns of the loop.
Settled[i \in 0..Len(Queue)] == i > 0 /\ (Settled[i - 1] \/ Settles(Queue[i]))

\* AvailableLots, as places in the queue, whose order is theirs.
OfferedAt == {i \in DOMAIN Queue :
                 Visible(Queue[i]) /\ HasStock(Queue[i]) /\ (InTurn(Queue[i]) => ~Settled[i - 1])}
AvailableLots == {Queue[i] : i \in OfferedAt}

\* CurrentLot: the first on offer, if any.
CurrentLot == {Queue[i] : i \in {j \in OfferedAt : \A k \in OfferedAt : j <= k}}

\* The page of the event: every lot that is not hidden, which of them are on sale, and the
\* current one.
Page ==
    [lots    |-> {l \in ListLots : ~lot[l].row.hidden},
     onSale  |-> AvailableLots,
     current |-> CurrentLot]

\* usable: neither revoked, nor expired, nor used up.
Usable(k) ==
    /\ k \in DOMAIN link
    /\ ~link[k].revoked /\ now < LinkEnds[k] /\ link[k].used < MaxUses[k]

\* ResolveLotLink: the lot a token opens, if it still opens one.
OpenedBy(k) == IF Usable(k) THEN {LinkLot[k]} ELSE {}

\* EligibleLot: the lots a buyer may choose, on public offer or opened by the buyer's link.
Eligible(k) == AvailableLots \cup {l \in OpenedBy(k) : Open(l) /\ HasStock(l)}

\* CheckPurchaseQuantity.
InRange(l, qty) == qty \in lot[l].row.min..lot[l].row.max

\* eventMinPrice: the lowest price of a lot not yet full.
MinPrice(lt) ==
    LET prices == {lt[l].row.price : l \in {m \in DOMAIN lt : lt[m].sold + lt[m].held < lt[m].row.quantity}}
    IN  IF prices = {} THEN None ELSE Min(prices)

(****************************** The producer *******************************)

ValidTransition(from) ==
    CASE from = "draft"          -> {"pending_review", "published", "cancelled"}
      [] from = "pending_review" -> {"published", "draft", "cancelled"}
      [] from = "published"      -> {"finished", "suspended", "cancelled"}
      [] from = "suspended"      -> {"published", "cancelled"}
      [] OTHER                   -> {}

\* The rows of the directory that follow a new lowest price.
Resynced(lt) == IF directory.listed THEN [directory EXCEPT !.price = MinPrice(lt)] ELSE directory

\* checkPublishable, for an event without a seat map.
Publishable == now < EventStart /\ ListLots # {}

\* PublishEvent: also run again on a published event, to refresh its directory row.
PublishEvent ==
    /\ Publishable
    /\ status = "published" \/ "published" \in ValidTransition(status)
    /\ status' = "published"
    /\ directory' = [listed |-> TRUE, price |-> MinPrice(lot)]
    /\ UNCHANGED <<lot, link, uses, order, claims, edit, ledger, now>>

\* TransitionEvent: what goes off the air leaves the directory.
Transition(to) ==
    /\ to \in ValidTransition(status)
    /\ status' = to
    /\ directory' = IF to \in {"suspended", "cancelled", "finished"} THEN Absent ELSE directory

\* The transitions some route asks for; "finished" has none.
TransitionEvent ==
    /\ \E to \in {"pending_review", "suspended", "cancelled"} : Transition(to)
    /\ UNCHANGED <<lot, link, uses, order, claims, edit, ledger, now>>

\* The platform's moderation writes the status whatever it was, and leaves the directory alone.
AdminSuspendEvent ==
    /\ status # "suspended" /\ status' = "suspended"
    /\ UNCHANGED <<directory, lot, link, uses, order, claims, edit, ledger, now>>

\* validLotMode.
ValidMode(row) ==
    row.availability \in {"sequential", "always"} /\ row.trigger \in {"either", "sellout", "date"}

\* catalog.CreateLot.
InsertLot(l, row) ==
    /\ row.min <= row.max /\ ValidMode(row)
    /\ lot' = Over(OneRow(l, [row |-> row, sold |-> 0, held |-> 0]), lot)

CreateLot(l) ==
    /\ l \notin ListLots
    /\ \E row \in Templates[l] : InsertLot(l, row)
    /\ UNCHANGED <<status, directory, link, uses, order, claims, edit, ledger, now>>

\* A link for a lot hides the lot.
NewLink(k) ==
    /\ lot' = [lot EXCEPT ![LinkLot[k]].row = Over(OneRow("hidden", TRUE), @)]
    /\ link' = Over(OneRow(k, [used |-> 0, revoked |-> FALSE]), link)

CreateLotLink(k) ==
    /\ k \notin DOMAIN link /\ LinkLot[k] \in ListLots /\ MaxUses[k] > 0
    /\ NewLink(k)
    /\ UNCHANGED <<status, directory, uses, order, claims, edit, ledger, now>>

RevokeLotLink(k) ==
    /\ k \in DOMAIN link /\ ~link[k].revoked
    /\ link' = [link EXCEPT ![k].revoked = TRUE]
    /\ UNCHANGED <<status, directory, lot, uses, order, claims, edit, ledger, now>>

CreateCoupon ==
    /\ uses = None /\ uses' = 0
    /\ UNCHANGED <<status, directory, lot, link, order, claims, edit, ledger, now>>

\* UpdateLot reads the row without a lock and checks the new quantity against what it read.
UpdateLot(l, p) ==
    LET next == Over(p, lot[l].row)
    IN  /\ next.min <= next.max /\ ValidMode(next)
        /\ next.quantity >= lot[l].sold + lot[l].held
        /\ edit' = [lot |-> l, row |-> next]

EditBegin(l) ==
    /\ edit = None /\ l \in ListLots
    /\ \E p \in Patches[l] : UpdateLot(l, p)
    /\ UNCHANGED <<status, directory, lot, link, uses, order, claims, ledger, now>>

\* Mutant: the table without its CHECK.
CapacityChkMutant(entry) == TRUE

\* lots_capacity_chk.
CapacityChk(entry) == entry.sold + entry.held <= entry.row.quantity

\* It then writes every field, whatever has become of them; the CHECK may abort it.
EditEnd ==
    /\ edit # None
    /\ LET entry == [lot[edit.lot] EXCEPT !.row = edit.row]
       IN  lot' = IF CapacityChk(entry) THEN [lot EXCEPT ![edit.lot] = entry] ELSE lot
    /\ edit' = None
    /\ UNCHANGED <<status, directory, link, uses, order, claims, ledger, now>>

(******************************* The buyers ********************************)

\* createSession finds the producer of the event in the directory before its transaction.
CreateSession(b) ==
    /\ order[b].st = "none" /\ directory.listed
    /\ \E a \in Asks : order' = [order EXCEPT ![b] = [NoOrder EXCEPT !.st = "seeking", !.ask = a]]
    /\ UNCHANGED <<status, directory, lot, link, uses, claims, edit, ledger, now>>

Refused(b) == [order EXCEPT ![b] = [NoOrder EXCEPT !.st = "refused"]]

\* resolveLot, and the check of the range on the lot it returned.
Resolve(b) ==
    /\ order[b].st = "seeking"
    /\ LET a  == order[b].ask
           found == IF a.lot = None THEN CurrentLot ELSE {a.lot} \cap Eligible(a.link)
       IN  \/ found = {} /\ order' = Refused(b)
           \/ \E l \in found :
                order' = [order EXCEPT ![b].lot = l,
                                       ![b].st = IF InRange(l, a.qty)
                                                 THEN "resolved" ELSE "out_of_range"]
    /\ UNCHANGED <<status, directory, lot, link, uses, claims, edit, ledger, now>>

\* ReserveFromLot: the row still has room for the units.
Fits(l, qty) == lot[l].sold + lot[l].held + qty <= lot[l].row.quantity

\* The session is written in the transaction that takes its units.
Opened(b) ==
    /\ unpaid' = unpaid \cup {b} /\ reserved' = reserved \cup {b}
    /\ UNCHANGED excess

\* held_count goes up if the units fit.  A quantity out of the lot's range undoes it; no room
\* sends the buyer back to the queue, or away.
Reserve(b) ==
    /\ order[b].st \in {"resolved", "out_of_range"}
    /\ LET o == order[b]
           l == o.lot
           fits == Fits(l, o.ask.qty)
           final == l = o.last \/ o.ask.lot # None \/ o.tries + 1 = Attempts
       IN  IF fits /\ o.st = "resolved"
           THEN /\ lot' = [lot EXCEPT ![l].held = @ + o.ask.qty]
                /\ order' = [order EXCEPT ![b].st = "held", ![b].tries = 0, ![b].last = None,
                                          ![b].session = b]
                /\ Opened(b)
           ELSE /\ order' = IF fits \/ final THEN Refused(b)
                            ELSE [order EXCEPT ![b] = [o EXCEPT !.st = "seeking", !.lot = None,
                                                                !.tries = @ + 1, !.last = l]]
                /\ UNCHANGED <<lot, claims>>
    /\ UNCHANGED <<status, directory, link, uses, edit, ledger, now>>

\* ReleaseFromLot: never below zero.
Released(l, qty) ==
    [lot EXCEPT ![l].held = IF @ >= qty THEN @ - qty ELSE 0]

\* An order takes units off held_count: its session's, or, when these are gone, others'.
GiveBack(b) ==
    LET s == order[b].session
    IN  /\ reserved' = reserved \ {s}
        /\ excess' = IF s \in reserved THEN excess ELSE [excess EXCEPT ![b] = @ + order[b].ask.qty]

\* ExpireOpenSessions, and the release of a session that is changed or abandoned.  A payment
\* that has read the session goes on.
ExpireSession(b) ==
    /\ b \in unpaid /\ order[b].st \in {"held", "paying"}
    /\ unpaid' = unpaid \ {b}
    /\ lot' = Released(order[b].lot, order[b].ask.qty)
    /\ GiveBack(b)
    /\ order' = IF order[b].st = "held" THEN Refused(b) ELSE order
    /\ UNCHANGED <<status, directory, link, uses, edit, ledger, now>>

\* ReleaseAbandonedLotHolds: an order that was not paid gives its units back.  A confirmation
\* that has read the order goes on.
CancelOrder(b) ==
    /\ order[b].st \in {"pending", "confirming"}
    /\ lot' = Released(order[b].lot, order[b].ask.qty)
    /\ GiveBack(b)
    /\ order' = [order EXCEPT ![b].st = IF @ = "pending" THEN "cancelled" ELSE "overtaken"]
    /\ UNCHANGED <<status, directory, link, uses, unpaid, edit, ledger, now>>

\* applyCoupon: whether the order may use the coupon.
CouponUsable == uses # None /\ uses < CouponMax

\* What finalizeOrder may charge for what is asked at a price, and the items it writes.
BillsAt(price, a, fee) ==
    LET gross == Subtotal(price, a.qty, a.half)
        BillOff(off) == {[charge |-> Compute(gross - off, total), off |-> off,
                          items |-> OrderItems(price, a.qty, a.half)] : total \in Totals(gross - off, fee)}
    IN  UNION {BillOff(off) : off \in IF a.coupon THEN Discounts(CouponPct, gross) ELSE {0}}

\* At the lot's present price.
BillOf(b) ==
    UNION {BillsAt(lot[order[b].lot].row.price, order[b].ask, fee) :
              fee \in FeeFor(order[b].ask.method, order[b].ask.parts)}

\* paySession reads the session, without a lock, and finds it unpaid.
PayBegin(b) ==
    /\ order[b].st = "held" /\ b \in unpaid
    /\ order' = [order EXCEPT ![b].st = "paying"]
    /\ UNCHANGED <<status, directory, lot, link, uses, claims, edit, ledger, now>>

\* So does another request that pays the same session.
PayAgain(c, b) ==
    /\ order[c].st = "none" /\ order[b].st = "paying" /\ b \in unpaid
    /\ order' = [order EXCEPT ![c] = order[b]]
    /\ UNCHANGED <<status, directory, lot, link, uses, claims, edit, ledger, now>>

\* PaySession: a hidden lot needs a usable link now, a coupon must have uses left.  A payment
\* that is refused changes nothing.
PaySession(b) ==
    /\ order[b].st = "paying"
    /\ LET a == order[b].ask
           hidden == lot[order[b].lot].row.hidden
       IN  /\ hidden => OpenedBy(a.link) # {}
           /\ a.coupon => CouponUsable
           /\ \E bill \in BillOf(b) :
                /\ ValidInstallments(a.parts, bill.charge.total)
                /\ order' = [order EXCEPT ![b].st = "pending", ![b].bill = bill,
                                          ![b].link = IF hidden THEN a.link ELSE None]
    /\ unpaid' = unpaid \ {order[b].session}
    /\ UNCHANGED <<status, directory, lot, link, uses, reserved, excess, edit, ledger, now>>

\* ConsumeLotLink: no row is counted above the limit, and the refusal is only logged.
Consume(k, qty) ==
    IF ~link[k].revoked /\ link[k].used + qty <= MaxUses[k]
    THEN [link EXCEPT ![k].used = @ + qty]
    ELSE link

\* ConfirmFromLot.
Sold(l, qty) ==
    [lot EXCEPT ![l].sold = @ + qty, ![l].held = IF @ >= qty THEN @ - qty ELSE 0]

\* ConfirmPayment reads the order, without a lock, and finds it neither cancelled nor paid.
ConfirmRead(b) ==
    /\ order[b].st = "pending"
    /\ order' = [order EXCEPT ![b].st = "confirming"]
    /\ UNCHANGED <<status, directory, lot, link, uses, claims, edit, ledger, now>>

\* Its writes: link, lot, directory, coupon and ledger.
Confirmed(b) ==
    LET o == order[b]
    IN  /\ link' = IF o.link = None THEN link ELSE Consume(o.link, o.ask.qty)
        /\ lot' = Sold(o.lot, o.ask.qty)
        /\ uses' = IF o.ask.coupon THEN uses + 1 ELSE uses
        /\ ledger' = ledger + o.bill.charge.face
        /\ GiveBack(b)
        /\ directory' = Resynced(lot')
        /\ order' = [order EXCEPT ![b].st = "paid"]

\* The CHECK of the lot's counters aborts it, if others have taken the units.
ConfirmPayment(b) ==
    /\ order[b].st \in {"confirming", "overtaken"}
    /\ IF CapacityChk(Sold(order[b].lot, order[b].ask.qty)[order[b].lot])
       THEN Confirmed(b)
       ELSE /\ order' = [order EXCEPT ![b].st = IF @ = "confirming" THEN "pending" ELSE "cancelled"]
            /\ UNCHANGED <<directory, lot, link, uses, reserved, excess, ledger>>
    /\ UNCHANGED <<status, unpaid, edit, now>>

Tick ==
    /\ now < MaxTime /\ now' = now + 1
    /\ UNCHANGED <<status, directory, lot, link, uses, order, claims, edit, ledger>>

Producer ==
    \/ PublishEvent \/ TransitionEvent \/ AdminSuspendEvent \/ CreateCoupon
    \/ \E l \in Lots : CreateLot(l) \/ EditBegin(l)
    \/ \E k \in Links : CreateLotLink(k) \/ RevokeLotLink(k)
    \/ EditEnd

Buyer(b) ==
    \/ CreateSession(b) \/ Resolve(b) \/ Reserve(b) \/ ExpireSession(b)
    \/ PayBegin(b) \/ (\E s \in Buyers : PayAgain(b, s)) \/ PaySession(b) \/ CancelOrder(b)
    \/ ConfirmRead(b) \/ ConfirmPayment(b)

Next == Producer \/ (\E b \in Buyers : Buyer(b)) \/ Tick

Spec == Init /\ [][Next]_vars

(****************************** The dashboards *****************************)

\* What each buyer's order contributes to a sum, if it is one of S.
Among(S, amount) == SumFunction([b \in Buyers |-> IF b \in S THEN amount[b] ELSE 0])

Paid == {b \in Buyers : order[b].st = "paid"}
Quantity == [b \in Buyers |-> order[b].ask.qty]
Face == [b \in Buyers |-> order[b].bill.charge.face]
Off == [b \in Buyers |-> order[b].bill.off]
Items == [b \in Buyers |-> ItemsTotal(order[b].bill.items)]

\* SalesByLot: the revenue of each lot, from the items of its paid orders.
SalesByLot == [l \in Lots |-> Among({b \in Paid : order[b].lot = l}, Items)]

\* EventFinance: the face of the paid orders, and the producer's lines of the ledger.
EventFinance == [gross |-> Among(Paid, Face), repasse |-> ledger]
-----------------------------------------------------------------------------
\* The units of a lot that sessions reserved and nobody has given back, those its paid orders
\* bought, and those that orders took off its held_count without having them there.
Reserved(l) == Among({s \in reserved : order[s].lot = l}, Quantity)
UnitsSold(l) == Among({b \in Paid : order[b].lot = l}, Quantity)
Excess(l) == Among({b \in Buyers : order[b].lot = l}, excess)

\* An order was written for the session, with its bill.
Placed == {"pending", "confirming", "overtaken", "cancelled", "paid"}

PaidWith(k) == {b \in Paid : order[b].link = k}

\* Whether a lot is on offer, said without a loop: it is visible, within its dates and has
\* stock, and, in the queue, every visible open lot before it has sold out and does not keep
\* the queue waiting for a date.
OnOffer(i) ==
    /\ Visible(Queue[i]) /\ HasStock(Queue[i])
    /\ \/ lot[Queue[i]].row.availability = "always"
       \/ \A j \in 1..(i - 1) :
             Visible(Queue[j]) /\ lot[Queue[j]].row.availability # "always"
               => ~HasStock(Queue[j]) /\ lot[Queue[j]].row.trigger # "date"

\* The page offers exactly the lots the rules of the queue name, for every mix of modes, dates,
\* sales, edits and hidden lots, and the current one is the first of them, if there is any
\* (catalog.go:461, public_catalog.go:232).
OfferIsTheQueue ==
    LET page    == Page
        offered == {i \in DOMAIN Queue : OnOffer(i)}
    IN  /\ page.onSale = {Queue[i] : i \in offered}
        /\ page.onSale \subseteq page.lots
        /\ page.current = {Queue[i] : i \in {j \in offered : \A k \in offered : j <= k}}
        /\ page.current = {} => offered = {}

\* Under concurrent reservations, payments of one session by several requests, sessions that
\* expire while they are paid, orders cancelled while they are confirmed, and edits that read an
\* old row: sold_count is the units of the paid orders, the counters never exceed the quantity,
\* and held_count is the units reserved, less at most those that a second order of a session or
\* an order cancelled under its confirmation took off it (catalog.go:542, api/session.go:311).
StockAddsUp ==
    \A l \in ListLots :
        /\ lot[l].sold = UnitsSold(l)
        /\ lot[l].sold + lot[l].held <= lot[l].row.quantity
        /\ lot[l].held <= Reserved(l) /\ Reserved(l) - Excess(l) <= lot[l].held

\* The coupon counts the confirmed orders that used it.
CouponsAddUp == uses # None => uses = Cardinality({b \in Paid : order[b].ask.coupon})

\* What the dashboard adds up from the items is the face plus the coupons, and the ledger's.
SalesAddUp ==
    /\ EventFinance.gross = EventFinance.repasse
    /\ SumFunction(SalesByLot) = EventFinance.gross + Among(Paid, Off)

\* A link counts no more than its orders took and no more than its limit.
LinksAddUp ==
    \A k \in DOMAIN link :
        /\ link[k].used <= MaxUses[k]
        /\ link[k].used <= Among(PaidWith(k), Quantity)

\* What the gateway leaves of every charge covers its face and the platform's fee.
ChargesCover ==
    \A b \in Buyers : order[b].st \in Placed /\ order[b].bill.charge.face > 0 =>
        \A fee \in FeeFor(order[b].ask.method, order[b].ask.parts) :
            LET charge == order[b].bill.charge
            IN  charge.total - GatewayKeeps(charge.total, fee) >= charge.face + charge.face \div 10

\* Each confirmed order is counted once in its coupon, in its link, in the ledger and on the
\* dashboard, and no charge is short of what it owes the producer and the platform
\* (checkout.go:425, dash.go:31, links.go:153, pricing.go:52).
BooksAddUp == CouponsAddUp /\ SalesAddUp /\ LinksAddUp /\ ChargesCover

\* links.go:151 says that the conditional UPDATE guarantees the limit of a link: the units
\* sold through a link are at most its max_uses.
LinkLimit ==
    \A k \in Links : Among(PaidWith(k), Quantity) <= MaxUses[k]

\* catalog.go:737 says that an event off the air may not be listed.
DownIsUnlisted == status \in {"suspended", "cancelled", "finished"} => ~directory.listed
=============================================================================
