------------------------------ MODULE Payouts ------------------------------
(***************************************************************************)
(* What the platform owes a producer for one event: the row of             *)
(* event_payouts, recomputed by every sale, refund and panel and by the    *)
(* hourly Settler, and the decisions an admin takes on it.                 *)
(*                                                                         *)
(* Recompute reads the sums without a lock and then locks the row, if      *)
(* there is one, to keep a decision found there; the read and the write    *)
(* are two steps here.  A row being locked until its transaction commits,  *)
(* what follows the lock is one step.                                      *)
(***************************************************************************)
EXTENDS Integers, FiniteSets, Functions

CONSTANTS Orders, Face, GatewayFee,
          Refundable,    \* bound: the orders that may be refunded
          Clients,       \* transactions that end in a Recompute
          Settler,       \* the process that sweeps every hour
          HouseDelay,    \* payout_settings of the house
          Days,          \* the delays an admin may give the event
          Policies,      \* <<whose, bearer>>: the refund policies that may be saved
          MaxChanges     \* bound: delays and policies changed

ASSUME PayoutsAssumption ==
    /\ IsFiniteSet(Orders)
    /\ Face \in [Orders -> Nat] /\ GatewayFee \in [Orders -> Nat]
    /\ Refundable \subseteq Orders /\ Settler \notin Clients
    /\ HouseDelay \in Nat /\ Days \subseteq Nat /\ MaxChanges \in Nat
    /\ Policies \subseteq {"house", "event"} \X {"platform", "producer"}

VARIABLES
    order,       \* orders.status and its refund, made whole
    event,       \* events.status
    past,        \* is the event's date, its end or its start, in the past?
    delay,       \* payout_settings of the event, or Inherited
    policy,      \* who absorbs the gateway's fee of a refund: refund_policies of the house, of the event
    pix,         \* has the producer registered a key to be paid at?
    row,         \* event_payouts
    credit,      \* recoverable_credits: the orders refunded after the payout
    tx,          \* the transactions under way
    transfer     \* what was transferred of an exact row while nobody was at work

settings == <<delay, policy>>
vars == <<order, event, past, settings, pix, row, credit, tx, transfer>>

Processes == Clients \cup {Settler}
Inherited == -1
NoDate == -1

Decided == {"paid", "cancelled", "on_hold"}
Values == [gross : Nat, refunded : Nat, platform : Nat, gateway : Nat, net : Nat, due : Nat \cup {NoDate}]
Row == [status : {"none", "accruing", "pending"} \cup Decided, values : Values,
        reason : {"none", "verificacao_bancaria", "decisao_admin"}]
Nothing == [gross |-> 0, refunded |-> 0, platform |-> 0, gateway |-> 0, net |-> 0, due |-> NoDate]
Transaction == [at : {"idle", "read", "missed"}, what : {"look", "confirm", "refund", "delay", "sweep"},
                order : SUBSET Orders, days : Days \cup {NoDate}, owes : BOOLEAN,
                hasPix : BOOLEAN, values : Values, realized : BOOLEAN]
Quiet == [at |-> "idle", what |-> "look", order |-> {}, days |-> NoDate,
          owes |-> FALSE, hasPix |-> FALSE, values |-> Nothing, realized |-> FALSE]

TypeOK ==
    /\ order \in [Orders -> {"pending", "paid", "refunded"}]
    /\ event \in {"published", "cancelled"} /\ past \in BOOLEAN /\ pix \in BOOLEAN
    /\ delay \in Days \cup {Inherited}
    /\ policy \in [{"house", "event"} -> {"none", "platform", "producer"}]
    /\ row \in Row
    /\ credit \subseteq Orders
    /\ tx \in [Processes -> Transaction]
    /\ transfer \in Nat

Init ==
    /\ order = [o \in Orders |-> "pending"]
    /\ event = "published" /\ past = FALSE /\ pix = FALSE
    /\ delay = Inherited /\ policy = [house |-> "none", event |-> "none"]
    /\ row = [status |-> "none", values |-> Nothing, reason |-> "none"]
    /\ credit = {}
    /\ tx = [p \in Processes |-> Quiet]
    /\ transfer = 0

(***************************************************************************)
(* The calculation.  Money is in cents; the platform's fee is ten percent  *)
(* of the face, rounded half up.                                           *)
(***************************************************************************)
PlatformFee(face) == (face * 10 + 50) \div 100
MonusMutant(a, b) == a - b
Monus(a, b) == IF a > b THEN a - b ELSE 0
SumOf(amount, S) == SumFunctionOnSet(amount, S)

\* realization: no click is needed, the date is enough.  ("finished" would
\* anticipate it, and no route of the program finishes an event.)
RealizedMutant == event = "finished"
Realized == event # "cancelled" /\ past
Delay(d) == IF d = Inherited THEN HouseDelay ELSE d

\* ResolvePolicy: the event's, else the house's, else DefaultPolicy.
ResolvePolicy ==
    IF policy.event # "none" THEN policy.event ELSE IF policy.house # "none" THEN policy.house ELSE "platform"

\* sold are the orders ever paid, back those refunded.  The due day is counted
\* from the date of the event.
Owed(sold, back, d) ==
    LET gross   == SumOf(Face, sold)
        returned == SumOf(Face, back)
        fees    == SumOf(GatewayFee, back)
    IN  [gross |-> gross, refunded |-> returned, gateway |-> fees,
         platform |-> Monus(SumOf([o \in Orders |-> PlatformFee(Face[o])], sold), PlatformFee(returned)),
         net |-> Monus(gross - returned, IF ResolvePolicy = "producer" THEN fees ELSE 0),
         due |-> IF Realized THEN Delay(d) ELSE NoDate]

Sold == {o \in Orders : order[o] # "pending"}
Back == {o \in Orders : order[o] = "refunded"}
OwedNow == Owed(Sold, Back, delay)

(***************************************************************************)
(* Recompute, first half: what a transaction reads, its own changes        *)
(* included.  A refund has already looked whether the event was paid.      *)
(***************************************************************************)
Begin(p, what, own, d, record) ==
    /\ tx[p].at = "idle"
    /\ tx' = [tx EXCEPT ![p] = [record EXCEPT
            !.at = "read", !.what = what, !.order = own, !.realized = Realized,
            !.values = Owed(Sold \cup own, Back \cup IF what = "refund" THEN own ELSE {}, d)]]
    /\ UNCHANGED <<order, event, past, settings, pix, row, credit, transfer>>

\* The order is locked for as long as its confirmation or refund lasts.
Locked(o) == \E p \in Processes : o \in tx[p].order

Confirm(p, o) ==
    /\ order[o] = "pending" /\ ~Locked(o)
    /\ Begin(p, "confirm", {o}, delay, Quiet)

RefundMutant(p, o) ==
    /\ order[o] = "paid" /\ o \in Refundable /\ ~Locked(o)
    /\ Begin(p, "refund", {o}, delay, Quiet)

Refund(p, o) ==
    /\ order[o] = "paid" /\ o \in Refundable /\ ~Locked(o)
    /\ Begin(p, "refund", {o}, delay, [Quiet EXCEPT !.owes = row.status = "paid" /\ Face[o] > 0])

\* dashEvent and dashPayouts recompute what they show.
Look(p) == Begin(p, "look", {}, delay, Quiet)

Changed == {w \in {"house", "event"} : policy[w] # "none"}
           \cup {w \in {"delay"} : delay # Inherited \/ \E p \in Processes : tx[p].what = w}
MayChange(what) == what \notin Changed /\ Cardinality(Changed) < MaxChanges

SetDelay(p, days) ==
    /\ MayChange("delay")
    /\ Begin(p, "delay", {}, days, [Quiet EXCEPT !.days = days])

\* EventIDs: events with sales or with a row.
SweepMutant == row.status \in {"accruing", "pending"} /\ Begin(Settler, "sweep", {}, delay, [Quiet EXCEPT !.hasPix = pix])
Sweep == (Sold # {} \/ row.status # "none") /\ Begin(Settler, "sweep", {}, delay, [Quiet EXCEPT !.hasPix = pix])

(***************************************************************************)
(* Second half: lock the row, keep its decision, write, and commit with    *)
(* whatever the transaction had changed before.                            *)
(***************************************************************************)
NextStatusMutant(current, realized) == IF realized THEN "pending" ELSE "accruing"
NextStatus(current, realized) ==
    IF current \in Decided THEN current ELSE IF realized THEN "pending" ELSE "accruing"

\* No row to lock: whatever another transaction writes from here on is overwritten.
MissRow(p) ==
    /\ tx[p].at = "read" /\ row.status = "none"
    /\ tx' = [tx EXCEPT ![p].at = "missed"]
    /\ UNCHANGED <<order, event, past, settings, pix, row, credit, transfer>>

\* The Settler holds what cannot be transferred for want of a key, and
\* releases it once there is one; a release recomputes.
SettledMutant(r, hasPix) ==
    IF ~hasPix /\ r.status = "pending" /\ r.values.net > 0
    THEN [r EXCEPT !.status = "on_hold", !.reason = "verificacao_bancaria"] ELSE r

Settled(r, hasPix) ==
    CASE ~hasPix /\ r.status = "pending" /\ r.values.net > 0 ->
            [r EXCEPT !.status = "on_hold", !.reason = "verificacao_bancaria"]
      [] hasPix /\ r.status = "on_hold" /\ r.reason = "verificacao_bancaria" ->
            [status |-> NextStatus("accruing", Realized), values |-> OwedNow, reason |-> "none"]
      [] OTHER -> r

Commit(p) ==
    /\ tx[p].at = "missed" \/ (tx[p].at = "read" /\ row.status # "none")
    /\ LET t == tx[p]
           current == IF t.at = "missed" THEN "none" ELSE row.status
           written == [row EXCEPT !.status = NextStatus(current, t.realized), !.values = t.values]
       IN  /\ row' = IF p = Settler THEN Settled(written, t.hasPix) ELSE written
           /\ order' = [o \in Orders |-> IF o \notin t.order THEN order[o]
                                         ELSE IF t.what = "refund" THEN "refunded" ELSE "paid"]
           /\ credit' = IF t.owes THEN credit \cup t.order ELSE credit
           /\ delay' = IF t.what = "delay" THEN t.days ELSE delay
           /\ UNCHANGED policy
    /\ tx' = [tx EXCEPT ![p] = Quiet]
    /\ UNCHANGED <<event, past, pix, transfer>>

(***************************************************************************)
(* Decisions: one UPDATE each, of a row that may not be there.             *)
(***************************************************************************)
HoldPayout(reason) ==
    /\ row.status \in {"accruing", "pending", "on_hold"}
    /\ row' = [row EXCEPT !.status = "on_hold", !.reason = reason]
    /\ UNCHANGED <<order, event, past, settings, pix, credit, tx, transfer>>

\* A release recomputes in the same transaction, its row locked.
ReleasePayout ==
    /\ row.status = "on_hold"
    /\ row' = [status |-> NextStatus("accruing", Realized), values |-> OwedNow, reason |-> "none"]
    /\ UNCHANGED <<order, event, past, settings, pix, credit, tx, transfer>>

\* The admin transfers what the row says and marks it, with the receipt.
MarkPaid ==
    /\ row.status \in {"pending", "on_hold"}
    /\ row' = [row EXCEPT !.status = "paid"]
    /\ transfer' = IF row.values = OwedNow /\ \A p \in Processes : tx[p].at = "idle"
                   THEN row.values.net ELSE 0
    /\ UNCHANGED <<order, event, past, settings, pix, credit, tx>>

\* Cancelling the event cancels its payout, if there is a row and it is not paid.
CancelEvent ==
    /\ event = "published"
    /\ event' = "cancelled"
    /\ row' = IF row.status \in {"none", "paid"} THEN row
              ELSE [row EXCEPT !.status = "cancelled", !.values.due = NoDate]
    /\ UNCHANGED <<order, past, settings, pix, credit, tx, transfer>>

\* The panel moves the event to a date to come, whatever its status, and
\* nobody recomputes.
PatchEvent ==
    /\ past
    /\ past' = FALSE
    /\ UNCHANGED <<order, event, settings, pix, row, credit, tx, transfer>>

\* A refund policy is saved, for the house or for the event, and applies to
\* what was refunded before it; nobody recomputes here either.
SavePolicy(whose, bearer) ==
    /\ MayChange(whose)
    /\ policy' = [policy EXCEPT ![whose] = bearer]
    /\ UNCHANGED <<order, event, past, delay, pix, row, credit, tx, transfer>>

EventHappens ==
    /\ ~past
    /\ past' = TRUE
    /\ UNCHANGED <<order, event, settings, pix, row, credit, tx, transfer>>

\* A key is replaced but never removed.
PayoutAccount ==
    /\ ~pix
    /\ pix' = TRUE
    /\ UNCHANGED <<order, event, past, settings, row, credit, tx, transfer>>

Write(p) == MissRow(p) \/ Commit(p)

Next ==
    \/ \E p \in Clients :
          \/ \E o \in Orders : Confirm(p, o) \/ Refund(p, o)
          \/ Look(p)
          \/ \E days \in Days : SetDelay(p, days)
    \/ Sweep
    \/ \E p \in Processes : Write(p)
    \/ \E reason \in {"verificacao_bancaria", "decisao_admin"} : HoldPayout(reason)
    \/ ReleasePayout \/ MarkPaid
    \/ CancelEvent \/ PatchEvent \/ EventHappens \/ PayoutAccount
    \/ \E p \in Policies : SavePolicy(p[1], p[2])

Spec == Init /\ [][Next]_vars

\* Transactions end and the Settler's ticker ticks; nothing else need happen.
FairSpec ==
    /\ Spec
    /\ WF_vars(Sweep)
    /\ \A p \in Processes : WF_vars(Write(p))

(***************************************************************************)
(* Properties.                                                             *)
(***************************************************************************)
\* "Um recalculo de rotina nao desfaz decisao": nothing undoes a payment or a
\* cancellation, and no sale, refund, panel or sweep undoes what an admin holds,
\* whatever is being recomputed -- but for a transaction that found no row to lock.
Missed == \E p \in Processes : tx[p].at = "missed"
HeldByAdmin == row.status = "on_hold" /\ row.reason = "decisao_admin"
DecisionsStand ==
    [][~Missed => /\ row.status \in {"paid", "cancelled"} => row'.status = row.status
                  /\ HeldByAdmin => UNCHANGED tx \/ row'.status \in Decided]_vars

\* After the payout, every cent the refunds take back from the producer is on
\* record as a credit, provided the row was exact and no refund was under way
\* when the payment was marked.
CreditsCoverThePayout ==
    transfer <= SumOf(Face, Sold \ Back) + SumOf(Face, credit)

\* A stale row is stale for hours, never forever: once the date stands, the
\* values catch up with the sales and the refunds, however many transactions
\* overwrote each other.
RowCatchesUp == <>[]past \/ <>[]~past => <>[](Sold # {} => row.values = OwedNow)

\* The payout falls due once the event happened, with nobody opening a screen;
\* and no payout stays due for an event that was cancelled or postponed.
PayoutFollowsTheEvent ==
    /\ <>[](event = "published" /\ past) => <>[](Sold # {} => row.status # "accruing")
    /\ <>[](event = "cancelled" \/ ~past) => <>[](row.status # "pending")

\* A payout held for want of a key is released once there is a key.
KeyReleasesPayout ==
    []<>(pix => ~(row.status = "on_hold" /\ row.reason = "verificacao_bancaria"))

(***************************************************************************)
(* What the package's comment says and the model refutes.                  *)
(***************************************************************************)
\* "Tambem nao existe adiantamento antes do evento".
NoAdvance == [][row'.status = "paid" /\ row.status # "paid" => Realized]_vars
=============================================================================
