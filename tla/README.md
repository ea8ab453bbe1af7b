# A verification development for the ticketing platform

TLA+ modules, TLC configurations and TLAPS proofs for the Go server in `src/`
(`cmd/server`, `internal/*`) and its PostgreSQL schema (`db/migrations`). The
code is the reference: a definition translates the Go or SQL it is mapped to in
`PROJECT.json`, and where a comment or a document says otherwise the difference is
a finding, not a correction of the model.

## 1. The system

A producer publishes events; an event has lots (ticket types with a capacity) and,
sometimes, a map of numbered seats. A buyer reserves through a checkout session,
logs in, pays through an external gateway, and gets tickets when the gateway's
webhook says the charge is paid. All state is in PostgreSQL, one schema per producer
plus a public one; the server is a set of HTTP handlers and of goroutines that wake
on a timer. What interleaves is transactions (READ COMMITTED, with explicit row
locks), the gateway, and the clock.

| Part | State | Operations | Talks to |
| --- | --- | --- | --- |
| Lots and catalog (`internal/catalog`) | `lots`: `quantity`, `sold_count`, `held_count`, place in the queue; `lot_links` | `ReserveFromLot`, `ReleaseFromLot`, `ConfirmFromLot`, `RefundFromLot`, the current lot, links | every sale, under the lock of the lot's row |
| Reservation engine (`internal/inventory`) | `holds`, `seat_occupancy` | `Hold`, `Release`, `Confirm`, `ExpireDue`, `ReleaseAbandonedLotHolds`, the anti-hole rule | sessions, orders, courtesies; its sweeper runs every 30 s |
| Checkout sessions (`internal/checkout/session.go`) | `checkout_sessions` | create, resume, change, auth-started, bind, pay, expire | reservation engine, lots; its sweeper runs every 30 s |
| Orders and confirmation (`internal/checkout/checkout.go`, `internal/api/checkout.go`) | `orders`, `order_items`, `payments`, `payment_index`, `webhook_events`, `tickets` | `finalizeOrder`, the webhook, `ConfirmPayment` | gateway, lots, reservation engine, coupons, ledger, outbox |
| Courtesies (`internal/checkout/guests.go`) | `guest_list_entries`, `tickets` | `IssueCourtesy` | seats, emission |
| Refunds (`checkout/refund.go`, `request.go`, `policy.go`, `api/refund*.go`) | `refunds`, `refund_tickets`, `refund_requests` | reserve, call the gateway, complete or fail; the gateway's own notice | lots, seats, ledger, payouts |
| Event cancellation (`checkout/cancel.go`, `api/cancel.go`) | `refund_jobs` | cancel, claim, refund, retry | refunds, attestation |
| Pricing, fees, installments | `asaas_fee_table` and each replica's copy | `Compute`, half price, coupon, installments, the fee table | orders, gateway |
| Payouts (`internal/payout`) | `event_payouts`, `recoverable_credits`, settings | `Recompute`, hold, release, mark paid, settle | every movement of money |
| Attestation (`internal/attest`, `internal/chain`) | `event_attestations`, `event_commitments`, `chain_jobs` | close, supersede, anchor, quotas | gate, refunds |
| Gate (`internal/gate`) | `checkins`, `attendance_records` | check-in, re-entry, reconciliation of offline batches | tickets |
| Emission and reissue (`internal/ticketing`, `internal/nft`) | token and status of tickets | sign, reissue, dispute | gate, transfers |
| Transfers and resale (`internal/transfer`, `internal/market`) | `transfers`, listings, the chain of title | give, list, buy, confirm, withdraw | orders, tickets |
| Season passes (`internal/season`) | passes, purchases | buy, confirm | lots, tickets |
| Waitlist and coupons (`internal/promo`) | `waitlist`, `coupons` | join, notify, redeem | confirmation |
| Notifications (`internal/notify`) | outbox | enqueue, claim, send, mark | everything that mails |
| Ledger (`internal/program`) | `ledger_entries` | settle an order | confirmation, payouts |
| Accounts, producers, moderation, audit, dashboards, configuration | their tables | edits and queries | |

**Hard behaviours.** A reservation is two resources (units of a lot and seats) with
three different deadlines (hold, occupancy, session) and a fourth once there is an
order. Two sweepers give reservations back while buyers change, pay and log in. A
payment spans a database transaction, an external call and a webhook that may come
early, late, twice, or fail half-way. Several handlers read a row without a lock and
write it later. Some loops skip locked rows. `PROJECT.json` lists each such hazard at
its line, with the properties that look for it or the reason there is none yet.

**What makes each part correct.** Lots: never more sold than there are; what is held
is exactly what somebody may still buy. Reservation engine: one owner per seat, all or
nothing, a live hold keeps its seats, an abandoned one loses them. Sessions: every end
of a session gives back once what it took. Confirmation: a payment gives its tickets
once, and a ticket stays. Refunds: money and tickets go back once, together.
Cancellation: everybody who paid is refunded, in spite of failures. Payouts: what is
owed to a producer is what was sold less what went back, and decisions stand.
Attestation: one first version, and a newest one that is true. Gate: one entry per
ticket, one verdict per scan. Titles: one valid ticket per place, an owner for each, and
a chain between them. Shop: the lot on offer is the right one, and cents add up. Passes:
one issue at a time. Outbox: a message leaves if and only if what it says is so. Anchors: no
receipt without a transaction. Fees: the price is the gateway's. Section 3 says
which of these the code keeps, and where it does not.

## 2. The modules

One group of modules per part of the platform. Groups share no variable: what one
needs of another is a step of its environment (the sale, in the modules that come
after it). Each `MC` module gives values to constants;
`MCShop` and `MCBackstage` also choose, at the start, which side of the system a behaviour shows.

| Module | What it is |
| --- | --- |
| `Lots` | The counters of a lot: each UPDATE of `catalog.go` as a function from the table to the table, and the CHECK `lots_capacity_chk`. |
| `Inventory` | The reservation engine: `holds`, `seat_occupancy` and `tickets` as one record, and each statement of `inventory.go` as a function on it. EXTENDS `Lots`. |
| `Checkout` | Sessions, orders, charges, notices, sweepers, courtesies and time. EXTENDS `Inventory`. |
| `SeatSales` | Abstract specification of `Checkout`: who owns each seat, and which reservations are in force. Nothing about clocks, sessions, orders or money. |
| `RefundShares` | How an order's face value is spread over its tickets. |
| `Refunds` | Requests, the refund in three phases, the gateway's notices, the cancellation of an event and its worker. EXTENDS `RefundShares`. |
| `MoneyBack` | Abstract specification of `Refunds`: a ticket is sold, its money comes back, it is burned. |
| `Payouts` | The row of `event_payouts`, recomputed and decided upon. |
| `Attestation` | The closings of an event, its versions, the commitments and the half-price quota. |
| `Gate` | Offline batches, online validations, their transactions and index waits. |
| `Titles` | The ticket of one place: gifts, reissues, disputes, resale, refund. |
| `Prices` | Half price, coupon, fees, rounding, installments: operators only. |
| `Shop` | Lots in a queue, links, coupon, edits, publication and the order's prices. EXTENDS `Prices`. |
| `Outbox` | The queue of messages and its workers. |
| `Season` | Season passes and the waiting list, which speak through the outbox. EXTENDS `Outbox`. |
| `Anchors` | The queue of anchor jobs and its workers. |
| `Fees` | The table of the gateway's fees, in memory and in the database. |
| `MCCheckout`, `MCRefunds`, `MCPayouts`, `MCAttestation`, `MCGate`, `MCTitles`, `MCShop` | Constants of the runs. |
| `MCBackstage` | `Season`, `Anchors` and `Fees` in one run, one of them per behaviour: the passes with the workers that mail, or with more dates, notices and refunds and no mail. |
| `Tables` | What a statement writes to a table. Used by `Season`, `Anchors` and `Shop`. |
| `Sums` | What a sum over a finite set is: lemmas for `CheckoutProofs`, `RefundProofs`, `PayoutProofs` and `ShopProofs`. |
| `CheckoutProofs` | Theorems of `Inventory` and `Checkout`, and the refinement of `SeatSales`. |
| `RefundProofs` | Theorems of `Refunds` and `RefundShares`, and the refinement of `MoneyBack`. |
| `PayoutProofs` | Theorems of `Payouts`. |
| `GateProofs`, `TitleProofs` | Theorems of `Gate` and of `Titles`. |
| `BackstageProofs` | Theorems of `Attestation`, `Anchors`, `Outbox` and `Season`. |
| `ShopProofs` | Theorems of `Shop` and `Prices`. |

### Checkout: composition

`Lots` and `Inventory` are operators rather than state machines because the code
composes them inside one transaction: `ReleaseFromLot`, `Release`, `ReserveFromLot`
and `Hold` run one after the other in `UpdateSession`, and only their composition is
ever visible. `Checkout` holds the tables as variables and composes the operators.

### Checkout: state

| Variable | Code |
| --- | --- |
| `lot[l]` | `lots.sold_count`, `lots.held_count` |
| `inventory.occ[s]` | the row of `seat_occupancy` of seat `s` that is not `released` (the unique index allows one) |
| `inventory.hold[h]` | `holds`: status, `order_id`, ticks to `expires_at`, and the seats it took |
| `inventory.tickets` | `tickets`: order, lot, seat; courtesies have no order |
| `session[s]` | `checkout_sessions`: status, `anon_token`, items, `hold_id`, `grace_applied`, ticks to `expires_at` |
| `order[o]` | `orders` with its item and payment; "reading" and "charged" are an order whose transaction is still open |
| `charge[o]` | the charge at the gateway |
| `notice[o][e]` | where the webhook event `e` of the charge is: its row in `webhook_events`, its transaction, its answer |

### Checkout: actions

| Action | Code |
| --- | --- |
| `CreateSession`, `ResumeSession` | `POST /checkout/sessions`, the two ways through `checkout.CreateSession` |
| `PatchSession` | `PATCH /checkout/sessions/{id}` → `UpdateSession` |
| `AuthStarted`, `BindSession` | the grace, and the log-in |
| `PayBegin`, `CreateCharge`, `PayCommit`, `PayAbort` | `POST /checkout/sessions/{id}/pay`: the unlocked read, the gateway call inside the transaction, the commit, the rollback |
| `PayCharge` | the gateway: the buyer pays; from then on its events may come |
| `NoticeSeen`, `ConfirmRead`, `ConfirmPayment`, `NoticeFails`, `NoticeResent` | the webhook: the event id is committed, the order is read, the order is confirmed; an error; the next delivery |
| `SweepInventory`, `SweepSessions` | the two sweepers |
| `IssueCourtesy` | a courtesy of the producer |
| `Tick` | time |

### Checkout: atomicity, and why

A transaction is one action when every row it decides on is locked, or protected by a
unique index, until it commits:

- Changes of a session lock its row (`lockSession`), so release and reservation are
  one step. `UpdateSession` is modelled for selections of the session's own event.
- `ConfirmPayment` is split after its read of `orders.status`, which takes no lock.
  From `ConfirmFromLot` on it holds the lot's row, which every other reservation of the
  lot takes first, and it is one step. The deadline of the hold is compared with
  `now()`, which PostgreSQL fixes at the start of the transaction: `ConfirmRead`
  records the outcome ("confirming" or "refusing"), and time and other
  transactions may pass before `ConfirmPayment`.
- The sweepers' `FOR UPDATE SKIP LOCKED` skips rows other transactions hold: the
  effect is that of sweeping them before or after. In `expireOwnedSessions` a skipped
  row is not visited again, so `CreateSession` and `ResumeSession` expire any subset of
  the browser's other sessions.
- A deadlock that the database aborts, a serialisation with the sweeper, a crash and a
  processing error of the webhook are all `NoticeFails`: rolled back, answered with an
  error.
- Errors of eligibility, price, coupon, half price or gateway roll back: the action is
  not taken, or is `PayAbort`.
- The row lock `finalizeOrder` keeps on the hold while it calls the gateway is not
  modelled; the model allows the interleavings it forbids.
- A buyer through another lot does not wait for that row, and `inventory.Confirm` selects
  the occupancies without a lock (`inventory.go:179-213`). Where lots share seats the
  confirmation is then not one step; the unique indexes of `seat_occupancy` and `tickets`
  stand behind it. The runs have one lot.
- The limits per IP are counted without a lock, and two creations of one browser may
  not see each other. `CreateSession` is atomic: no property here depends on it (section 5).

### Checkout: abstractions

Prices, coupons, links, names and mail do not appear. Deadlines count down in ticks to
zero; the occupancy's deadline goes on below zero as far as the grace, because the
grace is added to it. A paid charge has the webhook events `Events` (the gateway posts
PAYMENT_CONFIRMED and PAYMENT_RECEIVED, and the code takes either as a confirmation), in
any order, each delivered again when it was not answered 200. The row of `payments`,
locked by the confirmation, is the guard that one event of an order is in processing at
a time. `SUM(...)::int` of the sweep is the conjunct that what is owed is a
natural number. Tickets without a seat are numbered in the order they are issued, so
that each is a distinct row: a second issue is more tickets, not the same ones.

### Refunds

State: `order`, `ticket`, `admitted` (tickets that entered), `sold` (the lot's
counter), `refund` (rows of `refunds` with their tickets), `request` (the last row of
`refund_requests` of each order), `cancelled`, `job` (`refund_jobs`), `gateway` (the
refunds the gateway made of each charge, by the key it was given), `notice`, `run` (the
refund each process runs), `todo` (the jobs a worker claimed), `faults`.

| Action | Code |
| --- | --- |
| `AskRefund`, `AskFavour`, `Approve`, `Reject` | the buyer's withdrawal, the discretionary request, and the producer's or admin's decision (`api/refund_request.go`, `checkout/request.go`) |
| `RunRefund(p)`: `Reserve`/`FailRequest` | `PrepareRefund`: eligibility, refundable tickets, the share of the face, in one transaction under the order's lock |
| `GatewayRefunds`, `GatewayHasRefunded`, `GatewayAnswerLost`, `GatewayDeclines` | the call, outside any transaction, and what it may answer; `ErrRefundAlreadyExists` is a success that moves no money |
| `GiveUpRequest`, `GiveUpRefund`, `GiveUpBoth`, `GiveUpFails`, `ApplyEffects`, `EffectsFail` | `FailRefund`; a transaction of it that fails and is only logged; `CompleteRefund`, and a third phase that fails |
| `RefundPayment`, `IgnoreNotice`, `RefundOutside` | the gateway's notice of a refund, the echo filter, and a refund nobody here asked for |
| `CancelEvent`, `ClaimJobs`, `BeginJob`, `FinishCancelJob`, `RetryCancelJob`, `LoseCancelJob`, `ReopenCancelJob` | the cancellation and its worker (`api/cancel.go`); `LoseCancelJob` is a finish or a retry that fails and is only logged |
| `ConfirmPayment`, `Checkin` | environment: the sale and the gate |
| `Crash(p)` | the process dies between two transactions |

`faults` is chosen at the start: none, a third phase that fails, a gateway answer
that is lost, a crash, or a transaction whose failure the code only logs ("logged":
`api/refund.go:166-183`, `api/cancel.go:313-329`; a client that disconnects is enough, the
call runs on its context). Each behaviour has one kind of fault, at any of its places and
as often as it likes. `GatewayHasRefunded` asks that all of the charge is back already,
which is when the gateway says so. A property that excepts a fault says so in its definition.

### Payouts

State: `order`, `event`, `past` (did the date go by), `delay` and `policy` (settings
of the event and of the house), `pix`, `row` (`event_payouts`), `credit`
(`recoverable_credits`), `tx` (transactions between the sums they read and the row they
write), `transfer` (an observer: what was paid while nobody was at work).

`Recompute` is two steps in every transaction that ends with it, because its sums take
no lock and its row, if there is one, does: `Confirm`, `Refund`, `Look`, `SetDelay` and
`Sweep` begin (`Begin` reads the sums), `MissRow` is a row that was absent when it was
looked for, and `Commit` writes. `HoldPayout`, `ReleasePayout`, `MarkPaid` are the admin's,
`CancelEvent`, `PatchEvent`, `PayoutAccount`, `SavePolicy` the panels', `EventHappens` is
the clock. The reads of `Recompute` (`payout.go:188-236`) are statements of their own
under READ COMMITTED; `Begin` takes them at one moment. `SetDelay` is the event's delay: the
default of the house (`payout.go:161-169`, `admin_payouts.go:310-317`) is not modelled.

### Attestation

State: `ticket`, `inside`, `shares` and `half` (what the record is made of), `event`,
`stale` (`attestation_stale`), `refund_jobs`, `rows` (versions, in the order they were
inserted), `work` (the closings under way), `edit`, and the observers `byHand`,
`unpublished`. `Close` is three steps, `RecloseIfClosed`/`CloseEvent`/`Closer` (who
closes), `Look` (build the record, find the current version) and `Insert`. The code builds
the record with many statements, and `BuildRecord` reads it at one moment. An edit
(check-in, commitment, half-price declaration) checks and writes in two steps, `BeginEdit`
and `CommitEdit`. `Refund`, `WorkerStep` and `JobFails` are the refunds that reclose;
`CreateOrder` and `Confirm` are the sale with the half-price quota.

### Gate

State: `burned`, `closed`, `checkins` (committed), `attendance`, `request` (each
transaction with the rows it inserted and nobody sees yet), `device`, and the observers
`told`, `twice`. `Send` is a device posting its batch, again if it heard nothing; `Look`
and `Insert` are one scan, which waits while another transaction has inserted the same
key; `Abort` is a batch rolled back, whatever the reason: a deadlock the database breaks, an
error of SQL, a request that is cut off (`gate.go:159-202`); `Commit(reaches)` ends
with or without the device hearing of it.

### Titles

State: `seated`, `ticket` (the sequence of tickets of one place), `directory`,
`disputed`, `contest`, `chain` (`transfers`), `listing`, `refund`, `mover`, `moves`, and
the observers `crossed` (a mover committed over a change it did not see) and `strayed` (a
move that does not touch the directory). Ten ways to move a ticket share the two steps
`Look` and `CommitGift`/`CommitReissue`/`CreateListing`/`ConfirmResale`; they differ in
what `Look` checks, who holds the ticket afterwards and whether the directory is told.
`BuyListing`, `PayResale`, `CancelListing` are the market; `PrepareRefund`,
`CompleteRefund`, `OpenDispute`, `Enter`, `WindowPasses` the rest. `Provenance(t)` is what
`GetProvenance` shows: the transfers of that `ticket_id` (`market.go:270-275`). A reissue is
a new id, whose provenance starts empty, with who held the ticket it replaced (`Origin`).
`chain` is in the order of the commits; the code sorts by `created_at`, the start of the
transaction, and the two agree while movers do not cross, which is when `ChainOfTitle` speaks.

### Shop

State: `status` and `directory` (the public listing), `lot` and `link` (the rows there are, by
their key: a lot's columns and its two counters), `uses` (the
coupon), `order` (each buyer's way from the offer to the bill), `edit` (an `UpdateLot`
between its read and its write), `ledger`, `now`. Buyers take `CreateSession`, `Resolve`,
`Reserve`, then `PayBegin` and `PaySession`, `ConfirmRead` and `ConfirmPayment`: payment and
confirmation are split at the reads that take no lock (`api/session.go:311`,
`checkout.go:416`). `PayAgain` is another request paying the same session, which makes a second
order on one reservation; `ExpireSession` is a session swept, changed or left, also under its
payment, and `CancelOrder` an order swept, also under its confirmation. Three observers follow
the units: `unpaid`, the sessions that may still be paid; `reserved`, those whose units nobody
has given back; `excess`, what each order took off `held_count` that was not its session's any
more. The producer creates and edits
lots, links and the coupon, publishes, suspends and cancels; `Tick` is time. What is on offer
is a set of places in the queue, whose order is the numbers'; `Settled` is the flag of the
loop in `AvailableLots` after each of its turns. The bill is computed by `Prices`.

`pricing.go` and `applyCoupon` divide floating-point numbers. `Prices` does not reproduce
them: where the float may round otherwise than the exact quotient does, the amount is any
of a set (`Totals`: a quotient that is whole may come out a cent higher, as the face 44960 by Pix;
`Discounts`: half a cent goes either way). What the gateway keeps of a charge is its own
arithmetic, in whole cents (`GatewayKeeps`, external); the code's estimate of it
(`GatewayFeeCents`) is not modelled.

### Outbox, Season, Anchors, Fees

`Outbox`: `notes` (rows, some in transactions still open), `worker` (what each replica has
locked and will write), `inbox` (what the mail service accepted), `faults`. `Pass(k)` is
the worker's loop statement by statement; `LoseBatch` a rollback after mails left,
`LoseAnswer` an answer that did not come, `Resend` the panel's button. `Season`: `pass`,
`order`, `payment`, `tickets`, `repasse`, `waitlist`, `notice`; a notice is a transaction
whose rows are visible when it commits. `CompleteRefund` gives back any of a pass's active
tickets, which leaves its order "partially_refunded" and its payment confirmed while some
remain (`refund.go:326-349`). `Anchors`: `enabled` (the anchorer's), `anchor`, `jobs`, `request`, `batch`,
`chain`, `stops`; `Reanchor` reads, `EnqueueAnchor` and `MarkPending` write, `AnchorPass` is
the worker and `LoseJobs` a replica that stops. `Fees`: `current` and `up` (the gateway),
`cached`, `stored`, `ready`, `call`; every statement of `Current` and `Refresh` is a step.

## 3. The runs

| Run | Instance | Checks |
| --- | --- | --- |
| `Seated` | 2 buyers, 2 numbered seats (both, or one), 2 holds, 1 order | `LiveHoldOwnsSeats`, `SessionOwnsItsHold`, `TicketsArePermanent`, `ImplementsSeatSales` |
| `Standing` | 2 buyers, 2 orders, standing room for 3 sold in ones and twos | `NeverOversold`, `SoldIsIssued` |
| `Browsing` | 2 browsers, a row of 3 seats with the anti-hole rule and a standing event, nobody pays | `HeldIsExactBeforePaying`, `NoIsolatedSeat` |
| `Sweepers` | 1 buyer, 2 seats or standing room, 1 order, 2 events of its payment, 1 courtesy, with fairness | `IssuedExactlyOnce`, `SeatSoldOnce`, `SweepersReachAll` |
| `Refunds` | 1 order of 2 tickets at different prices, one of which may enter; 1 handler, 1 worker, 3 rows of refunds, 2 attempts of a job; one kind of fault per behaviour | `ReturnedOnce`, `CountersFollowTickets`, `NothingHeldForNothing`, `JobsEnd`, `ImplementsMoneyBack` |
| `Payouts` | 2 orders whose fees round, one refundable; 1 transaction beside the settler; 1 change of settings | `CreditsCoverThePayout`, `DecisionsStand`, `RowCatchesUp`, `PayoutFollowsTheEvent` |
| `Attestation` | 2 tickets, one sold before and one half price; 2 commitments that together pass 100 %; owner, timer, worker and 1 handler closing; 1 editor | `OneFirstVersion`, `NewestIsTrue`, `NoVersionAmidTheBatch`, `ClosingEnds` |
| `Gate` | 2 tickets, 5 scans (1 online, 1 re-entry), 2 devices that met the tickets in opposite orders, 2 transactions, 2 sendings each | `OneAdmission`, `OneFace` |
| `Titles` | 2 people, 2 listings, 2 transactions at a time, 3 moves, a seat or standing room | `OneValidPerPlace`, `DirectoryFollowsOwner`, `ChainOfTitle`, `PaidGetsTheTicket` |
| `Shop` | 2 buyers; on one side a queue of 2 lots and a hidden one behind a link, a coupon for one order, 2 kinds of purchase, 1 tick; on the other 1 lot that an edit makes 1 place. On both, several payments of one session | `OfferIsTheQueue`, `StockAddsUp`, `BooksAddUp` |
| `Backstage` | mail: 2 workers, batches of 2, 2 attempts, 1 fault, 1 pass of 1 date, pairs of notices that confirm, refund or fill a lot; passes: 1 pass of 2 dates, 3 notices that confirm and 2 that refund, refunds of any of its tickets; anchors: 1 attestation, 2 jobs, 3 requests, 2 workers, 1 stop, an anchorer enabled or not; fees: 2 replicas, 3 callers, 2 tables | `OneCopy`, `OneIssueAtATime`, `MailFollowsTheSale`, `AnchorIsReal`, `QueuesDrain`, `FeesCatchUp` |
| `UnticketedPayment` | 1 buyer, 1 order, standing room, 2 events | `PaymentsAreTicketed`: ends in a violation |

### What they show

- **Reservations.** Within its deadline a hold owns its seats, whatever the grace, the
  sweepers, another buyer or a courtesy does; a session that may be paid owns its hold
  alone, and the hold is of the seats on its page; what was sold is never taken away. Before
  anybody pays, a lot's `held_count` is exactly what the open sessions hold. The sale as a
  whole implements `SeatSales`.
- **Confirmation.** Two sessions, two orders and any number of notices issue each paid
  order's tickets once and never more than the lot has, although the order's status is read
  without a lock: what stands between a late confirmation and an oversold lot is the
  database's CHECK.
- **Refunds.** Money goes back at most once by our own doing, whoever asks, retries or
  dies; counters and statuses say what tickets there are; nothing stays reserved for a
  refund that moved no money, unless a process died or a give-up failed and was only logged;
  every cancellation job ends, after as many attempts as it takes, unless a worker died or
  could not write its end. In both the code leaves the row to a person: a ticket then stays
  reserved in vain, and a job stays "running", which no worker claims again. `ImplementsMoneyBack`: a ticket is valid until its money is back and never
  after it was burned.
- **Payouts.** Payments and cancellations are final, an admin's hold survives all
  recomputation, but for a transaction that found no row to lock. A row overwritten with old
  sums is corrected by the settler. A refund after an exact payment is a credit to recover.
- **Attestation.** However closings race, one version is the first; the batch of a
  cancellation publishes once, at its end, unless a refund crossed another closing; the newest version is the truth after every
  refund unless something changed meanwhile (`unpublished`, see section 5).
- **Gate.** One admission per ticket over any number of devices and resendings; a scan
  sent again has the verdict it had, while one request at a time carries it.
- **Titles.** One valid ticket for a numbered seat always, and for standing room while
  transactions do not cross; then too the provenance of each ticket, by its own id, leads
  without a gap from where it came to who holds it. It does not go back over a reissue
  (`CompleteProvenance`, below). Who paid a listing gets its ticket, crossings or not.
- **Shop.** The offer is the queue's rule for every mix of dates and stock; order, items, ledger
  and dashboard agree to the cent. `sold_count` is the units of the paid orders and the
  counters never pass the quantity, through edits that read an old row. `held_count` is the
  units reserved, less at most what a second order of one session, or an order cancelled
  while it was confirmed, took off it a second time: the code does not keep it exact once
  people pay.
- **Backstage.** Messages leave once when nothing fails and only for what was committed; a
  pass never has two issues that stand at once, though a refunded one may be issued again
  (`RefundedPassIsGone`, below); a receipt is shown only for what was written;
  queues drain, that of the anchors where its worker runs at all; every replica comes back to the gateway's own table.

### Bounds

A tick of `Checkout` stands for five minutes. The code's defaults are then: hold 2, grace
2, anonymous session 3, logged-in session 12, abandoned order 6. The runs use shorter
ones, in the same order where the order matters, so that every deadline can come before
and after every other.

The conflicts here are between two parties over one thing. Two buyers are enough to want
the same seats, and overlapping selections make partial conflicts; two holds let one expire
while its seats go to another; two orders are what it takes to sweep one while the other
is confirmed; capacity three with quantities one and two lets a wrong release hide another
buyer's units under the floor at zero; two events are what it takes to confirm one payment
twice; a row of three is the smallest with an inner seat. Two tickets are the smallest
order that can be refunded in part, and three rows of refunds let a failed one and a
partial one precede the last; two attempts of a job take both branches of a retry, the one
that queues it again and the one that gives up. One client beside the settler is the smallest crossing of two
`Recompute`s. Two shares of 60 % are what it takes to pass 100 % together. Two devices with
opposite batches are the smallest circle of waits. Two buyers are two payments of one session,
and also a payment whose session expires under it and a buyer who takes its units. Three notices of a pass let it be paid,
refunded and paid again with one to spare. Two movers are one crossing; three moves are a
gift, a reissue and a resale of what came of them. Three lots are a queue of two and one
outside it. Three anchor requests let two race and one come after. Three callers are two
of one replica that answer out of order, and one of another.

Sets of rows are used once each, which bounds the histories: `Sessions`, `Holds`, `Orders`,
`MaxRefunds`, `Listings`, `Jobs`, `Requests`. The other bounds of the models alone are
`MaxIssued`, `MaxCourtesies`, `Choices`, `Goers`, `Refundable`, `Days`, `Policies`,
`MaxChanges`, `MaxByHand`, `MaxTries`, `MaxMoves`, `MaxTime`, `Patches`, `Asks`,
`Deliveries` (`Pairs` and `Series` in `MCBackstage`), `MaxFaults`, `MaxStops` and `Last`; each is named where it is declared.
`MaxAttempts` and `AnchorAttempts` are the code's own limits, made small. Deadlock is checked
in the runs of `Checkout`; in the others (`CHECK_DEADLOCK FALSE`) the story really ends when its
bounded moves are used up: in `Refunds`, when every order is settled and every notice handled. Symmetry is used only where all properties
are safety.

### Fairness

Every fairness condition is weak and of something the server does by itself, but for the
anchor worker's, which is of a server whose anchorer is enabled:

- `Checkout`: `Tick`, `SweepInventory`, `SweepSessions`. Time passes, and the sweepers are
  goroutines started with the server that run every 30 seconds, tenant by tenant, logging an
  error and going on (`inventory/sweeper.go:33`, `checkout/session.go:517`). Nothing is
  assumed of buyers, of the gateway or of the webhook, and a sweep that is always undone by
  a buyer need not end anything: `SweepersReachAll` says that a session does not stay due.
- `Refunds`: a process in the middle of a refund goes on, and the cancellation worker runs
  (`api/cancel.go`); people and notices may never come.
- `Payouts`: the settler sweeps (`payout/settler.go:34`) and transactions end.
- `Attestation`: the closer and the cancellation worker run, and closings under way end.
- `Backstage`: the loops of both workers, retries that fall due, transactions and fee
  calls that end, a cached table that expires. Nobody buys, asks or is notified by fairness.
  The loop of the anchor worker is a hypothesis: `AnchorWorker.Run` returns at once when the
  anchorer is not enabled (`attest/worker.go:136`, `cmd/server/main.go:204-223`), and neither
  of the two that ship is, while `reanchorEvent` (`api/attest.go:211-230`) queues its job all the
  same. `enabled` in `Anchors` is either: `QueuesDrain` says what an enabled anchorer makes true of
  its queue, `ReanchorIsServed`, below, what the shipped server does not.

### Promises the code does not keep

`UnticketedPayment` is the run: a card is captured by `CreateCharge` inside the
transaction that creates `payment_index`, so a notice that overtakes the commit is
acknowledged as unknown, and the notice of an order already cancelled is acknowledged too;
nobody refunds the payment. `SPEC.md:42` promises the ticket once it is paid.

The modules state other sentences of comments and documents that the model refutes, after
the properties that hold. Each can be seen by adding it to the configuration named.

| Property | Sentence | Configuration | What happens |
| --- | --- | --- | --- |
| `PendingIsHeld` | `checkout.go:164`, an order comes from a reservation already made | `Standing` | Two payments of one session share one reservation. |
| `CancelledStaysCancelled` | `checkout.go:421`, a cancelled order issues nothing | `Standing` | The sweeper cancels between the confirmation's read and its write. |
| `ResentNoticeIsProcessed` | `api/checkout.go:363`, the gateway sends again what was not answered 200 | `Standing` | The second delivery is taken for a duplicate: the event id was committed before the failure. |
| `PaidOrdersHaveTheirSeats` | `checkout.go:471`, a hold becomes tickets | `Seated` | The hold expired while its session and its order lived on. |
| `HeldIsReserved` | `session.go:387`, the reservation is given back | `Seated` | A session with seats gives back its hold and not its units of the lot. |
| `BrowserOnOneEvent` | `session.go:169`, sessions of other events expire | `Browsing` | A session locked by another tab is skipped. |
| `LinkLimit` | `links.go:151`, the conditional UPDATE guarantees the limit | `Shop` | The limit is checked before paying and the UPDATE's refusal is ignored after. |
| `DownIsUnlisted` | `catalog.go:737`, an event off the air is not listed | `Shop` | An admin's suspension leaves the directory's row. |
| `FailedLetsGo` | `refund.go`, a failure in the middle leaves tickets free | `Refunds` | A third phase that fails leaves the refund pending and its tickets reserved. |
| `DoneJobIsReturned` | `api/cancel.go:287`, everybody is refunded | `Refunds` | A job that meets an open request is done, and the request may be rejected. |
| `FaceAddsUp` | `refund.go`, no cent appears or disappears | `Refunds` with `Price <- EvenPrices`, `Face <- OddFace` | Two partial refunds round the odd cent up twice. |
| `NoAdvance` | `payout.go:13`, no advance before the event | `Payouts` | The event is postponed after its payout fell due. |
| `CurrentIsTheLast` | `attest.go:346`, `Current` is the version in force | `Attestation` | It is the one that supersedes none: the first. |
| `HalfPriceHolds` | `halfprice.go`, the commitment holds at the sale | `Attestation` with both tickets at half price and none sold before | Two pending orders are each under the quota. |
| `PresentWereSold` | the record counts people who came among those who bought | `Attestation` | A check-in counts whatever became of its ticket. |
| `SameScanIsIdempotent` | `gate.go:157`, the same scan in a race is idempotent | `Gate` | Two requests with one batch: the loser hears "duplicate" of itself. |
| `SameVerdict` | `gate.go`, a processed scan has the same verdict | `Gate` | A ticket burned in between makes the second verdict "invalid". |
| `OneCode` | `nft.go`, never two valid codes for one place | `Titles` | Two reissues of standing room cross: no index forbids it. |
| `AdmittedOnce` | `nft.go`, a reissue is not for who used the old one | `Titles` | The check-in comes between the reissue's look and its write. |
| `RefundedIsGone` | a refunded place has no valid ticket | `Titles` | The ticket is reissued while its refund is pending. |
| `CompleteProvenance` | `market.go:253`, the provenance shown is the complete one | `Titles` | A reissued ticket has a new id, and the transfers of the one it replaces are not shown with it. |
| `RefundedPassIsGone` | `season.go:123`, confirming is idempotent | `Backstage` | A late event of the charge issues a refunded pass again. |
| `ToldOnce` | `promo.go:77`, telling is idempotent | `Backstage` | Two confirmations read the list before either writes. |
| `AnchoredStays` | `api/attest.go:209`, only "failed" or "none" is anchored again | `Backstage` | Two requests pass the unlocked check; the second resets a job that is done. |
| `ReanchorIsServed` | `api/attest.go:209`, a manual reanchor queues the anchor again | `Backstage` | With an anchorer that is not enabled no worker takes the job, and the attestation stays "pending". |

Four more hold and are in no run, because others say more: `BurnedIsReturned` and
`FaceIsBounded` (`Refunds`), `AttendanceIsAdmission` (`Gate`), which are proved, and
`KeyReleasesPayout` (`Payouts`). `TypeOK` of `Checkout`, `Payouts` and `Anchors` is proved, and
the other modules' can be added to any of their runs.

## 4. The proofs

Every theorem is for any values of the constants that the module's named assumptions
admit: any number of lots, seats, holds, sessions, orders, tickets, people, processes,
workers and deliveries, any prices, deadlines and bounds. TLC evaluates the assumptions on
every run. Each proof has the same shape: an inductive invariant, one lemma for each
statement or action that keeps it, one temporal step. The invariants were TLC's before they
were TLAPS's: a property is rarely inductive as it stands, and what had to be added is the
argument why the code is right.

### Sales (`CheckoutProofs`)

| Theorem | Statement |
| --- | --- |
| `TypeCorrectness` | `Spec => []TypeOK` |
| `LiveHoldsKeepTheirSeats` | `Spec => []LiveHoldOwnsSeats` |
| `NoSeatIsSoldTwice` | `Spec => []SeatSoldOnce` |
| `SessionsOwnTheirHolds` | `Spec => []SessionOwnsItsHold` |
| `NothingLeaksBeforePaying` | `Spec => []HeldIsExactBeforePaying` |
| `NoReservationLeavesAHole` | `Spec => NoIsolatedSeat` |
| `NoLotIsOversold` | `Spec => []NeverOversold` |
| `SoldCountIsExact` | `Spec => []SoldIsIssued` |
| `TicketsAreIssuedOnce` | `Spec => []IssuedExactlyOnce` |
| `TicketsStay` | `Spec => TicketsArePermanent` |
| `CheckoutImplementsSeatSales` | `Spec => ImplementsSeatSales` |

    IInv == TypeOK /\ Sound(inventory) /\ CapacityChk(lot) /\ Filled

`LiveHoldOwnsSeats` is not inductive alone: it says nothing of the seats of a hold that
is over, and a grace, a sweep or a release of these could then take a seat from a live
hold. `Sound` adds that an occupied seat names a used hold that took that very seat,
and ties tickets to occupancies in both directions, which is also what makes a courtesy
or a confirmation unable to sell a seat twice; and that the tickets are finitely many.
`CapacityChk` is the database's own CHECK. `Filled` says that a row in use has a selection,
without which the counters could be moved by something that is not a number. One lemma per
statement of the reservation engine keeps `Sound`, for whatever tables it is applied to;
one lemma per action composes them in the order the transaction does.

`SessionOwnsItsHold` needs `Owns`: a hold that was taken keeps its seats and is never
free to be taken again, the seats of a session are those of its hold, and no two sessions
name one hold.

`HeldIsExactBeforePaying` is inductive as it stands, given the types; the work is in the
sums. A session that ends, changes or begins moves one term of the sum over the sessions by
exactly what it moves in the lot's counter (`Sums`, below), and the `GREATEST(...,0)` of the
release never bites, because the counter is the sum. `NoIsolatedSeat` is about a step: the
seats that were not free and are not the hold's own stay so, so that what the rule accepted
on the row it read is true of the row it wrote, for rows of any length.

    TInv == IInv /\ Linked /\ PaidOnce /\ Counted /\ IssuedExactlyOnce

`NeverOversold` follows from the CHECK once `Counted` holds: `sold_count` is at least the
number of tickets issued, and equal to it without a map. That a confirmation keeps this
needs to know how many tickets it issues. With a hold it is the seats the hold still
occupies, no more than those it took, and these are the seats of the selection the order
read from its session: `Linked`, which every reservation, change and payment of a session
must keep. Without a hold it is the quantity, and the new tickets are new only if the
order had none: `PaidOnce` says that a notice being processed has its payment pending,
and `IssuedExactlyOnce` that a pending payment has no tickets.

The refinement of `SeatSales` has `SalesInv`: `IInv`, and that the seats of a confirmed hold
are free or a ticket's (`SoldOut`), without which a confirmed hold would show as one that
still reserves. Then the initial states map to an initial state, and each action of
`Checkout` maps to one action of `SeatSales` or to a stutter; that the mapped owner and state
are functions again is a lemma of its own (`Shown`). It rests on `OwnersAssumption`, a ticket
is no hold.

### Money back (`RefundProofs`)

| Theorem | Statement |
| --- | --- |
| `TicketsReturnedOnce` | `Spec => []ReturnedOnce` |
| `CountersAreRight` | `Spec => []CountersFollowTickets` |
| `NothingIsHeldInVain` | `Spec => []NothingHeldForNothing` |
| `RefundsStayWithinTheFace` | `Spec => []FaceIsBounded` |
| `SharesCoverWhatIsLeft` | what `TicketFaces` gives out, for any prices and tickets |
| `BurnedTicketsAreReturned` | `KeyedNotices => (Spec => []BurnedIsReturned)` |
| `RefundsImplementMoneyBack` | `KeyedNotices => (Spec => ImplementsMoneyBack)` |

`RefundInv` says: a pending refund is of active tickets of its order (`OfActive`) that no
other standing refund has (`Apart`); a pending refund is run by one process at most, which
has not heard from the gateway unless it is about to apply the effects (`InHand`); whatever
the gateway gave back is on record, and stands unless its answer was lost (`OnRecord`);
a pending refund is somebody's or its tickets' money is back, unless a process died or a
give-up was lost (`Answered`); and the
counter and the orders' statuses are those of the tickets (`Books`). The hypothesis
`KeyedNotices` is a parameter of the model: that the gateway sends our keys back in its
notices. Without it a refund made in the gateway's own panel can be taken for an echo, and
the other way round (section 5), so that the refinement is of the gateway the code was
written for.

What is refunded is a sum over rows whose amounts come of `TicketFaces`, a loop that gives
cents to the heaviest ticket. `SharesCoverWhatIsLeft` says that the shares come to all that
was left, and to half a cent a ticket more at most (`mulDiv` rounds up at the half, and what
it hands out in excess is not taken back). `FaceIsBounded` is what remains true of the
comment `FaceAddsUp` quotes: several partial refunds round several times, but each starts
from what is left, so that the excess of all of them is that of one.

### Payouts (`PayoutProofs`)

| Theorem | Statement |
| --- | --- |
| `PayoutTypes` | `Spec => []TypeOK` |
| `DecisionsAreKept` | `Spec => DecisionsStand` |
| `RefundsAfterPayoutAreCredited` | `Spec => []CreditsCoverThePayout` |

`DecisionsAreKept` reads `NextStatus` off every write: it needs the types only, because a
transaction that found the row keeps a decision whatever it had summed. For the credits,
`PayoutInv` adds that two transactions never have one order in hand (`Hands`), that once an
exact payout was made a refund under way owes a credit (`AfterPayment`), and that what was
transferred is no more than the face of what is still paid and of what is credited
(`Covered`). A refund moves an order from the first sum to the second.

### Attestation, anchors, mail and passes (`BackstageProofs`)

| Theorem | Statement |
| --- | --- |
| `OneVersionIsFirst` | `Spec => []OneFirstVersion` |
| `BatchAddsNoVersion` | `Spec => NoVersionAmidTheBatch` |
| `AnchorsAreReal` | `AnchorsSpec => []AnchorIsReal` |
| `AnchorsTypes` | `AnchorsSpec => []AnchorsTypeOK` |
| `OneCopyLeaves` | `SeasonSpec => []OneCopy` |
| `OneIssueOfAPassStands` | `SeasonSpec => []OneIssueAtATime` |
| `MailTellsTheSale` | `SeasonSpec => []MailFollowsTheSale` |

`AInv` has two parts beside the types. `FirstOnes`: the versions that supersede none are one
row, numbered 1, and a closing that remembers such a row remembers one that is there; what
it inserts is then either of another number or refused by the unique index. `BatchAlone`:
an event marked `stale` was closed, and while the batch runs nobody but the producer is
between drafting and inserting.

`AnchorInv`: no two workers have one job in hand, and no request rewrites a job a worker has
locked (`OneHand`); what a worker will write keeps each job's attestation (`WritesRows`), and
says "anchored" only of what the chain holds (`WritesTruth`).

`QueueInv`, of the outbox: a row no worker remembers having sent has left no copy that was
not forgotten, and one it remembers has left one (`Copies`); a keyed subject has one writer
(`OneWriter`). `SaleInv`, of the pass: the notice that issues holds the row of the payment, so
that two notices of one order are never both between their read and their commit (`Alone`);
one that will issue found the payment unconfirmed, so that no ticket of the order is active
(`Issuing`), and no refund comes between; what is issued is issued by a notice that has
ended (`Issued`). Payment and order stand exactly while some ticket is active, which a partial
refund keeps and the last one ends. `MailInv`: every row visible in the outbox was written by a
transaction that committed what it says.

### Gate (`GateProofs`)

| Theorem | Statement |
| --- | --- |
| `EachTicketAdmittedOnce` | `Spec => []OneAdmission` |
| `OneFaceForEachScan` | `Spec => []OneFace` |
| `AttendanceIsExact` | `Spec => []AttendanceIsAdmission` |

`GInv` says that primary rows are unique per ticket, and rows with a `client_uid` unique
per scan, over the committed rows **and** those of every open transaction together: an
insert waits for the uncommitted ones, so that the commit of one keeps the union unique. Over
the committed rows alone it would not be inductive. `FaceInv` adds, for a device whose batch
one request at a time carries, that this request alone may record its scans, and that each
verdict said or told so far still stands: the scan of an admission is recorded, and that of
a duplicate is recorded nowhere. It rests on `UidAssumption`, that two devices do not share
the identifier of a scan.

### Titles (`TitleProofs`)

| Theorem | Statement |
| --- | --- |
| `ReissueReplaces` | `Spec => []OneValidPerPlace` |
| `ProvenanceIsUnbroken` | `Spec => []ChainOfTitle` |
| `DirectoryShowsTheHolder` | `Spec => []DirectoryFollowsOwner` |
| `PaidResaleDelivers` | `Spec => []PaidGetsTheTicket` |

`TitleInv` is the types, that a numbered seat has at most one active ticket, and, while no
mover has `crossed`, that only the last ticket of a place is active and each ticket's own
transfers lead from its origin to its holder, each from where the one before left it
(`Unbroken`). The first part alone does not survive a reissue, which burns the
ticket the mover had looked at: it needs the index, and for standing room the second part.
`DirectoryInv` adds the directory's row, while no move left it aside either. `MarketInv`
adds the market: a listing's status and its order's go together and with the chain, what a
mover of a resale remembers is true of the listing until it commits, and no two of them
confirm one listing; the chain only grows (`Grows`), so that a link once made stays.

### Shop and prices (`ShopProofs`)

| Theorem | Statement |
| --- | --- |
| `OfferFollowsTheQueue` | `Spec => []OfferIsTheQueue` |
| `StockIsExact` | `Spec => []StockAddsUp` |
| `BooksAgree` | `Spec => []BooksAddUp` |
| `ChargeCoversFace` | what the gateway leaves of any charge the floats may give covers the face and the platform's fee |

`OfferIsTheQueue` holds of every state: the loop's flag after `i` turns is "some lot before
settles the queue" (`SettledIs`, by a least counterexample), and the rest is logic.
`ShopInv` is the two properties, the types of the tables (`ShopTables`), that a session not yet
paid has its units and is of the order it began as (`Sessions`), and, of each buyer, that an
order on its way has a lot that exists, asks what its session asked (`OfSession`) and has a bill
that its request and the coupon may give (`GoodOrder`). Counters and books are sums over the
buyers, of which a step changes one term. An order that gives its units back moves them out of
`reserved`, or, when its session's are gone, into `excess`: either way the two bounds of
`held_count` move with it, and the `GREATEST(..., 0)` of the release only lifts it towards the lower
one. An edit that read an old row writes columns the
counters are not among. That an edit cannot take the capacity below what is reserved is the
CHECK again. `ChargeCoversFace` rests on `CeilCovers`, what a division rounded up is: the
charge is rounded up once, or is a cent more, and the gateway's percentage of it is rounded up
once more, and the second rounding must not eat the first.

### Sums (`Sums`)

Counters, credits, faces and books are `SumFunctionOnSet`, which the library defines by
recursion over the subsets of a set, and its induction theorems take an operator as a
parameter. `Sums` proves what the others need without them: among the subsets of a finite set for which a
statement fails, if there are any, one has none inside it (`Smallest`), and it is then shown
not to fail. So a recursive sum exists and is unique, adding or removing a term moves it by
that term (`SumAdd`, `SumRemove`, `SumExcept`), it splits over disjoint sets and it keeps
order. The loops (`Settled`, `TicketFaces`) are recursive functions over numbers, treated the
same way with `Least`.

### Assumptions, and what is only model-checked

Beside the types of the constants, the assumptions that say something are: `Sessions`,
`Orders`, `Tickets`, `Seats` and `Buyers` are finite (`Checkout`, `Refunds`, `Payouts`, `Shop`);
every order has a ticket (`RefundsAssumption`); a lot comes once in the queue, and the rows and edits a producer sends have
the columns of the table (`ShopAssumption`); tiers of fees take less than the whole (`FeesAssumption`);
`UidAssumption` and `OwnersAssumption`, above; a notice is of one kind of event, and the mail of the
waiting list has no key (`SeasonAssumption`, `promo.go:104`). Each is what the schema, an
identifier or the handler gives.

Three definitions are written the way they are so that they can be reasoned about: the
provenance of a ticket is a set of places in the chain, what a lot's counters count is
`SumFunction`, and what a statement writes to a table is `Over` and `OneRow` of `Tables`.

Only model-checked: the liveness properties, and the one that says what is true in the end,
because liveness under fairness and ENABLED are out of the prover's reach: `SweepersReachAll`,
`JobsEnd`, `RowCatchesUp`, `PayoutFollowsTheEvent`, `NewestIsTrue`, `ClosingEnds`,
`QueuesDrain`, `FeesCatchUp`. So `Fees`, whose only property is of this kind, has no theorem. The
fee of a refund, and that nothing less than the face goes back, are in no theorem: with one
refund pending the next one's share is too small (section 5). Every other property the runs
check is a theorem.

## 5. Seen while reading

Not checked by a run, or allowed for by a definition so that the rest can be checked.

- **Sessions.** `AuthStarted` sets the deadline to now plus the grace (`session.go:310`),
  which shortens a session that had more left. Two `CreateSession` with one `anon_token`
  (`session.go:179`) both find no live session and both reserve. The public page is read
  outside the transaction that reserves; open sessions still pay after a suspension. A
  confirmation does not compare the link's lot with the order's.
- **Prices and sales.** A coupon may be used more than `max_uses` times
  (`checkout.go:506`), and no property says otherwise. An event's lowest price is refreshed at confirmations only and counts
  hidden lots. No route leads to "finished". The dashboard's sales by lot ignore coupons
  and leave out partially refunded orders. `Summary` calls gross the sum of what was
  charged, `EventFinance` the sum of the face.
- **Fees.** In contingency the stored table is taken although the replica's own expired one
  may be newer; with nothing stored a sale does stop, in spite of `fees.go:5`.
- **Refunds.** With one refund pending, the next one's share is spread over reserved tickets
  too (`refund.go:541`). A refund whose answer was lost frees its tickets though the money
  went back, and its later notice is taken for an echo. An outside refund without a
  description, after a partial refund of ours, is ignored as an echo. An outside notice that
  meets a refund under way fails and, its event id being recorded, is lost. The mail's key
  (`api/checkout.go:184`) swallows a second partial refund. `checkin_blocks_refund` is saved
  and published, and enforced nowhere.
- **Give-ups.** When the gateway declines and the transaction that would say so fails, as it
  does when the client has gone, the refund stays pending and its tickets reserved; the error is
  in the log (`api/refund.go:166-183`).
- **Cancellation.** A crash, or a finish that could not be written (`api/cancel.go:313-329`), leaves a job "running", which no worker takes again, and the
  batch's version then never comes. A payment confirmed after the cancellation is not
  enqueued.
- **Payouts.** Two transactions that both find no row: the second may write over a decision
  (`Missed`). The settler releases an admin's hold made for want of bank verification.
  `PatchEvent` has no guard on the status; it refreshes neither the directory nor the payout. A
  policy saved later applies to refunds already made.
- **Attestation.** A webhook's refund and a sale after the closing never publish; neither
  does a closing that read before a concurrent change (`unpublished`). Percentages of
  commitments are summed without a lock. The quota of the record is of what was sold, the
  quota of the sale of the capacity.
- **Titles and market.** The panels' and the platform's reissues and wallet transfers do not
  touch `ticket_directory` (`strayed`). A listing reserved by somebody who does not pay stays
  reserved. A resale whose ticket was burned, disputed or reissued in the meantime fails and
  leaves its buyer charged. The buyer is charged the price while the order says price and
  fee.
- **Mail, passes, anchors.** The mail of a refund leaves also when `RefundPayment` found nothing
  to do (`api/checkout.go:110-114`), so that `MailFollowsTheSale` is not of it. A rolled-back batch is sent again, as is a message whose answer
  was lost; a resend does not look at the status. Tickets of a pass have no directory row and
  count in no lot. Both anchorers shipped are disabled (`chain/anchor.go:42`, `:51`): what
  the model's chain does is what the interface asks for. A stop between the chain and the
  commit writes a second transaction.

## 6. Not modelled, and why

- **Accounts and access codes**: identity, not the sale. **Producers, admins, artists,
  moderation and trust**: rows edited one at a time by one person.
- **Dashboards, audience, panorama, audit**: queries, and a log that only grows; the sums
  of the finance pages are in `BooksAddUp`.
- **Signatures, canonical bytes, the digest**: cryptography. A record is compared as a
  value. The external chain is a counter of transactions.
- **HTTP and JSON to the gateway, the rendering of mail, the text of pages**: wording and
  format. What an answer may be is in `Refunds`, `Checkout` and `Fees`.
- **Configuration, pool, start-up, the switch of schemas between producers**: the models
  take one producer. The webhook finds its producer by `payment_index`, which is in
  `Checkout`.
- **What the database guarantees**: that it ends one of two transactions that wait for each
  other, and that a transaction ends.
- **Cycles of row locks**: a transaction that the database aborts is a step of `Checkout`
  (`NoticeFails`) and of `Gate` (`Abort`); which cycles exist would need every
  transaction as a sequence of locks.
- **`CreateSession` split at its unlocked reads, the anti-hole read of two overlapping
  lots**: the first is in section 5, and no property here depends on it; the second is in
  the hazard list.
- **Programme accounts, the price of a pass, venues and maps, the offline bundle of the
  gate**: data, or tables one person edits.

What would come next: the sessions split at their reads; the two-lot read of the anti-hole
rule; a bound from below on what a full refund gives back, once pending refunds are taken
into account by the code.
