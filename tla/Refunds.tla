------------------------------ MODULE Refunds ------------------------------
(***************************************************************************)
(* Money back: refund requests, the three-phase refund of an order, the    *)
(* gateway's notices of refunds, and the cancellation of an event with     *)
(* the worker that refunds every order of it.                              *)
(*                                                                         *)
(* A refund reserves the tickets in one transaction, calls the gateway     *)
(* outside any, and applies the effects in another; everything else in the *)
(* system may happen between those steps, and a process may die there.     *)
(* An order has at most one live request (refund_requests_open_key), so    *)
(* `request' keeps the last request of each order.                         *)
(***************************************************************************)
EXTENDS RefundShares

CONSTANTS Orders, Tickets,
          OrderOf,       \* the order of each ticket
          Price,         \* the price of the item each ticket occupies
          Face, Fee,     \* the face value and the convenience fee of each order
          Handlers,      \* HTTP requests that run a refund
          Workers,       \* replicas of the cancellation worker
          Choices,       \* bound: the sets of tickets people ask for; {} is all
          Goers,         \* bound: the tickets presented at the gate
          MaxRefunds,    \* bound: rows of refunds kept at a time
          MaxAttempts,   \* attempts of a cancellation job
          Faults,        \* the combinations of faults to consider, see below
          KeyedNotices,  \* does the gateway send our keys back with a notice?
          NoOrder

(***************************************************************************)
(* "effects": the transaction of the third phase fails.  "lost": the       *)
(* gateway gives the money back and its answer is lost or unreadable.      *)
(* "crash": a process dies between two steps.  "logged": a transaction     *)
(* whose error the code only logs fails -- one that gives an attempt up,   *)
(* or writes a job down.  Every one of a handler's does once its client    *)
(* has gone away: they run on the context of the HTTP request.             *)
(***************************************************************************)
ASSUME RefundsAssumption ==
    /\ IsFiniteSet(Tickets)
    /\ OrderOf \in [Tickets -> Orders] /\ \A o \in Orders : \E t \in Tickets : OrderOf[t] = o
    /\ Price \in [Tickets -> Nat]
    /\ Face \in [Orders -> Nat] /\ Fee \in [Orders -> Nat]
    /\ NoOrder \notin Orders
    /\ Handlers \cap Workers = {} /\ Choices \subseteq SUBSET Tickets /\ Goers \subseteq Tickets
    /\ MaxRefunds \in Nat /\ MaxAttempts \in Nat \ {0}
    /\ Faults \subseteq SUBSET {"effects", "lost", "crash", "logged"} /\ KeyedNotices \in BOOLEAN

VARIABLES
    order,      \* orders.status; payments.status is 'refunded' exactly when this is
    ticket,     \* tickets.status
    admitted,   \* tickets with a primary check-in
    sold,       \* lots.sold_count of the event's lot
    refund,     \* refunds and refund_tickets
    request,    \* the last row of refund_requests of each order
    cancelled,  \* events.status = 'cancelled'
    job,        \* refund_jobs
    gateway,    \* the refunds the gateway has made of each charge
    notice,     \* refund notices on their way to the webhook
    run,        \* the refund each process is running
    todo,       \* the jobs a worker has claimed and not begun
    faults      \* what may go wrong in this behaviour

moving == <<order, ticket, admitted, sold, refund, request, cancelled, job,
            gateway, notice, run, todo>>
vars == <<moving, faults>>

Processes == Handlers \cup Workers
RefundIds == 1..MaxRefunds
External == 0       \* a refund made outside: chargeback, or the gateway's panel

RefundRow == [status : {"none", "pending", "confirmed", "failed"}, order : Orders \cup {NoOrder},
              tickets : SUBSET Tickets, face : Nat, fee : Nat, by : {"webhook", "api"}]
RequestRow == [status : {"none", "pending", "approved", "rejected", "processing", "completed", "failed"},
               asked : SUBSET Tickets]
JobRow == [status : {"none", "pending", "running", "done", "failed"}, attempts : 0..MaxAttempts]
Run == [at : {"idle", "reserve", "refusal", "gateway", "busy", "release", "refused", "effects", "finish", "retry"},
        order : Orders \cup {NoOrder}, tickets : SUBSET Tickets, override : BOOLEAN, ref : 0..MaxRefunds]
Notice == [order : Orders, keys : SUBSET (RefundIds \cup {External})]

NoRefund == [status |-> "none", order |-> NoOrder, tickets |-> {}, face |-> 0, fee |-> 0, by |-> "api"]
NoRequest == [status |-> "none", asked |-> {}]
Idle == [at |-> "idle", order |-> NoOrder, tickets |-> {}, override |-> FALSE, ref |-> 0]

TypeOK ==
    /\ order \in [Orders -> {"pending", "paid", "partially_refunded", "refunded"}]
    /\ ticket \in [Tickets -> {"none", "active", "burned"}]
    /\ admitted \subseteq Tickets
    /\ sold \in 0..Cardinality(Tickets)
    /\ refund \in [RefundIds -> RefundRow]
    /\ request \in [Orders -> RequestRow]
    /\ cancelled \in BOOLEAN
    /\ job \in [Orders -> JobRow]
    /\ gateway \in [Orders -> SUBSET (RefundIds \cup {External})]
    /\ notice \subseteq Notice
    /\ run \in [Processes -> Run]
    /\ todo \in [Workers -> SUBSET Orders]
    /\ faults \in Faults

Init ==
    /\ order = [o \in Orders |-> "pending"]
    /\ ticket = [t \in Tickets |-> "none"]
    /\ admitted = {}
    /\ sold = 0
    /\ refund = [r \in RefundIds |-> NoRefund]
    /\ request = [o \in Orders |-> NoRequest]
    /\ cancelled = FALSE
    /\ job = [o \in Orders |-> [status |-> "none", attempts |-> 0]]
    /\ gateway = [o \in Orders |-> {}]
    /\ notice = {}
    /\ run = [p \in Processes |-> Idle]
    /\ todo = [w \in Workers |-> {}]
    /\ faults \in Faults

(***************************************************************************)
(* What the transactions read.                                             *)
(***************************************************************************)
TicketsOf(o) == {t \in Tickets : OrderOf[t] = o}
Active(o) == {t \in TicketsOf(o) : ticket[t] = "active"}

\* refund_tickets that are not dead: FailRefund lets go of its tickets.
StandingMutant(r) == refund[r].status = "confirmed"
Standing(r) == refund[r].status \in {"pending", "confirmed"}
Reserved == UNION {refund[r].tickets : r \in {q \in RefundIds : Standing(q)}}
RefundsOf(o) == {r \in RefundIds : Standing(r) /\ refund[r].order = o}
FaceRefunded(o) == SumFunctionOnSet([r \in RefundIds |-> refund[r].face], RefundsOf(o))
FeeRefunded(o) == SumFunctionOnSet([r \in RefundIds |-> refund[r].fee], RefundsOf(o))

Refundable(o) == order[o] \in {"paid", "partially_refunded"}
LiveRequest(o) == request[o].status \in {"pending", "approved", "processing"}
Monus(a, b) == IF a > b THEN a - b ELSE 0

Vacant(r) == refund[r].status = "none"
FreshRefund == CHOOSE r \in RefundIds : Vacant(r)

(***************************************************************************)
(* PrepareRefund.  An empty set of tickets asks for all the active ones.   *)
(***************************************************************************)
Lines(o, asked) == IF asked = {} THEN Active(o) ELSE asked

MayPrepare(o, asked, override) ==
    /\ Refundable(o)
    /\ Lines(o, asked) # {} /\ Lines(o, asked) \subseteq Active(o)
    /\ override \/ Lines(o, asked) \cap admitted = {}
    /\ Lines(o, asked) \cap Reserved = {}

Prepared(o, asked, by) ==
    LET lines == Lines(o, asked)
        share == TicketFaces(Active(o), Price, Monus(Face[o], FaceRefunded(o)))
        face  == SumFunctionOnSet(share, lines)
    IN  [status |-> "pending", order |-> o, tickets |-> lines, face |-> face, by |-> by,
         fee |-> IF lines = Active(o) THEN Monus(Fee[o], FeeRefunded(o))
                                      ELSE MulDiv(Fee[o], face, Face[o])]

(***************************************************************************)
(* CompleteRefund: capacity back to the lot, the tickets burned, the order *)
(* refunded once no ticket of it is active.                                *)
(***************************************************************************)
CompleteRefundMutant(r, row) ==
    LET burned == {t \in row.tickets : ticket[t] = "active"}
    IN  /\ sold' = Monus(sold, Cardinality(burned))
        /\ ticket' = [t \in Tickets |-> IF t \in burned THEN "burned" ELSE ticket[t]]
        /\ order' = [order EXCEPT ![row.order] = "refunded"]
        /\ refund' = [refund EXCEPT ![r] = [row EXCEPT !.status = "confirmed"]]

CompleteRefund(r, row) ==
    LET burned == {t \in row.tickets : ticket[t] = "active"}
    IN  /\ sold' = Monus(sold, Cardinality(burned))
        /\ ticket' = [t \in Tickets |-> IF t \in burned THEN "burned" ELSE ticket[t]]
        /\ order' = [order EXCEPT ![row.order] =
                        IF Active(row.order) \subseteq burned THEN "refunded" ELSE "partially_refunded"]
        /\ refund' = [refund EXCEPT ![r] = [row EXCEPT !.status = "confirmed"]]

\* The tickets are let go.  A failed row is read again only if the gateway
\* knows its key; any other is dropped.
FailRefund(r) ==
    refund' = [refund EXCEPT ![r] = IF r \in gateway[@.order] THEN [@ EXCEPT !.status = "failed"]
                                                              ELSE NoRefund]

(***************************************************************************)
(* CreateRequest, and the handlers that open a request.  A withdrawal in   *)
(* the legal window, the producer and the admin need nobody's approval;    *)
(* out of the window the producer decides.                                 *)
(***************************************************************************)
MayAsk(o) == Refundable(o) /\ ~LiveRequest(o)

\* What was asked is read again only by the producer's decision.
Ask(o, asked, status) == request' = [request EXCEPT ![o] = [status |-> status, asked |-> asked]]

Start(p, o, asked, override) ==
    run' = [run EXCEPT ![p] = [at |-> "reserve", order |-> o, tickets |-> asked,
                               override |-> override, ref |-> 0]]

\* producerRefund, adminRefund, and the buyer's request inside the window.
AskRefund(h, o, asked, override) ==
    /\ run[h].at = "idle"
    /\ MayAsk(o)
    /\ Ask(o, {}, "approved")
    /\ Start(h, o, asked, override)
    /\ UNCHANGED <<order, ticket, admitted, sold, refund, cancelled, job, gateway, notice, todo>>

\* The buyer's request out of the window.
AskFavour(o, asked) ==
    /\ MayAsk(o)
    /\ Ask(o, asked, "pending")
    /\ UNCHANGED <<order, ticket, admitted, sold, refund, cancelled, job, gateway, notice, run, todo>>

Approve(h, o) ==
    /\ run[h].at = "idle"
    /\ request[o].status = "pending"
    /\ Ask(o, {}, "approved")
    /\ Start(h, o, request[o].asked, FALSE)
    /\ UNCHANGED <<order, ticket, admitted, sold, refund, cancelled, job, gateway, notice, todo>>

Reject(o) ==
    /\ request[o].status = "pending"
    /\ Ask(o, {}, "rejected")
    /\ UNCHANGED <<order, ticket, admitted, sold, refund, cancelled, job, gateway, notice, run, todo>>

(***************************************************************************)
(* runRefund.                                                              *)
(***************************************************************************)
Goto(p, where) == run' = [run EXCEPT ![p].at = where]
\* The handler answers; the worker closes or reschedules its job.
Return(p, ok) == IF p \in Workers THEN Goto(p, IF ok THEN "finish" ELSE "retry")
                                  ELSE run' = [run EXCEPT ![p] = Idle]

Reserve(p) ==
    /\ run[p].at = "reserve"
    /\ LET o == run[p].order
       IN  IF request[o].status = "approved" /\ MayPrepare(o, run[p].tickets, run[p].override)
           THEN /\ \E r \in RefundIds : Vacant(r)
                /\ request' = [request EXCEPT ![o].status = "processing"]
                /\ refund' = [refund EXCEPT ![FreshRefund] = Prepared(o, run[p].tickets, "api")]
                /\ run' = [run EXCEPT ![p].at = "gateway", ![p].ref = FreshRefund]
           ELSE Goto(p, "refusal") /\ UNCHANGED <<request, refund>>
    /\ UNCHANGED <<order, ticket, admitted, sold, cancelled, job, gateway, notice, todo>>

\* failRequest: the request of an attempt that did not go on.
FailRequest(p) ==
    /\ run[p].at = "refusal"
    /\ request' = [request EXCEPT ![run[p].order].status = "failed"]
    /\ Return(p, FALSE)
    /\ UNCHANGED <<order, ticket, admitted, sold, refund, cancelled, job, gateway, notice, todo>>

(***************************************************************************)
(* The gateway.  A notice lists the refunds of the charge, by our key;     *)
(* refunds made outside need not carry a description.                      *)
(***************************************************************************)
Keys(o) == IF KeyedNotices THEN gateway[o] \ {External} ELSE {}

GiveMoneyBack(p, where) ==
    /\ run[p].at = "gateway"
    /\ LET o == run[p].order
       IN  /\ gateway' = [gateway EXCEPT ![o] = @ \cup {run[p].ref}]
           /\ notice' = notice \cup {[order |-> o, keys |-> IF KeyedNotices THEN Keys(o) \cup {run[p].ref} ELSE {}]}
    /\ Goto(p, where)
    /\ UNCHANGED <<order, ticket, admitted, sold, refund, request, cancelled, job, todo>>

GatewayRefunds(p) == GiveMoneyBack(p, "effects")

Returned(t) == \/ External \in gateway[OrderOf[t]]
               \/ \E r \in gateway[OrderOf[t]] \ {External} : t \in refund[r].tickets

\* ErrRefundAlreadyExists, "Cobranca ja estornada": no money moves, and the code
\* goes on as if it had.  The gateway says so when all of the charge is back.
GatewayHasRefunded(p) ==
    /\ run[p].at = "gateway"
    /\ \A t \in TicketsOf(run[p].order) : Returned(t)
    /\ Goto(p, "effects")
    /\ UNCHANGED <<order, ticket, admitted, sold, refund, request, cancelled, job, gateway, notice, todo>>

\* Bound: the row stays for good, so a row is left for every ticket.
GatewayAnswerLost(p) ==
    /\ "lost" \in faults
    /\ Cardinality({r \in RefundIds : Vacant(r)}) >= Cardinality(Tickets)
    /\ GiveMoneyBack(p, "refused")

\* Another refund of the charge is in progress, or the gateway refuses.
GatewayDeclines(p, where) ==
    /\ run[p].at = "gateway"
    /\ Goto(p, where)
    /\ UNCHANGED <<order, ticket, admitted, sold, refund, request, cancelled, job, gateway, notice, todo>>

\* In progress: the request and the refund are given up in two transactions.
GiveUpRequest(p) ==
    /\ run[p].at = "busy"
    /\ request' = [request EXCEPT ![run[p].order].status = "failed"]
    /\ Goto(p, "release")
    /\ UNCHANGED <<order, ticket, admitted, sold, refund, cancelled, job, gateway, notice, todo>>

GiveUpRefund(p) ==
    /\ run[p].at = "release"
    /\ FailRefund(run[p].ref)
    /\ Return(p, FALSE)
    /\ UNCHANGED <<order, ticket, admitted, sold, request, cancelled, job, gateway, notice, todo>>

\* Any other refusal: both in one transaction.
GiveUpBothMutant(p) ==
    /\ run[p].at = "refused"
    /\ request' = [request EXCEPT ![run[p].order].status = "failed"]
    /\ Return(p, FALSE)
    /\ UNCHANGED <<order, ticket, admitted, sold, refund, cancelled, job, gateway, notice, todo>>

GiveUpBoth(p) ==
    /\ run[p].at = "refused"
    /\ request' = [request EXCEPT ![run[p].order].status = "failed"]
    /\ FailRefund(run[p].ref)
    /\ Return(p, FALSE)
    /\ UNCHANGED <<order, ticket, admitted, sold, cancelled, job, gateway, notice, todo>>

\* A give-up that fails is logged, and the process goes on as if it were written.
GiveUpFails(p) ==
    /\ "logged" \in faults
    /\ \/ run[p].at = "busy" /\ Goto(p, "release")
       \/ run[p].at \in {"refusal", "release", "refused"} /\ Return(p, FALSE)
    /\ UNCHANGED <<order, ticket, admitted, sold, refund, request, cancelled, job, gateway, notice, todo>>

ApplyEffects(p) ==
    /\ run[p].at = "effects"
    /\ CompleteRefund(run[p].ref, refund[run[p].ref])
    /\ request' = [request EXCEPT ![run[p].order].status = "completed"]
    /\ Return(p, TRUE)
    /\ UNCHANGED <<admitted, cancelled, job, gateway, notice, todo>>

\* The third transaction fails: only the request is given up.
EffectsFail(p) ==
    /\ "effects" \in faults
    /\ run[p].at = "effects"
    /\ Goto(p, "refusal")
    /\ UNCHANGED <<order, ticket, admitted, sold, refund, request, cancelled, job, gateway, notice, todo>>

(***************************************************************************)
(* RefundPayment: the webhook of a refund.  A notice whose keys are all    *)
(* ours is the echo of what we asked for; one without keys is taken for    *)
(* an echo while a refund of ours is recent.  Anything else was refunded   *)
(* outside, and burns what is left of the order.  An error is answered     *)
(* 500, and the webhook will not process that notice again.                *)
(***************************************************************************)
OursMutant(n) == FALSE
Ours(n) == n.keys \subseteq {r \in RefundIds : refund[r].status # "none"}
MayEcho(n) == \E r \in RefundIds : /\ refund[r].order = n.order
                                   /\ refund[r].by # "webhook" /\ refund[r].status = "confirmed"

IgnoreNotice(n) ==
    /\ \/ order[n.order] = "refunded"
       \/ n.keys # {} /\ Ours(n)
       \/ n.keys = {} /\ MayEcho(n)
       \/ ~Refundable(n.order) \/ Active(n.order) = {}
       \/ Active(n.order) \cap Reserved # {}
    /\ notice' = notice \ {n}
    /\ UNCHANGED <<order, ticket, admitted, sold, refund, request, cancelled, job, gateway, run, todo>>

RefundPayment(n) ==
    /\ order[n.order] # "refunded"
    /\ n.keys # {} => ~Ours(n)
    /\ MayPrepare(n.order, {}, TRUE)
    /\ \E r \in RefundIds : Vacant(r)
    /\ CompleteRefund(FreshRefund, Prepared(n.order, {}, "webhook"))
    /\ notice' = notice \ {n}
    /\ UNCHANGED <<admitted, request, cancelled, job, gateway, run, todo>>

\* A chargeback, or a refund made in the gateway's panel.
RefundOutside(o, described) ==
    /\ order[o] # "pending" /\ External \notin gateway[o]
    /\ gateway' = [gateway EXCEPT ![o] = @ \cup {External}]
    /\ notice' = notice \cup {[order |-> o, keys |-> Keys(o) \cup IF described THEN {External} ELSE {}]}
    /\ UNCHANGED <<order, ticket, admitted, sold, refund, request, cancelled, job, run, todo>>

(***************************************************************************)
(* cancelEvent.  Cancelling again enqueues the orders paid in between.     *)
(***************************************************************************)
CancelEvent ==
    /\ cancelled' = TRUE
    /\ job' = [o \in Orders |-> IF Refundable(o) /\ Active(o) # {} /\ job[o].status = "none"
                                THEN [status |-> "pending", attempts |-> 0] ELSE job[o]]
    /\ UNCHANGED <<order, ticket, admitted, sold, refund, request, gateway, notice, run, todo>>

\* The worker claims the jobs that are due: FOR UPDATE SKIP LOCKED.
ClaimJobs(w, due) ==
    /\ run[w].at = "idle" /\ todo[w] = {}
    /\ due # {} /\ \A o \in due : job[o].status = "pending"
    /\ job' = [o \in Orders |-> IF o \in due THEN [job[o] EXCEPT !.status = "running"] ELSE job[o]]
    /\ todo' = [todo EXCEPT ![w] = due]
    /\ UNCHANGED <<order, ticket, admitted, sold, refund, request, cancelled, gateway, notice, run>>

\* processOne: whoever has a live request on the order is left to finish it.
BeginJobMutant(w, o) ==
    /\ run[w].at = "idle" /\ o \in todo[w] /\ MayAsk(o)
    /\ todo' = [todo EXCEPT ![w] = @ \ {o}]
    /\ Ask(o, {}, "approved") /\ Start(w, o, {}, TRUE)
    /\ UNCHANGED <<order, ticket, admitted, sold, refund, cancelled, job, gateway, notice>>

BeginJob(w, o) ==
    /\ run[w].at = "idle" /\ o \in todo[w]
    /\ todo' = [todo EXCEPT ![w] = @ \ {o}]
    /\ IF MayAsk(o)
       THEN Ask(o, {}, "approved") /\ Start(w, o, {}, TRUE)
       ELSE /\ run' = [run EXCEPT ![w] = [Idle EXCEPT !.at = "finish", !.order = o]]
            /\ UNCHANGED request
    /\ UNCHANGED <<order, ticket, admitted, sold, refund, cancelled, job, gateway, notice>>

CloseJob(w, row) ==
    /\ job' = [job EXCEPT ![run[w].order] = row]
    /\ run' = [run EXCEPT ![w] = Idle]
    /\ UNCHANGED <<order, ticket, admitted, sold, refund, request, cancelled, gateway, notice, todo>>

Tried(w) == job[run[w].order].attempts + 1

FinishCancelJob(w) ==
    /\ run[w].at = "finish"
    /\ CloseJob(w, [status |-> "done",
                    attempts |-> IF Tried(w) < MaxAttempts THEN Tried(w) ELSE MaxAttempts])

RetryCancelJobMutant(w) ==
    /\ run[w].at = "retry"
    /\ CloseJob(w, [status |-> "pending", attempts |-> Tried(w)])

RetryCancelJob(w) ==
    /\ run[w].at = "retry"
    /\ CloseJob(w, [status |-> IF Tried(w) >= MaxAttempts THEN "failed" ELSE "pending",
                    attempts |-> Tried(w)])

\* finish and retry log the error of their transaction: the job stays 'running',
\* and nobody claims it again.
LoseCancelJob(w) ==
    /\ "logged" \in faults
    /\ run[w].at \in {"finish", "retry"}
    /\ CloseJob(w, job[run[w].order])

\* The admin's "try again" on a job that gave up.
ReopenCancelJob(o) ==
    /\ job[o].status = "failed"
    /\ job' = [job EXCEPT ![o] = [status |-> "pending", attempts |-> 0]]
    /\ UNCHANGED <<order, ticket, admitted, sold, refund, request, cancelled, gateway, notice, run, todo>>

(***************************************************************************)
(* What the rest of the system does meanwhile: a payment is confirmed,     *)
(* perhaps after the cancellation; somebody enters; a process dies.        *)
(***************************************************************************)
ConfirmPaymentMutant(o) ==
    /\ order[o] \in {"pending", "refunded"}
    /\ order' = [order EXCEPT ![o] = "paid"]
    /\ ticket' = [t \in Tickets |-> IF OrderOf[t] = o THEN "active" ELSE ticket[t]]
    /\ sold' = sold + Cardinality(TicketsOf(o))
    /\ UNCHANGED <<admitted, refund, request, cancelled, job, gateway, notice, run, todo>>

ConfirmPayment(o) ==
    /\ order[o] = "pending"
    /\ order' = [order EXCEPT ![o] = "paid"]
    /\ ticket' = [t \in Tickets |-> IF OrderOf[t] = o THEN "active" ELSE ticket[t]]
    /\ sold' = sold + Cardinality(TicketsOf(o))
    /\ UNCHANGED <<admitted, refund, request, cancelled, job, gateway, notice, run, todo>>

Checkin(t) ==
    /\ ticket[t] = "active" /\ t \notin admitted
    /\ admitted' = admitted \cup {t}
    /\ UNCHANGED <<order, ticket, sold, refund, request, cancelled, job, gateway, notice, run, todo>>

Crash(p) ==
    /\ "crash" \in faults
    /\ run[p].at # "idle" \/ (p \in Workers /\ todo[p] # {})
    /\ run' = [run EXCEPT ![p] = Idle]
    /\ todo' = [w \in Workers |-> IF w = p THEN {} ELSE todo[w]]
    /\ UNCHANGED <<order, ticket, admitted, sold, refund, request, cancelled, job, gateway, notice>>

RunRefund(p) ==
    \/ Reserve(p) \/ FailRequest(p)
    \/ GatewayRefunds(p) \/ GatewayHasRefunded(p) \/ GatewayAnswerLost(p)
    \/ \E where \in {"busy", "refused"} : GatewayDeclines(p, where)
    \/ GiveUpRequest(p) \/ GiveUpRefund(p) \/ GiveUpBoth(p) \/ GiveUpFails(p)
    \/ ApplyEffects(p) \/ EffectsFail(p)

WorkerStep(w) ==
    \/ \E due \in SUBSET Orders : ClaimJobs(w, due)
    \/ \E o \in Orders : BeginJob(w, o)
    \/ FinishCancelJob(w) \/ RetryCancelJob(w) \/ LoseCancelJob(w)

Webhook == \E n \in notice : IgnoreNotice(n) \/ RefundPayment(n)

People ==
    \/ \E o \in Orders :
          \/ \E asked \in Choices :
                \/ \E h \in Handlers, override \in BOOLEAN : AskRefund(h, o, asked, override)
                \/ AskFavour(o, asked)
          \/ \E h \in Handlers : Approve(h, o)
          \/ Reject(o) \/ ReopenCancelJob(o) \/ ConfirmPayment(o)
          \/ \E described \in BOOLEAN : RefundOutside(o, described)
    \/ \E t \in Goers : Checkin(t)
    \/ CancelEvent

Next ==
    /\ \/ People
       \/ Webhook
       \/ \E p \in Processes : RunRefund(p) \/ Crash(p)
       \/ \E w \in Workers : WorkerStep(w)
    /\ UNCHANGED faults

Spec == Init /\ [][Next]_vars

(***************************************************************************)
(* Handlers and workers keep running; people and the gateway's outside     *)
(* refunds need not act.  A fair gateway answers, one way or the other.    *)
(***************************************************************************)
Fairness ==
    /\ \A p \in Processes : WF_moving(RunRefund(p))
    /\ \A w \in Workers : WF_moving(WorkerStep(w))

FairSpec == Spec /\ Fairness

(***************************************************************************)
(* Properties.                                                             *)
(***************************************************************************)
\* Nobody loses a ticket without the money for it: whatever burned it, the
\* gateway has given its money back -- the echo of one refund included, which
\* must not burn the rest of the order.
BurnedIsReturned == \A t \in Tickets : ticket[t] = "burned" => Returned(t)

\* No ticket is paid back twice by us, however requests, cancellation jobs,
\* retries, crashes and failed third phases follow each other -- unless the
\* gateway's answer is lost, when the code takes the refund for failed.
ReturnedOnce ==
    "lost" \notin faults =>
        \A o \in Orders : \A r, q \in gateway[o] \ {External} :
            r # q => refund[r].tickets \cap refund[q].tickets = {}

\* The lot's sold count is the number of tickets that are worth entering with,
\* and the order's status says how many of them it still has.
CountersFollowTickets ==
    /\ sold = Cardinality({t \in Tickets : ticket[t] = "active"})
    /\ \A o \in Orders :
          /\ order[o] = "refunded" <=> \A t \in TicketsOf(o) : ticket[t] = "burned"
          /\ order[o] = "paid" <=> \A t \in TicketsOf(o) : ticket[t] = "active"

Abandoned(r) == refund[r].status = "pending" /\ \A p \in Processes : run[p].ref # r

\* Tickets are never left reserved by a refund that nobody runs and whose money
\* is not back, unless a process died or a give-up failed and was only logged.
NothingHeldForNothing ==
    faults \cap {"crash", "logged"} = {} =>
        \A r \in RefundIds : Abandoned(r) => \A t \in refund[r].tickets : Returned(t)

\* Whatever is asked, declined, lost and repeated, the refunds that stand give
\* back no more than an order's face, and half a cent a ticket for the rounding.
FaceIsBounded ==
    \A o \in Orders : 2 * FaceRefunded(o) <= 2 * Face[o] + Cardinality(TicketsOf(o))

\* The cancellation of an event comes to an end on every order it enqueued,
\* whatever the gateway answers, whoever else is refunding the order and however
\* often it is tried -- unless a process died or a worker's write was only logged.
JobsEnd ==
    \A o \in Orders : (job[o].status \in {"pending", "running"} /\ faults \cap {"crash", "logged"} = {})
                           ~> job[o].status \in {"done", "failed"}

\* The refunds implement MoneyBack: tickets are valid until their money is
\* back, and never again after they were burned.
Promise == INSTANCE MoneyBack WITH
    sold <- {t \in Tickets : ticket[t] # "none"},
    valid <- {t \in Tickets : ticket[t] = "active"},
    returned <- {t \in Tickets : Returned(t)}
ImplementsMoneyBack == Promise!Spec

(***************************************************************************)
(* What the code's comments say and the model refutes.                     *)
(***************************************************************************)
\* "Falhar no meio deixa a operacao marcada 'failed', com os ingressos soltos
\* e nada aplicado pela metade": a refund that failed holds no tickets.
FailedLetsGo == \A r \in RefundIds : ~Abandoned(r)

\* Cancelling an event gives everybody's money back: a job closed with success
\* leaves no valid ticket on its order, once nobody is refunding it.
DoneJobIsReturned ==
    \A o \in Orders : job[o].status = "done" => Active(o) = {} \/ LiveRequest(o)

\* "Nenhum centavo aparece nem some": an order refunded in full by us gives
\* back its face value.
FaceAddsUp ==
    \A o \in Orders :
        (order[o] = "refunded" /\ External \notin gateway[o]) => FaceRefunded(o) = Face[o]
=============================================================================
