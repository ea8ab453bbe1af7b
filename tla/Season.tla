------------------------------- MODULE Season -------------------------------
(***************************************************************************)
(* The season pass and the waiting list, the two sales that speak through  *)
(* the outbox: the notice of a paid pass issues one ticket per date and a  *)
(* message per ticket, and a confirmation that fills a lot tells the list. *)
(*                                                                         *)
(* A notice is one transaction of the webhook.  It takes the payment's row *)
(* for itself, writes, and commits or is undone; its event id was recorded *)
(* before, so that it does not come again.  The waiting list is read       *)
(* without a lock and its rows are updated one at a time.                  *)
(*                                                                         *)
(* The tickets of a pass are tickets: the api gives some of them back, or  *)
(* all.  Of such a refund there is only the last phase here, the one that  *)
(* writes; its phases, its faults and its mail are those of Refunds.       *)
(***************************************************************************)
EXTENDS Outbox

CONSTANTS Dates, Orders, People,
          OrderOf,        \* the order whose charge a notice is about
          Confirming, Refunding, Filling,  \* the notices by what they make the webhook do
          Deliveries      \* bound: the sets of notices that come

ASSUME SeasonAssumption ==
    /\ Writers = Confirming \cup Refunding \cup Filling
    \* a notice is of one kind of event
    /\ Confirming \cap Refunding = {} /\ Confirming \cap Filling = {} /\ Refunding \cap Filling = {}
    \* the message of the waiting list has no key
    /\ \A p \in People : <<"vacancy", p>> \notin Keyed
    /\ OrderOf \in [Writers -> Orders] /\ Deliveries \subseteq SUBSET Writers

VARIABLES
    pass,       \* the dates of the pass
    order,      \* status of the orders of the pass
    payment,    \* status of their payments
    tickets,    \* tickets issued: order, date, notice; and whether they are active
    repasse,    \* ledger entries that owe the producer the face of the order
    waitlist,   \* the people on the list and who was told
    notice      \* the webhook's transactions

season == <<pass, order, payment, tickets, repasse, waitlist, notice>>

New == [at |-> "new", issues |-> {}, list |-> {}]
Ended == [New EXCEPT !.at = "ended"]
Ticket == [order : Orders, date : Dates, by : Confirming, status : {"active", "burned"}]

SeasonTypeOK ==
    /\ pass \subseteq Dates
    /\ order \in [Orders -> {"none", "pending", "paid", "partially_refunded", "refunded"}]
    /\ payment \in [Orders -> {"pending", "confirmed", "refunded"}]
    /\ tickets \subseteq Ticket
    /\ repasse \in [Orders -> 0..Cardinality(Confirming)]
    /\ waitlist \in [People -> {"out", "waiting", "told"}]
    /\ notice \in [Writers -> [at : {"new", "list", "open", "ended"},
                               issues : SUBSET Ticket, list : SUBSET People]]

SeasonInit ==
    /\ pass = {} /\ tickets = {}
    /\ order = [o \in Orders |-> "none"] /\ payment = [o \in Orders |-> "pending"]
    /\ repasse = [o \in Orders |-> 0]
    /\ waitlist = [p \in People |-> "out"]
    /\ \E S \in Deliveries : notice = [w \in Writers |-> IF w \in S THEN New ELSE Ended]

AddDate(d) ==
    /\ d \notin pass
    /\ pass' = pass \cup {d}
    /\ UNCHANGED <<order, payment, tickets, repasse, waitlist, notice, notes>>

BuyPass(o) ==
    /\ order[o] = "none" /\ pass # {}
    /\ order' = [order EXCEPT ![o] = "pending"]
    /\ UNCHANGED <<pass, payment, tickets, repasse, waitlist, notice, notes>>

JoinWaitlist(p) ==
    /\ waitlist[p] = "out"
    /\ waitlist' = [waitlist EXCEPT ![p] = "waiting"]
    /\ UNCHANGED <<pass, order, payment, tickets, repasse, notice, notes>>

(***************************************************************************)
(* A refund: the tickets T of an order are burned.                         *)
(***************************************************************************)
ActiveOf(o) == {t \in tickets : t.order = o /\ t.status = "active"}
Standing(o) == order[o] \in {"paid", "partially_refunded"}

Burn(o, T) ==
    /\ tickets' = {[t EXCEPT !.status = IF t \in T THEN "burned" ELSE @] : t \in tickets}
    /\ order' = [order EXCEPT ![o] = IF T = ActiveOf(o) THEN "refunded" ELSE "partially_refunded"]
    /\ payment' = IF T = ActiveOf(o) THEN [payment EXCEPT ![o] = "refunded"] ELSE payment

CompleteRefund(o, T) ==
    /\ Standing(o) /\ T # {} /\ T \subseteq ActiveOf(o)
    /\ \A w \in Writers \ Filling : notice[w].at = "open" => OrderOf[w] # o
    /\ Burn(o, T)
    /\ UNCHANGED <<pass, repasse, waitlist, notice, notes>>

(***************************************************************************)
(* The notices.                                                            *)
(***************************************************************************)
PaymentFree(w) == \A v \in Writers \ {w} : notice[v].at = "open" => OrderOf[v] # OrderOf[w] \/ v \in Filling

Opens(w, what) == notice' = [notice EXCEPT ![w] = what]

MailOf(t) == <<"ticket", t.order, t.date, t.by>>
EmitTickets(w, T) == Send(w, {MailOf(t) : t \in T})

ConfirmPassMutant(w) ==
    LET o == OrderOf[w]
        T == [order : {o}, date : pass, by : {w}, status : {"active"}]
    IN  /\ notice[w].at = "new" /\ order[o] # "none"
        /\ IF payment[o] = "confirmed"
           THEN Opens(w, Ended) /\ UNCHANGED notes
           ELSE Opens(w, [New EXCEPT !.at = "open", !.issues = T]) /\ EmitTickets(w, T)
        /\ UNCHANGED <<pass, order, payment, tickets, repasse, waitlist>>

ConfirmPass(w) ==
    LET o == OrderOf[w]
        T == [order : {o}, date : pass, by : {w}, status : {"active"}]
    IN  /\ notice[w].at = "new" /\ order[o] # "none" /\ PaymentFree(w)
        /\ IF payment[o] = "confirmed"
           THEN Opens(w, Ended) /\ UNCHANGED notes
           ELSE Opens(w, [New EXCEPT !.at = "open", !.issues = T]) /\ EmitTickets(w, T)
        /\ UNCHANGED <<pass, order, payment, tickets, repasse, waitlist>>

RefundPayment(w) ==
    LET mail == {<<"refunded", OrderOf[w]>>}
    IN  /\ notice[w].at = "new" /\ order[OrderOf[w]] # "none" /\ PaymentFree(w)
        /\ MaySend(mail) /\ Send(w, mail)
        /\ Opens(w, [New EXCEPT !.at = "open"])
        /\ UNCHANGED <<pass, order, payment, tickets, repasse, waitlist>>

LookAtWaitlist(w) ==
    /\ notice[w].at = "new"
    /\ Opens(w, [New EXCEPT !.at = "list", !.list = {p \in People : waitlist[p] = "waiting"}])
    /\ UNCHANGED <<pass, order, payment, tickets, repasse, waitlist, notes>>

NotifyWaitlist(w) ==
    /\ notice[w].at = "list"
    /\ \A v \in Filling : notice[v].at = "open" => notice[v].list \cap notice[w].list = {}
    /\ Send(w, {<<"vacancy", p>> : p \in notice[w].list})
    /\ Opens(w, [notice[w] EXCEPT !.at = "open"])
    /\ UNCHANGED <<pass, order, payment, tickets, repasse, waitlist>>

Confirmed(w) ==
    LET o == OrderOf[w]
    IN  /\ order' = [order EXCEPT ![o] = "paid"] /\ payment' = [payment EXCEPT ![o] = "confirmed"]
        /\ tickets' = tickets \cup notice[w].issues
        /\ repasse' = [repasse EXCEPT ![o] = @ + 1]
        /\ UNCHANGED waitlist

\* What is still active is burned, unless nothing is or the notice is the echo
\* of a refund the api began.
Refunded(w) ==
    LET o == OrderOf[w]
    IN  /\ \/ Standing(o) /\ Burn(o, ActiveOf(o))
           \/ UNCHANGED <<order, payment, tickets>>
        /\ UNCHANGED <<repasse, waitlist>>

Told(w) ==
    /\ waitlist' = [p \in People |-> IF p \in notice[w].list THEN "told" ELSE waitlist[p]]
    /\ UNCHANGED <<order, payment, tickets, repasse>>

Commit(w) ==
    /\ notice[w].at = "open"
    /\ \/ w \in Confirming /\ Confirmed(w)
       \/ w \in Refunding /\ Refunded(w)
       \/ w \in Filling /\ Told(w)
    /\ Kept(w) /\ Opens(w, Ended)
    /\ UNCHANGED pass

Rollback(w) ==
    /\ notice[w].at \in {"open", "list"}
    /\ Undone(w) /\ Opens(w, Ended)
    /\ UNCHANGED <<pass, order, payment, tickets, repasse, waitlist>>

Webhook ==
    \/ \E w \in Confirming : ConfirmPass(w)
    \/ \E w \in Refunding : RefundPayment(w)
    \/ \E w \in Filling : LookAtWaitlist(w) \/ NotifyWaitlist(w)
    \/ \E w \in Writers : Commit(w) \/ Rollback(w)

SeasonNext ==
    \/ /\ \/ \E d \in Dates : AddDate(d)
          \/ \E o \in Orders : BuyPass(o)
          \/ \E p \in People : JoinWaitlist(p)
          \/ \E o \in Orders : \E T \in SUBSET ActiveOf(o) : CompleteRefund(o, T)
          \/ Webhook
       /\ UNCHANGED <<worker, inbox, faults>>
    \/ OutboxNext /\ UNCHANGED season

SeasonSpec == OutboxInit /\ SeasonInit /\ [][SeasonNext]_<<outbox, season>>

(***************************************************************************)
(* Properties.                                                             *)
(***************************************************************************)
\* However many notices a pass has, whatever they race with and whatever was given
\* back: no two issues of it stand at once.  The tickets that are valid are one
\* per date and of one notice; the order and its payment stand exactly while there
\* are some; and each issue owes the producer the face once.
OneIssueAtATime ==
    \A o \in Orders :
        /\ \A a, b \in ActiveOf(o) : a.by = b.by /\ (a.date = b.date => a = b)
        /\ Standing(o) <=> ActiveOf(o) # {}
        /\ payment[o] = "confirmed" <=> ActiveOf(o) # {}
        /\ repasse[o] = Cardinality({t.by : t \in {t \in tickets : t.order = o}})

Happened ==
    {MailOf(t) : t \in tickets}
        \cup {<<"vacancy", p>> : p \in {p \in People : waitlist[p] = "told"}}

\* "Se a venda faz rollback, a mensagem vai junto e nada e enviado"; and a sale
\* that is committed has its message: what was said happened, what happened is
\* said or being said.  The mail of a refund is not of these: the webhook writes it
\* also when RefundPayment finds nothing to do (api/checkout.go:110-114).
MailFollowsTheSale ==
    /\ \A id \in DOMAIN inbox : id[1] \in Happened \/ id[1][1] = "refunded"
    /\ \A s \in Happened : \E id \in DOMAIN notes : id[1] = s /\ ~notes[id].open

(***************************************************************************)
(* What the code's comments say and the model refutes.                     *)
(***************************************************************************)
\* "Idempotente" (season.go:123): a pass that was refunded is not issued again.  A
\* second notice of its payment finds it "refunded", not "confirmed", and issues.
RefundedPassIsGone ==
    [][\A o \in Orders : order[o] = "refunded" => order'[o] = "refunded"]_<<order>>

\* "Idempotente" (promo.go:77): a person on the list is told once.
ToldOnce == \A p \in People : Cardinality({id \in DOMAIN inbox : id[1] = <<"vacancy", p>> /\ id[2] # Panel}) <= 1
=============================================================================
