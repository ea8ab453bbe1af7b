---------------------------- MODULE Attestation ----------------------------
(***************************************************************************)
(* The closing of one event: the canonical record of what was sold, who    *)
(* came in and what was promised, signed and kept in versions, and what    *)
(* may still change once the event is closed.                              *)
(*                                                                         *)
(* A closing is one transaction in read committed: it builds the record,   *)
(* looks for the current row (the one that supersedes none) and inserts,   *)
(* three steps here.  Five callers close: the producer, the timer after    *)
(* the event, a handler after its refund, the cancellation's worker after  *)
(* each refund and once more when its batch is over.                       *)
(***************************************************************************)
EXTENDS Integers, FiniteSets, Sequences

CONSTANTS Tickets, HalfTickets,
          Presold,              \* the tickets sold when the story begins
          Shares, Percent,      \* courtesy commitments and their percentages
          Quotas,               \* percentages the producer may declare for half price
          Capacity,             \* the sum of the lots' quantities
          Owner, Timer, Worker, Handlers,
          Editors,              \* gate, commitments and half price screens
          MaxByHand             \* bound: closings by the producer and changes by the editors

ASSUME AttestationAssumption ==
    /\ IsFiniteSet(Tickets) /\ HalfTickets \subseteq Tickets /\ Presold \subseteq Tickets /\ Percent \in [Shares -> 0..100]
    /\ Owner \notin {Timer, Worker} \cup Handlers
    /\ Quotas \subseteq 0..100 /\ Capacity \in Nat /\ MaxByHand \in Nat

VARIABLES
    ticket,      \* nothing, its order, the ticket
    inside,      \* checkins that are not reentries
    shares,      \* event_commitments of courtesies
    half,        \* half_price_mode and the declared quota
    event,       \* events.status and ends_at
    stale,       \* events.attestation_stale
    refund_jobs, \* status of the row of each ticket
    rows,        \* event_attestations, in the order of insertion
    work,        \* the closings under way
    edit,        \* the edits under way
    byHand,      \* how many of the bounded steps were taken
    unpublished  \* did something change that no closing was bound to see?

vars == <<ticket, inside, shares, half, event, stale, refund_jobs, rows, work, edit, byHand, unpublished>>
sales == <<ticket, inside, shares, half>>

Closers == {Owner, Timer, Worker} \cup Handlers
NotDeclared == -1
Linked == -2
LegalHalfPricePct == 40

Records == [sold : 0..Cardinality(Tickets), present : 0..Cardinality(Tickets),
            granted : 0..Cardinality(Tickets), quota : Nat,
            half : Quotas \cup {NotDeclared}, shares : SUBSET Shares]
Blank == [sold |-> 0, present |-> 0, granted |-> 0, quota |-> 0, half |-> NotDeclared, shares |-> {}]
Closing == [at : {"idle", "told", "drafted", "looked"}, record : Records, batch : BOOLEAN, first : Nat]
Versions == [version : 1..2, supersedes : Nat, record : Records]
Rest == [at |-> "idle", record |-> Blank, batch |-> FALSE, first |-> 0]
Changes == [what : {"checkin"}, of : Tickets] \cup [what : {"declare", "withdraw"}, of : Shares]
           \cup [what : {"half"}, of : Quotas \cup {NotDeclared, Linked}]
NoEdit == [what |-> "none", of |-> NotDeclared]

Promised(S) == LET total[T \in SUBSET S] == IF T = {} THEN 0
                                       ELSE LET s == CHOOSE s \in T : TRUE IN Percent[s] + total[T \ {s}]
          IN  total[S]

TypeOK ==
    /\ ticket \in [Tickets -> {"none", "ordered", "valid", "cancelled"}]
    /\ inside \subseteq Tickets /\ shares \subseteq Shares
    /\ half \in Quotas \cup {NotDeclared, Linked}
    /\ event \in [status : {"published", "cancelled"}, over : BOOLEAN]
    /\ stale \in BOOLEAN /\ unpublished \in BOOLEAN
    /\ refund_jobs \in [Tickets -> {"none", "pending", "running", "ended"}]
    /\ rows \in Seq(Versions)
    /\ work \in [Closers -> Closing]
    /\ edit \in [Editors -> Changes \cup {NoEdit}]
    /\ byHand \in 0..MaxByHand

Init ==
    /\ ticket = [t \in Tickets |-> IF t \in Presold THEN "valid" ELSE "none"]
    /\ inside = {} /\ half = NotDeclared
    /\ shares \in {S \in SUBSET Shares : Promised(S) <= 100}
    /\ event = [status |-> "published", over |-> FALSE]
    /\ stale = FALSE /\ unpublished = FALSE
    /\ refund_jobs = [t \in Tickets |-> "none"]
    /\ rows = <<>>
    /\ work = [p \in Closers |-> Rest]
    /\ edit = [e \in Editors |-> NoEdit]
    /\ byHand = 0

(***************************************************************************)
(* Reading.                                                                *)
(***************************************************************************)
Valid == {t \in Tickets : ticket[t] = "valid"}
Share(n, percent) == (n * percent + 50) \div 100

\* The quota in the record is of what was sold, and none unless declared.
RecordQuota(total) == IF half \in Quotas THEN Share(total, half) ELSE 0

\* Check-ins are counted whatever became of the ticket.
BuildRecord ==
    LET total == Cardinality(Valid)
    IN  [sold |-> total, present |-> Cardinality(inside),
         granted |-> Cardinality(Valid \cap HalfTickets), quota |-> RecordQuota(total),
         half |-> IF half \in Quotas THEN half ELSE NotDeclared, shares |-> shares]

\* The quota in force is of the capacity, and the law's unless declared.
HalfPriceQuota == CASE half = Linked -> Capacity
                    [] half = NotDeclared -> Share(Capacity, LegalHalfPricePct)
                    [] OTHER -> Share(Capacity, half)

First == {i \in DOMAIN rows : rows[i].supersedes = 0}
Closed == First # {}
Current == CHOOSE i \in First : TRUE
IsClosing == \E p \in Closers : work[p].at \in {"drafted", "looked"}
Editing == \E e \in Editors : edit[e] # NoEdit

(***************************************************************************)
(* Before and after the closing: sales, and edits refused once closed.     *)
(***************************************************************************)
\* EnsureHalfPrice counts tickets issued, not orders pending.
CreateOrder(t) ==
    /\ ticket[t] = "none" /\ event.status = "published"
    /\ t \in HalfTickets => Cardinality(Valid \cap HalfTickets) < HalfPriceQuota
    /\ ticket' = [ticket EXCEPT ![t] = "ordered"]
    /\ UNCHANGED <<inside, shares, half, event, stale, refund_jobs, rows, work, edit, byHand, unpublished>>

\* Nothing closes again for a ticket sold after the closing.
Confirm(t) ==
    /\ ticket[t] = "ordered"
    /\ ticket' = [ticket EXCEPT ![t] = "valid"]
    /\ unpublished' = (unpublished \/ Closed \/ IsClosing)
    /\ UNCHANGED <<inside, shares, half, event, stale, refund_jobs, rows, work, edit, byHand>>

\* ensureOpen, the gate's look for an attestation, and the other conditions.
EnsureOpenMutant(change) ==
    CASE change.what = "checkin"  -> change.of \in Valid \ inside
      [] change.what = "declare"  -> change.of \notin shares /\ Promised(shares) + Percent[change.of] <= 100
      [] change.what = "withdraw" -> change.of \in shares
      [] OTHER                    -> change.of # half

EnsureOpen(change) ==
    /\ ~Closed
    /\ CASE change.what = "checkin"  -> change.of \in Valid \ inside
         [] change.what = "declare"  -> change.of \notin shares /\ Promised(shares) + Percent[change.of] <= 100
         [] change.what = "withdraw" -> change.of \in shares
         [] OTHER                    -> change.of # half

BeginEdit(e, change) ==
    /\ edit[e] = NoEdit /\ byHand < MaxByHand
    /\ EnsureOpen(change)
    /\ edit' = [edit EXCEPT ![e] = change]
    /\ byHand' = byHand + 1
    /\ unpublished' = (unpublished \/ IsClosing)
    /\ UNCHANGED <<ticket, inside, shares, half, event, stale, refund_jobs, rows, work>>

CommitEdit(e) ==
    /\ edit[e] # NoEdit
    /\ LET c == edit[e]
       IN  /\ inside' = IF c.what = "checkin" THEN inside \cup {c.of} ELSE inside
           /\ shares' = CASE c.what = "declare" -> shares \cup {c.of}
                          [] c.what = "withdraw" -> shares \ {c.of}
                          [] OTHER -> shares
           /\ half' = IF c.what = "half" THEN c.of ELSE half
    /\ edit' = [edit EXCEPT ![e] = NoEdit]
    /\ UNCHANGED <<ticket, event, stale, refund_jobs, rows, work, byHand, unpublished>>

EventEnds ==
    /\ ~event.over
    /\ event' = [event EXCEPT !.over = TRUE]
    /\ UNCHANGED <<sales, stale, refund_jobs, rows, work, edit, byHand, unpublished>>

(***************************************************************************)
(* Close.                                                                  *)
(***************************************************************************)
Draft(p, batch) ==
    /\ work' = [work EXCEPT ![p] = [at |-> "drafted", record |-> BuildRecord, batch |-> batch, first |-> 0]]
    /\ unpublished' = (unpublished \/ Editing)

\* The current row says the same: nothing to do.  Else remember which it is.
Look(p) ==
    /\ work[p].at = "drafted"
    /\ IF Closed /\ rows[Current].record = work[p].record
       THEN /\ work' = [work EXCEPT ![p] = Rest]
            /\ stale' = (stale /\ ~work[p].batch)
       ELSE /\ work' = [work EXCEPT ![p].at = "looked", ![p].first = IF Closed THEN Current ELSE 0]
            /\ UNCHANGED stale
    /\ UNCHANGED <<sales, event, refund_jobs, rows, edit, byHand, unpublished>>

\* event_attestations_current_key: one row that supersedes none.
Refused(p) == work[p].first = 0 /\ Closed
RowOfMutant(p) == [version |-> Len(rows) + 1, supersedes |-> work[p].first, record |-> work[p].record]
RowOf(p) == [version |-> IF work[p].first = 0 THEN 1 ELSE rows[work[p].first].version + 1,
             supersedes |-> work[p].first, record |-> work[p].record]

InsertMutant(p) ==
    /\ work[p].at = "looked"
    /\ rows' = Append(rows, RowOf(p))
    /\ stale' = (stale /\ ~work[p].batch)
    /\ work' = [work EXCEPT ![p] = Rest]
    /\ UNCHANGED <<sales, event, refund_jobs, edit, byHand, unpublished>>

Insert(p) ==
    /\ work[p].at = "looked"
    /\ IF Refused(p) THEN UNCHANGED <<rows, stale>>
       ELSE rows' = Append(rows, RowOf(p)) /\ stale' = (stale /\ ~work[p].batch)
    /\ work' = [work EXCEPT ![p] = Rest]
    /\ UNCHANGED <<sales, event, refund_jobs, edit, byHand, unpublished>>

(***************************************************************************)
(* Who closes.                                                             *)
(***************************************************************************)
CloseEvent ==
    /\ work[Owner].at = "idle" /\ byHand < MaxByHand
    /\ Draft(Owner, FALSE)
    /\ byHand' = byHand + 1
    /\ UNCHANGED <<sales, event, stale, refund_jobs, rows, edit>>

Closer ==
    /\ work[Timer].at = "idle"
    /\ event.over /\ ~Closed /\ event.status # "cancelled"
    /\ Draft(Timer, FALSE)
    /\ UNCHANGED <<sales, event, stale, refund_jobs, rows, edit, byHand>>

\* A refund is a fact before anyone closes again for it.
Refund(h, t) ==
    /\ work[h].at = "idle" /\ ticket[t] = "valid"
    /\ ticket' = [ticket EXCEPT ![t] = "cancelled"]
    /\ work' = [work EXCEPT ![h].at = "told"]
    /\ unpublished' = (unpublished \/ IsClosing)
    /\ UNCHANGED <<inside, shares, half, event, stale, refund_jobs, rows, edit, byHand>>

RecloseIfClosedMutant(p) ==
    /\ work[p].at = "told"
    /\ IF ~Closed THEN work' = [work EXCEPT ![p] = Rest] /\ UNCHANGED unpublished ELSE Draft(p, FALSE)
    /\ UNCHANGED <<sales, event, stale, refund_jobs, rows, edit, byHand>>

RecloseIfClosed(p) ==
    /\ work[p].at = "told"
    /\ IF stale \/ ~Closed THEN work' = [work EXCEPT ![p] = Rest] /\ UNCHANGED unpublished
       ELSE Draft(p, FALSE)
    /\ UNCHANGED <<sales, event, stale, refund_jobs, rows, edit, byHand>>

(***************************************************************************)
(* The cancellation of the event and its batch of refunds.                 *)
(***************************************************************************)
CancelEvent ==
    /\ event.status = "published"
    /\ event' = [event EXCEPT !.status = "cancelled"]
    /\ refund_jobs' = [t \in Tickets |-> IF ticket[t] = "valid" THEN "pending" ELSE refund_jobs[t]]
    /\ stale' = (stale \/ Closed)
    /\ unpublished' = (unpublished \/ IsClosing)
    /\ UNCHANGED <<sales, rows, work, edit, byHand>>

Unfinished == \E t \in Tickets : refund_jobs[t] \in {"pending", "running"}

ProcessOne(t) ==
    /\ work[Worker].at = "idle" /\ refund_jobs[t] = "pending" /\ ~\E u \in Tickets : refund_jobs[u] = "running"
    /\ IF ticket[t] = "valid"
       THEN /\ ticket' = [ticket EXCEPT ![t] = "cancelled"]
            /\ refund_jobs' = [refund_jobs EXCEPT ![t] = "running"]
            /\ work' = [work EXCEPT ![Worker].at = "told"]
            /\ unpublished' = (unpublished \/ IsClosing)
       ELSE refund_jobs' = [refund_jobs EXCEPT ![t] = "ended"] /\ UNCHANGED <<ticket, work, unpublished>>
    /\ UNCHANGED <<inside, shares, half, event, stale, rows, edit, byHand>>

\* The gateway refused it once too often.
JobFails(t) ==
    /\ refund_jobs[t] = "pending" /\ work[Worker].at = "idle"
    /\ refund_jobs' = [refund_jobs EXCEPT ![t] = "ended"]
    /\ UNCHANGED <<sales, event, stale, rows, work, edit, byHand, unpublished>>

FinishJob(t) ==
    /\ refund_jobs[t] = "running" /\ work[Worker].at = "idle"
    /\ refund_jobs' = [refund_jobs EXCEPT ![t] = "ended"]
    /\ UNCHANGED <<sales, event, stale, rows, work, edit, byHand, unpublished>>

RepublishStaleMutant ==
    /\ work[Worker].at = "idle" /\ stale /\ ~Unfinished /\ event.over
    /\ Draft(Worker, TRUE)
    /\ UNCHANGED <<sales, event, stale, refund_jobs, rows, edit, byHand>>

RepublishStale ==
    /\ work[Worker].at = "idle" /\ stale /\ ~Unfinished
    /\ Draft(Worker, TRUE)
    /\ UNCHANGED <<sales, event, stale, refund_jobs, rows, edit, byHand>>

WorkerStep == RepublishStale \/ \E t \in Tickets : ProcessOne(t) \/ FinishJob(t)

Next ==
    \/ \E t \in Tickets : CreateOrder(t) \/ Confirm(t) \/ JobFails(t)
    \/ \E e \in Editors : CommitEdit(e) \/ \E change \in Changes : BeginEdit(e, change)
    \/ EventEnds \/ CancelEvent
    \/ CloseEvent \/ Closer \/ WorkerStep
    \/ \E h \in Handlers, t \in Tickets : Refund(h, t)
    \/ \E p \in Closers : RecloseIfClosed(p) \/ Look(p) \/ Insert(p)

Spec == Init /\ [][Next]_vars

\* Handlers run to their end and the tickers tick.
FairSpec ==
    /\ Spec
    /\ WF_vars(Closer) /\ WF_vars(WorkerStep)
    /\ \A p \in Closers : WF_vars(RecloseIfClosed(p) \/ Look(p) \/ Insert(p))

(***************************************************************************)
(* Properties.                                                             *)
(***************************************************************************)
\* However many close at once, one version comes first.
OneFirstVersion == Cardinality(First) <= 1

\* "Sem isso, a comprovacao de publico mente": after every refund of a closed
\* event the newest version says what is true, unless something changed while
\* a closing was under way or was sold after it.
NewestIsTrue == <>[](Closed /\ ~unpublished => rows[Len(rows)].record = BuildRecord)

\* "Republicar a cada devolucao geraria uma versao por pedido": while the batch
\* of a cancellation is running only the producer may add a version.
NoVersionAmidTheBatch ==
    [][stale /\ Unfinished /\ ~unpublished /\ rows' # rows
         => work[Owner].at = "looked" /\ work'[Owner].at = "idle"]_vars

\* The event is closed with nobody asking, and no batch waits forever for its
\* version.
ClosingEnds == <>[](~stale /\ (event.over /\ event.status = "published" => Closed))

(***************************************************************************)
(* What the code's comments say and the model refutes.                     *)
(***************************************************************************)
\* "Current devolve o atestado vigente"; "correcao posterior gera nova versao".
CurrentIsTheLast == Closed => Current = Len(rows)

\* "O compromisso declarado vale na venda".
HalfPriceHolds == half = NotDeclared => Cardinality(Valid \cap HalfTickets) <= HalfPriceQuota

\* Nobody is present who was not sold a ticket.
PresentWereSold == \A i \in DOMAIN rows : rows[i].record.present <= rows[i].record.sold
=============================================================================
