------------------------------- MODULE Outbox -------------------------------
(***************************************************************************)
(* The outbox of public.notifications: a message is a row inserted in the  *)
(* transaction of whoever has something to say, and a worker of each       *)
(* replica delivers it.                                                    *)
(*                                                                         *)
(* Process locks a few rows that are due, calls the mail service for each  *)
(* of them with its transaction open and commits what came of it; if the   *)
(* replica stops or a statement fails, the rows are as they were, and what *)
(* the service already accepted has left.  The service's answer may also   *)
(* be lost, which the worker takes for a passing error.                    *)
(***************************************************************************)
EXTENDS Integers, FiniteSets, FiniteSetsExt, Tables

CONSTANTS Writers,      \* transactions that may insert messages
          Panel,        \* the panel, whose resendings are transactions of one statement
          Keyed,        \* subjects whose message carries an idempotency key
          Workers,      \* one worker per replica
          Batch, MaxAttempts,
          MaxFaults     \* bound: lost answers, replicas that stop, resendings

ASSUME OutboxAssumption ==
    /\ Panel \notin Writers
    /\ Batch \in Nat \ {0} /\ MaxAttempts \in Nat \ {0} /\ MaxFaults \in Nat

VARIABLES
    notes,     \* the rows, by subject and writer
    worker,    \* what each worker has locked, and what it will write of it
    inbox,     \* copies of each row the service accepted
    faults     \* rows whose accepted copy was forgotten, and their number

outbox == <<notes, worker, inbox, faults>>

Row == [status : {"queued", "sent", "failed"}, open : BOOLEAN, attempts : 0..MaxAttempts, due : BOOLEAN]
Fresh(open) == [status |-> "queued", open |-> open, attempts |-> 0, due |-> TRUE]
Idle == [todo |-> {}, done |-> << >>]

OutboxTypeOK ==
    /\ \A id \in DOMAIN notes : notes[id] \in Row
    /\ \A k \in Workers : worker[k].todo \subseteq DOMAIN notes /\ DOMAIN worker[k].done \subseteq DOMAIN notes
    /\ DOMAIN inbox \subseteq DOMAIN notes
    /\ faults.rows \subseteq DOMAIN inbox /\ faults.count \in 0..MaxFaults

OutboxInit ==
    /\ notes = << >> /\ inbox = << >>
    /\ worker = [k \in Workers |-> Idle]
    /\ faults = [rows |-> {}, count |-> 0]

(***************************************************************************)
(* The writers' side.  An insert whose key is already there does nothing;  *)
(* one that meets an uncommitted row of its key waits.                     *)
(***************************************************************************)
KeyTaken(s) == s \in Keyed /\ \E w \in Writers : <<s, w>> \in DOMAIN notes
MaySend(S) == \A s \in S \cap Keyed, w \in Writers : <<s, w>> \in DOMAIN notes => ~notes[<<s, w>>].open

SendMutant(w, S) == notes' = Over([id \in {<<s, w>> : s \in {s \in S : ~KeyTaken(s)}} |-> Fresh(FALSE)], notes)
Send(w, S) == notes' = Over([id \in {<<s, w>> : s \in {s \in S : ~KeyTaken(s)}} |-> Fresh(TRUE)], notes)

Written(w) == {id \in DOMAIN notes : id[2] = w}
Kept(w) == notes' = Over([id \in Written(w) |-> [notes[id] EXCEPT !.open = FALSE]], notes)
Undone(w) == notes' = [id \in DOMAIN notes \ {id \in Written(w) : notes[id].open} |-> notes[id]]

(***************************************************************************)
(* The worker's side.                                                      *)
(***************************************************************************)
Busy(k) == worker[k] # Idle
Locked == UNION {worker[k].todo \cup DOMAIN worker[k].done : k \in Workers}
ReadyMutant == {id \in DOMAIN notes : notes[id].status = "queued" /\ notes[id].due /\ ~notes[id].open}
Ready == {id \in DOMAIN notes : notes[id].status = "queued" /\ notes[id].due /\ ~notes[id].open} \ Locked

Fetch(k) ==
    /\ ~Busy(k) /\ Ready # {}
    /\ \E S \in kSubset(Min({Batch, Cardinality(Ready)}), Ready) :
          worker' = [worker EXCEPT ![k].todo = S]
    /\ UNCHANGED <<notes, inbox, faults>>

Accepts(id) == inbox' = Over(OneRow(id, IF id \in DOMAIN inbox THEN inbox[id] + 1 ELSE 1), inbox)

Becomes(k, id, status) ==
    LET tries == notes[id].attempts + 1
    IN  worker' = [worker EXCEPT ![k] =
                     [todo |-> @.todo \ {id},
                      done |-> Over(OneRow(id, [notes[id] EXCEPT !.status = status, !.attempts = tries, !.due = FALSE]), @.done)]]

Again(id) == IF notes[id].attempts + 1 < MaxAttempts THEN "queued" ELSE "failed"

Deliver(k, id) ==
    /\ id \in worker[k].todo
    /\ Accepts(id) /\ Becomes(k, id, "sent")
    /\ UNCHANGED <<notes, faults>>

Refuse(k, id, retryable) ==
    /\ id \in worker[k].todo
    /\ Becomes(k, id, IF retryable THEN Again(id) ELSE "failed")
    /\ UNCHANGED <<notes, inbox, faults>>

Fault(rows) == /\ faults.count < MaxFaults
               /\ faults' = [rows |-> faults.rows \cup rows, count |-> faults.count + 1]

LoseAnswer(k, id) ==
    /\ id \in worker[k].todo
    /\ Fault({id}) /\ Accepts(id) /\ Becomes(k, id, Again(id))
    /\ UNCHANGED notes

CommitBatch(k) ==
    /\ Busy(k) /\ worker[k].todo = {}
    /\ notes' = Over(worker[k].done, notes)
    /\ worker' = [worker EXCEPT ![k] = Idle]
    /\ UNCHANGED <<inbox, faults>>

LoseBatch(k) ==
    /\ Busy(k)
    /\ Fault({id \in DOMAIN worker[k].done : worker[k].done[id].status = "sent"})
    /\ worker' = [worker EXCEPT ![k] = Idle]
    /\ UNCHANGED <<notes, inbox>>

FallDue(id) ==
    /\ notes[id].status = "queued" /\ ~notes[id].due
    /\ notes' = [notes EXCEPT ![id].due = TRUE]
    /\ UNCHANGED <<worker, inbox, faults>>

Resend(id) ==
    /\ ~notes[id].open /\ <<id[1], Panel>> \notin DOMAIN notes
    /\ Fault({})
    /\ notes' = Over(OneRow(<<id[1], Panel>>, Fresh(FALSE)), notes)
    /\ UNCHANGED <<worker, inbox>>

Pass(k) ==
    \/ Fetch(k) \/ CommitBatch(k)
    \/ \E id \in worker[k].todo : Deliver(k, id) \/ \E retryable \in BOOLEAN : Refuse(k, id, retryable)

OutboxNext ==
    \/ \E k \in Workers : Pass(k) \/ LoseBatch(k) \/ \E id \in worker[k].todo : LoseAnswer(k, id)
    \/ \E id \in DOMAIN notes : FallDue(id) \/ Resend(id)

(***************************************************************************)
(* Properties.                                                             *)
(***************************************************************************)
\* "Duas replicas entregavam a mesma mensagem" no longer: a row leaves once
\* more than it should only if its acceptance was forgotten, and whatever
\* writers retry, the rows of one key leave as one.
OneCopy ==
    /\ \A id \in DOMAIN inbox : inbox[id] <= 1 + (IF id \in faults.rows THEN faults.count ELSE 0)
    /\ \A s \in Keyed : Cardinality({id \in DOMAIN inbox : id[1] = s /\ id[2] # Panel}) <= 1

\* Every message was delivered or given up: nothing waits in the queue.
Settled == \A id \in DOMAIN notes : notes[id].status # "queued"
=============================================================================
