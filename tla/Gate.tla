-------------------------------- MODULE Gate --------------------------------
(***************************************************************************)
(* The gate: tickets scanned offline are sent to the server in batches,    *)
(* each batch one transaction, until the device hears the verdicts.        *)
(*                                                                         *)
(* Checkin reads the ticket, the closing and its own earlier passage       *)
(* without a lock, then inserts; two unique indices decide, an insert that *)
(* meets an uncommitted row of the same key waits for that transaction.    *)
(* Any transaction under way may fail, and nothing of it stays.            *)
(* An online validation is a batch of one scan without a client_uid.       *)
(***************************************************************************)
EXTENDS Integers, FiniteSets, Sequences

CONSTANTS Tickets, Scans,
          TicketOf, Reentry,    \* of each scan
          Online,               \* the scans that carry no client_uid
          Devices, Batch,       \* the scans each device has to deliver, in order
          Requests,             \* transactions of the server
          MaxTries              \* bound: times a device sends its batch

ASSUME GateAssumption ==
    /\ TicketOf \in [Scans -> Tickets] /\ Reentry \in [Scans -> BOOLEAN] /\ Online \subseteq Scans
    /\ Batch \in [Devices -> Seq(Scans)]
    /\ Devices # {} /\ \A d \in Devices : Batch[d] # <<>>
    /\ MaxTries \in Nat

\* "client_uid: id gerado pelo dispositivo por scan": no two devices share one.
ASSUME UidAssumption ==
    \A c, d \in Devices : \A i \in DOMAIN Batch[c], j \in DOMAIN Batch[d] :
        Batch[c][i] = Batch[d][j] /\ Batch[c][i] \notin Online => c = d

VARIABLES
    burned,      \* the tickets reissued or refunded
    closed,      \* does the event have an attestation?
    checkins,    \* committed rows
    attendance,  \* attendance_records
    request,     \* the transactions under way
    device,      \* what each device knows and what gate_devices says of it
    told,        \* every verdict the server committed to, by scan
    twice        \* devices that had the batch under way in two requests at once

vars == <<burned, closed, checkins, attendance, request, device, told, twice>>

Verdict == {"admitted", "reentry", "duplicate", "invalid"}
Row == [scan : Scans, try : Nat]
Free == [at |-> "free", of |-> CHOOSE d \in Devices : TRUE, next |-> 1, rows |-> {}, said |-> <<>>]

TypeOK ==
    /\ burned \subseteq Tickets /\ closed \in BOOLEAN
    /\ checkins \subseteq Row /\ attendance \subseteq Tickets
    /\ request \in [Requests -> [at : {"free", "look", "insert", "done"}, of : Devices,
                                 next : Nat, rows : SUBSET Row, said : Seq(Verdict)]]
    /\ device \in [Devices -> [tries : 0..MaxTries, heard : BOOLEAN]]
    /\ told \in [Scans -> SUBSET Verdict]
    /\ twice \subseteq Devices

Init ==
    /\ burned = {} /\ closed = FALSE /\ checkins = {} /\ attendance = {} /\ twice = {}
    /\ request = [r \in Requests |-> Free]
    /\ device = [d \in Devices |-> [tries |-> 0, heard |-> FALSE]]
    /\ told = [s \in Scans |-> {}]

VerdictForMutant(s) == IF Reentry[s] THEN "refused" ELSE "admitted"
VerdictFor(s) == IF Reentry[s] THEN "reentry" ELSE "admitted"
Scan(r) == Batch[request[r].of][request[r].next]
Busy(d) == \E r \in Requests : request[r].at # "free" /\ request[r].of = d

\* What a transaction sees: the committed rows and its own.
Seen(r) == checkins \cup request[r].rows
Primary(rows, t) == \E row \in rows : TicketOf[row.scan] = t /\ ~Reentry[row.scan]
SameUid(rows, s) == s \notin Online /\ \E row \in rows : row.scan = s

(***************************************************************************)
(* A batch.                                                                *)
(***************************************************************************)
Send(d, r) ==
    /\ request[r].at = "free" /\ ~device[d].heard /\ device[d].tries < MaxTries
    /\ request' = [request EXCEPT ![r] = [Free EXCEPT !.at = "look", !.of = d]]
    /\ device' = [device EXCEPT ![d].tries = @ + 1]
    /\ twice' = IF Busy(d) THEN twice \cup {d} ELSE twice
    /\ UNCHANGED <<burned, closed, checkins, attendance, told>>

\* The next scan of the batch, or the end of it.
Say(r, verdict, rows) ==
    LET q == request[r]
    IN  request' = [request EXCEPT ![r] = [q EXCEPT
            !.at = IF q.next = Len(Batch[q.of]) THEN "done" ELSE "look",
            !.next = q.next + 1, !.rows = rows, !.said = Append(q.said, verdict)]]

Refused(s) == TicketOf[s] \in burned \/ closed

\* A scan already recorded hears its verdict again.
KnownMutant(r, s) == FALSE
Known(r, s) == SameUid(Seen(r), s)

Look(r) ==
    /\ request[r].at = "look"
    /\ LET s == Scan(r)
       IN  \/ Refused(s) /\ Say(r, "invalid", request[r].rows)
           \/ ~Refused(s) /\ Known(r, s) /\ Say(r, VerdictFor(s), request[r].rows)
           \/ ~Refused(s) /\ ~Known(r, s) /\ request' = [request EXCEPT ![r].at = "insert"]
    /\ UNCHANGED <<burned, closed, checkins, attendance, device, told, twice>>

Conflicts(s, rows) == (~Reentry[s] /\ Primary(rows, TicketOf[s])) \/ SameUid(rows, s)

Waits(r) == {q \in Requests \ {r} : request[r].at = "insert" /\ Conflicts(Scan(r), request[q].rows)}

\* The index of primary admissions is the older one and answers first.
InsertMutant(r) ==
    /\ request[r].at = "insert" /\ Waits(r) = {}
    /\ LET s == Scan(r)
       IN  IF SameUid(Seen(r), s) THEN Say(r, VerdictFor(s), request[r].rows)
           ELSE Say(r, VerdictFor(s), request[r].rows \cup {[scan |-> s, try |-> device[request[r].of].tries]})
    /\ UNCHANGED <<burned, closed, checkins, attendance, device, told, twice>>

Insert(r) ==
    /\ request[r].at = "insert" /\ Waits(r) = {}
    /\ LET s == Scan(r)
           row == [scan |-> s, try |-> device[request[r].of].tries]
       IN  \/ ~Reentry[s] /\ Primary(Seen(r), TicketOf[s]) /\ Say(r, "duplicate", request[r].rows)
           \/ Reentry[s] /\ SameUid(Seen(r), s) /\ Say(r, VerdictFor(s), request[r].rows)
           \/ ~Conflicts(s, Seen(r)) /\ Say(r, VerdictFor(s), request[r].rows \cup {row})
    /\ UNCHANGED <<burned, closed, checkins, attendance, device, told, twice>>

AdmitsMutant(row) == TRUE
Admits(row) == ~Reentry[row.scan]

\* The rows become visible; the answer may be lost on its way.
Commit(r, reaches) ==
    /\ request[r].at = "done"
    /\ LET q == request[r]
           b == Batch[q.of]
       IN  /\ checkins' = checkins \cup q.rows
           /\ attendance' = attendance \cup {TicketOf[row.scan] : row \in {x \in q.rows : Admits(x)}}
           /\ told' = [s \in Scans |-> told[s] \cup {q.said[i] : i \in {j \in DOMAIN b : b[j] = s}}]
           /\ device' = [device EXCEPT ![q.of].heard = @ \/ reaches]
    /\ request' = [request EXCEPT ![r] = Free]
    /\ UNCHANGED <<burned, closed, twice>>

\* A disconnect, an error of the database or the end it puts to two batches that wait
\* for each other: nothing of the batch stays, and its device hears an error.
Abort(r) ==
    /\ request[r].at # "free"
    /\ request' = [request EXCEPT ![r] = Free]
    /\ UNCHANGED <<burned, closed, checkins, attendance, device, told, twice>>

(***************************************************************************)
(* Meanwhile.                                                              *)
(***************************************************************************)
Burn(t) ==
    /\ t \notin burned
    /\ burned' = burned \cup {t}
    /\ UNCHANGED <<closed, checkins, attendance, request, device, told, twice>>

CloseEvent ==
    /\ ~closed
    /\ closed' = TRUE
    /\ UNCHANGED <<burned, checkins, attendance, request, device, told, twice>>

Serve(r) == Look(r) \/ Insert(r) \/ Abort(r) \/ \E reaches \in BOOLEAN : Commit(r, reaches)

Next ==
    \/ \E r \in Requests : Serve(r) \/ \E d \in Devices : Send(d, r)
    \/ \E t \in Tickets : Burn(t)
    \/ CloseEvent

Spec == Init /\ [][Next]_vars

(***************************************************************************)
(* Properties.                                                             *)
(***************************************************************************)
Recorded(s) == {row \in checkins : row.scan = s}

\* "A prevencao de duplicidade e do schema": however many gates, devices and
\* resendings, a ticket is admitted once; a scan with a client_uid is one row.
OneAdmission ==
    /\ \A a, b \in checkins :
          TicketOf[a.scan] = TicketOf[b.scan] /\ ~Reentry[a.scan] /\ ~Reentry[b.scan] => a = b
    /\ \A s \in Scans \ Online : Cardinality(Recorded(s)) <= 1

\* The public record of presence is exactly who was admitted, once.
AttendanceIsAdmission == attendance = {t \in Tickets : Primary(checkins, t)}

\* "Devolve o mesmo veredito": a scan sent again is never admitted once and a
\* duplicate of itself the other time, while one request at a time carries it.
OneFace ==
    \A d \in Devices \ twice : \A i \in DOMAIN Batch[d] :
        LET s == Batch[d][i]
        IN  s \notin Online => ~({"admitted", "duplicate"} \subseteq told[s])

(***************************************************************************)
(* What the code's comments say and the model refutes.                     *)
(***************************************************************************)
\* "Corrida no mesmo scan: trata como idempotente".
SameScanIsIdempotent == \A s \in Scans \ Online : ~({"admitted", "duplicate"} \subseteq told[s])

\* "Se este scan ja foi processado, devolve o mesmo veredito".
SameVerdict == \A s \in Scans \ Online : "admitted" \in told[s] => "invalid" \notin told[s]
=============================================================================
