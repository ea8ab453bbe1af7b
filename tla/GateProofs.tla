----------------------------- MODULE GateProofs -----------------------------
(***************************************************************************)
(* One admission per ticket, for any scans, devices, batches and requests. *)
(*                                                                         *)
(* What is committed does not say it alone: two batches under way may each *)
(* have a row for one ticket.  The invariant is about every row there is,  *)
(* committed or not: an insert looks at the committed ones and at its own, *)
(* and waits for the others'.                                              *)
(***************************************************************************)
EXTENDS Gate, FiniteSetTheorems, SequenceTheorems, TLAPS

Transaction == [at : {"free", "look", "insert", "done"}, of : Devices,
                next : Nat, rows : SUBSET Row, said : Seq(Verdict)]

Typed ==
    /\ checkins \subseteq Row
    /\ request \in [Requests -> Transaction]
    /\ device \in [Devices -> [tries : 0..MaxTries, heard : BOOLEAN]]
    /\ \A r \in Requests : request[r].at \in {"look", "insert"} => request[r].next \in 1..Len(Batch[request[r].of])

\* Two rows one of the two unique indices does not allow together.
Clash(a, b) ==
    \/ TicketOf[a.scan] = TicketOf[b.scan] /\ ~Reentry[a.scan] /\ ~Reentry[b.scan]
    \/ a.scan = b.scan /\ a.scan \notin Online

Rows == checkins \cup UNION {request[r].rows : r \in Requests}
Unique == \A a, b \in Rows : Clash(a, b) => a = b

GInv == Typed /\ Unique

LEMMA FreeType == Free \in Transaction
<1>1. (CHOOSE d \in Devices : TRUE) \in Devices
  BY GateAssumption
<1>2. << >> \in Seq(Verdict)
  BY EmptySeq
<1> QED BY <1>1, <1>2 DEF Free, Transaction

LEMMA ScanType ==
  ASSUME Typed, NEW r \in Requests, request[r].at \in {"look", "insert"}
  PROVE  Scan(r) \in Scans
<1>1. Batch[request[r].of] \in Seq(Scans) /\ request[r].next \in 1..Len(Batch[request[r].of])
  BY GateAssumption DEF Typed, Transaction
<1> QED BY <1>1, ElementOfSeq DEF Scan

LEMMA VerdictType == ASSUME NEW s \in Scans PROVE VerdictFor(s) \in Verdict
BY DEF VerdictFor, Verdict

\* A transaction goes on to its next scan with the rows it says it has.
LEMMA SayKeepsTypes ==
  ASSUME Typed, NEW r \in Requests, request[r].at \in {"look", "insert"}, NEW v \in Verdict,
         NEW rows \in SUBSET Row, Say(r, v, rows), UNCHANGED <<checkins, device>>
  PROVE  /\ Typed'
         /\ request'[r].rows = rows
         /\ \A q \in Requests \ {r} : request'[q] = request[q]
<1> DEFINE q == request[r]
           after == [q EXCEPT !.at = IF q.next = Len(Batch[q.of]) THEN "done" ELSE "look",
                              !.next = q.next + 1, !.rows = rows, !.said = Append(q.said, v)]
<1>1. q \in Transaction /\ q.next \in 1..Len(Batch[q.of])
  BY DEF Typed
<1>2. Append(q.said, v) \in Seq(Verdict)
  BY <1>1, AppendProperties DEF Transaction
<1>3. Len(Batch[q.of]) \in Nat
  <2>1. Batch[q.of] \in Seq(Scans)
    BY <1>1, GateAssumption DEF Transaction
  <2> QED BY <2>1, LenProperties
<1>4. request' = [request EXCEPT ![r] = after]
  BY DEF Say
<1> HIDE DEF q
<1>5. /\ after \in Transaction /\ after.rows = rows /\ after.of = q.of /\ after.next = q.next + 1
      /\ after.at = IF q.next = Len(Batch[q.of]) THEN "done" ELSE "look"
  <2> DEFINE at == IF q.next = Len(Batch[q.of]) THEN "done" ELSE "look"
             said == Append(q.said, v)
  <2>1. at \in {"free", "look", "insert", "done"} /\ q.next + 1 \in Nat
    BY <1>1 DEF Transaction
  <2>2. said \in Seq(Verdict)
    BY <1>2
  <2>3. after = [q EXCEPT !.at = at, !.next = q.next + 1, !.rows = rows, !.said = said]
    OBVIOUS
  <2> HIDE DEF at, said, after
  <2>4. after \in Transaction
    BY <1>1, <2>1, <2>2, <2>3 DEF Transaction
  <2>5. after.rows = rows /\ after.of = q.of /\ after.next = q.next + 1 /\ after.at = at
    BY <1>1, <2>3 DEF Transaction
  <2> QED BY <2>4, <2>5 DEF at
<1>6. after.at \in {"look", "insert"} => after.next \in 1..Len(Batch[after.of])
  <2> HIDE DEF after
  <2> QED BY <1>1, <1>3, <1>5
<1> HIDE DEF after
<1> QED BY <1>4, <1>5, <1>6 DEF Typed

\* Fewer rows clash no more.
LEMMA Fewer == ASSUME Unique, Rows' \subseteq Rows PROVE Unique'
BY DEF Unique, Clash

LEMMA InitGInv == Init => GInv
<1> SUFFICES ASSUME Init PROVE GInv
  OBVIOUS
<1>1. Typed
  <2>1. request \in [Requests -> Transaction]
    BY FreeType DEF Init
  <2>2. device \in [Devices -> [tries : 0..MaxTries, heard : BOOLEAN]]
    <3>1. 0 \in 0..MaxTries
      BY GateAssumption
    <3> QED BY <3>1 DEF Init
  <2>3. \A r \in Requests : request[r].at = "free"
    BY DEF Init, Free
  <2> QED BY <2>1, <2>2, <2>3 DEF Init, Typed
<1>2. Rows = {}
  BY DEF Init, Rows, Free
<1> QED BY <1>1, <1>2 DEF GInv, Unique

LEMMA LookKeeps == ASSUME GInv, NEW r \in Requests, Look(r) PROVE GInv'
<1>1. request[r].at = "look" /\ UNCHANGED <<checkins, device>> /\ request[r] \in Transaction
  BY DEF Look, GInv, Typed
<1>2. Scan(r) \in Scans
  BY <1>1, ScanType DEF GInv
<1>3. CASE \E v \in Verdict : Say(r, v, request[r].rows)
  <2>1. Typed' /\ request'[r].rows = request[r].rows /\ \A q \in Requests \ {r} : request'[q] = request[q]
    BY <1>1, <1>3, SayKeepsTypes DEF GInv, Transaction
  <2>2. Rows' = Rows
    BY <1>1, <2>1 DEF Rows
  <2> QED BY <2>1, <2>2, Fewer DEF GInv
<1>4. CASE request' = [request EXCEPT ![r].at = "insert"]
  <2>1. Typed'
    BY <1>1, <1>4 DEF GInv, Typed, Transaction
  <2>2. \A q \in Requests : request'[q].rows = request[q].rows
    BY <1>4 DEF GInv, Typed, Transaction
  <2>3. Rows' = Rows
    BY <1>1, <2>2 DEF Rows
  <2> QED BY <2>1, <2>3, Fewer DEF GInv
<1>5. "invalid" \in Verdict /\ VerdictFor(Scan(r)) \in Verdict
  BY <1>2, VerdictType DEF Verdict
<1> QED BY <1>3, <1>4, <1>5 DEF Look

\* The one step that adds a row: it clashes with none of its own transaction, with
\* none committed, and with none of those under way.
LEMMA InsertKeeps == ASSUME GInv, NEW r \in Requests, Insert(r) PROVE GInv'
<1> DEFINE s == Scan(r)
           row == [scan |-> s, try |-> device[request[r].of].tries]
<1>1. request[r].at = "insert" /\ Waits(r) = {} /\ UNCHANGED <<checkins, device>> /\ request[r] \in Transaction
  BY DEF Insert, GInv, Typed
<1>2. s \in Scans
  BY <1>1, ScanType DEF GInv
<1>3. row \in Row
  BY <1>1, <1>2, GateAssumption DEF Row, GInv, Typed, Transaction
<1>4. "duplicate" \in Verdict /\ VerdictFor(s) \in Verdict
  BY <1>2, VerdictType DEF Verdict
<1>5. CASE \E v \in Verdict : Say(r, v, request[r].rows)
  <2>1. Typed' /\ request'[r].rows = request[r].rows /\ \A q \in Requests \ {r} : request'[q] = request[q]
    BY <1>1, <1>5, SayKeepsTypes DEF GInv, Transaction
  <2>2. Rows' = Rows
    BY <1>1, <2>1 DEF Rows
  <2> QED BY <2>1, <2>2, Fewer DEF GInv
<1>6. CASE ~Conflicts(s, Seen(r)) /\ Say(r, VerdictFor(s), request[r].rows \cup {row})
  <2>1. request[r].rows \cup {row} \in SUBSET Row
    BY <1>1, <1>3 DEF Transaction
  <2>2. Typed' /\ request'[r].rows = request[r].rows \cup {row} /\ \A q \in Requests \ {r} : request'[q] = request[q]
    <3> HIDE DEF s, row
    <3> QED BY <1>1, <1>4, <1>6, <2>1, SayKeepsTypes DEF GInv
  <2>3. Rows' \subseteq Rows \cup {row}
    <3> HIDE DEF row
    <3> QED BY <1>1, <2>2 DEF Rows
  <2>4. \A q \in Requests \ {r} : ~Conflicts(s, request[q].rows)
    BY <1>1 DEF Waits
  <2>5. \A x \in Rows : x \in Seen(r) \/ \E q \in Requests \ {r} : x \in request[q].rows
    BY DEF Rows, Seen
  <2>6. ASSUME NEW x \in Rows PROVE ~Clash(x, row) /\ ~Clash(row, x)
    <3>1. row.scan = s
      OBVIOUS
    <3> HIDE DEF row, s
    <3>2. PICK S : x \in S /\ ~Conflicts(s, S)
      BY <1>6, <2>4, <2>5
    <3> QED BY <3>1, <3>2 DEF Conflicts, Primary, SameUid, Clash
  <2>7. Unique'
    <3> HIDE DEF row
    <3>1. \A a, b \in Rows \cup {row} : Clash(a, b) => a = b
      BY <2>6 DEF GInv, Unique
    <3> QED BY <2>3, <3>1 DEF Unique, Clash
  <2> QED BY <2>2, <2>7 DEF GInv
<1> QED BY <1>4, <1>5, <1>6 DEF Insert

\* Rows are committed, or thrown away with their transaction.
LEMMA EndsKeep ==
  ASSUME GInv, NEW r \in Requests, Abort(r) \/ \E reaches \in BOOLEAN : Commit(r, reaches)
  PROVE  GInv'
<1>1. request' = [request EXCEPT ![r] = Free] /\ request[r] \in Transaction
      /\ checkins \subseteq checkins' /\ checkins' \subseteq checkins \cup request[r].rows
  BY DEF Abort, Commit, GInv, Typed
<1>2. device' \in [Devices -> [tries : 0..MaxTries, heard : BOOLEAN]]
  <2>1. CASE Abort(r)
    BY <2>1 DEF Abort, GInv, Typed
  <2>2. ASSUME NEW reaches \in BOOLEAN, Commit(r, reaches)
        PROVE  device' \in [Devices -> [tries : 0..MaxTries, heard : BOOLEAN]]
    <3> DEFINE d == request[r].of
               hears == device[d].heard \/ reaches
    <3>1. d \in Devices
      BY <1>1 DEF Transaction
    <3>2. hears \in BOOLEAN
      OBVIOUS
    <3>3. device' = [device EXCEPT ![d].heard = hears]
      BY <2>2 DEF Commit
    <3> HIDE DEF d, hears
    <3> QED BY <3>1, <3>2, <3>3 DEF GInv, Typed
  <2> QED BY <2>1, <2>2
<1>3. Typed'
  BY <1>1, <1>2, FreeType DEF GInv, Typed, Transaction, Free
<1>4. request'[r].rows = {} /\ \A q \in Requests \ {r} : request'[q] = request[q]
  BY <1>1 DEF Free, GInv, Typed
<1>5. Rows' \subseteq Rows
  BY <1>1, <1>4 DEF Rows
<1> QED BY <1>3, <1>5, Fewer DEF GInv

LEMMA SendKeeps == ASSUME GInv, NEW d \in Devices, NEW r \in Requests, Send(d, r) PROVE GInv'
<1>1. /\ request' = [request EXCEPT ![r] = [Free EXCEPT !.at = "look", !.of = d]]
      /\ device' = [device EXCEPT ![d].tries = @ + 1] /\ device[d].tries < MaxTries
      /\ UNCHANGED checkins
  BY DEF Send
<1> DEFINE new == [Free EXCEPT !.at = "look", !.of = d]
<1>2. new \in Transaction /\ new.rows = {} /\ new.next = 1 /\ new.of = d
  BY FreeType DEF Free, Transaction
<1>3. Batch[d] \in Seq(Scans) /\ Batch[d] # << >>
  BY GateAssumption
<1>4. 1 \in 1..Len(Batch[d])
  BY <1>3, EmptySeq
<1> HIDE DEF new
<1>5. device' \in [Devices -> [tries : 0..MaxTries, heard : BOOLEAN]]
  <2> DEFINE tried == device[d].tries + 1
  <2>1. device[d].tries \in 0..MaxTries /\ MaxTries \in Nat
    BY GateAssumption DEF GInv, Typed
  <2>2. tried \in 0..MaxTries
    BY <1>1, <2>1
  <2>3. device' = [device EXCEPT ![d].tries = tried]
    BY <1>1
  <2> HIDE DEF tried
  <2> QED BY <2>2, <2>3 DEF GInv, Typed
<1>6. Typed'
  BY <1>1, <1>2, <1>4, <1>5 DEF new, GInv, Typed
<1>7. request'[r].rows = {} /\ \A q \in Requests \ {r} : request'[q] = request[q]
  BY <1>1, <1>2 DEF new, GInv, Typed
<1>8. Rows' \subseteq Rows
  BY <1>1, <1>7 DEF Rows
<1> QED BY <1>6, <1>8, Fewer DEF GInv

LEMMA NextGInv == GInv /\ [Next]_vars => GInv'
<1> SUFFICES ASSUME GInv, [Next]_vars PROVE GInv'
  OBVIOUS
<1>1. CASE UNCHANGED <<checkins, request, device>>
  BY <1>1 DEF GInv, Typed, Unique, Rows, Clash
<1>2. ASSUME NEW r \in Requests, Serve(r) PROVE GInv'
  BY <1>2, LookKeeps, InsertKeeps, EndsKeep DEF Serve
<1>3. ASSUME NEW r \in Requests, NEW d \in Devices, Send(d, r) PROVE GInv'
  BY <1>3, SendKeeps
<1> QED BY <1>1, <1>2, <1>3 DEF Next, Burn, CloseEvent, vars

\* However many devices send however many batches however often, no ticket is
\* admitted twice and no scan with a client_uid is recorded twice.
THEOREM EachTicketAdmittedOnce == Spec => []OneAdmission
<1>1. GInv => OneAdmission
  <2> SUFFICES ASSUME GInv PROVE OneAdmission
    OBVIOUS
  <2>1. \A a, b \in checkins : Clash(a, b) => a = b
    BY DEF GInv, Unique, Rows
  <2>2. ASSUME NEW s \in Scans \ Online PROVE Cardinality(Recorded(s)) <= 1
    <3>1. \A a, b \in Recorded(s) : a = b
      BY <2>1 DEF Recorded, Clash
    <3>2. CASE Recorded(s) = {}
      BY <3>2, FS_EmptySet
    <3>3. CASE Recorded(s) # {}
      <4>1. PICK x : Recorded(s) = {x}
        BY <3>1, <3>3
      <4>2. Cardinality({x}) = 1
        BY FS_Singleton, Zenon
      <4> QED BY <4>1, <4>2
    <3> QED BY <3>2, <3>3
  <2> QED BY <2>1, <2>2 DEF OneAdmission, Clash
<1> QED BY <1>1, InitGInv, NextGInv, PTL DEF Spec

(***************************************************************************)
(* The verdicts.  While one request at a time carries a device's batch,    *)
(* only that request can record its scans: a scan that was admitted is     *)
(* recorded and stays so, and one that was a duplicate met an admission    *)
(* that stays, and is recorded nowhere.                                    *)
(***************************************************************************)
Carries(d, s) == \E i \in DOMAIN Batch[d] : Batch[d][i] = s
In(rows, s) == \E row \in rows : row.scan = s

\* What a verdict says of the rows its transaction saw, and of all there are.
Stands(rows, all, s, verdict) ==
    /\ verdict = "admitted" => In(rows, s)
    /\ verdict = "duplicate" => ~Reentry[s] /\ Primary(rows, TicketOf[s]) /\ ~In(all, s)

InBatch ==
    \A r \in Requests : request[r].at # "free" =>
        /\ Len(request[r].said) = request[r].next - 1
        /\ request[r].at = "done" => request[r].next = Len(Batch[request[r].of]) + 1

OwnRows ==
    \A r \in Requests : \A row \in request[r].rows :
        request[r].at # "free" /\ Carries(request[r].of, row.scan)

Alone ==
    \A q, r \in Requests :
        /\ request[q].at # "free" /\ request[r].at # "free"
        /\ request[q].of = request[r].of /\ request[r].of \notin twice
        => q = r

ToldStands ==
    \A d \in Devices \ twice, s \in Scans \ Online :
        Carries(d, s) => \A v \in told[s] : Stands(checkins, Rows, s, v)

SaidStands ==
    \A r \in Requests : request[r].at # "free" /\ request[r].of \notin twice =>
        \A i \in 1..Len(request[r].said) :
            Batch[request[r].of][i] \notin Online =>
                Stands(Seen(r), Rows, Batch[request[r].of][i], request[r].said[i])

NotYet ==
    \A r \in Requests :
        request[r].at = "insert" /\ request[r].of \notin twice /\ Scan(r) \notin Online => ~In(Rows, Scan(r))

FaceInv ==
    /\ GInv /\ told \in [Scans -> SUBSET Verdict]
    /\ InBatch /\ OwnRows /\ Alone /\ ToldStands /\ SaidStands /\ NotYet

LEMMA OneCarrier ==
  ASSUME NEW c \in Devices, NEW d \in Devices, NEW s, s \notin Online, Carries(c, s), Carries(d, s)
  PROVE  c = d
BY UidAssumption DEF Carries

LEMMA ScanCarried ==
  ASSUME Typed, NEW r \in Requests, request[r].at \in {"look", "insert"}
  PROVE  Carries(request[r].of, Scan(r)) /\ request[r].of \in Devices /\ Scan(r) \in Scans
<1>1. /\ Batch[request[r].of] \in Seq(Scans) /\ request[r].next \in 1..Len(Batch[request[r].of])
      /\ request[r].of \in Devices
  BY GateAssumption DEF Typed, Transaction
<1>2. request[r].next \in DOMAIN Batch[request[r].of]
  BY <1>1, LenProperties
<1> QED BY <1>1, <1>2, ScanType DEF Carries, Scan

\* A verdict given: it comes last, with its scan.
LEMMA SaySays ==
  ASSUME Typed, InBatch, NEW r \in Requests, request[r].at \in {"look", "insert"}, NEW v, NEW rows,
         Say(r, v, rows)
  PROVE  /\ request'[r].of = request[r].of /\ request'[r].rows = rows /\ request'[r].at \in {"look", "done"}
         /\ request'[r].next = request[r].next + 1
         /\ request'[r].at = "done" => request'[r].next = Len(Batch[request[r].of]) + 1
         /\ Len(request[r].said) = request[r].next - 1
         /\ Len(request'[r].said) = request[r].next
         /\ request'[r].said[request[r].next] = v
         /\ \A i \in 1..(request[r].next - 1) : request'[r].said[i] = request[r].said[i]
<1> DEFINE q == request[r]
           at == IF q.next = Len(Batch[q.of]) THEN "done" ELSE "look"
           said == Append(q.said, v)
<1>1. q \in Transaction /\ request \in [Requests -> Transaction] /\ Len(q.said) = q.next - 1 /\ q.next \in Nat
  BY DEF Typed, InBatch, Transaction
<1>2. request'[r] = [q EXCEPT !.at = at, !.next = q.next + 1, !.rows = rows, !.said = said]
  BY <1>1 DEF Say
<1>3. /\ Len(said) = Len(q.said) + 1 /\ said[Len(q.said) + 1] = v
      /\ \A i \in 1..Len(q.said) : said[i] = q.said[i]
  <2>1. q.said \in Seq(Verdict \cup {v}) /\ v \in Verdict \cup {v}
    <3>1. q.said \in Seq(Verdict)
      BY <1>1 DEF Transaction
    <3>2. \A i \in 1..Len(q.said) : q.said[i] \in Verdict \cup {v}
      BY <3>1, ElementOfSeq
    <3> QED BY <3>1, <3>2
  <2> QED BY <2>1, AppendProperties
<1> HIDE DEF said, q
<1>4. /\ request'[r].of = q.of /\ request'[r].rows = rows /\ request'[r].at = at
      /\ request'[r].next = q.next + 1 /\ request'[r].said = said
  BY <1>1, <1>2 DEF Transaction
<1>5. Len(q.said) + 1 = q.next
  BY <1>1
<1> QED BY <1>1, <1>3, <1>4, <1>5 DEF q

LEMMA StandsStill ==
  ASSUME NEW rows, NEW all, NEW s, NEW v, Stands(rows, all, s, v),
         NEW rows2, NEW all2, rows \subseteq rows2, v = "duplicate" => ~In(all2, s)
  PROVE  Stands(rows2, all2, s, v)
BY DEF Stands, In, Primary

\* A verdict is given on the scan at hand, and its row is recorded or not.
LEMMA VerdictGiven ==
  ASSUME FaceInv, GInv', NEW r \in Requests, request[r].at \in {"look", "insert"},
         NEW v, NEW rows, Say(r, v, rows), UNCHANGED <<checkins, told, twice>>,
         \A q \in Requests \ {r} : request'[q] = request[q],
         request[r].rows \subseteq rows, \A row \in rows \ request[r].rows : row.scan = Scan(r),
         rows = request[r].rows \/ ~Conflicts(Scan(r), Seen(r)),
         Scan(r) \notin Online /\ request[r].of \notin twice => Stands(checkins \cup rows, Rows', Scan(r), v)
  PROVE  FaceInv'
<1> DEFINE s == Scan(r)
           d == request[r].of
           n == request[r].next
<1>1. /\ request'[r].of = d /\ request'[r].rows = rows /\ request'[r].at \in {"look", "done"}
      /\ request'[r].next = n + 1 /\ request[r].at # "free"
      /\ request'[r].at = "done" => request'[r].next = Len(Batch[d]) + 1
      /\ Len(request[r].said) = n - 1 /\ Len(request'[r].said) = n /\ request'[r].said[n] = v
      /\ \A i \in 1..(n - 1) : request'[r].said[i] = request[r].said[i]
  BY SaySays DEF FaceInv, GInv
<1>2. n \in Nat /\ d \in Devices /\ s \in Scans /\ Carries(d, s) /\ s = Batch[d][n]
  BY ScanCarried DEF FaceInv, GInv, Typed, Transaction, Scan
<1>3. /\ Seen(r)' = checkins \cup rows /\ Seen(r) \subseteq Seen(r)'
      /\ \A q \in Requests \ {r} : Seen(q)' = Seen(q)
  BY <1>1 DEF Seen
<1>4. \A x \in Rows' : x \in Rows \/ x \in rows \ request[r].rows
  BY <1>1 DEF Rows
\* A scan recorded nowhere still is not, unless it is the one at hand.
<1>5. ASSUME NEW t, ~In(Rows, t), t # s \/ rows = request[r].rows PROVE ~In(Rows', t)
  BY <1>4, <1>5 DEF In
\* The one at hand is recorded only where it conflicts with nothing.
<1>6. ASSUME NEW S, S \subseteq Seen(r), ~Reentry[s], Primary(S, TicketOf[s]) PROVE rows = request[r].rows
  BY <1>6 DEF Conflicts, Primary
<1> HIDE DEF s, d, n
<1>7. InBatch'
  <2> SUFFICES ASSUME NEW q \in Requests, request'[q].at # "free"
               PROVE  /\ Len(request'[q].said) = request'[q].next - 1
                      /\ request'[q].at = "done" => request'[q].next = Len(Batch[request'[q].of]) + 1
    BY DEF InBatch
  <2>1. CASE q = r
    BY <1>1, <1>2, <2>1
  <2>2. CASE q # r
    BY <2>2 DEF FaceInv, InBatch
  <2> QED BY <2>1, <2>2
<1>8. OwnRows'
  <2> SUFFICES ASSUME NEW q \in Requests, NEW row \in request'[q].rows
               PROVE  request'[q].at # "free" /\ Carries(request'[q].of, row.scan)
    BY DEF OwnRows
  <2>1. CASE q = r
    <3>1. CASE row \in request[r].rows
      BY <1>1, <2>1, <3>1 DEF FaceInv, OwnRows, d
    <3>2. CASE row \notin request[r].rows
      BY <1>1, <1>2, <2>1, <3>2 DEF s
    <3> QED BY <3>1, <3>2
  <2>2. CASE q # r
    BY <2>2 DEF FaceInv, OwnRows
  <2> QED BY <2>1, <2>2
<1>9. Alone'
  <2>1. \A q \in Requests : request'[q].of = request[q].of /\ (request'[q].at # "free" => request[q].at # "free")
    BY <1>1 DEF d
  <2> QED BY <2>1 DEF FaceInv, Alone
<1>10. ToldStands'
  <2> SUFFICES ASSUME NEW c \in Devices \ twice, NEW t \in Scans \ Online, Carries(c, t), NEW w \in told[t]
               PROVE  Stands(checkins, Rows', t, w)
    BY DEF ToldStands
  <2>1. Stands(checkins, Rows, t, w)
    BY DEF FaceInv, ToldStands
  <2>2. w = "duplicate" => ~In(Rows, t) /\ ~Reentry[t] /\ Primary(checkins, TicketOf[t])
    BY <2>1 DEF Stands
  <2>3. w = "duplicate" => ~In(Rows', t)
    BY <1>5, <1>6, <2>2 DEF Seen
  <2> QED BY <2>1, <2>3, StandsStill
<1>11. SaidStands'
  <2> SUFFICES ASSUME NEW q \in Requests, request'[q].at # "free", request'[q].of \notin twice,
                      NEW i \in 1..Len(request'[q].said), Batch[request'[q].of][i] \notin Online
               PROVE  Stands(Seen(q)', Rows', Batch[request'[q].of][i], request'[q].said[i])
    BY DEF SaidStands
  <2> DEFINE t == Batch[request[q].of][i]
             w == request[q].said[i]
  <2>1. request'[q].of = request[q].of /\ request[q].at # "free" /\ request[q].of \in Devices
    BY <1>1 DEF d, FaceInv, GInv, Typed, Transaction
  <2>2. CASE q = r /\ i = n
    BY <1>1, <1>2, <1>3, <2>1, <2>2 DEF s, d
  <2>3. CASE ~(q = r /\ i = n)
    <3>1. i \in 1..Len(request[q].said) /\ request'[q].said[i] = w
      BY <1>1, <1>2, <2>3
    <3>2. Stands(Seen(q), Rows, t, w)
      BY <2>1, <3>1 DEF FaceInv, SaidStands
    <3>3. Carries(request[q].of, t)
      <4>1. Batch[request[q].of] \in Seq(Scans) /\ request[q] \in Transaction
        BY <2>1, GateAssumption DEF FaceInv, GInv, Typed, Transaction
      <4>2. Len(Batch[request[q].of]) \in Nat /\ request[q].next \in Nat
        BY <4>1, LenProperties DEF Transaction
      <4>3. Len(request[q].said) = request[q].next - 1 /\ request[q].next - 1 <= Len(Batch[request[q].of])
        <5>1. \/ request[q].next \in 1..Len(Batch[request[q].of])
              \/ request[q].next = Len(Batch[request[q].of]) + 1
          BY <2>1, <4>1 DEF FaceInv, InBatch, GInv, Typed, Transaction
        <5> QED BY <2>1, <4>2, <5>1 DEF FaceInv, InBatch
      <4>4. i \in DOMAIN Batch[request[q].of]
        BY <3>1, <4>1, <4>2, <4>3, LenProperties
      <4> QED BY <4>4 DEF Carries
    <3>4. ASSUME t = s PROVE q = r
      <4>1. request[q].of = d
        BY <1>2, <2>1, <3>3, <3>4, OneCarrier
      <4> QED BY <1>1, <2>1, <4>1 DEF FaceInv, Alone, d
    <3>5. ASSUME w = "duplicate" PROVE ~In(Rows', t)
      <4>1. ~In(Rows, t) /\ ~Reentry[t] /\ Primary(Seen(q), TicketOf[t])
        BY <3>2, <3>5 DEF Stands
      <4>2. CASE t # s
        BY <1>5, <4>1, <4>2
      <4>3. CASE t = s
        BY <1>5, <1>6, <3>4, <4>1, <4>3
      <4> QED BY <4>2, <4>3
    <3>6. Seen(q) \subseteq Seen(q)'
      BY <1>3
    <3> HIDE DEF t, w
    <3>7. Stands(Seen(q)', Rows', t, w)
      BY <3>2, <3>5, <3>6, StandsStill
    <3> QED BY <2>1, <3>1, <3>7 DEF t
  <2> QED BY <2>2, <2>3
<1>12. NotYet'
  <2> SUFFICES ASSUME NEW q \in Requests, request'[q].at = "insert", request'[q].of \notin twice,
                      Scan(q)' \notin Online
               PROVE  ~In(Rows', Scan(q)')
    BY DEF NotYet
  <2>1. q # r /\ request'[q] = request[q] /\ Scan(q)' = Scan(q)
    BY <1>1 DEF Scan
  <2>2. ~In(Rows, Scan(q))
    BY <2>1 DEF FaceInv, NotYet
  <2>3. Carries(request[q].of, Scan(q)) /\ request[q].of \in Devices
    BY <2>1, ScanCarried DEF FaceInv, GInv
  <2>4. Scan(q) # s
    <3> SUFFICES ASSUME Scan(q) = s PROVE FALSE
      OBVIOUS
    <3>1. request[q].of = d
      BY <1>2, <2>1, <2>3, OneCarrier
    <3> QED BY <1>1, <2>1, <3>1 DEF FaceInv, Alone, d
  <2> QED BY <1>5, <2>1, <2>2, <2>4
<1> QED BY <1>7, <1>8, <1>9, <1>10, <1>11, <1>12 DEF FaceInv

LEMMA LookFace == ASSUME FaceInv, NEW r \in Requests, Look(r) PROVE FaceInv'
<1> DEFINE s == Scan(r)
<1>1. /\ request[r].at = "look" /\ UNCHANGED <<checkins, device, told, twice>> /\ GInv'
      /\ request[r] \in Transaction /\ request[r].rows \in SUBSET Row
  BY LookKeeps DEF Look, FaceInv, GInv, Typed, Transaction
<1>2. s \in Scans
  BY <1>1, ScanType DEF FaceInv, GInv
<1>3. ASSUME NEW v \in Verdict, Say(r, v, request[r].rows),
             v = "invalid" \/ (Known(r, s) /\ v = VerdictFor(s))
      PROVE  FaceInv'
  <2>1. request'[r].rows = request[r].rows /\ \A q \in Requests \ {r} : request'[q] = request[q]
    BY <1>1, <1>3, SayKeepsTypes DEF FaceInv, GInv
  <2>2. Stands(checkins \cup request[r].rows, Rows', s, v)
    BY <1>3 DEF Stands, VerdictFor, Known, SameUid, Seen, In
  <2> QED BY <1>1, <1>3, <2>1, <2>2, VerdictGiven
<1>4. CASE request' = [request EXCEPT ![r].at = "insert"] /\ ~Known(r, s)
  <2>1. /\ request'[r].of = request[r].of /\ request'[r].rows = request[r].rows
        /\ request'[r].next = request[r].next /\ request'[r].said = request[r].said
        /\ request'[r].at = "insert" /\ \A q \in Requests \ {r} : request'[q] = request[q]
    BY <1>1, <1>4 DEF FaceInv, GInv, Typed, Transaction
  <2>2. \A q \in Requests : Seen(q)' = Seen(q) /\ Scan(q)' = Scan(q)
    BY <1>1, <2>1 DEF Seen, Scan
  <2>3. Rows' = Rows
    BY <1>1, <2>1 DEF Rows
  <2>4. InBatch' /\ OwnRows' /\ Alone'
    BY <1>1, <2>1 DEF FaceInv, InBatch, OwnRows, Alone
  <2>5. ToldStands'
    BY <1>1, <2>3 DEF FaceInv, ToldStands
  <2>6. SaidStands'
    BY <1>1, <2>1, <2>2, <2>3 DEF FaceInv, SaidStands
  <2>7. NotYet'
    <3> SUFFICES ASSUME NEW q \in Requests, request'[q].at = "insert", request'[q].of \notin twice,
                        Scan(q) \notin Online
                 PROVE  ~In(Rows, Scan(q))
      BY <1>1, <2>2, <2>3 DEF NotYet
    <3>1. CASE q # r
      BY <2>1, <3>1 DEF FaceInv, NotYet
    <3>2. CASE q = r
      <4>1. ~In(Seen(r), s)
        BY <1>4, <3>2 DEF Known, SameUid, In
      <4>2. ASSUME NEW p \in Requests \ {r} PROVE ~In(request[p].rows, s)
        <5> SUFFICES ASSUME NEW row \in request[p].rows, row.scan = s PROVE FALSE
          BY DEF In
        <5>1. request[p].at # "free" /\ Carries(request[p].of, s) /\ request[p].of \in Devices
          BY DEF FaceInv, OwnRows, GInv, Typed, Transaction
        <5>2. Carries(request[r].of, s) /\ request[r].of \in Devices
          BY <1>1, ScanCarried DEF FaceInv, GInv
        <5>3. request[p].of = request[r].of
          BY <3>2, <5>1, <5>2, OneCarrier
        <5> QED BY <1>1, <2>1, <3>2, <5>1, <5>3 DEF FaceInv, Alone
      <4> QED BY <3>2, <4>1, <4>2 DEF In, Rows, Seen
    <3> QED BY <3>1, <3>2
  <2> QED BY <1>1, <2>4, <2>5, <2>6, <2>7 DEF FaceInv
<1>5. "invalid" \in Verdict /\ VerdictFor(s) \in Verdict
  BY <1>2, VerdictType DEF Verdict
<1> QED BY <1>3, <1>4, <1>5 DEF Look

LEMMA InsertFace == ASSUME FaceInv, NEW r \in Requests, Insert(r) PROVE FaceInv'
<1> DEFINE s == Scan(r)
           row == [scan |-> s, try |-> device[request[r].of].tries]
<1>1. /\ request[r].at = "insert" /\ UNCHANGED <<checkins, device, told, twice>> /\ GInv'
      /\ request[r] \in Transaction /\ request[r].rows \in SUBSET Row
  BY InsertKeeps DEF Insert, FaceInv, GInv, Typed, Transaction
<1>2. s \in Scans
  BY <1>1, ScanType DEF FaceInv, GInv
<1>3. row \in Row /\ row.scan = s
  BY <1>1, <1>2, GateAssumption DEF Row, FaceInv, GInv, Typed, Transaction
<1>4. "duplicate" \in Verdict /\ VerdictFor(s) \in Verdict
  BY <1>2, VerdictType DEF Verdict
<1>5. s \notin Online /\ request[r].of \notin twice => ~In(Rows, s)
  BY <1>1 DEF FaceInv, NotYet
<1> HIDE DEF row
<1>6. ASSUME NEW v \in Verdict, Say(r, v, request[r].rows),
             \/ v = "duplicate" /\ ~Reentry[s] /\ Primary(Seen(r), TicketOf[s])
             \/ v = VerdictFor(s) /\ Reentry[s]
      PROVE  FaceInv'
  <2>1. request'[r].rows = request[r].rows /\ \A q \in Requests \ {r} : request'[q] = request[q]
    BY <1>1, <1>6, SayKeepsTypes DEF FaceInv, GInv
  <2>2. Rows' = Rows
    BY <1>1, <2>1 DEF Rows
  <2>3. s \notin Online /\ request[r].of \notin twice => Stands(checkins \cup request[r].rows, Rows', s, v)
    BY <1>5, <1>6, <2>2 DEF Stands, VerdictFor, Seen
  <2> QED BY <1>1, <1>6, <2>1, <2>3, VerdictGiven
<1>7. CASE ~Conflicts(s, Seen(r)) /\ Say(r, VerdictFor(s), request[r].rows \cup {row})
  <2> DEFINE rows == request[r].rows \cup {row}
  <2>1. rows \in SUBSET Row /\ request[r].rows \subseteq rows
    BY <1>1, <1>3
  <2>2. \A x \in rows \ request[r].rows : x.scan = s
    BY <1>3
  <2>3. Stands(checkins \cup rows, Rows', s, VerdictFor(s))
    <3>1. row \in rows
      OBVIOUS
    <3> HIDE DEF rows
    <3> QED BY <1>3, <3>1 DEF Stands, VerdictFor, In
  <2>4. Say(r, VerdictFor(s), rows)
    BY <1>7
  <2> HIDE DEF rows, s
  <2>5. \A q \in Requests \ {r} : request'[q] = request[q]
    BY <1>1, <1>4, <2>1, <2>4, SayKeepsTypes DEF FaceInv, GInv
  <2> USE DEF s
  <2> QED BY <1>1, <1>7, <2>1, <2>2, <2>3, <2>4, <2>5, VerdictGiven
<1>8. \/ ~Reentry[s] /\ Primary(Seen(r), TicketOf[s]) /\ Say(r, "duplicate", request[r].rows)
      \/ Reentry[s] /\ Say(r, VerdictFor(s), request[r].rows)
      \/ ~Conflicts(s, Seen(r)) /\ Say(r, VerdictFor(s), request[r].rows \cup {row})
  BY DEF Insert, row
<1> QED BY <1>4, <1>6, <1>7, <1>8

\* The rows of the batch become visible, and its verdicts are told.
LEMMA CommitFace ==
  ASSUME FaceInv, NEW r \in Requests, NEW reaches \in BOOLEAN, Commit(r, reaches)
  PROVE  FaceInv'
<1> DEFINE q == request[r]
           d == q.of
           b == Batch[d]
<1>1. /\ q.at = "done" /\ checkins' = Seen(r) /\ UNCHANGED twice
      /\ request' = [request EXCEPT ![r] = Free]
      /\ told' = [s \in Scans |-> told[s] \cup {q.said[i] : i \in {j \in DOMAIN b : b[j] = s}}]
  BY DEF Commit, Seen
<1>2. GInv' /\ q \in Transaction /\ d \in Devices
  BY EndsKeep DEF FaceInv, GInv, Typed, Transaction
<1>3. request'[r] = Free /\ \A p \in Requests \ {r} : request'[p] = request[p]
  BY <1>1 DEF FaceInv, GInv, Typed
<1>4. Free.at = "free" /\ Free.rows = {}
  BY DEF Free
<1>5. Rows' \subseteq Rows
  BY <1>1, <1>3, <1>4 DEF Rows, Seen
<1>6. \A t : ~In(Rows, t) => ~In(Rows', t)
  BY <1>5 DEF In
<1>7. DOMAIN b = 1..Len(b) /\ Len(q.said) = Len(b)
  <2>1. b \in Seq(Scans)
    BY <1>2, GateAssumption
  <2>2. DOMAIN b = 1..Len(b) /\ Len(b) \in Nat
    BY <2>1, LenProperties
  <2>3. Len(q.said) = q.next - 1 /\ q.next = Len(b) + 1
    BY <1>1 DEF FaceInv, InBatch
  <2> QED BY <2>2, <2>3
<1>8. told' \in [Scans -> SUBSET Verdict]
  <2>1. \A i \in DOMAIN b : q.said[i] \in Verdict
    <3>1. q.said \in Seq(Verdict)
      BY <1>2 DEF Transaction
    <3> QED BY <1>7, <3>1, ElementOfSeq
  <2>2. told \in [Scans -> SUBSET Verdict]
    BY DEF FaceInv
  <2> HIDE DEF q, b
  <2> QED BY <1>1, <2>1, <2>2
<1>9. InBatch' /\ OwnRows' /\ Alone'
  BY <1>1, <1>3, <1>4 DEF FaceInv, InBatch, OwnRows, Alone
<1>10. ToldStands'
  <2> SUFFICES ASSUME NEW c \in Devices \ twice, NEW t \in Scans \ Online, Carries(c, t), NEW w \in told'[t]
               PROVE  Stands(Seen(r), Rows', t, w)
    BY <1>1 DEF ToldStands
  <2>1. CASE w \in told[t]
    <3>1. Stands(checkins, Rows, t, w)
      BY <2>1 DEF FaceInv, ToldStands
    <3>2. w = "duplicate" => ~In(Rows', t)
      BY <1>6, <3>1 DEF Stands
    <3> QED BY <3>1, <3>2, StandsStill DEF Seen
  <2>2. CASE w \notin told[t]
    <3>1. PICK i \in DOMAIN b : b[i] = t /\ w = q.said[i]
      <4> HIDE DEF q, b
      <4> QED BY <1>1, <2>2
    <3>2. c = d
      BY <1>2, <3>1, OneCarrier DEF Carries
    <3>3. i \in 1..Len(q.said)
      BY <1>7, <3>1
    <3>4. Stands(Seen(r), Rows, t, w)
      BY <1>1, <3>1, <3>2, <3>3 DEF FaceInv, SaidStands
    <3>5. w = "duplicate" => ~In(Rows', t)
      BY <1>6, <3>4 DEF Stands
    <3> QED BY <3>4, <3>5, StandsStill
  <2> QED BY <2>1, <2>2
<1>11. SaidStands'
  <2> SUFFICES ASSUME NEW p \in Requests, request'[p].at # "free", request'[p].of \notin twice,
                      NEW i \in 1..Len(request'[p].said), Batch[request'[p].of][i] \notin Online
               PROVE  Stands(Seen(p)', Rows', Batch[request'[p].of][i], request'[p].said[i])
    BY <1>1 DEF SaidStands
  <2>1. p # r /\ request'[p] = request[p]
    BY <1>3, <1>4
  <2> DEFINE t == Batch[request[p].of][i]
             w == request[p].said[i]
  <2>2. Stands(Seen(p), Rows, t, w)
    BY <2>1 DEF FaceInv, SaidStands
  <2>3. Seen(p) \subseteq Seen(p)'
    BY <1>1, <2>1 DEF Seen
  <2> HIDE DEF t, w
  <2>4. w = "duplicate" => ~In(Rows', t)
    BY <1>6, <2>2 DEF Stands
  <2>5. Stands(Seen(p)', Rows', t, w)
    BY <2>2, <2>3, <2>4, StandsStill
  <2> QED BY <2>1, <2>5 DEF t, w
<1>12. NotYet'
  <2> SUFFICES ASSUME NEW p \in Requests, request'[p].at = "insert", request'[p].of \notin twice,
                      Scan(p)' \notin Online
               PROVE  ~In(Rows', Scan(p)')
    BY <1>1 DEF NotYet
  <2>1. request'[p] = request[p] /\ Scan(p)' = Scan(p)
    BY <1>3, <1>4 DEF Scan
  <2> QED BY <1>6, <2>1 DEF FaceInv, NotYet
<1> QED BY <1>2, <1>8, <1>9, <1>10, <1>11, <1>12 DEF FaceInv

\* Begun or aborted: one transaction with no rows of its own, and no row more.
LEMMA EmptyFace ==
  ASSUME FaceInv, GInv', NEW r \in Requests, UNCHANGED <<checkins, told>>, twice \subseteq twice',
         \A p \in Requests \ {r} : request'[p] = request[p], request'[r].rows = {},
         \/ request'[r].at = "free"
         \/ /\ request'[r].at = "look" /\ request'[r].next = 1 /\ request'[r].said = << >>
            /\ request'[r].of \notin twice' => ~Busy(request'[r].of)
  PROVE  FaceInv'
<1>1. Rows' \subseteq Rows
  BY DEF Rows
<1>2. \A t : ~In(Rows, t) => ~In(Rows', t)
  BY <1>1 DEF In
<1>3. Len(<< >>) = 0
  BY EmptySeq
<1>4. InBatch'
  <2> SUFFICES ASSUME NEW p \in Requests, request'[p].at # "free"
               PROVE  /\ Len(request'[p].said) = request'[p].next - 1
                      /\ request'[p].at = "done" => request'[p].next = Len(Batch[request'[p].of]) + 1
    BY DEF InBatch
  <2>1. CASE p = r
    BY <1>3, <2>1
  <2>2. CASE p # r
    BY <2>2 DEF FaceInv, InBatch
  <2> QED BY <2>1, <2>2
<1>5. OwnRows'
  BY DEF FaceInv, OwnRows
<1>6. Alone'
  <2> SUFFICES ASSUME NEW p \in Requests, NEW q \in Requests, request'[p].at # "free", request'[q].at # "free",
                      request'[p].of = request'[q].of, request'[q].of \notin twice'
               PROVE  p = q
    BY DEF Alone
  <2>1. CASE p # r /\ q # r
    BY <2>1 DEF FaceInv, Alone
  <2>2. CASE (p = r /\ q # r) \/ (p # r /\ q = r)
    BY <2>2 DEF Busy
  <2> QED BY <2>1, <2>2
<1>7. ToldStands'
  <2> SUFFICES ASSUME NEW c \in Devices \ twice, NEW t \in Scans \ Online, Carries(c, t), NEW w \in told[t]
               PROVE  Stands(checkins, Rows', t, w)
    BY DEF ToldStands
  <2>1. Stands(checkins, Rows, t, w)
    BY DEF FaceInv, ToldStands
  <2>2. w = "duplicate" => ~In(Rows', t)
    BY <1>2, <2>1 DEF Stands
  <2> QED BY <2>1, <2>2, StandsStill
<1>8. SaidStands'
  <2> SUFFICES ASSUME NEW p \in Requests, request'[p].at # "free", request'[p].of \notin twice',
                      NEW i \in 1..Len(request'[p].said), Batch[request'[p].of][i] \notin Online
               PROVE  Stands(Seen(p)', Rows', Batch[request'[p].of][i], request'[p].said[i])
    BY DEF SaidStands
  <2>1. p # r /\ request'[p] = request[p] /\ Seen(p)' = Seen(p)
    BY <1>3 DEF Seen
  <2> DEFINE t == Batch[request[p].of][i]
             w == request[p].said[i]
  <2>2. Stands(Seen(p), Rows, t, w)
    BY <2>1 DEF FaceInv, SaidStands
  <2> HIDE DEF t, w
  <2>3. w = "duplicate" => ~In(Rows', t)
    BY <1>2, <2>2 DEF Stands
  <2>4. Stands(Seen(p), Rows', t, w)
    BY <2>2, <2>3, StandsStill
  <2> QED BY <2>1, <2>4 DEF t, w
<1>9. NotYet'
  <2> SUFFICES ASSUME NEW p \in Requests, request'[p].at = "insert", request'[p].of \notin twice',
                      Scan(p)' \notin Online
               PROVE  ~In(Rows', Scan(p)')
    BY DEF NotYet
  <2>1. p # r /\ request'[p] = request[p] /\ Scan(p)' = Scan(p)
    BY DEF Scan
  <2> QED BY <1>2, <2>1 DEF FaceInv, NotYet
<1> QED BY <1>4, <1>5, <1>6, <1>7, <1>8, <1>9 DEF FaceInv

LEMMA NextFaceInv == FaceInv /\ [Next]_vars => FaceInv'
<1> SUFFICES ASSUME FaceInv, [Next]_vars PROVE FaceInv'
  OBVIOUS
<1>1. GInv'
  BY NextGInv DEF FaceInv
<1>2. CASE UNCHANGED <<checkins, request, told, twice>>
  <2>1. Rows' = Rows /\ \A q \in Requests : Seen(q)' = Seen(q) /\ Scan(q)' = Scan(q)
    BY <1>2 DEF Rows, Seen, Scan
  <2>2. InBatch' /\ OwnRows' /\ Alone'
    BY <1>2 DEF FaceInv, InBatch, OwnRows, Alone
  <2>3. ToldStands'
    BY <1>2, <2>1 DEF FaceInv, ToldStands
  <2>4. SaidStands'
    BY <1>2, <2>1 DEF FaceInv, SaidStands
  <2>5. NotYet'
    BY <1>2, <2>1 DEF FaceInv, NotYet
  <2> QED BY <1>1, <1>2, <2>2, <2>3, <2>4, <2>5 DEF FaceInv
<1>3. ASSUME NEW r \in Requests, Abort(r) PROVE FaceInv'
  <2>1. /\ UNCHANGED <<checkins, told, twice>> /\ request'[r].rows = {} /\ request'[r].at = "free"
        /\ \A p \in Requests \ {r} : request'[p] = request[p]
    BY <1>3 DEF Abort, FaceInv, GInv, Typed, Free
  <2> QED BY <1>1, <2>1, EmptyFace
<1>4. ASSUME NEW r \in Requests, NEW d \in Devices, Send(d, r) PROVE FaceInv'
  <2>1. /\ UNCHANGED <<checkins, told>> /\ twice \subseteq twice' /\ (d \notin twice' => ~Busy(d))
        /\ request' = [request EXCEPT ![r] = [Free EXCEPT !.at = "look", !.of = d]]
    BY <1>4 DEF Send
  <2>2. /\ request'[r] = [Free EXCEPT !.at = "look", !.of = d]
        /\ \A p \in Requests \ {r} : request'[p] = request[p]
    BY <2>1 DEF FaceInv, GInv, Typed
  <2>3. /\ request'[r].rows = {} /\ request'[r].at = "look" /\ request'[r].next = 1
        /\ request'[r].said = << >> /\ request'[r].of = d
    BY <2>2 DEF Free
  <2> QED BY <1>1, <2>1, <2>2, <2>3, EmptyFace
<1>5. ASSUME NEW r \in Requests, Serve(r) PROVE FaceInv'
  BY <1>3, <1>5, LookFace, InsertFace, CommitFace DEF Serve
<1> QED BY <1>2, <1>4, <1>5 DEF Next, Burn, CloseEvent, vars

LEMMA InitFaceInv == Init => FaceInv
<1> SUFFICES ASSUME Init PROVE FaceInv
  OBVIOUS
<1>1. \A r \in Requests : request[r].at = "free" /\ request[r].rows = {}
  BY DEF Init, Free
<1>2. \A s \in Scans : told[s] = {}
  BY DEF Init
<1>3. told \in [Scans -> SUBSET Verdict]
  BY DEF Init
<1> QED BY <1>1, <1>2, <1>3, InitGInv DEF FaceInv, InBatch, OwnRows, Alone, ToldStands, SaidStands, NotYet

\* A scan that was admitted is never called a duplicate, nor the other way round,
\* as long as its device has one request at a time under way.
THEOREM OneFaceForEachScan == Spec => []OneFace
<1>1. FaceInv => OneFace
  <2> SUFFICES ASSUME FaceInv, NEW d \in Devices \ twice, NEW i \in DOMAIN Batch[d],
                      Batch[d][i] \notin Online, {"admitted", "duplicate"} \subseteq told[Batch[d][i]]
               PROVE  FALSE
    BY DEF OneFace
  <2> DEFINE s == Batch[d][i]
  <2>1. s \in Scans /\ Carries(d, s)
    <3>1. Batch[d] \in Seq(Scans)
      BY GateAssumption
    <3>2. i \in 1..Len(Batch[d])
      BY <3>1, LenProperties
    <3> QED BY <3>1, <3>2, ElementOfSeq DEF Carries
  <2>2. Stands(checkins, Rows, s, "admitted") /\ Stands(checkins, Rows, s, "duplicate")
    BY <2>1 DEF FaceInv, ToldStands
  <2> QED BY <2>2 DEF Stands, In, Rows
<1> QED BY <1>1, InitFaceInv, NextFaceInv, PTL DEF Spec

\* gate.go:183: the public record of presence lists exactly who was admitted, for any devices,
\* batches and aborted transactions.
THEOREM AttendanceIsExact == Spec => []AttendanceIsAdmission
<1>1. Init => AttendanceIsAdmission
  BY DEF Init, AttendanceIsAdmission, Primary
<1>2. GInv /\ AttendanceIsAdmission /\ [Next]_vars => AttendanceIsAdmission'
  <2> SUFFICES ASSUME GInv, AttendanceIsAdmission, [Next]_vars PROVE AttendanceIsAdmission'
    OBVIOUS
  <2>1. CASE UNCHANGED <<checkins, attendance>>
    BY <2>1 DEF AttendanceIsAdmission, Primary
  <2>2. ASSUME NEW r \in Requests, NEW reaches \in BOOLEAN, Commit(r, reaches) PROVE AttendanceIsAdmission'
    <3> DEFINE rows == request[r].rows
    <3>1. checkins' = checkins \cup rows
          /\ attendance' = attendance \cup {TicketOf[row.scan] : row \in {x \in rows : Admits(x)}}
      BY <2>2 DEF Commit
    <3>2. \A row \in rows : row.scan \in Scans /\ TicketOf[row.scan] \in Tickets
      BY GateAssumption DEF GInv, Typed, Transaction, Row
    <3> HIDE DEF rows
    <3>3. \A t \in Tickets : Primary(checkins', t) <=>
              Primary(checkins, t) \/ \E row \in rows : TicketOf[row.scan] = t /\ ~Reentry[row.scan]
      BY <3>1 DEF Primary
    <3>4. \A t : t \in attendance' <=> t \in attendance \/ \E row \in rows : TicketOf[row.scan] = t /\ ~Reentry[row.scan]
      BY <3>1 DEF Admits
    <3>5. \A t : t \in attendance <=> t \in Tickets /\ Primary(checkins, t)
      BY DEF AttendanceIsAdmission
    <3>6. \A t : t \in attendance' <=> t \in Tickets /\ Primary(checkins', t)
      BY <3>2, <3>3, <3>4, <3>5
    <3>7. attendance' = {t \in Tickets : Primary(checkins', t)}
      BY <3>6
    <3> QED BY <3>7 DEF AttendanceIsAdmission
  <2>3. ASSUME NEW r \in Requests, Serve(r) PROVE AttendanceIsAdmission'
    BY <2>1, <2>2, <2>3 DEF Serve, Look, Insert, Abort
  <2>4. ASSUME NEW r \in Requests, NEW d \in Devices, Send(d, r) PROVE AttendanceIsAdmission'
    BY <2>1, <2>4 DEF Send
  <2> QED BY <2>1, <2>3, <2>4 DEF Next, Burn, CloseEvent, vars
<1> QED BY <1>1, <1>2, InitGInv, NextGInv, PTL DEF Spec
=============================================================================
