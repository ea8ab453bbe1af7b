--------------------------- MODULE BackstageProofs ---------------------------
(***************************************************************************)
(* Theorems of what works after an answer was given: the anchors, the      *)
(* outbox and the sales that speak through it, and the versions of an      *)
(* attestation, for any number of attestations, jobs, notices, messages,   *)
(* replicas, tickets and handlers.                                         *)
(***************************************************************************)
EXTENDS Season, Anchors, Attestation, FiniteSetTheorems, SequenceTheorems, TLAPS

-----------------------------------------------------------------------------
(* What a statement writes to a table                                      *)

\* Rows over a table: its keys, and the row of each key.
LEMMA OverRows ==
    ASSUME NEW f, NEW g
    PROVE  /\ DOMAIN Over(f, g) = DOMAIN f \cup DOMAIN g
           /\ \A k \in DOMAIN f : Over(f, g)[k] = f[k]
           /\ \A k \in DOMAIN g \ DOMAIN f : Over(f, g)[k] = g[k]
BY DEF Over

\* One row over a table.
LEMMA OverOne ==
    ASSUME NEW key, NEW row, NEW g
    PROVE  /\ DOMAIN Over(OneRow(key, row), g) = {key} \cup DOMAIN g
           /\ Over(OneRow(key, row), g)[key] = row
           /\ \A k \in DOMAIN g \ {key} : Over(OneRow(key, row), g)[k] = g[k]
BY DEF Over, OneRow

-----------------------------------------------------------------------------
(***************************************************************************)
(* The anchors.  A worker decides what it will write from the row of a job *)
(* as it was when it locked it; what makes the decision good is that the   *)
(* row is in no other hand until the batch ends (OneHand), and that the    *)
(* status a batch will write comes with what it says: a transaction on the *)
(* chain, or a job of the same batch that is still to be tried.            *)
(***************************************************************************)
Hand(k) == batch[k].todo \cup DOMAIN batch[k].jobs

Tried(row) == row \in Job /\ (row.status = "pending" => row.attempts < AnchorAttempts)

AnchorTables ==
    /\ anchor \in [Attestations -> Status] /\ chain \in [Attestations -> Nat]
    /\ stops \in 0..MaxStops
    /\ DOMAIN jobs \subseteq Jobs /\ \A j \in DOMAIN jobs : Tried(jobs[j])

\* A request has seen jobs of its attestation, and one that resets saw some.
Asked ==
    /\ DOMAIN request = Requests
    /\ \A r \in Requests :
          /\ request[r] = [at |-> request[r].at, of |-> request[r].of, rows |-> request[r].rows]
          /\ request[r].at \in {"new", "asked", "resets", "inserts", "ended"}
          /\ request[r].at # "new" => request[r].of \in Attestations
          /\ request[r].at = "resets" => request[r].rows # {}
          /\ \A j \in request[r].rows : j \in DOMAIN jobs /\ jobs[j].of = request[r].of

\* The jobs a worker has locked are of the table, and those not yet tried are pending.
Locks ==
    /\ DOMAIN batch = AnchorWorkers
    /\ \A k \in AnchorWorkers :
          /\ batch[k] = [todo |-> batch[k].todo, jobs |-> batch[k].jobs, status |-> batch[k].status]
          /\ Hand(k) \subseteq DOMAIN jobs
          /\ \A j \in batch[k].todo : jobs[j].status = "pending"

OneHand ==
    /\ \A k, v \in AnchorWorkers : k # v => Hand(k) \cap Hand(v) = {}
    /\ \A k \in AnchorWorkers, r \in Requests : Hand(k) \cap request[r].rows = {}

\* What a worker will write of its jobs: the row of a job keeps its attestation,
\* whose status will be written too.
WritesRows ==
    \A k \in AnchorWorkers : \A j \in DOMAIN batch[k].jobs :
        /\ Tried(batch[k].jobs[j])
        /\ batch[k].jobs[j].of = jobs[j].of
        /\ jobs[j].of \in DOMAIN batch[k].status

\* What it will write of the attestations is true.
WritesTruth ==
    \A k \in AnchorWorkers : \A a \in DOMAIN batch[k].status :
        /\ a \in Attestations
        /\ batch[k].status[a] \in {"pending", "anchored", "failed"}
        /\ batch[k].status[a] = "anchored" => chain[a] > 0
        /\ batch[k].status[a] = "pending" =>
              \E j \in DOMAIN batch[k].jobs :
                  batch[k].jobs[j].of = a /\ batch[k].jobs[j].status = "pending"

AnchorInv ==
    AnchorTables /\ Asked /\ Locks /\ OneHand /\ WritesRows /\ WritesTruth /\ AnchorIsReal

\* No row, no job, no lock.
LEMMA NothingYet == DOMAIN << >> = {}
OBVIOUS

\* A job keeps its type whatever field is assigned.
LEMMA JobFields ==
    ASSUME NEW row \in Job
    PROVE  /\ \A x \in {"pending", "done", "failed"} : [row EXCEPT !.status = x] \in Job
           /\ \A x \in 0..AnchorAttempts : [row EXCEPT !.attempts = x] \in Job
           /\ \A x \in BOOLEAN : [row EXCEPT !.due = x] \in Job
BY Zenon DEF Job

\* A job that was tried once more, and what it says.
LEMMA TriedOnceMore ==
    ASSUME NEW row \in Job, row.attempts < AnchorAttempts
    PROVE  /\ [row EXCEPT !.attempts = @ + 1] \in Job
           /\ [row EXCEPT !.attempts = @ + 1].of = row.of
           /\ [row EXCEPT !.attempts = @ + 1].attempts = row.attempts + 1
           /\ [row EXCEPT !.attempts = @ + 1].status = row.status
<1>1. row.attempts + 1 \in 0..AnchorAttempts
  BY AnchorsAssumption DEF Job
<1> QED  BY <1>1, JobFields DEF Job

LEMMA AnchorInitInv == AnchorsInit => AnchorInv
<1> SUFFICES ASSUME AnchorsInit PROVE AnchorInv
  OBVIOUS
<1>1. DOMAIN jobs = {}
  BY NothingYet DEF AnchorsInit
<1>2. DOMAIN batch = AnchorWorkers
  BY DEF AnchorsInit
<1>3. \A k \in AnchorWorkers : batch[k] = Resting
  BY DEF AnchorsInit
<1>4. Resting.todo = {} /\ DOMAIN Resting.jobs = {} /\ DOMAIN Resting.status = {}
  BY NothingYet DEF Resting
<1>5. AnchorTables
  BY <1>1, AnchorsAssumption DEF AnchorsInit, AnchorTables, Status
<1>6. Asked
  BY DEF AnchorsInit, Asked
<1>7. Locks
  BY <1>2, <1>3, <1>4 DEF Locks, Hand, Resting
<1>8. OneHand /\ WritesRows /\ WritesTruth
  BY <1>3, <1>4 DEF OneHand, WritesRows, WritesTruth, Hand
<1>9. AnchorIsReal
  BY DEF AnchorsInit, AnchorIsReal
<1> QED  BY <1>5, <1>6, <1>7, <1>8, <1>9 DEF AnchorInv

\* reanchorEvent: a request has read the status.
LEMMA ReanchorKeeps ==
    ASSUME AnchorInv, NEW r \in Requests, NEW a \in Attestations, Reanchor(r, a)
    PROVE  AnchorInv'
<1> USE DEF Reanchor
<1>1. AnchorTables' /\ Locks' /\ WritesRows' /\ WritesTruth' /\ AnchorIsReal'
  BY DEF AnchorInv, AnchorTables, Locks, Hand, WritesRows, WritesTruth, AnchorIsReal
<1>2. Asked'
  BY DEF AnchorInv, Asked
<1>3. OneHand'
  <2>1. \A v \in Requests : request'[v].rows \in {request[v].rows, {}}
    BY DEF AnchorInv, Asked
  <2> QED  BY <2>1 DEF AnchorInv, OneHand, Hand
<1> QED  BY <1>1, <1>2, <1>3 DEF AnchorInv

\* EnqueueAnchor's update: it waits for the rows it sees.
LEMMA EnqueueKeeps ==
    ASSUME AnchorInv, NEW r \in Requests, EnqueueAnchor(r)
    PROVE  AnchorInv'
<1> DEFINE seen == {j \in DOMAIN jobs : jobs[j].of = request[r].of}
<1>1. /\ request[r].at = "asked" /\ seen \cap (Claimed \cup Resetting) = {}
      /\ request' = [request EXCEPT ![r].at = IF seen = {} THEN "inserts" ELSE "resets", ![r].rows = seen]
      /\ UNCHANGED <<anchor, jobs, batch, chain, stops>>
  BY DEF EnqueueAnchor
<1>2. AnchorTables' /\ Locks' /\ WritesRows' /\ WritesTruth' /\ AnchorIsReal'
  BY <1>1 DEF AnchorInv, AnchorTables, Locks, Hand, WritesRows, WritesTruth, AnchorIsReal
<1>3. Asked'
  <2>1. /\ DOMAIN request' = Requests
        /\ \A v \in Requests \ {r} : request'[v] = request[v]
    BY <1>1 DEF AnchorInv, Asked
  <2> DEFINE q == request'[r]
             next == IF seen = {} THEN "inserts" ELSE "resets"
  <2>5. /\ q = [at |-> q.at, of |-> q.of, rows |-> q.rows]
        /\ q.at = next /\ q.of = request[r].of /\ q.rows = seen
    <3>1. request' = [request EXCEPT ![r].at = next, ![r].rows = seen]
      BY <1>1
    <3>2. r \in DOMAIN request /\ request[r] = [at |-> request[r].at, of |-> request[r].of, rows |-> request[r].rows]
      BY DEF AnchorInv, Asked
    <3> HIDE DEF seen, next
    <3> QED  BY <3>1, <3>2
  <2>2. request[r].of \in Attestations
    BY <1>1 DEF AnchorInv, Asked
  <2>3. \A j \in seen : j \in DOMAIN jobs' /\ jobs'[j].of = request[r].of
    BY <1>1
  <2> HIDE DEF seen
  <2>4. \A v \in Requests \ {r} : \A j \in request'[v].rows : j \in DOMAIN jobs' /\ jobs'[j].of = request'[v].of
    BY <1>1, <2>1 DEF AnchorInv, Asked
  <2> QED  BY <2>1, <2>2, <2>3, <2>4, <2>5 DEF AnchorInv, Asked
<1>4. OneHand'
  <2>1. \A v \in Requests : request'[v].rows = (IF v = r THEN seen ELSE request[v].rows)
    BY <1>1 DEF AnchorInv, Asked
  <2>2. \A k \in AnchorWorkers : Hand(k) \subseteq Claimed
    BY DEF Hand, Claimed
  <2>3. \A k \in AnchorWorkers : Hand(k)' = Hand(k)
    BY <1>1 DEF Hand
  <2> HIDE DEF seen
  <2> QED  BY <1>1, <2>1, <2>2, <2>3 DEF AnchorInv, OneHand
<1> QED  BY <1>2, <1>3, <1>4 DEF AnchorInv

\* What a request that ends has done to the table: rows of its attestation are
\* waiting, and those it wrote are in no worker's hand.
LEMMA MarkPendingWrites ==
    ASSUME AnchorInv, NEW r \in Requests, MarkPending(r)
    PROVE  LET a == request[r].of
           IN  \E S \in SUBSET Jobs :
                   /\ S # {} /\ a \in Attestations
                   /\ jobs' = Over([j \in S |-> Waiting(a)], jobs)
                   /\ \A j \in S \cap DOMAIN jobs : jobs[j].of = a
                   /\ \A k \in AnchorWorkers : Hand(k) \cap S = {}
<1> DEFINE a == request[r].of
<1>1. a \in Attestations
  BY DEF MarkPending, AnchorInv, Asked
<1>2. CASE request[r].at = "resets"
  <2>1. jobs' = Over([j \in request[r].rows |-> Waiting(a)], jobs)
    BY <1>2 DEF MarkPending
  <2>2. /\ request[r].rows \in SUBSET Jobs /\ request[r].rows # {}
        /\ \A j \in request[r].rows : jobs[j].of = a
    BY <1>2 DEF AnchorInv, Asked, AnchorTables
  <2>3. \A k \in AnchorWorkers : Hand(k) \cap request[r].rows = {}
    BY DEF AnchorInv, OneHand
  <2> QED  BY <1>1, <2>1, <2>2, <2>3
<1>3. CASE request[r].at = "inserts"
  <2>1. PICK j \in Jobs \ DOMAIN jobs : jobs' = Over(OneRow(j, Waiting(a)), jobs)
    BY <1>3 DEF MarkPending
  <2>2. jobs' = Over([i \in {j} |-> Waiting(a)], jobs)
    BY <2>1 DEF OneRow
  <2>3. \A k \in AnchorWorkers : Hand(k) \cap {j} = {}
    BY <2>1 DEF AnchorInv, Locks
  <2> QED  BY <1>1, <2>1, <2>2, <2>3
<1> QED  BY <1>2, <1>3 DEF MarkPending

LEMMA MarkPendingKeeps ==
    ASSUME AnchorInv, NEW r \in Requests, MarkPending(r)
    PROVE  AnchorInv'
<1> DEFINE a == request[r].of
<1>1. /\ a \in Attestations
      /\ anchor' = [anchor EXCEPT ![a] = "pending"]
      /\ request' = [request EXCEPT ![r].at = "ended", ![r].rows = {}]
      /\ UNCHANGED <<batch, chain, stops>>
  BY DEF MarkPending, AnchorInv, Asked
<1>2. PICK S \in SUBSET Jobs :
          /\ S # {} /\ jobs' = Over([j \in S |-> Waiting(a)], jobs)
          /\ \A j \in S \cap DOMAIN jobs : jobs[j].of = a
          /\ \A k \in AnchorWorkers : Hand(k) \cap S = {}
  BY MarkPendingWrites
<1>3. /\ DOMAIN jobs' = S \cup DOMAIN jobs
      /\ \A j \in S : jobs'[j] = Waiting(a)
      /\ \A j \in DOMAIN jobs \ S : jobs'[j] = jobs[j]
  BY <1>2 DEF Over
<1>4. Tried(Waiting(a)) /\ Waiting(a).of = a /\ Waiting(a).status = "pending"
  BY <1>1, AnchorsAssumption DEF Tried, Waiting, Job
<1> HIDE DEF a
<1>5. \A j \in DOMAIN jobs : j \in DOMAIN jobs' /\ jobs'[j].of = jobs[j].of
  BY <1>2, <1>3, <1>4
<1>6. \A k \in AnchorWorkers : \A j \in Hand(k) : jobs'[j] = jobs[j] /\ j \in DOMAIN jobs
  BY <1>2, <1>3 DEF AnchorInv, Locks
<1>7. AnchorTables'
  <2>1. anchor' \in [Attestations -> Status]
    BY <1>1 DEF AnchorInv, AnchorTables, Status
  <2> QED  BY <1>1, <1>2, <1>3, <1>4, <2>1 DEF AnchorInv, AnchorTables
<1>8. Asked'
  <2>1. \A v \in Requests : request'[v].rows \in {request[v].rows, {}} /\ request'[v].of = request[v].of
    BY <1>1 DEF AnchorInv, Asked
  <2>2. \A v \in Requests : \A j \in request'[v].rows : j \in DOMAIN jobs' /\ jobs'[j].of = request'[v].of
    BY <1>5, <2>1 DEF AnchorInv, Asked
  <2> DEFINE q == request'[r]
  <2>3. /\ q = [at |-> q.at, of |-> q.of, rows |-> q.rows]
        /\ q.at = "ended" /\ q.of = request[r].of /\ q.rows = {}
    <3>1. r \in DOMAIN request /\ request[r] = [at |-> request[r].at, of |-> request[r].of, rows |-> request[r].rows]
      BY DEF AnchorInv, Asked
    <3> QED  BY <1>1, <3>1
  <2>4. DOMAIN request' = Requests /\ \A v \in Requests \ {r} : request'[v] = request[v]
    BY <1>1 DEF AnchorInv, Asked
  <2>5. request[r].of \in Attestations
    BY <1>1 DEF a
  <2> QED  BY <2>2, <2>3, <2>4, <2>5 DEF AnchorInv, Asked
<1>9. Locks'
  BY <1>1, <1>5, <1>6 DEF AnchorInv, Locks, Hand
<1>10. OneHand'
  <2>1. \A v \in Requests : request'[v].rows \in {request[v].rows, {}}
    BY <1>1 DEF AnchorInv, Asked
  <2> QED  BY <1>1, <2>1 DEF AnchorInv, OneHand, Hand
<1>11. WritesRows'
  BY <1>1, <1>6 DEF AnchorInv, WritesRows, Hand
<1>12. WritesTruth'
  BY <1>1 DEF AnchorInv, WritesTruth
<1>13. AnchorIsReal'
  <2> SUFFICES ASSUME NEW b \in Attestations
               PROVE  /\ anchor'[b] = "anchored" => chain'[b] > 0
                      /\ anchor'[b] = "pending" => \E j \in DOMAIN jobs' : jobs'[j].of = b /\ jobs'[j].status = "pending"
    BY DEF AnchorIsReal
  <2>1. CASE b = a
    BY <1>1, <1>2, <1>3, <1>4, <2>1 DEF AnchorInv, AnchorTables
  <2>2. CASE b # a
    <3>1. anchor'[b] = anchor[b] /\ chain'[b] = chain[b]
      BY <1>1, <2>2 DEF AnchorInv, AnchorTables
    <3>2. ASSUME NEW j \in DOMAIN jobs, jobs[j].of = b PROVE jobs'[j] = jobs[j] /\ j \in DOMAIN jobs'
      BY <1>2, <1>3, <2>2, <3>2
    <3> QED  BY <3>1, <3>2 DEF AnchorInv, AnchorIsReal
  <2> QED  BY <2>1, <2>2
<1> QED  BY <1>7, <1>8, <1>9, <1>10, <1>11, <1>12, <1>13 DEF AnchorInv

\* A worker locks pending rows that nobody has.
LEMMA FetchJobsKeeps ==
    ASSUME AnchorInv, NEW k \in AnchorWorkers, FetchJobs(k)
    PROVE  AnchorInv'
<1>1. /\ batch[k] = Resting /\ batch' = [batch EXCEPT ![k].todo = Pending]
      /\ UNCHANGED <<anchor, jobs, request, chain, stops>>
  BY DEF FetchJobs
<1>2. /\ DOMAIN batch' = AnchorWorkers
      /\ batch'[k] = [todo |-> Pending, jobs |-> batch[k].jobs, status |-> batch[k].status]
      /\ \A v \in AnchorWorkers \ {k} : batch'[v] = batch[v]
  BY <1>1 DEF AnchorInv, Locks
<1>3. \A v \in AnchorWorkers : batch'[v].jobs = batch[v].jobs /\ batch'[v].status = batch[v].status
  BY <1>2
<1>4. Hand(k)' = Pending /\ \A v \in AnchorWorkers \ {k} : Hand(v)' = Hand(v)
  BY <1>1, <1>2, NothingYet DEF Hand, Resting
<1>5. /\ Pending \subseteq DOMAIN jobs /\ \A j \in Pending : jobs[j].status = "pending"
      /\ \A v \in AnchorWorkers : Pending \cap Hand(v) = {}
      /\ \A r \in Requests : Pending \cap request[r].rows = {}
  BY DEF Pending, Claimed, Resetting, Hand
<1>6. AnchorTables' /\ Asked' /\ AnchorIsReal'
  BY <1>1 DEF AnchorInv, AnchorTables, Asked, AnchorIsReal
<1>7. Locks'
  BY <1>1, <1>2, <1>4, <1>5 DEF AnchorInv, Locks
<1>8. OneHand'
  BY <1>1, <1>4, <1>5 DEF AnchorInv, OneHand
<1>9. WritesRows' /\ WritesTruth'
  BY <1>1, <1>3 DEF AnchorInv, WritesRows, WritesTruth
<1> QED  BY <1>6, <1>7, <1>8, <1>9 DEF AnchorInv

\* A worker has decided what it writes of a job and of its attestation.
LEMMA WritesKeeps ==
    ASSUME AnchorInv, NEW k \in AnchorWorkers, NEW j \in batch[k].todo, NEW row, NEW status,
           Writes(k, j, row, status), UNCHANGED <<anchor, jobs, request, stops>>,
           Tried(row), row.of = jobs[j].of, status \in {"pending", "anchored", "failed"},
           status = "pending" => row.status = "pending",
           chain' \in [Attestations -> Nat],
           \A a \in Attestations : chain[a] > 0 => chain'[a] > 0,
           status = "anchored" => chain'[jobs[j].of] > 0
    PROVE  AnchorInv'
<1> DEFINE a == jobs[j].of
<1>1. j \in DOMAIN jobs /\ jobs[j] \in Job /\ a \in Attestations
  BY DEF AnchorInv, Locks, Hand, AnchorTables, Tried, Job
<1>2. /\ DOMAIN batch' = AnchorWorkers
      /\ batch'[k] = [todo |-> batch[k].todo \ {j}, jobs |-> Over(OneRow(j, row), batch[k].jobs),
                      status |-> Over(OneRow(a, status), batch[k].status)]
      /\ \A v \in AnchorWorkers \ {k} : batch'[v] = batch[v]
  BY DEF AnchorInv, Locks, Writes
<1> HIDE DEF a
<1>3. /\ DOMAIN batch'[k].jobs = {j} \cup DOMAIN batch[k].jobs
      /\ batch'[k].jobs[j] = row
      /\ \A i \in DOMAIN batch[k].jobs \ {j} : batch'[k].jobs[i] = batch[k].jobs[i]
  <2>1. batch'[k].jobs = Over(OneRow(j, row), batch[k].jobs)
    BY <1>2
  <2> DEFINE now == batch'[k].jobs
             then == batch[k].jobs
  <2>2. now = Over(OneRow(j, row), then)
    BY <2>1
  <2> HIDE DEF now, then
  <2>3. DOMAIN now = {j} \cup DOMAIN then /\ now[j] = row /\ \A i \in DOMAIN then \ {j} : now[i] = then[i]
    BY <2>2 DEF Over, OneRow
  <2> QED  BY <2>3 DEF now, then
<1>4. /\ DOMAIN batch'[k].status = {a} \cup DOMAIN batch[k].status
      /\ batch'[k].status[a] = status
      /\ \A b \in DOMAIN batch[k].status \ {a} : batch'[k].status[b] = batch[k].status[b]
  <2>1. batch'[k].status = Over(OneRow(a, status), batch[k].status)
    BY <1>2
  <2> DEFINE now == batch'[k].status
             then == batch[k].status
  <2>2. now = Over(OneRow(a, status), then)
    BY <2>1
  <2> HIDE DEF now, then
  <2>3. DOMAIN now = {a} \cup DOMAIN then /\ now[a] = status /\ \A b \in DOMAIN then \ {a} : now[b] = then[b]
    BY <2>2 DEF Over, OneRow
  <2> QED  BY <2>3 DEF now, then
<1>5. \A v \in AnchorWorkers : Hand(v)' = Hand(v)
  BY <1>2, <1>3 DEF Hand
<1>6. AnchorTables' /\ Asked'
  BY DEF AnchorInv, AnchorTables, Asked
<1>7. AnchorIsReal'
  BY DEF AnchorInv, AnchorIsReal
<1>8. Locks'
  BY <1>2, <1>5 DEF AnchorInv, Locks
<1>9. OneHand'
  BY <1>5 DEF AnchorInv, OneHand
<1>10. WritesRows'
  <2> SUFFICES ASSUME NEW v \in AnchorWorkers, NEW i \in DOMAIN batch'[v].jobs
               PROVE  /\ Tried(batch'[v].jobs[i]) /\ batch'[v].jobs[i].of = jobs[i].of
                      /\ jobs[i].of \in DOMAIN batch'[v].status
    BY DEF WritesRows, Tried
  <2>1. CASE v # k
    BY <1>2, <2>1 DEF AnchorInv, WritesRows
  <2>2. CASE v = k /\ i = j
    BY <1>3, <1>4, <2>2 DEF a
  <2>3. CASE v = k /\ i # j
    BY <1>3, <1>4, <2>3 DEF AnchorInv, WritesRows
  <2> QED  BY <2>1, <2>2, <2>3
<1>11. WritesTruth'
  <2> SUFFICES ASSUME NEW v \in AnchorWorkers, NEW b \in DOMAIN batch'[v].status
               PROVE  /\ b \in Attestations
                      /\ batch'[v].status[b] \in {"pending", "anchored", "failed"}
                      /\ batch'[v].status[b] = "anchored" => chain'[b] > 0
                      /\ batch'[v].status[b] = "pending" =>
                            \E i \in DOMAIN batch'[v].jobs :
                                batch'[v].jobs[i].of = b /\ batch'[v].jobs[i].status = "pending"
    BY DEF WritesTruth
  <2>1. CASE v # k
    <3>1. batch'[v] = batch[v]
      BY <1>2, <2>1
    <3> QED  BY <3>1 DEF AnchorInv, WritesTruth
  <2>2. CASE v = k /\ b = a
    BY <1>1, <1>3, <1>4, <2>2 DEF a
  <2>3. CASE v = k /\ b # a
    <3>1. b \in DOMAIN batch[k].status /\ batch'[k].status[b] = batch[k].status[b]
      BY <1>4, <2>3
    <3>2. ASSUME NEW i \in DOMAIN batch[k].jobs, batch[k].jobs[i].of = b
          PROVE  i \in DOMAIN batch'[k].jobs /\ batch'[k].jobs[i] = batch[k].jobs[i]
      <4>1. jobs[i].of = b
        BY <3>2 DEF AnchorInv, WritesRows
      <4>2. i # j
        BY <4>1, <2>3 DEF a
      <4> QED  BY <1>3, <4>2
    <3> QED  BY <2>3, <3>1, <3>2 DEF AnchorInv, WritesTruth
  <2> QED  BY <2>1, <2>2, <2>3
<1> QED  BY <1>6, <1>7, <1>8, <1>9, <1>10, <1>11 DEF AnchorInv

\* The digest of a job is on the chain.
LEMMA SendAnchorKeeps ==
    ASSUME AnchorInv, NEW k \in AnchorWorkers, NEW j \in batch[k].todo, SendAnchor(k, j)
    PROVE  AnchorInv'
<1> DEFINE row == [jobs[j] EXCEPT !.status = "done", !.attempts = @ + 1]
<1>1. jobs[j] \in Job /\ jobs[j].of \in Attestations /\ jobs[j].attempts < AnchorAttempts
  BY DEF AnchorInv, Locks, Hand, AnchorTables, Tried, Job
<1>2. Tried(row) /\ row.of = jobs[j].of
  <2> DEFINE done == [jobs[j] EXCEPT !.status = "done"]
  <2>1. done \in Job /\ done.of = jobs[j].of /\ done.attempts = jobs[j].attempts /\ done.status = "done"
    BY <1>1, JobFields DEF Job
  <2>2. row = [done EXCEPT !.attempts = done.attempts + 1]
    BY <2>1
  <2> HIDE DEF row, done
  <2> QED  BY <1>1, <2>1, <2>2, TriedOnceMore DEF Tried
<1>3. /\ chain' = [chain EXCEPT ![jobs[j].of] = @ + 1] /\ Writes(k, j, row, "anchored")
      /\ UNCHANGED <<anchor, jobs, request, stops>>
  BY DEF SendAnchor
<1>4. chain \in [Attestations -> Nat]
  BY DEF AnchorInv, AnchorTables
<1>5. /\ chain' \in [Attestations -> Nat] /\ chain'[jobs[j].of] > 0
      /\ \A a \in Attestations : chain[a] > 0 => chain'[a] > 0
  BY <1>1, <1>3, <1>4
<1> HIDE DEF row
<1> QED  BY <1>2, <1>3, <1>5, WritesKeeps

\* The chain did not take it: there is another attempt, or the job has failed.
LEMMA AnchorFailsKeeps ==
    ASSUME AnchorInv, NEW k \in AnchorWorkers, NEW j \in batch[k].todo, AnchorFails(k, j)
    PROVE  AnchorInv'
<1> DEFINE row == [jobs[j] EXCEPT !.attempts = @ + 1, !.due = FALSE]
           last == [row EXCEPT !.status = "failed"]
<1>1. jobs[j] \in Job /\ jobs[j].attempts < AnchorAttempts /\ jobs[j].status = "pending"
  BY DEF AnchorInv, Locks, Hand, AnchorTables, Tried
<1>2. row \in Job /\ row.of = jobs[j].of /\ row.status = "pending" /\ row.attempts = jobs[j].attempts + 1
  <2> DEFINE once == [jobs[j] EXCEPT !.attempts = @ + 1]
  <2>1. once \in Job /\ once.of = jobs[j].of /\ once.status = "pending" /\ once.attempts = jobs[j].attempts + 1
    BY <1>1, TriedOnceMore
  <2>2. row = [once EXCEPT !.due = FALSE]
    OBVIOUS
  <2> HIDE DEF row, once
  <2> QED  BY <2>1, <2>2, JobFields DEF Job
<1>3. Tried(last) /\ last.of = jobs[j].of
  <2> HIDE DEF row
  <2>1. last \in Job /\ last.of = row.of /\ last.status = "failed"
    BY <1>2, JobFields DEF Job
  <2> QED  BY <1>2, <2>1 DEF Tried
<1>4. chain' \in [Attestations -> Nat] /\ chain' = chain
  BY DEF AnchorInv, AnchorTables, AnchorFails
<1>5. UNCHANGED <<anchor, jobs, request, stops>>
  BY DEF AnchorFails
<1>6. CASE Retries(j)
  <2>1. Writes(k, j, row, "pending")
    BY <1>6 DEF AnchorFails
  <2>2. Tried(row)
    BY <1>1, <1>2, <1>6 DEF Tried, Retries
  <2> HIDE DEF row
  <2> QED  BY <1>2, <1>4, <1>5, <2>1, <2>2, WritesKeeps
<1>7. CASE ~Retries(j)
  <2>1. Writes(k, j, last, "failed")
    BY <1>7 DEF AnchorFails
  <2> HIDE DEF last
  <2> QED  BY <1>3, <1>4, <1>5, <2>1, WritesKeeps
<1> QED  BY <1>6, <1>7

\* A batch that ends, kept or lost, holds nothing any more.
LEMMA BatchEnds ==
    ASSUME AnchorInv, NEW k \in AnchorWorkers, batch' = [batch EXCEPT ![k] = Resting]
    PROVE  /\ DOMAIN batch' = AnchorWorkers
           /\ Hand(k)' = {} /\ DOMAIN batch'[k].status = {} /\ DOMAIN batch'[k].jobs = {} /\ batch'[k] = Resting
           /\ \A v \in AnchorWorkers \ {k} : batch'[v] = batch[v] /\ Hand(v)' = Hand(v)
<1>1. Resting.todo = {} /\ DOMAIN Resting.jobs = {} /\ DOMAIN Resting.status = {}
  BY NothingYet DEF Resting
<1>2. DOMAIN batch' = AnchorWorkers /\ batch'[k] = Resting /\ \A v \in AnchorWorkers \ {k} : batch'[v] = batch[v]
  BY DEF AnchorInv, Locks
<1> QED  BY <1>1, <1>2 DEF Hand

LEMMA LoseJobsKeeps ==
    ASSUME AnchorInv, NEW k \in AnchorWorkers, LoseJobs(k)
    PROVE  AnchorInv'
<1>1. /\ stops < MaxStops /\ stops' = stops + 1 /\ batch' = [batch EXCEPT ![k] = Resting]
      /\ UNCHANGED <<anchor, jobs, request, chain>>
  BY DEF LoseJobs
<1>2. /\ DOMAIN batch' = AnchorWorkers
      /\ Hand(k)' = {} /\ DOMAIN batch'[k].status = {} /\ DOMAIN batch'[k].jobs = {} /\ batch'[k] = Resting
      /\ \A v \in AnchorWorkers \ {k} : batch'[v] = batch[v] /\ Hand(v)' = Hand(v)
  BY <1>1, BatchEnds
<1>3. AnchorTables' /\ Asked' /\ AnchorIsReal'
  BY <1>1, AnchorsAssumption DEF AnchorInv, AnchorTables, Asked, AnchorIsReal
<1>4. Locks'
  <2>1. Resting = [todo |-> Resting.todo, jobs |-> Resting.jobs, status |-> Resting.status] /\ Resting.todo = {}
    BY DEF Resting
  <2> QED  BY <1>1, <1>2, <2>1 DEF AnchorInv, Locks
<1>5. OneHand'
  BY <1>1, <1>2 DEF AnchorInv, OneHand
<1>6. WritesRows' /\ WritesTruth'
  <2> SUFFICES ASSUME NEW v \in AnchorWorkers
               PROVE  \/ DOMAIN batch'[v].status = {} /\ DOMAIN batch'[v].jobs = {}
                      \/ batch'[v] = batch[v]
    BY <1>1 DEF AnchorInv, WritesRows, WritesTruth
  <2> QED  BY <1>2
<1> QED  BY <1>3, <1>4, <1>5, <1>6 DEF AnchorInv

\* The batch is committed: the rows of its jobs and the statuses it told.
LEMMA CommitJobsKeeps ==
    ASSUME AnchorInv, NEW k \in AnchorWorkers, CommitJobs(k)
    PROVE  AnchorInv'
<1>1. /\ jobs' = Over(batch[k].jobs, jobs) /\ anchor' = Over(batch[k].status, anchor)
      /\ batch' = [batch EXCEPT ![k] = Resting] /\ UNCHANGED <<request, chain, stops>>
  BY DEF CommitJobs
<1>2. /\ DOMAIN batch' = AnchorWorkers
      /\ Hand(k)' = {} /\ DOMAIN batch'[k].status = {} /\ DOMAIN batch'[k].jobs = {} /\ batch'[k] = Resting
      /\ \A v \in AnchorWorkers \ {k} : batch'[v] = batch[v] /\ Hand(v)' = Hand(v)
  BY <1>1, BatchEnds
<1> DEFINE written == batch[k].jobs
           told == batch[k].status
<1>3. /\ DOMAIN written \subseteq DOMAIN jobs
      /\ \A j \in DOMAIN written : Tried(written[j]) /\ written[j].of = jobs[j].of /\ jobs[j].of \in DOMAIN told
  BY DEF AnchorInv, Locks, Hand, WritesRows
<1>4. /\ DOMAIN told \subseteq Attestations
      /\ \A a \in DOMAIN told :
            /\ told[a] \in Status
            /\ told[a] = "anchored" => chain[a] > 0
            /\ told[a] = "pending" => \E j \in DOMAIN written : written[j].of = a /\ written[j].status = "pending"
  BY DEF AnchorInv, WritesTruth, Status
<1>5. \A v \in AnchorWorkers \ {k} : Hand(v) \cap DOMAIN written = {}
  BY DEF AnchorInv, OneHand, Hand
<1>6. \A r \in Requests : request[r].rows \cap DOMAIN written = {}
  BY DEF AnchorInv, OneHand, Hand
<1> HIDE DEF written, told
<1>7. /\ DOMAIN jobs' = DOMAIN jobs
      /\ \A j \in DOMAIN written : jobs'[j] = written[j]
      /\ \A j \in DOMAIN jobs \ DOMAIN written : jobs'[j] = jobs[j]
  <2>1. jobs' = Over(written, jobs)
    BY <1>1 DEF written
  <2> QED  BY <1>3, <2>1 DEF Over
<1>8. /\ DOMAIN anchor' = Attestations /\ anchor' = [a \in DOMAIN anchor' |-> anchor'[a]]
      /\ \A a \in DOMAIN told : anchor'[a] = told[a]
      /\ \A a \in Attestations \ DOMAIN told : anchor'[a] = anchor[a]
  <2>1. anchor' = Over(told, anchor)
    BY <1>1 DEF told
  <2>2. DOMAIN anchor = Attestations
    BY DEF AnchorInv, AnchorTables
  <2> QED  BY <1>4, <2>1, <2>2 DEF Over
<1>9. \A j \in DOMAIN jobs : jobs'[j].of = jobs[j].of
  BY <1>3, <1>7
<1>10. AnchorTables'
  <2>1. anchor' \in [Attestations -> Status]
    BY <1>4, <1>8 DEF AnchorInv, AnchorTables
  <2> QED  BY <1>1, <1>3, <1>7, <2>1 DEF AnchorInv, AnchorTables
<1>11. Asked'
  BY <1>1, <1>7, <1>9 DEF AnchorInv, Asked
<1>12. Locks'
  <2>1. Resting = [todo |-> Resting.todo, jobs |-> Resting.jobs, status |-> Resting.status] /\ Resting.todo = {}
    BY DEF Resting
  <2>2. \A v \in AnchorWorkers \ {k} : Hand(v) \subseteq DOMAIN jobs /\ \A j \in batch[v].todo : jobs'[j] = jobs[j]
    BY <1>5, <1>7 DEF AnchorInv, Locks, Hand
  <2> QED  BY <1>2, <1>7, <2>1, <2>2 DEF AnchorInv, Locks
<1>13. OneHand'
  BY <1>1, <1>2 DEF AnchorInv, OneHand
<1>14. WritesRows'
  <2>1. \A v \in AnchorWorkers \ {k} : \A j \in DOMAIN batch[v].jobs : jobs'[j] = jobs[j]
    BY <1>5, <1>7 DEF AnchorInv, Locks, Hand
  <2> QED  BY <1>2, <2>1 DEF AnchorInv, WritesRows
<1>15. WritesTruth'
  <2> SUFFICES ASSUME NEW v \in AnchorWorkers
               PROVE  DOMAIN batch'[v].status = {} \/ batch'[v] = batch[v]
    BY <1>1 DEF AnchorInv, WritesTruth
  <2> QED  BY <1>2
<1>16. AnchorIsReal'
  <2> SUFFICES ASSUME NEW a \in Attestations
               PROVE  /\ anchor'[a] = "anchored" => chain'[a] > 0
                      /\ anchor'[a] = "pending" => \E j \in DOMAIN jobs' : jobs'[j].of = a /\ jobs'[j].status = "pending"
    BY DEF AnchorIsReal
  <2>1. CASE a \in DOMAIN told
    BY <1>1, <1>3, <1>4, <1>7, <1>8, <2>1
  <2>2. CASE a \notin DOMAIN told
    <3>1. anchor'[a] = anchor[a] /\ chain'[a] = chain[a]
      BY <1>1, <1>8, <2>2
    <3>2. ASSUME NEW j \in DOMAIN jobs, jobs[j].of = a PROVE jobs'[j] = jobs[j] /\ j \in DOMAIN jobs'
      BY <1>3, <1>7, <2>2, <3>2
    <3> QED  BY <3>1, <3>2 DEF AnchorInv, AnchorIsReal
  <2> QED  BY <2>1, <2>2
<1> QED  BY <1>10, <1>11, <1>12, <1>13, <1>14, <1>15, <1>16 DEF AnchorInv

\* The time of the next attempt comes.
LEMMA JobFallsDueKeeps ==
    ASSUME AnchorInv, NEW j \in DOMAIN jobs, JobFallsDue(j)
    PROVE  AnchorInv'
<1>1. jobs[j].status = "pending" /\ jobs' = [jobs EXCEPT ![j].due = TRUE] /\ UNCHANGED <<anchor, request, batch, chain, stops>>
  BY DEF JobFallsDue
<1>2. jobs[j] \in Job /\ Tried(jobs[j])
  BY DEF AnchorInv, AnchorTables, Tried
<1> DEFINE due == [jobs[j] EXCEPT !.due = TRUE]
<1>3. due \in Job /\ due.of = jobs[j].of /\ due.status = jobs[j].status /\ due.attempts = jobs[j].attempts
  BY <1>2, JobFields DEF Job
<1>4. /\ DOMAIN jobs' = DOMAIN jobs /\ jobs'[j] = due
      /\ \A i \in DOMAIN jobs \ {j} : jobs'[i] = jobs[i]
  BY <1>1
<1> HIDE DEF due
<1>5. \A i \in DOMAIN jobs : jobs'[i].of = jobs[i].of /\ jobs'[i].status = jobs[i].status /\ Tried(jobs'[i])
  BY <1>2, <1>3, <1>4 DEF AnchorInv, AnchorTables, Tried
<1>6. AnchorTables' /\ Asked' /\ AnchorIsReal'
  <2>1. AnchorTables'
    BY <1>1, <1>4, <1>5 DEF AnchorInv, AnchorTables
  <2>2. Asked'
    BY <1>1, <1>4, <1>5 DEF AnchorInv, Asked
  <2>3. AnchorIsReal'
    BY <1>1, <1>4, <1>5 DEF AnchorInv, AnchorIsReal
  <2> QED  BY <2>1, <2>2, <2>3
<1>7. Locks' /\ OneHand' /\ WritesTruth'
  BY <1>1, <1>4, <1>5 DEF AnchorInv, Locks, OneHand, WritesTruth, Hand
<1>8. WritesRows'
  <2>1. \A k \in AnchorWorkers : DOMAIN batch[k].jobs \subseteq DOMAIN jobs
    BY DEF AnchorInv, Locks, Hand
  <2> QED  BY <1>1, <1>5, <2>1 DEF AnchorInv, WritesRows
<1> QED  BY <1>6, <1>7, <1>8 DEF AnchorInv

LEMMA AnchorStepInv == AnchorInv /\ [AnchorsNext]_anchors => AnchorInv'
<1> SUFFICES ASSUME AnchorInv, [AnchorsNext]_anchors PROVE AnchorInv'
  OBVIOUS
<1>1. ASSUME NEW r \in Requests, EnqueueAnchor(r) \/ MarkPending(r) \/ \E a \in Attestations : Reanchor(r, a)
      PROVE  AnchorInv'
  BY <1>1, EnqueueKeeps, MarkPendingKeeps, ReanchorKeeps
<1>2. ASSUME NEW k \in AnchorWorkers, AnchorPass(k) \/ LoseJobs(k) PROVE AnchorInv'
  BY <1>2, FetchJobsKeeps, CommitJobsKeeps, LoseJobsKeeps, SendAnchorKeeps, AnchorFailsKeeps DEF AnchorPass
<1>3. ASSUME NEW j \in DOMAIN jobs, JobFallsDue(j) PROVE AnchorInv'
  BY <1>3, JobFallsDueKeeps
<1>4. CASE UNCHANGED anchors
  BY <1>4 DEF anchors, AnchorInv, AnchorTables, Asked, Locks, OneHand, WritesRows, WritesTruth, AnchorIsReal, Hand
<1> QED  BY <1>1, <1>2, <1>3, <1>4 DEF AnchorsNext

LEMMA AnchorInvariant == AnchorsSpec => []AnchorInv
BY AnchorInitInv, AnchorStepInv, PTL DEF AnchorsSpec

\* "Nada vira 'anchored' sem transacao real" (attest/worker.go), for any number of
\* attestations, requests, jobs and replicas that overlap and stop: an attestation
\* that says it is anchored has a transaction on the chain, and one that says it
\* is pending has a job that is still to be tried.
THEOREM AnchorsAreReal == AnchorsSpec => []AnchorIsReal
<1>1. AnchorInv => AnchorIsReal
  BY DEF AnchorInv
<1> QED  BY <1>1, AnchorInvariant, PTL

\* The rows, the requests and the batches keep their types: no job is tried more
\* often than it may be, and none is written by a worker that has not locked it.
THEOREM AnchorsTypes == AnchorsSpec => []AnchorsTypeOK
<1>1. AnchorsInit => enabled \in BOOLEAN
  BY Zenon DEF AnchorsInit
<1>2. [AnchorsNext]_anchors => enabled' = enabled
  BY Zenon DEF AnchorsNext, AnchorPass, Reanchor, EnqueueAnchor, MarkPending, FetchJobs, SendAnchor,
     AnchorFails, CommitJobs, LoseJobs, JobFallsDue, anchors
<1>3. (enabled \in BOOLEAN) /\ enabled' = enabled => (enabled \in BOOLEAN)'
  BY Zenon
<1>4. AnchorInv /\ (enabled \in BOOLEAN) => AnchorsTypeOK
  BY SMT DEF AnchorInv, AnchorTables, Asked, Locks, Hand, Tried, AnchorsTypeOK
<1> QED  BY <1>1, <1>2, <1>3, <1>4, AnchorInvariant, PTL DEF AnchorsSpec

-----------------------------------------------------------------------------
(***************************************************************************)
(* The outbox.  A row is sent or still to be sent, and the copies that     *)
(* left it are one if somebody remembers one, beyond those forgotten       *)
(* (Copies); that holds because a row locked by a worker is queued, in no  *)
(* other hand and not in an open transaction (Bags).                       *)
(***************************************************************************)
Bag(k) == worker[k].todo \cup DOMAIN worker[k].done

Sendable(row) == row \in Row /\ (row.status = "queued" => row.attempts < MaxAttempts)

Rows ==
    \A id \in DOMAIN notes :
        /\ id = <<id[1], id[2]>> /\ id[2] \in Writers \cup {Panel}
        /\ Sendable(notes[id])

Bags ==
    /\ DOMAIN worker = Workers
    /\ \A k \in Workers :
          /\ worker[k] = [todo |-> worker[k].todo, done |-> worker[k].done]
          /\ worker[k].todo \cap DOMAIN worker[k].done = {}
          /\ \A id \in Bag(k) : id \in DOMAIN notes /\ notes[id].status = "queued" /\ ~notes[id].open
          /\ \A id \in DOMAIN worker[k].done : Sendable(worker[k].done[id]) /\ ~worker[k].done[id].open
    /\ \A k, v \in Workers : k # v => Bag(k) \cap Bag(v) = {}

Received ==
    /\ \A id \in DOMAIN inbox : id \in DOMAIN notes /\ ~notes[id].open /\ inbox[id] \in Nat
    /\ faults = [rows |-> faults.rows, count |-> faults.count]
    /\ faults.count \in 0..MaxFaults

Copied(id) == IF id \in DOMAIN inbox THEN inbox[id] ELSE 0
Forgotten(id) == IF id \in faults.rows THEN faults.count ELSE 0
Remembered(id) == \/ notes[id].status = "sent"
                  \/ \E k \in Workers : id \in DOMAIN worker[k].done /\ worker[k].done[id].status = "sent"

Copies == \A id \in DOMAIN notes : Copied(id) <= Forgotten(id) + (IF Remembered(id) THEN 1 ELSE 0)

OneWriter == \A s \in Keyed, w, v \in Writers : {<<s, w>>, <<s, v>>} \subseteq DOMAIN notes => w = v

QueueInv == Rows /\ Bags /\ Received /\ Copies /\ OneWriter

-----------------------------------------------------------------------------
(***************************************************************************)
(* The pass.  The notice that issues the dates holds the payment's row     *)
(* from the time it read that the payment is not confirmed, so that no     *)
(* other notice of the order commits in between (Alone, Issuing).          *)
(***************************************************************************)
SaleTables ==
    /\ pass \subseteq Dates
    /\ order \in [Orders -> {"none", "pending", "paid", "partially_refunded", "refunded"}]
    /\ payment \in [Orders -> {"pending", "confirmed", "refunded"}]
    /\ tickets \subseteq Ticket
    /\ repasse \in [Orders -> Nat]
    /\ waitlist \in [People -> {"out", "waiting", "told"}]

Notices ==
    /\ DOMAIN notice = Writers
    /\ \A w \in Writers :
          /\ notice[w] = [at |-> notice[w].at, issues |-> notice[w].issues, list |-> notice[w].list]
          /\ notice[w].at \in {"new", "list", "open", "ended"}
          /\ notice[w].at = "list" => w \in Filling
          /\ notice[w].issues \subseteq Ticket /\ notice[w].list \subseteq People

Dated ==
    \A o \in Orders : order[o] # "none" => pass # {}

Alone ==
    \A v, w \in Writers \ Filling :
        notice[v].at = "open" /\ notice[w].at = "open" /\ OrderOf[v] = OrderOf[w] => v = w

Issuing ==
    \A w \in Confirming : notice[w].at = "open" =>
        /\ payment[OrderOf[w]] # "confirmed" /\ pass # {}
        /\ notice[w].issues # {}
        /\ \A t \in notice[w].issues : t.order = OrderOf[w] /\ t.by = w /\ t.status = "active"
        /\ \A a, b \in notice[w].issues : a.date = b.date => a = b

Issuers(o) == {t.by : t \in {t \in tickets : t.order = o}}

Issued ==
    /\ \A t \in tickets : notice[t.by].at = "ended"
    /\ \A o \in Orders : IsFiniteSet(Issuers(o))

SaleInv == SaleTables /\ Notices /\ Dated /\ Alone /\ Issuing /\ Issued /\ OneIssueAtATime

-----------------------------------------------------------------------------
(***************************************************************************)
(* The mail of the sales.  What a transaction wrote is open until it ends  *)
(* and is about what the transaction does; what is no longer open has      *)
(* happened.                                                               *)
(***************************************************************************)
\* A transaction that may still write has written nothing.
Unwritten == \A w \in Writers : notice[w].at \in {"new", "list"} => Written(w) = {}

Says(w) == IF w \in Confirming THEN {MailOf(t) : t \in notice[w].issues}
           ELSE IF w \in Filling THEN {<<"vacancy", p>> : p \in notice[w].list}
           ELSE {<<"refunded", OrderOf[w]>>}

OpenMail ==
    \A id \in DOMAIN notes : notes[id].open =>
        id[2] \in Writers /\ notice[id[2]].at = "open" /\ id[1] \in Says(id[2])

\* What an open sale will make happen is said in its transaction.
Prepared ==
    \A w \in Confirming \cup Filling : notice[w].at = "open" => \A s \in Says(w) : <<s, w>> \in DOMAIN notes

\* A ticket's message is of the notice that issued the ticket.
OwnMail == \A id \in DOMAIN notes, t \in Ticket : id[1] = MailOf(t) => id[2] \in {t.by, Panel}

Committed == \A id \in DOMAIN notes : ~notes[id].open => id[1] \in Happened \/ id[1][1] = "refunded"

Announced == \A s \in Happened : \E id \in DOMAIN notes : id[1] = s /\ ~notes[id].open

MailInv == Unwritten /\ OpenMail /\ Prepared /\ OwnMail /\ Committed /\ Announced

SeasonInv == QueueInv /\ SaleInv /\ MailInv

-----------------------------------------------------------------------------
(* The pass: every step keeps SaleInv                                      *)

\* A notice goes on; the others are as they were.
LEMMA NoticeMoves ==
    ASSUME Notices, NEW w \in Writers, NEW what, Opens(w, what)
    PROVE  /\ DOMAIN notice' = Writers /\ notice'[w] = what
           /\ \A v \in Writers \ {w} : notice'[v] = notice[v]
BY DEF Notices, Opens

\* What a notice may become keeps the rows well formed.
LEMMA NoticesKept ==
    ASSUME Notices, NEW w \in Writers, NEW what, Opens(w, what),
           what = [at |-> what.at, issues |-> what.issues, list |-> what.list],
           what.at \in {"new", "list", "open", "ended"}, what.at = "list" => w \in Filling,
           what.issues \subseteq Ticket, what.list \subseteq People
    PROVE  Notices'
<1>1. /\ DOMAIN notice' = Writers /\ notice'[w] = what
      /\ \A v \in Writers \ {w} : notice'[v] = notice[v]
  BY NoticeMoves
<1>2. \A v \in Writers : (notice'[v] = what /\ v = w) \/ notice'[v] = notice[v]
  BY <1>1
<1> QED  BY <1>1, <1>2 DEF Notices

\* The fields of what notices become.
LEMMA NoticeFields ==
    /\ New = [at |-> New.at, issues |-> New.issues, list |-> New.list]
    /\ New.at = "new" /\ New.issues = {} /\ New.list = {}
    /\ Ended = [at |-> Ended.at, issues |-> Ended.issues, list |-> Ended.list]
    /\ Ended.at = "ended" /\ Ended.issues = {} /\ Ended.list = {}
<1>1. /\ New = [at |-> New.at, issues |-> New.issues, list |-> New.list]
      /\ New.at = "new" /\ New.issues = {} /\ New.list = {}
  BY DEF New
<1>2. /\ Ended = [at |-> Ended.at, issues |-> Ended.issues, list |-> Ended.list]
      /\ Ended.at = "ended" /\ Ended.issues = {} /\ Ended.list = {}
  BY <1>1 DEF Ended
<1> QED  BY <1>1, <1>2

LEMMA SaleInitInv == SeasonInit => SaleInv
<1> SUFFICES ASSUME SeasonInit PROVE SaleInv
  OBVIOUS
<1>1. \A w \in Writers : notice[w] \in {New, Ended}
  BY DEF SeasonInit
<1>2. DOMAIN notice = Writers
  BY DEF SeasonInit
<1>3. /\ New = [at |-> New.at, issues |-> New.issues, list |-> New.list]
      /\ New.at = "new" /\ New.issues = {} /\ New.list = {}
  BY DEF New
<1>4. Notices
  BY <1>1, <1>2, <1>3, NoticeFields DEF Notices
<1>5. Alone /\ Issuing
  BY <1>1, <1>3, NoticeFields, SeasonAssumption DEF Alone, Issuing
<1>6. \A o \in Orders : Issuers(o) = {} /\ ActiveOf(o) = {}
  BY DEF SeasonInit, Issuers, ActiveOf
<1>7. IsFiniteSet({}) /\ Cardinality({}) = 0
  BY FS_EmptySet
<1>8. Issued
  BY <1>6, <1>7 DEF Issued, SeasonInit
<1>9. OneIssueAtATime
  <2>1. \A o \in Orders : {t.by : t \in {t \in tickets : t.order = o}} = {}
    BY <1>6 DEF Issuers
  <2> QED  BY <1>6, <1>7, <2>1 DEF OneIssueAtATime, SeasonInit, Standing
<1>10. SaleTables /\ Dated
  BY DEF SeasonInit, SaleTables, Dated
<1> QED  BY <1>4, <1>5, <1>8, <1>9, <1>10 DEF SaleInv

\* A date is added, a pass is bought, a person joins the list.
LEMMA CounterKeepsSale ==
    ASSUME SaleInv,
           (\E d \in Dates : AddDate(d)) \/ (\E o \in Orders : BuyPass(o)) \/ (\E p \in People : JoinWaitlist(p))
    PROVE  SaleInv'
<1>1. UNCHANGED <<payment, tickets, repasse, notice>>
  BY DEF AddDate, BuyPass, JoinWaitlist
<1>2. pass \subseteq pass' /\ pass' \subseteq Dates
  BY DEF SaleInv, SaleTables, AddDate, BuyPass, JoinWaitlist
<1>3. /\ order' \in [Orders -> {"none", "pending", "paid", "partially_refunded", "refunded"}]
      /\ \A o \in Orders : /\ Standing(o)' <=> Standing(o)
                           /\ order'[o] # "none" => order[o] # "none" \/ pass # {}
  BY DEF SaleInv, SaleTables, AddDate, BuyPass, JoinWaitlist, Standing
<1>4. waitlist' \in [People -> {"out", "waiting", "told"}]
  BY DEF SaleInv, SaleTables, AddDate, BuyPass, JoinWaitlist
<1>5. SaleTables' /\ Dated'
  BY <1>1, <1>2, <1>3, <1>4 DEF SaleInv, SaleTables, Dated
<1>6. Notices' /\ Alone' /\ Issuing'
  BY <1>1, <1>2 DEF SaleInv, Notices, Alone, Issuing
<1>7. Issued'
  BY <1>1 DEF SaleInv, Issued, Issuers
<1>8. OneIssueAtATime'
  BY <1>1, <1>3 DEF SaleInv, OneIssueAtATime, ActiveOf
<1> QED  BY <1>5, <1>6, <1>7, <1>8 DEF SaleInv

\* A notice that opens a transaction takes the payment's row for itself.
LEMMA OpeningKeepsSale ==
    ASSUME SaleInv, NEW w \in Writers, NEW what, Opens(w, what),
           UNCHANGED <<pass, order, payment, tickets, repasse, waitlist>>,
           what = [at |-> what.at, issues |-> what.issues, list |-> what.list],
           what.at \in {"list", "open", "ended"}, what.at = "list" => w \in Filling,
           what.issues \subseteq Ticket, what.list \subseteq People,
           notice[w].at # "ended",
           what.at = "open" /\ w \notin Filling => PaymentFree(w),
           what.at = "open" /\ w \in Confirming =>
                /\ payment[OrderOf[w]] # "confirmed" /\ pass # {}
                /\ what.issues # {}
                /\ \A t \in what.issues : t.order = OrderOf[w] /\ t.by = w /\ t.status = "active"
                /\ \A a, b \in what.issues : a.date = b.date => a = b
    PROVE  SaleInv'
<1>1. /\ DOMAIN notice' = Writers /\ notice'[w] = what
      /\ \A v \in Writers \ {w} : notice'[v] = notice[v]
  BY NoticeMoves DEF SaleInv
<1>2. SaleTables' /\ Dated'
  BY DEF SaleInv, SaleTables, Dated
<1>3. Notices'
  BY NoticesKept DEF SaleInv
<1>4. Alone'
  BY <1>1 DEF SaleInv, Alone, PaymentFree
<1>5. Issuing'
  <2> SUFFICES ASSUME NEW v \in Confirming, notice'[v].at = "open"
               PROVE  /\ payment[OrderOf[v]] # "confirmed" /\ pass # {}
                      /\ notice'[v].issues # {}
                      /\ \A t \in notice'[v].issues : t.order = OrderOf[v] /\ t.by = v /\ t.status = "active"
                      /\ \A a, b \in notice'[v].issues : a.date = b.date => a = b
    BY DEF Issuing
  <2>1. v \in Writers
    BY SeasonAssumption
  <2>2. CASE v = w
    BY <1>1, <2>2
  <2>3. CASE v # w
    <3>1. notice'[v] = notice[v]
      BY <1>1, <2>1, <2>3
    <3> QED  BY <3>1 DEF SaleInv, Issuing
  <2> QED  BY <2>2, <2>3
<1>6. Issued'
  <2>1. \A t \in tickets : notice'[t.by].at = "ended"
    <3> SUFFICES ASSUME NEW t \in tickets PROVE notice'[t.by].at = "ended"
      OBVIOUS
    <3>1. t.by \in Writers
      BY SeasonAssumption DEF SaleInv, SaleTables, Ticket
    <3>2. notice[t.by].at = "ended" /\ t.by # w
      BY DEF SaleInv, Issued
    <3> QED  BY <1>1, <3>1, <3>2
  <2> QED  BY <2>1 DEF SaleInv, Issued, Issuers
<1>7. OneIssueAtATime'
  BY DEF SaleInv, OneIssueAtATime, ActiveOf, Standing
<1> QED  BY <1>2, <1>3, <1>4, <1>5, <1>6, <1>7 DEF SaleInv

\* ConfirmPass: issues a ticket per date, unless the payment is confirmed.
LEMMA ConfirmPassKeepsSale ==
    ASSUME SaleInv, NEW w \in Confirming, ConfirmPass(w)
    PROVE  SaleInv'
<1> DEFINE o == OrderOf[w]
           T == [order : {o}, date : pass, by : {w}, status : {"active"}]
<1>1. w \in Writers /\ o \in Orders /\ w \notin Filling
  BY SeasonAssumption
<1>2. /\ notice[w].at = "new" /\ order[o] # "none" /\ PaymentFree(w)
      /\ UNCHANGED <<pass, order, payment, tickets, repasse, waitlist>>
  BY DEF ConfirmPass
<1>3. CASE payment[o] = "confirmed"
  <2>1. Opens(w, Ended)
    BY <1>3 DEF ConfirmPass
  <2> QED  BY <1>1, <1>2, <2>1, NoticeFields, OpeningKeepsSale
<1>4. CASE payment[o] # "confirmed"
  <2> DEFINE what == [New EXCEPT !.at = "open", !.issues = T]
  <2>1. Opens(w, what)
    BY <1>4 DEF ConfirmPass
  <2>2. /\ what = [at |-> what.at, issues |-> what.issues, list |-> what.list]
        /\ what.at = "open" /\ what.issues = T /\ what.list = {}
    <3>1. what = [New EXCEPT !.at = "open", !.issues = T]
      OBVIOUS
    <3> HIDE DEF what, T
    <3> QED  BY <3>1, NoticeFields
  <2>3. T \subseteq Ticket
    BY <1>1 DEF Ticket, SaleInv, SaleTables
  <2>4. T # {} /\ pass # {}
    <3>1. PICK d : d \in pass
      BY <1>1, <1>2 DEF SaleInv, Dated
    <3>2. [order |-> o, date |-> d, by |-> w, status |-> "active"] \in T
      BY <3>1
    <3> QED  BY <3>2
  <2>5. \A t \in T : t.order = o /\ t.by = w /\ t.status = "active"
    OBVIOUS
  <2>6. \A a, b \in T : a.date = b.date => a = b
    OBVIOUS
  <2> HIDE DEF T, what
  <2> QED  BY <1>1, <1>2, <1>4, <2>1, <2>2, <2>3, <2>4, <2>5, <2>6, OpeningKeepsSale
<1> QED  BY <1>3, <1>4

\* The other notices that open a transaction, and those that end with nothing done.
LEMMA OthersKeepSale ==
    ASSUME SaleInv, NEW w \in Writers,
           \/ w \in Refunding /\ RefundPayment(w)
           \/ w \in Filling /\ (LookAtWaitlist(w) \/ NotifyWaitlist(w))
           \/ Rollback(w)
    PROVE  SaleInv'
<1>1. UNCHANGED <<pass, order, payment, tickets, repasse, waitlist>>
  BY DEF RefundPayment, LookAtWaitlist, NotifyWaitlist, Rollback
<1>2. CASE w \in Refunding /\ RefundPayment(w)
  <2> DEFINE what == [New EXCEPT !.at = "open"]
  <2>1. Opens(w, what) /\ PaymentFree(w) /\ notice[w].at = "new"
    BY <1>2 DEF RefundPayment
  <2>2. w \notin Confirming
    BY <1>2, SeasonAssumption
  <2>3. what = [New EXCEPT !.at = "open"]
    OBVIOUS
  <2> HIDE DEF what
  <2>4. /\ what = [at |-> what.at, issues |-> what.issues, list |-> what.list]
        /\ what.at = "open" /\ what.issues = {} /\ what.list = {}
    BY <2>3, NoticeFields
  <2> QED  BY <1>1, <2>1, <2>2, <2>4, OpeningKeepsSale
<1>3. CASE w \in Filling /\ LookAtWaitlist(w)
  <2> DEFINE P == {p \in People : waitlist[p] = "waiting"}
  <2> DEFINE what == [New EXCEPT !.at = "list", !.list = P]
  <2>1. Opens(w, what) /\ notice[w].at = "new"
    BY <1>3 DEF LookAtWaitlist
  <2>2. P \subseteq People
    OBVIOUS
  <2> HIDE DEF P
  <2>3. /\ what = [at |-> what.at, issues |-> what.issues, list |-> what.list]
        /\ what.at = "list" /\ what.issues = {} /\ what.list = P
    <3>1. what = [New EXCEPT !.at = "list", !.list = P]
      OBVIOUS
    <3> HIDE DEF what
    <3> QED  BY <3>1, NoticeFields
  <2> HIDE DEF what
  <2> QED  BY <1>1, <1>3, <2>1, <2>2, <2>3, OpeningKeepsSale
<1>4. CASE w \in Filling /\ NotifyWaitlist(w)
  <2> DEFINE what == [notice[w] EXCEPT !.at = "open"]
  <2>1. Opens(w, what) /\ notice[w].at = "list"
    BY <1>4 DEF NotifyWaitlist
  <2>2. /\ what = [at |-> what.at, issues |-> what.issues, list |-> what.list]
        /\ what.at = "open" /\ what.issues \subseteq Ticket /\ what.list \subseteq People
    BY DEF SaleInv, Notices
  <2>3. w \notin Confirming
    BY <1>4, SeasonAssumption
  <2> HIDE DEF what
  <2> QED  BY <1>1, <1>4, <2>1, <2>2, <2>3, OpeningKeepsSale
<1>5. CASE Rollback(w)
  <2>1. Opens(w, Ended) /\ notice[w].at \in {"open", "list"}
    BY <1>5 DEF Rollback
  <2> QED  BY <1>1, <2>1, NoticeFields, OpeningKeepsSale
<1> QED  BY <1>2, <1>3, <1>4, <1>5

\* A transaction ends: its notice does not come again.
LEMMA EndingKeepsNotices ==
    ASSUME SaleInv, NEW w \in Writers, Opens(w, Ended)
    PROVE  /\ Notices' /\ Alone'
           /\ notice'[w].at = "ended"
           /\ \A v \in Writers \ {w} : notice'[v] = notice[v]
           /\ \A v \in Writers : notice'[v].at = "open" => v # w /\ notice'[v] = notice[v]
           /\ \A v \in Writers : notice[v].at = "ended" => notice'[v].at = "ended"
<1>1. /\ DOMAIN notice' = Writers /\ notice'[w] = Ended
      /\ \A v \in Writers \ {w} : notice'[v] = notice[v]
  BY NoticeMoves DEF SaleInv
<1>2. /\ Ended = [at |-> Ended.at, issues |-> Ended.issues, list |-> Ended.list]
      /\ Ended.at = "ended" /\ Ended.issues = {} /\ Ended.list = {}
  BY NoticeFields
<1>3. Notices'
  BY <1>1, <1>2, NoticesKept DEF SaleInv
<1>4. Alone'
  BY <1>1, <1>2 DEF SaleInv, Alone
<1> QED  BY <1>1, <1>2, <1>3, <1>4

\* Confirmed: the dates of the pass are issued.
LEMMA ConfirmedKeepsSale ==
    ASSUME SaleInv, NEW w \in Confirming, notice[w].at = "open", Confirmed(w), Opens(w, Ended), UNCHANGED pass
    PROVE  SaleInv'
<1> DEFINE o == OrderOf[w]
           I == notice[w].issues
<1>1. w \in Writers /\ o \in Orders /\ w \notin Filling /\ w \notin Refunding
  BY SeasonAssumption
<1>2. /\ order' = [order EXCEPT ![o] = "paid"] /\ payment' = [payment EXCEPT ![o] = "confirmed"]
      /\ tickets' = tickets \cup I /\ repasse' = [repasse EXCEPT ![o] = @ + 1] /\ UNCHANGED waitlist
  BY DEF Confirmed
<1>3. /\ Notices' /\ Alone' /\ notice'[w].at = "ended"
      /\ \A v \in Writers : notice'[v].at = "open" => v # w /\ notice'[v] = notice[v]
      /\ \A v \in Writers : notice[v].at = "ended" => notice'[v].at = "ended"
  BY <1>1, EndingKeepsNotices
<1>4. /\ payment[o] # "confirmed" /\ pass # {} /\ I # {} /\ I \subseteq Ticket
      /\ \A t \in I : t.order = o /\ t.by = w /\ t.status = "active"
      /\ \A a, b \in I : a.date = b.date => a = b
  BY <1>1 DEF SaleInv, Issuing, Notices
<1>5. order \in [Orders -> {"none", "pending", "paid", "partially_refunded", "refunded"}] /\ repasse \in [Orders -> Nat]
      /\ payment \in [Orders -> {"pending", "confirmed", "refunded"}] /\ tickets \subseteq Ticket
  BY DEF SaleInv, SaleTables
<1>6. ActiveOf(o) = {}
  BY <1>1, <1>4 DEF SaleInv, OneIssueAtATime
<1>7. w \notin Issuers(o)
  <2>1. \A t \in tickets : notice[t.by].at = "ended"
    BY DEF SaleInv, Issued
  <2> QED  BY <2>1 DEF Issuers
<1> HIDE DEF o, I
<1>8. SaleTables'
  BY <1>1, <1>2, <1>4, <1>5 DEF SaleInv, SaleTables
<1>9. Dated'
  BY <1>1, <1>2, <1>4, <1>5 DEF SaleInv, Dated
<1>10. Issuing'
  <2> SUFFICES ASSUME NEW v \in Confirming, notice'[v].at = "open"
               PROVE  /\ payment'[OrderOf[v]] # "confirmed" /\ pass' # {}
                      /\ notice'[v].issues # {}
                      /\ \A t \in notice'[v].issues : t.order = OrderOf[v] /\ t.by = v /\ t.status = "active"
                      /\ \A a, b \in notice'[v].issues : a.date = b.date => a = b
    BY DEF Issuing
  <2>1. v \in Writers /\ v \notin Filling /\ OrderOf[v] \in Orders
    BY SeasonAssumption
  <2>2. v # w /\ notice'[v] = notice[v]
    BY <1>3, <2>1
  <2>3. OrderOf[v] # o
    BY <1>1, <2>1, <2>2 DEF SaleInv, Alone, o
  <2>4. payment'[OrderOf[v]] = payment[OrderOf[v]]
    BY <1>2, <1>5, <2>1, <2>3
  <2> QED  BY <2>2, <2>4 DEF SaleInv, Issuing
<1>11. Issuers(o)' = Issuers(o) \cup {w} /\ \A p \in Orders \ {o} : Issuers(p)' = Issuers(p)
  <2>1. \A t \in tickets' : t \in tickets \/ t \in I
    BY <1>2
  <2>2. \A t \in tickets : t \in tickets'
    BY <1>2
  <2>3. \E t \in tickets' : t.order = o /\ t.by = w
    BY <1>2, <1>4
  <2> QED  BY <1>4, <2>1, <2>2, <2>3 DEF Issuers
<1>12. Issued'
  <2>1. \A t \in tickets : notice'[t.by].at = "ended"
    <3>1. \A t \in tickets : t.by \in Writers
      BY <1>5, SeasonAssumption DEF Ticket
    <3> QED  BY <1>3, <3>1 DEF SaleInv, Issued
  <2>2. \A t \in I : notice'[t.by].at = "ended"
    BY <1>3, <1>4
  <2>3. \A p \in Orders : IsFiniteSet(Issuers(p))
    BY DEF SaleInv, Issued
  <2>4. \A p \in Orders : IsFiniteSet(Issuers(p)')
    BY <1>11, <2>3, FS_AddElement
  <2> QED  BY <1>2, <2>1, <2>2, <2>4 DEF Issued
<1>13. OneIssueAtATime'
  <2> SUFFICES ASSUME NEW p \in Orders
               PROVE  /\ \A a, b \in ActiveOf(p)' : a.by = b.by /\ (a.date = b.date => a = b)
                      /\ Standing(p)' <=> ActiveOf(p)' # {}
                      /\ payment'[p] = "confirmed" <=> ActiveOf(p)' # {}
                      /\ repasse'[p] = Cardinality(Issuers(p)')
    BY DEF OneIssueAtATime, Issuers
  <2>1. repasse[p] = Cardinality(Issuers(p)) /\ IsFiniteSet(Issuers(p))
    BY DEF SaleInv, OneIssueAtATime, Issued, Issuers
  <2>2. CASE p = o
    <3>1. ActiveOf(o)' = I
      BY <1>2, <1>4, <1>6 DEF ActiveOf
    <3>2. Cardinality(Issuers(o)') = Cardinality(Issuers(o)) + 1
      BY <1>7, <1>11, <2>1, <2>2, FS_AddElement
    <3>3. repasse'[o] = repasse[o] + 1 /\ Standing(o)' /\ payment'[o] = "confirmed"
      BY <1>1, <1>2, <1>5 DEF Standing
    <3> QED  BY <1>4, <2>1, <2>2, <3>1, <3>2, <3>3
  <2>3. CASE p # o
    <3>1. ActiveOf(p)' = ActiveOf(p)
      BY <1>2, <1>4, <2>3 DEF ActiveOf
    <3>2. repasse'[p] = repasse[p] /\ (Standing(p)' <=> Standing(p)) /\ payment'[p] = payment[p]
      BY <1>1, <1>2, <1>5, <2>3 DEF Standing
    <3>3. Issuers(p)' = Issuers(p)
      BY <1>11, <2>3
    <3>4. /\ \A a, b \in ActiveOf(p) : a.by = b.by /\ (a.date = b.date => a = b)
          /\ Standing(p) <=> ActiveOf(p) # {}
          /\ payment[p] = "confirmed" <=> ActiveOf(p) # {}
      BY DEF SaleInv, OneIssueAtATime
    <3> QED  BY <2>1, <3>1, <3>2, <3>3, <3>4
  <2> QED  BY <2>2, <2>3
<1> QED  BY <1>3, <1>8, <1>9, <1>10, <1>12, <1>13 DEF SaleInv

\* Burn: the tickets given back are burned, the others are as they were.
LEMMA Burning ==
    ASSUME tickets \subseteq Ticket, NEW o, NEW T, T \subseteq ActiveOf(o), Burn(o, T)
    PROVE  /\ tickets' \subseteq Ticket
           /\ \A t \in tickets : \E u \in tickets' :
                  u.order = t.order /\ u.date = t.date /\ u.by = t.by
           /\ \A u \in tickets' : \E t \in tickets :
                  u.order = t.order /\ u.date = t.date /\ u.by = t.by
           /\ \A t \in tickets \ T : t \in tickets'
           /\ \A u \in tickets' : u.status = "burned" \/ u \in tickets \ T
<1> DEFINE burn(t) == [t EXCEPT !.status = IF t \in T THEN "burned" ELSE @]
<1>1. ASSUME NEW t \in tickets
      PROVE  /\ burn(t) \in Ticket
             /\ burn(t).order = t.order /\ burn(t).date = t.date /\ burn(t).by = t.by
             /\ t \in T => burn(t).status = "burned"
             /\ t \notin T => burn(t) = t
  <2>1. t \in Ticket
    OBVIOUS
  <2>2. CASE t \in T
    <3>1. burn(t) = [t EXCEPT !.status = "burned"]
      BY <2>2
    <3> QED  BY <2>1, <2>2, <3>1 DEF Ticket
  <2>3. CASE t \notin T
    <3>1. burn(t) = [t EXCEPT !.status = t.status]
      BY <2>3
    <3>2. burn(t) = t
      BY <2>1, <3>1 DEF Ticket
    <3> QED  BY <2>1, <2>3, <3>2
  <2> QED  BY <2>2, <2>3
<1>2. tickets' = {burn(t) : t \in tickets}
  BY DEF Burn
<1> HIDE DEF burn
<1> QED  BY <1>1, <1>2

\* Burning what an order still has, or a part of it.
LEMMA BurnKeepsSale ==
    ASSUME SaleInv, NEW o \in Orders, Standing(o), NEW T, T \subseteq ActiveOf(o), Burn(o, T),
           UNCHANGED <<pass, repasse, waitlist>>, Notices', Alone',
           \A v \in Writers : notice'[v].at = "open" => notice'[v] = notice[v],
           \A v \in Writers : notice[v].at = "ended" => notice'[v].at = "ended"
    PROVE  SaleInv'
<1>1. /\ order \in [Orders -> {"none", "pending", "paid", "partially_refunded", "refunded"}]
      /\ payment \in [Orders -> {"pending", "confirmed", "refunded"}]
      /\ repasse \in [Orders -> Nat] /\ tickets \subseteq Ticket
  BY DEF SaleInv, SaleTables
<1>2. /\ order' = [order EXCEPT ![o] = IF T = ActiveOf(o) THEN "refunded" ELSE "partially_refunded"]
      /\ payment' = IF T = ActiveOf(o) THEN [payment EXCEPT ![o] = "refunded"] ELSE payment
  BY DEF Burn
<1>3. /\ tickets' \subseteq Ticket
      /\ \A t \in tickets : \E u \in tickets' : u.order = t.order /\ u.date = t.date /\ u.by = t.by
      /\ \A u \in tickets' : \E t \in tickets : u.order = t.order /\ u.date = t.date /\ u.by = t.by
      /\ \A t \in tickets \ T : t \in tickets'
      /\ \A u \in tickets' : u.status = "burned" \/ u \in tickets \ T
  BY <1>1, Burning
<1>4. SaleTables'
  BY <1>1, <1>2, <1>3 DEF SaleInv, SaleTables
<1>5. Dated'
  BY <1>1, <1>2 DEF SaleInv, Dated, Standing
<1>6. Issuing'
  <2>1. \A p \in Orders : payment'[p] \in {payment[p], "refunded"}
    BY <1>1, <1>2
  <2>2. \A v \in Confirming : v \in Writers /\ OrderOf[v] \in Orders
    BY SeasonAssumption
  <2> QED  BY <2>1, <2>2 DEF SaleInv, Issuing
<1>7. \A p \in Orders : Issuers(p)' = Issuers(p)
  BY <1>3 DEF Issuers
<1>8. Issued'
  <2>1. \A u \in tickets' : u.by \in Writers /\ notice[u.by].at = "ended"
    BY <1>1, <1>3, SeasonAssumption DEF SaleInv, Issued, Ticket
  <2> QED  BY <1>7, <2>1 DEF SaleInv, Issued
<1>9. ActiveOf(o)' = ActiveOf(o) \ T
  BY <1>3 DEF ActiveOf
<1>10. \A p \in Orders \ {o} : ActiveOf(p)' = ActiveOf(p)
  BY <1>3 DEF ActiveOf
<1>11. OneIssueAtATime'
  <2> SUFFICES ASSUME NEW p \in Orders
               PROVE  /\ \A a, b \in ActiveOf(p)' : a.by = b.by /\ (a.date = b.date => a = b)
                      /\ Standing(p)' <=> ActiveOf(p)' # {}
                      /\ payment'[p] = "confirmed" <=> ActiveOf(p)' # {}
                      /\ repasse'[p] = Cardinality(Issuers(p)')
    BY DEF OneIssueAtATime, Issuers
  <2>1. repasse'[p] = Cardinality(Issuers(p)')
    BY <1>7 DEF SaleInv, OneIssueAtATime, Issuers
  <2>2. /\ \A a, b \in ActiveOf(p) : a.by = b.by /\ (a.date = b.date => a = b)
        /\ Standing(p) <=> ActiveOf(p) # {}
        /\ payment[p] = "confirmed" <=> ActiveOf(p) # {}
    BY DEF SaleInv, OneIssueAtATime
  <2>3. CASE p = o /\ T = ActiveOf(o)
    <3>1. order'[o] = "refunded" /\ payment'[o] = "refunded"
      BY <1>1, <1>2, <2>3
    <3> QED  BY <1>9, <2>1, <2>3, <3>1 DEF Standing
  <2>4. CASE p = o /\ T # ActiveOf(o)
    <3>1. order'[o] = "partially_refunded" /\ payment'[o] = payment[o]
      BY <1>1, <1>2, <2>4
    <3>2. ActiveOf(o)' # {} /\ ActiveOf(o) # {}
      BY <1>9, <2>4
    <3> QED  BY <1>9, <2>1, <2>2, <2>4, <3>1, <3>2 DEF Standing
  <2>5. CASE p # o
    <3>1. order'[p] = order[p] /\ payment'[p] = payment[p]
      BY <1>1, <1>2, <2>5
    <3> QED  BY <1>10, <2>1, <2>2, <2>5, <3>1 DEF Standing
  <2> QED  BY <2>3, <2>4, <2>5
<1> QED  BY <1>4, <1>5, <1>6, <1>8, <1>11 DEF SaleInv

\* CompleteRefund: the api gives tickets of an order back.
LEMMA CompleteRefundKeepsSale ==
    ASSUME SaleInv, NEW o \in Orders, NEW T \in SUBSET ActiveOf(o), CompleteRefund(o, T)
    PROVE  SaleInv'
<1>1. Standing(o) /\ Burn(o, T) /\ UNCHANGED <<pass, repasse, waitlist, notice>>
  BY DEF CompleteRefund
<1>2. Notices' /\ Alone'
  BY <1>1 DEF SaleInv, Notices, Alone
<1> QED  BY <1>1, <1>2, BurnKeepsSale

\* Refunded: the notice burns what is still active, or finds nothing to do.
LEMMA RefundedKeepsSale ==
    ASSUME SaleInv, NEW w \in Refunding, Refunded(w), Opens(w, Ended), UNCHANGED pass
    PROVE  SaleInv'
<1> DEFINE o == OrderOf[w]
<1>1. w \in Writers /\ o \in Orders
  BY SeasonAssumption
<1>2. /\ Notices' /\ Alone' /\ notice'[w].at = "ended"
      /\ \A v \in Writers : notice'[v].at = "open" => v # w /\ notice'[v] = notice[v]
      /\ \A v \in Writers : notice[v].at = "ended" => notice'[v].at = "ended"
  BY <1>1, EndingKeepsNotices
<1>3. UNCHANGED <<repasse, waitlist>>
  BY DEF Refunded
<1>4. CASE Standing(o) /\ Burn(o, ActiveOf(o))
  BY <1>1, <1>2, <1>3, <1>4, BurnKeepsSale
<1>5. CASE UNCHANGED <<order, payment, tickets>>
  <2>1. SaleTables' /\ Dated'
    BY <1>3, <1>5 DEF SaleInv, SaleTables, Dated
  <2>2. Issuing'
    BY <1>2, <1>5, SeasonAssumption DEF SaleInv, Issuing
  <2>3. \A t \in tickets : t.by \in Writers
    BY SeasonAssumption DEF SaleInv, SaleTables, Ticket
  <2>4. Issued'
    BY <1>2, <1>5, <2>3 DEF SaleInv, Issued, Issuers
  <2>5. OneIssueAtATime'
    BY <1>3, <1>5 DEF SaleInv, OneIssueAtATime, ActiveOf, Standing
  <2> QED  BY <1>2, <2>1, <2>2, <2>4, <2>5 DEF SaleInv
<1> QED  BY <1>4, <1>5 DEF Refunded

\* Told: the people of the list are marked.
LEMMA ToldKeepsSale ==
    ASSUME SaleInv, NEW w \in Filling, Told(w), Opens(w, Ended), UNCHANGED pass
    PROVE  SaleInv'
<1>1. w \in Writers
  BY SeasonAssumption
<1>2. /\ Notices' /\ Alone' /\ notice'[w].at = "ended"
      /\ \A v \in Writers : notice'[v].at = "open" => v # w /\ notice'[v] = notice[v]
      /\ \A v \in Writers : notice[v].at = "ended" => notice'[v].at = "ended"
  BY <1>1, EndingKeepsNotices
<1>3. /\ waitlist' = [p \in People |-> IF p \in notice[w].list THEN "told" ELSE waitlist[p]]
      /\ UNCHANGED <<order, payment, tickets, repasse>>
  BY DEF Told
<1>4. waitlist' \in [People -> {"out", "waiting", "told"}]
  BY <1>3 DEF SaleInv, SaleTables
<1>5. SaleTables' /\ Dated'
  BY <1>3, <1>4 DEF SaleInv, SaleTables, Dated
<1>6. Issuing'
  BY <1>2, <1>3, SeasonAssumption DEF SaleInv, Issuing
<1>7. Issued'
  <2>1. \A t \in tickets : t.by \in Writers
    BY SeasonAssumption DEF SaleInv, SaleTables, Ticket
  <2> QED  BY <1>2, <1>3, <2>1 DEF SaleInv, Issued, Issuers
<1>8. OneIssueAtATime'
  BY <1>3 DEF SaleInv, OneIssueAtATime, ActiveOf, Standing
<1> QED  BY <1>2, <1>5, <1>6, <1>7, <1>8 DEF SaleInv

LEMMA SaleStepInv == SaleInv /\ [SeasonNext]_<<outbox, season>> => SaleInv'
<1> SUFFICES ASSUME SaleInv, [SeasonNext]_<<outbox, season>> PROVE SaleInv'
  OBVIOUS
<1>1. CASE \/ \E d \in Dates : AddDate(d)
           \/ \E o \in Orders : BuyPass(o)
           \/ \E p \in People : JoinWaitlist(p)
  BY <1>1, CounterKeepsSale
<1>2. ASSUME NEW w \in Confirming, ConfirmPass(w) PROVE SaleInv'
  BY <1>2, ConfirmPassKeepsSale
<1>3. ASSUME NEW w \in Refunding, RefundPayment(w) PROVE SaleInv'
  BY <1>3, OthersKeepSale, SeasonAssumption
<1>4. ASSUME NEW w \in Filling, LookAtWaitlist(w) \/ NotifyWaitlist(w) PROVE SaleInv'
  BY <1>4, OthersKeepSale, SeasonAssumption
<1>5. ASSUME NEW w \in Writers, Commit(w) PROVE SaleInv'
  <2>1. notice[w].at = "open" /\ Opens(w, Ended) /\ UNCHANGED pass
    BY <1>5 DEF Commit
  <2> QED  BY <1>5, <2>1, ConfirmedKeepsSale, RefundedKeepsSale, ToldKeepsSale DEF Commit
<1>6. ASSUME NEW w \in Writers, Rollback(w) PROVE SaleInv'
  BY <1>6, OthersKeepSale
<1>7. ASSUME NEW o \in Orders, NEW T \in SUBSET ActiveOf(o), CompleteRefund(o, T) PROVE SaleInv'
  BY <1>7, CompleteRefundKeepsSale
<1>8. CASE UNCHANGED season
  <2>1. UNCHANGED <<pass, order, payment, tickets, repasse, waitlist, notice>>
    BY <1>8 DEF season
  <2>2. SaleTables' /\ Notices' /\ Dated'
    BY <2>1 DEF SaleInv, SaleTables, Notices, Dated
  <2>3. Alone' /\ Issuing'
    BY <2>1 DEF SaleInv, Alone, Issuing
  <2>4. Issued' /\ OneIssueAtATime'
    BY <2>1 DEF SaleInv, Issued, Issuers, OneIssueAtATime, ActiveOf, Standing
  <2> QED  BY <2>2, <2>3, <2>4 DEF SaleInv
<1> QED  BY <1>1, <1>2, <1>3, <1>4, <1>5, <1>6, <1>7, <1>8 DEF SeasonNext, Webhook

LEMMA SaleInvariant == SeasonSpec => []SaleInv
BY SaleInitInv, SaleStepInv, PTL DEF SeasonSpec

\* However many notices and refunds an order has, and whatever they overlap with:
\* the valid tickets of a pass are one per date and of one notice, its order and
\* its payment stand exactly while there are some, and the producer is owed the
\* face once per issue.
THEOREM OneIssueOfAPassStands == SeasonSpec => []OneIssueAtATime
<1>1. SaleInv => OneIssueAtATime
  BY DEF SaleInv
<1> QED  BY <1>1, SaleInvariant, PTL

-----------------------------------------------------------------------------
(* The outbox: every step keeps QueueInv                                   *)

\* A row keeps its type whatever field is assigned.
LEMMA RowFields ==
    ASSUME NEW row \in Row
    PROVE  /\ \A x \in {"queued", "sent", "failed"} : [row EXCEPT !.status = x] \in Row
           /\ \A x \in 0..MaxAttempts : [row EXCEPT !.attempts = x] \in Row
           /\ \A x \in BOOLEAN : [row EXCEPT !.due = x] \in Row
           /\ \A x \in BOOLEAN : [row EXCEPT !.open = x] \in Row
BY Zenon DEF Row

\* A message that was just written.
LEMMA FreshRow ==
    ASSUME NEW open \in BOOLEAN
    PROVE  Sendable(Fresh(open)) /\ Fresh(open).open = open /\ Fresh(open).status = "queued"
<1>1. Fresh(open).open = open /\ Fresh(open).status = "queued" /\ Fresh(open).attempts = 0
  BY DEF Fresh
<1>2. 0 \in 0..MaxAttempts /\ 0 < MaxAttempts
  BY OutboxAssumption
<1>3. Fresh(open) \in Row
  BY Zenon, <1>2 DEF Fresh, Row
<1> QED  BY <1>1, <1>2, <1>3 DEF Sendable

LEMMA QueueInitInv == OutboxInit => QueueInv
<1> SUFFICES ASSUME OutboxInit PROVE QueueInv
  OBVIOUS
<1>1. DOMAIN notes = {} /\ DOMAIN inbox = {}
  BY NothingYet DEF OutboxInit
<1>2. Rows /\ Copies /\ OneWriter
  BY <1>1 DEF Rows, Copies, OneWriter
<1>3. Idle.todo = {} /\ DOMAIN Idle.done = {} /\ Idle = [todo |-> Idle.todo, done |-> Idle.done]
  BY NothingYet DEF Idle
<1>4. DOMAIN worker = Workers /\ \A k \in Workers : worker[k] = Idle
  BY DEF OutboxInit
<1>5. Bags
  BY <1>3, <1>4 DEF Bags, Bag
<1>6. Received
  BY <1>1, OutboxAssumption DEF Received, OutboxInit
<1> QED  BY <1>2, <1>5, <1>6 DEF QueueInv

\* A statement on the messages that leaves the status of each, and keeps those
\* that are not in an open transaction, disturbs no worker.
LEMMA NotesChange ==
    ASSUME QueueInv, Rows', OneWriter', UNCHANGED <<worker, inbox>>,
           faults' = [rows |-> faults'.rows, count |-> faults'.count],
           faults'.rows = faults.rows, faults'.count \in 0..MaxFaults, faults.count <= faults'.count,
           \A id \in DOMAIN notes : ~notes[id].open => id \in DOMAIN notes' /\ ~notes'[id].open,
           \A id \in DOMAIN notes \cap DOMAIN notes' : notes'[id].status = notes[id].status
    PROVE  QueueInv'
<1>1. Bags'
  <2>1. \A k \in Workers : \A id \in Bag(k) :
            id \in DOMAIN notes' /\ notes'[id].status = "queued" /\ ~notes'[id].open
    BY DEF QueueInv, Bags
  <2> QED  BY <2>1 DEF QueueInv, Bags, Bag
<1>2. Received'
  BY DEF QueueInv, Received
<1>3. Copies'
  <2> SUFFICES ASSUME NEW id \in DOMAIN notes'
               PROVE  Copied(id)' <= Forgotten(id)' + (IF Remembered(id)' THEN 1 ELSE 0)
    BY DEF Copies
  <2>1. Copied(id)' = Copied(id) /\ Forgotten(id) <= Forgotten(id)' /\ Forgotten(id)' \in Nat /\ Forgotten(id) \in Nat
    BY OutboxAssumption DEF QueueInv, Received, Copied, Forgotten
  <2>2. CASE id \in DOMAIN notes
    <3>1. Remembered(id)' <=> Remembered(id)
      BY <2>2 DEF Remembered
    <3>2. Copied(id) <= Forgotten(id) + (IF Remembered(id) THEN 1 ELSE 0) /\ Copied(id) \in Nat
      BY <2>2 DEF QueueInv, Copies, Received, Copied
    <3> QED  BY <2>1, <3>1, <3>2
  <2>3. CASE id \notin DOMAIN notes
    <3>1. Copied(id) = 0
      BY <2>3 DEF QueueInv, Received, Copied
    <3> QED  BY <2>1, <3>1
  <2> QED  BY <2>2, <2>3
<1> QED  BY <1>1, <1>2, <1>3 DEF QueueInv

\* A transaction that has written nothing writes its messages.
LEMMA SendKeepsQueue ==
    ASSUME QueueInv, NEW w \in Writers, NEW S, Send(w, S), Written(w) = {}, UNCHANGED <<worker, inbox, faults>>
    PROVE  QueueInv'
<1> DEFINE N == {<<s, w>> : s \in {s \in S : ~KeyTaken(s)}}
<1>1. notes' = Over([id \in N |-> Fresh(TRUE)], notes)
  BY DEF Send
<1>2. \A id \in N : id = <<id[1], id[2]>> /\ id[2] = w /\ id \notin DOMAIN notes
  BY DEF Written
<1>3. \A s, v : <<s, v>> \in N => v = w /\ ~KeyTaken(s)
  OBVIOUS
<1> HIDE DEF N
<1>4. /\ DOMAIN notes' = N \cup DOMAIN notes
      /\ \A id \in N : notes'[id] = Fresh(TRUE)
      /\ \A id \in DOMAIN notes : notes'[id] = notes[id]
  BY <1>1, <1>2 DEF Over
<1>5. Rows'
  BY <1>2, <1>4, FreshRow DEF QueueInv, Rows
<1>6. OneWriter'
  <2> SUFFICES ASSUME NEW s \in Keyed, NEW u \in Writers, NEW v \in Writers,
                      <<s, u>> \in DOMAIN notes', <<s, v>> \in DOMAIN notes'
               PROVE  u = v
    BY DEF OneWriter
  <2>1. <<s, u>> \in N => \A x \in Writers : <<s, x>> \notin DOMAIN notes
    BY <1>3 DEF KeyTaken
  <2>2. <<s, v>> \in N => \A x \in Writers : <<s, x>> \notin DOMAIN notes
    BY <1>3 DEF KeyTaken
  <2> QED  BY <1>3, <1>4, <2>1, <2>2 DEF QueueInv, OneWriter
<1> QED  BY <1>4, <1>5, <1>6, NotesChange DEF QueueInv, Received

\* A transaction commits what it wrote.
LEMMA KeptRows ==
    ASSUME Rows, NEW w, Kept(w)
    PROVE  /\ DOMAIN notes' = DOMAIN notes
           /\ \A id \in Written(w) : ~notes'[id].open
           /\ \A id \in DOMAIN notes \ Written(w) : notes'[id] = notes[id]
           /\ \A id \in DOMAIN notes : notes'[id].status = notes[id].status /\ Sendable(notes'[id])
<1>1. /\ DOMAIN notes' = DOMAIN notes
      /\ \A id \in Written(w) : notes'[id] = [notes[id] EXCEPT !.open = FALSE]
      /\ \A id \in DOMAIN notes \ Written(w) : notes'[id] = notes[id]
  BY DEF Kept, Over, Written
<1>2. \A id \in DOMAIN notes : notes[id] \in Row /\ Sendable(notes[id])
  BY DEF Rows, Sendable
<1>3. ASSUME NEW row \in Row, Sendable(row)
      PROVE  /\ [row EXCEPT !.open = FALSE] \in Row
             /\ [row EXCEPT !.open = FALSE].open = FALSE
             /\ [row EXCEPT !.open = FALSE].status = row.status
             /\ Sendable([row EXCEPT !.open = FALSE])
  <2> DEFINE shut == [row EXCEPT !.open = FALSE]
  <2>1. shut \in Row
    BY RowFields
  <2>2. shut.open = FALSE /\ shut.status = row.status /\ shut.attempts = row.attempts
    BY DEF Row
  <2> QED  BY <1>3, <2>1, <2>2 DEF Sendable
<1>4. \A id \in Written(w) : id \in DOMAIN notes
  BY DEF Written
<1>5. \A id \in Written(w) :
          ~notes'[id].open /\ notes'[id].status = notes[id].status /\ Sendable(notes'[id])
  <2> SUFFICES ASSUME NEW id \in Written(w)
               PROVE  ~notes'[id].open /\ notes'[id].status = notes[id].status /\ Sendable(notes'[id])
    OBVIOUS
  <2>1. notes[id] \in Row /\ Sendable(notes[id]) /\ notes'[id] = [notes[id] EXCEPT !.open = FALSE]
    BY <1>1, <1>2, <1>4
  <2> QED  BY <1>3, <2>1
<1> QED  BY <1>1, <1>2, <1>4, <1>5

LEMMA KeptKeepsQueue ==
    ASSUME QueueInv, NEW w, Kept(w), UNCHANGED <<worker, inbox, faults>>
    PROVE  QueueInv'
<1>1. /\ DOMAIN notes' = DOMAIN notes
      /\ \A id \in Written(w) : ~notes'[id].open
      /\ \A id \in DOMAIN notes \ Written(w) : notes'[id] = notes[id]
      /\ \A id \in DOMAIN notes : notes'[id].status = notes[id].status /\ Sendable(notes'[id])
  BY KeptRows DEF QueueInv
<1>2. Rows'
  BY <1>1 DEF QueueInv, Rows
<1>3. OneWriter'
  BY <1>1 DEF QueueInv, OneWriter
<1> QED  BY <1>1, <1>2, <1>3, NotesChange DEF QueueInv, Received

\* A transaction is undone, and its messages with it.
LEMMA UndoneRows ==
    ASSUME NEW w, Undone(w)
    PROVE  /\ DOMAIN notes' = DOMAIN notes \ {id \in Written(w) : notes[id].open}
           /\ \A id \in DOMAIN notes' : notes'[id] = notes[id]
BY DEF Undone

LEMMA UndoneKeepsQueue ==
    ASSUME QueueInv, NEW w, Undone(w), UNCHANGED <<worker, inbox, faults>>
    PROVE  QueueInv'
<1>1. /\ DOMAIN notes' = DOMAIN notes \ {id \in Written(w) : notes[id].open}
      /\ \A id \in DOMAIN notes' : notes'[id] = notes[id]
  BY UndoneRows
<1>2. Rows' /\ OneWriter'
  BY <1>1 DEF QueueInv, Rows, OneWriter
<1> QED  BY <1>1, <1>2, NotesChange DEF QueueInv, Received

\* A row falls due again.
LEMMA FallDueRows ==
    ASSUME Rows, NEW id \in DOMAIN notes, FallDue(id)
    PROVE  /\ DOMAIN notes' = DOMAIN notes
           /\ \A i \in DOMAIN notes : /\ notes'[i].status = notes[i].status /\ Sendable(notes'[i])
                                     /\ notes'[i].open = notes[i].open
<1>1. /\ DOMAIN notes' = DOMAIN notes
      /\ notes'[id] = [notes[id] EXCEPT !.due = TRUE]
      /\ \A i \in DOMAIN notes \ {id} : notes'[i] = notes[i]
  BY DEF FallDue
<1>2. \A i \in DOMAIN notes : notes[i] \in Row /\ Sendable(notes[i])
  BY DEF Rows, Sendable
<1>3. ASSUME NEW row \in Row, Sendable(row)
      PROVE  /\ [row EXCEPT !.due = TRUE].open = row.open
             /\ [row EXCEPT !.due = TRUE].status = row.status
             /\ Sendable([row EXCEPT !.due = TRUE])
  <2> DEFINE again == [row EXCEPT !.due = TRUE]
  <2>1. again \in Row
    BY RowFields
  <2>2. again.open = row.open /\ again.status = row.status /\ again.attempts = row.attempts
    BY DEF Row
  <2> QED  BY <1>3, <2>1, <2>2 DEF Sendable
<1> QED  BY <1>1, <1>2, <1>3

LEMMA FallDueKeepsQueue ==
    ASSUME QueueInv, NEW id \in DOMAIN notes, FallDue(id)
    PROVE  QueueInv'
<1>1. /\ DOMAIN notes' = DOMAIN notes
      /\ \A i \in DOMAIN notes : /\ notes'[i].status = notes[i].status /\ Sendable(notes'[i])
                                /\ notes'[i].open = notes[i].open
  BY FallDueRows DEF QueueInv
<1>2. Rows' /\ OneWriter'
  BY <1>1 DEF QueueInv, Rows, OneWriter
<1>3. UNCHANGED <<worker, inbox, faults>>
  BY DEF FallDue
<1> QED  BY <1>1, <1>2, <1>3, NotesChange DEF QueueInv, Received

\* The panel writes a message of its own.
LEMMA ResendRows ==
    ASSUME NEW id, Resend(id)
    PROVE  /\ <<id[1], Panel>> \notin DOMAIN notes
           /\ DOMAIN notes' = {<<id[1], Panel>>} \cup DOMAIN notes
           /\ notes'[<<id[1], Panel>>] = Fresh(FALSE)
           /\ \A i \in DOMAIN notes : notes'[i] = notes[i]
BY DEF Resend, Over, OneRow

LEMMA ResendKeepsQueue ==
    ASSUME QueueInv, NEW id \in DOMAIN notes, Resend(id)
    PROVE  QueueInv'
<1>1. /\ <<id[1], Panel>> \notin DOMAIN notes
      /\ DOMAIN notes' = {<<id[1], Panel>>} \cup DOMAIN notes
      /\ notes'[<<id[1], Panel>>] = Fresh(FALSE)
      /\ \A i \in DOMAIN notes : notes'[i] = notes[i]
  BY ResendRows
<1>2. Rows'
  <2> DEFINE new == <<id[1], Panel>>
  <2>1. new = <<new[1], new[2]>> /\ new[2] = Panel
    OBVIOUS
  <2>2. Sendable(notes'[new])
    BY <1>1, FreshRow
  <2>3. DOMAIN notes' = {new} \cup DOMAIN notes
    BY <1>1
  <2> HIDE DEF new
  <2> QED  BY <1>1, <2>1, <2>2, <2>3 DEF QueueInv, Rows
<1>3. OneWriter'
  BY <1>1, OutboxAssumption DEF QueueInv, OneWriter
<1>4. /\ UNCHANGED <<worker, inbox>> /\ faults' = [rows |-> faults.rows, count |-> faults.count + 1]
      /\ faults.count < MaxFaults /\ faults.count \in 0..MaxFaults
  BY DEF Resend, Fault, QueueInv, Received
<1>5. faults'.rows = faults.rows /\ faults'.count \in 0..MaxFaults /\ faults.count <= faults'.count
      /\ faults' = [rows |-> faults'.rows, count |-> faults'.count]
  BY <1>4, OutboxAssumption
<1> QED  BY <1>1, <1>2, <1>3, <1>4, <1>5, NotesChange

\* A worker locks rows that are due and that nobody has.
LEMMA FetchKeepsQueue ==
    ASSUME QueueInv, NEW k \in Workers, Fetch(k)
    PROVE  QueueInv'
<1>1. PICK S \in kSubset(Min({Batch, Cardinality(Ready)}), Ready) : worker' = [worker EXCEPT ![k].todo = S]
  BY DEF Fetch
<1>2. S \subseteq Ready
  BY <1>1 DEF kSubset
<1>3. worker[k] = Idle /\ UNCHANGED <<notes, inbox, faults>>
  BY DEF Fetch, Busy
<1>4. /\ \A id \in S : id \in DOMAIN notes /\ notes[id].status = "queued" /\ ~notes[id].open
      /\ \A v \in Workers : S \cap Bag(v) = {}
  BY <1>2 DEF Ready, Locked, Bag
<1>5. /\ DOMAIN worker' = Workers
      /\ worker'[k] = [todo |-> worker'[k].todo, done |-> worker'[k].done]
      /\ worker'[k].todo = S /\ worker'[k].done = worker[k].done
      /\ \A v \in Workers \ {k} : worker'[v] = worker[v]
  BY <1>1 DEF QueueInv, Bags
<1>6. DOMAIN worker[k].done = {}
  BY <1>3, NothingYet DEF Idle
<1>7. Bag(k)' = S /\ \A v \in Workers \ {k} : Bag(v)' = Bag(v)
  BY <1>5, <1>6 DEF Bag
<1>8. Rows' /\ OneWriter' /\ Received'
  BY <1>3 DEF QueueInv, Rows, OneWriter, Received
<1>9. Bags'
  BY <1>3, <1>4, <1>5, <1>6, <1>7 DEF QueueInv, Bags
<1>10. Copies'
  <2>1. \A v \in Workers : worker'[v].done = worker[v].done
    BY <1>5
  <2> QED  BY <1>3, <2>1 DEF QueueInv, Copies, Copied, Forgotten, Remembered
<1> QED  BY <1>8, <1>9, <1>10 DEF QueueInv

\* The row a worker will write of a message it tried.
LEMMA BecomesRows ==
    ASSUME QueueInv, NEW k \in Workers, NEW id \in worker[k].todo, NEW status \in {"queued", "sent", "failed"},
           Becomes(k, id, status), status = "queued" => notes[id].attempts + 1 < MaxAttempts
    PROVE  /\ DOMAIN worker' = Workers
           /\ worker'[k] = [todo |-> worker'[k].todo, done |-> worker'[k].done]
           /\ worker'[k].todo = worker[k].todo \ {id}
           /\ DOMAIN worker'[k].done = {id} \cup DOMAIN worker[k].done
           /\ \A i \in DOMAIN worker[k].done : i # id /\ worker'[k].done[i] = worker[k].done[i]
           /\ worker'[k].done[id].status = status /\ Sendable(worker'[k].done[id]) /\ ~worker'[k].done[id].open
           /\ \A v \in Workers \ {k} : worker'[v] = worker[v]
           /\ id \in DOMAIN notes /\ ~Remembered(id)
<1> DEFINE tries == notes[id].attempts + 1
           row == [notes[id] EXCEPT !.status = status, !.attempts = tries, !.due = FALSE]
           next == [todo |-> worker[k].todo \ {id}, done |-> Over(OneRow(id, row), worker[k].done)]
<1>1. /\ id \in DOMAIN notes /\ notes[id].status = "queued" /\ ~notes[id].open /\ id \in Bag(k)
      /\ id \notin DOMAIN worker[k].done
  BY DEF QueueInv, Bags, Bag
<1>2. notes[id] \in Row /\ notes[id].attempts < MaxAttempts
  BY <1>1 DEF QueueInv, Rows, Sendable
<1>3. row \in Row /\ row.status = status /\ row.attempts = tries /\ row.open = notes[id].open
  <2> DEFINE one == [notes[id] EXCEPT !.status = status]
             two == [one EXCEPT !.attempts = tries]
  <2>1. tries \in 0..MaxAttempts
    BY <1>2, OutboxAssumption DEF Row
  <2>2. one \in Row /\ one.status = status /\ one.attempts = notes[id].attempts /\ one.open = notes[id].open
    BY <1>2, RowFields DEF Row
  <2>3. row = [two EXCEPT !.due = FALSE]
    OBVIOUS
  <2> HIDE DEF one, tries
  <2>4. two \in Row /\ two.status = status /\ two.attempts = tries /\ two.open = notes[id].open
    BY <2>1, <2>2, RowFields DEF Row
  <2> HIDE DEF two, row
  <2> QED  BY <2>3, <2>4, RowFields DEF Row
<1>4. Sendable(row)
  BY <1>3 DEF Sendable
<1>5. worker' = [worker EXCEPT ![k] = next]
  BY DEF Becomes
<1> HIDE DEF row, tries
<1>6. DOMAIN worker' = Workers /\ worker'[k] = next /\ \A v \in Workers \ {k} : worker'[v] = worker[v]
  BY <1>5 DEF QueueInv, Bags
<1>7. /\ DOMAIN Over(OneRow(id, row), worker[k].done) = {id} \cup DOMAIN worker[k].done
      /\ Over(OneRow(id, row), worker[k].done)[id] = row
      /\ \A i \in DOMAIN worker[k].done : i # id /\ Over(OneRow(id, row), worker[k].done)[i] = worker[k].done[i]
  BY <1>1 DEF Over, OneRow
<1>8. ~Remembered(id)
  <2>1. \A v \in Workers : id \notin DOMAIN worker[v].done
    <3>1. \A v \in Workers \ {k} : id \notin Bag(v)
      BY <1>1 DEF QueueInv, Bags
    <3> QED  BY <1>1, <3>1 DEF Bag
  <2> QED  BY <1>1, <2>1 DEF Remembered
<1> QED  BY <1>1, <1>3, <1>4, <1>6, <1>7, <1>8

\* A worker has tried a message: whatever the service and the network did, the
\* copies are counted.
LEMMA TryingKeepsQueue ==
    ASSUME QueueInv, NEW k \in Workers, NEW id \in worker[k].todo, NEW status \in {"queued", "sent", "failed"},
           Becomes(k, id, status), status = "queued" => notes[id].attempts + 1 < MaxAttempts,
           UNCHANGED notes, Received',
           \A i \in DOMAIN notes \ {id} : Copied(i)' = Copied(i) /\ Forgotten(i) <= Forgotten(i)',
           Copied(id)' <= Forgotten(id)' + (IF status = "sent" THEN 1 ELSE 0)
    PROVE  QueueInv'
<1>1. /\ DOMAIN worker' = Workers
      /\ worker'[k] = [todo |-> worker'[k].todo, done |-> worker'[k].done]
      /\ worker'[k].todo = worker[k].todo \ {id}
      /\ DOMAIN worker'[k].done = {id} \cup DOMAIN worker[k].done
      /\ \A i \in DOMAIN worker[k].done : i # id /\ worker'[k].done[i] = worker[k].done[i]
      /\ worker'[k].done[id].status = status /\ Sendable(worker'[k].done[id]) /\ ~worker'[k].done[id].open
      /\ \A v \in Workers \ {k} : worker'[v] = worker[v]
      /\ id \in DOMAIN notes /\ ~Remembered(id)
  BY BecomesRows
<1>2. \A v \in Workers : Bag(v)' = Bag(v)
  BY <1>1 DEF Bag
<1>3. Rows' /\ OneWriter'
  BY DEF QueueInv, Rows, OneWriter
<1>4. Bags'
  <2>1. \A v \in Workers : worker'[v].todo \cap DOMAIN worker'[v].done = {}
    BY <1>1 DEF QueueInv, Bags
  <2>2. \A v \in Workers : \A i \in DOMAIN worker'[v].done :
            Sendable(worker'[v].done[i]) /\ ~worker'[v].done[i].open
    <3> SUFFICES ASSUME NEW v \in Workers, NEW i \in DOMAIN worker'[v].done
                 PROVE  Sendable(worker'[v].done[i]) /\ ~worker'[v].done[i].open
      OBVIOUS
    <3>1. CASE v = k /\ i = id
      BY <1>1, <3>1
    <3>2. CASE v = k /\ i # id
      <4>1. i \in DOMAIN worker[k].done /\ worker'[k].done[i] = worker[k].done[i]
        BY <1>1, <3>2
      <4> QED  BY <3>2, <4>1 DEF QueueInv, Bags
    <3>3. CASE v # k
      <4>1. worker'[v] = worker[v]
        BY <1>1, <3>3
      <4> QED  BY <4>1 DEF QueueInv, Bags
    <3> QED  BY <3>1, <3>2, <3>3
  <2>3. \A v \in Workers : worker'[v] = [todo |-> worker'[v].todo, done |-> worker'[v].done]
    <3>1. \A v \in Workers \ {k} : worker'[v] = [todo |-> worker'[v].todo, done |-> worker'[v].done]
      BY <1>1 DEF QueueInv, Bags
    <3> QED  BY <1>1, <3>1
  <2> QED  BY <1>1, <1>2, <2>1, <2>2, <2>3 DEF QueueInv, Bags
<1>5. Copies'
  <2> SUFFICES ASSUME NEW i \in DOMAIN notes
               PROVE  Copied(i)' <= Forgotten(i)' + (IF Remembered(i)' THEN 1 ELSE 0)
    BY DEF Copies
  <2>1. CASE i = id
    <3>1. status = "sent" => Remembered(id)'
      BY <1>1 DEF Remembered
    <3>2. Forgotten(id)' \in Nat /\ Copied(id)' \in Nat
      BY OutboxAssumption DEF Received, Forgotten, Copied
    <3> QED  BY <2>1, <3>1, <3>2
  <2>2. CASE i # id
    <3>1. Remembered(i) => Remembered(i)'
      <4>1. CASE notes[i].status = "sent"
        BY <4>1 DEF Remembered
      <4>2. ASSUME NEW v \in Workers, i \in DOMAIN worker[v].done, worker[v].done[i].status = "sent"
            PROVE  Remembered(i)'
        <5>1. i \in DOMAIN worker'[v].done /\ worker'[v].done[i] = worker[v].done[i]
          BY <1>1, <4>2
        <5> QED  BY <4>2, <5>1 DEF Remembered
      <4> QED  BY <4>1, <4>2 DEF Remembered
    <3>2. Copied(i) <= Forgotten(i) + (IF Remembered(i) THEN 1 ELSE 0)
      BY DEF QueueInv, Copies
    <3>3. Copied(i)' = Copied(i) /\ Forgotten(i) <= Forgotten(i)'
      BY <2>2
    <3>4. Forgotten(i)' \in Nat /\ Forgotten(i) \in Nat /\ Copied(i) \in Nat
      BY OutboxAssumption DEF QueueInv, Received, Forgotten, Copied
    <3> QED  BY <3>1, <3>2, <3>3, <3>4
  <2> QED  BY <2>1, <2>2
<1> QED  BY <1>3, <1>4, <1>5 DEF QueueInv

\* A row that is locked and not yet tried has no copy anybody remembers.
LEMMA TodoCopies ==
    ASSUME QueueInv, NEW k \in Workers, NEW id \in worker[k].todo
    PROVE  /\ id \in DOMAIN notes /\ ~notes[id].open
           /\ Copied(id) <= Forgotten(id)
           /\ Copied(id) \in Nat /\ Forgotten(id) \in Nat
<1>1. /\ id \in DOMAIN notes /\ notes[id].status = "queued" /\ ~notes[id].open /\ id \in Bag(k)
      /\ id \notin DOMAIN worker[k].done
  BY DEF QueueInv, Bags, Bag
<1>2. \A v \in Workers : id \notin DOMAIN worker[v].done
  <2>1. \A v \in Workers \ {k} : id \notin Bag(v)
    BY <1>1 DEF QueueInv, Bags
  <2> QED  BY <1>1, <2>1 DEF Bag
<1>3. ~Remembered(id)
  BY <1>1, <1>2 DEF Remembered
<1>4. Copied(id) \in Nat /\ Forgotten(id) \in Nat
  BY OutboxAssumption DEF QueueInv, Received, Forgotten, Copied
<1>5. Copied(id) <= Forgotten(id) + (IF Remembered(id) THEN 1 ELSE 0)
  BY <1>1 DEF QueueInv, Copies
<1> QED  BY <1>1, <1>3, <1>4, <1>5

\* The service takes a copy.
LEMMA AcceptsCopy ==
    ASSUME QueueInv, NEW id \in DOMAIN notes, ~notes[id].open, Accepts(id), UNCHANGED notes
    PROVE  /\ Copied(id)' = Copied(id) + 1
           /\ \A i \in DOMAIN notes \ {id} : Copied(i)' = Copied(i)
           /\ \A i \in DOMAIN inbox' : i \in DOMAIN notes' /\ ~notes'[i].open /\ inbox'[i] \in Nat
<1> DEFINE n == IF id \in DOMAIN inbox THEN inbox[id] + 1 ELSE 1
<1>1. inbox' = Over(OneRow(id, n), inbox)
  BY DEF Accepts
<1>2. n = Copied(id) + 1 /\ n \in Nat
  BY DEF Copied, QueueInv, Received
<1> HIDE DEF n
<1>3. DOMAIN inbox' = {id} \cup DOMAIN inbox /\ inbox'[id] = n /\ \A i \in DOMAIN inbox \ {id} : inbox'[i] = inbox[i]
  BY <1>1 DEF Over, OneRow
<1> QED  BY <1>2, <1>3 DEF Copied, QueueInv, Received

LEMMA DeliverKeepsQueue ==
    ASSUME QueueInv, NEW k \in Workers, NEW id \in worker[k].todo, Deliver(k, id)
    PROVE  QueueInv'
<1>1. Accepts(id) /\ Becomes(k, id, "sent") /\ UNCHANGED <<notes, faults>>
  BY DEF Deliver
<1>2. /\ id \in DOMAIN notes /\ ~notes[id].open /\ Copied(id) <= Forgotten(id)
      /\ Copied(id) \in Nat /\ Forgotten(id) \in Nat
  BY TodoCopies
<1>3. /\ Copied(id)' = Copied(id) + 1
      /\ \A i \in DOMAIN notes \ {id} : Copied(i)' = Copied(i)
      /\ \A i \in DOMAIN inbox' : i \in DOMAIN notes' /\ ~notes'[i].open /\ inbox'[i] \in Nat
  BY <1>1, <1>2, AcceptsCopy
<1>4. Received'
  BY <1>1, <1>3 DEF QueueInv, Received
<1>5. \A i \in DOMAIN notes : Forgotten(i)' = Forgotten(i) /\ Forgotten(i) \in Nat
  BY <1>1, OutboxAssumption DEF QueueInv, Received, Forgotten
<1> QED  BY <1>1, <1>2, <1>3, <1>4, <1>5, TryingKeepsQueue

LEMMA RefuseKeepsQueue ==
    ASSUME QueueInv, NEW k \in Workers, NEW id \in worker[k].todo, NEW retryable \in BOOLEAN,
           Refuse(k, id, retryable)
    PROVE  QueueInv'
<1> DEFINE status == IF retryable THEN Again(id) ELSE "failed"
<1>1. Becomes(k, id, status) /\ UNCHANGED <<notes, inbox, faults>>
  BY DEF Refuse
<1>2. /\ id \in DOMAIN notes /\ ~notes[id].open /\ Copied(id) <= Forgotten(id)
      /\ Copied(id) \in Nat /\ Forgotten(id) \in Nat
  BY TodoCopies
<1>3. status \in {"queued", "failed"} /\ (status = "queued" => notes[id].attempts + 1 < MaxAttempts)
  BY DEF Again
<1> HIDE DEF status
<1>4. Received'
  BY <1>1 DEF QueueInv, Received
<1>5. \A i \in DOMAIN notes : /\ Forgotten(i)' = Forgotten(i) /\ Forgotten(i) \in Nat
                            /\ Copied(i)' = Copied(i)
  BY <1>1, OutboxAssumption DEF QueueInv, Received, Forgotten, Copied
<1> QED  BY <1>1, <1>2, <1>3, <1>4, <1>5, TryingKeepsQueue

\* A fault is counted, and the copies of its rows are forgotten.
LEMMA FaultForgets ==
    ASSUME QueueInv, NEW S, Fault(S)
    PROVE  /\ faults' = [rows |-> faults'.rows, count |-> faults'.count] /\ faults'.count \in 0..MaxFaults
           /\ \A i : /\ Forgotten(i) <= Forgotten(i)' /\ Forgotten(i) \in Nat /\ Forgotten(i)' \in Nat
                     /\ i \in S => Forgotten(i) + 1 <= Forgotten(i)'
<1>1. /\ faults' = [rows |-> faults.rows \cup S, count |-> faults.count + 1]
      /\ faults.count < MaxFaults /\ faults.count \in 0..MaxFaults
  BY DEF Fault, QueueInv, Received
<1>2. /\ faults'.rows = faults.rows \cup S /\ faults'.count = faults.count + 1
      /\ faults' = [rows |-> faults'.rows, count |-> faults'.count]
  BY <1>1
<1> QED  BY <1>1, <1>2, OutboxAssumption DEF Forgotten

LEMMA LoseAnswerKeepsQueue ==
    ASSUME QueueInv, NEW k \in Workers, NEW id \in worker[k].todo, LoseAnswer(k, id)
    PROVE  QueueInv'
<1>1. Fault({id}) /\ Accepts(id) /\ Becomes(k, id, Again(id)) /\ UNCHANGED notes
  BY DEF LoseAnswer
<1>2. /\ id \in DOMAIN notes /\ ~notes[id].open /\ Copied(id) <= Forgotten(id)
      /\ Copied(id) \in Nat /\ Forgotten(id) \in Nat
  BY TodoCopies
<1>3. /\ Copied(id)' = Copied(id) + 1
      /\ \A i \in DOMAIN notes \ {id} : Copied(i)' = Copied(i)
      /\ \A i \in DOMAIN inbox' : i \in DOMAIN notes' /\ ~notes'[i].open /\ inbox'[i] \in Nat
  BY <1>1, <1>2, AcceptsCopy
<1>4. /\ faults' = [rows |-> faults'.rows, count |-> faults'.count] /\ faults'.count \in 0..MaxFaults
      /\ \A i : /\ Forgotten(i) <= Forgotten(i)' /\ Forgotten(i) \in Nat /\ Forgotten(i)' \in Nat
                /\ i \in {id} => Forgotten(i) + 1 <= Forgotten(i)'
  BY <1>1, FaultForgets
<1>5. Received'
  BY <1>3, <1>4 DEF Received
<1>6. Again(id) \in {"queued", "failed"} /\ (Again(id) = "queued" => notes[id].attempts + 1 < MaxAttempts)
  BY DEF Again
<1>7. Copied(id)' <= Forgotten(id)' + (IF Again(id) = "sent" THEN 1 ELSE 0)
  BY <1>2, <1>3, <1>4, <1>6
<1> QED  BY <1>1, <1>3, <1>4, <1>5, <1>6, <1>7, TryingKeepsQueue

\* A worker has nothing any more.
LEMMA Emptied ==
    ASSUME QueueInv, NEW k \in Workers, worker' = [worker EXCEPT ![k] = Idle]
    PROVE  /\ DOMAIN worker' = Workers /\ Bag(k)' = {} /\ worker'[k].todo = {} /\ DOMAIN worker'[k].done = {}
           /\ worker'[k] = [todo |-> worker'[k].todo, done |-> worker'[k].done]
           /\ \A v \in Workers \ {k} : worker'[v] = worker[v] /\ Bag(v)' = Bag(v)
<1>1. Idle.todo = {} /\ DOMAIN Idle.done = {} /\ Idle = [todo |-> Idle.todo, done |-> Idle.done]
  BY NothingYet DEF Idle
<1>2. DOMAIN worker' = Workers /\ worker'[k] = Idle /\ \A v \in Workers \ {k} : worker'[v] = worker[v]
  BY DEF QueueInv, Bags
<1> QED  BY <1>1, <1>2 DEF Bag

\* The rows a worker commits.
LEMMA CommittedRows ==
    ASSUME QueueInv, NEW k \in Workers, notes' = Over(worker[k].done, notes)
    PROVE  /\ DOMAIN notes' = DOMAIN notes /\ DOMAIN worker[k].done \subseteq DOMAIN notes
           /\ \A id \in DOMAIN worker[k].done : notes'[id] = worker[k].done[id] /\ ~notes'[id].open
                                               /\ ~notes[id].open /\ Sendable(notes'[id])
           /\ \A id \in DOMAIN notes \ DOMAIN worker[k].done : notes'[id] = notes[id]
<1>1. \A id \in DOMAIN worker[k].done : id \in DOMAIN notes /\ ~notes[id].open
  BY DEF QueueInv, Bags, Bag
<1>2. \A id \in DOMAIN worker[k].done : Sendable(worker[k].done[id]) /\ ~worker[k].done[id].open
  BY DEF QueueInv, Bags
<1> QED  BY <1>1, <1>2 DEF Over

LEMMA CommitBatchKeepsQueue ==
    ASSUME QueueInv, NEW k \in Workers, CommitBatch(k)
    PROVE  QueueInv'
<1>1. /\ notes' = Over(worker[k].done, notes) /\ worker' = [worker EXCEPT ![k] = Idle]
      /\ UNCHANGED <<inbox, faults>>
  BY DEF CommitBatch
<1>2. /\ DOMAIN worker' = Workers /\ Bag(k)' = {} /\ worker'[k].todo = {} /\ DOMAIN worker'[k].done = {}
      /\ worker'[k] = [todo |-> worker'[k].todo, done |-> worker'[k].done]
      /\ \A v \in Workers \ {k} : worker'[v] = worker[v] /\ Bag(v)' = Bag(v)
  BY <1>1, Emptied
<1>3. /\ DOMAIN notes' = DOMAIN notes /\ DOMAIN worker[k].done \subseteq DOMAIN notes
      /\ \A id \in DOMAIN worker[k].done : notes'[id] = worker[k].done[id] /\ ~notes'[id].open
                                          /\ ~notes[id].open /\ Sendable(notes'[id])
      /\ \A id \in DOMAIN notes \ DOMAIN worker[k].done : notes'[id] = notes[id]
  BY <1>1, CommittedRows
<1>4. Rows' /\ OneWriter'
  BY <1>3 DEF QueueInv, Rows, OneWriter
<1>5. Bags'
  <2>1. \A v \in Workers \ {k} : \A id \in Bag(v) : id \in DOMAIN notes' /\ notes'[id] = notes[id]
    BY <1>3 DEF QueueInv, Bags, Bag
  <2>2. \A v \in Workers : worker'[v] = [todo |-> worker'[v].todo, done |-> worker'[v].done]
    BY <1>2 DEF QueueInv, Bags
  <2>3. \A v \in Workers : worker'[v].todo \cap DOMAIN worker'[v].done = {}
    BY <1>2 DEF QueueInv, Bags
  <2>4. \A v \in Workers : \A id \in Bag(v)' : id \in DOMAIN notes' /\ notes'[id].status = "queued" /\ ~notes'[id].open
    BY <1>2, <2>1 DEF QueueInv, Bags
  <2>5. \A v \in Workers : \A id \in DOMAIN worker'[v].done : Sendable(worker'[v].done[id]) /\ ~worker'[v].done[id].open
    BY <1>2 DEF QueueInv, Bags
  <2>6. \A u, v \in Workers : u # v => Bag(u)' \cap Bag(v)' = {}
    BY <1>2 DEF QueueInv, Bags
  <2> QED  BY <1>2, <2>2, <2>3, <2>4, <2>5, <2>6 DEF Bags
<1>6. Received'
  BY <1>1, <1>3 DEF QueueInv, Received
<1>7. Copies'
  <2> SUFFICES ASSUME NEW id \in DOMAIN notes
               PROVE  Copied(id)' <= Forgotten(id)' + (IF Remembered(id)' THEN 1 ELSE 0)
    BY <1>3 DEF Copies
  <2>1. Copied(id)' = Copied(id) /\ Forgotten(id)' = Forgotten(id)
    BY <1>1 DEF Copied, Forgotten
  <2>2. Remembered(id) => Remembered(id)'
    <3>1. CASE id \in DOMAIN worker[k].done
      <4>1. notes[id].status = "queued"
        BY <3>1 DEF QueueInv, Bags, Bag
      <4>2. \A v \in Workers \ {k} : id \notin DOMAIN worker[v].done
        BY <3>1 DEF QueueInv, Bags, Bag
      <4> QED  BY <1>3, <3>1, <4>1, <4>2 DEF Remembered
    <3>2. CASE id \notin DOMAIN worker[k].done
      <4>1. notes'[id] = notes[id]
        BY <1>3, <3>2
      <4>2. \A v \in Workers : id \in DOMAIN worker[v].done => worker'[v] = worker[v]
        BY <1>2, <3>2
      <4> QED  BY <4>1, <4>2 DEF Remembered
    <3> QED  BY <3>1, <3>2
  <2>3. Copied(id) <= Forgotten(id) + (IF Remembered(id) THEN 1 ELSE 0)
    BY DEF QueueInv, Copies
  <2>4. Copied(id) \in Nat /\ Forgotten(id) \in Nat
    BY OutboxAssumption DEF QueueInv, Received, Forgotten, Copied
  <2> QED  BY <2>1, <2>2, <2>3, <2>4
<1> QED  BY <1>4, <1>5, <1>6, <1>7 DEF QueueInv

LEMMA LoseBatchKeepsQueue ==
    ASSUME QueueInv, NEW k \in Workers, LoseBatch(k)
    PROVE  QueueInv'
<1> DEFINE S == {id \in DOMAIN worker[k].done : worker[k].done[id].status = "sent"}
<1>1. Fault(S) /\ worker' = [worker EXCEPT ![k] = Idle] /\ UNCHANGED <<notes, inbox>>
  BY DEF LoseBatch
<1>2. /\ DOMAIN worker' = Workers /\ Bag(k)' = {} /\ worker'[k].todo = {} /\ DOMAIN worker'[k].done = {}
      /\ worker'[k] = [todo |-> worker'[k].todo, done |-> worker'[k].done]
      /\ \A v \in Workers \ {k} : worker'[v] = worker[v] /\ Bag(v)' = Bag(v)
  BY <1>1, Emptied
<1>3. /\ faults' = [rows |-> faults'.rows, count |-> faults'.count] /\ faults'.count \in 0..MaxFaults
      /\ \A i : /\ Forgotten(i) <= Forgotten(i)' /\ Forgotten(i) \in Nat /\ Forgotten(i)' \in Nat
                /\ i \in S => Forgotten(i) + 1 <= Forgotten(i)'
  BY <1>1, FaultForgets
<1>4. Rows' /\ OneWriter'
  BY <1>1 DEF QueueInv, Rows, OneWriter
<1>5. Received'
  BY <1>1, <1>3 DEF QueueInv, Received
<1>6. Bags'
  <2>1. \A v \in Workers : worker'[v] = [todo |-> worker'[v].todo, done |-> worker'[v].done]
    BY <1>2 DEF QueueInv, Bags
  <2>2. \A v \in Workers : worker'[v].todo \cap DOMAIN worker'[v].done = {}
    BY <1>2 DEF QueueInv, Bags
  <2>3. \A v \in Workers : \A id \in Bag(v)' : id \in DOMAIN notes' /\ notes'[id].status = "queued" /\ ~notes'[id].open
    BY <1>1, <1>2 DEF QueueInv, Bags
  <2>4. \A v \in Workers : \A id \in DOMAIN worker'[v].done : Sendable(worker'[v].done[id]) /\ ~worker'[v].done[id].open
    BY <1>2 DEF QueueInv, Bags
  <2>5. \A u, v \in Workers : u # v => Bag(u)' \cap Bag(v)' = {}
    BY <1>2 DEF QueueInv, Bags
  <2> QED  BY <1>2, <2>1, <2>2, <2>3, <2>4, <2>5 DEF Bags
<1>7. Copies'
  <2> SUFFICES ASSUME NEW id \in DOMAIN notes
               PROVE  Copied(id)' <= Forgotten(id)' + (IF Remembered(id)' THEN 1 ELSE 0)
    BY <1>1 DEF Copies
  <2>1. Copied(id)' = Copied(id) /\ Copied(id) \in Nat
    BY <1>1 DEF Copied, QueueInv, Received
  <2>2. Copied(id) <= Forgotten(id) + (IF Remembered(id) THEN 1 ELSE 0)
    BY DEF QueueInv, Copies
  <2>3. CASE id \in S
    BY <1>3, <2>1, <2>2, <2>3
  <2>4. CASE id \notin S
    <3>1. Remembered(id) => Remembered(id)'
      BY <1>1, <1>2, <2>4 DEF Remembered
    <3> HIDE DEF S
    <3> QED  BY <1>3, <2>1, <2>2, <3>1
  <2> QED  BY <2>3, <2>4
<1> QED  BY <1>4, <1>5, <1>6, <1>7 DEF QueueInv

LEMMA OutboxStepKeepsQueue == ASSUME QueueInv, OutboxNext PROVE QueueInv'
<1>1. ASSUME NEW k \in Workers, Pass(k) PROVE QueueInv'
  <2>1. ASSUME NEW id \in worker[k].todo, \E retryable \in BOOLEAN : Refuse(k, id, retryable) PROVE QueueInv'
    BY <2>1, RefuseKeepsQueue
  <2> QED  BY <1>1, <2>1, FetchKeepsQueue, CommitBatchKeepsQueue, DeliverKeepsQueue DEF Pass
<1>2. ASSUME NEW k \in Workers, LoseBatch(k) PROVE QueueInv'
  BY <1>2, LoseBatchKeepsQueue
<1>3. ASSUME NEW k \in Workers, NEW id \in worker[k].todo, LoseAnswer(k, id) PROVE QueueInv'
  BY <1>3, LoseAnswerKeepsQueue
<1>4. ASSUME NEW id \in DOMAIN notes, FallDue(id) \/ Resend(id) PROVE QueueInv'
  BY <1>4, FallDueKeepsQueue, ResendKeepsQueue
<1> QED  BY <1>1, <1>2, <1>3, <1>4 DEF OutboxNext

-----------------------------------------------------------------------------
(* The mail of the sales: every step keeps MailInv                         *)

\* Subjects tell what they are about.
LEMMA Subjects ==
    /\ \A t, u : MailOf(t) = MailOf(u) => t.by = u.by
    /\ \A t, p : MailOf(t) # <<"vacancy", p>> /\ MailOf(t) # <<"refunded", p>>
    /\ \A o : <<"refunded", o>>[1] = "refunded"
BY DEF MailOf

\* A step that neither writes nor ends anything.
LEMMA MailStays ==
    ASSUME MailInv, Happened' = Happened, UNCHANGED notice, DOMAIN notes' = DOMAIN notes,
           \A id \in DOMAIN notes : notes'[id].open <=> notes[id].open
    PROVE  MailInv'
<1>1. \A w : Says(w)' = Says(w) /\ Written(w)' = Written(w)
  BY DEF Says, Written
<1>2. Unwritten'
  BY <1>1 DEF MailInv, Unwritten
<1>3. OpenMail'
  BY <1>1 DEF MailInv, OpenMail
<1>4. Prepared'
  BY <1>1 DEF MailInv, Prepared
<1>5. OwnMail' /\ Committed' /\ Announced'
  BY DEF MailInv, OwnMail, Committed, Announced
<1> QED  BY <1>2, <1>3, <1>4, <1>5 DEF MailInv

LEMMA MailInitInv == OutboxInit /\ SeasonInit => MailInv
<1> SUFFICES ASSUME OutboxInit, SeasonInit PROVE MailInv
  OBVIOUS
<1>1. DOMAIN notes = {}
  BY NothingYet DEF OutboxInit
<1>2. Happened = {}
  BY DEF Happened, SeasonInit
<1>3. \A w \in Writers : notice[w].at # "open"
  BY NoticeFields DEF SeasonInit
<1>4. Prepared
  BY <1>3, SeasonAssumption DEF Prepared
<1>5. Unwritten /\ OpenMail /\ OwnMail /\ Committed /\ Announced
  BY <1>1, <1>2 DEF Unwritten, Written, OpenMail, OwnMail, Committed, Announced
<1> QED  BY <1>4, <1>5 DEF MailInv

\* What the outbox does to the mail: nothing, but for a copy the panel asks for.
LEMMA OutboxKeepsMail ==
    ASSUME QueueInv, MailInv, OutboxNext, UNCHANGED season
    PROVE  MailInv'
<1>1. UNCHANGED notice /\ Happened' = Happened
  BY DEF season, Happened
<1>2. CASE UNCHANGED notes
  BY <1>1, <1>2, MailStays
<1>3. ASSUME NEW k \in Workers, CommitBatch(k) PROVE MailInv'
  <2>1. notes' = Over(worker[k].done, notes)
    BY <1>3 DEF CommitBatch
  <2>2. /\ DOMAIN notes' = DOMAIN notes /\ DOMAIN worker[k].done \subseteq DOMAIN notes
        /\ \A id \in DOMAIN worker[k].done : notes'[id] = worker[k].done[id] /\ ~notes'[id].open
                                            /\ ~notes[id].open /\ Sendable(notes'[id])
        /\ \A id \in DOMAIN notes \ DOMAIN worker[k].done : notes'[id] = notes[id]
    BY <2>1, CommittedRows
  <2> QED  BY <1>1, <2>2, MailStays
<1>4. ASSUME NEW id \in DOMAIN notes, FallDue(id) PROVE MailInv'
  <2>1. /\ DOMAIN notes' = DOMAIN notes
        /\ \A i \in DOMAIN notes : /\ notes'[i].status = notes[i].status /\ Sendable(notes'[i])
                                  /\ notes'[i].open = notes[i].open
    BY <1>4, FallDueRows DEF QueueInv
  <2> QED  BY <1>1, <2>1, MailStays
<1>5. ASSUME NEW id \in DOMAIN notes, Resend(id) PROVE MailInv'
  <2> DEFINE new == <<id[1], Panel>>
  <2>1. /\ new \notin DOMAIN notes /\ DOMAIN notes' = {new} \cup DOMAIN notes
        /\ notes'[new] = Fresh(FALSE)
        /\ \A i \in DOMAIN notes : notes'[i] = notes[i]
    BY <1>5, ResendRows
  <2>2. new[1] = id[1] /\ new[2] = Panel /\ ~notes[id].open
    BY <1>5 DEF Resend
  <2>3. ~notes'[new].open
    BY <2>1, FreshRow
  <2>4. \A w \in Writers : w # Panel /\ Says(w)' = Says(w)
    BY <1>1, OutboxAssumption DEF Says
  <2> HIDE DEF new
  <2>5. \A w \in Writers : Written(w)' = Written(w)
    BY <2>1, <2>2, <2>4 DEF Written
  <2>6. Unwritten'
    BY <1>1, <2>5 DEF MailInv, Unwritten
  <2>7. OpenMail'
    BY <1>1, <2>1, <2>3, <2>4 DEF MailInv, OpenMail
  <2>8. Prepared'
    BY <1>1, <2>1, <2>4, SeasonAssumption DEF MailInv, Prepared
  <2>9. OwnMail'
    BY <2>1, <2>2 DEF MailInv, OwnMail
  <2>10. Committed'
    BY <1>1, <2>1, <2>2 DEF MailInv, Committed
  <2>11. Announced'
    BY <1>1, <2>1 DEF MailInv, Announced
  <2> QED  BY <2>6, <2>7, <2>8, <2>9, <2>10, <2>11 DEF MailInv
<1> QED
  BY <1>2, <1>3, <1>4, <1>5 DEF OutboxNext, Pass, Fetch, Deliver, Refuse, LoseBatch, LoseAnswer

\* The others at the time a notice moves.
LEMMA OthersSay ==
    ASSUME NEW w, \A v \in Writers \ {w} : notice'[v] = notice[v]
    PROVE  \A v \in Writers \ {w} : Says(v)' = Says(v)
BY DEF Says

\* A transaction opens and writes what it says.
LEMMA SendingKeepsMail ==
    ASSUME QueueInv, MailInv, NEW w \in Writers, NEW S, Send(w, S),
           notice[w].at \in {"new", "list"}, notice'[w].at = "open",
           \A v \in Writers \ {w} : notice'[v] = notice[v],
           Happened' = Happened, Says(w)' = S,
           w \in Confirming \cup Filling => \A s \in S : ~KeyTaken(s),
           \A s \in S, t \in Ticket : s = MailOf(t) => t.by = w
    PROVE  MailInv'
<1> DEFINE N == {<<s, w>> : s \in {s \in S : ~KeyTaken(s)}}
<1>1. notes' = Over([id \in N |-> Fresh(TRUE)], notes)
  BY DEF Send
<1>2. Written(w) = {}
  BY DEF MailInv, Unwritten
<1>3. \A id \in N : id[1] \in S /\ id[2] = w /\ id \notin DOMAIN notes
  BY <1>2 DEF Written
<1>4. w \in Confirming \cup Filling => \A s \in S : <<s, w>> \in N
  OBVIOUS
<1> HIDE DEF N
<1>5. /\ DOMAIN notes' = N \cup DOMAIN notes
      /\ \A id \in N : notes'[id] = Fresh(TRUE)
      /\ \A id \in DOMAIN notes : notes'[id] = notes[id]
  BY <1>1, <1>3 DEF Over
<1>6. \A id \in N : notes'[id].open
  BY <1>5, FreshRow
<1>7. \A v \in Writers \ {w} : Says(v)' = Says(v)
  BY OthersSay
<1>8. \A v \in Writers \ {w} : Written(v)' = Written(v)
  BY <1>3, <1>5 DEF Written
<1>9. Unwritten'
  BY <1>8 DEF MailInv, Unwritten
<1>10. OpenMail'
  <2> SUFFICES ASSUME NEW id \in DOMAIN notes', notes'[id].open
               PROVE  id[2] \in Writers /\ notice'[id[2]].at = "open" /\ id[1] \in Says(id[2])'
    BY DEF OpenMail
  <2>1. CASE id \in N
    BY <1>3, <2>1
  <2>2. CASE id \in DOMAIN notes
    <3>1. id[2] \in Writers /\ notice[id[2]].at = "open" /\ id[1] \in Says(id[2])
      BY <1>5, <2>2 DEF MailInv, OpenMail
    <3>2. id[2] # w
      BY <3>1
    <3> QED  BY <1>7, <3>1, <3>2
  <2> QED  BY <1>5, <2>1, <2>2
<1>11. Prepared'
  <2> SUFFICES ASSUME NEW v \in Confirming \cup Filling, notice'[v].at = "open", NEW s \in Says(v)'
               PROVE  <<s, v>> \in DOMAIN notes'
    BY DEF Prepared
  <2>1. CASE v = w
    BY <1>4, <1>5, <2>1
  <2>2. CASE v # w
    <3>1. v \in Writers
      BY SeasonAssumption
    <3>2. notice[v].at = "open" /\ s \in Says(v)
      BY <1>7, <2>2, <3>1
    <3> QED  BY <1>5, <3>2 DEF MailInv, Prepared
  <2> QED  BY <2>1, <2>2
<1>12. OwnMail'
  BY <1>3, <1>5 DEF MailInv, OwnMail
<1>13. Committed'
  BY <1>5, <1>6 DEF MailInv, Committed
<1>14. Announced'
  BY <1>5 DEF MailInv, Announced
<1> QED  BY <1>9, <1>10, <1>11, <1>12, <1>13, <1>14 DEF MailInv

\* A notice that moves and has neither written nor opened anything.
LEMMA MovingKeepsMail ==
    ASSUME MailInv, NEW w \in Writers, UNCHANGED notes, notice[w].at # "open",
           notice'[w].at # "open", notice'[w].at \in {"new", "list"} => notice[w].at \in {"new", "list"},
           \A v \in Writers \ {w} : notice'[v] = notice[v], Happened' = Happened
    PROVE  MailInv'
<1>1. \A v \in Writers \ {w} : Says(v)' = Says(v)
  BY OthersSay
<1>2. \A v : Written(v)' = Written(v)
  BY DEF Written
<1>3. Unwritten'
  BY <1>2 DEF MailInv, Unwritten
<1>4. OpenMail'
  BY <1>1 DEF MailInv, OpenMail
<1>5. Prepared'
  BY <1>1, SeasonAssumption DEF MailInv, Prepared
<1>6. OwnMail' /\ Committed' /\ Announced'
  BY DEF MailInv, OwnMail, Committed, Announced
<1> QED  BY <1>3, <1>4, <1>5, <1>6 DEF MailInv

\* A transaction commits: what it said has happened.
LEMMA CommittingKeepsMail ==
    ASSUME QueueInv, MailInv, NEW w \in Writers, Kept(w), notice[w].at = "open", notice'[w].at = "ended",
           \A v \in Writers \ {w} : notice'[v] = notice[v],
           Happened' = Happened \cup (IF w \in Confirming \cup Filling THEN Says(w) ELSE {})
    PROVE  MailInv'
<1>1. /\ DOMAIN notes' = DOMAIN notes
      /\ \A id \in Written(w) : ~notes'[id].open
      /\ \A id \in DOMAIN notes \ Written(w) : notes'[id] = notes[id]
      /\ \A id \in DOMAIN notes : notes'[id].status = notes[id].status /\ Sendable(notes'[id])
  BY KeptRows DEF QueueInv
<1>2. \A v \in Writers \ {w} : Says(v)' = Says(v)
  BY OthersSay
<1>3. \A v : Written(v)' = Written(v)
  BY <1>1 DEF Written
<1>4. \A id \in DOMAIN notes : id \in Written(w) <=> id[2] = w
  BY DEF Written
<1>5. Unwritten'
  BY <1>3 DEF MailInv, Unwritten
<1>6. OpenMail'
  <2> SUFFICES ASSUME NEW id \in DOMAIN notes', notes'[id].open
               PROVE  id[2] \in Writers /\ notice'[id[2]].at = "open" /\ id[1] \in Says(id[2])'
    BY DEF OpenMail
  <2>1. id \in DOMAIN notes /\ id[2] # w /\ notes[id].open
    BY <1>1, <1>4
  <2>2. id[2] \in Writers /\ notice[id[2]].at = "open" /\ id[1] \in Says(id[2])
    BY <2>1 DEF MailInv, OpenMail
  <2> QED  BY <1>2, <2>1, <2>2
<1>7. Prepared'
  BY <1>1, <1>2, SeasonAssumption DEF MailInv, Prepared
<1>8. OwnMail'
  BY <1>1 DEF MailInv, OwnMail
<1>9. Committed'
  <2> SUFFICES ASSUME NEW id \in DOMAIN notes, ~notes'[id].open
               PROVE  id[1] \in Happened' \/ id[1][1] = "refunded"
    BY <1>1 DEF Committed
  <2>1. CASE ~notes[id].open
    BY <2>1 DEF MailInv, Committed
  <2>2. CASE notes[id].open
    <3>1. id[2] = w
      BY <1>1, <1>4, <2>2
    <3>2. id[1] \in Says(w)
      BY <2>2, <3>1 DEF MailInv, OpenMail
    <3>3. CASE w \in Confirming \cup Filling
      BY <3>2, <3>3
    <3>4. CASE w \notin Confirming \cup Filling
      BY <3>2, <3>4, Subjects DEF Says
    <3> QED  BY <3>3, <3>4
  <2> QED  BY <2>1, <2>2
<1>10. Announced'
  <2> SUFFICES ASSUME NEW s \in Happened'
               PROVE  \E id \in DOMAIN notes : id[1] = s /\ ~notes'[id].open
    BY <1>1 DEF Announced
  <2>1. CASE s \in Happened
    <3>1. PICK id \in DOMAIN notes : id[1] = s /\ ~notes[id].open
      BY <2>1 DEF MailInv, Announced
    <3>2. ~notes'[id].open
      BY <1>1, <3>1
    <3> QED  BY <3>1, <3>2
  <2>2. CASE w \in Confirming \cup Filling /\ s \in Says(w)
    <3>1. <<s, w>> \in DOMAIN notes
      BY <2>2 DEF MailInv, Prepared
    <3>2. <<s, w>>[1] = s /\ <<s, w>>[2] = w
      OBVIOUS
    <3>3. ~notes'[<<s, w>>].open
      BY <1>1, <1>4, <3>1, <3>2
    <3> QED  BY <3>1, <3>2, <3>3
  <2> QED  BY <2>1, <2>2
<1> QED  BY <1>5, <1>6, <1>7, <1>8, <1>9, <1>10 DEF MailInv

\* A transaction is undone: what it said is gone, and nothing else.
LEMMA UndoingKeepsMail ==
    ASSUME MailInv, NEW w \in Writers, Undone(w), notice'[w].at = "ended",
           \A v \in Writers \ {w} : notice'[v] = notice[v], Happened' = Happened
    PROVE  MailInv'
<1>1. /\ DOMAIN notes' = DOMAIN notes \ {id \in Written(w) : notes[id].open}
      /\ \A id \in DOMAIN notes' : notes'[id] = notes[id]
  BY UndoneRows
<1>2. \A v \in Writers \ {w} : Says(v)' = Says(v)
  BY OthersSay
<1>3. \A v : Written(v)' \subseteq Written(v)
  BY <1>1 DEF Written
<1>4. \A id \in DOMAIN notes : id \in Written(w) <=> id[2] = w
  BY DEF Written
<1>5. Unwritten'
  BY <1>3 DEF MailInv, Unwritten
<1>6. OpenMail'
  <2> SUFFICES ASSUME NEW id \in DOMAIN notes', notes'[id].open
               PROVE  id[2] \in Writers /\ notice'[id[2]].at = "open" /\ id[1] \in Says(id[2])'
    BY DEF OpenMail
  <2>1. id \in DOMAIN notes /\ id[2] # w /\ notes[id].open
    BY <1>1, <1>4
  <2>2. id[2] \in Writers /\ notice[id[2]].at = "open" /\ id[1] \in Says(id[2])
    BY <2>1 DEF MailInv, OpenMail
  <2> QED  BY <1>2, <2>1, <2>2
<1>7. Prepared'
  <2> SUFFICES ASSUME NEW v \in Confirming \cup Filling, notice'[v].at = "open", NEW s \in Says(v)'
               PROVE  <<s, v>> \in DOMAIN notes'
    BY DEF Prepared
  <2>1. v \in Writers /\ v # w
    BY SeasonAssumption
  <2>2. <<s, v>> \in DOMAIN notes
    BY <1>2, <2>1 DEF MailInv, Prepared
  <2>3. <<s, v>>[2] = v
    OBVIOUS
  <2> QED  BY <1>1, <1>4, <2>1, <2>2, <2>3
<1>8. OwnMail'
  BY <1>1 DEF MailInv, OwnMail
<1>9. Committed'
  BY <1>1 DEF MailInv, Committed
<1>10. Announced'
  BY <1>1 DEF MailInv, Announced
<1> QED  BY <1>5, <1>6, <1>7, <1>8, <1>9, <1>10 DEF MailInv

\* What happened is in the tickets and on the list.
LEMMA HappenedStays ==
    ASSUME UNCHANGED <<tickets, waitlist>> PROVE Happened' = Happened
BY DEF Happened

\* A notice of a pass: one message per ticket, and the key of none is taken.
LEMMA ConfirmPassMail ==
    ASSUME QueueInv, SaleInv, MailInv, NEW w \in Confirming, ConfirmPass(w), UNCHANGED <<worker, inbox, faults>>
    PROVE  QueueInv' /\ MailInv'
<1> DEFINE o == OrderOf[w]
           T == [order : {o}, date : pass, by : {w}, status : {"active"}]
           S == {MailOf(t) : t \in T}
<1>1. w \in Writers /\ o \in Orders /\ w # Panel
  BY SeasonAssumption, OutboxAssumption
<1>2. notice[w].at = "new" /\ UNCHANGED <<tickets, waitlist>>
  BY DEF ConfirmPass
<1>3. Happened' = Happened
  BY <1>2, HappenedStays
<1>4. CASE payment[o] = "confirmed"
  <2>1. Opens(w, Ended) /\ UNCHANGED notes
    BY <1>4 DEF ConfirmPass
  <2>2. /\ notice'[w] = Ended /\ Ended.at = "ended"
        /\ \A v \in Writers \ {w} : notice'[v] = notice[v]
    BY <1>1, <2>1, NoticeMoves, NoticeFields DEF SaleInv
  <2>3. MailInv'
    BY <1>1, <1>2, <1>3, <2>1, <2>2, MovingKeepsMail
  <2>4. QueueInv'
    BY <2>1, NotesChange DEF QueueInv, Received, Rows, OneWriter
  <2> QED  BY <2>3, <2>4
<1>5. CASE payment[o] # "confirmed"
  <2> DEFINE what == [New EXCEPT !.at = "open", !.issues = T]
  <2>1. Opens(w, what) /\ Send(w, S)
    BY <1>5 DEF ConfirmPass, EmitTickets
  <2>2. what.at = "open" /\ what.issues = T
    BY NoticeFields
  <2> HIDE DEF what
  <2>3. notice'[w] = what /\ \A v \in Writers \ {w} : notice'[v] = notice[v]
    BY <1>1, <2>1, NoticeMoves DEF SaleInv
  <2>4. Says(w)' = S
    BY <2>2, <2>3 DEF Says
  <2>5. \A t \in T : t \in Ticket /\ t.by = w
    BY <1>1 DEF Ticket, SaleInv, SaleTables
  <2>6. Written(w) = {}
    BY <1>1, <1>2 DEF MailInv, Unwritten
  <2> HIDE DEF T
  <2>7. \A s \in S : ~KeyTaken(s)
    <3> SUFFICES ASSUME NEW t \in T, NEW v \in Writers, <<MailOf(t), v>> \in DOMAIN notes PROVE FALSE
      BY DEF KeyTaken
    <3>1. <<MailOf(t), v>>[1] = MailOf(t) /\ <<MailOf(t), v>>[2] = v
      OBVIOUS
    <3>2. v \in {w, Panel}
      BY <2>5, <3>1 DEF MailInv, OwnMail
    <3>3. v = w
      BY <3>2, OutboxAssumption
    <3> QED  BY <2>6, <3>1, <3>3 DEF Written
  <2>8. \A s \in S, t \in Ticket : s = MailOf(t) => t.by = w
    BY <2>5, Subjects
  <2> HIDE DEF S
  <2>9. MailInv'
    BY <1>1, <1>2, <1>3, <2>1, <2>2, <2>3, <2>4, <2>7, <2>8, SendingKeepsMail
  <2>10. QueueInv'
    BY <1>1, <2>1, <2>6, SendKeepsQueue
  <2> QED  BY <2>9, <2>10
<1> QED  BY <1>4, <1>5

\* A refund tells its buyer.
LEMMA RefundPaymentMail ==
    ASSUME QueueInv, SaleInv, MailInv, NEW w \in Refunding, RefundPayment(w), UNCHANGED <<worker, inbox, faults>>
    PROVE  QueueInv' /\ MailInv'
<1> DEFINE S == {<<"refunded", OrderOf[w]>>}
           what == [New EXCEPT !.at = "open"]
<1>1. w \in Writers /\ w \notin Confirming /\ w \notin Filling
  BY SeasonAssumption
<1>2. notice[w].at = "new" /\ UNCHANGED <<tickets, waitlist>> /\ Opens(w, what) /\ Send(w, S)
  BY DEF RefundPayment
<1>3. Happened' = Happened
  BY <1>2, HappenedStays
<1>4. what.at = "open"
  BY NoticeFields
<1> HIDE DEF what
<1>5. notice'[w] = what /\ \A v \in Writers \ {w} : notice'[v] = notice[v]
  BY <1>1, <1>2, NoticeMoves DEF SaleInv
<1>6. Says(w)' = S
  BY <1>1 DEF Says
<1>7. \A s \in S, t \in Ticket : s = MailOf(t) => t.by = w
  BY Subjects
<1>8. Written(w) = {}
  BY <1>1, <1>2 DEF MailInv, Unwritten
<1> HIDE DEF S
<1>9. MailInv'
  BY <1>1, <1>2, <1>3, <1>4, <1>5, <1>6, <1>7, SendingKeepsMail
<1>10. QueueInv'
  BY <1>1, <1>2, <1>8, SendKeepsQueue
<1> QED  BY <1>9, <1>10

\* A confirmation that fills a lot reads the list, and tells it.
LEMMA LookAtWaitlistMail ==
    ASSUME QueueInv, SaleInv, MailInv, NEW w \in Filling, LookAtWaitlist(w), UNCHANGED <<worker, inbox, faults>>
    PROVE  QueueInv' /\ MailInv'
<1> DEFINE P == {p \in People : waitlist[p] = "waiting"}
           what == [New EXCEPT !.at = "list", !.list = P]
<1>1. w \in Writers
  BY SeasonAssumption
<1>2. notice[w].at = "new" /\ UNCHANGED <<tickets, waitlist, notes>> /\ Opens(w, what)
  BY DEF LookAtWaitlist
<1>3. Happened' = Happened
  BY <1>2, HappenedStays
<1> HIDE DEF P
<1>4. what.at = "list"
  BY NoticeFields
<1> HIDE DEF what
<1>5. notice'[w] = what /\ \A v \in Writers \ {w} : notice'[v] = notice[v]
  BY <1>1, <1>2, NoticeMoves DEF SaleInv
<1>6. MailInv'
  BY <1>1, <1>2, <1>3, <1>4, <1>5, MovingKeepsMail
<1>7. QueueInv'
  BY <1>2, NotesChange DEF QueueInv, Received, Rows, OneWriter
<1> QED  BY <1>6, <1>7

LEMMA NotifyWaitlistMail ==
    ASSUME QueueInv, SaleInv, MailInv, NEW w \in Filling, NotifyWaitlist(w), UNCHANGED <<worker, inbox, faults>>
    PROVE  QueueInv' /\ MailInv'
<1> DEFINE S == {<<"vacancy", p>> : p \in notice[w].list}
           what == [notice[w] EXCEPT !.at = "open"]
<1>1. w \in Writers /\ w \notin Confirming
  BY SeasonAssumption
<1>2. notice[w].at = "list" /\ UNCHANGED <<tickets, waitlist>> /\ Opens(w, what) /\ Send(w, S)
  BY DEF NotifyWaitlist
<1>3. Happened' = Happened
  BY <1>2, HappenedStays
<1>4. what.at = "open" /\ what.list = notice[w].list /\ notice[w].list \subseteq People
  BY <1>1 DEF SaleInv, Notices
<1> HIDE DEF what
<1>5. notice'[w] = what /\ \A v \in Writers \ {w} : notice'[v] = notice[v]
  BY <1>1, <1>2, NoticeMoves DEF SaleInv
<1>6. Says(w)' = S
  BY <1>1, <1>4, <1>5 DEF Says
<1>7. \A s \in S, t \in Ticket : s = MailOf(t) => t.by = w
  BY Subjects
<1>8. \A s \in S : ~KeyTaken(s)
  BY <1>4, SeasonAssumption DEF KeyTaken
<1>9. Written(w) = {}
  BY <1>1, <1>2 DEF MailInv, Unwritten
<1> HIDE DEF S
<1>10. MailInv'
  BY <1>1, <1>2, <1>3, <1>4, <1>5, <1>6, <1>7, <1>8, SendingKeepsMail
<1>11. QueueInv'
  BY <1>1, <1>2, <1>9, SendKeepsQueue
<1> QED  BY <1>10, <1>11

\* That a ticket was issued is not undone by burning it.
LEMMA BurnedHappened ==
    ASSUME SaleInv, NEW o, NEW T, T \subseteq ActiveOf(o), Burn(o, T), UNCHANGED waitlist
    PROVE  Happened' = Happened
<1>1. tickets \subseteq Ticket
  BY DEF SaleInv, SaleTables
<1>2. /\ \A t \in tickets : \E u \in tickets' : u.order = t.order /\ u.date = t.date /\ u.by = t.by
      /\ \A u \in tickets' : \E t \in tickets : u.order = t.order /\ u.date = t.date /\ u.by = t.by
  BY <1>1, Burning
<1>3. \A t, u : u.order = t.order /\ u.date = t.date /\ u.by = t.by => MailOf(t) = MailOf(u)
  BY DEF MailOf
<1>4. {MailOf(t) : t \in tickets'} = {MailOf(t) : t \in tickets}
  BY <1>2, <1>3
<1> QED  BY <1>4 DEF Happened

\* What a commit makes happen is what its transaction said.
LEMMA CommitHappens ==
    ASSUME SaleInv, NEW w \in Writers, Commit(w)
    PROVE  Happened' = Happened \cup (IF w \in Confirming \cup Filling THEN Says(w) ELSE {})
<1>1. CASE w \in Confirming /\ Confirmed(w)
  <2>1. tickets' = tickets \cup notice[w].issues /\ UNCHANGED waitlist
    BY <1>1 DEF Confirmed
  <2>2. {MailOf(t) : t \in tickets'} = {MailOf(t) : t \in tickets} \cup {MailOf(t) : t \in notice[w].issues}
    BY <2>1
  <2>3. Says(w) = {MailOf(t) : t \in notice[w].issues}
    BY <1>1 DEF Says
  <2> QED  BY <1>1, <2>1, <2>2, <2>3 DEF Happened
<1>2. CASE w \in Refunding /\ Refunded(w)
  <2>1. w \notin Confirming \cup Filling
    BY <1>2, SeasonAssumption
  <2>2. CASE UNCHANGED tickets
    <3>1. UNCHANGED waitlist
      BY <1>2 DEF Refunded
    <3> QED  BY <2>1, <2>2, <3>1, HappenedStays
  <2>3. CASE Burn(OrderOf[w], ActiveOf(OrderOf[w]))
    <3>1. UNCHANGED waitlist
      BY <1>2 DEF Refunded
    <3> QED  BY <2>1, <2>3, <3>1, BurnedHappened
  <2> QED  BY <1>2, <2>2, <2>3 DEF Refunded
<1>3. CASE w \in Filling /\ Told(w)
  <2>1. /\ waitlist' = [p \in People |-> IF p \in notice[w].list THEN "told" ELSE waitlist[p]]
        /\ UNCHANGED tickets
    BY <1>3 DEF Told
  <2>2. notice[w].list \subseteq People
    BY DEF SaleInv, Notices
  <2> DEFINE before == {p \in People : waitlist[p] = "told"}
             after == {p \in People : waitlist'[p] = "told"}
  <2>3. after = before \cup notice[w].list
    BY <2>1, <2>2
  <2> HIDE DEF before, after
  <2>4. {<<"vacancy", p>> : p \in after} = {<<"vacancy", p>> : p \in before} \cup {<<"vacancy", p>> : p \in notice[w].list}
    BY <2>3
  <2>5. Says(w) = {<<"vacancy", p>> : p \in notice[w].list}
    BY <1>3, SeasonAssumption DEF Says
  <2>6. Happened = {MailOf(t) : t \in tickets} \cup {<<"vacancy", p>> : p \in before}
    BY DEF Happened, before
  <2>7. Happened' = {MailOf(t) : t \in tickets} \cup {<<"vacancy", p>> : p \in after}
    BY <2>1 DEF Happened, after
  <2> QED  BY <1>3, <2>4, <2>5, <2>6, <2>7
<1> QED  BY <1>1, <1>2, <1>3 DEF Commit

LEMMA EndingMail ==
    ASSUME QueueInv, SaleInv, MailInv, NEW w \in Writers, Commit(w) \/ Rollback(w), UNCHANGED <<worker, inbox, faults>>
    PROVE  QueueInv' /\ MailInv'
<1>1. Opens(w, Ended)
  BY DEF Commit, Rollback
<1>2. notice'[w].at = "ended" /\ \A v \in Writers \ {w} : notice'[v] = notice[v]
  BY <1>1, EndingKeepsNotices
<1>3. CASE Commit(w)
  <2>1. Kept(w) /\ notice[w].at = "open"
    BY <1>3 DEF Commit
  <2> QED  BY <1>2, <1>3, <2>1, CommitHappens, CommittingKeepsMail, KeptKeepsQueue
<1>4. CASE Rollback(w)
  <2>1. Undone(w) /\ UNCHANGED <<tickets, waitlist>>
    BY <1>4 DEF Rollback
  <2> QED  BY <1>2, <2>1, HappenedStays, UndoingKeepsMail, UndoneKeepsQueue
<1> QED  BY <1>3, <1>4

\* A date is added, a pass is bought, a person joins the list: no mail.
LEMMA CounterMail ==
    ASSUME QueueInv, SaleInv, MailInv, UNCHANGED <<worker, inbox, faults>>,
           (\E d \in Dates : AddDate(d)) \/ (\E o \in Orders : BuyPass(o)) \/ (\E p \in People : JoinWaitlist(p))
    PROVE  QueueInv' /\ MailInv'
<1>1. UNCHANGED <<notes, notice, tickets>>
  BY DEF AddDate, BuyPass, JoinWaitlist
<1>2. \A p \in People : waitlist'[p] = "told" <=> waitlist[p] = "told"
  BY DEF AddDate, BuyPass, JoinWaitlist, SaleInv, SaleTables
<1>3. {p \in People : waitlist'[p] = "told"} = {p \in People : waitlist[p] = "told"}
  BY <1>2
<1>4. Happened' = Happened
  BY <1>1, <1>3 DEF Happened
<1>5. MailInv'
  BY <1>1, <1>4, MailStays
<1>6. QueueInv'
  BY <1>1, NotesChange DEF QueueInv, Received, Rows, OneWriter
<1> QED  BY <1>5, <1>6

\* CompleteRefund: nothing is said, and nothing that happened is undone.
LEMMA CompleteRefundMail ==
    ASSUME QueueInv, SaleInv, MailInv, NEW o \in Orders, NEW T \in SUBSET ActiveOf(o), CompleteRefund(o, T),
           UNCHANGED <<worker, inbox, faults>>
    PROVE  QueueInv' /\ MailInv'
<1>1. Burn(o, T) /\ UNCHANGED <<notes, notice, waitlist>>
  BY DEF CompleteRefund
<1>2. Happened' = Happened
  BY <1>1, BurnedHappened
<1>3. MailInv'
  BY <1>1, <1>2, MailStays
<1>4. QueueInv'
  BY <1>1, NotesChange DEF QueueInv, Received, Rows, OneWriter
<1> QED  BY <1>3, <1>4

LEMMA SeasonStepInv == SeasonInv /\ [SeasonNext]_<<outbox, season>> => SeasonInv'
<1> SUFFICES ASSUME SeasonInv, [SeasonNext]_<<outbox, season>> PROVE SeasonInv'
  OBVIOUS
<1>1. QueueInv /\ SaleInv /\ MailInv
  BY DEF SeasonInv
<1>2. SaleInv'
  BY <1>1, SaleStepInv
<1>3. CASE UNCHANGED <<worker, inbox, faults>> /\
             \/ \E d \in Dates : AddDate(d)
             \/ \E o \in Orders : BuyPass(o)
             \/ \E p \in People : JoinWaitlist(p)
  BY <1>1, <1>2, <1>3, CounterMail DEF SeasonInv
<1>4. CASE UNCHANGED <<worker, inbox, faults>> /\ Webhook
  BY <1>1, <1>2, <1>4, ConfirmPassMail, RefundPaymentMail, LookAtWaitlistMail, NotifyWaitlistMail, EndingMail
     DEF SeasonInv, Webhook
<1>5. CASE OutboxNext /\ UNCHANGED season
  BY <1>1, <1>2, <1>5, OutboxStepKeepsQueue, OutboxKeepsMail DEF SeasonInv
<1>6. CASE UNCHANGED <<outbox, season>>
  <2>1. UNCHANGED <<notes, worker, inbox, faults, notice, tickets, waitlist>>
    BY <1>6 DEF outbox, season
  <2>2. MailInv'
    BY <1>1, <2>1, HappenedStays, MailStays
  <2>3. QueueInv'
    BY <1>1, <2>1, NotesChange DEF QueueInv, Received, Rows, OneWriter
  <2> QED  BY <1>2, <2>2, <2>3 DEF SeasonInv
<1>7. ASSUME UNCHANGED <<worker, inbox, faults>>,
             NEW o \in Orders, NEW T \in SUBSET ActiveOf(o), CompleteRefund(o, T)
      PROVE  SeasonInv'
  BY <1>1, <1>2, <1>7, CompleteRefundMail DEF SeasonInv
<1> QED  BY <1>3, <1>4, <1>5, <1>6, <1>7 DEF SeasonNext

LEMMA SeasonInvariant == SeasonSpec => []SeasonInv
<1>1. OutboxInit /\ SeasonInit => SeasonInv
  BY QueueInitInv, SaleInitInv, MailInitInv DEF SeasonInv
<1> QED  BY <1>1, SeasonStepInv, PTL DEF SeasonSpec

\* "Duas replicas entregavam a mesma mensagem" (notify/worker.go): for any number
\* of replicas, of rows in a batch and of faults, a row leaves once more than the
\* faults that forgot it, and the rows of one key leave as one.
THEOREM OneCopyLeaves == SeasonSpec => []OneCopy
<1>1. SeasonInv => OneCopy
  <2> SUFFICES ASSUME SeasonInv PROVE OneCopy
    OBVIOUS
  <2>1. QueueInv
    BY DEF SeasonInv
  <2>2. ASSUME NEW id \in DOMAIN inbox
        PROVE  inbox[id] <= 1 + (IF id \in faults.rows THEN faults.count ELSE 0)
    <3>1. id \in DOMAIN notes /\ Copied(id) = inbox[id] /\ inbox[id] \in Nat
      BY <2>1 DEF QueueInv, Received, Copied
    <3>2. Copied(id) <= Forgotten(id) + (IF Remembered(id) THEN 1 ELSE 0)
      BY <2>1, <3>1 DEF QueueInv, Copies
    <3>3. Forgotten(id) \in Nat
      BY <2>1, OutboxAssumption DEF QueueInv, Received, Forgotten
    <3>4. inbox[id] <= 1 + Forgotten(id)
      BY <3>1, <3>2, <3>3
    <3> QED  BY <3>4 DEF Forgotten
  <2>3. ASSUME NEW s \in Keyed PROVE Cardinality({id \in DOMAIN inbox : id[1] = s /\ id[2] # Panel}) <= 1
    <3> DEFINE C == {id \in DOMAIN inbox : id[1] = s /\ id[2] # Panel}
    <3>1. \A i, j \in C : i = j
      <4> SUFFICES ASSUME NEW i \in C, NEW j \in C PROVE i = j
        OBVIOUS
      <4>1. i \in DOMAIN notes /\ j \in DOMAIN notes
        BY <2>1 DEF QueueInv, Received
      <4>2. /\ i = <<i[1], i[2]>> /\ i[2] \in Writers /\ i[1] = s
            /\ j = <<j[1], j[2]>> /\ j[2] \in Writers /\ j[1] = s
        BY <2>1, <4>1 DEF QueueInv, Rows
      <4>3. i[2] = j[2]
        BY <2>1, <4>1, <4>2 DEF QueueInv, OneWriter
      <4> QED  BY <4>2, <4>3
    <3> HIDE DEF C
    <3>2. CASE C = {}
      BY <3>2, FS_EmptySet DEF C
    <3>3. CASE C # {}
      <4>1. PICK i : C = {i}
        BY <3>1, <3>3
      <4>2. Cardinality(C) = 1
        BY <4>1, FS_Singleton
      <4> QED  BY <4>2 DEF C
    <3> QED  BY <3>2, <3>3
  <2> QED  BY <2>2, <2>3 DEF OneCopy
<1> QED  BY <1>1, SeasonInvariant, PTL

\* "Se a venda faz rollback, a mensagem vai junto e nada e enviado" (notify/notify.go),
\* for any sales, replicas and faults: what was said happened, and what happened
\* is said or being said.
THEOREM MailTellsTheSale == SeasonSpec => []MailFollowsTheSale
<1>1. SeasonInv => MailFollowsTheSale
  <2> SUFFICES ASSUME SeasonInv PROVE MailFollowsTheSale
    OBVIOUS
  <2>1. \A id \in DOMAIN inbox : id \in DOMAIN notes /\ ~notes[id].open
    BY DEF SeasonInv, QueueInv, Received
  <2>2. Committed /\ Announced
    BY DEF SeasonInv, MailInv
  <2> QED  BY <2>1, <2>2 DEF Committed, Announced, MailFollowsTheSale
<1> QED  BY <1>1, SeasonInvariant, PTL

-----------------------------------------------------------------------------
(***************************************************************************)
(* The attestation.  One first version, and none amid the batch of a       *)
(* cancellation but the producer's own, for any tickets, handlers, quotas  *)
(* and bounds.                                                             *)
(***************************************************************************)
LEMMA ShareIsNat == ASSUME NEW n \in Nat, NEW percent \in 0..100 PROVE Share(n, percent) \in Nat
<1>1. n * percent \in Nat
  OBVIOUS
<1> DEFINE x == n * percent
<1>2. \A y \in Nat : (y + 50) \div 100 \in Nat
  OBVIOUS
<1> QED BY <1>1, <1>2 DEF Share

LEMMA BuildRecordType == TypeOK => BuildRecord \in Records
<1> SUFFICES ASSUME TypeOK PROVE BuildRecord \in Records
  OBVIOUS
<1>1. ASSUME NEW S \in SUBSET Tickets PROVE Cardinality(S) \in 0..Cardinality(Tickets)
  BY FS_CardinalityType, FS_Subset, AttestationAssumption
<1>2. Cardinality(Valid) \in 0..Cardinality(Tickets)
  BY <1>1 DEF Valid
<1>3. Cardinality(Valid \cap HalfTickets) \in 0..Cardinality(Tickets)
  BY <1>1 DEF Valid
<1>4. Cardinality(inside) \in 0..Cardinality(Tickets)
  BY <1>1 DEF TypeOK
<1>5. RecordQuota(Cardinality(Valid)) \in Nat
  <2>1. Cardinality(Valid) \in Nat
    BY <1>2, FS_CardinalityType, AttestationAssumption
  <2>2. half \in Quotas => half \in 0..100
    BY AttestationAssumption
  <2> QED BY <2>1, <2>2, ShareIsNat DEF RecordQuota
<1>6. (IF half \in Quotas THEN half ELSE NotDeclared) \in Quotas \cup {NotDeclared}
  OBVIOUS
<1>7. shares \in SUBSET Shares
  BY DEF TypeOK
<1> QED BY <1>2, <1>3, <1>4, <1>5, <1>6, <1>7 DEF BuildRecord, Records

LEMMA RestType == Rest \in Closing
<1>1. Cardinality(Tickets) \in Nat
  BY FS_CardinalityType, AttestationAssumption
<1>2. Blank \in Records
  BY <1>1 DEF Blank, Records
<1> QED BY <1>2 DEF Rest, Closing

(***************************************************************************)
(* Versions.                                                               *)
(***************************************************************************)
\* The first versions are of the number 1, and who remembers one remembers a
\* row that is there.
FirstOnes ==
    /\ \A i, j \in First : i = j
    /\ \A i \in First : rows[i].version = 1
    /\ \A p \in Closers : work[p].first # 0 => work[p].first \in First

\* A batch waits only for an event that was closed, and while it runs nobody
\* but the producer is between drafting and inserting.
BatchAlone ==
    /\ stale => Closed
    /\ stale /\ Unfinished /\ ~unpublished
         => \A p \in Closers \ {Owner} : work[p].at \notin {"drafted", "looked"}

AInv == TypeOK /\ FirstOnes /\ BatchAlone

LEMMA Appended ==
  ASSUME TypeOK, NEW v \in Versions, rows' = Append(rows, v)
  PROVE  /\ rows' \in Seq(Versions)
         /\ First' = First \cup (IF v.supersedes = 0 THEN {Len(rows) + 1} ELSE {})
         /\ \A i \in First : rows'[i] = rows[i]
         /\ rows'[Len(rows) + 1] = v
<1>1. rows \in Seq(Versions)
  BY DEF TypeOK
<1>2. rows' \in Seq(Versions) /\ Len(rows') = Len(rows) + 1 /\ rows'[Len(rows) + 1] = v
      /\ \A i \in 1..Len(rows) : rows'[i] = rows[i]
  BY <1>1, AppendProperties
<1>3. DOMAIN rows = 1..Len(rows) /\ DOMAIN rows' = 1..(Len(rows) + 1) /\ Len(rows) \in Nat
  BY <1>1, <1>2, LenProperties
<1> QED BY <1>2, <1>3 DEF First

LEMMA CurrentIsFirst == ASSUME Closed PROVE Current \in First
BY DEF Closed, Current

\* Whoever does not touch the versions leaves what was said of them.
LEMMA SameRows ==
  ASSUME FirstOnes, UNCHANGED rows, \A p \in Closers : work'[p].first \in {0, work[p].first}
  PROVE  FirstOnes'
<1>1. First' = First
  BY DEF First
<1> QED BY <1>1 DEF FirstOnes

\* The actions that draft, by any closer.
LEMMA DraftKeeps ==
  ASSUME TypeOK, FirstOnes, NEW p \in Closers, NEW own \in BOOLEAN, Draft(p, own), UNCHANGED rows
  PROVE  /\ work' \in [Closers -> Closing] /\ unpublished' \in BOOLEAN
         /\ FirstOnes'
         /\ \A q \in Closers \ {p} : work'[q] = work[q]
         /\ unpublished => unpublished'
<1>1. [at |-> "drafted", record |-> BuildRecord, batch |-> own, first |-> 0] \in Closing
  BY BuildRecordType DEF Closing
<1>2. work' \in [Closers -> Closing] /\ \A q \in Closers \ {p} : work'[q] = work[q]
  BY <1>1 DEF Draft, TypeOK
<1>3. \A q \in Closers : work'[q].first \in {0, work[q].first}
  BY DEF Draft, TypeOK
<1>4. unpublished' \in BOOLEAN /\ (unpublished => unpublished')
  BY DEF Draft, TypeOK
<1> QED BY <1>2, <1>3, <1>4, SameRows

\* A batch is left alone by a step that begins none and lets nobody else
\* draft or look.
LEMMA BatchKept ==
  ASSUME BatchAlone, First \subseteq First', stale' => stale, Unfinished' => Unfinished, unpublished => unpublished',
         \A p \in Closers \ {Owner} :
             work'[p].at \in {"drafted", "looked"}
               => work[p].at \in {"drafted", "looked"} \/ ~stale' \/ ~Unfinished'
  PROVE  BatchAlone'
BY DEF BatchAlone, Closed

LEMMA JobsEndUnfinished ==
  ASSUME NEW t \in Tickets, TypeOK, refund_jobs[t] \in {"pending", "running"},
         NEW x \in {"none", "pending", "running", "ended"}, refund_jobs' = [refund_jobs EXCEPT ![t] = x]
  PROVE  Unfinished /\ refund_jobs' \in [Tickets -> {"none", "pending", "running", "ended"}]
BY DEF Unfinished, TypeOK

(***************************************************************************)
(* Every step keeps the invariant.                                         *)
(***************************************************************************)
LEMMA InitAInv == Init => AInv
<1> SUFFICES ASSUME Init PROVE AInv
  OBVIOUS
<1>1. rows \in Seq(Versions) /\ First = {}
  BY EmptySeq DEF Init, First
<1>2. TypeOK
  <2>1. work \in [Closers -> Closing]
    BY RestType DEF Init
  <2>2. ticket \in [Tickets -> {"none", "ordered", "valid", "cancelled"}] /\ inside \subseteq Tickets
        /\ shares \subseteq Shares
    BY DEF Init
  <2>3. event \in [status : {"published", "cancelled"}, over : BOOLEAN]
        /\ edit \in [Editors -> Changes \cup {NoEdit}]
        /\ refund_jobs \in [Tickets -> {"none", "pending", "running", "ended"}]
    BY DEF Init
  <2>4. half \in Quotas \cup {NotDeclared, Linked} /\ byHand \in 0..MaxByHand
    BY AttestationAssumption DEF Init
  <2>5. stale \in BOOLEAN /\ unpublished \in BOOLEAN
    BY DEF Init
  <2> QED BY <1>1, <2>1, <2>2, <2>3, <2>4, <2>5 DEF TypeOK
<1>3. \A p \in Closers : work[p].first = 0
  BY DEF Init, Rest
<1>4. ~stale
  BY DEF Init
<1> QED BY <1>1, <1>2, <1>3, <1>4 DEF AInv, FirstOnes, BatchAlone

\* Sales, edits and the end of the event touch neither versions nor closings.
LEMMA SalesKeep ==
  ASSUME AInv, NEW t \in Tickets, CreateOrder(t) \/ Confirm(t) \/ JobFails(t)
  PROVE  AInv'
<1>1. UNCHANGED <<rows, work, stale>> /\ (unpublished => unpublished')
  <2>1. UNCHANGED <<rows, work, stale>>
    BY DEF CreateOrder, Confirm, JobFails
  <2>2. unpublished => unpublished'
    BY Zenon DEF CreateOrder, Confirm, JobFails
  <2> QED BY <2>1, <2>2
<1>2. Unfinished' => Unfinished
  BY JobsEndUnfinished DEF CreateOrder, Confirm, JobFails, Unfinished, AInv
<1>3. TypeOK'
  <2>1. CASE CreateOrder(t)
    BY <2>1 DEF AInv, CreateOrder, TypeOK
  <2>2. CASE Confirm(t)
    BY <2>2 DEF AInv, Confirm, TypeOK, Closed, IsClosing
  <2>3. CASE JobFails(t)
    BY <2>3 DEF AInv, JobFails, TypeOK, sales
  <2> QED BY <2>1, <2>2, <2>3
<1>4. FirstOnes'
  BY <1>1, SameRows DEF AInv
<1>5. First' = First
  BY <1>1 DEF First
<1>6. BatchAlone'
  BY <1>1, <1>2, <1>5, BatchKept DEF AInv
<1> QED BY <1>3, <1>4, <1>6 DEF AInv

LEMMA EditsKeep ==
  ASSUME AInv, \/ EventEnds
               \/ \E e \in Editors : CommitEdit(e) \/ \E change \in Changes : BeginEdit(e, change)
  PROVE  AInv'
<1>1. UNCHANGED <<rows, work, stale, refund_jobs>> /\ (unpublished => unpublished')
  <2>1. UNCHANGED <<rows, work, stale, refund_jobs>>
    BY DEF EventEnds, CommitEdit, BeginEdit
  <2>2. unpublished => unpublished'
    BY Zenon DEF EventEnds, CommitEdit, BeginEdit
  <2> QED BY <2>1, <2>2
<1>2. TypeOK'
  <2>1. CASE EventEnds
    BY <2>1 DEF AInv, EventEnds, TypeOK, sales
  <2>2. ASSUME NEW e \in Editors, CommitEdit(e) PROVE TypeOK'
    <3>1. edit[e] \in Changes
      BY <2>2 DEF AInv, TypeOK, CommitEdit
    <3>2. inside' \subseteq Tickets
      BY <2>2, <3>1 DEF AInv, TypeOK, CommitEdit, Changes
    <3>3. shares' \subseteq Shares
      BY <2>2, <3>1 DEF AInv, TypeOK, CommitEdit, Changes
    <3>4. half' \in Quotas \cup {NotDeclared, Linked}
      BY <2>2, <3>1 DEF AInv, TypeOK, CommitEdit, Changes
    <3>5. edit' \in [Editors -> Changes \cup {NoEdit}]
      BY <2>2 DEF AInv, TypeOK, CommitEdit
    <3> QED BY <2>2, <3>2, <3>3, <3>4, <3>5 DEF AInv, TypeOK, CommitEdit
  <2>3. ASSUME NEW e \in Editors, NEW change \in Changes, BeginEdit(e, change) PROVE TypeOK'
    <3>1. byHand' \in 0..MaxByHand
      BY <2>3, AttestationAssumption DEF AInv, TypeOK, BeginEdit
    <3>2. unpublished' \in BOOLEAN
      BY <2>3 DEF AInv, TypeOK, BeginEdit, IsClosing
    <3> QED BY <2>3, <3>1, <3>2 DEF AInv, TypeOK, BeginEdit
  <2> QED BY <2>1, <2>2, <2>3
<1>3. FirstOnes'
  BY <1>1, SameRows DEF AInv
<1>4. First' = First /\ (Unfinished' <=> Unfinished)
  BY <1>1 DEF First, Unfinished
<1>5. BatchAlone'
  BY <1>1, <1>4, BatchKept DEF AInv
<1> QED BY <1>2, <1>3, <1>5 DEF AInv

\* Drafting: the producer at any time, the timer of an event not closed, a
\* handler or the worker of one with no batch pending, the worker after its batch.
LEMMA DraftsKeep ==
  ASSUME AInv, NEW p \in Closers, NEW own \in BOOLEAN, Draft(p, own),
         UNCHANGED <<sales, event, stale, refund_jobs, rows, edit>>, byHand' \in 0..MaxByHand,
         p = Owner \/ ~stale \/ ~Unfinished
  PROVE  AInv'
<1>1. /\ work' \in [Closers -> Closing] /\ unpublished' \in BOOLEAN /\ FirstOnes'
      /\ \A q \in Closers \ {p} : work'[q] = work[q]
      /\ unpublished => unpublished'
  BY DraftKeeps DEF AInv
<1>2. TypeOK'
  BY <1>1 DEF AInv, TypeOK, sales
<1>3. First' = First /\ (Unfinished' <=> Unfinished)
  BY DEF First, Unfinished
<1>4. BatchAlone'
  BY <1>1, <1>3, BatchKept DEF AInv
<1> QED BY <1>1, <1>2, <1>4 DEF AInv

LEMMA ClosingsBegin ==
  ASSUME AInv, CloseEvent \/ Closer \/ RepublishStale
  PROVE  AInv'
<1>1. byHand \in 0..MaxByHand /\ MaxByHand \in Nat /\ {Owner, Timer, Worker} \subseteq Closers
  BY AttestationAssumption DEF AInv, TypeOK, Closers
<1>2. CASE CloseEvent
  <2>1. byHand' \in 0..MaxByHand
    BY <1>1, <1>2 DEF CloseEvent
  <2> QED BY <1>1, <1>2, <2>1, DraftsKeep DEF CloseEvent
<1>3. CASE Closer
  <2>1. ~stale
    BY <1>3 DEF Closer, AInv, BatchAlone
  <2> QED BY <1>1, <1>3, <2>1, DraftsKeep DEF Closer
<1>4. CASE RepublishStale
  BY <1>1, <1>4, DraftsKeep DEF RepublishStale
<1> QED BY <1>2, <1>3, <1>4

\* A closing that ends, and one that is told of a refund and closes again or not.
LEMMA ToldKeeps ==
  ASSUME AInv, NEW p \in Closers, RecloseIfClosed(p)
  PROVE  AInv'
<1>1. CASE stale \/ ~Closed
  <2>1. work' = [work EXCEPT ![p] = Rest] /\ UNCHANGED <<sales, event, stale, refund_jobs, rows, edit, byHand, unpublished>>
    BY <1>1 DEF RecloseIfClosed
  <2>2. TypeOK'
    BY <2>1, RestType DEF AInv, TypeOK, sales
  <2>3. FirstOnes'
    BY <2>1, SameRows DEF AInv, TypeOK, Rest
  <2>4. First' = First /\ (Unfinished' <=> Unfinished)
    BY <2>1 DEF First, Unfinished
  <2>5. BatchAlone'
    BY <2>1, <2>4, BatchKept DEF AInv, TypeOK, Rest
  <2> QED BY <2>2, <2>3, <2>5 DEF AInv
<1>2. CASE ~(stale \/ ~Closed)
  <2>1. byHand' \in 0..MaxByHand
    BY DEF AInv, TypeOK, RecloseIfClosed
  <2> QED BY <1>2, <2>1, DraftsKeep DEF RecloseIfClosed
<1> QED BY <1>1, <1>2

LEMMA RefundsKeep ==
  ASSUME AInv, NEW t \in Tickets, ProcessOne(t) \/ FinishJob(t) \/ \E h \in Handlers : Refund(h, t)
  PROVE  AInv'
<1>1. UNCHANGED <<rows, stale>>
  BY DEF ProcessOne, FinishJob, Refund
<1>2. unpublished => unpublished'
  BY Zenon DEF ProcessOne, FinishJob, Refund
<1>3. unpublished' \in BOOLEAN
  BY DEF AInv, TypeOK, ProcessOne, FinishJob, Refund, IsClosing
<1>4. /\ work' \in [Closers -> Closing]
      /\ \A p \in Closers : work'[p].first = work[p].first /\ (work'[p].at = work[p].at \/ work'[p].at = "told")
  <2>1. ASSUME NEW p \in Closers, work' = [work EXCEPT ![p].at = "told"]
        PROVE  /\ work' \in [Closers -> Closing]
               /\ \A q \in Closers : work'[q].first = work[q].first /\ (work'[q].at = work[q].at \/ work'[q].at = "told")
    BY <2>1 DEF AInv, TypeOK, Closing
  <2>2. CASE UNCHANGED work
    BY <2>2 DEF AInv, TypeOK
  <2> QED BY <2>1, <2>2 DEF ProcessOne, FinishJob, Refund, Closers
<1>5. (Unfinished' => Unfinished) /\ refund_jobs' \in [Tickets -> {"none", "pending", "running", "ended"}]
  <2>1. CASE UNCHANGED refund_jobs
    BY <2>1 DEF Unfinished, AInv, TypeOK
  <2>2. CASE ProcessOne(t) \/ FinishJob(t)
    BY <2>2, JobsEndUnfinished DEF AInv, ProcessOne, FinishJob
  <2> QED BY <2>1, <2>2 DEF Refund
<1>6. TypeOK'
  BY <1>1, <1>3, <1>4, <1>5 DEF AInv, TypeOK, ProcessOne, FinishJob, Refund, sales
<1>7. FirstOnes'
  BY <1>1, <1>4, SameRows DEF AInv
<1>8. First' = First
  BY <1>1 DEF First
<1>9. BatchAlone'
  BY <1>1, <1>2, <1>4, <1>5, <1>8, BatchKept DEF AInv
<1> QED BY <1>6, <1>7, <1>9 DEF AInv

\* The batch begins: whoever was closing then has seen a change it may not have
\* read, and the model says so.
LEMMA CancelKeeps ==
  ASSUME AInv, CancelEvent
  PROVE  AInv'
<1>1. TypeOK'
  <2>1. refund_jobs' \in [Tickets -> {"none", "pending", "running", "ended"}]
    BY DEF AInv, TypeOK, CancelEvent
  <2>2. stale' \in BOOLEAN /\ unpublished' \in BOOLEAN
    BY DEF AInv, TypeOK, CancelEvent, Closed, IsClosing
  <2> QED BY <2>1, <2>2 DEF AInv, TypeOK, CancelEvent, sales
<1>2. FirstOnes'
  BY SameRows DEF AInv, CancelEvent
<1>3. Closed' <=> Closed
  BY DEF CancelEvent, Closed, First
<1>4. stale' => Closed'
  BY <1>3, Zenon DEF CancelEvent, AInv, BatchAlone
<1>5. ~unpublished' => ~IsClosing
  BY Zenon DEF CancelEvent
<1>6. BatchAlone'
  BY <1>4, <1>5 DEF BatchAlone, CancelEvent, IsClosing
<1> QED BY <1>1, <1>2, <1>6 DEF AInv

LEMMA LookKeeps ==
  ASSUME AInv, NEW p \in Closers, Look(p)
  PROVE  AInv'
<1>1. UNCHANGED <<sales, event, refund_jobs, rows, edit, byHand, unpublished>> /\ work[p].at = "drafted"
  BY DEF Look
<1>2. First' = First /\ (Unfinished' <=> Unfinished)
  BY <1>1 DEF First, Unfinished
<1>3. CASE Closed /\ rows[Current].record = work[p].record
  <2>1. work' = [work EXCEPT ![p] = Rest] /\ stale' = (stale /\ ~work[p].batch)
    BY <1>3 DEF Look
  <2>2. TypeOK'
    BY <1>1, <2>1, RestType DEF AInv, TypeOK, sales
  <2>3. FirstOnes'
    BY <1>1, <2>1, SameRows DEF AInv, TypeOK, Rest
  <2>4. BatchAlone'
    BY <1>1, <1>2, <2>1, BatchKept DEF AInv, TypeOK, Rest
  <2> QED BY <2>2, <2>3, <2>4 DEF AInv
<1>4. CASE ~(Closed /\ rows[Current].record = work[p].record)
  <2> DEFINE f == IF Closed THEN Current ELSE 0
  <2>1. work' = [work EXCEPT ![p].at = "looked", ![p].first = f] /\ UNCHANGED stale
    BY <1>4 DEF Look
  <2>2. f # 0 => f \in First
    BY CurrentIsFirst
  <2>3. f \in Nat
    <3>1. rows \in Seq(Versions)
      BY DEF AInv, TypeOK
    <3>2. DOMAIN rows \subseteq Nat
      BY <3>1, LenProperties
    <3> QED BY <2>2, <3>2 DEF First
  <2> HIDE DEF f
  <2>4. work' \in [Closers -> Closing]
    <3>1. work \in [Closers -> [at : {"idle", "told", "drafted", "looked"}, record : Records, batch : BOOLEAN, first : Nat]]
      BY DEF AInv, TypeOK, Closing
    <3>2. [work EXCEPT ![p].at = "looked"] \in [Closers -> Closing]
      BY <3>1 DEF Closing
    <3>3. work' = [[work EXCEPT ![p].at = "looked"] EXCEPT ![p].first = f]
      BY <2>1, <3>1
    <3>4. ASSUME NEW w \in [Closers -> Closing] PROVE [w EXCEPT ![p].first = f] \in [Closers -> Closing]
      BY <2>3 DEF Closing
    <3> QED BY <3>2, <3>3, <3>4
  <2>5. TypeOK'
    BY <1>1, <2>1, <2>4 DEF AInv, TypeOK, sales
  <2>6. \A q \in Closers : work'[q].first # 0 => work'[q].first \in First'
    BY <1>2, <2>1, <2>2 DEF AInv, TypeOK, FirstOnes
  <2>7. FirstOnes'
    BY <1>1, <1>2, <2>6 DEF AInv, FirstOnes
  <2>8. BatchAlone'
    BY <1>1, <1>2, <2>1, BatchKept DEF AInv, TypeOK
  <2> QED BY <2>5, <2>7, <2>8 DEF AInv
<1> QED BY <1>3, <1>4

\* The index refuses a second first version; any other is the first's successor.
LEMMA InsertKeeps ==
  ASSUME AInv, NEW p \in Closers, Insert(p)
  PROVE  AInv'
<1>1. UNCHANGED <<sales, event, refund_jobs, edit, byHand, unpublished>> /\ work[p].at = "looked"
      /\ work' = [work EXCEPT ![p] = Rest]
  BY DEF Insert
<1>2. Unfinished' <=> Unfinished
  BY <1>1 DEF Unfinished
<1>3. work' \in [Closers -> Closing] /\ \A q \in Closers : work'[q].first \in {0, work[q].first}
  BY <1>1, RestType DEF AInv, TypeOK, Rest
<1>4. \A q \in Closers : work'[q].at \in {"drafted", "looked"} => work[q].at \in {"drafted", "looked"}
  BY <1>1 DEF AInv, TypeOK, Rest
<1>5. CASE Refused(p)
  <2>1. UNCHANGED <<rows, stale>>
    BY <1>5 DEF Insert
  <2>2. TypeOK'
    BY <1>1, <1>3, <2>1 DEF AInv, TypeOK, sales
  <2>3. FirstOnes'
    BY <1>3, <2>1, SameRows DEF AInv
  <2>4. First' = First
    BY <2>1 DEF First
  <2>5. BatchAlone'
    BY <1>1, <1>2, <1>4, <2>1, <2>4, BatchKept DEF AInv
  <2> QED BY <2>2, <2>3, <2>5 DEF AInv
<1>6. CASE ~Refused(p)
  <2>1. rows' = Append(rows, RowOf(p)) /\ stale' = (stale /\ ~work[p].batch)
    BY <1>6 DEF Insert
  <2>2. work[p] \in Closing /\ (work[p].first # 0 => work[p].first \in First /\ rows[work[p].first].version = 1)
    BY DEF AInv, TypeOK, FirstOnes
  <2>3. RowOf(p) \in Versions /\ RowOf(p).supersedes = work[p].first
        /\ (work[p].first = 0 => RowOf(p).version = 1)
    BY <2>2 DEF RowOf, Versions, Closing
  <2>4. /\ rows' \in Seq(Versions)
        /\ First' = First \cup (IF work[p].first = 0 THEN {Len(rows) + 1} ELSE {})
        /\ \A i \in First : rows'[i] = rows[i]
        /\ rows'[Len(rows) + 1] = RowOf(p)
    BY <2>1, <2>3, Appended DEF AInv
  <2>5. work[p].first = 0 => First = {}
    BY <1>6 DEF Refused, Closed
  <2>6. FirstOnes'
    <3>1. \A i, j \in First' : i = j
      BY <2>4, <2>5 DEF AInv, FirstOnes
    <3>2. \A i \in First' : rows'[i].version = 1
      BY <2>3, <2>4 DEF AInv, FirstOnes
    <3>3. \A q \in Closers : work'[q].first # 0 => work'[q].first \in First'
      BY <1>3, <2>4 DEF AInv, FirstOnes
    <3> QED BY <3>1, <3>2, <3>3 DEF FirstOnes
  <2>7. TypeOK'
    BY <1>1, <1>3, <2>1, <2>4 DEF AInv, TypeOK, sales
  <2>8. BatchAlone'
    BY <1>1, <1>2, <1>4, <2>1, <2>4, BatchKept DEF AInv, TypeOK
  <2> QED BY <2>6, <2>7, <2>8 DEF AInv
<1> QED BY <1>5, <1>6

LEMMA NextAInv == AInv /\ [Next]_vars => AInv'
<1> SUFFICES ASSUME AInv, [Next]_vars PROVE AInv'
  OBVIOUS
<1>1. CASE UNCHANGED vars
  <2>1. UNCHANGED <<ticket, inside, shares, half, event, stale, refund_jobs, rows, work, edit, byHand, unpublished>>
    BY <1>1 DEF vars
  <2>2. First' = First /\ (Unfinished' <=> Unfinished)
    BY <2>1 DEF First, Unfinished
  <2>3. TypeOK' /\ FirstOnes'
    BY <2>1, SameRows DEF AInv, TypeOK
  <2>4. BatchAlone'
    BY <2>1, <2>2, BatchKept DEF AInv
  <2> QED BY <2>3, <2>4 DEF AInv
<1>2. ASSUME NEW t \in Tickets, CreateOrder(t) \/ Confirm(t) \/ JobFails(t) PROVE AInv'
  BY <1>2, SalesKeep
<1>3. CASE EventEnds \/ \E e \in Editors : CommitEdit(e) \/ \E change \in Changes : BeginEdit(e, change)
  BY <1>3, EditsKeep
<1>4. CASE CloseEvent \/ Closer \/ RepublishStale
  BY <1>4, ClosingsBegin
<1>5. CASE CancelEvent
  BY <1>5, CancelKeeps
<1>6. ASSUME NEW t \in Tickets, ProcessOne(t) \/ FinishJob(t) \/ \E h \in Handlers : Refund(h, t) PROVE AInv'
  BY <1>6, RefundsKeep
<1>7. ASSUME NEW p \in Closers, RecloseIfClosed(p) \/ Look(p) \/ Insert(p) PROVE AInv'
  BY <1>7, ToldKeeps, LookKeeps, InsertKeeps
<1> QED BY <1>1, <1>2, <1>3, <1>4, <1>5, <1>6, <1>7 DEF Next, WorkerStep

LEMMA AttestationInvariance == Spec => []AInv
BY InitAInv, NextAInv, PTL DEF Spec

(***************************************************************************)
(* The theorems.                                                           *)
(***************************************************************************)
\* However many close at once, none of them waiting for another, an event has
\* at most one version that supersedes none.
THEOREM OneVersionIsFirst == Spec => []OneFirstVersion
<1>1. AInv => OneFirstVersion
  <2> SUFFICES ASSUME AInv PROVE Cardinality(First) <= 1
    BY DEF OneFirstVersion
  <2>1. CASE First = {}
    BY <2>1, FS_EmptySet
  <2>2. CASE First # {}
    <3>1. First = {Current}
      BY <2>2 DEF AInv, FirstOnes, Current
    <3>2. Cardinality({Current}) = 1
      BY FS_Singleton, Zenon
    <3> QED BY <3>1, <3>2
  <2> QED BY <2>1, <2>2
<1> QED BY <1>1, AttestationInvariance, PTL

\* While the batch of a cancellation runs, handlers that refund, the worker and
\* the timer add no version: a buyer's refund never costs one.
THEOREM BatchAddsNoVersion == Spec => NoVersionAmidTheBatch
<1>1. AInv /\ [Next]_vars
        => [stale /\ Unfinished /\ ~unpublished /\ rows' # rows
              => work[Owner].at = "looked" /\ work'[Owner].at = "idle"]_vars
  <2> SUFFICES ASSUME AInv, Next, stale, Unfinished, ~unpublished, rows' # rows
               PROVE  work[Owner].at = "looked" /\ work'[Owner].at = "idle"
    OBVIOUS
  <2>1. PICK p \in Closers : Insert(p)
    BY DEF Next, WorkerStep, CreateOrder, Confirm, JobFails, CommitEdit, BeginEdit, EventEnds, CancelEvent,
           CloseEvent, Closer, RepublishStale, ProcessOne, FinishJob, Refund, RecloseIfClosed, Look
  <2>2. p = Owner
    BY <2>1 DEF Insert, AInv, BatchAlone
  <2> QED BY <2>1, <2>2 DEF Insert, AInv, TypeOK, Rest
<1> QED BY <1>1, AttestationInvariance, PTL DEF Spec, NoVersionAmidTheBatch
=============================================================================
