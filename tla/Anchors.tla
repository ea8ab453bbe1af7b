------------------------------- MODULE Anchors -------------------------------
(***************************************************************************)
(* The anchoring of attestations: a producer asks for it, a row of         *)
(* chain_jobs is queued and the anchor worker of each replica sends the    *)
(* digest to the chain until it succeeds or its attempts are spent.        *)
(*                                                                         *)
(* reanchorEvent reads the attestation's status without a lock; then       *)
(* EnqueueAnchor resets the jobs it sees, inserts one when it sees none,   *)
(* and updates the attestation.  Two requests may both see none.           *)
(*                                                                         *)
(* The worker's loop begins only if the anchorer it was given is enabled.  *)
(* The two the server ships, "off" and "log", are not, and reanchorEvent   *)
(* queues all the same; a real one is announced with the real mode.        *)
(***************************************************************************)
EXTENDS Integers, FiniteSets, Tables

CONSTANTS Attestations, Jobs,
          Requests,          \* requests of producers to anchor
          AnchorWorkers, AnchorAttempts,
          MaxStops           \* bound: replicas that stop amid a batch

ASSUME AnchorsAssumption ==
    AnchorAttempts \in Nat \ {0} /\ MaxStops \in Nat

VARIABLES
    enabled,   \* anchorer.Enabled()
    anchor,    \* anchor_status of each attestation
    jobs,      \* the rows of chain_jobs
    request,   \* the requests under way
    batch,     \* what each worker has locked, and what it will write of it
    chain,     \* transactions on the chain, by attestation
    stops

anchors == <<enabled, anchor, jobs, request, batch, chain, stops>>

Status == {"none", "pending", "anchored", "failed"}
Job == [of : Attestations, status : {"pending", "done", "failed"}, attempts : 0..AnchorAttempts, due : BOOLEAN]
Waiting(a) == [of |-> a, status |-> "pending", attempts |-> 0, due |-> TRUE]
Resting == [todo |-> {}, jobs |-> << >>, status |-> << >>]

AnchorsTypeOK ==
    /\ enabled \in BOOLEAN
    /\ anchor \in [Attestations -> Status]
    /\ DOMAIN jobs \subseteq Jobs /\ \A j \in DOMAIN jobs : jobs[j] \in Job
    /\ \A r \in Requests : request[r].at \in {"new", "asked", "resets", "inserts", "ended"}
    /\ \A k \in AnchorWorkers : batch[k].todo \cup DOMAIN batch[k].jobs \subseteq DOMAIN jobs
    /\ \A a \in Attestations : chain[a] \in Nat
    /\ stops \in 0..MaxStops

AnchorsInit ==
    /\ enabled \in BOOLEAN
    /\ anchor = [a \in Attestations |-> "none"] /\ chain = [a \in Attestations |-> 0]
    /\ jobs = << >> /\ stops = 0
    /\ request = [r \in Requests |-> [at |-> "new", of |-> CHOOSE a \in Attestations : TRUE, rows |-> {}]]
    /\ batch = [k \in AnchorWorkers |-> Resting]

(***************************************************************************)
(* Who holds a row until the transaction ends.                             *)
(***************************************************************************)
Claimed == UNION {batch[k].todo \cup DOMAIN batch[k].jobs : k \in AnchorWorkers}
Resetting == UNION {request[r].rows : r \in Requests}
WrittenBy(k) == DOMAIN batch[k].status

Reanchor(r, a) ==
    /\ request[r].at = "new" /\ anchor[a] \in {"none", "failed"}
    /\ request' = [request EXCEPT ![r] = [at |-> "asked", of |-> a, rows |-> {}]]
    /\ UNCHANGED <<enabled, anchor, jobs, batch, chain, stops>>

EnqueueAnchor(r) ==
    LET seen == {j \in DOMAIN jobs : jobs[j].of = request[r].of}
    IN  /\ request[r].at = "asked" /\ seen \cap (Claimed \cup Resetting) = {}
        /\ request' = [request EXCEPT ![r].at = IF seen = {} THEN "inserts" ELSE "resets", ![r].rows = seen]
        /\ UNCHANGED <<enabled, anchor, jobs, batch, chain, stops>>

MarkPendingMutant(r) ==
    LET a == request[r].of
    IN  /\ request[r].at \in {"resets", "inserts"}
        /\ \A k \in AnchorWorkers : a \notin WrittenBy(k)
        /\ IF request[r].at = "resets"
           THEN UNCHANGED jobs
           ELSE \E j \in Jobs \ DOMAIN jobs : jobs' = Over(OneRow(j, Waiting(a)), jobs)
        /\ anchor' = [anchor EXCEPT ![a] = "pending"]
        /\ request' = [request EXCEPT ![r].at = "ended", ![r].rows = {}]
        /\ UNCHANGED <<enabled, batch, chain, stops>>

MarkPending(r) ==
    LET a == request[r].of
    IN  /\ request[r].at \in {"resets", "inserts"}
        /\ \A k \in AnchorWorkers : a \notin WrittenBy(k)
        /\ IF request[r].at = "resets"
           THEN jobs' = Over([j \in request[r].rows |-> Waiting(a)], jobs)
           ELSE \E j \in Jobs \ DOMAIN jobs : jobs' = Over(OneRow(j, Waiting(a)), jobs)
        /\ anchor' = [anchor EXCEPT ![a] = "pending"]
        /\ request' = [request EXCEPT ![r].at = "ended", ![r].rows = {}]
        /\ UNCHANGED <<enabled, batch, chain, stops>>

(***************************************************************************)
(* The worker.                                                             *)
(***************************************************************************)
Pending == {j \in DOMAIN jobs : jobs[j].status = "pending" /\ jobs[j].due} \ (Claimed \cup Resetting)

FetchJobs(k) ==
    /\ enabled /\ batch[k] = Resting /\ Pending # {}
    /\ batch' = [batch EXCEPT ![k].todo = Pending]
    /\ UNCHANGED <<enabled, anchor, jobs, request, chain, stops>>

Writes(k, j, row, status) ==
    LET a == jobs[j].of
    IN  /\ \A v \in AnchorWorkers \ {k} : a \notin WrittenBy(v)
        /\ batch' = [batch EXCEPT ![k] = [todo |-> @.todo \ {j}, jobs |-> Over(OneRow(j, row), @.jobs),
                                          status |-> Over(OneRow(a, status), @.status)]]

SendAnchor(k, j) ==
    /\ j \in batch[k].todo
    /\ chain' = [chain EXCEPT ![jobs[j].of] = @ + 1]
    /\ Writes(k, j, [jobs[j] EXCEPT !.status = "done", !.attempts = @ + 1], "anchored")
    /\ UNCHANGED <<enabled, anchor, jobs, request, stops>>

Retries(j) == jobs[j].attempts + 1 < AnchorAttempts

AnchorFailsMutant(k, j) ==
    /\ j \in batch[k].todo
    /\ Writes(k, j, [jobs[j] EXCEPT !.attempts = @ + 1, !.due = FALSE,
                                    !.status = IF Retries(j) THEN "pending" ELSE "failed"], "pending")
    /\ UNCHANGED <<enabled, anchor, jobs, request, chain, stops>>

AnchorFails(k, j) ==
    /\ j \in batch[k].todo
    /\ LET row == [jobs[j] EXCEPT !.attempts = @ + 1, !.due = FALSE]
       IN  IF Retries(j)
           THEN Writes(k, j, row, "pending")
           ELSE Writes(k, j, [row EXCEPT !.status = "failed"], "failed")
    /\ UNCHANGED <<enabled, anchor, jobs, request, chain, stops>>

CommitJobs(k) ==
    /\ batch[k] # Resting /\ batch[k].todo = {}
    /\ jobs' = Over(batch[k].jobs, jobs) /\ anchor' = Over(batch[k].status, anchor)
    /\ batch' = [batch EXCEPT ![k] = Resting]
    /\ UNCHANGED <<enabled, request, chain, stops>>

LoseJobs(k) ==
    /\ batch[k] # Resting /\ stops < MaxStops
    /\ stops' = stops + 1
    /\ batch' = [batch EXCEPT ![k] = Resting]
    /\ UNCHANGED <<enabled, anchor, jobs, request, chain>>

JobFallsDue(j) ==
    /\ jobs[j].status = "pending" /\ ~jobs[j].due
    /\ j \notin Claimed \cup Resetting
    /\ jobs' = [jobs EXCEPT ![j].due = TRUE]
    /\ UNCHANGED <<enabled, anchor, request, batch, chain, stops>>

AnchorPass(k) ==
    \/ FetchJobs(k) \/ CommitJobs(k)
    \/ \E j \in batch[k].todo : SendAnchor(k, j) \/ AnchorFails(k, j)

AnchorsNext ==
    \/ \E r \in Requests : EnqueueAnchor(r) \/ MarkPending(r) \/ \E a \in Attestations : Reanchor(r, a)
    \/ \E k \in AnchorWorkers : AnchorPass(k) \/ LoseJobs(k)
    \/ \E j \in DOMAIN jobs : JobFallsDue(j)

AnchorsSpec == AnchorsInit /\ [][AnchorsNext]_anchors

(***************************************************************************)
(* Properties.                                                             *)
(***************************************************************************)
\* "Nada vira 'anchored' sem transacao real", and an attestation that says it
\* is pending has a job that will tell: however requests and replicas overlap.
AnchorIsReal ==
    \A a \in Attestations :
        /\ anchor[a] = "anchored" => chain[a] > 0
        /\ anchor[a] = "pending" => \E j \in DOMAIN jobs : jobs[j].of = a /\ jobs[j].status = "pending"

\* With an anchorer that is enabled, no attestation is pending for good.
AnchorsEnd == <>[](enabled => \A a \in Attestations : anchor[a] # "pending")

(***************************************************************************)
(* What the code's comments say and the model refutes.                     *)
(***************************************************************************)
\* "So aceita atestado 'failed' ou 'none'" (api/attest.go:209-210): what is
\* anchored stays so.
AnchoredStays == [][\A a \in Attestations : anchor[a] = "anchored" => anchor'[a] = "anchored"]_<<anchor>>

\* "Reenfileira a ancora de um atestado (reancoragem manual)": with neither of the
\* anchorers the server ships does anybody take the job.
ReanchorIsServed == <>[](\A a \in Attestations : anchor[a] # "pending")
=============================================================================
