-------------------------------- MODULE Fees --------------------------------
(***************************************************************************)
(* The table of the gateway's fees, without which nothing has a price: in  *)
(* the memory of each replica while it is fresh, else asked of the         *)
(* gateway, else the last one kept in the database.                        *)
(*                                                                         *)
(* Nothing is locked between one of these and the next: a replica's calls  *)
(* may all ask at once and store their answers in any order, and storing   *)
(* is two steps, the memory and the database, of which the second may      *)
(* fail without anybody being told.                                        *)
(***************************************************************************)
EXTENDS Integers

CONSTANTS Replicas, Callers, ReplicaOf,
          Last            \* bound: the tables the gateway has in turn, 1..Last

ASSUME FeesCallersAssumption ==
    /\ ReplicaOf \in [Callers -> Replicas]
    /\ Last \in Nat \ {0}

Unknown == 0

VARIABLES
    current,   \* the table of the account at the gateway
    up,        \* does the gateway answer, and with a complete table?
    cached,    \* the table in the memory of each replica, and whether it is fresh
    stored,    \* asaas_fee_table
    ready,     \* the replicas that have started
    call       \* the calls of Current, and of Refresh by a replica that starts

fees == <<current, up, cached, stored, ready, call>>

Quiet == [at |-> "idle", boot |-> FALSE, table |-> Unknown]

FeesTypeOK ==
    /\ current \in 1..Last /\ up \in BOOLEAN /\ stored \in 0..Last
    /\ cached \in [Replicas -> [table : 0..Last, fresh : BOOLEAN]]
    /\ ready \subseteq Replicas
    /\ call \in [Callers -> [at : {"idle", "asks", "answered", "persists", "loads", "loaded"},
                             boot : BOOLEAN, table : 0..Last]]

FeesInit ==
    /\ current = 1 /\ up \in BOOLEAN /\ stored = Unknown
    /\ cached = [r \in Replicas |-> [table |-> Unknown, fresh |-> FALSE]]
    /\ ready = {}
    /\ call = [c \in Callers |-> Quiet]

\* Complete, and younger than CacheTTL: what a sale is priced with, nobody being asked.
ServesMutant(r) == cached[r].table # Unknown
Serves(r) == cached[r].table # Unknown /\ cached[r].fresh

Goes(c, where, table) == call' = [call EXCEPT ![c].at = where, ![c].table = table] /\ UNCHANGED ready
Ends(c) == call' = [call EXCEPT ![c] = Quiet] /\ ready' = ready \cup {ReplicaOf[c]}
Caches(c) == cached' = [cached EXCEPT ![ReplicaOf[c]] = [table |-> call[c].table, fresh |-> TRUE]]

Asks(c, boot) ==
    /\ call[c].at = "idle"
    /\ call' = [call EXCEPT ![c] = [Quiet EXCEPT !.at = "asks", !.boot = boot]]
    /\ UNCHANGED <<current, up, cached, stored, ready>>

\* Current goes further only when the memory does not do.
AskFees(c) == ReplicaOf[c] \in ready /\ ~Serves(ReplicaOf[c]) /\ Asks(c, FALSE)

\* The process does not look at the memory when it starts, and serves nobody before.
RefreshFees(c) ==
    /\ ReplicaOf[c] \notin ready /\ \A d \in Callers : ReplicaOf[d] = ReplicaOf[c] => call[d] = Quiet
    /\ Asks(c, TRUE)

\* No answer, or an incomplete table, sends Current to the database and ends Refresh.
GatewayFees(c) ==
    /\ call[c].at = "asks"
    /\ IF up THEN Goes(c, "answered", current)
       ELSE IF call[c].boot THEN Ends(c) ELSE Goes(c, "loads", Unknown)
    /\ UNCHANGED <<current, up, cached, stored>>

StoreCache(c) ==
    /\ call[c].at = "answered"
    /\ Caches(c) /\ Goes(c, "persists", call[c].table)
    /\ UNCHANGED <<current, up, stored>>

Persist(c) ==
    /\ call[c].at = "persists"
    /\ stored' \in {stored, call[c].table}
    /\ Ends(c)
    /\ UNCHANGED <<current, up, cached>>

Load(c) ==
    /\ call[c].at = "loads"
    /\ IF stored = Unknown THEN Ends(c) ELSE Goes(c, "loaded", stored)
    /\ UNCHANGED <<current, up, cached, stored>>

\* Contingency: the last known table is good for another CacheTTL.
Fallback(c) ==
    /\ call[c].at = "loaded"
    /\ Caches(c) /\ Ends(c)
    /\ UNCHANGED <<current, up, stored>>

CallStep(c) == GatewayFees(c) \/ StoreCache(c) \/ Persist(c) \/ Load(c) \/ Fallback(c)

Expire(r) ==
    /\ cached[r].fresh
    /\ cached' = [cached EXCEPT ![r].fresh = FALSE]
    /\ UNCHANGED <<current, up, stored, ready, call>>

\* The process starts again, its calls lost.
RestartReplica(r) ==
    /\ cached' = [cached EXCEPT ![r] = [table |-> Unknown, fresh |-> FALSE]]
    /\ call' = [c \in Callers |-> IF ReplicaOf[c] = r THEN Quiet ELSE call[c]]
    /\ ready' = ready \ {r}
    /\ UNCHANGED <<current, up, stored>>

\* The account's plan changes; the gateway goes down and comes back.
GatewayChanges ==
    /\ \/ current < Last /\ current' = current + 1 /\ UNCHANGED up
       \/ up' = ~up /\ UNCHANGED current
    /\ UNCHANGED <<cached, stored, ready, call>>

FeesNext ==
    \/ \E c \in Callers : AskFees(c) \/ RefreshFees(c) \/ CallStep(c)
    \/ \E r \in Replicas : Expire(r) \/ RestartReplica(r)
    \/ GatewayChanges

(***************************************************************************)
(* Properties.                                                             *)
(***************************************************************************)
\* Once the gateway stays up, no replica goes on pricing with a table that is
\* not the gateway's: whatever was stored out of order, kept from before or
\* read back from the database in the meantime is served for one CacheTTL.
FeesCatchUp == <>[]up => <>[](\A r \in Replicas : Serves(r) => cached[r].table = current)
=============================================================================
