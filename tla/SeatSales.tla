------------------------------ MODULE SeatSales ------------------------------
(***************************************************************************)
(* What the sale promises about numbered seats, with nothing about         *)
(* sessions, orders, payments or clocks.  A seat has at most one owner: a  *)
(* reservation or a ticket.  A reservation takes all of its seats at once, *)
(* keeps all of them while it is in force and sells all it still has at    *)
(* once; a seat that is sold keeps its ticket.                             *)
(***************************************************************************)
CONSTANTS Seats, Reservations, Tickets, Nobody

VARIABLES owner,   \* who has each seat
          state    \* "unused", "in force", "over" or "sold"

vars == <<owner, state>>

Owner == Reservations \cup Tickets \cup {Nobody}

TypeOK == /\ owner \in [Seats -> Owner]
          /\ state \in [Reservations -> {"unused", "in force", "over", "sold"}]

Init == /\ owner = [s \in Seats |-> Nobody]
        /\ state = [r \in Reservations |-> "unused"]

InForce == {r \in Reservations : state[r] = "in force"}

SeatsOf(r) == {s \in Seats : owner[s] = r}

Ended(R) == [r \in Reservations |-> IF r \in R THEN "over" ELSE state[r]]

\* Reservations R end; the seats F they or earlier ones left behind are freed.
End(R, F) ==
    /\ R \subseteq InForce
    /\ state' = Ended(R)
    /\ \A s \in F : owner[s] \in Reservations /\ state'[owner[s]] = "over"
    /\ owner' = [s \in Seats |-> IF s \in F THEN Nobody ELSE owner[s]]

\* The same, and then r takes the seats S, none of them sold or kept by a
\* reservation in force.
Reserve(R, F, r, S) ==
    /\ state[r] = "unused"
    /\ S # {}
    /\ R \subseteq InForce
    /\ state' = [Ended(R) EXCEPT ![r] = "in force"]
    /\ \A s \in F : owner[s] \in Reservations /\ state'[owner[s]] = "over"
    /\ \A s \in S : owner[s] = Nobody \/ s \in F
    /\ owner' = [s \in Seats |-> IF s \in S THEN r ELSE IF s \in F THEN Nobody ELSE owner[s]]

\* r becomes one new ticket per seat it has: all of its seats while it is in force,
\* what nobody has taken from it when it is over.
Sell(r, ticket) ==
    /\ state[r] \in {"in force", "over"}
    /\ \A s \in SeatsOf(r) : \A x \in Seats : owner[x] # ticket[s]
    /\ \A s, x \in SeatsOf(r) : ticket[s] = ticket[x] => s = x
    /\ state' = [state EXCEPT ![r] = "sold"]
    /\ owner' = [s \in Seats |-> IF s \in SeatsOf(r) THEN ticket[s] ELSE owner[s]]

\* A ticket is given for a seat nobody has.
Give(s, t) ==
    /\ owner[s] = Nobody
    /\ \A x \in Seats : owner[x] # t
    /\ owner' = [owner EXCEPT ![s] = t]
    /\ UNCHANGED state

Next ==
    \/ \E R \in SUBSET InForce, F \in SUBSET {s \in Seats : owner[s] \in Reservations} :
          \/ End(R, F)
          \/ \E r \in Reservations, S \in SUBSET Seats : Reserve(R, F, r, S)
    \/ \E r \in Reservations : \E ticket \in [SeatsOf(r) -> Tickets] : Sell(r, ticket)
    \/ \E s \in Seats, t \in Tickets : Give(s, t)

Spec == Init /\ [][Next]_vars
=============================================================================
