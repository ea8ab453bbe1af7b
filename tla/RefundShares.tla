---------------------------- MODULE RefundShares ----------------------------
(***************************************************************************)
(* How the face value of an order is divided among the tickets being       *)
(* refunded: ticketFaces and mulDiv of internal/checkout/refund.go.        *)
(***************************************************************************)
EXTENDS Integers, FiniteSets, Functions

\* v * num / den rounded to the nearest integer, half up.
MulDiv(v, num, den) == IF den = 0 THEN 0 ELSE (v * num + den \div 2) \div den

\* One more cent to the heaviest ticket, whose weight then drops by one.
Topped(share) ==
    LET best == CHOOSE t \in DOMAIN share.weight :
                   \A u \in DOMAIN share.weight : share.weight[t] >= share.weight[u]
    IN  [face |-> [share.face EXCEPT ![best] = @ + 1],
         weight |-> [share.weight EXCEPT ![best] = @ - 1]]

(***************************************************************************)
(* The face of each active ticket: what the order has left, in proportion  *)
(* to the price of each ticket's item, equal parts where no price is       *)
(* usable.  What the rounding leaves over is given out cent by cent; what  *)
(* it hands out in excess is not taken back.                               *)
(***************************************************************************)
TicketFaces(active, price, left) ==
    LET priced == SumFunctionOnSet(price, active)
        weight == [t \in active |-> IF priced > 0 THEN price[t] ELSE 1]
        whole  == IF priced > 0 THEN priced ELSE Cardinality(active)
        base   == [t \in active |-> MulDiv(left, weight[t], whole)]
        given  == SumFunction(base)
        rest   == IF left > given THEN left - given ELSE 0
        share[n \in 0..rest] == IF n = 0 THEN [face |-> base, weight |-> weight]
                                         ELSE Topped(share[n - 1])
    IN  share[rest].face
=============================================================================
