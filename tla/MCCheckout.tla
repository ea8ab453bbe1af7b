----------------------------- MODULE MCCheckout -----------------------------
(* Instances of Checkout for TLC.  A tick stands for five minutes.         *)
EXTENDS Checkout, TLC

CONSTANTS s1, s2, b1, b2, l1, l2, a1, a2, a3, e1, e2, ip

\* One lot of two numbered seats: both, or one of them.
OneEvent == [l \in Lots |-> e1]
OneAddress == [b \in Browsers |-> ip]
SeatedQuantity == [l \in Lots |-> 3]
SeatedSelections == {[lot |-> l1, qty |-> 2, seats |-> {a1, a2}], [lot |-> l1, qty |-> 1, seats |-> {a2}]}

\* Standing room: quantities only.
StandingQuantity == [l \in Lots |-> 3]
StandingSelections == {[lot |-> l1, qty |-> q, seats |-> {}] : q \in 1..2}

\* One lot sold with a map, both seats, and without one, one place: a second
\* issue would fit in the lot.
AnySelections == {[lot |-> l1, qty |-> 2, seats |-> {a1, a2}], [lot |-> l1, qty |-> 1, seats |-> {}]}

\* Two events: any seat of the row, or standing room.
TwoEvents == (l1 :> e1) @@ (l2 :> e2)
RowOfThree == {<<a1, a2, a3>>}
TwoEventSelections == {[lot |-> l1, qty |-> 1, seats |-> {a}] : a \in Seats}
                          \cup {[lot |-> l2, qty |-> q, seats |-> {}] : q \in 1..2}

\* No constant tells apart sessions, orders, holds or, with one address, browsers.
Symmetry == Permutations(Sessions) \cup Permutations(Orders)
                \cup Permutations(Holds) \cup Permutations(Browsers)
=============================================================================
