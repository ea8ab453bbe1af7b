------------------------------- MODULE MCShop -------------------------------
EXTENDS Shop, TLC

CONSTANTS Early, Late, Box, Vip

Row(price, quantity, end, min, max, availability, trigger) ==
    [price |-> price, quantity |-> quantity, start |-> 0, end |-> end, min |-> min, max |-> max,
     hidden |-> FALSE, availability |-> availability, trigger |-> trigger]

ThreeLots == <<Early, Late, Box>>

\* Two lots of the queue and one sold on its own, or by link: the first turns by date or by selling out.
SomeRows ==
    (Early :> {Row(1000, 1, 1, 1, 2, "sequential", t) : t \in {"sellout", "date"}})
    @@ (Late :> {Row(1511, 3, 3, 1, 2, "sequential", "either")})
    @@ (Box :> {Row(3000, 4, 2, 2, 2, "always", "either")})

VipOpensTheBox == Vip :> Box
VipThrice == Vip :> 3
VipEnds == Vip :> 1

Ask(l, k, qty, half, coupon, method, parts) ==
    [lot |-> l, link |-> k, qty |-> qty, half |-> half, coupon |-> coupon,
     method |-> method, parts |-> parts]

SomeAsks == {Ask(None, None, 1, 1, TRUE, "pix", 1), Ask(Box, Vip, 2, 1, TRUE, "card", 3)}

\* A Pix at a fixed price makes the total of a face a whole number of cents.
PixFee == [pct |-> 0, fixed |-> 199]
CardTiers == <<[min |-> 1, max |-> 1, pct |-> 299, fixed |-> 49],
               [min |-> 2, max |-> 6, pct |-> 349, fixed |-> 49]>>

Interchangeable == Permutations(Buyers)

(***************************************************************************)
(* The run takes one side at a time, chosen at the start: three lots that  *)
(* nobody edits, or one lot whose quantity an edit from an old row may     *)
(* bring down to one while the clock stands still.                         *)
(***************************************************************************)
VARIABLE side

DownToOne == (Early :> {}) @@ (Late :> {[quantity |-> 1]}) @@ (Box :> {})

OnSide == /\ side = "offer" => edit' = None
          /\ side = "stock" => DOMAIN lot' \subseteq {Late} /\ now' = 0

MCInit == Init /\ side \in {"offer", "stock"}
MCNext == Next /\ OnSide /\ UNCHANGED side
MCSpec == MCInit /\ [][MCNext]_<<vars, side>>
=============================================================================
