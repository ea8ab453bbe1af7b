------------------------------- MODULE Prices -------------------------------
(***************************************************************************)
(* What an order costs, in cents and hundredths of a per cent: the         *)
(* half-price positions, the coupon, the platform's fee, the gateway's fee *)
(* and the instalments.  The program divides floating-point numbers and    *)
(* rounds.  Where that may differ from the rounding of the exact quotient  *)
(* the amount is any of a set: a quotient that is a whole number may be    *)
(* rounded up one cent above it, and half a cent may be rounded down.      *)
(***************************************************************************)
EXTENDS Integers, Sequences

CONSTANTS Pix,                \* the gateway's fee of a Pix, [pct, fixed]
          Tiers,              \* its credit-card fees, in the order of the table
          MaxInstallments,    \* 12 in the code
          MinInstallmentCents \* 500 in the code

FeeRow == [pct : 0..9999, fixed : Nat]

ASSUME FeesAssumption ==
    /\ Pix \in FeeRow
    /\ Tiers \in Seq([min : Nat, max : Nat, pct : 0..9999, fixed : Nat])
    /\ MaxInstallments \in Nat \ {0} /\ MinInstallmentCents \in Nat \ {0}

\* The tiers of the table a number of instalments falls in.
TiersFor(installments) == {i \in DOMAIN Tiers : installments \in Tiers[i].min..Tiers[i].max}

\* Fees.For: the fee of a method, of the first tier that has it; none when there is no tier for
\* it, which is an error.
FeeFor(method, installments) ==
    IF method = "pix"
    THEN {Pix}
    ELSE {[pct |-> Tiers[i].pct, fixed |-> Tiers[i].fixed] :
             i \in {j \in TiersFor(installments) : \A k \in TiersFor(installments) : j <= k}}

\* Half-price positions pay half of the unit price, rounded down, each.
Subtotal(price, quantity, half) == (quantity - half) * price + half * (price \div 2)

\* insertOrderItems: the positions without a seat, the full ones and the half-price ones apart.
OrderItems(price, quantity, half) ==
    [full |-> [quantity |-> quantity - half, unit |-> price],
     half |-> [quantity |-> half, unit |-> price \div 2]]

ItemsTotal(items) ==
    items.full.quantity * items.full.unit + items.half.quantity * items.half.unit

\* A coupon of pct hundredths of a per cent, rounded to the nearest cent, half a cent either way,
\* and never above the subtotal.
Discounts(pct, subtotal) ==
    {IF off <= subtotal THEN off ELSE subtotal :
        off \in {(subtotal * pct + 4999) \div 10000, (subtotal * pct + 5000) \div 10000}}

\* Ten per cent of the face.
PlatformFeeCents(face) == IF face <= 0 THEN 0 ELSE (face * 10 + 50) \div 100

CeilDiv(a, b) == (a + b - 1) \div b

\* A quotient of floating-point numbers rounded up: one more, at times, when it is whole.
CeilDivs(a, b) == {CeilDiv(a, b), a \div b + 1}

\* Mutant: the total rounded down.
TotalsMutant(face, fee) == {(face * 11000 + fee.fixed * 10000) \div (10000 - fee.pct)}

\* Total: V = (F (1 + p) + b) / (1 - a), always rounded up.
Totals(face, fee) == CeilDivs(face * 11000 + fee.fixed * 10000, 10000 - fee.pct)

\* Compute: how a total charged for a face splits; nothing is charged for a free order.
Compute(face, total) ==
    IF face <= 0
    THEN [face |-> 0, platform |-> 0, processing |-> 0, total |-> 0]
    ELSE LET platform == PlatformFeeCents(face)
             rest     == total - face - platform
         IN  [face |-> face, platform |-> platform,
              processing |-> IF rest < 0 THEN 0 ELSE rest, total |-> total]

\* What the gateway keeps of a charge.  The gateway computes it, in cents.
GatewayKeeps(total, fee) == CeilDiv(total * fee.pct, 10000) + fee.fixed

\* In how many instalments a total may be paid, for the floor of one instalment.
MaxInstallmentsFor(total) ==
    LET n == total \div MinInstallmentCents
    IN  IF n < 1 THEN 1 ELSE IF n > MaxInstallments THEN MaxInstallments ELSE n

ValidInstallments(n, total) == n <= 1 \/ n <= MaxInstallmentsFor(total)
=============================================================================
