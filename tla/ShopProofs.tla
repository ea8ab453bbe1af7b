----------------------------- MODULE ShopProofs -----------------------------
(***************************************************************************)
(* Theorems of the shop, for any queue of lots, links, coupon, buyers and  *)
(* edits: the loop over the queue offers what the queue's rules say; the   *)
(* counters of a lot are the units sold and those reserved, less what was  *)
(* given back twice; and the books agree to the cent.                      *)
(***************************************************************************)
EXTENDS Shop, Sums, SequenceTheorems

-----------------------------------------------------------------------------
(* What is on offer                                                        *)

LEMMA Places == Len(Queue) \in Nat /\ DOMAIN Queue = 1..Len(Queue) /\ \A i \in DOMAIN Queue : Queue[i] \in Lots
<1>1. Queue \in Seq(Lots)
  BY ShopAssumption
<1> QED BY <1>1, LenProperties, ElementOfSeq

\* catalog.go:480, filaResolvida: after some turns of the loop the queue has settled if one of
\* the lots it has passed settles it.
LEMMA SettledIs == \A i \in 0..Len(Queue) : Settled[i] <=> \E j \in 1..i : Settles(Queue[j])
<1> DEFINE f == [i \in 0..Len(Queue) |-> \E j \in 1..i : Settles(Queue[j])]
<1>1. Len(Queue) \in Nat
  BY Places
<1>2. \A i \in 0..Len(Queue) : f[i] = (i > 0 /\ (f[i - 1] \/ Settles(Queue[i])))
  <2> SUFFICES ASSUME NEW i \in 0..Len(Queue) PROVE f[i] <=> (i > 0 /\ (f[i - 1] \/ Settles(Queue[i])))
    OBVIOUS
  <2>1. CASE i = 0
    BY <2>1
  <2>2. CASE i > 0
    <3>1. 1..i = (1..(i - 1)) \cup {i} /\ i - 1 \in 0..Len(Queue)
      BY <1>1, <2>2
    <3> QED BY <2>2, <3>1
  <2> QED BY <1>1, <2>1, <2>2
<1>3. f = [i \in 0..Len(Queue) |-> i > 0 /\ (f[i - 1] \/ Settles(Queue[i]))]
  BY <1>2
<1>4. Settled = [i \in 0..Len(Queue) |-> i > 0 /\ (Settled[i - 1] \/ Settles(Queue[i]))]
  <2> HIDE DEF f
  <2> QED BY <1>3 DEF Settled
<1> DEFINE Bad == {i \in 0..Len(Queue) : ~(Settled[i] <=> \E j \in 1..i : Settles(Queue[j]))}
<1> SUFFICES ASSUME Bad # {} PROVE FALSE
  OBVIOUS
<1>5. PICK i \in Bad : \A k \in Bad : i <= k
  <2> HIDE DEF Bad
  <2>1. Bad \subseteq 0..Len(Queue)
    BY DEF Bad
  <2> QED BY <1>1, <2>1, Least
<1>6. Settled[i] <=> i > 0 /\ (Settled[i - 1] \/ Settles(Queue[i]))
  BY <1>4
<1>7. CASE i = 0
  BY <1>6, <1>7
<1>8. CASE i > 0
  <2>1. 1..i = (1..(i - 1)) \cup {i} /\ i - 1 \in 0..Len(Queue) /\ ~(i <= i - 1)
    BY <1>1, <1>8
  <2>2. Settled[i - 1] <=> \E j \in 1..(i - 1) : Settles(Queue[j])
    BY <1>5, <2>1
  <2> QED BY <1>6, <1>8, <2>1, <2>2
<1> QED BY <1>1, <1>7, <1>8

\* The loop finds the lots that the rules of the queue name.
LEMMA OfferedIs == OfferedAt = {i \in DOMAIN Queue : OnOffer(i)}
<1> SUFFICES ASSUME NEW i \in DOMAIN Queue PROVE i \in OfferedAt <=> OnOffer(i)
  BY DEF OfferedAt
<1>1. i - 1 \in 0..Len(Queue)
  BY Places
<1>2. Settled[i - 1] <=> \E j \in 1..(i - 1) : Settles(Queue[j])
  BY <1>1, SettledIs
<1> QED BY <1>2 DEF OfferedAt, OnOffer, Settles, InTurn

\* Whatever the lots, their dates, modes, counters and places, the page offers those the rules
\* of the queue name, and the current one is the first (catalog.go:461, public_catalog.go:232).
THEOREM OfferFollowsTheQueue == Spec => []OfferIsTheQueue
<1>1. OfferIsTheQueue
  <2> DEFINE offered == {i \in DOMAIN Queue : OnOffer(i)}
             first   == {j \in offered : \A k \in offered : j <= k}
  <2>1. OfferedAt = offered
    BY OfferedIs
  <2>2. AvailableLots \subseteq {l \in ListLots : ~lot[l].row.hidden}
    BY DEF AvailableLots, OfferedAt, Visible
  <2>3. offered # {} => first # {}
    <3>1. offered \subseteq 0..Len(Queue) /\ Len(Queue) \in Nat
      BY Places
    <3> HIDE DEF offered
    <3> QED BY <3>1, Least
  <2> HIDE DEF offered
  <2> QED BY <2>1, <2>2, <2>3 DEF OfferIsTheQueue, Page, AvailableLots, CurrentLot, offered
<1> QED BY <1>1, PTL

-----------------------------------------------------------------------------
(* Prices                                                                  *)

\* A quotient rounded up is the least number of divisors that covers the dividend.
LEMMA CeilCovers ==
    ASSUME NEW a \in Nat, NEW b \in Nat, b > 0
    PROVE  /\ CeilDiv(a, b) \in Nat
           /\ CeilDiv(a, b) * b >= a
           /\ CeilDiv(a, b) * b < a + b
<1> DEFINE n == a + b - 1
<1> DEFINE q == n \div b
<1> DEFINE r == n % b
<1>1. n \in Nat
  OBVIOUS
<1>2. q \in Int /\ r \in 0..(b - 1) /\ n = b * q + r
  BY <1>1, Z3
<1>3. b * q = q * b /\ q * b \in Int
  BY <1>2, Z3
<1>4. q * b >= a /\ q * b < a + b
  <2> HIDE DEF q, r
  <2>. QED
    BY <1>2, <1>3
<1>5. q >= 0
  <2> HIDE DEF q, r, n
  <2>1. CASE q < 0
    <3>1. b * q <= 0 - b
      BY <2>1, <1>2, Z3
    <3>. QED
      BY <3>1, <1>3, <1>4, <2>1
  <2>. QED
    BY <2>1, <1>2
<1>. QED
  BY <1>2, <1>4, <1>5 DEF CeilDiv

LEMMA CeilsCover ==
    ASSUME NEW a \in Nat, NEW b \in Nat, b > 0, NEW c \in CeilDivs(a, b)
    PROVE  c \in Nat /\ c * b >= a
<1>1. CASE c = CeilDiv(a, b)
  BY <1>1, CeilCovers
<1>2. CASE c = a \div b + 1
  <2> DEFINE q == a \div b
             r == a % b
  <2>1. q \in Nat /\ r \in 0..(b - 1) /\ a = b * q + r
    BY Z3
  <2>2. b * q = q * b /\ (q + 1) * b = q * b + b /\ q * b \in Int
    BY <2>1, Z3
  <2>3. c = q + 1
    BY <1>2
  <2> HIDE DEF q, r
  <2> QED BY <2>1, <2>2, <2>3
<1> QED BY <1>1, <1>2 DEF CeilDivs

\* What is left of a charge once the gateway has kept its fee covers the producer's face and
\* the platform's ten per cent, rounded down, for every table of fees (pricing.go:52).
THEOREM ChargeCoversFace ==
    ASSUME NEW face \in Nat, face > 0, NEW fee \in FeeRow,
           NEW total \in Totals(face, fee)
    PROVE  total - GatewayKeeps(total, fee) >= face + face \div 10
<1> DEFINE a == fee.pct
<1> DEFINE b == fee.fixed
<1>1. a \in 0..9999 /\ b \in Nat
  BY DEF FeeRow
<1> HIDE DEF a, b
<1> DEFINE charge == face * 11000 + b * 10000
<1> DEFINE kept == total * a
<1> DEFINE K == CeilDiv(kept, 10000)
<1>2. /\ charge \in Nat /\ charge = face * 11000 + b * 10000
      /\ 10000 - a \in Nat /\ 10000 - a > 0
  BY <1>1
<1> HIDE DEF charge
<1>3. total \in Nat /\ total * (10000 - a) >= charge
  <2>1. total \in CeilDivs(charge, 10000 - a)
    BY DEF Totals, charge, a, b
  <2> QED BY <1>2, <2>1, CeilsCover
<1>4. kept \in Nat /\ total * (10000 - a) = total * 10000 - kept
  BY <1>1, <1>3
<1> HIDE DEF kept
<1>5. K \in Nat /\ K * 10000 < kept + 10000
  BY <1>4, CeilCovers
<1> HIDE DEF K
<1>6. total - (K + b) >= face + face \div 10
  BY <1>1, <1>2, <1>3, <1>4, <1>5
<1>. QED
  BY <1>6 DEF K, kept, a, b, GatewayKeeps

\* A method has one fee at most, for a number of instalments.
LEMMA OneFee ==
  ASSUME NEW method, NEW parts, NEW fee \in FeeFor(method, parts)
  PROVE  fee \in FeeRow /\ FeeFor(method, parts) = {fee}
<1>1. CASE method = "pix"
  BY <1>1, FeesAssumption DEF FeeFor
<1>2. CASE method # "pix"
  <2> DEFINE first == {j \in TiersFor(parts) : \A k \in TiersFor(parts) : j <= k}
             Tier == [min : Nat, max : Nat, pct : 0..9999, fixed : Nat]
             FeeOf(i) == [pct |-> Tiers[i].pct, fixed |-> Tiers[i].fixed]
  <2>1. FeeFor(method, parts) = {FeeOf(i) : i \in first}
    BY <1>2 DEF FeeFor
  <2>2. Tiers \in Seq(Tier)
    BY FeesAssumption
  <2>3. DOMAIN Tiers = 1..Len(Tiers) /\ Len(Tiers) \in Nat
    BY <2>2, LenProperties
  <2>4. \A i, j \in first : i = j
    BY <2>3 DEF TiersFor
  <2>5. PICK i \in first : fee = FeeOf(i)
    BY <2>1
  <2>6. PICK t \in Tier : t = Tiers[i]
    <3>1. i \in 1..Len(Tiers)
      BY <2>3 DEF TiersFor
    <3> HIDE DEF Tier
    <3> QED BY <2>2, <3>1, ElementOfSeq
  <2>7. fee = [pct |-> t.pct, fixed |-> t.fixed]
    BY <2>5, <2>6, Zenon
  <2>8. fee \in FeeRow
    BY <2>7 DEF FeeRow
  <2> HIDE DEF first, FeeOf
  <2> QED BY <2>1, <2>4, <2>5, <2>8
<1> QED BY <1>1, <1>2

\* A bill splits what its items come to into what is charged for and what the coupon takes, and
\* what the gateway leaves of the charge covers its face.
GoodBill(bill, ask) ==
    /\ bill.charge.face \in Nat /\ bill.off \in Nat /\ ItemsTotal(bill.items) = bill.charge.face + bill.off
    /\ bill.charge.face > 0 =>
          \A fee \in FeeFor(ask.method, ask.parts) :
              bill.charge.total - GatewayKeeps(bill.charge.total, fee)
                  >= bill.charge.face + bill.charge.face \div 10

LEMMA DiscountType ==
  ASSUME NEW pct \in Nat, NEW subtotal \in Nat, NEW off \in Discounts(pct, subtotal)
  PROVE  off \in 0..subtotal
<1> DEFINE n == subtotal * pct
<1>1. n \in Nat
  OBVIOUS
<1> HIDE DEF n
<1>2. (n + 4999) \div 10000 \in Nat /\ (n + 5000) \div 10000 \in Nat
  BY <1>1
<1>3. PICK c \in {(n + 4999) \div 10000, (n + 5000) \div 10000} : off = IF c <= subtotal THEN c ELSE subtotal
  BY DEF Discounts, n
<1> QED BY <1>2, <1>3

LEMMA SubtotalType ==
  ASSUME NEW price \in Nat, NEW qty \in Nat, NEW half \in 0..qty
  PROVE  Subtotal(price, qty, half) \in Nat
<1>1. qty - half \in Nat /\ half \in Nat /\ price \div 2 \in Nat
  OBVIOUS
<1>2. \A a, b \in Nat : a * b \in Nat
  OBVIOUS
<1> QED BY <1>1, <1>2 DEF Subtotal

LEMMA BillIsGood ==
  ASSUME NEW price \in Nat, NEW a \in Asks, NEW fee \in FeeFor(a.method, a.parts),
         NEW bill \in BillsAt(price, a, fee)
  PROVE  GoodBill(bill, a)
<1> DEFINE gross == Subtotal(price, a.qty, a.half)
<1>1. a.qty \in Nat /\ a.half \in 0..a.qty /\ CouponPct \in Nat
  BY ShopAssumption
<1>2. gross \in Nat
  BY <1>1, SubtotalType
<1>3. PICK off \in IF a.coupon THEN Discounts(CouponPct, gross) ELSE {0} :
        \E total \in Totals(gross - off, fee) :
            bill = [charge |-> Compute(gross - off, total), off |-> off,
                    items |-> OrderItems(price, a.qty, a.half)]
  BY DEF BillsAt
<1>4. PICK total \in Totals(gross - off, fee) :
            bill = [charge |-> Compute(gross - off, total), off |-> off,
                    items |-> OrderItems(price, a.qty, a.half)]
  BY <1>3
<1> DEFINE charge == Compute(gross - off, total)
<1>5. bill.charge = charge /\ bill.off = off /\ bill.items = OrderItems(price, a.qty, a.half)
  BY <1>4
<1>6. ItemsTotal(bill.items) = gross
  BY <1>5 DEF ItemsTotal, OrderItems, Subtotal
<1> HIDE DEF gross
<1>7. off \in 0..gross
  BY <1>1, <1>2, <1>3, DiscountType
<1>8. charge.face = gross - off /\ charge.face \in Nat
  BY <1>2, <1>7 DEF Compute
<1>9. ASSUME charge.face > 0, NEW f \in FeeFor(a.method, a.parts)
      PROVE  charge.total - GatewayKeeps(charge.total, f) >= charge.face + charge.face \div 10
  <2> DEFINE face == gross - off
  <2>1. f = fee /\ fee \in FeeRow
    BY OneFee
  <2>2. face \in Nat /\ face > 0 /\ total \in Totals(face, fee)
    BY <1>4, <1>8, <1>9
  <2>3. charge.total = total /\ charge.face = face
    BY <2>2 DEF Compute
  <2> HIDE DEF face, charge
  <2>4. total - GatewayKeeps(total, fee) >= face + face \div 10
    BY <2>1, <2>2, ChargeCoversFace
  <2> QED BY <2>1, <2>3, <2>4
<1> HIDE DEF charge
<1>10. bill.charge.face \in Nat /\ bill.off \in Nat /\ ItemsTotal(bill.items) = bill.charge.face + bill.off
  BY <1>2, <1>5, <1>6, <1>7, <1>8
<1> QED BY <1>5, <1>9, <1>10 DEF GoodBill

-----------------------------------------------------------------------------
(* Sums over the buyers                                                    *)

\* One addend changes: the sum changes by as much, and was no less than it.
LEMMA SumMoves ==
  ASSUME NEW S, IsFiniteSet(S), NEW f \in [S -> Nat], NEW g \in [S -> Nat], NEW x \in S,
         \A y \in S \ {x} : g[y] = f[y]
  PROVE  /\ SumFunction(f) \in Nat /\ SumFunction(g) \in Nat
         /\ SumFunction(g) = SumFunction(f) - f[x] + g[x]
         /\ f[x] <= SumFunction(f)
<1>1. /\ DOMAIN f = S /\ DOMAIN g = S
      /\ SumFunction(f) = SumFunctionOnSet(f, S) /\ SumFunction(g) = SumFunctionOnSet(g, S)
  BY DEF SumFunction
<1>2. \A y \in S : f[y] \in Nat /\ g[y] \in Nat /\ f[y] \in Int /\ g[y] \in Int
  OBVIOUS
<1>3. SumFunctionOnSet(f, S) \in Nat /\ SumFunctionOnSet(g, S) \in Nat
  BY <1>2, SumNat
<1>4. SumFunctionOnSet(g, S) = SumFunctionOnSet(f, S) - f[x] + g[x]
  BY <1>2, SumExcept
<1>5. IsFiniteSet(S \ {x}) /\ \A y \in S \ {x} : f[y] \in Nat
  BY <1>2, FS_Subset
<1>6. SumFunctionOnSet(f, S \ {x}) \in Nat
  BY <1>5, SumNat
<1>7. SumFunctionOnSet(f, S) = f[x] + SumFunctionOnSet(f, S \ {x})
  BY <1>2, SumRemove
<1> QED BY <1>1, <1>2, <1>3, <1>4, <1>6, <1>7

LEMMA SumZero ==
  ASSUME NEW S, IsFiniteSet(S), NEW f, DOMAIN f = S, \A x \in S : f[x] = 0
  PROVE  SumFunction(f) = 0
<1> DEFINE Bad == {T \in SUBSET S : SumFunctionOnSet(f, T) # 0}
<1> SUFFICES ASSUME Bad # {} PROVE FALSE
  BY DEF SumFunction
<1>1. PICK T \in Bad : \A U \in Bad : U \subseteq T => U = T
  <2> HIDE DEF Bad
  <2>1. Bad \subseteq SUBSET S
    BY DEF Bad
  <2> QED BY <2>1, Smallest
<1>2. IsFiniteSet(T)
  BY FS_Subset
<1>3. T # {}
  BY SumEmpty
<1>4. Any(T) \in T
  BY <1>3, AnyIsIn
<1>5. SumFunctionOnSet(f, T \ {Any(T)}) = 0
  BY <1>1, <1>4
<1> QED BY <1>2, <1>3, <1>4, <1>5, SumStep

\* The addends of Among.
Addends(S, amount) == [b \in Buyers |-> IF b \in S THEN amount[b] ELSE 0]

LEMMA AmongIs == ASSUME NEW S, NEW amount PROVE Among(S, amount) = SumFunction(Addends(S, amount))
BY DEF Among, Addends

LEMMA NobodyAmong == ASSUME NEW S, NEW amount, S \cap Buyers = {} PROVE Among(S, amount) = 0
<1> DEFINE f == Addends(S, amount)
<1>1. DOMAIN f = Buyers /\ \A b \in Buyers : f[b] = 0
  BY DEF Addends
<1> HIDE DEF f
<1>2. IsFiniteSet(Buyers)
  BY ShopAssumption
<1>3. SumFunction(f) = 0
  BY <1>1, <1>2, SumZero
<1> QED BY <1>3, AmongIs DEF f

\* What a buyer adds to a sum.
Part(S, amount, b) == IF b \in S THEN amount[b] ELSE 0

\* One buyer's part of a sum changes.
LEMMA AmongMoves ==
  ASSUME NEW S, NEW R, NEW f, NEW g, NEW b \in Buyers,
         \A x \in Buyers : Part(S, f, x) \in Nat /\ Part(R, g, x) \in Nat,
         \A x \in Buyers \ {b} : Part(R, g, x) = Part(S, f, x)
  PROVE  /\ Among(S, f) \in Nat /\ Among(R, g) \in Nat
         /\ Among(R, g) = Among(S, f) - Part(S, f, b) + Part(R, g, b)
         /\ Part(S, f, b) <= Among(S, f)
<1> DEFINE p == Addends(S, f)
           q == Addends(R, g)
<1>1. p \in [Buyers -> Nat] /\ q \in [Buyers -> Nat]
  BY DEF Part, Addends
<1>2. \A x \in Buyers : p[x] = Part(S, f, x) /\ q[x] = Part(R, g, x)
  BY DEF Part, Addends
<1>3. \A x \in Buyers \ {b} : q[x] = p[x]
  BY <1>2
<1>4. IsFiniteSet(Buyers)
  BY ShopAssumption
<1> HIDE DEF p, q
<1>5. /\ SumFunction(p) \in Nat /\ SumFunction(q) \in Nat
      /\ SumFunction(q) = SumFunction(p) - p[b] + q[b]
      /\ p[b] <= SumFunction(p)
  BY <1>1, <1>3, <1>4, SumMoves
<1>6. Among(S, f) = SumFunction(p) /\ Among(R, g) = SumFunction(q)
  BY AmongIs DEF p, q
<1> QED BY <1>2, <1>5, <1>6

LEMMA AmongType == ASSUME NEW S, NEW f, \A x \in S \cap Buyers : f[x] \in Nat PROVE Among(S, f) \in Nat
<1> DEFINE p == Addends(S, f)
<1>1. \A x \in Buyers : p[x] \in Nat
  BY DEF Addends
<1>2. IsFiniteSet(Buyers) /\ DOMAIN p = Buyers
  BY ShopAssumption DEF Addends
<1> HIDE DEF p
<1>3. SumFunctionOnSet(p, Buyers) \in Nat
  BY <1>1, <1>2, SumNat
<1> QED BY <1>2, <1>3, AmongIs DEF SumFunction, p

LEMMA FiniteLots == IsFiniteSet(Lots)
<1>1. DOMAIN Queue = 1..Len(Queue) /\ Len(Queue) \in Nat
  BY Places
<1>2. IsFiniteSet(DOMAIN Queue)
  BY <1>1, FS_Interval
<1>3. Queue \in Surjection(DOMAIN Queue, Lots)
  <2>1. Queue = [i \in DOMAIN Queue |-> Queue[i]]
    BY ShopAssumption
  <2> QED BY <2>1 DEF Surjection, Lots, Range
<1> QED BY <1>2, <1>3, FS_Surjection

-----------------------------------------------------------------------------
(* The invariant                                                           *)

Values == UNION {Column[f] : f \in Fields}
Row == {r \in [Fields -> Values] : \A f \in Fields : r[f] \in Column[f]}
Entry == [row : Row, sold : Nat, held : Nat]

\* The states of an order that has taken, or been promised, the units of a session.
Live == {"held", "paying"} \cup Placed
Begun == Live \cup {"refused"}

Checkout(V) == [st : Live \cup {"none", "seeking", "resolved", "out_of_range", "refused"},
                ask : V, tries : V, last : V, lot : V, session : V, link : V, bill : V]

ShopTables ==
    /\ DOMAIN lot \subseteq Lots /\ lot \in [DOMAIN lot -> Entry]
    /\ DOMAIN link \subseteq Links /\ link \in [DOMAIN link -> [used : Nat, revoked : BOOLEAN]]
    /\ \A k \in DOMAIN link : LinkLot[k] \in DOMAIN lot
    /\ uses \in Nat \cup {None} /\ ledger \in Nat
    /\ edit # None => edit.lot \in DOMAIN lot /\ edit.row \in Row
    /\ excess \in [Buyers -> Nat]
    /\ \E V : order \in [Buyers -> Checkout(V)]

\* A session that has not been paid has its units, and a session with units is of the order it
\* began as.
Sessions ==
    /\ unpaid \subseteq reserved /\ reserved \subseteq Buyers
    /\ \A s \in reserved : order[s].st \in Live /\ order[s].session = s

\* A live order is of a session that has begun, and asks what the session asked.
OfSession(b) ==
    LET s == order[b].session
    IN  /\ s \in Buyers /\ order[s].st \in Begun
        /\ s \in reserved => order[s].lot = order[b].lot /\ order[s].ask = order[b].ask
        /\ order[b].st \in Placed => s \notin unpaid

\* An order is of a lot there is; when it is placed it has a bill, counts in the coupon it used,
\* and in the link it came by.
GoodOrder(b) ==
    /\ order[b].st \notin {"none", "refused"} => order[b].ask \in Asks
    /\ order[b].st \in {"resolved", "out_of_range"} \cup Live => order[b].lot \in DOMAIN lot
    /\ order[b].st \in Live => OfSession(b)
    /\ order[b].st \in Placed =>
          /\ GoodBill(order[b].bill, order[b].ask)
          /\ order[b].link = None \/ order[b].link \in DOMAIN link
          /\ order[b].ask.coupon => uses # None
    /\ order[b].st \notin Placed => excess[b] = 0

Orders == \A b \in Buyers : GoodOrder(b)

ShopInv == ShopTables /\ Sessions /\ Orders /\ StockAddsUp /\ BooksAddUp

-----------------------------------------------------------------------------
(* The counters of the lots                                                *)

\* What a session holds of a lot, what an order bought of it and what it took off it twice.
Holds(l, s) == IF s \in reserved /\ order[s].lot = l THEN order[s].ask.qty ELSE 0
Buys(l, b) == IF order[b].st = "paid" /\ order[b].lot = l THEN order[b].ask.qty ELSE 0
Exceeds(l, b) == IF order[b].lot = l THEN excess[b] ELSE 0

LEMMA QtyType ==
  ASSUME Orders, NEW b \in Buyers, order[b].st \in Live
  PROVE  order[b].ask \in Asks /\ order[b].ask.qty \in Nat /\ order[b].lot \in DOMAIN lot
<1>1. order[b].ask \in Asks /\ order[b].lot \in DOMAIN lot
  BY DEF Orders, GoodOrder, Live, Placed
<1> QED BY <1>1, ShopAssumption

LEMMA StockTypes ==
  ASSUME ShopTables, Sessions, Orders, NEW l, NEW b \in Buyers
  PROVE  Holds(l, b) \in Nat /\ Buys(l, b) \in Nat /\ Exceeds(l, b) \in Nat
<1>1. b \in reserved => order[b].ask.qty \in Nat
  BY QtyType DEF Sessions
<1>2. order[b].st = "paid" => order[b].ask.qty \in Nat
  BY QtyType DEF Live, Placed
<1>3. excess[b] \in Nat
  BY DEF ShopTables
<1> QED BY <1>1, <1>2, <1>3 DEF Holds, Buys, Exceeds

\* The addends, as functions.
LEMMA StockIs ==
  ASSUME NEW l, reserved \subseteq Buyers
  PROVE  /\ Reserved(l) = SumFunction([b \in Buyers |-> Holds(l, b)])
         /\ UnitsSold(l) = SumFunction([b \in Buyers |-> Buys(l, b)])
         /\ Excess(l) = SumFunction([b \in Buyers |-> Exceeds(l, b)])
<1>1. Reserved(l) = SumFunction([b \in Buyers |-> Holds(l, b)])
  <2>1. [b \in Buyers |-> IF b \in {s \in reserved : order[s].lot = l} THEN Quantity[b] ELSE 0]
          = [b \in Buyers |-> Holds(l, b)]
    BY DEF Quantity, Holds
  <2> QED BY <2>1 DEF Reserved, Among
<1>2. UnitsSold(l) = SumFunction([b \in Buyers |-> Buys(l, b)])
  <2>1. [b \in Buyers |-> IF b \in {x \in Paid : order[x].lot = l} THEN Quantity[b] ELSE 0]
          = [b \in Buyers |-> Buys(l, b)]
    BY DEF Quantity, Buys, Paid
  <2> QED BY <2>1 DEF UnitsSold, Among
<1>3. Excess(l) = SumFunction([b \in Buyers |-> Exceeds(l, b)])
  <2>1. [b \in Buyers |-> IF b \in {x \in Buyers : order[x].lot = l} THEN excess[b] ELSE 0]
          = [b \in Buyers |-> Exceeds(l, b)]
    BY DEF Exceeds
  <2> QED BY <2>1 DEF Excess, Among
<1> QED BY <1>1, <1>2, <1>3

LEMMA StockIsNext ==
  ASSUME NEW l, reserved' \subseteq Buyers
  PROVE  /\ Reserved(l)' = SumFunction([b \in Buyers |-> Holds(l, b)'])
         /\ UnitsSold(l)' = SumFunction([b \in Buyers |-> Buys(l, b)'])
         /\ Excess(l)' = SumFunction([b \in Buyers |-> Exceeds(l, b)'])
<1>1. Reserved(l)' = SumFunction([b \in Buyers |-> Holds(l, b)'])
  <2>1. [b \in Buyers |-> IF b \in {s \in reserved' : order'[s].lot = l} THEN Quantity'[b] ELSE 0]
          = [b \in Buyers |-> Holds(l, b)']
    BY DEF Quantity, Holds
  <2> QED BY <2>1 DEF Reserved, Among
<1>2. UnitsSold(l)' = SumFunction([b \in Buyers |-> Buys(l, b)'])
  <2>1. [b \in Buyers |-> IF b \in {x \in Paid' : order'[x].lot = l} THEN Quantity'[b] ELSE 0]
          = [b \in Buyers |-> Buys(l, b)']
    BY DEF Quantity, Buys, Paid
  <2> QED BY <2>1 DEF UnitsSold, Among
<1>3. Excess(l)' = SumFunction([b \in Buyers |-> Exceeds(l, b)'])
  <2>1. [b \in Buyers |-> IF b \in {x \in Buyers : order'[x].lot = l} THEN excess'[b] ELSE 0]
          = [b \in Buyers |-> Exceeds(l, b)']
    BY DEF Exceeds
  <2> QED BY <2>1 DEF Excess, Among
<1> QED BY <1>1, <1>2, <1>3

\* One session's units, one order's purchase and one order's excess change: the sums change by
\* as much.
LEMMA StockMoves ==
  ASSUME ShopTables, Sessions, Orders, ShopTables', Sessions', Orders',
         NEW l, NEW s \in Buyers, NEW b \in Buyers,
         \A x \in Buyers \ {s} : Holds(l, x)' = Holds(l, x),
         \A x \in Buyers \ {b} : Buys(l, x)' = Buys(l, x) /\ Exceeds(l, x)' = Exceeds(l, x)
  PROVE  /\ Reserved(l) \in Nat /\ UnitsSold(l) \in Nat /\ Excess(l) \in Nat
         /\ Reserved(l)' = Reserved(l) - Holds(l, s) + Holds(l, s)' /\ Holds(l, s) <= Reserved(l)
         /\ UnitsSold(l)' = UnitsSold(l) - Buys(l, b) + Buys(l, b)'
         /\ Excess(l)' = Excess(l) - Exceeds(l, b) + Exceeds(l, b)'
<1> DEFINE h == [x \in Buyers |-> Holds(l, x)]
           hn == [x \in Buyers |-> Holds(l, x)']
           p == [x \in Buyers |-> Buys(l, x)]
           pn == [x \in Buyers |-> Buys(l, x)']
           e == [x \in Buyers |-> Exceeds(l, x)]
           en == [x \in Buyers |-> Exceeds(l, x)']
<1>1. \A x \in Buyers : Holds(l, x) \in Nat /\ Buys(l, x) \in Nat /\ Exceeds(l, x) \in Nat
  BY StockTypes
<1>2. \A x \in Buyers : Holds(l, x)' \in Nat /\ Buys(l, x)' \in Nat /\ Exceeds(l, x)' \in Nat
  <2> SUFFICES ASSUME NEW x \in Buyers
               PROVE  Holds(l, x)' \in Nat /\ Buys(l, x)' \in Nat /\ Exceeds(l, x)' \in Nat
    OBVIOUS
  <2>1. order'[x].st \in Live => order'[x].ask.qty \in Nat
    <3>1. order'[x].st \in Live => order'[x].ask \in Asks
      BY DEF Orders, GoodOrder, Live, Placed
    <3> QED BY <3>1, ShopAssumption
  <2>2. excess'[x] \in Nat
    BY DEF ShopTables
  <2> QED BY <2>1, <2>2 DEF Holds, Buys, Exceeds, Sessions, Live, Placed
<1>3. IsFiniteSet(Buyers)
  BY ShopAssumption
<1>4. /\ h \in [Buyers -> Nat] /\ hn \in [Buyers -> Nat] /\ p \in [Buyers -> Nat]
      /\ pn \in [Buyers -> Nat] /\ e \in [Buyers -> Nat] /\ en \in [Buyers -> Nat]
  BY <1>1, <1>2
<1>5. /\ \A x \in Buyers \ {s} : hn[x] = h[x]
      /\ \A x \in Buyers \ {b} : pn[x] = p[x] /\ en[x] = e[x]
  OBVIOUS
<1>6. /\ h[s] = Holds(l, s) /\ hn[s] = Holds(l, s)' /\ p[b] = Buys(l, b) /\ pn[b] = Buys(l, b)'
      /\ e[b] = Exceeds(l, b) /\ en[b] = Exceeds(l, b)'
  OBVIOUS
<1>7. Reserved(l) = SumFunction(h) /\ UnitsSold(l) = SumFunction(p) /\ Excess(l) = SumFunction(e)
  BY StockIs DEF Sessions
<1>8. Reserved(l)' = SumFunction(hn) /\ UnitsSold(l)' = SumFunction(pn) /\ Excess(l)' = SumFunction(en)
  BY StockIsNext DEF Sessions
<1> HIDE DEF h, hn, p, pn, e, en
<1>9. /\ SumFunction(h) \in Nat /\ SumFunction(hn) = SumFunction(h) - h[s] + hn[s]
      /\ h[s] <= SumFunction(h)
  BY <1>3, <1>4, <1>5, SumMoves
<1>10. SumFunction(p) \in Nat /\ SumFunction(pn) = SumFunction(p) - p[b] + pn[b]
  BY <1>3, <1>4, <1>5, SumMoves
<1>11. SumFunction(e) \in Nat /\ SumFunction(en) = SumFunction(e) - e[b] + en[b]
  BY <1>3, <1>4, <1>5, SumMoves
<1> QED BY <1>6, <1>7, <1>8, <1>9, <1>10, <1>11

\* Nothing that is counted changes, nor the counters.
LEMMA StockKept ==
  ASSUME StockAddsUp, reserved \subseteq Buyers, reserved' \subseteq Buyers, lot' = lot,
         \A l \in ListLots : \A x \in Buyers :
            Holds(l, x)' = Holds(l, x) /\ Buys(l, x)' = Buys(l, x) /\ Exceeds(l, x)' = Exceeds(l, x)
  PROVE  StockAddsUp'
<1> SUFFICES ASSUME NEW l \in ListLots
             PROVE  /\ Reserved(l)' = Reserved(l) /\ UnitsSold(l)' = UnitsSold(l)
                    /\ Excess(l)' = Excess(l)
  BY DEF StockAddsUp, ListLots
<1>1. /\ [x \in Buyers |-> Holds(l, x)'] = [x \in Buyers |-> Holds(l, x)]
      /\ [x \in Buyers |-> Buys(l, x)'] = [x \in Buyers |-> Buys(l, x)]
      /\ [x \in Buyers |-> Exceeds(l, x)'] = [x \in Buyers |-> Exceeds(l, x)]
  OBVIOUS
<1>2. /\ Reserved(l) = SumFunction([b \in Buyers |-> Holds(l, b)])
      /\ UnitsSold(l) = SumFunction([b \in Buyers |-> Buys(l, b)])
      /\ Excess(l) = SumFunction([b \in Buyers |-> Exceeds(l, b)])
  BY StockIs
<1>3. /\ Reserved(l)' = SumFunction([b \in Buyers |-> Holds(l, b)'])
      /\ UnitsSold(l)' = SumFunction([b \in Buyers |-> Buys(l, b)'])
      /\ Excess(l)' = SumFunction([b \in Buyers |-> Exceeds(l, b)'])
  BY StockIsNext
<1> HIDE DEF Holds, Buys, Exceeds, Reserved, UnitsSold, Excess
<1> QED BY <1>1, <1>2, <1>3, Zenon

\* No order changes, the counters do not, and the rows of lots keep them within the quantity.
LEMMA StockEdited ==
  ASSUME ShopTables, Sessions, Orders, StockAddsUp, UNCHANGED <<order, reserved, excess>>,
         ListLots \subseteq ListLots',
         \A l \in ListLots : lot'[l].held = lot[l].held /\ lot'[l].sold = lot[l].sold,
         \A l \in ListLots' \ ListLots : lot'[l].held = 0 /\ lot'[l].sold = 0,
         \A l \in ListLots' : lot'[l].sold + lot'[l].held <= lot'[l].row.quantity
  PROVE  StockAddsUp'
<1>1. ASSUME NEW l
      PROVE  Reserved(l)' = Reserved(l) /\ UnitsSold(l)' = UnitsSold(l) /\ Excess(l)' = Excess(l)
  BY DEF Reserved, UnitsSold, Excess, Quantity, Paid
<1>2. ASSUME NEW l \in ListLots' \ ListLots
      PROVE  Reserved(l) = 0 /\ UnitsSold(l) = 0 /\ Excess(l) \in Nat
  <2>1. {s \in reserved : order[s].lot = l} \cap Buyers = {}
    BY QtyType DEF Sessions, ListLots
  <2>2. {b \in Paid : order[b].lot = l} \cap Buyers = {}
    BY QtyType DEF Paid, ListLots, Live, Placed
  <2>3. \A x \in {b \in Buyers : order[b].lot = l} \cap Buyers : excess[x] \in Nat
    BY DEF ShopTables
  <2> QED BY <2>1, <2>2, <2>3, NobodyAmong, AmongType DEF Reserved, UnitsSold, Excess
<1>3. ASSUME NEW l \in ListLots'
      PROVE  /\ lot'[l].sold = UnitsSold(l)'
             /\ lot'[l].held <= Reserved(l)' /\ Reserved(l)' - Excess(l)' <= lot'[l].held
  <2>1. CASE l \in ListLots
    BY <1>1, <2>1 DEF StockAddsUp
  <2>2. CASE l \notin ListLots
    BY <1>1, <1>2, <2>2
  <2> QED BY <2>1, <2>2
<1> QED BY <1>3 DEF StockAddsUp

-----------------------------------------------------------------------------
(* The books                                                               *)

\* A sum looks only at those it is of.
LEMMA AmongSame ==
  ASSUME NEW S, NEW R, NEW f, NEW g,
         \A b \in Buyers : (b \in R <=> b \in S) /\ (b \in S => g[b] = f[b])
  PROVE  Among(R, g) = Among(S, f)
<1>1. [b \in Buyers |-> IF b \in R THEN g[b] ELSE 0] = [b \in Buyers |-> IF b \in S THEN f[b] ELSE 0]
  OBVIOUS
<1> QED BY <1>1 DEF Among

\* Every placed order has a good bill.
LEMMA BillsCover == Orders => ChargesCover
BY DEF Orders, GoodOrder, ChargesCover, GoodBill

\* No order was paid, and what was counted of the paid ones did not change.
LEMMA SalesKept ==
  ASSUME SalesAddUp, ledger' = ledger,
         \A x \in Buyers : order'[x].st = "paid" <=> order[x].st = "paid",
         \A x \in Buyers : order[x].st = "paid" => order'[x] = order[x]
  PROVE  SalesAddUp'
<1>1. /\ Among(Paid, Face)' = Among(Paid, Face)
      /\ Among(Paid, Off)' = Among(Paid, Off)
  <2>1. \A x \in Buyers : (x \in Paid' <=> x \in Paid) /\ (x \in Paid => Face'[x] = Face[x] /\ Off'[x] = Off[x])
    BY DEF Paid, Face, Off
  <2>2. Among(Paid', Face') = Among(Paid, Face)
    BY <2>1, AmongSame
  <2>3. Among(Paid', Off') = Among(Paid, Off)
    BY <2>1, AmongSame
  <2> QED BY <2>2, <2>3 DEF Among
<1>2. SalesByLot' = SalesByLot
  <2> SUFFICES ASSUME NEW l \in Lots
               PROVE  Among({x \in Paid : order[x].lot = l}, Items)' = Among({x \in Paid : order[x].lot = l}, Items)
    BY DEF SalesByLot
  <2>1. \A x \in Buyers : /\ x \in {y \in Paid' : order'[y].lot = l} <=> x \in {y \in Paid : order[y].lot = l}
                          /\ x \in {y \in Paid : order[y].lot = l} => Items'[x] = Items[x]
    BY DEF Paid, Items
  <2>2. Among({y \in Paid' : order'[y].lot = l}, Items') = Among({y \in Paid : order[y].lot = l}, Items)
    <3> DEFINE S == {y \in Paid : order[y].lot = l}
               R == {y \in Paid' : order'[y].lot = l}
    <3>1. \A x \in Buyers : (x \in R <=> x \in S) /\ (x \in S => Items'[x] = Items[x])
      BY <2>1
    <3> HIDE DEF S, R
    <3>2. Among(R, Items') = Among(S, Items)
      BY <3>1, AmongSame
    <3> QED BY <3>2 DEF S, R
  <2> QED BY <2>2 DEF Among
<1> QED BY <1>1, <1>2 DEF SalesAddUp, EventFinance

\* No sale is made: a link there was keeps its uses and a new one has none, and so the coupon.
LEMMA BooksKept ==
  ASSUME BooksAddUp, Orders, Orders', ledger' = ledger,
         DOMAIN link' \subseteq Links,
         \A k \in DOMAIN link' : (k \in DOMAIN link /\ link'[k].used = link[k].used) \/ link'[k].used = 0,
         uses' = uses \/ (uses = None /\ uses' = 0),
         \A x \in Buyers : order'[x].st = "paid" <=> order[x].st = "paid",
         \A x \in Buyers : order[x].st = "paid" => order'[x] = order[x]
  PROVE  BooksAddUp'
<1>1. SalesAddUp'
  BY SalesKept DEF BooksAddUp
<1>2. CouponsAddUp'
  <2>1. {b \in Paid : order[b].ask.coupon}' = {b \in Paid : order[b].ask.coupon}
    BY DEF Paid
  <2>2. CASE uses' = uses
    BY <2>1, <2>2 DEF BooksAddUp, CouponsAddUp
  <2>3. CASE uses = None /\ uses' = 0
    <3>1. {b \in Paid : order[b].ask.coupon} = {}
      BY <2>3 DEF Orders, GoodOrder, Paid, Placed
    <3> QED BY <2>1, <2>3, <3>1, FS_EmptySet DEF CouponsAddUp
  <2> QED BY <2>2, <2>3
<1>3. LinksAddUp'
  <2> SUFFICES ASSUME NEW k \in DOMAIN link'
               PROVE  link'[k].used <= MaxUses[k] /\ link'[k].used <= Among(PaidWith(k), Quantity)'
    BY DEF LinksAddUp
  <2>1. Among(PaidWith(k), Quantity)' = Among(PaidWith(k), Quantity)
    <3>1. \A x \in Buyers : /\ x \in PaidWith(k)' <=> x \in PaidWith(k)
                            /\ x \in PaidWith(k) => Quantity'[x] = Quantity[x]
      BY DEF PaidWith, Paid, Quantity
    <3>2. Among(PaidWith(k)', Quantity') = Among(PaidWith(k), Quantity)
      BY <3>1, AmongSame
    <3> QED BY <3>2 DEF Among
  <2>2. CASE k \in DOMAIN link /\ link'[k].used = link[k].used
    BY <2>1, <2>2 DEF BooksAddUp, LinksAddUp
  <2>3. CASE link'[k].used = 0
    <3>1. \A x \in PaidWith(k) \cap Buyers : Quantity[x] \in Nat
      <4>1. \A x \in PaidWith(k) : order[x].ask \in Asks
        BY DEF PaidWith, Paid, Orders, GoodOrder, Placed
      <4> QED BY <4>1, ShopAssumption DEF Quantity
    <3>2. Among(PaidWith(k), Quantity) \in Nat
      BY <3>1, AmongType
    <3>3. MaxUses[k] \in Nat
      BY ShopAssumption
    <3> QED BY <2>1, <2>3, <3>2, <3>3
  <2> QED BY <2>2, <2>3
<1>4. ChargesCover'
  BY DEF Orders, GoodOrder, ChargesCover, GoodBill
<1> QED BY <1>1, <1>2, <1>3, <1>4 DEF BooksAddUp

\* What a paid order counts for is a natural number.
LEMMA PaidTypes ==
  ASSUME Orders, NEW b \in Buyers, order[b].st \in Placed
  PROVE  /\ order[b].bill.charge.face \in Nat /\ order[b].bill.off \in Nat
         /\ ItemsTotal(order[b].bill.items) = order[b].bill.charge.face + order[b].bill.off
         /\ order[b].ask.qty \in Nat /\ order[b].ask.coupon \in BOOLEAN
<1>1. GoodBill(order[b].bill, order[b].ask) /\ order[b].ask \in Asks
  BY DEF Orders, GoodOrder, Placed
<1> QED BY <1>1, ShopAssumption DEF GoodBill

\* The step of an order to paid, which the sums of the books follow.
Pays(b) ==
    /\ order[b].st \in {"confirming", "overtaken"} /\ order'[b].st = "paid"
    /\ order'[b].bill = order[b].bill /\ order'[b].ask = order[b].ask
    /\ order'[b].lot = order[b].lot /\ order'[b].link = order[b].link
    /\ \A x \in Buyers \ {b} : order'[x] = order[x]

\* An order is paid, the only one: the sums of the paid ones gain it.
LEMMA OnePaid ==
  ASSUME NEW b \in Buyers, Pays(b), NEW C, b \in C, NEW f, NEW g, f[b] \in Nat,
         \A x \in Buyers : g[x] = f[x], \A x \in Paid : f[x] \in Nat
  PROVE  /\ Among(Paid \cap C, f) \in Nat
         /\ Among(Paid' \cap C, g) = Among(Paid \cap C, f) + f[b]
<1> DEFINE S == Paid \cap C
           R == Paid' \cap C
<1>1. b \notin Paid /\ b \in Paid' /\ \A x \in Buyers \ {b} : x \in Paid' <=> x \in Paid
  BY DEF Paid, Pays
<1>2. /\ \A x \in Buyers : Part(S, f, x) \in Nat /\ Part(R, g, x) \in Nat
      /\ \A x \in Buyers \ {b} : Part(R, g, x) = Part(S, f, x)
      /\ Part(S, f, b) = 0 /\ Part(R, g, b) = f[b]
  BY <1>1 DEF Part
<1> HIDE DEF S, R
<1>3. Among(S, f) \in Nat /\ Among(R, g) = Among(S, f) - Part(S, f, b) + Part(R, g, b)
  BY <1>2, AmongMoves
<1> QED BY <1>2, <1>3 DEF S, R

LEMMA SalesGrow ==
  ASSUME Orders, SalesAddUp, NEW b \in Buyers, Pays(b), order[b].lot \in Lots, ledger \in Nat,
         ledger' = ledger + order[b].bill.charge.face
  PROVE  SalesAddUp'
<1> DEFINE o == order[b]
           items == ItemsTotal(o.bill.items)
           face == o.bill.charge.face
           off == o.bill.off
<1>1. face \in Nat /\ off \in Nat /\ items = face + off
  BY PaidTypes DEF Pays, Placed
<1>2. \A x \in Paid : /\ order[x].bill.charge.face \in Nat /\ order[x].bill.off \in Nat
                      /\ ItemsTotal(order[x].bill.items) = order[x].bill.charge.face + order[x].bill.off
  BY PaidTypes DEF Paid, Placed
<1>3. \A x \in Buyers : Face'[x] = Face[x] /\ Off'[x] = Off[x] /\ Items'[x] = Items[x]
  <2>1. \A x \in Buyers : order'[x].bill = order[x].bill
    BY DEF Pays
  <2> QED BY <2>1 DEF Face, Off, Items
<1>4. Face[b] = face /\ Off[b] = off /\ Items[b] = items
  BY DEF Face, Off, Items
<1>5. \A x \in Paid : Face[x] \in Nat /\ Off[x] \in Nat /\ Items[x] \in Nat
  BY <1>2 DEF Face, Off, Items, Paid
<1> HIDE DEF face, off, items
<1>6. Among(Paid, Face) \in Nat /\ Among(Paid', Face') = Among(Paid, Face) + face
  <2>1. Paid \cap Buyers = Paid /\ Paid' \cap Buyers = Paid'
    BY DEF Paid
  <2> DEFINE g == Face'
  <2>2. g = Face'
    OBVIOUS
  <2> HIDE DEF g
  <2>3. /\ Among(Paid \cap Buyers, Face) \in Nat
        /\ Among(Paid' \cap Buyers, g) = Among(Paid \cap Buyers, Face) + Face[b]
    BY <1>1, <1>3, <1>4, <1>5, <2>2, OnePaid
  <2> QED BY <1>4, <2>1, <2>2, <2>3
<1>7. Among(Paid, Off) \in Nat /\ Among(Paid', Off') = Among(Paid, Off) + off
  <2>1. Paid \cap Buyers = Paid /\ Paid' \cap Buyers = Paid'
    BY DEF Paid
  <2> DEFINE g == Off'
  <2>2. g = Off'
    OBVIOUS
  <2> HIDE DEF g
  <2>3. /\ Among(Paid \cap Buyers, Off) \in Nat
        /\ Among(Paid' \cap Buyers, g) = Among(Paid \cap Buyers, Off) + Off[b]
    BY <1>1, <1>3, <1>4, <1>5, <2>2, OnePaid
  <2> QED BY <1>4, <2>1, <2>2, <2>3
<1> DEFINE p == SalesByLot
           q == [l \in Lots |-> Among({x \in Paid' : order'[x].lot = l}, Items')]
<1>8. ASSUME NEW l \in Lots
      PROVE  /\ p[l] \in Nat /\ q[l] \in Nat
             /\ q[l] = p[l] + (IF l = o.lot THEN items ELSE 0)
  <2> DEFINE C == {x \in Buyers : order[x].lot = l}
             S == {x \in Paid : order[x].lot = l}
             R == {x \in Paid' : order'[x].lot = l}
             g == Items'
  <2>1. S = Paid \cap C /\ R = Paid' \cap C
    BY DEF Paid, Pays
  <2>2. p[l] = Among(S, Items) /\ q[l] = Among(R, g)
    BY DEF SalesByLot
  <2>3. CASE l = o.lot
    <3>1. b \in C
      BY <2>3
    <3> HIDE DEF g, C, S, R, p, q
    <3>2. \A x \in Buyers : g[x] = Items[x]
      BY <1>3 DEF g
    <3>3. Items[b] = items /\ items \in Nat /\ Items[b] \in Nat
      BY <1>1, <1>4
    <3>4. \A x \in Paid : Items[x] \in Nat
      BY <1>5
    <3>5. Among(Paid \cap C, Items) \in Nat /\ Among(Paid' \cap C, g) = Among(Paid \cap C, Items) + Items[b]
      BY <3>1, <3>2, <3>3, <3>4, OnePaid
    <3> QED BY <2>1, <2>2, <2>3, <3>3, <3>5
  <2>4. CASE l # o.lot
    <3>1. \A x \in Buyers : (x \in R <=> x \in S) /\ (x \in S => g[x] = Items[x])
      BY <1>3, <2>4 DEF Paid, Pays
    <3>2. \A x \in S : Items[x] \in Nat
      BY <1>5
    <3>3. \A x \in Buyers : Part(S, Items, x) \in Nat
      BY <3>2 DEF Part
    <3> HIDE DEF g, C, S, R, p, q
    <3>4. Among(R, g) = Among(S, Items)
      BY <3>1, AmongSame
    <3>5. Among(S, Items) \in Nat
      BY <3>3, AmongMoves
    <3> QED BY <2>2, <2>4, <3>4, <3>5
  <2> QED BY <2>3, <2>4
<1>9. p \in [Lots -> Nat] /\ q \in [Lots -> Nat] /\ \A l \in Lots \ {o.lot} : q[l] = p[l]
  <2>1. p = [l \in Lots |-> p[l]] /\ q = [l \in Lots |-> q[l]]
    BY DEF SalesByLot
  <2> HIDE DEF p, q
  <2> QED BY <1>8, <2>1
<1>10. q = SalesByLot'
  BY DEF SalesByLot, Among
<1> HIDE DEF p, q
<1>11. SumFunction(p) \in Nat /\ SumFunction(q) = SumFunction(p) - p[o.lot] + q[o.lot]
  BY <1>9, FiniteLots, SumMoves
<1>12. SumFunction(q) = SumFunction(p) + items
  BY <1>1, <1>8, <1>11
<1>13. Among(Paid, Face)' = Among(Paid', Face') /\ Among(Paid, Off)' = Among(Paid', Off')
  BY DEF Among
<1>14. Among(Paid, Face) = ledger /\ SumFunction(p) = Among(Paid, Face) + Among(Paid, Off)
  BY DEF SalesAddUp, EventFinance, p
<1>15. Among(Paid', Face') = ledger' /\ SumFunction(q) = Among(Paid', Face') + Among(Paid', Off')
  BY <1>1, <1>6, <1>7, <1>12, <1>14 DEF face
<1> QED BY <1>10, <1>13, <1>15 DEF SalesAddUp, EventFinance

LEMMA CouponsGrow ==
  ASSUME Orders, CouponsAddUp, NEW b \in Buyers, Pays(b), uses \in Nat \cup {None},
         uses' = IF order[b].ask.coupon THEN uses + 1 ELSE uses
  PROVE  CouponsAddUp'
<1> DEFINE S == {x \in Paid : order[x].ask.coupon}
           R == {x \in Paid' : order'[x].ask.coupon}
<1>1. IsFiniteSet(S) /\ b \notin S
  <2>1. S \in SUBSET Buyers /\ b \notin S
    BY DEF Paid, Pays
  <2> QED BY <2>1, ShopAssumption, FS_Subset
<1>2. CASE order[b].ask.coupon
  <2>1. uses # None /\ uses \in Nat
    BY <1>2 DEF Orders, GoodOrder, Pays, Placed
  <2>2. R = S \cup {b}
    BY <1>2 DEF Paid, Pays
  <2> HIDE DEF S
  <2>3. Cardinality(R) = Cardinality(S) + 1
    BY <1>1, <2>2, FS_AddElement
  <2>4. uses = Cardinality(S)
    BY <2>1 DEF CouponsAddUp, S
  <2> QED BY <1>2, <2>3, <2>4 DEF CouponsAddUp
<1>3. CASE ~order[b].ask.coupon
  <2>1. R = S
    BY <1>3 DEF Paid, Pays
  <2> QED BY <1>3, <2>1 DEF CouponsAddUp
<1> QED BY <1>2, <1>3

LEMMA LinksGrow ==
  ASSUME ShopTables, Orders, LinksAddUp, NEW b \in Buyers, Pays(b),
         link' = IF order[b].link = None THEN link ELSE Consume(order[b].link, order[b].ask.qty)
  PROVE  LinksAddUp'
<1>1. link \in [DOMAIN link -> [used : Nat, revoked : BOOLEAN]] /\ DOMAIN link \subseteq Links
  BY DEF ShopTables
<1>2. order[b].ask.qty \in Nat /\ (order[b].link = None \/ order[b].link \in DOMAIN link)
  BY PaidTypes DEF Orders, GoodOrder, Pays, Placed
<1>3. /\ DOMAIN link' = DOMAIN link
      /\ \A k \in DOMAIN link :
            \/ link'[k].used = link[k].used
            \/ k = order[b].link /\ link'[k].used = link[k].used + order[b].ask.qty /\ link'[k].used <= MaxUses[k]
  BY <1>1, <1>2 DEF Consume
<1>4. MaxUses \in [Links -> Nat]
  BY ShopAssumption
<1> SUFFICES ASSUME NEW k \in DOMAIN link
             PROVE  /\ link'[k].used <= MaxUses[k]
                    /\ link'[k].used <= Among(PaidWith(k), Quantity)'
  BY <1>3 DEF LinksAddUp
<1>5. link[k].used \in Nat /\ link[k].used <= MaxUses[k] /\ link[k].used <= Among(PaidWith(k), Quantity)
  BY <1>1 DEF LinksAddUp
<1> DEFINE C == {x \in Buyers : order[x].link = k}
           f == Quantity
           g == Quantity'
<1>6. PaidWith(k) = Paid \cap C /\ PaidWith(k)' = Paid' \cap C
  BY DEF PaidWith, Paid, Pays
<1>7. /\ \A x \in Buyers : g[x] = f[x]
      /\ \A x \in Paid : f[x] \in Nat
      /\ f[b] = order[b].ask.qty
  <2>1. \A x \in Buyers : order'[x].ask = order[x].ask
    BY DEF Pays
  <2>2. \A x \in Paid : order[x].ask.qty \in Nat
    BY PaidTypes DEF Paid, Placed
  <2> QED BY <2>1, <2>2 DEF Quantity, Paid
<1>8. Among(PaidWith(k), Quantity)' = Among(Paid' \cap C, g)
  BY <1>6 DEF Among
<1>9. Among(PaidWith(k), Quantity) = Among(Paid \cap C, f)
  BY <1>6
<1>10. CASE order[b].link = k
  <2>1. b \in C
    BY <1>10
  <2> HIDE DEF C, f, g
  <2>2. Among(Paid \cap C, f) \in Nat /\ Among(Paid' \cap C, g) = Among(Paid \cap C, f) + f[b]
    BY <1>2, <1>7, <2>1, OnePaid
  <2> QED BY <1>2, <1>3, <1>5, <1>7, <1>8, <1>9, <2>2
<1>11. CASE order[b].link # k
  <2> DEFINE S == Paid \cap C
             R == Paid' \cap C
  <2>1. \A x \in Buyers : (x \in R <=> x \in S) /\ (x \in S => g[x] = f[x])
    BY <1>7, <1>11 DEF Paid, Pays
  <2> HIDE DEF S, R, f, g
  <2>2. Among(R, g) = Among(S, f)
    BY <2>1, AmongSame
  <2>3. link'[k].used = link[k].used
    BY <1>3, <1>11
  <2> QED BY <1>5, <1>8, <1>9, <2>2, <2>3 DEF S, R
<1> QED BY <1>10, <1>11

-----------------------------------------------------------------------------
(* The producer's steps                                                    *)

\* A row with some columns written is a row.
LEMMA RowPatched ==
  ASSUME NEW r \in Row, NEW p, DOMAIN p \subseteq Fields, \A f \in DOMAIN p : p[f] \in Column[f]
  PROVE  Over(p, r) \in Row
<1>1. DOMAIN Over(p, r) = Fields /\ Over(p, r) = [f \in Fields |-> Over(p, r)[f]]
  BY DEF Over, Row
<1>2. \A f \in Fields : Over(p, r)[f] \in Column[f]
  BY DEF Over, Row
<1> HIDE DEF Over, Fields, Column
<1>3. \A f \in Fields : Over(p, r)[f] \in Values
  BY <1>2 DEF Values
<1>4. Over(p, r) \in [Fields -> Values]
  BY <1>1, <1>3
<1> QED BY <1>2, <1>4 DEF Row

LEMMA RowQuantity == ASSUME NEW r \in Row PROVE r.quantity \in Nat /\ r.price \in Nat
BY DEF Row, Fields, Column

\* The tables the orders look at do not change.
LEMMA Unmoved ==
  ASSUME ShopInv, UNCHANGED <<lot, link, uses, order, claims, ledger>>,
         edit' # None => edit'.lot \in DOMAIN lot /\ edit'.row \in Row
  PROVE  ShopInv'
<1>1. ShopTables'
  BY DEF ShopInv, ShopTables, claims
<1>2. Orders'
  BY DEF ShopInv, Orders, GoodOrder, OfSession, claims
<1>3. StockAddsUp'
  <2>1. StockAddsUp /\ order' = order /\ ListLots' = ListLots /\ lot' = lot
    BY DEF ShopInv, ListLots
  <2>2. \A l \in ListLots' : lot'[l].sold + lot'[l].held <= lot'[l].row.quantity
    BY <2>1 DEF StockAddsUp
  <2> QED BY <2>1, <2>2, StockEdited DEF ShopInv, claims
<1>4. BooksAddUp'
  <2>1. DOMAIN link' \subseteq Links
    BY <1>1 DEF ShopTables
  <2>2. \A k \in DOMAIN link' : (k \in DOMAIN link /\ link'[k].used = link[k].used) \/ link'[k].used = 0
    OBVIOUS
  <2> QED BY <1>2, <2>1, <2>2, BooksKept DEF ShopInv
<1>5. Sessions'
  BY DEF ShopInv, Sessions, claims
<1> QED BY <1>1, <1>2, <1>3, <1>4, <1>5 DEF ShopInv

\* Lots are added or their rows rewritten, links added or revoked, the coupon created.
LEMMA Edited ==
  ASSUME ShopInv, ShopTables', UNCHANGED <<order, claims, ledger>>,
         ListLots \subseteq ListLots', DOMAIN link \subseteq DOMAIN link',
         \A l \in ListLots : lot'[l].held = lot[l].held /\ lot'[l].sold = lot[l].sold,
         \A l \in ListLots' \ ListLots : lot'[l].held = 0 /\ lot'[l].sold = 0,
         \A l \in ListLots' : lot'[l].sold + lot'[l].held <= lot'[l].row.quantity,
         \A k \in DOMAIN link' : (k \in DOMAIN link /\ link'[k].used = link[k].used) \/ link'[k].used = 0,
         uses' = uses \/ (uses = None /\ uses' = 0)
  PROVE  ShopInv'
<1>1. Orders'
  <2>1. uses # None => uses' # None
    OBVIOUS
  <2> QED BY <2>1, ShopAssumption DEF ShopInv, Orders, GoodOrder, OfSession, ListLots, claims
<1>2. StockAddsUp'
  BY StockEdited DEF ShopInv, claims
<1>3. BooksAddUp'
  <2>1. DOMAIN link' \subseteq Links
    BY DEF ShopTables
  <2> QED BY <1>1, <2>1, BooksKept DEF ShopInv
<1>4. Sessions'
  BY DEF ShopInv, Sessions, claims
<1> QED BY <1>1, <1>2, <1>3, <1>4 DEF ShopInv

LEMMA CreateLotInv == ASSUME ShopInv, NEW l \in Lots, CreateLot(l) PROVE ShopInv'
<1>1. PICK row \in Templates[l] : InsertLot(l, row)
  BY DEF CreateLot
<1>2. row \in Row
  <2>1. row = [f \in Fields |-> row[f]] /\ \A f \in Fields : row[f] \in Column[f]
    BY ShopAssumption
  <2> HIDE DEF Fields, Column
  <2>2. \A f \in Fields : row[f] \in Values
    BY <2>1 DEF Values
  <2>3. row \in [Fields -> Values]
    BY <2>1, <2>2
  <2> QED BY <2>1, <2>3 DEF Row
<1> DEFINE entry == [row |-> row, sold |-> 0, held |-> 0]
<1>3. entry \in Entry /\ entry.held = 0 /\ entry.sold = 0 /\ entry.row = row
  BY <1>2 DEF Entry
<1>4. l \notin DOMAIN lot /\ lot' = Over(OneRow(l, entry), lot)
  BY <1>1 DEF CreateLot, InsertLot, ListLots
<1> HIDE DEF entry
<1>5. /\ DOMAIN lot' = DOMAIN lot \cup {l} /\ lot'[l] = entry
      /\ \A m \in DOMAIN lot : lot'[m] = lot[m]
  BY <1>4 DEF Over, OneRow
<1>6. lot \in [DOMAIN lot -> Entry] /\ DOMAIN lot \subseteq Lots
  BY DEF ShopInv, ShopTables, claims
<1>7. lot' \in [DOMAIN lot' -> Entry]
  <2>1. lot' = [m \in DOMAIN lot' |-> lot'[m]]
    BY <1>4 DEF Over
  <2>2. \A m \in DOMAIN lot' : lot'[m] \in Entry
    BY <1>3, <1>5, <1>6
  <2> QED BY <2>1, <2>2
<1>8. UNCHANGED <<link, uses, order, claims, edit, ledger>>
  BY DEF CreateLot
<1>9. ShopTables'
  BY <1>5, <1>6, <1>7, <1>8 DEF ShopInv, ShopTables, claims
<1>10. \A m \in DOMAIN lot' : lot'[m].sold + lot'[m].held <= lot'[m].row.quantity
  <2>1. \A m \in DOMAIN lot : lot[m].sold + lot[m].held <= lot[m].row.quantity
    BY DEF ShopInv, StockAddsUp, ListLots
  <2>2. 0 + 0 <= row.quantity
    BY <1>2, RowQuantity
  <2> QED BY <1>3, <1>5, <2>1, <2>2
<1> QED BY <1>3, <1>5, <1>8, <1>9, <1>10, Edited DEF ListLots

LEMMA EditBeginInv == ASSUME ShopInv, NEW l \in Lots, EditBegin(l) PROVE ShopInv'
<1>1. PICK p \in Patches[l] : UpdateLot(l, p)
  BY DEF EditBegin
<1>2. l \in DOMAIN lot /\ lot[l] \in Entry
  BY DEF EditBegin, ListLots, ShopInv, ShopTables
<1>3. DOMAIN p \subseteq Fields /\ \A f \in DOMAIN p : p[f] \in Column[f]
  BY ShopAssumption
<1>4. lot[l].row \in Row
  BY <1>2 DEF Entry
<1>5. Over(p, lot[l].row) \in Row
  BY <1>3, <1>4, RowPatched
<1>6. edit' = [lot |-> l, row |-> Over(p, lot[l].row)]
  BY <1>1 DEF UpdateLot
<1>7. edit'.lot = l /\ edit'.row \in Row
  BY <1>5, <1>6
<1> QED BY <1>2, <1>7, Unmoved DEF EditBegin

LEMMA EditEndInv == ASSUME ShopInv, EditEnd PROVE ShopInv'
<1> DEFINE l == edit.lot
           entry == [lot[l] EXCEPT !.row = edit.row]
<1>1. l \in DOMAIN lot /\ edit.row \in Row /\ lot \in [DOMAIN lot -> Entry] /\ DOMAIN lot \subseteq Lots
  BY DEF EditEnd, ShopInv, ShopTables
<1>2. /\ lot' = IF CapacityChk(entry) THEN [lot EXCEPT ![l] = entry] ELSE lot
      /\ edit' = None /\ UNCHANGED <<link, uses, order, claims, ledger>>
  BY DEF EditEnd
<1> HIDE DEF l
<1>3. lot[l] \in Entry
  BY <1>1
<1>4. entry \in Entry /\ entry.held = lot[l].held /\ entry.sold = lot[l].sold
  BY <1>1, <1>3 DEF Entry, l
<1> HIDE DEF entry
<1>5. CASE ~CapacityChk(entry)
  <2>1. UNCHANGED <<lot, link, uses, order, claims, ledger>>
    BY <1>2, <1>5
  <2> QED BY <1>2, <2>1, Unmoved
<1>6. CASE CapacityChk(entry)
  <2>1. /\ DOMAIN lot' = DOMAIN lot /\ lot' \in [DOMAIN lot -> Entry] /\ lot'[l] = entry
        /\ \A m \in DOMAIN lot \ {l} : lot'[m] = lot[m]
    BY <1>1, <1>2, <1>4, <1>6
  <2>2. ShopTables'
    BY <1>2, <2>1 DEF ShopInv, ShopTables, claims
  <2>3. \A m \in DOMAIN lot' : lot'[m].sold + lot'[m].held <= lot'[m].row.quantity
    BY <1>6, <2>1 DEF ShopInv, StockAddsUp, ListLots, CapacityChk
  <2> QED BY <1>2, <1>4, <2>1, <2>2, <2>3, Edited DEF ListLots
<1> QED BY <1>5, <1>6

LEMMA CreateLotLinkInv == ASSUME ShopInv, NEW k \in Links, CreateLotLink(k) PROVE ShopInv'
<1> DEFINE l == LinkLot[k]
           row == Over(OneRow("hidden", TRUE), lot[l].row)
           opened == [used |-> 0, revoked |-> FALSE]
<1>1. /\ k \notin DOMAIN link /\ l \in DOMAIN lot
      /\ lot' = [lot EXCEPT ![l].row = row] /\ link' = Over(OneRow(k, opened), link)
      /\ UNCHANGED <<uses, order, claims, edit, ledger>>
  BY DEF CreateLotLink, NewLink, ListLots
<1>2. /\ lot \in [DOMAIN lot -> Entry] /\ DOMAIN lot \subseteq Lots
      /\ link \in [DOMAIN link -> [used : Nat, revoked : BOOLEAN]] /\ DOMAIN link \subseteq Links
  BY DEF ShopInv, ShopTables, claims
<1>3. lot[l].row \in Row
  BY <1>1, <1>2 DEF Entry
<1>4. row \in Row /\ row.quantity = lot[l].row.quantity
  <2>1. DOMAIN OneRow("hidden", TRUE) \subseteq Fields /\ OneRow("hidden", TRUE)["hidden"] \in Column["hidden"]
    BY DEF OneRow, Fields, Column
  <2>2. \A f \in DOMAIN OneRow("hidden", TRUE) : OneRow("hidden", TRUE)[f] \in Column[f]
    BY <2>1 DEF OneRow
  <2>3. row \in Row
    BY <1>3, <2>1, <2>2, RowPatched
  <2>4. row.quantity = lot[l].row.quantity
    BY <1>3 DEF Over, OneRow, Row, Fields, Column
  <2> QED BY <2>3, <2>4
<1>5. opened \in [used : Nat, revoked : BOOLEAN] /\ opened.used = 0
  OBVIOUS
<1> HIDE DEF l, row, opened
<1>6. /\ DOMAIN lot' = DOMAIN lot /\ lot' \in [DOMAIN lot -> Entry]
      /\ \A m \in DOMAIN lot : /\ lot'[m].held = lot[m].held /\ lot'[m].sold = lot[m].sold
                               /\ lot'[m].row.quantity = lot[m].row.quantity
  BY <1>1, <1>2, <1>4 DEF Entry
<1>7. /\ DOMAIN link' = DOMAIN link \cup {k} /\ link'[k] = opened
      /\ \A m \in DOMAIN link : link'[m] = link[m]
  BY <1>1 DEF Over, OneRow
<1>8. link' \in [DOMAIN link' -> [used : Nat, revoked : BOOLEAN]]
  <2>1. link' = [m \in DOMAIN link' |-> link'[m]]
    BY <1>1 DEF Over
  <2>2. \A m \in DOMAIN link' : link'[m] \in [used : Nat, revoked : BOOLEAN]
    BY <1>2, <1>5, <1>7
  <2> QED BY <2>1, <2>2
<1>9. ShopTables'
  <2>1. \A m \in DOMAIN link' : LinkLot[m] \in DOMAIN lot'
    BY <1>1, <1>6, <1>7 DEF ShopInv, ShopTables, l
  <2> QED BY <1>1, <1>2, <1>6, <1>7, <1>8, <2>1 DEF ShopInv, ShopTables, claims
<1>10. \A m \in DOMAIN lot' : lot'[m].sold + lot'[m].held <= lot'[m].row.quantity
  BY <1>6 DEF ShopInv, StockAddsUp, ListLots
<1>11. \A m \in DOMAIN link' : (m \in DOMAIN link /\ link'[m].used = link[m].used) \/ link'[m].used = 0
  BY <1>5, <1>7
<1> QED BY <1>1, <1>6, <1>7, <1>9, <1>10, <1>11, Edited DEF ListLots

LEMMA RevokeLotLinkInv == ASSUME ShopInv, NEW k \in Links, RevokeLotLink(k) PROVE ShopInv'
<1>1. /\ k \in DOMAIN link /\ link' = [link EXCEPT ![k].revoked = TRUE]
      /\ UNCHANGED <<lot, uses, order, claims, edit, ledger>>
  BY DEF RevokeLotLink
<1>2. link \in [DOMAIN link -> [used : Nat, revoked : BOOLEAN]]
  BY DEF ShopInv, ShopTables, claims
<1>3. /\ DOMAIN link' = DOMAIN link /\ link' \in [DOMAIN link -> [used : Nat, revoked : BOOLEAN]]
      /\ \A m \in DOMAIN link : link'[m].used = link[m].used
  BY <1>1, <1>2
<1>4. ShopTables'
  BY <1>1, <1>3 DEF ShopInv, ShopTables, claims
<1>5. \A m \in DOMAIN lot' : lot'[m].sold + lot'[m].held <= lot'[m].row.quantity
  BY <1>1 DEF ShopInv, StockAddsUp, ListLots
<1> QED BY <1>1, <1>3, <1>4, <1>5, Edited DEF ListLots

LEMMA CreateCouponInv == ASSUME ShopInv, CreateCoupon PROVE ShopInv'
<1>1. uses = None /\ uses' = 0 /\ UNCHANGED <<lot, link, order, claims, edit, ledger>>
  BY DEF CreateCoupon
<1>2. ShopTables'
  BY <1>1 DEF ShopInv, ShopTables, claims
<1>3. \A m \in DOMAIN lot' : lot'[m].sold + lot'[m].held <= lot'[m].row.quantity
  BY <1>1 DEF ShopInv, StockAddsUp, ListLots
<1> QED BY <1>1, <1>2, <1>3, Edited DEF ListLots

\* What only sells, suspends or lists the event, and the clock, leave the tables alone.
LEMMA EventInv ==
  ASSUME ShopInv, PublishEvent \/ TransitionEvent \/ AdminSuspendEvent \/ Tick PROVE ShopInv'
<1>1. UNCHANGED <<lot, link, uses, order, claims, ledger, edit>>
  BY DEF PublishEvent, TransitionEvent, AdminSuspendEvent, Tick
<1>2. edit' # None => edit'.lot \in DOMAIN lot /\ edit'.row \in Row
  BY <1>1 DEF ShopInv, ShopTables, claims
<1> QED BY <1>1, <1>2, Unmoved

LEMMA ProducerInv == ASSUME ShopInv, Producer PROVE ShopInv'
BY EventInv, CreateLotInv, EditBeginInv, EditEndInv, CreateLotLinkInv, RevokeLotLinkInv,
   CreateCouponInv DEF Producer

-----------------------------------------------------------------------------
(* The buyers' steps                                                       *)

\* One order is rewritten.
LEMMA Wrote ==
  ASSUME ShopTables, NEW b \in Buyers, NEW W, NEW rec \in Checkout(W), order' = [order EXCEPT ![b] = rec]
  PROVE  /\ \E V : order' \in [Buyers -> Checkout(V)]
         /\ order'[b] = rec
         /\ \A x \in Buyers \ {b} : order'[x] = order[x]
<1>1. PICK V : order \in [Buyers -> Checkout(V)]
  BY DEF ShopTables
<1>2. rec \in Checkout(V \cup W) /\ order \in [Buyers -> Checkout(V \cup W)]
  <2>1. \A r \in Checkout(V) : r \in Checkout(V \cup W)
    BY DEF Checkout
  <2>2. rec \in Checkout(V \cup W)
    BY DEF Checkout
  <2> HIDE DEF Checkout
  <2> QED BY <1>1, <2>1, <2>2
<1> HIDE DEF Checkout
<1>3. order' \in [Buyers -> Checkout(V \cup W)]
  BY <1>2
<1> QED BY <1>1, <1>3

\* What an order may do to those of its session: once begun it asks what it asked, and a session
\* that is paid or has no units does not get them back.
Follows(b) ==
    order[b].st \in Begun =>
        /\ order'[b].st \in Begun
        /\ b \in reserved' => b \in reserved /\ order'[b].lot = order[b].lot /\ order'[b].ask = order[b].ask
        /\ b \in unpaid' => b \in unpaid

LEMMA OthersKept ==
  ASSUME Orders, NEW b \in Buyers, \A x \in Buyers \ {b} : order'[x] = order[x], Follows(b),
         reserved' \subseteq reserved \cup {b}, unpaid' \subseteq unpaid \cup {b},
         DOMAIN lot' = DOMAIN lot, DOMAIN link' = DOMAIN link, uses # None => uses' # None,
         \A x \in Buyers \ {b} : excess'[x] = excess[x]
  PROVE  \A x \in Buyers \ {b} : GoodOrder(x)'
<1> SUFFICES ASSUME NEW x \in Buyers \ {b} PROVE GoodOrder(x)'
  OBVIOUS
<1>1. GoodOrder(x) /\ order'[x] = order[x] /\ excess'[x] = excess[x]
  BY DEF Orders
<1>2. order[x].st \in Live => OfSession(x)'
  <2> SUFFICES ASSUME order[x].st \in Live PROVE OfSession(x)'
    OBVIOUS
  <2> DEFINE s == order[x].session
  <2>1. /\ s \in Buyers /\ order[s].st \in Begun
        /\ s \in reserved => order[s].lot = order[x].lot /\ order[s].ask = order[x].ask
        /\ order[x].st \in Placed => s \notin unpaid
    BY <1>1 DEF GoodOrder, OfSession
  <2>2. /\ order'[s].st \in Begun
        /\ s \in reserved' => order'[s].lot = order[x].lot /\ order'[s].ask = order[x].ask
        /\ order[x].st \in Placed => s \notin unpaid'
    <3>1. CASE s = b
      BY <2>1, <3>1 DEF Follows
    <3>2. CASE s # b
      BY <2>1, <3>2
    <3> QED BY <3>1, <3>2
  <2> QED BY <1>1, <2>1, <2>2 DEF OfSession
<1> QED BY <1>1, <1>2 DEF GoodOrder, GoodBill

\* A step of one buyer that sells nothing is good for the books and the tables, and for the
\* orders, if it is for its own.
LEMMA Asked ==
  ASSUME ShopInv, NEW b \in Buyers, \A x \in Buyers \ {b} : order'[x] = order[x],
         \E V : order' \in [Buyers -> Checkout(V)], Follows(b),
         reserved' \subseteq reserved \cup {b}, unpaid' \subseteq unpaid \cup {b},
         excess' \in [Buyers -> Nat], \A x \in Buyers \ {b} : excess'[x] = excess[x],
         order[b].st # "paid", order'[b].st # "paid", GoodOrder(b)', Sessions',
         UNCHANGED <<link, uses, edit, ledger>>,
         DOMAIN lot' = DOMAIN lot, lot' \in [DOMAIN lot -> Entry]
  PROVE  ShopTables' /\ Orders' /\ BooksAddUp' /\ (StockAddsUp' => ShopInv')
<1>1. ShopTables'
  BY DEF ShopInv, ShopTables
<1>2. Orders'
  BY OthersKept DEF ShopInv, Orders
<1>3. BooksAddUp'
  <2>1. DOMAIN link' \subseteq Links
    BY <1>1 DEF ShopTables
  <2>2. \A k \in DOMAIN link' : (k \in DOMAIN link /\ link'[k].used = link[k].used) \/ link'[k].used = 0
    OBVIOUS
  <2> QED BY <1>2, <2>1, <2>2, BooksKept DEF ShopInv
<1> QED BY <1>1, <1>2, <1>3 DEF ShopInv

\* Sessions keep their units, and those of the order that changes ask what they asked.
LEMMA SessionsKept ==
  ASSUME Sessions, NEW b \in Buyers, \A x \in Buyers \ {b} : order'[x] = order[x],
         unpaid' \subseteq reserved', reserved' \subseteq reserved,
         b \in reserved' => order'[b].st \in Live /\ order'[b].session = order[b].session
  PROVE  Sessions'
<1> SUFFICES ASSUME NEW s \in reserved' PROVE order'[s].st \in Live /\ order'[s].session = s
  BY DEF Sessions
<1>1. s \in reserved /\ order[s].st \in Live /\ order[s].session = s
  BY DEF Sessions
<1> QED BY <1>1 DEF Sessions

\* The order changes and moves no unit: it had none, or it goes on with those of its session.
LEMMA Looked ==
  ASSUME ShopInv, NEW b \in Buyers, \A x \in Buyers \ {b} : order'[x] = order[x],
         \E V : order' \in [Buyers -> Checkout(V)],
         order[b].st # "paid", order'[b].st # "paid", GoodOrder(b)',
         \/ order[b].st \notin Begun
         \/ /\ order[b].st \in Live /\ order'[b].st \in Live /\ order'[b].lot = order[b].lot
            /\ order'[b].ask = order[b].ask /\ order'[b].session = order[b].session,
         unpaid' \subseteq unpaid,
         UNCHANGED <<lot, link, uses, edit, ledger, reserved, excess>>
  PROVE  ShopInv'
<1>1. /\ lot \in [DOMAIN lot -> Entry] /\ excess \in [Buyers -> Nat]
      /\ unpaid' \subseteq reserved /\ reserved \subseteq Buyers
  BY DEF ShopInv, ShopTables, Sessions
<1>2. order[b].st \notin Begun => b \notin reserved /\ excess[b] = 0
  BY DEF ShopInv, Sessions, Orders, GoodOrder, Begun, Live
<1>3. Follows(b)
  BY <1>2 DEF Follows, Begun
<1>4. Sessions'
  BY <1>1, <1>2, SessionsKept DEF ShopInv
<1>5. StockAddsUp'
  <2> SUFFICES ASSUME NEW l \in ListLots, NEW x \in Buyers
               PROVE  /\ Holds(l, x)' = Holds(l, x) /\ Buys(l, x)' = Buys(l, x)
                      /\ Exceeds(l, x)' = Exceeds(l, x)
    BY <1>1, StockKept DEF ShopInv
  <2>1. CASE x # b
    BY <2>1 DEF Holds, Buys, Exceeds
  <2>2. CASE x = b
    BY <1>2, <2>2 DEF Holds, Buys, Exceeds
  <2> QED BY <2>1, <2>2
<1> QED BY <1>1, <1>3, <1>4, <1>5, Asked

LEMMA RefusedInv ==
  ASSUME ShopInv, NEW b \in Buyers, order[b].st \notin Begun, order' = Refused(b),
         UNCHANGED <<lot, link, uses, edit, ledger, claims>>
  PROVE  ShopInv'
<1> DEFINE rec == [NoOrder EXCEPT !.st = "refused"]
<1>1. rec \in Checkout({None, 0}) /\ rec.st = "refused"
  BY DEF NoOrder, Checkout
<1>2. order' = [order EXCEPT ![b] = rec]
  BY DEF Refused
<1> HIDE DEF rec
<1>3. /\ \E V : order' \in [Buyers -> Checkout(V)]
      /\ order'[b] = rec
      /\ \A x \in Buyers \ {b} : order'[x] = order[x]
  BY <1>1, <1>2, Wrote DEF ShopInv
<1>4. GoodOrder(b)' /\ order'[b].st # "paid" /\ order[b].st # "paid"
  BY <1>1, <1>3 DEF GoodOrder, Begun, Live, Placed, claims, ShopInv, Orders
<1> QED BY <1>3, <1>4, Looked DEF claims

LEMMA CreateSessionInv == ASSUME ShopInv, NEW b \in Buyers, CreateSession(b) PROVE ShopInv'
<1>1. PICK a \in Asks : order' = [order EXCEPT ![b] = [NoOrder EXCEPT !.st = "seeking", !.ask = a]]
  BY DEF CreateSession
<1> DEFINE rec == [NoOrder EXCEPT !.st = "seeking", !.ask = a]
<1>2. rec \in Checkout({a, None, 0}) /\ rec.st = "seeking" /\ rec.ask = a
  BY DEF NoOrder, Checkout
<1> HIDE DEF rec
<1>3. order' = [order EXCEPT ![b] = rec]
  BY <1>1 DEF rec
<1>4. /\ \E V : order' \in [Buyers -> Checkout(V)]
      /\ order'[b] = rec
      /\ \A x \in Buyers \ {b} : order'[x] = order[x]
  BY <1>2, <1>3, Wrote DEF ShopInv
<1>5. order[b].st = "none" /\ UNCHANGED <<lot, link, uses, claims, edit, ledger>>
  BY DEF CreateSession
<1>6. order[b].st \notin Begun /\ order'[b].st # "paid" /\ order[b].st # "paid"
  BY <1>2, <1>4, <1>5 DEF Begun, Live, Placed
<1>7. GoodOrder(b)'
  BY <1>2, <1>4, <1>5 DEF GoodOrder, ShopInv, Orders, Live, Placed, claims
<1> QED BY <1>4, <1>5, <1>6, <1>7, Looked DEF claims

\* A lot a buyer is given is one of the lots there are.
LEMMA FoundIsThere ==
  ASSUME ShopTables, NEW k
  PROVE  CurrentLot \subseteq DOMAIN lot /\ Eligible(k) \subseteq DOMAIN lot
<1>1. \A i \in OfferedAt : Queue[i] \in DOMAIN lot
  BY DEF OfferedAt, Visible, ListLots
<1>2. OpenedBy(k) \subseteq DOMAIN lot
  BY DEF OpenedBy, Usable, ShopTables
<1> QED BY <1>1, <1>2 DEF CurrentLot, Eligible, AvailableLots

LEMMA ResolveInv == ASSUME ShopInv, NEW b \in Buyers, Resolve(b) PROVE ShopInv'
<1> DEFINE a == order[b].ask
           found == IF a.lot = None THEN CurrentLot ELSE {a.lot} \cap Eligible(a.link)
<1>1. order[b].st = "seeking" /\ UNCHANGED <<lot, link, uses, claims, edit, ledger>>
  BY DEF Resolve
<1>2. order[b].st \notin Begun
  BY <1>1 DEF Begun, Live, Placed
<1>3. CASE order' = Refused(b)
  BY <1>1, <1>2, <1>3, RefusedInv
<1>4. CASE \E l \in found :
             order' = [order EXCEPT ![b].lot = l,
                                    ![b].st = IF InRange(l, a.qty) THEN "resolved" ELSE "out_of_range"]
  <2>1. PICK l \in found :
             order' = [order EXCEPT ![b].lot = l,
                                    ![b].st = IF InRange(l, a.qty) THEN "resolved" ELSE "out_of_range"]
    BY <1>4
  <2>2. l \in DOMAIN lot
    BY <2>1, FoundIsThere DEF ShopInv
  <2>3. PICK st \in {"resolved", "out_of_range"} : order' = [order EXCEPT ![b].lot = l, ![b].st = st]
    BY <2>1
  <2>4. PICK V : order \in [Buyers -> Checkout(V)]
    BY DEF ShopInv, ShopTables
  <2> DEFINE rec == [order[b] EXCEPT !.lot = l, !.st = st]
  <2>5. order[b] \in Checkout(V)
    BY <2>4
  <2>6. rec \in Checkout(V \cup {l}) /\ rec.st = st /\ rec.lot = l /\ rec.ask = a
    BY <2>3, <2>5 DEF Checkout
  <2>7. order' = [order EXCEPT ![b] = rec]
    BY <2>3, <2>4 DEF Checkout
  <2> HIDE DEF rec
  <2>8. /\ \E U : order' \in [Buyers -> Checkout(U)]
        /\ order'[b] = rec
        /\ \A x \in Buyers \ {b} : order'[x] = order[x]
    BY <2>6, <2>7, Wrote DEF ShopInv
  <2>9. a \in Asks
    BY <1>1 DEF ShopInv, Orders, GoodOrder
  <2>10. GoodOrder(b)' /\ order'[b].st # "paid" /\ order[b].st # "paid"
    BY <1>1, <2>2, <2>3, <2>6, <2>8, <2>9 DEF GoodOrder, ShopInv, Orders, Live, Placed, claims
  <2> QED BY <1>1, <1>2, <2>8, <2>10, Looked DEF claims
<1> QED BY <1>3, <1>4 DEF Resolve

\* The counters of a lot.
LEMMA Counted ==
  ASSUME ShopInv, NEW l \in DOMAIN lot
  PROVE  /\ lot[l].sold \in Nat /\ lot[l].held \in Nat /\ lot[l].row \in Row /\ lot[l].row.quantity \in Nat
         /\ lot[l].sold = UnitsSold(l) /\ lot[l].sold + lot[l].held <= lot[l].row.quantity
         /\ lot[l].held <= Reserved(l) /\ Reserved(l) - Excess(l) <= lot[l].held
<1>1. lot[l] \in Entry
  BY DEF ShopInv, ShopTables
<1>2. lot[l].row \in Row
  BY <1>1 DEF Entry
<1> QED BY <1>1, <1>2, RowQuantity DEF ShopInv, StockAddsUp, ListLots, Entry

\* An order takes units off the counter of its lot: the units reserved that nobody gave back are
\* as many fewer, or they are not there and the excess is as many more.
LEMMA GivenBack ==
  ASSUME ShopInv, ShopTables', Sessions', Orders', NEW b \in Buyers, GiveBack(b),
         order[b].st \in Live \ {"paid"}, \A x \in Buyers \ {b} : order'[x] = order[x],
         order'[b].lot = order[b].lot \/ (order[b].session \in reserved /\ excess[b] = 0),
         order'[b].st = "paid" => order'[b].lot = order[b].lot /\ order'[b].ask = order[b].ask,
         NEW l \in DOMAIN lot,
         lot'[l].held = IF l = order[b].lot /\ lot[l].held >= order[b].ask.qty
                        THEN lot[l].held - order[b].ask.qty
                        ELSE IF l = order[b].lot THEN 0 ELSE lot[l].held
  PROVE  /\ lot'[l].held <= Reserved(l)' /\ Reserved(l)' - Excess(l)' <= lot'[l].held
         /\ UnitsSold(l)' = UnitsSold(l) + (IF order'[b].st = "paid" /\ order[b].lot = l
                                            THEN order[b].ask.qty ELSE 0)
<1>0. PICK s \in Buyers : s = order[b].session
  BY DEF ShopInv, Orders, GoodOrder, OfSession
<1> DEFINE qty == order[b].ask.qty
           part == IF order[b].lot = l THEN qty ELSE 0
<1>1. /\ s \in reserved => order[s].lot = order[b].lot /\ order[s].ask = order[b].ask
      /\ order[b].st \in Live
      /\ reserved' = reserved \ {s}
      /\ excess' = IF s \in reserved THEN excess ELSE [excess EXCEPT ![b] = @ + qty]
  BY <1>0 DEF ShopInv, Orders, GoodOrder, OfSession, GiveBack
<1>2. qty \in Nat /\ part \in Nat
  BY <1>1, QtyType DEF ShopInv
<1>3. \A x \in reserved : order[x].session = x
  BY DEF ShopInv, Sessions
<1>4. ASSUME NEW x \in Buyers \ {s} PROVE Holds(l, x)' = Holds(l, x)
  <2>1. x \in reserved' <=> x \in reserved
    BY <1>1
  <2>2. x = b => x \notin reserved
    BY <1>0, <1>3
  <2> QED BY <2>1, <2>2 DEF Holds
<1>5. ASSUME NEW x \in Buyers \ {b} PROVE Buys(l, x)' = Buys(l, x) /\ Exceeds(l, x)' = Exceeds(l, x)
  <2>1. excess'[x] = excess[x]
    BY <1>1 DEF ShopInv, ShopTables
  <2> QED BY <2>1 DEF Buys, Exceeds
<1>6. /\ Reserved(l) \in Nat /\ UnitsSold(l) \in Nat /\ Excess(l) \in Nat
      /\ Reserved(l)' = Reserved(l) - Holds(l, s) + Holds(l, s)' /\ Holds(l, s) <= Reserved(l)
      /\ UnitsSold(l)' = UnitsSold(l) - Buys(l, b) + Buys(l, b)'
      /\ Excess(l)' = Excess(l) - Exceeds(l, b) + Exceeds(l, b)'
  BY <1>4, <1>5, StockMoves DEF ShopInv
<1>7. Holds(l, s)' = 0 /\ Holds(l, s) = IF s \in reserved THEN part ELSE 0
  BY <1>1 DEF Holds
<1>8. Exceeds(l, b) \in Nat /\ Exceeds(l, b)' = Exceeds(l, b) + (IF s \in reserved THEN 0 ELSE part)
  <2>1. excess \in [Buyers -> Nat]
    BY DEF ShopInv, ShopTables
  <2>2. CASE s \in reserved
    BY <1>0, <1>1, <2>1, <2>2 DEF Exceeds
  <2>3. CASE s \notin reserved
    <3>1. excess'[b] = excess[b] + qty /\ order'[b].lot = order[b].lot /\ excess[b] \in Nat
      BY <1>0, <1>1, <2>1, <2>3
    <3> QED BY <1>2, <2>3, <3>1 DEF Exceeds
  <2> QED BY <2>2, <2>3
<1>9. Buys(l, b) = 0 /\ Buys(l, b)' = IF order'[b].st = "paid" THEN part ELSE 0
  BY DEF Buys
<1>10. lot[l].held \in Nat /\ lot[l].held <= Reserved(l) /\ Reserved(l) - Excess(l) <= lot[l].held
  BY Counted
<1>11. lot'[l].held = IF lot[l].held >= part THEN lot[l].held - part ELSE 0
  BY <1>2, <1>10
<1>12. (IF order'[b].st = "paid" /\ order[b].lot = l THEN qty ELSE 0) = IF order'[b].st = "paid" THEN part ELSE 0
  OBVIOUS
<1> HIDE DEF Holds, Buys, Exceeds, Reserved, UnitsSold, Excess, part
<1>13. UnitsSold(l)' = UnitsSold(l) + (IF order'[b].st = "paid" THEN part ELSE 0)
  BY <1>2, <1>6, <1>9
<1>14. lot'[l].held <= Reserved(l)' /\ Reserved(l)' - Excess(l)' <= lot'[l].held
  <2>1. CASE s \in reserved
    <3>1. Reserved(l)' = Reserved(l) - part /\ Excess(l)' = Excess(l) /\ part <= Reserved(l)
      BY <1>2, <1>6, <1>7, <1>8, <2>1
    <3> QED BY <1>2, <1>6, <1>10, <1>11, <3>1
  <2>2. CASE s \notin reserved
    <3>1. Reserved(l)' = Reserved(l) /\ Excess(l)' = Excess(l) + part
      BY <1>2, <1>6, <1>7, <1>8, <2>2
    <3> QED BY <1>2, <1>6, <1>10, <1>11, <3>1
  <2> QED BY <2>1, <2>2
<1> QED BY <1>12, <1>13, <1>14

\* held_count of one lot after a release.
LEMMA ReleasedIs ==
  ASSUME ShopTables, NEW l \in DOMAIN lot, NEW qty \in Nat, lot' = Released(l, qty)
  PROVE  /\ DOMAIN lot' = DOMAIN lot /\ lot' \in [DOMAIN lot -> Entry]
         /\ lot'[l].held = IF lot[l].held >= qty THEN lot[l].held - qty ELSE 0
         /\ \A m \in DOMAIN lot : lot'[m].sold = lot[m].sold /\ lot'[m].row = lot[m].row
         /\ \A m \in DOMAIN lot \ {l} : lot'[m] = lot[m]
<1> DEFINE h == IF lot[l].held >= qty THEN lot[l].held - qty ELSE 0
<1>1. lot \in [DOMAIN lot -> Entry] /\ lot[l] \in Entry
  BY DEF ShopTables
<1>2. h \in Nat
  BY <1>1 DEF Entry
<1>3. lot' = [lot EXCEPT ![l].held = h]
  BY DEF Released
<1> HIDE DEF h
<1>4. /\ DOMAIN lot' = DOMAIN lot /\ lot' \in [DOMAIN lot -> Entry] /\ lot'[l].held = h
      /\ \A m \in DOMAIN lot : lot'[m].sold = lot[m].sold /\ lot'[m].row = lot[m].row
      /\ \A m \in DOMAIN lot \ {l} : lot'[m] = lot[m]
  BY <1>1, <1>2, <1>3 DEF Entry
<1> QED BY <1>4 DEF h

\* What an order that gives units back may be, for the counters to follow.
LEMMA ReleasedInv ==
  ASSUME ShopInv, NEW b \in Buyers, NEW W, NEW rec \in Checkout(W),
         order' = [order EXCEPT ![b] = rec], rec.st # "paid", Follows(b),
         order[b].st \in Live \ {"paid"}, GiveBack(b), lot' = Released(order[b].lot, order[b].ask.qty),
         rec.lot = order[b].lot \/ (order[b].session \in reserved /\ excess[b] = 0),
         GoodOrder(b)', Sessions', unpaid' \subseteq unpaid, UNCHANGED <<link, uses, edit, ledger>>
  PROVE  ShopInv'
<1> DEFINE l == order[b].lot
           qty == order[b].ask.qty
<1>1. qty \in Nat /\ l \in DOMAIN lot
  BY QtyType DEF ShopInv
<1>2. /\ DOMAIN lot' = DOMAIN lot /\ lot' \in [DOMAIN lot -> Entry]
      /\ lot'[l].held = IF lot[l].held >= qty THEN lot[l].held - qty ELSE 0
      /\ \A m \in DOMAIN lot : lot'[m].sold = lot[m].sold /\ lot'[m].row = lot[m].row
      /\ \A m \in DOMAIN lot \ {l} : lot'[m] = lot[m]
  <2> HIDE DEF l, qty
  <2> QED BY <1>1, ReleasedIs DEF ShopInv, l, qty
<1>3. /\ \E V : order' \in [Buyers -> Checkout(V)]
      /\ order'[b] = rec
      /\ \A x \in Buyers \ {b} : order'[x] = order[x]
  BY Wrote DEF ShopInv
<1>4. /\ excess' \in [Buyers -> Nat] /\ \A x \in Buyers \ {b} : excess'[x] = excess[x]
      /\ reserved' \subseteq reserved
  BY <1>1 DEF GiveBack, ShopInv, ShopTables
<1>5. ShopTables' /\ Orders' /\ (StockAddsUp' => ShopInv')
  BY <1>2, <1>3, <1>4, Asked
<1>6. StockAddsUp'
  <2> SUFFICES ASSUME NEW m \in DOMAIN lot
               PROVE  /\ lot'[m].sold = UnitsSold(m)'
                      /\ lot'[m].sold + lot'[m].held <= lot'[m].row.quantity
                      /\ lot'[m].held <= Reserved(m)' /\ Reserved(m)' - Excess(m)' <= lot'[m].held
    BY <1>2 DEF StockAddsUp, ListLots
  <2>1. lot'[m].held = IF m = l /\ lot[m].held >= qty THEN lot[m].held - qty
                       ELSE IF m = l THEN 0 ELSE lot[m].held
    BY <1>2
  <2>2. /\ lot'[m].held <= Reserved(m)' /\ Reserved(m)' - Excess(m)' <= lot'[m].held
        /\ UnitsSold(m)' = UnitsSold(m) + 0
    BY <1>3, <1>5, <2>1, GivenBack
  <2>3. /\ lot[m].sold \in Nat /\ lot[m].held \in Nat /\ lot[m].row.quantity \in Nat
        /\ lot[m].sold = UnitsSold(m) /\ lot[m].sold + lot[m].held <= lot[m].row.quantity
    BY Counted
  <2>4. lot'[m].held \in Nat /\ lot'[m].held <= lot[m].held
    <3> HIDE DEF l, qty
    <3> QED BY <1>1, <2>1, <2>3
  <2>5. lot'[m].sold = lot[m].sold /\ lot'[m].row = lot[m].row
    BY <1>2
  <2> HIDE DEF UnitsSold, Reserved, Excess, l, qty
  <2> QED BY <2>2, <2>3, <2>4, <2>5
<1> QED BY <1>5, <1>6

LEMMA ExpireSessionInv == ASSUME ShopInv, NEW b \in Buyers, ExpireSession(b) PROVE ShopInv'
<1>1. /\ b \in unpaid /\ order[b].st \in {"held", "paying"} /\ unpaid' = unpaid \ {b} /\ GiveBack(b)
      /\ lot' = Released(order[b].lot, order[b].ask.qty)
      /\ order' = IF order[b].st = "held" THEN Refused(b) ELSE order
      /\ UNCHANGED <<link, uses, edit, ledger>>
  BY DEF ExpireSession
<1>2. b \in reserved /\ order[b].session = b /\ excess[b] = 0 /\ GoodOrder(b)
  BY <1>1 DEF ShopInv, Sessions, Orders, GoodOrder, Placed
<1>3. reserved' = reserved \ {b} /\ excess' = excess
  BY <1>1, <1>2 DEF GiveBack
<1>4. DOMAIN lot' = DOMAIN lot
  BY <1>1 DEF Released
<1>5. PICK V : order \in [Buyers -> Checkout(V)]
  BY DEF ShopInv, ShopTables
<1> DEFINE rec == IF order[b].st = "held" THEN [NoOrder EXCEPT !.st = "refused"] ELSE order[b]
<1>6. /\ rec \in Checkout(V \cup {None, 0}) /\ rec.st \in {"refused", "paying"}
      /\ rec.st = "paying" => order[b].st = "paying" /\ rec = order[b]
  <2>1. [NoOrder EXCEPT !.st = "refused"] \in Checkout({None, 0})
    BY DEF NoOrder, Checkout
  <2>2. order[b] \in Checkout(V)
    BY <1>5
  <2>3. [NoOrder EXCEPT !.st = "refused"].st = "refused"
    BY DEF NoOrder
  <2>4. \A r \in Checkout(V) \cup Checkout({None, 0}) : r \in Checkout(V \cup {None, 0})
    BY DEF Checkout
  <2> HIDE DEF Checkout
  <2> QED BY <1>1, <2>1, <2>2, <2>3, <2>4
<1>7. order' = [order EXCEPT ![b] = rec]
  BY <1>1, <1>5 DEF Refused
<1> HIDE DEF rec
<1>8. order'[b] = rec /\ \A x \in Buyers \ {b} : order'[x] = order[x]
  BY <1>5, <1>7
<1>9. Follows(b)
  BY <1>1, <1>3, <1>6, <1>8 DEF Follows, Begun, Live
<1>10. Sessions'
  <2>1. unpaid' \subseteq reserved' /\ reserved' \subseteq reserved /\ b \notin reserved'
    BY <1>1, <1>3 DEF ShopInv, Sessions
  <2> QED BY <1>8, <2>1, SessionsKept DEF ShopInv
<1>11. GoodOrder(b)'
  <2>1. CASE rec.st = "refused"
    BY <1>2, <1>3, <1>8, <2>1 DEF GoodOrder, Live, Placed
  <2>2. CASE rec.st = "paying"
    <3>1. rec = order[b]
      BY <1>6, <2>2
    <3>2. OfSession(b)'
      BY <1>1, <1>2, <1>3, <1>8, <2>2, <3>1 DEF OfSession, Begun, Live, Placed, ShopInv
    <3> QED BY <1>2, <1>3, <1>4, <1>8, <2>2, <3>1, <3>2 DEF GoodOrder, Placed
  <2> QED BY <1>6, <2>1, <2>2
<1>12. order[b].st \in Live \ {"paid"}
  BY <1>1 DEF Live
<1> QED BY <1>1, <1>2, <1>6, <1>7, <1>9, <1>10, <1>11, <1>12, ReleasedInv

\* An order changes its state and nothing else.
LEMMA Restated ==
  ASSUME ShopTables, NEW b \in Buyers, NEW st \in Live, order' = [order EXCEPT ![b].st = st]
  PROVE  \E W : \E rec \in Checkout(W) :
            /\ order' = [order EXCEPT ![b] = rec] /\ rec.st = st /\ rec.lot = order[b].lot
            /\ rec.ask = order[b].ask /\ rec.session = order[b].session
            /\ rec.bill = order[b].bill /\ rec.link = order[b].link
<1>1. PICK V : order \in [Buyers -> Checkout(V)]
  BY DEF ShopTables
<1> DEFINE rec == [order[b] EXCEPT !.st = st]
<1>2. order[b] \in Checkout(V)
  BY <1>1
<1>3. /\ rec \in Checkout(V) /\ rec.st = st /\ rec.lot = order[b].lot /\ rec.ask = order[b].ask
      /\ rec.session = order[b].session /\ rec.bill = order[b].bill /\ rec.link = order[b].link
  BY <1>2 DEF Checkout
<1>4. order' = [order EXCEPT ![b] = rec]
  BY <1>1, <1>2 DEF Checkout
<1> HIDE DEF rec, Checkout
<1> QED BY <1>3, <1>4

LEMMA CancelOrderInv == ASSUME ShopInv, NEW b \in Buyers, CancelOrder(b) PROVE ShopInv'
<1>1. /\ order[b].st \in {"pending", "confirming"} /\ GiveBack(b)
      /\ lot' = Released(order[b].lot, order[b].ask.qty)
      /\ UNCHANGED <<link, uses, unpaid, edit, ledger>>
  BY DEF CancelOrder
<1>2. PICK st \in {"cancelled", "overtaken"} : order' = [order EXCEPT ![b].st = st]
  BY DEF CancelOrder
<1>3. st \in Live /\ st \in Placed /\ st # "paid" /\ order[b].st \in Placed /\ order[b].st \in Live \ {"paid"}
  BY <1>1 DEF Live, Placed
<1>4. PICK W : \E rec \in Checkout(W) :
            /\ order' = [order EXCEPT ![b] = rec] /\ rec.st = st /\ rec.lot = order[b].lot
            /\ rec.ask = order[b].ask /\ rec.session = order[b].session
            /\ rec.bill = order[b].bill /\ rec.link = order[b].link
  BY <1>2, <1>3, Restated DEF ShopInv
<1>5. PICK rec \in Checkout(W) :
            /\ order' = [order EXCEPT ![b] = rec] /\ rec.st = st /\ rec.lot = order[b].lot
            /\ rec.ask = order[b].ask /\ rec.session = order[b].session
            /\ rec.bill = order[b].bill /\ rec.link = order[b].link
  BY <1>4
<1>6. order'[b] = rec /\ \A x \in Buyers \ {b} : order'[x] = order[x]
  BY <1>5 DEF ShopInv, ShopTables
<1>7. reserved' = reserved \ {order[b].session} /\ GoodOrder(b) /\ order[b].session \notin unpaid
  BY <1>1, <1>3 DEF GiveBack, ShopInv, Orders, GoodOrder, OfSession
<1>8. Follows(b)
  BY <1>1, <1>3, <1>5, <1>6, <1>7 DEF Follows, Begun
<1>9. Sessions'
  <2>1. unpaid' \subseteq reserved' /\ reserved' \subseteq reserved
    BY <1>1, <1>7 DEF ShopInv, Sessions
  <2> QED BY <1>3, <1>5, <1>6, <2>1, SessionsKept DEF ShopInv
<1>10. GoodOrder(b)'
  <2>1. OfSession(b)'
    BY <1>1, <1>3, <1>5, <1>6, <1>7 DEF OfSession, GoodOrder, Begun
  <2>2. DOMAIN lot' = DOMAIN lot
    BY <1>1 DEF Released
  <2> QED BY <1>1, <1>3, <1>5, <1>6, <1>7, <2>1, <2>2 DEF GoodOrder, GoodBill, Live, Placed
<1> QED BY <1>1, <1>3, <1>5, <1>8, <1>9, <1>10, ReleasedInv

LEMMA ReserveInv == ASSUME ShopInv, NEW b \in Buyers, Reserve(b) PROVE ShopInv'
<1> DEFINE l == order[b].lot
           qty == order[b].ask.qty
           held == [order[b] EXCEPT !.st = "held", !.tries = 0, !.last = None, !.session = b]
           back == [order[b] EXCEPT !.st = "seeking", !.lot = None, !.tries = @ + 1, !.last = l]
<1>1. order[b].st \in {"resolved", "out_of_range"} /\ UNCHANGED <<link, uses, edit, ledger>>
  BY DEF Reserve
<1>2. PICK V : order \in [Buyers -> Checkout(V)]
  BY DEF ShopInv, ShopTables
<1>3. /\ order[b] \in Checkout(V) /\ order[b].ask \in Asks /\ l \in DOMAIN lot
      /\ lot \in [DOMAIN lot -> Entry] /\ qty \in Nat
  BY <1>1, <1>2, ShopAssumption DEF ShopInv, ShopTables, Orders, GoodOrder
<1>4. \/ /\ Fits(l, qty) /\ lot' = [lot EXCEPT ![l].held = @ + qty] /\ order' = [order EXCEPT ![b] = held]
         /\ Opened(b)
      \/ order' = Refused(b) /\ UNCHANGED <<lot, claims>>
      \/ order' = [order EXCEPT ![b] = back] /\ UNCHANGED <<lot, claims>>
  <2>1. \/ /\ Fits(l, qty) /\ lot' = [lot EXCEPT ![l].held = @ + qty]
           /\ order' = [order EXCEPT ![b].st = "held", ![b].tries = 0, ![b].last = None, ![b].session = b]
           /\ Opened(b)
        \/ order' = Refused(b) /\ UNCHANGED <<lot, claims>>
        \/ order' = [order EXCEPT ![b] = back] /\ UNCHANGED <<lot, claims>>
    <3> DEFINE fits == Fits(l, qty)
               final == l = order[b].last \/ order[b].ask.lot # None \/ order[b].tries + 1 = Attempts
    <3>1. IF fits /\ order[b].st = "resolved"
          THEN /\ lot' = [lot EXCEPT ![l].held = @ + qty]
               /\ order' = [order EXCEPT ![b].st = "held", ![b].tries = 0, ![b].last = None, ![b].session = b]
               /\ Opened(b)
          ELSE /\ order' = IF fits \/ final THEN Refused(b) ELSE [order EXCEPT ![b] = back]
               /\ UNCHANGED <<lot, claims>>
      BY DEF Reserve
    <3> HIDE DEF l, qty, final, back
    <3> QED BY <3>1
  <2>2. [order EXCEPT ![b].st = "held", ![b].tries = 0, ![b].last = None, ![b].session = b]
          = [order EXCEPT ![b] = held]
    BY <1>2, <1>3 DEF Checkout
  <2> HIDE DEF held, back, l, qty
  <2> QED BY <2>1, <2>2
<1>5. order[b].st \notin Begun /\ b \notin reserved /\ excess[b] = 0
  BY <1>1 DEF Begun, Live, Placed, ShopInv, Sessions, Orders, GoodOrder
<1>6. CASE order' = Refused(b) /\ UNCHANGED <<lot, claims>>
  BY <1>1, <1>5, <1>6, RefusedInv
<1>7. CASE order' = [order EXCEPT ![b] = back] /\ UNCHANGED <<lot, claims>>
  <2>1. back \in Checkout(V \cup {None, l, order[b].tries + 1}) /\ back.st = "seeking" /\ back.ask = order[b].ask
    BY <1>3 DEF Checkout
  <2> HIDE DEF back
  <2>2. /\ \E U : order' \in [Buyers -> Checkout(U)]
        /\ order'[b] = back
        /\ \A x \in Buyers \ {b} : order'[x] = order[x]
    BY <1>7, <2>1, Wrote DEF ShopInv
  <2>3. GoodOrder(b)' /\ order'[b].st # "paid" /\ order[b].st # "paid"
    BY <1>1, <1>3, <1>5, <1>7, <2>1, <2>2 DEF GoodOrder, Live, Placed, claims
  <2> QED BY <1>1, <1>5, <1>7, <2>2, <2>3, Looked DEF claims
<1>8. CASE /\ Fits(l, qty) /\ lot' = [lot EXCEPT ![l].held = @ + qty] /\ order' = [order EXCEPT ![b] = held]
           /\ Opened(b)
  <2>1. /\ held \in Checkout(V \cup {None, 0, b}) /\ held.st = "held" /\ held.session = b
        /\ held.ask = order[b].ask /\ held.lot = l
    BY <1>3 DEF Checkout, Live
  <2> HIDE DEF held
  <2>2. /\ \E U : order' \in [Buyers -> Checkout(U)]
        /\ order'[b] = held
        /\ \A x \in Buyers \ {b} : order'[x] = order[x]
    BY <1>8, <2>1, Wrote DEF ShopInv
  <2>3. unpaid' = unpaid \cup {b} /\ reserved' = reserved \cup {b} /\ excess' = excess
    BY <1>8 DEF Opened
  <2>4. /\ DOMAIN lot' = DOMAIN lot /\ lot' \in [DOMAIN lot -> Entry]
        /\ lot'[l].sold = lot[l].sold /\ lot'[l].row = lot[l].row /\ lot'[l].held = lot[l].held + qty
        /\ \A m \in DOMAIN lot \ {l} : lot'[m] = lot[m]
    <3>1. lot[l].held \in Nat
      BY <1>3, Counted
    <3> HIDE DEF l, qty
    <3>2. lot' = [lot EXCEPT ![l].held = lot[l].held + qty]
      BY <1>3, <1>8
    <3>3. lot[l].held + qty \in Nat
      BY <1>3, <3>1
    <3> QED BY <1>3, <3>2, <3>3 DEF Entry
  <2>5. Follows(b)
    BY <1>5 DEF Follows
  <2>6. Sessions'
    <3>1. unpaid' \subseteq reserved' /\ reserved' \subseteq Buyers
      BY <2>3 DEF ShopInv, Sessions
    <3>2. ASSUME NEW s \in reserved' PROVE order'[s].st \in Live /\ order'[s].session = s
      <4>1. CASE s = b
        BY <2>1, <2>2, <4>1 DEF Live
      <4>2. CASE s # b
        BY <2>2, <2>3, <4>2 DEF ShopInv, Sessions
      <4> QED BY <4>1, <4>2
    <3> QED BY <3>1, <3>2 DEF Sessions
  <2>7. GoodOrder(b)' /\ order'[b].st # "paid" /\ order[b].st # "paid"
    <3>1. OfSession(b)'
      BY <2>1, <2>2 DEF OfSession, Begun, Live, Placed
    <3> QED BY <1>1, <1>3, <1>5, <2>1, <2>2, <2>3, <2>4, <3>1 DEF GoodOrder, Placed
  <2>8. ShopTables' /\ Orders' /\ (StockAddsUp' => ShopInv')
    <3>1. excess' \in [Buyers -> Nat] /\ \A x \in Buyers \ {b} : excess'[x] = excess[x]
      BY <2>3 DEF ShopInv, ShopTables
    <3>2. reserved' \subseteq reserved \cup {b} /\ unpaid' \subseteq unpaid \cup {b}
      BY <2>3
    <3> QED BY <1>1, <2>2, <2>4, <2>5, <2>6, <2>7, <3>1, <3>2, Asked
  <2>9. StockAddsUp'
    <3> SUFFICES ASSUME NEW m \in DOMAIN lot
                 PROVE  /\ lot'[m].sold = UnitsSold(m)'
                        /\ lot'[m].sold + lot'[m].held <= lot'[m].row.quantity
                        /\ lot'[m].held <= Reserved(m)' /\ Reserved(m)' - Excess(m)' <= lot'[m].held
      BY <2>4 DEF StockAddsUp, ListLots
    <3>1. \A x \in Buyers \ {b} : Holds(m, x)' = Holds(m, x)
      BY <2>2, <2>3 DEF Holds
    <3>2. \A x \in Buyers \ {b} : Buys(m, x)' = Buys(m, x) /\ Exceeds(m, x)' = Exceeds(m, x)
      BY <2>2, <2>3 DEF Buys, Exceeds
    <3>3. /\ Reserved(m) \in Nat /\ UnitsSold(m) \in Nat /\ Excess(m) \in Nat
          /\ Reserved(m)' = Reserved(m) - Holds(m, b) + Holds(m, b)'
          /\ UnitsSold(m)' = UnitsSold(m) - Buys(m, b) + Buys(m, b)'
          /\ Excess(m)' = Excess(m) - Exceeds(m, b) + Exceeds(m, b)'
      BY <2>6, <2>8, <3>1, <3>2, StockMoves DEF ShopInv
    <3>4. /\ Holds(m, b) = 0 /\ Holds(m, b)' = (IF m = l THEN qty ELSE 0)
          /\ Buys(m, b) = 0 /\ Buys(m, b)' = 0 /\ Exceeds(m, b) = 0 /\ Exceeds(m, b)' = 0
      BY <1>1, <1>5, <2>1, <2>2, <2>3 DEF Holds, Buys, Exceeds
    <3>5. /\ lot[m].sold \in Nat /\ lot[m].held \in Nat /\ lot[m].row.quantity \in Nat
          /\ lot[m].sold = UnitsSold(m) /\ lot[m].sold + lot[m].held <= lot[m].row.quantity
          /\ lot[m].held <= Reserved(m) /\ Reserved(m) - Excess(m) <= lot[m].held
      BY Counted
    <3>6. /\ lot'[m].sold = lot[m].sold /\ lot'[m].row = lot[m].row
          /\ lot'[m].held = lot[m].held + (IF m = l THEN qty ELSE 0)
          /\ lot'[m].sold + lot'[m].held <= lot'[m].row.quantity
      <4>1. CASE m = l
        <5>1. lot[l].sold + lot[l].held + qty <= lot[l].row.quantity
          BY <1>8 DEF Fits
        <5> HIDE DEF qty
        <5> QED BY <1>3, <2>4, <3>5, <4>1, <5>1
      <4>2. CASE m # l
        BY <2>4, <3>5, <4>2
      <4> QED BY <4>1, <4>2
    <3> DEFINE part == IF m = l THEN qty ELSE 0
    <3>7. part \in Nat
      BY <1>3
    <3> HIDE DEF Holds, Buys, Exceeds, Reserved, UnitsSold, Excess, part
    <3>8. lot'[m].held = lot[m].held + part /\ Holds(m, b)' = part
      BY <3>4, <3>6 DEF part
    <3> QED BY <3>3, <3>4, <3>5, <3>6, <3>7, <3>8
  <2> QED BY <2>8, <2>9
<1> QED BY <1>4, <1>6, <1>7, <1>8

\* A live order goes on to another state with the units of its session.
LEMMA GoesOn ==
  ASSUME ShopInv, NEW b \in Buyers, NEW st \in Live, order' = [order EXCEPT ![b].st = st],
         order[b].st \in Live \ {"paid"}, st # "paid", order[b].st \in Placed <=> st \in Placed,
         UNCHANGED <<lot, link, uses, claims, edit, ledger>>
  PROVE  ShopInv'
<1>1. PICK W : \E rec \in Checkout(W) :
            /\ order' = [order EXCEPT ![b] = rec] /\ rec.st = st /\ rec.lot = order[b].lot
            /\ rec.ask = order[b].ask /\ rec.session = order[b].session
            /\ rec.bill = order[b].bill /\ rec.link = order[b].link
  BY Restated DEF ShopInv
<1>2. PICK rec \in Checkout(W) :
            /\ order' = [order EXCEPT ![b] = rec] /\ rec.st = st /\ rec.lot = order[b].lot
            /\ rec.ask = order[b].ask /\ rec.session = order[b].session
            /\ rec.bill = order[b].bill /\ rec.link = order[b].link
  BY <1>1
<1>3. /\ \E V : order' \in [Buyers -> Checkout(V)]
      /\ order'[b] = rec
      /\ \A x \in Buyers \ {b} : order'[x] = order[x]
  BY <1>2, Wrote DEF ShopInv
<1>4. GoodOrder(b)'
  <2>1. GoodOrder(b)
    BY DEF ShopInv, Orders
  <2>2. OfSession(b)'
    <3>1. order'[order[b].session].st \in Begun
      BY <1>2, <1>3, <2>1 DEF GoodOrder, OfSession, Begun
    <3>2. /\ order'[order[b].session].lot = order[order[b].session].lot
          /\ order'[order[b].session].ask = order[order[b].session].ask
      BY <1>2, <1>3, <2>1 DEF GoodOrder, OfSession
    <3> QED BY <1>2, <1>3, <2>1, <3>1, <3>2 DEF GoodOrder, OfSession, claims
  <2>3. order[b].st \notin {"none", "refused"} /\ st \notin {"none", "refused"}
    BY DEF Live, Placed
  <2> QED BY <1>2, <1>3, <2>1, <2>2, <2>3 DEF GoodOrder, GoodBill, claims
<1> QED BY <1>2, <1>3, <1>4, Looked DEF claims

LEMMA PayBeginInv == ASSUME ShopInv, NEW b \in Buyers, PayBegin(b) PROVE ShopInv'
BY GoesOn DEF PayBegin, Live, Placed

LEMMA PayAgainInv ==
  ASSUME ShopInv, NEW c \in Buyers, NEW b \in Buyers, PayAgain(c, b) PROVE ShopInv'
<1>1. /\ order[c].st = "none" /\ order[b].st = "paying" /\ order' = [order EXCEPT ![c] = order[b]]
      /\ UNCHANGED <<lot, link, uses, claims, edit, ledger>>
  BY DEF PayAgain
<1>2. PICK V : order \in [Buyers -> Checkout(V)]
  BY DEF ShopInv, ShopTables
<1>3. /\ \E U : order' \in [Buyers -> Checkout(U)]
      /\ order'[c] = order[b] /\ order'[b] = order[b]
      /\ \A x \in Buyers \ {c} : order'[x] = order[x]
  <2>1. order[b] \in Checkout(V)
    BY <1>2
  <2> QED BY <1>1, <1>2, <2>1, Wrote DEF ShopInv
<1>4. order[c].st \notin Begun /\ order'[c].st # "paid" /\ order[c].st # "paid"
  BY <1>1, <1>3 DEF Begun, Live, Placed
<1>5. GoodOrder(c)'
  <2>1. GoodOrder(b) /\ excess[c] = 0
    BY <1>1 DEF ShopInv, Orders, GoodOrder, Placed
  <2>2. OfSession(b) /\ order[b].session # c
    BY <1>1, <1>4, <2>1 DEF GoodOrder, OfSession, Live
  <2>3. order'[order[b].session] = order[order[b].session]
    BY <1>3, <2>2 DEF OfSession
  <2>4. OfSession(c)'
    BY <1>1, <1>3, <2>2, <2>3 DEF OfSession, claims
  <2> QED BY <1>1, <1>3, <2>1, <2>4 DEF GoodOrder, claims, Live, Placed
<1> QED BY <1>1, <1>3, <1>4, <1>5, Looked DEF claims

LEMMA PaySessionInv == ASSUME ShopInv, NEW b \in Buyers, PaySession(b) PROVE ShopInv'
<1> DEFINE a == order[b].ask
           l == order[b].lot
           by == IF lot[l].row.hidden THEN a.link ELSE None
<1>1. /\ order[b].st = "paying" /\ UNCHANGED <<lot, link, uses, reserved, excess, edit, ledger>>
      /\ lot[l].row.hidden => OpenedBy(a.link) # {}
      /\ a.coupon => CouponUsable
      /\ unpaid' = unpaid \ {order[b].session}
  BY DEF PaySession
<1>2. PICK bill \in BillOf(b) :
          order' = [order EXCEPT ![b].st = "pending", ![b].bill = bill, ![b].link = by]
  BY DEF PaySession
<1>3. PICK V : order \in [Buyers -> Checkout(V)]
  BY DEF ShopInv, ShopTables
<1>4. /\ order[b] \in Checkout(V) /\ a \in Asks /\ l \in DOMAIN lot /\ lot[l] \in Entry
      /\ GoodOrder(b) /\ OfSession(b) /\ order[b].st \in Live
  BY <1>1, <1>3 DEF ShopInv, ShopTables, Orders, GoodOrder, Live, Placed
<1>5. GoodBill(bill, a)
  <2>1. PICK fee \in FeeFor(a.method, a.parts) : bill \in BillsAt(lot[l].row.price, a, fee)
    BY <1>2 DEF BillOf
  <2>2. lot[l].row.price \in Nat
    BY <1>4, RowQuantity DEF Entry
  <2> HIDE DEF a, l
  <2> QED BY <1>4, <2>1, <2>2, BillIsGood
<1>6. (by = None \/ by \in DOMAIN link) /\ (a.coupon => uses # None)
  BY <1>1 DEF OpenedBy, Usable, CouponUsable
<1> DEFINE rec == [order[b] EXCEPT !.st = "pending", !.bill = bill, !.link = by]
<1> HIDE DEF by
<1>7. /\ rec \in Checkout(V \cup {bill, by}) /\ rec.st = "pending" /\ rec.bill = bill /\ rec.link = by
      /\ rec.ask = a /\ rec.lot = l /\ rec.session = order[b].session
  BY <1>4 DEF Checkout, Live, Placed
<1>8. order' = [order EXCEPT ![b] = rec]
  BY <1>2, <1>3, <1>4 DEF Checkout
<1> HIDE DEF rec
<1>9. /\ \E U : order' \in [Buyers -> Checkout(U)]
      /\ order'[b] = rec
      /\ \A x \in Buyers \ {b} : order'[x] = order[x]
  BY <1>7, <1>8, Wrote DEF ShopInv
<1>10. order'[b].st # "paid" /\ order[b].st # "paid" /\ order'[b].st \in Live /\ order'[b].st \in Placed
  BY <1>1, <1>7, <1>9 DEF Live, Placed
<1>11. GoodOrder(b)'
  <2>1. GoodBill(order'[b].bill, order'[b].ask)
    BY <1>5, <1>7, <1>9
  <2>2. OfSession(b)'
    <3> DEFINE s == order[b].session
    <3>1. s \in Buyers /\ order'[s].st \in Begun
      BY <1>4, <1>9, <1>10 DEF OfSession, Begun
    <3>2. s \in reserved => order'[s].lot = l /\ order'[s].ask = a
      BY <1>4, <1>7, <1>9 DEF OfSession
    <3> QED BY <1>1, <1>7, <1>9, <3>1, <3>2 DEF OfSession
  <2>3. order'[b].st = "pending"
    BY <1>7, <1>9
  <2> QED BY <1>1, <1>4, <1>6, <1>7, <1>9, <1>10, <2>1, <2>2, <2>3 DEF GoodOrder, GoodBill
<1>12. unpaid' \subseteq unpaid
  BY <1>1
<1> QED BY <1>1, <1>4, <1>7, <1>9, <1>10, <1>11, <1>12, Looked

LEMMA ConfirmReadInv == ASSUME ShopInv, NEW b \in Buyers, ConfirmRead(b) PROVE ShopInv'
BY GoesOn DEF ConfirmRead, Live, Placed

\* The counters of one lot after a confirmation.
LEMMA SoldIs ==
  ASSUME ShopTables, NEW l \in DOMAIN lot, NEW qty \in Nat, lot' = Sold(l, qty)
  PROVE  /\ DOMAIN lot' = DOMAIN lot /\ lot' \in [DOMAIN lot -> Entry]
         /\ lot'[l].sold = lot[l].sold + qty /\ lot'[l].row = lot[l].row
         /\ lot'[l].held = IF lot[l].held >= qty THEN lot[l].held - qty ELSE 0
         /\ \A m \in DOMAIN lot \ {l} : lot'[m] = lot[m]
<1> DEFINE e == lot[l]
           h == IF e.held >= qty THEN e.held - qty ELSE 0
           n == e.sold + qty
           x == [e EXCEPT !.sold = n, !.held = h]
<1>1. lot \in [DOMAIN lot -> Entry] /\ e \in Entry
  BY DEF ShopTables
<1>2. h \in Nat /\ n \in Nat
  BY <1>1 DEF Entry
<1>3. lot' = [lot EXCEPT ![l] = x]
  BY <1>1 DEF Sold, Entry
<1> HIDE DEF h, n, e
<1>4. x \in Entry /\ x.row = e.row /\ x.sold = n /\ x.held = h
  BY <1>1, <1>2 DEF Entry
<1> HIDE DEF x
<1>5. /\ DOMAIN lot' = DOMAIN lot /\ lot' \in [DOMAIN lot -> Entry] /\ lot'[l] = x
      /\ \A m \in DOMAIN lot \ {l} : lot'[m] = lot[m]
  BY <1>1, <1>3, <1>4
<1> QED BY <1>4, <1>5 DEF e, h, n

LEMMA ConfirmedInv ==
  ASSUME ShopInv, NEW b \in Buyers, order[b].st \in {"confirming", "overtaken"}, Confirmed(b),
         CapacityChk(Sold(order[b].lot, order[b].ask.qty)[order[b].lot]), UNCHANGED <<unpaid, edit>>
  PROVE  ShopInv'
<1> DEFINE l == order[b].lot
           qty == order[b].ask.qty
<1>1. /\ order' = [order EXCEPT ![b].st = "paid"] /\ edit' = edit
      /\ link' = IF order[b].link = None THEN link ELSE Consume(order[b].link, qty)
      /\ lot' = Sold(l, qty)
      /\ uses' = IF order[b].ask.coupon THEN uses + 1 ELSE uses
      /\ ledger' = ledger + order[b].bill.charge.face
      /\ GiveBack(b)
  BY DEF Confirmed
<1>2. /\ order[b].st \in Placed /\ order[b].st \in Live \ {"paid"} /\ GoodOrder(b)
      /\ order[b].ask \in Asks /\ qty \in Nat /\ l \in DOMAIN lot
      /\ order[b].bill.charge.face \in Nat
      /\ order[b].link = None \/ order[b].link \in DOMAIN link
      /\ order[b].ask.coupon => uses # None
      /\ uses \in Nat \cup {None} /\ ledger \in Nat
  <2>1. order[b].st \in Placed /\ order[b].st \in Live \ {"paid"}
    BY DEF Live, Placed
  <2>2. qty \in Nat /\ order[b].bill.charge.face \in Nat
    BY <2>1, PaidTypes DEF ShopInv
  <2>3. order[b].ask \in Asks /\ l \in DOMAIN lot
    BY <2>1, QtyType DEF ShopInv
  <2> QED BY <2>1, <2>2, <2>3 DEF ShopInv, ShopTables, Orders, GoodOrder
<1>3. /\ DOMAIN lot' = DOMAIN lot /\ lot' \in [DOMAIN lot -> Entry]
      /\ lot'[l].sold = lot[l].sold + qty /\ lot'[l].row = lot[l].row
      /\ lot'[l].held = IF lot[l].held >= qty THEN lot[l].held - qty ELSE 0
      /\ \A m \in DOMAIN lot \ {l} : lot'[m] = lot[m]
  <2> HIDE DEF l, qty
  <2> QED BY <1>1, <1>2, SoldIs DEF ShopInv
<1>4. PICK W : \E rec \in Checkout(W) :
            /\ order' = [order EXCEPT ![b] = rec] /\ rec.st = "paid" /\ rec.lot = order[b].lot
            /\ rec.ask = order[b].ask /\ rec.session = order[b].session
            /\ rec.bill = order[b].bill /\ rec.link = order[b].link
  <2>1. "paid" \in Live
    BY DEF Live, Placed
  <2> QED BY <1>1, <2>1, Restated DEF ShopInv
<1>5. PICK rec \in Checkout(W) :
            /\ order' = [order EXCEPT ![b] = rec] /\ rec.st = "paid" /\ rec.lot = order[b].lot
            /\ rec.ask = order[b].ask /\ rec.session = order[b].session
            /\ rec.bill = order[b].bill /\ rec.link = order[b].link
  BY <1>4
<1>6. /\ \E U : order' \in [Buyers -> Checkout(U)]
      /\ order'[b] = rec
      /\ \A x \in Buyers \ {b} : order'[x] = order[x]
  BY <1>5, Wrote DEF ShopInv
<1>7. Pays(b)
  BY <1>5, <1>6 DEF Pays
<1>8. /\ DOMAIN link' = DOMAIN link /\ link' \in [DOMAIN link -> [used : Nat, revoked : BOOLEAN]]
  <2>1. link \in [DOMAIN link -> [used : Nat, revoked : BOOLEAN]]
    BY DEF ShopInv, ShopTables
  <2>2. CASE link' = link
    BY <2>1, <2>2
  <2>3. CASE order[b].link # None /\ link' = [link EXCEPT ![order[b].link].used = @ + qty]
    BY <1>2, <2>1, <2>3
  <2> QED BY <1>1, <2>2, <2>3 DEF Consume
<1>9. uses' \in Nat \cup {None} /\ ledger' \in Nat /\ (uses # None => uses' # None)
  BY <1>1, <1>2, ShopAssumption
<1>10. /\ excess' \in [Buyers -> Nat] /\ \A x \in Buyers \ {b} : excess'[x] = excess[x]
       /\ reserved' = reserved \ {order[b].session} /\ order[b].session \notin unpaid
  BY <1>1, <1>2 DEF GiveBack, ShopInv, ShopTables, GoodOrder, OfSession
<1>11. ShopTables'
  BY <1>1, <1>3, <1>6, <1>8, <1>9, <1>10 DEF ShopInv, ShopTables
<1>12. order'[b].st \in Live /\ order'[b].st \in Placed /\ order'[b].st = "paid"
  BY <1>5, <1>6 DEF Live, Placed
<1>13. Sessions'
  <2>1. unpaid' \subseteq reserved' /\ reserved' \subseteq reserved
    BY <1>10 DEF ShopInv, Sessions
  <2> QED BY <1>5, <1>6, <1>12, <2>1, SessionsKept DEF ShopInv
<1>14. Orders'
  <2>1. Follows(b)
    BY <1>5, <1>6, <1>10, <1>12 DEF Follows, Begun
  <2>2. reserved' \subseteq reserved \cup {b} /\ unpaid' \subseteq unpaid \cup {b}
    BY <1>10
  <2>3. \A x \in Buyers \ {b} : GoodOrder(x)'
    BY <1>3, <1>6, <1>8, <1>9, <1>10, <2>1, <2>2, OthersKept DEF ShopInv
  <2>4. OfSession(b)'
    <3> DEFINE s == order[b].session
    <3>1. s \in Buyers /\ order'[s].st \in Begun
      BY <1>2, <1>6, <1>12 DEF GoodOrder, OfSession, Begun
    <3> QED BY <1>5, <1>6, <1>10, <3>1 DEF OfSession
  <2>5. GoodOrder(b)'
    BY <1>2, <1>3, <1>5, <1>6, <1>8, <1>9, <1>12, <2>4 DEF GoodOrder, GoodBill
  <2> QED BY <2>3, <2>5 DEF Orders
<1>15. StockAddsUp'
  <2> SUFFICES ASSUME NEW m \in DOMAIN lot
               PROVE  /\ lot'[m].sold = UnitsSold(m)'
                      /\ lot'[m].sold + lot'[m].held <= lot'[m].row.quantity
                      /\ lot'[m].held <= Reserved(m)' /\ Reserved(m)' - Excess(m)' <= lot'[m].held
    BY <1>3 DEF StockAddsUp, ListLots
  <2>1. lot'[m].held = IF m = l /\ lot[m].held >= qty THEN lot[m].held - qty
                       ELSE IF m = l THEN 0 ELSE lot[m].held
    BY <1>3
  <2>2. /\ lot'[m].held <= Reserved(m)' /\ Reserved(m)' - Excess(m)' <= lot'[m].held
        /\ UnitsSold(m)' = UnitsSold(m) + (IF order'[b].st = "paid" /\ l = m THEN qty ELSE 0)
    BY <1>1, <1>2, <1>5, <1>6, <1>11, <1>13, <1>14, <2>1, GivenBack
  <2>3. /\ lot[m].sold \in Nat /\ lot[m].sold = UnitsSold(m)
        /\ lot[m].sold + lot[m].held <= lot[m].row.quantity
    BY Counted
  <2>4. lot'[m].sold = UnitsSold(m)'
    <3> HIDE DEF l, qty, UnitsSold
    <3>1. CASE m = l
      BY <1>2, <1>3, <1>12, <2>2, <2>3, <3>1
    <3>2. CASE m # l
      BY <1>3, <1>12, <2>2, <2>3, <3>2
    <3> QED BY <3>1, <3>2
  <2>5. lot'[m].sold + lot'[m].held <= lot'[m].row.quantity
    <3>1. CASE m = l
      BY <1>1, <3>1 DEF CapacityChk
    <3>2. CASE m # l
      BY <1>3, <2>3, <3>2
    <3> QED BY <3>1, <3>2
  <2> QED BY <2>2, <2>4, <2>5
<1>16. BooksAddUp'
  <2>1. SalesAddUp'
    <3>1. l \in Lots
      BY <1>2 DEF ShopInv, ShopTables
    <3> QED BY <1>1, <1>2, <1>7, <3>1, SalesGrow DEF ShopInv, BooksAddUp
  <2>2. CouponsAddUp'
    BY <1>1, <1>2, <1>7, CouponsGrow DEF ShopInv, BooksAddUp
  <2>3. LinksAddUp'
    BY <1>1, <1>7, LinksGrow DEF ShopInv, BooksAddUp
  <2>4. ChargesCover'
    BY <1>14 DEF Orders, GoodOrder, ChargesCover, GoodBill
  <2> QED BY <2>1, <2>2, <2>3, <2>4 DEF BooksAddUp
<1> QED BY <1>11, <1>13, <1>14, <1>15, <1>16 DEF ShopInv

LEMMA ConfirmPaymentInv == ASSUME ShopInv, NEW b \in Buyers, ConfirmPayment(b) PROVE ShopInv'
<1> DEFINE fits == CapacityChk(Sold(order[b].lot, order[b].ask.qty)[order[b].lot])
<1>1. order[b].st \in {"confirming", "overtaken"} /\ UNCHANGED <<unpaid, edit>>
  BY DEF ConfirmPayment
<1>2. CASE fits /\ Confirmed(b)
  BY <1>1, <1>2, ConfirmedInv
<1>3. CASE /\ order' = [order EXCEPT ![b].st = IF @ = "confirming" THEN "pending" ELSE "cancelled"]
           /\ UNCHANGED <<lot, link, uses, reserved, excess, ledger>>
  <2>1. PICK st \in {"pending", "cancelled"} : order' = [order EXCEPT ![b].st = st]
    BY <1>3
  <2> QED BY <1>1, <1>3, <2>1, GoesOn DEF Live, Placed, claims
<1> QED BY <1>2, <1>3 DEF ConfirmPayment

LEMMA BuyerInv == ASSUME ShopInv, NEW b \in Buyers, Buyer(b) PROVE ShopInv'
BY CreateSessionInv, ResolveInv, ReserveInv, ExpireSessionInv, PayBeginInv, PayAgainInv, PaySessionInv,
   CancelOrderInv, ConfirmReadInv, ConfirmPaymentInv DEF Buyer

-----------------------------------------------------------------------------
(* The theorems                                                            *)

LEMMA InitShopInv == Init => ShopInv
<1> SUFFICES ASSUME Init PROVE ShopInv
  OBVIOUS
<1>1. \A b \in Buyers : order[b] = NoOrder /\ order[b].st = "none"
  BY DEF Init, NoOrder
<1>2. ShopTables
  <2>1. order \in [Buyers -> Checkout({None, 0})]
    BY DEF Init, NoOrder, Checkout
  <2>2. DOMAIN lot = {} /\ DOMAIN link = {} /\ uses = None /\ ledger = 0 /\ edit = None
    BY DEF Init
  <2>3. lot \in [DOMAIN lot -> Entry] /\ link \in [DOMAIN link -> [used : Nat, revoked : BOOLEAN]]
    BY <2>2 DEF Init
  <2>4. excess \in [Buyers -> Nat]
    BY DEF Init
  <2> QED BY <2>1, <2>2, <2>3, <2>4 DEF ShopTables
<1>3. Orders
  BY <1>1 DEF Orders, GoodOrder, Live, Placed, Init
<1>4. StockAddsUp
  BY DEF Init, StockAddsUp, ListLots
<1>5. BooksAddUp
  <2>1. Paid = {}
    BY <1>1 DEF Paid
  <2>2. CouponsAddUp
    BY DEF Init, CouponsAddUp
  <2>3. LinksAddUp
    BY DEF Init, LinksAddUp
  <2>4. ChargesCover
    BY <1>1 DEF ChargesCover, Placed
  <2>5. Among(Paid, Face) = 0 /\ Among(Paid, Off) = 0
    BY <2>1, NobodyAmong
  <2>6. SumFunction(SalesByLot) = 0
    <3>1. \A l \in Lots : Among({b \in Paid : order[b].lot = l}, Items) = 0
      BY <2>1, NobodyAmong
    <3>2. DOMAIN SalesByLot = Lots /\ \A l \in Lots : SalesByLot[l] = 0
      BY <3>1 DEF SalesByLot
    <3> QED BY <3>2, FiniteLots, SumZero
  <2>7. SalesAddUp
    BY <2>5, <2>6 DEF SalesAddUp, EventFinance, Init
  <2> QED BY <2>2, <2>3, <2>4, <2>7 DEF BooksAddUp
<1>6. Sessions
  BY DEF Init, Sessions
<1> QED BY <1>2, <1>3, <1>4, <1>5, <1>6 DEF ShopInv

LEMMA NextShopInv == ShopInv /\ [Next]_vars => ShopInv'
<1> SUFFICES ASSUME ShopInv, [Next]_vars PROVE ShopInv'
  OBVIOUS
<1>1. CASE Producer
  BY <1>1, ProducerInv
<1>2. CASE \E b \in Buyers : Buyer(b)
  BY <1>2, BuyerInv
<1>3. CASE Tick
  BY <1>3, EventInv
<1>4. CASE UNCHANGED vars
  <2>1. UNCHANGED <<lot, link, uses, order, claims, ledger, edit>>
    BY <1>4 DEF vars
  <2>2. edit' # None => edit'.lot \in DOMAIN lot /\ edit'.row \in Row
    BY <2>1 DEF ShopInv, ShopTables
  <2> QED BY <2>1, <2>2, Unmoved
<1> QED BY <1>1, <1>2, <1>3, <1>4 DEF Next

LEMMA ShopHolds == Spec => []ShopInv
BY InitShopInv, NextShopInv, PTL DEF Spec

\* Whatever the lots, and by any number of buyers: edits that read an old row, several payments of
\* one session, sessions that expire under their payment and orders cancelled under their
\* confirmation leave sold_count exactly the units of the paid orders and the counters within
\* the lot's quantity; held_count is never above the units reserved, and falls below them by no
\* more than the units that orders took off it when their session's were no longer there, which
\* the program does not prevent (catalog.go:542, api/session.go:311, inventory.go:251).
THEOREM StockIsExact == Spec => []StockAddsUp
<1>1. ShopInv => StockAddsUp
  BY DEF ShopInv
<1> QED BY <1>1, ShopHolds, PTL

\* A confirmed order is counted once in its coupon, at most once in its link, once in the ledger
\* and once on the dashboard, whose items are the face and the discounts of the paid orders; and
\* what the gateway leaves of each charge covers its face and the platform's fee
\* (checkout.go:425, dash.go:31, links.go:153, pricing.go:52).
THEOREM BooksAgree == Spec => []BooksAddUp
<1>1. ShopInv => BooksAddUp
  BY DEF ShopInv
<1> QED BY <1>1, ShopHolds, PTL
=============================================================================
