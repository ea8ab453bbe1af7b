---------------------------- MODULE PayoutProofs ----------------------------
(***************************************************************************)
(* The producer's money, for any orders, faces, clients, delays and        *)
(* policies: decisions on a payout stand, and what was transferred is      *)
(* covered by what was sold and by what the producer owes back.            *)
(*                                                                         *)
(* An order is in the hands of at most one transaction, which locked it;   *)
(* once an exact row was paid with nobody at work, the row stays paid, no  *)
(* transaction can miss it, and every refund that begins sees the payment. *)
(* A refund therefore moves its face from the orders that are paid to the  *)
(* credits, and the sum of both never falls below the transfer.            *)
(***************************************************************************)
EXTENDS Payouts, Sums

Paid == {o \in Orders : order[o] = "paid"}

\* What a transaction has in hand, and in which state its order is.
InHand(o, what) == (what = "refund" /\ order[o] = "paid") \/ (what = "confirm" /\ order[o] = "pending")
Hands ==
    /\ \A p \in Processes : \A o \in tx[p].order : tx[p].order = {o} /\ InHand(o, tx[p].what)
    /\ \A p \in Processes : tx[p].owes => tx[p].what = "refund"
    /\ \A p \in Processes : tx[p].at = "idle" => tx[p].order = {}
    /\ \A p, q \in Processes : \A o \in Orders : o \in tx[p].order /\ o \in tx[q].order => p = q

Credits == \A o \in credit : order[o] = "refunded"

\* After the transfer of an exact row.
AfterPayment ==
    transfer # 0 =>
        /\ row.status = "paid"
        /\ \A p \in Processes : tx[p].at # "missed"
        /\ \A p \in Processes : \A o \in tx[p].order : tx[p].what = "refund" => tx[p].owes \/ Face[o] = 0

Covered == transfer <= SumOf(Face, Paid) + SumOf(Face, credit)

PayoutInv == TypeOK /\ Hands /\ Credits /\ AfterPayment /\ Covered

(***************************************************************************)
(* The calculation.                                                        *)
(***************************************************************************)
\* What is due is a natural number of cents.
LEMMA MonusType == ASSUME NEW a \in Int, NEW b \in Nat PROVE Monus(a, b) \in Nat /\ (a \in Nat => Monus(a, b) <= a)
BY DEF Monus

LEMMA PlatformFeeType == ASSUME NEW face \in Nat PROVE PlatformFee(face) \in Nat
BY DEF PlatformFee

LEMMA SumOfType ==
  ASSUME NEW f \in [Orders -> Nat], NEW S \in SUBSET Orders
  PROVE  SumOf(f, S) \in Nat
<1>1. IsFiniteSet(S) /\ \A o \in S : f[o] \in Nat
  BY PayoutsAssumption, FS_Subset
<1> QED BY <1>1, SumNat DEF SumOf

LEMMA OwedType ==
  ASSUME NEW sold \in SUBSET Orders, NEW back \in SUBSET Orders, NEW d \in Days \cup {Inherited}
  PROVE  Owed(sold, back, d) \in Values
<1> DEFINE platform == [o \in Orders |-> PlatformFee(Face[o])]
           gross    == SumOf(Face, sold)
           returned == SumOf(Face, back)
           fees     == SumOf(GatewayFee, back)
           taken    == SumOf(platform, sold)
<1>1. gross \in Nat /\ returned \in Nat /\ fees \in Nat
  BY PayoutsAssumption, SumOfType
<1>2. taken \in Nat
  <2>1. platform \in [Orders -> Nat]
    BY PayoutsAssumption, PlatformFeeType
  <2> HIDE DEF platform
  <2> QED BY <2>1, SumOfType
<1> HIDE DEF gross, returned, fees, taken
<1>3. Monus(taken, PlatformFee(returned)) \in Nat
  BY <1>1, <1>2, PlatformFeeType, MonusType
<1>4. Monus(gross - returned, IF ResolvePolicy = "producer" THEN fees ELSE 0) \in Nat
  <2> DEFINE a == gross - returned
             b == IF ResolvePolicy = "producer" THEN fees ELSE 0
  <2>1. a \in Int /\ b \in Nat
    BY <1>1
  <2> HIDE DEF a, b
  <2>2. Monus(a, b) \in Nat
    BY <2>1, MonusType
  <2> QED BY <2>2 DEF a, b
<1>5. (IF Realized THEN Delay(d) ELSE NoDate) \in Nat \cup {NoDate}
  BY PayoutsAssumption DEF Delay
<1> QED BY <1>1, <1>3, <1>4, <1>5 DEF Owed, Values, gross, returned, fees, taken, platform

\* What an exact row pays is at most the face of the orders not refunded.
LEMMA NetIsCovered ==
  ASSUME order \in [Orders -> {"pending", "paid", "refunded"}]
  PROVE  OwedNow.net <= SumOf(Face, Paid)
<1> DEFINE fees == IF ResolvePolicy = "producer" THEN SumOf(GatewayFee, Back) ELSE 0
<1>1. Sold = Paid \cup Back /\ Paid \cap Back = {} /\ Paid \in SUBSET Orders /\ Back \in SUBSET Orders
  BY DEF Sold, Paid, Back
<1>2. SumOf(Face, Sold) = SumOf(Face, Paid) + SumOf(Face, Back)
  <2>1. IsFiniteSet(Paid) /\ IsFiniteSet(Back) /\ \A o \in Paid \cup Back : Face[o] \in Int
    BY <1>1, PayoutsAssumption, FS_Subset
  <2> QED BY <1>1, <2>1, SumUnion DEF SumOf
<1>3. SumOf(Face, Paid) \in Nat /\ SumOf(Face, Back) \in Nat /\ fees \in Nat
  BY <1>1, PayoutsAssumption, SumOfType
<1>4. OwedNow.net = Monus(SumOf(Face, Sold) - SumOf(Face, Back), fees)
  BY DEF OwedNow, Owed
<1> HIDE DEF fees
<1> QED BY <1>2, <1>3, <1>4, MonusType

LEMMA NextStatusType ==
  ASSUME NEW c, NEW b
  PROVE  NextStatus(c, b) \in {"accruing", "pending"} \cup Decided /\ (c \in Decided => NextStatus(c, b) = c)
BY DEF NextStatus

LEMMA BackAndSold == ASSUME TypeOK PROVE Sold \in SUBSET Orders /\ Back \in SUBSET Orders /\ OwedNow \in Values
<1>1. Sold \in SUBSET Orders /\ Back \in SUBSET Orders
  BY DEF Sold, Back
<1> QED BY <1>1, OwedType DEF OwedNow, TypeOK

(***************************************************************************)
(* A transaction begins.                                                   *)
(***************************************************************************)
Begun(p, what, own, record) ==
    /\ tx' \in [Processes -> Transaction]
    /\ \A q \in Processes : q # p => tx'[q] = tx[q]
    /\ tx'[p].at = "read" /\ tx'[p].what = what /\ tx'[p].order = own /\ tx'[p].owes = record.owes

\* A record whose other fields are typed is a transaction once it has read.
LEMMA BegunType ==
  ASSUME TypeOK, NEW p \in Processes, NEW own \in SUBSET Orders, NEW d \in Days \cup {Inherited},
         NEW what \in {"look", "confirm", "refund", "delay", "sweep"}, NEW record \in Transaction,
         Begin(p, what, own, d, record)
  PROVE  Begun(p, what, own, record)
<1> DEFINE back == Back \cup IF what = "refund" THEN own ELSE {}
           v == Owed(Sold \cup own, back, d)
           begun == [record EXCEPT !.at = "read", !.what = what, !.order = own, !.realized = Realized, !.values = v]
<1>1. v \in Values
  <2>1. Sold \cup own \in SUBSET Orders /\ back \in SUBSET Orders
    BY BackAndSold
  <2> HIDE DEF back
  <2> QED BY <2>1, OwedType
<1>2. tx' = [tx EXCEPT ![p] = begun]
  BY DEF Begin
<1>3. Realized \in BOOLEAN
  BY DEF Realized, TypeOK
<1> HIDE DEF v
<1>4. begun \in Transaction /\ begun.at = "read" /\ begun.what = what /\ begun.order = own /\ begun.owes = record.owes
  BY <1>1, <1>3 DEF Transaction
<1> HIDE DEF begun
<1> QED BY <1>2, <1>4 DEF TypeOK, Begun

\* Only a refund owes, and it does whenever it found the row paid.
OwesRightly(own, what, record) ==
    /\ record.owes => what = "refund"
    /\ \A o \in own : what = "refund" /\ row.status = "paid" => record.owes \/ Face[o] = 0

LEMMA QuietOwes ==
  ASSUME NEW own, NEW what, what # "refund", NEW record, ~record.owes
  PROVE  OwesRightly(own, what, record)
BY DEF OwesRightly

LEMMA BeginKeeps ==
  ASSUME PayoutInv, NEW p \in Processes, NEW own \in SUBSET Orders, NEW d \in Days \cup {Inherited},
         NEW what \in {"look", "confirm", "refund", "delay", "sweep"}, NEW record \in Transaction,
         Begin(p, what, own, d, record),
         \A o \in own : own = {o} /\ InHand(o, what) /\ ~Locked(o),
         OwesRightly(own, what, record)
  PROVE  PayoutInv'
<1>1. /\ tx' \in [Processes -> Transaction]
      /\ \A q \in Processes : q # p => tx'[q] = tx[q]
      /\ tx'[p].at = "read" /\ tx'[p].what = what /\ tx'[p].order = own /\ tx'[p].owes = record.owes
  <2>1. TypeOK
    BY DEF PayoutInv
  <2>2. Begun(p, what, own, record)
    BY <2>1, BegunType
  <2> QED BY <2>2 DEF Begun
<1>2. UNCHANGED <<order, event, past, delay, policy, pix, row, credit, transfer>>
  BY DEF Begin, settings
<1>3. TypeOK'
  BY <1>1, <1>2 DEF PayoutInv, TypeOK
<1>4. Hands'
  <2>1. \A q \in Processes : \A o \in tx'[q].order : tx'[q].order = {o} /\ InHand(o, tx'[q].what)
    BY <1>1 DEF PayoutInv, Hands
  <2>2. \A q, r \in Processes : \A o \in Orders : o \in tx'[q].order /\ o \in tx'[r].order => q = r
    BY <1>1 DEF PayoutInv, Hands, Locked
  <2>3. \A q \in Processes : tx'[q].owes => tx'[q].what = "refund"
    BY <1>1 DEF PayoutInv, Hands, OwesRightly
  <2>4. \A q \in Processes : tx'[q].at = "idle" => tx'[q].order = {}
    BY <1>1 DEF PayoutInv, Hands
  <2> QED BY <2>1, <2>2, <2>3, <2>4, <1>2 DEF Hands, InHand
<1>5. Credits' /\ Covered'
  BY <1>2 DEF PayoutInv, Credits, Covered, Paid, SumOf
<1>6. AfterPayment'
  BY <1>1, <1>2 DEF PayoutInv, AfterPayment, OwesRightly
<1> QED BY <1>3, <1>4, <1>5, <1>6 DEF PayoutInv

LEMMA QuietType ==
  Quiet \in Transaction /\ Quiet.order = {} /\ Quiet.at = "idle" /\ Quiet.owes = FALSE
BY DEF Quiet, Transaction, Nothing, Values

LEMMA BeginningsKeep ==
  ASSUME PayoutInv,
         \/ \E p \in Clients :
               \/ \E o \in Orders : Confirm(p, o) \/ Refund(p, o)
               \/ Look(p)
               \/ \E days \in Days : SetDelay(p, days)
         \/ Sweep
  PROVE  PayoutInv'
<1>1. delay \in Days \cup {Inherited} /\ pix \in BOOLEAN
  BY DEF PayoutInv, TypeOK
<1>2. ASSUME NEW p \in Clients, NEW o \in Orders, Confirm(p, o) PROVE PayoutInv'
  <2> DEFINE own == {o}
  <2>1. p \in Processes /\ own \in SUBSET Orders /\ \A x \in own : own = {x} /\ InHand(x, "confirm") /\ ~Locked(x)
    BY <1>2 DEF Processes, Confirm, InHand
  <2>2. Begin(p, "confirm", own, delay, Quiet)
    BY <1>2 DEF Confirm
  <2>3. OwesRightly(own, "confirm", Quiet)
    BY QuietType, QuietOwes
  <2> HIDE DEF own
  <2> QED BY <2>1, <2>2, <2>3, <1>1, QuietType, BeginKeeps
<1>3. ASSUME NEW p \in Clients, NEW o \in Orders, Refund(p, o) PROVE PayoutInv'
  <2> DEFINE own == {o}
             record == [Quiet EXCEPT !.owes = row.status = "paid" /\ Face[o] > 0]
  <2>1. p \in Processes /\ own \in SUBSET Orders /\ \A x \in own : own = {x} /\ InHand(x, "refund") /\ ~Locked(x)
    BY <1>3 DEF Processes, Refund, InHand
  <2>2. Begin(p, "refund", own, delay, record)
    BY <1>3 DEF Refund
  <2>3. record \in Transaction /\ record.owes = (row.status = "paid" /\ Face[o] > 0)
    BY QuietType DEF Transaction
  <2>4. \A x \in own : row.status = "paid" => record.owes \/ Face[x] = 0
    <3>1. Face[o] \in Nat
      BY PayoutsAssumption
    <3>2. ASSUME row.status = "paid", Face[o] # 0 PROVE record.owes
      <4>1. Face[o] > 0
        BY <3>1, <3>2
      <4> HIDE DEF record
      <4> QED BY <2>3, <3>2, <4>1, Zenon
    <3> HIDE DEF record
    <3> QED BY <3>2
  <2>5. OwesRightly(own, "refund", record)
    BY <2>4 DEF OwesRightly
  <2> HIDE DEF own, record
  <2> QED BY <2>1, <2>2, <2>3, <2>5, <1>1, BeginKeeps
<1>4. ASSUME NEW p \in Clients, Look(p) PROVE PayoutInv'
  <2>1. p \in Processes /\ Begin(p, "look", {}, delay, Quiet)
    BY <1>4 DEF Look, Processes
  <2>2. OwesRightly({}, "look", Quiet)
    BY QuietType, QuietOwes
  <2> QED BY <2>1, <2>2, <1>1, QuietType, BeginKeeps
<1>5. ASSUME NEW p \in Clients, NEW days \in Days, SetDelay(p, days) PROVE PayoutInv'
  <2> DEFINE record == [Quiet EXCEPT !.days = days]
  <2>1. record \in Transaction
    BY QuietType DEF Transaction
  <2>2. p \in Processes /\ Begin(p, "delay", {}, days, record)
    BY <1>5 DEF SetDelay, Processes
  <2>5. days \in Days \cup {Inherited} /\ {} \in SUBSET Orders
    OBVIOUS
  <2>3. ~record.owes
    BY QuietType DEF Transaction
  <2> HIDE DEF record
  <2>4. OwesRightly({}, "delay", record)
    BY <2>3, QuietOwes
  <2> QED BY <2>1, <2>2, <2>4, <2>5, BeginKeeps
<1>6. CASE Sweep
  <2> DEFINE record == [Quiet EXCEPT !.hasPix = pix]
  <2>1. record \in Transaction
    BY <1>1, QuietType DEF Transaction
  <2>2. Settler \in Processes /\ Begin(Settler, "sweep", {}, delay, record)
    BY <1>6 DEF Sweep, Processes
  <2>3. ~record.owes
    BY QuietType DEF Transaction
  <2> HIDE DEF record
  <2>4. OwesRightly({}, "sweep", record)
    BY <2>3, QuietOwes
  <2> QED BY <2>1, <2>2, <2>4, <1>1, BeginKeeps
<1> QED BY <1>2, <1>3, <1>4, <1>5, <1>6

(***************************************************************************)
(* A transaction ends.                                                     *)
(***************************************************************************)
\* What a recomputation writes, and what it leaves.
LEMMA Rewritten ==
  ASSUME TypeOK, NEW x \in {"none", "accruing", "pending"} \cup Decided, NEW v \in Values
  PROVE  LET r == [row EXCEPT !.status = x, !.values = v]
         IN  r \in Row /\ r.status = x /\ r.reason = row.reason
BY DEF TypeOK, Row

\* A release writes the whole row.
LEMMA ReleasedType ==
  ASSUME TypeOK
  PROVE  [status |-> NextStatus("accruing", Realized), values |-> OwedNow, reason |-> "none"] \in Row
BY NextStatusType, BackAndSold DEF Row

\* The row a commit leaves: a decision it found there is kept, unless it found no row.
LEMMA CommittedRow ==
  ASSUME TypeOK, NEW p \in Processes, Commit(p)
  PROVE  /\ row' \in Row
         /\ tx[p].at # "missed" =>
               /\ row.status \in {"paid", "cancelled"} => row'.status = row.status
               /\ HeldByAdmin => row'.status \in Decided
<1> DEFINE t == tx[p]
           current == IF t.at = "missed" THEN "none" ELSE row.status
           status == NextStatus(current, t.realized)
           written == [row EXCEPT !.status = status, !.values = t.values]
           held == [written EXCEPT !.status = "on_hold", !.reason = "verificacao_bancaria"]
           released == [status |-> NextStatus("accruing", Realized), values |-> OwedNow, reason |-> "none"]
<1>1. row' = IF p = Settler THEN Settled(written, t.hasPix) ELSE written
  BY DEF Commit
<1>2. status \in {"accruing", "pending"} \cup Decided /\ (current \in Decided => status = current)
  BY NextStatusType
<1>3. t.values \in Values
  BY DEF TypeOK, Transaction
<1>4. released \in Row
  BY ReleasedType
<1>5. t.at # "missed" => current = row.status
  OBVIOUS
<1> HIDE DEF t, status, current
<1>6. written \in Row /\ written.status = status /\ written.reason = row.reason
  BY <1>2, <1>3, Rewritten
<1> HIDE DEF written
<1>7. held \in Row
  BY <1>6 DEF Row, Decided
<1> HIDE DEF held, released
<1>8. \/ row' = written
      \/ written.status = "pending" /\ row' = held
      \/ written.status = "on_hold" /\ written.reason = "verificacao_bancaria" /\ row' = released
  BY <1>1 DEF Settled, held, released
<1>9. row' \in Row
  BY <1>4, <1>6, <1>7, <1>8
<1>10. ASSUME t.at # "missed", row.status \in {"paid", "cancelled"} PROVE row'.status = row.status
  BY <1>2, <1>5, <1>6, <1>8, <1>10 DEF Decided
<1>11. ASSUME t.at # "missed", HeldByAdmin PROVE row'.status \in Decided
  BY <1>2, <1>5, <1>6, <1>8, <1>11 DEF Decided, HeldByAdmin
<1> QED BY <1>9, <1>10, <1>11 DEF t

LEMMA CommitTypes ==
  ASSUME TypeOK, NEW p \in Processes, Commit(p)
  PROVE  TypeOK'
<1>1. tx[p] \in Transaction
  BY DEF TypeOK
<1>2. tx' = [tx EXCEPT ![p] = Quiet] /\ UNCHANGED <<event, past, pix, policy, transfer>>
  BY DEF Commit
<1>3. row' \in Row
  BY CommittedRow
<1>4. order' \in [Orders -> {"pending", "paid", "refunded"}]
  BY DEF Commit, TypeOK
<1>5. credit' \subseteq Orders
  BY <1>1 DEF Commit, TypeOK, Transaction
<1>6. delay' \in Days \cup {Inherited}
  BY <1>1 DEF Commit, TypeOK, Transaction, NoDate, Inherited
<1>7. tx' \in [Processes -> Transaction]
  BY <1>2, QuietType DEF TypeOK
<1> QED BY <1>2, <1>3, <1>4, <1>5, <1>6, <1>7 DEF TypeOK

\* A confirmation adds to what covers the transfer, a refund moves its face.
LEMMA CommitCovers ==
  ASSUME PayoutInv, NEW p \in Processes, Commit(p)
  PROVE  Covered'
<1> DEFINE t == tx[p]
<1>1. TypeOK /\ Hands /\ Credits /\ AfterPayment /\ Covered
  BY DEF PayoutInv
<1>2. /\ order' = [o \in Orders |-> IF o \notin t.order THEN order[o]
                                    ELSE IF t.what = "refund" THEN "refunded" ELSE "paid"]
      /\ credit' = IF t.owes THEN credit \cup t.order ELSE credit
      /\ transfer' = transfer
  BY DEF Commit
<1>3. /\ \A o \in t.order : t.order = {o} /\ InHand(o, t.what)
      /\ t.owes => t.what = "refund"
      /\ transfer # 0 => \A o \in t.order : t.what = "refund" => t.owes \/ Face[o] = 0
      /\ t.order \in SUBSET Orders
  BY <1>1 DEF Hands, AfterPayment, TypeOK, Transaction
<1>4. Paid \in SUBSET Orders /\ credit \in SUBSET Orders /\ transfer \in Nat
  BY <1>1 DEF Paid, TypeOK
<1>5. IsFiniteSet(Paid) /\ IsFiniteSet(credit)
  BY <1>4, PayoutsAssumption, FS_Subset
<1>6. \A o \in Orders : Face[o] \in Nat
  BY PayoutsAssumption
<1>7. SumOf(Face, Paid) \in Nat /\ SumOf(Face, credit) \in Nat
  BY <1>4, SumOfType, PayoutsAssumption
<1> HIDE DEF t
<1>8. SUFFICES transfer' <= SumOf(Face, Paid') + SumOf(Face, credit')
  BY DEF Covered, SumOf
<1>9. CASE t.order = {}
  <2>1. Paid' = Paid
    BY <1>2, <1>9, <1>1 DEF Paid, TypeOK
  <2>2. credit' = credit
    BY <1>2, <1>9
  <2> QED BY <2>1, <2>2, <1>1, <1>2 DEF Covered
<1>10. ASSUME NEW o \in t.order, t.what = "confirm" PROVE transfer' <= SumOf(Face, Paid') + SumOf(Face, credit')
  <2>1. o \in Orders /\ order[o] = "pending" /\ t.order = {o}
    BY <1>3, <1>10 DEF InHand
  <2>2. Paid' = Paid \cup {o} /\ o \notin Paid
    BY <1>2, <2>1, <1>10 DEF Paid
  <2>3. credit' = credit
    BY <1>2, <1>3, <1>10
  <2>4. SumOf(Face, Paid \cup {o}) = Face[o] + SumOf(Face, Paid)
    <3>1. \A x \in Paid \cup {o} : Face[x] \in Int
      BY <1>4, <1>6, <2>1
    <3> QED BY <3>1, <1>5, <2>2, SumAdd DEF SumOf
  <2>5. Face[o] \in Nat
    BY <1>6, <2>1
  <2> QED BY <2>2, <2>3, <2>4, <2>5, <1>1, <1>2, <1>4, <1>7 DEF Covered
<1>11. ASSUME NEW o \in t.order, t.what = "refund" PROVE transfer' <= SumOf(Face, Paid') + SumOf(Face, credit')
  <2>1. o \in Orders /\ order[o] = "paid" /\ t.order = {o}
    BY <1>3, <1>11 DEF InHand
  <2>2. Paid' = Paid \ {o} /\ o \in Paid
    BY <1>2, <2>1, <1>11 DEF Paid
  <2>3. o \notin credit
    BY <1>1, <2>1 DEF Credits
  <2>4. SumOf(Face, Paid) = Face[o] + SumOf(Face, Paid \ {o})
    <3>1. \A x \in Paid : Face[x] \in Int
      BY <1>4, <1>6
    <3> QED BY <3>1, <1>5, <2>2, SumRemove DEF SumOf
  <2>5. SumOf(Face, Paid \ {o}) \in Nat /\ Face[o] \in Nat
    BY <1>4, <1>6, <2>1, SumOfType, PayoutsAssumption
  <2>6. CASE t.owes
    <3>1. credit' = credit \cup {o}
      BY <1>2, <2>1, <2>6
    <3>2. SumOf(Face, credit \cup {o}) = Face[o] + SumOf(Face, credit)
      <4>1. \A x \in credit \cup {o} : Face[x] \in Int
        BY <1>4, <1>6, <2>1
      <4> QED BY <4>1, <1>5, <2>3, SumAdd DEF SumOf
    <3> QED BY <3>1, <3>2, <2>2, <2>4, <2>5, <1>1, <1>2, <1>4, <1>7 DEF Covered
  <2>7. CASE ~t.owes
    <3>1. credit' = credit
      BY <1>2, <2>7
    <3>2. CASE transfer = 0
      BY <3>1, <3>2, <2>2, <2>5, <1>2, <1>7
    <3>3. CASE transfer # 0
      <4>1. Face[o] = 0
        BY <1>3, <1>11, <2>7, <3>3
      <4> QED BY <4>1, <3>1, <2>2, <2>4, <2>5, <1>1, <1>2, <1>4, <1>7 DEF Covered
    <3> QED BY <3>2, <3>3
  <2> QED BY <2>6, <2>7
<1> QED BY <1>3, <1>9, <1>10, <1>11 DEF InHand

LEMMA CommitKeeps ==
  ASSUME PayoutInv, NEW p \in Processes, Commit(p)
  PROVE  PayoutInv'
<1>1. TypeOK /\ Hands /\ Credits /\ AfterPayment /\ Covered
  BY DEF PayoutInv
<1>2. tx' = [tx EXCEPT ![p] = Quiet] /\ tx \in [Processes -> Transaction]
  BY <1>1 DEF Commit, TypeOK
<1>3. /\ order' = [o \in Orders |-> IF o \notin tx[p].order THEN order[o]
                                    ELSE IF tx[p].what = "refund" THEN "refunded" ELSE "paid"]
      /\ credit' = IF tx[p].owes THEN credit \cup tx[p].order ELSE credit
      /\ transfer' = transfer
  BY DEF Commit
<1>4. /\ tx'[p].order = {} /\ ~tx'[p].owes /\ tx'[p].at # "missed"
      /\ \A q \in Processes : q # p => tx'[q] = tx[q]
  BY <1>2, QuietType
<1>5. TypeOK'
  BY <1>1, CommitTypes
<1>6. Hands'
  <2>1. \A q \in Processes : \A o \in tx'[q].order :
            q # p /\ o \in Orders /\ o \notin tx[p].order /\ tx[q].order = {o} /\ InHand(o, tx[q].what)
    BY <1>1, <1>2, <1>4 DEF Hands, Transaction
  <2>2. \A q \in Processes : \A o \in tx'[q].order : tx'[q].order = {o} /\ order'[o] = order[o]
    BY <2>1, <1>3, <1>4
  <2>3. \A q \in Processes : \A o \in tx'[q].order :
            \/ tx'[q].what = "refund" /\ order'[o] = "paid"
            \/ tx'[q].what = "confirm" /\ order'[o] = "pending"
    BY <2>1, <2>2, <1>4 DEF InHand
  <2>4. \A q \in Processes : tx'[q].owes => tx'[q].what = "refund"
    BY <1>1, <1>4 DEF Hands
  <2>5. \A q, r \in Processes : \A o \in Orders : o \in tx'[q].order /\ o \in tx'[r].order => q = r
    BY <1>1, <1>4 DEF Hands
  <2>6. \A q \in Processes : tx'[q].at = "idle" => tx'[q].order = {}
    BY <1>1, <1>4 DEF Hands
  <2> QED BY <2>2, <2>3, <2>4, <2>5, <2>6 DEF Hands, InHand
<1>7. Credits'
  <2>1. \A o \in credit : o \in Orders /\ o \notin tx[p].order /\ order[o] = "refunded"
    BY <1>1 DEF Credits, Hands, InHand, TypeOK
  <2>2. \A o \in tx[p].order : o \in Orders
    BY <1>2 DEF Transaction
  <2>3. tx[p].owes => tx[p].what = "refund"
    BY <1>1 DEF Hands
  <2> QED BY <2>1, <2>2, <2>3, <1>3 DEF Credits
<1>8. AfterPayment'
  <2> SUFFICES ASSUME transfer # 0
               PROVE  /\ row'.status = "paid"
                      /\ \A q \in Processes : tx'[q].at # "missed"
                      /\ \A q \in Processes : \A o \in tx'[q].order :
                             tx'[q].what = "refund" => tx'[q].owes \/ Face[o] = 0
    BY <1>3 DEF AfterPayment
  <2>1. row'.status = "paid"
    BY <1>1, CommittedRow DEF AfterPayment
  <2> QED BY <2>1, <1>1, <1>4 DEF AfterPayment
<1>9. Covered'
  BY CommitCovers
<1> QED BY <1>5, <1>6, <1>7, <1>8, <1>9 DEF PayoutInv

(***************************************************************************)
(* The other steps.                                                        *)
(***************************************************************************)
\* What leaves the orders, the credits, the transactions and the transfer alone
\* need only keep the row typed, and paid.
LEMMA OthersKeep ==
  ASSUME PayoutInv, UNCHANGED <<order, credit, transfer>>, row' \in Row,
         tx' \in [Processes -> Transaction],
         \A p \in Processes : tx'[p].order = tx[p].order /\ tx'[p].what = tx[p].what /\ tx'[p].owes = tx[p].owes,
         \A p \in Processes : tx'[p].at = "idle" => tx[p].at = "idle",
         transfer # 0 => \A p \in Processes : tx'[p].at # "missed",
         event' \in {"published", "cancelled"}, past' \in BOOLEAN, pix' \in BOOLEAN,
         delay' \in Days \cup {Inherited}, policy' \in [{"house", "event"} -> {"none", "platform", "producer"}],
         row.status = "paid" => row'.status = "paid"
  PROVE  PayoutInv'
<1>1. TypeOK'
  BY DEF PayoutInv, TypeOK
<1>2. Hands'
  <2>1. Hands /\ UNCHANGED order
    BY DEF PayoutInv
  <2> QED BY <2>1 DEF Hands, InHand
<1>3. Credits' /\ Covered'
  BY DEF PayoutInv, Credits, Covered, Paid, SumOf
<1>4. AfterPayment'
  BY DEF PayoutInv, AfterPayment
<1> QED BY <1>1, <1>2, <1>3, <1>4 DEF PayoutInv

LEMMA InvTypes ==
  ASSUME PayoutInv
  PROVE  /\ TypeOK
         /\ row \in Row /\ tx \in [Processes -> Transaction]
         /\ event \in {"published", "cancelled"} /\ past \in BOOLEAN /\ pix \in BOOLEAN
         /\ delay \in Days \cup {Inherited}
         /\ policy \in [{"house", "event"} -> {"none", "platform", "producer"}]
         /\ transfer # 0 => row.status = "paid" /\ \A p \in Processes : tx[p].at # "missed"
BY DEF PayoutInv, TypeOK, AfterPayment

LEMMA MissRowKeeps == ASSUME PayoutInv, NEW p \in Processes, MissRow(p) PROVE PayoutInv'
<1>1. tx' = [tx EXCEPT ![p].at = "missed"] /\ transfer = 0
  BY InvTypes DEF MissRow
<1>2. /\ tx' \in [Processes -> Transaction]
      /\ \A q \in Processes : tx'[q].order = tx[q].order /\ tx'[q].what = tx[q].what /\ tx'[q].owes = tx[q].owes
      /\ \A q \in Processes : tx'[q].at = "idle" => tx[q].at = "idle"
  BY <1>1, InvTypes DEF Transaction
<1> QED BY <1>1, <1>2, InvTypes, OthersKeep DEF MissRow, settings

\* Marking a payment of an exact row, with nobody at work, transfers what is covered.
LEMMA MarkPaidKeeps == ASSUME PayoutInv, MarkPaid PROVE PayoutInv'
<1>1. UNCHANGED <<order, event, past, delay, policy, pix, credit, tx>>
  BY DEF MarkPaid, settings
<1>2. row' = [row EXCEPT !.status = "paid"] /\ transfer = 0
  BY InvTypes DEF MarkPaid
<1>3. row' \in Row /\ row'.status = "paid"
  BY <1>2, InvTypes DEF Row, Decided
<1>4. \/ transfer' = 0
      \/ transfer' = OwedNow.net /\ \A p \in Processes : tx[p].at = "idle"
  BY DEF MarkPaid
<1>5. OwedNow \in Values /\ OwedNow.net \in Nat /\ OwedNow.net <= SumOf(Face, Paid)
  BY InvTypes, BackAndSold, NetIsCovered DEF TypeOK, Values
<1>6. TypeOK'
  BY <1>1, <1>3, <1>4, <1>5, InvTypes DEF TypeOK
<1>7. Hands' /\ Credits'
  BY <1>1 DEF PayoutInv, Hands, InHand, Credits
<1>8. AfterPayment'
  <2>1. \A p \in Processes : tx[p].at = "idle" => \A o \in tx[p].order : tx[p].what # "refund"
    BY DEF PayoutInv, Hands
  <2> QED BY <2>1, <1>1, <1>3, <1>4 DEF AfterPayment
<1>9. Covered'
  <2>1. Paid \in SUBSET Orders /\ credit \in SUBSET Orders
    BY InvTypes DEF Paid, TypeOK
  <2>2. SumOf(Face, Paid) \in Nat /\ SumOf(Face, credit) \in Nat
    BY <2>1, SumOfType, PayoutsAssumption
  <2>3. transfer' <= SumOf(Face, Paid) + SumOf(Face, credit)
    BY <2>2, <1>4, <1>5
  <2> QED BY <2>3, <1>1 DEF Covered, Paid, SumOf
<1> QED BY <1>6, <1>7, <1>8, <1>9 DEF PayoutInv

LEMMA DecisionsKeep ==
  ASSUME PayoutInv,
         \/ \E reason \in {"verificacao_bancaria", "decisao_admin"} : HoldPayout(reason)
         \/ ReleasePayout \/ CancelEvent
  PROVE  PayoutInv'
<1>1. UNCHANGED <<order, past, delay, policy, pix, credit, tx, transfer>> /\ event' \in {"published", "cancelled"}
  BY InvTypes DEF HoldPayout, ReleasePayout, CancelEvent, settings
<1>2. row' \in Row
  <2>1. ASSUME NEW reason \in {"verificacao_bancaria", "decisao_admin"}, HoldPayout(reason) PROVE row' \in Row
    BY <2>1, InvTypes DEF HoldPayout, Row, Decided
  <2>2. CASE ReleasePayout
    BY <2>2, InvTypes, ReleasedType DEF ReleasePayout
  <2>3. CASE CancelEvent
    BY <2>3, InvTypes DEF CancelEvent, Row, Decided, Values
  <2> QED BY <2>1, <2>2, <2>3
<1>3. row.status = "paid" => row'.status = "paid"
  BY InvTypes DEF HoldPayout, ReleasePayout, CancelEvent
<1> QED BY <1>1, <1>2, <1>3, InvTypes, OthersKeep

LEMMA SurroundingsKeep ==
  ASSUME PayoutInv,
         \/ PatchEvent \/ EventHappens \/ PayoutAccount
         \/ \E p \in Policies : SavePolicy(p[1], p[2])
  PROVE  PayoutInv'
<1>1. UNCHANGED <<order, event, row, delay, credit, tx, transfer>>
  BY DEF PatchEvent, EventHappens, PayoutAccount, SavePolicy, settings
<1>2. past' \in BOOLEAN /\ pix' \in BOOLEAN
  BY InvTypes DEF PatchEvent, EventHappens, PayoutAccount, SavePolicy
<1>3. policy' \in [{"house", "event"} -> {"none", "platform", "producer"}]
  <2>1. ASSUME NEW p \in Policies, SavePolicy(p[1], p[2])
        PROVE  policy' \in [{"house", "event"} -> {"none", "platform", "producer"}]
    <3>1. p[1] \in {"house", "event"} /\ p[2] \in {"platform", "producer"}
      BY PayoutsAssumption
    <3> QED BY <2>1, <3>1, InvTypes DEF SavePolicy
  <2> QED BY <2>1, InvTypes DEF PatchEvent, EventHappens, PayoutAccount, settings
<1> QED BY <1>1, <1>2, <1>3, InvTypes, OthersKeep

LEMMA NextKeepsInv == PayoutInv /\ [Next]_vars => PayoutInv'
<1> SUFFICES ASSUME PayoutInv, [Next]_vars PROVE PayoutInv'
  OBVIOUS
<1>1. CASE UNCHANGED vars
  BY <1>1, InvTypes, OthersKeep DEF vars, settings
<1>2. ASSUME NEW p \in Processes, Write(p) PROVE PayoutInv'
  BY <1>2, MissRowKeeps, CommitKeeps DEF Write
<1> QED
  BY <1>1, <1>2, BeginningsKeep, MarkPaidKeeps, DecisionsKeep, SurroundingsKeep DEF Next

LEMMA InitInv == Init => PayoutInv
<1> SUFFICES ASSUME Init PROVE PayoutInv
  OBVIOUS
<1>1. TypeOK
  <2>1. policy \in [{"house", "event"} -> {"none", "platform", "producer"}]
    BY DEF Init
  <2>2. row \in Row
    BY DEF Init, Row, Nothing, Values
  <2>3. tx \in [Processes -> Transaction]
    BY QuietType DEF Init
  <2> QED BY <2>1, <2>2, <2>3 DEF Init, TypeOK
<1>2. \A p \in Processes : tx[p].order = {} /\ tx[p].owes = FALSE
  BY QuietType DEF Init
<1>3. Hands /\ Credits /\ AfterPayment
  BY <1>2 DEF Init, Hands, Credits, AfterPayment
<1>4. Covered
  <2>1. Paid \in SUBSET Orders /\ credit \in SUBSET Orders
    BY <1>1 DEF Paid, TypeOK
  <2>2. SumOf(Face, Paid) \in Nat /\ SumOf(Face, credit) \in Nat
    BY <2>1, SumOfType, PayoutsAssumption
  <2> QED BY <2>2 DEF Init, Covered
<1> QED BY <1>1, <1>3, <1>4 DEF PayoutInv

\* Every value the payout's row and its transactions hold is of its type: a sum of natural
\* numbers stays one however sales, refunds and recomputations interleave.
THEOREM PayoutTypes == Spec => []TypeOK
<1>1. PayoutInv => TypeOK
  BY DEF PayoutInv
<1> QED BY <1>1, InitInv, NextKeepsInv, PTL DEF Spec

\* Once a payout whose row was exact has been transferred with no transaction under way, what
\* was transferred never exceeds the face of the orders still sold plus what is on record for the
\* producer to give back: no refund slips through between the payment and its credit.
THEOREM RefundsAfterPayoutAreCredited == Spec => []CreditsCoverThePayout
<1>1. PayoutInv => CreditsCoverThePayout
  <2> SUFFICES ASSUME PayoutInv PROVE CreditsCoverThePayout
    OBVIOUS
  <2>1. Sold \ Back = Paid
    BY DEF PayoutInv, TypeOK, Sold, Back, Paid
  <2> QED BY <2>1 DEF PayoutInv, Covered, CreditsCoverThePayout
<1> QED BY <1>1, InitInv, NextKeepsInv, PTL DEF Spec

\* However sales, refunds, panels, the hourly sweep and admins interleave, a
\* payment and a cancellation are final, and what an admin holds is let go by
\* nobody who merely recomputes.
THEOREM DecisionsAreKept == Spec => DecisionsStand
<1>1. TypeOK /\ [Next]_vars
        => [~Missed => /\ row.status \in {"paid", "cancelled"} => row'.status = row.status
                       /\ HeldByAdmin => UNCHANGED tx \/ row'.status \in Decided]_vars
  <2> SUFFICES ASSUME TypeOK, Next, ~Missed
               PROVE  /\ row.status \in {"paid", "cancelled"} => row'.status = row.status
                      /\ HeldByAdmin => UNCHANGED tx \/ row'.status \in Decided
    OBVIOUS
  <2>1. CASE UNCHANGED row
    BY <2>1 DEF HeldByAdmin, Decided
  <2>2. ASSUME NEW p \in Processes, Write(p)
        PROVE  /\ row.status \in {"paid", "cancelled"} => row'.status = row.status
               /\ HeldByAdmin => row'.status \in Decided
    BY <2>1, <2>2, CommittedRow DEF Write, MissRow, Missed, HeldByAdmin, Decided
  <2>3. ASSUME NEW reason \in {"verificacao_bancaria", "decisao_admin"}, HoldPayout(reason)
        PROVE  row.status \notin {"paid", "cancelled"} /\ UNCHANGED tx
    BY <2>3 DEF HoldPayout
  <2>4. CASE ReleasePayout
    BY <2>4 DEF ReleasePayout
  <2>5. CASE MarkPaid
    BY <2>5 DEF MarkPaid
  <2>6. CASE CancelEvent
    BY <2>6 DEF CancelEvent, TypeOK, Row, Decided
  <2> QED
    BY <2>1, <2>2, <2>3, <2>4, <2>5, <2>6
    DEF Next, Confirm, Refund, Look, SetDelay, Sweep, Begin, PatchEvent, EventHappens, PayoutAccount, SavePolicy
<1> QED BY <1>1, PayoutTypes, PTL DEF Spec, DecisionsStand
=============================================================================
