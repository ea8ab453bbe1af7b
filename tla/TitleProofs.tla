---------------------------- MODULE TitleProofs ----------------------------
(***************************************************************************)
(* One valid ticket per place, and an unbroken chain of title, for any     *)
(* number of people, listings and transactions, whatever their order.      *)
(*                                                                         *)
(* The two need each other.  While nobody wrote over what changed under    *)
(* him, a mover that commits holds what he read of a ticket that is still  *)
(* valid; only if that is the last ticket of the place does the chain end  *)
(* with its owner, and it is the last because the others were burned.      *)
(***************************************************************************)
EXTENDS Titles, SequenceTheorems, FiniteSetTheorems, TLAPS

Title == [status : {"active", "burned"}, owner : People, entered : BOOLEAN]
Link == [ticket : Nat, from : People, to : People]
Offer == [status : {"none", "active", "reserved", "sold", "cancelled"}, ticket : Nat, buyer : People,
          order : {"none", "pending", "charged", "paid"}]
Mover == [kind : Kinds \cup {"idle"}, ticket : Nat, from : People, to : People, listing : Listings]

Typed ==
    /\ ticket \in Seq(Title) /\ ticket # << >>
    /\ chain \in Seq(Link)
    /\ listing \in [Listings -> Offer] /\ mover \in [Movers -> Mover]
    /\ refund \in [status : {"none", "pending", "succeeded"}, ticket : Nat]
    /\ \A l \in Listings : listing[l].ticket \in 1..Len(ticket)
    /\ \A m \in Movers : mover[m].ticket \in 1..Len(ticket)
    /\ refund.ticket \in 1..Len(ticket)

One == \A s, t \in 1..Len(ticket) : Active(s) /\ Active(t) => s = t
LastIsValid == \A t \in 1..Len(ticket) : Active(t) => t = Len(ticket)

Linked == \A i \in 1..Len(chain) : chain[i].ticket \in 1..Len(ticket)

\* The last transfer of a ticket is to who holds it.
Handed ==
    \A t \in 1..Len(ticket), i \in 1..Len(chain) :
        chain[i].ticket = t /\ (\A j \in 1..Len(chain) : chain[j].ticket = t => j <= i)
            => chain[i].to = ticket[t].owner

Unbroken ==
    /\ \A t \in 1..Len(ticket) : EndsWith(t, Len(chain), ticket[t].owner)
    /\ \A i \in 1..Len(chain) : EndsWith(chain[i].ticket, i - 1, chain[i].from)

TitleInv ==
    /\ Typed /\ Linked /\ Handed
    /\ seated => One
    /\ ~crossed => LastIsValid /\ Unbroken

LEMMA IdleType == Idle \in Mover /\ Idle.ticket = 1
BY TitlesAssumption DEF Idle, Mover, SomeListing

LEMMA Domains == ASSUME Typed PROVE DOMAIN ticket = 1..Len(ticket) /\ DOMAIN chain = 1..Len(chain)
BY LenProperties DEF Typed

LEMMA Lengths == ASSUME Typed PROVE Len(ticket) \in Nat /\ Len(ticket) >= 1 /\ Len(chain) \in Nat
BY EmptySeq, LenProperties DEF Typed

\* What a provenance ended with stays so while its transfers and its origin do.
LEMMA EndStays ==
  ASSUME NEW t, NEW n, NEW p, EndsWith(t, n, p), Origin(t)' = Origin(t),
         (Provenance(t) \cap 1..n)' = Provenance(t) \cap 1..n,
         \A i \in Provenance(t) \cap 1..n : chain'[i] = chain[i]
  PROVE  EndsWith(t, n, p)'
BY DEF EndsWith

LEMMA OriginStays ==
  ASSUME Typed, NEW t \in 1..Len(ticket), \A s \in 1..Len(ticket) : s < t => ticket'[s].owner = ticket[s].owner
  PROVE  Origin(t)' = Origin(t)
<1>1. t # 1 => t - 1 \in 1..Len(ticket) /\ t - 1 < t
  BY Lengths
<1> QED BY <1>1 DEF Origin

\* Nothing that matters to the title changes.
LEMMA Quiet ==
  ASSUME TitleInv, Typed', UNCHANGED <<seated, chain>>, crossed => crossed', Len(ticket') = Len(ticket),
         \A t \in 1..Len(ticket) : ticket'[t].owner = ticket[t].owner /\ (ticket'[t].status = "active" => Active(t))
  PROVE  TitleInv'
<1>1. (seated => One)'
  BY DEF TitleInv, One, Active
<1>2. (~crossed => LastIsValid)'
  BY DEF TitleInv, LastIsValid, Active
<1>3. Linked' /\ Handed'
  BY DEF TitleInv, Linked, Handed
<1>4. ASSUME NEW t \in 1..Len(ticket), NEW n, NEW p, EndsWith(t, n, p) PROVE EndsWith(t, n, p)'
  <2>1. Origin(t)' = Origin(t)
    BY OriginStays DEF TitleInv
  <2> QED BY <1>4, <2>1, EndStays DEF Provenance
<1>5. (~crossed => Unbroken)'
  BY <1>4 DEF TitleInv, Unbroken, Linked
<1> QED BY <1>1, <1>2, <1>3, <1>5 DEF TitleInv

\* One ticket of the place is written.
LEMMA OneWritten ==
  ASSUME Typed, NEW t \in 1..Len(ticket), NEW new \in Title
  PROVE  LET after == [ticket EXCEPT ![t] = new]
         IN  /\ after \in Seq(Title) /\ after # << >> /\ Len(after) = Len(ticket)
             /\ after[t] = new /\ \A s \in 1..Len(ticket) \ {t} : after[s] = ticket[s]
<1> DEFINE after == [ticket EXCEPT ![t] = new]
<1>1. ticket \in Seq(Title) /\ Len(ticket) \in Nat
  BY Lengths DEF Typed
<1>2. after \in Seq(Title) /\ Len(after) = Len(ticket)
  BY <1>1, ExceptSeq
<1>3. after # << >>
  BY <1>2, Lengths, EmptySeq
<1>4. DOMAIN ticket = 1..Len(ticket)
  BY Domains
<1> QED BY <1>2, <1>3, <1>4

LEMMA TitleAt == ASSUME Typed, NEW t \in 1..Len(ticket) PROVE ticket[t] \in Title
BY ElementOfSeq DEF Typed

(***************************************************************************)
(* The two kinds of step that move the title.                              *)
(***************************************************************************)
\* The ticket changes hands.
LEMMA Gives ==
  ASSUME TitleInv, NEW m \in Movers, Execute(mover[m]), UNCHANGED seated, Typed',
         crossed' = (crossed \/ Stale(mover[m]))
  PROVE  TitleInv'
<1> DEFINE v == mover[m]
           new == [ticket[v.ticket] EXCEPT !.owner = v.to]
<1>1. Typed /\ v \in Mover /\ v.ticket \in 1..Len(ticket)
  BY DEF TitleInv, Typed
<1>2. ticket[v.ticket] \in Title
  BY <1>1, TitleAt
<1>3. new \in Title /\ new.status = ticket[v.ticket].status /\ new.owner = v.to
  BY <1>1, <1>2 DEF Title, Mover
<1>4. ticket' = [ticket EXCEPT ![v.ticket] = new]
  BY DEF Execute
<1> HIDE DEF new
<1>5. /\ Len(ticket') = Len(ticket) /\ ticket'[v.ticket] = new
      /\ \A s \in 1..Len(ticket) \ {v.ticket} : ticket'[s] = ticket[s]
  BY <1>1, <1>3, <1>4, OneWritten
<1>6. \A t \in 1..Len(ticket) : ticket'[t].status = ticket[t].status
  BY <1>3, <1>5
<1>7. (seated => One)'
  BY <1>5, <1>6 DEF TitleInv, One, Active
<1>8. (~crossed => LastIsValid)'
  BY <1>5, <1>6 DEF TitleInv, LastIsValid, Active
<1> DEFINE link == [ticket |-> v.ticket, from |-> v.from, to |-> v.to]
<1> PICK n : n = Len(chain)
  OBVIOUS
<1>9. link \in Link /\ link.ticket = v.ticket /\ link.from = v.from /\ link.to = v.to
  BY <1>1, Lengths DEF Mover, Link
<1>10. chain' = Append(chain, link)
  BY DEF Execute
<1>11. chain \in Seq(Link) /\ n \in Nat
  BY <1>1, Lengths DEF Typed
<1> HIDE DEF link
<1>12. /\ Len(chain') = n + 1 /\ chain'[n + 1] = link
       /\ \A i \in 1..n : chain'[i] = chain[i]
  BY <1>9, <1>10, <1>11, AppendProperties
<1>13. Linked'
  <2> SUFFICES ASSUME NEW i \in 1..(n + 1) PROVE chain'[i].ticket \in 1..Len(ticket)
    BY <1>5, <1>12 DEF Linked
  <2>1. CASE i \in 1..n
    BY <1>12, <2>1 DEF TitleInv, Linked
  <2>2. CASE i = n + 1
    BY <1>1, <1>9, <1>12, <2>2
  <2> QED BY <1>11, <2>1, <2>2
<1>14. Handed'
  <2> SUFFICES ASSUME NEW t \in 1..Len(ticket), NEW i \in 1..(n + 1), chain'[i].ticket = t,
                      \A j \in 1..(n + 1) : chain'[j].ticket = t => j <= i
               PROVE  chain'[i].to = ticket'[t].owner
    BY <1>5, <1>12 DEF Handed
  <2>1. CASE t = v.ticket
    <3>1. i = n + 1
      BY <1>9, <1>11, <1>12, <2>1
    <3> QED BY <1>3, <1>5, <1>9, <1>12, <2>1, <3>1
  <2>2. CASE t # v.ticket
    <3>1. i \in 1..n /\ \A j \in 1..n : j \in 1..(n + 1)
      BY <1>9, <1>11, <1>12, <2>2
    <3>2. chain[i].to = ticket[t].owner
      BY <1>12, <3>1 DEF TitleInv, Handed
    <3> QED BY <1>5, <1>12, <2>2, <3>1, <3>2
  <2> QED BY <2>1, <2>2
<1>15. ASSUME ~crossed' PROVE Unbroken'
  <2>1. ~crossed /\ Active(v.ticket) /\ ticket[v.ticket].owner = v.from
    BY <1>15 DEF Stale
  <2>2. v.ticket = Len(ticket) /\ Unbroken
    BY <1>1, <2>1 DEF TitleInv, LastIsValid
  <2>3. \A t \in 1..Len(ticket) : Origin(t)' = Origin(t)
    <3>1. \A t \in 1..Len(ticket), s \in 1..Len(ticket) : s < t => s # v.ticket
      BY <1>1, <2>2, Lengths
    <3> QED BY <1>1, <1>5, <3>1, OriginStays
  <2>4. \A t : \A k \in 0..n : (Provenance(t) \cap 1..k)' = Provenance(t) \cap 1..k
    <3>1. DOMAIN chain = 1..n /\ DOMAIN chain' = 1..(n + 1)
      BY <1>9, <1>10, <1>11, <1>12, AppendProperties, LenProperties
    <3>2. \A k \in 0..n : 1..k \subseteq 1..n
      BY <1>11
    <3> QED BY <1>11, <1>12, <3>1, <3>2 DEF Provenance
  <2>5. ASSUME NEW t \in 1..Len(ticket), NEW k \in 0..n, NEW p, EndsWith(t, k, p) PROVE EndsWith(t, k, p)'
    <3>1. \A i \in Provenance(t) \cap 1..k : chain'[i] = chain[i]
      BY <1>11, <1>12
    <3> QED BY <2>3, <2>4, <2>5, <3>1, EndStays
  <2>6. ASSUME NEW i \in 1..(n + 1) PROVE EndsWith(chain[i].ticket, i - 1, chain[i].from)'
    <3>1. CASE i \in 1..n
      <4>1. i - 1 \in 0..n /\ EndsWith(chain[i].ticket, i - 1, chain[i].from) /\ chain[i].ticket \in 1..Len(ticket)
        BY <1>11, <2>2, <3>1 DEF Unbroken, TitleInv, Linked
      <4> QED BY <1>12, <2>5, <3>1, <4>1
    <3>2. CASE i = n + 1
      <4>1. i - 1 = n /\ n \in 0..n /\ EndsWith(v.ticket, n, v.from)
        BY <1>1, <1>11, <2>1, <2>2, <3>2 DEF Unbroken
      <4> QED BY <1>1, <1>9, <1>12, <2>5, <3>2, <4>1
    <3> QED BY <1>11, <3>1, <3>2
  <2>7. ASSUME NEW t \in 1..Len(ticket) PROVE EndsWith(t, Len(chain), ticket[t].owner)'
    <3>1. DOMAIN chain = 1..n /\ DOMAIN chain' = 1..(n + 1)
      BY <1>9, <1>10, <1>11, <1>12, AppendProperties, LenProperties
    <3>2. CASE t = v.ticket
      <4>1. n + 1 \in (Provenance(t) \cap 1..(n + 1))' /\ \A j \in (Provenance(t) \cap 1..(n + 1))' : j <= n + 1
        BY <1>9, <1>11, <1>12, <3>1, <3>2 DEF Provenance
      <4>2. chain'[n + 1].to = ticket'[t].owner
        BY <1>3, <1>5, <1>9, <1>12, <3>2
      <4> QED BY <1>12, <4>1, <4>2 DEF EndsWith
    <3>3. CASE t # v.ticket
      <4>1. PICK p : p = ticket[t].owner /\ EndsWith(t, n, p)
        BY <2>2 DEF Unbroken
      <4>3. EndsWith(t, n, p)' /\ ticket'[t].owner = p
        BY <1>5, <1>11, <2>5, <3>3, <4>1
      <4>2. (Provenance(t) \cap 1..(n + 1))' = (Provenance(t) \cap 1..n)'
        BY <1>9, <1>11, <1>12, <3>1, <3>3 DEF Provenance
      <4> QED BY <1>12, <4>2, <4>3 DEF EndsWith
    <3> QED BY <3>2, <3>3
  <2> QED BY <1>5, <1>12, <2>6, <2>7 DEF Unbroken
<1> QED BY <1>7, <1>8, <1>13, <1>14, <1>15 DEF TitleInv

\* The ticket is burned and its place goes to a new one.
LEMMA Replaces ==
  ASSUME TitleInv, NEW m \in Movers, ticket' = Reissued(mover[m]), ~SeatTaken(mover[m]),
         UNCHANGED <<seated, chain>>, Typed', crossed' = (crossed \/ Stale(mover[m]))
  PROVE  TitleInv'
<1> DEFINE v == mover[m]
           burnt == [ticket[v.ticket] EXCEPT !.status = "burned"]
           fresh == [status |-> "active", owner |-> v.from, entered |-> FALSE]
           n == Len(ticket)
<1>1. Typed /\ v \in Mover /\ v.ticket \in 1..n /\ n \in Nat
  BY Lengths DEF TitleInv, Typed
<1>2. ticket[v.ticket] \in Title
  BY <1>1, TitleAt
<1>3. burnt \in Title /\ burnt.status = "burned"
  BY <1>2 DEF Title
<1>4. fresh \in Title /\ fresh.status = "active" /\ fresh.owner = v.from
  BY <1>1 DEF Title, Mover
<1>5. Burned(v) = [ticket EXCEPT ![v.ticket] = burnt] /\ ticket' = Append(Burned(v), fresh)
  BY DEF Burned, Reissued
<1> HIDE DEF burnt, fresh
<1>6. /\ Burned(v) \in Seq(Title) /\ Len(Burned(v)) = n /\ Burned(v)[v.ticket] = burnt
      /\ \A s \in 1..n \ {v.ticket} : Burned(v)[s] = ticket[s]
  <2> HIDE DEF v
  <2>1. Typed /\ v.ticket \in 1..Len(ticket) /\ burnt \in Title
    BY <1>1, <1>3
  <2> QED BY <1>5, <2>1, OneWritten
<1> HIDE DEF n
<1>7. /\ Len(ticket') = n + 1 /\ ticket'[n + 1] = fresh
      /\ \A s \in 1..n : ticket'[s] = Burned(v)[s]
  BY <1>4, <1>5, <1>6, AppendProperties
<1>8. \A s \in 1..n : Active(s)' => Active(s) /\ s # v.ticket
  BY <1>3, <1>6, <1>7 DEF Active
<1>9. seated => \A s \in 1..n : Active(s) => s = v.ticket
  BY <1>1, Domains DEF SeatTaken, n
<1>10. (seated => One)'
  BY <1>1, <1>7, <1>8, <1>9 DEF One, TitleInv
<1>11. \A s \in 1..n : ticket'[s].owner = ticket[s].owner
  <2>1. burnt.owner = ticket[v.ticket].owner
    BY <1>2 DEF burnt, Title
  <2> QED BY <1>6, <1>7, <2>1
<1>12. \A i \in 1..Len(chain) : chain[i].ticket \in 1..n /\ chain[i].ticket # n + 1
  BY <1>1 DEF TitleInv, Linked, n
<1>13. Linked' /\ Handed'
  BY <1>1, <1>7, <1>11, <1>12 DEF TitleInv, Linked, Handed, n
<1>14. ASSUME ~crossed' PROVE LastIsValid' /\ Unbroken'
  <2>1. ~crossed /\ Active(v.ticket) /\ ticket[v.ticket].owner = v.from
    BY <1>14 DEF Stale
  <2>2. v.ticket = n /\ Unbroken
    BY <1>1, <2>1 DEF TitleInv, LastIsValid, n
  <2>3. \A s \in 1..n : Active(s) => s = n
    BY <2>1 DEF TitleInv, LastIsValid, n
  <2>4. LastIsValid'
    BY <1>1, <1>7, <1>8, <2>2, <2>3 DEF LastIsValid
  <2>5. ASSUME NEW t \in 1..n, NEW k, NEW p, EndsWith(t, k, p) PROVE EndsWith(t, k, p)'
    <3>1. Origin(t)' = Origin(t)
      BY <1>1, <1>11, OriginStays DEF n
    <3> QED BY <2>5, <3>1, EndStays DEF Provenance
  <2>6. ASSUME NEW t, t = n + 1 PROVE EndsWith(t, Len(chain), ticket[t].owner)'
    <3>1. Provenance(t)' = {}
      BY <1>1, <1>12, <2>6, Domains DEF Provenance
    <3>2. t # 1 /\ t - 1 = n /\ n \in 1..n
      BY <1>1, <2>6, Lengths DEF n
    <3>3. Origin(t)' = v.from
      BY <1>1, <1>11, <2>1, <2>2, <3>2 DEF Origin
    <3> QED BY <1>4, <1>7, <2>6, <3>1, <3>3 DEF EndsWith
  <2>7. ASSUME NEW t \in 1..(n + 1) PROVE EndsWith(t, Len(chain), ticket[t].owner)'
    <3>1. CASE t \in 1..n
      BY <1>11, <2>2, <2>5, <3>1 DEF Unbroken, n
    <3>2. CASE t = n + 1
      BY <2>6, <3>2
    <3> QED BY <1>1, <3>1, <3>2
  <2>8. ASSUME NEW i \in 1..Len(chain) PROVE EndsWith(chain[i].ticket, i - 1, chain[i].from)'
    BY <1>12, <2>2, <2>5 DEF Unbroken
  <2>9. Unbroken'
    BY <1>1, <1>7, <2>7, <2>8 DEF Unbroken
  <2> QED BY <2>4, <2>9
<1> QED BY <1>10, <1>13, <1>14 DEF TitleInv

(***************************************************************************)
(* Every step, and what it does to the types.                              *)
(***************************************************************************)
LEMMA MoverSet ==
  ASSUME Typed, NEW m \in Movers, NEW v \in Mover, v.ticket \in 1..Len(ticket),
         mover' = [mover EXCEPT ![m] = v]
  PROVE  mover' \in [Movers -> Mover] /\ \A q \in Movers : mover'[q].ticket \in 1..Len(ticket)
BY DEF Typed

LEMMA OfferSet ==
  ASSUME Typed, NEW l \in Listings, NEW o \in Offer, o.ticket \in 1..Len(ticket),
         listing' = [listing EXCEPT ![l] = o]
  PROVE  listing' \in [Listings -> Offer] /\ \A k \in Listings : listing'[k].ticket \in 1..Len(ticket)
BY DEF Typed

LEMMA IdleAgain ==
  ASSUME Typed, NEW m \in Movers, mover' = [mover EXCEPT ![m] = Idle]
  PROVE  mover' \in [Movers -> Mover] /\ \A q \in Movers : mover'[q].ticket \in 1..Len(ticket)
<1>1. Idle \in Mover /\ Idle.ticket \in 1..Len(ticket)
  BY IdleType, Lengths
<1> QED BY <1>1, MoverSet

LEMMA BeginKeeps ==
  ASSUME TitleInv, NEW m \in Movers, NEW v \in Mover, v.ticket \in 1..Len(ticket), Begin(m, v)
  PROVE  TitleInv'
<1>1. Typed'
  BY MoverSet DEF TitleInv, Begin, Typed
<1> QED BY <1>1, Quiet DEF Begin, Active

LEMMA LookKeeps ==
  ASSUME TitleInv, NEW m \in Movers, NEW kind \in Kinds, NEW t \in DOMAIN ticket, NEW to \in People,
         Look(m, kind, t, to)
  PROVE  TitleInv'
<1> DEFINE v == [Idle EXCEPT !.kind = kind, !.ticket = t, !.from = ticket[t].owner, !.to = to]
<1>1. t \in 1..Len(ticket) /\ ticket[t] \in Title
  BY Domains, TitleAt DEF TitleInv
<1>2. v \in Mover /\ v.ticket = t
  <2>1. Len(ticket) \in Nat /\ t \in Nat
    BY <1>1, Lengths DEF TitleInv
  <2>2. ticket[t].owner \in People
    BY <1>1 DEF Title
  <2> QED BY <2>1, <2>2, IdleType DEF Mover
<1>3. Begin(m, v)
  BY DEF Look
<1> QED BY <1>1, <1>2, <1>3, BeginKeeps

LEMMA LookResaleKeeps ==
  ASSUME TitleInv, NEW m \in Movers, NEW l \in Listings, LookResale(m, l)
  PROVE  TitleInv'
<1> DEFINE t == listing[l].ticket
           v == [kind |-> "resale", ticket |-> t, from |-> ticket[t].owner, to |-> listing[l].buyer,
                 listing |-> l]
<1>1. t \in 1..Len(ticket) /\ listing[l] \in Offer
  BY DEF TitleInv, Typed
<1>2. ticket[t] \in Title
  BY <1>1, TitleAt DEF TitleInv
<1>3. v \in Mover /\ v.ticket = t
  BY <1>1, <1>2 DEF Mover, Title, Offer, Kinds
<1>4. Begin(m, v)
  BY DEF LookResale
<1> QED BY <1>1, <1>3, <1>4, BeginKeeps

\* One ticket of the place written in place: what else the types need.
LEMMA TicketSet ==
  ASSUME Typed, NEW t \in 1..Len(ticket), NEW new \in Title, ticket' = [ticket EXCEPT ![t] = new],
         UNCHANGED <<listing, mover>>
  PROVE  /\ ticket' \in Seq(Title) /\ ticket' # << >> /\ Len(ticket') = Len(ticket)
         /\ ticket'[t] = new /\ \A s \in 1..Len(ticket) \ {t} : ticket'[s] = ticket[s]
BY OneWritten

LEMMA EnterKeeps == ASSUME TitleInv, NEW t \in DOMAIN ticket, Enter(t) PROVE TitleInv'
<1> DEFINE new == [ticket[t] EXCEPT !.entered = TRUE]
<1>1. Typed /\ t \in 1..Len(ticket) /\ ticket[t] \in Title
  BY Domains, TitleAt DEF TitleInv
<1>2. new \in Title /\ new.status = ticket[t].status /\ new.owner = ticket[t].owner
  BY <1>1 DEF Title
<1>3. ticket' = [ticket EXCEPT ![t] = new] /\ UNCHANGED <<seated, chain, crossed, listing, mover, refund>>
  BY DEF Enter
<1> HIDE DEF new
<1>4. /\ ticket' \in Seq(Title) /\ ticket' # << >> /\ Len(ticket') = Len(ticket)
      /\ ticket'[t] = new /\ \A s \in 1..Len(ticket) \ {t} : ticket'[s] = ticket[s]
  BY <1>1, <1>2, <1>3, TicketSet
<1>5. Typed'
  BY <1>1, <1>3, <1>4 DEF Typed
<1> QED BY <1>2, <1>3, <1>4, <1>5, Quiet DEF Active

LEMMA CompleteKeeps == ASSUME TitleInv, CompleteRefund PROVE TitleInv'
<1> DEFINE t == refund.ticket
           new == [ticket[t] EXCEPT !.status = "burned"]
<1>1. Typed /\ t \in 1..Len(ticket) /\ ticket[t] \in Title
  BY TitleAt DEF TitleInv, Typed
<1>2. new \in Title /\ new.status = "burned" /\ new.owner = ticket[t].owner
  BY <1>1 DEF Title
<1>3. ticket' = [ticket EXCEPT ![t] = new] /\ UNCHANGED <<seated, chain, crossed, listing, mover>>
      /\ refund' = [refund EXCEPT !.status = "succeeded"]
  BY DEF CompleteRefund
<1> HIDE DEF new
<1>4. /\ ticket' \in Seq(Title) /\ ticket' # << >> /\ Len(ticket') = Len(ticket)
      /\ ticket'[t] = new /\ \A s \in 1..Len(ticket) \ {t} : ticket'[s] = ticket[s]
  BY <1>1, <1>2, <1>3, TicketSet
<1>5. refund' \in [status : {"none", "pending", "succeeded"}, ticket : Nat] /\ refund'.ticket = refund.ticket
  BY <1>1, <1>3 DEF Typed
<1>6. Typed'
  BY <1>1, <1>3, <1>4, <1>5 DEF Typed
<1> QED BY <1>2, <1>3, <1>4, <1>6, Quiet DEF Active

LEMMA PrepareKeeps == ASSUME TitleInv, NEW t \in DOMAIN ticket, PrepareRefund(t) PROVE TitleInv'
<1>1. Typed /\ t \in 1..Len(ticket) /\ Len(ticket) \in Nat
  BY Domains, Lengths DEF TitleInv
<1>2. /\ refund' = [status |-> "pending", ticket |-> t]
      /\ UNCHANGED <<seated, ticket, chain, crossed, listing, mover>>
  BY DEF PrepareRefund
<1>3. Typed'
  BY <1>1, <1>2 DEF Typed
<1> QED BY <1>2, <1>3, Quiet DEF Active

\* The market's own steps: an offer and nothing else.
LEMMA OfferKeeps ==
  ASSUME TitleInv, NEW l \in Listings, NEW o \in Offer, o.ticket = listing[l].ticket,
         listing' = [listing EXCEPT ![l] = o], UNCHANGED <<seated, ticket, chain, crossed, mover, refund>>
  PROVE  TitleInv'
<1>1. Typed /\ o.ticket \in 1..Len(ticket)
  BY DEF TitleInv, Typed
<1>2. listing' \in [Listings -> Offer] /\ \A k \in Listings : listing'[k].ticket \in 1..Len(ticket)
  BY <1>1, OfferSet
<1>3. Typed'
  BY <1>1, <1>2 DEF Typed
<1> QED BY <1>3, Quiet DEF Active

LEMMA MarketKeeps ==
  ASSUME TitleInv, NEW l \in Listings,
         CancelListing(l) \/ PayResale(l) \/ \E p \in People : BuyListing(l, p)
  PROVE  TitleInv'
<1> DEFINE old == listing[l]
<1>1. old \in Offer /\ listing \in [Listings -> Offer]
  BY DEF TitleInv, Typed
<1>2. UNCHANGED <<seated, ticket, chain, crossed, mover, refund>>
  BY DEF CancelListing, PayResale, BuyListing
<1>3. CASE CancelListing(l)
  <2> DEFINE new == [old EXCEPT !.status = "cancelled"]
  <2>1. new \in Offer /\ new.ticket = old.ticket /\ listing' = [listing EXCEPT ![l] = new]
    BY <1>1, <1>3 DEF CancelListing, Withdrawn, Offer
  <2> QED BY <1>2, <2>1, OfferKeeps
<1>4. CASE PayResale(l)
  <2> DEFINE new == [old EXCEPT !.order = "charged"]
  <2>1. new \in Offer /\ new.ticket = old.ticket /\ listing' = [listing EXCEPT ![l] = new]
    BY <1>1, <1>4 DEF PayResale, Offer
  <2> QED BY <1>2, <2>1, OfferKeeps
<1>5. ASSUME NEW p \in People, BuyListing(l, p) PROVE TitleInv'
  <2> DEFINE new == [old EXCEPT !.status = "reserved", !.buyer = p, !.order = "pending"]
  <2>1. new \in Offer /\ new.ticket = old.ticket
    BY <1>1 DEF Offer
  <2>2. listing' = [listing EXCEPT ![l] = new]
    BY <1>1, <1>5 DEF BuyListing, Reserved
  <2> QED BY <1>2, <2>1, <2>2, OfferKeeps
<1> QED BY <1>3, <1>4, <1>5

LEMMA RefusedKeeps == ASSUME TitleInv, NEW m \in Movers, Refused(m) PROVE TitleInv'
<1>1. mover' = [mover EXCEPT ![m] = Idle] /\ UNCHANGED <<seated, ticket, chain, crossed, listing, refund>>
  BY DEF Refused
<1>2. Typed'
  BY <1>1, IdleAgain DEF TitleInv, Typed
<1> QED BY <1>1, <1>2, Quiet DEF Active

LEMMA CreateKeeps ==
  ASSUME TitleInv, NEW m \in Movers, NEW l \in Listings, CreateListing(m, l) PROVE TitleInv'
<1> DEFINE t == mover[m].ticket
           new == [listing[l] EXCEPT !.status = "active", !.ticket = t]
<1>1. Typed /\ t \in 1..Len(ticket) /\ Len(ticket) \in Nat /\ listing[l] \in Offer
  BY Lengths DEF TitleInv, Typed
<1>2. new \in Offer /\ new.ticket = t
  <2>1. t \in Nat
    BY <1>1
  <2> HIDE DEF t
  <2> QED BY <1>1, <2>1 DEF Offer
<1>3. listing' = [listing EXCEPT ![l] = new]
  BY DEF CreateListing, TitleInv, Typed
<1>4. /\ mover' = [mover EXCEPT ![m] = Idle] /\ UNCHANGED <<seated, ticket, chain, refund>>
      /\ crossed => crossed'
  BY DEF CreateListing, Done
<1>5. listing' \in [Listings -> Offer] /\ \A k \in Listings : listing'[k].ticket \in 1..Len(ticket)
  <2> HIDE DEF new
  <2> QED BY <1>1, <1>2, <1>3, OfferSet
<1>6. Typed'
  BY <1>1, <1>4, <1>5, IdleAgain DEF Typed
<1> QED BY <1>4, <1>6, Quiet DEF Active

\* The ticket changes hands: a gift, or a paid resale.
LEMMA HandedTyped ==
  ASSUME TitleInv, NEW m \in Movers, Execute(mover[m]), mover' = [mover EXCEPT ![m] = Idle], UNCHANGED refund,
         listing' \in [Listings -> Offer], \A l \in Listings : listing'[l].ticket = listing[l].ticket
  PROVE  Typed'
<1> DEFINE v == mover[m]
           new == [ticket[v.ticket] EXCEPT !.owner = v.to]
           link == [ticket |-> v.ticket, from |-> v.from, to |-> v.to]
<1>1. Typed /\ v \in Mover /\ v.ticket \in 1..Len(ticket)
  BY DEF TitleInv, Typed
<1>2. ticket[v.ticket] \in Title
  BY <1>1, TitleAt
<1>3. new \in Title
  BY <1>1, <1>2 DEF Title, Mover
<1>4. link \in Link
  BY <1>1 DEF Mover, Link
<1>5. ticket' = [ticket EXCEPT ![v.ticket] = new] /\ chain' = Append(chain, link)
  BY DEF Execute
<1> HIDE DEF new, link
<1>6. ticket' \in Seq(Title) /\ ticket' # << >> /\ Len(ticket') = Len(ticket)
  BY <1>1, <1>3, <1>5, OneWritten
<1>7. chain' \in Seq(Link)
  BY <1>1, <1>4, <1>5, AppendProperties DEF Typed
<1>8. mover' \in [Movers -> Mover] /\ \A q \in Movers : mover'[q].ticket \in 1..Len(ticket)
  BY <1>1, IdleAgain
<1> QED BY <1>1, <1>6, <1>7, <1>8 DEF Typed

LEMMA GiftKeeps == ASSUME TitleInv, NEW m \in Movers, CommitGift(m) PROVE TitleInv'
<1>1. /\ Execute(mover[m]) /\ mover' = [mover EXCEPT ![m] = Idle] /\ UNCHANGED <<seated, refund, listing>>
      /\ crossed' = (crossed \/ Stale(mover[m]))
  BY DEF CommitGift, Done
<1>2. Typed'
  BY <1>1, HandedTyped DEF TitleInv, Typed
<1> QED BY <1>1, <1>2, Gives

LEMMA ResaleKeeps == ASSUME TitleInv, NEW m \in Movers, ConfirmResale(m) PROVE TitleInv'
<1> DEFINE l == mover[m].listing
<1>1. Typed /\ l \in Listings /\ listing[l] \in Offer /\ listing \in [Listings -> Offer]
  BY DEF TitleInv, Typed, Mover
<1>2. /\ mover' = [mover EXCEPT ![m] = Idle] /\ UNCHANGED <<seated, refund>>
      /\ crossed' = (crossed \/ Stale(mover[m]))
  BY DEF ConfirmResale, Done
<1>3. CASE listing[l].status = "reserved"
  <2>1. Execute(mover[m]) /\ listing' = Sold(l)
    BY <1>3 DEF ConfirmResale
  <2>2. listing' \in [Listings -> Offer] /\ \A k \in Listings : listing'[k].ticket = listing[k].ticket
    BY <1>1, <2>1 DEF Sold, Offer
  <2>3. Typed'
    BY <1>2, <2>1, <2>2, HandedTyped
  <2> QED BY <1>2, <2>1, <2>3, Gives
<1>4. CASE listing[l].status # "reserved"
  <2>1. listing' = [listing EXCEPT ![l].order = "paid"] /\ UNCHANGED <<ticket, chain>>
    BY <1>4 DEF ConfirmResale
  <2>2. listing' \in [Listings -> Offer] /\ \A k \in Listings : listing'[k].ticket = listing[k].ticket
    BY <1>1, <2>1 DEF Offer
  <2>3. Typed'
    BY <1>1, <1>2, <2>1, <2>2, IdleAgain DEF Typed
  <2> QED BY <1>2, <2>1, <2>3, Quiet DEF Active
<1> QED BY <1>3, <1>4

LEMMA ReissueKeeps == ASSUME TitleInv, NEW m \in Movers, CommitReissue(m) PROVE TitleInv'
<1> DEFINE v == mover[m]
           burnt == [ticket[v.ticket] EXCEPT !.status = "burned"]
           fresh == [status |-> "active", owner |-> v.from, entered |-> FALSE]
<1>1. /\ ticket' = Reissued(v) /\ ~SeatTaken(v) /\ mover' = [mover EXCEPT ![m] = Idle]
      /\ UNCHANGED <<seated, chain, listing, refund>> /\ crossed' = (crossed \/ Stale(v))
  BY DEF CommitReissue, Done
<1>2. Typed /\ v \in Mover /\ v.ticket \in 1..Len(ticket) /\ Len(ticket) \in Nat
  BY Lengths DEF TitleInv, Typed
<1>3. burnt \in Title
  BY <1>2, TitleAt DEF Title
<1>4. fresh \in Title
  BY <1>2 DEF Title, Mover
<1>5. Burned(v) = [ticket EXCEPT ![v.ticket] = burnt] /\ ticket' = Append(Burned(v), fresh)
  BY <1>1 DEF Burned, Reissued
<1> HIDE DEF burnt, fresh
<1>6. Burned(v) \in Seq(Title) /\ Len(Burned(v)) = Len(ticket)
  <2> HIDE DEF v
  <2> QED BY <1>2, <1>3, <1>5, OneWritten
<1>7. ticket' \in Seq(Title) /\ ticket' # << >> /\ Len(ticket') = Len(ticket) + 1
  BY <1>4, <1>5, <1>6, AppendProperties
<1>8. mover' \in [Movers -> Mover] /\ \A q \in Movers : mover'[q].ticket \in 1..Len(ticket)
  BY <1>1, <1>2, IdleAgain
<1>9. Typed'
  BY <1>1, <1>2, <1>7, <1>8 DEF Typed
<1> QED BY <1>1, <1>9, Replaces

(***************************************************************************)
(* The theorems.                                                           *)
(***************************************************************************)
LEMMA InitTitleInv == Init => TitleInv
<1> SUFFICES ASSUME Init PROVE TitleInv
  OBVIOUS
<1> DEFINE first == [status |-> "active", owner |-> Buyer, entered |-> FALSE]
<1>1. first \in Title /\ first.owner = Buyer /\ Buyer \in People
  BY TitlesAssumption DEF Title
<1>2. ticket = <<first>> /\ chain = << >>
  BY DEF Init
<1> HIDE DEF first
<1>3. ticket \in Seq(Title) /\ ticket # << >> /\ Len(ticket) = 1 /\ ticket[1] = first
  BY <1>1, <1>2
<1>4. chain \in Seq(Link) /\ Len(chain) = 0
  BY <1>2, EmptySeq
<1>5. listing \in [Listings -> Offer] /\ \A l \in Listings : listing[l].ticket = 1
  BY <1>1 DEF Init, Offer
<1>6. mover \in [Movers -> Mover] /\ \A m \in Movers : mover[m].ticket = 1
  BY IdleType DEF Init
<1>7. Typed
  BY <1>3, <1>4, <1>5, <1>6 DEF Init, Typed
<1>8. One /\ LastIsValid
  BY <1>3 DEF One, LastIsValid
<1>9. Linked /\ Handed
  BY <1>4 DEF Linked, Handed
<1>10. Unbroken
  <2>1. Provenance(1) = {} /\ Origin(1) = Buyer
    BY <1>4, <1>7, Domains DEF Provenance, Origin
  <2> QED BY <1>1, <1>3, <1>4, <2>1 DEF Unbroken, EndsWith
<1> QED BY <1>7, <1>8, <1>9, <1>10 DEF TitleInv

LEMMA NextTitleInv == TitleInv /\ [Next]_vars => TitleInv'
<1> SUFFICES ASSUME TitleInv, [Next]_vars PROVE TitleInv'
  OBVIOUS
<1>1. CASE UNCHANGED <<seated, ticket, chain, listing, refund, mover, crossed>>
  <2>1. Typed'
    BY <1>1 DEF TitleInv, Typed
  <2> QED BY <1>1, <2>1, Quiet DEF Active
<1>2. ASSUME NEW m \in Movers, NEW kind \in Kinds \ {"resale"}, NEW t \in DOMAIN ticket, NEW to \in People,
             Look(m, kind, t, to)
      PROVE  TitleInv'
  BY <1>2, LookKeeps
<1>3. ASSUME NEW m \in Movers, NEW l \in Listings, LookResale(m, l) \/ CreateListing(m, l) PROVE TitleInv'
  BY <1>3, LookResaleKeeps, CreateKeeps
<1>4. ASSUME NEW m \in Movers, CommitGift(m) \/ CommitReissue(m) \/ ConfirmResale(m) \/ Refused(m) PROVE TitleInv'
  BY <1>4, GiftKeeps, ReissueKeeps, ResaleKeeps, RefusedKeeps
<1>5. ASSUME NEW l \in Listings, CancelListing(l) \/ PayResale(l) \/ \E p \in People : BuyListing(l, p)
      PROVE  TitleInv'
  BY <1>5, MarketKeeps
<1>6. ASSUME NEW t \in DOMAIN ticket, PrepareRefund(t) \/ OpenDispute(t) \/ Enter(t) PROVE TitleInv'
  BY <1>1, <1>6, PrepareKeeps, EnterKeeps DEF OpenDispute
<1>7. CASE CompleteRefund \/ WindowPasses
  BY <1>1, <1>7, CompleteKeeps DEF WindowPasses
<1> QED BY <1>1, <1>2, <1>3, <1>4, <1>5, <1>6, <1>7 DEF Next, vars

\* A numbered seat never has two valid tickets; standing room has two only where
\* a mover wrote over what another had changed under it.
THEOREM ReissueReplaces == Spec => []OneValidPerPlace
<1>1. TitleInv => OneValidPerPlace
  <2> SUFFICES ASSUME TitleInv, seated \/ ~crossed PROVE OneValidPerPlace
    BY DEF OneValidPerPlace
  <2> DEFINE V == {t \in DOMAIN ticket : Active(t)}
  <2>1. \A s, t \in V : s = t
    BY Domains DEF TitleInv, One, LastIsValid
  <2>2. CASE V = {}
    BY <2>2, FS_EmptySet DEF OneValidPerPlace
  <2>3. CASE V # {}
    <3>1. PICK x : V = {x}
      BY <2>1, <2>3
    <3>2. Cardinality({x}) = 1
      BY FS_Singleton, Zenon
    <3> QED BY <3>1, <3>2 DEF OneValidPerPlace
  <2> QED BY <2>2, <2>3
<1> QED BY <1>1, InitTitleInv, NextTitleInv, PTL DEF Spec

\* However gifts, reissues and resales follow each other, the provenance of a ticket
\* ends with its holder; but for crossings it comes without a gap from the sale, or from
\* the holder of the ticket it replaces.
THEOREM ProvenanceIsUnbroken == Spec => []ChainOfTitle
<1>1. TitleInv => ChainOfTitle
  <2> SUFFICES ASSUME TitleInv, NEW t \in DOMAIN ticket
               PROVE  /\ \A i \in Provenance(t) : (\A j \in Provenance(t) : j <= i) => chain[i].to = ticket[t].owner
                      /\ ~crossed => /\ EndsWith(t, Len(chain), ticket[t].owner)
                                     /\ \A i \in Provenance(t) : EndsWith(t, i - 1, chain[i].from)
    BY DEF ChainOfTitle
  <2>1. t \in 1..Len(ticket) /\ DOMAIN chain = 1..Len(chain)
    BY Domains DEF TitleInv
  <2>2. \A i : i \in Provenance(t) <=> i \in 1..Len(chain) /\ chain[i].ticket = t
    BY <2>1 DEF Provenance
  <2> QED BY <2>1, <2>2 DEF TitleInv, Handed, Unbroken
<1> QED BY <1>1, InitTitleInv, NextTitleInv, PTL DEF Spec

(***************************************************************************)
(* The directory.  It names the last ticket of the place, and its holder   *)
(* for as long as that ticket is valid.                                    *)
(***************************************************************************)
Entry == [ticket : Nat, owner : People, status : {"active", "refunded"}]

ShowsTheLast ==
    ~strayed /\ ~crossed =>
        /\ directory.ticket = Len(ticket)
        /\ directory.status = "active" => Active(Len(ticket)) /\ ticket[Len(ticket)].owner = directory.owner

DirectoryInv == TitleInv /\ directory \in Entry /\ ShowsTheLast

\* The last ticket and its row stay as they are.
LEMMA Shown ==
  ASSUME DirectoryInv, UNCHANGED directory, crossed => crossed', strayed => strayed', Len(ticket') = Len(ticket),
         ticket'[Len(ticket)].owner = ticket[Len(ticket)].owner,
         ticket'[Len(ticket)].status = ticket[Len(ticket)].status
  PROVE  directory' \in Entry /\ ShowsTheLast'
BY DEF DirectoryInv, ShowsTheLast, Active

\* Handed over: while nobody wrote over another, the ticket given is the last one.
LEMMA GivenIsShown ==
  ASSUME DirectoryInv, NEW m \in Movers, Execute(mover[m]), crossed' = (crossed \/ Stale(mover[m])),
         strayed => strayed', directory' = Renamed(mover[m])
  PROVE  directory' \in Entry /\ ShowsTheLast'
<1> DEFINE v == mover[m]
           new == [ticket[v.ticket] EXCEPT !.owner = v.to]
<1>1. Typed /\ v \in Mover /\ v.ticket \in 1..Len(ticket) /\ directory \in Entry /\ TitleInv
  BY DEF DirectoryInv, TitleInv, Typed
<1>2. ticket[v.ticket] \in Title
  BY <1>1, TitleAt
<1>3. new \in Title /\ new.status = ticket[v.ticket].status /\ new.owner = v.to
  BY <1>1, <1>2 DEF Title, Mover
<1>4. ticket' = [ticket EXCEPT ![v.ticket] = new]
  BY DEF Execute
<1> HIDE DEF new
<1>5. Len(ticket') = Len(ticket) /\ ticket'[v.ticket] = new
  BY <1>1, <1>3, <1>4, OneWritten
<1>6. directory' \in Entry
  BY <1>1 DEF Renamed, Entry, Mover
<1>7. ASSUME ~strayed', ~crossed'
      PROVE  /\ directory'.ticket = Len(ticket)
             /\ directory'.status = "active" =>
                   ticket'[Len(ticket)].status = "active" /\ ticket'[Len(ticket)].owner = directory'.owner
  <2>1. ~crossed /\ ~strayed /\ Active(v.ticket)
    BY <1>7 DEF Stale
  <2>2. v.ticket = Len(ticket) /\ directory.ticket = Len(ticket)
    BY <1>1, <2>1 DEF TitleInv, LastIsValid, DirectoryInv, ShowsTheLast
  <2>3. directory'.ticket = Len(ticket) /\ directory'.owner = v.to /\ directory'.status = directory.status
    BY <1>1, <2>2 DEF Renamed, Entry
  <2>4. ticket'[Len(ticket)] = new
    BY <1>5, <2>2
  <2> QED BY <1>3, <1>5, <2>1, <2>2, <2>3, <2>4 DEF Active
<1> QED BY <1>5, <1>6, <1>7 DEF ShowsTheLast, Active

\* Reissued by the buyer: the row moves on to the new ticket, which is the last one.
LEMMA ReissueIsShown ==
  ASSUME DirectoryInv, NEW m \in Movers, CommitReissue(m)
  PROVE  directory' \in Entry /\ ShowsTheLast'
<1> DEFINE v == mover[m]
           burnt == [ticket[v.ticket] EXCEPT !.status = "burned"]
           fresh == [status |-> "active", owner |-> v.from, entered |-> FALSE]
<1>1. /\ Typed /\ v \in Mover /\ v.ticket \in 1..Len(ticket) /\ Len(ticket) \in Nat
      /\ directory \in Entry /\ TitleInv
  BY Lengths DEF DirectoryInv, TitleInv, Typed
<1>2. /\ ticket' = Reissued(v) /\ crossed' = (crossed \/ Stale(v))
      /\ strayed' = (strayed \/ v.kind # "reissue")
      /\ directory' = IF v.kind = "reissue" THEN Pointed(v, Len(ticket) + 1) ELSE directory
  BY DEF CommitReissue, Done
<1>3. burnt \in Title /\ fresh \in Title /\ fresh.status = "active" /\ fresh.owner = v.from
  <2>1. ticket[v.ticket] \in Title
    BY <1>1, TitleAt
  <2> QED BY <1>1, <2>1 DEF Title, Mover
<1>4. Burned(v) = [ticket EXCEPT ![v.ticket] = burnt] /\ ticket' = Append(Burned(v), fresh)
  BY <1>2 DEF Burned, Reissued
<1> HIDE DEF burnt, fresh
<1>5. Burned(v) \in Seq(Title) /\ Len(Burned(v)) = Len(ticket)
  <2> HIDE DEF v
  <2> QED BY <1>1, <1>3, <1>4, OneWritten
<1>6. Len(ticket') = Len(ticket) + 1 /\ ticket'[Len(ticket) + 1] = fresh
  BY <1>3, <1>4, <1>5, AppendProperties
<1>7. directory' \in Entry
  BY <1>1, <1>2 DEF Pointed, Entry
<1>8. ASSUME ~strayed', ~crossed'
      PROVE  /\ directory'.ticket = Len(ticket')
             /\ directory'.status = "active" => fresh.owner = directory'.owner
  <2>1. ~crossed /\ ~strayed /\ Active(v.ticket) /\ ticket[v.ticket].owner = v.from /\ v.kind = "reissue"
    BY <1>2, <1>8 DEF Stale
  <2>2. /\ v.ticket = Len(ticket) /\ directory.ticket = Len(ticket)
        /\ directory.status = "active" => ticket[Len(ticket)].owner = directory.owner
    BY <1>1, <2>1 DEF TitleInv, LastIsValid, DirectoryInv, ShowsTheLast
  <2>3. /\ directory'.ticket = Len(ticket) + 1 /\ directory'.owner = directory.owner
        /\ directory'.status = directory.status
    BY <1>1, <1>2, <2>1, <2>2 DEF Pointed, Entry
  <2> QED BY <1>3, <1>6, <2>1, <2>2, <2>3
<1>9. ticket'[Len(ticket')].status = "active" /\ ticket'[Len(ticket')].owner = fresh.owner
  BY <1>3, <1>6
<1> HIDE DEF fresh
<1>10. ShowsTheLast'
  <2> SUFFICES ASSUME ~strayed', ~crossed'
               PROVE  /\ directory'.ticket = Len(ticket')
                      /\ directory'.status = "active" =>
                            Active(Len(ticket))' /\ ticket'[Len(ticket')].owner = directory'.owner
    BY DEF ShowsTheLast
  <2> QED BY <1>8, <1>9 DEF Active
<1> QED BY <1>7, <1>10

\* Refunded: the row says so, if it is of the ticket that is burned; any other was burned before.
LEMMA RefundIsShown ==
  ASSUME DirectoryInv, CompleteRefund
  PROVE  directory' \in Entry /\ ShowsTheLast'
<1> DEFINE t == refund.ticket
           new == [ticket[t] EXCEPT !.status = "burned"]
<1>1. Typed /\ t \in 1..Len(ticket) /\ ticket[t] \in Title /\ Len(ticket) \in Nat /\ Len(ticket) >= 1
  BY TitleAt, Lengths DEF DirectoryInv, TitleInv, Typed
<1>2. new \in Title
  BY <1>1 DEF Title
<1>3. /\ ticket' = [ticket EXCEPT ![t] = new] /\ UNCHANGED <<crossed, strayed>>
      /\ directory' = IF directory.ticket = t THEN [directory EXCEPT !.status = "refunded"] ELSE directory
  BY DEF CompleteRefund
<1> HIDE DEF new
<1>4. Len(ticket') = Len(ticket) /\ \A s \in 1..Len(ticket) \ {t} : ticket'[s] = ticket[s]
  BY <1>1, <1>2, <1>3, OneWritten
<1>5. CASE directory.ticket = t
  BY <1>3, <1>4, <1>5 DEF DirectoryInv, ShowsTheLast, Entry
<1>6. CASE directory.ticket # t
  BY <1>1, <1>3, <1>4, <1>6 DEF DirectoryInv, ShowsTheLast, Active
<1> QED BY <1>5, <1>6

LEMMA EnterIsShown ==
  ASSUME DirectoryInv, NEW t \in DOMAIN ticket, Enter(t)
  PROVE  directory' \in Entry /\ ShowsTheLast'
<1> DEFINE new == [ticket[t] EXCEPT !.entered = TRUE]
<1>1. Typed /\ t \in 1..Len(ticket) /\ ticket[t] \in Title /\ Len(ticket) \in Nat /\ Len(ticket) >= 1
  BY Domains, TitleAt, Lengths DEF DirectoryInv, TitleInv
<1>2. new \in Title /\ new.status = ticket[t].status /\ new.owner = ticket[t].owner
  BY <1>1 DEF Title
<1>3. ticket' = [ticket EXCEPT ![t] = new] /\ UNCHANGED <<directory, crossed, strayed>>
  BY DEF Enter
<1> HIDE DEF new
<1>4. Len(ticket') = Len(ticket) /\ ticket'[t] = new /\ \A s \in 1..Len(ticket) \ {t} : ticket'[s] = ticket[s]
  BY <1>1, <1>2, <1>3, OneWritten
<1>5. Len(ticket) \in 1..Len(ticket)
  BY <1>1
<1> QED BY <1>2, <1>3, <1>4, <1>5, Shown

LEMMA InitDirectory == Init => DirectoryInv
<1> SUFFICES ASSUME Init PROVE DirectoryInv
  OBVIOUS
<1> DEFINE first == [status |-> "active", owner |-> Buyer, entered |-> FALSE]
<1>1. ticket = <<first>> /\ directory = NewRow(1, Buyer)
  BY DEF Init
<1>2. Len(ticket) = 1 /\ ticket[1].status = "active" /\ ticket[1].owner = Buyer
  BY <1>1
<1>3. directory \in Entry /\ directory.ticket = 1 /\ directory.owner = Buyer
  BY <1>1, TitlesAssumption DEF NewRow, Entry
<1> QED BY <1>2, <1>3, InitTitleInv DEF DirectoryInv, ShowsTheLast, Active

LEMMA NextDirectory == DirectoryInv /\ [Next]_vars => DirectoryInv'
<1> SUFFICES ASSUME DirectoryInv, [Next]_vars PROVE DirectoryInv'
  OBVIOUS
<1>1. TitleInv'
  BY NextTitleInv DEF DirectoryInv
<1> SUFFICES directory' \in Entry /\ ShowsTheLast'
  BY <1>1 DEF DirectoryInv
<1>2. CASE UNCHANGED <<ticket, directory, crossed, strayed>>
  BY <1>2, Shown
<1>3. ASSUME NEW m \in Movers, NEW kind \in Kinds \ {"resale"}, NEW t \in DOMAIN ticket, NEW to \in People,
             Look(m, kind, t, to)
      PROVE  UNCHANGED <<ticket, directory, crossed, strayed>>
  BY <1>3 DEF Look, Begin
<1>4. ASSUME NEW m \in Movers, NEW l \in Listings, LookResale(m, l) \/ CreateListing(m, l)
      PROVE  directory' \in Entry /\ ShowsTheLast'
  <2>1. CASE LookResale(m, l)
    BY <1>2, <2>1 DEF LookResale, Begin
  <2>2. CASE CreateListing(m, l)
    <3>1. UNCHANGED <<ticket, directory, strayed>> /\ (crossed => crossed')
      BY <2>2 DEF CreateListing, Done
    <3> QED BY <3>1, Shown
  <2> QED BY <1>4, <2>1, <2>2
<1>5. ASSUME NEW m \in Movers, CommitGift(m) PROVE directory' \in Entry /\ ShowsTheLast'
  <2>1. /\ Execute(mover[m]) /\ crossed' = (crossed \/ Stale(mover[m]))
        /\ strayed' = (strayed \/ mover[m].kind = "walletGift")
    BY <1>5 DEF CommitGift, Done
  <2>2. CASE mover[m].kind = "walletGift"
    <3>1. strayed' /\ UNCHANGED directory
      BY <1>5, <2>2 DEF CommitGift
    <3> QED BY <3>1 DEF DirectoryInv, ShowsTheLast
  <2>3. CASE mover[m].kind # "walletGift" /\ ~strayed
    <3>1. (strayed => strayed') /\ directory' = Renamed(mover[m])
      BY <1>5, <2>1, <2>3 DEF CommitGift
    <3> QED BY <2>1, <2>3, <3>1, GivenIsShown
  <2>4. CASE mover[m].kind # "walletGift" /\ strayed
    <3>1. strayed' /\ directory' = Renamed(mover[m]) /\ mover[m].to \in People
      BY <1>5, <2>1, <2>4 DEF CommitGift, DirectoryInv, TitleInv, Typed, Mover
    <3> QED BY <3>1 DEF DirectoryInv, ShowsTheLast, Renamed, Entry
  <2> QED BY <2>2, <2>3, <2>4
<1>6. ASSUME NEW m \in Movers, ConfirmResale(m) PROVE directory' \in Entry /\ ShowsTheLast'
  <2>1. UNCHANGED strayed /\ crossed' = (crossed \/ Stale(mover[m]))
    BY <1>6 DEF ConfirmResale, Done
  <2>2. CASE listing[mover[m].listing].status = "reserved"
    <3>1. Execute(mover[m]) /\ directory' = Renamed(mover[m])
      BY <1>6, <2>2 DEF ConfirmResale, NewHolder
    <3> QED BY <2>1, <3>1, GivenIsShown
  <2>3. CASE listing[mover[m].listing].status # "reserved"
    <3>1. UNCHANGED <<ticket, directory>>
      BY <1>6, <2>3 DEF ConfirmResale
    <3> QED BY <2>1, <3>1, Shown
  <2> QED BY <2>2, <2>3
<1>7. ASSUME NEW m \in Movers, CommitReissue(m) \/ Refused(m) PROVE directory' \in Entry /\ ShowsTheLast'
  BY <1>2, <1>7, ReissueIsShown DEF Refused
<1>8. ASSUME NEW l \in Listings, CancelListing(l) \/ PayResale(l) \/ \E p \in People : BuyListing(l, p)
      PROVE  UNCHANGED <<ticket, directory, crossed, strayed>>
  BY <1>8 DEF CancelListing, PayResale, BuyListing
<1>9. ASSUME NEW t \in DOMAIN ticket, PrepareRefund(t) \/ OpenDispute(t) \/ Enter(t)
      PROVE  directory' \in Entry /\ ShowsTheLast'
  BY <1>2, <1>9, EnterIsShown DEF PrepareRefund, OpenDispute
<1>10. CASE CompleteRefund \/ WindowPasses
  BY <1>2, <1>10, RefundIsShown DEF WindowPasses
<1> QED BY <1>2, <1>3, <1>4, <1>5, <1>6, <1>7, <1>8, <1>9, <1>10 DEF Next, vars

\* Whatever gifts, reissues, resales and refunds follow each other, "my tickets"
\* shows a valid ticket to the one who holds it, unless a move passed by it.
THEOREM DirectoryShowsTheHolder == Spec => []DirectoryFollowsOwner
<1>1. DirectoryInv => DirectoryFollowsOwner
  BY DEF DirectoryInv, ShowsTheLast, DirectoryFollowsOwner
<1> QED BY <1>1, InitDirectory, NextDirectory, PTL DEF Spec

(***************************************************************************)
(* The resale market.  A listing and its order go together; a notice under *)
(* way still finds its listing reserved, for the buyer it read; and a sold *)
(* listing has its link in the chain.                                      *)
(***************************************************************************)
Delivered(o, links) == \E i \in 1..Len(links) : links[i].ticket = o.ticket /\ links[i].to = o.buyer

InStep(o, links) ==
    /\ o.status \in {"none", "active", "cancelled"} => o.order = "none"
    /\ o.status = "reserved" => o.order \in {"pending", "charged"}
    /\ o.status = "sold" => o.order = "paid" /\ Delivered(o, links)

Notices(v) ==
    v.kind = "resale" =>
        /\ listing[v.listing].status = "reserved" /\ listing[v.listing].order = "charged"
        /\ listing[v.listing].ticket = v.ticket /\ listing[v.listing].buyer = v.to

OneNotice ==
    \A m, n \in Movers :
        mover[m].kind = "resale" /\ mover[n].kind = "resale" /\ mover[m].listing = mover[n].listing => m = n

MarketInv ==
    /\ TitleInv
    /\ \A l \in Listings : InStep(listing[l], chain)
    /\ \A m \in Movers : Notices(mover[m])
    /\ OneNotice

\* What was delivered stays delivered: the chain only grows.
Grows == Len(chain) <= Len(chain') /\ \A i \in 1..Len(chain) : chain'[i] = chain[i]

LEMMA ExecuteGrows ==
  ASSUME TitleInv, NEW m \in Movers, Execute(mover[m])
  PROVE  /\ Grows
         /\ \E i \in 1..Len(chain') : chain'[i].ticket = mover[m].ticket /\ chain'[i].to = mover[m].to
<1> DEFINE v == mover[m]
           link == [ticket |-> v.ticket, from |-> v.from, to |-> v.to]
<1>1. v \in Mover /\ chain \in Seq(Link) /\ Len(chain) \in Nat /\ v.ticket \in 1..Len(ticket)
  BY Lengths DEF TitleInv, Typed
<1>2. link \in Link /\ link.ticket = v.ticket /\ link.to = v.to
  BY <1>1 DEF Mover, Link
<1>3. chain' = Append(chain, link)
  BY DEF Execute
<1> HIDE DEF link
<1>4. /\ Len(chain') = Len(chain) + 1 /\ chain'[Len(chain) + 1] = link
      /\ \A i \in 1..Len(chain) : chain'[i] = chain[i]
  BY <1>1, <1>2, <1>3, AppendProperties
<1> QED BY <1>1, <1>2, <1>4 DEF Grows

LEMMA StaysDelivered == ASSUME TitleInv, Grows, NEW o, InStep(o, chain) PROVE InStep(o, chain')
<1> SUFFICES ASSUME Delivered(o, chain) PROVE Delivered(o, chain')
  BY DEF InStep
<1>1. PICK i \in 1..Len(chain) : chain[i].ticket = o.ticket /\ chain[i].to = o.buyer
  BY DEF Delivered
<1>2. i \in 1..Len(chain') /\ chain'[i] = chain[i]
  BY Lengths DEF Grows, TitleInv
<1> QED BY <1>1, <1>2 DEF Delivered

LEMMA Unmoved == ASSUME TitleInv, UNCHANGED chain PROVE Grows
BY Lengths DEF TitleInv, Grows

\* A mover begins or ends, and no listing is written.
LEMMA MoverStep ==
  ASSUME MarketInv, TitleInv', Grows, UNCHANGED listing, NEW m \in Movers, NEW v \in Mover,
         mover' = [mover EXCEPT ![m] = v], Notices(v),
         v.kind = "resale" => \A n \in Movers : mover[n].kind = "resale" => mover[n].listing # v.listing
  PROVE  MarketInv'
<1>1. TitleInv /\ mover \in [Movers -> Mover]
  BY DEF MarketInv, TitleInv, Typed
<1>2. ASSUME NEW l \in Listings PROVE InStep(listing'[l], chain')
  <2>1. InStep(listing[l], chain)
    BY DEF MarketInv
  <2> QED BY <1>1, <2>1, StaysDelivered
<1>3. ASSUME NEW n \in Movers PROVE Notices(mover[n])'
  <2>1. Notices(mover'[n])
    BY <1>1 DEF MarketInv
  <2> QED BY <2>1 DEF Notices
<1>4. OneNotice'
  BY <1>1 DEF MarketInv, OneNotice
<1> QED BY <1>2, <1>3, <1>4 DEF MarketInv

\* A listing is written that no notice still under way has read.
LEMMA ListingStep ==
  ASSUME MarketInv, TitleInv', Grows, NEW l \in Listings, NEW o,
         listing' = [listing EXCEPT ![l] = o], InStep(o, chain'),
         \A n \in Movers : mover'[n].kind = "resale" => mover'[n] = mover[n] /\ mover[n].listing # l
  PROVE  MarketInv'
<1>1. TitleInv /\ listing \in [Listings -> Offer] /\ mover \in [Movers -> Mover]
  BY DEF MarketInv, TitleInv, Typed
<1>2. ASSUME NEW k \in Listings PROVE InStep(listing'[k], chain')
  <2>1. CASE k = l
    BY <1>1, <2>1 DEF InStep, Delivered
  <2>2. CASE k # l
    <3>1. InStep(listing[k], chain) /\ listing'[k] = listing[k]
      BY <1>1, <2>2 DEF MarketInv
    <3> QED BY <1>1, <3>1, StaysDelivered
  <2> QED BY <2>1, <2>2
<1>3. ASSUME NEW n \in Movers PROVE Notices(mover[n])'
  <2> SUFFICES ASSUME mover'[n].kind = "resale" PROVE Notices(mover[n])'
    BY DEF Notices
  <2>1. mover'[n] = mover[n] /\ mover[n].listing # l /\ mover[n].listing \in Listings /\ Notices(mover[n])
    BY <1>1 DEF MarketInv, Mover
  <2> QED BY <1>1, <2>1 DEF Notices
<1>4. OneNotice'
  BY <1>1 DEF MarketInv, OneNotice
<1> QED BY <1>2, <1>3, <1>4 DEF MarketInv

LEMMA IdleNotices == Idle.kind # "resale" /\ Notices(Idle)
BY DEF Idle, Notices

LEMMA LookMarket ==
  ASSUME MarketInv, TitleInv', NEW m \in Movers, NEW kind \in Kinds \ {"resale"},
         NEW t \in DOMAIN ticket, NEW to \in People, Look(m, kind, t, to)
  PROVE  MarketInv'
<1> DEFINE v == [Idle EXCEPT !.kind = kind, !.ticket = t, !.from = ticket[t].owner, !.to = to]
<1>1. t \in 1..Len(ticket) /\ ticket[t] \in Title /\ Len(ticket) \in Nat /\ TitleInv
  BY Domains, TitleAt, Lengths DEF MarketInv, TitleInv
<1>2. v \in Mover /\ v.kind = kind
  <2>1. t \in Nat /\ ticket[t].owner \in People
    BY <1>1 DEF Title
  <2> QED BY <2>1, IdleType DEF Mover
<1>3. UNCHANGED <<listing, chain>> /\ mover' = [mover EXCEPT ![m] = v]
  BY DEF Look, Begin
<1> HIDE DEF v
<1>4. Notices(v) /\ v.kind # "resale"
  BY <1>2 DEF Notices
<1>5. Grows
  BY <1>1, <1>3, Unmoved
<1> QED BY <1>2, <1>3, <1>4, <1>5, MoverStep

LEMMA LookResaleMarket ==
  ASSUME MarketInv, TitleInv', NEW m \in Movers, NEW l \in Listings, LookResale(m, l)
  PROVE  MarketInv'
<1> DEFINE t == listing[l].ticket
           v == [kind |-> "resale", ticket |-> t, from |-> ticket[t].owner, to |-> listing[l].buyer,
                 listing |-> l]
<1>1. t \in 1..Len(ticket) /\ listing[l] \in Offer /\ Len(ticket) \in Nat /\ TitleInv
  BY Lengths DEF MarketInv, TitleInv, Typed
<1>2. ticket[t] \in Title
  BY <1>1, TitleAt DEF TitleInv
<1>3. v \in Mover
  BY <1>1, <1>2 DEF Mover, Title, Offer, Kinds
<1>4. UNCHANGED <<listing, chain>> /\ mover' = [mover EXCEPT ![m] = v]
  BY DEF LookResale, Begin
<1>5. listing[l].status = "reserved" /\ listing[l].order = "charged"
  BY <1>1 DEF LookResale, MarketInv, InStep, Offer
<1>6. Notices(v) /\ \A n \in Movers : mover[n].kind = "resale" => mover[n].listing # v.listing
  BY <1>5 DEF Notices, LookResale
<1>7. Grows
  BY <1>1, <1>4, Unmoved
<1> HIDE DEF v
<1> QED BY <1>3, <1>4, <1>6, <1>7, MoverStep

LEMMA EndsMarket ==
  ASSUME MarketInv, TitleInv', NEW m \in Movers, CommitGift(m) \/ CommitReissue(m) \/ Refused(m)
  PROVE  MarketInv'
<1>1. UNCHANGED listing /\ mover' = [mover EXCEPT ![m] = Idle] /\ (UNCHANGED chain \/ Execute(mover[m]))
  BY DEF CommitGift, CommitReissue, Refused, Done
<1>2. Grows
  BY <1>1, Unmoved, ExecuteGrows DEF MarketInv
<1> QED BY <1>1, <1>2, IdleType, IdleNotices, MoverStep

LEMMA CreateMarket ==
  ASSUME MarketInv, TitleInv', NEW m \in Movers, NEW l \in Listings, CreateListing(m, l)
  PROVE  MarketInv'
<1> DEFINE old == listing[l]
           o == [old EXCEPT !.status = "active", !.ticket = mover[m].ticket]
<1>1. TitleInv /\ listing \in [Listings -> Offer] /\ mover \in [Movers -> Mover] /\ old \in Offer
  BY DEF MarketInv, TitleInv, Typed
<1>2. listing' = [listing EXCEPT ![l] = o] /\ old.status = "none" /\ UNCHANGED chain
      /\ mover' = [mover EXCEPT ![m] = Idle]
  BY <1>1 DEF CreateListing, Done
<1>3. o.status = "active" /\ o.order = "none"
  BY <1>1, <1>2 DEF MarketInv, InStep, Offer
<1> HIDE DEF o
<1>4. InStep(o, chain')
  BY <1>3 DEF InStep
<1>5. \A n \in Movers : mover'[n].kind = "resale" => mover'[n] = mover[n] /\ mover[n].listing # l
  <2> SUFFICES ASSUME NEW n \in Movers, mover'[n].kind = "resale"
               PROVE  mover'[n] = mover[n] /\ mover[n].listing # l
    OBVIOUS
  <2>1. mover'[n] = mover[n]
    BY <1>1, <1>2, IdleNotices
  <2> QED BY <1>2, <2>1 DEF MarketInv, Notices
<1>6. Grows
  BY <1>1, <1>2, Unmoved
<1> QED BY <1>2, <1>4, <1>5, <1>6, ListingStep

\* A paid notice finds its listing reserved still, and hands the ticket over.
LEMMA ResaleMarket ==
  ASSUME MarketInv, TitleInv', NEW m \in Movers, ConfirmResale(m)
  PROVE  MarketInv'
<1> DEFINE v == mover[m]
           l == v.listing
           old == listing[l]
           o == [old EXCEPT !.status = "sold", !.order = "paid"]
<1>1. /\ TitleInv /\ listing \in [Listings -> Offer] /\ mover \in [Movers -> Mover]
      /\ l \in Listings /\ old \in Offer
  BY DEF MarketInv, TitleInv, Typed, Mover
<1>2. v.kind = "resale" /\ mover' = [mover EXCEPT ![m] = Idle]
  BY DEF ConfirmResale, Done
<1>3. old.status = "reserved" /\ old.ticket = v.ticket /\ old.buyer = v.to
  BY <1>2 DEF MarketInv, Notices
<1>4. Execute(v) /\ listing' = [listing EXCEPT ![l] = o]
  BY <1>1, <1>3 DEF ConfirmResale, Sold
<1>5. Grows /\ \E i \in 1..Len(chain') : chain'[i].ticket = v.ticket /\ chain'[i].to = v.to
  BY <1>1, <1>4, ExecuteGrows
<1>6. o.status = "sold" /\ o.order = "paid" /\ o.ticket = v.ticket /\ o.buyer = v.to
  BY <1>1, <1>3 DEF Offer
<1> HIDE DEF o
<1>7. InStep(o, chain')
  BY <1>5, <1>6 DEF InStep, Delivered
<1>8. \A n \in Movers : mover'[n].kind = "resale" => mover'[n] = mover[n] /\ mover[n].listing # l
  <2> SUFFICES ASSUME NEW n \in Movers, mover'[n].kind = "resale"
               PROVE  mover'[n] = mover[n] /\ mover[n].listing # l
    OBVIOUS
  <2>1. n # m /\ mover'[n] = mover[n]
    BY <1>1, <1>2, IdleNotices
  <2> QED BY <1>2, <2>1 DEF MarketInv, OneNotice
<1> QED BY <1>1, <1>4, <1>5, <1>7, <1>8, ListingStep

LEMMA BuyersMarket ==
  ASSUME MarketInv, TitleInv', NEW l \in Listings,
         CancelListing(l) \/ PayResale(l) \/ \E p \in People : BuyListing(l, p)
  PROVE  MarketInv'
<1> DEFINE old == listing[l]
<1>1. TitleInv /\ listing \in [Listings -> Offer] /\ old \in Offer /\ InStep(old, chain)
  BY DEF MarketInv, TitleInv, Typed
<1>2. UNCHANGED <<chain, mover>> /\ ~(old.status = "reserved" /\ old.order = "charged")
  BY DEF CancelListing, PayResale, BuyListing
<1>3. Grows /\ \A n \in Movers : mover'[n].kind = "resale" => mover'[n] = mover[n] /\ mover[n].listing # l
  BY <1>1, <1>2, Unmoved DEF MarketInv, Notices
<1>4. \E o : listing' = [listing EXCEPT ![l] = o] /\ InStep(o, chain')
  <2>1. CASE CancelListing(l)
    <3> DEFINE o == [old EXCEPT !.status = "cancelled"]
    <3>1. o.status = "cancelled" /\ o.order = "none"
      BY <1>1, <2>1 DEF CancelListing, InStep, Offer
    <3>2. listing' = [listing EXCEPT ![l] = o]
      BY <1>1, <2>1 DEF CancelListing, Withdrawn
    <3> HIDE DEF o
    <3>3. InStep(o, chain')
      BY <3>1 DEF InStep
    <3> QED BY <3>2, <3>3
  <2>2. CASE PayResale(l)
    <3> DEFINE o == [old EXCEPT !.order = "charged"]
    <3>1. o.status = "reserved" /\ o.order = "charged"
      BY <1>1, <2>2 DEF PayResale, InStep, Offer
    <3>2. listing' = [listing EXCEPT ![l] = o]
      BY <1>1, <2>2 DEF PayResale
    <3> HIDE DEF o
    <3>3. InStep(o, chain')
      BY <3>1 DEF InStep
    <3> QED BY <3>2, <3>3
  <2>3. ASSUME NEW p \in People, BuyListing(l, p)
        PROVE  \E o : listing' = [listing EXCEPT ![l] = o] /\ InStep(o, chain')
    <3> DEFINE o == [old EXCEPT !.status = "reserved", !.buyer = p, !.order = "pending"]
    <3>1. o.status = "reserved" /\ o.order = "pending"
      BY <1>1 DEF Offer
    <3>2. listing' = [listing EXCEPT ![l] = o]
      BY <1>1, <2>3 DEF BuyListing, Reserved
    <3> HIDE DEF o
    <3>3. InStep(o, chain')
      BY <3>1 DEF InStep
    <3> QED BY <3>2, <3>3
  <2> QED BY <2>1, <2>2, <2>3
<1> QED BY <1>3, <1>4, ListingStep

LEMMA NextMarket == MarketInv /\ [Next]_vars => MarketInv'
<1> SUFFICES ASSUME MarketInv, [Next]_vars PROVE MarketInv'
  OBVIOUS
<1>1. TitleInv'
  BY NextTitleInv DEF MarketInv
<1>2. CASE UNCHANGED <<chain, listing, mover>>
  BY <1>1, <1>2 DEF MarketInv, InStep, Delivered, Notices, OneNotice
<1>3. ASSUME NEW m \in Movers, NEW kind \in Kinds \ {"resale"}, NEW t \in DOMAIN ticket, NEW to \in People,
             Look(m, kind, t, to)
      PROVE  MarketInv'
  BY <1>1, <1>3, LookMarket
<1>4. ASSUME NEW m \in Movers, NEW l \in Listings, LookResale(m, l) \/ CreateListing(m, l) PROVE MarketInv'
  BY <1>1, <1>4, LookResaleMarket, CreateMarket
<1>5. ASSUME NEW m \in Movers, CommitGift(m) \/ CommitReissue(m) \/ ConfirmResale(m) \/ Refused(m)
      PROVE  MarketInv'
  BY <1>1, <1>5, EndsMarket, ResaleMarket
<1>6. ASSUME NEW l \in Listings, CancelListing(l) \/ PayResale(l) \/ \E p \in People : BuyListing(l, p)
      PROVE  MarketInv'
  BY <1>1, <1>6, BuyersMarket
<1>7. ASSUME NEW t \in DOMAIN ticket, PrepareRefund(t) \/ OpenDispute(t) \/ Enter(t) PROVE MarketInv'
  BY <1>2, <1>7 DEF PrepareRefund, OpenDispute, Enter
<1>8. CASE CompleteRefund \/ WindowPasses
  BY <1>2, <1>8 DEF CompleteRefund, WindowPasses
<1> QED BY <1>2, <1>3, <1>4, <1>5, <1>6, <1>7, <1>8 DEF Next, vars

LEMMA InitMarket == Init => MarketInv
<1> SUFFICES ASSUME Init PROVE MarketInv
  OBVIOUS
<1>1. \A m \in Movers : mover[m].kind # "resale"
  BY IdleNotices DEF Init
<1>2. \A l \in Listings : InStep(listing[l], chain)
  BY DEF Init, InStep
<1> QED BY <1>1, <1>2, InitTitleInv DEF MarketInv, Notices, OneNotice

\* Whoever paid for a listing bought it, and has been given the very ticket that
\* was offered, whatever else was moving at the time.
THEOREM PaidResaleDelivers == Spec => []PaidGetsTheTicket
<1>1. MarketInv => PaidGetsTheTicket
  <2> SUFFICES ASSUME MarketInv, NEW l \in Listings, listing[l].order = "paid"
               PROVE  /\ listing[l].status = "sold"
                      /\ \E i \in Provenance(listing[l].ticket) : chain[i].to = listing[l].buyer
    BY DEF PaidGetsTheTicket
  <2>1. listing[l] \in Offer /\ InStep(listing[l], chain) /\ DOMAIN chain = 1..Len(chain)
    BY Domains DEF MarketInv, TitleInv, Typed
  <2>2. listing[l].status = "sold" /\ Delivered(listing[l], chain)
    BY <2>1 DEF InStep, Offer
  <2> QED BY <2>1, <2>2 DEF Delivered, Provenance
<1> QED BY <1>1, InitMarket, NextMarket, PTL DEF Spec
=============================================================================
