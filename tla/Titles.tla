------------------------------- MODULE Titles -------------------------------
(***************************************************************************)
(* Who holds the ticket of one place: gifts, reissues, disputes, the       *)
(* resale market, a refund and the gate, each in its own transaction.      *)
(*                                                                         *)
(* Every one of them reads the ticket without a lock and writes it later,  *)
(* without looking again: a mover first looks, then commits.  For a        *)
(* numbered seat the index tickets_active_seat_key decides at the commit;  *)
(* standing room has none.  A wallet stands for its holder.                *)
(***************************************************************************)
EXTENDS Integers, FiniteSets, Sequences

CONSTANTS People,       \* holders; Buyer is the one who bought the ticket
          Buyer,
          Listings,     \* listings that may be made
          Movers,       \* transactions of the server
          MaxMoves      \* bound: moves begun

ASSUME TitlesAssumption == Buyer \in People /\ MaxMoves \in Nat /\ Listings # {}

VARIABLES
    seated,      \* is the place a numbered seat?
    ticket,      \* the sequence of tickets of the place
    directory,   \* the row of ticket_directory: what "my tickets" shows
    disputed,    \* tickets with an open dispute
    contest,     \* is the window of contestation (transferable_after) still open?
    chain,       \* transfers
    listing,     \* listings with their order
    refund,      \* the refund of the order
    mover,       \* transactions under way
    moves,       \* moves begun
    crossed,     \* did a mover commit over what changed after it looked?
    strayed      \* did a move pass by the directory?

vars == <<seated, ticket, directory, disputed, contest, chain, listing, refund, mover, moves, crossed, strayed>>

\* By the buyer, by the producer's panel, by the platform's admins, to a wallet.
Gifts == {"gift", "panelGift", "adminGift", "walletGift"}
Reissues == {"reissue", "panelReissue", "adminReissue"}
Lists == {"list", "panelList"}
Kinds == Gifts \cup Reissues \cup Lists \cup {"resale"}

SomeListing == CHOOSE l \in Listings : TRUE
Idle == [kind |-> "idle", ticket |-> 1, from |-> Buyer, to |-> Buyer, listing |-> SomeListing]
Move == [kind : Kinds \cup {"idle"}, ticket : 1..(MaxMoves + 1), from : People, to : People, listing : Listings]

TypeOK ==
    /\ seated \in BOOLEAN /\ contest \in BOOLEAN /\ crossed \in BOOLEAN /\ strayed \in BOOLEAN
    /\ Len(ticket) \in 1..(MaxMoves + 1)
    /\ \A t \in DOMAIN ticket : ticket[t] \in [status : {"active", "burned"}, owner : People, entered : BOOLEAN]
    /\ directory \in [ticket : DOMAIN ticket, owner : People, status : {"active", "refunded"}]
    /\ disputed \subseteq DOMAIN ticket
    /\ chain \in Seq([ticket : DOMAIN ticket, from : People, to : People])
    /\ listing \in [Listings -> [status : {"none", "active", "reserved", "sold", "cancelled"},
                                 ticket : DOMAIN ticket, buyer : People,
                                 order : {"none", "pending", "charged", "paid"}]]
    /\ refund \in [status : {"none", "pending", "succeeded"}, ticket : DOMAIN ticket]
    /\ mover \in [Movers -> Move]
    /\ moves \in 0..MaxMoves

\* writeTicketDirectory: the row of a ticket in "my tickets".
NewRow(t, owner) == [ticket |-> t, owner |-> owner, status |-> "active"]

Init ==
    /\ seated \in BOOLEAN
    /\ ticket = <<[status |-> "active", owner |-> Buyer, entered |-> FALSE]>>
    /\ directory = NewRow(1, Buyer)
    /\ disputed = {} /\ contest = TRUE /\ chain = <<>>
    /\ listing = [l \in Listings |-> [status |-> "none", ticket |-> 1, buyer |-> Buyer, order |-> "none"]]
    /\ refund = [status |-> "none", ticket |-> 1]
    /\ mover = [m \in Movers |-> Idle]
    /\ moves = 0 /\ crossed = FALSE /\ strayed = FALSE

Active(t) == ticket[t].status = "active"
Transferable(t) == Active(t) /\ ~contest /\ t \notin disputed
OwnsTicket(t) == directory.ticket = t /\ directory.status = "active"
Live(l) == listing[l].status \in {"active", "reserved"}

(***************************************************************************)
(* A mover looks: ownership and entry, then the ticket itself.             *)
(***************************************************************************)
\* The buyer gives the ticket away, or has it reissued.
BuyerGives(t) == OwnsTicket(t) /\ Transferable(t)
BuyerReissues(t) == OwnsTicket(t) /\ Active(t)

\* ensureNotCheckedIn, which an admin overrides.
NotEntered(t, override) == override \/ ~ticket[t].entered

\* The producer, or an admin, gives it to the holder of an e-mail or reissues it.
PanelGives(t, override) == NotEntered(t, override) /\ Transferable(t)
PanelReissues(t, override) == NotEntered(t, override) /\ Active(t)

\* The producer gives it to a wallet.
WalletGives(t) == Transferable(t)

\* It is put on sale, by its buyer or by the producer.
Listable(t) == Active(t) /\ ~contest
BuyerLists(t) == OwnsTicket(t) /\ Listable(t)
PanelLists(t) == Listable(t)

Allowed(kind, t) ==
    CASE kind = "gift"         -> BuyerGives(t)
      [] kind = "panelGift"    -> PanelGives(t, FALSE)
      [] kind = "adminGift"    -> PanelGives(t, TRUE)
      [] kind = "walletGift"   -> WalletGives(t)
      [] kind = "reissue"      -> BuyerReissues(t)
      [] kind = "panelReissue" -> PanelReissues(t, FALSE)
      [] kind = "adminReissue" -> PanelReissues(t, TRUE)
      [] kind = "list"         -> BuyerLists(t)
      [] kind = "panelList"    -> PanelLists(t)

Begin(m, move) ==
    /\ mover[m].kind = "idle" /\ moves < MaxMoves
    /\ mover' = [mover EXCEPT ![m] = move]
    /\ moves' = moves + 1
    /\ UNCHANGED <<seated, ticket, directory, disputed, contest, chain, listing, refund, crossed, strayed>>

Look(m, kind, t, to) ==
    /\ Allowed(kind, t)
    /\ (kind \in Gifts) = (to # ticket[t].owner)
    /\ Begin(m, [Idle EXCEPT !.kind = kind, !.ticket = t, !.from = ticket[t].owner, !.to = to])

\* The notice of a paid resale; the payment's row is locked until the commit.
LookResale(m, l) ==
    /\ listing[l].order = "charged"
    /\ listing[l].status = "reserved" => Transferable(listing[l].ticket)
    /\ \A q \in Movers : mover[q].kind = "resale" => mover[q].listing # l
    /\ Begin(m, [kind |-> "resale", ticket |-> listing[l].ticket, from |-> ticket[listing[l].ticket].owner,
                 to |-> listing[l].buyer, listing |-> l])

(***************************************************************************)
(* A mover writes.                                                         *)
(***************************************************************************)
Stale(v) == ~Active(v.ticket) \/ ticket[v.ticket].owner # v.from

\* UPDATE ticket_directory ... WHERE ticket_id
Renamed(v) == IF directory.ticket = v.ticket THEN [directory EXCEPT !.owner = v.to] ELSE directory
PointedMutant(v, t) == [directory EXCEPT !.ticket = t + 1]
Pointed(v, t) == IF directory.ticket = v.ticket THEN [directory EXCEPT !.ticket = t] ELSE directory

Done(m) ==
    /\ mover' = [mover EXCEPT ![m] = Idle]
    /\ crossed' = (crossed \/ Stale(mover[m]))
    /\ UNCHANGED <<seated, disputed, contest, refund, moves>>

\* transfer.Execute
ExecuteMutant(v) ==
    /\ ticket' = [ticket EXCEPT ![v.ticket].owner = v.to]
    /\ chain' = chain
Execute(v) ==
    /\ ticket' = [ticket EXCEPT ![v.ticket].owner = v.to]
    /\ chain' = Append(chain, [ticket |-> v.ticket, from |-> v.from, to |-> v.to])

CommitGift(m) ==
    /\ mover[m].kind \in Gifts
    /\ Execute(mover[m])
    /\ directory' = IF mover[m].kind = "walletGift" THEN directory ELSE Renamed(mover[m])
    /\ strayed' = (strayed \/ mover[m].kind = "walletGift")
    /\ UNCHANGED listing
    /\ Done(m)

\* The old ticket burned and a new one of the owner that was read.
BurnedMutant(v) == ticket
Burned(v) == [ticket EXCEPT ![v.ticket].status = "burned"]
Reissued(v) == Append(Burned(v), [status |-> "active", owner |-> v.from, entered |-> FALSE])

SeatTaken(v) == seated /\ \E t \in DOMAIN ticket \ {v.ticket} : Active(t)

CommitReissue(m) ==
    /\ mover[m].kind \in Reissues /\ ~SeatTaken(mover[m])
    /\ ticket' = Reissued(mover[m])
    /\ directory' = IF mover[m].kind = "reissue" THEN Pointed(mover[m], Len(ticket) + 1) ELSE directory
    /\ strayed' = (strayed \/ mover[m].kind # "reissue")
    /\ UNCHANGED <<chain, listing>>
    /\ Done(m)

\* tickets_active_seat_key, or listings_live_ticket_key: the whole transaction fails.
Refused(m) ==
    /\ \/ mover[m].kind \in Reissues /\ SeatTaken(mover[m])
       \/ mover[m].kind \in Lists /\ \E l \in Listings : Live(l) /\ listing[l].ticket = mover[m].ticket
    /\ mover' = [mover EXCEPT ![m] = Idle]
    /\ UNCHANGED <<seated, ticket, directory, disputed, contest, chain, listing, refund, moves, crossed, strayed>>

CreateListing(m, l) ==
    /\ mover[m].kind \in Lists /\ listing[l].status = "none"
    /\ \A k \in Listings : Live(k) => listing[k].ticket # mover[m].ticket
    /\ listing' = [listing EXCEPT ![l].status = "active", ![l].ticket = mover[m].ticket]
    /\ UNCHANGED <<ticket, directory, chain, strayed>>
    /\ Done(m)

Sold(l) == [listing EXCEPT ![l].status = "sold", ![l].order = "paid"]

NewHolderMutant(v) == directory
NewHolder(v) == Renamed(v)

ConfirmResale(m) ==
    /\ mover[m].kind = "resale"
    /\ IF listing[mover[m].listing].status = "reserved"
       THEN /\ Execute(mover[m])
            /\ listing' = Sold(mover[m].listing)
            /\ directory' = NewHolder(mover[m])
       ELSE /\ listing' = [listing EXCEPT ![mover[m].listing].order = "paid"]
            /\ UNCHANGED <<ticket, chain, directory>>
    /\ UNCHANGED strayed
    /\ Done(m)

(***************************************************************************)
(* The market, the refund and the gate, one transaction each.              *)
(***************************************************************************)
Withdrawn(l) == [listing EXCEPT ![l].status = "cancelled"]

CancelListingMutant(l) ==
    /\ Live(l)
    /\ listing' = Withdrawn(l)
    /\ UNCHANGED <<seated, ticket, directory, disputed, contest, chain, refund, mover, moves, crossed, strayed>>
CancelListing(l) ==
    /\ listing[l].status = "active"
    /\ listing' = Withdrawn(l)
    /\ UNCHANGED <<seated, ticket, directory, disputed, contest, chain, refund, mover, moves, crossed, strayed>>

\* Locks the listing and reserves it, for as long as the buyer likes.
Reserved(l, p) ==
    [listing EXCEPT ![l].status = "reserved", ![l].buyer = p, ![l].order = "pending"]

BuyListing(l, p) ==
    /\ listing[l].status = "active"
    /\ listing' = Reserved(l, p)
    /\ UNCHANGED <<seated, ticket, directory, disputed, contest, chain, refund, mover, moves, crossed, strayed>>

PayResale(l) ==
    /\ listing[l].order = "pending"
    /\ listing' = [listing EXCEPT ![l].order = "charged"]
    /\ UNCHANGED <<seated, ticket, directory, disputed, contest, chain, refund, mover, moves, crossed, strayed>>

PrepareRefund(t) ==
    /\ refund.status = "none" /\ Active(t) /\ ~ticket[t].entered
    /\ refund' = [status |-> "pending", ticket |-> t]
    /\ UNCHANGED <<seated, ticket, directory, disputed, contest, chain, listing, mover, moves, crossed, strayed>>

CompleteRefund ==
    /\ refund.status = "pending"
    /\ refund' = [refund EXCEPT !.status = "succeeded"]
    /\ ticket' = [ticket EXCEPT ![refund.ticket].status = "burned"]
    /\ directory' = IF directory.ticket = refund.ticket THEN [directory EXCEPT !.status = "refunded"] ELSE directory
    /\ UNCHANGED <<seated, disputed, contest, chain, listing, mover, moves, crossed, strayed>>

\* nft.OpenDispute: a second one is refused.
Contested(t) == t \notin disputed /\ disputed' = disputed \cup {t}

OpenDispute(t) ==
    /\ Contested(t)
    /\ UNCHANGED <<seated, ticket, directory, contest, chain, listing, refund, mover, moves, crossed, strayed>>

Enter(t) ==
    /\ Active(t) /\ ~ticket[t].entered
    /\ ticket' = [ticket EXCEPT ![t].entered = TRUE]
    /\ UNCHANGED <<seated, directory, disputed, contest, chain, listing, refund, mover, moves, crossed, strayed>>

WindowPasses ==
    /\ contest
    /\ contest' = FALSE
    /\ UNCHANGED <<seated, ticket, directory, disputed, chain, listing, refund, mover, moves, crossed, strayed>>

Next ==
    \/ \E m \in Movers :
          \/ \E kind \in Kinds \ {"resale"}, t \in DOMAIN ticket, to \in People : Look(m, kind, t, to)
          \/ \E l \in Listings : LookResale(m, l) \/ CreateListing(m, l)
          \/ CommitGift(m) \/ CommitReissue(m) \/ ConfirmResale(m) \/ Refused(m)
    \/ \E l \in Listings : CancelListing(l) \/ PayResale(l) \/ \E p \in People : BuyListing(l, p)
    \/ \E t \in DOMAIN ticket : PrepareRefund(t) \/ OpenDispute(t) \/ Enter(t)
    \/ CompleteRefund \/ WindowPasses

Spec == Init /\ [][Next]_vars

\* GetProvenance: the transfers of one ticket, by their place in the chain.
Provenance(t) == {i \in DOMAIN chain : chain[i].ticket = t}

\* Where a ticket comes from: the sale, or the ticket it replaces.
Origin(t) == IF t = 1 THEN Buyer ELSE ticket[t - 1].owner

\* Its provenance, as it stood after n transfers of the place, ends with p.
EndsWith(t, n, p) ==
    LET links == Provenance(t) \cap 1..n
    IN  \/ links = {} /\ p = Origin(t)
        \/ \E i \in links : chain[i].to = p /\ \A j \in links : j <= i

(***************************************************************************)
(* Properties.                                                             *)
(***************************************************************************)
\* A reissue burns what it replaces: never two valid codes for a numbered seat,
\* and none for standing room while no mover wrote over what changed under it.
OneValidPerPlace ==
    seated \/ ~crossed => Cardinality({t \in DOMAIN ticket : Active(t)}) <= 1

\* "My tickets" shows the valid ticket to its holder, whatever the order of
\* gifts, reissues, resales and the refund, but for the moves that skip it.
DirectoryFollowsOwner ==
    ~strayed /\ ~crossed /\ directory.status = "active" =>
        Active(directory.ticket) /\ ticket[directory.ticket].owner = directory.owner

\* The provenance the code shows, one ticket's: its last transfer is to the holder,
\* whatever crossed; and but for crossings it has no gap, from the sale, or from the
\* holder of the ticket it replaces, to the holder of it.
ChainOfTitle ==
    \A t \in DOMAIN ticket :
        /\ \A i \in Provenance(t) : (\A j \in Provenance(t) : j <= i) => chain[i].to = ticket[t].owner
        /\ ~crossed => /\ EndsWith(t, Len(chain), ticket[t].owner)
                       /\ \A i \in Provenance(t) : EndsWith(t, i - 1, chain[i].from)

\* Whoever paid a resale was made the holder of the ticket that was offered.
PaidGetsTheTicket ==
    \A l \in Listings : listing[l].order = "paid" =>
        /\ listing[l].status = "sold"
        /\ \E i \in Provenance(listing[l].ticket) : chain[i].to = listing[l].buyer

(***************************************************************************)
(* What the code's comments say and the model refutes.                     *)
(***************************************************************************)
\* "Sem isso haveria dois QR validos para o mesmo lugar."
OneCode == Cardinality({t \in DOMAIN ticket : Active(t)}) <= 1

\* "Reemitir cria um QR novo para quem ja usou o antigo."
AdmittedOnce == Cardinality({t \in DOMAIN ticket : ticket[t].entered}) <= 1

\* "A procedencia completa do ingresso": a reissued ticket has a new id, and the
\* transfers of the one it replaces are not shown with it.
CompleteProvenance == \A t \in DOMAIN ticket : Active(t) => Provenance(t) = DOMAIN chain

\* A refunded place has no valid ticket.
RefundedIsGone == refund.status = "succeeded" => \A t \in DOMAIN ticket : ~Active(t)
=============================================================================
