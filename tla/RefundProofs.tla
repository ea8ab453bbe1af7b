---------------------------- MODULE RefundProofs ----------------------------
(***************************************************************************)
(* Money back, for any orders, tickets, handlers, workers and faults.      *)
(*                                                                         *)
(* A pending refund is of active tickets of its order that no other refund *)
(* standing has, and it is run by one process at most.  While that process *)
(* has not heard from the gateway it has moved no money; once it has, the  *)
(* row is never dropped, and it stands unless the gateway's answer was     *)
(* lost.  A row whose effects are due is one whose money is back: the      *)
(* gateway gave it, or had given back all of the charge before.            *)
(***************************************************************************)
EXTENDS Refunds, Sums

-----------------------------------------------------------------------------
(* The invariant                                                           *)

\* A row of refunds, its amounts among V: the invariant does not look at them.
Shape(V) == [status : {"none", "pending", "confirmed", "failed"}, order : Orders \cup {NoOrder},
             tickets : SUBSET Tickets, face : V, fee : V, by : {"webhook", "api"}]
RefundShape == \E V : refund \in [RefundIds -> Shape(V)]

Typed ==
    /\ order \in [Orders -> {"pending", "paid", "partially_refunded", "refunded"}]
    /\ ticket \in [Tickets -> {"none", "active", "burned"}]
    /\ request \in [Orders -> RequestRow]
    /\ gateway \in [Orders -> SUBSET (RefundIds \cup {External})]
    /\ notice \subseteq Notice
    /\ run \in [Processes -> Run]
    /\ \A p \in Processes : run[p].at # "idle" => run[p].order \in Orders
    /\ todo \in [Workers -> SUBSET Orders]

\* The processes that have a refund of their own in hand.
Working == {"gateway", "busy", "release", "refused", "effects"}
HasRefund(p) == run[p].at \in Working

\* A refund is of tickets of its order, active as long as it is pending.
OfActive ==
    \A r \in RefundIds : refund[r].status # "none" =>
        /\ refund[r].order \in Orders
        /\ refund[r].tickets \subseteq TicketsOf(refund[r].order)
        /\ refund[r].status = "pending" =>
              /\ refund[r].tickets # {}
              /\ refund[r].tickets \subseteq Active(refund[r].order)

Apart ==
    \A r, q \in RefundIds :
        r # q /\ Standing(r) /\ Standing(q) => refund[r].tickets \cap refund[q].tickets = {}

\* Whose money the gateway gave back is on record.
OnRecord ==
    \A o \in Orders : \A r \in gateway[o] \ {External} :
        /\ refund[r].status # "none" /\ refund[r].order = o
        /\ "lost" \notin faults => Standing(r)

\* The refunds whose tickets' money is back, by them or by others.
Backed == {r \in RefundIds : \A t \in refund[r].tickets : Returned(t)}

\* The refund a process has in hand is pending and its own, and its money is back
\* when the process has been told so.
InHand ==
    /\ \A p \in Processes : HasRefund(p) =>
          /\ run[p].ref \in RefundIds
          /\ refund[run[p].ref].status = "pending" /\ refund[run[p].ref].order = run[p].order
          /\ run[p].at \in {"gateway", "busy", "release"} => run[p].ref \notin gateway[run[p].order]
          /\ run[p].at = "refused" /\ "lost" \notin faults => run[p].ref \notin gateway[run[p].order]
          /\ run[p].at = "effects" => run[p].ref \in Backed
    /\ \A p, q \in Processes : HasRefund(p) /\ HasRefund(q) /\ run[p].ref = run[q].ref => p = q

\* A pending refund is somebody's, or its money is back.
Answered ==
    faults \cap {"crash", "logged"} = {} =>
        \A r \in RefundIds : refund[r].status = "pending" =>
            \/ \E p \in Processes : HasRefund(p) /\ run[p].ref = r
            \/ r \in Backed

\* An order and its tickets tell the same story.
Agree(o) ==
    /\ order[o] = "pending" => \A t \in TicketsOf(o) : ticket[t] = "none"
    /\ order[o] = "paid" => \A t \in TicketsOf(o) : ticket[t] = "active"
    /\ order[o] = "partially_refunded" =>
          /\ \A t \in TicketsOf(o) : ticket[t] # "none"
          /\ \E t \in TicketsOf(o) : ticket[t] = "active"
          /\ \E t \in TicketsOf(o) : ticket[t] = "burned"
    /\ order[o] = "refunded" => \A t \in TicketsOf(o) : ticket[t] = "burned"

Valid == {t \in Tickets : ticket[t] = "active"}
Books == sold = Cardinality(Valid) /\ \A o \in Orders : Agree(o)

RefundInv == RefundShape /\ Typed /\ OfActive /\ Apart /\ OnRecord /\ InHand /\ Answered /\ Books

-----------------------------------------------------------------------------
(* Helpers                                                                 *)

LEMMA ExternalIsNoRow == External \notin RefundIds
BY RefundsAssumption DEF External, RefundIds

\* The parts of the invariant, for the steps that need one of them.
LEMMA Parts ==
  ASSUME RefundInv
  PROVE  RefundShape /\ Typed /\ OfActive /\ Apart /\ OnRecord /\ InHand /\ Answered /\ Books
BY DEF RefundInv

\* One row is written and the others stay.
LEMMA RowWritten ==
  ASSUME RefundShape, NEW r \in RefundIds, NEW W, NEW row \in Shape(W), refund' = [refund EXCEPT ![r] = row]
  PROVE  RefundShape' /\ refund'[r] = row /\ \A q \in RefundIds : q # r => refund'[q] = refund[q]
<1>1. PICK V : refund \in [RefundIds -> Shape(V)]
  BY DEF RefundShape
<1>2. \A q \in RefundIds : refund[q] \in Shape(V \cup W)
  BY <1>1 DEF Shape
<1>3. row \in Shape(V \cup W)
  BY DEF Shape
<1>4. refund' \in [RefundIds -> Shape(V \cup W)]
  <2> HIDE DEF Shape
  <2> QED BY <1>1, <1>2, <1>3
<1>5. refund'[r] = row /\ \A q \in RefundIds : q # r => refund'[q] = refund[q]
  BY <1>1
<1> QED BY <1>4, <1>5 DEF RefundShape

\* A row that only changes its status.
LEMMA StatusWritten ==
  ASSUME NEW W, NEW row \in Shape(W), NEW x \in {"none", "pending", "confirmed", "failed"}
  PROVE  /\ [row EXCEPT !.status = x] \in Shape(W)
         /\ [row EXCEPT !.status = x].status = x
         /\ [row EXCEPT !.status = x].order = row.order
         /\ [row EXCEPT !.status = x].tickets = row.tickets
BY DEF Shape

LEMMA NoRefundShape ==
  NoRefund \in Shape({0}) /\ NoRefund.status = "none"
BY DEF NoRefund, Shape

\* PrepareRefund: the row is of active tickets of the order that nobody has.
LEMMA PreparedRow ==
  ASSUME Typed, NEW o \in Orders, NEW asked \in SUBSET Tickets, NEW by \in {"webhook", "api"}, NEW override,
         MayPrepare(o, asked, override)
  PROVE  /\ \E W : Prepared(o, asked, by) \in Shape(W)
         /\ Prepared(o, asked, by).status = "pending" /\ Prepared(o, asked, by).order = o
         /\ Prepared(o, asked, by).tickets # {}
         /\ Prepared(o, asked, by).tickets \subseteq Active(o)
         /\ \A r \in RefundIds : Standing(r) => Prepared(o, asked, by).tickets \cap refund[r].tickets = {}
<1> DEFINE share == TicketFaces(Active(o), Price, Monus(Face[o], FaceRefunded(o)))
           lines == Lines(o, asked)
           face  == SumFunctionOnSet(share, lines)
           fee   == IF lines = Active(o) THEN Monus(Fee[o], FeeRefunded(o)) ELSE MulDiv(Fee[o], face, Face[o])
           row   == [status |-> "pending", order |-> o, tickets |-> lines, face |-> face, by |-> by, fee |-> fee]
<1>1. Prepared(o, asked, by) = row
  BY DEF Prepared
<1>2. lines # {} /\ lines \subseteq Active(o) /\ lines \cap Reserved = {}
  BY DEF MayPrepare
<1>3. lines \subseteq Tickets
  BY <1>2 DEF Active, TicketsOf
<1> HIDE DEF lines, face, fee
<1>4. row \in Shape({face, fee})
  BY <1>3 DEF Shape
<1>5. row.status = "pending" /\ row.order = o /\ row.tickets = lines
  OBVIOUS
<1>6. \A r \in RefundIds : Standing(r) => refund[r].tickets \subseteq Reserved
  BY DEF Reserved
<1> HIDE DEF row
<1> QED BY <1>1, <1>2, <1>4, <1>5, <1>6

LEMMA FreshIsVacant ==
  ASSUME \E r \in RefundIds : Vacant(r)
  PROVE  FreshRefund \in RefundIds /\ refund[FreshRefund].status = "none"
BY DEF FreshRefund, Vacant

\* Tickets leave the order's active ones only by being burned.
LEMMA ActiveType ==
  ASSUME NEW o
  PROVE  Active(o) = {t \in Tickets : OrderOf[t] = o /\ ticket[t] = "active"} /\ Active(o) \subseteq TicketsOf(o)
BY DEF Active, TicketsOf

LEMMA RunType ==
  ASSUME Typed, NEW p \in Processes
  PROVE  /\ run[p] \in Run
         /\ run[p].tickets \in SUBSET Tickets
         /\ run[p].at # "idle" => run[p].order \in Orders
BY DEF Typed, Run

-----------------------------------------------------------------------------
(* Steps that move no money, burn no ticket and write no refund            *)

\* Money given back stays back as long as the rows on record keep their tickets.
LEMMA BackedStays ==
  ASSUME \A o \in Orders : gateway[o] \subseteq gateway'[o],
         \A o \in Orders : \A q \in gateway[o] \ {External} : refund'[q].tickets = refund[q].tickets,
         NEW r \in Backed, refund[r].tickets \subseteq Tickets, refund'[r].tickets = refund[r].tickets
  PROVE  r \in Backed'
<1>1. r \in RefundIds /\ \A t \in refund[r].tickets : t \in Tickets /\ Returned(t)
  BY DEF Backed
<1>2. ASSUME NEW t \in Tickets, Returned(t) PROVE Returned(t)'
  <2>1. OrderOf[t] \in Orders
    BY RefundsAssumption
  <2> QED BY <1>2, <2>1 DEF Returned
<1> QED BY <1>1, <1>2 DEF Backed

\* How a process may go on with the refund it has in hand: to the effects only if
\* the money is back.
GoesOn(p, to) ==
    \/ to = run[p].at
    \/ run[p].at = "gateway" /\ to \in {"busy", "refused"}
    \/ run[p].at = "busy" /\ to = "release"
    \/ to = "effects" /\ run[p].ref \in Backed

LEMMA OthersKeep ==
  ASSUME RefundInv, Typed', UNCHANGED <<order, ticket, sold, refund, gateway, faults>>,
         \A p \in Processes : run'[p].at \in Working =>
             HasRefund(p) /\ run'[p].ref = run[p].ref /\ run'[p].order = run[p].order /\ GoesOn(p, run'[p].at),
         faults \cap {"crash", "logged"} = {} =>
             \A p \in Processes : HasRefund(p) => run'[p].at \in Working \/ run[p].ref \in Backed
  PROVE  RefundInv'
<1>0. Backed' = Backed
  BY DEF Backed, Returned
<1>1. RefundShape' /\ OfActive' /\ Apart' /\ OnRecord' /\ Books'
  BY Parts DEF RefundShape, OfActive, Apart, OnRecord, Books, Agree, Valid, Standing, Active
<1>2. InHand'
  <2>1. ASSUME NEW p \in Processes, run'[p].at \in Working
        PROVE  /\ run'[p].ref \in RefundIds
               /\ refund[run'[p].ref].status = "pending" /\ refund[run'[p].ref].order = run'[p].order
               /\ run'[p].at \in {"gateway", "busy", "release"} => run'[p].ref \notin gateway[run'[p].order]
               /\ run'[p].at = "refused" /\ "lost" \notin faults => run'[p].ref \notin gateway[run'[p].order]
               /\ run'[p].at = "effects" => run'[p].ref \in Backed
    BY <2>1, Parts DEF InHand, GoesOn, HasRefund
  <2>2. \A p, q \in Processes : run'[p].at \in Working /\ run'[q].at \in Working /\ run'[p].ref = run'[q].ref => p = q
    BY Parts DEF InHand
  <2> QED BY <1>0, <2>1, <2>2 DEF InHand, HasRefund
<1>3. Answered'
  <2> SUFFICES ASSUME faults \cap {"crash", "logged"} = {}, NEW r \in RefundIds, refund[r].status = "pending"
               PROVE  \/ \E p \in Processes : run'[p].at \in Working /\ run'[p].ref = r
                      \/ r \in Backed
    BY <1>0 DEF Answered, HasRefund
  <2>1. CASE r \in Backed
    BY <2>1
  <2>2. ASSUME NEW p \in Processes, HasRefund(p), run[p].ref = r
        PROVE  (run'[p].at \in Working /\ run'[p].ref = r) \/ r \in Backed
    BY <2>2, Parts DEF InHand
  <2> QED BY <2>1, <2>2, Parts DEF Answered
<1> QED BY <1>1, <1>2, <1>3 DEF RefundInv

\* What a process may be set to.
LEMMA RunWritten ==
  ASSUME Typed, NEW p \in Processes, NEW x \in Run, x.at # "idle" => x.order \in Orders, run' = [run EXCEPT ![p] = x]
  PROVE  /\ run' \in [Processes -> Run]
         /\ \A q \in Processes : run'[q].at # "idle" => run'[q].order \in Orders
         /\ run'[p] = x /\ \A q \in Processes : q # p => run'[q] = run[q]
BY DEF Typed

LEMMA GotoWrites ==
  ASSUME Typed, NEW p \in Processes, run[p].at # "idle",
         NEW where \in {"refusal", "gateway", "busy", "release", "refused", "effects", "finish", "retry"}, Goto(p, where)
  PROVE  /\ run' \in [Processes -> Run]
         /\ \A q \in Processes : run'[q].at # "idle" => run'[q].order \in Orders
         /\ run'[p].at = where /\ run'[p].ref = run[p].ref /\ run'[p].order = run[p].order
         /\ \A q \in Processes : q # p => run'[q] = run[q]
<1> DEFINE x == [run[p] EXCEPT !.at = where]
<1>1. run[p] \in Run /\ run[p].order \in Orders
  BY RunType
<1>2. x \in Run /\ x.at = where /\ x.ref = run[p].ref /\ x.order = run[p].order
  BY <1>1 DEF Run
<1>3. run' = [run EXCEPT ![p] = x]
  BY DEF Goto
<1> HIDE DEF x
<1> QED BY <1>1, <1>2, <1>3, RunWritten

LEMMA IdleType == Idle \in Run /\ Idle.at = "idle"
BY RefundsAssumption DEF Idle, Run

LEMMA ReturnWrites ==
  ASSUME Typed, NEW p \in Processes, run[p].at # "idle", NEW ok \in BOOLEAN, Return(p, ok)
  PROVE  /\ run' \in [Processes -> Run]
         /\ \A q \in Processes : run'[q].at # "idle" => run'[q].order \in Orders
         /\ run'[p].at \notin Working
         /\ \A q \in Processes : q # p => run'[q] = run[q]
<1>1. CASE p \in Workers
  <2> DEFINE where == IF ok THEN "finish" ELSE "retry"
  <2>1. Goto(p, where)
    BY <1>1 DEF Return
  <2>2. where \in {"refusal", "gateway", "busy", "release", "refused", "effects", "finish", "retry"} /\ where \notin Working
    BY DEF Working
  <2> HIDE DEF where
  <2> QED BY <2>1, <2>2, GotoWrites
<1>2. CASE p \notin Workers
  <2>1. run' = [run EXCEPT ![p] = Idle]
    BY <1>2 DEF Return
  <2> QED BY <2>1, IdleType, RunWritten DEF Working
<1> QED BY <1>1, <1>2

LEMMA StartWrites ==
  ASSUME Typed, NEW p \in Processes, NEW o \in Orders, NEW asked \in SUBSET Tickets, NEW override \in BOOLEAN,
         Start(p, o, asked, override)
  PROVE  /\ run' \in [Processes -> Run]
         /\ \A q \in Processes : run'[q].at # "idle" => run'[q].order \in Orders
         /\ run'[p].at \notin Working
         /\ \A q \in Processes : q # p => run'[q] = run[q]
<1> DEFINE x == [at |-> "reserve", order |-> o, tickets |-> asked, override |-> override, ref |-> 0]
<1>1. x \in Run /\ x.at = "reserve" /\ x.order \in Orders
  BY RefundsAssumption DEF Run
<1>2. run' = [run EXCEPT ![p] = x]
  BY DEF Start
<1> HIDE DEF x
<1> QED BY <1>1, <1>2, RunWritten DEF Working

LEMMA AskWrites ==
  ASSUME Typed, NEW o \in Orders, NEW asked \in SUBSET Tickets,
         NEW status \in {"pending", "approved", "rejected"}, Ask(o, asked, status)
  PROVE  request' \in [Orders -> RequestRow]
BY DEF Typed, Ask, RequestRow

LEMMA RequestMoves ==
  ASSUME Typed, NEW o \in Orders, NEW x \in {"processing", "completed", "failed"},
         request' = [request EXCEPT ![o].status = x]
  PROVE  request' \in [Orders -> RequestRow]
BY DEF Typed, RequestRow

\* No process moves.
LEMMA NobodyMoves ==
  ASSUME RefundInv, UNCHANGED <<order, ticket, sold, refund, gateway, run, faults>>,
         request' \in [Orders -> RequestRow], notice' \subseteq Notice, todo' \in [Workers -> SUBSET Orders]
  PROVE  RefundInv'
<1>1. Typed'
  BY Parts DEF Typed
<1>2. \A p \in Processes : run'[p].at \in Working =>
          HasRefund(p) /\ run'[p].ref = run[p].ref /\ run'[p].order = run[p].order /\ GoesOn(p, run'[p].at)
  BY DEF HasRefund, GoesOn
<1>3. \A p \in Processes : HasRefund(p) => run'[p].at \in Working \/ run[p].ref \in Backed
  BY DEF HasRefund
<1> QED BY <1>1, <1>2, <1>3, OthersKeep

\* One process moves, and has no refund in hand afterwards.
LEMMA OneLetsGo ==
  ASSUME RefundInv, NEW p \in Processes, UNCHANGED <<order, ticket, sold, refund, gateway, faults>>,
         request' \in [Orders -> RequestRow], notice' \subseteq Notice, todo' \in [Workers -> SUBSET Orders],
         run' \in [Processes -> Run],
         \A q \in Processes : run'[q].at # "idle" => run'[q].order \in Orders,
         run'[p].at \notin Working,
         \A q \in Processes : q # p => run'[q] = run[q],
         HasRefund(p) => faults \cap {"crash", "logged"} # {} \/ run[p].ref \in Backed
  PROVE  RefundInv'
<1>1. Typed'
  BY Parts DEF Typed
<1>2. \A q \in Processes : run'[q].at \in Working =>
          HasRefund(q) /\ run'[q].ref = run[q].ref /\ run'[q].order = run[q].order /\ GoesOn(q, run'[q].at)
  BY DEF HasRefund, GoesOn
<1>3. faults \cap {"crash", "logged"} = {} =>
          \A q \in Processes : HasRefund(q) => run'[q].at \in Working \/ run[q].ref \in Backed
  BY DEF HasRefund
<1> QED BY <1>1, <1>2, <1>3, OthersKeep

\* One process moves on with what it has in hand.
LEMMA OneGoesOn ==
  ASSUME RefundInv, NEW p \in Processes, UNCHANGED <<order, ticket, sold, refund, gateway, notice, todo, faults>>,
         request' \in [Orders -> RequestRow],
         NEW where \in {"busy", "release", "refused", "effects"}, Goto(p, where), GoesOn(p, where), HasRefund(p)
  PROVE  RefundInv'
<1>1. run[p].at # "idle"
  BY DEF HasRefund, Working
<1>2. /\ run' \in [Processes -> Run]
      /\ \A q \in Processes : run'[q].at # "idle" => run'[q].order \in Orders
      /\ run'[p].at = where /\ run'[p].ref = run[p].ref /\ run'[p].order = run[p].order
      /\ \A q \in Processes : q # p => run'[q] = run[q]
  BY <1>1, Parts, GotoWrites
<1>3. Typed'
  BY <1>2, Parts DEF Typed
<1>4. \A q \in Processes : run'[q].at \in Working =>
          HasRefund(q) /\ run'[q].ref = run[q].ref /\ run'[q].order = run[q].order /\ GoesOn(q, run'[q].at)
  BY <1>2 DEF HasRefund, GoesOn
<1>5. \A q \in Processes : HasRefund(q) => run'[q].at \in Working
  BY <1>2 DEF HasRefund, Working
<1> QED BY <1>3, <1>4, <1>5, OthersKeep

LEMMA Unchanging ==
  ASSUME RefundInv
  PROVE  request \in [Orders -> RequestRow] /\ notice \subseteq Notice /\ todo \in [Workers -> SUBSET Orders]
BY Parts DEF Typed

LEMMA AskRefundKeeps ==
  ASSUME RefundInv, UNCHANGED faults, NEW h \in Handlers, NEW o \in Orders, NEW asked \in Choices,
         NEW override \in BOOLEAN, AskRefund(h, o, asked, override)
  PROVE  RefundInv'
<1>1. h \in Processes /\ asked \in SUBSET Tickets /\ {} \in SUBSET Tickets
  BY RefundsAssumption DEF Processes
<1>2. Typed /\ Ask(o, {}, "approved") /\ Start(h, o, asked, override)
  BY Parts DEF AskRefund
<1>3. request' \in [Orders -> RequestRow]
  BY <1>1, <1>2, AskWrites
<1>4. /\ run' \in [Processes -> Run]
      /\ \A q \in Processes : run'[q].at # "idle" => run'[q].order \in Orders
      /\ run'[h].at \notin Working
      /\ \A q \in Processes : q # h => run'[q] = run[q]
  BY <1>1, <1>2, StartWrites
<1>5. ~HasRefund(h) /\ UNCHANGED <<order, ticket, sold, refund, gateway, notice, todo>>
  BY DEF AskRefund, HasRefund, Working
<1> QED BY <1>1, <1>3, <1>4, <1>5, Unchanging, OneLetsGo

LEMMA ApproveKeeps ==
  ASSUME RefundInv, UNCHANGED faults, NEW h \in Handlers, NEW o \in Orders, Approve(h, o)
  PROVE  RefundInv'
<1>1. h \in Processes /\ request[o].asked \in SUBSET Tickets /\ {} \in SUBSET Tickets
  BY Unchanging DEF Processes, RequestRow
<1>2. Typed /\ Ask(o, {}, "approved") /\ Start(h, o, request[o].asked, FALSE)
  BY Parts DEF Approve
<1>3. request' \in [Orders -> RequestRow]
  BY <1>1, <1>2, AskWrites
<1>4. /\ run' \in [Processes -> Run]
      /\ \A q \in Processes : run'[q].at # "idle" => run'[q].order \in Orders
      /\ run'[h].at \notin Working
      /\ \A q \in Processes : q # h => run'[q] = run[q]
  BY <1>1, <1>2, StartWrites
<1>5. ~HasRefund(h) /\ UNCHANGED <<order, ticket, sold, refund, gateway, notice, todo>>
  BY DEF Approve, HasRefund, Working
<1> QED BY <1>1, <1>3, <1>4, <1>5, Unchanging, OneLetsGo

\* Favours asked and denied, jobs enqueued and opened again, people let in.
LEMMA PeopleAlsoKeep ==
  ASSUME RefundInv, UNCHANGED faults,
         \/ \E o \in Orders : \/ \E asked \in Choices : AskFavour(o, asked)
                              \/ Reject(o) \/ ReopenCancelJob(o)
         \/ \E t \in Goers : Checkin(t)
         \/ CancelEvent
  PROVE  RefundInv'
<1>1. UNCHANGED <<order, ticket, sold, refund, gateway, notice, run, todo>>
  BY DEF AskFavour, Reject, ReopenCancelJob, Checkin, CancelEvent
<1>2. request' \in [Orders -> RequestRow]
  <2>1. ASSUME NEW o \in Orders, NEW asked \in Choices, AskFavour(o, asked) PROVE request' \in [Orders -> RequestRow]
    <3>1. asked \in SUBSET Tickets /\ Ask(o, asked, "pending") /\ Typed
      BY <2>1, RefundsAssumption, Parts DEF AskFavour
    <3> QED BY <3>1, AskWrites
  <2>2. ASSUME NEW o \in Orders, Reject(o) PROVE request' \in [Orders -> RequestRow]
    <3>1. {} \in SUBSET Tickets /\ Ask(o, {}, "rejected") /\ Typed
      BY <2>2, Parts DEF Reject
    <3> QED BY <3>1, AskWrites
  <2> QED BY <2>1, <2>2, Unchanging DEF ReopenCancelJob, Checkin, CancelEvent
<1> QED BY <1>1, <1>2, Unchanging, NobodyMoves

LEMMA WorkersKeep ==
  ASSUME RefundInv, UNCHANGED faults, NEW w \in Workers, WorkerStep(w)
  PROVE  RefundInv'
<1>1. w \in Processes
  BY DEF Processes
<1>2. ASSUME NEW due \in SUBSET Orders, ClaimJobs(w, due) PROVE RefundInv'
  <2>1. todo' \in [Workers -> SUBSET Orders]
    BY <1>2, Unchanging DEF ClaimJobs
  <2>2. UNCHANGED <<order, ticket, sold, refund, gateway, run, request, notice>>
    BY <1>2 DEF ClaimJobs
  <2> QED BY <2>1, <2>2, Unchanging, NobodyMoves
<1>3. ASSUME NEW o \in Orders, BeginJob(w, o) PROVE RefundInv'
  <2>1. UNCHANGED <<order, ticket, sold, refund, gateway, notice>> /\ ~HasRefund(w)
    BY <1>3 DEF BeginJob, HasRefund, Working
  <2>2. todo' \in [Workers -> SUBSET Orders]
    BY <1>3, Unchanging DEF BeginJob
  <2>3. CASE MayAsk(o)
    <3>1. Typed /\ Ask(o, {}, "approved") /\ Start(w, o, {}, TRUE) /\ {} \in SUBSET Tickets /\ TRUE \in BOOLEAN
      BY <1>3, <2>3, Parts DEF BeginJob
    <3>2. request' \in [Orders -> RequestRow]
      BY <3>1, AskWrites
    <3>3. /\ run' \in [Processes -> Run]
          /\ \A q \in Processes : run'[q].at # "idle" => run'[q].order \in Orders
          /\ run'[w].at \notin Working
          /\ \A q \in Processes : q # w => run'[q] = run[q]
      BY <1>1, <3>1, StartWrites
    <3> QED BY <1>1, <2>1, <2>2, <3>2, <3>3, Unchanging, OneLetsGo
  <2>4. CASE ~MayAsk(o)
    <3> DEFINE x == [Idle EXCEPT !.at = "finish", !.order = o]
    <3>1. x \in Run /\ x.at = "finish" /\ x.order \in Orders
      BY IdleType DEF Run
    <3>2. run' = [run EXCEPT ![w] = x] /\ UNCHANGED request
      BY <1>3, <2>4 DEF BeginJob
    <3> HIDE DEF x
    <3>3. /\ run' \in [Processes -> Run]
          /\ \A q \in Processes : run'[q].at # "idle" => run'[q].order \in Orders
          /\ run'[w].at \notin Working
          /\ \A q \in Processes : q # w => run'[q] = run[q]
      BY <1>1, <3>1, <3>2, Parts, RunWritten DEF Working
    <3> QED BY <1>1, <2>1, <2>2, <3>2, <3>3, Unchanging, OneLetsGo
  <2> QED BY <2>3, <2>4
<1>4. CASE FinishCancelJob(w) \/ RetryCancelJob(w) \/ LoseCancelJob(w)
  <2>1. UNCHANGED <<order, ticket, sold, refund, gateway, request, notice, todo>> /\ ~HasRefund(w)
    BY <1>4 DEF FinishCancelJob, RetryCancelJob, LoseCancelJob, CloseJob, HasRefund, Working
  <2>2. run' = [run EXCEPT ![w] = Idle]
    BY <1>4 DEF FinishCancelJob, RetryCancelJob, LoseCancelJob, CloseJob
  <2>3. /\ run' \in [Processes -> Run]
        /\ \A q \in Processes : run'[q].at # "idle" => run'[q].order \in Orders
        /\ run'[w].at \notin Working
        /\ \A q \in Processes : q # w => run'[q] = run[q]
    BY <1>1, <2>2, Parts, IdleType, RunWritten DEF Working
  <2> QED BY <1>1, <2>1, <2>3, Unchanging, OneLetsGo
<1> QED BY <1>2, <1>3, <1>4 DEF WorkerStep

\* A crash drops the refund in hand, and is why it may be left pending.
LEMMA CrashKeeps ==
  ASSUME RefundInv, UNCHANGED faults, NEW p \in Processes, Crash(p)
  PROVE  RefundInv'
<1>1. UNCHANGED <<order, ticket, sold, refund, gateway, request, notice>> /\ "crash" \in faults
  BY DEF Crash
<1>2. run' = [run EXCEPT ![p] = Idle]
  BY DEF Crash
<1>3. todo' \in [Workers -> SUBSET Orders]
  BY Unchanging DEF Crash
<1>4. /\ run' \in [Processes -> Run]
      /\ \A q \in Processes : run'[q].at # "idle" => run'[q].order \in Orders
      /\ run'[p].at \notin Working
      /\ \A q \in Processes : q # p => run'[q] = run[q]
  BY <1>2, Parts, IdleType, RunWritten DEF Working
<1> QED BY <1>1, <1>3, <1>4, Unchanging, OneLetsGo

LEMMA IgnoreNoticeKeeps ==
  ASSUME RefundInv, UNCHANGED faults, NEW n \in notice, IgnoreNotice(n)
  PROVE  RefundInv'
<1>1. UNCHANGED <<order, ticket, sold, refund, gateway, run, request, todo>> /\ notice' \subseteq Notice
  BY Unchanging DEF IgnoreNotice
<1> QED BY <1>1, Unchanging, NobodyMoves

\* An attempt that is refused, declined, answered with what was done before, whose
\* effects fail, or that is given up in vain.
LEMMA AttemptsKeep ==
  ASSUME RefundInv, UNCHANGED faults, NEW p \in Processes,
         \/ FailRequest(p) \/ EffectsFail(p) \/ GiveUpRequest(p)
         \/ GatewayHasRefunded(p) \/ GiveUpFails(p)
         \/ \E where \in {"busy", "refused"} : GatewayDeclines(p, where)
         \/ Reserve(p) /\ UNCHANGED refund /\ Goto(p, "refusal") /\ UNCHANGED request
  PROVE  RefundInv'
<1>1. Typed /\ run[p].order \in Orders /\ run[p].at # "idle"
  BY Parts, RunType DEF FailRequest, EffectsFail, GiveUpRequest, GatewayHasRefunded, GiveUpFails, GatewayDeclines, Reserve
<1>2. CASE FailRequest(p)
  <2>1. /\ UNCHANGED <<order, ticket, sold, refund, gateway, notice, todo>> /\ ~HasRefund(p)
        /\ Return(p, FALSE) /\ FALSE \in BOOLEAN
        /\ request' = [request EXCEPT ![run[p].order].status = "failed"]
    BY <1>2 DEF FailRequest, HasRefund, Working
  <2>2. request' \in [Orders -> RequestRow]
    BY <1>1, <2>1, RequestMoves
  <2>3. /\ run' \in [Processes -> Run]
        /\ \A q \in Processes : run'[q].at # "idle" => run'[q].order \in Orders
        /\ run'[p].at \notin Working
        /\ \A q \in Processes : q # p => run'[q] = run[q]
    BY <1>1, <2>1, ReturnWrites
  <2> QED BY <2>1, <2>2, <2>3, Unchanging, OneLetsGo
<1>3. CASE EffectsFail(p) \/ (Reserve(p) /\ UNCHANGED refund /\ Goto(p, "refusal") /\ UNCHANGED request)
  <2>1. UNCHANGED <<order, ticket, sold, refund, gateway, request, notice, todo>> /\ Goto(p, "refusal")
    BY <1>3 DEF EffectsFail, Reserve
  <2>2. /\ run' \in [Processes -> Run]
        /\ \A q \in Processes : run'[q].at # "idle" => run'[q].order \in Orders
        /\ run'[p].at \notin Working
        /\ \A q \in Processes : q # p => run'[q] = run[q]
    BY <1>1, <2>1, GotoWrites DEF Working
  <2>3. HasRefund(p) => run[p].ref \in Backed
    BY <1>3, Parts DEF EffectsFail, Reserve, InHand, HasRefund, Working
  <2> QED BY <2>1, <2>2, <2>3, Unchanging, OneLetsGo
<1>4. CASE GiveUpRequest(p)
  <2>1. /\ UNCHANGED <<order, ticket, sold, refund, gateway, notice, todo>>
        /\ Goto(p, "release") /\ HasRefund(p) /\ GoesOn(p, "release")
        /\ request' = [request EXCEPT ![run[p].order].status = "failed"]
    BY <1>4 DEF GiveUpRequest, HasRefund, Working, GoesOn
  <2>2. request' \in [Orders -> RequestRow]
    BY <1>1, <2>1, RequestMoves
  <2> QED BY <2>1, <2>2, OneGoesOn
<1>5. ASSUME NEW where \in {"busy", "refused"}, GatewayDeclines(p, where) PROVE RefundInv'
  <2>1. /\ UNCHANGED <<order, ticket, sold, refund, gateway, notice, todo, request>>
        /\ Goto(p, where) /\ HasRefund(p) /\ GoesOn(p, where)
    BY <1>5 DEF GatewayDeclines, HasRefund, Working, GoesOn
  <2> QED BY <2>1, Unchanging, OneGoesOn
<1>6. CASE GatewayHasRefunded(p)
  <2>1. /\ UNCHANGED <<order, ticket, sold, refund, gateway, notice, todo, request>>
        /\ run[p].at = "gateway" /\ Goto(p, "effects") /\ HasRefund(p)
        /\ \A t \in TicketsOf(run[p].order) : Returned(t)
    BY <1>6 DEF GatewayHasRefunded, HasRefund, Working
  <2>2. run[p].ref \in RefundIds /\ refund[run[p].ref].status = "pending" /\ refund[run[p].ref].order = run[p].order
    BY <2>1, Parts DEF InHand
  <2>3. refund[run[p].ref].tickets \subseteq TicketsOf(run[p].order)
    BY <2>2, Parts DEF OfActive
  <2>4. run[p].ref \in Backed
    BY <2>1, <2>2, <2>3 DEF Backed
  <2>5. GoesOn(p, "effects")
    BY <2>4 DEF GoesOn
  <2> QED BY <2>1, <2>5, Unchanging, OneGoesOn
<1>7. CASE GiveUpFails(p)
  <2>1. UNCHANGED <<order, ticket, sold, refund, gateway, notice, todo, request>> /\ "logged" \in faults
    BY <1>7 DEF GiveUpFails
  <2>2. CASE run[p].at = "busy" /\ Goto(p, "release")
    <3>1. HasRefund(p) /\ GoesOn(p, "release")
      BY <2>2 DEF HasRefund, Working, GoesOn
    <3> QED BY <2>1, <2>2, <3>1, Unchanging, OneGoesOn
  <2>3. CASE Return(p, FALSE)
    <3>1. /\ run' \in [Processes -> Run]
          /\ \A q \in Processes : run'[q].at # "idle" => run'[q].order \in Orders
          /\ run'[p].at \notin Working
          /\ \A q \in Processes : q # p => run'[q] = run[q]
      BY <1>1, <2>3, ReturnWrites
    <3> QED BY <2>1, <3>1, Unchanging, OneLetsGo
  <2> QED BY <1>7, <2>2, <2>3 DEF GiveUpFails
<1> QED BY <1>2, <1>3, <1>4, <1>5, <1>6, <1>7

-----------------------------------------------------------------------------
(* Steps that write a refund or move money                                 *)

\* A fresh row, of tickets nobody has, run by the process that wrote it.
LEMMA ReserveKeeps ==
  ASSUME RefundInv, UNCHANGED faults, NEW p \in Processes, Reserve(p)
  PROVE  RefundInv'
<1> DEFINE o == run[p].order
           x == [run[p] EXCEPT !.at = "gateway", !.ref = FreshRefund]
           row == Prepared(o, run[p].tickets, "api")
<1>1. CASE ~(request[o].status = "approved" /\ MayPrepare(o, run[p].tickets, run[p].override))
  BY <1>1, AttemptsKeep DEF Reserve
<1>2. CASE request[o].status = "approved" /\ MayPrepare(o, run[p].tickets, run[p].override)
  <2>1. /\ \E r \in RefundIds : Vacant(r)
        /\ request' = [request EXCEPT ![o].status = "processing"]
        /\ refund' = [refund EXCEPT ![FreshRefund] = row]
        /\ run' = [run EXCEPT ![p].at = "gateway", ![p].ref = FreshRefund]
        /\ UNCHANGED <<order, ticket, sold, gateway, notice, todo, faults>>
    BY <1>2 DEF Reserve
  <2>2. FreshRefund \in RefundIds /\ refund[FreshRefund].status = "none"
    BY <2>1, FreshIsVacant
  <2>3. run[p] \in Run /\ o \in Orders /\ run[p].tickets \in SUBSET Tickets /\ ~HasRefund(p)
    BY Parts, RunType DEF Reserve, HasRefund, Working
  <2>4. /\ \E W : row \in Shape(W)
        /\ row.status = "pending" /\ row.order = o /\ row.tickets # {} /\ row.tickets \subseteq Active(o)
        /\ \A r \in RefundIds : Standing(r) => row.tickets \cap refund[r].tickets = {}
    BY <1>2, <2>3, Parts, PreparedRow
  <2> HIDE DEF row
  <2>5. RefundShape' /\ refund'[FreshRefund] = row /\ \A q \in RefundIds : q # FreshRefund => refund'[q] = refund[q]
    BY <2>1, <2>2, <2>4, Parts, RowWritten
  <2>6. x \in Run /\ x.at = "gateway" /\ x.ref = FreshRefund /\ x.order = o
    <3>1. FreshRefund \in 0..MaxRefunds
      BY <2>2, RefundsAssumption DEF RefundIds
    <3> QED BY <3>1, <2>3 DEF Run
  <2>7. run' = [run EXCEPT ![p] = x]
    BY <2>1
  <2> HIDE DEF x
  <2>8. /\ run' \in [Processes -> Run]
        /\ \A q \in Processes : run'[q].at # "idle" => run'[q].order \in Orders
        /\ run'[p] = x /\ \A q \in Processes : q # p => run'[q] = run[q]
    BY <2>3, <2>6, <2>7, Parts, RunWritten
  <2>9. Typed'
    <3>1. request' \in [Orders -> RequestRow]
      BY <2>1, <2>3, Parts, RequestMoves
    <3> QED BY <3>1, <2>1, <2>8, Parts DEF Typed
  <2> HIDE DEF o
  <2>10. OfActive'
    <3>1. \A t : Active(t) \subseteq TicketsOf(t)
      BY ActiveType
    <3> QED BY <3>1, <2>1, <2>3, <2>4, <2>5, Parts DEF OfActive, Active
  <2>11. Apart'
    <3>1. \A r, q \in RefundIds : r # q /\ Standing(r)' /\ Standing(q)' => refund'[r].tickets \cap refund'[q].tickets = {}
      <4> TAKE r, q \in RefundIds
      <4>1. CASE r = FreshRefund
        BY <4>1, <2>4, <2>5, Parts DEF Apart, Standing
      <4>2. CASE q = FreshRefund
        BY <4>2, <2>4, <2>5, Parts DEF Apart, Standing
      <4>3. CASE r # FreshRefund /\ q # FreshRefund
        BY <4>3, <2>5, Parts DEF Apart, Standing
      <4> QED BY <4>1, <4>2, <4>3
    <3> QED BY <3>1 DEF Apart
  <2>12. \A u \in Orders : FreshRefund \notin gateway[u]
    BY <2>2, Parts, ExternalIsNoRow DEF OnRecord
  <2>13. OnRecord'
    <3>1. \A u \in Orders : \A r \in gateway[u] \ {External} : r \in RefundIds /\ r # FreshRefund
      BY <2>12, Parts DEF Typed
    <3> QED BY <3>1, <2>1, <2>5, Parts DEF OnRecord, Standing
  <2>20. \A r \in Backed : r # FreshRefund /\ refund[r].status # "none" => r \in Backed'
    <3> SUFFICES ASSUME NEW r \in Backed, r # FreshRefund, refund[r].status # "none" PROVE r \in Backed'
      OBVIOUS
    <3>1. r \in RefundIds /\ refund'[r].tickets = refund[r].tickets
      BY <2>5 DEF Backed
    <3>2. refund[r].tickets \subseteq Tickets
      BY <3>1, Parts DEF OfActive, TicketsOf
    <3>3. \A u \in Orders : \A q \in gateway[u] \ {External} : refund'[q].tickets = refund[q].tickets
      BY <2>5, <2>12, Parts DEF Typed
    <3> QED BY <2>1, <3>1, <3>2, <3>3, BackedStays
  <2>14. InHand'
    <3>1. \A q \in Processes : q # p /\ HasRefund(q) => run[q].ref \in RefundIds /\ run[q].ref # FreshRefund
      BY <2>2, Parts DEF InHand
    <3>2. \A q \in Processes : run'[q].at \in Working =>
              /\ run'[q].ref \in RefundIds
              /\ refund'[run'[q].ref].status = "pending" /\ refund'[run'[q].ref].order = run'[q].order
              /\ run'[q].at \in {"gateway", "busy", "release"} => run'[q].ref \notin gateway[run'[q].order]
              /\ run'[q].at = "refused" /\ "lost" \notin faults => run'[q].ref \notin gateway[run'[q].order]
              /\ run'[q].at = "effects" => run'[q].ref \in Backed'
      <4> TAKE q \in Processes
      <4>1. CASE q = p
        BY <4>1, <2>2, <2>3, <2>4, <2>5, <2>6, <2>8, <2>12
      <4>2. CASE q # p
        BY <4>2, <3>1, <2>5, <2>8, <2>20, Parts DEF InHand, HasRefund
      <4> QED BY <4>1, <4>2
    <3>3. \A q, s \in Processes : run'[q].at \in Working /\ run'[s].at \in Working /\ run'[q].ref = run'[s].ref => q = s
      BY <3>1, <2>6, <2>8, Parts DEF InHand, HasRefund
    <3> QED BY <3>2, <3>3, <2>1 DEF InHand, HasRefund
  <2>15. Answered'
    <3> SUFFICES ASSUME faults \cap {"crash", "logged"} = {}, NEW r \in RefundIds, refund'[r].status = "pending"
                 PROVE  \/ \E q \in Processes : run'[q].at \in Working /\ run'[q].ref = r
                        \/ r \in Backed'
      BY <2>1 DEF Answered, HasRefund
    <3>1. CASE r = FreshRefund
      BY <3>1, <2>6, <2>8 DEF Working
    <3>2. CASE r # FreshRefund
      <4>1. \/ \E q \in Processes : HasRefund(q) /\ run[q].ref = r
            \/ r \in Backed /\ refund[r].status # "none"
        BY <3>2, <2>5, Parts DEF Answered
      <4>2. \A q \in Processes : HasRefund(q) => run'[q] = run[q]
        BY <2>3, <2>8
      <4> QED BY <4>1, <4>2, <2>5, <2>20, <3>2 DEF HasRefund
    <3> QED BY <3>1, <3>2
  <2>16. Books'
    BY <2>1, Parts DEF Books, Agree, Valid
  <2> QED BY <2>5, <2>9, <2>10, <2>11, <2>13, <2>14, <2>15, <2>16 DEF RefundInv
<1> QED BY <1>1, <1>2

\* The gateway gives the money of the refund in hand back.
LEMMA MoneyBackKeeps ==
  ASSUME RefundInv, UNCHANGED faults, NEW p \in Processes, GatewayRefunds(p) \/ GatewayAnswerLost(p)
  PROVE  RefundInv'
<1> DEFINE o == run[p].order
           r == run[p].ref
<1>1. PICK where \in {"effects", "refused"} : GiveMoneyBack(p, where) /\ (where = "refused" => "lost" \in faults)
  BY DEF GatewayRefunds, GatewayAnswerLost
<1>2. /\ run[p].at = "gateway" /\ Goto(p, where)
      /\ gateway' = [gateway EXCEPT ![o] = @ \cup {r}]
      /\ notice' = notice \cup {[order |-> o, keys |-> IF KeyedNotices THEN Keys(o) \cup {r} ELSE {}]}
      /\ UNCHANGED <<order, ticket, sold, refund, request, todo, faults>>
  BY <1>1 DEF GiveMoneyBack
<1>3. HasRefund(p) /\ o \in Orders
  BY <1>2, Parts, RunType DEF HasRefund, Working
<1>4. r \in RefundIds /\ refund[r].status = "pending" /\ refund[r].order = o /\ r \notin gateway[o]
  BY <1>2, <1>3, Parts DEF InHand
<1>5. /\ run' \in [Processes -> Run]
      /\ \A q \in Processes : run'[q].at # "idle" => run'[q].order \in Orders
      /\ run'[p].at = where /\ run'[p].ref = r /\ run'[p].order = o
      /\ \A q \in Processes : q # p => run'[q] = run[q]
  BY <1>1, <1>2, Parts, GotoWrites
<1> HIDE DEF o, r
<1>6. gateway[o] \in SUBSET (RefundIds \cup {External}) /\ gateway \in [Orders -> SUBSET (RefundIds \cup {External})]
  BY <1>3, Parts DEF Typed
<1>7. Typed'
  <2>1. Keys(o) \cup {r} \in SUBSET (RefundIds \cup {External})
    BY <1>4, <1>6 DEF Keys
  <2>2. notice' \subseteq Notice
    BY <1>2, <1>3, <2>1, Parts DEF Typed, Notice
  <2>3. gateway' \in [Orders -> SUBSET (RefundIds \cup {External})]
    BY <1>2, <1>4, <1>6
  <2> QED BY <2>2, <2>3, <1>2, <1>5, Parts DEF Typed
<1>8. /\ gateway'[o] = gateway[o] \cup {r}
      /\ \A u \in Orders : u # o => gateway'[u] = gateway[u]
  BY <1>2, <1>3, <1>6
<1>9. RefundShape' /\ OfActive' /\ Apart' /\ Books'
  BY <1>2, Parts DEF RefundShape, OfActive, Apart, Books, Agree, Valid, Standing, Active
<1>10. OnRecord'
  <2>1. \A u \in Orders : \A q \in gateway'[u] \ {External} :
            refund[q].status # "none" /\ refund[q].order = u /\ ("lost" \notin faults => Standing(q))
    BY <1>4, <1>8, Parts DEF OnRecord, Standing
  <2> QED BY <2>1, <1>2 DEF OnRecord, Standing
<1>13. \A q \in Backed : refund[q].status # "none" => q \in Backed'
  <2>1. \A u \in Orders : gateway[u] \subseteq gateway'[u]
    BY <1>8
  <2>2. \A q \in RefundIds : refund[q].status # "none" => refund[q].tickets \subseteq Tickets
    BY Parts DEF OfActive, TicketsOf
  <2>3. \A q \in Backed : q \in RefundIds
    BY DEF Backed
  <2> QED BY <1>2, <2>1, <2>2, <2>3, BackedStays
<1>14. r \in Backed'
  <2>1. \A t \in refund[r].tickets : t \in Tickets /\ OrderOf[t] = o
    BY <1>4, Parts DEF OfActive, TicketsOf
  <2>2. r \in gateway'[o] \ {External}
    BY <1>4, <1>8, ExternalIsNoRow
  <2>3. ASSUME NEW t \in refund[r].tickets PROVE Returned(t)'
    BY <1>2, <2>1, <2>2 DEF Returned
  <2> QED BY <1>2, <1>4, <2>3 DEF Backed
<1>11. InHand'
  <2>1. \A q \in Processes : q # p /\ HasRefund(q) => run[q].ref # r
    BY <1>3, Parts DEF InHand, r
  <2>2. \A q \in Processes : run'[q].at \in Working =>
            /\ run'[q].ref \in RefundIds
            /\ refund[run'[q].ref].status = "pending" /\ refund[run'[q].ref].order = run'[q].order
            /\ run'[q].at \in {"gateway", "busy", "release"} => run'[q].ref \notin gateway'[run'[q].order]
            /\ run'[q].at = "refused" /\ "lost" \notin faults => run'[q].ref \notin gateway'[run'[q].order]
            /\ run'[q].at = "effects" => run'[q].ref \in Backed'
    <3> TAKE q \in Processes
    <3>1. CASE q = p
      BY <3>1, <1>1, <1>4, <1>5, <1>8, <1>14
    <3>2. CASE q # p
      <4> SUFFICES ASSUME HasRefund(q)
                   PROVE /\ run[q].ref \in RefundIds
                         /\ refund[run[q].ref].status = "pending" /\ refund[run[q].ref].order = run[q].order
                         /\ run[q].at \in {"gateway", "busy", "release"} => run[q].ref \notin gateway'[run[q].order]
                         /\ run[q].at = "refused" /\ "lost" \notin faults => run[q].ref \notin gateway'[run[q].order]
                         /\ run[q].at = "effects" => run[q].ref \in Backed'
        BY <3>2, <1>5 DEF HasRefund
      <4>1. run[q].order \in Orders
        BY Parts, RunType DEF HasRefund, Working
      <4> QED BY <4>1, <3>2, <2>1, <1>8, <1>13, Parts DEF InHand
    <3> QED BY <3>1, <3>2
  <2>3. \A q, s \in Processes : run'[q].at \in Working /\ run'[s].at \in Working /\ run'[q].ref = run'[s].ref => q = s
    BY <2>1, <1>5, Parts DEF InHand, HasRefund
  <2> QED BY <2>2, <2>3, <1>2 DEF InHand, HasRefund
<1>12. Answered'
  <2> SUFFICES ASSUME faults \cap {"crash", "logged"} = {}, NEW q \in RefundIds, refund[q].status = "pending"
               PROVE  \/ \E s \in Processes : run'[s].at \in Working /\ run'[s].ref = q
                      \/ q \in Backed'
    BY <1>2 DEF Answered, HasRefund
  <2>2. CASE q \in Backed
    BY <2>2, <1>13
  <2>3. ASSUME NEW s \in Processes, HasRefund(s), run[s].ref = q
        PROVE  (run'[s].at \in Working /\ run'[s].ref = q)
    BY <2>3, <1>1, <1>5 DEF HasRefund, Working, r
  <2> QED BY <2>2, <2>3, Parts DEF Answered
<1> QED BY <1>7, <1>9, <1>10, <1>11, <1>12 DEF RefundInv

\* A chargeback or the gateway's panel: no row of ours moves.
LEMMA RefundOutsideKeeps ==
  ASSUME RefundInv, UNCHANGED faults, NEW o \in Orders, NEW described \in BOOLEAN, RefundOutside(o, described)
  PROVE  RefundInv'
<1>1. /\ gateway' = [gateway EXCEPT ![o] = @ \cup {External}]
      /\ notice' = notice \cup {[order |-> o, keys |-> Keys(o) \cup IF described THEN {External} ELSE {}]}
      /\ UNCHANGED <<order, ticket, sold, refund, request, run, todo, faults>>
  BY DEF RefundOutside
<1>2. gateway \in [Orders -> SUBSET (RefundIds \cup {External})]
  BY Parts DEF Typed
<1>3. \A u \in Orders : \A r \in RefundIds : r \in gateway'[u] <=> r \in gateway[u]
  BY <1>1, <1>2, ExternalIsNoRow
<1>4. \A u \in Orders : gateway'[u] \ {External} = gateway[u] \ {External} /\ gateway'[u] \subseteq RefundIds \cup {External}
  BY <1>1, <1>2
<1>5. Typed'
  <2>1. Keys(o) \in SUBSET (RefundIds \cup {External})
    BY <1>2 DEF Keys
  <2>2. notice' \subseteq Notice
    BY <1>1, <2>1, Parts DEF Typed, Notice
  <2>3. gateway' \in [Orders -> SUBSET (RefundIds \cup {External})]
    BY <1>1, <1>2
  <2> QED BY <2>2, <2>3, <1>1, Parts DEF Typed
<1>6. RefundShape' /\ OfActive' /\ Apart' /\ Books'
  BY <1>1, Parts DEF RefundShape, OfActive, Apart, Books, Agree, Valid, Standing, Active
<1>7. OnRecord'
  <2>1. \A u \in Orders : \A r \in gateway'[u] \ {External} :
            refund[r].status # "none" /\ refund[r].order = u /\ ("lost" \notin faults => Standing(r))
    BY <1>4, Parts DEF OnRecord
  <2> QED BY <2>1, <1>1 DEF OnRecord, Standing
<1>10. \A q \in Backed : refund[q].status # "none" => q \in Backed'
  <2>1. \A u \in Orders : gateway[u] \subseteq gateway'[u]
    BY <1>1, <1>2
  <2>2. \A q \in RefundIds : refund[q].status # "none" => refund[q].tickets \subseteq Tickets
    BY Parts DEF OfActive, TicketsOf
  <2>3. \A q \in Backed : q \in RefundIds
    BY DEF Backed
  <2> QED BY <1>1, <2>1, <2>2, <2>3, BackedStays
<1>8. InHand'
  <2>1. \A q \in Processes : HasRefund(q) => run[q].order \in Orders /\ run[q].ref \in RefundIds
    BY Parts, RunType DEF InHand, HasRefund, Working
  <2>2. \A q \in Processes : HasRefund(q) =>
            /\ refund[run[q].ref].status = "pending" /\ refund[run[q].ref].order = run[q].order
            /\ run[q].at \in {"gateway", "busy", "release"} => run[q].ref \notin gateway'[run[q].order]
            /\ run[q].at = "refused" /\ "lost" \notin faults => run[q].ref \notin gateway'[run[q].order]
            /\ run[q].at = "effects" => run[q].ref \in Backed'
    BY <2>1, <1>3, <1>10, Parts DEF InHand
  <2> QED BY <2>1, <2>2, <1>1, Parts DEF InHand, HasRefund
<1>9. Answered'
  BY <1>1, <1>10, Parts DEF Answered, HasRefund
<1> QED BY <1>5, <1>6, <1>7, <1>8, <1>9 DEF RefundInv

\* One process lets go of its refund, whose row is not pending any more.
LEMMA RefundLeavesHand ==
  ASSUME RefundInv, UNCHANGED <<gateway, faults>>, NEW p \in Processes, HasRefund(p),
         refund'[run[p].ref].status # "pending",
         \A q \in RefundIds : q # run[p].ref => refund'[q] = refund[q],
         \A o \in Orders : run[p].ref \in gateway[o] => refund'[run[p].ref].tickets = refund[run[p].ref].tickets,
         run'[p].at \notin Working, \A q \in Processes : q # p => run'[q] = run[q]
  PROVE  InHand' /\ Answered'
<1> DEFINE r == run[p].ref
<1>1. \A q \in Processes : q # p /\ HasRefund(q) => run[q].ref # r
  BY Parts DEF InHand
<1>4. \A q \in Backed : q # r /\ refund[q].status # "none" => q \in Backed'
  <2>1. \A o \in Orders : \A q \in gateway[o] \ {External} : refund'[q].tickets = refund[q].tickets
    BY Parts DEF Typed
  <2>2. \A q \in RefundIds : refund[q].status # "none" => refund[q].tickets \subseteq Tickets
    BY Parts DEF OfActive, TicketsOf
  <2>3. \A q \in Backed : q \in RefundIds
    BY DEF Backed
  <2> QED BY <2>1, <2>2, <2>3, BackedStays
<1>2. InHand'
  <2>1. \A q \in Processes : run'[q].at \in Working =>
            /\ run'[q].ref \in RefundIds
            /\ refund'[run'[q].ref].status = "pending" /\ refund'[run'[q].ref].order = run'[q].order
            /\ run'[q].at \in {"gateway", "busy", "release"} => run'[q].ref \notin gateway[run'[q].order]
            /\ run'[q].at = "refused" /\ "lost" \notin faults => run'[q].ref \notin gateway[run'[q].order]
            /\ run'[q].at = "effects" => run'[q].ref \in Backed'
    BY <1>1, <1>4, Parts DEF InHand, HasRefund
  <2>2. \A q, s \in Processes : run'[q].at \in Working /\ run'[s].at \in Working /\ run'[q].ref = run'[s].ref => q = s
    BY Parts DEF InHand, HasRefund
  <2> QED BY <2>1, <2>2 DEF InHand, HasRefund
<1>3. Answered'
  <2> SUFFICES ASSUME faults \cap {"crash", "logged"} = {}, NEW q \in RefundIds, refund'[q].status = "pending"
               PROVE  \/ \E s \in Processes : run'[s].at \in Working /\ run'[s].ref = q
                      \/ q \in Backed'
    BY DEF Answered, HasRefund
  <2>1. q # r /\ refund'[q] = refund[q]
    OBVIOUS
  <2> QED BY <2>1, <1>4, Parts DEF Answered, HasRefund
<1> QED BY <1>2, <1>3

\* FailRefund: the tickets are let go, and the row is kept if the gateway knows it.
LEMMA FailRefundKeeps ==
  ASSUME RefundInv, UNCHANGED <<order, ticket, sold, gateway, notice, todo, faults>>, NEW p \in Processes,
         run[p].at \in {"release", "refused"}, FailRefund(run[p].ref), Return(p, FALSE),
         request' \in [Orders -> RequestRow]
  PROVE  RefundInv'
<1> DEFINE r == run[p].ref
           row == IF r \in gateway[refund[r].order] THEN [refund[r] EXCEPT !.status = "failed"] ELSE NoRefund
<1>1. HasRefund(p) /\ run[p].at # "idle"
  BY DEF HasRefund, Working
<1>2. r \in RefundIds /\ refund[r].status = "pending" /\ refund[r].order = run[p].order /\ run[p].order \in Orders
  BY <1>1, Parts, RunType DEF InHand
<1>3. PICK V : refund \in [RefundIds -> Shape(V)]
  BY Parts DEF RefundShape
<1>4. refund[r] \in Shape(V) /\ refund[r] \in Shape(V \cup {0}) /\ NoRefund \in Shape(V \cup {0})
  BY <1>2, <1>3, NoRefundShape DEF Shape
<1>5. /\ row \in Shape(V \cup {0}) /\ row.status \in {"failed", "none"}
      /\ r \in gateway[refund[r].order] => row.status = "failed" /\ row.order = refund[r].order /\ row.tickets = refund[r].tickets
      /\ r \notin gateway[refund[r].order] => row.status = "none"
  <2> DEFINE old == refund[r]
             W == V \cup {0}
  <2>1. old \in Shape(W) /\ "failed" \in {"none", "pending", "confirmed", "failed"}
    BY <1>4
  <2>2. NoRefund \in Shape(W) /\ NoRefund.status = "none"
    BY <1>4, NoRefundShape
  <2>3. row = IF r \in gateway[old.order] THEN [old EXCEPT !.status = "failed"] ELSE NoRefund
    OBVIOUS
  <2> HIDE DEF old, W, row
  <2>4. /\ [old EXCEPT !.status = "failed"] \in Shape(W)
        /\ [old EXCEPT !.status = "failed"].status = "failed"
        /\ [old EXCEPT !.status = "failed"].order = old.order
        /\ [old EXCEPT !.status = "failed"].tickets = old.tickets
    BY <2>1, StatusWritten
  <2>5. /\ row \in Shape(W) /\ row.status \in {"failed", "none"}
        /\ r \in gateway[old.order] => row.status = "failed" /\ row.order = old.order /\ row.tickets = old.tickets
        /\ r \notin gateway[old.order] => row.status = "none"
    BY <2>2, <2>3, <2>4
  <2> QED BY <2>5 DEF old, W
<1>6. refund' = [refund EXCEPT ![r] = row]
  BY <1>3 DEF FailRefund
<1>7. /\ run' \in [Processes -> Run]
      /\ \A q \in Processes : run'[q].at # "idle" => run'[q].order \in Orders
      /\ run'[p].at \notin Working
      /\ \A q \in Processes : q # p => run'[q] = run[q]
  BY <1>1, Parts, ReturnWrites
<1> HIDE DEF row, r
<1>8. RefundShape' /\ refund'[r] = row /\ \A q \in RefundIds : q # r => refund'[q] = refund[q]
  BY <1>2, <1>5, <1>6, Parts, RowWritten
<1>9. Typed'
  BY <1>7, Parts DEF Typed
<1>10. OfActive'
  <2>1. \A q \in RefundIds : q # r => refund'[q] = refund[q]
    BY <1>8
  <2>2. row.status # "none" => row.order \in Orders /\ row.tickets \subseteq TicketsOf(row.order) /\ row.status # "pending"
    BY <1>2, <1>5, Parts DEF OfActive
  <2>3. \A q \in RefundIds : refund'[q].status # "none" =>
            /\ refund'[q].order \in Orders
            /\ refund'[q].tickets \subseteq TicketsOf(refund'[q].order)
            /\ refund'[q].status = "pending" =>
                  /\ refund'[q].tickets # {}
                  /\ refund'[q].tickets \subseteq Active(refund'[q].order)
    BY <2>1, <2>2, <1>5, <1>8, Parts DEF OfActive
  <2> QED BY <2>3 DEF OfActive, Active
<1>11. Apart'
  BY <1>5, <1>8, Parts DEF Apart, Standing
<1>12. OnRecord'
  <2>1. \A o \in Orders : \A q \in gateway[o] \ {External} :
            refund'[q].status # "none" /\ refund'[q].order = o /\ ("lost" \notin faults => refund'[q].status \in {"pending", "confirmed"})
    <3> TAKE o \in Orders
    <3> TAKE q \in gateway[o] \ {External}
    <3>1. q \in RefundIds
      BY Parts DEF Typed
    <3>2. CASE q # r
      BY <3>1, <3>2, <1>8, Parts DEF OnRecord, Standing
    <3>3. CASE q = r
      <4>1. r \in gateway[run[p].order] /\ o = run[p].order
        BY <3>3, <1>2, Parts DEF OnRecord
      <4>2. "lost" \in faults
        BY <4>1, <1>1, Parts DEF InHand, r
      <4> QED BY <4>1, <4>2, <3>3, <1>2, <1>5, <1>8
    <3> QED BY <3>2, <3>3
  <2> QED BY <2>1 DEF OnRecord, Standing
<1>13. InHand' /\ Answered'
  <2>1. \A o \in Orders : r \in gateway[o] => refund'[r].tickets = refund[r].tickets
    <3> SUFFICES ASSUME NEW o \in Orders, r \in gateway[o] PROVE refund'[r].tickets = refund[r].tickets
      OBVIOUS
    <3>1. refund[r].order = o
      BY <1>2, Parts, ExternalIsNoRow DEF OnRecord
    <3> QED BY <3>1, <1>5, <1>8
  <2> QED BY <2>1, <1>1, <1>5, <1>7, <1>8, RefundLeavesHand DEF r
<1>14. Books'
  BY Parts DEF Books, Agree, Valid
<1> QED BY <1>8, <1>9, <1>10, <1>11, <1>12, <1>13, <1>14 DEF RefundInv

LEMMA GiveUpKeeps ==
  ASSUME RefundInv, UNCHANGED faults, NEW p \in Processes, GiveUpRefund(p) \/ GiveUpBoth(p)
  PROVE  RefundInv'
<1>1. run[p].order \in Orders
  BY Parts, RunType DEF GiveUpRefund, GiveUpBoth
<1>2. CASE GiveUpRefund(p)
  BY <1>2, Unchanging, FailRefundKeeps DEF GiveUpRefund
<1>3. CASE GiveUpBoth(p)
  <2>1. request' \in [Orders -> RequestRow]
    BY <1>1, <1>3, Parts, RequestMoves DEF GiveUpBoth
  <2> QED BY <2>1, <1>3, FailRefundKeeps DEF GiveUpBoth
<1> QED BY <1>2, <1>3

-----------------------------------------------------------------------------
(* Steps that burn and issue tickets                                       *)

\* CompleteRefund of a row of active tickets: the lot counts them out, and the
\* order is refunded once none of its tickets is active.
LEMMA CompletionBooks ==
  ASSUME Typed, Books, NEW r, NEW row, CompleteRefund(r, row), row.order \in Orders,
         row.tickets # {}, row.tickets \subseteq Active(row.order)
  PROVE  /\ Books'
         /\ order' \in [Orders -> {"pending", "paid", "partially_refunded", "refunded"}]
         /\ ticket' \in [Tickets -> {"none", "active", "burned"}]
         /\ \A t \in Tickets : ticket'[t] = IF t \in row.tickets THEN "burned" ELSE ticket[t]
<1> DEFINE o == row.order
           S == row.tickets
           burned == {t \in S : ticket[t] = "active"}
<1>1. S # {} /\ o \in Orders /\ \A t \in S : t \in Tickets /\ OrderOf[t] = o /\ ticket[t] = "active"
  BY DEF Active, TicketsOf
<1>2. burned = S
  BY <1>1
<1>3. /\ sold' = Monus(sold, Cardinality(S))
      /\ ticket' = [t \in Tickets |-> IF t \in S THEN "burned" ELSE ticket[t]]
      /\ order' = [order EXCEPT ![o] = IF Active(o) \subseteq S THEN "refunded" ELSE "partially_refunded"]
  BY <1>2 DEF CompleteRefund
<1> HIDE DEF S, o, burned
<1>4. /\ order' \in [Orders -> {"pending", "paid", "partially_refunded", "refunded"}]
      /\ ticket' \in [Tickets -> {"none", "active", "burned"}]
      /\ \A t \in Tickets : ticket'[t] = IF t \in S THEN "burned" ELSE ticket[t]
  BY <1>3 DEF Typed
<1>5. sold' = Cardinality(Valid')
  <2>1. Valid \subseteq Tickets /\ S \subseteq Valid /\ Valid' = Valid \ S
    BY <1>1, <1>4 DEF Valid
  <2>2. IsFiniteSet(Valid) /\ IsFiniteSet(S)
    BY <2>1, RefundsAssumption, FS_Subset
  <2>3. Cardinality(Valid \ S) = Cardinality(Valid) - Cardinality(Valid \cap S)
    BY <2>2, FS_Difference
  <2>4. Valid \cap S = S
    BY <2>1
  <2>5. Cardinality(Valid) \in Nat /\ Cardinality(S) \in Nat /\ Cardinality(S) <= Cardinality(Valid)
    BY <2>1, <2>2, FS_CardinalityType, FS_Subset
  <2>6. sold = Cardinality(Valid)
    BY DEF Books
  <2>7. Monus(Cardinality(Valid), Cardinality(S)) = Cardinality(Valid) - Cardinality(S)
    BY <2>5 DEF Monus
  <2> QED BY <2>1, <2>3, <2>4, <2>6, <2>7, <1>3
<1>6. \A u \in Orders : Agree(u)'
  <2> TAKE u \in Orders
  <2>1. CASE u # o
    <3>1. order'[u] = order[u]
      BY <2>1, <1>3 DEF Typed
    <3>2. \A t \in TicketsOf(u) : t \in Tickets /\ ticket'[t] = ticket[t]
      BY <2>1, <1>1, <1>4 DEF TicketsOf
    <3> QED BY <3>1, <3>2 DEF Books, Agree
  <2>2. CASE u = o
    <3>1. order'[o] = IF Active(o) \subseteq S THEN "refunded" ELSE "partially_refunded"
      BY <1>1, <1>3 DEF Typed
    <3>2. \A t \in TicketsOf(o) : t \in Tickets /\ ticket[t] \in {"active", "burned"}
      <4>1. PICK t \in S : t \in TicketsOf(o) /\ ticket[t] = "active"
        BY <1>1 DEF TicketsOf
      <4>2. order[o] \in {"paid", "partially_refunded", "refunded"}
        BY <1>1, <4>1 DEF Books, Agree, Typed
      <4> QED BY <1>1, <4>2 DEF Books, Agree, Typed, TicketsOf
    <3>3. CASE Active(o) \subseteq S
      <4>1. \A t \in TicketsOf(o) : ticket'[t] = "burned"
        BY <3>2, <3>3, <1>4 DEF Active
      <4> QED BY <4>1, <3>1, <3>3, <2>2 DEF Agree
    <3>4. CASE ~(Active(o) \subseteq S)
      <4>1. PICK t \in Active(o) : t \notin S
        BY <3>4
      <4>2. t \in TicketsOf(o) /\ ticket'[t] = "active"
        BY <4>1, <3>2, <1>4 DEF Active
      <4>3. \E x \in TicketsOf(o) : ticket'[x] = "burned"
        BY <1>1, <1>4 DEF TicketsOf
      <4>4. \A x \in TicketsOf(o) : ticket'[x] # "none"
        BY <3>2, <1>4
      <4> QED BY <4>2, <4>3, <4>4, <3>1, <3>4, <2>2 DEF Agree
    <3> QED BY <3>3, <3>4
  <2> QED BY <2>1, <2>2
<1> QED BY <1>4, <1>5, <1>6 DEF Books, S

\* What burns tickets of one refund standing leaves the pending ones alone.
LEMMA OthersStayActive ==
  ASSUME OfActive, NEW r \in RefundIds, NEW row,
         \A q \in RefundIds : q # r => refund'[q] = refund[q],
         refund'[r].order \in Orders, refund'[r].tickets \subseteq TicketsOf(refund'[r].order),
         refund'[r].status = "confirmed",
         \A t \in Tickets : ticket'[t] = IF t \in row.tickets THEN "burned" ELSE ticket[t],
         \A q \in RefundIds : q # r /\ Standing(q) => row.tickets \cap refund[q].tickets = {}
  PROVE  OfActive'
<1> SUFFICES ASSUME NEW q \in RefundIds, refund'[q].status # "none"
             PROVE  /\ refund'[q].order \in Orders
                    /\ refund'[q].tickets \subseteq TicketsOf(refund'[q].order)
                    /\ refund'[q].status = "pending" =>
                          /\ refund'[q].tickets # {}
                          /\ \A t \in refund'[q].tickets : t \in TicketsOf(refund'[q].order) /\ ticket'[t] = "active"
  BY DEF OfActive, Active
<1>1. CASE q = r
  BY <1>1
<1>2. CASE q # r
  <2>1. refund'[q] = refund[q]
    BY <1>2
  <2>2. ASSUME refund[q].status = "pending"
        PROVE  refund[q].tickets # {} /\ \A t \in refund[q].tickets : t \in TicketsOf(refund[q].order) /\ ticket'[t] = "active"
    BY <2>2, <1>2 DEF OfActive, Standing, Active, TicketsOf
  <2> QED BY <2>1, <2>2 DEF OfActive
<1> QED BY <1>1, <1>2

LEMMA ApplyEffectsKeeps ==
  ASSUME RefundInv, UNCHANGED faults, NEW p \in Processes, ApplyEffects(p)
  PROVE  RefundInv'
<1> DEFINE r == run[p].ref
           row == refund[r]
           done == [row EXCEPT !.status = "confirmed"]
<1>1. HasRefund(p) /\ run[p].at = "effects"
  BY DEF ApplyEffects, HasRefund, Working
<1>2. r \in RefundIds /\ row.status = "pending" /\ row.order = run[p].order /\ run[p].order \in Orders
  BY <1>1, Parts, RunType DEF InHand
<1>3. /\ CompleteRefund(r, row) /\ Return(p, TRUE) /\ TRUE \in BOOLEAN
      /\ request' = [request EXCEPT ![run[p].order].status = "completed"]
      /\ UNCHANGED <<gateway, notice, todo, faults>>
  BY DEF ApplyEffects
<1>4. row.tickets # {} /\ row.tickets \subseteq Active(row.order) /\ row.tickets \subseteq TicketsOf(row.order)
  BY <1>2, Parts DEF OfActive
<1>5. /\ Books'
      /\ order' \in [Orders -> {"pending", "paid", "partially_refunded", "refunded"}]
      /\ ticket' \in [Tickets -> {"none", "active", "burned"}]
      /\ \A t \in Tickets : ticket'[t] = IF t \in row.tickets THEN "burned" ELSE ticket[t]
  <2> HIDE DEF row, r
  <2> QED BY <1>2, <1>3, <1>4, Parts, CompletionBooks
<1>6. PICK V : row \in Shape(V)
  BY <1>2, Parts DEF RefundShape
<1>7. refund' = [refund EXCEPT ![r] = done]
  BY <1>3 DEF CompleteRefund
<1> HIDE DEF row
<1>8. done \in Shape(V) /\ done.status = "confirmed" /\ done.order = row.order /\ done.tickets = row.tickets
  BY <1>6, StatusWritten
<1> HIDE DEF done, r
<1>9. RefundShape' /\ refund'[r] = done /\ \A q \in RefundIds : q # r => refund'[q] = refund[q]
  BY <1>2, <1>7, <1>8, Parts, RowWritten
<1>10. /\ run' \in [Processes -> Run]
       /\ \A q \in Processes : run'[q].at # "idle" => run'[q].order \in Orders
       /\ run'[p].at \notin Working
       /\ \A q \in Processes : q # p => run'[q] = run[q]
  BY <1>1, <1>3, Parts, ReturnWrites
<1>11. request' \in [Orders -> RequestRow]
  BY <1>2, <1>3, Parts, RequestMoves
<1>12. Typed'
  BY <1>3, <1>5, <1>10, <1>11, Parts DEF Typed
<1>13. OfActive'
  <2>1. \A q \in RefundIds : q # r /\ Standing(q) => row.tickets \cap refund[q].tickets = {}
    BY <1>2, Parts DEF Apart, Standing, row
  <2>2. refund'[r].order \in Orders /\ refund'[r].tickets \subseteq TicketsOf(refund'[r].order) /\ refund'[r].status = "confirmed"
    BY <1>2, <1>4, <1>8, <1>9
  <2> QED BY <2>1, <2>2, <1>2, <1>5, <1>9, Parts, OthersStayActive
<1>14. Apart'
  BY <1>2, <1>8, <1>9, Parts DEF Apart, Standing, row
<1>15. OnRecord'
  <2>1. \A o \in Orders : \A q \in gateway[o] \ {External} : q \in RefundIds
    BY Parts DEF Typed
  <2> QED BY <2>1, <1>2, <1>3, <1>8, <1>9, Parts DEF OnRecord, Standing, row
<1>16. InHand' /\ Answered'
  <2>1. refund'[r].tickets = refund[r].tickets
    BY <1>8, <1>9 DEF row
  <2> QED BY <2>1, <1>1, <1>3, <1>8, <1>9, <1>10, RefundLeavesHand DEF r
<1> QED BY <1>5, <1>9, <1>12, <1>13, <1>14, <1>15, <1>16 DEF RefundInv

\* The webhook of a refund made outside: what is left of the order, in one transaction.
LEMMA RefundPaymentKeeps ==
  ASSUME RefundInv, UNCHANGED faults, NEW n \in notice, RefundPayment(n)
  PROVE  RefundInv'
<1> DEFINE r == FreshRefund
           o == n.order
           row == Prepared(o, {}, "webhook")
           done == [row EXCEPT !.status = "confirmed"]
<1>1. o \in Orders /\ {} \in SUBSET Tickets /\ notice' \subseteq Notice
  BY Unchanging DEF RefundPayment, Notice
<1>2. /\ MayPrepare(o, {}, TRUE) /\ \E q \in RefundIds : Vacant(q)
      /\ CompleteRefund(r, row)
      /\ UNCHANGED <<request, gateway, run, todo, faults>>
  BY DEF RefundPayment
<1>3. r \in RefundIds /\ refund[r].status = "none"
  BY <1>2, FreshIsVacant
<1>4. /\ \E W : row \in Shape(W)
      /\ row.status = "pending" /\ row.order = o /\ row.tickets # {} /\ row.tickets \subseteq Active(o)
      /\ \A q \in RefundIds : Standing(q) => row.tickets \cap refund[q].tickets = {}
  BY <1>1, <1>2, Parts, PreparedRow
<1>5. refund' = [refund EXCEPT ![r] = done]
  BY <1>2 DEF CompleteRefund
<1> HIDE DEF row
<1>6. /\ Books'
      /\ order' \in [Orders -> {"pending", "paid", "partially_refunded", "refunded"}]
      /\ ticket' \in [Tickets -> {"none", "active", "burned"}]
      /\ \A t \in Tickets : ticket'[t] = IF t \in row.tickets THEN "burned" ELSE ticket[t]
  <2>1. row.order \in Orders /\ row.tickets \subseteq Active(row.order)
    BY <1>1, <1>4
  <2> QED BY <2>1, <1>2, <1>4, Parts, CompletionBooks
<1>7. PICK W : row \in Shape(W)
  BY <1>4
<1>8. done \in Shape(W) /\ done.status = "confirmed" /\ done.order = o /\ done.tickets = row.tickets
  <2>1. done \in Shape(W) /\ done.status = "confirmed" /\ done.order = row.order /\ done.tickets = row.tickets
    BY <1>7, StatusWritten
  <2>2. row.order = o
    BY <1>4
  <2> QED BY <2>1, <2>2
<1> HIDE DEF done, r, o
<1>9. RefundShape' /\ refund'[r] = done /\ \A q \in RefundIds : q # r => refund'[q] = refund[q]
  BY <1>3, <1>5, <1>8, Parts, RowWritten
<1>10. Typed'
  BY <1>1, <1>2, <1>6, Parts DEF Typed
<1>11. OfActive'
  <2>1. done.tickets \subseteq TicketsOf(o)
    BY <1>4, <1>8, ActiveType
  <2> QED BY <2>1, <1>1, <1>3, <1>4, <1>6, <1>8, <1>9, Parts, OthersStayActive
<1>12. Apart'
  <2>1. \A s, q \in RefundIds : s # q /\ Standing(s)' /\ Standing(q)' => refund'[s].tickets \cap refund'[q].tickets = {}
    <3> TAKE s, q \in RefundIds
    <3>1. CASE s = r
      BY <3>1, <1>4, <1>8, <1>9 DEF Standing
    <3>2. CASE q = r
      BY <3>2, <1>4, <1>8, <1>9 DEF Standing
    <3>3. CASE s # r /\ q # r
      BY <3>3, <1>9, Parts DEF Apart, Standing
    <3> QED BY <3>1, <3>2, <3>3
  <2> QED BY <2>1 DEF Apart
<1>13. OnRecord'
  <2>1. \A u \in Orders : \A q \in gateway[u] \ {External} : q \in RefundIds /\ q # r
    BY <1>3, Parts DEF OnRecord, Typed
  <2> QED BY <2>1, <1>2, <1>9, Parts DEF OnRecord, Standing
<1>16. \A q \in Backed : refund[q].status # "none" => q \in Backed'
  <2>1. \A u \in Orders : \A q \in gateway[u] \ {External} : q \in RefundIds /\ q # r
    BY <1>3, Parts DEF OnRecord, Typed
  <2>2. \A u \in Orders : \A q \in gateway[u] \ {External} : refund'[q].tickets = refund[q].tickets
    BY <2>1, <1>9
  <2>3. \A q \in RefundIds : refund[q].status # "none" => refund[q].tickets \subseteq Tickets /\ q # r
    BY <1>3, Parts DEF OfActive, TicketsOf
  <2>4. \A q \in Backed : q \in RefundIds
    BY DEF Backed
  <2> QED BY <1>2, <1>9, <2>2, <2>3, <2>4, BackedStays
<1>14. InHand'
  <2>1. \A q \in Processes : HasRefund(q) => run[q].ref \in RefundIds /\ run[q].ref # r
    BY <1>3, Parts DEF InHand
  <2>2. \A q \in Processes : HasRefund(q) => refund'[run[q].ref] = refund[run[q].ref]
    BY <2>1, <1>9
  <2> QED BY <2>1, <2>2, <1>2, <1>16, Parts DEF InHand, HasRefund
<1>15. Answered'
  <2>1. \A q \in RefundIds : refund'[q].status = "pending" => refund'[q] = refund[q]
    BY <1>8, <1>9
  <2> QED BY <2>1, <1>2, <1>16, Parts DEF Answered, HasRefund
<1> QED BY <1>6, <1>9, <1>10, <1>11, <1>12, <1>13, <1>14, <1>15 DEF RefundInv

\* A payment confirmed issues the tickets of its order, which had none.
LEMMA ConfirmPaymentKeeps ==
  ASSUME RefundInv, UNCHANGED faults, NEW o \in Orders, ConfirmPayment(o)
  PROVE  RefundInv'
<1>1. /\ order[o] = "pending"
      /\ order' = [order EXCEPT ![o] = "paid"]
      /\ ticket' = [t \in Tickets |-> IF OrderOf[t] = o THEN "active" ELSE ticket[t]]
      /\ sold' = sold + Cardinality(TicketsOf(o))
      /\ UNCHANGED <<refund, request, gateway, notice, run, todo, faults>>
  BY DEF ConfirmPayment
<1>2. order \in [Orders -> {"pending", "paid", "partially_refunded", "refunded"}]
      /\ ticket \in [Tickets -> {"none", "active", "burned"}]
  BY Parts DEF Typed
<1>3. Typed'
  BY <1>1, <1>2, Parts DEF Typed
<1>4. RefundShape' /\ Apart' /\ OnRecord' /\ InHand' /\ Answered'
  <2>1. Backed' = Backed
    BY <1>1 DEF Backed, Returned
  <2> QED BY <2>1, <1>1, Parts DEF RefundShape, Apart, OnRecord, InHand, Answered, Standing, HasRefund
<1>5. OfActive'
  <2>1. \A u \in Orders : \A t \in Active(u) : t \in TicketsOf(u) /\ ticket'[t] = "active"
    BY <1>1 DEF Active, TicketsOf
  <2> QED BY <2>1, <1>1, Parts DEF OfActive, Active
<1>6. sold' = Cardinality(Valid')
  <2>1. \A t \in TicketsOf(o) : ticket[t] = "none"
    BY <1>1, Parts DEF Books, Agree
  <2>2. Valid' = Valid \cup TicketsOf(o) /\ Valid \cap TicketsOf(o) = {} /\ Valid \subseteq Tickets /\ TicketsOf(o) \subseteq Tickets
    BY <2>1, <1>1 DEF Valid, TicketsOf
  <2>3. IsFiniteSet(Valid) /\ IsFiniteSet(TicketsOf(o))
    BY <2>2, RefundsAssumption, FS_Subset
  <2>4. Cardinality(Valid \cup TicketsOf(o)) = Cardinality(Valid) + Cardinality(TicketsOf(o)) - Cardinality(Valid \cap TicketsOf(o))
    BY <2>3, FS_Union
  <2>5. Cardinality(Valid \cap TicketsOf(o)) = 0 /\ Cardinality(Valid) \in Nat /\ Cardinality(TicketsOf(o)) \in Nat
    BY <2>2, <2>3, FS_EmptySet, FS_CardinalityType
  <2>6. sold = Cardinality(Valid)
    BY Parts DEF Books
  <2> QED BY <2>2, <2>4, <2>5, <2>6, <1>1
<1>7. \A u \in Orders : Agree(u)'
  <2> TAKE u \in Orders
  <2>1. Agree(u)
    BY Parts DEF Books
  <2>2. CASE u = o
    BY <2>2, <1>1, <1>2 DEF Agree, TicketsOf
  <2>3. CASE u # o
    BY <2>1, <2>3, <1>1, <1>2 DEF Agree, TicketsOf
  <2> QED BY <2>2, <2>3
<1> QED BY <1>3, <1>4, <1>5, <1>6, <1>7 DEF RefundInv, Books

LEMMA InitInv == Init => RefundInv
<1> SUFFICES ASSUME Init PROVE RefundInv
  OBVIOUS
<1>1. RefundShape
  <2>1. refund \in [RefundIds -> Shape({0})]
    BY NoRefundShape DEF Init
  <2> QED BY <2>1 DEF RefundShape
<1>2. \A r \in RefundIds : refund[r].status = "none"
  BY NoRefundShape DEF Init
<1>3. \A p \in Processes : run[p] = Idle
  BY DEF Init
<1>4. Typed
  <2>1. run \in [Processes -> Run] /\ \A p \in Processes : run[p].at = "idle"
    BY <1>3, IdleType DEF Init
  <2>2. request \in [Orders -> RequestRow]
    BY DEF Init, NoRequest, RequestRow
  <2> QED BY <2>1, <2>2 DEF Init, Typed
<1>5. OfActive /\ Apart /\ OnRecord /\ Answered
  BY <1>2 DEF Init, OfActive, Apart, OnRecord, Answered, Standing
<1>6. InHand
  BY <1>3, IdleType DEF InHand, HasRefund, Working
<1>7. Books
  <2>1. Valid = {} /\ \A o \in Orders : Agree(o)
    BY DEF Init, Valid, Agree, TicketsOf
  <2> QED BY <2>1, FS_EmptySet DEF Init, Books
<1> QED BY <1>1, <1>4, <1>5, <1>6, <1>7 DEF RefundInv

LEMMA NextKeepsInv == RefundInv /\ [Next]_vars => RefundInv'
<1> SUFFICES ASSUME RefundInv, [Next]_vars PROVE RefundInv'
  OBVIOUS
<1>1. CASE UNCHANGED vars
  BY <1>1, Unchanging, NobodyMoves DEF vars, moving
<1>2. CASE People /\ UNCHANGED faults
  BY <1>2, AskRefundKeeps, ApproveKeeps, PeopleAlsoKeep, ConfirmPaymentKeeps, RefundOutsideKeeps DEF People
<1>3. CASE Webhook /\ UNCHANGED faults
  BY <1>3, IgnoreNoticeKeeps, RefundPaymentKeeps DEF Webhook
<1>4. ASSUME NEW p \in Processes, RunRefund(p), UNCHANGED faults PROVE RefundInv'
  BY <1>4, ReserveKeeps, MoneyBackKeeps, AttemptsKeep, GiveUpKeeps, ApplyEffectsKeeps DEF RunRefund
<1>5. ASSUME NEW p \in Processes, Crash(p), UNCHANGED faults PROVE RefundInv'
  BY <1>5, CrashKeeps
<1>6. ASSUME NEW w \in Workers, WorkerStep(w), UNCHANGED faults PROVE RefundInv'
  BY <1>6, WorkersKeep
<1> QED BY <1>1, <1>2, <1>3, <1>4, <1>5, <1>6 DEF Next

-----------------------------------------------------------------------------
(* What the invariant gives                                                *)

\* No ticket is paid back twice by us, whatever races: a refund stands from the moment its
\* tickets are reserved, and what the gateway gave back stands as long as no answer is lost.
THEOREM TicketsReturnedOnce == Spec => []ReturnedOnce
<1>1. RefundInv => ReturnedOnce
  <2> SUFFICES ASSUME RefundInv, "lost" \notin faults, NEW o \in Orders,
                      NEW r \in gateway[o] \ {External}, NEW q \in gateway[o] \ {External}, r # q
               PROVE  refund[r].tickets \cap refund[q].tickets = {}
    BY DEF ReturnedOnce
  <2>1. r \in RefundIds /\ q \in RefundIds
    BY Parts DEF Typed
  <2> QED BY <2>1, Parts DEF OnRecord, Apart
<1> QED BY <1>1, InitInv, NextKeepsInv, PTL DEF Spec

\* The lot's count of tickets sold and the status of every order follow the tickets, through
\* refunds of part of an order, of all of it, and through chargebacks.
THEOREM CountersAreRight == Spec => []CountersFollowTickets
<1>1. RefundInv => CountersFollowTickets
  <2> SUFFICES ASSUME RefundInv
               PROVE  /\ sold = Cardinality({t \in Tickets : ticket[t] = "active"})
                      /\ \A o \in Orders :
                            /\ order[o] = "refunded" <=> \A t \in TicketsOf(o) : ticket[t] = "burned"
                            /\ order[o] = "paid" <=> \A t \in TicketsOf(o) : ticket[t] = "active"
    BY DEF CountersFollowTickets
  <2>1. sold = Cardinality({t \in Tickets : ticket[t] = "active"})
    BY Parts DEF Books, Valid
  <2>2. ASSUME NEW o \in Orders
        PROVE  /\ order[o] = "refunded" <=> \A t \in TicketsOf(o) : ticket[t] = "burned"
               /\ order[o] = "paid" <=> \A t \in TicketsOf(o) : ticket[t] = "active"
    <3>1. PICK t \in Tickets : t \in TicketsOf(o)
      BY RefundsAssumption DEF TicketsOf
    <3>2. Agree(o) /\ order[o] \in {"pending", "paid", "partially_refunded", "refunded"}
      BY Parts DEF Books, Typed
    <3> QED BY <3>1, <3>2 DEF Agree
  <2> QED BY <2>1, <2>2
<1> QED BY <1>1, InitInv, NextKeepsInv, PTL DEF Spec

\* refund.go:166-183: unless a process dies or a give-up fails and is only logged, a pending
\* refund that nobody runs is one whose tickets' money is back.
THEOREM NothingIsHeldInVain == Spec => []NothingHeldForNothing
<1>1. RefundInv => NothingHeldForNothing
  BY Parts DEF Answered, Backed, NothingHeldForNothing, Abandoned, HasRefund
<1> QED BY <1>1, InitInv, NextKeepsInv, PTL DEF Spec

-----------------------------------------------------------------------------
(* The refunds implement MoneyBack                                         *)

Sold == {t \in Tickets : ticket[t] # "none"}
Back == {t \in Tickets : Returned(t)}

\* A notice whose keys are not all ours, or that has none, comes after a refund
\* made outside: the gateway sends our keys back.
Keyed ==
    \A n \in notice :
        /\ n.keys \ {External} \subseteq gateway[n.order]
        /\ n.keys = {} \/ External \in n.keys => External \in gateway[n.order]

MoneyInv == RefundInv /\ Keyed /\ BurnedIsReturned

\* Whose money is back does not change while the gateway gives none and the rows
\* on record keep their tickets.
RecordStands ==
    /\ UNCHANGED gateway
    /\ \A o \in Orders : \A r \in gateway[o] \ {External} : refund'[r].tickets = refund[r].tickets

LEMMA BackStands ==
  ASSUME RecordStands, NEW t \in Tickets
  PROVE  Returned(t)' <=> Returned(t)
BY RefundsAssumption DEF RecordStands, Returned

\* A step that neither issues nor burns a ticket nor moves money is a stutter.
LEMMA NothingShows ==
  ASSUME MoneyInv, RecordStands, UNCHANGED ticket, notice' \subseteq notice
  PROVE  /\ Keyed' /\ BurnedIsReturned'
         /\ Sold' = Sold /\ Valid' = Valid /\ Back' = Back
<1>1. Keyed'
  BY DEF MoneyInv, Keyed, RecordStands
<1>2. \A t \in Tickets : Returned(t)' <=> Returned(t)
  BY BackStands
<1>3. BurnedIsReturned'
  BY <1>2 DEF MoneyInv, BurnedIsReturned
<1>4. Back' = Back
  BY <1>2 DEF Back
<1> QED BY <1>1, <1>3, <1>4 DEF Sold, Valid

\* A row that is given up keeps its tickets if the gateway knows it.
LEMMA GivenUpStands ==
  ASSUME RefundInv, NEW p \in Processes, run[p].at \in {"release", "refused"}, FailRefund(run[p].ref), UNCHANGED gateway
  PROVE  RecordStands
<1> DEFINE r == run[p].ref
           old == refund[r]
           row == IF r \in gateway[old.order] THEN [old EXCEPT !.status = "failed"] ELSE NoRefund
<1>1. HasRefund(p)
  BY DEF HasRefund, Working
<1>2. r \in RefundIds
  BY <1>1, Parts DEF InHand
<1>3. PICK V : refund \in [RefundIds -> Shape(V)]
  BY Parts DEF RefundShape
<1>4. old \in Shape(V) /\ "failed" \in {"none", "pending", "confirmed", "failed"}
  BY <1>2, <1>3
<1>5. refund' = [refund EXCEPT ![r] = row]
  BY <1>3 DEF FailRefund
<1>6. refund'[r] = row /\ \A q \in RefundIds : q # r => refund'[q] = refund[q]
  <2> HIDE DEF row, r
  <2> QED BY <1>2, <1>3, <1>5
<1>7. r \in gateway[old.order] => row.tickets = old.tickets
  <2>1. [old EXCEPT !.status = "failed"].tickets = old.tickets
    <3> HIDE DEF old
    <3> QED BY <1>4, StatusWritten
  <2> HIDE DEF old
  <2> QED BY <2>1
<1> HIDE DEF row, r
<1>8. ASSUME NEW o \in Orders, NEW q \in gateway[o] \ {External} PROVE refund'[q].tickets = refund[q].tickets
  <2>1. q \in RefundIds /\ refund[q].order = o
    BY Parts DEF Typed, OnRecord
  <2> QED BY <2>1, <1>6, <1>7, <1>8
<1> QED BY <1>8 DEF RecordStands

\* A fresh row is not on record.
LEMMA ReservedStands ==
  ASSUME RefundInv, NEW p \in Processes, Reserve(p)
  PROVE  RecordStands
<1>1. CASE UNCHANGED refund
  BY <1>1 DEF Reserve, RecordStands
<1>2. ASSUME \E r \in RefundIds : Vacant(r),
             refund' = [refund EXCEPT ![FreshRefund] = Prepared(run[p].order, run[p].tickets, "api")]
      PROVE  RecordStands
  <2>1. FreshRefund \in RefundIds /\ refund[FreshRefund].status = "none"
    BY <1>2, FreshIsVacant
  <2>2. PICK V : refund \in [RefundIds -> Shape(V)]
    BY Parts DEF RefundShape
  <2>3. \A q \in RefundIds : q # FreshRefund => refund'[q] = refund[q]
    BY <1>2, <2>2
  <2>4. \A o \in Orders : \A q \in gateway[o] \ {External} : q \in RefundIds /\ q # FreshRefund
    BY <2>1, Parts DEF Typed, OnRecord
  <2> QED BY <2>3, <2>4 DEF Reserve, RecordStands
<1> QED BY <1>1, <1>2 DEF Reserve

\* The steps that do not show.
Quiet ==
    \/ \E o \in Orders :
          \/ \E asked \in Choices :
                \/ \E h \in Handlers, override \in BOOLEAN : AskRefund(h, o, asked, override)
                \/ AskFavour(o, asked)
          \/ \E h \in Handlers : Approve(h, o)
          \/ Reject(o) \/ ReopenCancelJob(o)
    \/ \E t \in Goers : Checkin(t)
    \/ CancelEvent
    \/ \E n \in notice : IgnoreNotice(n)
    \/ \E p \in Processes :
          \/ Reserve(p) \/ FailRequest(p)
          \/ \E where \in {"busy", "refused"} : GatewayDeclines(p, where)
          \/ GatewayHasRefunded(p) \/ GiveUpFails(p)
          \/ GiveUpRequest(p) \/ GiveUpRefund(p) \/ GiveUpBoth(p) \/ EffectsFail(p) \/ Crash(p)
    \/ \E w \in Workers : WorkerStep(w)

LEMMA QuietStands ==
  ASSUME RefundInv, Quiet
  PROVE  RecordStands /\ UNCHANGED ticket /\ notice' \subseteq notice
<1>1. ASSUME NEW o \in Orders, NEW asked \in Choices, NEW h \in Handlers, NEW override \in BOOLEAN,
             AskRefund(h, o, asked, override) \/ AskFavour(o, asked) \/ Approve(h, o)
      PROVE  UNCHANGED <<ticket, gateway, refund, notice>>
  BY <1>1 DEF AskRefund, AskFavour, Approve
<1>2. ASSUME NEW o \in Orders, Reject(o) \/ ReopenCancelJob(o) PROVE UNCHANGED <<ticket, gateway, refund, notice>>
  BY <1>2 DEF Reject, ReopenCancelJob
<1>3. ASSUME NEW o \in Orders, NEW asked \in Choices, AskFavour(o, asked) PROVE UNCHANGED <<ticket, gateway, refund, notice>>
  BY <1>3 DEF AskFavour
<1>4. ASSUME NEW o \in Orders, NEW h \in Handlers, Approve(h, o) PROVE UNCHANGED <<ticket, gateway, refund, notice>>
  BY <1>4 DEF Approve
<1>5. ASSUME NEW t \in Goers, Checkin(t) PROVE UNCHANGED <<ticket, gateway, refund, notice>>
  BY <1>5 DEF Checkin
<1>6. CASE CancelEvent
  BY <1>6 DEF CancelEvent, RecordStands
<1>7. ASSUME NEW n \in notice, IgnoreNotice(n) PROVE RecordStands /\ UNCHANGED ticket /\ notice' \subseteq notice
  BY <1>7 DEF IgnoreNotice, RecordStands
<1>8. ASSUME NEW p \in Processes, Reserve(p) PROVE RecordStands /\ UNCHANGED <<ticket, notice>>
  <2>1. UNCHANGED <<ticket, notice>>
    BY <1>8 DEF Reserve
  <2> QED BY <1>8, <2>1, ReservedStands
<1>9. ASSUME NEW p \in Processes, GiveUpRefund(p) \/ GiveUpBoth(p) PROVE RecordStands /\ UNCHANGED <<ticket, notice>>
  <2>1. UNCHANGED <<ticket, notice, gateway>> /\ run[p].at \in {"release", "refused"} /\ FailRefund(run[p].ref)
    BY <1>9 DEF GiveUpRefund, GiveUpBoth
  <2> QED BY <2>1, GivenUpStands
<1>10. ASSUME NEW p \in Processes,
              FailRequest(p) \/ GiveUpRequest(p) \/ GiveUpFails(p) \/ GatewayHasRefunded(p) \/ EffectsFail(p) \/ Crash(p)
       PROVE  UNCHANGED <<ticket, gateway, refund, notice>>
  BY <1>10 DEF FailRequest, GiveUpRequest, GiveUpFails, GatewayHasRefunded, EffectsFail, Crash
<1>11. ASSUME NEW p \in Processes, NEW where \in {"busy", "refused"}, GatewayDeclines(p, where)
       PROVE  UNCHANGED <<ticket, gateway, refund, notice>>
  BY <1>11 DEF GatewayDeclines
<1>12. ASSUME NEW w \in Workers, WorkerStep(w) PROVE UNCHANGED <<ticket, gateway, refund, notice>>
  BY <1>12 DEF WorkerStep, ClaimJobs, BeginJob, FinishCancelJob, RetryCancelJob, LoseCancelJob, CloseJob
<1>13. UNCHANGED <<ticket, gateway, refund, notice>> => RecordStands /\ UNCHANGED ticket /\ notice' \subseteq notice
  BY DEF RecordStands
<1> QED
  BY <1>1, <1>2, <1>3, <1>4, <1>5, <1>6, <1>7, <1>8, <1>9, <1>10, <1>11, <1>12, <1>13 DEF Quiet

\* What gives money back gives it for tickets that were sold.
LEMMA GivesBack ==
  ASSUME MoneyInv, NEW o \in Orders, NEW k, UNCHANGED <<ticket, refund>>,
         gateway' = [gateway EXCEPT ![o] = @ \cup {k}],
         \A t \in TicketsOf(o) : k = External \/ t \in refund[k].tickets => ticket[t] # "none"
  PROVE  /\ BurnedIsReturned'
         /\ Sold' = Sold /\ Valid' = Valid
         /\ Back' = Back \cup (Back' \ Back) /\ Back' \ Back \subseteq Sold
<1>1. gateway \in [Orders -> SUBSET (RefundIds \cup {External})]
  BY Parts DEF MoneyInv, Typed
<1>2. /\ gateway'[o] = gateway[o] \cup {k}
      /\ \A u \in Orders : u # o => gateway'[u] = gateway[u]
  BY <1>1
<1>3. \A t \in Tickets : OrderOf[t] \in Orders
  BY RefundsAssumption
<1>4. \A t \in Tickets : Returned(t) => Returned(t)'
  BY <1>2, <1>3 DEF Returned
<1>5. \A t \in Tickets : Returned(t)' => Returned(t) \/ (OrderOf[t] = o /\ (k = External \/ t \in refund[k].tickets))
  <2> TAKE t \in Tickets
  <2>1. CASE OrderOf[t] = o
    BY <2>1, <1>2 DEF Returned
  <2>2. CASE OrderOf[t] # o
    BY <2>2, <1>2, <1>3 DEF Returned
  <2> QED BY <2>1, <2>2
<1>6. BurnedIsReturned'
  BY <1>4 DEF MoneyInv, BurnedIsReturned
<1>7. Sold' = Sold /\ Valid' = Valid
  BY DEF Sold, Valid
<1>8. Back \subseteq Back'
  BY <1>4 DEF Back
<1>9. Back' \ Back \subseteq Sold
  BY <1>5 DEF Back, Sold, TicketsOf
<1> QED BY <1>6, <1>7, <1>8, <1>9

LEMMA MoneyBackShows ==
  ASSUME MoneyInv, KeyedNotices, NEW p \in Processes, GatewayRefunds(p) \/ GatewayAnswerLost(p)
  PROVE  /\ Keyed' /\ BurnedIsReturned'
         /\ Sold' = Sold /\ Valid' = Valid
         /\ Back' = Back \cup (Back' \ Back) /\ Back' \ Back \subseteq Sold
<1> DEFINE o == run[p].order
           r == run[p].ref
<1>1. RefundInv
  BY DEF MoneyInv
<1>2. PICK where \in {"effects", "refused"} : GiveMoneyBack(p, where)
  BY DEF GatewayRefunds, GatewayAnswerLost
<1>3. /\ run[p].at = "gateway"
      /\ gateway' = [gateway EXCEPT ![o] = @ \cup {r}]
      /\ notice' = notice \cup {[order |-> o, keys |-> Keys(o) \cup {r}]}
      /\ UNCHANGED <<ticket, refund>>
  BY <1>2 DEF GiveMoneyBack
<1>4. HasRefund(p) /\ o \in Orders
  BY <1>1, <1>3, Parts, RunType DEF HasRefund, Working
<1>5. r \in RefundIds /\ refund[r].status = "pending" /\ refund[r].order = o
  BY <1>1, <1>4, Parts DEF InHand
<1> HIDE DEF o, r
<1>6. \A t \in refund[r].tickets : ticket[t] = "active"
  BY <1>1, <1>5, Parts DEF OfActive, Active
<1>7. gateway \in [Orders -> SUBSET (RefundIds \cup {External})] /\ notice \subseteq Notice
  BY <1>1, Parts DEF Typed
<1>8. Keyed'
  <2>1. \A u \in Orders : gateway[u] \subseteq gateway'[u]
    BY <1>3, <1>4, <1>7
  <2>2. r \in gateway'[o] /\ Keys(o) \subseteq gateway[o] \ {External} /\ r # External
    BY <1>3, <1>4, <1>5, <1>7, ExternalIsNoRow DEF Keys
  <2>3. \A n \in notice : n.order \in Orders
    BY <1>7 DEF Notice
  <2>4. ASSUME NEW n \in notice'
        PROVE  /\ n.keys \ {External} \subseteq gateway'[n.order]
               /\ n.keys = {} \/ External \in n.keys => External \in gateway'[n.order]
    <3>1. CASE n \in notice
      BY <3>1, <2>1, <2>3 DEF MoneyInv, Keyed
    <3>2. CASE n = [order |-> o, keys |-> Keys(o) \cup {r}]
      BY <3>2, <2>1, <2>2, <1>4
    <3> QED BY <3>1, <3>2, <1>3
  <2> QED BY <2>4 DEF Keyed
<1> QED BY <1>3, <1>4, <1>5, <1>6, <1>8, ExternalIsNoRow, GivesBack

LEMMA OutsideShows ==
  ASSUME MoneyInv, KeyedNotices, NEW o \in Orders, NEW described \in BOOLEAN, RefundOutside(o, described)
  PROVE  /\ Keyed' /\ BurnedIsReturned'
         /\ Sold' = Sold /\ Valid' = Valid
         /\ Back' = Back \cup (Back' \ Back) /\ Back' \ Back \subseteq Sold
<1>1. /\ order[o] # "pending"
      /\ gateway' = [gateway EXCEPT ![o] = @ \cup {External}]
      /\ notice' = notice \cup {[order |-> o, keys |-> Keys(o) \cup IF described THEN {External} ELSE {}]}
      /\ UNCHANGED <<ticket, refund>>
  BY DEF RefundOutside
<1>2. \A t \in TicketsOf(o) : ticket[t] # "none"
  BY <1>1, Parts DEF MoneyInv, Books, Agree, Typed
<1>3. gateway \in [Orders -> SUBSET (RefundIds \cup {External})] /\ notice \subseteq Notice
  BY Parts DEF MoneyInv, Typed
<1>4. Keyed'
  <2>1. \A u \in Orders : gateway[u] \subseteq gateway'[u]
    BY <1>1, <1>3
  <2>2. External \in gateway'[o] /\ Keys(o) \subseteq gateway[o]
    BY <1>1, <1>3 DEF Keys
  <2>3. \A n \in notice : n.order \in Orders
    BY <1>3 DEF Notice
  <2>4. ASSUME NEW n \in notice'
        PROVE  /\ n.keys \ {External} \subseteq gateway'[n.order]
               /\ n.keys = {} \/ External \in n.keys => External \in gateway'[n.order]
    <3>1. CASE n \in notice
      BY <3>1, <2>1, <2>3 DEF MoneyInv, Keyed
    <3>2. CASE n = [order |-> o, keys |-> Keys(o) \cup IF described THEN {External} ELSE {}]
      BY <3>2, <2>1, <2>2
    <3> QED BY <3>1, <3>2, <1>1
  <2> QED BY <2>4 DEF Keyed
<1> QED BY <1>1, <1>2, <1>4, GivesBack

\* What burns tickets burns some whose money is back.
LEMMA Burns ==
  ASSUME MoneyInv, RecordStands, notice' \subseteq notice, NEW S,
         S \subseteq Valid \cap Back,
         \A t \in Tickets : ticket'[t] = IF t \in S THEN "burned" ELSE ticket[t]
  PROVE  /\ Keyed' /\ BurnedIsReturned'
         /\ Sold' = Sold /\ Valid' = Valid \ S /\ Back' = Back
<1>1. Keyed'
  BY DEF MoneyInv, Keyed, RecordStands
<1>2. \A t \in Tickets : Returned(t)' <=> Returned(t)
  BY BackStands
<1>3. BurnedIsReturned'
  BY <1>2 DEF MoneyInv, BurnedIsReturned, Back
<1>4. Back' = Back
  BY <1>2 DEF Back
<1>5. Sold' = Sold /\ Valid' = Valid \ S
  BY DEF Sold, Valid
<1> QED BY <1>1, <1>3, <1>4, <1>5

LEMMA EffectsShow ==
  ASSUME MoneyInv, NEW p \in Processes, ApplyEffects(p)
  PROVE  /\ Keyed' /\ BurnedIsReturned'
         /\ \E S : S \subseteq Valid \cap Back /\ Sold' = Sold /\ Valid' = Valid \ S /\ Back' = Back
<1> DEFINE r == run[p].ref
           row == refund[r]
           done == [row EXCEPT !.status = "confirmed"]
<1>1. RefundInv
  BY DEF MoneyInv
<1>2. HasRefund(p) /\ run[p].at = "effects" /\ CompleteRefund(r, row) /\ UNCHANGED <<gateway, notice>>
  BY DEF ApplyEffects, HasRefund, Working
<1>3. r \in RefundIds /\ row.status = "pending" /\ row.order \in Orders /\ r \in Backed
  BY <1>1, <1>2, Parts, RunType DEF InHand
<1>4. row.tickets # {} /\ row.tickets \subseteq Active(row.order) /\ row.tickets \subseteq TicketsOf(row.order)
  BY <1>1, <1>3, Parts DEF OfActive
<1>5. PICK V : refund \in [RefundIds -> Shape(V)]
  BY <1>1, Parts DEF RefundShape
<1>6. refund' = [refund EXCEPT ![r] = done]
  BY <1>2 DEF CompleteRefund
<1>7. row \in Shape(V)
  BY <1>3, <1>5
<1> HIDE DEF row
<1>8. done.tickets = row.tickets
  BY <1>7, StatusWritten
<1> HIDE DEF done, r
<1>9. \A t \in Tickets : ticket'[t] = IF t \in row.tickets THEN "burned" ELSE ticket[t]
  BY <1>1, <1>2, <1>3, <1>4, Parts, CompletionBooks
<1>10. RecordStands
  <2>1. \A q \in RefundIds : refund'[q].tickets = refund[q].tickets
    BY <1>3, <1>5, <1>6, <1>8 DEF row
  <2>2. \A o \in Orders : \A q \in gateway[o] \ {External} : q \in RefundIds
    BY <1>1, Parts DEF Typed
  <2> QED BY <2>1, <2>2, <1>2 DEF RecordStands
<1>11. row.tickets \subseteq Valid \cap Back
  <2> SUFFICES ASSUME NEW t \in row.tickets PROVE t \in Valid \cap Back
    OBVIOUS
  <2>1. t \in Tickets /\ OrderOf[t] = row.order /\ ticket[t] = "active"
    BY <1>4 DEF Active, TicketsOf
  <2>2. Returned(t)
    BY <1>3 DEF Backed, row
  <2> QED BY <2>1, <2>2 DEF Valid, Back
<1>12. /\ Keyed' /\ BurnedIsReturned'
       /\ Sold' = Sold /\ Valid' = Valid \ row.tickets /\ Back' = Back
  BY <1>2, <1>9, <1>10, <1>11, Burns
<1> QED BY <1>11, <1>12

LEMMA NoticeShows ==
  ASSUME MoneyInv, NEW n \in notice, RefundPayment(n)
  PROVE  /\ Keyed' /\ BurnedIsReturned'
         /\ \E S : S \subseteq Valid \cap Back /\ Sold' = Sold /\ Valid' = Valid \ S /\ Back' = Back
<1> DEFINE r == FreshRefund
           o == n.order
           row == Prepared(o, {}, "webhook")
           done == [row EXCEPT !.status = "confirmed"]
<1>1. RefundInv /\ o \in Orders /\ {} \in SUBSET Tickets
  BY Parts DEF MoneyInv, Typed, Notice
<1>2. /\ MayPrepare(o, {}, TRUE) /\ \E q \in RefundIds : Vacant(q)
      /\ CompleteRefund(r, row) /\ UNCHANGED gateway /\ notice' \subseteq notice
      /\ n.keys # {} => ~Ours(n)
  BY DEF RefundPayment
<1>3. r \in RefundIds /\ refund[r].status = "none"
  BY <1>2, FreshIsVacant
<1>4. row.order = o /\ row.tickets # {} /\ row.tickets \subseteq Active(o)
  BY <1>1, <1>2, Parts, PreparedRow
<1>5. PICK V : refund \in [RefundIds -> Shape(V)]
  BY <1>1, Parts DEF RefundShape
<1>6. refund' = [refund EXCEPT ![r] = done]
  BY <1>2 DEF CompleteRefund
<1> HIDE DEF row
<1>7. \A t \in Tickets : ticket'[t] = IF t \in row.tickets THEN "burned" ELSE ticket[t]
  <2>1. row.order \in Orders /\ row.tickets \subseteq Active(row.order)
    BY <1>1, <1>4
  <2> QED BY <2>1, <1>1, <1>2, <1>4, Parts, CompletionBooks
<1> HIDE DEF done, r
<1>8. RecordStands
  <2>1. \A q \in RefundIds : q # r => refund'[q] = refund[q]
    BY <1>5, <1>6
  <2>2. \A u \in Orders : \A q \in gateway[u] \ {External} : q \in RefundIds /\ q # r
    BY <1>1, <1>3, Parts DEF Typed, OnRecord
  <2> QED BY <2>1, <2>2, <1>2 DEF RecordStands
<1>9. External \in gateway[o]
  <2>1. n.keys \ {External} \subseteq gateway[o] /\ (n.keys = {} \/ External \in n.keys => External \in gateway[o])
    BY DEF MoneyInv, Keyed
  <2>2. \A q \in gateway[o] \ {External} : q \in RefundIds /\ refund[q].status # "none"
    BY <1>1, Parts DEF Typed, OnRecord
  <2>3. CASE n.keys = {}
    BY <2>1, <2>3
  <2>4. CASE n.keys # {}
    <3>1. PICK k \in n.keys : ~(k \in RefundIds /\ refund[k].status # "none")
      BY <2>4, <1>2 DEF Ours
    <3>2. k = External
      BY <3>1, <2>1, <2>2
    <3> QED BY <3>2, <2>1
  <2> QED BY <2>3, <2>4
<1>10. row.tickets \subseteq Valid \cap Back
  BY <1>4, <1>9 DEF Active, TicketsOf, Valid, Back, Returned
<1>11. /\ Keyed' /\ BurnedIsReturned'
       /\ Sold' = Sold /\ Valid' = Valid \ row.tickets /\ Back' = Back
  BY <1>2, <1>7, <1>8, <1>10, Burns
<1> QED BY <1>10, <1>11

LEMMA PaymentShows ==
  ASSUME MoneyInv, NEW o \in Orders, ConfirmPayment(o)
  PROVE  /\ Keyed' /\ BurnedIsReturned'
         /\ \E S : S \subseteq Tickets /\ S \cap Sold = {} /\ Sold' = Sold \cup S /\ Valid' = Valid \cup S /\ Back' = Back
<1>1. /\ order[o] = "pending"
      /\ ticket' = [t \in Tickets |-> IF OrderOf[t] = o THEN "active" ELSE ticket[t]]
      /\ UNCHANGED <<refund, gateway, notice>>
  BY DEF ConfirmPayment
<1>2. RecordStands
  BY <1>1 DEF RecordStands
<1>3. \A t \in Tickets : Returned(t)' <=> Returned(t)
  BY <1>2, BackStands
<1>4. Keyed' /\ BurnedIsReturned'
  BY <1>1, <1>3 DEF MoneyInv, Keyed, BurnedIsReturned
<1>5. \A t \in TicketsOf(o) : ticket[t] = "none"
  BY <1>1, Parts DEF MoneyInv, Books, Agree
<1>6. TicketsOf(o) \subseteq Tickets /\ TicketsOf(o) \cap Sold = {}
  BY <1>5 DEF TicketsOf, Sold
<1>7. Sold' = Sold \cup TicketsOf(o) /\ Valid' = Valid \cup TicketsOf(o)
  BY <1>1, <1>5 DEF Sold, Valid, TicketsOf
<1>8. Back' = Back
  BY <1>3 DEF Back
<1> QED BY <1>4, <1>6, <1>7, <1>8

\* Every step of the refunds is one of MoneyBack's, or does not show.
PromiseNext ==
    \/ \E S : S \subseteq Tickets /\ S \cap Sold = {} /\ Sold' = Sold \cup S /\ Valid' = Valid \cup S /\ Back' = Back
    \/ \E S : S \subseteq Sold /\ Back' = Back \cup S /\ Sold' = Sold /\ Valid' = Valid
    \/ \E S : S \subseteq Valid \cap Back /\ Valid' = Valid \ S /\ Sold' = Sold /\ Back' = Back
    \/ Sold' = Sold /\ Valid' = Valid /\ Back' = Back

LEMMA StepsShow ==
  ASSUME MoneyInv, KeyedNotices, [Next]_vars
  PROVE  MoneyInv' /\ PromiseNext
<1>1. RefundInv'
  BY NextKeepsInv DEF MoneyInv
<1>2. CASE Quiet
  <2>1. RecordStands /\ UNCHANGED ticket /\ notice' \subseteq notice
    BY <1>2, QuietStands DEF MoneyInv
  <2> QED BY <1>1, <2>1, NothingShows DEF MoneyInv, PromiseNext
<1>3. CASE UNCHANGED vars
  <2>1. RecordStands /\ UNCHANGED ticket /\ notice' \subseteq notice
    BY <1>3 DEF vars, moving, RecordStands
  <2> QED BY <1>1, <2>1, NothingShows DEF MoneyInv, PromiseNext
<1>4. ASSUME NEW p \in Processes, GatewayRefunds(p) \/ GatewayAnswerLost(p) PROVE MoneyInv' /\ PromiseNext
  BY <1>1, <1>4, MoneyBackShows DEF MoneyInv, PromiseNext
<1>5. ASSUME NEW o \in Orders, NEW described \in BOOLEAN, RefundOutside(o, described) PROVE MoneyInv' /\ PromiseNext
  BY <1>1, <1>5, OutsideShows DEF MoneyInv, PromiseNext
<1>6. ASSUME NEW p \in Processes, ApplyEffects(p) PROVE MoneyInv' /\ PromiseNext
  BY <1>1, <1>6, EffectsShow DEF MoneyInv, PromiseNext
<1>7. ASSUME NEW n \in notice, RefundPayment(n) PROVE MoneyInv' /\ PromiseNext
  BY <1>1, <1>7, NoticeShows DEF MoneyInv, PromiseNext
<1>8. ASSUME NEW o \in Orders, ConfirmPayment(o) PROVE MoneyInv' /\ PromiseNext
  BY <1>1, <1>8, PaymentShows DEF MoneyInv, PromiseNext
<1>9. ASSUME NEW p \in Processes, RunRefund(p) PROVE MoneyInv' /\ PromiseNext
  BY <1>2, <1>4, <1>6, <1>9 DEF RunRefund, Quiet
<1>10. CASE People
  BY <1>2, <1>5, <1>8, <1>10 DEF People, Quiet
<1>11. CASE Webhook
  BY <1>2, <1>7, <1>11 DEF Webhook, Quiet
<1> QED
  BY <1>2, <1>3, <1>9, <1>10, <1>11 DEF Next, Quiet

LEMMA InitMoney == Init => MoneyInv /\ Sold = {} /\ Valid = {} /\ Back = {}
<1> SUFFICES ASSUME Init PROVE MoneyInv /\ Sold = {} /\ Valid = {} /\ Back = {}
  OBVIOUS
<1>1. RefundInv
  BY InitInv
<1>2. Keyed /\ Sold = {} /\ Valid = {} /\ BurnedIsReturned
  BY DEF Init, Keyed, Sold, Valid, BurnedIsReturned
<1>3. Back = {}
  BY RefundsAssumption DEF Init, Back, Returned
<1> QED BY <1>1, <1>2, <1>3 DEF MoneyInv

\* Where the gateway sends our keys back, nobody loses a ticket without the money for it.
THEOREM BurnedTicketsAreReturned == KeyedNotices => (Spec => []BurnedIsReturned)
<1> SUFFICES ASSUME KeyedNotices PROVE Spec => []BurnedIsReturned
  OBVIOUS
<1>1. Init => MoneyInv
  BY InitMoney
<1>2. MoneyInv /\ [Next]_vars => MoneyInv'
  BY StepsShow
<1>3. MoneyInv => BurnedIsReturned
  BY DEF MoneyInv
<1> QED BY <1>1, <1>2, <1>3, PTL DEF Spec

\* Where the gateway sends our keys back, the refunds implement the abstract MoneyBack: tickets
\* are issued once, stop being valid only after their money is back, and never come back.
THEOREM RefundsImplementMoneyBack == KeyedNotices => (Spec => ImplementsMoneyBack)
<1> SUFFICES ASSUME KeyedNotices PROVE Spec => ImplementsMoneyBack
  OBVIOUS
<1>1. MoneyInv /\ [Next]_vars => MoneyInv'
  BY StepsShow
<1>2. Init => Promise!Init
  BY InitMoney DEF Promise!Init, Sold, Valid, Back
<1>3. MoneyInv /\ [Next]_vars
        => [Promise!Next]_<<{t \in Tickets : ticket[t] # "none"}, {t \in Tickets : ticket[t] = "active"},
                            {t \in Tickets : Returned(t)}>>
  <2> SUFFICES ASSUME MoneyInv, [Next]_vars
               PROVE  Promise!Next \/ (Sold' = Sold /\ Valid' = Valid /\ Back' = Back)
    BY DEF Sold, Valid, Back
  <2>1. PromiseNext
    BY StepsShow
  <2>2. ASSUME NEW S, S \subseteq Tickets, S \cap Sold = {}, Sold' = Sold \cup S, Valid' = Valid \cup S, Back' = Back
        PROVE  Promise!Next
    BY <2>2 DEF Promise!Next, Promise!Sell, Sold, Valid, Back
  <2>3. ASSUME NEW S, S \subseteq Sold, Back' = Back \cup S, Sold' = Sold, Valid' = Valid
        PROVE  Promise!Next
    BY <2>3 DEF Promise!Next, Promise!Return, Sold, Valid, Back
  <2>4. ASSUME NEW S, S \subseteq Valid \cap Back, Valid' = Valid \ S, Sold' = Sold, Back' = Back
        PROVE  Promise!Next
    BY <2>4 DEF Promise!Next, Promise!Burn, Sold, Valid, Back
  <2> QED BY <2>1, <2>2, <2>3, <2>4 DEF PromiseNext
<1>4. Init => MoneyInv
  BY InitMoney
<1> QED BY <1>1, <1>2, <1>3, <1>4, PTL DEF Spec, ImplementsMoneyBack, Promise!Spec

-----------------------------------------------------------------------------
(* The shares of an order's tickets                                        *)

LEMMA Quotient ==
  ASSUME NEW n \in Nat, NEW d \in Nat, d > 0
  PROVE  n \div d \in Nat /\ d * (n \div d) \in Int /\ d * (n \div d) <= n
<1> DEFINE q == n \div d
           r == n % d
<1>1. q \in Int /\ r \in 0..(d - 1) /\ n = d * q + r
  BY Z3
<1>2. d * q \in Int
  BY <1>1, Z3
<1>3. q >= 0
  <2> HIDE DEF q, r
  <2>1. CASE q < 0
    <3>1. d * q <= 0 - d
      BY <2>1, <1>1, Z3
    <3> QED BY <3>1, <1>1, <1>2, <2>1
  <2> QED BY <2>1, <1>1
<1>4. d * q <= n
  <2> HIDE DEF q, r
  <2> QED BY <1>1, <1>2
<1> QED BY <1>1, <1>2, <1>3, <1>4

\* mulDiv: half a cent too much at most.
LEMMA MulDivIs ==
  ASSUME NEW v \in Nat, NEW num \in Nat, NEW den \in Nat, den > 0
  PROVE  /\ MulDiv(v, num, den) \in Nat
         /\ (2 * den) * MulDiv(v, num, den) \in Int
         /\ (2 * v) * num \in Int
         /\ (2 * den) * MulDiv(v, num, den) <= (2 * v) * num + den
<1> DEFINE x == v * num
           n == x + den \div 2
           q == n \div den
<1>1. MulDiv(v, num, den) = q
  BY DEF MulDiv
<1>2. x \in Nat /\ 2 * x = (2 * v) * num
  BY Z3
<1>3. n \in Nat /\ 2 * n <= 2 * x + den
  <2> HIDE DEF x
  <2> QED BY <1>2
<1>4. q \in Nat /\ den * q \in Int /\ den * q <= n
  <2> HIDE DEF n
  <2> QED BY <1>3, Quotient
<1>5. (2 * den) * q = 2 * (den * q)
  <2> HIDE DEF n, q
  <2>1. q \in Int
    BY <1>4
  <2> QED BY <2>1, Z3
<1> HIDE DEF x, n, q
<1> QED BY <1>1, <1>2, <1>3, <1>4, <1>5

\* One cent to the heaviest ticket.
LEMMA ToppedIs ==
  ASSUME NEW S, IsFiniteSet(S), S # {}, NEW x, x.face \in [S -> Nat], x.weight \in [S -> Int]
  PROVE  /\ Topped(x).face \in [S -> Nat] /\ Topped(x).weight \in [S -> Int]
         /\ SumFunctionOnSet(Topped(x).face, S) = SumFunctionOnSet(x.face, S) + 1
<1> DEFINE w == x.weight
           f == x.face
           best == CHOOSE t \in S : \A u \in S : w[t] >= w[u]
           g == [f EXCEPT ![best] = @ + 1]
<1>1. w \in [S -> Int] /\ f \in [S -> Nat]
  OBVIOUS
<1>2. best \in S
  <2> HIDE DEF w
  <2>1. \E t \in S : \A u \in S : w[t] >= w[u]
    BY <1>1, Heaviest
  <2> QED BY <2>1
<1>3. Topped(x) = [face |-> g, weight |-> [w EXCEPT ![best] = @ - 1]]
  <2>1. DOMAIN x.weight = S
    OBVIOUS
  <2> QED BY <2>1 DEF Topped
<1> HIDE DEF w, f, best
<1>4. g \in [S -> Nat] /\ [w EXCEPT ![best] = @ - 1] \in [S -> Int]
  BY <1>1, <1>2
<1>5. g[best] = f[best] + 1 /\ \A y \in S \ {best} : g[y] = f[y]
  BY <1>1, <1>2
<1>6. SumFunctionOnSet(g, S) = SumFunctionOnSet(f, S) - f[best] + g[best]
  <2> HIDE DEF g
  <2>1. \A y \in S : f[y] \in Int /\ g[y] \in Int
    BY <1>1, <1>4
  <2> QED BY <1>2, <1>5, <2>1, SumExcept
<1>7. SumFunctionOnSet(f, S) \in Int /\ f[best] \in Int
  BY <1>1, <1>2, SumType
<1> HIDE DEF g
<1> QED BY <1>3, <1>4, <1>5, <1>6, <1>7 DEF f

\* The turns of the loop, each made of the one before: there is one way to take them.
Turns(s, n, base) == s = [i \in 0..n |-> IF i = 0 THEN base ELSE Topped(s[i - 1])]

LEMMA TurnsAt ==
  ASSUME NEW s, NEW n, NEW base, Turns(s, n, base), NEW i \in 0..n
  PROVE  s[i] = IF i = 0 THEN base ELSE Topped(s[i - 1])
BY DEF Turns

LEMMA TurnsExist == ASSUME NEW n \in Nat, NEW base PROVE \E s : Turns(s, n, base)
<1> DEFINE Bad == {i \in 0..n : ~\E s : Turns(s, i, base)}
<1> SUFFICES ASSUME Bad # {} PROVE FALSE
  OBVIOUS
<1>1. PICK i \in Bad : \A k \in Bad : i <= k
  <2> HIDE DEF Bad
  <2>1. Bad \subseteq 0..n
    BY DEF Bad
  <2> QED BY <2>1, Least
<1>2. CASE i = 0
  <2> DEFINE s == [k \in 0..0 |-> base]
  <2>1. \A k \in 0..0 : s[k] = IF k = 0 THEN base ELSE Topped(s[k - 1])
    OBVIOUS
  <2>2. s = [k \in 0..0 |-> s[k]]
    OBVIOUS
  <2> HIDE DEF s
  <2>3. Turns(s, 0, base)
    BY <2>1, <2>2 DEF Turns
  <2> QED BY <1>1, <1>2, <2>3
<1>3. CASE i > 0
  <2>1. i - 1 \in 0..n /\ ~(i <= i - 1)
    BY <1>3
  <2>2. PICK r : Turns(r, i - 1, base)
    BY <1>1, <2>1
  <2>3. \A k \in 0..(i - 1) : r[k] = IF k = 0 THEN base ELSE Topped(r[k - 1])
    BY <2>2, TurnsAt
  <2> DEFINE s == [k \in 0..i |-> IF k = i THEN Topped(r[i - 1]) ELSE r[k]]
  <2>4. \A k \in 0..i : s[k] = IF k = 0 THEN base ELSE Topped(s[k - 1])
    <3> SUFFICES ASSUME NEW k \in 0..i PROVE s[k] = IF k = 0 THEN base ELSE Topped(s[k - 1])
      OBVIOUS
    <3>1. CASE k = i
      <4>1. s[k - 1] = r[i - 1] /\ s[k] = Topped(r[i - 1]) /\ k # 0
        BY <1>3, <3>1
      <4> QED BY <4>1, <1>3, <3>1
    <3>2. CASE k # i
      <4>1. k \in 0..(i - 1) /\ s[k] = r[k]
        BY <3>2
      <4>2. k # 0 => s[k - 1] = r[k - 1]
        BY <3>2
      <4> HIDE DEF s
      <4> QED BY <4>1, <4>2, <2>3
    <3> QED BY <3>1, <3>2
  <2>5. s = [k \in 0..i |-> s[k]]
    OBVIOUS
  <2> HIDE DEF s
  <2>6. Turns(s, i, base)
    BY <2>4, <2>5 DEF Turns
  <2> QED BY <1>1, <2>6
<1> QED BY <1>1, <1>2, <1>3

\* After n turns n cents more are given, and a share is still a number of cents.
LEMMA TurnsGive ==
  ASSUME NEW n \in Nat, NEW base, NEW S, IsFiniteSet(S), S # {}, base.face \in [S -> Nat], base.weight \in [S -> Int],
         NEW s, Turns(s, n, base)
  PROVE  /\ s[n].face \in [S -> Nat]
         /\ SumFunctionOnSet(s[n].face, S) = SumFunctionOnSet(base.face, S) + n
<1> DEFINE Good(i) == /\ s[i].face \in [S -> Nat] /\ s[i].weight \in [S -> Int]
                      /\ SumFunctionOnSet(s[i].face, S) = SumFunctionOnSet(base.face, S) + i
           Bad == {i \in 0..n : ~Good(i)}
<1>1. SumFunctionOnSet(base.face, S) \in Int
  <2> DEFINE f == base.face
  <2>1. \A x \in S : f[x] \in Int
    OBVIOUS
  <2> HIDE DEF f
  <2>2. SumFunctionOnSet(f, S) \in Int
    BY <2>1, SumType
  <2> QED BY <2>2 DEF f
<1>2. Bad = {}
  <2> SUFFICES ASSUME Bad # {} PROVE FALSE
    OBVIOUS
  <2>1. PICK i \in Bad : \A k \in Bad : i <= k
    <3> HIDE DEF Bad
    <3>1. Bad \subseteq 0..n
      BY DEF Bad
    <3> QED BY <3>1, Least
  <2>2. CASE i = 0
    <3>1. s[0] = base
      BY <2>2, TurnsAt
    <3> QED BY <2>1, <2>2, <3>1, <1>1
  <2>3. CASE i > 0
    <3>1. i - 1 \in 0..n /\ ~(i <= i - 1) /\ i \in Int
      BY <2>3
    <3>2. Good(i - 1)
      BY <2>1, <3>1
    <3>3. s[i] = Topped(s[i - 1])
      BY <2>3, TurnsAt
    <3> DEFINE x == s[i - 1]
    <3>4. x.face \in [S -> Nat] /\ x.weight \in [S -> Int]
          /\ SumFunctionOnSet(x.face, S) = SumFunctionOnSet(base.face, S) + (i - 1)
      BY <3>2
    <3> HIDE DEF x
    <3>5. /\ Topped(x).face \in [S -> Nat] /\ Topped(x).weight \in [S -> Int]
          /\ SumFunctionOnSet(Topped(x).face, S) = SumFunctionOnSet(x.face, S) + 1
      BY <3>4, ToppedIs
    <3>6. SumFunctionOnSet(Topped(x).face, S) = SumFunctionOnSet(base.face, S) + i
      BY <3>1, <3>4, <3>5, <1>1
    <3>7. s[i] = Topped(x)
      BY <3>3 DEF x
    <3> QED BY <2>1, <3>5, <3>6, <3>7
  <2> QED BY <2>1, <2>2, <2>3
<1>3. n \in 0..n
  OBVIOUS
<1> QED BY <1>2, <1>3

\* refund.go, ticketFaces: whatever the prices, what is left of an order's face is given out
\* whole among its active tickets, and the rounding adds half a cent a ticket at most.
THEOREM SharesCoverWhatIsLeft ==
  ASSUME NEW active, IsFiniteSet(active), active # {}, NEW price, \A t \in active : price[t] \in Nat,
         NEW left \in Nat
  PROVE  /\ TicketFaces(active, price, left) \in [active -> Nat]
         /\ left <= SumFunctionOnSet(TicketFaces(active, price, left), active)
         /\ 2 * SumFunctionOnSet(TicketFaces(active, price, left), active) <= 2 * left + Cardinality(active)
         /\ left = 0 => \A t \in active : TicketFaces(active, price, left)[t] = 0
<1> DEFINE priced == SumFunctionOnSet(price, active)
           weight == [t \in active |-> IF priced > 0 THEN price[t] ELSE 1]
           whole  == IF priced > 0 THEN priced ELSE Cardinality(active)
           base   == [t \in active |-> MulDiv(left, weight[t], whole)]
           given  == SumFunctionOnSet(base, active)
           rest   == IF left > given THEN left - given ELSE 0
           first  == [face |-> base, weight |-> weight]
           s      == CHOOSE s : Turns(s, rest, first)
<1>1. TicketFaces(active, price, left) = s[rest].face
  <2>1. SumFunction(base) = given
    BY DEF SumFunction
  <2> QED BY <2>1 DEF TicketFaces, Turns
<1>2. priced \in Nat /\ Cardinality(active) \in Nat /\ Cardinality(active) > 0
  BY SumNat, FS_CardinalityType, FS_EmptySet
<1>3. weight \in [active -> Nat] /\ whole \in Nat /\ whole > 0
  <2> HIDE DEF priced
  <2> QED BY <1>2
<1>4. SumFunctionOnSet(weight, active) = whole
  <2>1. CASE priced > 0
    <3>1. \A t \in active : weight[t] = price[t]
      <4> HIDE DEF priced
      <4> QED BY <2>1
    <3> HIDE DEF weight
    <3>2. SumFunctionOnSet(weight, active) = SumFunctionOnSet(price, active)
      BY <3>1, SumSame
    <3> QED BY <3>2, <2>1
  <2>2. CASE ~(priced > 0)
    <3>1. \A t \in active : weight[t] = 1
      <4> HIDE DEF priced
      <4> QED BY <2>2
    <3> HIDE DEF weight
    <3>2. SumFunctionOnSet(weight, active) = Cardinality(active)
      BY <3>1, SumOnes
    <3> QED BY <3>2, <2>2
  <2> QED BY <2>1, <2>2
<1> HIDE DEF weight, whole
<1>5. \A t \in active : /\ MulDiv(left, weight[t], whole) \in Nat
                        /\ (2 * whole) * MulDiv(left, weight[t], whole) <= (2 * left) * weight[t] + whole
  BY <1>3, MulDivIs
<1>6. base \in [active -> Nat] /\ \A t \in active : (2 * whole) * base[t] <= (2 * left) * weight[t] + whole
  BY <1>5
<1>7. left = 0 => \A t \in active : base[t] = 0
  <2> SUFFICES ASSUME left = 0, NEW t \in active PROVE base[t] = 0
    OBVIOUS
  <2> DEFINE b == base[t]
             v == weight[t]
  <2>1. b \in Nat /\ v \in Nat /\ (2 * whole) * b <= (2 * left) * v + whole
    BY <1>3, <1>6
  <2>2. (2 * left) * v = 0
    <3> HIDE DEF b, v
    <3> QED BY <2>1, Z3
  <2>3. CASE b > 0
    <3>1. (2 * whole) * b >= 2 * whole
      <4> HIDE DEF b, v
      <4> QED BY <2>1, <2>3, <1>3, Z3
    <3> HIDE DEF b, v
    <3> QED BY <2>1, <2>2, <3>1, <1>3
  <2> QED BY <2>1, <2>3
<1> HIDE DEF base
<1>8. given \in Nat
  <2>1. \A t \in active : base[t] \in Nat
    BY <1>6
  <2> QED BY <2>1, SumNat
<1>9. 2 * given <= 2 * left + Cardinality(active)
  <2> DEFINE n == Cardinality(active)
  <2>1. (2 * whole) * given <= (2 * left) * whole + whole * n
    <3>1. /\ \A t \in active : base[t] \in Int /\ weight[t] \in Int
          /\ 2 * whole \in Int /\ 2 * left \in Int /\ whole \in Int
      BY <1>3, <1>6
    <3>2. (2 * whole) * SumFunctionOnSet(base, active)
            <= (2 * left) * SumFunctionOnSet(weight, active) + whole * Cardinality(active)
      BY <3>1, <1>6, SumScaled
    <3> QED BY <3>2, <1>4
  <2> HIDE DEF given, n
  <2>2. n \in Nat
    BY <1>2 DEF n
  <2>3. whole * (2 * given) <= whole * (2 * left + n)
    BY <2>1, <2>2, <1>3, <1>8, Z3
  <2>4. CASE 2 * given > 2 * left + n
    <3>1. 2 * given >= 2 * left + n + 1
      BY <2>2, <2>4, <1>8
    <3>2. whole * (2 * given) >= whole * (2 * left + n) + whole
      BY <2>2, <3>1, <1>3, <1>8, Z3
    <3> DEFINE a == whole * (2 * given)
               b == whole * (2 * left + n)
    <3>3. a \in Int /\ b \in Int
      BY <2>2, <1>3, <1>8, Z3
    <3> HIDE DEF a, b
    <3>4. a <= b /\ a >= b + whole
      BY <2>3, <3>2 DEF a, b
    <3> QED BY <3>3, <3>4, <1>3
  <2>5. 2 * given \in Int /\ 2 * left + n \in Int
    BY <2>2, <1>8
  <2> QED BY <2>4, <2>5 DEF n
<1>10. rest \in Nat
  <2> HIDE DEF given
  <2> QED BY <1>8
<1>11. Turns(s, rest, first)
  <2> HIDE DEF rest, first
  <2> QED BY <1>10, TurnsExist
<1>12. s[rest].face \in [active -> Nat] /\ SumFunctionOnSet(s[rest].face, active) = given + rest
  <2>1. first.face = base /\ first.weight = weight
    OBVIOUS
  <2>2. weight \in [active -> Int]
    BY <1>3
  <2> HIDE DEF s, first, rest
  <2> QED BY <1>6, <1>10, <1>11, <2>1, <2>2, TurnsGive
<1>13. left = 0 => \A t \in active : s[rest].face[t] = 0
  <2>1. left = 0 => rest = 0
    <3> HIDE DEF given
    <3> QED BY <1>8
  <2>2. left = 0 => s[rest] = first
    <3> HIDE DEF s, first, rest
    <3>1. left = 0 => 0 \in 0..rest
      BY <2>1
    <3> QED BY <1>11, <2>1, <3>1, TurnsAt
  <2>3. first.face = base
    OBVIOUS
  <2> HIDE DEF s, first, rest
  <2> QED BY <1>7, <2>2, <2>3
<1>14. left <= given + rest /\ 2 * (given + rest) <= 2 * left + Cardinality(active)
  <2> HIDE DEF given
  <2> QED BY <1>2, <1>8, <1>9
<1> HIDE DEF s, rest, given
<1> QED BY <1>1, <1>12, <1>13, <1>14

-----------------------------------------------------------------------------
(* The cents                                                               *)

\* An amount is a number of cents.
Cents == \A r \in RefundIds : Standing(r) => refund[r].face \in Nat
FaceInv == RefundInv /\ Cents /\ FaceIsBounded

LEMMA Finite == IsFiniteSet(RefundIds) /\ (\A o : RefundsOf(o) \subseteq RefundIds /\ IsFiniteSet(RefundsOf(o)))
<1>1. IsFiniteSet(RefundIds)
  BY RefundsAssumption, FS_Interval DEF RefundIds
<1> QED BY <1>1, FS_Subset DEF RefundsOf

\* What is refunded of an order, and its next value.
Faces == [r \in RefundIds |-> refund[r].face]

LEMMA RefundedType ==
  ASSUME Cents, NEW o
  PROVE  FaceRefunded(o) = SumFunctionOnSet(Faces, RefundsOf(o)) /\ FaceRefunded(o) \in Nat
<1>1. FaceRefunded(o) = SumFunctionOnSet(Faces, RefundsOf(o))
  BY DEF FaceRefunded, Faces
<1>2. \A r \in RefundsOf(o) : Faces[r] \in Nat
  BY DEF Cents, Faces, RefundsOf
<1>3. SumFunctionOnSet(Faces, RefundsOf(o)) \in Nat
  BY <1>2, Finite, SumNat
<1> QED BY <1>1, <1>3

\* No refund begins to stand.
LEMMA NoneMoreStands ==
  ASSUME FaceInv,
         \A r \in RefundIds : Standing(r)' =>
             Standing(r) /\ refund'[r].face = refund[r].face /\ refund'[r].order = refund[r].order
  PROVE  Cents' /\ FaceIsBounded'
<1>1. Cents /\ FaceIsBounded
  BY DEF FaceInv
<1>2. Cents'
  BY <1>1 DEF Cents
<1>3. ASSUME NEW o \in Orders PROVE FaceRefunded(o)' <= FaceRefunded(o) /\ FaceRefunded(o)' \in Nat
  <2> DEFINE S == RefundsOf(o)
             R == RefundsOf(o)'
             f == Faces
             g == Faces'
  <2>1. R \subseteq S /\ \A r \in R : g[r] = f[r]
    BY DEF RefundsOf, Faces
  <2>2. \A r \in S : f[r] \in Nat
    BY <1>1 DEF Cents, RefundsOf, Faces
  <2>3. IsFiniteSet(S)
    BY Finite
  <2>4. FaceRefunded(o) = SumFunctionOnSet(f, S)
    BY <1>1, RefundedType
  <2>5. FaceRefunded(o)' = SumFunctionOnSet(g, R)
    BY DEF FaceRefunded, Faces
  <2> HIDE DEF S, R, f, g
  <2>6. IsFiniteSet(R)
    BY <2>1, <2>3, FS_Subset
  <2>7. SumFunctionOnSet(g, R) = SumFunctionOnSet(f, R)
    BY <2>1, <2>6, SumSame
  <2>8. SumFunctionOnSet(f, R) \in Nat /\ SumFunctionOnSet(f, R) <= SumFunctionOnSet(f, S)
    BY <2>1, <2>2, <2>3, SumOfSome
  <2> QED BY <2>4, <2>5, <2>7, <2>8
<1>4. ASSUME NEW o \in Orders PROVE 2 * FaceRefunded(o)' <= 2 * Face[o] + Cardinality(TicketsOf(o))
  <2>1. 2 * FaceRefunded(o) <= 2 * Face[o] + Cardinality(TicketsOf(o)) /\ Face[o] \in Nat
    BY <1>1, RefundsAssumption DEF FaceIsBounded
  <2>2. Cardinality(TicketsOf(o)) \in Nat /\ FaceRefunded(o) \in Nat
    <3>1. IsFiniteSet(TicketsOf(o))
      BY RefundsAssumption, FS_Subset DEF TicketsOf
    <3> QED BY <3>1, <1>1, RefundedType, FS_CardinalityType
  <2> QED BY <2>1, <2>2, <1>3
<1>5. FaceIsBounded'
  BY <1>4 DEF FaceIsBounded
<1> QED BY <1>2, <1>5

\* What PrepareRefund asks back: with what the order's standing refunds gave back already, no
\* more than the face and half a cent for each ticket.
LEMMA PreparedFace ==
  ASSUME FaceInv, NEW o \in Orders, NEW asked \in SUBSET Tickets, NEW by, NEW override, MayPrepare(o, asked, override)
  PROVE  /\ Prepared(o, asked, by).face \in Nat
         /\ 2 * (FaceRefunded(o) + Prepared(o, asked, by).face) <= 2 * Face[o] + Cardinality(TicketsOf(o))
<1> DEFINE left  == Monus(Face[o], FaceRefunded(o))
           share == TicketFaces(Active(o), Price, left)
           lines == Lines(o, asked)
           face  == SumFunctionOnSet(share, lines)
           all   == SumFunctionOnSet(share, Active(o))
<1>1. Prepared(o, asked, by).face = face
  BY DEF Prepared
<1>2. lines # {} /\ lines \subseteq Active(o)
  BY DEF MayPrepare
<1>3. IsFiniteSet(TicketsOf(o)) /\ IsFiniteSet(Active(o)) /\ Active(o) \subseteq Tickets /\ Active(o) \subseteq TicketsOf(o)
  BY RefundsAssumption, FS_Subset DEF TicketsOf, Active
<1>4. /\ Cardinality(Active(o)) \in Nat /\ Cardinality(TicketsOf(o)) \in Nat
      /\ Cardinality(Active(o)) <= Cardinality(TicketsOf(o))
  BY <1>3, FS_Subset, FS_CardinalityType
<1>5. FaceRefunded(o) \in Nat /\ Face[o] \in Nat /\ 2 * FaceRefunded(o) <= 2 * Face[o] + Cardinality(TicketsOf(o))
  BY RefundedType, RefundsAssumption DEF FaceInv, FaceIsBounded
<1>6. left \in Nat
  BY <1>5 DEF Monus
<1>7. \A t \in Active(o) : Price[t] \in Nat
  BY <1>3, RefundsAssumption
<1> HIDE DEF left
<1>8. Active(o) # {}
  BY <1>2
<1>9. /\ share \in [Active(o) -> Nat]
      /\ 2 * all <= 2 * left + Cardinality(Active(o))
      /\ left = 0 => \A t \in Active(o) : share[t] = 0
  BY <1>3, <1>6, <1>7, <1>8, SharesCoverWhatIsLeft
<1> HIDE DEF share, lines
<1>10. face \in Nat /\ face <= all /\ all \in Nat
  <2>1. \A t \in Active(o) : share[t] \in Nat
    BY <1>9
  <2> QED BY <1>2, <1>3, <2>1, SumOfSome
<1>11. left = 0 => all = 0
  <2> SUFFICES ASSUME left = 0 PROVE all = 0
    OBVIOUS
  <2> DEFINE zero == [t \in Active(o) |-> 0]
  <2>1. \A t \in Active(o) : share[t] = zero[t] /\ 0 * share[t] \in Int
    BY <1>9
  <2>2. \A t \in Active(o) : share[t] \in Int /\ share[t] <= 0
    BY <1>9
  <2>3. 1 * all <= 0 * all + 0 * Cardinality(Active(o))
    <3>1. ASSUME NEW c \in Int, NEW d \in Int, c = 1, d = 0 PROVE c * all <= d * all + d * Cardinality(Active(o))
      <4>1. \A t \in Active(o) : share[t] \in Int /\ c * share[t] <= d * share[t] + d
        BY <2>2, <3>1
      <4> QED BY <4>1, <3>1, <1>3, SumScaled
    <3> QED BY <3>1
  <2> QED BY <2>3, <1>10, <1>4
<1>12. IF Face[o] > FaceRefunded(o) THEN left = Face[o] - FaceRefunded(o) ELSE left = 0
  BY <1>5 DEF left, Monus
<1> HIDE DEF face, all
<1>13. 2 * (FaceRefunded(o) + face) <= 2 * Face[o] + Cardinality(TicketsOf(o))
  BY <1>4, <1>5, <1>6, <1>9, <1>10, <1>11, <1>12
<1> QED BY <1>1, <1>10, <1>13

\* A refund begins to stand.
LEMMA OneMoreStands ==
  ASSUME FaceInv, NEW o \in Orders, NEW asked \in SUBSET Tickets, NEW by, NEW override, MayPrepare(o, asked, override),
         NEW r \in RefundIds, refund[r].status = "none",
         refund'[r].status \in {"pending", "confirmed"}, refund'[r].order = o,
         refund'[r].face = Prepared(o, asked, by).face,
         \A q \in RefundIds : q # r => refund'[q] = refund[q]
  PROVE  Cents' /\ FaceIsBounded'
<1> DEFINE face == Prepared(o, asked, by).face
<1>1. face \in Nat /\ 2 * (FaceRefunded(o) + face) <= 2 * Face[o] + Cardinality(TicketsOf(o))
  BY PreparedFace
<1>2. Cents /\ FaceIsBounded
  BY DEF FaceInv
<1>3. refund'[r].face = face
  OBVIOUS
<1> HIDE DEF face
<1>4. Cents'
  BY <1>1, <1>2, <1>3 DEF Cents, Standing
<1>5. ASSUME NEW u \in Orders
      PROVE  FaceRefunded(u)' = IF u = o THEN FaceRefunded(u) + face ELSE FaceRefunded(u)
  <2> DEFINE S == RefundsOf(u)
             R == RefundsOf(u)'
             f == Faces
             g == Faces'
  <2>1. R = (IF u = o THEN S \cup {r} ELSE S) /\ r \notin S
    BY DEF RefundsOf, Standing
  <2>2. /\ \A q \in S : g[q] = f[q] /\ f[q] \in Nat
        /\ g[r] = face
    BY <1>2, <1>3, <2>1 DEF Cents, RefundsOf, Faces
  <2>3. IsFiniteSet(S)
    BY Finite
  <2>4. FaceRefunded(u) = SumFunctionOnSet(f, S)
    BY <1>2, RefundedType
  <2>5. FaceRefunded(u)' = SumFunctionOnSet(g, R)
    BY DEF FaceRefunded, Faces
  <2> HIDE DEF S, R, f, g
  <2>6. SumFunctionOnSet(g, S) = SumFunctionOnSet(f, S) /\ SumFunctionOnSet(f, S) \in Nat
    BY <2>2, <2>3, SumSame, SumNat
  <2>7. u = o => SumFunctionOnSet(g, R) = face + SumFunctionOnSet(g, S)
    <3>1. \A y \in S \cup {r} : g[y] \in Int
      BY <1>1, <2>2
    <3>2. SumFunctionOnSet(g, S \cup {r}) = g[r] + SumFunctionOnSet(g, S)
      BY <2>1, <2>3, <3>1, SumAdd
    <3> QED BY <3>2, <2>1, <2>2
  <2> QED BY <1>1, <2>1, <2>4, <2>5, <2>6, <2>7
<1>6. FaceIsBounded'
  <2> SUFFICES ASSUME NEW u \in Orders PROVE 2 * FaceRefunded(u)' <= 2 * Face[u] + Cardinality(TicketsOf(u))
    BY DEF FaceIsBounded
  <2>1. 2 * FaceRefunded(u) <= 2 * Face[u] + Cardinality(TicketsOf(u))
    BY <1>2 DEF FaceIsBounded
  <2> QED BY <1>1, <1>5, <2>1
<1> QED BY <1>4, <1>6

\* A row that is given up stands no more.
LEMMA FailedFace ==
  ASSUME FaceInv, NEW p \in Processes, run[p].at \in {"release", "refused"}, FailRefund(run[p].ref)
  PROVE  Cents' /\ FaceIsBounded'
<1> DEFINE r == run[p].ref
           old == refund[r]
           row == IF r \in gateway[old.order] THEN [old EXCEPT !.status = "failed"] ELSE NoRefund
<1>1. RefundInv /\ HasRefund(p)
  BY DEF FaceInv, HasRefund, Working
<1>2. r \in RefundIds
  BY <1>1, Parts DEF InHand
<1>3. PICK V : refund \in [RefundIds -> Shape(V)]
  BY <1>1, Parts DEF RefundShape
<1>4. old \in Shape(V) /\ "failed" \in {"none", "pending", "confirmed", "failed"}
  BY <1>2, <1>3
<1>5. refund' = [refund EXCEPT ![r] = row]
  BY <1>3 DEF FailRefund
<1>6. row.status \in {"failed", "none"}
  <2> HIDE DEF old
  <2>1. [old EXCEPT !.status = "failed"].status = "failed"
    BY <1>4, StatusWritten
  <2> QED BY <2>1, NoRefundShape
<1>7. refund'[r] = row /\ \A q \in RefundIds : q # r => refund'[q] = refund[q]
  <2> HIDE DEF row, r
  <2> QED BY <1>2, <1>3, <1>5
<1> HIDE DEF row, r, old
<1>8. \A q \in RefundIds : Standing(q)' =>
          Standing(q) /\ refund'[q].face = refund[q].face /\ refund'[q].order = refund[q].order
  BY <1>6, <1>7 DEF Standing
<1> QED BY <1>8, NoneMoreStands

\* A row that is completed keeps its amount.
LEMMA CompletedFace ==
  ASSUME FaceInv, NEW p \in Processes, ApplyEffects(p)
  PROVE  Cents' /\ FaceIsBounded'
<1> DEFINE r == run[p].ref
           row == refund[r]
           done == [row EXCEPT !.status = "confirmed"]
<1>1. RefundInv /\ HasRefund(p)
  BY DEF FaceInv, ApplyEffects, HasRefund, Working
<1>2. r \in RefundIds /\ row.status = "pending"
  BY <1>1, Parts DEF InHand
<1>3. PICK V : refund \in [RefundIds -> Shape(V)]
  BY <1>1, Parts DEF RefundShape
<1>4. refund' = [refund EXCEPT ![r] = done]
  BY DEF ApplyEffects, CompleteRefund
<1>5. row \in Shape(V)
  BY <1>2, <1>3
<1> HIDE DEF row
<1>6. done.order = row.order /\ done.face = row.face
  BY <1>5 DEF Shape
<1> HIDE DEF done
<1>7. refund'[r] = done /\ \A q \in RefundIds : q # r => refund'[q] = refund[q]
  <2> HIDE DEF r
  <2> QED BY <1>2, <1>3, <1>4
<1>8. \A q \in RefundIds : Standing(q)' =>
          Standing(q) /\ refund'[q].face = refund[q].face /\ refund'[q].order = refund[q].order
  BY <1>2, <1>6, <1>7 DEF Standing, row
<1> QED BY <1>8, NoneMoreStands

\* A row that PrepareRefund inserts.
LEMMA ReservedFace ==
  ASSUME FaceInv, NEW p \in Processes, Reserve(p)
  PROVE  Cents' /\ FaceIsBounded'
<1> DEFINE o == run[p].order
           asked == run[p].tickets
           row == Prepared(o, asked, "api")
           r == FreshRefund
<1>1. RefundInv /\ run[p].at = "reserve"
  BY DEF FaceInv, Reserve
<1>2. CASE UNCHANGED refund
  <2>1. \A q \in RefundIds : Standing(q)' =>
          Standing(q) /\ refund'[q].face = refund[q].face /\ refund'[q].order = refund[q].order
    BY <1>2 DEF Standing
  <2> QED BY <2>1, NoneMoreStands
<1>3. ASSUME \E q \in RefundIds : Vacant(q), MayPrepare(o, asked, run[p].override),
             refund' = [refund EXCEPT ![r] = row]
      PROVE  Cents' /\ FaceIsBounded'
  <2>1. r \in RefundIds /\ refund[r].status = "none"
    BY <1>3, FreshIsVacant
  <2>2. o \in Orders /\ asked \in SUBSET Tickets
    BY <1>1, Parts, RunType
  <2>3. PICK V : refund \in [RefundIds -> Shape(V)]
    BY <1>1, Parts DEF RefundShape
  <2>4. row.status = "pending" /\ row.order = o
    BY DEF Prepared
  <2> DEFINE override == run[p].override
  <2>5. MayPrepare(o, asked, override) /\ refund' = [refund EXCEPT ![r] = row]
    BY <1>3
  <2> HIDE DEF r
  <2>6. refund'[r] = row /\ \A q \in RefundIds : q # r => refund'[q] = refund[q]
    <3> HIDE DEF row
    <3> QED BY <2>1, <2>3, <2>5
  <2> HIDE DEF o, asked, override
  <2>7. refund'[r].face = Prepared(o, asked, "api").face
    BY <2>6
  <2>8. refund'[r].status \in {"pending", "confirmed"} /\ refund'[r].order = o
    BY <2>4, <2>6
  <2> HIDE DEF row
  <2> QED BY <2>1, <2>2, <2>5, <2>6, <2>7, <2>8, OneMoreStands
<1> QED BY <1>2, <1>3 DEF Reserve

\* A refund made outside is inserted and completed at once.
LEMMA NoticedFace ==
  ASSUME FaceInv, NEW n \in notice, RefundPayment(n)
  PROVE  Cents' /\ FaceIsBounded'
<1> DEFINE r == FreshRefund
           o == n.order
           row == Prepared(o, {}, "webhook")
           done == [row EXCEPT !.status = "confirmed"]
<1>1. RefundInv /\ o \in Orders /\ {} \in SUBSET Tickets
  BY Parts DEF FaceInv, Typed, Notice
<1>2. MayPrepare(o, {}, TRUE) /\ \E q \in RefundIds : Vacant(q)
  BY DEF RefundPayment
<1>3. r \in RefundIds /\ refund[r].status = "none"
  BY <1>2, FreshIsVacant
<1>4. PICK V : refund \in [RefundIds -> Shape(V)]
  BY <1>1, Parts DEF RefundShape
<1>5. refund' = [refund EXCEPT ![r] = done]
  BY DEF RefundPayment, CompleteRefund
<1>6. done.status = "confirmed" /\ done.order = o /\ done.face = row.face
  <2>1. PICK W : row \in Shape(W)
    BY <1>1, <1>2, Parts, PreparedRow
  <2>2. row.order = o
    BY DEF Prepared
  <2> HIDE DEF row
  <2> QED BY <2>1, <2>2 DEF Shape
<1> HIDE DEF r
<1>7. refund'[r] = done /\ \A q \in RefundIds : q # r => refund'[q] = refund[q]
  <2> HIDE DEF done
  <2> QED BY <1>3, <1>4, <1>5
<1> HIDE DEF done
<1>8. refund'[r].status \in {"pending", "confirmed"} /\ refund'[r].order = o /\ refund'[r].face = Prepared(o, {}, "webhook").face
  BY <1>6, <1>7
<1> HIDE DEF row, o
<1> QED BY <1>1, <1>2, <1>3, <1>7, <1>8, OneMoreStands

LEMMA NextKeepsFace == FaceInv /\ [Next]_vars => FaceInv'
<1> SUFFICES ASSUME FaceInv, [Next]_vars PROVE FaceInv'
  OBVIOUS
<1>1. RefundInv'
  BY NextKeepsInv DEF FaceInv
<1>2. CASE UNCHANGED refund
  <2>1. \A q \in RefundIds : Standing(q)' =>
          Standing(q) /\ refund'[q].face = refund[q].face /\ refund'[q].order = refund[q].order
    BY <1>2 DEF Standing
  <2> QED BY <1>1, <2>1, NoneMoreStands DEF FaceInv
<1>3. ASSUME NEW p \in Processes, RunRefund(p) PROVE UNCHANGED refund \/ (Cents' /\ FaceIsBounded')
  <2>1. CASE Reserve(p)
    BY <2>1, ReservedFace
  <2>2. CASE GiveUpRefund(p) \/ GiveUpBoth(p)
    <3>1. run[p].at \in {"release", "refused"} /\ FailRefund(run[p].ref)
      BY <2>2 DEF GiveUpRefund, GiveUpBoth
    <3> QED BY <3>1, FailedFace
  <2>3. CASE ApplyEffects(p)
    BY <2>3, CompletedFace
  <2>4. CASE \/ FailRequest(p) \/ GatewayRefunds(p) \/ GatewayAnswerLost(p) \/ GatewayHasRefunded(p)
             \/ GiveUpRequest(p) \/ GiveUpFails(p) \/ EffectsFail(p)
    BY <2>4 DEF FailRequest, GatewayRefunds, GatewayAnswerLost, GatewayHasRefunded, GiveMoneyBack, GiveUpRequest,
                GiveUpFails, EffectsFail
  <2>5. ASSUME NEW where, GatewayDeclines(p, where) PROVE UNCHANGED refund
    BY <2>5 DEF GatewayDeclines
  <2> QED BY <1>3, <2>1, <2>2, <2>3, <2>4, <2>5 DEF RunRefund
<1>4. ASSUME NEW n \in notice, IgnoreNotice(n) \/ RefundPayment(n) PROVE UNCHANGED refund \/ (Cents' /\ FaceIsBounded')
  BY <1>4, NoticedFace DEF IgnoreNotice
<1>5. ASSUME People PROVE UNCHANGED refund
  <2>1. ASSUME NEW o \in Orders, NEW asked, NEW h, NEW override, AskRefund(h, o, asked, override) PROVE UNCHANGED refund
    BY <2>1 DEF AskRefund
  <2>2. ASSUME NEW o \in Orders, NEW asked, AskFavour(o, asked) PROVE UNCHANGED refund
    BY <2>2 DEF AskFavour
  <2>3. ASSUME NEW o \in Orders, NEW h, Approve(h, o) PROVE UNCHANGED refund
    BY <2>3 DEF Approve
  <2>4. ASSUME NEW o \in Orders, Reject(o) \/ ReopenCancelJob(o) \/ ConfirmPayment(o) PROVE UNCHANGED refund
    BY <2>4 DEF Reject, ReopenCancelJob, ConfirmPayment
  <2>5. ASSUME NEW o \in Orders, NEW described, RefundOutside(o, described) PROVE UNCHANGED refund
    BY <2>5 DEF RefundOutside
  <2>6. ASSUME NEW t \in Goers, Checkin(t) PROVE UNCHANGED refund
    BY <2>6 DEF Checkin
  <2>7. CancelEvent => UNCHANGED refund
    BY DEF CancelEvent
  <2> QED BY <1>5, <2>1, <2>2, <2>3, <2>4, <2>5, <2>6, <2>7 DEF People
<1>6. ASSUME NEW w \in Workers, WorkerStep(w) PROVE UNCHANGED refund
  BY <1>6 DEF WorkerStep, ClaimJobs, BeginJob, FinishCancelJob, RetryCancelJob, LoseCancelJob, CloseJob
<1>7. ASSUME NEW p \in Processes, Crash(p) PROVE UNCHANGED refund
  BY <1>7 DEF Crash
<1>8. UNCHANGED vars => UNCHANGED refund
  BY DEF vars, moving
<1>9. UNCHANGED refund \/ (Cents' /\ FaceIsBounded')
  <2>1. CASE UNCHANGED vars
    BY <1>8, <2>1
  <2>2. CASE Webhook
    BY <1>4, <2>2 DEF Webhook
  <2>3. CASE \E p \in Processes : RunRefund(p) \/ Crash(p)
    BY <1>3, <1>7, <2>3
  <2>4. CASE \E w \in Workers : WorkerStep(w)
    BY <1>6, <2>4
  <2> QED BY <1>5, <2>1, <2>2, <2>3, <2>4 DEF Next
<1> QED BY <1>1, <1>2, <1>9 DEF FaceInv

\* refund.go:541: however refunds of an order follow one another, fail and are asked again,
\* those that stand give back no more than its face and half a cent a ticket.
THEOREM RefundsStayWithinTheFace == Spec => []FaceIsBounded
<1>1. Init => FaceInv
  <2> SUFFICES ASSUME Init PROVE Cents /\ FaceIsBounded
    BY InitInv DEF FaceInv
  <2>1. \A r \in RefundIds : ~Standing(r)
    BY DEF Init, Standing, NoRefund
  <2>2. Cents
    BY <2>1 DEF Cents
  <2>3. ASSUME NEW o \in Orders PROVE 2 * FaceRefunded(o) <= 2 * Face[o] + Cardinality(TicketsOf(o))
    <3>1. RefundsOf(o) = {}
      BY <2>1 DEF RefundsOf
    <3>2. FaceRefunded(o) = 0
      BY <3>1, SumEmpty DEF FaceRefunded
    <3>3. Cardinality(TicketsOf(o)) \in Nat
      <4>1. IsFiniteSet(TicketsOf(o))
        BY RefundsAssumption, FS_Subset DEF TicketsOf
      <4> QED BY <4>1, FS_CardinalityType
    <3> QED BY <3>2, <3>3, RefundsAssumption
  <2> QED BY <2>2, <2>3 DEF FaceIsBounded
<1>2. FaceInv => FaceIsBounded
  BY DEF FaceInv
<1> QED BY <1>1, <1>2, NextKeepsFace, PTL DEF Spec
=============================================================================
