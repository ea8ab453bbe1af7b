---------------------------- MODULE MCBackstage ----------------------------
(***************************************************************************)
(* The outbox with the season passes that speak through it, the anchors,   *)
(* and the table of fees.  They share no row: the run takes one side at a  *)
(* time, chosen at the start, which reaches what each of them can reach    *)
(* and not every pair.  The passes have two sides: of one date, with the   *)
(* workers that mail what the notices say; and of two dates, with more     *)
(* notices and the refunds of the api, where nobody mails.                 *)
(***************************************************************************)
EXTENDS Season, Anchors, Fees

CONSTANTS o1, d1, g3, m1, m2,
          Pairs,  \* the sets of notices of the side "mail"
          Series  \* and of the side "passes"
VARIABLE side

MCWriters == Confirming \cup Refunding \cup Filling
MCReplicaOf == [c \in Callers |-> IF c = g3 THEN m2 ELSE m1]
MCOrderOf == [w \in MCWriters |-> o1]
MCDeliveries == Pairs \cup Series
MCKeyed == ({"ticket"} \X Orders \X Dates \X Confirming) \cup ({"refunded"} \X Orders)

\* What the side not taken chooses at the start makes no difference.
Unnoticed == LET S == CHOOSE S \in Deliveries : TRUE
             IN  notice = [w \in Writers |-> IF w \in S THEN New ELSE Ended]

Come == {w \in Writers : notice[w].at = "new"}

\* The side "mail" leaves out the dates but one, and the refunds of the api.
Mailing == pass' \subseteq {d1} /\ (tickets' = tickets \/ notice' # notice)

vars == <<outbox, season, anchors, fees, side>>

Init == /\ OutboxInit /\ SeasonInit /\ AnchorsInit /\ FeesInit
        /\ \/ side = "mail" /\ up /\ enabled /\ Come \in Pairs
           \/ side = "passes" /\ up /\ enabled /\ Come \in Series
           \/ side = "anchors" /\ up /\ Unnoticed
           \/ side = "fees" /\ enabled /\ Unnoticed

Next == /\ \/ side = "mail" /\ SeasonNext /\ Mailing /\ UNCHANGED <<anchors, fees>>
           \/ side = "passes" /\ SeasonNext /\ UNCHANGED <<worker, inbox, faults, anchors, fees>>
           \/ side = "anchors" /\ AnchorsNext /\ UNCHANGED <<outbox, season, fees>>
           \/ side = "fees" /\ FeesNext /\ UNCHANGED <<outbox, season, anchors>>
        /\ UNCHANGED side

Mail(A) == side = "mail" /\ A /\ UNCHANGED <<season, anchors, fees, side>>
Anchor(A) == side = "anchors" /\ A /\ UNCHANGED <<outbox, season, fees, side>>
Sale(A) == side = "mail" /\ A /\ UNCHANGED <<worker, inbox, faults, anchors, fees, side>>
Fee(A) == side = "fees" /\ A /\ UNCHANGED <<outbox, season, anchors, side>>

\* The workers' loops (the anchor worker has one only if its anchorer is enabled), the
\* deadlines, and transactions that end: nobody buys, asks or is notified because
\* of fairness.
Fairness ==
    /\ \A k \in Workers : WF_vars(Mail(Pass(k)))
    /\ WF_vars(Mail(\E id \in DOMAIN notes : FallDue(id)))
    /\ \A w \in Writers : WF_vars(Sale(Commit(w) \/ Rollback(w)))
    /\ \A k \in AnchorWorkers : WF_vars(Anchor(AnchorPass(k)))
    /\ WF_vars(Anchor(\E j \in DOMAIN jobs : JobFallsDue(j)))
    /\ \A r \in Requests : WF_vars(Anchor(EnqueueAnchor(r) \/ MarkPending(r)))
    /\ \A c \in Callers : WF_vars(Fee(CallStep(c)))
    /\ \A r \in Replicas : WF_vars(Fee(Expire(r)))

FairSpec == Init /\ [][Next]_vars /\ Fairness

TypeOK == OutboxTypeOK /\ SeasonTypeOK /\ AnchorsTypeOK /\ FeesTypeOK

\* Neither queue keeps anything for good, where there are workers.
QueuesDrain == <>[](side # "passes" => Settled) /\ AnchorsEnd
=============================================================================
