----------------------------- MODULE MoneyBack -----------------------------
(***************************************************************************)
(* What refunds promise: a ticket is sold, its money may be given back,    *)
(* and only then may it stop being valid -- for good.  Who asked, how the  *)
(* gateway was called and what failed on the way do not show.              *)
(***************************************************************************)
CONSTANT Tickets
VARIABLES sold, valid, returned

Init == sold = {} /\ valid = {} /\ returned = {}

Sell(S) == /\ S \cap sold = {}
           /\ sold' = sold \cup S /\ valid' = valid \cup S
           /\ UNCHANGED returned

Return(S) == /\ S \subseteq sold
             /\ returned' = returned \cup S
             /\ UNCHANGED <<sold, valid>>

Burn(S) == /\ S \subseteq valid \cap returned
           /\ valid' = valid \ S
           /\ UNCHANGED <<sold, returned>>

Next == \E S \in SUBSET Tickets : Sell(S) \/ Return(S) \/ Burn(S)

Spec == Init /\ [][Next]_<<sold, valid, returned>>
=============================================================================
