-------------------------------- MODULE Lots --------------------------------
(***************************************************************************)
(* The counters of a lot (ticket type): sold_count and held_count, bounded *)
(* by quantity.  Each operator is one UPDATE of catalog.go, as a function  *)
(* of the table `lt', so that a transaction can chain several of them.     *)
(***************************************************************************)
EXTENDS Integers, FiniteSets

CONSTANTS Lots,      \* rows of the lots table
          Quantity   \* lots.quantity, the capacity the producer declared

ASSUME QuantityAssumption == Quantity \in [Lots -> Nat]

Counters == [sold : Nat, held : Nat]

\* Mutant: the migration without lots_capacity_chk.
CapacityChkMutant(lt) == TRUE

\* The CHECK lots_capacity_chk, which the database applies to every UPDATE.
CapacityChk(lt) == \A l \in Lots : lt[l].sold + lt[l].held <= Quantity[l]

\* Mutant: held_count - n.
FloorMutant(held, n) == held - n

\* GREATEST(held_count - n, 0): the floor that hides a release too many.
Floor(held, n) == IF n <= held THEN held - n ELSE 0

\* The WHERE clause of ReserveFromLot; zero rows updated is ErrInsufficientStock.
Fits(lt, l, qty) == lt[l].sold + lt[l].held + qty <= Quantity[l]

ReserveFromLot(lt, l, qty) == [lt EXCEPT ![l].held = @ + qty]

\* held_count goes down by owed[l] on every lot, with the floor at 0.
ReleaseFromLots(lt, owed) == [l \in Lots |-> [lt[l] EXCEPT !.held = Floor(@, owed[l])]]

\* Mutant: one unit sold, whatever the quantity.
ConfirmFromLotMutant(lt, l, qty) ==
    [lt EXCEPT ![l] = [sold |-> @.sold + 1, held |-> Floor(@.held, qty)]]

ConfirmFromLot(lt, l, qty) ==
    [lt EXCEPT ![l] = [sold |-> @.sold + qty, held |-> Floor(@.held, qty)]]

=============================================================================
