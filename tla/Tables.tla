------------------------------- MODULE Tables -------------------------------
(***************************************************************************)
(* A table is a function from keys to rows: what a statement writes to it. *)
(***************************************************************************)

\* The rows of an INSERT or an UPDATE, over those the table has.
Over(rows, table) ==
    [k \in DOMAIN rows \cup DOMAIN table |-> IF k \in DOMAIN rows THEN rows[k] ELSE table[k]]

\* One row.
OneRow(key, row) == [k \in {key} |-> row]
=============================================================================
