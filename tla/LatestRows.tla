------------------------------ MODULE LatestRows ------------------------------
(***************************************************************************)
(* A latest-wins table as its writers should see it: each event applied to *)
(* it is one atomic merge with the row of its key.  Events of one key need *)
(* not carry comparable metadata; then the outcome depends on the order of *)
(* the merges, but it is always that of some order.                        *)
(***************************************************************************)
EXTENDS LatestWins

CONSTANTS
  Keys,       \* primary keys of the table
  Incoming    \* the rows each key may be offered

VARIABLES
  rows,       \* the stored row of each key, or NULL
  merged      \* history: the events merged so far

tableVars == <<rows, merged>>

TableInit ==
  /\ rows = [k \in Keys |-> NULL]
  /\ merged = {}

\* What the upsert of `new` leaves where `old` was stored.
Merged(old, new) == IF old = NULL \/ RowWins(new, old) THEN new ELSE old

Merge(k, new) ==
  /\ rows' = [rows EXCEPT ![k] = Merged(@, new)]
  /\ merged' = merged \cup {new.event}

TableNext == \E k \in Keys : \E new \in Incoming[k] : Merge(k, new)

TableSpec == TableInit /\ [][TableNext]_tableVars
===============================================================================
