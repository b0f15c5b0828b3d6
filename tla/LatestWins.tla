------------------------------ MODULE LatestWins ------------------------------
(***************************************************************************)
(* The conflict predicate of latest_wins_upsert (src/db/upsert.py): which  *)
(* INSERT ... ON CONFLICT DO UPDATE replaces the row already stored.       *)
(*                                                                         *)
(* A stored row of bo.ledger_entries or bo.payment_orders is the event it  *)
(* was written from plus the ingested_at the consumer stamps:              *)
(*     [event |-> e, ingested_at |-> t]                                    *)
(* where e.updated_at and e.source_version may be NULL.  Timestamps and    *)
(* versions are naturals; only their order matters.                        *)
(***************************************************************************)
EXTENDS Integers

CONSTANT NULL                     \* SQL NULL / Python None

ASSUME NullAssumption == NULL \notin Int

Nullable(S) == S \cup {NULL}

\* "existing IS NULL OR incoming >= existing".
AtLeast(incoming, existing) == existing = NULL \/ incoming >= existing

\* A slip: a row with updated_at replaces whatever is stored.
RowWinsUnordered(inc, ex) ==
  \/ inc.event.updated_at # NULL
  \/ ex.event.updated_at = NULL

\* The WHERE clause for a table with a source_version column.
RowWins(inc, ex) ==
  LET i == inc.event
      x == ex.event
  IN \/ /\ i.updated_at # NULL
        /\ AtLeast(i.updated_at, x.updated_at)
     \/ /\ i.updated_at = NULL
        /\ i.source_version # NULL
        /\ AtLeast(i.source_version, x.source_version)
     \/ /\ i.updated_at = NULL /\ i.source_version = NULL
        /\ x.updated_at = NULL /\ x.source_version = NULL
        /\ inc.ingested_at >= ex.ingested_at

\* The WHERE clause for bo.payment_ledger_pairs: no source_version column, and
\* updated_at is NOT NULL on both sides.
PairWins(inc, ex) == inc.updated_at >= ex.updated_at

-------------------------------------------------------------------------------
(* Vocabulary of the properties: what "latest" means for a set of events. *)

\* Every event carries updated_at, or none does and every one carries a version.
UniformMetadata(events) ==
  \/ \A e \in events : e.updated_at # NULL
  \/ \A e \in events : e.updated_at = NULL /\ e.source_version # NULL

\* The metadata latest-wins compares when an event set is uniform.
Age(e) == IF e.updated_at # NULL THEN e.updated_at ELSE e.source_version

\* `row` holds the outcome of the events `seen` about one key: nothing if there
\* were none, else one of them, and of uniform ones (`known` are all the events
\* of the key) one no other is newer than.
IsLatestOf(row, seen, known) ==
  IF seen = {} THEN row = NULL
  ELSE /\ row # NULL
       /\ row.event \in seen
       /\ UniformMetadata(known) => \A e \in seen : Age(e) <= Age(row.event)
===============================================================================
