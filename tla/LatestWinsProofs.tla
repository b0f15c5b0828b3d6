---------------------------- MODULE LatestWinsProofs ----------------------------
(***************************************************************************)
(* Why the conflict predicate of latest_wins_upsert makes the outcome of a *)
(* set of events independent of the order they are applied in.             *)
(***************************************************************************)
EXTENDS LatestWins, TLAPS

HasMetadata(e) == /\ e.updated_at \in Nullable(Nat)
                  /\ e.source_version \in Nullable(Nat)

\* Among uniform events the predicate compares ages: an incoming event replaces
\* the stored one exactly when it is not older (latest_wins_upsert).
LEMMA WinsIsAge ==
  ASSUME NEW known, UniformMetadata(known), \A e \in known : HasMetadata(e),
         NEW r, NEW x, r.event \in known, x.event \in known
  PROVE  /\ Age(r.event) \in Nat
         /\ Age(x.event) \in Nat
         /\ RowWins(r, x) <=> Age(r.event) >= Age(x.event)
BY NullAssumption
   DEF UniformMetadata, HasMetadata, Nullable, RowWins, AtLeast, Age

\* One more upsert leaves the row the latest of the events seen, for a new event
\* and for one applied before (latest_wins_upsert on a present or absent row).
LEMMA LatestStep ==
  ASSUME NEW known, \A e \in known : HasMetadata(e),
         NEW seen \in SUBSET known, NEW row, IsLatestOf(row, seen, known),
         NEW r, r # NULL, r.event \in known
  PROVE  IsLatestOf(IF row = NULL \/ RowWins(r, row) THEN r ELSE row,
                    seen \cup {r.event}, known)
<1>1. CASE row = NULL
  <2>1. seen = {}
    BY <1>1 DEF IsLatestOf
  <2>2. UniformMetadata(known) => Age(r.event) <= Age(r.event)
    BY WinsIsAge
  <2> QED
    BY <1>1, <2>1, <2>2 DEF IsLatestOf
<1>2. CASE row # NULL
  <2>1. seen # {} /\ row.event \in seen
    BY <1>2 DEF IsLatestOf
  <2>2. CASE ~UniformMetadata(known)
    BY <1>2, <2>1, <2>2 DEF IsLatestOf
  <2>3. CASE UniformMetadata(known)
    <3>1. \A e \in seen : Age(e) <= Age(row.event)
      BY <1>2, <2>1, <2>3 DEF IsLatestOf
    <3>2. \A e \in seen : Age(e) \in Nat
      BY <2>3, NullAssumption DEF UniformMetadata, HasMetadata, Age, Nullable
    <3>3. /\ Age(r.event) \in Nat
          /\ Age(row.event) \in Nat
          /\ RowWins(r, row) <=> Age(r.event) >= Age(row.event)
      BY <2>1, <2>3, WinsIsAge
    <3>4. CASE RowWins(r, row)
      BY <1>2, <2>3, <3>1, <3>2, <3>3, <3>4 DEF IsLatestOf
    <3>5. CASE ~RowWins(r, row)
      BY <1>2, <2>1, <2>3, <3>1, <3>2, <3>3, <3>5 DEF IsLatestOf
    <3> QED BY <3>4, <3>5
  <2> QED BY <2>2, <2>3
<1> QED BY <1>1, <1>2

\* Any two histories that applied the same uniform events of a key, in whatever
\* order and however often, leave rows of the same age; the same event, if no two
\* have the same age (latest_wins_upsert makes redelivery and reordering harmless).
THEOREM OutcomeUnique ==
  ASSUME NEW known, \A e \in known : HasMetadata(e), UniformMetadata(known),
         NEW seen \in SUBSET known, NEW r, IsLatestOf(r, seen, known),
         NEW x, IsLatestOf(x, seen, known)
  PROVE  /\ r = NULL <=> x = NULL
         /\ r # NULL => Age(r.event) = Age(x.event)
         /\ (\A e, f \in seen : Age(e) = Age(f) => e = f) /\ r # NULL
              => r.event = x.event
<1>1. CASE seen = {}
  BY <1>1 DEF IsLatestOf
<1>2. CASE seen # {}
  <2>1. /\ r # NULL /\ r.event \in seen /\ \A e \in seen : Age(e) <= Age(r.event)
        /\ x # NULL /\ x.event \in seen /\ \A e \in seen : Age(e) <= Age(x.event)
    BY <1>2 DEF IsLatestOf
  <2>2. Age(r.event) \in Nat /\ Age(x.event) \in Nat
    BY <2>1, WinsIsAge
  <2>3. Age(r.event) = Age(x.event)
    BY <2>1, <2>2
  <2> QED BY <2>1, <2>3
<1> QED BY <1>1, <1>2
===============================================================================
