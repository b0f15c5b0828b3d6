------------------------------ MODULE EventContract ------------------------------
(***************************************************************************)
(* The event contract: what the consumer and the backfill make of a        *)
(* payload.                                                                *)
(*                                                                         *)
(* A profile names, for the payloads of each kind, the fields that stand   *)
(* for one another (aliases) and the fields that must be there.            *)
(* normalize_payload_for_topic writes the value of each group of aliases   *)
(* under its canonical name; from_dict then reads the fields of the event. *)
(*                                                                         *)
(* A payload is a function from the fields it gives to values. A value is  *)
(* told apart only as far as the code does: "none" (null), "empty" (""),   *)
(* "blank" (white space), "zero" (the number 0), and others, compared      *)
(* after strip(). Texts a reader is given of an error are left out.        *)
(***************************************************************************)
EXTENDS Integers, Sequences

CONSTANTS
  RawAliases,   \* the aliases of the profile: by kind, by canonical name
  Required,     \* the core_required fields of each kind
  Times,        \* values that parse as a time
  Numbers,      \* values that parse as a decimal
  Versions      \* values that parse as an integer

Kinds == {"ledger", "payment_order"}

ASSUME ContractAssumption ==
  /\ DOMAIN RawAliases = Kinds /\ DOMAIN Required = Kinds
  /\ \A kind \in Kinds :
       \A k \in DOMAIN RawAliases[kind] : RawAliases[kind][k] \in Seq(STRING)
  /\ {"none", "empty", "blank"} \cap (Times \cup Numbers \cup Versions) = {}
  /\ "zero" \notin Times

\* The names of a group of aliases.
GroupOf(kind, k) == {k} \cup {RawAliases[kind][k][i] : i \in 1..Len(RawAliases[kind][k])}

\* Both profiles of configs/event_profiles.yaml have these groups, whose names
\* from_dict knows.
ASSUME ProfileAssumption ==
  /\ DOMAIN RawAliases["ledger"] = {"entry_type", "event_time", "version"}
  /\ DOMAIN RawAliases["payment_order"] = {"version"}
  /\ GroupOf("ledger", "entry_type") = {"entry_type", "type"}
  /\ GroupOf("ledger", "event_time") = {"event_time", "source_created_at", "created_at"}
  /\ \A kind \in Kinds : GroupOf(kind, "version") = {"version", "source_version"}

-------------------------------------------------------------------------------
(* The profile (src/consumer/contract_profile.py) *)

\* The canonical name comes first unless the profile puts it elsewhere.
ToAliasMap(raw) ==
  [k \in DOMAIN raw |->
     IF \E i \in 1..Len(raw[k]) : raw[k][i] = k THEN raw[k] ELSE <<k>> \o raw[k]]

Aliases == [kind \in Kinds |-> ToAliasMap(RawAliases[kind])]

-------------------------------------------------------------------------------
(* normalize_payload_for_topic (src/consumer/contract_normalizer.py) *)

\* payload.get(field)
Get(payload, f) == IF f \in DOMAIN payload THEN payload[f] ELSE "none"

IsMissing(v) == v \in {"none", "empty", "blank"}

Candidates(payload, names) ==
  {i \in 1..Len(names) : ~IsMissing(Get(payload, names[i]))}

\* The value of the first alias that has one.
FirstValue(payload, names) ==
  LET first == CHOOSE i \in Candidates(payload, names) :
                 \A j \in Candidates(payload, names) : i <= j
  IN Get(payload, names[first])

\* A slip: a conflict is looked for between neighbours only.
AliasConflictNearby(payload, names) ==
  \E i \in Candidates(payload, names) :
    /\ i + 1 \in Candidates(payload, names)
    /\ Get(payload, names[i]) # Get(payload, names[i + 1])

AliasConflict(payload, names) ==
  \E i \in Candidates(payload, names) :
    Get(payload, names[i]) # FirstValue(payload, names)

Resolved(kind, payload) ==
  {k \in DOMAIN Aliases[kind] : Candidates(payload, Aliases[kind][k]) # {}}

Normalize(kind, payload) ==
  [f \in DOMAIN payload \cup Resolved(kind, payload) |->
     IF f \in Resolved(kind, payload) THEN FirstValue(payload, Aliases[kind][f])
     ELSE payload[f]]

MissingRequired(kind, n) ==
  {f \in Required[kind] :
     IsMissing(Get(n, IF f = "event_time_or_alias" THEN "event_time" ELSE f))}

-------------------------------------------------------------------------------
(* from_dict (src/consumer/events.py) *)

\* Python's "a or b".
Or(a, b) == IF a \in {"none", "empty", "zero"} THEN b ELSE a

\* str(value or "").strip() leaves something
HasText(v) == v \notin {"none", "empty", "zero", "blank"}

Optional(v, parsed) == v = "none" \/ v \in parsed

\* str(value).strip() of an optional text
StripText(v) == IF v = "blank" THEN "empty" ELSE v

EntryType(n) == Or(Get(n, "entry_type"), Get(n, "type"))

EventTime(n) ==
  Or(Or(Get(n, "event_time"), Get(n, "source_created_at")), Get(n, "created_at"))

CreatedAt(n) ==
  Or(Or(Get(n, "source_created_at"), Get(n, "created_at")), Get(n, "event_time"))

Version(n) == Or(Get(n, "version"), Get(n, "source_version"))

WellFormedLedger(n) ==
  /\ HasText(Get(n, "tx_id")) /\ HasText(Get(n, "wallet_id")) /\ HasText(EntryType(n))
  /\ Get(n, "amount") \in Numbers
  /\ Optional(Get(n, "amount_signed"), Numbers)
  /\ EventTime(n) \in Times /\ CreatedAt(n) \in Times
  /\ Optional(Get(n, "updated_at"), Times)
  /\ Optional(Version(n), Versions)

LedgerEvent(n) ==
  [tx_id          |-> Get(n, "tx_id"),
   entry_type     |-> EntryType(n),
   related_id     |-> StripText(Get(n, "related_id")),
   event_time     |-> EventTime(n),
   created_at     |-> CreatedAt(n),
   updated_at     |-> Get(n, "updated_at"),
   source_version |-> Version(n)]

WellFormedOrder(n) ==
  /\ HasText(Get(n, "order_id")) /\ HasText(Get(n, "status"))
  /\ Get(n, "amount") \in Numbers
  /\ Get(n, "created_at") \in Times
  /\ Optional(Get(n, "updated_at"), Times)
  /\ Optional(Version(n), Versions)

OrderEvent(n) ==
  [order_id       |-> Get(n, "order_id"),
   status         |-> Get(n, "status"),
   created_at     |-> Get(n, "created_at"),
   updated_at     |-> Get(n, "updated_at"),
   source_version |-> Version(n)]

WellFormed(kind, n) ==
  IF kind = "ledger" THEN WellFormedLedger(n) ELSE WellFormedOrder(n)

EventFrom(kind, payload) ==
  IF kind = "ledger" THEN LedgerEvent(Normalize(kind, payload))
  ELSE OrderEvent(Normalize(kind, payload))

-------------------------------------------------------------------------------
(* What becomes of a payload: an event, or the class of its error
   (_classify_error in src/consumer/main.py). *)

Classify(kind, payload) ==
  LET n == Normalize(kind, payload)
  IN IF \E k \in DOMAIN Aliases[kind] : AliasConflict(payload, Aliases[kind][k])
     THEN "contract_core_violation"
     ELSE IF MissingRequired(kind, n) # {} \/ ~WellFormed(kind, n)
     THEN "parse_error" ELSE "event"

-------------------------------------------------------------------------------
(* What the contract says of a group of aliases, whatever their order *)

ValuesOf(kind, k, payload) ==
  {Get(payload, f) : f \in GroupOf(kind, k)} \ {"none", "empty", "blank"}

AliasesAgree(kind, payload) ==
  \A k \in DOMAIN RawAliases[kind] :
    \A v, w \in ValuesOf(kind, k, payload) : v = w

\* The field k of an event that was made of a payload with these values of the
\* group; the number 0 as a version counts as none.
Faithful(v, values) ==
  values \ {"zero"} # {} => v \in values
===============================================================================
