------------------------------ MODULE Importer ------------------------------
(***************************************************************************)
(* From rows of log files to a snapshot: connectors/importer.py with the   *)
(* mapping profiles of connectors/profile.py, the Okta collector that adds *)
(* the logins of an API to it (providers/okta.py), and the boundary of the *)
(* store that accepts a snapshot or not (schema.normalize).                *)
(*                                                                         *)
(* The files of all sources are rows at positions, in the order they are   *)
(* read in, each row with the kind of its source.  What is read of them    *)
(* are records at the positions of their rows.  A hash is what it was made *)
(* of, except in the identifier of an unclean name, which has a part of it.*)
(***************************************************************************)
EXTENDS Integers, FiniteSets, SequencesExt

CONSTANTS
  Profiles,       \* the profile of each kind of source
  CleanNames,     \* names that satisfy the rules of an identifier
  Digest(_),      \* of an unclean name, what its identifier keeps
  Unencodable,    \* strings JSON allows that cannot be encoded: half a surrogate pair
  Mistyped,       \* a constant or default of a profile that is not of its target's type
  LabelsAccepted, \* the files' names are legal labels, and there are 64 of them at most
  SourceBytes,    \* lines of one source that fill max_bytes
  SourceRows,     \* max_rows
  MaxAssets,      \* IMPORT_MAX_ASSETS
  MaxEvents,      \* IMPORT_MAX_EVENTS
  Policy,         \* unknown_assets: "record" or "skip"
  Skew,           \* the five minutes a clock may be ahead
  Lookback        \* window of the Okta collector

Kinds == {"asset", "login", "file_access"}
Null == "null"

\* TARGETS.  "mark" stands for the optional ones, which decide how a row is judged.
Targets ==
  [asset |-> {"at", "asset", "mark"},
   login |-> {"id", "at", "actor", "asset", "mark"},
   file_access |-> {"id", "at", "actor", "asset", "file", "mark"}]
Required == [k \in Kinds |-> Targets[k] \ {"id", "mark"}]

\* load(): a profile names targets of its kind, and every required one.
Load(kind, p) ==
  /\ Required[kind] \subseteq p.mapped /\ p.mapped \subseteq Targets[kind]
  /\ DOMAIN p.default \subseteq p.mapped

ASSUME ImporterAssumption ==
  /\ Policy \in {"record", "skip"} /\ Skew \in Nat /\ Lookback \in Nat
  /\ LabelsAccepted \in BOOLEAN /\ Mistyped # Null
  /\ SourceBytes \in Nat /\ SourceRows \in Nat /\ MaxAssets \in Nat /\ MaxEvents \in Nat
  /\ \A k \in Kinds : Load(k, Profiles[k])
  \* JSON has no times: a default for one is none, and iso() of it would raise.
  /\ \A k \in Kinds : "at" \notin DOMAIN Profiles[k].default

\* load() takes a constant or a default of any type.
Misconfigured ==
  \/ ~LabelsAccepted
  \/ \E k \in Kinds : \E t \in DOMAIN Profiles[k].default : Profiles[k].default[t] = Mistyped

----------------------------------------------------------------------------
(* Reading one source. *)

\* Targets of a row that _value() makes null: not mapped, or not readable, and no default.
Missing(row) ==
  LET p == Profiles[row.kind]
  IN ((Targets[row.kind] \ p.mapped) \cup row.unread) \ DOMAIN p.default

Value(row, target) ==
  IF target \in Missing(row) THEN Null
  ELSE IF target \in row.unread THEN Profiles[row.kind].default[target] ELSE row[target]

\* slug(): a name that breaks the rules is replaced by one no clean name can have.
Slug(name) == IF name \in CleanNames THEN <<"name", name>> ELSE <<"generated", Digest(name)>>

\* An event without an id of its own is named for its content.
Record(row) ==
  LET body == [id |-> Null, type |-> row.kind, at |-> Value(row, "at"),
               actor |-> Value(row, "actor"), asset |-> Slug(Value(row, "asset")),
               file |-> Value(row, "file"), mark |-> Value(row, "mark")]
  IN [body EXCEPT !.id =
        IF "id" \in Missing(row) THEN <<"content", body>> ELSE Slug(row.id)]

\* What cannot be parsed, or lacks a required target, is skipped and never guessed; of a
\* line that is no row at all nothing is readable.
Readable(row) == Missing(row) \cap Required[row.kind] = {}

\* The records of a source, each at the position of its row.
ReadSource(rows, kind) ==
  [i \in {i \in DOMAIN rows : rows[i].kind = kind /\ Readable(rows[i])} |-> Record(rows[i])]

----------------------------------------------------------------------------
(* Combining the sources. *)

Reissued(e) == [e EXCEPT !.id = <<"reissued", e>>]

\* Whoever has the id of records[i] before it: an event there already, or an earlier record.
Before(events, records, i) ==
  {e \in events \cup {records[j] : j \in {j \in DOMAIN records : j < i}} : e.id = records[i].id}

AddEvents_Evict(events, records) ==  \* mutant: a record whose id is taken is a duplicate
  events \cup {records[i] : i \in {i \in DOMAIN records : Before(events, records, i) = {}}}

\* The first record of an id keeps it.  One that is sent again is dropped, and one with
\* another content gets an id of its own.
AddEvents(events, records) ==
  LET first == {i \in DOMAIN records : Before(events, records, i) = {}}
      named == events \cup {records[i] : i \in first}
  IN named \cup {Reissued(r) : r \in ToSet(records) \ named}

KeepNewest_All(records) == ToSet(records)  \* mutant: every row of the inventory is kept

\* The row observed last wins, and of two observed at one time the one read last.
KeepNewest(records) ==
  {records[i] : i \in {i \in DOMAIN records : \A j \in DOMAIN records :
     records[j].asset = records[i].asset =>
       records[j].at < records[i].at \/ (records[j].at = records[i].at /\ j <= i)}}

Asset(record) == [asset |-> record.asset, at |-> record.at, mark |-> record.mark]
UnknownAsset(id, at) == [asset |-> id, at |-> at, mark |-> Null]

Times(records) == {r.at : r \in records}

\* Assets that only events name are recorded as unknown, or their events are left out.
Shadow(assets, events) == {e.asset : e \in events} \ {r.asset : r \in assets}

WithShadow(assets, events, stamp, provenance) ==
  LET shadow == Shadow(assets, events)
  IN [as_of |-> stamp, provenance |-> provenance,
      assets |-> assets \cup (IF Policy = "record"
                              THEN {UnknownAsset(id, stamp) : id \in shadow} ELSE {}),
      events |-> IF Policy = "record" THEN events ELSE {e \in events : e.asset \notin shadow}]

Evidence(all) ==
  AddEvents(AddEvents({}, ReadSource(all, "login")), ReadSource(all, "file_access"))

\* build_snapshot(): rows dated beyond the skew are dropped, events and assets alike.
BuildSnapshot(rows, digest, now) ==
  LET Current(records) == {r \in records : r.at <= now + Skew}
      inventory == ReadSource(rows, "asset")
      assets == Current({Asset(r) : r \in KeepNewest(inventory)})
      events == Current(Evidence(rows))
      newest == Times(assets) \cup Times(events)
  IN WithShadow(assets, events, IF newest = {} THEN now ELSE Max(newest),
                [digest |-> digest, rows_read |-> Cardinality(DOMAIN rows), live |-> <<>>])

----------------------------------------------------------------------------
(* What ends the reading of all sources: row.raises is what reading a row raises. *)

OfSource(all, kind) == {i \in DOMAIN all : all[i].kind = kind}

\* _check(): a file that is too large is not opened.
Oversized(all) == \E k \in Kinds : Cardinality(OfSource(all, k)) > SourceBytes

\* The names of a row; a profile lists them before the other targets, and they are looked
\* at although the row is skipped for one of those.
Names(row) ==
  {Value(row, t) : t \in (Targets[row.kind] \cap {"id", "asset"}) \ Missing(row)}

AllNames(all) == UNION {Names(all[i]) : i \in DOMAIN all}

\* Two names, of whatever sources, with one identifier.
Collides(all) == \E n, m \in AllNames(all) : n # m /\ Slug(n) = Slug(m)

Encodes(events) == \A e \in events : {e.actor, e.file} \cap Unencodable = {}

\* Only for an event that is named for its content the importer encodes it.
Hashed(events) == {e \in events : e.id[1] \in {"content", "reissued"}}

\* Too many rows, a cell that is too large for csv, names that collide or cannot be encoded.
Denies(all) ==
  \/ \E k \in Kinds : Cardinality(OfSource(all, k)) > SourceRows
  \/ \E i \in DOMAIN all : all[i].raises = "csv.Error"
  \/ Collides(all)
  \/ AllNames(all) \cap Unencodable # {}
  \/ ~Encodes(Hashed(Evidence(all)))

\* A time near the first or the last year with an offset: _timestamp() converts it to UTC
\* after its try, and astimezone() raises.
Overflows(all) == \E i \in DOMAIN all : all[i].raises = "OverflowError"

----------------------------------------------------------------------------
(* The Okta collector. *)

IsLogin(row) == row.kind = "login"

\* _map_login(): the conditions of a login are unknown, and it is one of the provider's.
MapLogin(record) == [record EXCEPT !.asset = Slug("okta-idp"), !.mark = Null]

\* What the API answers, and the logins among it.
OktaWindow(rows, now) ==
  {i \in DOMAIN rows : IsLogin(rows[i]) /\ rows[i].at \in (now - Lookback)..now}

OktaLogins(rows, now) ==
  [i \in {i \in OktaWindow(rows, now) : Readable(rows[i])} |-> MapLogin(Record(rows[i]))]

\* collect() refuses too many rows, and encodes all of them, the illegible ones too.
OktaDenies(rows, now) ==
  \/ Cardinality(OktaWindow(rows, now)) > SourceRows
  \/ ~Encodes({rows[i] : i \in OktaWindow(rows, now)})

\* collect(): the logins of the window join the snapshot of the files.
Collect(snapshot, logins) ==
  LET events == AddEvents(snapshot.events, logins)
  IN WithShadow(snapshot.assets, events, Max({snapshot.as_of} \cup Times(events)),
                [snapshot.provenance EXCEPT !.live = logins])

\* max(as_of, *()) has one argument, which it cannot iterate: a TypeError.
CollectRaises(snapshot, logins) == snapshot.events = {} /\ logins = <<>>

----------------------------------------------------------------------------
(* The boundary of the store. *)

Fits(snapshot) ==
  Cardinality(snapshot.assets) <= MaxAssets /\ Cardinality(snapshot.events) <= MaxEvents

Typed(records) == \A r \in records : r.mark # Mistyped

\* normalize(), for the reasons a document of the importer could be refused.
Normalizes(snapshot, now) ==
  /\ snapshot.as_of <= now + Skew
  /\ snapshot.assets # {} /\ Fits(snapshot)
  /\ LabelsAccepted
  /\ Typed(snapshot.assets) /\ Typed(snapshot.events)
  /\ \A a, b \in snapshot.assets : a.asset = b.asset => a = b
  /\ \A a \in snapshot.assets : a.at <= snapshot.as_of + Skew
  /\ \A e \in snapshot.events :
       /\ \E a \in snapshot.assets : a.asset = e.asset
       /\ e.at <= snapshot.as_of + Skew
       /\ \A o \in snapshot.events : o.id = e.id => o = e
=============================================================================
