-------------------------- MODULE MonitoringProofs --------------------------
(***************************************************************************)
(* Theorems about Monitoring, for any rows, inventories, documents and     *)
(* requests, any profiles and any bounds.  First what the operators of     *)
(* Importer make of rows, then the invariant of the monitor.               *)
(***************************************************************************)
EXTENDS Monitoring, DetectionProofs

----------------------------------------------------------------------------
(* Records and events. *)

\* An event has these fields, its time is a time, and its mark is of its type unless a
\* profile says otherwise.
IsEvent(e) ==
  /\ e = [id |-> e.id, type |-> e.type, at |-> e.at, actor |-> e.actor, asset |-> e.asset,
          file |-> e.file, mark |-> e.mark]
  /\ e.at \in Int
  /\ ~Misconfigured => e.mark # Mistyped

\* The id is the one the row came with, or was made for its content.
Raw(e) == e.id[1] # "reissued"

\* An id that was given in place of another tells whose it is.
Named(e) == e.id[1] = "reissued" => e = Reissued(e.id[2])

UniqueIds(events) == \A e, o \in events : e.id = o.id => e = o

Events(events) ==
  /\ IsFiniteSet(events) /\ UniqueIds(events)
  /\ \A e \in events : IsEvent(e) /\ Named(e)

Records(records) ==
  /\ IsFiniteSet(DOMAIN records) /\ DOMAIN records \subseteq Int
  /\ \A i \in DOMAIN records : IsEvent(records[i]) /\ Raw(records[i])

----------------------------------------------------------------------------
(* The invariant. *)

\* A snapshot the store accepts at the time of the poll or later.
Sound(snapshot) ==
  /\ snapshot.as_of \in Int /\ snapshot.as_of <= began + Skew
  /\ snapshot.assets # {} /\ (~Misconfigured => Typed(snapshot.assets))
  /\ \A a, b \in snapshot.assets : a.asset = b.asset => a = b
  /\ \A a \in snapshot.assets : a.at \in Int /\ a.at <= snapshot.as_of
  /\ Events(snapshot.events)
  /\ \A e \in snapshot.events :
       e.at <= snapshot.as_of /\ \E a \in snapshot.assets : a.asset = e.asset

\* A handler is a stage and the input it looked at.
HandlerInv ==
  handler = [h \in Handlers |-> [stage |-> handler[h].stage, sid |-> handler[h].sid]]

\* What a poll has in hand: hashed rows that are still there, a snapshot that is sound.
PollInv ==
  /\ began <= now
  /\ \A i \in DOMAIN digest : i \in DOMAIN rows /\ digest[i] = rows[i]
  /\ stage \in {"built", "collected"} => Sound(collected)
  /\ stage = "built" => connector # "file-import"

\* Whoever ingested it, the current input is one that the store accepted.
CurrentInv == Legible(current.events)

IInv == TypeOK /\ HandlerInv /\ GateFollowsRequest /\ PollInv /\ EvidenceKept /\ CurrentInv

----------------------------------------------------------------------------
(* Lemmas about the operators of Importer. *)

LEMMA RecordIsEvent ==
  ASSUME NEW row, Readable(row), row.kind \in Kinds, row.at \in Int, row.mark # Mistyped
  PROVE  LET r == Record(row)
         IN IsEvent(r) /\ Raw(r) /\ r.type = row.kind /\ r.at = row.at
<1>1. Value(row, "at") = row.at
  <2>1. row.kind \in Kinds /\ "at" \in Required[row.kind]
    BY DEF Kinds, Required, Targets
  <2>2. "at" \notin Missing(row) /\ "at" \notin DOMAIN Profiles[row.kind].default
    BY <2>1, ImporterAssumption DEF Readable
  <2>3. "at" \in Targets[row.kind]
    BY <2>1 DEF Required
  <2>4. "at" \notin row.unread
    BY <2>2 DEF Missing
  <2> QED BY <2>2, <2>4 DEF Value
<1>2. \A name : Slug(name)[1] # "reissued"
  BY DEF Slug
<1>3. ~Misconfigured => Value(row, "mark") # Mistyped
  <2>1. CASE "mark" \in Missing(row)
    <3>1. Value(row, "mark") = Null
      BY <2>1 DEF Value
    <3>2. Mistyped # Null
      BY ImporterAssumption
    <3> QED BY <3>1, <3>2
  <2>2. CASE "mark" \notin Missing(row) /\ "mark" \in row.unread
    <3>1. "mark" \in DOMAIN Profiles[row.kind].default
      BY <2>2 DEF Missing
    <3> QED BY <2>2, <3>1 DEF Value, Misconfigured
  <2>3. CASE "mark" \notin Missing(row) /\ "mark" \notin row.unread
    BY <2>3 DEF Value
  <2> QED BY <2>1, <2>2, <2>3
<1> QED BY <1>1, <1>2, <1>3 DEF Record, IsEvent, Raw

LEMMA ReissuedIsEvent ==
  ASSUME NEW e, IsEvent(e)
  PROVE  LET r == Reissued(e)
         IN /\ IsEvent(r) /\ Named(r) /\ r.id = <<"reissued", e>>
            /\ Body(r) = Body(e) /\ r.at = e.at /\ r.asset = e.asset /\ r.type = e.type
  BY DEF IsEvent, Reissued, Named, Body

\* The login of the provider that a record of one becomes.
LEMMA MappedIsEvent ==
  ASSUME NEW e, IsEvent(e), Raw(e)
  PROVE  IsEvent(MapLogin(e)) /\ Raw(MapLogin(e)) /\ MapLogin(e).at = e.at
<1> DEFINE provider == Slug("okta-idp")
<1>1. MapLogin(e) = [id |-> e.id, type |-> e.type, at |-> e.at, actor |-> e.actor,
                     asset |-> provider, file |-> e.file, mark |-> Null]
  <2>1. MapLogin(e) = [e EXCEPT !.asset = provider, !.mark = Null]
    BY DEF MapLogin
  <2> HIDE DEF provider
  <2> QED BY <2>1 DEF IsEvent
<1> QED BY <1>1, ImporterAssumption DEF IsEvent, Raw

\* What joining records to events keeps: the events there were, and every record under
\* an id of its own.
LEMMA AddEventsKeeps ==
  ASSUME NEW events, NEW records, Events(events), Records(records)
  PROVE  LET all == AddEvents(events, records)
         IN /\ Events(all) /\ events \subseteq all
            /\ \A e \in all \ events : \E i \in DOMAIN records :
                 /\ Body(e) = Body(records[i])
                 /\ e.at = records[i].at /\ e.asset = records[i].asset
            /\ \A i \in DOMAIN records : \E e \in all : Body(e) = Body(records[i])
<1> DEFINE first == {i \in DOMAIN records : Before(events, records, i) = {}}
           named == events \cup {records[i] : i \in first}
           others == ToSet(records) \ named
           all == named \cup {Reissued(r) : r \in others}
<1>0. AddEvents(events, records) = all
  BY DEF AddEvents
<1>1. \A r \in ToSet(records) : \E i \in DOMAIN records : r = records[i]
  BY DEF ToSet
<1>2. \A r \in ToSet(records) : IsEvent(r) /\ Raw(r) /\ Named(r)
  BY <1>1 DEF Records, Raw, Named
<1>3. \A e \in named : IsEvent(e) /\ Named(e)
  BY <1>2 DEF Events, ToSet
<1>4. \A e, o \in named : e.id = o.id => e = o
  <2>1. ASSUME NEW i \in first, NEW o \in events PROVE records[i].id # o.id
    BY DEF Before
  <2>2. ASSUME NEW i \in first, NEW j \in first, records[i].id = records[j].id
        PROVE  records[i] = records[j]
    <3>1. i \in Int /\ j \in Int
      BY DEF Records
    <3>2. ~(i < j) /\ ~(j < i)
      BY <2>2 DEF Before
    <3> QED BY <3>1, <3>2
  <2> QED BY <2>1, <2>2 DEF Events, UniqueIds
<1>5. \A r \in others : IsEvent(r) /\ IsEvent(Reissued(r)) /\ Named(Reissued(r))
                       /\ Reissued(r).id = <<"reissued", r>>
                       /\ Body(Reissued(r)) = Body(r)
                       /\ Reissued(r).at = r.at /\ Reissued(r).asset = r.asset
  BY <1>2, ReissuedIsEvent
<1>6. ASSUME NEW e \in named, NEW r \in others, e.id = Reissued(r).id
      PROVE  e = Reissued(r)
  <2>1. e.id = <<"reissued", r>>
    BY <1>5, <1>6
  <2> QED BY <2>1, <1>3 DEF Named
<1>7. ASSUME NEW q \in others, NEW r \in others, Reissued(q).id = Reissued(r).id
      PROVE  q = r
  BY <1>5, <1>7
<1>8. Events(all)
  <2>1. IsFiniteSet(named) /\ IsFiniteSet(others)
    <3>1. IsFiniteSet(first) /\ IsFiniteSet(DOMAIN records) /\ IsFiniteSet(events)
      BY FS_Subset DEF Records, Events
    <3>2. IsFiniteSet({records[i] : i \in first}) /\ IsFiniteSet(ToSet(records))
      <4> HIDE DEF first
      <4>1. [i \in first |-> records[i]] \in Surjection(first, {records[i] : i \in first})
        BY DEF Surjection
      <4>2. [i \in DOMAIN records |-> records[i]] \in Surjection(DOMAIN records, ToSet(records))
        BY DEF Surjection, ToSet
      <4> QED BY <3>1, <4>1, <4>2, FS_Surjection
    <3> HIDE DEF first
    <3> QED BY <3>1, <3>2, FS_Union, FS_Difference
  <2> HIDE DEF named, others
  <2>2. UniqueIds(all)
    BY <1>4, <1>6, <1>7 DEF UniqueIds
  <2>3. IsFiniteSet({Reissued(r) : r \in others})
    <3>1. [r \in others |-> Reissued(r)] \in Surjection(others, {Reissued(r) : r \in others})
      BY DEF Surjection
    <3> QED BY <2>1, <3>1, FS_Surjection
  <2>4. IsFiniteSet(all)
    BY <2>1, <2>3, FS_Union
  <2> QED BY <2>2, <2>4, <1>3, <1>5 DEF Events
<1>9. \A e \in all \ events : \E i \in DOMAIN records :
         Body(e) = Body(records[i]) /\ e.at = records[i].at /\ e.asset = records[i].asset
  BY <1>1, <1>5
<1>10. \A i \in DOMAIN records : \E e \in all : Body(e) = Body(records[i])
  BY <1>5 DEF ToSet
<1> QED BY <1>0, <1>8, <1>9, <1>10

LEMMA FewerEvents ==
  ASSUME NEW events, Events(events), NEW kept, kept \subseteq events
  PROVE  Events(kept)
<1>1. IsFiniteSet(kept)
  BY FS_Subset DEF Events
<1> QED BY <1>1 DEF Events, UniqueIds

\* The rows are a function on positions, each of a source, with a time and a mark.
Sources(all) ==
  /\ IsFiniteSet(DOMAIN all) /\ DOMAIN all \subseteq Int
  /\ \A i \in DOMAIN all :
       all[i].kind \in Kinds /\ all[i].at \in Int /\ all[i].mark # Mistyped

\* The records of a source are those of its readable rows.
LEMMA SourceIsRecords ==
  ASSUME NEW all, Sources(all), NEW kind
  PROVE  LET source == ReadSource(all, kind)
         IN /\ Records(source)
            /\ DOMAIN source = {i \in DOMAIN all : all[i].kind = kind /\ Readable(all[i])}
            /\ \A i \in DOMAIN source : source[i] = Record(all[i])
<1> DEFINE source == ReadSource(all, kind)
<1>1. /\ DOMAIN source = {i \in DOMAIN all : all[i].kind = kind /\ Readable(all[i])}
      /\ \A i \in DOMAIN source : source[i] = Record(all[i])
  BY DEF ReadSource
<1>2. IsFiniteSet(DOMAIN source)
  <2> HIDE DEF source
  <2> QED BY <1>1, FS_Subset DEF Sources
<1> HIDE DEF source
<1>3. Records(source)
  BY <1>1, <1>2, RecordIsEvent DEF Sources, Records
<1> QED BY <1>1, <1>3 DEF source

\* Of the inventory's rows of one name, one is kept.
LEMMA NewestIsOne ==
  ASSUME NEW records, Records(records)
  PROVE  /\ KeepNewest(records) \subseteq ToSet(records)
         /\ \A r, q \in KeepNewest(records) : r.asset = q.asset => r = q
<1> DEFINE last == {i \in DOMAIN records : \A j \in DOMAIN records :
                     records[j].asset = records[i].asset =>
                       \/ records[j].at < records[i].at
                       \/ records[j].at = records[i].at /\ j <= i}
<1>1. \A i \in last : i \in Int /\ records[i].at \in Int
  BY DEF Records, IsEvent
<1>2. \A i, j \in last : records[i].asset = records[j].asset => i = j
  BY <1>1
<1>3. KeepNewest(records) = {records[i] : i \in last}
  BY DEF KeepNewest
<1>4. last \subseteq DOMAIN records
  OBVIOUS
<1> HIDE DEF last
<1> QED BY <1>2, <1>3, <1>4 DEF ToSet

\* Assets, each observed once and by stamp, and events of that time: with the assets that
\* only events name, or without those events, they are a sound snapshot.
LEMMA ShadowIsSound ==
  ASSUME NEW assets, NEW events, NEW stamp \in Int, NEW provenance,
         stamp <= began + Skew,
         \A a, b \in assets : a.asset = b.asset => a = b,
         \A a \in assets : a.at \in Int /\ a.at <= stamp,
         ~Misconfigured => Typed(assets),
         Events(events), \A e \in events : e.at <= stamp
  PROVE  LET s == WithShadow(assets, events, stamp, provenance)
         IN /\ s.assets # {} => Sound(s)
            /\ assets \subseteq s.assets /\ s.events \subseteq events
            /\ Policy = "record" => s.events = events
<1> DEFINE shadow == Shadow(assets, events)
           unknown == {UnknownAsset(id, stamp) : id \in shadow}
           s == WithShadow(assets, events, stamp, provenance)
<1>1. /\ s.as_of = stamp
      /\ s.assets = assets \cup (IF Policy = "record" THEN unknown ELSE {})
      /\ s.events = IF Policy = "record" THEN events
                    ELSE {e \in events : e.asset \notin shadow}
  BY DEF WithShadow
<1>2. \A u \in unknown : u.asset \in shadow /\ u = UnknownAsset(u.asset, stamp) /\ u.at = stamp
                      /\ u.mark = Null
  BY DEF UnknownAsset
<1>3. \A id \in shadow : \E u \in unknown : u.asset = id
  <2> SUFFICES ASSUME NEW id \in shadow PROVE UnknownAsset(id, stamp).asset = id
    OBVIOUS
  <2> QED BY DEF UnknownAsset
<1>4. \A e \in events : e.asset \notin shadow => \E a \in assets : a.asset = e.asset
  BY DEF Shadow
<1>5. \A a \in assets : a.asset \notin shadow
  BY DEF Shadow
<1>6. /\ assets \subseteq s.assets /\ s.events \subseteq events
      /\ Policy = "record" => s.events = events
  BY <1>1
<1>7. ASSUME s.assets # {} PROVE Sound(s)
  <2> HIDE DEF shadow, unknown, s
  <2>1. \A a, b \in s.assets : a.asset = b.asset => a = b
    BY <1>1, <1>2, <1>5
  <2>2. /\ \A a \in s.assets : a.at \in Int /\ a.at <= s.as_of
        /\ ~Misconfigured => Typed(s.assets)
    BY <1>1, <1>2, ImporterAssumption DEF Typed
  <2>3. Events(s.events) /\ \A e \in s.events : e.at <= s.as_of
    BY <1>1, <1>6, FewerEvents
  <2>4. \A e \in s.events : \E a \in s.assets : a.asset = e.asset
    BY <1>1, <1>3, <1>4
  <2> QED BY <1>1, <1>7, <2>1, <2>2, <2>3, <2>4 DEF Sound
<1> QED BY <1>6, <1>7

\* Every snapshot that is built is sound; its events are those of readable rows; and with
\* the policy "record" no such row of the past is without its event.
LEMMA BuildIsSound ==
  ASSUME NEW all, Sources(all), NEW hash, began \in Int
  PROVE  LET s == BuildSnapshot(all, hash, began)
         IN /\ s.assets # {} => Sound(s)
            /\ \A e \in s.events : \E i \in DOMAIN all :
                 Readable(all[i]) /\ Body(e) = Body(Record(all[i]))
            /\ \A i \in DOMAIN all :
                 /\ Policy = "record" /\ Readable(all[i])
                 /\ Record(all[i]).type # "asset" /\ Record(all[i]).at <= began + Skew
                 => \E e \in s.events : Body(e) = Body(Record(all[i]))
<1> DEFINE Current(records) == {r \in records : r.at <= began + Skew}
           inventory == ReadSource(all, "asset")
           loginSource == ReadSource(all, "login")
           accessSource == ReadSource(all, "file_access")
           logins == AddEvents({}, loginSource)
           logs == AddEvents(logins, accessSource)
           assets == Current({Asset(r) : r \in KeepNewest(inventory)})
           events == Current(logs)
           newest == Times(assets) \cup Times(events)
           stamp == IF newest = {} THEN began ELSE Max(newest)
           provenance == [digest |-> hash, rows_read |-> Cardinality(DOMAIN all),
                           live |-> <<>>]
           s == BuildSnapshot(all, hash, began)
<1>1. s = WithShadow(assets, events, stamp, provenance)
  BY DEF BuildSnapshot, Evidence
<1>2. /\ Records(inventory) /\ Records(loginSource) /\ Records(accessSource)
      /\ \A source \in {loginSource, accessSource} : \A i \in DOMAIN source :
           i \in DOMAIN all /\ Readable(all[i]) /\ source[i] = Record(all[i])
      /\ \A i \in DOMAIN all : Readable(all[i]) =>
           /\ all[i].kind = "login" => i \in DOMAIN loginSource
           /\ all[i].kind = "file_access" => i \in DOMAIN accessSource
  <2>1. /\ Records(inventory) /\ Records(loginSource)
        /\ DOMAIN loginSource = {i \in DOMAIN all : all[i].kind = "login" /\ Readable(all[i])}
        /\ \A i \in DOMAIN loginSource : loginSource[i] = Record(all[i])
    BY SourceIsRecords
  <2>2. /\ Records(accessSource)
        /\ DOMAIN accessSource =
             {i \in DOMAIN all : all[i].kind = "file_access" /\ Readable(all[i])}
        /\ \A i \in DOMAIN accessSource : accessSource[i] = Record(all[i])
    BY SourceIsRecords
  <2> HIDE DEF inventory, loginSource, accessSource
  <2> QED BY <2>1, <2>2
<1>3. Events({})
  BY FS_EmptySet DEF Events, UniqueIds
<1>4. /\ Events(logins)
      /\ \A e \in logins : \E i \in DOMAIN loginSource : Body(e) = Body(loginSource[i])
      /\ \A i \in DOMAIN loginSource : \E e \in logins : Body(e) = Body(loginSource[i])
  <2> HIDE DEF loginSource
  <2> QED BY <1>2, <1>3, AddEventsKeeps
<1>5. /\ Events(logs) /\ logins \subseteq logs
      /\ \A e \in logs \ logins :
           \E i \in DOMAIN accessSource : Body(e) = Body(accessSource[i])
      /\ \A i \in DOMAIN accessSource : \E e \in logs : Body(e) = Body(accessSource[i])
  <2> HIDE DEF logins, accessSource
  <2> QED BY <1>2, <1>4, AddEventsKeeps
<1>6. /\ events \subseteq logs /\ Events(events)
      /\ \A e \in events : e.at \in Int /\ e.at <= began + Skew
  <2>1. events \subseteq logs /\ \A e \in events : e.at <= began + Skew
    OBVIOUS
  <2> HIDE DEF logs, events
  <2>2. Events(events)
    BY <1>5, <2>1, FewerEvents
  <2> QED BY <2>1, <2>2 DEF Events, IsEvent
<1>7. /\ \A a, b \in assets : a.asset = b.asset => a = b
      /\ \A a \in assets : a.at \in Int /\ a.at <= began + Skew
      /\ ~Misconfigured => Typed(assets)
  <2>1. \A r \in KeepNewest(inventory) : IsEvent(r)
    BY <1>2, NewestIsOne DEF Records, ToSet
  <2>2. \A r, q \in KeepNewest(inventory) : r.asset = q.asset => r = q
    BY <1>2, NewestIsOne
  <2>3. \A r : Asset(r).asset = r.asset /\ Asset(r).at = r.at /\ Asset(r).mark = r.mark
    BY DEF Asset
  <2> HIDE DEF inventory
  <2> QED BY <2>1, <2>2, <2>3 DEF IsEvent, Typed
<1>8. began + Skew \in Int /\ began <= began + Skew
  BY ImporterAssumption
<1>9. newest \subseteq Int /\ \A t \in newest : t <= began + Skew
  BY <1>6, <1>7 DEF Times
<1>10. /\ stamp \in Int /\ stamp <= began + Skew
       /\ \A t \in newest : t <= stamp
  <2> HIDE DEF newest
  <2>1. CASE newest = {}
    BY <2>1, <1>8
  <2>2. CASE newest # {}
    BY <1>8, <1>9, MaxIsGreatest
  <2> QED BY <2>1, <2>2
<1>11. (\A a \in assets : a.at <= stamp) /\ (\A e \in events : e.at <= stamp)
  BY <1>10 DEF Times
<1>12. /\ s.assets # {} => Sound(s)
       /\ s.events \subseteq events
       /\ Policy = "record" => s.events = events
  <2> HIDE DEF assets, events, stamp, provenance, s
  <2> QED BY <1>1, <1>6, <1>7, <1>10, <1>11, ShadowIsSound
<1>13. ASSUME NEW e \in s.events
       PROVE  \E i \in DOMAIN all : Readable(all[i]) /\ Body(e) = Body(Record(all[i]))
  <2>1. e \in logs
    BY <1>12
  <2> HIDE DEF logs, logins, loginSource, accessSource, s
  <2>2. PICK source \in {loginSource, accessSource} :
          \E i \in DOMAIN source : Body(e) = Body(source[i])
    BY <2>1, <1>4, <1>5
  <2> QED BY <2>2, <1>2
<1>14. ASSUME NEW i \in DOMAIN all, Policy = "record", Readable(all[i]),
              Record(all[i]).type # "asset", Record(all[i]).at <= began + Skew
       PROVE  \E e \in s.events : Body(e) = Body(Record(all[i]))
  <2>1. all[i].kind \in {"login", "file_access"}
    BY <1>14, RecordIsEvent DEF Sources, Kinds
  <2>2. PICK e \in logs : Body(e) = Body(Record(all[i]))
    <3> HIDE DEF logs, logins, loginSource, accessSource
    <3> QED BY <2>1, <1>14, <1>2, <1>4, <1>5
  <2>3. e.at = Record(all[i]).at
    BY <2>2 DEF Body
  <2>4. e \in events
    BY <2>3, <1>14
  <2> QED BY <2>2, <2>4, <1>12, <1>14
<1> HIDE DEF events
<1> QED BY <1>12, <1>13, <1>14

\* The logins of the provider join a sound snapshot, which stays one.
LEMMA CollectIsSound ==
  ASSUME NEW snapshot, Sound(snapshot), NEW all, Sources(all), began \in Int
  PROVE  Sound(Collect(snapshot, OktaLogins(all, began)))
<1> DEFINE logins == OktaLogins(all, began)
           events == AddEvents(snapshot.events, logins)
           newest == {snapshot.as_of} \cup Times(events)
           stamp == Max(newest)
           provenance == [snapshot.provenance EXCEPT !.live = logins]
           s == Collect(snapshot, logins)
<1>1. s = WithShadow(snapshot.assets, events, stamp, provenance)
  BY DEF Collect
<1>2. Records(logins) /\ \A i \in DOMAIN logins : logins[i].at <= began
  <2> DEFINE inside == {i \in OktaWindow(all, began) : Readable(all[i])}
  <2>1. \A i \in inside : /\ i \in DOMAIN all /\ Readable(all[i])
                          /\ all[i].at \in (began - Lookback)..began
    BY DEF OktaWindow
  <2>2. \A i \in inside : LET e == MapLogin(Record(all[i]))
                          IN IsEvent(e) /\ Raw(e) /\ e.at = all[i].at
    BY <2>1, RecordIsEvent, MappedIsEvent DEF Sources
  <2>3. DOMAIN logins = inside /\ \A i \in inside : logins[i] = MapLogin(Record(all[i]))
    BY DEF OktaLogins
  <2> HIDE DEF logins, inside
  <2>4. IsFiniteSet(DOMAIN logins) /\ DOMAIN logins \subseteq Int
    BY <2>1, <2>3, FS_Subset DEF Sources
  <2>5. \A i \in inside : all[i].at <= began
    BY <2>1, ImporterAssumption
  <2> QED BY <2>2, <2>3, <2>4, <2>5 DEF Records
<1>3. Events(snapshot.events) /\ \A e \in snapshot.events : e.at <= began + Skew
  <2>1. \A e \in snapshot.events : e.at \in Int /\ e.at <= snapshot.as_of
    BY DEF Sound, Events, IsEvent
  <2> QED BY <2>1, ImporterAssumption DEF Sound
<1>4. /\ Events(events)
      /\ \A e \in events \ snapshot.events : \E i \in DOMAIN logins : e.at = logins[i].at
  <2> HIDE DEF logins
  <2> QED BY <1>2, <1>3, AddEventsKeeps
<1>5. \A e \in events : e.at \in Int /\ e.at <= began + Skew
  <2>1. \A e \in events : e.at \in Int
    BY <1>4 DEF Events, IsEvent
  <2> HIDE DEF logins, events
  <2> QED BY <2>1, <1>2, <1>3, <1>4, ImporterAssumption
<1>6. newest \subseteq Int /\ newest # {} /\ \A t \in newest : t <= began + Skew
  BY <1>5 DEF Times, Sound
<1>7. stamp \in Int /\ stamp <= began + Skew /\ \A t \in newest : t <= stamp
  <2>1. began + Skew \in Int
    BY ImporterAssumption
  <2> HIDE DEF newest
  <2> QED BY <2>1, <1>6, MaxIsGreatest
<1>8. snapshot.as_of <= stamp /\ \A e \in events : e.at <= stamp
  BY <1>7 DEF Times
<1>9. /\ \A a \in snapshot.assets : a.at \in Int /\ a.at <= stamp
      /\ \A a, b \in snapshot.assets : a.asset = b.asset => a = b
      /\ ~Misconfigured => Typed(snapshot.assets)
  <2> HIDE DEF events, stamp
  <2> QED BY <1>7, <1>8 DEF Sound
<1>10. /\ s.assets # {} => Sound(s)
       /\ snapshot.assets \subseteq s.assets
  <2> HIDE DEF events, stamp, provenance, s
  <2> QED BY <1>1, <1>4, <1>7, <1>8, <1>9, ShadowIsSound
<1>11. snapshot.assets # {}
  BY DEF Sound
<1> HIDE DEF s
<1>12. Sound(s)
  BY <1>10, <1>11
<1> QED BY <1>12 DEF s

----------------------------------------------------------------------------
(* The sources. *)

LEMMA FilesAreSources ==
  ASSUME TypeOK
  PROVE  /\ Sources(rows) /\ Sources(FileRows(rows))
         /\ \A i \in DOMAIN FileRows(rows) : i \in DOMAIN rows /\ FileRows(rows)[i] = rows[i]
         /\ connector = "file-import" => DOMAIN FileRows(rows) = DOMAIN rows
<1>1. /\ IsFiniteSet(DOMAIN rows) /\ DOMAIN rows \subseteq Int
      /\ \A i \in DOMAIN rows : rows[i] \in Lines
  <2>1. DOMAIN rows = 1..Len(rows) /\ Len(rows) \in Nat
    BY DEF TypeOK
  <2>2. IsFiniteSet(1..Len(rows))
    BY <2>1, FS_Interval
  <2>3. \A i \in 1..Len(rows) : rows[i] \in Lines
    BY DEF TypeOK
  <2> QED BY <2>1, <2>2, <2>3
<1>2. Sources(rows)
  <2>1. \A row \in Lines : row.kind \in Kinds /\ row.at \in Int /\ row.mark # Mistyped
    BY MonitoringAssumption
  <2> QED BY <1>1, <2>1 DEF Sources
<1>3. /\ \A i \in DOMAIN FileRows(rows) : i \in DOMAIN rows /\ FileRows(rows)[i] = rows[i]
      /\ connector = "file-import" => DOMAIN FileRows(rows) = DOMAIN rows
  BY DEF FileRows, Restrict
<1>4. IsFiniteSet(DOMAIN FileRows(rows))
  BY <1>1, <1>3, FS_Subset
<1> QED BY <1>2, <1>3, <1>4 DEF Sources

LEMMA RowsGrow ==
  ASSUME TypeOK, NEW row \in Rows, Write(row)
  PROVE  /\ rows' \in Seq(Lines) /\ Len(rows') <= MaxRows
         /\ \A i \in DOMAIN rows : i \in DOMAIN rows' /\ rows'[i] = rows[i]
<1>1. row \in Lines
  BY DEF Lines
<1> QED BY <1>1, MonitoringAssumption DEF TypeOK, Write

----------------------------------------------------------------------------
(* The steps. *)

LEMMA SoundIsLegible ==
  ASSUME NEW snapshot, Sound(snapshot)
  PROVE  Legible(snapshot.events)
  BY DEF Sound, Events, UniqueIds, IsEvent, Legible

LEMMA InitHolds == Init => IInv
<1> SUFFICES ASSUME Init PROVE IInv
  OBVIOUS
<1>1. rows \in Seq(Lines) /\ Len(rows) <= MaxRows
  BY MonitoringAssumption DEF Init
<1>2. None.assets = {}
  BY DEF None
<1>3. TypeOK
  BY <1>2, MonitoringAssumption DEF Init, TypeOK, Stages, HandlerStages
<1>4. HandlerInv /\ GateFollowsRequest
  BY MonitoringAssumption DEF Init, HandlerInv, GateFollowsRequest
<1>5. PollInv /\ EvidenceKept /\ CurrentInv
  BY FS_EmptySet DEF Init, PollInv, EvidenceKept, CurrentInv, Legible, None
<1> QED BY <1>3, <1>4, <1>5 DEF IInv

LEMMA WriteKeeps ==
  ASSUME IInv, NEW row \in Rows, Write(row)
  PROVE  IInv'
<1>1. UNCHANGED <<connector, now, pollVars, fingerprint, current, serverVars, writes, faults>>
  BY DEF Write
<1>2. /\ rows' \in Seq(Lines) /\ Len(rows') <= MaxRows
      /\ \A i \in DOMAIN rows : i \in DOMAIN rows' /\ rows'[i] = rows[i]
  BY RowsGrow DEF IInv
<1>3. TypeOK'
  BY <1>1, <1>2 DEF IInv, TypeOK, pollVars, serverVars
<1>4. HandlerInv' /\ GateFollowsRequest' /\ CurrentInv'
  BY <1>1 DEF IInv, HandlerInv, GateFollowsRequest, CurrentInv, serverVars
<1>5. PollInv'
  BY <1>1, <1>2 DEF IInv, PollInv, Sound, pollVars
<1>6. EvidenceKept'
  <2>1. ToSet(rows) \subseteq ToSet(rows')
    BY <1>2 DEF ToSet
  <2> QED BY <1>1, <2>1 DEF IInv, EvidenceKept, pollVars
<1> QED BY <1>3, <1>4, <1>5, <1>6 DEF IInv

LEMMA TickKeeps ==
  ASSUME IInv, Tick
  PROVE  IInv'
<1>1. TypeOK'
  BY MonitoringAssumption DEF IInv, Tick, TypeOK, pollVars, serverVars
<1>2. HandlerInv' /\ GateFollowsRequest' /\ CurrentInv'
  BY DEF IInv, Tick, HandlerInv, GateFollowsRequest, CurrentInv, serverVars
<1>3. PollInv'
  BY DEF IInv, TypeOK, Tick, PollInv, Sound, pollVars
<1>4. EvidenceKept'
  BY DEF IInv, Tick, EvidenceKept, pollVars
<1> QED BY <1>1, <1>2, <1>3, <1>4 DEF IInv

LEMMA HashKeeps ==
  ASSUME IInv, Hash
  PROVE  IInv'
<1>1. TypeOK'
  BY DEF IInv, Hash, TypeOK, Stages, sourceVars, serverVars
<1>2. HandlerInv' /\ GateFollowsRequest' /\ CurrentInv'
  BY DEF IInv, Hash, HandlerInv, GateFollowsRequest, CurrentInv, serverVars
<1>3. PollInv'
  BY FilesAreSources DEF IInv, TypeOK, Hash, PollInv, sourceVars
<1>4. EvidenceKept'
  BY DEF Hash, EvidenceKept
<1> QED BY <1>1, <1>2, <1>3, <1>4 DEF IInv

LEMMA BuildKeeps ==
  ASSUME IInv, Build
  PROVE  IInv'
<1> DEFINE files == FileRows(rows)
           s == BuildSnapshot(files, digest, began)
<1>1. /\ UNCHANGED <<sourceVars, fingerprint, current, serverVars, writes, faults>>
      /\ \/ Wait
         \/ stage = "hashed" /\ stage' = "dead" /\ UNCHANGED <<began, digest, collected>>
         \/ /\ s.assets # {} /\ collected' = s /\ UNCHANGED <<began, digest>>
            /\ stage' = IF connector = "file-import" THEN "collected" ELSE "built"
  BY DEF Build, EndByOverflow, RefuseFiles, ReadFiles
<1>2. /\ s.assets # {} => Sound(s)
      /\ \A e \in s.events : \E i \in DOMAIN files :
           Readable(files[i]) /\ Body(e) = Body(Record(files[i]))
      /\ \A i \in DOMAIN files :
           /\ Policy = "record" /\ Readable(files[i])
           /\ Record(files[i]).type # "asset" /\ Record(files[i]).at <= began + Skew
           => \E e \in s.events : Body(e) = Body(Record(files[i]))
  <2>1. Sources(files) /\ began \in Int
    BY FilesAreSources DEF IInv, TypeOK
  <2> HIDE DEF files
  <2> QED BY <2>1, BuildIsSound
<1>3. /\ \A i \in DOMAIN files : i \in DOMAIN rows /\ files[i] = rows[i]
      /\ connector = "file-import" => DOMAIN files = DOMAIN rows
  BY FilesAreSources DEF IInv
<1> HIDE DEF files, s
<1>4. TypeOK'
  BY <1>1, MonitoringAssumption DEF IInv, TypeOK, Wait, Stages, None, sourceVars,
                                    serverVars
<1>5. HandlerInv' /\ GateFollowsRequest' /\ CurrentInv'
  BY <1>1 DEF IInv, HandlerInv, GateFollowsRequest, CurrentInv, serverVars
<1>6. PollInv'
  BY <1>1, <1>2 DEF IInv, TypeOK, PollInv, Wait, Sound, sourceVars
<1>7. CASE Wait
  BY <1>4, <1>5, <1>6, <1>7 DEF IInv, EvidenceKept, Wait
<1>9. CASE stage' = "dead"
  BY <1>4, <1>5, <1>6, <1>9 DEF IInv, EvidenceKept
<1>8. CASE collected' = s /\ UNCHANGED <<began, digest>> /\ s.assets # {}
  <2> SUFFICES ASSUME stage' = "collected", connector = "file-import"
               PROVE  EvidenceKept'
    BY <1>1, <1>4, <1>5, <1>6 DEF IInv, EvidenceKept, sourceVars
  <2>1. {Body(e) : e \in s.events} \subseteq
          {Body(e) : e \in {Record(row) : row \in {row \in ToSet(rows) : Readable(row)}}}
    BY <1>2, <1>3 DEF ToSet
  <2>2. ASSUME NEW r \in {Record(row) : row \in {row \in ToSet(digest) : Readable(row)}},
               r.type # "asset", r.at <= began + Skew, Policy = "record"
        PROVE  \E e \in s.events : Body(e) = Body(r)
    <3>1. PICK i \in DOMAIN digest : Readable(digest[i]) /\ r = Record(digest[i])
      BY DEF ToSet
    <3>2. i \in DOMAIN files /\ files[i] = digest[i]
      BY <1>3 DEF IInv, PollInv
    <3> QED BY <3>1, <3>2, <2>2, <1>2
  <2>3. \A e, o \in s.events : e.id = o.id => e = o
    BY <1>8, <1>2 DEF Sound, Events, UniqueIds
  <2> QED BY <1>8, <1>1, <2>1, <2>2, <2>3 DEF EvidenceKept, sourceVars
<1> QED BY <1>1, <1>7, <1>8, <1>9

\* A poll that is over leaves nothing to keep.
LEMMA OverKeeps ==
  ASSUME IInv, UNCHANGED <<sourceVars, serverVars, writes>>,
         collected' = None, began' = 0, digest' = <<>>,
         stage' \in {"waiting", "down"}, faults' \in 0..MaxFaults,
         current'.assets = {} <=> current' = None, CurrentInv'
  PROVE  IInv'
<1>1. TypeOK'
  BY MonitoringAssumption DEF IInv, TypeOK, Stages, None, sourceVars, serverVars
<1>2. HandlerInv' /\ GateFollowsRequest'
  BY DEF IInv, HandlerInv, GateFollowsRequest, serverVars
<1>3. PollInv' /\ EvidenceKept'
  BY DEF IInv, TypeOK, PollInv, EvidenceKept, sourceVars
<1> QED BY <1>1, <1>2, <1>3 DEF IInv

\* A poll of Okta is refused, raises, or makes a sound snapshot of a sound one.
LEMMA AskOktaKeeps ==
  ASSUME IInv, AskOkta
  PROVE  IInv'
<1> DEFINE logins == OktaLogins(rows, began)
<1>1. /\ UNCHANGED <<sourceVars, fingerprint, current, serverVars, writes, faults>>
      /\ stage = "built" /\ connector # "file-import"
      /\ \/ Wait
         \/ stage' = "dead" /\ UNCHANGED <<began, digest, collected>>
         \/ /\ stage' = "collected" /\ collected' = Collect(collected, logins)
            /\ UNCHANGED <<began, digest>>
  BY DEF AskOkta, IInv, PollInv
<1>2. CASE Wait
  BY <1>1, <1>2, OverKeeps DEF IInv, TypeOK, Wait, CurrentInv
<1>3. CASE ~Wait
  <2>1. Sound(collected) /\ Sound(Collect(collected, logins))
    BY <1>1, FilesAreSources, CollectIsSound DEF IInv, TypeOK, PollInv
  <2> HIDE DEF logins
  <2>2. TypeOK'
    BY <1>1, <1>3, <2>1 DEF IInv, TypeOK, Stages, Sound, None, sourceVars, serverVars
  <2>3. HandlerInv' /\ GateFollowsRequest' /\ CurrentInv'
    BY <1>1 DEF IInv, HandlerInv, GateFollowsRequest, CurrentInv, serverVars
  <2>4. PollInv'
    BY <1>1, <1>3, <2>1 DEF IInv, PollInv, Sound, sourceVars
  <2>5. EvidenceKept'
    BY <1>1 DEF EvidenceKept, sourceVars
  <2> QED BY <2>2, <2>3, <2>4, <2>5 DEF IInv
<1> QED BY <1>2, <1>3

LEMMA IngestKeeps ==
  ASSUME IInv, Ingest
  PROVE  IInv'
<1>1. CASE current' = current
  BY <1>1, OverKeeps DEF IInv, TypeOK, Ingest, Wait, CurrentInv
<1>2. CASE current' = collected
  <2>1. CurrentInv'
    BY <1>2, SoundIsLegible DEF IInv, PollInv, Ingest, CurrentInv
  <2> QED BY <1>2, <2>1, OverKeeps DEF IInv, TypeOK, Ingest, Wait
<1> QED BY <1>1, <1>2 DEF Ingest

LEMMA RestartKeeps ==
  ASSUME IInv, Restart
  PROVE  IInv'
  BY OverKeeps DEF IInv, TypeOK, Restart, Wait, CurrentInv

LEMMA FailKeeps ==
  ASSUME IInv, Fail \/ Crash
  PROVE  IInv'
<1>1. faults' \in 0..MaxFaults
  BY MonitoringAssumption DEF IInv, TypeOK, Fail, Crash
<1> QED BY <1>1, OverKeeps DEF IInv, TypeOK, Fail, Crash, Wait, CurrentInv

LEMMA OtherIngestKeeps ==
  ASSUME IInv, NEW document \in Documents, OtherIngest(document)
  PROVE  IInv'
<1>1. current'.assets # {} /\ current' # None
  BY MonitoringAssumption DEF OtherIngest, None
<1>2. TypeOK'
  BY <1>1, MonitoringAssumption DEF IInv, TypeOK, OtherIngest, sourceVars, pollVars,
                                    serverVars
<1>3. HandlerInv' /\ GateFollowsRequest'
  BY DEF IInv, OtherIngest, HandlerInv, GateFollowsRequest, serverVars
<1>4. PollInv' /\ EvidenceKept'
  BY DEF IInv, OtherIngest, PollInv, Sound, EvidenceKept, sourceVars, pollVars
<1>5. CurrentInv'
  BY MonitoringAssumption DEF OtherIngest, CurrentInv
<1> QED BY <1>2, <1>3, <1>4, <1>5 DEF IInv

----------------------------------------------------------------------------
(* The requests for an explanation. *)

\* A request moves on, and the gate with it.
LEMMA RequestKeeps ==
  ASSUME IInv, NEW h \in Handlers, NEW to \in HandlerStages, NEW sid,
         handler' = [handler EXCEPT ![h] = [stage |-> to, sid |-> sid]],
         UNCHANGED <<sourceVars, pollVars, fingerprint, current, writes, faults>>,
         \/ to \in {"asking", "answered", "checked"} /\ gate \in {h, Nobody} /\ gate' = h
         \/ to \notin {"asking", "answered", "checked"} /\ gate = h /\ gate' = Nobody
         \/ to \notin {"asking", "answered", "checked"} /\ gate # h /\ gate' = gate
  PROVE  IInv'
<1>1. /\ DOMAIN handler' = Handlers /\ handler'[h] = [stage |-> to, sid |-> sid]
      /\ \A g \in Handlers \ {h} : handler'[g] = handler[g]
  BY DEF IInv, TypeOK
<1>2. handler'[h].stage = to
  BY <1>1
<1>3. TypeOK'
  BY DEF IInv, TypeOK, sourceVars, pollVars
<1>4. HandlerInv'
  BY DEF IInv, HandlerInv
<1>5. GateFollowsRequest'
  BY <1>2, MonitoringAssumption DEF IInv, GateFollowsRequest
<1>6. PollInv' /\ EvidenceKept' /\ CurrentInv'
  BY DEF IInv, PollInv, Sound, EvidenceKept, CurrentInv, sourceVars, pollVars
<1> QED BY <1>3, <1>4, <1>5, <1>6 DEF IInv

LEMMA HandlerKeeps ==
  ASSUME IInv, NEW h \in Handlers,
         Find(h) \/ Enter(h) \/ Explain(h) \/ Recheck(h) \/ RecordExplained(h)
  PROVE  IInv'
<1> DEFINE busy == {"asking", "answered", "checked"}
<1>1. gate = h <=> handler[h].stage \in busy
  BY DEF IInv, GateFollowsRequest
<1>2. {"found", "done"} \cup busy \subseteq HandlerStages
  BY DEF HandlerStages
<1>3. CASE Find(h)
  BY <1>1, <1>2, <1>3, RequestKeeps DEF Find
<1>4. CASE Enter(h)
  BY <1>1, <1>2, <1>4, RequestKeeps DEF Enter, Become
<1>5. CASE Explain(h)
  BY <1>1, <1>2, <1>5, RequestKeeps DEF Explain, Become
<1>6. CASE Recheck(h)
  BY <1>1, <1>2, <1>6, RequestKeeps DEF Recheck, Become
<1>7. CASE RecordExplained(h)
  BY <1>1, <1>2, <1>7, RequestKeeps DEF RecordExplained, Become
<1> QED BY <1>3, <1>4, <1>5, <1>6, <1>7

\* What was collected is accepted now: time only passes between the poll and the ingest.
LEMMA SoundIsAccepted ==
  ASSUME IInv, stage = "collected", Fits(collected), ~Misconfigured
  PROVE  Normalizes(collected, now)
<1>1. Sound(collected) /\ began \in Int /\ now \in Int /\ began <= now
  BY DEF IInv, TypeOK, PollInv
<1>2. \A e \in collected.events : e.at \in Int /\ e.mark # Mistyped
  BY <1>1 DEF Sound, Events, IsEvent
<1>3. LabelsAccepted
  BY DEF Misconfigured
<1>4. collected.as_of <= now + Skew
  BY <1>1, ImporterAssumption DEF Sound
<1>5. \A r \in collected.assets \cup collected.events : r.at <= collected.as_of + Skew
  BY <1>1, <1>2, ImporterAssumption DEF Sound
<1> QED BY <1>1, <1>2, <1>3, <1>4, <1>5 DEF Normalizes, Typed, Sound, Events, UniqueIds

----------------------------------------------------------------------------
(* The theorems. *)

\* The inductive invariant of the monitor, the store and the server.
THEOREM Invariance == Spec => []IInv
<1>1. Init => IInv
  BY InitHolds
<1>2. IInv /\ [Next]_vars => IInv'
  <2> SUFFICES ASSUME IInv, [Next]_vars PROVE IInv'
    OBVIOUS
  <2>1. ASSUME NEW row \in Rows, Write(row) PROVE IInv'
    BY <2>1, WriteKeeps
  <2>2. CASE Tick
    BY <2>2, TickKeeps
  <2>3. CASE Poll
    BY <2>3, HashKeeps, BuildKeeps, AskOktaKeeps, IngestKeeps, RestartKeeps DEF Poll
  <2>4. CASE Fail \/ Crash
    BY <2>4, FailKeeps
  <2>5. ASSUME NEW document \in Documents, OtherIngest(document) PROVE IInv'
    BY <2>5, OtherIngestKeeps
  <2>6. ASSUME NEW h \in Handlers,
               Find(h) \/ Enter(h) \/ Explain(h) \/ Recheck(h) \/ RecordExplained(h)
        PROVE  IInv'
    BY <2>6, HandlerKeeps
  <2>7. CASE UNCHANGED vars
    BY <2>7 DEF vars, sourceVars, pollVars, serverVars, IInv, TypeOK, HandlerInv,
                GateFollowsRequest, PollInv, Sound, EvidenceKept, CurrentInv
  <2> QED BY <2>1, <2>2, <2>3, <2>4, <2>5, <2>6, <2>7 DEF Next
<1> QED BY <1>1, <1>2, PTL DEF Spec

\* Every variable keeps its type, and no snapshot without an asset is kept (build_snapshot()
\* refuses one).
THEOREM TypeCorrect == Spec => []TypeOK
<1>1. IInv => TypeOK
  BY DEF IInv
<1> QED BY <1>1, Invariance, PTL

\* No row displaces another: the events of a snapshot of files are those of its readable
\* rows, each under an id of its own (build_snapshot()), whatever ids the rows carry.
THEOREM NoRowIsEvicted == Spec => []EvidenceKept
<1>1. IInv => EvidenceKept
  BY DEF IInv
<1> QED BY <1>1, Invariance, PTL

\* The store accepts every snapshot that is built or collected of files and logins that can
\* be read, whatever the rows say of their times, names and ids, unless it has too many
\* assets or events, or the operator's profiles give a value of a wrong type or a label that
\* is no label (build_snapshot(), collect(), normalize()).
THEOREM AlwaysAccepted == Spec => []SnapshotAccepted
<1>1. IInv => SnapshotAccepted
  BY SoundIsAccepted DEF SnapshotAccepted
<1> QED BY <1>1, Invariance, PTL

\* The gate is held by the one request that asks the model, and by no other (do_POST of
\* the local server).
THEOREM GateIsHeld == Spec => []GateFollowsRequest
<1>1. IInv => GateFollowsRequest
  BY DEF IInv
<1> QED BY <1>1, Invariance, PTL

\* What analyze() finds in the current input is exact: no bulk access is missed, none is
\* made up, and every correlation is of one login and of accesses after it.
THEOREM DetectsExactly == Spec => []DetectionExact
<1>1. IInv => DetectionExact
  BY AnalysisIsExact DEF IInv, CurrentInv, DetectionExact
<1> QED BY <1>1, Invariance, PTL

----------------------------------------------------------------------------
(* A poll of files that stand still. *)

\* What the monitor remembers is in the store, or another writer's input is.
RememberInv == fingerprint # None => current = fingerprint \/ current \in Documents

\* A snapshot of files tells their hash, and was read from no fewer rows than were hashed
\* and no more than there are.
ReadInv ==
  stage = "collected" /\ connector = "file-import" =>
    LET read == collected.provenance.rows_read
    IN /\ collected.provenance = [digest |-> digest, rows_read |-> read, live |-> <<>>]
       /\ read \in Cardinality(DOMAIN digest)..Len(rows)

LEMMA FilesAreCounted ==
  ASSUME TypeOK, PollInv, connector = "file-import"
  PROVE  /\ Len(rows) \in Nat /\ Cardinality(DOMAIN FileRows(rows)) = Len(rows)
         /\ Cardinality(DOMAIN digest) \in Nat /\ Cardinality(DOMAIN digest) <= Len(rows)
<1>1. DOMAIN rows = 1..Len(rows) /\ Len(rows) \in Nat
  BY DEF TypeOK
<1>2. DOMAIN FileRows(rows) = 1..Len(rows)
  BY <1>1, FilesAreSources
<1>3. IsFiniteSet(1..Len(rows)) /\ Cardinality(1..Len(rows)) = Len(rows)
  <2>1. \A n \in Nat : IsFiniteSet(1..n) /\ Cardinality(1..n) = n
    BY FS_Interval
  <2> QED BY <1>1, <2>1
<1>4. DOMAIN digest \subseteq 1..Len(rows)
  BY <1>1 DEF PollInv
<1>5. IsFiniteSet(DOMAIN digest) /\ Cardinality(DOMAIN digest) <= Len(rows)
  BY <1>3, <1>4, FS_Subset
<1> QED BY <1>1, <1>2, <1>3, <1>5, FS_CardinalityType

LEMMA BuildReads ==
  ASSUME IInv, Build
  PROVE  ReadInv'
<1> SUFFICES ASSUME stage' = "collected", connector = "file-import" PROVE ReadInv'
  BY DEF Build, ReadInv, sourceVars
<1>1. /\ collected' = BuildSnapshot(FileRows(rows), digest, began)
      /\ digest' = digest /\ rows' = rows
  BY DEF Build, EndByOverflow, RefuseFiles, ReadFiles, Wait, sourceVars
<1>2. collected'.provenance =
        [digest |-> digest, rows_read |-> Cardinality(DOMAIN FileRows(rows)), live |-> <<>>]
  BY <1>1 DEF BuildSnapshot, WithShadow
<1>3. /\ Len(rows) \in Nat /\ Cardinality(DOMAIN FileRows(rows)) = Len(rows)
      /\ Cardinality(DOMAIN digest) \in Nat /\ Cardinality(DOMAIN digest) <= Len(rows)
  BY FilesAreCounted DEF IInv
<1>4. collected'.provenance.rows_read = Len(rows)
  BY <1>2, <1>3
<1> QED BY <1>1, <1>2, <1>3, <1>4 DEF ReadInv

LEMMA ReadsAreKept ==
  ASSUME IInv, RememberInv, ReadInv, [Next]_vars
  PROVE  RememberInv' /\ ReadInv'
<1> USE DEF sourceVars, serverVars, pollVars
<1>1. ASSUME NEW row \in Rows, Write(row) PROVE RememberInv' /\ ReadInv'
  <2>1. Len(rows') = Len(rows) + 1 /\ Len(rows) \in Nat
    BY <1>1 DEF IInv, TypeOK, Write
  <2>2. RememberInv'
    BY <1>1 DEF RememberInv, Write
  <2>3. ReadInv'
    <3> SUFFICES ASSUME stage = "collected", connector = "file-import" PROVE ReadInv'
      BY <1>1 DEF ReadInv, Write
    <3>1. Cardinality(DOMAIN digest) \in Nat
      BY FilesAreCounted DEF IInv
    <3> QED BY <1>1, <2>1, <3>1 DEF ReadInv, Write
  <2> QED BY <2>2, <2>3
<1>2. CASE Tick
  BY <1>2 DEF RememberInv, ReadInv, Tick
<1>3. CASE Hash
  BY <1>3 DEF RememberInv, ReadInv, Hash
<1>4. CASE Build
  <2>1. RememberInv'
    BY <1>4 DEF RememberInv, Build
  <2> QED BY <1>4, <2>1, BuildReads
<1>5. CASE AskOkta
  BY <1>5 DEF IInv, PollInv, RememberInv, ReadInv, AskOkta, Wait
<1>6. CASE Ingest
  BY <1>6 DEF RememberInv, ReadInv, Ingest, Wait
<1>7. CASE Restart \/ Fail \/ Crash
  BY <1>7 DEF RememberInv, ReadInv, Restart, Fail, Crash, Wait
<1>8. ASSUME NEW document \in Documents, OtherIngest(document) PROVE RememberInv' /\ ReadInv'
  BY <1>8 DEF RememberInv, ReadInv, OtherIngest
<1>9. ASSUME NEW h \in Handlers,
             Find(h) \/ Enter(h) \/ Explain(h) \/ Recheck(h) \/ RecordExplained(h)
      PROVE  RememberInv' /\ ReadInv'
  BY <1>9 DEF RememberInv, ReadInv, Find, Enter, Explain, Recheck, RecordExplained
<1>10. CASE UNCHANGED vars
  BY <1>10 DEF RememberInv, ReadInv, vars
<1> QED BY <1>1, <1>2, <1>3, <1>4, <1>5, <1>6, <1>7, <1>8, <1>9, <1>10 DEF Next, Poll

LEMMA QuietIngest ==
  ASSUME IInv, RememberInv, ReadInv, Ingest, connector = "file-import", digest = FileRows(rows)
  PROVE  \/ Says(current') \/ (current' \in Documents /\ Says(fingerprint'))
         \/ ~Encodes(collected.events) \/ ~Fits(collected) \/ Misconfigured
<1> SUFFICES ASSUME Encodes(collected.events), Fits(collected), ~Misconfigured
             PROVE  Says(current') \/ (current' \in Documents /\ Says(fingerprint'))
  OBVIOUS
<1>1. stage = "collected" /\ rows' = rows
  BY DEF Ingest, sourceVars
<1>2. Says(collected)
  <2>1. Len(rows) \in Nat /\ Cardinality(DOMAIN FileRows(rows)) = Len(rows)
    BY FilesAreCounted DEF IInv
  <2> QED BY <1>1, <2>1 DEF ReadInv, Says
<1>3. collected # None
  BY <1>1 DEF IInv, TypeOK, PollInv, Sound
<1>4. Normalizes(collected, now)
  BY <1>1, SoundIsAccepted DEF IInv
<1>5. CASE collected = fingerprint
  BY <1>2, <1>3, <1>4, <1>5 DEF Ingest, RememberInv
<1>6. CASE collected # fingerprint
  BY <1>2, <1>4, <1>6 DEF Ingest
<1> QED BY <1>5, <1>6

\* A poll that finds the files as it hashed them leaves the store with what they say, through
\* whatever failed, crashed or grew before: nothing is remembered that was not ingested
\* (poll_once()).  What may be missing from the store is what cannot be hashed, does not fit
\* into it, or comes of a profile or label it refuses.
THEOREM QuietPollShows == Spec => QuietPollIsShown
<1>1. Init => RememberInv /\ ReadInv
  BY DEF Init, RememberInv, ReadInv
<1>2. IInv /\ RememberInv /\ ReadInv /\ [Next]_vars => RememberInv' /\ ReadInv'
  BY ReadsAreKept
<1>3. IInv /\ RememberInv /\ ReadInv =>
        [Ingest /\ connector = "file-import" /\ digest = FileRows(rows) =>
           \/ Says(current') \/ (current' \in Documents /\ Says(fingerprint'))
           \/ ~Encodes(collected.events) \/ ~Fits(collected) \/ Misconfigured]_vars
  BY QuietIngest
<1> QED BY <1>1, <1>2, <1>3, Invariance, PTL DEF Spec, QuietPollIsShown
=============================================================================
