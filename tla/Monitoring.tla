----------------------------- MODULE Monitoring -----------------------------
(***************************************************************************)
(* A monitor (monitor.py) that turns the logs of other systems into the    *)
(* current input of the store, beside the other writers of the store and   *)
(* the requests of the local server for an explanation of a finding        *)
(* (server.py, explain.py).                                                *)
(*                                                                         *)
(* The hash of a file and its rows are read one after the other, and the   *)
(* files grow all the time.  The monitor remembers what it ingested last   *)
(* in its process only; the current input is in the database.              *)
(***************************************************************************)
EXTENDS Importer, Detection

CONSTANTS
  Rows,           \* rows the sources may come to hold
  Inventories,    \* what they may hold at first
  Documents,      \* snapshots other writers of the store may ingest
  Handlers,       \* requests for an explanation
  Nobody,         \* nobody holds llm_gate
  MaxRows,        \* bound: rows of the sources
  MaxTime,        \* bound: time
  MaxWrites,      \* bound: ingests of other writers
  MaxFaults       \* bound: failures of a poll, and crashes of the monitor

\* Every row there may be.
Lines == Rows \cup UNION {ToSet(all) : all \in Inventories}

\* A document of another writer has an asset, and legible events.  Every line is one of a
\* source, and what is read of a cell has its type.
ASSUME MonitoringAssumption ==
  /\ Nobody \notin Handlers
  /\ \A row \in Lines : row.kind \in Kinds /\ row.at \in Int /\ row.mark # Mistyped
  /\ \A all \in Inventories : all \in Seq(Lines) /\ Len(all) <= MaxRows
  /\ \A document \in Documents : document.assets # {} /\ Legible(document.events)
  /\ MaxRows \in Nat /\ MaxTime \in Nat \ {0} /\ MaxWrites \in Nat /\ MaxFaults \in Nat

VARIABLES
  connector,      \* which monitor runs: of files only, or of Okta and files
  rows,           \* what the sources hold
  now,
  stage,          \* of the monitor
  began,          \* when the poll began
  digest,         \* the hash of the files, as this poll took it
  collected,      \* the snapshot of this poll
  fingerprint,    \* the snapshot the monitor ingested last
  current,        \* the current input of the store
  handler,        \* requests for an explanation
  gate,           \* llm_gate
  writes, faults  \* bounded counters: other ingests, failures

sourceVars == <<connector, rows, now>>
pollVars == <<stage, began, digest, collected>>
serverVars == <<handler, gate>>
vars == <<sourceVars, pollVars, fingerprint, current, serverVars, writes, faults>>

None == [as_of |-> 0, provenance |-> [digest |-> <<>>, rows_read |-> 0, live |-> <<>>],
         assets |-> {}, events |-> {}]

Connectors == {"file-import", "okta-system-log-api"}
Stages == {"waiting", "hashed", "built", "collected", "down", "dead"}
HandlerStages == {"new", "found", "asking", "answered", "checked", "done"}

TypeOK ==
  /\ connector \in Connectors
  /\ rows \in Seq(Lines) /\ Len(rows) <= MaxRows
  /\ now \in 1..MaxTime /\ began \in 0..MaxTime
  /\ stage \in Stages
  /\ (collected.assets = {} <=> collected = None) /\ (current.assets = {} <=> current = None)
  /\ DOMAIN handler = Handlers /\ \A h \in Handlers : handler[h].stage \in HandlerStages
  /\ gate \in Handlers \cup {Nobody}
  /\ writes \in 0..MaxWrites /\ faults \in 0..MaxFaults

Init ==
  /\ connector \in Connectors
  /\ rows \in Inventories
  /\ now = 1
  /\ stage = "waiting"
  /\ began = 0 /\ digest = <<>> /\ collected = None /\ fingerprint = None
  /\ current = None
  /\ handler = [h \in Handlers |-> [stage |-> "new", sid |-> None]]
  /\ gate = Nobody
  /\ writes = 0 /\ faults = 0

----------------------------------------------------------------------------
(* The sources. *)

Write(row) ==
  /\ Len(rows) < MaxRows
  /\ rows' = Append(rows, row)
  /\ UNCHANGED <<connector, now, pollVars, fingerprint, current, serverVars, writes, faults>>

Tick ==
  /\ now < MaxTime
  /\ now' = now + 1
  /\ UNCHANGED <<connector, rows, pollVars, fingerprint, current, serverVars, writes, faults>>

\* Okta's logins are no rows of a file.
FileRows(all) ==
  Restrict(all, {i \in DOMAIN all : connector = "file-import" \/ ~IsLogin(all[i])})

----------------------------------------------------------------------------
(* poll_once() and run(). *)

\* The poll is over, and what it read is forgotten.
Wait ==
  /\ stage' = "waiting"
  /\ began' = 0 /\ digest' = <<>> /\ collected' = None

\* _check() comes first: with a file that is too large the poll is over at once.
Hash ==
  /\ stage = "waiting"
  /\ ~Oversized(FileRows(rows))
  /\ stage' = "hashed"
  /\ began' = now
  /\ digest' = FileRows(rows)
  /\ UNCHANGED <<sourceVars, collected, fingerprint, current, serverVars, writes, faults>>

EndByOverflow ==
  Overflows(FileRows(rows)) /\ stage' = "dead" /\ UNCHANGED <<began, digest, collected>>

RefuseFiles ==
  /\ \/ Denies(FileRows(rows))
     \/ ~Overflows(FileRows(rows)) /\ BuildSnapshot(FileRows(rows), digest, began).assets = {}
  /\ Wait

ReadFiles_Empty ==  \* mutant: a snapshot without assets is not refused
  /\ ~Overflows(FileRows(rows)) /\ ~Denies(FileRows(rows))
  /\ collected' = BuildSnapshot(FileRows(rows), digest, began)
  /\ stage' = IF connector = "file-import" THEN "collected" ELSE "built"
  /\ UNCHANGED <<began, digest>>

ReadFiles ==
  LET snapshot == BuildSnapshot(FileRows(rows), digest, began)
  IN /\ ~Overflows(FileRows(rows)) /\ ~Denies(FileRows(rows)) /\ snapshot.assets # {}
     /\ collected' = snapshot
     /\ stage' = IF connector = "file-import" THEN "collected" ELSE "built"
     /\ UNCHANGED <<began, digest>>

\* The files are opened again for their rows.  run() does not catch an OverflowError, and of
\* two errors the one that is met first ends the poll.  Without an asset the import is
\* refused.
Build ==
  /\ stage = "hashed"
  /\ EndByOverflow \/ RefuseFiles \/ ReadFiles
  /\ UNCHANGED <<sourceVars, fingerprint, current, serverVars, writes, faults>>

\* The API is asked for the logins of the window.  run() does not catch a TypeError.
AskOkta ==
  /\ stage = "built"
  /\ LET logins == OktaLogins(rows, began)
     IN \/ /\ OktaDenies(rows, began)
           /\ Wait
        \/ /\ ~OktaDenies(rows, began) /\ CollectRaises(collected, logins)
           /\ stage' = "dead" /\ UNCHANGED <<began, digest, collected>>
        \/ /\ ~OktaDenies(rows, began) /\ ~CollectRaises(collected, logins)
           /\ stage' = "collected" /\ collected' = Collect(collected, logins)
           /\ UNCHANGED <<began, digest>>
  /\ UNCHANGED <<sourceVars, fingerprint, current, serverVars, writes, faults>>

\* The fingerprint is a hash of the whole snapshot, and what was ingested last is not
\* ingested again; a document the store refuses is not remembered.
Ingest ==
  /\ stage = "collected"
  /\ IF ~Encodes(collected.events) \/ collected = fingerprint \/ ~Normalizes(collected, now)
     THEN UNCHANGED <<fingerprint, current>>
     ELSE fingerprint' = collected /\ current' = collected
  /\ Wait
  /\ UNCHANGED <<sourceVars, serverVars, writes, faults>>

Fail_Remembers ==  \* mutant: the fingerprint is kept before the store has the input
  /\ stage \in {"hashed", "built", "collected"}
  /\ faults < MaxFaults
  /\ fingerprint' = IF stage = "collected" THEN collected ELSE fingerprint
  /\ Wait
  /\ faults' = faults + 1
  /\ UNCHANGED <<sourceVars, current, serverVars, writes>>

\* A file that cannot be read, an API that does not answer, a database that fails.
Fail ==
  /\ stage \in {"hashed", "built", "collected"}
  /\ faults < MaxFaults
  /\ Wait
  /\ faults' = faults + 1
  /\ UNCHANGED <<sourceVars, fingerprint, current, serverVars, writes>>

Crash ==
  /\ stage \notin {"down", "dead"}
  /\ faults < MaxFaults
  /\ stage' = "down"
  /\ began' = 0 /\ digest' = <<>> /\ collected' = None /\ fingerprint' = None
  /\ faults' = faults + 1
  /\ UNCHANGED <<sourceVars, current, serverVars, writes>>

Restart ==
  /\ stage = "down"
  /\ Wait
  /\ UNCHANGED <<sourceVars, fingerprint, current, serverVars, writes, faults>>

\* Another process or request ingests a document of its own.
OtherIngest(document) ==
  /\ writes < MaxWrites
  /\ current' = document
  /\ writes' = writes + 1
  /\ UNCHANGED <<sourceVars, pollVars, fingerprint, serverVars, faults>>

----------------------------------------------------------------------------
(* POST /api/explain. *)

Become(h, to) ==
  handler' = [handler EXCEPT ![h] =
    [stage |-> to, sid |-> IF to = "done" THEN None ELSE handler[h].sid]]

\* get_finding() of the input the user saw; one that is not current is refused.
Find(h) ==
  /\ handler[h].stage = "new"
  /\ Analyze(current) # {}
  /\ handler' = [handler EXCEPT ![h] = [stage |-> "found", sid |-> current]]
  /\ UNCHANGED <<sourceVars, pollVars, fingerprint, current, gate, writes, faults>>

Enter(h) ==
  /\ handler[h].stage = "found"
  /\ IF gate = Nobody THEN gate' = h /\ Become(h, "asking")
                      ELSE UNCHANGED gate /\ Become(h, "done")
  /\ UNCHANGED <<sourceVars, pollVars, fingerprint, current, writes, faults>>

\* explain() returns in any case: an answer that fails a check becomes the template.
Explain(h) ==
  /\ handler[h].stage = "asking"
  /\ Become(h, "answered")
  /\ UNCHANGED <<sourceVars, pollVars, fingerprint, current, gate, writes, faults>>

Recheck_Keeps(h) ==  \* mutant: a conflict leaves without its finally
  /\ handler[h].stage = "answered"
  /\ Become(h, IF current = handler[h].sid THEN "checked" ELSE "done")
  /\ UNCHANGED <<sourceVars, pollVars, fingerprint, current, gate, writes, faults>>

\* The input was replaced while the model answered: a conflict.
Recheck(h) ==
  /\ handler[h].stage = "answered"
  /\ IF current = handler[h].sid
     THEN Become(h, "checked") /\ UNCHANGED gate
     ELSE Become(h, "done") /\ gate' = Nobody
  /\ UNCHANGED <<sourceVars, pollVars, fingerprint, current, writes, faults>>

\* finding.explained is recorded in a transaction of its own.
RecordExplained(h) ==
  /\ handler[h].stage = "checked"
  /\ gate' = Nobody
  /\ Become(h, "done")
  /\ UNCHANGED <<sourceVars, pollVars, fingerprint, current, writes, faults>>

Poll == Hash \/ Build \/ AskOkta \/ Ingest \/ Restart

Next ==
  \/ \E row \in Rows : Write(row)
  \/ Tick
  \/ Poll
  \/ Fail \/ Crash
  \/ \E document \in Documents : OtherIngest(document)
  \/ \E h \in Handlers : Find(h) \/ Enter(h) \/ Explain(h) \/ Recheck(h) \/ RecordExplained(h)

Spec == Init /\ [][Next]_vars

\* run() polls for ever, and who runs the monitor starts it again: fairness of Poll,
\* by what its steps and no others do.
Progress == stage # "dead" /\ stage' \in Stages \ {stage} /\ faults' = faults
FairSpec == Spec /\ WF_<<stage, faults>>(Progress)

----------------------------------------------------------------------------
(* What must hold. *)

Body(e) == <<e.type, e.at, e.actor, e.asset, e.file, e.mark>>

\* "Neither record is dropped ... and a planted row must not be able to evict a real
\* one" (importer.py:356): whatever ids the rows carry and however often they are sent,
\* the events of a snapshot of files are those of the readable rows, and each has an id.
EvidenceKept ==
  stage = "collected" /\ connector = "file-import" =>
    LET read == {Record(row) : row \in {row \in ToSet(rows) : Readable(row)}}
    IN /\ {Body(e) : e \in collected.events} \subseteq {Body(e) : e \in read}
       /\ \A r \in {Record(row) : row \in {row \in ToSet(digest) : Readable(row)}} :
            r.type # "asset" /\ r.at <= began + Skew /\ Policy = "record" =>
              \E e \in collected.events : Body(e) = Body(r)
       /\ \A e, o \in collected.events : e.id = o.id => e = o

\* The boundary of the importer and the one of the store agree: of a snapshot that is built
\* or collected, whatever ids, names, times and order its rows have, the store refuses only
\* the number of its assets or events, or a profile or file name of the operator.
SnapshotAccepted ==
  stage = "collected" /\ Fits(collected) /\ ~Misconfigured => Normalizes(collected, now)

\* A bulk access is found exactly where there is one, wherever the window stands and
\* whatever the order of the rows, with the evidence of one window; and a correlation has
\* one login, a suspicious one of the user who made the accesses, before all of them and
\* through an exposed asset.
DetectionExact == Exact(current)

\* The one request that holds the gate is the one that asks the model, whatever became
\* of its input meanwhile: no conflict leaves the gate shut for the requests after it.
GateFollowsRequest ==
  \A h \in Handlers : gate = h <=> handler[h].stage \in {"asking", "answered", "checked"}

\* A snapshot that was read from all the sources say now, hash and rows alike.
Says(snapshot) ==
  snapshot.provenance =
    [digest |-> FileRows(rows), rows_read |-> Cardinality(DOMAIN FileRows(rows)),
     live |-> IF connector = "file-import" THEN <<>> ELSE OktaLogins(rows, now)]

\* The safety half of the next property: an ingest that finds the files as they were hashed
\* leaves the store with what they say, even when it skips a snapshot it has ingested before.
\* Except that another writer may have replaced that one since, or that it cannot be hashed,
\* is too large for the store, or comes of a profile or a file the operator has to correct.
QuietPollIsShown ==
  [][Ingest /\ connector = "file-import" /\ digest = FileRows(rows) =>
       \/ Says(current') \/ (current' \in Documents /\ Says(fingerprint'))
       \/ ~Encodes(collected.events) \/ ~Fits(collected) \/ Misconfigured]_vars

\* What the sources hold now is refused, by the importer, the collector or the store.
Refused ==
  LET all == FileRows(rows)
      files == BuildSnapshot(all, all, now)
      whole == IF connector = "file-import" THEN files
               ELSE Collect(files, OktaLogins(rows, now))
  IN \/ Oversized(all) \/ Denies(all) \/ files.assets = {}
     \/ connector # "file-import" /\ OktaDenies(rows, now)
     \/ ~Encodes(whole.events) \/ ~Normalizes(whole, now)

\* "Poll ... and ingest changed evidence" (monitor.py:35), through failures, crashes and
\* files that change under the hash: once the sources are quiet the store has what they
\* say.  The excuses are that they hold what is refused at every poll, that another writer
\* replaced what the monitor had ingested, and that an error run() does not catch ended it.
InputIsShown ==
  []<>(\/ stage = "dead"
       \/ /\ stage = "waiting"
          /\ Says(current) \/ (current \in Documents /\ Says(fingerprint)) \/ Refused)
=============================================================================
