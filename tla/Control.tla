------------------------------- MODULE Control --------------------------------
(***************************************************************************)
(* The control service (control/service.py) over its event store           *)
(* (control/events.py), its bundle gateway (control/bundles.py) and the    *)
(* workers that parse documents for it (control/documents.py), with the    *)
(* maintenance that prunes the store while the service is down.            *)
(*                                                                         *)
(* Of the journal only the rows somebody reads again are kept: those of    *)
(* observed events, and the last state of a bundle request with the time   *)
(* of its last row.  The chain, the room and the reservation protocol are  *)
(* Evidence's.  GET requests change nothing: what they would show is       *)
(* Shown.  An action whose input the code refuses is Refused.              *)
(***************************************************************************)
EXTENDS Inspection, Observations

CONSTANTS
  Slots,            \* threads that serve POST requests
  BusyLimit,        \* two: requests that are served at once
  RawEvents,        \* what collectors report
  Postures,         \* inventories, by name
  Bundles,          \* question, files, label and consent of a request, by its id
  DeliveryEnabled,  \* whether a bundle may leave at all
  EventLimit,       \* EventStore.limit
  MaxTime,          \* bound: the last instant
  MaxRequests,      \* bound: requests before clients stop asking
  MaxFaults         \* bound: crashes, and deletions from the index

ASSUME ControlAssumption ==
  /\ BusyLimit \in Nat \ {0} /\ EventLimit \in Nat \ {0}
  /\ DeliveryEnabled \in BOOLEAN
  /\ MaxTime \in Nat /\ MaxRequests \in Nat /\ MaxFaults \in Nat
  /\ \A id \in DOMAIN Bundles :
       Bundles[id].question \subseteq TextMarks /\ Bundles[id].docs \in Seq(Document)
  /\ \A e, f \in RawEvents : Hash(e.id) \in Int /\ (Hash(e.id) = Hash(f.id) => e.id = f.id)

VARIABLES
  now,              \* the clock
  up,               \* whether the service runs
  busy,             \* App.busy
  slot,             \* what each thread is at
  observed,         \* journal rows of events, with the time of the row
  index,            \* table control_events
  lost,             \* history: events whose row was deleted from it by hand
  risky,            \* App.risky_assets; it is in memory only
  receipt,          \* last row of a bundle request, by id
  sent,             \* history: ids of the bundles the provider may have
  asked, faults     \* requests, and crashes and deletions, so far

bounds == <<asked, faults>>
store == <<observed, index, lost>>
vars == <<now, up, busy, slot, store, risky, receipt, sent, bounds>>

Inputs ==
  [path: {"/api/events"}, body: RawEvents]
  \cup [path: {"/api/posture"}, name: DOMAIN Postures]
  \cup [path: {"/api/check", "/api/send", "/api/preview"}, id: DOMAIN Bundles]
NoInput == [path |-> "none"]

\* A worker, as its parent sees it: "closed" ended its output and still runs.
Ends == {"answered", "failed", "flooded", "closed"}
Slot ==
  [stage: {"receiving", "scanning", "assessed", "reserved", "delivered"}, input: Inputs,
   found: Seq(Inspections), child: {"none", "running", "killed"} \cup Ends,
   expired: BOOLEAN, state: {"none", "provider_completed", "delivery_unknown"}]
Idle == [stage |-> "idle", input |-> NoInput, found |-> <<>>, child |-> "none",
         expired |-> FALSE, state |-> "none"]
NoReceipt == [state |-> "none", at |-> -1]

Init ==
  /\ now = 0 /\ up = TRUE /\ busy = 0 /\ asked = 0 /\ faults = 0
  /\ slot = [r \in Slots |-> Idle]
  /\ observed = {} /\ index = {} /\ lost = {} /\ risky = {} /\ sent = {}
  /\ receipt = [id \in DOMAIN Bundles |-> NoReceipt]

----------------------------------------------------------------------------
(* Requests. *)

At(r, stage, path) == slot[r].stage = stage /\ slot[r].input.path = path
Bundle(r) == Bundles[slot[r].input.id]
Content(bundle) == <<bundle.question, bundle.docs>>
Become(r, s) == slot' = [slot EXCEPT ![r] = s]

Leave_KeepsCount(r) ==  \* mutant: the count is not given back
  /\ Become(r, Idle)
  /\ UNCHANGED busy

\* The finally of route(): whatever the answer is.
Leave(r) ==
  /\ Become(r, Idle)
  /\ busy' = busy - 1

\* Above the limit the answer is 429, and nothing is counted.
Arrive(r, input) ==
  /\ up /\ asked < MaxRequests
  /\ slot[r] = Idle
  /\ busy < BusyLimit
  /\ busy' = busy + 1 /\ asked' = asked + 1
  /\ Become(r, [Idle EXCEPT !.stage = "receiving", !.input = input])
  /\ UNCHANGED <<now, up, store, risky, receipt, sent, faults>>

\* What process() raises on, before it has changed anything.  A client that is gone or
\* too slow, too large a body, and the emergency stop before a reservation end so too.
Refused(r) ==
  /\ slot[r].stage \in {"receiving", "scanning"}
  /\ slot[r].child = "none"
  /\ Leave(r)
  /\ UNCHANGED <<now, up, store, risky, receipt, sent, bounds>>

----------------------------------------------------------------------------
(* Events. *)

Events == {row.event : row \in observed}
ReadAnswers == Cardinality(observed) <= EventLimit

Seen_IndexOnly(e) == {old \in index : old.id = e.id}  \* mutant: the journal is not asked

\* The id in the index, or in the journal where the index has lost it.
Seen(e) == {old \in index : old.id = e.id} \cup {old \in Events : old.id = e.id}

\* Whether the store has room is asked of the index.
HasRoom == Cardinality(index) < EventLimit

\* ingest(): a known event is accepted again, or refused when its content differs.
\* Index row and journal row are one transaction.
Ingest(r) ==
  LET e == slot[r].input.body IN
  /\ At(r, "receiving", "/api/events")
  /\ Reportable(e, now)
  /\ Seen(e) \subseteq {e}
  /\ \/ /\ Seen(e) = {e}
        /\ e \in index \/ ReadAnswers
        /\ UNCHANGED <<observed, index>>
     \/ /\ Seen(e) = {} /\ ReadAnswers /\ HasRoom
        /\ index' = index \cup {e}
        /\ observed' = observed \cup {[event |-> e, at |-> now]}
  /\ Leave(r)
  /\ UNCHANGED <<now, up, lost, risky, receipt, sent, bounds>>

----------------------------------------------------------------------------
(* The posture of the network. *)

\* assess_vpn() and the audit record of it.
Assess(r) ==
  /\ At(r, "receiving", "/api/posture")
  /\ ~PostureRefused(Postures[slot[r].input.name], now)
  /\ Become(r, [slot[r] EXCEPT !.stage = "assessed"])
  /\ UNCHANGED <<now, up, busy, store, risky, receipt, sent, bounds>>

\* Then what the analysis works with.
Assign(r) ==
  /\ At(r, "assessed", "/api/posture")
  /\ risky' = RiskyAssets(Postures[slot[r].input.name], now)
  /\ Leave(r)
  /\ UNCHANGED <<now, up, store, receipt, sent, bounds>>

----------------------------------------------------------------------------
(* Documents. *)

Scanned(r) == slot[r].stage = "scanning" /\ Len(slot[r].found) = Len(Bundle(r).docs)

Mislabelled(r) ==
  LabelRefused(Bundle(r).label, slot[r].input.id, Content(Bundle(r)), now)

\* Consent where it is asked for, and a label of this very bundle, checked before the
\* files are read.  A preview carries no label.
BeginScan(r) ==
  /\ slot[r].stage = "receiving"
  /\ \/ slot[r].input.path = "/api/preview" /\ Bundle(r).consent
     \/ slot[r].input.path = "/api/send" /\ Bundle(r).consent
          /\ ~Mislabelled(r)
     \/ slot[r].input.path = "/api/check" /\ ~Mislabelled(r)
  /\ Become(r, [slot[r] EXCEPT !.stage = "scanning"])
  /\ UNCHANGED <<now, up, busy, store, risky, receipt, sent, bounds>>

\* _run_bounded(): a worker, and the timer that will kill it.
StartChild(r) ==
  /\ slot[r].stage = "scanning" /\ slot[r].child = "none" /\ ~Scanned(r)
  /\ Become(r, [slot[r] EXCEPT !.child = "running", !.expired = FALSE])
  /\ UNCHANGED <<now, up, busy, store, risky, receipt, sent, bounds>>

\* The worker answers, fails, writes too much or closes its output; or it never does.
ChildEnds(r, end) ==
  /\ slot[r].child = "running"
  /\ Become(r, [slot[r] EXCEPT !.child = end])
  /\ UNCHANGED <<now, up, busy, store, risky, receipt, sent, bounds>>

Expire_Never(r) == FALSE /\ UNCHANGED vars  \* mutant: the timer is not started

\* The timer runs until the parent has collected the end, so it may still fire after it.
Expire(r) ==
  /\ slot[r].child \notin {"none", "flooded"} /\ ~slot[r].expired
  /\ Become(r, [slot[r] EXCEPT !.expired = TRUE,
                  !.child = IF @ \in {"running", "closed"} THEN "killed" ELSE @])
  /\ UNCHANGED <<now, up, busy, store, risky, receipt, sent, bounds>>

\* End of the output, wait(3), and only then whether the timer has fired.
Outcome(s) == IF s.expired THEN "timed out" ELSE s.child

Collect(r) ==
  LET s == slot[r] IN
  /\ s.child \notin {"none", "running"}
  /\ Become(r, [s EXCEPT !.child = "none", !.expired = FALSE,
                  !.found = Append(@, Inspect(Bundle(r).docs[Len(@) + 1], Outcome(s)))])
  /\ UNCHANGED <<now, up, busy, store, risky, receipt, sent, bounds>>

----------------------------------------------------------------------------
(* Bundles. *)

\* The answer of a check, with its audit row, or of a preview.
Answer(r) ==
  /\ Scanned(r) /\ slot[r].input.path \in {"/api/check", "/api/preview"}
  /\ Leave(r)
  /\ UNCHANGED <<now, up, store, risky, receipt, sent, bounds>>

Decision(r) ==
  LET decision == CheckBundle(Bundle(r).question, Bundle(r).label, slot[r].found)
  IN IF decision = "allow" /\ ~DeliveryEnabled THEN "review" ELSE decision

\* reserve(): a known id is answered with what became of it.
Reserve(r) ==
  LET id == slot[r].input.id IN
  /\ Scanned(r) /\ slot[r].input.path = "/api/send"
  /\ IF receipt[id] # NoReceipt THEN Leave(r) /\ UNCHANGED receipt
     ELSE IF Decision(r) = "allow"
     THEN /\ receipt' = [receipt EXCEPT ![id] = [state |-> "dispatch_pending", at |-> now]]
          /\ Become(r, [slot[r] EXCEPT !.stage = "reserved"])
          /\ UNCHANGED busy
     ELSE /\ receipt' = [receipt EXCEPT ![id] = [state |-> "prevented_in_gateway", at |-> now]]
          /\ Leave(r)
  /\ UNCHANGED <<now, up, store, risky, sent, bounds>>

\* The transport returns, or fails before the body went out or after.
Deliver(r) ==
  /\ slot[r].stage = "reserved"
  /\ \E state \in {"provider_completed", "delivery_unknown"} :
       /\ Become(r, [slot[r] EXCEPT !.stage = "delivered", !.state = state])
       /\ \/ sent' = sent \cup {slot[r].input.id}
          \/ state = "delivery_unknown" /\ UNCHANGED sent
  /\ UNCHANGED <<now, up, busy, store, risky, receipt, bounds>>

\* The row of the result; where the journal refuses it, dispatch_pending stays.
Finish(r) ==
  /\ slot[r].stage = "delivered"
  /\ \/ receipt' = [receipt EXCEPT ![slot[r].input.id] = [state |-> slot[r].state, at |-> now]]
     \/ UNCHANGED receipt
  /\ Leave(r)
  /\ UNCHANGED <<now, up, store, risky, sent, bounds>>

----------------------------------------------------------------------------
(* The service stops, and what is done to the store meanwhile. *)

Stop ==
  /\ up /\ faults < MaxFaults
  /\ up' = FALSE /\ faults' = faults + 1
  /\ busy' = 0 /\ risky' = {} /\ slot' = [r \in Slots |-> Idle]
  /\ UNCHANGED <<now, store, receipt, sent, asked>>

Start ==
  /\ ~up
  /\ up' = TRUE
  /\ UNCHANGED <<now, busy, slot, store, risky, receipt, sent, bounds>>

\* Evidence.prune(), by the maintenance of the events or by gateway_admin.
PruneJournal(before) ==
  /\ ~up /\ before <= now - Day
  /\ observed' = {row \in observed : row.at >= before}
  /\ receipt' = [id \in DOMAIN Bundles |->
                   IF receipt[id].at < before THEN NoReceipt ELSE receipt[id]]
  /\ UNCHANGED <<now, up, busy, slot, index, lost, risky, sent, bounds>>

\* Rows of the index deleted by hand, at any time: it is only an aid, so the code says.
LoseIndex(rows) ==
  /\ faults < MaxFaults
  /\ rows # {}
  /\ index' = index \ rows /\ lost' = lost \cup rows /\ faults' = faults + 1
  /\ UNCHANGED <<now, up, busy, slot, observed, risky, receipt, sent, asked>>

\* The rest of EventStore.prune(), in a transaction of its own: never, after a crash.
PruneIndex ==
  /\ ~up /\ ReadAnswers
  /\ index' = {e \in index : e.id \in {kept.id : kept \in Events}}
  /\ UNCHANGED <<now, up, busy, slot, observed, lost, risky, receipt, sent, bounds>>

Tick ==
  /\ now < MaxTime
  /\ now' = now + 1
  /\ UNCHANGED <<up, busy, slot, store, risky, receipt, sent, bounds>>

----------------------------------------------------------------------------
(* The specification. *)

\* What the thread of a request does next by itself.
Serve(r) ==
  \/ Refused(r) \/ Ingest(r) \/ Assess(r) \/ Assign(r) \/ BeginScan(r) \/ StartChild(r)
  \/ Collect(r) \/ Answer(r) \/ Reserve(r) \/ Deliver(r) \/ Finish(r)

Maintain ==
  \/ Stop \/ Start \/ PruneIndex \/ \E before \in 1..MaxTime : PruneJournal(before)
  \/ \E rows \in SUBSET index : LoseIndex(rows)

Next ==
  \/ \E r \in Slots :
       \/ \E input \in Inputs : Arrive(r, input)
       \/ Serve(r) \/ Expire(r) \/ \E end \in Ends : ChildEnds(r, end)
  \/ Maintain \/ Tick

Spec == Init /\ [][Next]_vars

\* Serve(r) is enabled wherever the thread of a request does not wait for its worker.
Waiting(r) == slot[r] = Idle \/ slot[r].child = "running"

\* Weak fairness of Serve(r), written out; and the timers fire.  Nothing makes a worker
\* answer.
ServeFairly(r) == []<>Waiting(r) \/ []<><<slot'[r] # slot[r]>>_slot
ExpireFairly(r) == WF_slot(Expire(r))
FairSpec == Spec /\ \A r \in Slots : ServeFairly(r) /\ ExpireFairly(r)

----------------------------------------------------------------------------
(* Properties. *)

\* The state is of the types above, and App.busy counts the requests under way: one path
\* out of route() that forgets its decrement closes the service for good.
TypeOK ==
  /\ now \in 0..MaxTime /\ up \in BOOLEAN
  /\ asked \in 0..MaxRequests /\ faults \in 0..MaxFaults
  /\ busy = Cardinality({r \in Slots : slot[r] # Idle}) /\ busy <= BusyLimit
  /\ \A r \in Slots : slot[r] = Idle \/ slot[r] \in Slot
  /\ \A row \in observed : row.event \in RawEvents /\ row.at \in 0..MaxTime
  /\ index \subseteq RawEvents /\ lost \subseteq RawEvents
  /\ sent \subseteq DOMAIN Bundles

\* Rows of the index are deleted by hand, and pruned in another transaction than the
\* journal, and yet: an event is in the journal once and the index knows it under the same
\* content; only what was deleted by hand is missing in the index; and the journal holds no
\* more than read() is ready to return, except for one event for each row so deleted.
ObservedOnce ==
  /\ \A row, other \in observed : row.event.id = other.event.id => row = other
  /\ \A e, f \in index \cup Events : e.id = f.id => e = f
  /\ Events \subseteq index \cup lost
  /\ Cardinality(observed) <= EventLimit + Cardinality(lost)

\* What /api/state shows.
Shown ==
  IF ~ReadAnswers \/ AnalysisRefused(Events, now) THEN {}
  ELSE {Presented(c) : c \in Cases(Events, risky, now)}

\* On an event more a case goes on: it counts no fewer events, from no later to no earlier
\* than before, and shows all it has shown, unless it says that its evidence is cut.
Continues(d, c) ==
  /\ d.rule = c.rule
  /\ d.count >= c.count /\ d.first_at <= c.first_at /\ d.last_at >= c.last_at
  /\ d.truncated \/ c.evidence \subseteq d.evidence

\* analyze() lets no observation be hidden by another one ("one event is not erased by
\* correlation requirements"): when an event is added that still can be read, whatever
\* its time, every case shown before goes on.
NothingErased ==
  [][observed \subseteq observed' /\ observed # observed' /\ ReadAnswers'
       => \A c \in Shown : \E d \in Shown' : Continues(d, c)]_vars

\* A document in which there is nothing to find and nothing that cannot be searched.
Clean(doc) ==
  /\ doc.header = "match" /\ doc.body = "whole" /\ doc.structure = {} /\ doc.split = {}
  /\ \A p \in ToSet(doc.parts) : p.kind \in {"sheet", "page", "properties"} /\ p.text = {}
  /\ doc.format = "pdf" \/ \E p \in ToSet(doc.parts) : p.kind = "sheet"

\* Whatever the workers do, time out on, or lose, a bundle that may have reached the
\* provider was consented to, was labelled public as it is and for this very request and
\* recipient, has no secret and no personal data in its question, and has clean files only.
ReleaseIsClean ==
  \A id \in sent :
    LET b == Bundles[id] IN
    /\ b.consent /\ b.label # NoLabel /\ b.label.claim = Claim(id, Content(b))
    /\ {"secret", "personal"} \cap b.question = {}
    /\ \A doc \in ToSet(b.docs) : Clean(doc)

\* Whatever workers and clients do, the service can always be asked again: no request
\* keeps its place for ever.
ServiceReturns == []<>(busy < BusyLimit)
=============================================================================
