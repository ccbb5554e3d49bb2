------------------------------ MODULE Gateway -------------------------------
(***************************************************************************)
(* The send path of aisecure/gateway.py (class Gateway): threads of one    *)
(* process call send() and check() on one Evidence store, while an         *)
(* operator sets and clears the emergency stop and administrators prune    *)
(* the store from processes of their own (aisecure/gateway_admin.py).      *)
(* A crash of the process loses every thread and nothing of the store.     *)
(***************************************************************************)
EXTENDS Evidence, Sequences

CONSTANTS
  Senders,        \* threads that run send() and check()
  Admins,         \* processes that run the prune command
  Allowed,        \* fingerprints whose decision is "allow"
  Inspecting,     \* whether check() is called beside send()
  Stoppable,      \* whether the operator uses the emergency stop
  MaxSeq,         \* bound: rows ever written before clients stop calling
  MaxFaults       \* bound: crashes and storage errors

ASSUME GatewayAssumption ==
  /\ Allowed \subseteq Fingerprints
  /\ Inspecting \in BOOLEAN /\ Stoppable \in BOOLEAN
  /\ MaxSeq \in Nat /\ MaxFaults \in Nat

VARIABLES
  pc,             \* where each sender is in send()
  job,            \* its request: id, fingerprint, day of the reservation, result
  plan,           \* what each admin's prune() has read: last row, cutoff
  stop,           \* the sentinel file of EmergencyStop is present
  faults,         \* crashes and storage errors so far
  delivered,      \* history: bodies the provider got under an id, since its fence
                  \* was last pruned
  late            \* history: senders not past the second stop check when the stop
                  \* now in force was set

senderVars == <<pc, job>>
vars == <<journal, anchor, receipts, now, pc, job, plan, stop, faults, delivered, late>>

\* "provider_completed" also stands for "demo_received", its name in demo mode.
Stages == {"idle", "reserving", "reserved", "armed", "concluding"}
Job == [id: RequestIds, fp: Fingerprints, began: Nat, final: FinalStates \cup {"none"}]
NoJob == [id |-> NoId]
Plan == [last: Nat, before: Int]
NoPlan == [last |-> -1, before |-> -1]

\* Past the reservation and not yet answered.
InFlight(s) == pc[s] \in {"reserved", "armed", "concluding"}

Init ==
  /\ EvidenceInit
  /\ pc = [s \in Senders |-> "idle"]
  /\ job = [s \in Senders |-> NoJob]
  /\ plan = [a \in Admins |-> NoPlan]
  /\ stop = FALSE
  /\ faults = 0
  /\ delivered = [id \in RequestIds |-> <<>>]
  /\ late = {}

Become(s, stage, j) ==
  /\ pc' = [pc EXCEPT ![s] = stage]
  /\ job' = [job EXCEPT ![s] = j]

Answer(s) == Become(s, "idle", NoJob)

----------------------------------------------------------------------------
(* send(), in the order of its calls. *)

\* prepare() succeeds and the first assert_clear() finds no sentinel.
Begin(s, id, fp) ==
  /\ pc[s] = "idle"
  /\ ~stop
  /\ LastSeq(journal, anchor) < MaxSeq
  /\ Become(s, "reserving", [id |-> id, fp |-> fp, began |-> 0, final |-> "none"])
  /\ UNCHANGED <<evidenceVars, plan, stop, faults, delivered, late>>

\* reserve() finds a receipt (replayed, or refused as rebound), a fence without a
\* receipt, or no room; or its first verify(), which is outside the transaction, reads
\* the anchor before and the rows after the commit of a prune under way.  The caller
\* gets an answer and nothing is written.
ReserveAnswered(s) ==
  /\ pc[s] = "reserving"
  /\ \/ Known(job[s].id)
     \/ Fenced(job[s].id)
     \/ ~Room
     \/ ~CanAppend(journal, anchor)
     \/ \E a \in Admins : plan[a] # NoPlan
  /\ Answer(s)
  /\ UNCHANGED <<evidenceVars, plan, stop, faults, delivered, late>>

\* A send lasts less than a day: the day may change under it once.
MayTurnDay == now < MaxDay /\ \A s \in Senders : InFlight(s) => job[s].began = now

\* Not allowed: the receipt says prevented_in_gateway and send() returns.
ReservePrevented(s) ==
  /\ pc[s] = "reserving"
  /\ job[s].fp \notin Allowed
  /\ \E day \in {now} \cup (IF MayTurnDay THEN {now + 1} ELSE {}) :
       ReserveTxn(job[s].id, job[s].fp, "prevented_in_gateway", day)
  /\ Answer(s)
  /\ UNCHANGED <<plan, stop, faults, delivered, late>>

ReservePending(s) ==
  /\ pc[s] = "reserving"
  /\ job[s].fp \in Allowed
  /\ \E day \in {now} \cup (IF MayTurnDay THEN {now + 1} ELSE {}) :
       ReserveTxn(job[s].id, job[s].fp, "dispatch_pending", day)
  /\ Become(s, "reserved", [job[s] EXCEPT !.began = now])
  /\ UNCHANGED <<plan, stop, faults, delivered, late>>

Recheck_Never(s) ==  \* mutant: only the check at the start of send()
  /\ pc[s] = "reserved"
  /\ Become(s, "armed", job[s])
  /\ UNCHANGED <<evidenceVars, plan, stop, faults, delivered, late>>

\* "Recheck the operator stop immediately before dispatch."
Recheck(s) ==
  /\ pc[s] = "reserved"
  /\ IF stop
     THEN Become(s, "concluding", [job[s] EXCEPT !.final = "delivery_unknown"])
     ELSE Become(s, "armed", job[s])
  /\ UNCHANGED <<evidenceVars, plan, stop, faults, delivered, late>>

Deliver_NoResult(s) ==  \* mutant: the report keeps no execution state
  /\ pc[s] = "armed"
  /\ delivered' = [delivered EXCEPT ![job[s].id] = Append(@, job[s].fp)]
  /\ Become(s, "concluding", job[s])
  /\ UNCHANGED <<evidenceVars, plan, stop, faults, late>>

\* transport.send(): the provider gets the body, and answers or not.
Deliver(s) ==
  /\ pc[s] = "armed"
  /\ delivered' = [delivered EXCEPT ![job[s].id] = Append(@, job[s].fp)]
  /\ \E final \in {"provider_completed", "delivery_unknown"} :
       Become(s, "concluding", [job[s] EXCEPT !.final = final])
  /\ UNCHANGED <<evidenceVars, plan, stop, faults, late>>

DeliverNothing_Completed(s) ==  \* mutant: a send that raised is reported complete
  /\ pc[s] = "armed"
  /\ Become(s, "concluding", [job[s] EXCEPT !.final = "provider_completed"])
  /\ UNCHANGED <<evidenceVars, plan, stop, faults, delivered, late>>

\* transport.send() raises before the provider has the body.
DeliverNothing(s) ==
  /\ pc[s] = "armed"
  /\ Become(s, "concluding", [job[s] EXCEPT !.final = "delivery_unknown"])
  /\ UNCHANGED <<evidenceVars, plan, stop, faults, delivered, late>>

Conclude(s) ==
  /\ pc[s] = "concluding"
  /\ FinishTxn(job[s].id, job[s].final)
  /\ Answer(s)
  /\ UNCHANGED <<plan, stop, faults, delivered, late>>

\* finish() refused by the limit: send() raises and the reply is lost.
ConcludeRefused(s) ==
  /\ pc[s] = "concluding"
  /\ ~CanAppend(journal, anchor)
  /\ Answer(s)
  /\ UNCHANGED <<evidenceVars, plan, stop, faults, delivered, late>>

\* SQLite refuses the transaction (locked for longer than its timeout, disk full).
ConcludeFails(s) ==
  /\ pc[s] = "concluding"
  /\ faults < MaxFaults
  /\ faults' = faults + 1
  /\ Answer(s)
  /\ UNCHANGED <<evidenceVars, plan, stop, delivered, late>>

Send(s) ==
  \/ ReserveAnswered(s) \/ ReservePrevented(s) \/ ReservePending(s)
  \/ Recheck(s) \/ Deliver(s) \/ DeliverNothing(s)
  \/ Conclude(s) \/ ConcludeRefused(s)

----------------------------------------------------------------------------
(* check(), the operator, the administrators, the machine. *)

\* check(): an inspection row.
Check ==
  /\ Inspecting
  /\ LastSeq(journal, anchor) < MaxSeq
  /\ AppendTxn("inspection")
  /\ UNCHANGED <<senderVars, plan, stop, faults, delivered, late>>

SetStop ==
  /\ Stoppable /\ ~stop
  /\ stop' = TRUE
  /\ late' = {s \in Senders : pc[s] # "armed"}
  /\ UNCHANGED <<evidenceVars, senderVars, plan, faults, delivered>>

ClearStop ==
  /\ stop
  /\ stop' = FALSE
  /\ late' = {}
  /\ UNCHANGED <<evidenceVars, senderVars, plan, faults, delivered>>

\* prune(): refused within a day of now; reads the prefix before it locks.
PruneRead(a, before) ==
  /\ plan[a] = NoPlan
  /\ before <= now - 1
  /\ Prefix(journal, before) # {}
  /\ LastSeq(journal, anchor) < MaxSeq
  /\ plan' = [plan EXCEPT ![a] =
       [last |-> LastSeq(Prefix(journal, before), anchor), before |-> before]]
  /\ UNCHANGED <<evidenceVars, senderVars, stop, faults, delivered, late>>

PruneCommit(a) ==
  /\ plan[a] # NoPlan
  /\ PruneTxn(plan[a].last, plan[a].before)
  /\ plan' = [plan EXCEPT ![a] = NoPlan]
  /\ delivered' = [id \in RequestIds |->
       IF \E r \in journal' : r.kind = "request" /\ r.id = id THEN delivered[id] ELSE <<>>]
  /\ UNCHANGED <<senderVars, stop, faults, late>>

\* The chain check of _append() fails on the table this prune would leave.
PruneRollback(a) ==
  /\ plan[a] # NoPlan
  /\ ~CanAppend({r \in journal : r.seq > plan[a].last}, plan[a].last)
  /\ plan' = [plan EXCEPT ![a] = NoPlan]
  /\ UNCHANGED <<evidenceVars, senderVars, stop, faults, delivered, late>>

Crash ==
  /\ faults < MaxFaults
  /\ \E s \in Senders : pc[s] # "idle"
  /\ faults' = faults + 1
  /\ pc' = [s \in Senders |-> "idle"]
  /\ job' = [s \in Senders |-> NoJob]
  /\ UNCHANGED <<evidenceVars, plan, stop, delivered, late>>

Midnight ==
  /\ MayTurnDay
  /\ now' = now + 1
  /\ UNCHANGED <<journal, anchor, receipts, senderVars, plan, stop, faults, delivered, late>>

Next ==
  \/ \E s \in Senders, id \in RequestIds, fp \in Fingerprints : Begin(s, id, fp)
  \/ \E s \in Senders : Send(s) \/ ConcludeFails(s)
  \/ Check \/ SetStop \/ ClearStop
  \/ \E a \in Admins, before \in 0..MaxDay : PruneRead(a, before)
  \/ \E a \in Admins : PruneCommit(a) \/ PruneRollback(a)
  \/ Crash \/ Midnight

Spec == Init /\ [][Next]_vars

\* A started call runs to its end: the thread is scheduled, the transport has a
\* timeout of 25 s a socket call, and SQLite's lock is held briefly by others.
FairSpec == Spec /\ \A s \in Senders : WF_vars(Send(s))
----------------------------------------------------------------------------
(* What must hold. *)

TypeOK ==
  /\ EvidenceTypeOK
  /\ pc \in [Senders -> Stages]
  /\ job \in [Senders -> Job \cup {NoJob}]
  /\ plan \in [Admins -> Plan \cup {NoPlan}]
  /\ stop \in BOOLEAN
  /\ faults \in Nat
  /\ delivered \in [RequestIds -> Seq(Fingerprints)]
  /\ late \subseteq Senders

\* The provider gets at most one body under a request id for as long as a row of the
\* journal remembers the id, however sends, retries, crashes and prunes interleave.
AtMostOneDelivery == \A id \in RequestIds : Len(delivered[id]) <= 1

\* What the store answers a retry is true: "provider_completed" only of the very body
\* the provider has, "prevented_in_gateway" only of a body that never left.
ReceiptsTellTheTruth ==
  \A id \in RequestIds : Known(id) =>
    /\ delivered[id] # <<>> => delivered[id][1] = receipts[id].fp
    /\ receipts[id].state = "provider_completed" => delivered[id] # <<>>
    /\ receipts[id].state = "prevented_in_gateway" => delivered[id] = <<>>

\* A receipt never outlives its rows, and says what the last of them says: the two
\* tables are pruned by different clocks and must not disagree.
ReceiptMatchesJournal ==
  \A id \in RequestIds : Known(id) =>
    \E r \in journal :
      /\ r.kind = "request" /\ r.id = id /\ r.state = receipts[id].state
      /\ \A q \in journal : q.kind = "request" /\ q.id = id => q.seq <= r.seq

\* While a stop is in force, a sender that had not passed the last check when it was
\* set never comes to the point of dispatch.
StopHolds == \A s \in late : pc[s] # "armed"

\* The store implements the at-most-one dispatch contract.
StatusOf(id) ==
  IF Known(id)
  THEN CASE receipts[id].state = "dispatch_pending"     -> "intended"
         [] receipts[id].state = "prevented_in_gateway" -> "prevented"
         [] receipts[id].state = "provider_completed"   -> "completed"
         [] OTHER                                     -> "unknown"
  ELSE IF Fenced(id) THEN "fenced" ELSE "fresh"

Contract == INSTANCE DispatchContract WITH
  status <- [id \in RequestIds |-> StatusOf(id)],
  bound  <- [id \in RequestIds |-> IF Known(id) THEN <<receipts[id].fp>> ELSE <<>>]

ImplementsContract == Contract!Spec

\* A dispatched request always finds room for its result: capacity was reserved for
\* "both intent and result" (aisecure/gateway.py:212).
ResultNeverRefused ==
  \A s \in Senders : pc[s] = "concluding" => CanAppend(journal, anchor)

\* The safety half of the next property: until something fails, every request that is
\* pending is in the hands of a thread that has its result still to write.
IntentsAreHeld ==
  faults = 0 =>
    \A id \in RequestIds : receipts[id].state = "dispatch_pending" =>
      \E s \in Senders : InFlight(s) /\ job[s].id = id

\* Without a crash or a storage error, no request stays "dispatch_pending" for ever.
EveryIntentConcludes ==
  \A id \in RequestIds :
    receipts[id].state = "dispatch_pending" ~> receipts[id].state # "dispatch_pending"
=============================================================================
