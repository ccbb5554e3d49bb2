------------------------ MODULE ResponseController -------------------------
(***************************************************************************)
(* The approved change of one registered firewall rule, in                 *)
(* aisecure/control/response.py (class ResponseController) with the        *)
(* adapter of aisecure/control/vpn.py (class FortiOSPolicyAdapter), on an  *)
(* Evidence store.  Each execution is a process of its own                 *)
(* (aisecure/control/admin.py): it reserves the plan's id, reads the rule, *)
(* compares it with the state the approvers saw, changes it and reads it   *)
(* again, with three looks at the emergency stop on the way.               *)
(*                                                                         *)
(* The two signatures are checked before anything else and live no longer  *)
(* than the plan: a plan without them is one that nobody executes.         *)
(***************************************************************************)
EXTENDS Evidence, Sequences

CONSTANTS
  Executors,      \* processes that execute plans
  SingleWriter,   \* whether the maintenance window that docs/operations/
                  \* CONTROL_ALPHA.md asks for is kept
  Stoppable,      \* whether the operator uses the emergency stop
  MaxRevision,    \* bound: changes of the rule
  MaxFaults       \* bound: crashes and storage errors

ASSUME ControllerAssumption ==
  /\ SingleWriter \in BOOLEAN /\ Stoppable \in BOOLEAN
  /\ MaxRevision \in Nat /\ MaxFaults \in Nat

VARIABLES
  rule,           \* the registered rule on the device: status and revision
  plans,          \* the plans made, by id
  pc,             \* where each executor is in execute()
  job,            \* its plan and the state it will report
  wire,           \* plans whose change the device may still make
  stop,           \* the sentinel file of EmergencyStop is present
  faults,         \* crashes and storage errors so far
  sent,           \* history: changes ever sent for each plan
  applied,        \* history: the rule as each change for a plan found it
  late            \* history: executors not past the last stop check when the stop
                  \* now in force was set

planVars == <<rule, plans>>
executorVars == <<pc, job>>
historyVars == <<sent, applied, late>>
vars == <<evidenceVars, planVars, executorVars, wire, stop, faults, historyVars>>

Rule == [status: {"enable", "disable"}, revision: 0..MaxRevision]
Plan == [operation: {"disable_registered_rule", "restore_registered_rule"},
         state: Rule, made: 0..MaxDay, fp: Fingerprints]
NoPlan == [made |-> -1]
Stages == {"idle", "reserving", "reserved", "reading", "compared", "applying", "waiting",
           "verifying", "concluding"}
Job == [id: RequestIds, final: FinalStates \cup {"none"}]
NoJob == [id |-> NoId]

Init ==
  /\ EvidenceInit
  /\ rule = [status |-> "enable", revision |-> 0]
  /\ plans = [id \in RequestIds |-> NoPlan]
  /\ pc = [e \in Executors |-> "idle"]
  /\ job = [e \in Executors |-> NoJob]
  /\ wire = {}
  /\ stop = FALSE
  /\ faults = 0
  /\ sent = [id \in RequestIds |-> 0]
  /\ applied = [id \in RequestIds |-> <<>>]
  /\ late = {}

Expected(operation) ==
  IF operation = "disable_registered_rule" THEN "disable" ELSE "enable"

\* plan(): refused when the rule is already in the state asked for.  Two approvers sign.
MakePlan(id, operation, fp) ==
  /\ plans[id] = NoPlan
  /\ rule.status # Expected(operation)
  /\ plans' = [plans EXCEPT ![id] =
       [operation |-> operation, state |-> rule, made |-> now, fp |-> fp]]
  /\ UNCHANGED <<evidenceVars, rule, executorVars, wire, stop, faults, historyVars>>

----------------------------------------------------------------------------
(* execute(), in the order of its calls. *)

Become(e, stage, j) ==
  /\ pc' = [pc EXCEPT ![e] = stage]
  /\ job' = [job EXCEPT ![e] = j]

Answer(e) == Become(e, "idle", NoJob)

PlanOf(e) == plans[job[e].id]

\* The exception path and the last lines of execute(): report `final`.
Report(e, final) == Become(e, "concluding", [job[e] EXCEPT !.final = final])

Live_Any(id) ==  \* mutant: the time of the plan is not checked
  plans[id] # NoPlan

\* verify_pair(): a plan lives five minutes, and so sees one midnight at most.
Live(id) == plans[id] # NoPlan /\ now <= plans[id].made + 1

\* The window: nobody else executes, and no change is on its way to the device.
Alone(e) == wire = {} /\ \A o \in Executors \ {e} : pc[o] = "idle"

\* The signatures hold and the first look finds no stop.
Begin(e, id) ==
  /\ pc[e] = "idle"
  /\ Live(id)
  /\ ~stop
  /\ SingleWriter => Alone(e)
  /\ Become(e, "reserving", [id |-> id, final |-> "none"])
  /\ UNCHANGED <<evidenceVars, planVars, wire, stop, faults, historyVars>>

\* reserve() replays a receipt, or refuses a fenced id or a full journal.
ReserveAnswered(e) ==
  /\ pc[e] = "reserving"
  /\ Known(job[e].id) \/ Fenced(job[e].id) \/ ~Room \/ ~CanAppend(journal, anchor)
  /\ Answer(e)
  /\ UNCHANGED <<evidenceVars, planVars, wire, stop, faults, historyVars>>

\* A plan's five minutes and the execution begun within them, whose calls time out after
\* 15 s, last less than a day together.
MayTurnDay == now < MaxDay /\ \A e \in Executors : pc[e] # "idle" => PlanOf(e).made = now

\* "Reservation is deliberately before ALL provider calls."
Reserve(e) ==
  /\ pc[e] = "reserving"
  /\ \E day \in {now} \cup (IF MayTurnDay THEN {now + 1} ELSE {}) :
       ReserveTxn(job[e].id, PlanOf(e).fp, "dispatch_pending", day)
  /\ Become(e, "reserved", job[e])
  /\ UNCHANGED <<planVars, wire, stop, faults, historyVars>>

CheckStop_First(e) ==  \* mutant: no look at the stop after the rule is compared
  /\ pc[e] \in {"reserved", "compared"}
  /\ IF stop /\ pc[e] = "reserved" THEN Report(e, "delivery_unknown")
     ELSE Become(e, IF pc[e] = "reserved" THEN "reading" ELSE "applying", job[e])
  /\ UNCHANGED <<evidenceVars, planVars, wire, stop, faults, historyVars>>

\* The second and the third look at the stop.
CheckStop(e) ==
  /\ pc[e] \in {"reserved", "compared"}
  /\ IF stop THEN Report(e, "delivery_unknown")
     ELSE Become(e, IF pc[e] = "reserved" THEN "reading" ELSE "applying", job[e])
  /\ UNCHANGED <<evidenceVars, planVars, wire, stop, faults, historyVars>>

Compare_Status(e) ==  \* mutant: the status is compared, the revision is not
  /\ pc[e] = "reading"
  /\ IF rule.status = PlanOf(e).state.status THEN Become(e, "compared", job[e])
     ELSE Report(e, "precondition_failed")
  /\ UNCHANGED <<evidenceVars, planVars, wire, stop, faults, historyVars>>

\* read_state(), and its hash against the one the approvers signed.
Compare(e) ==
  /\ pc[e] = "reading"
  /\ IF rule = PlanOf(e).state THEN Become(e, "compared", job[e])
     ELSE Report(e, "precondition_failed")
  /\ UNCHANGED <<evidenceVars, planVars, wire, stop, faults, historyVars>>

\* apply(): the PUT leaves.
SendChange(e) ==
  /\ pc[e] = "applying"
  /\ wire' = wire \cup {job[e].id}
  /\ sent' = [sent EXCEPT ![job[e].id] = @ + 1]
  /\ Become(e, "waiting", job[e])
  /\ UNCHANGED <<evidenceVars, planVars, stop, faults, applied, late>>

\* The device answers that it made the change.
ChangeAnswered(e) ==
  /\ pc[e] = "waiting"
  /\ job[e].id \notin wire /\ applied[job[e].id] # <<>>
  /\ Become(e, "verifying", job[e])
  /\ UNCHANGED <<evidenceVars, planVars, wire, stop, faults, historyVars>>

\* The device refuses the change: an answer that is not 200 and "success".
ChangeRefused(e) ==
  /\ pc[e] = "waiting"
  /\ job[e].id \in wire
  /\ wire' = wire \ {job[e].id}
  /\ Report(e, "delivery_unknown")
  /\ UNCHANGED <<evidenceVars, planVars, stop, faults, historyVars>>

CallFails_Reread(e) ==  \* mutant: what the rule reads decides, whatever was answered
  /\ pc[e] \in {"reading", "applying", "waiting", "verifying"}
  /\ Report(e, IF rule.status = Expected(PlanOf(e).operation) THEN "verified"
               ELSE "delivery_unknown")
  /\ UNCHANGED <<evidenceVars, planVars, wire, stop, faults, historyVars>>

CallFails_Refused(e) ==  \* mutant: every error is reported as a changed rule
  /\ pc[e] \in {"reading", "applying", "waiting", "verifying"}
  /\ Report(e, "precondition_failed")
  /\ UNCHANGED <<evidenceVars, planVars, wire, stop, faults, historyVars>>

\* A call to the device raises: a timeout, a lost connection, an answer that does not
\* fit.  A change that was sent may still be made.
CallFails(e) ==
  /\ pc[e] \in {"reading", "applying", "waiting", "verifying"}
  /\ Report(e, "delivery_unknown")
  /\ UNCHANGED <<evidenceVars, planVars, wire, stop, faults, historyVars>>

\* The rule is read again.
ReadBack(e) ==
  /\ pc[e] = "verifying"
  /\ Report(e, IF rule.status = Expected(PlanOf(e).operation) THEN "verified"
               ELSE "delivery_unknown")
  /\ UNCHANGED <<evidenceVars, planVars, wire, stop, faults, historyVars>>

Conclude_NoState(e) ==  \* mutant: the report keeps the state it began with
  /\ pc[e] = "concluding"
  /\ FinishTxn(job[e].id, "none")
  /\ Answer(e)
  /\ UNCHANGED <<planVars, wire, stop, faults, historyVars>>

Conclude(e) ==
  /\ pc[e] = "concluding"
  /\ FinishTxn(job[e].id, job[e].final)
  /\ Answer(e)
  /\ UNCHANGED <<planVars, wire, stop, faults, historyVars>>

\* The process dies, or finish() is refused.
Crash(e) ==
  /\ pc[e] # "idle"
  /\ faults < MaxFaults
  /\ faults' = faults + 1
  /\ Answer(e)
  /\ UNCHANGED <<evidenceVars, planVars, wire, stop, historyVars>>

Execute(e) ==
  \/ ReserveAnswered(e) \/ Reserve(e) \/ CheckStop(e) \/ Compare(e)
  \/ SendChange(e) \/ ChangeAnswered(e) \/ ChangeRefused(e) \/ CallFails(e)
  \/ ReadBack(e) \/ Conclude(e)

----------------------------------------------------------------------------
(* The device, its other administrators, the operator, retention and the clock. *)

Change(status) ==
  /\ rule.revision < MaxRevision
  /\ rule' = [status |-> status, revision |-> rule.revision + 1]

\* The device makes a change it was sent, in time or late.
MakeChange(id) ==
  /\ id \in wire
  /\ wire' = wire \ {id}
  /\ Change(Expected(plans[id].operation))
  /\ applied' = [applied EXCEPT ![id] = Append(@, rule)]
  /\ UNCHANGED <<evidenceVars, plans, executorVars, stop, faults, sent, late>>

\* Another administrator edits the rule.
OtherWrite ==
  /\ ~SingleWriter
  /\ \E status \in {"enable", "disable"} : Change(status)
  /\ UNCHANGED <<evidenceVars, plans, executorVars, wire, stop, faults, historyVars>>

SetStop ==
  /\ Stoppable /\ ~stop
  /\ stop' = TRUE
  /\ late' = {e \in Executors : pc[e] # "applying"}
  /\ UNCHANGED <<evidenceVars, planVars, executorVars, wire, faults, sent, applied>>

ClearStop ==
  /\ stop
  /\ stop' = FALSE
  /\ late' = {}
  /\ UNCHANGED <<evidenceVars, planVars, executorVars, wire, faults, sent, applied>>

\* A retention run with nothing in its way; Gateway takes it apart.
Prune(before) ==
  /\ before <= now - 1
  /\ Prefix(journal, before) # {}
  /\ PruneTxn(LastSeq(Prefix(journal, before), anchor), before)
  /\ UNCHANGED <<planVars, executorVars, wire, stop, faults, historyVars>>

Midnight ==
  /\ MayTurnDay
  /\ now' = now + 1
  /\ UNCHANGED <<journal, anchor, receipts, planVars, executorVars, wire, stop, faults, historyVars>>

Next ==
  \/ \E id \in RequestIds, fp \in Fingerprints,
        operation \in {"disable_registered_rule", "restore_registered_rule"} :
       MakePlan(id, operation, fp)
  \/ \E e \in Executors, id \in RequestIds : Begin(e, id)
  \/ \E e \in Executors : Execute(e) \/ Crash(e)
  \/ \E id \in RequestIds : MakeChange(id)
  \/ OtherWrite \/ SetStop \/ ClearStop \/ Midnight
  \/ \E before \in 0..MaxDay : Prune(before)

Spec == Init /\ [][Next]_vars
----------------------------------------------------------------------------
(* What must hold. *)

TypeOK ==
  /\ EvidenceTypeOK
  /\ rule \in Rule
  /\ plans \in [RequestIds -> Plan \cup {NoPlan}]
  /\ pc \in [Executors -> Stages]
  /\ job \in [Executors -> Job \cup {NoJob}]
  /\ wire \subseteq RequestIds
  /\ stop \in BOOLEAN
  /\ faults \in 0..MaxFaults
  /\ sent \in [RequestIds -> Nat]
  /\ applied \in [RequestIds -> Seq(Rule)]
  /\ late \subseteq Executors

\* One approval sends one change for ever: not two after a crash or a lost answer, nor
\* after a retention run has removed every trace that the plan was executed.
SentAtMostOnce == \A id \in RequestIds : sent[id] <= 1

\* A report of "precondition_failed" means that nothing was sent, and never will be.
RefusedMeansUntouched ==
  \A id \in RequestIds :
    Known(id) /\ receipts[id].state = "precondition_failed" => sent[id] = 0

\* A report of "verified" means that the device made this plan's change, and not that
\* the rule happens to read as it should because somebody else changed it.
VerifiedMeansApplied ==
  \A id \in RequestIds :
    Known(id) /\ receipts[id].state = "verified" => applied[id] # <<>>

\* While a stop is in force, an execution that had not passed the last look when it was
\* set never comes to the change.
StopHolds == \A e \in late : pc[e] # "applying"

\* In a maintenance window the rule is changed only as the approvers saw it: a plan that
\* another plan has overtaken changes nothing (docs/operations/CONTROL_ALPHA.md:162).
AppliedToApprovedState ==
  \A id \in RequestIds : \A i \in 1..Len(applied[id]) : applied[id][i] = plans[id].state
=============================================================================
