--------------------------- MODULE ResponseStore ----------------------------
(***************************************************************************)
(* The life of a response plan in aisecure/store.py (class Store): the     *)
(* local server proposes and simulates plans for the findings of the       *)
(* current snapshot, importers and monitors replace the snapshot, and      *)
(* command line callers approve a plan and execute it through a responder  *)
(* (aisecure/responder.py) that talks to a provider over HTTP.  All share  *)
(* one SQLite file; each operation of the store is one transaction, except *)
(* execute_approved(), which is two with the responder's call between.     *)
(*                                                                         *)
(* The audit chain is kept by plan: trail[p] lists, in order, the rows     *)
(* that name plan p.  The two operators' labels, the reason and the        *)
(* signatures they come with are checked before a transaction begins and   *)
(* are not part of the state.                                              *)
(*                                                                         *)
(* Definitions whose comment begins "mutant" are used by no specification  *)
(* (see Evidence.tla).                                                     *)
(***************************************************************************)
EXTENDS Integers, Sequences, FiniteSets

CONSTANTS
  Plans,          \* proposal ids
  Snapshots,      \* snapshot ids: digests of an input
  Findings,       \* finding ids
  FindingsOf,     \* by snapshot: what analyze() reports of it
  Targets,        \* provider targets an operator may confirm
  Callers,        \* processes that execute plans
  NoSnapshot,     \* there is no current snapshot yet
  Ttl,            \* the five minutes a plan is open for, in ticks of the clock
  MaxTime,        \* bound: last tick of the clock
  MaxFaults       \* bound: crashes and storage errors

ASSUME StoreAssumption ==
  /\ FindingsOf \in [Snapshots -> SUBSET Findings]
  /\ NoSnapshot \notin Snapshots
  /\ "none" \notin Targets   \* NULL, before a target is approved
  /\ Ttl \in Nat \ {0} /\ MaxTime \in Nat /\ MaxFaults \in Nat

VARIABLES
  current,        \* table current_snapshot
  proposals,      \* table proposals, by id
  trail,          \* rows of table audit about each plan, in order
  now,            \* the wall clock
  pc,             \* where each caller is in execute_approved()
  job,            \* its plan, target and the responder's result
  stop,           \* the sentinel file of the responder's EmergencyStop is present
  wire,           \* requests the provider may still act on
  acted,          \* history: targets the provider acted on for each plan
  faults,         \* crashes and storage errors so far
  late            \* history: callers not past the last check when the stop now in
                  \* force was set

storeVars == <<current, proposals, trail>>
callerVars == <<pc, job>>
worldVars == <<now, stop, wire, acted, faults, late>>
vars == <<storeVars, callerVars, worldVars>>

Statuses == {"pending", "simulated", "approved", "executing", "verified", "failed"}
Proposal == [snapshot: Snapshots, finding: Findings, expires: Nat, status: Statuses,
             target: Targets \cup {"none"}]
NoProposal == [status |-> "absent"]
Request == [plan: Plans, target: Targets]
Stages == {"idle", "started", "checked", "cleared", "waiting", "answered"}
Results == {"none", "verified", "failed", "raised"}
Job == [plan: Plans, target: Targets, result: Results]
NoJob == [result |-> "none"]

Init ==
  /\ current = NoSnapshot
  /\ proposals = [p \in Plans |-> NoProposal]
  /\ trail = [p \in Plans |-> <<>>]
  /\ now = 0
  /\ pc = [c \in Callers |-> "idle"]
  /\ job = [c \in Callers |-> NoJob]
  /\ stop = FALSE
  /\ wire = {}
  /\ acted = [p \in Plans |-> <<>>]
  /\ faults = 0
  /\ late = {}

\* One transaction: the row of a plan, and the audit rows that say why it changed.
Write(p, row, rows) ==
  /\ proposals' = [proposals EXCEPT ![p] = row]
  /\ trail' = [trail EXCEPT ![p] = @ \o rows]
  /\ UNCHANGED current

----------------------------------------------------------------------------
(* The server and the importers. *)

\* ingest(): an input becomes the current snapshot, new or seen before.
Ingest(s) ==
  /\ current # s
  /\ current' = s
  /\ UNCHANGED <<proposals, trail, callerVars, worldVars>>

\* get_finding() succeeds.
Reported(s, f) == s = current /\ s \in Snapshots /\ f \in FindingsOf[s]

Live_Any(p) ==  \* mutant: an expired plan is still open
  proposals[p].status = "pending"

\* A pending plan that may still be approved, or handed out again.
Live(p) == proposals[p].status = "pending" /\ proposals[p].expires > now

Reusable_Never(s, f) == FALSE  \* mutant: every call makes a plan of its own

\* The plan propose() hands out again, instead of a new one.
Reusable(s, f) ==
  \E p \in Plans : Live(p) /\ proposals[p].snapshot = s /\ proposals[p].finding = f

\* propose(), when there is no plan to hand out again.
Propose(p, s, f) ==
  /\ Reported(s, f)
  /\ ~Reusable(s, f)
  /\ proposals[p] = NoProposal
  /\ Write(p, [snapshot |-> s, finding |-> f, expires |-> now + Ttl, status |-> "pending",
               target |-> "none"], <<"proposed">>)
  /\ UNCHANGED <<callerVars, worldVars>>

Approvable_AnyInput(p) ==  \* mutant: the input may have changed since the plan
  Live(p)

\* What both approvals ask: open, made for the input that is current, and still the
\* plan the policy would make.
Approvable(p) ==
  /\ Live(p)
  /\ Reported(proposals[p].snapshot, proposals[p].finding)

\* approve_and_simulate().
Simulate(p) ==
  /\ Approvable(p)
  /\ Write(p, [proposals[p] EXCEPT !.status = "simulated"], <<"approved", "simulated">>)
  /\ UNCHANGED <<callerVars, worldVars>>

----------------------------------------------------------------------------
(* The callers. *)

\* approve_for_execution().
Approve(p, t) ==
  /\ Approvable(p)
  /\ Write(p, [proposals[p] EXCEPT !.status = "approved", !.target = t], <<"approved">>)
  /\ UNCHANGED <<callerVars, worldVars>>

Become(c, stage, j) ==
  /\ pc' = [pc EXCEPT ![c] = stage]
  /\ job' = [job EXCEPT ![c] = j]

Startable_Again(p, t) ==  \* mutant: a plan that is executing may be started again
  /\ proposals[p].status \in {"approved", "executing"}
  /\ Reported(proposals[p].snapshot, proposals[p].finding)
  /\ proposals[p].expires > now
  /\ proposals[p].target = t

Startable(p, t) ==
  /\ proposals[p].status = "approved"
  /\ Reported(proposals[p].snapshot, proposals[p].finding)
  /\ proposals[p].expires > now
  /\ proposals[p].target = t

\* execute_approved(), first transaction.
Start(c, p, t) ==
  /\ pc[c] = "idle"
  /\ Startable(p, t)
  /\ Write(p, [proposals[p] EXCEPT !.status = "executing"], <<"started">>)
  /\ Become(c, "started", [plan |-> p, target |-> t, result |-> "none"])
  /\ UNCHANGED worldVars

Result(c, result) ==
  /\ Become(c, "answered", [job[c] EXCEPT !.result = result])
  /\ UNCHANGED storeVars

CheckStop_Once(c) ==  \* mutant: the stop is read when execute() begins, and no more
  /\ pc[c] \in {"started", "checked"}
  /\ IF stop /\ pc[c] = "started"
     THEN Result(c, "raised")
     ELSE Become(c, IF pc[c] = "started" THEN "checked" ELSE "cleared", job[c])
          /\ UNCHANGED storeVars
  /\ UNCHANGED worldVars

\* execute() reads the stop twice, before it builds the request and before it sends it.
CheckStop(c) ==
  /\ pc[c] \in {"started", "checked"}
  /\ IF stop
     THEN Result(c, "raised")
     ELSE Become(c, IF pc[c] = "started" THEN "checked" ELSE "cleared", job[c])
          /\ UNCHANGED storeVars
  /\ UNCHANGED worldVars

RequestOf(c) == [plan |-> job[c].plan, target |-> job[c].target]

SendRequest(c) ==
  /\ pc[c] = "cleared"
  /\ wire' = wire \cup {RequestOf(c)}
  /\ Become(c, "waiting", job[c])
  /\ UNCHANGED <<storeVars, now, stop, acted, faults, late>>

AnswerVerified_Unchecked(c) ==  \* mutant: an answer of 200 is taken for containment
  /\ pc[c] = "waiting"
  /\ Result(c, "verified")
  /\ UNCHANGED worldVars

\* A signed answer for this very request, given after the provider acted and checked.
AnswerVerified(c) ==
  /\ pc[c] = "waiting"
  /\ RequestOf(c) \notin wire
  /\ acted[job[c].plan] # <<>>
  /\ Result(c, "verified")
  /\ UNCHANGED worldVars

\* The provider is done with the request and could not verify what it did, if anything.
AnswerFailed(c) ==
  /\ pc[c] = "waiting"
  /\ wire' = wire \ {RequestOf(c)}
  /\ Result(c, "failed")
  /\ UNCHANGED <<now, stop, acted, faults, late>>

NoAnswer_Never(c) == FALSE  \* mutant: the socket has no timeout

\* A timeout, an HTTP error or a malformed answer; the request may still be acted on.
NoAnswer(c) ==
  /\ pc[c] = "waiting"
  /\ Result(c, "raised")
  /\ UNCHANGED worldVars

Final_Unmapped(c) ==  \* mutant: what the responder reported is stored as it is
  job[c].result

Final(c) ==
  IF job[c].result = "verified" /\ current = proposals[job[c].plan].snapshot
  THEN "verified" ELSE "failed"

Conclude_RowOnly(c) ==  \* mutant: the audit row of the result is left out
  LET p == job[c].plan IN
  /\ pc[c] = "answered"
  /\ Write(p, [proposals[p] EXCEPT !.status = IF @ = "executing" THEN Final(c) ELSE @], <<>>)
  /\ Become(c, "idle", NoJob)
  /\ UNCHANGED worldVars

\* execute_approved(), last transaction: verified only of a verified answer, and only if
\* the input the plan was made for is current; failed otherwise.
Conclude(c) ==
  LET p == job[c].plan IN
  /\ pc[c] = "answered"
  /\ Write(p, [proposals[p] EXCEPT !.status = IF @ = "executing" THEN Final(c) ELSE @],
           <<Final(c)>>)
  /\ Become(c, "idle", NoJob)
  /\ UNCHANGED worldVars

Execute(c) == CheckStop(c) \/ SendRequest(c) \/ NoAnswer(c) \/ Conclude(c)

----------------------------------------------------------------------------
(* The provider, the operator and the machine. *)

\* The provider carries out a request it got, before or after the caller gives up.
Act(r) ==
  /\ r \in wire
  /\ wire' = wire \ {r}
  /\ acted' = [acted EXCEPT ![r.plan] = Append(@, r.target)]
  /\ UNCHANGED <<storeVars, callerVars, now, stop, faults, late>>

SetStop ==
  /\ ~stop
  /\ stop' = TRUE
  /\ late' = {c \in Callers : pc[c] # "cleared"}
  /\ UNCHANGED <<storeVars, callerVars, now, wire, acted, faults>>

ClearStop ==
  /\ stop
  /\ stop' = FALSE
  /\ late' = {}
  /\ UNCHANGED <<storeVars, callerVars, now, wire, acted, faults>>

\* A caller dies, or its last transaction fails: its plan stays as it was written.
Crash(c) ==
  /\ pc[c] # "idle"
  /\ faults < MaxFaults
  /\ faults' = faults + 1
  /\ Become(c, "idle", NoJob)
  /\ UNCHANGED <<storeVars, now, stop, wire, acted, late>>

Tick ==
  /\ now < MaxTime
  /\ now' = now + 1
  /\ UNCHANGED <<storeVars, callerVars, stop, wire, acted, faults, late>>

Next ==
  \/ \E s \in Snapshots : Ingest(s)
  \/ \E p \in Plans, s \in Snapshots, f \in Findings : Propose(p, s, f)
  \/ \E p \in Plans : Simulate(p)
  \/ \E p \in Plans, t \in Targets : Approve(p, t)
  \/ \E c \in Callers, p \in Plans, t \in Targets : Start(c, p, t)
  \/ \E c \in Callers : Execute(c) \/ AnswerVerified(c) \/ AnswerFailed(c) \/ Crash(c)
  \/ \E r \in Request : Act(r)
  \/ SetStop \/ ClearStop \/ Tick

Spec == Init /\ [][Next]_vars

\* A caller that started runs to its end, whether the provider answers or not: the
\* socket has a timeout of 30 s at most (aisecure/responder.py:60).
FairSpec == Spec /\ \A c \in Callers : WF_vars(Execute(c))
----------------------------------------------------------------------------
(* What must hold. *)

TypeOK ==
  /\ current \in Snapshots \cup {NoSnapshot}
  /\ proposals \in [Plans -> Proposal \cup {NoProposal}]
  /\ trail \in [Plans -> Seq({"proposed", "approved", "simulated", "started", "verified", "failed"})]
  /\ now \in 0..MaxTime
  /\ pc \in [Callers -> Stages]
  /\ job \in [Callers -> Job \cup {NoJob}]
  /\ stop \in BOOLEAN
  /\ wire \subseteq Request
  /\ acted \in [Plans -> Seq(Targets)]
  /\ faults \in Nat
  /\ late \subseteq Callers

\* The provider acts at most once for a plan and only on the target that was approved,
\* with callers racing for the plan, dying in the middle and answers coming late.
ActsOnceAsApproved ==
  \A p \in Plans : acted[p] # <<>> => acted[p] = <<proposals[p].target>>

\* "verified" is never written of a plan the provider did not act for.
VerifiedMeansActed ==
  \A p \in Plans : proposals[p].status = "verified" => acted[p] # <<>>

\* The audit chain tells the same story as the table: reading either, an operator
\* concludes the same of a plan, at every instant and after every crash.
TrailOf(status) ==
  CASE status = "absent"    -> <<>>
    [] status = "pending"   -> <<"proposed">>
    [] status = "simulated" -> <<"proposed", "approved", "simulated">>
    [] status = "approved"  -> <<"proposed", "approved">>
    [] status = "executing" -> <<"proposed", "approved", "started">>
    [] OTHER                -> <<"proposed", "approved", "started", status>>

AuditTellsStatus == \A p \in Plans : trail[p] = TrailOf(proposals[p].status)

\* There is never a choice of open plans for one finding of one input: approving one
\* can not leave a twin open for a second approval.
OneOpenPlan ==
  \A p, q \in Plans :
    /\ Live(p) /\ Live(q)
    /\ proposals[p].snapshot = proposals[q].snapshot
    /\ proposals[p].finding = proposals[q].finding
    => p = q

\* A request leaves only while no stop is in force that was set before its last check.
StopHolds == \A c \in late : pc[c] # "cleared"

\* A plan is approved, simulated or started only while the input it was made for is
\* current and the plan has not run out, and "verified" is written only under that
\* input: an operator never acts on a finding that a newer input has replaced.
DecidedOnCurrentInput ==
  [][\A p \in Plans :
       proposals'[p].status # proposals[p].status
         /\ proposals'[p].status \in {"simulated", "approved", "executing", "verified"}
       => /\ current = proposals[p].snapshot
          /\ proposals'[p].status # "verified" => now < proposals[p].expires]_vars

\* Every plan goes through the states of docs/PRODUCT_SPEC.md; state() shows a pending
\* plan as expired once its time has passed.
StatusShown(p) ==
  IF proposals[p].status = "pending" /\ proposals[p].expires < now
  THEN "expired" ELSE proposals[p].status

Lifecycle == INSTANCE ResponseLifecycle WITH
  status <- [p \in Plans |-> StatusShown(p)],
  target <- [p \in Plans |->
    IF proposals[p] = NoProposal \/ proposals[p].target = "none"
    THEN <<>> ELSE <<proposals[p].target>>]

ImplementsLifecycle == Lifecycle!Spec

\* The safety half of the next property: every crash leaves one plan at most that nobody
\* executes and nobody can start again, and nothing else leaves any.
Abandoned ==
  {p \in Plans : /\ proposals[p].status = "executing"
                 /\ \A c \in Callers : pc[c] # "idle" => job[c].plan # p}

OnlyCrashesAbandon == Cardinality(Abandoned) <= faults

\* Without a crash, no plan stays "executing" for ever.
ExecutionConcludes ==
  \A p \in Plans : proposals[p].status = "executing" ~> proposals[p].status # "executing"
=============================================================================
