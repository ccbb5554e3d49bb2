------------------------- MODULE ResponseStoreProofs -------------------------
(***************************************************************************)
(* Theorems about ResponseStore, for any sets of plans, inputs, findings,  *)
(* targets and callers and any bounds.                                     *)
(*                                                                         *)
(* The properties relate four things that change in different steps: the   *)
(* row of a plan, the caller that executes it, the request on its way to   *)
(* the provider, and what the provider did.  The inductive invariant says  *)
(* what each of them knows of the others.                                  *)
(***************************************************************************)
EXTENDS ResponseStore, SequenceTheorems, FiniteSetTheorems, TLAPS

----------------------------------------------------------------------------
(* The inductive invariant. *)

\* Nothing was done for a plan, and nothing is on its way.
Untouched(p) == acted[p] = <<>> /\ \A r \in wire : r.plan # p

\* A plan is untouched until it is started, and "verified" only after the provider acted.
RowInv ==
  \A p \in Plans :
    /\ proposals[p].status \notin {"executing", "verified", "failed"} => Untouched(p)
    /\ proposals[p].status = "verified" => acted[p] # <<>>
    /\ proposals[p].status \in {"approved", "executing", "verified", "failed"} =>
         proposals[p].target \in Targets
    /\ proposals[p].status \in {"pending", "simulated"} => proposals[p].target = "none"

\* What the provider may still act on, and what it did, is of a plan that was started,
\* on its approved target; and of a plan at most one of the two.
WireInv ==
  /\ \A r \in wire :
       /\ proposals[r.plan].status \in {"executing", "failed"}
       /\ proposals[r.plan].target = r.target
       /\ acted[r.plan] = <<>>
  /\ \A p \in Plans : acted[p] # <<>> => acted[p] = <<proposals[p].target>>

\* A caller in execute_approved() has its plan for itself.
Holds(c) ==
  /\ job[c] \in Job
  /\ proposals[job[c].plan].status = "executing"
  /\ proposals[job[c].plan].target = job[c].target
  /\ pc[c] \in {"started", "checked", "cleared"} => Untouched(job[c].plan)
  /\ pc[c] = "answered" /\ job[c].result = "verified" => acted[job[c].plan] # <<>>

CallerInv ==
  /\ \A c \in Callers : pc[c] # "idle" => Holds(c)
  /\ \A c, d \in Callers :
       pc[c] # "idle" /\ pc[d] # "idle" /\ job[c].plan = job[d].plan => c = d

\* A stop that is not in force left nobody behind.
LateInv == (~stop => late = {}) /\ StopHolds

IInv ==
  /\ TypeOK /\ RowInv /\ WireInv /\ CallerInv
  /\ AuditTellsStatus /\ OneOpenPlan /\ LateInv

----------------------------------------------------------------------------
(* Trails. *)

Rows == {"proposed", "approved", "simulated", "started", "verified", "failed"}

\* Tuples are joined as one expects.
LEMMA Joined ==
  ASSUME NEW a \in Rows, NEW b \in Rows, NEW c \in Rows, NEW d \in Rows
  PROVE  /\ <<>> \o <<a>> = <<a>>
         /\ <<a>> \o <<b>> = <<a, b>>
         /\ <<a>> \o <<b, c>> = <<a, b, c>>
         /\ <<a, b>> \o <<c>> = <<a, b, c>>
         /\ <<a, b, c>> \o <<d>> = <<a, b, c, d>>
<1>1. <<>> \o <<a>> = <<a>>
  OBVIOUS
<1>2. <<a>> \o <<b>> = <<a, b>>
  <2> DEFINE s == <<a>> \o <<b>>
             t == <<a, b>>
  <2>1. s \in Seq(Rows) /\ t \in Seq(Rows) /\ Len(s) = 2 /\ Len(t) = 2
    OBVIOUS
  <2>2. s[1] = t[1] /\ s[2] = t[2]
    OBVIOUS
  <2>3. \A i \in 1..Len(s) : s[i] = t[i]
    OBVIOUS
  <2> QED BY <2>1, <2>3, SeqEqual
<1>3. <<a>> \o <<b, c>> = <<a, b, c>>
  <2> DEFINE s == <<a>> \o <<b, c>>
             t == <<a, b, c>>
  <2>1. s \in Seq(Rows) /\ t \in Seq(Rows) /\ Len(s) = 3 /\ Len(t) = 3
    OBVIOUS
  <2>2. s[1] = t[1] /\ s[2] = t[2] /\ s[3] = t[3]
    OBVIOUS
  <2>3. \A i \in 1..Len(s) : s[i] = t[i]
    OBVIOUS
  <2> QED BY <2>1, <2>3, SeqEqual
<1>4. <<a, b>> \o <<c>> = <<a, b, c>>
  <2> DEFINE s == <<a, b>> \o <<c>>
             t == <<a, b, c>>
  <2>1. s \in Seq(Rows) /\ t \in Seq(Rows) /\ Len(s) = 3 /\ Len(t) = 3
    OBVIOUS
  <2>2. s[1] = t[1] /\ s[2] = t[2] /\ s[3] = t[3]
    OBVIOUS
  <2>3. \A i \in 1..Len(s) : s[i] = t[i]
    OBVIOUS
  <2> QED BY <2>1, <2>3, SeqEqual
<1>5. <<a, b, c>> \o <<d>> = <<a, b, c, d>>
  <2> DEFINE s == <<a, b, c>> \o <<d>>
             t == <<a, b, c, d>>
  <2>1. s \in Seq(Rows) /\ t \in Seq(Rows) /\ Len(s) = 4 /\ Len(t) = 4
    OBVIOUS
  <2>2. s[1] = t[1] /\ s[2] = t[2] /\ s[3] = t[3] /\ s[4] = t[4]
    OBVIOUS
  <2>3. \A i \in 1..Len(s) : s[i] = t[i]
    OBVIOUS
  <2> QED BY <2>1, <2>3, SeqEqual
<1> QED BY <1>2, <1>3, <1>4, <1>5

\* A trail is a sequence of rows.
LEMMA TrailTypes ==
  /\ TrailOf("absent") = <<>> /\ <<>> \in Seq(Rows)
  /\ TrailOf("pending") = <<"proposed">> /\ <<"proposed">> \in Seq(Rows)
  /\ TrailOf("approved") = <<"proposed", "approved">>
  /\ <<"proposed", "approved">> \in Seq(Rows)
  /\ TrailOf("simulated") = <<"proposed", "approved", "simulated">>
  /\ <<"proposed", "approved", "simulated">> \in Seq(Rows)
  /\ TrailOf("executing") = <<"proposed", "approved", "started">>
  /\ <<"proposed", "approved", "started">> \in Seq(Rows)
  /\ \A r \in {"verified", "failed"} :
       /\ TrailOf(r) = <<"proposed", "approved", "started", r>>
       /\ <<"proposed", "approved", "started", r>> \in Seq(Rows)
BY DEF TrailOf, Rows

\* The rows an operation appends are the ones its new status adds.
LEMMA TrailsGrow ==
  /\ TrailOf("absent") \o <<"proposed">> = TrailOf("pending")
  /\ TrailOf("pending") \o <<"approved", "simulated">> = TrailOf("simulated")
  /\ TrailOf("pending") \o <<"approved">> = TrailOf("approved")
  /\ TrailOf("approved") \o <<"started">> = TrailOf("executing")
  /\ \A r \in {"verified", "failed"} : TrailOf("executing") \o <<r>> = TrailOf(r)
<1>0. /\ "proposed" \in Rows /\ "approved" \in Rows /\ "simulated" \in Rows
      /\ "started" \in Rows /\ "verified" \in Rows /\ "failed" \in Rows
  BY DEF Rows
<1>a. \A a, b, c \in Rows : <<a>> \o <<b, c>> = <<a, b, c>>
  BY Joined
<1>b. \A a, b, c \in Rows : <<a, b>> \o <<c>> = <<a, b, c>>
  BY Joined
<1>c. \A a, b, c, d \in Rows : <<a, b, c>> \o <<d>> = <<a, b, c, d>>
  BY Joined
<1>1. <<>> \o <<"proposed">> = <<"proposed">>
  BY <1>0, Joined
<1>2. <<"proposed">> \o <<"approved", "simulated">>
        = <<"proposed", "approved", "simulated">>
  BY <1>0, <1>a
<1>3. <<"proposed">> \o <<"approved">> = <<"proposed", "approved">>
  BY <1>0, Joined
<1>4. <<"proposed", "approved">> \o <<"started">> = <<"proposed", "approved", "started">>
  BY <1>0, <1>b
<1>5. ASSUME NEW r \in Rows
      PROVE <<"proposed", "approved", "started">> \o <<r>>
              = <<"proposed", "approved", "started", r>>
  BY <1>0, <1>c
<1> QED BY <1>0, <1>1, <1>2, <1>3, <1>4, <1>5, TrailTypes

----------------------------------------------------------------------------
(* Rows of the table. *)

\* A plan that exists is a whole row.
LEMMA RowTypes ==
  ASSUME TypeOK, NEW p \in Plans
  PROVE  /\ (proposals[p] = NoProposal) <=> (proposals[p].status = "absent")
         /\ proposals[p] # NoProposal => proposals[p] \in Proposal
BY DEF TypeOK, Proposal, NoProposal, Statuses

\* The rows an operation appends are rows.
LEMMA SomeRows ==
  /\ <<"proposed">> \in Seq(Rows) /\ <<"approved">> \in Seq(Rows)
  /\ <<"started">> \in Seq(Rows) /\ <<"approved", "simulated">> \in Seq(Rows)
  /\ \A r \in {"verified", "failed"} : <<r>> \in Seq(Rows)
BY DEF Rows

\* What the responder says changes the result only.
LEMMA ResultTypes ==
  ASSUME NEW j \in Job, NEW r \in Results
  PROVE  /\ [j EXCEPT !.result = r] \in Job
         /\ [j EXCEPT !.result = r].plan = j.plan
         /\ [j EXCEPT !.result = r].target = j.target
         /\ [j EXCEPT !.result = r].result = r
BY DEF Job

\* What an update leaves of a row.
LEMMA UpdateTypes ==
  ASSUME NEW row \in Proposal, NEW st \in Statuses
  PROVE  /\ [row EXCEPT !.status = st] \in Proposal
         /\ [row EXCEPT !.status = st].status = st
         /\ [row EXCEPT !.status = st].target = row.target
BY DEF Proposal

\* A transaction writes a row and rows of the audit chain, and nothing else.
LEMMA WriteTypes ==
  ASSUME TypeOK, NEW p \in Plans, NEW row \in Proposal, NEW rows \in Seq(Rows),
         Write(p, row, rows)
  PROVE  /\ current' \in Snapshots \cup {NoSnapshot}
         /\ proposals' \in [Plans -> Proposal \cup {NoProposal}]
         /\ trail' \in [Plans -> Seq(Rows)]
         /\ proposals'[p] = row
         /\ \A q \in Plans \ {p} : proposals'[q] = proposals[q]
BY DEF TypeOK, Write, Rows

\* Table and chain agree after a transaction that appends what the new status adds.
LEMMA WriteTells ==
  ASSUME TypeOK, AuditTellsStatus, NEW p \in Plans, NEW row, NEW rows,
         Write(p, row, rows),
         TrailOf(proposals[p].status) \o rows = TrailOf(row.status)
  PROVE  AuditTellsStatus'
BY DEF TypeOK, AuditTellsStatus, Write

\* A step of a caller is a step of that caller.
LEMMA BecomeTypes ==
  ASSUME TypeOK, NEW c \in Callers, NEW stage \in Stages, NEW j \in Job \cup {NoJob},
         Become(c, stage, j)
  PROVE  /\ pc' \in [Callers -> Stages] /\ job' \in [Callers -> Job \cup {NoJob}]
         /\ pc'[c] = stage /\ job'[c] = j
         /\ \A d \in Callers \ {c} : pc'[d] = pc[d] /\ job'[d] = job[d]
BY DEF TypeOK, Become

----------------------------------------------------------------------------
(* The steps. *)

\* A new input changes no row.
LEMMA IngestKeeps ==
  ASSUME IInv, NEW s \in Snapshots, Ingest(s)
  PROVE  IInv'
<1>1. TypeOK'
  BY DEF IInv, Ingest, TypeOK, callerVars, worldVars
<1>2. RowInv'
  BY DEF IInv, Ingest, RowInv, Untouched, worldVars
<1>3. WireInv'
  BY DEF IInv, Ingest, WireInv, worldVars
<1>4. CallerInv'
  BY DEF IInv, Ingest, CallerInv, Untouched, Holds, callerVars, worldVars
<1>5. AuditTellsStatus'
  BY DEF IInv, Ingest, AuditTellsStatus
<1>6. OneOpenPlan'
  BY DEF IInv, Ingest, OneOpenPlan, Live, worldVars
<1>7. LateInv'
  BY DEF IInv, Ingest, LateInv, StopHolds, callerVars, worldVars
<1> QED BY <1>1, <1>2, <1>3, <1>4, <1>5, <1>6, <1>7 DEF IInv

\* A new plan is the only open one for its finding.
LEMMA ProposeKeeps ==
  ASSUME IInv, NEW p \in Plans, NEW s \in Snapshots, NEW f \in Findings, Propose(p, s, f)
  PROVE  IInv'
<1> DEFINE row == [snapshot |-> s, finding |-> f, expires |-> now + Ttl,
                  status |-> "pending", target |-> "none"]
<1>0. row \in Proposal /\ proposals[p].status = "absent" /\ Write(p, row, <<"proposed">>)
  BY StoreAssumption DEF IInv, TypeOK, Propose, Proposal, NoProposal, Statuses
<1>1. TypeOK'
  BY StoreAssumption DEF IInv, Propose, TypeOK, Write, callerVars, worldVars, Proposal,
                         Statuses
<1>2. RowInv'
  BY DEF IInv, Propose, RowInv, Untouched, Write, worldVars, NoProposal
<1>3. WireInv'
  <2>1. /\ proposals'[p].status = "pending"
        /\ \A q \in Plans \ {p} : proposals'[q] = proposals[q]
    BY <1>0 DEF IInv, TypeOK, Write
  <2>2. Untouched(p)
    BY <1>0 DEF IInv, RowInv
  <2>3. \A r \in wire : r.plan \in Plans \ {p}
    BY <2>2 DEF Untouched, IInv, TypeOK, Request
  <2> QED BY <2>1, <2>2, <2>3 DEF IInv, WireInv, Untouched, Propose, worldVars
<1>4. CallerInv'
  BY <1>0 DEF IInv, Propose, RowInv, CallerInv, Holds, Untouched, Write, callerVars,
              worldVars
<1>5. AuditTellsStatus'
  BY <1>0, WriteTells, TrailsGrow DEF IInv
<1>6. OneOpenPlan'
  BY <1>0 DEF IInv, Propose, OneOpenPlan, Reusable, Reported, Live, Final, Write, worldVars
<1>7. LateInv'
  BY DEF IInv, Propose, LateInv, StopHolds, callerVars, worldVars
<1> QED BY <1>1, <1>2, <1>3, <1>4, <1>5, <1>6, <1>7 DEF IInv

\* A simulated plan was never on its way to a provider.
LEMMA SimulateKeeps ==
  ASSUME IInv, NEW p \in Plans, Simulate(p)
  PROVE  IInv'
<1> DEFINE row == [proposals[p] EXCEPT !.status = "simulated"]
<1>0. /\ row \in Proposal /\ row.status = "simulated" /\ row.target = proposals[p].target
      /\ proposals[p].status = "pending"
      /\ Write(p, row, <<"approved", "simulated">>)
      /\ UNCHANGED <<callerVars, worldVars>>
  <2>1. proposals[p].status = "pending" /\ proposals[p] \in Proposal
    BY RowTypes DEF IInv, Simulate, Approvable, Live
  <2>2. "simulated" \in Statuses
    BY DEF Statuses
  <2> QED BY <2>1, <2>2, UpdateTypes DEF Simulate
<1>1. TypeOK'
  BY <1>0, WriteTypes, SomeRows DEF IInv, TypeOK, Rows, callerVars, worldVars
<1>2. RowInv'
  BY DEF IInv, Simulate, RowInv, Untouched, Live, Approvable, Write, worldVars
<1>3. WireInv'
  BY <1>0 DEF IInv, RowInv, WireInv, Untouched, Live, Approvable, Write, worldVars
<1>4. CallerInv'
  BY <1>0 DEF IInv, RowInv, CallerInv, Holds, Untouched, Write, callerVars, worldVars
<1>5. AuditTellsStatus'
  BY <1>0, WriteTells, TrailsGrow DEF IInv
<1>6. OneOpenPlan'
  BY <1>0 DEF IInv, OneOpenPlan, Reusable, Reported, Live, Final, Write, worldVars
<1>7. LateInv'
  BY DEF IInv, Simulate, LateInv, StopHolds, callerVars, worldVars
<1> QED BY <1>1, <1>2, <1>3, <1>4, <1>5, <1>6, <1>7 DEF IInv

\* An approved plan has a target.
LEMMA ApproveKeeps ==
  ASSUME IInv, NEW p \in Plans, NEW t \in Targets, Approve(p, t)
  PROVE  IInv'
<1> DEFINE row == [proposals[p] EXCEPT !.status = "approved", !.target = t]
<1>0. /\ row \in Proposal /\ row.status = "approved" /\ row.target = t
      /\ proposals[p].status = "pending"
      /\ Write(p, row, <<"approved">>)
      /\ UNCHANGED <<callerVars, worldVars>>
  <2>1. proposals[p].status = "pending" /\ proposals[p] \in Proposal
    BY RowTypes DEF IInv, Approve, Approvable, Live
  <2>2. row \in Proposal /\ row.status = "approved" /\ row.target = t
    BY <2>1 DEF Proposal, Statuses
  <2> QED BY <2>1, <2>2 DEF Approve
<1>1. TypeOK'
  BY <1>0, WriteTypes, SomeRows DEF IInv, TypeOK, Rows, callerVars, worldVars
<1>2. RowInv'
  BY DEF IInv, Approve, RowInv, Untouched, Live, Approvable, Write, worldVars
<1>3. WireInv'
  BY <1>0 DEF IInv, RowInv, WireInv, Untouched, Live, Approvable, Write, worldVars
<1>4. CallerInv'
  BY <1>0 DEF IInv, RowInv, CallerInv, Holds, Untouched, Write, callerVars, worldVars
<1>5. AuditTellsStatus'
  BY <1>0, WriteTells, TrailsGrow DEF IInv
<1>6. OneOpenPlan'
  BY DEF IInv, Approve, OneOpenPlan, Live, Write, worldVars
<1>7. LateInv'
  BY DEF IInv, Approve, LateInv, StopHolds, callerVars, worldVars
<1> QED BY <1>1, <1>2, <1>3, <1>4, <1>5, <1>6, <1>7 DEF IInv

\* The plan a caller starts was nobody's.
LEMMA StartKeeps ==
  ASSUME IInv, NEW c \in Callers, NEW p \in Plans, NEW t \in Targets, Start(c, p, t)
  PROVE  IInv'
<1> DEFINE row == [proposals[p] EXCEPT !.status = "executing"]
           j == [plan |-> p, target |-> t, result |-> "none"]
<1>0. /\ row \in Proposal /\ row.status = "executing" /\ row.target = t
      /\ j \in Job
      /\ pc[c] = "idle" /\ proposals[p].status = "approved" /\ proposals[p].target = t
      /\ Write(p, row, <<"started">>) /\ Become(c, "started", j)
      /\ UNCHANGED worldVars
  <2>1. proposals[p] \in Proposal
    BY RowTypes DEF IInv, Start, Startable
  <2>2. "executing" \in Statuses
    BY DEF Statuses
  <2>3. j \in Job
    BY DEF Job, Results
  <2> QED BY <2>1, <2>2, <2>3, UpdateTypes DEF Start, Startable
<1>1. TypeOK'
  <2>1. /\ pc' \in [Callers -> Stages] /\ job' \in [Callers -> Job \cup {NoJob}]
    BY <1>0, BecomeTypes DEF IInv, Stages
  <2> QED BY <1>0, <2>1, WriteTypes, SomeRows DEF IInv, TypeOK, Rows, worldVars
<1>2. RowInv'
  BY DEF IInv, Start, RowInv, Untouched, Startable, Write, worldVars
<1>3. WireInv'
  BY <1>0 DEF IInv, RowInv, WireInv, Untouched, Live, Approvable, Write, worldVars
<1>4. CallerInv'
  <2>1. /\ pc'[c] = "started" /\ job'[c] = j
        /\ \A d \in Callers \ {c} : pc'[d] = pc[d] /\ job'[d] = job[d]
    BY <1>0, BecomeTypes DEF IInv, Stages
  <2>2. proposals'[p] = row /\ \A q \in Plans \ {p} : proposals'[q] = proposals[q]
    BY <1>0, WriteTypes, SomeRows DEF IInv
  <2>3. \A d \in Callers \ {c} : pc[d] # "idle" =>
          Holds(d) /\ job[d].plan # p /\ job[d].plan \in Plans
    BY <1>0 DEF IInv, CallerInv, Holds, Job
  <2>4. Untouched(p)
    BY <1>0 DEF IInv, RowInv
  <2>5. \A d \in Callers \ {c} : pc[d] # "idle" => Holds(d)'
    BY <1>0, <2>1, <2>2, <2>3 DEF Holds, Untouched, worldVars
  <2>6. Holds(c)'
    <3>1. job'[c].plan = p /\ job'[c].target = t /\ job'[c] \in Job /\ pc'[c] = "started"
      BY <1>0, <2>1
    <3>2. proposals'[p].status = "executing" /\ proposals'[p].target = t
      BY <1>0, <2>2
    <3>3. acted' = acted /\ wire' = wire
      BY <1>0 DEF worldVars
    <3> QED BY <2>4, <3>1, <3>2, <3>3 DEF Holds, Untouched
  <2> QED BY <2>1, <2>3, <2>5, <2>6 DEF IInv, CallerInv
<1>5. AuditTellsStatus'
  BY <1>0, WriteTells, TrailsGrow DEF IInv
<1>6. OneOpenPlan'
  BY DEF IInv, Start, OneOpenPlan, Live, Write, worldVars
<1>7. LateInv'
  BY DEF IInv, Start, LateInv, StopHolds, Become, worldVars
<1> QED BY <1>1, <1>2, <1>3, <1>4, <1>5, <1>6, <1>7 DEF IInv

\* What the caller knows of its plan stays true while it checks the stop.
LEMMA CheckStopKeeps ==
  ASSUME IInv, NEW c \in Callers, CheckStop(c)
  PROVE  IInv'
<1>0. /\ pc[c] \in {"started", "checked"} /\ Holds(c)
      /\ UNCHANGED <<storeVars, worldVars>>
  BY DEF CheckStop, Result, IInv, CallerInv
<1>a. PICK stage \in {"checked", "cleared", "answered"}, j \in Job :
        /\ Become(c, stage, j)
        /\ j.plan = job[c].plan /\ j.target = job[c].target
        /\ stage = "answered" => j.result = "raised"
        /\ stage = "cleared" => ~stop
  <2>1. job[c] \in Job
    BY <1>0 DEF Holds
  <2>2. CASE stop
    BY <2>1, ResultTypes DEF CheckStop, Result, Results
  <2>3. CASE ~stop
    BY <2>1, <2>3 DEF CheckStop
  <2> QED BY <2>2, <2>3
<1>b. /\ pc' \in [Callers -> Stages] /\ job' \in [Callers -> Job \cup {NoJob}]
      /\ pc'[c] = stage /\ job'[c] = j
      /\ \A d \in Callers \ {c} : pc'[d] = pc[d] /\ job'[d] = job[d]
  BY <1>a, BecomeTypes DEF IInv, Stages
<1>1. TypeOK'
  BY <1>0, <1>b DEF IInv, TypeOK, storeVars, worldVars
<1>2. RowInv'
  BY DEF IInv, CheckStop, RowInv, Untouched, Result, storeVars, worldVars
<1>3. WireInv'
  BY DEF IInv, CheckStop, WireInv, Result, storeVars, worldVars
<1>4. CallerInv'
  BY <1>0, <1>a, <1>b DEF IInv, CallerInv, Holds, Untouched, storeVars, worldVars
<1>5. AuditTellsStatus'
  BY <1>0 DEF IInv, AuditTellsStatus, storeVars
<1>6. OneOpenPlan'
  BY <1>0 DEF IInv, OneOpenPlan, Live, storeVars, worldVars
<1>7. LateInv'
  BY DEF IInv, CheckStop, TypeOK, LateInv, StopHolds, Become, Result, worldVars
<1> QED BY <1>1, <1>2, <1>3, <1>4, <1>5, <1>6, <1>7 DEF IInv

\* The plan of the request was untouched until now.
LEMMA SendRequestKeeps ==
  ASSUME IInv, NEW c \in Callers, SendRequest(c)
  PROVE  IInv'
<1>1. TypeOK'
  BY DEF IInv, SendRequest, TypeOK, CallerInv, Holds, Become, RequestOf, storeVars,
         Request, Job, Stages
<1>2. RowInv'
  BY DEF IInv, SendRequest, RowInv, CallerInv, Untouched, Holds, RequestOf, storeVars
<1>3. WireInv'
  BY DEF IInv, SendRequest, WireInv, CallerInv, Untouched, Holds, RequestOf, storeVars
<1>4. CallerInv'
  BY DEF IInv, SendRequest, TypeOK, CallerInv, Untouched, Holds, Become, RequestOf,
         storeVars, Job
<1>5. AuditTellsStatus'
  BY DEF IInv, SendRequest, AuditTellsStatus, storeVars
<1>6. OneOpenPlan'
  BY DEF IInv, SendRequest, OneOpenPlan, Live, storeVars
<1>7. LateInv'
  BY DEF IInv, SendRequest, LateInv, StopHolds, Become
<1> QED BY <1>1, <1>2, <1>3, <1>4, <1>5, <1>6, <1>7 DEF IInv

\* A caller that gives up leaves its request behind.
LEMMA NoAnswerKeeps ==
  ASSUME IInv, NEW c \in Callers, NoAnswer(c)
  PROVE  IInv'
<1>0. /\ pc[c] = "waiting" /\ Holds(c) /\ job[c] \in Job
      /\ Become(c, "answered", [job[c] EXCEPT !.result = "raised"])
      /\ UNCHANGED <<storeVars, worldVars>>
  BY DEF NoAnswer, Result, IInv, CallerInv, Holds
<1>1. TypeOK'
  <2>1. /\ pc' \in [Callers -> Stages] /\ job' \in [Callers -> Job \cup {NoJob}]
    BY <1>0, BecomeTypes, ResultTypes DEF IInv, Stages, Results
  <2> QED BY <1>0, <2>1 DEF IInv, TypeOK, storeVars, worldVars
<1>2. RowInv'
  BY DEF IInv, NoAnswer, RowInv, Untouched, Result, storeVars, worldVars
<1>3. WireInv'
  BY DEF IInv, NoAnswer, WireInv, Result, storeVars, worldVars
<1>4. CallerInv'
  <2>1. /\ job'[c] = [job[c] EXCEPT !.result = "raised"] /\ pc'[c] = "answered"
        /\ \A d \in Callers \ {c} : job'[d] = job[d] /\ pc'[d] = pc[d]
    BY <1>0 DEF Become, IInv, TypeOK
  <2>2. job'[c] \in Job /\ job'[c].plan = job[c].plan /\ job'[c].target = job[c].target
        /\ job'[c].result = "raised"
    BY <1>0, <2>1, ResultTypes DEF Job, Results
  <2>3. \A d \in Callers \ {c} : Holds(d) => Holds(d)'
    BY <1>0, <2>1 DEF Holds, Untouched, storeVars, worldVars
  <2>4. Holds(c)'
    BY <1>0, <2>1, <2>2 DEF Holds, storeVars, worldVars
  <2>5. \A d \in Callers : job'[d].plan = job[d].plan /\ (pc'[d] # "idle" => pc[d] # "idle")
    BY <1>0, <2>1, <2>2
  <2>6. \A d \in Callers : pc'[d] # "idle" => Holds(d)'
    BY <2>3, <2>4, <2>5 DEF IInv, CallerInv
  <2> QED BY <2>5, <2>6 DEF IInv, CallerInv
<1>5. AuditTellsStatus'
  BY DEF IInv, NoAnswer, AuditTellsStatus, Result, storeVars
<1>6. OneOpenPlan'
  BY DEF IInv, NoAnswer, OneOpenPlan, Live, Result, storeVars, worldVars
<1>7. LateInv'
  BY DEF IInv, NoAnswer, LateInv, StopHolds, Become, Result, worldVars
<1> QED BY <1>1, <1>2, <1>3, <1>4, <1>5, <1>6, <1>7 DEF IInv

\* The row gets the result of the only caller that has the plan.
LEMMA ConcludeKeeps ==
  ASSUME IInv, NEW c \in Callers, Conclude(c)
  PROVE  IInv'
<1> DEFINE p == job[c].plan
           row == [proposals[p] EXCEPT !.status = Final(c)]
<1>0. /\ pc[c] = "answered" /\ Holds(c) /\ p \in Plans
      /\ proposals[p].status = "executing" /\ proposals[p] \in Proposal
      /\ Become(c, "idle", NoJob) /\ UNCHANGED worldVars
  BY RowTypes DEF Conclude, IInv, CallerInv, Holds, Job, NoProposal
<1>a. /\ row \in Proposal /\ row.status = Final(c) /\ row.target = proposals[p].target
      /\ Final(c) \in {"verified", "failed"}
  <2>1. Final(c) \in {"verified", "failed"} /\ Final(c) \in Statuses
    BY DEF Final, Statuses
  <2> QED BY <1>0, <2>1, UpdateTypes
<1>b. Write(p, row, <<Final(c)>>)
  BY <1>0 DEF Conclude
<1>c. /\ <<Final(c)>> \in Seq(Rows)
      /\ proposals'[p] = row
      /\ \A q \in Plans \ {p} : proposals'[q] = proposals[q]
  <2>1. <<Final(c)>> \in Seq(Rows)
    BY <1>a, SomeRows
  <2> QED BY <1>0, <1>a, <1>b, <2>1, WriteTypes DEF IInv
<1>1. TypeOK'
  <2>1. /\ pc' \in [Callers -> Stages] /\ job' \in [Callers -> Job \cup {NoJob}]
    BY <1>0, BecomeTypes DEF IInv, Stages
  <2> QED BY <1>0, <1>a, <1>b, <1>c, <2>1, WriteTypes DEF IInv, TypeOK, Rows, worldVars
<1>2. RowInv'
  <2>1. \A q \in Plans : acted'[q] = acted[q] /\ (Untouched(q) => Untouched(q)')
    BY <1>0 DEF Untouched, worldVars
  <2>2. /\ proposals'[p].status \in {"verified", "failed"}
        /\ proposals'[p].target = proposals[p].target
    BY <1>a, <1>c
  <2>3. proposals'[p].status = "verified" => acted[p] # <<>>
    BY <1>0, <1>a, <1>c DEF Final, Holds
  <2>4. proposals[p].target \in Targets
    BY <1>0 DEF IInv, RowInv
  <2> QED BY <1>c, <2>1, <2>2, <2>3, <2>4 DEF IInv, RowInv
<1>3. WireInv'
  <2>1. /\ proposals'[p].status \in {"verified", "failed"}
        /\ proposals'[p].target = proposals[p].target
        /\ \A q \in Plans \ {p} : proposals'[q] = proposals[q]
        /\ wire' = wire /\ acted' = acted
    BY <1>0, <1>a, <1>c DEF worldVars
  <2>2. proposals'[p].status = "verified" => acted[p] # <<>>
    BY <1>0, <1>a, <1>c DEF Final, Holds
  <2>3. \A r \in wire : r.plan \in Plans
    BY DEF IInv, TypeOK, Request
  <2> QED BY <2>1, <2>2, <2>3 DEF IInv, WireInv
<1>4. CallerInv'
  BY <1>0 DEF IInv, Conclude, TypeOK, RowInv, CallerInv, Holds, Untouched, Write, Become,
              worldVars, Job, NoJob, Stages
<1>5. AuditTellsStatus'
  BY <1>0, <1>a, <1>b, WriteTells, TrailsGrow DEF IInv
<1>6. OneOpenPlan'
  BY StoreAssumption DEF IInv, Conclude, AuditTellsStatus, OneOpenPlan, TrailOf, Live,
                         Write, Final, worldVars
<1>7. LateInv'
  BY DEF IInv, Conclude, TypeOK, LateInv, StopHolds, Become, worldVars
<1> QED BY <1>1, <1>2, <1>3, <1>4, <1>5, <1>6, <1>7 DEF IInv

\* A verified answer comes after the provider acted.
LEMMA AnswerVerifiedKeeps ==
  ASSUME IInv, NEW c \in Callers, AnswerVerified(c)
  PROVE  IInv'
<1>1. TypeOK'
  <2>1. /\ pc[c] = "waiting" /\ job[c] \in Job
        /\ Become(c, "answered", [job[c] EXCEPT !.result = "verified"])
        /\ UNCHANGED <<storeVars, worldVars>>
    BY DEF AnswerVerified, Result, IInv, CallerInv, Holds
  <2>2. pc' \in [Callers -> Stages] /\ job' \in [Callers -> Job \cup {NoJob}]
    BY <2>1, BecomeTypes, ResultTypes DEF IInv, Stages, Results
  <2> QED BY <2>1, <2>2 DEF IInv, TypeOK, storeVars, worldVars
<1>2. RowInv'
  BY DEF IInv, AnswerVerified, RowInv, Untouched, Result, storeVars, worldVars
<1>3. WireInv'
  BY DEF IInv, AnswerVerified, WireInv, Result, storeVars, worldVars
<1>4. CallerInv'
  BY DEF IInv, AnswerVerified, CallerInv, Untouched, Holds, Become, Result, storeVars,
         worldVars, Job, Results
<1>5. AuditTellsStatus'
  BY DEF IInv, AnswerVerified, AuditTellsStatus, Result, storeVars
<1>6. OneOpenPlan'
  BY DEF IInv, AnswerVerified, OneOpenPlan, Live, Result, storeVars, worldVars
<1>7. LateInv'
  BY DEF IInv, AnswerVerified, LateInv, StopHolds, Become, Result, worldVars
<1> QED BY <1>1, <1>2, <1>3, <1>4, <1>5, <1>6, <1>7 DEF IInv

\* After a failed answer the request is gone.
LEMMA AnswerFailedKeeps ==
  ASSUME IInv, NEW c \in Callers, AnswerFailed(c)
  PROVE  IInv'
<1>0. /\ pc[c] = "waiting" /\ Holds(c) /\ job[c] \in Job
      /\ Become(c, "answered", [job[c] EXCEPT !.result = "failed"])
      /\ wire' = wire \ {RequestOf(c)}
      /\ UNCHANGED <<storeVars, now, stop, acted, faults, late>>
  BY DEF AnswerFailed, Result, IInv, CallerInv, Holds
<1> DEFINE j == [job[c] EXCEPT !.result = "failed"]
<1>a. j \in Job /\ j.plan = job[c].plan /\ j.target = job[c].target /\ j.result = "failed"
  BY <1>0, ResultTypes DEF Results
<1>b. /\ pc' \in [Callers -> Stages] /\ job' \in [Callers -> Job \cup {NoJob}]
      /\ pc'[c] = "answered" /\ job'[c] = j
      /\ \A d \in Callers \ {c} : pc'[d] = pc[d] /\ job'[d] = job[d]
  BY <1>0, <1>a, BecomeTypes DEF IInv, Stages
<1>1. TypeOK'
  BY <1>0, <1>b DEF IInv, TypeOK, storeVars
<1>2. RowInv'
  BY DEF IInv, AnswerFailed, RowInv, AuditTellsStatus, Untouched, TrailOf, Result,
         storeVars
<1>3. WireInv'
  BY DEF IInv, AnswerFailed, WireInv, AuditTellsStatus, TrailOf, Result, storeVars
<1>4. CallerInv'
  <2>1. \A d \in Callers : pc[d] # "idle" => job[d].plan \in Plans
    BY DEF IInv, CallerInv, Holds, Job
  <2>2. \A d \in Callers : pc'[d] # "idle" => pc[d] # "idle" /\ job'[d].plan = job[d].plan
    BY <1>0, <1>a, <1>b
  <2>3. \A q \in Plans : Untouched(q) => Untouched(q)'
    BY <1>0 DEF Untouched
  <2>4. \A d \in Callers : pc'[d] # "idle" => Holds(d)'
    <3>1. Holds(c)'
      BY <1>0, <1>a, <1>b DEF Holds, storeVars
    <3>2. ASSUME NEW d \in Callers \ {c}, pc'[d] # "idle" PROVE Holds(d)'
      BY <1>0, <1>b, <2>1, <2>3, <3>2 DEF IInv, CallerInv, Holds, storeVars
    <3> QED BY <3>1, <3>2
  <2> QED BY <2>2, <2>4 DEF IInv, CallerInv
<1>5. AuditTellsStatus'
  BY DEF IInv, AnswerFailed, AuditTellsStatus, TrailOf, Result, storeVars
<1>6. OneOpenPlan'
  BY DEF IInv, AnswerFailed, AuditTellsStatus, OneOpenPlan, TrailOf, Live, Result,
         storeVars
<1>7. LateInv'
  BY DEF IInv, AnswerFailed, AuditTellsStatus, LateInv, StopHolds, TrailOf, Become,
         Result
<1> QED BY <1>1, <1>2, <1>3, <1>4, <1>5, <1>6, <1>7 DEF IInv

\* A caller that dies leaves its plan executing.
LEMMA CrashKeeps ==
  ASSUME IInv, NEW c \in Callers, Crash(c)
  PROVE  IInv'
<1>1. TypeOK'
  BY DEF IInv, Crash, TypeOK, Become, storeVars, worldVars, Stages, Results, Job, NoJob
<1>2. RowInv'
  BY DEF IInv, Crash, RowInv, Untouched, storeVars
<1>3. WireInv'
  BY DEF IInv, Crash, WireInv, storeVars
<1>4. CallerInv'
  BY DEF IInv, Crash, TypeOK, CallerInv, Untouched, Holds, Become, storeVars
<1>5. AuditTellsStatus'
  BY DEF IInv, Crash, AuditTellsStatus, storeVars
<1>6. OneOpenPlan'
  BY DEF IInv, Crash, OneOpenPlan, Live, storeVars
<1>7. LateInv'
  BY DEF IInv, Crash, LateInv, StopHolds, Become
<1> QED BY <1>1, <1>2, <1>3, <1>4, <1>5, <1>6, <1>7 DEF IInv

\* The provider acts on a request once.
LEMMA ActKeeps ==
  ASSUME IInv, NEW r \in Request, Act(r)
  PROVE  IInv'
<1>1. TypeOK'
  BY DEF IInv, Act, TypeOK, storeVars, callerVars, Request
<1>2. RowInv'
  BY DEF IInv, Act, RowInv, LateInv, Untouched, storeVars
<1>3. WireInv'
  <2>1. /\ r \in wire /\ wire' = wire \ {r} /\ r.plan \in Plans /\ r.target \in Targets
        /\ acted' = [acted EXCEPT ![r.plan] = Append(@, r.target)]
        /\ proposals' = proposals
    BY DEF Act, Request, storeVars
  <2>2. acted[r.plan] = <<>> /\ r.target = proposals[r.plan].target
    BY <2>1 DEF IInv, WireInv
  <2>3. acted'[r.plan] = <<r.target>> /\ \A p \in Plans \ {r.plan} : acted'[p] = acted[p]
    BY <2>1, <2>2 DEF IInv, TypeOK
  <2>4. \A u \in wire' : u.plan \in Plans \ {r.plan}
    <3>1. ASSUME NEW u \in wire', u.plan = r.plan PROVE FALSE
      <4>1. u \in Request /\ u \in wire /\ u.target = r.target
        BY <2>1, <3>1 DEF IInv, TypeOK, WireInv
      <4> QED BY <2>1, <3>1, <4>1 DEF Request
    <3> QED BY <2>1, <3>1 DEF IInv, TypeOK, Request
  <2> QED BY <2>1, <2>3, <2>4 DEF IInv, WireInv
<1>4. CallerInv'
  BY StoreAssumption DEF IInv, Act, CallerInv, LateInv, Untouched, Holds, StopHolds,
                         storeVars, callerVars
<1>5. AuditTellsStatus'
  BY DEF IInv, Act, AuditTellsStatus, storeVars
<1>6. OneOpenPlan'
  BY DEF IInv, Act, OneOpenPlan, Live, storeVars
<1>7. LateInv'
  BY DEF IInv, Act, LateInv, StopHolds, callerVars
<1> QED BY <1>1, <1>2, <1>3, <1>4, <1>5, <1>6, <1>7 DEF IInv

\* A stop catches every caller that has yet to check it.
LEMMA SetStopKeeps ==
  ASSUME IInv, SetStop
  PROVE  IInv'
<1>1. TypeOK'
  BY DEF IInv, SetStop, TypeOK, storeVars, callerVars
<1>2. RowInv'
  BY DEF IInv, SetStop, RowInv, Untouched, storeVars
<1>3. WireInv'
  BY DEF IInv, SetStop, WireInv, storeVars
<1>4. CallerInv'
  BY DEF IInv, SetStop, CallerInv, Untouched, Holds, storeVars, callerVars
<1>5. AuditTellsStatus'
  BY DEF IInv, SetStop, AuditTellsStatus, storeVars
<1>6. OneOpenPlan'
  BY DEF IInv, SetStop, OneOpenPlan, Live, storeVars
<1>7. LateInv'
  BY DEF SetStop, LateInv, StopHolds, callerVars
<1> QED BY <1>1, <1>2, <1>3, <1>4, <1>5, <1>6, <1>7 DEF IInv

\* Without a stop nobody is late.
LEMMA ClearStopKeeps ==
  ASSUME IInv, ClearStop
  PROVE  IInv'
<1>1. TypeOK'
  BY DEF IInv, ClearStop, TypeOK, storeVars, callerVars
<1>2. RowInv'
  BY DEF IInv, ClearStop, RowInv, Untouched, storeVars
<1>3. WireInv'
  BY DEF IInv, ClearStop, WireInv, storeVars
<1>4. CallerInv'
  BY DEF IInv, ClearStop, CallerInv, Untouched, Holds, storeVars, callerVars
<1>5. AuditTellsStatus'
  BY DEF IInv, ClearStop, AuditTellsStatus, storeVars
<1>6. OneOpenPlan'
  BY DEF IInv, ClearStop, OneOpenPlan, Live, storeVars
<1>7. LateInv'
  BY DEF ClearStop, LateInv, StopHolds
<1> QED BY <1>1, <1>2, <1>3, <1>4, <1>5, <1>6, <1>7 DEF IInv

\* Time only closes plans.
LEMMA TickKeeps ==
  ASSUME IInv, Tick
  PROVE  IInv'
<1>1. TypeOK'
  BY StoreAssumption DEF IInv, Tick, TypeOK, storeVars, callerVars
<1>2. RowInv'
  BY DEF IInv, Tick, RowInv, Untouched, storeVars
<1>3. WireInv'
  BY DEF IInv, Tick, WireInv, storeVars
<1>4. CallerInv'
  BY DEF IInv, Tick, CallerInv, Untouched, Holds, storeVars, callerVars
<1>5. AuditTellsStatus'
  BY DEF IInv, Tick, AuditTellsStatus, storeVars
<1>6. OneOpenPlan'
  <2>1. \A p \in Plans : Live(p)' => Live(p)
    BY DEF IInv, TypeOK, Tick, Live, storeVars, Proposal, NoProposal
  <2> QED BY <2>1 DEF IInv, OneOpenPlan, Tick, storeVars
<1>7. LateInv'
  BY DEF IInv, Tick, LateInv, StopHolds, callerVars
<1> QED BY <1>1, <1>2, <1>3, <1>4, <1>5, <1>6, <1>7 DEF IInv

----------------------------------------------------------------------------
(* The theorems. *)

LEMMA InitHolds == Init => IInv
<1> SUFFICES ASSUME Init PROVE IInv
  OBVIOUS
<1>1. TypeOK
  <2>1. /\ current \in Snapshots \cup {NoSnapshot} /\ stop \in BOOLEAN
        /\ wire \subseteq Request /\ late \subseteq Callers
    BY DEF Init
  <2>2. /\ proposals \in [Plans -> Proposal \cup {NoProposal}]
        /\ pc \in [Callers -> Stages] /\ job \in [Callers -> Job \cup {NoJob}]
    BY DEF Init, Stages
  <2>3. trail \in [Plans -> Seq(Rows)] /\ acted \in [Plans -> Seq(Targets)]
    BY DEF Init
  <2>4. now \in 0..MaxTime /\ faults \in Nat
    BY StoreAssumption DEF Init
  <2> QED BY <2>1, <2>2, <2>3, <2>4 DEF TypeOK, Rows
<1>2. RowInv /\ WireInv
  BY DEF Init, RowInv, WireInv, Untouched, NoProposal
<1>3. CallerInv /\ LateInv
  BY DEF Init, CallerInv, LateInv, StopHolds
<1>4. AuditTellsStatus /\ OneOpenPlan
  BY TrailTypes DEF Init, AuditTellsStatus, OneOpenPlan, Live, NoProposal
<1> QED BY <1>1, <1>2, <1>3, <1>4 DEF IInv

LEMMA StepHolds == IInv /\ [Next]_vars => IInv'
<1> SUFFICES ASSUME IInv, [Next]_vars PROVE IInv'
  OBVIOUS
<1>1. CASE UNCHANGED vars
  BY <1>1 DEF IInv, vars, storeVars, callerVars, worldVars, TypeOK, RowInv, WireInv,
              CallerInv, AuditTellsStatus, OneOpenPlan, LateInv, StopHolds, Untouched,
              Live, Holds
<1>2. ASSUME NEW s \in Snapshots, Ingest(s) PROVE IInv'
  BY <1>2, IngestKeeps
<1>3. ASSUME NEW p \in Plans, NEW s \in Snapshots, NEW f \in Findings, Propose(p, s, f)
      PROVE  IInv'
  BY <1>3, ProposeKeeps
<1>4. ASSUME NEW p \in Plans, Simulate(p) PROVE IInv'
  BY <1>4, SimulateKeeps
<1>5. ASSUME NEW p \in Plans, NEW t \in Targets, Approve(p, t) PROVE IInv'
  BY <1>5, ApproveKeeps
<1>6. ASSUME NEW c \in Callers, NEW p \in Plans, NEW t \in Targets, Start(c, p, t)
      PROVE  IInv'
  BY <1>6, StartKeeps
<1>7. ASSUME NEW c \in Callers, Execute(c) PROVE IInv'
  BY <1>7, CheckStopKeeps, SendRequestKeeps, NoAnswerKeeps, ConcludeKeeps DEF Execute
<1>8. ASSUME NEW c \in Callers, AnswerVerified(c) \/ AnswerFailed(c) \/ Crash(c)
      PROVE  IInv'
  BY <1>8, AnswerVerifiedKeeps, AnswerFailedKeeps, CrashKeeps
<1>9. ASSUME NEW r \in Request, Act(r) PROVE IInv'
  BY <1>9, ActKeeps
<1>10. CASE SetStop \/ ClearStop \/ Tick
  BY <1>10, SetStopKeeps, ClearStopKeeps, TickKeeps
<1> QED BY <1>1, <1>2, <1>3, <1>4, <1>5, <1>6, <1>7, <1>8, <1>9, <1>10 DEF Next

\* What the row, the caller, the request and the provider know of each other stays true
\* in every reachable state of any instance.
THEOREM Invariance == Spec => []IInv
BY InitHolds, StepHolds, PTL DEF Spec

\* Rows, trails and requests keep their types (TypeOK).
THEOREM TypeCorrect == Spec => []TypeOK
<1>1. IInv => TypeOK
  BY DEF IInv
<1> QED BY <1>1, Invariance, PTL

\* The provider acts at most once for a plan, and on the target that was approved, with
\* any number of callers, crashes and late answers (ActsOnceAsApproved).
THEOREM ActsOnce == Spec => []ActsOnceAsApproved
<1>1. IInv => ActsOnceAsApproved
  BY DEF IInv, WireInv, ActsOnceAsApproved
<1> QED BY <1>1, Invariance, PTL

\* No plan is "verified" that the provider did not act for (VerifiedMeansActed).
THEOREM Verified == Spec => []VerifiedMeansActed
<1>1. IInv => VerifiedMeansActed
  BY DEF IInv, RowInv, VerifiedMeansActed
<1> QED BY <1>1, Invariance, PTL

\* The audit chain and the table tell the same of every plan, after a crash between the
\* two transactions of an execution too (AuditTellsStatus).
THEOREM AuditAgrees == Spec => []AuditTellsStatus
<1>1. IInv => AuditTellsStatus
  BY DEF IInv
<1> QED BY <1>1, Invariance, PTL

\* One finding of one input never has two open plans (OneOpenPlan).
THEOREM OneOpen == Spec => []OneOpenPlan
<1>1. IInv => OneOpenPlan
  BY DEF IInv
<1> QED BY <1>1, Invariance, PTL

\* After a stop is set, only a caller that had read it for the last time sends
\* (StopHolds).
THEOREM StopIsRead == Spec => []StopHolds
<1>1. IInv => StopHolds
  BY DEF IInv, LateInv
<1> QED BY <1>1, Invariance, PTL

\* What an operator decides on is current (DecidedOnCurrentInput).
THEOREM DecisionsAreCurrent == Spec => DecidedOnCurrentInput
<1> DEFINE A == \A p \in Plans :
       proposals'[p].status # proposals[p].status
         /\ proposals'[p].status \in {"simulated", "approved", "executing", "verified"}
       => /\ current = proposals[p].snapshot
          /\ proposals'[p].status # "verified" => now < proposals[p].expires
<1>1. IInv /\ [Next]_vars => [A]_vars
  <2> SUFFICES ASSUME IInv, Next PROVE A
    OBVIOUS
  <2>1. ASSUME NEW p \in Plans, Simulate(p) \/ \E t \in Targets : Approve(p, t)
        PROVE  A
    BY <2>1 DEF Simulate, Approve, Approvable, Live, Reported, Write, IInv, TypeOK, Proposal
  <2>2. ASSUME NEW p \in Plans, NEW c \in Callers, NEW t \in Targets, Start(c, p, t)
        PROVE  A
    BY <2>2 DEF Start, Startable, Reported, Write
  <2>3. ASSUME NEW c \in Callers, Conclude(c) PROVE A
    BY <2>3 DEF Conclude, Final, Write, IInv, TypeOK, Proposal, NoProposal, CallerInv, Holds
  <2>4. ASSUME NEW p \in Plans, NEW s \in Snapshots, NEW f \in Findings, Propose(p, s, f)
        PROVE  A
    BY <2>4 DEF Propose, Write
  <2>5. CASE UNCHANGED proposals
    BY <2>5
  <2> QED BY <2>1, <2>2, <2>3, <2>4, <2>5
          DEF Next, Ingest, Execute, CheckStop, SendRequest, NoAnswer, AnswerVerified,
              AnswerFailed, Crash, Act, SetStop, ClearStop, Tick, Result, storeVars
<1> QED BY <1>1, Invariance, PTL DEF Spec, DecidedOnCurrentInput

----------------------------------------------------------------------------
(* Every plan goes through the states of the documented life. *)

\* The state and target of a plan as they are shown.
ShownStatus == [p \in Plans |-> StatusShown(p)]
ShownTarget == [p \in Plans |->
  IF proposals[p] = NoProposal \/ proposals[p].target = "none"
  THEN <<>> ELSE <<proposals[p].target>>]

\* A transaction on one plan moves that plan, to the status it writes.
LEMMA WriteMoves ==
  ASSUME TypeOK, UNCHANGED now, NEW p \in Plans, NEW row \in Proposal,
         row.status # "pending" \/ row.expires >= now,
         proposals' = [proposals EXCEPT ![p] = row]
  PROVE  ShownStatus' = [ShownStatus EXCEPT ![p] = row.status]
<1>1. \A q \in Plans : StatusShown(q)' = IF q = p THEN row.status ELSE StatusShown(q)
  <2>1. proposals'[p] = row /\ \A q \in Plans \ {p} : proposals'[q] = proposals[q]
    BY DEF TypeOK
  <2>2. StatusShown(p)' = row.status
    BY DEF StatusShown, TypeOK, Proposal
  <2> QED BY <2>2 DEF StatusShown
<1> QED BY <1>1 DEF ShownStatus

\* What is shown of its target is what is written of it.
LEMMA WriteTargets ==
  ASSUME TypeOK, NEW p \in Plans, NEW row \in Proposal,
         proposals' = [proposals EXCEPT ![p] = row]
  PROVE  ShownTarget' = [ShownTarget EXCEPT ![p] =
                           IF row.target = "none" THEN <<>> ELSE <<row.target>>]
<1>1. proposals'[p] = row /\ \A q \in Plans \ {p} : proposals'[q] = proposals[q]
  BY DEF TypeOK
<1>2. proposals'[p] # NoProposal
  BY <1>1 DEF Proposal, NoProposal
<1>3. \A q \in Plans :
        ShownTarget'[q] = IF q = p THEN IF row.target = "none" THEN <<>> ELSE <<row.target>>
                          ELSE ShownTarget[q]
  BY <1>1, <1>2 DEF ShownTarget
<1> QED BY <1>3 DEF ShownTarget

\* A transaction on one plan that leaves its target alone is a move of that plan.
LEMMA PlanMoves ==
  ASSUME TypeOK, UNCHANGED <<now, acted>>, NEW p \in Plans, NEW row \in Proposal,
         row.status # "pending" \/ row.expires >= now,
         proposals' = [proposals EXCEPT ![p] = row],
         IF proposals[p] = NoProposal THEN row.target = "none"
         ELSE row.target = proposals[p].target
  PROVE  /\ Lifecycle!Move(p, StatusShown(p), row.status)
         /\ ShownTarget' = ShownTarget
<1>1. ShownTarget[p] = IF row.target = "none" THEN <<>> ELSE <<row.target>>
  BY DEF ShownTarget
<1>2. ShownTarget' = ShownTarget
  <2>1. ShownTarget' = [ShownTarget EXCEPT ![p] = ShownTarget[p]]
    BY <1>1, WriteTargets
  <2> QED BY <2>1 DEF ShownTarget
<1>3. ShownStatus' = [ShownStatus EXCEPT ![p] = row.status]
  BY WriteMoves
<1> QED BY <1>2, <1>3 DEF Lifecycle!Move, ShownStatus

LEMMA StartsAbsent == Init => Lifecycle!Init
BY DEF Init, Lifecycle!Init, StatusShown, NoProposal

LEMMA StepsAreMoves ==
  ASSUME IInv, IInv', [Next]_vars
  PROVE  [Lifecycle!Next]_(Lifecycle!lifecycleVars)
<1> DEFINE Shown ==
             ShownStatus' = ShownStatus /\ ShownTarget' = ShownTarget /\ acted' = acted
<1>0. ASSUME Shown PROVE UNCHANGED Lifecycle!lifecycleVars
  BY <1>0 DEF Lifecycle!lifecycleVars, ShownStatus, ShownTarget
<1>1. ASSUME UNCHANGED <<proposals, now, acted>> PROVE Shown
  BY <1>1 DEF ShownStatus, ShownTarget, StatusShown
<1>2. ASSUME NEW p \in Plans, NEW s \in Snapshots, NEW f \in Findings, Propose(p, s, f)
      PROVE  Lifecycle!Propose(p)
  <2> DEFINE row == [snapshot |-> s, finding |-> f, expires |-> now + Ttl,
                    status |-> "pending", target |-> "none"]
  <2>1. /\ row \in Proposal /\ row.expires >= now
        /\ proposals[p] = NoProposal /\ proposals' = [proposals EXCEPT ![p] = row]
        /\ UNCHANGED <<now, acted>>
    BY <1>2, StoreAssumption DEF Propose, Write, worldVars, IInv, TypeOK, Proposal,
                                 Statuses
  <2>2. Lifecycle!Move(p, StatusShown(p), "pending") /\ ShownTarget' = ShownTarget
    BY <2>1, PlanMoves DEF IInv
  <2>3. StatusShown(p) = "absent"
    BY <2>1 DEF StatusShown, NoProposal
  <2> QED BY <2>1, <2>2, <2>3 DEF Lifecycle!Propose
<1>3. ASSUME NEW p \in Plans, Simulate(p) PROVE Lifecycle!Simulate(p)
  <2> DEFINE row == [proposals[p] EXCEPT !.status = "simulated"]
  <2>1. /\ proposals[p] \in Proposal /\ proposals[p] # NoProposal
        /\ proposals[p].status = "pending" /\ proposals[p].expires > now
        /\ proposals' = [proposals EXCEPT ![p] = row]
        /\ UNCHANGED <<now, acted>>
    BY <1>3, RowTypes DEF Simulate, Approvable, Live, Write, worldVars, IInv
  <2>2. row \in Proposal /\ row.status = "simulated" /\ row.target = proposals[p].target
    BY <2>1, UpdateTypes DEF Statuses
  <2>3. Lifecycle!Move(p, StatusShown(p), "simulated") /\ ShownTarget' = ShownTarget
    BY <2>1, <2>2, PlanMoves DEF IInv
  <2>4. StatusShown(p) = "pending"
    BY <2>1 DEF StatusShown, IInv, TypeOK, Proposal
  <2> QED BY <2>1, <2>3, <2>4 DEF Lifecycle!Simulate, ShownTarget
<1>4. ASSUME NEW p \in Plans, NEW t \in Targets, Approve(p, t) PROVE Lifecycle!Approve(p, t)
  <2> DEFINE row == [proposals[p] EXCEPT !.status = "approved", !.target = t]
  <2>1. /\ proposals[p] \in Proposal
        /\ proposals[p].status = "pending" /\ proposals[p].expires > now
        /\ proposals' = [proposals EXCEPT ![p] = row]
        /\ UNCHANGED <<now, acted>>
    BY <1>4, RowTypes DEF Approve, Approvable, Live, Write, worldVars, IInv
  <2>2. row \in Proposal /\ row.status = "approved" /\ row.target = t /\ t # "none"
    BY <2>1, StoreAssumption DEF Proposal, Statuses
  <2>3. ShownStatus' = [ShownStatus EXCEPT ![p] = "approved"]
    BY <2>1, <2>2, WriteMoves DEF IInv
  <2>4. ShownTarget' = [ShownTarget EXCEPT ![p] = <<t>>]
    <3> HIDE DEF row
    <3>1. ShownTarget' = [ShownTarget EXCEPT ![p] =
                            IF row.target = "none" THEN <<>> ELSE <<row.target>>]
      BY <2>1, <2>2, WriteTargets DEF IInv
    <3> QED BY <2>2, <3>1
  <2>5. ShownStatus[p] = "pending"
    BY <2>1 DEF ShownStatus, StatusShown, IInv, TypeOK, Proposal
  <2> QED BY <2>1, <2>3, <2>4, <2>5 DEF Lifecycle!Approve, Lifecycle!Move, ShownStatus,
                                        ShownTarget
<1>5. ASSUME NEW c \in Callers, NEW p \in Plans, NEW t \in Targets, Start(c, p, t)
      PROVE  Lifecycle!Start(p)
  <2> DEFINE row == [proposals[p] EXCEPT !.status = "executing"]
  <2>1. /\ proposals[p] \in Proposal /\ proposals[p] # NoProposal
        /\ proposals[p].status = "approved"
        /\ proposals' = [proposals EXCEPT ![p] = row]
        /\ UNCHANGED <<now, acted>>
    BY <1>5, RowTypes DEF Start, Startable, Write, worldVars, IInv
  <2>2. row \in Proposal /\ row.status = "executing" /\ row.target = proposals[p].target
    BY <2>1, UpdateTypes DEF Statuses
  <2>3. Lifecycle!Move(p, StatusShown(p), "executing") /\ ShownTarget' = ShownTarget
    BY <2>1, <2>2, PlanMoves DEF IInv
  <2>4. StatusShown(p) = "approved"
    BY <2>1 DEF StatusShown
  <2> QED BY <2>1, <2>3, <2>4 DEF Lifecycle!Start, ShownTarget
<1>6. ASSUME NEW c \in Callers, Conclude(c)
      PROVE  Lifecycle!Fail(job[c].plan) \/ Lifecycle!Verify(job[c].plan)
  <2> DEFINE p == job[c].plan
             row == [proposals[p] EXCEPT !.status = Final(c)]
  <2>1. /\ Holds(c) /\ p \in Plans /\ pc[c] = "answered"
        /\ proposals[p].status = "executing"
        /\ proposals[p] \in Proposal /\ proposals[p] # NoProposal
        /\ proposals' = [proposals EXCEPT ![p] = row]
        /\ UNCHANGED <<now, acted>>
    BY <1>6, RowTypes DEF Conclude, Write, worldVars, IInv, CallerInv, Holds, Job,
                          NoProposal
  <2>2. /\ Final(c) \in {"verified", "failed"} /\ Final(c) \in Statuses
        /\ Final(c) = "verified" => acted[p] # <<>>
    BY <2>1 DEF Final, Statuses, Holds
  <2>3. row \in Proposal /\ row.status = Final(c) /\ row.target = proposals[p].target
    BY <2>1, <2>2, UpdateTypes
  <2>4. Lifecycle!Move(p, StatusShown(p), Final(c)) /\ ShownTarget' = ShownTarget
    BY <2>1, <2>2, <2>3, PlanMoves DEF IInv
  <2>5. StatusShown(p) = "executing"
    BY <2>1 DEF StatusShown
  <2> QED BY <2>1, <2>2, <2>4, <2>5 DEF Lifecycle!Fail, Lifecycle!Verify, ShownTarget
<1>7. ASSUME NEW r \in Request, Act(r) PROVE Lifecycle!Act(r.plan)
  <2> DEFINE p == r.plan
  <2>1. /\ r \in wire /\ p \in Plans
        /\ acted' = [acted EXCEPT ![p] = Append(@, r.target)]
        /\ UNCHANGED <<proposals, now>>
    BY <1>7 DEF Act, Request, storeVars
  <2>2. /\ proposals[p].status \in {"executing", "failed"} /\ proposals[p].target = r.target
        /\ acted[p] = <<>> /\ r.target \in Targets /\ r.target # "none"
    BY <2>1, StoreAssumption DEF IInv, WireInv, Request
  <2>3. ShownTarget[p] = <<r.target>>
    BY <2>1, <2>2 DEF ShownTarget, NoProposal
  <2>4. acted' = [acted EXCEPT ![p] = <<r.target>>]
    BY <2>1, <2>2
  <2>5. StatusShown(p) \in {"executing", "failed"}
    BY <2>2 DEF StatusShown
  <2>6. ShownStatus' = ShownStatus /\ ShownTarget' = ShownTarget
    BY <2>1 DEF ShownStatus, ShownTarget, StatusShown
  <2> QED BY <2>1, <2>2, <2>3, <2>4, <2>5, <2>6 DEF Lifecycle!Act, ShownStatus,
                                                    ShownTarget
<1>8. ASSUME Tick PROVE \E ps \in SUBSET Plans : Lifecycle!Expire(ps)
  <2> DEFINE ps == {p \in Plans : StatusShown(p) = "pending" /\ proposals[p].expires < now'}
  <2>1. UNCHANGED <<proposals, acted>> /\ now' = now + 1 /\ now \in Nat
    BY <1>8 DEF Tick, storeVars, IInv, TypeOK
  <2>2. \A p \in Plans : StatusShown(p)' = IF p \in ps THEN "expired" ELSE StatusShown(p)
    <3> SUFFICES ASSUME NEW p \in Plans
                 PROVE  StatusShown(p)' = IF p \in ps THEN "expired" ELSE StatusShown(p)
      OBVIOUS
    <3>1. CASE proposals[p].status = "pending"
      <4>1. proposals[p].expires \in Nat
        BY <3>1 DEF IInv, TypeOK, Proposal, NoProposal
      <4> QED BY <2>1, <4>1 DEF StatusShown
    <3>2. CASE proposals[p].status # "pending"
      BY <2>1, <3>2 DEF StatusShown
    <3> QED BY <3>1, <3>2
  <2>3. ShownTarget' = ShownTarget
    BY <2>1 DEF ShownTarget
  <2>4. Lifecycle!Expire(ps)
    BY <2>1, <2>2 DEF Lifecycle!Expire
  <2> QED BY <2>4
<1>9. ASSUME NEW c \in Callers, Conclude(c) PROVE job[c].plan \in Plans
  BY <1>9 DEF Conclude, IInv, CallerInv, Holds, Job
<1>10. ASSUME NEW c \in Callers, \/ CheckStop(c) \/ SendRequest(c) \/ NoAnswer(c)
                                \/ AnswerVerified(c) \/ AnswerFailed(c) \/ Crash(c)
       PROVE  Shown
  BY <1>1, <1>10 DEF CheckStop, SendRequest, NoAnswer, AnswerVerified, AnswerFailed,
                     Crash, Result, storeVars, worldVars
<1>11. ASSUME (\E s \in Snapshots : Ingest(s)) \/ SetStop \/ ClearStop \/ UNCHANGED vars
       PROVE  Shown
  BY <1>1, <1>11 DEF Ingest, SetStop, ClearStop, vars, storeVars, worldVars
<1>12. CASE Next
  <2>1. Lifecycle!Next \/ Shown
    BY <1>2, <1>3, <1>4, <1>5, <1>6, <1>7, <1>8, <1>9, <1>10, <1>11 DEF Next, Execute,
                                                                        Lifecycle!Next,
                                                                        Request
  <2> QED BY <2>1, <1>0
<1> QED BY <1>0, <1>11, <1>12

\* Every plan, with racing callers, crashes, late answers and the clock, goes through the
\* states of docs/PRODUCT_SPEC.md (ImplementsLifecycle).
THEOREM Implements == Spec => ImplementsLifecycle
<1>1. IInv /\ IInv' /\ [Next]_vars => [Lifecycle!Next]_(Lifecycle!lifecycleVars)
  BY StepsAreMoves
<1> QED BY <1>1, StartsAbsent, Invariance, PTL DEF Spec, ImplementsLifecycle, Lifecycle!Spec

----------------------------------------------------------------------------
(* Plans that stay executing. *)

AbandonedInv == IsFiniteSet(Abandoned) /\ Cardinality(Abandoned) <= faults

\* A caller goes on with its plan.
LEMMA CallerGoesOn ==
  ASSUME IInv, UNCHANGED proposals, NEW c \in Callers, pc[c] # "idle",
         NEW stage \in Stages \ {"idle"}, NEW j, j.plan = job[c].plan, Become(c, stage, j)
  PROVE  Abandoned' \subseteq Abandoned
<1>1. /\ pc'[c] = stage /\ job'[c] = j
      /\ \A d \in Callers : d # c => pc'[d] = pc[d] /\ job'[d] = job[d]
  BY DEF Become, IInv, TypeOK
<1> QED BY <1>1 DEF Abandoned

LEMMA ExecutionGoesOn ==
  ASSUME IInv, NEW c \in Callers,
         CheckStop(c) \/ SendRequest(c) \/ NoAnswer(c) \/ AnswerVerified(c) \/ AnswerFailed(c)
  PROVE  Abandoned' \subseteq Abandoned /\ faults' = faults
<1>1. /\ UNCHANGED <<storeVars, faults>> /\ pc[c] # "idle"
  BY DEF CheckStop, SendRequest, NoAnswer, AnswerVerified, AnswerFailed, Result, storeVars,
         worldVars
<1>2. job[c] \in Job
  BY <1>1 DEF IInv, CallerInv, Holds
<1>3. PICK stage \in Stages \ {"idle"}, result \in Results :
        Become(c, stage, [job[c] EXCEPT !.result = result])
  <2>1. job[c] = [job[c] EXCEPT !.result = job[c].result] /\ job[c].result \in Results
    BY <1>2 DEF Job
  <2> QED BY <2>1 DEF CheckStop, SendRequest, NoAnswer, AnswerVerified, AnswerFailed, Result,
                      Stages, Results
<1>4. [job[c] EXCEPT !.result = result].plan = job[c].plan
  BY <1>2 DEF Job
<1> QED BY <1>1, <1>3, <1>4, CallerGoesOn DEF storeVars

\* A row that is written of a plan that is not executing then leaves no plan behind.
LEMMA WriteLeavesNone ==
  ASSUME IInv, NEW p \in Plans, NEW row, row.status # "executing",
         proposals' = [proposals EXCEPT ![p] = row], UNCHANGED callerVars
  PROVE  Abandoned' \subseteq Abandoned
<1>1. proposals'[p] = row /\ \A q \in Plans : q # p => proposals'[q] = proposals[q]
  BY DEF IInv, TypeOK
<1> QED BY <1>1 DEF Abandoned, callerVars

\* No plan is left behind but the one of a caller that dies.
LEMMA WhatIsLeft ==
  ASSUME IInv, [Next]_vars
  PROVE  \/ Abandoned' \subseteq Abandoned /\ faults' = faults
         \/ \E p : Abandoned' \subseteq Abandoned \cup {p} /\ faults' = faults + 1
<1> DEFINE Quiet == Abandoned' \subseteq Abandoned /\ faults' = faults
<1>1. ASSUME UNCHANGED <<proposals, callerVars, faults>> PROVE Quiet
  BY <1>1 DEF Abandoned, callerVars
<1>2. ASSUME NEW p \in Plans, NEW s \in Snapshots, NEW f \in Findings, Propose(p, s, f)
      PROVE  Quiet
  BY <1>2, WriteLeavesNone DEF Propose, Write, worldVars
<1>3. ASSUME NEW p \in Plans, Simulate(p) PROVE Quiet
  <2>1. proposals[p] \in Proposal
    BY <1>3, RowTypes DEF IInv, Simulate, Approvable, Live
  <2>2. [proposals[p] EXCEPT !.status = "simulated"].status # "executing"
    BY <2>1 DEF Proposal
  <2> QED BY <1>3, <2>2, WriteLeavesNone DEF Simulate, Write, worldVars
<1>4. ASSUME NEW p \in Plans, NEW t \in Targets, Approve(p, t) PROVE Quiet
  <2>1. proposals[p] \in Proposal
    BY <1>4, RowTypes DEF IInv, Approve, Approvable, Live
  <2>2. [proposals[p] EXCEPT !.status = "approved", !.target = t].status # "executing"
    BY <2>1 DEF Proposal
  <2> QED BY <1>4, <2>2, WriteLeavesNone DEF Approve, Write, worldVars
<1>5. ASSUME NEW c \in Callers, NEW p \in Plans, NEW t \in Targets, Start(c, p, t)
      PROVE  Quiet
  <2>1. /\ pc[c] = "idle" /\ pc'[c] = "started" /\ job'[c].plan = p
        /\ \A d \in Callers : d # c => pc'[d] = pc[d] /\ job'[d] = job[d]
        /\ \A q \in Plans : q # p => proposals'[q] = proposals[q]
    BY <1>5 DEF Start, Become, Write, IInv, TypeOK
  <2> QED BY <1>5, <2>1 DEF Abandoned, Start, worldVars
<1>6. ASSUME NEW c \in Callers, Conclude(c) PROVE Quiet
  <2>1. /\ pc[c] # "idle" /\ pc'[c] = "idle"
        /\ \A d \in Callers : d # c => pc'[d] = pc[d] /\ job'[d] = job[d]
        /\ \A q \in Plans : q # job[c].plan => proposals'[q] = proposals[q]
    BY <1>6 DEF Conclude, Become, Write, IInv, TypeOK, Stages
  <2>2. job[c].plan \in Plans /\ proposals[job[c].plan] \in Proposal
    BY <2>1, RowTypes DEF IInv, CallerInv, Holds, Job
  <2>3. proposals'[job[c].plan].status # "executing"
    <3>1. proposals'[job[c].plan].status \in {"verified", "failed"}
      BY <1>6, <2>1, <2>2 DEF Conclude, Write, Final, IInv, TypeOK, CallerInv, Holds, Proposal
    <3> QED BY <3>1
  <2> QED BY <1>6, <2>1, <2>3 DEF Abandoned, Conclude, worldVars
<1>7. ASSUME NEW c \in Callers, Crash(c)
      PROVE  Abandoned' \subseteq Abandoned \cup {job[c].plan} /\ faults' = faults + 1
  <2>1. /\ UNCHANGED proposals /\ faults' = faults + 1
        /\ \A d \in Callers : d # c => pc'[d] = pc[d] /\ job'[d] = job[d]
    BY <1>7 DEF Crash, Become, IInv, TypeOK, storeVars
  <2> QED BY <2>1 DEF Abandoned
<1>8. ASSUME NEW s \in Snapshots, Ingest(s) PROVE Quiet
  BY <1>1, <1>8 DEF Ingest, worldVars
<1>9. ASSUME NEW r \in Request, Act(r) PROVE Quiet
  BY <1>1, <1>9 DEF Act, storeVars
<1>10. ASSUME SetStop \/ ClearStop \/ Tick \/ UNCHANGED vars PROVE Quiet
  BY <1>1, <1>10 DEF SetStop, ClearStop, Tick, vars, storeVars, callerVars, worldVars
<1> HIDE DEF Quiet
<1>11. Quiet \/ \E c \in Callers : Crash(c)
  BY <1>2, <1>3, <1>4, <1>5, <1>6, <1>8, <1>9, <1>10, ExecutionGoesOn DEF Next, Execute, Quiet
<1> QED BY <1>7, <1>11 DEF Quiet

LEMMA AbandonedKeeps ==
  ASSUME IInv, AbandonedInv, [Next]_vars
  PROVE  AbandonedInv'
<1>1. IsFiniteSet(Abandoned) /\ Cardinality(Abandoned) \in Nat /\ faults \in Nat
  BY FS_CardinalityType DEF AbandonedInv, IInv, TypeOK
<1>2. CASE Abandoned' \subseteq Abandoned /\ faults' = faults
  <2>1. /\ IsFiniteSet(Abandoned') /\ Cardinality(Abandoned') <= Cardinality(Abandoned)
        /\ Cardinality(Abandoned') \in Nat
    BY <1>1, <1>2, FS_Subset, FS_CardinalityType
  <2> QED BY <1>1, <1>2, <2>1 DEF AbandonedInv
<1>3. ASSUME NEW p, Abandoned' \subseteq Abandoned \cup {p}, faults' = faults + 1
      PROVE  AbandonedInv'
  <2>1. /\ IsFiniteSet(Abandoned \cup {p})
        /\ Cardinality(Abandoned \cup {p}) \in {Cardinality(Abandoned), Cardinality(Abandoned) + 1}
    BY <1>1, FS_AddElement, Zenon
  <2>2. /\ IsFiniteSet(Abandoned')
        /\ Cardinality(Abandoned') <= Cardinality(Abandoned \cup {p})
        /\ Cardinality(Abandoned') \in Nat
    BY <1>3, <2>1, FS_Subset, FS_CardinalityType
  <2> QED BY <1>1, <1>3, <2>1, <2>2 DEF AbandonedInv
<1> QED BY <1>2, <1>3, WhatIsLeft

\* Every crash leaves one plan at most that is executing and that no caller has, and nothing
\* else leaves one: not a timeout, not the stop, not an input that changed under the call
\* (execute_approved()).
THEOREM OneLeftByACrash == Spec => []OnlyCrashesAbandon
<1>1. Init => AbandonedInv
  <2> SUFFICES ASSUME Init PROVE AbandonedInv
    OBVIOUS
  <2>1. Abandoned = {} /\ faults = 0
    BY DEF Init, Abandoned, NoProposal
  <2> QED BY <2>1, FS_EmptySet DEF AbandonedInv
<1>2. IInv /\ AbandonedInv /\ [Next]_vars => AbandonedInv'
  BY AbandonedKeeps
<1>3. AbandonedInv => OnlyCrashesAbandon
  BY DEF AbandonedInv, OnlyCrashesAbandon
<1> QED BY <1>1, <1>2, <1>3, Invariance, PTL DEF Spec
=============================================================================
