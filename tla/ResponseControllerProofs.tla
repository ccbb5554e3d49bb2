----------------------- MODULE ResponseControllerProofs ----------------------
(***************************************************************************)
(* Theorems about ResponseController, for any sets of plans and executors, *)
(* with the maintenance window kept or not.  A plan is safe from being     *)
(* executed twice by two facts that take turns: while it is live, a row of *)
(* the journal that is too young to prune fences it; and once that row can *)
(* be pruned, the plan is live no more.                                    *)
(***************************************************************************)
EXTENDS ResponseController, EvidenceProofs

BeforeSend == {"reserved", "reading", "compared", "applying"}
HoldStages == BeforeSend \cup {"waiting", "verifying", "concluding"}

Holding(e) == pc[e] \in HoldStages

\* A row of the journal fences the plan, and is no older than the plan.
Traced(id) ==
  \E r \in journal : r.kind = "request" /\ r.id = id /\ r.at >= plans[id].made

PlanInv ==
  \A id \in RequestIds :
    /\ plans[id] # NoPlan => plans[id].made <= now
    /\ plans[id] = NoPlan => sent[id] = 0
    /\ Live(id) /\ sent[id] > 0 => Traced(id)

\* What an executor that holds the reservation knows of its plan.
Owns(e) ==
  /\ Traced(job[e].id)
  /\ Known(job[e].id)
  /\ receipts[job[e].id].state = "dispatch_pending"
  /\ receipts[job[e].id].at >= plans[job[e].id].made
  /\ pc[e] \in BeforeSend => sent[job[e].id] = 0
  /\ pc[e] = "verifying" => applied[job[e].id] # <<>>
  /\ pc[e] = "concluding" =>
       /\ job[e].final \in FinalStates
       /\ job[e].final = "precondition_failed" => sent[job[e].id] = 0
       /\ job[e].final = "verified" => applied[job[e].id] # <<>>

ExecutorInv ==
  /\ \A e \in Executors : pc[e] # "idle" => job[e] \in Job /\ Live(job[e].id)
  /\ \A e \in Executors : Holding(e) => Owns(e)
  /\ \A e, o \in Executors : Holding(e) /\ Holding(o) /\ e # o => job[e].id # job[o].id

IInv ==
  /\ TypeOK /\ ChainInv /\ PlanInv /\ ExecutorInv
  /\ SentAtMostOnce /\ RefusedMeansUntouched /\ VerifiedMeansApplied

----------------------------------------------------------------------------
(* Types of what the steps read. *)

\* What is known of the numbers and records an invariant state holds.
LEMMA Ranges ==
  ASSUME IInv
  PROVE  /\ now \in Nat /\ MaxDay \in Nat /\ now <= MaxDay
         /\ journal \in SUBSET Row
         /\ EvidenceTypeOK /\ ChainInv
         /\ receipts \in [RequestIds -> Receipt \cup {NoReceipt}]
         /\ \A id \in RequestIds : plans[id] # NoPlan =>
              /\ plans[id] \in Plan /\ plans[id].made \in Nat
              /\ plans[id].made <= now
<1>1. now \in Nat /\ MaxDay \in Nat /\ now <= MaxDay
  BY LimitAssumption DEF IInv, TypeOK, EvidenceTypeOK
<1>2. ASSUME NEW id \in RequestIds, plans[id] # NoPlan
      PROVE  plans[id] \in Plan /\ plans[id].made \in Nat /\ plans[id].made <= now
  <2>1. plans[id] \in Plan
    BY <1>2 DEF IInv, TypeOK
  <2>2. plans[id].made \in Nat
    BY <2>1, <1>1 DEF Plan
  <2> QED BY <2>1, <2>2, <1>2 DEF IInv, PlanInv
<1> QED BY <1>1, <1>2 DEF IInv, TypeOK, EvidenceTypeOK

----------------------------------------------------------------------------
(* Steps that leave the store, the plans and the device's history alone. *)

\* What is said of the store and the plans survives a step that touches neither.
LEMMA QuietKeeps ==
  ASSUME IInv, UNCHANGED <<evidenceVars, plans, sent, applied>>
  PROVE  /\ EvidenceTypeOK' /\ ChainInv' /\ PlanInv'
         /\ SentAtMostOnce' /\ RefusedMeansUntouched' /\ VerifiedMeansApplied'
BY DEF IInv, TypeOK, EvidenceTypeOK, evidenceVars, ChainInv, Tip, PlanInv, Live, Traced,
       SentAtMostOnce, RefusedMeansUntouched, VerifiedMeansApplied, Known

\* One executor moves to a stage whose claims hold of it.
LEMMA ExecutorMoves ==
  ASSUME IInv, UNCHANGED <<evidenceVars, rule, plans, sent, applied, stop, late>>,
         wire' \subseteq RequestIds, faults' \in 0..MaxFaults,
         NEW e \in Executors, NEW stage \in Stages, NEW j \in Job \cup {NoJob},
         Become(e, stage, j),
         stage # "idle" => j \in Job /\ Live(j.id),
         stage \in HoldStages => Holding(e) /\ j.id = job[e].id /\ Owns(e)'
  PROVE  IInv'
<1>1. pc' = [pc EXCEPT ![e] = stage] /\ job' = [job EXCEPT ![e] = j]
  BY DEF Become
<1>2. pc'[e] = stage /\ job'[e] = j
  BY <1>1 DEF IInv, TypeOK
<1>3. \A o \in Executors : o # e => pc'[o] = pc[o] /\ job'[o] = job[o]
  BY <1>1 DEF IInv, TypeOK
<1>4. TypeOK'
  BY <1>1, QuietKeeps DEF IInv, TypeOK
<1>5. ExecutorInv'
  <2>1. ASSUME NEW o \in Executors, pc'[o] # "idle"
        PROVE  job'[o] \in Job /\ Live(job[o].id)'
    <3>1. job'[o] \in Job /\ Live(job'[o].id)
      BY <1>2, <1>3, <2>1 DEF IInv, ExecutorInv
    <3> QED BY <3>1 DEF Live, evidenceVars
  <2>2. ASSUME NEW o \in Executors, Holding(o)' PROVE Owns(o)'
    <3>1. CASE o = e
      BY <3>1, <1>2, <2>2 DEF Holding
    <3>2. CASE o # e
      <4>1. Holding(o) /\ Owns(o)
        BY <3>2, <1>3, <2>2 DEF Holding, IInv, ExecutorInv
      <4> QED BY <4>1, <3>2, <1>3 DEF Owns, Traced, Known, evidenceVars
    <3> QED BY <3>1, <3>2
  <2>3. ASSUME NEW o \in Executors, NEW p \in Executors, Holding(o)', Holding(p)', o # p
        PROVE  job'[o].id # job'[p].id
    <3>1. /\ Holding(o) /\ Holding(p)
          /\ job'[o].id = job[o].id /\ job'[p].id = job[p].id
      BY <1>2, <1>3, <2>3 DEF Holding
    <3> QED BY <3>1, <2>3 DEF IInv, ExecutorInv
  <2> QED BY <2>1, <2>2, <2>3 DEF ExecutorInv
<1> QED BY <1>4, <1>5, QuietKeeps DEF IInv

\* An executor that ends claims nothing more.
LEMMA AnswerKeeps ==
  ASSUME IInv, UNCHANGED <<evidenceVars, rule, plans, sent, applied, stop, late, wire>>,
         faults' \in 0..MaxFaults, NEW e \in Executors, Answer(e)
  PROVE  IInv'
<1>1. wire' \subseteq RequestIds
  BY DEF IInv, TypeOK
<1>2. "idle" \in Stages /\ "idle" \notin HoldStages
  BY DEF Stages, HoldStages, BeforeSend
<1> QED BY <1>1, <1>2, ExecutorMoves DEF Answer

\* An executor that begins has a live plan.
LEMMA BeginKeeps ==
  ASSUME IInv, NEW e \in Executors, NEW id \in RequestIds, Begin(e, id)
  PROVE  IInv'
<1> DEFINE j == [id |-> id, final |-> "none"]
<1>1. /\ Become(e, "reserving", j) /\ Live(id)
      /\ UNCHANGED <<evidenceVars, rule, plans, sent, applied, stop, late, wire, faults>>
  BY DEF Begin, planVars, historyVars
<1>2. j \in Job /\ j.id = id
  BY DEF Job
<1>3. "reserving" \in Stages /\ "reserving" \notin HoldStages
  BY DEF Stages, HoldStages, BeforeSend
<1>4. wire' \subseteq RequestIds /\ faults' \in 0..MaxFaults
  BY <1>1 DEF IInv, TypeOK
<1> HIDE DEF j
<1> QED BY <1>1, <1>2, <1>3, <1>4, ExecutorMoves

\* A step of an executor that holds its reservation and keeps its job.
LEMMA HoldsOn ==
  ASSUME IInv, UNCHANGED <<evidenceVars, rule, plans, sent, applied, stop, late, faults>>,
         wire' \subseteq RequestIds,
         NEW e \in Executors, Holding(e),
         NEW stage \in HoldStages \ {"concluding"}, Become(e, stage, job[e]),
         stage \in BeforeSend => pc[e] \in BeforeSend,
         stage = "verifying" => applied[job[e].id] # <<>>
  PROVE  IInv'
<1>1. /\ pc'[e] = stage /\ job'[e] = job[e] /\ job[e] \in Job /\ Live(job[e].id) /\ Owns(e)
  BY DEF Become, IInv, TypeOK, ExecutorInv, Holding, HoldStages, BeforeSend
<1>2. Owns(e)'
  BY <1>1 DEF Owns, Traced, Known, evidenceVars
<1>3. stage \in Stages /\ faults' \in 0..MaxFaults
  BY DEF IInv, TypeOK, HoldStages, BeforeSend, Stages
<1> QED BY <1>1, <1>2, <1>3, ExecutorMoves

\* An executor that knows what it will report, and reports what is true.
LEMMA ReportKeeps ==
  ASSUME IInv, UNCHANGED <<evidenceVars, rule, plans, sent, applied, stop, late, faults>>,
         wire' \subseteq RequestIds,
         NEW e \in Executors, Holding(e), NEW final \in FinalStates, Report(e, final),
         final = "precondition_failed" => pc[e] \in BeforeSend,
         final = "verified" => pc[e] = "verifying"
  PROVE  IInv'
<1> DEFINE j == [job[e] EXCEPT !.final = final]
<1>1. job[e] \in Job /\ Live(job[e].id) /\ Owns(e)
  BY DEF IInv, ExecutorInv, Holding, HoldStages, BeforeSend
<1>2. j \in Job /\ j.id = job[e].id /\ j.final = final
  BY <1>1 DEF Job
<1>3. Become(e, "concluding", j)
  BY DEF Report
<1>4. pc'[e] = "concluding" /\ job'[e] = j
  BY <1>3 DEF Become, IInv, TypeOK
<1>5. Owns(e)'
  BY <1>1, <1>2, <1>4 DEF Owns, Traced, Known, evidenceVars, BeforeSend
<1>6. "concluding" \in Stages /\ faults' \in 0..MaxFaults
  BY DEF IInv, TypeOK, Stages
<1> HIDE DEF j
<1> QED BY <1>1, <1>2, <1>3, <1>5, <1>6, ExecutorMoves

\* The looks at the stop, the comparison, the answers of the device and their absence.
LEMMA WaitingStepsKeep ==
  ASSUME IInv, NEW e \in Executors,
         CheckStop(e) \/ Compare(e) \/ ChangeAnswered(e) \/ ChangeRefused(e)
           \/ CallFails(e) \/ ReadBack(e)
  PROVE  IInv'
<1> USE DEF planVars, historyVars
<1>0. "delivery_unknown" \in FinalStates /\ "precondition_failed" \in FinalStates
      /\ "verified" \in FinalStates /\ wire \subseteq RequestIds
  BY DEF FinalStates, IInv, TypeOK
<1>1. CASE CheckStop(e)
  <2>1. Holding(e) /\ pc[e] \in BeforeSend
    BY <1>1 DEF CheckStop, Holding, HoldStages, BeforeSend
  <2>2. CASE stop
    BY <2>1, <2>2, <1>0, <1>1, ReportKeeps DEF CheckStop
  <2>3. CASE ~stop
    <3>1. PICK stage \in {"reading", "applying"} : Become(e, stage, job[e])
      BY <2>3, <1>1 DEF CheckStop
    <3>2. stage \in HoldStages \ {"concluding"} /\ stage # "verifying"
      BY DEF HoldStages, BeforeSend
    <3> QED BY <2>1, <3>1, <3>2, <1>0, <1>1, HoldsOn DEF CheckStop
  <2> QED BY <2>2, <2>3
<1>2. CASE Compare(e)
  <2>1. Holding(e) /\ pc[e] \in BeforeSend
    BY <1>2 DEF Compare, Holding, HoldStages, BeforeSend
  <2>2. CASE rule = PlanOf(e).state
    <3>1. "compared" \in HoldStages \ {"concluding"}
      BY DEF HoldStages, BeforeSend
    <3> QED BY <2>1, <2>2, <3>1, <1>0, <1>2, HoldsOn DEF Compare
  <2>3. CASE rule # PlanOf(e).state
    BY <2>1, <2>3, <1>0, <1>2, ReportKeeps DEF Compare
  <2> QED BY <2>2, <2>3
<1>3. CASE ChangeAnswered(e)
  <2>1. Holding(e) /\ "verifying" \in HoldStages \ {"concluding"} /\ "verifying" \notin BeforeSend
    BY <1>3 DEF ChangeAnswered, Holding, HoldStages, BeforeSend
  <2> QED BY <2>1, <1>0, <1>3, HoldsOn DEF ChangeAnswered
<1>4. CASE ChangeRefused(e)
  <2>1. Holding(e) /\ wire' \subseteq RequestIds
    BY <1>0, <1>4 DEF ChangeRefused, Holding, HoldStages
  <2> QED BY <2>1, <1>0, <1>4, ReportKeeps DEF ChangeRefused
<1>5. CASE CallFails(e)
  <2>1. Holding(e)
    BY <1>5 DEF CallFails, Holding, HoldStages, BeforeSend
  <2> QED BY <2>1, <1>0, <1>5, ReportKeeps DEF CallFails
<1>6. CASE ReadBack(e)
  <2>1. Holding(e) /\ pc[e] = "verifying"
    BY <1>6 DEF ReadBack, Holding, HoldStages
  <2> QED BY <2>1, <1>0, <1>6, ReportKeeps DEF ReadBack
<1> QED BY <1>1, <1>2, <1>3, <1>4, <1>5, <1>6

----------------------------------------------------------------------------
(* Steps that write the store, the plans or the device's history. *)

\* A new plan: nothing was sent for it, and no executor has it.
LEMMA MakePlanKeeps ==
  ASSUME IInv, NEW id \in RequestIds, NEW fp \in Fingerprints,
         NEW operation \in {"disable_registered_rule", "restore_registered_rule"},
         MakePlan(id, operation, fp)
  PROVE  IInv'
<1> DEFINE p == [operation |-> operation, state |-> rule, made |-> now, fp |-> fp]
<1>1. /\ plans[id] = NoPlan
      /\ plans' = [plans EXCEPT ![id] = p]
      /\ UNCHANGED <<evidenceVars, rule, pc, job, wire, stop, faults, sent, applied, late>>
  BY DEF MakePlan, executorVars, historyVars
<1>2. p \in Plan /\ p.made = now
  BY DEF Plan, IInv, TypeOK, EvidenceTypeOK
<1>3. /\ plans'[id] = p /\ plans' \in [RequestIds -> Plan \cup {NoPlan}]
      /\ \A i \in RequestIds : i # id => plans'[i] = plans[i]
  BY <1>1, <1>2 DEF IInv, TypeOK
<1>4. /\ TypeOK' /\ ChainInv'
      /\ SentAtMostOnce' /\ RefusedMeansUntouched' /\ VerifiedMeansApplied'
  BY <1>1, <1>3 DEF IInv, TypeOK, EvidenceTypeOK, evidenceVars, ChainInv, Tip,
     SentAtMostOnce, RefusedMeansUntouched, VerifiedMeansApplied, Known
<1>5. PlanInv'
  <2>1. sent[id] = 0 /\ now <= now
    BY <1>1, Ranges DEF IInv, PlanInv
  <2>2. ASSUME NEW i \in RequestIds, i # id
        PROVE  /\ plans'[i] # NoPlan => plans'[i].made <= now'
               /\ plans'[i] = NoPlan => sent'[i] = 0
               /\ Live(i)' /\ sent'[i] > 0 => Traced(i)'
    BY <2>2, <1>1, <1>3 DEF IInv, PlanInv, Live, Traced, evidenceVars
  <2>3. /\ plans'[id] # NoPlan => plans'[id].made <= now'
        /\ plans'[id] = NoPlan => sent'[id] = 0
        /\ Live(id)' /\ sent'[id] > 0 => Traced(id)'
    BY <2>1, <1>1, <1>2, <1>3 DEF evidenceVars
  <2> QED BY <2>2, <2>3 DEF PlanInv
<1>6. ExecutorInv'
  <2>1. ASSUME NEW e \in Executors, pc[e] # "idle"
        PROVE  /\ job[e] \in Job /\ Live(job[e].id)'
               /\ plans'[job[e].id] = plans[job[e].id]
    <3>1. job[e] \in Job /\ Live(job[e].id)
      BY <2>1 DEF IInv, ExecutorInv
    <3>2. job[e].id # id /\ job[e].id \in RequestIds
      BY <3>1, <1>1 DEF Live, Job
    <3> QED BY <3>1, <3>2, <1>1, <1>3 DEF Live, evidenceVars
  <2>2. ASSUME NEW e \in Executors, Holding(e) PROVE Owns(e)'
    <3>1. Owns(e) /\ plans'[job[e].id] = plans[job[e].id]
      BY <2>1, <2>2 DEF IInv, ExecutorInv, Holding, HoldStages, BeforeSend
    <3> QED BY <3>1, <1>1 DEF Owns, Traced, Known, evidenceVars
  <2> QED BY <2>1, <2>2, <1>1 DEF IInv, ExecutorInv, Holding
<1> QED BY <1>4, <1>5, <1>6 DEF IInv

\* Rows are only added, and the clock does not pass the life of a plan under execution:
\* what the executors hold is theirs still, as long as their receipts stay.
LEMMA TracesStay ==
  ASSUME IInv, now' \in Nat, now' >= now, plans' = plans,
         \A id \in RequestIds : Live(id)' => Live(id),
         \A r \in journal, id \in RequestIds :
           r.kind = "request" /\ r.id = id /\ Live(id) /\ r.at >= plans[id].made
             => r \in journal'
  PROVE  /\ \A id \in RequestIds : Live(id) /\ Traced(id) => Traced(id)'
         /\ sent' = sent => PlanInv'
<1>1. ASSUME NEW id \in RequestIds, Live(id), Traced(id) PROVE Traced(id)'
  BY <1>1 DEF Traced
<1>2. ASSUME sent' = sent PROVE PlanInv'
  <2>1. ASSUME NEW id \in RequestIds
        PROVE  /\ plans[id] # NoPlan => plans[id].made <= now'
               /\ plans[id] = NoPlan => sent[id] = 0
               /\ Live(id)' /\ sent[id] > 0 => Traced(id)'
    <3>1. plans[id] # NoPlan => plans[id].made <= now'
      BY Ranges
    <3> QED BY <3>1, <1>1 DEF IInv, PlanInv
  <2> QED BY <2>1, <1>2 DEF PlanInv
<1> QED BY <1>1, <1>2

\* The day may turn only while every plan under execution was made on it.
LEMMA DayTurns ==
  ASSUME IInv, NEW day \in {now} \cup (IF MayTurnDay THEN {now + 1} ELSE {}),
         now' = day, plans' = plans
  PROVE  /\ day \in Nat /\ day <= MaxDay /\ day >= now
         /\ \A e \in Executors, id \in RequestIds :
              pc[e] # "idle" /\ job[e].id = id => Live(id)'
         /\ \A id \in RequestIds : Live(id)' => Live(id)
<1>1. day \in Nat /\ day <= MaxDay /\ day >= now
  BY Ranges DEF MayTurnDay
<1>2. ASSUME NEW e \in Executors, NEW id \in RequestIds, pc[e] # "idle", job[e].id = id
      PROVE  Live(id)'
  <2>1. Live(id)
    BY <1>2 DEF IInv, ExecutorInv
  <2>2. plans[id] # NoPlan /\ now <= plans[id].made + 1 /\ plans[id].made \in Nat
    BY <2>1, Ranges DEF Live
  <2>3. day <= plans[id].made + 1
    <3>1. CASE day = now
      BY <3>1, <2>2
    <3>2. CASE day # now
      <4>1. MayTurnDay /\ day = now + 1
        BY <3>2
      <4>2. plans[id].made = now
        BY <4>1, <2>1, <1>2 DEF MayTurnDay, PlanOf
      <4> QED BY <4>1, <4>2, <2>2
    <3> QED BY <3>1, <3>2
  <2> QED BY <2>1, <2>2, <2>3 DEF Live
<1>3. ASSUME NEW id \in RequestIds, Live(id)' PROVE Live(id)
  <2>1. plans[id] # NoPlan /\ day <= plans[id].made + 1 /\ plans[id].made \in Nat
    BY <1>3, Ranges DEF Live
  <2> QED BY <2>1, <1>1, Ranges DEF Live
<1> QED BY <1>1, <1>2, <1>3

\* A reservation: the plan was not fenced, so nothing was sent for it and nobody has it.
LEMMA ReserveKeeps ==
  ASSUME IInv, NEW e \in Executors, Reserve(e)
  PROVE  IInv'
<1>1. PICK day \in {now} \cup (IF MayTurnDay THEN {now + 1} ELSE {}) :
        ReserveTxn(job[e].id, PlanOf(e).fp, "dispatch_pending", day)
  BY Zenon DEF Reserve
<1>2. /\ pc[e] = "reserving" /\ job[e] \in Job /\ Live(job[e].id)
      /\ pc' = [pc EXCEPT ![e] = "reserved"] /\ job' = [job EXCEPT ![e] = job[e]]
      /\ UNCHANGED <<rule, plans, wire, stop, faults, sent, applied, late>>
  BY DEF Reserve, Become, planVars, historyVars, IInv, ExecutorInv
<1>3. PICK id \in RequestIds : id = job[e].id
  BY <1>2 DEF Job
<1>4. plans[id] \in Plan /\ plans[id].made \in Nat /\ plans[id].made <= now
      /\ plans[id].fp \in Fingerprints
  BY <1>2, <1>3, Ranges DEF Live, Plan
<1>5. /\ EvidenceTypeOK' /\ ChainInv' /\ ~Known(id) /\ ~Fenced(id) /\ Known(id)'
      /\ receipts'[id] = [state |-> "dispatch_pending", fp |-> plans[id].fp, at |-> now]
      /\ \A i \in RequestIds : i # id => receipts'[i] = receipts[i]
      /\ now' = day
      /\ \E r \in journal' :
           /\ r.at = day /\ r.kind = "request" /\ r.id = id
           /\ journal' = journal \cup {r}
  <2>1. ReserveTxn(id, plans[id].fp, "dispatch_pending", day)
    BY <1>1, <1>3 DEF PlanOf
  <2>2. "dispatch_pending" \in ReceiptStates
    BY DEF ReceiptStates
  <2>3. day \in Nat /\ day <= MaxDay
    BY Ranges DEF MayTurnDay
  <2> QED BY <1>4, <2>1, <2>2, <2>3, Ranges, ReserveKeepsEvidence
<1>6. /\ day \in Nat /\ day >= now
      /\ \A o \in Executors, i \in RequestIds : pc[o] # "idle" /\ job[o].id = i => Live(i)'
      /\ \A i \in RequestIds : Live(i)' => Live(i)
  BY <1>2, <1>5, DayTurns
<1>7. journal \subseteq journal'
  BY <1>5
<1>8. /\ \A i \in RequestIds : Live(i) /\ Traced(i) => Traced(i)'
      /\ PlanInv'
  BY <1>2, <1>5, <1>6, <1>7, TracesStay
<1>9. Traced(id)'
  <2>1. day >= plans[id].made
    BY <1>4, <1>6, Ranges
  <2> QED BY <2>1, <1>2, <1>5 DEF Traced
<1>10. sent[id] = 0
  <2>1. ~Traced(id) /\ Live(id)
    BY <1>2, <1>3, <1>5 DEF Traced, Fenced
  <2>2. sent[id] \in Nat /\ ~(sent[id] > 0)
    BY <2>1 DEF IInv, PlanInv, TypeOK
  <2> QED BY <2>2
<1>11. TypeOK'
  BY <1>2, <1>5 DEF IInv, TypeOK, Stages
<1>12. ExecutorInv'
  <2>1. /\ pc'[e] = "reserved" /\ job' = job
        /\ \A o \in Executors : o # e => pc'[o] = pc[o]
    BY <1>2 DEF IInv, TypeOK
  <2>2. ASSUME NEW o \in Executors, pc'[o] # "idle" PROVE job'[o] \in Job /\ Live(job[o].id)'
    <3>1. pc[o] # "idle" /\ job[o] \in Job
      BY <2>1, <2>2, <1>2 DEF IInv, ExecutorInv
    <3>2. PICK i \in RequestIds : i = job[o].id
      BY <3>1 DEF Job
    <3> QED BY <3>1, <3>2, <2>1, <1>6
  <2>3. ASSUME NEW o \in Executors, Holding(o)', o # e
        PROVE  Holding(o) /\ job[o].id # id /\ Owns(o)'
    <3>1. Holding(o) /\ Owns(o) /\ job[o] \in Job /\ Live(job[o].id)
      BY <2>1, <2>3 DEF Holding, HoldStages, BeforeSend, IInv, ExecutorInv
    <3>2. PICK i \in RequestIds : i = job[o].id
      BY <3>1 DEF Job
    <3>3. i # id /\ Traced(i)'
      BY <3>1, <3>2, <1>5, <1>8 DEF Owns
    <3> QED BY <3>1, <3>2, <3>3, <2>1, <2>3, <1>2, <1>5 DEF Owns, Known
  <2>4. Owns(e)'
    BY <2>1, <1>2, <1>3, <1>4, <1>5, <1>9, <1>10 DEF Owns
  <2> QED BY <2>1, <2>2, <2>3, <2>4, <1>3 DEF ExecutorInv, Holding, IInv
<1>13. SentAtMostOnce' /\ RefusedMeansUntouched' /\ VerifiedMeansApplied'
  BY <1>2, <1>5 DEF IInv, SentAtMostOnce, RefusedMeansUntouched, VerifiedMeansApplied, Known
<1> QED BY <1>5, <1>8, <1>11, <1>12, <1>13 DEF IInv

\* The change leaves once: nothing was sent before, and nobody else has the plan.
LEMMA SendChangeKeeps ==
  ASSUME IInv, NEW e \in Executors, SendChange(e)
  PROVE  IInv'
<1>1. /\ pc[e] = "applying" /\ Holding(e) /\ Owns(e) /\ job[e] \in Job
      /\ pc' = [pc EXCEPT ![e] = "waiting"] /\ job' = [job EXCEPT ![e] = job[e]]
      /\ UNCHANGED <<evidenceVars, rule, plans, stop, faults, applied, late>>
  BY DEF SendChange, Become, planVars, Holding, HoldStages, BeforeSend, IInv, ExecutorInv
<1>2. PICK id \in RequestIds : id = job[e].id
  BY <1>1 DEF Job
<1>3. /\ wire' = wire \cup {id} /\ sent' = [sent EXCEPT ![id] = @ + 1]
  BY <1>2 DEF SendChange
<1>4. sent[id] = 0 /\ Traced(id) /\ receipts[id].state = "dispatch_pending"
  BY <1>1, <1>2 DEF Owns, BeforeSend
<1>5. sent'[id] = 1 /\ \A i \in RequestIds : i # id => sent'[i] = sent[i]
  BY <1>3, <1>4 DEF IInv, TypeOK
<1>6. TypeOK'
  BY <1>1, <1>3 DEF IInv, TypeOK, EvidenceTypeOK, evidenceVars, Stages
<1>7. plans[id] # NoPlan
  BY <1>1, <1>2 DEF IInv, ExecutorInv, Live
<1>8. ChainInv' /\ PlanInv' /\ VerifiedMeansApplied'
  BY <1>1, <1>4, <1>5, <1>7 DEF IInv, ChainInv, Tip, PlanInv, Live, Traced, VerifiedMeansApplied, Known,
     evidenceVars
<1>9. SentAtMostOnce' /\ RefusedMeansUntouched'
  BY <1>1, <1>4, <1>5 DEF IInv, SentAtMostOnce, RefusedMeansUntouched, Known, evidenceVars
<1>10. ExecutorInv'
  <2>1. /\ pc'[e] = "waiting" /\ job' = job
        /\ \A o \in Executors : o # e => pc'[o] = pc[o]
    BY <1>1 DEF IInv, TypeOK
  <2>2. ASSUME NEW o \in Executors, pc'[o] # "idle" PROVE job'[o] \in Job /\ Live(job[o].id)'
    BY <2>1, <2>2, <1>1 DEF IInv, ExecutorInv, Live, evidenceVars
  <2>3. ASSUME NEW o \in Executors, Holding(o)', o # e
        PROVE  Holding(o) /\ Owns(o)'
    <3>1. Holding(o) /\ Owns(o) /\ job[o] \in Job /\ job[o].id # id
      BY <2>1, <2>3, <1>1, <1>2 DEF Holding, HoldStages, BeforeSend, IInv, ExecutorInv
    <3>2. PICK i \in RequestIds : i = job[o].id
      BY <3>1 DEF Job
    <3> QED BY <3>1, <3>2, <2>1, <2>3, <1>1, <1>5 DEF Owns, Traced, Known, evidenceVars
  <2>4. Owns(e)'
    BY <2>1, <1>1 DEF Owns, Traced, Known, evidenceVars, BeforeSend
  <2> QED BY <2>1, <2>2, <2>3, <2>4, <1>1 DEF ExecutorInv, Holding, IInv
<1> QED BY <1>6, <1>8, <1>9, <1>10 DEF IInv

\* A result: the receipt says what its executor knows, and the row of the reservation
\* stays.
LEMMA ConcludeKeeps ==
  ASSUME IInv, NEW e \in Executors, Conclude(e)
  PROVE  IInv'
<1>1. /\ pc[e] = "concluding" /\ Holding(e) /\ Owns(e) /\ job[e] \in Job
      /\ pc' = [pc EXCEPT ![e] = "idle"] /\ job' = [job EXCEPT ![e] = NoJob]
      /\ UNCHANGED <<rule, plans, wire, stop, faults, sent, applied, late>>
  BY DEF Conclude, Answer, Become, planVars, historyVars, Holding, HoldStages, BeforeSend,
         IInv, ExecutorInv
<1>2. PICK id \in RequestIds, final \in FinalStates : id = job[e].id /\ final = job[e].final
  BY <1>1 DEF Job, Owns
<1>3. /\ EvidenceTypeOK' /\ ChainInv' /\ now' = now
      /\ Known(id) => receipts'[id].state = final
      /\ \A i \in RequestIds : i # id => receipts'[i] = receipts[i]
      /\ \A i \in RequestIds : Known(i)' => Known(i)
      /\ \E r \in journal' : journal' = journal \cup {r}
  <2>1. FinishTxn(id, final)
    BY <1>2 DEF Conclude
  <2> QED BY <2>1, Ranges, FinishKeepsEvidence
<1>4. journal \subseteq journal'
  BY <1>3
<1>5. /\ \A i \in RequestIds : Live(i) /\ Traced(i) => Traced(i)'
      /\ PlanInv'
  <2>1. \A i \in RequestIds : Live(i)' => Live(i)
    BY <1>1, <1>3 DEF Live
  <2>2. now' \in Nat /\ now' >= now
    BY <1>3, Ranges
  <2> QED BY <2>1, <2>2, <1>1, <1>4, TracesStay
<1>6. TypeOK'
  BY <1>1, <1>3 DEF IInv, TypeOK, Stages
<1>7. ExecutorInv'
  <2>1. /\ pc'[e] = "idle"
        /\ \A o \in Executors : o # e => pc'[o] = pc[o] /\ job'[o] = job[o]
    BY <1>1 DEF IInv, TypeOK
  <2>2. ASSUME NEW o \in Executors, pc'[o] # "idle" PROVE job'[o] \in Job /\ Live(job[o].id)'
    <3>1. o # e /\ job[o] \in Job /\ Live(job[o].id)
      BY <2>1, <2>2 DEF IInv, ExecutorInv
    <3> QED BY <3>1, <2>1, <1>1, <1>3 DEF Live
  <2>3. ASSUME NEW o \in Executors, Holding(o)'
        PROVE  o # e /\ Holding(o) /\ Owns(o)'
    <3>1. o # e /\ Holding(o) /\ Owns(o) /\ job[o] \in Job /\ job[o].id # id /\ Live(job[o].id)
      BY <2>1, <2>3, <1>1, <1>2 DEF Holding, HoldStages, BeforeSend, IInv, ExecutorInv
    <3>2. PICK i \in RequestIds : i = job[o].id
      BY <3>1 DEF Job
    <3>3. Traced(i)' /\ receipts'[i] = receipts[i]
      BY <3>1, <3>2, <1>3, <1>5 DEF Owns
    <3> QED BY <3>1, <3>2, <3>3, <2>1, <2>3, <1>1 DEF Owns, Known
  <2> QED BY <2>1, <2>2, <2>3 DEF ExecutorInv, IInv
<1>8. SentAtMostOnce' /\ RefusedMeansUntouched' /\ VerifiedMeansApplied'
  <2>1. /\ final = "precondition_failed" => sent[id] = 0
        /\ final = "verified" => applied[id] # <<>>
    BY <1>1, <1>2 DEF Owns
  <2> QED BY <2>1, <1>1, <1>3
          DEF IInv, SentAtMostOnce, RefusedMeansUntouched, VerifiedMeansApplied, Known
<1> QED BY <1>3, <1>5, <1>6, <1>7, <1>8 DEF IInv

\* The device makes a change: one more for its plan.
LEMMA MakeChangeKeeps ==
  ASSUME IInv, NEW id \in RequestIds, MakeChange(id)
  PROVE  IInv'
<1>1. /\ rule' = [status |-> Expected(plans[id].operation), revision |-> rule.revision + 1]
      /\ rule.revision < MaxRevision
      /\ wire' \subseteq wire
      /\ applied' = [applied EXCEPT ![id] = Append(@, rule)]
      /\ UNCHANGED <<evidenceVars, plans, pc, job, stop, faults, sent, late>>
  BY DEF MakeChange, Change, executorVars
<1>2. rule' \in Rule /\ rule \in Rule
  BY <1>1, ControllerAssumption DEF IInv, TypeOK, Rule, Expected
<1>3. applied[id] \in Seq(Rule)
  BY DEF IInv, TypeOK
<1>4. Append(applied[id], rule) \in Seq(Rule) /\ Append(applied[id], rule) # <<>>
  BY <1>2, <1>3
<1>5. /\ applied' \in [RequestIds -> Seq(Rule)]
      /\ \A i \in RequestIds : applied[i] # <<>> => applied'[i] # <<>>
  BY <1>1, <1>4 DEF IInv, TypeOK
<1>6. TypeOK' /\ ChainInv' /\ PlanInv'
  BY <1>1, <1>2, <1>5 DEF IInv, TypeOK, EvidenceTypeOK, evidenceVars, ChainInv, Tip, PlanInv,
     Live, Traced
<1>7. SentAtMostOnce' /\ RefusedMeansUntouched' /\ VerifiedMeansApplied'
  BY <1>1, <1>5 DEF IInv, SentAtMostOnce, RefusedMeansUntouched, VerifiedMeansApplied, Known,
     evidenceVars
<1>8. ExecutorInv'
  <2>1. ASSUME NEW e \in Executors, Holding(e) PROVE Owns(e)'
    <3>1. Owns(e) /\ job[e] \in Job
      BY <2>1 DEF IInv, ExecutorInv, Holding, HoldStages, BeforeSend
    <3>2. PICK i \in RequestIds : i = job[e].id
      BY <3>1 DEF Job
    <3> QED BY <3>1, <3>2, <1>1, <1>5 DEF Owns, Traced, Known, evidenceVars
  <2>2. \A e \in Executors : pc[e] # "idle" => job[e] \in Job /\ Live(job[e].id)'
    BY <1>1 DEF IInv, ExecutorInv, Live, evidenceVars
  <2> QED BY <2>1, <2>2, <1>1 DEF IInv, ExecutorInv, Holding
<1> QED BY <1>6, <1>7, <1>8 DEF IInv

\* The rule, the stop and the faults are nothing that is said of plans and executors.
LEMMA WorldKeeps ==
  ASSUME IInv, UNCHANGED <<evidenceVars, plans, pc, job, wire, faults, sent, applied>>,
         rule' \in Rule, stop' \in BOOLEAN, late' \subseteq Executors
  PROVE  IInv'
<1>1. TypeOK'
  BY QuietKeeps DEF IInv, TypeOK
<1>2. ExecutorInv'
  BY DEF IInv, ExecutorInv, Holding, Owns, Live, Traced, Known, evidenceVars
<1> QED BY <1>1, <1>2, QuietKeeps DEF IInv

\* Another administrator's edit, and the operator's stop.
LEMMA OthersKeep ==
  ASSUME IInv, OtherWrite \/ SetStop \/ ClearStop
  PROVE  IInv'
<1>1. CASE OtherWrite
  <2>1. rule' \in Rule
    BY <1>1, ControllerAssumption DEF OtherWrite, Change, Rule, IInv, TypeOK
  <2>2. stop' \in BOOLEAN /\ late' \subseteq Executors
    BY <1>1 DEF OtherWrite, historyVars, IInv, TypeOK
  <2> QED BY <1>1, <2>1, <2>2, WorldKeeps DEF OtherWrite, executorVars, historyVars
<1>2. CASE SetStop \/ ClearStop
  <2>1. rule' \in Rule /\ stop' \in BOOLEAN /\ late' \subseteq Executors
    BY <1>2 DEF SetStop, ClearStop, planVars, IInv, TypeOK
  <2> QED BY <1>2, <2>1, WorldKeeps DEF SetStop, ClearStop, planVars, executorVars
<1> QED BY <1>1, <1>2

\* A retention run: what it deletes is too old to belong to a plan that is live.
LEMMA PruneKeeps ==
  ASSUME IInv, NEW before \in 0..MaxDay, Prune(before)
  PROVE  IInv'
<1> DEFINE last == LastSeq(Prefix(journal, before), anchor)
<1>1. /\ before <= now - 1 /\ Prefix(journal, before) # {} /\ PruneTxn(last, before)
      /\ UNCHANGED <<rule, plans, pc, job, wire, stop, faults, sent, applied, late>>
  BY DEF Prune, planVars, executorVars, historyVars
<1>2. before \in Int /\ EvidenceTypeOK /\ ChainInv
  BY Ranges
<1>3. /\ last \in Nat /\ last <= Tip /\ journal # {}
      /\ \A r \in journal : r.seq <= last => r.at < before
  BY <1>1, <1>2, PrefixRead
<1> HIDE DEF last
<1>4. /\ EvidenceTypeOK' /\ ChainInv' /\ now' = now
      /\ \A r \in journal : r.at >= before => r \in journal'
      /\ \A i \in RequestIds : Known(i)' => Known(i) /\ receipts'[i] = receipts[i]
      /\ \A i \in RequestIds : Known(i) /\ receipts[i].at >= before =>
           Known(i)' /\ receipts'[i] = receipts[i]
  BY <1>1, <1>2, <1>3, PruneKeepsEvidence, Zenon
<1>5. ASSUME NEW i \in RequestIds, Live(i)
      PROVE  plans[i].made >= before /\ plans[i].made \in Nat
  <2>1. now <= plans[i].made + 1 /\ plans[i].made \in Nat
    BY <1>5, Ranges DEF Live
  <2> QED BY <2>1, <1>1, <1>2, Ranges
<1>6. /\ \A i \in RequestIds : Live(i) /\ Traced(i) => Traced(i)'
      /\ PlanInv'
  <2>1. ASSUME NEW r \in journal, NEW i \in RequestIds,
               r.kind = "request", r.id = i, Live(i), r.at >= plans[i].made
        PROVE  r \in journal'
    <3>1. r.at \in Nat
      BY Ranges DEF Row
    <3>2. r.at >= before
      BY <3>1, <2>1, <1>2, <1>5
    <3> QED BY <3>2, <1>4
  <2>2. \A i \in RequestIds : Live(i)' => Live(i)
    BY <1>1, <1>4 DEF Live
  <2>3. now' \in Nat /\ now' >= now
    BY <1>4, Ranges
  <2> QED BY <2>1, <2>2, <2>3, <1>1, TracesStay
<1>7. TypeOK'
  BY <1>1, <1>4 DEF IInv, TypeOK
<1>8. ExecutorInv'
  <2>1. ASSUME NEW e \in Executors, Holding(e) PROVE Owns(e)'
    <3>1. Owns(e) /\ job[e] \in Job /\ Live(job[e].id)
      BY <2>1 DEF IInv, ExecutorInv, Holding, HoldStages, BeforeSend
    <3>2. PICK i \in RequestIds : i = job[e].id
      BY <3>1 DEF Job
    <3>3. Known(i) /\ receipts[i].at \in Nat /\ receipts[i].at >= plans[i].made
      BY <3>1, <3>2, Ranges DEF Owns, Known, Receipt
    <3>4. Known(i)' /\ receipts'[i] = receipts[i] /\ Traced(i)'
      BY <3>1, <3>2, <3>3, <1>2, <1>4, <1>5, <1>6 DEF Owns
    <3> QED BY <3>1, <3>2, <3>4, <1>1 DEF Owns
  <2>2. \A e \in Executors : pc[e] # "idle" => job[e] \in Job /\ Live(job[e].id)'
    BY <1>1, <1>4 DEF IInv, ExecutorInv, Live
  <2> QED BY <2>1, <2>2, <1>1 DEF IInv, ExecutorInv, Holding
<1>9. SentAtMostOnce' /\ RefusedMeansUntouched' /\ VerifiedMeansApplied'
  BY <1>1, <1>4 DEF IInv, SentAtMostOnce, RefusedMeansUntouched, VerifiedMeansApplied
<1> QED BY <1>4, <1>6, <1>7, <1>8, <1>9 DEF IInv

\* Midnight: the plans under execution were made today and live on.
LEMMA MidnightKeeps ==
  ASSUME IInv, Midnight
  PROVE  IInv'
<1>1. /\ MayTurnDay /\ now' = now + 1
      /\ UNCHANGED <<journal, anchor, receipts, rule, plans, pc, job, wire, stop, faults, sent,
                     applied, late>>
  BY DEF Midnight, planVars, executorVars, historyVars
<1>2. /\ now' \in Nat /\ now' <= MaxDay /\ now' >= now
      /\ \A e \in Executors, id \in RequestIds : pc[e] # "idle" /\ job[e].id = id => Live(id)'
      /\ \A id \in RequestIds : Live(id)' => Live(id)
  BY <1>1, DayTurns
<1>3. PlanInv'
  BY <1>1, <1>2, TracesStay
<1>4. TypeOK' /\ ChainInv'
  BY <1>1, <1>2, LimitAssumption DEF IInv, TypeOK, EvidenceTypeOK, ChainInv, Tip
<1>5. ExecutorInv'
  <2>1. ASSUME NEW e \in Executors, pc[e] # "idle" PROVE job[e] \in Job /\ Live(job[e].id)'
    <3>1. job[e] \in Job
      BY <2>1 DEF IInv, ExecutorInv
    <3>2. PICK id \in RequestIds : id = job[e].id
      BY <3>1 DEF Job
    <3> QED BY <3>1, <3>2, <2>1, <1>1, <1>2
  <2>2. \A e \in Executors : Holding(e) => Owns(e)'
    BY <1>1 DEF IInv, ExecutorInv, Owns, Traced, Known
  <2> QED BY <2>1, <2>2, <1>1 DEF IInv, ExecutorInv, Holding
<1>6. SentAtMostOnce' /\ RefusedMeansUntouched' /\ VerifiedMeansApplied'
  BY <1>1 DEF IInv, SentAtMostOnce, RefusedMeansUntouched, VerifiedMeansApplied, Known
<1> QED BY <1>3, <1>4, <1>5, <1>6 DEF IInv

----------------------------------------------------------------------------
(* The theorems. *)

\* Nothing is planned, journalled or sent at the start.
LEMMA InitEstablishes == Init => IInv
<1> SUFFICES ASSUME Init PROVE IInv
  OBVIOUS
<1>1. /\ receipts = [id \in RequestIds |-> NoReceipt]
      /\ rule = [status |-> "enable", revision |-> 0]
      /\ plans = [id \in RequestIds |-> NoPlan]
      /\ pc = [e \in Executors |-> "idle"] /\ job = [e \in Executors |-> NoJob]
      /\ wire = {} /\ stop = FALSE /\ faults = 0 /\ late = {}
      /\ sent = [id \in RequestIds |-> 0] /\ applied = [id \in RequestIds |-> <<>>]
  BY DEF Init, EvidenceInit
<1>2. EvidenceTypeOK /\ ChainInv
  BY EmptyEvidence DEF Init
<1>3. TypeOK
  <2>1. rule \in Rule
    BY <1>1, ControllerAssumption DEF Rule
  <2>2. <<>> \in Seq(Rule)
    OBVIOUS
  <2>3. applied \in [RequestIds -> Seq(Rule)]
    BY <1>1, <2>2
  <2>4. pc \in [Executors -> Stages] /\ job \in [Executors -> Job \cup {NoJob}]
    BY <1>1 DEF Stages
  <2>5. plans \in [RequestIds -> Plan \cup {NoPlan}]
    BY <1>1
  <2>6. faults \in 0..MaxFaults
    BY <1>1, ControllerAssumption DEF ControllerAssumption
  <2>7. wire \subseteq RequestIds /\ stop \in BOOLEAN /\ late \subseteq Executors
        /\ sent \in [RequestIds -> Nat]
    BY <1>1
  <2> QED BY <1>2, <2>1, <2>3, <2>4, <2>5, <2>6, <2>7 DEF TypeOK
<1>4. PlanInv
  BY <1>1 DEF PlanInv, Live
<1>5. ExecutorInv
  BY <1>1 DEF ExecutorInv, Holding, HoldStages, BeforeSend
<1>6. SentAtMostOnce /\ RefusedMeansUntouched /\ VerifiedMeansApplied
  BY <1>1 DEF SentAtMostOnce, RefusedMeansUntouched, VerifiedMeansApplied, Known
<1> QED BY <1>2, <1>3, <1>4, <1>5, <1>6 DEF IInv

\* A stuttering step.
LEMMA StutterKeeps == IInv /\ UNCHANGED vars => IInv'
<1> SUFFICES ASSUME IInv, UNCHANGED vars PROVE IInv'
  OBVIOUS
<1>1. rule' \in Rule /\ stop' \in BOOLEAN /\ late' \subseteq Executors
  BY DEF vars, planVars, historyVars, IInv, TypeOK
<1> QED BY <1>1, WorldKeeps DEF vars, planVars, executorVars, historyVars

\* Every step.
LEMMA NextKeeps == IInv /\ [Next]_vars => IInv'
<1> SUFFICES ASSUME IInv, Next PROVE IInv'
  BY StutterKeeps
<1>1. ASSUME NEW id \in RequestIds, NEW fp \in Fingerprints,
             NEW operation \in {"disable_registered_rule", "restore_registered_rule"},
             MakePlan(id, operation, fp)
      PROVE  IInv'
  BY <1>1, MakePlanKeeps, Zenon
<1>2. ASSUME NEW e \in Executors, NEW id \in RequestIds, Begin(e, id) PROVE IInv'
  BY <1>2, BeginKeeps
<1>3. ASSUME NEW e \in Executors, Execute(e) PROVE IInv'
  <2>1. CASE ReserveAnswered(e)
    <3>1. faults' \in 0..MaxFaults
      BY <2>1 DEF ReserveAnswered, IInv, TypeOK
    <3> QED BY <2>1, <3>1, AnswerKeeps DEF ReserveAnswered, planVars, historyVars
  <2>2. CASE Reserve(e)
    BY <2>2, ReserveKeeps
  <2>3. CASE SendChange(e)
    BY <2>3, SendChangeKeeps
  <2>4. CASE Conclude(e)
    BY <2>4, ConcludeKeeps
  <2> QED BY <1>3, <2>1, <2>2, <2>3, <2>4, WaitingStepsKeep DEF Execute
<1>4. ASSUME NEW e \in Executors, Crash(e) PROVE IInv'
  <2>1. faults' \in 0..MaxFaults
    BY <1>4, ControllerAssumption DEF Crash, IInv, TypeOK
  <2> QED BY <1>4, <2>1, AnswerKeeps DEF Crash, planVars, historyVars
<1>5. ASSUME NEW id \in RequestIds, MakeChange(id) PROVE IInv'
  BY <1>5, MakeChangeKeeps
<1>6. CASE OtherWrite \/ SetStop \/ ClearStop
  BY <1>6, OthersKeep
<1>7. CASE Midnight
  BY <1>7, MidnightKeeps
<1>8. ASSUME NEW before \in 0..MaxDay, Prune(before) PROVE IInv'
  BY <1>8, PruneKeeps
<1> QED BY <1>1, <1>2, <1>3, <1>4, <1>5, <1>6, <1>7, <1>8 DEF Next

\* IInv holds of every reachable state.
THEOREM Invariance == Spec => []IInv
<1>1. Init => IInv
  BY InitEstablishes
<1>2. IInv /\ [Next]_vars => IInv'
  BY NextKeeps
<1> QED BY <1>1, <1>2, PTL DEF Spec

\* Every variable keeps its type.
THEOREM TypeCorrect == Spec => []TypeOK
<1>1. IInv => TypeOK
  BY DEF IInv
<1> QED BY <1>1, Invariance, PTL

\* One approval sends one change, whatever executors, crashes and retention runs do: the
\* order of reserve(), the calls to the device and finish() in execute(), with the five
\* minutes of verify_pair().
THEOREM SentOnce == Spec => []SentAtMostOnce
<1>1. IInv => SentAtMostOnce
  BY DEF IInv
<1> QED BY <1>1, Invariance, PTL

\* "precondition_failed" is reported of nothing that was sent.
THEOREM RefusedIsUntouched == Spec => []RefusedMeansUntouched
<1>1. IInv => RefusedMeansUntouched
  BY DEF IInv
<1> QED BY <1>1, Invariance, PTL

\* "verified" is reported only of a change the device made for this plan.
THEOREM VerifiedIsApplied == Spec => []VerifiedMeansApplied
<1>1. IInv => VerifiedMeansApplied
  BY DEF IInv
<1> QED BY <1>1, Invariance, PTL

----------------------------------------------------------------------------
(* The emergency stop needs an invariant of its own, and no other. *)

\* An executor can be late only while the stop is in force.
StopInv ==
  /\ (late # {} => stop) /\ StopHolds
  /\ pc \in [Executors -> Stages] /\ late \subseteq Executors

\* No executor that was short of the last look of execute() when the stop was set comes
\* to the change while the stop is in force.
THEOREM StopAlwaysHolds == Spec => []StopHolds
<1>1. Init => StopInv
  BY DEF Init, StopInv, StopHolds, Stages
<1>2. StopInv /\ [Next]_vars => StopInv'
  <2> SUFFICES ASSUME StopInv, [Next]_vars PROVE StopInv'
    OBVIOUS
  <2>1. ASSUME NEW e \in Executors, NEW stage \in Stages \ {"applying"}, NEW j,
               Become(e, stage, j), UNCHANGED <<stop, late>>
        PROVE  StopInv'
    BY <2>1 DEF StopInv, StopHolds, Become
  <2>2. ASSUME NEW e \in Executors, CheckStop(e) PROVE StopInv'
    <3>1. CASE stop
      BY <2>1, <2>2, <3>1 DEF CheckStop, Report, Stages, historyVars
    <3>2. CASE ~stop
      BY <2>2, <3>2 DEF CheckStop, Become, StopInv, StopHolds, Stages, historyVars
    <3> QED BY <3>1, <3>2
  <2>3. ASSUME NEW e \in Executors,
               ReserveAnswered(e) \/ Reserve(e) \/ Conclude(e) \/ Crash(e)
        PROVE  StopInv'
    BY <2>1, <2>3 DEF ReserveAnswered, Reserve, Conclude, Crash, Answer, Stages, historyVars
  <2>4. ASSUME NEW e \in Executors, Compare(e) \/ SendChange(e) PROVE StopInv'
    BY <2>1, <2>4 DEF Compare, SendChange, Report, Stages, historyVars
  <2>5. ASSUME NEW e \in Executors,
               ChangeAnswered(e) \/ ChangeRefused(e) \/ CallFails(e) \/ ReadBack(e)
        PROVE  StopInv'
    BY <2>1, <2>5 DEF ChangeAnswered, ChangeRefused, CallFails, ReadBack, Report, Stages,
                      historyVars
  <2>6. ASSUME NEW e \in Executors, NEW id \in RequestIds, Begin(e, id) PROVE StopInv'
    BY <2>1, <2>6 DEF Begin, Stages, historyVars
  <2>7. CASE SetStop \/ ClearStop
    BY <2>7 DEF SetStop, ClearStop, StopInv, StopHolds, executorVars
  <2>8. ASSUME UNCHANGED <<pc, stop, late>> PROVE StopInv'
    BY <2>8 DEF StopInv, StopHolds
  <2>9. CASE OtherWrite \/ Midnight \/ UNCHANGED vars
    BY <2>8, <2>9 DEF OtherWrite, Midnight, vars, executorVars, historyVars
  <2>10. ASSUME NEW id \in RequestIds, NEW fp, NEW operation, MakePlan(id, operation, fp)
         PROVE  StopInv'
    BY <2>8, <2>10 DEF MakePlan, executorVars, historyVars
  <2>11. ASSUME NEW before, Prune(before) PROVE StopInv'
    BY <2>8, <2>11 DEF Prune, executorVars, historyVars
  <2>12. ASSUME NEW e \in Executors, Execute(e) \/ Crash(e) PROVE StopInv'
    BY <2>2, <2>3, <2>4, <2>5, <2>12 DEF Execute
  <2>13. ASSUME NEW id \in RequestIds, MakeChange(id) PROVE StopInv'
    BY <2>8, <2>13 DEF MakeChange, executorVars, historyVars
  <2> QED BY <2>6, <2>7, <2>9, <2>10, <2>11, <2>12, <2>13, Zenon DEF Next
<1>3. StopInv => StopHolds
  BY DEF StopInv
<1> QED BY <1>1, <1>2, <1>3, PTL DEF Spec

----------------------------------------------------------------------------
(* The maintenance window. *)

\* One execution at a time, and from its comparison on the rule is as its plan was made:
\* the change that is on its way, or will be, meets that state.
WindowInv ==
  /\ \A e, o \in Executors : pc[e] # "idle" /\ pc[o] # "idle" => e = o
  /\ \A e \in Executors : pc[e] \in BeforeSend \cup {"reserving"} => wire = {}
  /\ \A e \in Executors : pc[e] \in {"compared", "applying"} => rule = plans[job[e].id].state
  /\ \A i \in wire : rule = plans[i].state /\ plans[i] # NoPlan
  /\ \A i, k \in wire : i = k
  /\ \A i \in RequestIds : plans[i] = NoPlan => applied[i] = <<>>
  /\ AppliedToApprovedState

\* What a step of one executor must show that changes neither the rule nor the plans.
LEMMA WindowStep ==
  ASSUME IInv, WindowInv, NEW e \in Executors, NEW stage, NEW j, Become(e, stage, j),
         UNCHANGED <<rule, plans, applied>>, wire' \subseteq wire,
         stage # "idle" => pc[e] # "idle" \/ \A o \in Executors \ {e} : pc[o] = "idle",
         stage \in BeforeSend \cup {"reserving"} => wire = {},
         stage \in {"compared", "applying"} => rule = plans[j.id].state
  PROVE  WindowInv'
<1>1. /\ pc'[e] = stage /\ job'[e] = j
      /\ \A o \in Executors : o # e => pc'[o] = pc[o] /\ job'[o] = job[o]
  BY DEF Become, IInv, TypeOK
<1>2. \A o, p \in Executors : pc'[o] # "idle" /\ pc'[p] # "idle" => o = p
  BY <1>1 DEF WindowInv
<1>3. /\ \A o \in Executors : pc'[o] \in BeforeSend \cup {"reserving"} => wire' = {}
      /\ \A o \in Executors : pc'[o] \in {"compared", "applying"} => rule' = plans'[job'[o].id].state
  BY <1>1 DEF WindowInv
<1>4. AppliedToApprovedState'
  BY DEF WindowInv, AppliedToApprovedState
<1> QED BY <1>2, <1>3, <1>4 DEF WindowInv

\* A plan is made of the rule as it is, before anything is done for it.
LEMMA WindowMakePlan ==
  ASSUME IInv, WindowInv, NEW id \in RequestIds, NEW fp, NEW operation,
         MakePlan(id, operation, fp)
  PROVE  WindowInv'
<1>1. /\ plans[id] = NoPlan
      /\ \A i \in RequestIds : i # id => plans'[i] = plans[i]
      /\ UNCHANGED <<rule, pc, job, wire, applied>>
  BY DEF MakePlan, executorVars, historyVars, IInv, TypeOK
<1>2. applied[id] = <<>> /\ id \notin wire
  BY <1>1 DEF WindowInv
<1>3. \A e \in Executors : pc[e] # "idle" => job[e].id \in RequestIds /\ job[e].id # id
  BY <1>1 DEF IInv, ExecutorInv, Live, Job
<1>4. AppliedToApprovedState'
  <2>1. ASSUME NEW i \in RequestIds, NEW n \in 1..Len(applied[i])
        PROVE  applied[i][n] = plans'[i].state
    <3>1. i # id
      BY <1>2
    <3> QED BY <3>1, <1>1 DEF WindowInv, AppliedToApprovedState
  <2> QED BY <2>1, <1>1 DEF AppliedToApprovedState
<1>5. \A i \in wire' : rule' = plans'[i].state /\ plans'[i] # NoPlan
  BY <1>1, <1>2 DEF WindowInv, IInv, TypeOK
<1>6. \A e \in Executors : pc'[e] \in {"compared", "applying"} => rule' = plans'[job'[e].id].state
  BY <1>1, <1>3 DEF WindowInv
<1>7. \A i \in RequestIds : plans'[i] = NoPlan => applied'[i] = <<>>
  BY <1>1, <1>2 DEF WindowInv
<1> QED BY <1>1, <1>4, <1>5, <1>6, <1>7 DEF WindowInv

\* The device makes the one change on its way: the rule is still as it was compared.
LEMMA WindowMakeChange ==
  ASSUME IInv, WindowInv, NEW id \in RequestIds, MakeChange(id)
  PROVE  WindowInv'
<1>1. /\ id \in wire /\ wire' = wire \ {id}
      /\ applied' = [applied EXCEPT ![id] = Append(@, rule)]
      /\ UNCHANGED <<plans, pc, job>>
  BY DEF MakeChange, executorVars
<1>2. wire' = {} /\ rule = plans[id].state /\ plans[id] # NoPlan
  BY <1>1 DEF WindowInv
<1>3. \A e \in Executors : pc[e] \notin BeforeSend
  BY <1>1 DEF WindowInv
<1>4. applied[id] \in Seq(Rule) /\ rule \in Rule /\ DOMAIN applied = RequestIds
  BY DEF IInv, TypeOK
<1>5. AppliedToApprovedState'
  <2>1. ASSUME NEW i \in RequestIds, NEW n \in 1..Len(applied'[i])
        PROVE  applied'[i][n] = plans[i].state
    <3>1. CASE i # id
      <4>1. applied'[i] = applied[i]
        BY <3>1, <1>1, <1>4
      <4> QED BY <4>1, <2>1 DEF WindowInv, AppliedToApprovedState
    <3>2. CASE i = id
      <4>1. applied'[id] = Append(applied[id], rule)
        BY <1>1, <1>4
      <4>2. n \in 1..(Len(applied[id]) + 1)
        BY <4>1, <3>2, <2>1, <1>4
      <4>3. CASE n = Len(applied[id]) + 1
        BY <4>1, <4>3, <3>2, <1>2, <1>4
      <4>4. CASE n # Len(applied[id]) + 1
        <5>1. n \in 1..Len(applied[id]) /\ Append(applied[id], rule)[n] = applied[id][n]
          BY <4>2, <4>4, <1>4
        <5> QED BY <5>1, <4>1, <3>2 DEF WindowInv, AppliedToApprovedState
      <4> QED BY <4>3, <4>4
    <3> QED BY <3>1, <3>2
  <2> QED BY <2>1, <1>1 DEF AppliedToApprovedState
<1>6. \A i \in RequestIds : plans'[i] = NoPlan => applied'[i] = <<>>
  BY <1>1, <1>2, <1>4 DEF WindowInv
<1> QED BY <1>1, <1>2, <1>3, <1>5, <1>6 DEF WindowInv, BeforeSend

\* Every step of a kept window.
LEMMA WindowNext ==
  ASSUME SingleWriter, IInv, WindowInv, [Next]_vars
  PROVE  WindowInv'
<1>1. ASSUME UNCHANGED <<rule, plans, pc, job, wire, applied>> PROVE WindowInv'
  BY <1>1 DEF WindowInv, AppliedToApprovedState
<1>2. CASE SetStop \/ ClearStop \/ Midnight \/ UNCHANGED vars
  BY <1>1, <1>2 DEF SetStop, ClearStop, Midnight, vars, planVars, executorVars, historyVars
<1>3. ~OtherWrite
  BY DEF OtherWrite
<1>4. ASSUME NEW before, Prune(before) PROVE WindowInv'
  BY <1>1, <1>4 DEF Prune, planVars, executorVars, historyVars
<1>5. ASSUME NEW e \in Executors, NEW id \in RequestIds, Begin(e, id) PROVE WindowInv'
  <2>1. wire = {} /\ \A o \in Executors \ {e} : pc[o] = "idle"
    BY <1>5 DEF Begin, Alone
  <2> QED BY <2>1, <1>5, WindowStep DEF Begin, planVars, historyVars, BeforeSend
<1>6. ASSUME NEW e \in Executors, Execute(e) PROVE WindowInv'
  <2> USE DEF planVars, historyVars
  <2>1. CASE ReserveAnswered(e) \/ Conclude(e)
    BY <2>1, WindowStep DEF ReserveAnswered, Conclude, Answer, BeforeSend
  <2>2. CASE Reserve(e)
    BY <2>2, WindowStep DEF Reserve, BeforeSend, WindowInv
  <2>3. CASE CheckStop(e)
    <3>1. pc[e] \in BeforeSend /\ wire = {}
      BY <2>3 DEF CheckStop, BeforeSend, WindowInv
    <3>2. CASE stop
      BY <2>3, <3>1, <3>2, WindowStep DEF CheckStop, Report, BeforeSend
    <3>3. CASE ~stop /\ pc[e] = "reserved"
      BY <2>3, <3>1, <3>3, WindowStep DEF CheckStop, BeforeSend
    <3>4. CASE ~stop /\ pc[e] = "compared"
      BY <2>3, <3>1, <3>4, WindowStep DEF CheckStop, BeforeSend, WindowInv
    <3> QED BY <2>3, <3>2, <3>3, <3>4 DEF CheckStop
  <2>4. CASE Compare(e)
    <3>1. pc[e] \in BeforeSend /\ wire = {}
      BY <2>4 DEF Compare, BeforeSend, WindowInv
    <3>2. CASE rule = PlanOf(e).state
      BY <2>4, <3>1, <3>2, WindowStep DEF Compare, PlanOf, BeforeSend
    <3>3. CASE rule # PlanOf(e).state
      BY <2>4, <3>1, <3>3, WindowStep DEF Compare, Report, BeforeSend
    <3> QED BY <3>2, <3>3
  <2>5. CASE SendChange(e)
    <3>1. /\ pc[e] = "applying" /\ wire' = wire \cup {job[e].id}
          /\ UNCHANGED <<rule, plans, applied>>
      BY <2>5 DEF SendChange
    <3>2. /\ wire = {} /\ rule = plans[job[e].id].state /\ plans[job[e].id] # NoPlan
      BY <3>1 DEF WindowInv, BeforeSend, IInv, ExecutorInv, Live
    <3>3. pc'[e] = "waiting" /\ job' = job /\ \A o \in Executors : o # e => pc'[o] = pc[o]
      BY <2>5 DEF SendChange, Become, IInv, TypeOK
    <3>4. \A o \in Executors : o # e => pc'[o] = "idle"
      BY <3>1, <3>3 DEF WindowInv
    <3>5. AppliedToApprovedState'
      BY <3>1 DEF WindowInv, AppliedToApprovedState
    <3> QED BY <3>1, <3>2, <3>3, <3>4, <3>5 DEF WindowInv, BeforeSend
  <2>6. CASE ChangeAnswered(e)
    BY <2>6, WindowStep DEF ChangeAnswered, BeforeSend
  <2>7. CASE ChangeRefused(e) \/ CallFails(e) \/ ReadBack(e)
    BY <2>7, WindowStep DEF ChangeRefused, CallFails, ReadBack, Report, BeforeSend
  <2> QED BY <1>6, <2>1, <2>2, <2>3, <2>4, <2>5, <2>6, <2>7 DEF Execute
<1>7. ASSUME NEW e \in Executors, Crash(e) PROVE WindowInv'
  BY <1>7, WindowStep DEF Crash, Answer, planVars, historyVars, BeforeSend
<1>8. ASSUME NEW id \in RequestIds, NEW fp, NEW operation, MakePlan(id, operation, fp)
      PROVE  WindowInv'
  BY <1>8, WindowMakePlan
<1>9. ASSUME NEW id \in RequestIds, MakeChange(id) PROVE WindowInv'
  BY <1>9, WindowMakeChange
<1> QED BY <1>2, <1>3, <1>4, <1>5, <1>6, <1>7, <1>8, <1>9, Zenon DEF Next

\* While the maintenance window is kept, the rule is changed only as the approvers of
\* the plan saw it: the comparison in execute(), with nobody between it and the change.
THEOREM ApprovedStateOnly == Spec => [](SingleWriter => AppliedToApprovedState)
<1> DEFINE WInv == SingleWriter => WindowInv
<1>1. Init => WInv
  BY DEF Init, WindowInv, AppliedToApprovedState, BeforeSend
<1>2. IInv /\ WInv /\ [Next]_vars => WInv'
  BY WindowNext
<1>3. WInv => (SingleWriter => AppliedToApprovedState)
  BY DEF WindowInv
<1> HIDE DEF WInv
<1> QED BY <1>1, <1>2, <1>3, Invariance, PTL DEF Spec
=============================================================================
