---------------------------- MODULE GatewayProofs ---------------------------
(***************************************************************************)
(* Theorems about Gateway, for any sets of ids, senders and administrators *)
(* and any limits.  The inductive invariant IInv is built in layers: the   *)
(* types, the chain, what a prune in progress knows, what a receipt rests  *)
(* on, what a request in flight holds, and what the provider has got.      *)
(***************************************************************************)
EXTENDS Gateway, EvidenceProofs

----------------------------------------------------------------------------
(* The inductive invariant. *)

\* Nothing an admin has planned to delete is younger than its cutoff, and every
\* row appended since has a number past what it will delete.
PlanInv ==
  \A a \in Admins : plan[a] # NoPlan =>
    /\ plan[a].before <= now - 1
    /\ plan[a].last <= Tip
    /\ journal # {}
    /\ \A r \in journal : r.seq <= plan[a].last => r.at < plan[a].before

\* A receipt rests on a request row that is at least as young.
ReceiptInv ==
  \A id \in RequestIds : Known(id) =>
    \E r \in journal : r.kind = "request" /\ r.id = id /\ r.at >= receipts[id].at

\* A request in flight owns its pending receipt, which is too young to prune.
Holds(s) ==
  /\ Known(job[s].id)
  /\ receipts[job[s].id].state = "dispatch_pending"
  /\ receipts[job[s].id].fp = job[s].fp
  /\ receipts[job[s].id].at = job[s].began
  /\ job[s].began >= now - 1
  /\ pc[s] # "concluding" => delivered[job[s].id] = <<>>
  /\ pc[s] = "concluding" =>
       /\ job[s].final \in FinalStates
       /\ delivered[job[s].id] # <<>> => delivered[job[s].id][1] = job[s].fp
       /\ job[s].final = "provider_completed" => delivered[job[s].id] # <<>>

FlightInv ==
  /\ \A s \in Senders : pc[s] # "idle" => job[s] \in Job
  /\ \A s \in Senders : InFlight(s) => Holds(s)
  /\ \A s, t \in Senders : InFlight(s) /\ InFlight(t) /\ s # t => job[s].id # job[t].id

\* The provider has got nothing under an id the journal has forgotten.
DeliveredInv == \A id \in RequestIds : Fenced(id) \/ delivered[id] = <<>>

IInv ==
  /\ TypeOK /\ ChainInv /\ JournalVerifies /\ PlanInv /\ ReceiptInv
  /\ FlightInv /\ DeliveredInv /\ AtMostOneDelivery /\ ReceiptsTellTheTruth

----------------------------------------------------------------------------
(* Plans of prunes. *)

\* Plans survive an append: its row has a number past all of them.
LEMMA PlansSurviveGrowth ==
  ASSUME TypeOK, PlanInv, ChainInv, now' \in Nat, now' >= now, plan' = plan,
         Tip' = Tip + 1, NEW r, r.seq = Tip + 1, journal' = journal \cup {r}
  PROVE  PlanInv'
<1> SUFFICES ASSUME NEW a \in Admins, plan[a] # NoPlan
             PROVE  /\ plan[a].before <= now' - 1
                    /\ plan[a].last <= Tip'
                    /\ journal' # {}
                    /\ \A q \in journal' : q.seq <= plan[a].last => q.at < plan[a].before
  BY DEF PlanInv
<1>1. /\ plan[a].before <= now - 1
      /\ plan[a].last <= Tip
      /\ \A q \in journal : q.seq <= plan[a].last => q.at < plan[a].before
  BY DEF PlanInv
<1>2. plan[a].last \in Nat /\ plan[a].before \in Int /\ now \in Nat /\ Tip \in Nat
  BY DEF TypeOK, EvidenceTypeOK, Plan, ChainInv
<1> QED BY <1>1, <1>2

----------------------------------------------------------------------------
(* Steps that leave the store alone. *)

\* A step that writes nothing to the store, to the plans or to the provider keeps
\* everything that is said of them.
LEMMA QuietStore ==
  ASSUME IInv, UNCHANGED evidenceVars
  PROVE  /\ EvidenceTypeOK' /\ ChainInv' /\ JournalVerifies' /\ ReceiptInv'
         /\ plan' = plan => PlanInv'
         /\ delivered' = delivered =>
              DeliveredInv' /\ AtMostOneDelivery' /\ ReceiptsTellTheTruth'
BY DEF IInv, TypeOK, EvidenceTypeOK, evidenceVars, ChainInv, JournalVerifies, ReceiptInv,
       PlanInv, DeliveredInv, AtMostOneDelivery, ReceiptsTellTheTruth, Tip, Known, Fenced

\* One sender moves to a stage whose claims hold of it; the others are as they were.
LEMMA SenderMoves ==
  ASSUME IInv, UNCHANGED <<evidenceVars, plan, delivered>>,
         stop' \in BOOLEAN, faults' \in Nat, late' \subseteq Senders,
         NEW s \in Senders, NEW stage \in Stages, NEW j \in Job \cup {NoJob},
         Become(s, stage, j),
         stage # "idle" => j \in Job,
         stage \in {"reserved", "armed", "concluding"} =>
           InFlight(s) /\ j.id = job[s].id /\ Holds(s)'
  PROVE  IInv'
<1>1. TypeOK'
  BY QuietStore DEF IInv, TypeOK, Become
<1>2. FlightInv'
  <2>1. pc' = [pc EXCEPT ![s] = stage] /\ job' = [job EXCEPT ![s] = j]
    BY DEF Become
  <2>2. pc'[s] = stage /\ job'[s] = j
    BY <2>1 DEF IInv, TypeOK
  <2>3. \A t \in Senders : t # s => pc'[t] = pc[t] /\ job'[t] = job[t]
    BY <2>1 DEF IInv, TypeOK
  <2>4. ASSUME NEW t \in Senders, pc'[t] # "idle" PROVE job'[t] \in Job
    BY <2>2, <2>3, <2>4 DEF IInv, FlightInv
  <2>5. ASSUME NEW t \in Senders, InFlight(t)' PROVE Holds(t)'
    <3>1. CASE t = s
      BY <3>1, <2>2, <2>5 DEF InFlight
    <3>2. CASE t # s
      <4>1. InFlight(t) /\ Holds(t)
        BY <3>2, <2>3, <2>5 DEF InFlight, IInv, FlightInv
      <4> QED BY <4>1, <3>2, <2>3 DEF Holds, Known, evidenceVars
    <3> QED BY <3>1, <3>2
  <2>6. ASSUME NEW t \in Senders, NEW u \in Senders, InFlight(t)', InFlight(u)', t # u
        PROVE  job'[t].id # job'[u].id
    <3>1. /\ InFlight(t) /\ InFlight(u)
          /\ job'[t].id = job[t].id /\ job'[u].id = job[u].id
      BY <2>2, <2>3, <2>6 DEF InFlight
    <3> QED BY <3>1, <2>6 DEF IInv, FlightInv
  <2> QED BY <2>4, <2>5, <2>6 DEF FlightInv
<1> QED BY <1>1, <1>2, QuietStore DEF IInv

\* A sender that gives its caller an answer claims nothing more.
LEMMA AnswerKeeps ==
  ASSUME IInv, UNCHANGED <<evidenceVars, plan, delivered>>,
         stop' \in BOOLEAN, faults' \in Nat, late' \subseteq Senders,
         NEW s \in Senders, Answer(s)
  PROVE  IInv'
BY SenderMoves DEF Answer, Stages

\* A send that begins has no claim on the store yet.
LEMMA BeginKeeps ==
  ASSUME IInv, NEW s \in Senders, NEW id \in RequestIds, NEW fp \in Fingerprints,
         Begin(s, id, fp)
  PROVE  IInv'
<1> DEFINE j == [id |-> id, fp |-> fp, began |-> 0, final |-> "none"]
<1>1. j \in Job
  BY DEF Job
<1> QED BY <1>1, SenderMoves DEF Begin, Stages, IInv, TypeOK

\* The second stop check moves a reservation on, or gives it up as unknown.
LEMMA RecheckKeeps ==
  ASSUME IInv, NEW s \in Senders, Recheck(s)
  PROVE  IInv'
<1>1. /\ pc[s] = "reserved" /\ InFlight(s) /\ Holds(s) /\ job[s] \in Job
      /\ UNCHANGED <<evidenceVars, plan, stop, faults, delivered, late>>
      /\ stop \in BOOLEAN /\ faults \in Nat /\ late \subseteq Senders
  BY DEF Recheck, InFlight, IInv, FlightInv, TypeOK
<1>2. CASE stop
  <2> DEFINE j == [job[s] EXCEPT !.final = "delivery_unknown"]
  <2>1. Become(s, "concluding", j)
    BY <1>2 DEF Recheck
  <2>2. /\ j \in Job /\ j.id = job[s].id /\ j.fp = job[s].fp /\ j.began = job[s].began
        /\ j.final = "delivery_unknown"
    BY <1>1 DEF Job, FinalStates
  <2>3. pc'[s] = "concluding" /\ job'[s] = j
    BY <2>1 DEF Become, IInv, TypeOK
  <2>4. Holds(s)'
    BY <1>1, <2>2, <2>3 DEF Holds, Known, evidenceVars, FinalStates
  <2> QED BY <1>1, <2>1, <2>2, <2>4, SenderMoves DEF Stages
<1>3. CASE ~stop
  <2>1. Become(s, "armed", job[s])
    BY <1>3 DEF Recheck
  <2>2. pc'[s] = "armed" /\ job'[s] = job[s]
    BY <2>1 DEF Become, IInv, TypeOK
  <2>3. Holds(s)'
    BY <1>1, <2>2 DEF Holds, Known, evidenceVars
  <2> QED BY <1>1, <2>1, <2>3, SenderMoves DEF Stages
<1> QED BY <1>2, <1>3

\* A transport that raised before dispatch leaves the provider without the body.
LEMMA DeliverNothingKeeps ==
  ASSUME IInv, NEW s \in Senders, DeliverNothing(s)
  PROVE  IInv'
<1> DEFINE j == [job[s] EXCEPT !.final = "delivery_unknown"]
<1>1. /\ pc[s] = "armed" /\ InFlight(s) /\ Holds(s) /\ job[s] \in Job
      /\ UNCHANGED <<evidenceVars, plan, stop, faults, delivered, late>>
      /\ stop \in BOOLEAN /\ faults \in Nat /\ late \subseteq Senders
      /\ Become(s, "concluding", j)
  BY DEF DeliverNothing, InFlight, IInv, FlightInv, TypeOK
<1>2. /\ j \in Job /\ j.id = job[s].id /\ j.fp = job[s].fp /\ j.began = job[s].began
      /\ j.final = "delivery_unknown"
  BY <1>1 DEF Job, FinalStates
<1>3. pc'[s] = "concluding" /\ job'[s] = j
  BY <1>1 DEF Become, IInv, TypeOK
<1>4. Holds(s)'
  BY <1>1, <1>2, <1>3 DEF Holds, Known, evidenceVars, FinalStates
<1> QED BY <1>1, <1>2, <1>4, SenderMoves DEF Stages

----------------------------------------------------------------------------
(* The provider gets a body. *)

\* The sender that holds the reservation is the one that may dispatch it: nobody
\* dispatched it before, and nobody else will.
LEMMA DeliverKeeps ==
  ASSUME IInv, NEW s \in Senders, Deliver(s)
  PROVE  IInv'
<1>1. PICK final \in {"provider_completed", "delivery_unknown"} :
             Become(s, "concluding", [job[s] EXCEPT !.final = final])
  BY DEF Deliver
<1>0. PICK id \in RequestIds : id = job[s].id
  BY DEF Deliver, IInv, FlightInv, Job
<1> DEFINE j == [job[s] EXCEPT !.final = final]
<1>2. /\ pc[s] = "armed" /\ InFlight(s) /\ Holds(s) /\ job[s] \in Job
      /\ UNCHANGED <<evidenceVars, plan, stop, faults, late>>
      /\ delivered' = [delivered EXCEPT ![id] = Append(@, job[s].fp)]
  BY <1>0 DEF Deliver, InFlight, IInv, FlightInv
<1>3. /\ j \in Job /\ j.id = id /\ j.fp = job[s].fp /\ j.began = job[s].began
      /\ j.final = final
  BY <1>0, <1>2 DEF Job, FinalStates
<1>4. pc' = [pc EXCEPT ![s] = "concluding"] /\ job' = [job EXCEPT ![s] = j]
  BY <1>1 DEF Become
<1>5. pc'[s] = "concluding" /\ job'[s] = j
  BY <1>4 DEF IInv, TypeOK
<1>6. \A t \in Senders : t # s => pc'[t] = pc[t] /\ job'[t] = job[t]
  BY <1>4 DEF IInv, TypeOK
<1>7. id \in RequestIds /\ job[s].fp \in Fingerprints
  BY <1>2 DEF Job
<1>8. /\ delivered \in [RequestIds -> Seq(Fingerprints)]
      /\ delivered[id] = <<>>
  BY <1>0, <1>2 DEF IInv, TypeOK, Holds
<1>9. /\ Append(delivered[id], job[s].fp) = <<job[s].fp>>
      /\ <<job[s].fp>> \in Seq(Fingerprints)
      /\ <<job[s].fp>> # <<>> /\ Len(<<job[s].fp>>) = 1 /\ <<job[s].fp>>[1] = job[s].fp
  BY <1>7, <1>8
<1>10. /\ delivered' \in [RequestIds -> Seq(Fingerprints)]
       /\ delivered'[id] = <<job[s].fp>>
       /\ \A i \in RequestIds : i # id => delivered'[i] = delivered[i]
  BY <1>2, <1>7, <1>8, <1>9
<1>11. TypeOK'
  BY <1>2, <1>3, <1>4, <1>10, QuietStore DEF IInv, TypeOK, Stages
<1>12. FlightInv'
  <2>1. ASSUME NEW t \in Senders, pc'[t] # "idle" PROVE job'[t] \in Job
    BY <1>3, <1>5, <1>6, <2>1 DEF IInv, FlightInv
  <2>2. ASSUME NEW t \in Senders, InFlight(t)' PROVE Holds(t)'
    <3>1. CASE t = s
      <4>1. Known(id)' /\ receipts'[id] = receipts[id] /\ now' = now
        BY <1>0, <1>2 DEF Holds, Known, evidenceVars
      <4> QED BY <3>1, <1>0, <4>1, <1>2, <1>3, <1>5, <1>9, <1>10 DEF Holds, FinalStates
    <3>2. CASE t # s
      <4>1. InFlight(t) /\ Holds(t) /\ job[t] \in Job /\ job[t].id # id
        BY <3>2, <1>0, <1>2, <1>6, <2>2 DEF InFlight, IInv, FlightInv
      <4>2. delivered'[job[t].id] = delivered[job[t].id]
        BY <4>1, <1>10 DEF Job
      <4> QED BY <4>1, <4>2, <3>2, <1>2, <1>6 DEF Holds, Known, evidenceVars
    <3> QED BY <3>1, <3>2
  <2>3. ASSUME NEW t \in Senders, NEW u \in Senders, InFlight(t)', InFlight(u)', t # u
        PROVE  job'[t].id # job'[u].id
    <3>1. /\ InFlight(t) /\ InFlight(u)
          /\ job'[t].id = job[t].id /\ job'[u].id = job[u].id
      BY <1>0, <1>2, <1>3, <1>5, <1>6, <2>3 DEF InFlight
    <3> QED BY <3>1, <2>3 DEF IInv, FlightInv
  <2> QED BY <2>1, <2>2, <2>3 DEF FlightInv
<1>13. DeliveredInv' /\ AtMostOneDelivery' /\ ReceiptsTellTheTruth'
  <2>1. Fenced(id)'
    BY <1>0, <1>2, <1>7 DEF Holds, IInv, ReceiptInv, Fenced, evidenceVars
  <2>2. DeliveredInv'
    BY <2>1, <1>2, <1>10 DEF DeliveredInv, IInv, Fenced, evidenceVars
  <2>3. AtMostOneDelivery'
    <3>1. Len(delivered'[id]) <= 1
      BY <1>9, <1>10
    <3>2. ASSUME NEW i \in RequestIds, i # id PROVE Len(delivered'[i]) <= 1
      <4>1. delivered'[i] = delivered[i]
        BY <1>10, <3>2
      <4> QED BY <4>1 DEF IInv, AtMostOneDelivery
    <3> QED BY <3>1, <3>2 DEF AtMostOneDelivery
  <2>4. ReceiptsTellTheTruth'
    BY <1>0, <1>2, <1>9, <1>10 DEF ReceiptsTellTheTruth, IInv, Known, Holds, evidenceVars
  <2> QED BY <2>2, <2>3, <2>4
<1> QED BY <1>2, <1>11, <1>12, <1>13, QuietStore DEF IInv

----------------------------------------------------------------------------
(* Steps that append to the journal. *)

\* A reservation: `s` has asked for an id that nothing remembers.
LEMMA ReserveKeepsStore ==
  ASSUME IInv, NEW id \in RequestIds, NEW fp \in Fingerprints,
         NEW state \in {"dispatch_pending", "prevented_in_gateway"},
         NEW day \in Nat, day <= MaxDay, day >= now, day <= now + 1,
         ReserveTxn(id, fp, state, day), plan' = plan, delivered' = delivered
  PROVE  /\ EvidenceTypeOK' /\ ChainInv' /\ JournalVerifies' /\ PlanInv' /\ ReceiptInv'
         /\ DeliveredInv' /\ AtMostOneDelivery' /\ ReceiptsTellTheTruth'
         /\ receipts'[id] = [state |-> state, fp |-> fp, at |-> now]
         /\ \A i \in RequestIds : i # id => receipts'[i] = receipts[i]
         /\ Known(id)' /\ ~Known(id)
         /\ delivered[id] = <<>> /\ now' = day
<1>1. EvidenceTypeOK /\ ChainInv /\ state \in ReceiptStates
  BY DEF IInv, TypeOK, ReceiptStates
<1>2. /\ EvidenceTypeOK' /\ ChainInv' /\ JournalVerifies' /\ Tip' = Tip + 1
      /\ ~Known(id) /\ ~Fenced(id) /\ Known(id)' /\ now' = day
      /\ receipts'[id] = [state |-> state, fp |-> fp, at |-> now]
      /\ \A i \in RequestIds : i # id => receipts'[i] = receipts[i]
      /\ \E r \in journal' :
           /\ r.seq = Tip + 1 /\ r.at = day /\ r.kind = "request" /\ r.id = id
           /\ journal' = journal \cup {r}
  BY <1>1, ReserveKeepsEvidence
<1>3. PICK r \in journal' :
           /\ r.seq = Tip + 1 /\ r.at = day /\ r.kind = "request" /\ r.id = id
           /\ journal' = journal \cup {r}
  BY <1>2
<1>4. now \in Nat
  BY <1>1, LimitAssumption DEF EvidenceTypeOK
<1>5. PlanInv'
  BY <1>2, <1>3, PlansSurviveGrowth DEF IInv
<1>6. ReceiptInv'
  BY <1>2, <1>3, <1>4 DEF ReceiptInv, IInv, Known
<1>7. delivered[id] = <<>>
  BY <1>2 DEF IInv, DeliveredInv
<1>8. DeliveredInv' /\ AtMostOneDelivery'
  BY <1>3 DEF IInv, DeliveredInv, AtMostOneDelivery, Fenced
<1>9. ReceiptsTellTheTruth'
  BY <1>2, <1>7 DEF ReceiptsTellTheTruth, IInv, Known
<1> QED BY <1>2, <1>5, <1>6, <1>7, <1>8, <1>9

\* A refused request leaves a receipt and no sender in flight.
LEMMA ReservePreventedKeeps ==
  ASSUME IInv, NEW s \in Senders, ReservePrevented(s)
  PROVE  IInv'
<1>1. PICK day \in {now} \cup (IF MayTurnDay THEN {now + 1} ELSE {}) :
        ReserveTxn(job[s].id, job[s].fp, "prevented_in_gateway", day)
  BY Zenon DEF ReservePrevented
<1>2. PICK id \in RequestIds, fp \in Fingerprints : id = job[s].id /\ fp = job[s].fp
  BY DEF ReservePrevented, IInv, FlightInv, Job
<1>3. now \in Nat /\ MaxDay \in Nat /\ now <= MaxDay
  BY LimitAssumption DEF IInv, TypeOK, EvidenceTypeOK
<1>4. /\ day \in Nat /\ day <= MaxDay /\ day >= now /\ day <= now + 1
      /\ day > now => \A t \in Senders : InFlight(t) => job[t].began = now
  BY <1>3 DEF MayTurnDay
<1>5. /\ pc' = [pc EXCEPT ![s] = "idle"] /\ job' = [job EXCEPT ![s] = NoJob]
      /\ UNCHANGED <<plan, stop, faults, delivered, late>>
      /\ pc[s] = "reserving"
  BY DEF ReservePrevented, Answer, Become
<1>6. /\ EvidenceTypeOK' /\ ChainInv' /\ JournalVerifies' /\ PlanInv' /\ ReceiptInv'
      /\ DeliveredInv' /\ AtMostOneDelivery' /\ ReceiptsTellTheTruth'
      /\ \A i \in RequestIds : i # id => receipts'[i] = receipts[i]
      /\ ~Known(id) /\ now' = day
  <2>1. ReserveTxn(id, fp, "prevented_in_gateway", day)
    BY <1>1, <1>2, Zenon
  <2>2. plan' = plan /\ delivered' = delivered
    BY <1>5
  <2> QED BY <1>4, <2>1, <2>2, ReserveKeepsStore
<1>7. TypeOK'
  BY <1>5, <1>6 DEF TypeOK, IInv, Stages
<1>8. FlightInv'
  <2>1. \A t \in Senders : t # s => pc'[t] = pc[t] /\ job'[t] = job[t]
    BY <1>5 DEF IInv, TypeOK
  <2>2. pc'[s] = "idle"
    BY <1>5 DEF IInv, TypeOK
  <2>3. ASSUME NEW t \in Senders, InFlight(t)'
        PROVE  InFlight(t) /\ t # s /\ Holds(t)'
    <3>1. t # s /\ InFlight(t) /\ Holds(t) /\ job[t] \in Job
      BY <2>1, <2>2, <2>3 DEF InFlight, IInv, FlightInv
    <3>2. job[t].id # id /\ job[t].id \in RequestIds /\ job[t].began \in Nat
      BY <3>1, <1>6 DEF Holds, Job
    <3>3. job[t].began >= now' - 1
      BY <3>1, <3>2, <1>3, <1>4, <1>6 DEF Holds
    <3> QED BY <3>1, <3>2, <3>3, <2>1, <1>5, <1>6 DEF Holds, Known
  <2> QED BY <2>1, <2>2, <2>3 DEF FlightInv, IInv
<1> QED BY <1>6, <1>7, <1>8 DEF IInv

\* A pending reservation is held by the sender that made it, and by no other.
LEMMA ReservePendingKeeps ==
  ASSUME IInv, NEW s \in Senders, ReservePending(s)
  PROVE  IInv'
<1>1. PICK day \in {now} \cup (IF MayTurnDay THEN {now + 1} ELSE {}) :
        ReserveTxn(job[s].id, job[s].fp, "dispatch_pending", day)
  BY Zenon DEF ReservePending
<1>2. PICK id \in RequestIds, fp \in Fingerprints : id = job[s].id /\ fp = job[s].fp
  BY DEF ReservePending, IInv, FlightInv, Job
<1>3. now \in Nat /\ MaxDay \in Nat /\ now <= MaxDay
  BY LimitAssumption DEF IInv, TypeOK, EvidenceTypeOK
<1>4. /\ day \in Nat /\ day <= MaxDay /\ day >= now /\ day <= now + 1
      /\ day > now => \A t \in Senders : InFlight(t) => job[t].began = now
  BY <1>3 DEF MayTurnDay
<1> DEFINE j == [job[s] EXCEPT !.began = now]
<1>5. /\ pc' = [pc EXCEPT ![s] = "reserved"] /\ job' = [job EXCEPT ![s] = j]
      /\ UNCHANGED <<plan, stop, faults, delivered, late>>
      /\ pc[s] = "reserving" /\ job[s] \in Job
  BY DEF ReservePending, Become, IInv, FlightInv
<1>6. /\ EvidenceTypeOK' /\ ChainInv' /\ JournalVerifies' /\ PlanInv' /\ ReceiptInv'
      /\ DeliveredInv' /\ AtMostOneDelivery' /\ ReceiptsTellTheTruth'
      /\ receipts'[id] = [state |-> "dispatch_pending", fp |-> fp, at |-> now]
      /\ \A i \in RequestIds : i # id => receipts'[i] = receipts[i]
      /\ Known(id)' /\ ~Known(id) /\ delivered[id] = <<>> /\ now' = day
  <2>1. ReserveTxn(id, fp, "dispatch_pending", day)
    BY <1>1, <1>2, Zenon
  <2>2. plan' = plan /\ delivered' = delivered
    BY <1>5
  <2> QED BY <1>4, <2>1, <2>2, ReserveKeepsStore
<1>7. j \in Job /\ j.id = id /\ j.fp = fp /\ j.began = now
  BY <1>2, <1>3, <1>5 DEF Job
<1>8. TypeOK'
  BY <1>5, <1>6, <1>7 DEF TypeOK, IInv, Stages
<1>9. FlightInv'
  <2>1. \A t \in Senders : t # s => pc'[t] = pc[t] /\ job'[t] = job[t]
    BY <1>5 DEF IInv, TypeOK
  <2>2. pc'[s] = "reserved" /\ job'[s] = j
    BY <1>5 DEF IInv, TypeOK
  <2>3. Holds(s)'
    <3>1. now >= now' - 1
      BY <1>3, <1>4, <1>6
    <3> QED BY <3>1, <2>2, <1>5, <1>6, <1>7 DEF Holds
  <2>4. ASSUME NEW t \in Senders, InFlight(t)', t # s
        PROVE  InFlight(t) /\ job[t].id # id /\ Holds(t)'
    <3>1. InFlight(t) /\ Holds(t) /\ job[t] \in Job
      BY <2>1, <2>4 DEF InFlight, IInv, FlightInv
    <3>2. job[t].id # id /\ job[t].id \in RequestIds /\ job[t].began \in Nat
      BY <3>1, <1>6 DEF Holds, Job
    <3>3. job[t].began >= now' - 1
      BY <3>1, <3>2, <1>3, <1>4, <1>6 DEF Holds
    <3> QED BY <3>1, <3>2, <3>3, <2>1, <2>4, <1>5, <1>6 DEF Holds, Known
  <2>5. ASSUME NEW t \in Senders, pc'[t] # "idle" PROVE job'[t] \in Job
    BY <1>7, <2>1, <2>2, <2>5 DEF IInv, FlightInv
  <2>6. ASSUME NEW t \in Senders, NEW u \in Senders, InFlight(t)', InFlight(u)', t # u
        PROVE  job'[t].id # job'[u].id
    <3>1. CASE t = s
      BY <3>1, <1>7, <2>1, <2>2, <2>4, <2>6
    <3>2. CASE u = s
      BY <3>2, <1>7, <2>1, <2>2, <2>4, <2>6
    <3>3. CASE t # s /\ u # s
      BY <3>3, <2>1, <2>4, <2>6 DEF IInv, FlightInv
    <3> QED BY <3>1, <3>2, <3>3
  <2>7. \A t \in Senders : InFlight(t)' => Holds(t)'
    BY <2>3, <2>4
  <2> QED BY <2>5, <2>6, <2>7 DEF FlightInv
<1> QED BY <1>6, <1>8, <1>9 DEF IInv

\* An inspection row names no request and fences nothing.
LEMMA CheckKeeps ==
  ASSUME IInv, Check
  PROVE  IInv'
<1>1. /\ CanAppend(journal, anchor)
      /\ journal' = WithRow(journal, anchor, now, "inspection", NoId, "none")
      /\ UNCHANGED <<anchor, receipts, now, pc, job, plan, stop, faults, delivered, late>>
  BY DEF Check, AppendTxn, senderVars
<1>2. now \in Nat
  BY LimitAssumption DEF IInv, TypeOK, EvidenceTypeOK
<1>3. /\ journal' \in SUBSET Row /\ ChainInv' /\ JournalVerifies' /\ Tip' = Tip + 1
      /\ \E r \in journal' : r.seq = Tip + 1 /\ journal' = journal \cup {r}
  BY <1>1, <1>2, JournalGrows DEF IInv, TypeOK, Kinds
<1>4. TypeOK'
  BY <1>1, <1>3 DEF IInv, TypeOK, EvidenceTypeOK
<1>5. PlanInv'
  BY <1>1, <1>2, <1>3, PlansSurviveGrowth DEF IInv
<1>6. ReceiptInv' /\ DeliveredInv'
  BY <1>1, <1>3 DEF IInv, ReceiptInv, DeliveredInv, Known, Fenced
<1>7. FlightInv'
  BY <1>1 DEF IInv, FlightInv, InFlight, Holds, Known
<1>8. AtMostOneDelivery' /\ ReceiptsTellTheTruth'
  BY <1>1 DEF IInv, AtMostOneDelivery, ReceiptsTellTheTruth, Known
<1> QED BY <1>3, <1>4, <1>5, <1>6, <1>7, <1>8 DEF IInv

\* finish() writes the result of the one sender that holds the request.
LEMMA ConcludeKeeps ==
  ASSUME IInv, NEW s \in Senders, Conclude(s)
  PROVE  IInv'
<1>1. /\ pc[s] = "concluding" /\ InFlight(s) /\ Holds(s) /\ job[s] \in Job
      /\ job[s].final \in FinalStates
  BY DEF Conclude, InFlight, IInv, FlightInv, Holds
<1>2. PICK id \in RequestIds, final \in FinalStates : id = job[s].id /\ final = job[s].final
  BY <1>1 DEF Job
<1>3. /\ FinishTxn(id, final) /\ Known(id)
      /\ UNCHANGED <<plan, stop, faults, delivered, late>>
      /\ pc' = [pc EXCEPT ![s] = "idle"] /\ job' = [job EXCEPT ![s] = NoJob]
  BY <1>1, <1>2 DEF Conclude, Answer, Become, Holds
<1>4. /\ EvidenceTypeOK' /\ ChainInv' /\ JournalVerifies' /\ Tip' = Tip + 1 /\ now' = now
      /\ receipts'[id].state = final /\ receipts'[id].fp = receipts[id].fp
      /\ receipts'[id].at = receipts[id].at
      /\ \A i \in RequestIds : i # id => receipts'[i] = receipts[i]
      /\ \A i \in RequestIds : Known(i)' => Known(i)
  BY <1>3, FinishKeepsEvidence DEF IInv, TypeOK
<1>5. PICK r \in journal' :
        /\ r.seq = Tip + 1 /\ r.kind = "request" /\ r.id = id
        /\ journal' = journal \cup {r}
  BY <1>3, FinishKeepsEvidence DEF IInv, TypeOK
<1>6. TypeOK'
  BY <1>3, <1>4 DEF IInv, TypeOK, Stages
<1>7. PlanInv'
  <2>1. now \in Nat
    BY LimitAssumption DEF IInv, TypeOK, EvidenceTypeOK
  <2> QED BY <2>1, <1>3, <1>4, <1>5, PlansSurviveGrowth DEF IInv
<1>8. ReceiptInv'
  BY <1>3, <1>4, <1>5 DEF IInv, ReceiptInv, Known
<1>9. DeliveredInv' /\ AtMostOneDelivery'
  BY <1>3, <1>5 DEF IInv, DeliveredInv, AtMostOneDelivery, Fenced
<1>10. FlightInv'
  <2>1. \A t \in Senders : t # s => pc'[t] = pc[t] /\ job'[t] = job[t]
    BY <1>3 DEF IInv, TypeOK
  <2>2. pc'[s] = "idle"
    BY <1>3 DEF IInv, TypeOK
  <2>3. ASSUME NEW t \in Senders, InFlight(t)'
        PROVE  InFlight(t) /\ t # s /\ Holds(t)'
    <3>1. t # s /\ InFlight(t) /\ Holds(t) /\ job[t] \in Job
      BY <2>1, <2>2, <2>3 DEF InFlight, IInv, FlightInv
    <3>2. job[t].id # id /\ job[t].id \in RequestIds
      BY <3>1, <1>1, <1>2 DEF IInv, FlightInv, Job
    <3> QED BY <3>1, <3>2, <2>1, <1>3, <1>4 DEF Holds, Known
  <2> QED BY <2>1, <2>2, <2>3 DEF FlightInv, IInv
<1>11. ReceiptsTellTheTruth'
  <2>1. /\ delivered[id] # <<>> => delivered[id][1] = receipts'[id].fp
        /\ receipts'[id].state = "provider_completed" => delivered[id] # <<>>
        /\ receipts'[id].state # "prevented_in_gateway"
    BY <1>1, <1>2, <1>4 DEF Holds, FinalStates
  <2> QED BY <2>1, <1>3, <1>4 DEF IInv, ReceiptsTellTheTruth, Known
<1> QED BY <1>4, <1>6, <1>7, <1>8, <1>9, <1>10, <1>11 DEF IInv

----------------------------------------------------------------------------
(* Retention. *)

\* What a prune has read stays true until it locks the store: rows are only added.
LEMMA PruneReadKeeps ==
  ASSUME IInv, NEW a \in Admins, NEW before \in 0..MaxDay, PruneRead(a, before)
  PROVE  IInv'
<1> DEFINE last == LastSeq(Prefix(journal, before), anchor)
           read == [last |-> last, before |-> before]
<1>1. /\ before <= now - 1 /\ Prefix(journal, before) # {}
      /\ plan' = [plan EXCEPT ![a] = read]
      /\ UNCHANGED <<evidenceVars, pc, job, stop, faults, delivered, late>>
  BY DEF PruneRead, senderVars
<1>2. before \in Int
  BY LimitAssumption
<1>3. /\ last \in Nat /\ last <= Tip /\ journal # {}
      /\ \A r \in journal : r.seq <= last => r.at < before
  BY <1>1, <1>2, PrefixRead DEF IInv, TypeOK
<1>4. read \in Plan
  BY <1>2, <1>3 DEF Plan
<1>5. TypeOK'
  BY <1>1, <1>4, QuietStore DEF IInv, TypeOK
<1>6. PlanInv'
  <2>1. plan'[a] = read /\ \A b \in Admins : b # a => plan'[b] = plan[b]
    BY <1>1 DEF IInv, TypeOK
  <2>2. journal' = journal /\ now' = now /\ Tip' = Tip
    BY <1>1 DEF evidenceVars, Tip
  <2> QED BY <2>1, <2>2, <1>1, <1>3 DEF IInv, PlanInv
<1>7. FlightInv'
  BY <1>1 DEF IInv, FlightInv, InFlight, Holds, Known, evidenceVars
<1> QED BY <1>1, <1>5, <1>6, <1>7, QuietStore DEF IInv

\* A prune that is rolled back leaves everything as it was.
LEMMA PruneRollbackKeeps ==
  ASSUME IInv, NEW a \in Admins, PruneRollback(a)
  PROVE  IInv'
<1>1. /\ plan' = [plan EXCEPT ![a] = NoPlan]
      /\ UNCHANGED <<evidenceVars, pc, job, stop, faults, delivered, late>>
  BY DEF PruneRollback, senderVars
<1>2. TypeOK'
  BY <1>1, QuietStore DEF IInv, TypeOK
<1>3. PlanInv'
  BY <1>1 DEF IInv, TypeOK, PlanInv, Tip, evidenceVars
<1>4. FlightInv'
  BY <1>1 DEF IInv, FlightInv, InFlight, Holds, Known, evidenceVars
<1> QED BY <1>1, <1>2, <1>3, <1>4, QuietStore DEF IInv

\* The receipts a prune deletes are older than any request in flight; the rows it
\* deletes are older than any receipt it keeps.
LEMMA PruneCommitKeeps ==
  ASSUME IInv, NEW a \in Admins, PruneCommit(a)
  PROVE  IInv'
<1>1. PICK last \in Nat, before \in Int : plan[a].last = last /\ plan[a].before = before
  BY DEF PruneCommit, IInv, TypeOK, Plan
<1> DEFINE kept == {r \in journal : r.seq > last}
<1>2. /\ before <= now - 1 /\ last <= Tip /\ journal # {}
      /\ \A r \in journal : r.seq <= last => r.at < before
  BY <1>1 DEF PruneCommit, IInv, PlanInv
<1>3. /\ PruneTxn(last, before)
      /\ plan' = [plan EXCEPT ![a] = NoPlan]
      /\ UNCHANGED <<pc, job, stop, faults, late>>
  BY <1>1 DEF PruneCommit, senderVars
<1>4. delivered' = [i \in RequestIds |->
        IF \E r \in journal' : r.kind = "request" /\ r.id = i THEN delivered[i] ELSE <<>>]
  BY DEF PruneCommit
<1>5. /\ now \in Nat /\ Tip \in Nat /\ journal \in SUBSET Row
      /\ receipts \in [RequestIds -> Receipt \cup {NoReceipt}]
  BY LimitAssumption DEF IInv, TypeOK, EvidenceTypeOK, ChainInv
<1>6. /\ EvidenceTypeOK' /\ ChainInv' /\ JournalVerifies' /\ Tip' = Tip + 1 /\ now' = now
      /\ \E row \in journal' :
           /\ row.seq = Tip + 1 /\ row.kind = "retention"
           /\ journal' = kept \cup {row}
      /\ \A r \in journal : r.at >= before => r \in journal'
      /\ \A i \in RequestIds : Known(i)' =>
           Known(i) /\ receipts'[i] = receipts[i] /\ receipts[i].at >= before
      /\ \A i \in RequestIds : Known(i) /\ receipts[i].at >= before =>
           Known(i)' /\ receipts'[i] = receipts[i]
  <2>1. EvidenceTypeOK /\ ChainInv
    BY DEF IInv, TypeOK
  <2> QED BY <1>2, <1>3, <2>1, PruneKeepsEvidence, Zenon
<1>7. PICK row \in journal' : /\ row.seq = Tip + 1 /\ row.kind = "retention"
                             /\ journal' = kept \cup {row}
  BY <1>6
<1>8. TypeOK'
  <2>1. delivered' \in [RequestIds -> Seq(Fingerprints)]
    BY <1>4 DEF IInv, TypeOK
  <2> QED BY <1>3, <1>6, <2>1 DEF IInv, TypeOK
<1>9. PlanInv'
  <2>1. SUFFICES ASSUME NEW b \in Admins, b # a, plan[b] # NoPlan
                 PROVE  /\ plan[b].before <= now - 1
                        /\ plan[b].last <= Tip + 1
                        /\ journal' # {}
                        /\ \A q \in journal' : q.seq <= plan[b].last => q.at < plan[b].before
    BY <1>3, <1>6 DEF PlanInv, IInv, TypeOK
  <2>2. /\ plan[b].before <= now - 1 /\ plan[b].last <= Tip
        /\ \A q \in journal : q.seq <= plan[b].last => q.at < plan[b].before
    BY <2>1 DEF IInv, PlanInv
  <2>3. plan[b].last \in Nat
    BY <2>1 DEF IInv, TypeOK, Plan
  <2> QED BY <1>5, <1>7, <2>2, <2>3
<1>10. ReceiptInv'
  <2>1. SUFFICES ASSUME NEW i \in RequestIds, Known(i)'
                 PROVE  \E r \in journal' : /\ r.kind = "request" /\ r.id = i
                                            /\ r.at >= receipts'[i].at
    BY DEF ReceiptInv
  <2>2. Known(i) /\ receipts'[i] = receipts[i] /\ receipts[i].at >= before
    BY <1>6, <2>1
  <2>3. PICK r \in journal : r.kind = "request" /\ r.id = i /\ r.at >= receipts[i].at
    BY <2>2 DEF IInv, ReceiptInv
  <2>4. receipts[i].at \in Nat /\ r.at \in Nat
    BY <1>5, <2>2 DEF Known, Receipt, Row
  <2>5. r \in journal'
    BY <1>6, <2>2, <2>3, <2>4
  <2> QED BY <2>2, <2>3, <2>5
<1>11. \A i \in RequestIds : Known(i)' => delivered'[i] = delivered[i]
  BY <1>4, <1>10 DEF ReceiptInv
<1>12. FlightInv'
  <2>1. ASSUME NEW t \in Senders, InFlight(t)' PROVE Holds(t)'
    <3>1. InFlight(t) /\ Holds(t) /\ job[t] \in Job
      BY <1>3, <2>1 DEF InFlight, IInv, FlightInv
    <3>2. PICK i \in RequestIds : i = job[t].id
      BY <3>1 DEF Job
    <3>3. Known(i) /\ receipts[i].at >= now - 1 /\ receipts[i].at \in Nat
      BY <3>1, <3>2, <1>5 DEF Holds, Known, Receipt
    <3>4. receipts'[i] = receipts[i] /\ Known(i)'
      BY <3>3, <1>2, <1>5, <1>6
    <3>5. delivered'[i] = delivered[i]
      BY <3>4, <1>11
    <3> QED BY <3>1, <3>2, <3>4, <3>5, <1>3, <1>6 DEF Holds, Known
  <2> QED BY <2>1, <1>3 DEF IInv, FlightInv, InFlight
<1>13. DeliveredInv' /\ AtMostOneDelivery'
  <2>1. ASSUME NEW i \in RequestIds
        PROVE  (Fenced(i)' \/ delivered'[i] = <<>>) /\ Len(delivered'[i]) <= 1
    <3>1. CASE delivered'[i] = <<>>
      BY <3>1
    <3>2. CASE delivered'[i] # <<>>
      <4>1. Fenced(i)' /\ delivered'[i] = delivered[i]
        BY <3>2, <1>4 DEF Fenced
      <4> QED BY <4>1 DEF IInv, AtMostOneDelivery
    <3> QED BY <3>1, <3>2
  <2> QED BY <2>1 DEF DeliveredInv, AtMostOneDelivery
<1>14. ReceiptsTellTheTruth'
  BY <1>6, <1>11 DEF IInv, ReceiptsTellTheTruth
<1> QED BY <1>6, <1>8, <1>9, <1>10, <1>12, <1>13, <1>14 DEF IInv

----------------------------------------------------------------------------
(* The operator and the machine. *)

\* The operator's stop is no part of the store.
LEMMA StopKeeps ==
  ASSUME IInv, SetStop \/ ClearStop
  PROVE  IInv'
<1>1. /\ UNCHANGED <<evidenceVars, pc, job, plan, faults, delivered>>
      /\ stop' \in BOOLEAN /\ late' \subseteq Senders
  BY DEF SetStop, ClearStop, senderVars
<1>2. TypeOK'
  BY <1>1, QuietStore DEF IInv, TypeOK
<1>3. FlightInv'
  BY <1>1 DEF IInv, FlightInv, InFlight, Holds, Known, evidenceVars
<1> QED BY <1>1, <1>2, <1>3, QuietStore DEF IInv

\* A crash drops the claims of every sender, and nothing of the store.
LEMMA CrashKeeps ==
  ASSUME IInv, Crash
  PROVE  IInv'
<1>1. /\ UNCHANGED <<evidenceVars, plan, stop, delivered, late>> /\ faults' = faults + 1
      /\ pc' = [s \in Senders |-> "idle"] /\ job' = [s \in Senders |-> NoJob]
  BY DEF Crash
<1>2. TypeOK'
  BY <1>1, QuietStore DEF IInv, TypeOK, Stages
<1>3. FlightInv'
  BY <1>1 DEF FlightInv, InFlight
<1> QED BY <1>1, <1>2, <1>3, QuietStore DEF IInv

\* A day that passes makes no plan younger, and no request in flight older than a day.
LEMMA MidnightKeeps ==
  ASSUME IInv, Midnight
  PROVE  IInv'
<1>1. /\ now' = now + 1 /\ now < MaxDay
      /\ \A s \in Senders : InFlight(s) => job[s].began = now
      /\ UNCHANGED <<journal, anchor, receipts, pc, job, plan, stop, faults, delivered, late>>
  BY DEF Midnight, MayTurnDay, senderVars
<1>2. now \in Nat /\ MaxDay \in Nat
  BY LimitAssumption DEF IInv, TypeOK, EvidenceTypeOK
<1>3. TypeOK' /\ ChainInv' /\ JournalVerifies'
  BY <1>1, <1>2 DEF IInv, TypeOK, EvidenceTypeOK, ChainInv, JournalVerifies, Tip
<1>4. ReceiptInv' /\ DeliveredInv' /\ AtMostOneDelivery' /\ ReceiptsTellTheTruth'
  BY <1>1 DEF IInv, ReceiptInv, DeliveredInv, AtMostOneDelivery, ReceiptsTellTheTruth,
              Known, Fenced
<1>5. PlanInv'
  <2>1. SUFFICES ASSUME NEW a \in Admins, plan[a] # NoPlan PROVE plan[a].before <= now' - 1
    BY <1>1 DEF IInv, PlanInv, Tip
  <2>2. plan[a].before \in Int /\ plan[a].before <= now - 1
    BY <2>1 DEF IInv, TypeOK, Plan, PlanInv
  <2> QED BY <1>1, <1>2, <2>2
<1>6. FlightInv'
  BY <1>1, <1>2 DEF IInv, FlightInv, InFlight, Holds, Known
<1> QED BY <1>3, <1>4, <1>5, <1>6 DEF IInv

----------------------------------------------------------------------------
(* The invariant holds. *)

\* The empty store satisfies the invariant.
LEMMA InitEstablishes == Init => IInv
<1> SUFFICES ASSUME Init PROVE IInv
  OBVIOUS
<1>1. /\ journal = {} /\ anchor = 0 /\ now = 0
      /\ receipts = [id \in RequestIds |-> NoReceipt]
      /\ pc = [s \in Senders |-> "idle"] /\ job = [s \in Senders |-> NoJob]
      /\ plan = [a \in Admins |-> NoPlan] /\ stop = FALSE /\ faults = 0
      /\ delivered = [id \in RequestIds |-> <<>>] /\ late = {}
  BY DEF Init, EvidenceInit
<1>2. TypeOK
  <2>1. EvidenceTypeOK
    BY EmptyEvidence DEF Init
  <2>2. <<>> \in Seq(Fingerprints)
    OBVIOUS
  <2>3. delivered \in [RequestIds -> Seq(Fingerprints)]
    BY <1>1, <2>2
  <2>4. pc \in [Senders -> Stages] /\ job \in [Senders -> Job \cup {NoJob}]
    BY <1>1 DEF Stages
  <2>5. plan \in [Admins -> Plan \cup {NoPlan}]
    BY <1>1
  <2> QED BY <1>1, <2>1, <2>3, <2>4, <2>5 DEF TypeOK
<1>3. ChainInv /\ JournalVerifies
  BY EmptyEvidence DEF Init
<1>4. PlanInv /\ ReceiptInv /\ ReceiptsTellTheTruth
  BY <1>1 DEF PlanInv, ReceiptInv, ReceiptsTellTheTruth, Known
<1>5. FlightInv
  BY <1>1 DEF FlightInv, InFlight
<1>6. DeliveredInv /\ AtMostOneDelivery
  BY <1>1 DEF DeliveredInv, AtMostOneDelivery
<1> QED BY <1>2, <1>3, <1>4, <1>5, <1>6 DEF IInv

\* So does every step that changes nothing.
LEMMA StutterKeeps == IInv /\ UNCHANGED vars => IInv'
<1> SUFFICES ASSUME IInv, UNCHANGED vars PROVE IInv'
  OBVIOUS
<1>1. UNCHANGED <<evidenceVars, pc, job, plan, stop, faults, delivered, late>>
  BY DEF vars, evidenceVars
<1>2. TypeOK' /\ FlightInv'
  BY <1>1, QuietStore DEF IInv, TypeOK, FlightInv, InFlight, Holds, Known, evidenceVars
<1> QED BY <1>1, <1>2, QuietStore DEF IInv

\* Every step of the gateway, its operator, its administrators and the machine keeps
\* the invariant.
LEMMA NextKeeps == IInv /\ [Next]_vars => IInv'
<1> SUFFICES ASSUME IInv, [Next]_vars PROVE IInv'
  OBVIOUS
<1>0. stop \in BOOLEAN /\ faults \in Nat /\ late \subseteq Senders
  BY DEF IInv, TypeOK
<1>1. ASSUME NEW s \in Senders, NEW id \in RequestIds, NEW fp \in Fingerprints, Begin(s, id, fp)
      PROVE  IInv'
  BY <1>1, BeginKeeps
<1>2. ASSUME NEW s \in Senders, Send(s) \/ ConcludeFails(s)
      PROVE  IInv'
  <2>1. CASE ReserveAnswered(s) \/ ConcludeRefused(s)
    BY <1>0, <2>1, AnswerKeeps DEF ReserveAnswered, ConcludeRefused
  <2>2. CASE ConcludeFails(s)
    BY <1>0, <2>2, AnswerKeeps DEF ConcludeFails
  <2>3. CASE ReservePrevented(s)
    BY <2>3, ReservePreventedKeeps
  <2>4. CASE ReservePending(s)
    BY <2>4, ReservePendingKeeps
  <2>5. CASE Recheck(s)
    BY <2>5, RecheckKeeps
  <2>6. CASE Deliver(s)
    BY <2>6, DeliverKeeps
  <2>7. CASE DeliverNothing(s)
    BY <2>7, DeliverNothingKeeps
  <2>8. CASE Conclude(s)
    BY <2>8, ConcludeKeeps
  <2> QED BY <1>2, <2>1, <2>2, <2>3, <2>4, <2>5, <2>6, <2>7, <2>8 DEF Send
<1>3. CASE Check
  BY <1>3, CheckKeeps
<1>4. CASE SetStop \/ ClearStop
  BY <1>4, StopKeeps
<1>5. ASSUME NEW a \in Admins, NEW before \in 0..MaxDay, PruneRead(a, before)
      PROVE  IInv'
  BY <1>5, PruneReadKeeps
<1>6. ASSUME NEW a \in Admins, PruneCommit(a) \/ PruneRollback(a)
      PROVE  IInv'
  BY <1>6, PruneCommitKeeps, PruneRollbackKeeps
<1>7. CASE Crash
  BY <1>7, CrashKeeps
<1>8. CASE Midnight
  BY <1>8, MidnightKeeps
<1>9. CASE UNCHANGED vars
  BY <1>9, StutterKeeps
<1> QED BY <1>1, <1>2, <1>3, <1>4, <1>5, <1>6, <1>7, <1>8, <1>9 DEF Next

\* The strengthened invariant, from which the theorems below follow: the layers of
\* the store, of the requests in flight and of what the provider has, together.
THEOREM Invariance == Spec => []IInv
<1>1. Init => IInv
  BY InitEstablishes
<1>2. IInv /\ [Next]_vars => IInv'
  BY NextKeeps
<1> QED BY <1>1, <1>2, PTL DEF Spec

\* Every variable of the send path and of its store keeps its type: no step of send(),
\* finish(), prune() or a crash writes a value the next one could not read.
THEOREM TypeCorrect == Spec => []TypeOK
<1>1. IInv => TypeOK
  BY DEF IInv
<1> QED BY <1>1, Invariance, PTL

\* The journal of aisecure/gateway.py always verifies and never passes its limit, for
\* any number of senders and of overlapping prunes.
THEOREM JournalAlwaysVerifies == Spec => []JournalVerifies
<1>1. IInv => JournalVerifies
  BY DEF IInv
<1> QED BY <1>1, Invariance, PTL

\* send() gives the provider at most one body under an id the journal remembers.
THEOREM AtMostOnce == Spec => []AtMostOneDelivery
<1>1. IInv => AtMostOneDelivery
  BY DEF IInv
<1> QED BY <1>1, Invariance, PTL

\* What the store answers a retry of a request is what happened to it.
THEOREM ReceiptsAreTrue == Spec => []ReceiptsTellTheTruth
<1>1. IInv => ReceiptsTellTheTruth
  BY DEF IInv
<1> QED BY <1>1, Invariance, PTL

----------------------------------------------------------------------------
(* The emergency stop needs an invariant of its own, and no other. *)

\* A sender can be late only while the stop is in force.
StopInv ==
  /\ (late # {} => stop) /\ StopHolds
  /\ pc \in [Senders -> Stages] /\ late \subseteq Senders

\* No sender that was short of the second check of send() when the stop was set comes
\* to dispatch while the stop is in force.
THEOREM StopAlwaysHolds == Spec => []StopHolds
<1>1. Init => StopInv
  BY DEF Init, StopInv, StopHolds, Stages
<1>2. StopInv /\ [Next]_vars => StopInv'
  <2> SUFFICES ASSUME StopInv, [Next]_vars PROVE StopInv'
    OBVIOUS
  <2>1. ASSUME NEW s \in Senders, NEW stage \in Stages \ {"armed"}, NEW j,
               Become(s, stage, j), UNCHANGED <<stop, late>>
        PROVE  StopInv'
    BY <2>1 DEF StopInv, StopHolds, Become
  <2>2. ASSUME NEW s \in Senders, Recheck(s)
        PROVE  StopInv'
    <3>1. CASE stop
      BY <2>1, <2>2, <3>1 DEF Recheck, Stages
    <3>2. CASE ~stop
      BY <2>2, <3>2 DEF Recheck, Become, StopInv, StopHolds, Stages
    <3> QED BY <3>1, <3>2
  <2>3. ASSUME NEW s \in Senders,
               ReserveAnswered(s) \/ ReservePrevented(s) \/ Conclude(s)
                 \/ ConcludeRefused(s) \/ ConcludeFails(s)
        PROVE  StopInv'
    BY <2>1, <2>3 DEF ReserveAnswered, ReservePrevented, Conclude, ConcludeRefused,
                      ConcludeFails, Answer, Stages
  <2>4. ASSUME NEW s \in Senders, ReservePending(s) \/ Deliver(s) \/ DeliverNothing(s)
        PROVE  StopInv'
    BY <2>1, <2>4 DEF ReservePending, Deliver, DeliverNothing, Stages
  <2>5. ASSUME NEW s \in Senders, NEW id \in RequestIds, NEW fp \in Fingerprints,
               Begin(s, id, fp)
        PROVE  StopInv'
    BY <2>1, <2>5 DEF Begin, Stages
  <2>6. CASE SetStop \/ ClearStop
    BY <2>6 DEF SetStop, ClearStop, StopInv, StopHolds, senderVars
  <2>7. CASE Crash
    BY <2>7 DEF Crash, StopInv, StopHolds, Stages
  <2>8. ASSUME UNCHANGED <<pc, stop, late>>
        PROVE  StopInv'
    BY <2>8 DEF StopInv, StopHolds
  <2>9. CASE Check \/ Midnight \/ UNCHANGED vars
    BY <2>8, <2>9 DEF Check, Midnight, vars, senderVars
  <2>10. ASSUME NEW a \in Admins, NEW before \in 0..MaxDay,
                PruneRead(a, before)
         PROVE  StopInv'
    BY <2>8, <2>10 DEF PruneRead, senderVars
  <2>11. ASSUME NEW a \in Admins, PruneCommit(a) \/ PruneRollback(a)
         PROVE  StopInv'
    BY <2>8, <2>11 DEF PruneCommit, PruneRollback, senderVars
  <2> QED BY <2>2, <2>3, <2>4, <2>5, <2>6, <2>7, <2>9, <2>10, <2>11 DEF Next, Send
<1>3. StopInv => StopHolds
  BY DEF StopInv
<1> QED BY <1>1, <1>2, <1>3, PTL DEF Spec

----------------------------------------------------------------------------
(* What the steps write. *)

LEMMA RowsBelow ==
  ASSUME EvidenceTypeOK, ChainInv
  PROVE  Tip \in Nat /\ \A q \in journal : q.seq \in Nat /\ q.seq <= Tip
<1>1. \A q \in journal : q.seq \in (anchor + 1) .. Tip
  BY DEF ChainInv, Chained, SeqsOf, Tip
<1>2. Tip \in Nat /\ anchor \in Nat
  BY DEF ChainInv, EvidenceTypeOK
<1> QED BY <1>1, <1>2

\* A request row is the last of the table.
RowOf(r, id, state) ==
  /\ r.seq = Tip + 1 /\ r.kind = "request" /\ r.id = id /\ r.state = state
  /\ journal' = journal \cup {r}

LEMMA RowWritten ==
  ASSUME NEW id, NEW state, NEW day,
         journal' = WithRow(journal, anchor, day, "request", id, state)
  PROVE  \E r \in journal' : RowOf(r, id, state)
<1> DEFINE r == NewRow(journal, anchor, day, "request", id, state)
<1>1. r.seq = Tip + 1 /\ r.kind = "request" /\ r.id = id /\ r.state = state
  BY DEF NewRow, Tip
<1>2. journal' = journal \cup {r}
  BY DEF WithRow
<1> HIDE DEF r
<1> QED BY <1>1, <1>2 DEF RowOf

\* A reservation binds an id that nothing remembers.
LEMMA ReserveWrites ==
  ASSUME IInv, NEW s \in Senders, ReservePrevented(s) \/ ReservePending(s)
  PROVE  \E id \in RequestIds, fp \in Fingerprints,
            state \in {"dispatch_pending", "prevented_in_gateway"}, r \in journal' :
           /\ ~Known(id) /\ ~Fenced(id) /\ Room /\ CanAppend(journal, anchor)
           /\ state = "dispatch_pending" <=> fp \in Allowed
           /\ RowOf(r, id, state)
           /\ receipts' = [receipts EXCEPT ![id] = [state |-> state, fp |-> fp, at |-> now]]
           /\ UNCHANGED <<anchor, plan, delivered>>
<1>1. PICK id \in RequestIds, fp \in Fingerprints : id = job[s].id /\ fp = job[s].fp
  BY DEF ReservePrevented, ReservePending, IInv, FlightInv, Job
<1>2. PICK state \in {"dispatch_pending", "prevented_in_gateway"} :
        /\ \E day : ReserveTxn(id, fp, state, day)
        /\ state = "dispatch_pending" <=> fp \in Allowed
  <2>1. CASE ReservePrevented(s)
    <3>1. PICK day : ReserveTxn(job[s].id, job[s].fp, "prevented_in_gateway", day)
      BY <2>1, Zenon DEF ReservePrevented
    <3>2. fp \notin Allowed
      BY <1>1, <2>1 DEF ReservePrevented
    <3>3. ReserveTxn(id, fp, "prevented_in_gateway", day)
      BY <1>1, <3>1, Zenon
    <3> QED BY <3>2, <3>3
  <2>2. CASE ReservePending(s)
    <3>1. PICK day : ReserveTxn(job[s].id, job[s].fp, "dispatch_pending", day)
      BY <2>2, Zenon DEF ReservePending
    <3>2. fp \in Allowed
      BY <1>1, <2>2 DEF ReservePending
    <3>3. ReserveTxn(id, fp, "dispatch_pending", day)
      BY <1>1, <3>1, Zenon
    <3> QED BY <3>2, <3>3
  <2> QED BY <2>1, <2>2
<1>3. \E r \in journal' : RowOf(r, id, state)
  BY <1>2, RowWritten DEF ReserveTxn
<1>4. UNCHANGED <<plan, delivered>>
  BY DEF ReservePrevented, ReservePending
<1> QED BY <1>2, <1>3, <1>4 DEF ReserveTxn

\* A result is of a request whose reservation is still there.
LEMMA ConcludeWrites ==
  ASSUME IInv, NEW s \in Senders, Conclude(s)
  PROVE  \E id \in RequestIds, final \in FinalStates, r \in journal' :
           /\ Known(id) /\ receipts[id].state = "dispatch_pending"
           /\ final = "provider_completed" => delivered[id] # <<>>
           /\ RowOf(r, id, final)
           /\ receipts' = [receipts EXCEPT ![id].state = final]
           /\ UNCHANGED <<anchor, plan, delivered>>
<1>1. pc[s] = "concluding" /\ Holds(s) /\ job[s] \in Job /\ job[s].final \in FinalStates
  BY DEF Conclude, InFlight, IInv, FlightInv, Holds
<1>2. PICK id \in RequestIds, final \in FinalStates : id = job[s].id /\ final = job[s].final
  BY <1>1 DEF Job
<1>3. FinishTxn(id, final) /\ UNCHANGED <<plan, delivered>>
  BY <1>2 DEF Conclude
<1>4. \E r \in journal' : RowOf(r, id, final)
  BY <1>3, RowWritten DEF FinishTxn
<1>5. /\ Known(id) /\ receipts[id].state = "dispatch_pending"
      /\ final = "provider_completed" => delivered[id] # <<>>
  BY <1>1, <1>2 DEF Holds
<1> QED BY <1>3, <1>4, <1>5 DEF FinishTxn

\* A retention run removes a prefix of the rows and the receipts that rest on it.
LEMMA PruneWrites ==
  ASSUME IInv, NEW a \in Admins, PruneCommit(a)
  PROVE  /\ \E row : /\ row.seq = Tip + 1 /\ row.kind = "retention"
                     /\ journal' = {r \in journal : r.seq > plan[a].last} \cup {row}
         /\ \A i \in RequestIds : Known(i)' =>
              Known(i) /\ receipts'[i] = receipts[i] /\ receipts[i].at >= plan[a].before
         /\ \A r \in journal : r.at >= plan[a].before => r \in journal'
         /\ plan' = [plan EXCEPT ![a] = NoPlan]
         /\ receipts' \in [RequestIds -> Receipt \cup {NoReceipt}]
<1>1. PICK last \in Nat, before \in Int : plan[a].last = last /\ plan[a].before = before
  BY DEF PruneCommit, IInv, TypeOK, Plan
<1>2. /\ last <= Tip /\ journal # {} /\ \A r \in journal : r.seq <= last => r.at < before
  BY <1>1 DEF PruneCommit, IInv, PlanInv
<1>3. PruneTxn(last, before) /\ EvidenceTypeOK /\ ChainInv
  BY <1>1 DEF PruneCommit, IInv, TypeOK
<1>4. /\ EvidenceTypeOK'
      /\ \E row \in journal' :
           /\ row.seq = Tip + 1 /\ row.kind = "retention"
           /\ journal' = {r \in journal : r.seq > last} \cup {row}
      /\ \A r \in journal : r.at >= before => r \in journal'
      /\ \A i \in RequestIds : Known(i)' =>
           Known(i) /\ receipts'[i] = receipts[i] /\ receipts[i].at >= before
  BY <1>2, <1>3, PruneKeepsEvidence, Zenon
<1> QED BY <1>1, <1>4 DEF PruneCommit, EvidenceTypeOK

\* No other step writes to the tables, or to the provider.
LEMMA StoreMoves ==
  ASSUME [Next]_vars
  PROVE  \/ UNCHANGED <<journal, anchor, receipts, delivered>>
         \/ \E s \in Senders : ReservePrevented(s) \/ ReservePending(s)
         \/ \E s \in Senders : Deliver(s) \/ Conclude(s)
         \/ Check
         \/ \E a \in Admins : PruneCommit(a)
<1> DEFINE Quiet == UNCHANGED <<journal, anchor, receipts, delivered>>
<1>1. ASSUME NEW s \in Senders, Send(s) \/ ConcludeFails(s),
             ~(ReservePrevented(s) \/ ReservePending(s) \/ Deliver(s) \/ Conclude(s))
      PROVE  Quiet
  BY <1>1 DEF Send, ReserveAnswered, Recheck, DeliverNothing, ConcludeRefused,
              ConcludeFails, evidenceVars
<1>2. ASSUME NEW s \in Senders, NEW id \in RequestIds, NEW fp \in Fingerprints,
             Begin(s, id, fp)
      PROVE  Quiet
  BY <1>2 DEF Begin, evidenceVars
<1>3. ASSUME SetStop \/ ClearStop \/ Crash \/ Midnight \/ UNCHANGED vars
      PROVE  Quiet
  BY <1>3 DEF SetStop, ClearStop, Crash, Midnight, vars, evidenceVars
<1>4. ASSUME NEW a \in Admins,
             (\E before \in 0..MaxDay : PruneRead(a, before)) \/ PruneRollback(a)
      PROVE  Quiet
  BY <1>4 DEF PruneRead, PruneRollback, evidenceVars
<1> HIDE DEF Quiet
<1>5. \/ Quiet
      \/ \E s \in Senders : ReservePrevented(s) \/ ReservePending(s)
      \/ \E s \in Senders : Deliver(s) \/ Conclude(s)
      \/ Check
      \/ \E a \in Admins : PruneCommit(a)
  BY <1>1, <1>2, <1>3, <1>4 DEF Next
<1> QED BY <1>5 DEF Quiet

----------------------------------------------------------------------------
(* The two tables agree. *)

\* The row a receipt rests on, by its state, is the last one of its id.
LastRow(r, id) ==
  /\ r \in journal /\ r.kind = "request" /\ r.id = id
  /\ \A q \in journal : q.kind = "request" /\ q.id = id => q.seq <= r.seq

LEMMA Agreement ==
  ReceiptMatchesJournal <=>
    \A id \in RequestIds :
      Known(id) => \E r : LastRow(r, id) /\ r.state = receipts[id].state
BY DEF ReceiptMatchesJournal, LastRow

LEMMA NewRowIsLast ==
  ASSUME IInv, NEW id \in RequestIds, NEW state, NEW r, RowOf(r, id, state)
  PROVE  /\ LastRow(r, id)'
         /\ \A i \in RequestIds \ {id} : \A q : LastRow(q, i) => LastRow(q, i)'
<1>1. Tip \in Nat /\ \A q \in journal : q.seq \in Nat /\ q.seq <= Tip
  BY RowsBelow DEF IInv, TypeOK
<1> QED BY <1>1 DEF RowOf, LastRow

LEMMA AgreementKeeps ==
  IInv /\ ReceiptMatchesJournal /\ [Next]_vars => ReceiptMatchesJournal'
<1> SUFFICES ASSUME IInv, ReceiptMatchesJournal, [Next]_vars,
                    NEW i \in RequestIds, Known(i)'
             PROVE  \E r : LastRow(r, i)' /\ r.state = receipts'[i].state
  BY Agreement DEF ReceiptMatchesJournal, LastRow
<1>0. ASSUME Known(i) PROVE \E r : LastRow(r, i) /\ r.state = receipts[i].state
  BY <1>0, Agreement
<1>1. CASE UNCHANGED <<journal, anchor, receipts, delivered>>
  BY <1>0, <1>1 DEF Known, LastRow
<1>2. ASSUME NEW s \in Senders, ReservePrevented(s) \/ ReservePending(s)
      PROVE  \E r : LastRow(r, i)' /\ r.state = receipts'[i].state
  <2>1. PICK id \in RequestIds, fp \in Fingerprints,
             state \in {"dispatch_pending", "prevented_in_gateway"}, r \in journal' :
           /\ RowOf(r, id, state)
           /\ receipts' = [receipts EXCEPT ![id] = [state |-> state, fp |-> fp, at |-> now]]
    BY <1>2, ReserveWrites
  <2>2. /\ receipts'[id].state = state
        /\ i # id => receipts'[i] = receipts[i]
    BY <2>1 DEF IInv, TypeOK, EvidenceTypeOK
  <2>3. r.state = state
    BY <2>1 DEF RowOf
  <2> QED BY <1>0, <2>1, <2>2, <2>3, NewRowIsLast DEF Known
<1>3. ASSUME NEW s \in Senders, Conclude(s)
      PROVE  \E r : LastRow(r, i)' /\ r.state = receipts'[i].state
  <2>1. PICK id \in RequestIds, final \in FinalStates, r \in journal' :
           /\ RowOf(r, id, final) /\ Known(id)
           /\ receipts' = [receipts EXCEPT ![id].state = final]
    BY <1>3, ConcludeWrites
  <2>2. /\ receipts'[id].state = final
        /\ i # id => receipts'[i] = receipts[i]
    BY <2>1 DEF IInv, TypeOK, EvidenceTypeOK, Known, Receipt
  <2>3. r.state = final
    BY <2>1 DEF RowOf
  <2> QED BY <1>0, <2>1, <2>2, <2>3, NewRowIsLast DEF Known
<1>4. ASSUME NEW s \in Senders, Deliver(s)
      PROVE  \E r : LastRow(r, i)' /\ r.state = receipts'[i].state
  BY <1>0, <1>4 DEF Deliver, evidenceVars, Known, LastRow
<1>5. CASE Check
  <2>1. /\ journal' = WithRow(journal, anchor, now, "inspection", NoId, "none")
        /\ receipts' = receipts
    BY <1>5 DEF Check, AppendTxn
  <2>2. NewRow(journal, anchor, now, "inspection", NoId, "none").kind = "inspection"
    BY DEF NewRow
  <2> QED BY <1>0, <2>1, <2>2 DEF WithRow, Known, LastRow
<1>6. ASSUME NEW a \in Admins, PruneCommit(a)
      PROVE  \E r : LastRow(r, i)' /\ r.state = receipts'[i].state
  <2>1. PICK row : /\ row.kind = "retention"
                   /\ journal' = {r \in journal : r.seq > plan[a].last} \cup {row}
    BY <1>6, PruneWrites
  <2>2. /\ Known(i) /\ receipts'[i] = receipts[i] /\ receipts[i].at >= plan[a].before
        /\ \A r \in journal : r.at >= plan[a].before => r \in journal'
    BY <1>6, PruneWrites
  <2>3. PICK r : LastRow(r, i) /\ r.state = receipts[i].state
    BY <1>0, <2>2
  <2>4. PICK q \in journal : q.kind = "request" /\ q.id = i /\ q.at >= receipts[i].at
    BY <2>2 DEF IInv, ReceiptInv
  <2>5. /\ q.at \in Nat /\ receipts[i].at \in Nat /\ plan[a].before \in Int
        /\ plan[a].last \in Nat /\ q.seq \in Nat /\ r.seq \in Nat
    BY <1>6, <2>2, <2>3 DEF IInv, TypeOK, EvidenceTypeOK, Row, Known, Receipt, Plan,
                            PruneCommit, LastRow
  <2>6. q.seq <= r.seq /\ q \in journal'
    BY <2>2, <2>3, <2>4, <2>5 DEF LastRow
  <2>7. q.seq > plan[a].last
    BY <2>1, <2>4, <2>6
  <2>8. r \in journal'
    BY <2>1, <2>3, <2>5, <2>6, <2>7 DEF LastRow
  <2>9. LastRow(r, i)'
    BY <2>1, <2>3, <2>8 DEF LastRow
  <2> QED BY <2>2, <2>3, <2>9
<1> QED BY <1>1, <1>2, <1>3, <1>4, <1>5, <1>6, StoreMoves

\* A receipt never outlives the rows that fence its id, and says what the last of them
\* says, although receipts go by the time of their reservation and rows by their own.
THEOREM TablesAgree == Spec => []ReceiptMatchesJournal
<1>1. Init => ReceiptMatchesJournal
  BY DEF Init, EvidenceInit, ReceiptMatchesJournal, Known
<1> QED BY <1>1, AgreementKeeps, Invariance, PTL DEF Spec

----------------------------------------------------------------------------
(* The contract. *)

ShownStatus == [id \in RequestIds |-> StatusOf(id)]
ShownBound == [id \in RequestIds |-> IF Known(id) THEN <<receipts[id].fp>> ELSE <<>>]

LEMMA ContractStarts == Init => Contract!Init
<1> SUFFICES ASSUME Init PROVE Contract!Init
  OBVIOUS
<1>1. \A id \in RequestIds : ~Known(id) /\ ~Fenced(id)
  BY DEF Init, EvidenceInit, Known, Fenced
<1>2. \A id \in RequestIds : StatusOf(id) = "fresh"
  BY <1>1 DEF StatusOf
<1> QED BY <1>1, <1>2 DEF Contract!Init, Init

\* A step that leaves the receipts and the request rows alone shows nothing.
LEMMA NothingShown ==
  ASSUME receipts' = receipts, \A id \in RequestIds : Fenced(id)' = Fenced(id),
         delivered' = delivered
  PROVE  UNCHANGED Contract!contractVars
<1>1. \A id \in RequestIds : Known(id)' = Known(id)
  BY DEF Known
<1>2. \A id \in RequestIds : StatusOf(id)' = StatusOf(id)
  BY <1>1 DEF StatusOf
<1> QED BY <1>1, <1>2 DEF Contract!contractVars

\* Nor does it of an id whose receipt and whose fence are as they were.
LEMMA SameShown ==
  ASSUME NEW i \in RequestIds, receipts'[i] = receipts[i], Fenced(i)' <=> Fenced(i)
  PROVE  /\ StatusOf(i)' = StatusOf(i)
         /\ (IF Known(i) THEN <<receipts[i].fp>> ELSE <<>>)'
              = IF Known(i) THEN <<receipts[i].fp>> ELSE <<>>
<1>1. CASE Known(i)
  <2>1. Known(i)'
    BY <1>1 DEF Known
  <2> QED BY <1>1, <2>1 DEF StatusOf
<1>2. CASE ~Known(i)
  <2>1. ~Known(i)'
    BY <1>2 DEF Known
  <2>2. CASE Fenced(i)
    BY <1>2, <2>1, <2>2 DEF StatusOf
  <2>3. CASE ~Fenced(i)
    BY <1>2, <2>1, <2>3 DEF StatusOf
  <2> QED BY <1>2, <2>1, <2>2, <2>3
<1> QED BY <1>1, <1>2

\* Each transaction is one step of the contract; a retention run is one for all ids.
LEMMA StepsAreContract ==
  IInv /\ IInv' /\ [Next]_vars => [Contract!Next]_(Contract!contractVars)
<1> SUFFICES ASSUME IInv, IInv', [Next]_vars
             PROVE  Contract!Next \/ UNCHANGED Contract!contractVars
  OBVIOUS
<1>1. CASE UNCHANGED <<journal, anchor, receipts, delivered>>
  BY <1>1, NothingShown DEF Fenced
<1>2. CASE Check
  <2>1. /\ journal' = WithRow(journal, anchor, now, "inspection", NoId, "none")
        /\ receipts' = receipts /\ delivered' = delivered
    BY <1>2 DEF Check, AppendTxn
  <2>2. NewRow(journal, anchor, now, "inspection", NoId, "none").kind = "inspection"
    BY DEF NewRow
  <2>3. \A id \in RequestIds : Fenced(id)' <=> Fenced(id)
    BY <2>1, <2>2 DEF WithRow, Fenced
  <2> QED BY <2>1, <2>3, NothingShown DEF Fenced
<1>3. ASSUME NEW s \in Senders, ReservePrevented(s) \/ ReservePending(s)
      PROVE  \E id \in RequestIds, fp \in Fingerprints : Contract!Bind(id, fp)
  <2>1. PICK id \in RequestIds, fp \in Fingerprints,
             state \in {"dispatch_pending", "prevented_in_gateway"}, r \in journal' :
           /\ ~Known(id) /\ ~Fenced(id)
           /\ state = "dispatch_pending" <=> fp \in Allowed
           /\ RowOf(r, id, state)
           /\ receipts' = [receipts EXCEPT ![id] = [state |-> state, fp |-> fp, at |-> now]]
           /\ delivered' = delivered
    BY <1>3, ReserveWrites
  <2>2. /\ receipts'[id].state = state /\ receipts'[id].fp = fp
        /\ \A i \in RequestIds : i # id => receipts'[i] = receipts[i]
    BY <2>1 DEF IInv, TypeOK, EvidenceTypeOK
  <2>3. Known(id)'
    <3>1. NoReceipt.state = "none"
      BY DEF NoReceipt
    <3> QED BY <2>2, <3>1 DEF Known
  <2>4. ASSUME NEW i \in RequestIds, i # id
        PROVE  StatusOf(i)' = StatusOf(i) /\ ShownBound'[i] = ShownBound[i]
    <3>1. receipts'[i] = receipts[i] /\ (Fenced(i)' <=> Fenced(i))
      BY <2>1, <2>2, <2>4 DEF Fenced, RowOf
    <3> QED BY <3>1, SameShown DEF ShownBound
  <2>5. StatusOf(id) = "fresh"
    BY <2>1 DEF StatusOf
  <2>6. StatusOf(id)' = IF fp \in Allowed THEN "intended" ELSE "prevented"
    BY <2>1, <2>2, <2>3 DEF StatusOf
  <2>7. ShownStatus' = [ShownStatus EXCEPT ![id] = IF fp \in Allowed THEN "intended"
                                                    ELSE "prevented"]
    BY <2>4, <2>6 DEF ShownStatus
  <2>8. ShownBound' = [ShownBound EXCEPT ![id] = <<fp>>]
    <3>1. ShownBound'[id] = <<fp>>
      BY <2>2, <2>3 DEF ShownBound
    <3> QED BY <2>4, <3>1 DEF ShownBound
  <2>9. ShownStatus[id] = "fresh"
    BY <2>5 DEF ShownStatus
  <2> QED BY <2>1, <2>7, <2>8, <2>9 DEF Contract!Bind, ShownStatus, ShownBound
<1>4. ASSUME NEW s \in Senders, Conclude(s)
      PROVE  \E id \in RequestIds : Contract!Finish(id)
  <2>1. PICK id \in RequestIds, final \in FinalStates, r \in journal' :
           /\ Known(id) /\ receipts[id].state = "dispatch_pending"
           /\ final = "provider_completed" => delivered[id] # <<>>
           /\ RowOf(r, id, final)
           /\ receipts' = [receipts EXCEPT ![id].state = final]
           /\ delivered' = delivered
    BY <1>4, ConcludeWrites
  <2>2. /\ receipts'[id].state = final /\ receipts'[id].fp = receipts[id].fp
        /\ \A i \in RequestIds : i # id => receipts'[i] = receipts[i]
    BY <2>1 DEF IInv, TypeOK, EvidenceTypeOK, Known, Receipt
  <2>3. Known(id)'
    <3>1. NoReceipt.state = "none" /\ final # "none"
      BY DEF NoReceipt, FinalStates
    <3> QED BY <2>2, <3>1 DEF Known
  <2>4. ASSUME NEW i \in RequestIds, i # id
        PROVE  StatusOf(i)' = StatusOf(i) /\ ShownBound'[i] = ShownBound[i]
    <3>1. receipts'[i] = receipts[i] /\ (Fenced(i)' <=> Fenced(i))
      BY <2>1, <2>2, <2>4 DEF Fenced, RowOf
    <3> QED BY <3>1, SameShown DEF ShownBound
  <2> DEFINE after == IF final = "provider_completed" THEN "completed" ELSE "unknown"
  <2>5. StatusOf(id) = "intended"
    BY <2>1 DEF StatusOf
  <2>6. StatusOf(id)' = after
    BY <2>2, <2>3 DEF StatusOf, FinalStates
  <2>7. ShownStatus' = [ShownStatus EXCEPT ![id] = after]
    BY <2>4, <2>6 DEF ShownStatus
  <2>8. ShownBound' = ShownBound
    <3>1. ShownBound'[id] = ShownBound[id]
      BY <2>1, <2>2, <2>3 DEF ShownBound
    <3> QED BY <2>4, <3>1 DEF ShownBound
  <2>9. ShownStatus[id] = "intended"
    BY <2>5 DEF ShownStatus
  <2>10. after \in {"unknown"} \cup (IF delivered[id] = <<>> THEN {} ELSE {"completed"})
    BY <2>1
  <2> HIDE DEF after
  <2> QED BY <2>1, <2>7, <2>8, <2>9, <2>10 DEF Contract!Finish, ShownStatus, ShownBound
<1>5. ASSUME NEW s \in Senders, Deliver(s)
      PROVE  \E id \in RequestIds : Contract!Dispatch(id)
  <2>1. pc[s] = "armed" /\ Holds(s) /\ job[s] \in Job
    BY <1>5 DEF Deliver, InFlight, IInv, FlightInv
  <2>2. PICK id \in RequestIds, fp \in Fingerprints : id = job[s].id /\ fp = job[s].fp
    BY <2>1 DEF Job
  <2>3. /\ Known(id) /\ receipts[id].state = "dispatch_pending" /\ receipts[id].fp = fp
        /\ delivered[id] = <<>>
    BY <2>1, <2>2 DEF Holds
  <2>4. /\ delivered' = [delivered EXCEPT ![id] = Append(@, fp)]
        /\ receipts' = receipts /\ journal' = journal
    BY <1>5, <2>2 DEF Deliver, evidenceVars
  <2>5. Append(delivered[id], fp) = <<fp>>
    BY <2>3
  <2>6. ShownStatus[id] = "intended" /\ ShownBound[id] = <<fp>>
    BY <2>3 DEF ShownStatus, ShownBound, StatusOf
  <2>7. ShownStatus' = ShownStatus /\ ShownBound' = ShownBound
    BY <2>4 DEF ShownStatus, ShownBound, StatusOf, Known, Fenced
  <2>8. delivered' = [delivered EXCEPT ![id] = ShownBound[id]]
    BY <2>4, <2>5, <2>6
  <2> QED BY <2>3, <2>6, <2>7, <2>8 DEF Contract!Dispatch, ShownStatus, ShownBound
<1>6. ASSUME NEW a \in Admins, PruneCommit(a)
      PROVE  \E gone, fenced \in SUBSET RequestIds : Contract!Retire(gone, fenced)
  <2> DEFINE gone == {i \in RequestIds : ~Fenced(i)'}
             fenced == {i \in RequestIds : Fenced(i)' /\ ~Known(i)'}
  <2>1. /\ \A i \in RequestIds : Known(i)' => Known(i) /\ receipts'[i] = receipts[i]
        /\ \A i \in RequestIds : Known(i)' => Fenced(i)'
    BY <1>6, PruneWrites DEF IInv, ReceiptInv, Fenced
  <2>2. delivered' = [i \in RequestIds |-> IF i \in gone THEN <<>> ELSE delivered[i]]
    BY <1>6 DEF PruneCommit, Fenced
  <2>3. ASSUME NEW i \in RequestIds
        PROVE  /\ i \in gone => StatusOf(i)' = "fresh" /\ ~Known(i)'
               /\ i \in fenced => StatusOf(i)' = "fenced" /\ ~Known(i)'
               /\ i \notin gone \cup fenced => /\ StatusOf(i)' = StatusOf(i) /\ Known(i)'
                                              /\ Known(i) /\ receipts'[i] = receipts[i]
    BY <2>1 DEF StatusOf
  <2>4. gone \cap fenced = {} /\ gone \in SUBSET RequestIds /\ fenced \in SUBSET RequestIds
    OBVIOUS
  <2> HIDE DEF gone, fenced
  <2>5. ShownStatus' = [i \in RequestIds |-> IF i \in gone THEN "fresh"
                          ELSE IF i \in fenced THEN "fenced" ELSE ShownStatus[i]]
    BY <2>3 DEF ShownStatus
  <2>6. ShownBound' = [i \in RequestIds |-> IF i \in gone \cup fenced THEN <<>>
                                           ELSE ShownBound[i]]
    BY <2>3 DEF ShownBound
  <2> QED BY <2>2, <2>4, <2>5, <2>6 DEF Contract!Retire, ShownStatus, ShownBound
<1> QED BY <1>1, <1>2, <1>3, <1>4, <1>5, <1>6, StoreMoves DEF Contract!Next

\* Whatever threads, crashes, retries and overlapping prunes do, an id is bound once,
\* dispatched once at most, concluded for good, and fresh again only without a trace.
THEOREM KeepsContract == Spec => ImplementsContract
<1>1. IInv /\ IInv' /\ [Next]_vars => [Contract!Next]_(Contract!contractVars)
  BY StepsAreContract
<1> QED BY <1>1, ContractStarts, Invariance, PTL DEF Spec, ImplementsContract, Contract!Spec

----------------------------------------------------------------------------
(* Room for the results. *)

\* Every reservation has its row kept free, and a prune under way will free one.
RoomInv ==
  /\ IsFiniteSet(PendingIds)
  /\ Cardinality(journal) + Cardinality(PendingIds) <= Limit
  /\ \A a \in Admins : plan[a] # NoPlan => \E r \in journal : r.seq <= plan[a].last

\* One row more takes one place.
LEMMA RowTakesOne ==
  ASSUME IInv, NEW r, journal' = journal \cup {r}, r.seq = Tip + 1
  PROVE  Cardinality(journal') = Cardinality(journal) + 1
<1>1. r \notin journal
  BY RowsBelow DEF IInv, TypeOK
<1> QED BY <1>1, FS_AddElement DEF IInv, ChainInv

\* What a prune will remove is still there when rows are added.
LEMMA PlansFindRows ==
  ASSUME RoomInv, plan' = plan, journal \subseteq journal'
  PROVE  \A a \in Admins : plan'[a] # NoPlan => \E r \in journal' : r.seq <= plan'[a].last
BY DEF RoomInv

\* A retention run of the only administrator removes a row at least, and adds one.
LEMMA PruneFrees ==
  ASSUME IInv, RoomInv, NEW a \in Admins, PruneCommit(a)
  PROVE  /\ Cardinality(journal') <= Cardinality(journal)
         /\ PendingIds' \subseteq PendingIds
<1> DEFINE kept == {r \in journal : r.seq > plan[a].last}
<1>1. PICK row : row.seq = Tip + 1 /\ journal' = kept \cup {row}
  BY PruneWrites
<1>2. PICK old \in journal : old.seq <= plan[a].last
  BY DEF RoomInv, PruneCommit
<1>3. old.seq \in Nat /\ plan[a].last \in Nat /\ IsFiniteSet(journal)
  BY <1>2 DEF IInv, TypeOK, EvidenceTypeOK, Row, Plan, PruneCommit, ChainInv
<1>4. kept \subseteq journal \ {old}
  BY <1>2, <1>3
<1>5. /\ IsFiniteSet(journal \ {old})
      /\ Cardinality(journal \ {old}) = Cardinality(journal) - 1
  BY <1>2, <1>3, FS_RemoveElement
<1> HIDE DEF kept
<1>6. /\ IsFiniteSet(kept) /\ Cardinality(kept) <= Cardinality(journal) - 1
      /\ Cardinality(kept) \in Nat /\ Cardinality(journal) \in Nat
  BY <1>3, <1>4, <1>5, FS_Subset, FS_CardinalityType
<1>7. Cardinality(journal') \in {Cardinality(kept), Cardinality(kept) + 1}
  BY <1>1, <1>6, FS_AddElement
<1>8. PendingIds' \subseteq PendingIds
  <2> SUFFICES ASSUME NEW i \in RequestIds, receipts'[i].state = "dispatch_pending"
               PROVE  receipts[i].state = "dispatch_pending"
    BY DEF PendingIds
  <2>1. Known(i)'
    BY DEF Known, NoReceipt
  <2> QED BY <2>1, PruneWrites
<1> QED BY <1>6, <1>7, <1>8

LEMMA RoomKeeps ==
  ASSUME ~Inspecting, \A a, b \in Admins : a = b, IInv, RoomInv, [Next]_vars
  PROVE  RoomInv'
<1>0. /\ IsFiniteSet(PendingIds) /\ Cardinality(PendingIds) \in Nat
      /\ Cardinality(journal) \in Nat /\ Limit \in Nat
  BY FS_CardinalityType, LimitAssumption DEF RoomInv, IInv, ChainInv
<1>1. ASSUME UNCHANGED <<journal, receipts, plan>> PROVE RoomInv'
  BY <1>1 DEF RoomInv, PendingIds
<1>2. ASSUME NEW s \in Senders, ReservePrevented(s) \/ ReservePending(s) PROVE RoomInv'
  <2>1. PICK id \in RequestIds, fp \in Fingerprints,
             state \in {"dispatch_pending", "prevented_in_gateway"}, r \in journal' :
           /\ Room /\ RowOf(r, id, state) /\ plan' = plan
           /\ receipts' = [receipts EXCEPT ![id] = [state |-> state, fp |-> fp, at |-> now]]
    BY <1>2, ReserveWrites
  <2>2. PendingIds' \subseteq PendingIds \cup {id}
    BY <2>1 DEF PendingIds, IInv, TypeOK, EvidenceTypeOK
  <2>3. /\ IsFiniteSet(PendingIds \cup {id})
        /\ Cardinality(PendingIds \cup {id})
             \in {Cardinality(PendingIds), Cardinality(PendingIds) + 1}
    BY <1>0, FS_AddElement, Zenon
  <2>4. /\ IsFiniteSet(PendingIds') /\ Cardinality(PendingIds') \in Nat
        /\ Cardinality(PendingIds') <= Cardinality(PendingIds) + 1
    BY <1>0, <2>2, <2>3, FS_Subset, FS_CardinalityType
  <2>5. Cardinality(journal') = Cardinality(journal) + 1
    BY <2>1, RowTakesOne DEF RowOf
  <2>6. Cardinality(journal') + Cardinality(PendingIds') <= Limit
    BY <1>0, <2>1, <2>4, <2>5 DEF Room
  <2> QED BY <2>1, <2>4, <2>6, PlansFindRows DEF RoomInv, RowOf
<1>3. ASSUME NEW s \in Senders, Conclude(s) PROVE RoomInv'
  <2>1. PICK id \in RequestIds, final \in FinalStates, r \in journal' :
           /\ Known(id) /\ receipts[id].state = "dispatch_pending"
           /\ RowOf(r, id, final) /\ plan' = plan
           /\ receipts' = [receipts EXCEPT ![id].state = final]
    BY <1>3, ConcludeWrites
  <2>2. id \in PendingIds /\ PendingIds' = PendingIds \ {id}
    <3>1. /\ receipts'[id].state = final
          /\ \A i \in RequestIds : i # id => receipts'[i] = receipts[i]
      BY <2>1 DEF IInv, TypeOK, EvidenceTypeOK, Known, Receipt
    <3>2. final # "dispatch_pending"
      BY DEF FinalStates
    <3> QED BY <2>1, <3>1, <3>2 DEF PendingIds
  <2>3. /\ IsFiniteSet(PendingIds')
        /\ Cardinality(PendingIds') = Cardinality(PendingIds) - 1
    BY <1>0, <2>2, FS_RemoveElement
  <2>4. Cardinality(journal') = Cardinality(journal) + 1
    BY <2>1, RowTakesOne DEF RowOf
  <2>5. Cardinality(journal') + Cardinality(PendingIds') <= Limit
    BY <1>0, <2>3, <2>4 DEF RoomInv
  <2> QED BY <2>1, <2>3, <2>5, PlansFindRows DEF RoomInv, RowOf
<1>4. ASSUME NEW a \in Admins, PruneCommit(a) PROVE RoomInv'
  <2>1. /\ Cardinality(journal') <= Cardinality(journal) /\ PendingIds' \subseteq PendingIds
    BY <1>4, PruneFrees
  <2>2. /\ IsFiniteSet(PendingIds') /\ Cardinality(PendingIds') \in Nat
        /\ Cardinality(PendingIds') <= Cardinality(PendingIds)
    BY <1>0, <2>1, FS_Subset, FS_CardinalityType
  <2>3. Cardinality(journal') \in Nat
    <3>1. IsFiniteSet(journal')
      <4>1. PICK row : journal' = {r \in journal : r.seq > plan[a].last} \cup {row}
        BY <1>4, PruneWrites
      <4> QED BY <4>1, FS_Subset, FS_AddElement DEF IInv, ChainInv
    <3> QED BY <3>1, FS_CardinalityType
  <2>4. Cardinality(journal') + Cardinality(PendingIds') <= Limit
    BY <1>0, <2>1, <2>2, <2>3 DEF RoomInv
  <2>5. \A b \in Admins : plan'[b] = NoPlan
    <3>1. plan' = [plan EXCEPT ![a] = NoPlan] /\ plan \in [Admins -> Plan \cup {NoPlan}]
      BY <1>4 DEF PruneCommit, IInv, TypeOK
    <3> QED BY <3>1
  <2> QED BY <2>2, <2>4, <2>5 DEF RoomInv
<1>5. ASSUME NEW a \in Admins, NEW before \in 0..MaxDay, PruneRead(a, before) PROVE RoomInv'
  <2> DEFINE rows == Prefix(journal, before)
             last == LastSeq(rows, anchor)
  <2>1. /\ rows # {} /\ UNCHANGED <<journal, receipts>>
        /\ plan' = [plan EXCEPT ![a] = [last |-> last, before |-> before]]
    BY <1>5 DEF PruneRead, evidenceVars
  <2>2. /\ rows \in SUBSET Row /\ rows \subseteq journal /\ Tip \in Nat
        /\ \A q \in journal : q.seq <= Tip
    BY RowsBelow DEF IInv, TypeOK, EvidenceTypeOK, Prefix
  <2>3. \A r \in rows : r.seq <= last
    <3> HIDE DEF rows
    <3> QED BY <2>1, <2>2, LastSeqOfRows
  <2>4. \E r \in journal : r.seq <= last
    BY <2>1, <2>2, <2>3
  <2> HIDE DEF last, rows
  <2>5. \A b \in Admins : plan'[b].last = last
    BY <2>1 DEF IInv, TypeOK
  <2>6. PendingIds' = PendingIds
    BY <2>1 DEF PendingIds
  <2> QED BY <2>1, <2>4, <2>5, <2>6 DEF RoomInv
<1>6. ASSUME NEW a \in Admins, PruneRollback(a) PROVE RoomInv'
  <2>1. /\ UNCHANGED <<journal, receipts>> /\ plan' = [plan EXCEPT ![a] = NoPlan]
    BY <1>6 DEF PruneRollback, evidenceVars
  <2>2. \A b \in Admins : plan'[b] = NoPlan
    BY <2>1 DEF IInv, TypeOK
  <2> QED BY <2>1, <2>2 DEF RoomInv, PendingIds
<1>7. ~Check
  BY DEF Check
<1>8. ASSUME NEW s \in Senders, Send(s) \/ ConcludeFails(s),
             ~(ReservePrevented(s) \/ ReservePending(s) \/ Conclude(s))
      PROVE  UNCHANGED <<journal, receipts, plan>>
  BY <1>8 DEF Send, ReserveAnswered, Recheck, Deliver, DeliverNothing, ConcludeRefused,
              ConcludeFails, evidenceVars
<1>9. ASSUME NEW s \in Senders, NEW id \in RequestIds, NEW fp \in Fingerprints,
             Begin(s, id, fp)
      PROVE  UNCHANGED <<journal, receipts, plan>>
  BY <1>9 DEF Begin, evidenceVars
<1>10. ASSUME SetStop \/ ClearStop \/ Crash \/ Midnight \/ UNCHANGED vars
       PROVE  UNCHANGED <<journal, receipts, plan>>
  BY <1>10 DEF SetStop, ClearStop, Crash, Midnight, vars, evidenceVars
<1> QED BY <1>1, <1>2, <1>3, <1>4, <1>5, <1>6, <1>7, <1>8, <1>9, <1>10 DEF Next

LEMMA RoomAtFirst == Init => RoomInv
<1> SUFFICES ASSUME Init PROVE RoomInv
  OBVIOUS
<1>1. PendingIds = {} /\ journal = {} /\ \A a \in Admins : plan[a] = NoPlan
  BY DEF Init, EvidenceInit, PendingIds, NoReceipt
<1> QED BY <1>1, FS_EmptySet, LimitAssumption DEF RoomInv

\* A result is of a pending request, and so there is a place for it.
LEMMA ResultFits ==
  ASSUME IInv, RoomInv
  PROVE  ResultNeverRefused
<1> SUFFICES ASSUME NEW s \in Senders, pc[s] = "concluding"
             PROVE  CanAppend(journal, anchor)
  BY DEF ResultNeverRefused
<1>1. Holds(s) /\ job[s] \in Job
  BY DEF InFlight, IInv, FlightInv
<1>2. job[s].id \in PendingIds
  BY <1>1 DEF Holds, Job, PendingIds
<1>3. /\ Cardinality(PendingIds) \in Nat /\ Cardinality(PendingIds) # 0
      /\ Cardinality(journal) \in Nat
  BY <1>2, FS_EmptySet, FS_CardinalityType DEF RoomInv, IInv, ChainInv
<1>4. Cardinality(journal) < Limit
  BY <1>3, LimitAssumption DEF RoomInv
<1> QED BY <1>4 DEF CanAppend, IInv, JournalVerifies

\* The promise of reserve() to keep a row free for the result of each request it lets
\* through holds for any number of senders, on two conditions: check() does not append
\* beside them, and one administrator at a time prunes.  Without the first, the run
\* GatewayCapacity shows a result refused; without the second, a prune that finds its
\* rows gone still appends its own.
THEOREM RoomForResults ==
  ASSUME ~Inspecting, \A a, b \in Admins : a = b
  PROVE  Spec => []ResultNeverRefused
<1>1. Init => RoomInv
  BY RoomAtFirst
<1>2. IInv /\ RoomInv /\ [Next]_vars => RoomInv'
  BY RoomKeeps
<1>3. IInv /\ RoomInv => ResultNeverRefused
  BY ResultFits
<1> QED BY <1>1, <1>2, <1>3, Invariance, PTL DEF Spec

----------------------------------------------------------------------------
(* Who has a pending request. *)

Held(id) == \E s \in Senders : InFlight(s) /\ job[s].id = id

\* One sender moves, and does not let the request go.
LEMMA HolderMoves ==
  ASSUME IInv, NEW id, Held(id), NEW s \in Senders, NEW stage \in Stages, NEW j,
         Become(s, stage, j),
         InFlight(s) /\ job[s].id = id =>
           stage \in {"reserved", "armed", "concluding"} /\ j.id = id
  PROVE  Held(id)'
<1>1. PICK t \in Senders : InFlight(t) /\ job[t].id = id
  BY DEF Held
<1>2. /\ pc'[s] = stage /\ job'[s] = j
      /\ \A u \in Senders : u # s => pc'[u] = pc[u] /\ job'[u] = job[u]
  BY DEF Become, IInv, TypeOK
<1>3. CASE t = s
  BY <1>1, <1>2, <1>3 DEF Held, InFlight
<1>4. CASE t # s
  BY <1>1, <1>2, <1>4 DEF Held, InFlight
<1> QED BY <1>3, <1>4

LEMMA HolderStays ==
  ASSUME NEW id, Held(id), UNCHANGED senderVars
  PROVE  Held(id)'
BY DEF Held, InFlight, senderVars

\* A reservation is in the hands of the thread that made it.
LEMMA ReservationIsHeld ==
  ASSUME IInv, IntentsAreHeld, faults = 0,
         NEW s \in Senders, ReservePrevented(s) \/ ReservePending(s),
         NEW id \in RequestIds, receipts'[id].state = "dispatch_pending"
  PROVE  Held(id)'
<1>1. job[s] \in Job /\ ~InFlight(s)
  BY DEF ReservePrevented, ReservePending, InFlight, IInv, FlightInv
<1>2. /\ receipts \in [RequestIds -> Receipt \cup {NoReceipt}]
      /\ pc \in [Senders -> Stages] /\ job \in [Senders -> Job \cup {NoJob}]
  BY DEF IInv, TypeOK, EvidenceTypeOK
<1>3. CASE ReservePending(s) /\ id = job[s].id
  <2>1. Become(s, "reserved", [job[s] EXCEPT !.began = now])
    BY <1>3 DEF ReservePending
  <2>2. pc'[s] = "reserved" /\ job'[s].id = job[s].id
    BY <1>1, <1>2, <2>1 DEF Become, Job
  <2> QED BY <1>3, <2>2 DEF Held, InFlight
<1>4. CASE ReservePending(s) /\ id # job[s].id
  <2>1. receipts'[id] = receipts[id]
    BY <1>2, <1>4 DEF ReservePending, ReserveTxn
  <2>2. Held(id)
    BY <2>1 DEF IntentsAreHeld, Held
  <2>3. Become(s, "reserved", [job[s] EXCEPT !.began = now])
    BY <1>4 DEF ReservePending
  <2> QED BY <1>1, <2>2, <2>3, HolderMoves DEF Stages
<1>5. CASE ReservePrevented(s)
  <2>1. id # job[s].id /\ receipts'[id] = receipts[id]
    BY <1>2, <1>5 DEF ReservePrevented, ReserveTxn
  <2>2. Held(id)
    BY <2>1 DEF IntentsAreHeld, Held
  <2>3. Become(s, "idle", NoJob)
    BY <1>5 DEF ReservePrevented, Answer
  <2> QED BY <1>1, <2>2, <2>3, HolderMoves DEF Stages
<1> QED BY <1>3, <1>4, <1>5

\* A thread lets a request go when it has written the result, and at no other time.
LEMMA HeldKeeps ==
  ASSUME ~Inspecting, \A a, b \in Admins : a = b,
         IInv, RoomInv, IntentsAreHeld, [Next]_vars
  PROVE  IntentsAreHeld'
<1> SUFFICES ASSUME faults' = 0, NEW id \in RequestIds,
                    receipts'[id].state = "dispatch_pending"
             PROVE  Held(id)'
  BY DEF IntentsAreHeld, Held
<1>1. /\ faults \in Nat /\ ~Crash /\ (\A s \in Senders : ~ConcludeFails(s))
  BY DEF IInv, TypeOK, Crash, ConcludeFails
<1>2. faults = 0
  <2>1. CASE UNCHANGED faults
    BY <2>1
  <2>2. CASE ~UNCHANGED faults
    BY <1>1, <2>2 DEF Next, Begin, Send, ReserveAnswered, ReservePrevented, ReservePending,
       Recheck, Deliver, DeliverNothing, Conclude, ConcludeRefused, Check, SetStop, ClearStop,
       PruneRead, PruneCommit, PruneRollback, Midnight, vars
  <2> QED BY <2>1, <2>2
<1>3. receipts[id].state = "dispatch_pending" => Held(id)
  BY <1>2 DEF IntentsAreHeld, Held
<1>4. ASSUME receipts' = receipts, UNCHANGED senderVars PROVE Held(id)'
  BY <1>3, <1>4, HolderStays
<1>5. ASSUME NEW s \in Senders, NEW i \in RequestIds, NEW fp \in Fingerprints, Begin(s, i, fp)
      PROVE  Held(id)'
  <2>1. PICK j : Become(s, "reserving", j)
    BY <1>5 DEF Begin
  <2>2. Held(id) /\ ~InFlight(s)
    BY <1>3, <1>5 DEF Begin, InFlight, evidenceVars
  <2> QED BY <2>1, <2>2, HolderMoves DEF Stages
<1>6. ASSUME NEW s \in Senders, ReserveAnswered(s) PROVE Held(id)'
  <2>1. Become(s, "idle", NoJob) /\ Held(id) /\ ~InFlight(s)
    BY <1>3, <1>6 DEF ReserveAnswered, Answer, InFlight, evidenceVars
  <2> QED BY <2>1, HolderMoves DEF Stages
<1>7. ASSUME NEW s \in Senders, Recheck(s) \/ Deliver(s) \/ DeliverNothing(s)
      PROVE  Held(id)'
  <2>1. job[s] \in Job /\ Held(id)
    BY <1>3, <1>7 DEF Recheck, Deliver, DeliverNothing, IInv, FlightInv, evidenceVars
  <2>2. PICK stage \in {"armed", "concluding"}, final \in FinalStates \cup {"none"} :
          Become(s, stage, [job[s] EXCEPT !.final = final])
    <3>1. /\ job[s] = [job[s] EXCEPT !.final = job[s].final]
          /\ job[s].final \in FinalStates \cup {"none"}
      BY <2>1 DEF Job
    <3> QED BY <1>7, <3>1 DEF Recheck, Deliver, DeliverNothing, FinalStates
  <2>3. [job[s] EXCEPT !.final = final].id = job[s].id
    BY <2>1 DEF Job
  <2> QED BY <2>1, <2>2, <2>3, HolderMoves DEF Stages
<1>8. ASSUME NEW s \in Senders, Conclude(s) PROVE Held(id)'
  <2>1. /\ Holds(s) /\ job[s] \in Job /\ job[s].final \in FinalStates
        /\ receipts \in [RequestIds -> Receipt \cup {NoReceipt}]
    BY <1>8 DEF Conclude, InFlight, IInv, FlightInv, Holds, TypeOK, EvidenceTypeOK
  <2>2. receipts' = [receipts EXCEPT ![job[s].id].state = job[s].final]
    BY <1>8, <2>1 DEF Conclude, FinishTxn, Holds
  <2>3. id # job[s].id
    <3> SUFFICES ASSUME id = job[s].id PROVE FALSE
      OBVIOUS
    <3>1. receipts[id] \in Receipt
      BY <2>1 DEF Holds, Known
    <3>2. receipts'[id].state = job[s].final
      BY <2>1, <2>2, <3>1 DEF Receipt
    <3> QED BY <2>1, <3>2 DEF FinalStates
  <2>4. receipts'[id] = receipts[id]
    BY <2>1, <2>2, <2>3
  <2>5. Held(id) /\ Become(s, "idle", NoJob)
    BY <1>3, <1>8, <2>4 DEF Conclude, Answer
  <2> QED BY <2>3, <2>5, HolderMoves DEF Stages
<1>9. ASSUME NEW s \in Senders, ConcludeRefused(s) PROVE FALSE
  BY <1>9, ResultFits DEF ConcludeRefused, ResultNeverRefused
<1>10. ASSUME NEW a \in Admins, PruneCommit(a) PROVE Held(id)'
  <2>1. receipts'[id] = receipts[id]
    BY <1>10, PruneWrites DEF Known, NoReceipt
  <2> QED BY <1>3, <1>10, <2>1, HolderStays DEF PruneCommit
<1>11. ASSUME SetStop \/ ClearStop \/ Midnight \/ UNCHANGED vars PROVE Held(id)'
  BY <1>4, <1>11 DEF SetStop, ClearStop, Midnight, vars, senderVars, evidenceVars
<1>12. ASSUME NEW a \in Admins,
              (\E before \in 0..MaxDay : PruneRead(a, before)) \/ PruneRollback(a)
       PROVE  Held(id)'
  BY <1>4, <1>12 DEF PruneRead, PruneRollback, evidenceVars
<1>13. ~Check
  BY DEF Check
<1> QED BY <1>1, <1>2, <1>5, <1>6, <1>7, <1>8, <1>9, <1>10, <1>11, <1>12, <1>13, ReservationIsHeld
        DEF Next, Send

\* Until the process crashes or its disk refuses a result, every pending request is in the
\* hands of the thread that will conclude it: no refusal, no stop, no prune and no failed
\* dispatch leaves one behind (send(), finish()).  The conditions are those of the theorem
\* before: a result that is refused for want of room is what leaves one.
THEOREM NoIntentIsDropped ==
  ASSUME ~Inspecting, \A a, b \in Admins : a = b
  PROVE  Spec => []IntentsAreHeld
<1>1. Init => IntentsAreHeld
  BY DEF Init, EvidenceInit, NoReceipt, IntentsAreHeld
<1>2. IInv /\ RoomInv /\ IntentsAreHeld /\ [Next]_vars => IntentsAreHeld'
  BY HeldKeeps
<1>3. IInv /\ RoomInv /\ [Next]_vars => RoomInv'
  BY RoomKeeps
<1> QED BY <1>1, <1>2, <1>3, RoomAtFirst, Invariance, PTL DEF Spec
=============================================================================
