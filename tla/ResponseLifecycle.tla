------------------------- MODULE ResponseLifecycle --------------------------
(***************************************************************************)
(* The state machine of a response plan in docs/PRODUCT_SPEC.md, section   *)
(* 5, with what its arrows mean: a plan is simulated or approved for one   *)
(* target, once and before it expires; only an approved plan is executed;  *)
(* the provider acts at most once for a plan, on the approved target; and  *)
(* a plan is verified only when it has acted.                              *)
(***************************************************************************)
EXTENDS Sequences

CONSTANTS Plans, Targets

VARIABLES
  status,         \* by plan: its state in the diagram, or absent
  target,         \* by plan: the approved target, as a sequence of at most one
  acted           \* by plan: the targets the provider acted on for it

lifecycleVars == <<status, target, acted>>

Init ==
  /\ status = [p \in Plans |-> "absent"]
  /\ target = [p \in Plans |-> <<>>]
  /\ acted = [p \in Plans |-> <<>>]

Move(p, from, to) == status[p] = from /\ status' = [status EXCEPT ![p] = to]

Propose(p) == Move(p, "absent", "pending") /\ UNCHANGED <<target, acted>>

Simulate(p) == Move(p, "pending", "simulated") /\ UNCHANGED <<target, acted>>

Approve(p, t) ==
  /\ Move(p, "pending", "approved")
  /\ target' = [target EXCEPT ![p] = <<t>>]
  /\ UNCHANGED acted

\* Plans expire by the clock, several at a time.
Expire(ps) ==
  /\ \A p \in ps : status[p] = "pending"
  /\ status' = [p \in Plans |-> IF p \in ps THEN "expired" ELSE status[p]]
  /\ UNCHANGED <<target, acted>>

Start(p) == Move(p, "approved", "executing") /\ UNCHANGED <<target, acted>>

\* The provider may act after the plan was given up as failed: its answer was late.
Act(p) ==
  /\ status[p] \in {"executing", "failed"}
  /\ acted[p] = <<>>
  /\ acted' = [acted EXCEPT ![p] = target[p]]
  /\ UNCHANGED <<status, target>>

Fail(p) == Move(p, "executing", "failed") /\ UNCHANGED <<target, acted>>

Verify(p) ==
  /\ acted[p] # <<>>
  /\ Move(p, "executing", "verified")
  /\ UNCHANGED <<target, acted>>

Next ==
  \/ \E p \in Plans :
       Propose(p) \/ Simulate(p) \/ Start(p) \/ Act(p) \/ Fail(p) \/ Verify(p)
  \/ \E p \in Plans, t \in Targets : Approve(p, t)
  \/ \E ps \in SUBSET Plans : Expire(ps)

Spec == Init /\ [][Next]_lifecycleVars
=============================================================================
