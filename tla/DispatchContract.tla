-------------------------- MODULE DispatchContract --------------------------
(***************************************************************************)
(* What the gateway's store promises of each request id, whatever threads, *)
(* crashes and retention runs do: "durable at-most-one dispatch            *)
(* reservation" (aisecure/gateway.py:123), and the states of a request in  *)
(* docs/operations/WORKBENCH.md:73-78.  An id is bound to one body before  *)
(* the provider can get it, the provider gets that body once at most, what *)
(* is concluded stays concluded, and the id comes back into use only when  *)
(* a retention run removes every trace of it.                              *)
(***************************************************************************)
EXTENDS Sequences

CONSTANTS RequestIds, Fingerprints, Allowed

VARIABLES
  status,         \* by id: fresh, intended, prevented, completed, unknown, or
                  \* fenced (the receipt is gone, a row of the journal is not)
  bound,          \* by id: the one fingerprint it may carry, as a sequence
  delivered       \* by id: the fingerprints the provider got

contractVars == <<status, bound, delivered>>

Init ==
  /\ status = [id \in RequestIds |-> "fresh"]
  /\ bound = [id \in RequestIds |-> <<>>]
  /\ delivered = [id \in RequestIds |-> <<>>]

Bind(id, fp) ==
  /\ status[id] = "fresh"
  /\ status' = [status EXCEPT ![id] = IF fp \in Allowed THEN "intended" ELSE "prevented"]
  /\ bound' = [bound EXCEPT ![id] = <<fp>>]
  /\ UNCHANGED delivered

Dispatch(id) ==
  /\ status[id] = "intended"
  /\ delivered[id] = <<>>
  /\ delivered' = [delivered EXCEPT ![id] = bound[id]]
  /\ UNCHANGED <<status, bound>>

\* Completed is claimed only of a body the provider has.
Finish(id) ==
  /\ status[id] = "intended"
  /\ \E s \in {"unknown"} \cup (IF delivered[id] = <<>> THEN {} ELSE {"completed"}) :
       status' = [status EXCEPT ![id] = s]
  /\ UNCHANGED <<bound, delivered>>

\* A retention run: the ids of `gone` are fresh again, those of `fenced` keep
\* only the fence.
Retire(gone, fenced) ==
  /\ gone \cap fenced = {}
  /\ status' = [id \in RequestIds |->
       IF id \in gone THEN "fresh" ELSE IF id \in fenced THEN "fenced" ELSE status[id]]
  /\ bound' = [id \in RequestIds |-> IF id \in gone \cup fenced THEN <<>> ELSE bound[id]]
  /\ delivered' = [id \in RequestIds |-> IF id \in gone THEN <<>> ELSE delivered[id]]

Next ==
  \/ \E id \in RequestIds, fp \in Fingerprints : Bind(id, fp)
  \/ \E id \in RequestIds : Dispatch(id) \/ Finish(id)
  \/ \E gone, fenced \in SUBSET RequestIds : Retire(gone, fenced)

Spec == Init /\ [][Next]_contractVars
=============================================================================
