------------------------------ MODULE Evidence ------------------------------
(***************************************************************************)
(* The encrypted journal of aisecure/gateway.py (class Evidence): a MAC    *)
(* chained table of events, a table of receipts keyed by request id, and   *)
(* the anchor that a retention run leaves behind.  Every operator below    *)
(* that ends in Txn is one BEGIN IMMEDIATE ... COMMIT of SQLite: it        *)
(* happens at once, and a transaction whose guard is false is rolled back. *)
(*                                                                         *)
(* One unit of the clock is one day.  A MAC chain over rows is abstracted  *)
(* to the row numbers it fixes: verify() accepts a table exactly when the  *)
(* numbers run without a gap from the anchor.                              *)
(*                                                                         *)
(* A definition whose comment begins "mutant" is a faulty variant of the   *)
(* one it is named after; no specification uses it.  README.md says which  *)
(* property notices each.                                                  *)
(***************************************************************************)
EXTENDS Integers, FiniteSets

CONSTANTS
  RequestIds,     \* ids a client may put on a request
  Fingerprints,   \* digests of (body, data class)
  Limit,          \* Evidence.limit: rows the journal may hold
  MaxDay          \* bound: the last day of the clock

ASSUME LimitAssumption == Limit \in Nat /\ MaxDay \in Nat

VARIABLES
  journal,        \* rows of table journal: a set of Row
  anchor,         \* meta.anchor_seq: number of the last row pruned
  receipts,       \* table receipts, by id; NoReceipt where there is no row
  now             \* the wall clock, in days

evidenceVars == <<journal, anchor, receipts, now>>

\* What finish() may write: of a body that was sent, and of a device that was changed.
FinalStates == {"provider_completed", "delivery_unknown", "precondition_failed", "verified"}
ReceiptStates == {"dispatch_pending", "prevented_in_gateway"} \cup FinalStates
\* Kinds of a row.  Only a "request" (text_request, bundle_request and
\* response_request in the code) fences its id against a second reservation.
Kinds == {"request", "inspection", "retention"}
NoId == "no request id"
NoReceipt == [state |-> "none"]

Row == [seq: Nat, at: Nat, kind: Kinds, id: RequestIds \cup {NoId},
        state: ReceiptStates \cup {"none"}]
Receipt == [state: ReceiptStates, fp: Fingerprints, at: Nat]

EvidenceTypeOK ==
  /\ journal \in SUBSET Row
  /\ anchor \in Nat
  /\ receipts \in [RequestIds -> Receipt \cup {NoReceipt}]
  /\ now \in 0..MaxDay

EvidenceInit ==
  /\ journal = {}
  /\ anchor = 0
  /\ receipts = [id \in RequestIds |-> NoReceipt]
  /\ now = 0

----------------------------------------------------------------------------
(* The chain. *)

SeqsOf(rows) == {r.seq : r \in rows}

\* What verify() returns as "seq": the last row, or the anchor of an empty table.
LastSeq(rows, from) ==
  IF rows = {} THEN from
  ELSE CHOOSE n \in SeqsOf(rows) : \A m \in SeqsOf(rows) : m <= n

\* verify() raises unless each row follows the one before, from the anchor on.
Chained(rows, from) == SeqsOf(rows) = (from + 1) .. LastSeq(rows, from)

NewRow(rows, from, day, kind, id, state) ==
  [seq |-> LastSeq(rows, from) + 1, at |-> day, kind |-> kind, id |-> id, state |-> state]

CanAppend_Unverified(rows, from) ==  \* mutant: the append trusts the table
  Cardinality(rows) < Limit

CanAppend(rows, from) ==
  /\ Chained(rows, from)
  /\ Cardinality(rows) < Limit

\* _append() inside the transaction of its caller.
WithRow(rows, from, day, kind, id, state) ==
  rows \cup {NewRow(rows, from, day, kind, id, state)}

----------------------------------------------------------------------------
(* Reservations. *)

Known(id) == receipts[id] # NoReceipt

Fenced_Never(id) == FALSE  \* mutant: the receipt alone decides

\* The scan of the journal for an earlier request under the same id.
Fenced(id) == \E r \in journal : r.kind = "request" /\ r.id = id

PendingIds == {id \in RequestIds : receipts[id].state = "dispatch_pending"}

Room_IgnoresPending ==  \* mutant: the results of other requests are not counted
  Cardinality(journal) + 2 <= Limit

\* "Reserve capacity for both intent and result, including concurrent requests."
Room == Cardinality(journal) + Cardinality(PendingIds) + 2 <= Limit

ReserveTxn_Replace(id, fp, state, day) ==  \* mutant: INSERT OR REPLACE of the receipt
  /\ receipts' = [receipts EXCEPT ![id] = [state |-> state, fp |-> fp, at |-> now]]
  /\ journal' = WithRow(journal, anchor, day, "request", id, state)
  /\ now' = day
  /\ UNCHANGED anchor

\* reserve() of an id neither known nor fenced: receipt and intent together.
\* The receipt and then the row read the clock, so the row's day may be a later one.
ReserveTxn(id, fp, state, day) ==
  /\ ~Known(id)
  /\ ~Fenced(id)
  /\ Room
  /\ CanAppend(journal, anchor)
  /\ receipts' = [receipts EXCEPT ![id] = [state |-> state, fp |-> fp, at |-> now]]
  /\ journal' = WithRow(journal, anchor, day, "request", id, state)
  /\ now' = day
  /\ UNCHANGED anchor

FinishTxn_RowOnly(id, state) ==  \* mutant: the receipt keeps its first report
  /\ CanAppend(journal, anchor)
  /\ journal' = WithRow(journal, anchor, now, "request", id, state)
  /\ UNCHANGED <<receipts, anchor, now>>

\* finish(): the result row, and the receipt if it is still there.
FinishTxn(id, state) ==
  /\ CanAppend(journal, anchor)
  /\ journal' = WithRow(journal, anchor, now, "request", id, state)
  /\ receipts' = IF Known(id) THEN [receipts EXCEPT ![id].state = state] ELSE receipts
  /\ UNCHANGED <<anchor, now>>

\* append(): a row that is no reservation (check(), Audit.record()) and fences no id.
AppendTxn(kind) ==
  /\ CanAppend(journal, anchor)
  /\ journal' = WithRow(journal, anchor, now, kind, NoId, "none")
  /\ UNCHANGED <<anchor, receipts, now>>

----------------------------------------------------------------------------
(* Retention. *)

\* The rows prune(before) reads: the prefix up to the first row not older.
Prefix(rows, before) ==
  {r \in rows : \A q \in rows : q.seq <= r.seq => q.at < before}

PruneTxn_KeepsReceipts(last, before) ==  \* mutant: old receipts are not deleted
  LET kept == {r \in journal : r.seq > last} IN
  /\ CanAppend(kept, last)
  /\ anchor' = last
  /\ journal' = WithRow(kept, last, now, "retention", NoId, "none")
  /\ UNCHANGED <<receipts, now>>

\* The transaction of prune(), on the prefix read before it began: new anchor,
\* rows and old receipts deleted, one retention row appended to what is left.
PruneTxn(last, before) ==
  LET kept == {r \in journal : r.seq > last} IN
  /\ CanAppend(kept, last)
  /\ anchor' = last
  /\ journal' = WithRow(kept, last, now, "retention", NoId, "none")
  /\ receipts' = [id \in RequestIds |->
       IF Known(id) /\ receipts[id].at < before THEN NoReceipt ELSE receipts[id]]
  /\ UNCHANGED now
----------------------------------------------------------------------------
(* What must hold. *)

\* Concurrent senders and overlapping prunes never leave a table that verify() would
\* reject, nor one over the limit: a rejected table stops every later send.
JournalVerifies == Chained(journal, anchor) /\ Cardinality(journal) <= Limit
=============================================================================
