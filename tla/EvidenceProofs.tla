--------------------------- MODULE EvidenceProofs ---------------------------
(***************************************************************************)
(* Lemmas about the journal, for every module that works on an Evidence:   *)
(* what an append, a reservation, a result and a retention run leave of a  *)
(* table that verifies.                                                    *)
(***************************************************************************)
EXTENDS Evidence, FiniteSetTheorems, WellFoundedInduction, TLAPS

----------------------------------------------------------------------------
(* The chain of rows. *)

Tip == LastSeq(journal, anchor)

\* The row numbers run from the anchor to the tip.
ChainInv ==
  /\ IsFiniteSet(journal)
  /\ Tip \in Nat
  /\ Tip >= anchor
  /\ Chained(journal, anchor)

\* LastSeq of rows that run from `from` to n is n.
LEMMA LastSeqOfInterval ==
  ASSUME NEW rows, NEW from \in Nat, NEW n \in Nat, n >= from,
         SeqsOf(rows) = (from + 1) .. n
  PROVE  LastSeq(rows, from) = n
<1>1. CASE n = from
  <2>1. SeqsOf(rows) = {}
    BY <1>1
  <2>2. rows = {}
    BY <2>1, Zenon DEF SeqsOf
  <2> QED BY <1>1, <2>2 DEF LastSeq
<1>2. CASE n > from
  <2>1. n \in SeqsOf(rows) /\ \A m \in SeqsOf(rows) : m <= n
    BY <1>2
  <2>2. rows # {}
    BY <2>1 DEF SeqsOf
  <2> DEFINE P(x) == x \in SeqsOf(rows) /\ \A m \in SeqsOf(rows) : m <= x
  <2>3. \A x : P(x) => x = n
    BY <2>1
  <2>4. (CHOOSE x \in SeqsOf(rows) : \A m \in SeqsOf(rows) : m <= x) = n
    BY <2>1, <2>3
  <2> QED BY <2>2, <2>4 DEF LastSeq
<1> QED BY <1>1, <1>2

\* A row appended to a chain extends it by one.
LEMMA AppendExtends ==
  ASSUME NEW rows \in SUBSET Row, NEW from \in Nat,
         Chained(rows, from), LastSeq(rows, from) \in Nat, LastSeq(rows, from) >= from,
         NEW day, NEW kind, NEW id, NEW state
  PROVE  LET new == WithRow(rows, from, day, kind, id, state) IN
         /\ LastSeq(new, from) = LastSeq(rows, from) + 1
         /\ Chained(new, from)
<1> DEFINE n == LastSeq(rows, from)
           row == NewRow(rows, from, day, kind, id, state)
           new == WithRow(rows, from, day, kind, id, state)
<1>1. row.seq = n + 1
  BY DEF NewRow
<1>2. SeqsOf(new) = SeqsOf(rows) \cup {n + 1}
  BY <1>1 DEF WithRow, SeqsOf
<1>3. SeqsOf(new) = (from + 1) .. (n + 1)
  BY <1>2 DEF Chained
<1>4. LastSeq(new, from) = n + 1
  BY <1>3, LastSeqOfInterval
<1> QED BY <1>3, <1>4 DEF Chained

\* A non-empty set of naturals with an upper bound has a greatest element.
LEMMA GreatestExists ==
  ASSUME NEW S \in SUBSET Nat, S # {}, NEW n \in Nat, \A m \in S : m <= n
  PROVE  \E m \in S : \A k \in S : k <= m
<1> DEFINE U == {u \in Nat : \A m \in S : m <= u}
<1>1. U \subseteq Nat /\ U # {}
  OBVIOUS
<1>2. PICK u \in U : \A v \in U : ~(<<v, u>> \in OpToRel(<, Nat))
  BY <1>1, NatLessThanWellFounded, WFMin
<1>3. \A v \in U : ~(v < u)
  BY <1>1, <1>2 DEF OpToRel
<1>4. u \in S
  <2> SUFFICES ASSUME u \notin S PROVE FALSE
    OBVIOUS
  <2>1. \A m \in S : m <= u - 1
    OBVIOUS
  <2>2. PICK m \in S : m \in Nat
    OBVIOUS
  <2>3. u - 1 \in Nat
    BY <2>2
  <2> QED BY <2>1, <2>3, <1>3
<1> QED BY <1>4

\* LastSeq of a bounded table is the number of one of its rows, and of the last.
LEMMA LastSeqOfRows ==
  ASSUME NEW rows \in SUBSET Row, NEW from, NEW n \in Nat,
         rows # {}, \A r \in rows : r.seq <= n
  PROVE  /\ LastSeq(rows, from) \in SeqsOf(rows)
         /\ LastSeq(rows, from) \in Nat
         /\ LastSeq(rows, from) <= n
         /\ \A r \in rows : r.seq <= LastSeq(rows, from)
<1>1. SeqsOf(rows) \in SUBSET Nat /\ SeqsOf(rows) # {} /\ \A m \in SeqsOf(rows) : m <= n
  BY DEF SeqsOf, Row
<1>2. \E m \in SeqsOf(rows) : \A k \in SeqsOf(rows) : k <= m
  BY <1>1, GreatestExists
<1>3. /\ LastSeq(rows, from) \in SeqsOf(rows)
      /\ \A k \in SeqsOf(rows) : k <= LastSeq(rows, from)
  BY <1>2 DEF LastSeq
<1> QED BY <1>1, <1>3 DEF SeqsOf

\* What an appended row does to a table that verifies: it is one longer, its tip
\* moves on by one, and it still verifies.
LEMMA AppendKeeps ==
  ASSUME NEW rows \in SUBSET Row, NEW from \in Nat, IsFiniteSet(rows),
         CanAppend(rows, from), LastSeq(rows, from) \in Nat, LastSeq(rows, from) >= from,
         NEW day \in Nat, NEW kind \in Kinds, NEW id \in RequestIds \cup {NoId},
         NEW state \in ReceiptStates \cup {"none"}
  PROVE  LET new == WithRow(rows, from, day, kind, id, state) IN
         /\ new \in SUBSET Row
         /\ IsFiniteSet(new)
         /\ Cardinality(new) <= Limit
         /\ LastSeq(new, from) = LastSeq(rows, from) + 1
         /\ Chained(new, from)
<1> DEFINE row == NewRow(rows, from, day, kind, id, state)
<1>1. row \in Row
  BY DEF NewRow, Row
<1>2. WithRow(rows, from, day, kind, id, state) = rows \cup {row}
  BY DEF WithRow
<1>3. Cardinality(rows) \in Nat /\ Cardinality(rows) < Limit
  BY FS_CardinalityType DEF CanAppend
<1>4. IsFiniteSet(rows \cup {row}) /\ Cardinality(rows \cup {row}) <= Limit
  <2>1. Cardinality(rows \cup {row}) \in {Cardinality(rows), Cardinality(rows) + 1}
    BY FS_AddElement, Zenon
  <2> QED BY <2>1, <1>3, FS_AddElement, LimitAssumption
<1>5. Chained(rows, from)
  BY DEF CanAppend
<1> QED BY <1>1, <1>2, <1>4, <1>5, AppendExtends

\* The empty journal verifies.
LEMMA EmptyEvidence == EvidenceInit => EvidenceTypeOK /\ ChainInv /\ JournalVerifies
<1> SUFFICES ASSUME EvidenceInit PROVE EvidenceTypeOK /\ ChainInv /\ JournalVerifies
  OBVIOUS
<1>1. journal = {} /\ anchor = 0 /\ now = 0 /\ receipts = [id \in RequestIds |-> NoReceipt]
  BY DEF EvidenceInit
<1>2. EvidenceTypeOK
  BY <1>1, LimitAssumption DEF EvidenceTypeOK
<1>3. Tip = 0
  BY <1>1 DEF Tip, LastSeq
<1>4. Chained(journal, anchor)
  <2>1. SeqsOf(journal) = {}
    BY <1>1 DEF SeqsOf
  <2>2. LastSeq(journal, anchor) = 0 /\ anchor + 1 = 1
    BY <1>1, <1>3 DEF Tip
  <2>3. 1 .. 0 = {}
    OBVIOUS
  <2> QED BY <2>1, <2>2, <2>3 DEF Chained
<1> QED BY <1>1, <1>2, <1>3, <1>4, FS_EmptySet, LimitAssumption DEF ChainInv, JournalVerifies

----------------------------------------------------------------------------
(* What the transactions of the store read and leave. *)

\* The mark of an absent receipt is no receipt: Known(id) tells the two apart.
LEMMA NoReceiptIsNoReceipt == NoReceipt \notin Receipt
BY DEF NoReceipt, Receipt, ReceiptStates, FinalStates

\* What prune() reads: a row number within the table, all rows up to it old enough.
LEMMA PrefixRead ==
  ASSUME EvidenceTypeOK, ChainInv, NEW before \in Int, Prefix(journal, before) # {}
  PROVE  LET last == LastSeq(Prefix(journal, before), anchor) IN
         /\ last \in Nat
         /\ last <= Tip
         /\ journal # {}
         /\ \A r \in journal : r.seq <= last => r.at < before
<1> DEFINE rows == Prefix(journal, before)
           last == LastSeq(rows, anchor)
<1>1. rows \in SUBSET Row /\ rows \subseteq journal
  BY DEF Prefix, EvidenceTypeOK
<1>2. \A r \in rows : r.seq <= Tip
  <2>1. \A r \in journal : r.seq \in (anchor + 1) .. Tip
    BY DEF ChainInv, Chained, SeqsOf, Tip
  <2> QED BY <2>1, <1>1 DEF ChainInv, EvidenceTypeOK
<1>3. last \in SeqsOf(rows) /\ last \in Nat /\ last <= Tip
  <2>1. Tip \in Nat
    BY DEF ChainInv
  <2> QED BY <1>1, <1>2, <2>1, LastSeqOfRows
<1>4. ASSUME NEW r \in journal, r.seq <= last
      PROVE  r.at < before
  <2>1. PICK p \in rows : p.seq = last
    BY <1>3 DEF SeqsOf
  <2> QED BY <2>1, <1>4 DEF Prefix
<1> QED BY <1>1, <1>3, <1>4

\* The rows a prune leaves: a table that ends where the old one did.
LEMMA KeptRows ==
  ASSUME EvidenceTypeOK, ChainInv, NEW last \in Nat, last <= Tip, journal # {}
  PROVE  LET kept == {r \in journal : r.seq > last} IN
         /\ kept \in SUBSET Row
         /\ IsFiniteSet(kept)
         /\ LastSeq(kept, last) = Tip
         /\ Tip >= last
<1> DEFINE kept == {r \in journal : r.seq > last}
<1>0. Tip \in Nat /\ anchor \in Nat /\ Tip >= anchor
  BY DEF ChainInv, EvidenceTypeOK
<1>1. kept \in SUBSET Row /\ journal \in SUBSET Row
  BY DEF EvidenceTypeOK
<1>2. IsFiniteSet(kept)
  BY FS_Subset DEF ChainInv
<1>3. \A r \in journal : r.seq <= Tip
  <2>1. \A r \in journal : r.seq \in (anchor + 1) .. Tip
    BY DEF ChainInv, Chained, SeqsOf, Tip
  <2> QED BY <2>1, <1>0
<1>4. Tip \in SeqsOf(journal)
  BY <1>0, <1>1, <1>3, LastSeqOfRows DEF Tip
<1>5. PICK r \in journal : r.seq = Tip
  BY <1>4 DEF SeqsOf
<1>6. LastSeq(kept, last) = Tip
  <2>1. CASE Tip = last
    <3>1. \A q \in journal : ~(q.seq > last)
      BY <2>1, <1>0, <1>1, <1>3 DEF Row
    <3>2. kept = {}
      BY <3>1
    <3> QED BY <3>2, <2>1 DEF LastSeq
  <2>2. CASE Tip > last
    <3>1. r \in kept
      BY <2>2, <1>5
    <3>2. /\ LastSeq(kept, last) \in Nat
          /\ LastSeq(kept, last) <= Tip
          /\ Tip <= LastSeq(kept, last)
      BY <3>1, <1>0, <1>1, <1>3, <1>5, LastSeqOfRows
    <3> QED BY <3>2, <1>0
  <2> QED BY <2>1, <2>2, <1>0
<1> QED BY <1>1, <1>2, <1>6

\* Every transaction that appends to the journal as it stands.
LEMMA JournalGrows ==
  ASSUME EvidenceTypeOK, ChainInv, CanAppend(journal, anchor), anchor' = anchor,
         NEW day \in Nat, NEW kind \in Kinds, NEW id \in RequestIds \cup {NoId},
         NEW state \in ReceiptStates \cup {"none"},
         journal' = WithRow(journal, anchor, day, kind, id, state)
  PROVE  /\ journal' \in SUBSET Row
         /\ ChainInv' /\ JournalVerifies'
         /\ Tip' = Tip + 1
         /\ \E r \in journal' :
              /\ r.seq = Tip + 1 /\ r.at = day /\ r.kind = kind /\ r.id = id
              /\ journal' = journal \cup {r}
<1>1. /\ journal \in SUBSET Row /\ anchor \in Nat
      /\ IsFiniteSet(journal) /\ Tip \in Nat /\ Tip >= anchor
  BY DEF EvidenceTypeOK, ChainInv
<1>2. /\ journal' \in SUBSET Row
      /\ IsFiniteSet(journal')
      /\ Cardinality(journal') <= Limit
      /\ LastSeq(journal', anchor) = Tip + 1
      /\ Chained(journal', anchor)
  BY <1>1, AppendKeeps DEF Tip
<1>3. Tip' = Tip + 1
  BY <1>2 DEF Tip
<1>4. ChainInv' /\ JournalVerifies'
  BY <1>1, <1>2, <1>3 DEF ChainInv, JournalVerifies
<1>5. \E r \in journal' :
        /\ r.seq = Tip + 1 /\ r.at = day /\ r.kind = kind /\ r.id = id
        /\ journal' = journal \cup {r}
  BY DEF WithRow, NewRow, Tip
<1> QED BY <1>2, <1>3, <1>4, <1>5

----------------------------------------------------------------------------
(* The transactions. *)

\* A reservation: the receipt it leaves, and the request row under its id.
LEMMA ReserveKeepsEvidence ==
  ASSUME EvidenceTypeOK, ChainInv, NEW id \in RequestIds, NEW fp \in Fingerprints,
         NEW state \in ReceiptStates,
         NEW day \in Nat, day <= MaxDay, ReserveTxn(id, fp, state, day)
  PROVE  /\ EvidenceTypeOK' /\ ChainInv' /\ JournalVerifies'
         /\ ~Known(id) /\ ~Fenced(id) /\ Known(id)'
         /\ receipts'[id] = [state |-> state, fp |-> fp, at |-> now]
         /\ \A i \in RequestIds : i # id => receipts'[i] = receipts[i]
         /\ now' = day
         /\ Tip' = Tip + 1
         /\ \E r \in journal' :
              /\ r.seq = Tip + 1 /\ r.at = day /\ r.kind = "request" /\ r.id = id
              /\ journal' = journal \cup {r}
<1> DEFINE r0 == [state |-> state, fp |-> fp, at |-> now]
<1>1. /\ ~Known(id) /\ ~Fenced(id) /\ CanAppend(journal, anchor)
      /\ receipts' = [receipts EXCEPT ![id] = r0]
      /\ journal' = WithRow(journal, anchor, day, "request", id, state)
      /\ now' = day /\ anchor' = anchor
  BY DEF ReserveTxn
<1>2. /\ journal' \in SUBSET Row /\ ChainInv' /\ JournalVerifies' /\ Tip' = Tip + 1
      /\ \E r \in journal' :
           /\ r.seq = Tip + 1 /\ r.at = day /\ r.kind = "request" /\ r.id = id
           /\ journal' = journal \cup {r}
  <2>1. state \in ReceiptStates \cup {"none"} /\ "request" \in Kinds
    BY DEF ReceiptStates, Kinds
  <2> QED BY <1>1, <2>1, JournalGrows
<1>3. now \in Nat /\ receipts \in [RequestIds -> Receipt \cup {NoReceipt}]
  BY LimitAssumption DEF EvidenceTypeOK
<1>4. r0 \in Receipt
  BY <1>3 DEF Receipt, ReceiptStates
<1>5. /\ receipts'[id] = r0
      /\ \A i \in RequestIds : i # id => receipts'[i] = receipts[i]
      /\ receipts' \in [RequestIds -> Receipt \cup {NoReceipt}]
  BY <1>1, <1>3, <1>4
<1>6. Known(id)'
  BY <1>4, <1>5, NoReceiptIsNoReceipt DEF Known
<1>7. EvidenceTypeOK'
  BY <1>1, <1>2, <1>5, LimitAssumption DEF EvidenceTypeOK
<1> QED BY <1>1, <1>2, <1>5, <1>6, <1>7

\* A result: one more row, and a new state in the receipt if it is still there.
LEMMA FinishKeepsEvidence ==
  ASSUME EvidenceTypeOK, ChainInv, NEW id \in RequestIds, NEW state \in FinalStates,
         FinishTxn(id, state)
  PROVE  /\ EvidenceTypeOK' /\ ChainInv' /\ JournalVerifies'
         /\ now' = now
         /\ Known(id) => /\ receipts'[id].state = state
                         /\ receipts'[id].fp = receipts[id].fp
                         /\ receipts'[id].at = receipts[id].at
         /\ \A i \in RequestIds : i # id => receipts'[i] = receipts[i]
         /\ \A i \in RequestIds : Known(i)' => Known(i)
         /\ Tip' = Tip + 1
         /\ \E r \in journal' :
              /\ r.seq = Tip + 1 /\ r.kind = "request" /\ r.id = id
              /\ journal' = journal \cup {r}
<1>1. /\ CanAppend(journal, anchor)
      /\ journal' = WithRow(journal, anchor, now, "request", id, state)
      /\ receipts' = IF Known(id) THEN [receipts EXCEPT ![id].state = state] ELSE receipts
      /\ anchor' = anchor /\ now' = now
  BY DEF FinishTxn
<1>2. now \in Nat /\ receipts \in [RequestIds -> Receipt \cup {NoReceipt}]
  BY LimitAssumption DEF EvidenceTypeOK
<1>3. /\ journal' \in SUBSET Row /\ ChainInv' /\ JournalVerifies' /\ Tip' = Tip + 1
      /\ \E r \in journal' :
           /\ r.seq = Tip + 1 /\ r.kind = "request" /\ r.id = id
           /\ journal' = journal \cup {r}
  <2>1. "request" \in Kinds /\ state \in ReceiptStates \cup {"none"}
    BY DEF Kinds, ReceiptStates
  <2> QED BY <1>1, <1>2, <2>1, JournalGrows
<1>4. CASE Known(id)
  <2>1. receipts[id] \in Receipt
    BY <1>2, <1>4 DEF Known
  <2>2. /\ receipts'[id] = [receipts[id] EXCEPT !.state = state]
        /\ \A i \in RequestIds : i # id => receipts'[i] = receipts[i]
        /\ DOMAIN receipts' = RequestIds
    BY <1>1, <1>2, <1>4
  <2>3. /\ receipts'[id] \in Receipt
        /\ receipts'[id].state = state /\ receipts'[id].fp = receipts[id].fp
        /\ receipts'[id].at = receipts[id].at
    BY <2>1, <2>2 DEF Receipt, ReceiptStates
  <2>4. receipts' \in [RequestIds -> Receipt \cup {NoReceipt}]
    BY <1>1, <1>2, <1>4, <2>3
  <2>5. EvidenceTypeOK'
    BY <1>1, <1>3, <2>4 DEF EvidenceTypeOK
  <2> QED BY <1>1, <1>3, <1>4, <2>2, <2>3, <2>5 DEF Known
<1>5. CASE ~Known(id)
  <2>1. receipts' = receipts
    BY <1>1, <1>5
  <2>2. EvidenceTypeOK'
    BY <1>1, <1>3, <2>1 DEF EvidenceTypeOK
  <2> QED BY <1>1, <1>3, <1>5, <2>1, <2>2 DEF Known
<1> QED BY <1>4, <1>5

\* A retention run on a prefix read earlier: the table verifies again, every row that is
\* not older than the cutoff is still there, no row but the retention row is new, and
\* so is every receipt that is not older.
LEMMA PruneKeepsEvidence ==
  ASSUME EvidenceTypeOK, ChainInv, NEW last \in Nat, NEW before \in Int,
         last <= Tip, journal # {}, \A r \in journal : r.seq <= last => r.at < before,
         PruneTxn(last, before)
  PROVE  /\ EvidenceTypeOK' /\ ChainInv' /\ JournalVerifies'
         /\ now' = now
         /\ Tip' = Tip + 1
         /\ \E row \in journal' :
              /\ row.seq = Tip + 1 /\ row.kind = "retention"
              /\ journal' = {r \in journal : r.seq > last} \cup {row}
         /\ \A r \in journal : r.at >= before => r \in journal'
         /\ \A i \in RequestIds : Known(i)' =>
              Known(i) /\ receipts'[i] = receipts[i] /\ receipts[i].at >= before
         /\ \A i \in RequestIds : Known(i) /\ receipts[i].at >= before =>
              Known(i)' /\ receipts'[i] = receipts[i]
<1> DEFINE kept == {r \in journal : r.seq > last}
<1>1. /\ CanAppend(kept, last) /\ anchor' = last /\ now' = now
      /\ journal' = WithRow(kept, last, now, "retention", NoId, "none")
      /\ receipts' = [i \in RequestIds |->
           IF Known(i) /\ receipts[i].at < before THEN NoReceipt ELSE receipts[i]]
  BY DEF PruneTxn
<1>2. /\ now \in Nat /\ Tip \in Nat /\ journal \in SUBSET Row
      /\ receipts \in [RequestIds -> Receipt \cup {NoReceipt}]
  BY LimitAssumption DEF EvidenceTypeOK, ChainInv
<1>3. /\ kept \in SUBSET Row /\ IsFiniteSet(kept)
      /\ LastSeq(kept, last) = Tip /\ Tip >= last
  BY KeptRows
<1>4. /\ journal' \in SUBSET Row /\ IsFiniteSet(journal') /\ Cardinality(journal') <= Limit
      /\ LastSeq(journal', last) = Tip + 1 /\ Chained(journal', last)
  <2> HIDE DEF kept
  <2>1. "retention" \in Kinds /\ NoId \in RequestIds \cup {NoId}
        /\ "none" \in ReceiptStates \cup {"none"}
    BY DEF Kinds
  <2>2. LastSeq(kept, last) \in Nat /\ LastSeq(kept, last) >= last
    BY <1>2, <1>3
  <2>3. LET new == WithRow(kept, last, now, "retention", NoId, "none") IN
        /\ new \in SUBSET Row /\ IsFiniteSet(new) /\ Cardinality(new) <= Limit
        /\ LastSeq(new, last) = LastSeq(kept, last) + 1 /\ Chained(new, last)
    BY <1>1, <1>2, <1>3, <2>1, <2>2, AppendKeeps
  <2> QED BY <1>1, <1>3, <2>3
<1>5. PICK row \in journal' : /\ row.seq = Tip + 1 /\ row.kind = "retention"
                             /\ journal' = kept \cup {row}
  BY <1>1, <1>3 DEF WithRow, NewRow
<1>6. ChainInv' /\ JournalVerifies' /\ Tip' = Tip + 1
  BY <1>1, <1>2, <1>3, <1>4 DEF ChainInv, JournalVerifies, Tip
<1>7. \A i \in RequestIds : Known(i)' =>
        Known(i) /\ receipts'[i] = receipts[i] /\ receipts[i].at >= before
  BY <1>1, <1>2 DEF Known, Receipt
<1>8. \A i \in RequestIds : Known(i) /\ receipts[i].at >= before =>
        Known(i)' /\ receipts'[i] = receipts[i]
  BY <1>1, <1>2 DEF Known, Receipt
<1>9. EvidenceTypeOK'
  <2>1. receipts' \in [RequestIds -> Receipt \cup {NoReceipt}]
    BY <1>1, <1>2
  <2> QED BY <1>1, <1>4, <2>1 DEF EvidenceTypeOK
<1>10. ASSUME NEW r \in journal, r.at >= before PROVE r \in journal'
  <2>1. r.seq \in Nat /\ r.at \in Nat
    BY <1>2 DEF Row
  <2>2. r.seq > last
    BY <2>1, <1>10
  <2> QED BY <2>2, <1>5
<1> QED BY <1>1, <1>5, <1>6, <1>7, <1>8, <1>9, <1>10
=============================================================================
