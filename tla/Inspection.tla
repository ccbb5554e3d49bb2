------------------------------ MODULE Inspection ------------------------------
(***************************************************************************)
(* What is found in documents and texts: the document inspection of        *)
(* control/documents.py, the rules of preflight.py, and the decision on a  *)
(* bundle of a question and its files (control/bundles.py).                *)
(*                                                                         *)
(* A document is what the inspection tells apart of its bytes.  Findings   *)
(* are kept by rule; their counts and locations are left out.              *)
(***************************************************************************)
EXTENDS Integers, FiniteSets, SequencesExt

CONSTANTS
  LabelLife,      \* the five minutes a classification is valid for
  LabelAhead,     \* fifteen seconds: how far the clock of the signer may be ahead
  Recipient       \* the organization and the model that bundles go to

ASSUME InspectionAssumption == LabelLife \in Nat /\ LabelAhead \in Nat

----------------------------------------------------------------------------
(* Documents. *)

\* What the patterns see in a text.
TextMarks == {"secret", "personal", "class", "injection"}
TextRule == [secret |-> "DOC-SECRET", personal |-> "DOC-PII",
             class |-> "DOC-CLASS", injection |-> "DOC-INJECTION"]

\* Parts of an Office package, and pages of a PDF.
PartKinds == {"sheet", "page", "properties", "active", "media", "binary", "blank", "drawn"}
KindRules(kind) ==
  CASE kind = "active" -> {"DOC-ACTIVE-CONTENT"}
    [] kind = "media" -> {"DOC-IMAGE-UNINSPECTED"}
    [] kind = "binary" -> {"DOC-BINARY-UNINSPECTED"}
    [] kind = "blank" -> {"DOC-PAGE-UNINSPECTED"}
    [] kind = "drawn" -> {"DOC-VISUAL-UNINSPECTED"}
    [] OTHER -> {}

\* What attributes of an Office part, or objects of a PDF, give away.
StructureRules ==
  {"DOC-ACTIVE-CONTENT", "DOC-EXTERNAL-REFERENCE", "DOC-HIDDEN-CONTENT",
   "DOC-OPTIONAL-CONTENT", "DOC-IMAGE-UNINSPECTED", "DOC-PDF-REVISION-HISTORY",
   "DOC-PDF-TRAILING-CONTENT", "DOC-PDF-UNREFERENCED-OBJECT"}

\* "split" is what shows only when the runs of a text are joined.
Part == [kind: PartKinds, text: SUBSET TextMarks]
Document ==
  [format: {"xlsx", "pptx", "pdf", "docx"},
   header: {"match", "other", "empty", "large"},
   body: {"whole", "mismatch", "encrypted", "broken"},
   structure: SUBSET StructureRules, split: SUBSET TextMarks, parts: Seq(Part)]

Level(rule) ==
  IF rule \in {"DOC-SECRET", "DOC-ACTIVE-CONTENT", "DOC-FORMAT-MISMATCH", "DOC-SIZE"}
  THEN "block" ELSE "review"

\* Rules of what was seen all the same; every other one leaves something uninspected.
SeenRules == {TextRule[m] : m \in TextMarks} \cup {"DOC-EXTERNAL-REFERENCE", "DOC-HIDDEN-CONTENT"}

Verdict(inspection) ==
  IF \E rule \in inspection.findings : Level(rule) = "block" THEN "block"
  ELSE IF inspection.coverage # "supported_text_complete" \/ inspection.findings # {}
  THEN "review" ELSE "no_findings"

Failure(rule) == [coverage |-> "unreadable", findings |-> {rule}]

\* What an inspection may come to.
FailureRules ==
  {"DOC-SIZE", "DOC-UNSUPPORTED", "DOC-FORMAT-MISMATCH", "DOC-ENCRYPTED", "DOC-PARSE-FAILED",
   "DOC-WORKER-FAILED", "DOC-WORKER-TIMEOUT"}
Rules ==
  SeenRules \cup StructureRules \cup FailureRules \cup {"DOC-NO-CONTENT"}
  \cup UNION {KindRules(kind) : kind \in PartKinds}
Inspections ==
  [coverage: {"supported_text_complete", "partial", "unreadable"}, findings: SUBSET Rules]

PartRules(parts) ==
  UNION {KindRules(p.kind) \cup {TextRule[m] : m \in p.text} : p \in ToSet(parts)}

Built(rules) ==
  [coverage |-> IF rules \subseteq SeenRules THEN "supported_text_complete" ELSE "partial",
   findings |-> rules]

\* A PDF has pages, or it is broken.
NoContent(doc) ==
  IF doc.format = "pdf" \/ \E p \in ToSet(doc.parts) : p.kind = "sheet" THEN {}
  ELSE {"DOC-NO-CONTENT"}

Build_RunByRun(doc) ==  \* mutant: the texts are searched one by one
  Built(PartRules(doc.parts) \cup doc.structure \cup NoContent(doc))

\* _office() and _pdf() of a document that can be read: every part is, and the text of all.
Build(doc) ==
  Built(PartRules(doc.parts) \cup doc.structure \cup NoContent(doc)
        \cup {TextRule[m] : m \in doc.split})

\* inspect_bytes(): any exception, a limit of the parser among them, is a finding.  Too
\* many pages are one as well; it counts as broken here.
InspectBytes(doc) ==
  IF doc.header \in {"empty", "large"} THEN Failure("DOC-SIZE")
  ELSE IF doc.format = "docx" THEN Failure("DOC-UNSUPPORTED")
  ELSE IF doc.header = "other" \/ doc.body = "mismatch" THEN Failure("DOC-FORMAT-MISMATCH")
  ELSE IF doc.body = "encrypted" THEN Failure("DOC-ENCRYPTED")
  ELSE IF doc.body = "broken" THEN Failure("DOC-PARSE-FAILED")
  ELSE Build(doc)

\* What the caller of the worker makes of its end.
Inspect(doc, end) ==
  CASE end = "answered" -> InspectBytes(doc)
    [] end = "failed" -> Failure("DOC-WORKER-FAILED")
    [] OTHER -> Failure("DOC-WORKER-TIMEOUT")

----------------------------------------------------------------------------
(* preflight.py. *)

Classes == {"public", "internal", "confidential", "restricted", "unknown"}
ReadActions == {"ai.prompt", "storage.upload", "agent.read"}
ReviewActions == {"agent.execute", "agent.delete", "agent.share", "agent.send"}

Grant == [action: ReadActions, destination: STRING, tool: STRING,
          classes: (SUBSET {"public", "internal"}) \ {{}}]

\* No two grants of a policy are for the same thing.
Policy(grants) ==
  \A g, h \in grants :
    <<g.action, g.destination, g.tool>> = <<h.action, h.destination, h.tool>> => g = h

Granted(request, grants) ==
  {g \in grants : <<g.action, g.destination, g.tool>>
                    = <<request.action, request.destination, request.tool>>}

\* Rules that block, and rules that ask for a review.
Blocking(request, grants) ==
  {rule \in {"PG-001", "PG-007", "PG-002", "PG-003"} :
     CASE rule = "PG-001" -> request.action \in ReadActions /\ Granted(request, grants) = {}
       [] rule = "PG-007" ->
            /\ request.action \in ReadActions /\ request.class \in {"public", "internal"}
            /\ \E g \in Granted(request, grants) : request.class \notin g.classes
       [] rule = "PG-002" -> request.class \in {"confidential", "restricted"}
       [] rule = "PG-003" -> "secret" \in request.text}

Reviewing(request) ==
  {rule \in {"PG-004", "PG-005", "PG-006"} :
     CASE rule = "PG-004" -> request.class = "unknown"
       [] rule = "PG-005" -> request.action \in ReviewActions
       [] rule = "PG-006" -> "personal" \in request.text}

Evaluate(request, grants) ==
  IF Blocking(request, grants) # {} THEN "block"
  ELSE IF Reviewing(request) # {} THEN "review" ELSE "allow"

----------------------------------------------------------------------------
(* Bundles. *)

Endpoint == "https://api.openai.com/v1/responses"
BundlePolicy == {[action |-> "ai.prompt", destination |-> Endpoint, tool |-> "null",
                  classes |-> {"public"}]}

ASSUME PolicyAssumption == BundlePolicy \subseteq Grant /\ Policy(BundlePolicy)

\* claim_for(): a label is good for one request, one content and one recipient.  Endpoint,
\* rules and scanner are the code's own.
Claim(id, content) == <<id, content, Recipient>>
NoLabel == [claim |-> "no label"]

\* verify_bundle() raises unless the label is of this very bundle, and in its time.
LabelRefused(label, id, content, now) ==
  /\ label # NoLabel
  /\ \/ label.claim # Claim(id, content)
     \/ ~(label.issued <= now + LabelAhead /\ now < label.issued + LabelLife)

ClassOf(label) == IF label = NoLabel THEN "unknown" ELSE "public"

\* check(): the strictest of what the question asks for and what was found in each file.
CheckBundle(question, label, inspections) ==
  LET decisions ==
        {Evaluate([action |-> "ai.prompt", destination |-> Endpoint, tool |-> "null",
                   class |-> ClassOf(label), text |-> question], BundlePolicy)}
        \cup {Verdict(inspection) : inspection \in ToSet(inspections)}
  IN IF "block" \in decisions THEN "block"
     ELSE IF "review" \in decisions THEN "review" ELSE "allow"

\* redacted_text_preview(): a document with a secret or a personal finding is withheld.
Previewed(inspection) == {"DOC-SECRET", "DOC-PII"} \cap inspection.findings = {}
=============================================================================
