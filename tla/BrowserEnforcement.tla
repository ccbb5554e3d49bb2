------------------------- MODULE BrowserEnforcement -------------------------
(***************************************************************************)
(* In-page enforcement of browser/aisecure: the fetch wrapper in the page  *)
(* (inject.js), the content script with its dialog (content.js), the       *)
(* service worker and its decision logic (background.js, enforce.js), and  *)
(* the native host that inspects and records a text (control/native.py).   *)
(*                                                                         *)
(* A question travels through these one after the other, while the wrapper *)
(* waits for its answer or for a timer of its own, and the page goes on.   *)
(* One call of fetch() with a state-changing method is one element of      *)
(* Calls; the other methods are not held back and are left out.            *)
(***************************************************************************)
EXTENDS Naturals, FiniteSets

CONSTANTS
  Calls,          \* calls of window.fetch on an inspected page
  Requests,       \* what may be sent: a set of Request
  Rewrites,       \* bodies a page may put in the place of the one it passed
  Limit,          \* rows the journal of the native host may hold
  MaxFaults       \* bound: parts that go away or fail

\* What the page passes to fetch.  A "relative" URL, or a URL object, reaches
\* candidate() as a string of another host.  Text is by what the inspection tells
\* apart: below MIN_TEXT, no pattern, a personal one, a secret, a secret beyond
\* MAX_TEXT or twelve levels down; "opaque" is a form, blob or stream.
Targets == {"absolute", "relative"}
Bodies == {"short", "clean", "personal", "secret", "distant", "opaque"}
Request == [target: Targets, body: Bodies]

ASSUME BrowserAssumption ==
  /\ Requests \subseteq Request /\ Rewrites \subseteq Bodies
  /\ Limit \in Nat /\ MaxFaults \in Nat

VARIABLES
  stage,          \* what became of each call: new, asking, aborted, sent
  request,        \* the request as the page holds it now
  pending,        \* inject.js pending: calls whose promise is not resolved
  place,          \* where the question of a call is
  verdict,        \* the answer it carries back
  rows,           \* journal of the native host: the calls it has recorded
  read,           \* history: the body the wrapper read
  judged,         \* history: the decision of the native host
  confirmed,      \* history: calls the user released in the dialog
  faults          \* parts that went away or failed so far

callVars == <<stage, request, pending>>
hostVars == <<rows, judged>>
vars == <<callVars, place, verdict, hostVars, read, confirmed, faults>>

Stages == {"new", "asking", "aborted", "sent"}
Places == {"none", "content", "worker", "host", "judged", "dialog", "answered"}
Verdicts == {"none", "allow", "confirm", "block"}
Decisions == {"none", "no_findings", "review", "block"}
NoRequest == [target |-> "absolute", body |-> "short"]

TypeOK ==
  /\ stage \in [Calls -> Stages]
  /\ request \in [Calls -> Request]
  /\ pending \subseteq Calls
  /\ place \in [Calls -> Places]
  /\ verdict \in [Calls -> Verdicts]
  /\ rows \subseteq Calls
  /\ read \in [Calls -> Bodies]
  /\ judged \in [Calls -> Decisions]
  /\ confirmed \subseteq Calls
  /\ faults \in 0..MaxFaults

Init ==
  /\ stage = [c \in Calls |-> "new"]
  /\ request = [c \in Calls |-> NoRequest]
  /\ pending = {}
  /\ place = [c \in Calls |-> "none"]
  /\ verdict = [c \in Calls |-> "none"]
  /\ rows = {}
  /\ read = [c \in Calls |-> "short"]
  /\ judged = [c \in Calls |-> "none"]
  /\ confirmed = {}
  /\ faults = 0

----------------------------------------------------------------------------
(* What is read of a body, and what is decided of it. *)

Unreadable == "null"

\* readBody(), and the "unreadable ? null : body" of the service worker.
ReadBody(body) == IF body = "opaque" THEN Unreadable ELSE body

\* extractText(): nothing of null, and a long text only as far as it reaches.
ExtractText(body) ==
  CASE body = Unreadable -> "short"
    [] body = "distant" -> "clean"
    [] OTHER -> body

Candidate(r) == r.target = "absolute"

Decision_Confirm(text) ==  \* mutant: the word of decide() in the place of the host's
  CASE text = "secret" -> "block"
    [] text = "personal" -> "confirm"
    [] OTHER -> "no_findings"

\* handle() of the native host: a secret blocks, a personal pattern asks for review.
Decision(text) ==
  CASE text = "secret" -> "block"
    [] text = "personal" -> "review"
    [] OTHER -> "no_findings"

\* decide(), of a decision of the host or of the error it became.
Decide_OpenOnError(decision) ==  \* mutant: an error is no finding
  CASE decision = "block" -> "block"
    [] decision = "review" -> "confirm"
    [] OTHER -> "allow"

Decide(decision) ==
  CASE decision = "no_findings" -> "allow"
    [] decision = "review" -> "confirm"
    [] OTHER -> "block"

----------------------------------------------------------------------------
(* The question on its way.  Each part hands it on as a message. *)

Move(c, to, answer) ==
  /\ place' = [place EXCEPT ![c] = to]
  /\ verdict' = [verdict EXCEPT ![c] = answer]

\* The page calls fetch: the wrapper reads the body, keeps a promise and posts a message.
Fetch(c, r) ==
  /\ stage[c] = "new"
  /\ stage' = [stage EXCEPT ![c] = "asking"]
  /\ request' = [request EXCEPT ![c] = r]
  /\ read' = [read EXCEPT ![c] = r.body]
  /\ pending' = pending \cup {c}
  /\ Move(c, "content", "none")
  /\ UNCHANGED <<hostVars, confirmed, faults>>

\* The page keeps the object it passed, and may change the body in it while it waits.
Rewrite(c, body) ==
  /\ stage[c] = "asking"
  /\ request' = [request EXCEPT ![c].body = body]
  /\ UNCHANGED <<stage, pending, place, verdict, hostVars, read, confirmed, faults>>

Relay(c) ==
  /\ place[c] = "content"
  /\ Move(c, "worker", "none")
  /\ UNCHANGED <<callVars, hostVars, read, confirmed, faults>>

\* evaluateRequest() up to the inspection: what is no candidate or too short passes.
Evaluate(c) ==
  /\ place[c] = "worker"
  /\ IF ~Candidate(request[c]) \/ ExtractText(ReadBody(read[c])) = "short"
     THEN Move(c, "judged", "allow")
     ELSE Move(c, "host", "none")
  /\ UNCHANGED <<callVars, hostVars, read, confirmed, faults>>

Inspect_Unrecorded(c) ==  \* mutant: the answer does not wait for its record
  /\ place[c] = "host"
  /\ judged' = [judged EXCEPT ![c] = Decision(ExtractText(read[c]))]
  /\ rows' = IF Cardinality(rows) < Limit THEN rows \cup {c} ELSE rows
  /\ Move(c, "judged", Decide(judged'[c]))
  /\ UNCHANGED <<callVars, read, confirmed, faults>>

\* The host appends its decision to the journal and then writes it.  A full journal
\* refuses the row, and the answer is an error.
Inspect(c) ==
  /\ place[c] = "host"
  /\ IF Cardinality(rows) < Limit
     THEN /\ judged' = [judged EXCEPT ![c] = Decision(ExtractText(read[c]))]
          /\ rows' = rows \cup {c}
          /\ Move(c, "judged", Decide(judged'[c]))
     ELSE /\ UNCHANGED hostVars
          /\ Move(c, "judged", Decide("none"))
  /\ UNCHANGED <<callVars, read, confirmed, faults>>

\* The native host is not there or fails, or the service worker is stopped and the
\* channel closes: the answer is an error.  The host may have recorded before.
Fail(c) ==
  /\ faults < MaxFaults
  /\ place[c] \in {"worker", "host"}
  /\ rows' \in {rows} \cup (IF place[c] = "host" /\ Cardinality(rows) < Limit
                            THEN {rows \cup {c}} ELSE {})
  /\ Move(c, "judged", Decide("none"))
  /\ faults' = faults + 1
  /\ UNCHANGED <<callVars, judged, read, confirmed>>

\* There is no content script (any more): nobody will answer.
Lose(c) ==
  /\ faults < MaxFaults
  /\ place[c] \in {"content", "dialog"}
  /\ Move(c, "none", "none")
  /\ faults' = faults + 1
  /\ UNCHANGED <<callVars, hostVars, read, confirmed>>

\* The content script has the verdict: anything but "allow" is shown to the user.
Present(c) ==
  /\ place[c] = "judged"
  /\ Move(c, IF verdict[c] = "allow" THEN "answered" ELSE "dialog", verdict[c])
  /\ UNCHANGED <<callVars, hostVars, read, confirmed, faults>>

\* The user sends it all the same; only a verdict "confirm" offers that.
Release(c) ==
  /\ place[c] = "dialog"
  /\ verdict[c] = "confirm"
  /\ confirmed' = confirmed \cup {c}
  /\ Move(c, "answered", "allow")
  /\ UNCHANGED <<callVars, hostVars, read, faults>>

Cancel(c) ==
  /\ place[c] = "dialog"
  /\ Move(c, "answered", verdict[c])
  /\ UNCHANGED <<callVars, hostVars, read, confirmed, faults>>

Resolve_Late(c) ==  \* mutant: the answer is taken whether it is awaited or not
  /\ place[c] = "answered"
  /\ pending' = pending \ {c}
  /\ stage' = [stage EXCEPT ![c] = IF verdict[c] = "allow" THEN "sent" ELSE "aborted"]
  /\ Move(c, "none", "none")
  /\ UNCHANGED <<request, hostVars, read, confirmed, faults>>

\* The wrapper hears the answer: it resolves the promise if there still is one, and
\* then sends what the page's object holds now, or throws.
Resolve(c) ==
  /\ place[c] = "answered"
  /\ pending' = pending \ {c}
  /\ stage' = IF c \in pending
       THEN [stage EXCEPT ![c] = IF verdict[c] = "allow" THEN "sent" ELSE "aborted"]
       ELSE stage
  /\ Move(c, "none", "none")
  /\ UNCHANGED <<request, hostVars, read, confirmed, faults>>

Expire_Never(c) == FALSE /\ UNCHANGED vars  \* mutant: no timer

\* The timer of ask(): the question, and the dialog, stay where they are.
Expire(c) ==
  /\ c \in pending
  /\ pending' = pending \ {c}
  /\ stage' = [stage EXCEPT ![c] = "aborted"]
  /\ UNCHANGED <<request, place, verdict, hostVars, read, confirmed, faults>>

Next ==
  \E c \in Calls :
    \/ \E r \in Requests : Fetch(c, r)
    \/ \E body \in Rewrites : Rewrite(c, body)
    \/ Relay(c) \/ Evaluate(c) \/ Inspect(c) \/ Present(c)
    \/ Release(c) \/ Cancel(c) \/ Resolve(c) \/ Expire(c)
    \/ Fail(c) \/ Lose(c)

Spec == Init /\ [][Next]_vars

\* Timers of a page run.  Nothing else has to: not the user, not the other parts.
FairSpec == Spec /\ \A c \in Calls : WF_vars(Expire(c))

----------------------------------------------------------------------------
(* What must hold. *)

\* The body that left is the one that was read, and enforce.js saw all of it.
Inspectable(c) ==
  /\ request[c].body = read[c]
  /\ Candidate(request[c])
  /\ read[c] \notin {"short", "distant", "opaque"}

\* Whatever the order of answers, timers and failures, and whatever the user clicks:
\* a text that was sent is one in which the host found nothing, or one it asked to
\* review and the user released.  A secret does not leave, and silence is no approval.
SentWasCleared ==
  \A c \in Calls : stage[c] = "sent" /\ Inspectable(c) =>
    \/ /\ judged[c] = "no_findings"
       /\ read[c] = "clean"
    \/ /\ judged[c] = "review"
       /\ c \in confirmed

\* No text leaves of which the journal of the host says nothing, at its limit too.
SentWasRecorded ==
  \A c \in Calls : stage[c] = "sent" /\ Inspectable(c) => c \in rows

\* A call is settled once: an answer after the timer, a click in a dialog left on the
\* screen, and a page that waits for nothing any more release nothing.
SettledOnce ==
  [][\A c \in Calls : stage[c] \in {"sent", "aborted"} => stage'[c] = stage[c]]_vars

\* "A missing content script must not hang the page forever" (inject.js:32): every
\* call is settled, whichever part is gone and whether or not the user answers.
EveryFetchSettles ==
  \A c \in Calls : stage[c] = "asking" ~> stage[c] \in {"sent", "aborted"}

\* "A multipart upload or a stream is reported as unreadable so it stops for
\* confirmation rather than passing as checked." (inject.js:40)
UnreadableIsConfirmed ==
  \A c \in Calls : stage[c] = "sent" /\ read[c] = "opaque" /\ Candidate(request[c])
    => c \in confirmed
=============================================================================
