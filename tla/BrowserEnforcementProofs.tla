----------------------- MODULE BrowserEnforcementProofs ----------------------
(***************************************************************************)
(* Theorems about BrowserEnforcement, for any set of calls, any requests   *)
(* and rewrites, any limit of the host's journal and any number of         *)
(* failures.                                                               *)
(*                                                                         *)
(* A question changes hands five times between the body that was read and  *)
(* the body that leaves, so what must hold of a call that was sent has to  *)
(* be carried along: the inductive invariant says, for each place a        *)
(* question can be at, what its verdict already rests on.                  *)
(***************************************************************************)
EXTENDS BrowserEnforcement, TLAPS

----------------------------------------------------------------------------
(* The inductive invariant. *)

\* The wrapper waits for a call exactly as long as it is not settled.
PendingInv == pending = {c \in Calls : stage[c] = "asking"}

\* A call that was not made has no question and no finding; a call that was sent has no
\* question any more.
QuestionInv ==
  \A c \in Calls :
    /\ stage[c] = "new" => judged[c] = "none"
    /\ stage[c] \in {"new", "sent"} => place[c] = "none"

\* What the host found is what there is in the text that was read, and it is recorded.
JudgedInv ==
  \A c \in Calls : judged[c] # "none" =>
    judged[c] = Decision(ExtractText(read[c])) /\ c \in rows

\* A text that is a question for the host: the address is recognised, the body read whole.
Asked(c) == Candidate(request[c]) /\ read[c] \notin {"short", "distant", "opaque"}

\* What a call rests on that may leave.
Cleared(c) == judged[c] = "no_findings" \/ (judged[c] = "review" /\ c \in confirmed)

\* The verdict of a question rests on what the host found and on what the user clicked.
VerdictInv ==
  \A c \in Calls : Asked(c) =>
    /\ place[c] \in {"judged", "dialog", "answered"} /\ verdict[c] = "allow" => Cleared(c)
    /\ place[c] \in {"judged", "dialog"} /\ verdict[c] = "confirm" => judged[c] = "review"
    /\ stage[c] = "sent" => Cleared(c)

IInv == TypeOK /\ PendingInv /\ QuestionInv /\ JudgedInv /\ VerdictInv

----------------------------------------------------------------------------
(* What is decided of a text. *)

\* The native host always decides.
LEMMA HostDecides ==
  ASSUME NEW text
  PROVE  Decision(text) \in Decisions \ {"none"}
BY DEF Decision, Decisions

\* Only a decision without findings lets a text pass, and only "review" asks the user.
LEMMA DecideIsStrict ==
  ASSUME NEW decision
  PROVE  /\ Decide(decision) \in Verdicts \ {"none"}
         /\ Decide(decision) = "allow" => decision = "no_findings"
         /\ Decide(decision) = "confirm" => decision = "review"
BY DEF Decide, Verdicts

----------------------------------------------------------------------------
(* The steps of a question.  What is said of other calls is left as it was. *)

\* A new call has a question of which nothing is known.
LEMMA FetchKeeps ==
  ASSUME IInv, NEW c \in Calls, NEW r \in Requests, Fetch(c, r)
  PROVE  IInv'
<1>1. TypeOK'
  BY BrowserAssumption DEF IInv, Fetch, TypeOK, Move, hostVars, Request, Stages,
                           Places, Verdicts
<1>2. PendingInv'
  BY DEF IInv, Fetch, TypeOK, PendingInv
<1>3. QuestionInv'
  BY DEF IInv, Fetch, TypeOK, QuestionInv, Move, hostVars
<1>4. JudgedInv'
  BY DEF IInv, Fetch, QuestionInv, JudgedInv, hostVars
<1>5. VerdictInv'
  BY DEF IInv, Fetch, TypeOK, VerdictInv, Asked, Cleared, Move, hostVars
<1> QED BY <1>1, <1>2, <1>3, <1>4, <1>5 DEF IInv

\* What the page changes is not what was read, and the address stays.
LEMMA RewriteKeeps ==
  ASSUME IInv, NEW c \in Calls, NEW body \in Rewrites, Rewrite(c, body)
  PROVE  IInv'
<1>1. TypeOK'
  BY BrowserAssumption DEF IInv, Rewrite, TypeOK, hostVars, Request
<1>2. PendingInv'
  BY DEF IInv, Rewrite, PendingInv
<1>3. QuestionInv'
  BY DEF IInv, Rewrite, QuestionInv, hostVars
<1>4. JudgedInv'
  BY DEF IInv, Rewrite, JudgedInv, hostVars
<1>5. VerdictInv'
  BY DEF IInv, Rewrite, VerdictInv, Asked, Cleared, Candidate, hostVars
<1> QED BY <1>1, <1>2, <1>3, <1>4, <1>5 DEF IInv

\* The content script hands the question on.
LEMMA RelayKeeps ==
  ASSUME IInv, NEW c \in Calls, Relay(c)
  PROVE  IInv'
<1>1. TypeOK'
  BY DEF IInv, Relay, TypeOK, Move, callVars, hostVars, Places, Verdicts
<1>2. PendingInv'
  BY DEF IInv, Relay, PendingInv, callVars
<1>3. QuestionInv'
  BY DEF IInv, Relay, QuestionInv, Move, callVars, hostVars
<1>4. JudgedInv'
  BY DEF IInv, Relay, JudgedInv, hostVars
<1>5. VerdictInv'
  BY DEF IInv, Relay, VerdictInv, Asked, Cleared, Move, callVars, hostVars
<1> QED BY <1>1, <1>2, <1>3, <1>4, <1>5 DEF IInv

\* The worker lets pass what is no question for the host.
LEMMA EvaluateKeeps ==
  ASSUME IInv, NEW c \in Calls, Evaluate(c)
  PROVE  IInv'
<1>1. TypeOK'
  <2>1. /\ UNCHANGED <<callVars, hostVars, read, confirmed, faults>>
        /\ Move(c, "judged", "allow") \/ Move(c, "host", "none")
    BY DEF Evaluate
  <2> QED BY <2>1 DEF IInv, TypeOK, Move, callVars, hostVars, Places, Verdicts
<1>2. PendingInv'
  BY DEF IInv, Evaluate, PendingInv, callVars
<1>3. QuestionInv'
  BY DEF IInv, Evaluate, TypeOK, QuestionInv, Move, callVars, hostVars
<1>4. JudgedInv'
  BY DEF IInv, Evaluate, JudgedInv, hostVars
<1>5. VerdictInv'
  BY DEF IInv, Evaluate, TypeOK, VerdictInv, Asked, Cleared, Move, callVars, hostVars,
         ExtractText, ReadBody, Unreadable, Bodies
<1> QED BY <1>1, <1>2, <1>3, <1>4, <1>5 DEF IInv

\* The host records before it answers.
LEMMA InspectKeeps ==
  ASSUME IInv, NEW c \in Calls, Inspect(c)
  PROVE  IInv'
<1>1. TypeOK'
  <2>1. UNCHANGED <<callVars, read, confirmed, faults>>
    BY DEF Inspect
  <2>2. CASE Cardinality(rows) < Limit
    <3>1. /\ judged' = [judged EXCEPT ![c] = Decision(ExtractText(read[c]))]
          /\ rows' = rows \cup {c}
          /\ Move(c, "judged", Decide(judged'[c]))
      BY <2>2 DEF Inspect
    <3> QED BY <2>1, <3>1, HostDecides, DecideIsStrict DEF IInv, TypeOK, Move,
                                                           callVars, Places
  <2>3. CASE ~(Cardinality(rows) < Limit)
    <3>1. UNCHANGED hostVars /\ Move(c, "judged", Decide("none"))
      BY <2>3 DEF Inspect
    <3> QED BY <2>1, <3>1, DecideIsStrict DEF IInv, TypeOK, Move, callVars, hostVars,
                                              Places
  <2> QED BY <2>2, <2>3
<1>2. PendingInv'
  BY DEF IInv, Inspect, PendingInv, callVars
<1>3. QuestionInv'
  BY DEF IInv, Inspect, TypeOK, QuestionInv, Move, callVars, hostVars
<1>4. JudgedInv'
  BY DEF IInv, Inspect, TypeOK, JudgedInv, hostVars
<1>5. VerdictInv'
  BY DecideIsStrict DEF IInv, Inspect, TypeOK, JudgedInv, VerdictInv, Asked, Cleared,
                        Move, callVars, hostVars
<1> QED BY <1>1, <1>2, <1>3, <1>4, <1>5 DEF IInv

\* An error is a verdict that blocks.
LEMMA FailKeeps ==
  ASSUME IInv, NEW c \in Calls, Fail(c)
  PROVE  IInv'
<1>1. TypeOK'
  BY BrowserAssumption, DecideIsStrict DEF IInv, Fail, TypeOK, Move, callVars, Places
<1>2. PendingInv'
  BY DEF IInv, Fail, PendingInv, callVars
<1>3. QuestionInv'
  BY DEF IInv, Fail, QuestionInv, Move, callVars
<1>4. JudgedInv'
  BY DEF IInv, Fail, JudgedInv
<1>5. VerdictInv'
  BY DecideIsStrict DEF IInv, Fail, TypeOK, VerdictInv, Asked, Cleared, Move, callVars
<1> QED BY <1>1, <1>2, <1>3, <1>4, <1>5 DEF IInv

\* A question that is lost has no verdict.
LEMMA LoseKeeps ==
  ASSUME IInv, NEW c \in Calls, Lose(c)
  PROVE  IInv'
<1>1. TypeOK'
  BY BrowserAssumption DEF IInv, Lose, TypeOK, Move, callVars, hostVars, Places,
                           Verdicts
<1>2. PendingInv'
  BY DEF IInv, Lose, PendingInv, callVars
<1>3. QuestionInv'
  BY DEF IInv, Lose, QuestionInv, Move, callVars, hostVars
<1>4. JudgedInv'
  BY DEF IInv, Lose, JudgedInv, hostVars
<1>5. VerdictInv'
  BY DEF IInv, Lose, VerdictInv, Asked, Cleared, Move, callVars, hostVars
<1> QED BY <1>1, <1>2, <1>3, <1>4, <1>5 DEF IInv

\* Only a verdict that allows goes past the user.
LEMMA PresentKeeps ==
  ASSUME IInv, NEW c \in Calls, Present(c)
  PROVE  IInv'
<1>1. TypeOK'
  BY DEF IInv, Present, TypeOK, Move, callVars, hostVars, Places
<1>2. PendingInv'
  BY DEF IInv, Present, PendingInv, callVars
<1>3. QuestionInv'
  BY DEF IInv, Present, QuestionInv, Move, callVars, hostVars
<1>4. JudgedInv'
  BY DEF IInv, Present, JudgedInv, hostVars
<1>5. VerdictInv'
  BY DEF IInv, Present, VerdictInv, Asked, Cleared, Move, callVars, hostVars
<1> QED BY <1>1, <1>2, <1>3, <1>4, <1>5 DEF IInv

\* The user releases what the host asked to review.
LEMMA ReleaseKeeps ==
  ASSUME IInv, NEW c \in Calls, Release(c)
  PROVE  IInv'
<1>1. TypeOK'
  BY DEF IInv, Release, TypeOK, Move, callVars, hostVars, Places, Verdicts
<1>2. PendingInv'
  BY DEF IInv, Release, PendingInv, callVars
<1>3. QuestionInv'
  BY DEF IInv, Release, QuestionInv, Move, callVars, hostVars
<1>4. JudgedInv'
  BY DEF IInv, Release, JudgedInv, hostVars
<1>5. VerdictInv'
  BY DEF IInv, Release, VerdictInv, Asked, Cleared, Move, callVars, hostVars
<1> QED BY <1>1, <1>2, <1>3, <1>4, <1>5 DEF IInv

\* A dialog that is cancelled keeps its verdict.
LEMMA CancelKeeps ==
  ASSUME IInv, NEW c \in Calls, Cancel(c)
  PROVE  IInv'
<1>1. TypeOK'
  BY DEF IInv, Cancel, TypeOK, Move, callVars, hostVars, Places
<1>2. PendingInv'
  BY DEF IInv, Cancel, PendingInv, callVars
<1>3. QuestionInv'
  BY DEF IInv, Cancel, QuestionInv, Move, callVars, hostVars
<1>4. JudgedInv'
  BY DEF IInv, Cancel, JudgedInv, hostVars
<1>5. VerdictInv'
  BY DEF IInv, Cancel, VerdictInv, Asked, Cleared, Move, callVars, hostVars
<1> QED BY <1>1, <1>2, <1>3, <1>4, <1>5 DEF IInv

\* A call is sent on a verdict that allows, if it is still awaited.
LEMMA ResolveKeeps ==
  ASSUME IInv, NEW c \in Calls, Resolve(c)
  PROVE  IInv'
<1>1. TypeOK'
  BY DEF IInv, Resolve, TypeOK, Move, hostVars, Stages, Places, Verdicts
<1>2. PendingInv'
  BY DEF IInv, Resolve, TypeOK, PendingInv
<1>3. QuestionInv'
  BY DEF IInv, Resolve, TypeOK, QuestionInv, Move, hostVars
<1>4. JudgedInv'
  BY DEF IInv, Resolve, JudgedInv, hostVars
<1>5. VerdictInv'
  BY DEF IInv, Resolve, VerdictInv, Asked, Cleared, Move, hostVars
<1> QED BY <1>1, <1>2, <1>3, <1>4, <1>5 DEF IInv

\* A call that nobody answers is given up.
LEMMA ExpireKeeps ==
  ASSUME IInv, NEW c \in Calls, Expire(c)
  PROVE  IInv'
<1>1. TypeOK'
  BY DEF IInv, Expire, TypeOK, hostVars, Stages
<1>2. PendingInv'
  BY DEF IInv, Expire, TypeOK, PendingInv
<1>3. QuestionInv'
  BY DEF IInv, Expire, QuestionInv, hostVars
<1>4. JudgedInv'
  BY DEF IInv, Expire, JudgedInv, hostVars
<1>5. VerdictInv'
  BY DEF IInv, Expire, VerdictInv, Asked, Cleared, hostVars
<1> QED BY <1>1, <1>2, <1>3, <1>4, <1>5 DEF IInv

----------------------------------------------------------------------------
(* The theorems. *)

LEMMA InitHolds == Init => IInv
BY BrowserAssumption DEF Init, IInv, TypeOK, PendingInv, QuestionInv, JudgedInv,
                         VerdictInv, Stages, Places, Verdicts, Decisions, NoRequest,
                         Request, Targets, Bodies

LEMMA StepHolds == IInv /\ [Next]_vars => IInv'
<1> SUFFICES ASSUME IInv, [Next]_vars PROVE IInv'
  OBVIOUS
<1>1. CASE UNCHANGED vars
  BY <1>1 DEF IInv, vars, callVars, hostVars, TypeOK, PendingInv, QuestionInv,
              JudgedInv, VerdictInv, Asked, Cleared
<1>2. ASSUME NEW c \in Calls, NEW r \in Requests, Fetch(c, r) PROVE IInv'
  BY <1>2, FetchKeeps
<1>3. ASSUME NEW c \in Calls, NEW body \in Rewrites, Rewrite(c, body) PROVE IInv'
  BY <1>3, RewriteKeeps
<1>4. ASSUME NEW c \in Calls, Relay(c) \/ Evaluate(c) \/ Inspect(c) \/ Present(c)
      PROVE  IInv'
  BY <1>4, RelayKeeps, EvaluateKeeps, InspectKeeps, PresentKeeps
<1>5. ASSUME NEW c \in Calls, Release(c) \/ Cancel(c) \/ Resolve(c) \/ Expire(c)
      PROVE  IInv'
  BY <1>5, ReleaseKeeps, CancelKeeps, ResolveKeeps, ExpireKeeps
<1>6. ASSUME NEW c \in Calls, Fail(c) \/ Lose(c) PROVE IInv'
  BY <1>6, FailKeeps, LoseKeeps
<1> QED BY <1>1, <1>2, <1>3, <1>4, <1>5, <1>6 DEF Next

\* Where a question is and what its verdict rests on agree with what the host found, in
\* every reachable state of any instance.
THEOREM Invariance == Spec => []IInv
BY InitHolds, StepHolds, PTL DEF Spec

\* The state always has the types of the model (TypeOK), parts that fail included.
THEOREM TypeCorrect == Spec => []TypeOK
<1>1. IInv => TypeOK
  BY DEF IInv
<1> QED BY <1>1, Invariance, PTL

\* A text that was sent is one the host found nothing in, or one the user released, in
\* whatever order answers, clicks, timers and failures come (SentWasCleared).
THEOREM SentIsCleared == Spec => []SentWasCleared
<1>1. IInv => SentWasCleared
  <2> SUFFICES ASSUME IInv, NEW c \in Calls, stage[c] = "sent", Inspectable(c)
               PROVE  \/ judged[c] = "no_findings" /\ read[c] = "clean"
                      \/ judged[c] = "review" /\ c \in confirmed
    BY DEF SentWasCleared
  <2>1. Asked(c) /\ Cleared(c)
    BY DEF IInv, VerdictInv, Asked, Inspectable
  <2>2. judged[c] = "no_findings" => read[c] = "clean"
    BY <2>1 DEF IInv, JudgedInv, TypeOK, Asked, Decision, ExtractText, Unreadable,
                Bodies
  <2> QED BY <2>1, <2>2 DEF Cleared
<1> QED BY <1>1, Invariance, PTL

\* The journal of the host has a row of every such text, at its limit and after failures
\* too (SentWasRecorded).
THEOREM SentIsRecorded == Spec => []SentWasRecorded
<1>1. IInv => SentWasRecorded
  BY DEF IInv, VerdictInv, JudgedInv, Asked, Cleared, Inspectable, SentWasRecorded
<1> QED BY <1>1, Invariance, PTL

\* A call that was sent or given up stays so, whatever answer or click comes afterwards
\* (SettledOnce).
THEOREM SettledForGood == Spec => SettledOnce
<1>1. IInv /\ [Next]_vars =>
        [\A c \in Calls : stage[c] \in {"sent", "aborted"} => stage'[c] = stage[c]]_vars
  BY DEF Next, IInv, TypeOK, PendingInv, callVars, Fetch, Rewrite, Relay, Evaluate,
         Inspect, Fail, Lose, Present, Release, Cancel, Resolve, Expire
<1> QED BY <1>1, Invariance, PTL DEF Spec, SettledOnce
=============================================================================
