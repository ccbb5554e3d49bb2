----------------------------- MODULE Detection ------------------------------
(***************************************************************************)
(* engine.analyze(): the findings of a snapshot, under the thresholds of   *)
(* rules.py.  A window of file accesses is moved over the accesses of one  *)
(* user, session and asset in the order of their times.  Each user of the  *)
(* model has one session.                                                  *)
(***************************************************************************)
EXTENDS Integers, FiniteSets, FiniteSetsExt, Functions

CONSTANT Config     \* RuleConfig

\* from_mapping(): what is no integer or out of range is refused, never clamped.
FromMapping(c) ==
  /\ c.window_seconds \in Nat \ {0}
  /\ c.distinct_file_threshold \in Nat \ {0, 1}
  /\ c.login_lookback_seconds \in Nat
  /\ c.sensitive_file_minimum \in 0..c.distinct_file_threshold
  /\ c.stale_asset_hours \in Nat \ {0}
  /\ c.identity_conditions \in {"any", "both"}

ASSUME DetectionAssumption == FromMapping(Config)

\* What the optional fields of a row amount to; "null" is unknown and never safe.
AssetMarks == {"critical", "exposed", "internal", "patched", "null"}
LoginMarks == {"failed", "approved", "one_condition", "both_conditions", "null"}
FileMarks == {"sensitive", "ordinary", "null"}

Finding(rule, priority, evidence) == [rule |-> rule, priority |-> priority, evidence |-> evidence]

AssetId(asset) == <<"asset", asset.asset>>

Exposed(asset) == asset.mark \in {"critical", "exposed"}

\* AS-001 and AS-005: what is not patched, and what is not known or too old.
AssetFindings(snapshot) ==
  {Finding("AS-001", CASE a.mark = "critical" -> "P1" [] a.mark = "exposed" -> "P2"
                       [] OTHER -> "P3", {AssetId(a)}) :
     a \in {a \in snapshot.assets : a.mark \in {"critical", "exposed", "internal"}}}
  \cup
  {Finding("AS-005", "P2", {AssetId(a)}) :
     a \in {a \in snapshot.assets :
              a.mark = "null" \/ snapshot.as_of - a.at > Config.stale_asset_hours}}

Logins(snapshot) == {e \in snapshot.events : e.type = "login" /\ e.mark # "failed"}

SuspiciousLogin(e) ==
  \/ e.mark = "both_conditions"
  \/ Config.identity_conditions = "any" /\ e.mark = "one_condition"

----------------------------------------------------------------------------
(* AS-003 and AS-004. *)

Reads(snapshot) == {e \in snapshot.events : e.type = "file_access"}
Groups(snapshot) == {<<e.actor, e.asset>> : e \in Reads(snapshot)}
ReadsOf(snapshot, g) == {e \in Reads(snapshot) : e.actor = g[1] /\ e.asset = g[2]}

Ids(events) == {e.id : e \in events}
Files(window) == {e.file : e \in window}

\* reads.sort(): by time.  Which of two at one time is first is the same every time.
InOrder(reads) ==
  CHOOSE s \in Bijection(1..Cardinality(reads), reads) :
    \A i, j \in DOMAIN s : i < j => s[i].at <= s[j].at

Slide_Short(acc, s, i) ==  \* mutant: an access as old as the window is long is let go
  LET first == Min({j \in acc.first..i : s[i].at - s[j].at < Config.window_seconds})
      window == {s[j] : j \in first..i}
  IN [first |-> first,
      best |-> IF Cardinality(Files(window)) > Cardinality(Files(acc.best))
               THEN window ELSE acc.best]

\* One more access, s[i]: from the left those too old leave, up to the first that is not,
\* and the first window with most files is kept.
Slide(acc, s, i) ==
  LET first == Min({j \in acc.first..i : s[i].at - s[j].at <= Config.window_seconds})
      window == {s[j] : j \in first..i}
  IN [first |-> first,
      best |-> IF Cardinality(Files(window)) > Cardinality(Files(acc.best))
               THEN window ELSE acc.best]

\* The loop over all n accesses.
Sweep(s, n) ==
  LET slid[i \in 0..n] == IF i = 0 THEN [first |-> 1, best |-> {}] ELSE Slide(slid[i - 1], s, i)
  IN slid[n]

Best(reads) == Sweep(InOrder(reads), Cardinality(reads)).best

IsBulk(window) == Cardinality(Files(window)) >= Config.distinct_file_threshold

Sensitive(window) == Files({e \in window : e.mark = "sensitive"})

Start(window) == Min({e.at : e \in window})

\* Successful logins of the user in the time before a window, and the latest of them.
Eligible(snapshot, g, window) ==
  {e \in Logins(snapshot) :
     /\ e.actor = g[1]
     /\ Start(window) - e.at \in 0..Config.login_lookback_seconds}
LatestOf(logins) == CHOOSE e \in logins : \A o \in logins : o.at <= e.at

\* The assets through which a login leads to a window worth an alarm.
Gateways(snapshot, login, window) ==
  IF SuspiciousLogin(login) /\ Cardinality(Sensitive(window)) >= Config.sensitive_file_minimum
  THEN {a \in snapshot.assets : a.asset = login.asset /\ Exposed(a)}
  ELSE {}

Correlation(snapshot, g, window) ==
  LET eligible == Eligible(snapshot, g, window)
      login == LatestOf(eligible)
  IN IF eligible = {} THEN {}
     ELSE {Finding("AS-004", "P1", {AssetId(a), login.id} \cup Ids(window)) :
             a \in Gateways(snapshot, login, window)}

EventFindings(snapshot) ==
  {Finding("AS-002", "P2", {e.id}) : e \in {e \in Logins(snapshot) : SuspiciousLogin(e)}}
  \cup UNION {
    LET window == Best(ReadsOf(snapshot, g))
    IN IF ~IsBulk(window) THEN {}
       ELSE {Finding("AS-003", "P2", Ids(window))} \cup Correlation(snapshot, g, window)
    : g \in Groups(snapshot)}

Analyze(snapshot) == AssetFindings(snapshot) \cup EventFindings(snapshot)

----------------------------------------------------------------------------
(* What the findings must be. *)

\* What normalize() makes of the events of any document: each has a time, and an id of its
\* own.
Legible(events) ==
  /\ IsFiniteSet(events)
  /\ \A e \in events : e.at \in Int
  /\ \A e, o \in events : e.id = o.id => e = o

\* The accesses of a group in the window that ends with one of them.
WindowOf(reads, last) ==
  {e \in reads : e.at \in (last.at - Config.window_seconds)..last.at}

\* There is a finding for a group exactly if some window of it has enough files.
FindsEveryBulk(snapshot) ==
  \A g \in Groups(snapshot) :
    LET reads == ReadsOf(snapshot, g)
    IN (\E e \in reads : IsBulk(WindowOf(reads, e)))
       <=> \E f \in Analyze(snapshot) : f.rule = "AS-003" /\ f.evidence \subseteq Ids(reads)

\* And its evidence is of one window, of a group none of whose windows has more files.
EvidenceOfOneWindow(snapshot) ==
  \A f \in {f \in Analyze(snapshot) : f.rule = "AS-003"} :
    \E g \in Groups(snapshot) :
      LET reads == ReadsOf(snapshot, g)
          shown == {e \in reads : e.id \in f.evidence}
      IN /\ f.evidence = Ids(shown)
         /\ \E e \in reads : shown \subseteq WindowOf(reads, e)
         /\ \A e \in reads : Cardinality(Files(WindowOf(reads, e))) <= Cardinality(Files(shown))

\* A correlation has one login, a suspicious one of the user who made the accesses, before
\* all of them and through an exposed asset.
CorrelatesInOrder(snapshot) ==
  \A f \in {f \in Analyze(snapshot) : f.rule = "AS-004"} :
    \E login \in Logins(snapshot), a \in snapshot.assets, window \in SUBSET snapshot.events :
      /\ f.evidence = {AssetId(a), login.id} \cup Ids(window)
      /\ IsBulk(window)
      /\ SuspiciousLogin(login) /\ a.asset = login.asset /\ Exposed(a)
      /\ \A e \in window :
           /\ e.type = "file_access" /\ e.actor = login.actor
           /\ e.at - login.at \in 0..(Config.login_lookback_seconds + Config.window_seconds)

Exact(snapshot) ==
  FindsEveryBulk(snapshot) /\ EvidenceOfOneWindow(snapshot) /\ CorrelatesInOrder(snapshot)
=============================================================================
