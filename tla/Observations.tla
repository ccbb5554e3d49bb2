----------------------------- MODULE Observations -----------------------------
(***************************************************************************)
(* The analysis of what collectors report: control/analytics.py, with the  *)
(* assets that posture.py and control/vpn.py find at risk.                 *)
(*                                                                         *)
(* A keyed token is what it was made of.  Every observation of the model   *)
(* is of one organization.                                                 *)
(***************************************************************************)
EXTENDS Integers, FiniteSets, FiniteSetsExt

CONSTANTS
  Age,            \* 30 days: what is older is refused
  Ahead,          \* a minute: what is later is refused
  Day,            \* 24 hours
  Session,        \* an hour: how far a login reaches
  Burst,          \* ten minutes: of failed logins, and between transfers
  Transfers,      \* transfers in a day that make a case
  Failures,       \* failed logins before a success that make a case
  EvidenceLimit,  \* 32: ids that a case shows
  Hash(_)         \* the keyed token of an id; only their order matters

ASSUME ObservationsAssumption ==
  /\ {Age, Ahead, Day, Session, Burst} \subseteq Nat
  /\ Transfers \in Nat \ {0} /\ Failures \in Nat \ {0} /\ EvidenceLimit \in Nat \ {0}

LoginKinds == {"vpn_login", "idp_login"}
EventKinds == LoginKinds \cup {"file_read", "egress", "privilege_change", "collector_heartbeat"}
Secret == {"confidential", "restricted"}
None == "null"

\* "weak" is a privileged login without a second factor or on a device nobody trusts.
Event ==
  [id: STRING, source: STRING, at: Int, kind: EventKinds,
   result: {"success", "failure", "blocked", "unknown"},
   actor: STRING, session: STRING, asset: STRING, weak: BOOLEAN,
   target_type: {"organization", "personal", "unknown"},
   class: {"public", "internal", "confidential", "restricted", "unknown"}]

\* timestamp().
InTime(at, now) == at \in (now - Age)..(now + Ahead)

\* normalize(): what a collector may report.
Reportable(e, now) == e \in Event /\ InTime(e.at, now) /\ e.actor # None

----------------------------------------------------------------------------
(* analyze(), for one actor. *)

\* A case as it is found.
Case(rule, group) == [rule |-> rule, evidence |-> group]

Outside(e) == e.kind = "egress" /\ e.target_type # "organization" /\ e.result # "blocked"

SensitiveEgress(recent) ==
  LET found == {e \in recent : Outside(e) /\ e.class \in Secret}
  IN IF found = {} THEN {} ELSE {Case("AN-SENSITIVE-EGRESS", found)}

Times(events) == {e.at : e \in events}

LowSlow_LastGap(recent) ==  \* mutant: the last transfer has to be apart from the others
  LET found == {e \in recent : Outside(e) /\ e.class \in Secret \cup {"internal"}}
      last == Max(Times(found))
  IN IF Cardinality(found) >= Transfers
        /\ Cardinality({e \in found : last - e.at < Burst}) = 1
     THEN {Case("AN-LOW-SLOW", found)} ELSE {}

LowSlow(recent) ==
  LET found == {e \in recent : Outside(e) /\ e.class \in Secret \cup {"internal"}}
  IN IF Cardinality(found) >= Transfers /\ Max(Times(found)) - Min(Times(found)) >= Burst
     THEN {Case("AN-LOW-SLOW", found)} ELSE {}

LoginAfterFailures(group, login) ==
  LET failed == {e \in group : e.kind \in LoginKinds /\ e.result = "failure"
                                 /\ login.at - e.at \in 1..Burst
                                 /\ e.source = login.source}
  IN IF Cardinality(failed) >= Failures
     THEN {Case("AN-LOGIN-AFTER-FAILURES", failed \cup {login})} ELSE {}

\* From a weak login over an asset at risk to secret files, and out with them.
DataPath(group, login, risky) ==
  LET after == {e \in group : e.session = login.session /\ e.at - login.at \in 0..Session}
      reads == {e \in after : e.kind = "file_read" /\ e.result = "success" /\ e.class \in Secret}
      egress == {e \in after : Outside(e) /\ e.class \in Secret}
  IN IF login.asset \in risky /\ login.weak /\ login.session # None /\ reads # {}
     THEN {Case("AN-VPN-PRIVILEGE-DATA-PATH",
                {login} \cup reads \cup {e \in egress : e.at >= Min(Times(reads))})}
     ELSE {}

ActorCases(group, risky, now) ==
  LET recent == {e \in group : e.at >= now - Day}
      logins == {e \in group : e.kind \in LoginKinds /\ e.result = "success"}
  IN SensitiveEgress(recent) \cup LowSlow(recent)
     \cup UNION {LoginAfterFailures(group, l) \cup DataPath(group, l, risky) : l \in logins}

\* One event out of time, and there is no analysis.
AnalysisRefused(events, now) == \E e \in events : ~InTime(e.at, now)

Cases(events, risky, now) ==
  UNION {ActorCases({e \in events : e.actor = a}, risky, now) : a \in {e.actor : e \in events}}

----------------------------------------------------------------------------
(* case(): a case as it is shown. *)

\* The ids of a case are in the order of its events; a data path has its login first, then
\* what was read, then what left.
Stage(e) == IF e.kind \in LoginKinds THEN 0 ELSE IF e.kind = "file_read" THEN 1 ELSE 2
Precedes(e, f) ==
  \/ Stage(e) < Stage(f)
  \/ Stage(e) = Stage(f) /\ e.at < f.at
  \/ Stage(e) = Stage(f) /\ e.at = f.at /\ Hash(e.id) < Hash(f.id)

First(group) ==
  {e \in group : Cardinality({f \in group \ {e} : Precedes(f, e)}) < EvidenceLimit}

Presented(c) ==
  [rule |-> c.rule, evidence |-> First(c.evidence), count |-> Cardinality(c.evidence),
   truncated |-> Cardinality(c.evidence) > EvidenceLimit,
   first_at |-> Min(Times(c.evidence)), last_at |-> Max(Times(c.evidence))]

----------------------------------------------------------------------------
(* posture.assess() and assess_vpn(). *)

\* Versions are positive numbers here.
NoVersion == 0  \* one that is missing or cannot be compared

Comparable(asset, advisory) ==
  /\ NoVersion \notin {asset.version, advisory.introduced, advisory.fixed}
  /\ advisory.introduced < advisory.fixed

Candidates(asset, posture) == {v \in posture.advisories : v.product = asset.product}

Matches(asset, posture) ==
  {v \in Candidates(asset, posture) :
     /\ Comparable(asset, v)
     /\ v.introduced <= asset.version /\ asset.version < v.fixed}

\* When the list of exploited vulnerabilities was fetched, or else published.  A posture
\* has at most one time of the fetch.
KevTime(posture) == IF posture.fetched = {} THEN posture.published ELSE Max(posture.fetched)

\* What keeps an asset without a match from being "no match".
Unknown(asset, posture, now) ==
  \/ Candidates(asset, posture) = {}
  \/ \E v \in Candidates(asset, posture) : ~Comparable(asset, v)
  \/ now - posture.observed_at > Day
  \/ now - posture.advised_at > 2 * Day \/ now - KevTime(posture) > 2 * Day
  \/ None \in {asset.exposed, asset.privileged, asset.sensitive}

Status(asset, posture, now) ==
  IF Matches(asset, posture) # {} THEN "affected"
  ELSE IF Unknown(asset, posture, now) THEN "unknown" ELSE "no_match_in_supplied_ranges"

Urgent(asset, posture) ==
  /\ Matches(asset, posture) # {}
  /\ asset.exposed = "true"
  /\ asset.sensitive = "true" \/ \E v \in Matches(asset, posture) : v.cve \in posture.kev

\* Inventory, advisories and list from the future, a fetch before the publication, and
\* what timestamp() refuses of the fetch and of the controls.
PostureRefused(posture, now) ==
  \/ \E t \in {posture.observed_at, posture.advised_at, posture.published} : t > now + Ahead
  \/ \E t \in posture.fetched \cup posture.controls : ~InTime(t, now)
  \/ \E t \in posture.fetched : posture.published > t + Ahead

\* What the service makes of the findings for analyze().
RiskyAssets(posture, now) ==
  {a.id : a \in {a \in posture.assets :
                   Status(a, posture, now) = "affected" /\ Urgent(a, posture)}}
=============================================================================
