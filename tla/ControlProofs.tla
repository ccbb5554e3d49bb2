---------------------------- MODULE ControlProofs ----------------------------
(***************************************************************************)
(* Theorems about Control and the analysis it shows, for any number of     *)
(* threads, events, bundles and faults, and any thresholds.                *)
(*                                                                         *)
(* Three things carry them.  A request under way rests on what was checked *)
(* before (Sound): consent and label before the files, each finding on its *)
(* own file, and all of them before a reservation.  The index of events    *)
(* misses only what was deleted from it by hand (StoreInv), so its limit   *)
(* is the journal's but for that.  And every rule of the analysis grows    *)
(* with the events (CasesGrow), and with the rule what is shown of it      *)
(* (PresentedGrows).                                                       *)
(***************************************************************************)
EXTENDS Control, FiniteSetTheorems, WellFoundedInduction, SequenceTheorems, TLAPS

----------------------------------------------------------------------------
(* The inductive invariant. *)

Active == {r \in Slots : slot[r] # Idle}

Releasable(id) ==
  LET bundle == Bundles[id] IN
  /\ bundle.consent /\ bundle.label # NoLabel
  /\ bundle.label.claim = Claim(id, Content(bundle))
  /\ {"secret", "personal"} \cap bundle.question = {}
  /\ \A doc \in ToSet(bundle.docs) : Clean(doc)

\* What was checked before the files are read.
Consented(id) ==
  LET bundle == Bundles[id] IN
  bundle.consent /\ (bundle.label = NoLabel \/ bundle.label.claim = Claim(id, Content(bundle)))

\* What was found so far is what was found in the first files, in their order, whatever
\* became of the workers.
Outcomes == Ends \cup {"killed", "timed out"}
Inspected(found, docs) ==
  /\ Len(found) <= Len(docs)
  /\ \A i \in 1..Len(found) : \E end \in Outcomes : found[i] = Inspect(docs[i], end)

\* What a request rests on at each stage.
Sound(s) ==
  LET bundle == Bundles[s.input.id] IN
  /\ s.stage = "receiving" => s.found = <<>> /\ s.child = "none"
  /\ s.stage = "scanning" =>
       /\ s.input.path \in {"/api/check", "/api/send", "/api/preview"}
       /\ Inspected(s.found, bundle.docs)
       /\ s.input.path = "/api/send" => Consented(s.input.id)
  /\ s.child # "none" => s.stage = "scanning" /\ Len(s.found) < Len(bundle.docs)
  /\ s.stage \in {"reserved", "delivered"} =>
       s.input.path = "/api/send" /\ Releasable(s.input.id)

ServerInv ==
  /\ slot \in [Slots -> Slot \cup {Idle}]
  /\ \A r \in Slots : slot[r] # Idle => Sound(slot[r])
  /\ IsFiniteSet(Active) /\ busy = Cardinality(Active) /\ busy <= BusyLimit

\* The index holds what the journal holds of events but for what was deleted by hand, or
\* more, and never too much.
StoreInv ==
  /\ IsFiniteSet(observed) /\ IsFiniteSet(index) /\ IsFiniteSet(lost)
  /\ \A row \in observed :
       row.event \in RawEvents /\ row.event \in Event /\ row.at \in 0..MaxTime
  /\ index \subseteq RawEvents \cap Event /\ lost \subseteq RawEvents
  /\ \A row, other \in observed : row.event.id = other.event.id => row = other
  /\ \A e, f \in index \cup Events : e.id = f.id => e = f
  /\ Events \subseteq index \cup lost
  /\ Cardinality(index) <= EventLimit

ClockInv ==
  /\ now \in 0..MaxTime /\ up \in BOOLEAN
  /\ asked \in 0..MaxRequests /\ faults \in 0..MaxFaults

SentInv == \A id \in sent : id \in DOMAIN Bundles /\ Releasable(id)

IInv == ServerInv /\ StoreInv /\ ClockInv /\ SentInv

----------------------------------------------------------------------------
(* Finite sets of numbers. *)

\* A finite set of numbers has a greatest one: of the sets of the numbers above each, one
\* has no smaller.
LEMMA MaxIs ==
  ASSUME NEW S \in SUBSET Int, IsFiniteSet(S), S # {}
  PROVE  Max(S) \in S /\ \A y \in S : Max(S) >= y
<1> DEFINE Above(x) == {y \in S : y > x}
           T == {Above(x) : x \in S}
<1>1. T \subseteq FiniteSubsetsOf(S)
  <2>1. T \subseteq SUBSET S
    OBVIOUS
  <2> QED BY <2>1, FS_FiniteSubsetsOfFinite
<1>2. T # {}
  OBVIOUS
<1>3. PICK u \in T : \A v \in T : <<v, u>> \notin StrictSubsetOrdering(S)
  <2> HIDE DEF T
  <2> QED BY <1>1, <1>2, FS_StrictSubsetOrderingWellFounded, WFMin
<1>4. PICK x \in S : u = Above(x)
  OBVIOUS
<1>5. ASSUME NEW y \in S, y > x PROVE FALSE
  <2>0. \A z \in S : (z > y => z > x) /\ ~(y > y)
    BY <1>5
  <2>1. Above(y) \subseteq Above(x) /\ y \in Above(x) /\ y \notin Above(y)
    BY <1>5, <2>0
  <2>2. Above(y) \in SUBSET S /\ Above(x) \in SUBSET S
    OBVIOUS
  <2> HIDE DEF Above
  <2>3. <<Above(y), Above(x)>> \in StrictSubsetOrdering(S)
    BY <2>1, <2>2 DEF StrictSubsetOrdering
  <2>4. Above(y) \in T
    OBVIOUS
  <2> QED BY <1>3, <1>4, <2>3, <2>4
<1>6. \A y \in S : x >= y
  BY <1>5
<1> QED BY <1>6 DEF Max

\* And a least one.
LEMMA MinIs ==
  ASSUME NEW S \in SUBSET Int, IsFiniteSet(S), S # {}
  PROVE  Min(S) \in S /\ \A y \in S : Min(S) <= y
<1> DEFINE Below(x) == {y \in S : y < x}
           T == {Below(x) : x \in S}
<1>1. T \subseteq FiniteSubsetsOf(S)
  <2>1. T \subseteq SUBSET S
    OBVIOUS
  <2> QED BY <2>1, FS_FiniteSubsetsOfFinite
<1>2. T # {}
  OBVIOUS
<1>3. PICK u \in T : \A v \in T : <<v, u>> \notin StrictSubsetOrdering(S)
  <2> HIDE DEF T
  <2> QED BY <1>1, <1>2, FS_StrictSubsetOrderingWellFounded, WFMin
<1>4. PICK x \in S : u = Below(x)
  OBVIOUS
<1>5. ASSUME NEW y \in S, y < x PROVE FALSE
  <2>0. \A z \in S : (z < y => z < x) /\ ~(y < y)
    BY <1>5
  <2>1. Below(y) \subseteq Below(x) /\ y \in Below(x) /\ y \notin Below(y)
    BY <1>5, <2>0
  <2>2. Below(y) \in SUBSET S /\ Below(x) \in SUBSET S
    OBVIOUS
  <2> HIDE DEF Below
  <2>3. <<Below(y), Below(x)>> \in StrictSubsetOrdering(S)
    BY <2>1, <2>2 DEF StrictSubsetOrdering
  <2>4. Below(y) \in T
    OBVIOUS
  <2> QED BY <1>3, <1>4, <2>3, <2>4
<1>6. \A y \in S : x <= y
  BY <1>5
<1> QED BY <1>6 DEF Min

\* More events reach as far as before, or farther.
LEMMA TimesGrow ==
  ASSUME NEW few \in SUBSET Event, NEW many \in SUBSET Event, few \subseteq many, few # {},
         IsFiniteSet(many)
  PROVE  /\ Times(few) \subseteq Times(many) /\ Times(many) \subseteq Int
         /\ Min(Times(many)) <= Min(Times(few)) /\ Max(Times(few)) <= Max(Times(many))
         /\ {Min(Times(few)), Max(Times(few)),
             Min(Times(many)), Max(Times(many))} \subseteq Int
<1>1. /\ Times(few) \subseteq Times(many) /\ Times(many) \subseteq Int /\ Times(few) # {}
  BY DEF Times, Event
<1>2. IsFiniteSet(Times(many)) /\ IsFiniteSet(Times(few))
  <2>1. [e \in many |-> e.at] \in Surjection(many, Times(many))
    BY DEF Times, Surjection
  <2>2. IsFiniteSet(Times(many))
    BY <2>1, FS_Surjection
  <2> QED BY <1>1, <2>2, FS_Subset
<1> QED BY <1>1, <1>2, MaxIs, MinIs

----------------------------------------------------------------------------
(* More events, and the cases of the analysis. *)

\* Every case of one set is in the other one, on the same evidence or more.
Covers(ds, cs) ==
  \A c \in cs : \E d \in ds : d.rule = c.rule /\ c.evidence \subseteq d.evidence

LEMMA CoversOne ==
  ASSUME NEW rule, NEW big, NEW small, small \subseteq big
  PROVE  Covers({Case(rule, big)}, {Case(rule, small)})
BY DEF Covers, Case

LEMMA CoversNone == \A ds : Covers(ds, {})
BY DEF Covers

LEMMA CoversUnion ==
  ASSUME NEW ds, NEW cs, NEW es, NEW bs, Covers(ds, cs), Covers(es, bs)
  PROVE  Covers(ds \cup es, cs \cup bs)
BY DEF Covers

LEMMA EgressGrows ==
  ASSUME NEW few \in SUBSET Event, NEW many \in SUBSET Event, few \subseteq many
  PROVE  Covers(SensitiveEgress(many), SensitiveEgress(few))
<1> DEFINE Found(events) == {e \in events : Outside(e) /\ e.class \in Secret}
<1>1. Found(few) \subseteq Found(many)
  OBVIOUS
<1>2. CASE Found(few) # {}
  <2>1. /\ SensitiveEgress(few) = {Case("AN-SENSITIVE-EGRESS", Found(few))}
        /\ SensitiveEgress(many) = {Case("AN-SENSITIVE-EGRESS", Found(many))}
    BY <1>1, <1>2 DEF SensitiveEgress
  <2> HIDE DEF Found
  <2> QED BY <1>1, <2>1, CoversOne
<1>3. CASE Found(few) = {}
  BY <1>3, CoversNone DEF SensitiveEgress
<1> QED BY <1>2, <1>3

\* The span of the transfers is not narrower, and there are not fewer.
LEMMA LowSlowGrows ==
  ASSUME NEW few \in SUBSET Event, NEW many \in SUBSET Event, few \subseteq many,
         IsFiniteSet(many)
  PROVE  Covers(LowSlow(many), LowSlow(few))
<1> DEFINE Found(events) ==
             {e \in events : Outside(e) /\ e.class \in Secret \cup {"internal"}}
<1>1. /\ Found(few) \subseteq Found(many) /\ Found(few) \in SUBSET Event
      /\ Found(many) \in SUBSET Event
  OBVIOUS
<1>2. /\ IsFiniteSet(Found(many)) /\ Cardinality(Found(few)) <= Cardinality(Found(many))
      /\ Cardinality(Found(few)) \in Nat /\ Cardinality(Found(many)) \in Nat
  BY <1>1, FS_Subset, FS_CardinalityType
<1> DEFINE Spread(events) ==
             Cardinality(Found(events)) >= Transfers
             /\ Max(Times(Found(events))) - Min(Times(Found(events))) >= Burst
<1>3. ASSUME Spread(few) PROVE Spread(many)
  <2>1. Found(few) # {}
    BY <1>3, ObservationsAssumption, FS_EmptySet
  <2>2. /\ Min(Times(Found(many))) <= Min(Times(Found(few)))
        /\ Max(Times(Found(few))) <= Max(Times(Found(many)))
        /\ {Min(Times(Found(few))), Max(Times(Found(few))),
            Min(Times(Found(many))), Max(Times(Found(many)))} \subseteq Int
    BY <1>1, <1>2, <2>1, TimesGrow
  <2> HIDE DEF Found
  <2> QED BY <1>2, <1>3, <2>2, ObservationsAssumption
<1>4. CASE Spread(few)
  <2>1. /\ LowSlow(few) = {Case("AN-LOW-SLOW", Found(few))}
        /\ LowSlow(many) = {Case("AN-LOW-SLOW", Found(many))}
    BY <1>3, <1>4 DEF LowSlow
  <2> HIDE DEF Found
  <2> QED BY <1>1, <2>1, CoversOne
<1>5. CASE ~Spread(few)
  BY <1>5, CoversNone DEF LowSlow
<1> QED BY <1>4, <1>5

LEMMA FailuresGrow ==
  ASSUME NEW few \in SUBSET Event, NEW many \in SUBSET Event, few \subseteq many,
         IsFiniteSet(many), NEW login
  PROVE  Covers(LoginAfterFailures(many, login), LoginAfterFailures(few, login))
<1> DEFINE Failed(events) == {e \in events : e.kind \in LoginKinds /\ e.result = "failure"
                                               /\ login.at - e.at \in 1..Burst
                                               /\ e.source = login.source}
<1>1. Failed(few) \subseteq Failed(many)
  OBVIOUS
<1>2. /\ IsFiniteSet(Failed(many)) /\ Cardinality(Failed(few)) <= Cardinality(Failed(many))
      /\ Cardinality(Failed(few)) \in Nat /\ Cardinality(Failed(many)) \in Nat
  BY <1>1, FS_Subset, FS_CardinalityType
<1>3. Cardinality(Failed(few)) >= Failures => Cardinality(Failed(many)) >= Failures
  BY <1>2, ObservationsAssumption
<1>4. CASE Cardinality(Failed(few)) >= Failures
  <2>1. /\ LoginAfterFailures(few, login)
             = {Case("AN-LOGIN-AFTER-FAILURES", Failed(few) \cup {login})}
        /\ LoginAfterFailures(many, login)
             = {Case("AN-LOGIN-AFTER-FAILURES", Failed(many) \cup {login})}
    BY <1>3, <1>4 DEF LoginAfterFailures
  <2>2. Failed(few) \cup {login} \subseteq Failed(many) \cup {login}
    BY <1>1
  <2> HIDE DEF Failed
  <2> QED BY <2>1, <2>2, CoversOne
<1>5. CASE ~(Cardinality(Failed(few)) >= Failures)
  BY <1>5, CoversNone DEF LoginAfterFailures
<1> QED BY <1>4, <1>5

\* What left after the first secret file was read left after an even earlier one.
LEMMA DataPathGrows ==
  ASSUME NEW few \in SUBSET Event, NEW many \in SUBSET Event, few \subseteq many,
         IsFiniteSet(many), NEW login, NEW atRisk
  PROVE  Covers(DataPath(many, login, atRisk), DataPath(few, login, atRisk))
<1> DEFINE After(events) ==
             {e \in events : e.session = login.session /\ e.at - login.at \in 0..Session}
           Reads(events) == {e \in After(events) :
             e.kind = "file_read" /\ e.result = "success" /\ e.class \in Secret}
           Egress(events) == {e \in After(events) : Outside(e) /\ e.class \in Secret}
           Out(events) == {e \in Egress(events) : e.at >= Min(Times(Reads(events)))}
<1>1. /\ Reads(few) \subseteq Reads(many) /\ Reads(few) \in SUBSET Event
      /\ Reads(many) \in SUBSET Event /\ Egress(few) \subseteq Egress(many)
  OBVIOUS
<1>2. IsFiniteSet(Reads(many))
  BY <1>1, FS_Subset
<1>3. ASSUME Reads(few) # {} PROVE Out(few) \subseteq Out(many)
  <2>1. /\ Min(Times(Reads(many))) <= Min(Times(Reads(few)))
        /\ Min(Times(Reads(few))) \in Int /\ Min(Times(Reads(many))) \in Int
    BY <1>1, <1>2, <1>3, TimesGrow
  <2>2. \A e \in Egress(few) : e.at \in Int
    BY DEF Event
  <2> HIDE DEF Reads, Egress
  <2> QED BY <1>1, <2>1, <2>2
<1> DEFINE Evidence(events) == {login} \cup Reads(events) \cup Out(events)
           Path(events) == /\ login.asset \in atRisk /\ login.weak /\ login.session # None
                           /\ Reads(events) # {}
<1>4. CASE Path(few)
  <2>1. /\ DataPath(few, login, atRisk)
             = {Case("AN-VPN-PRIVILEGE-DATA-PATH", Evidence(few))}
        /\ DataPath(many, login, atRisk)
             = {Case("AN-VPN-PRIVILEGE-DATA-PATH", Evidence(many))}
    BY <1>1, <1>4 DEF DataPath
  <2>2. Evidence(few) \subseteq Evidence(many)
    BY <1>1, <1>3, <1>4
  <2> HIDE DEF Evidence
  <2> QED BY <2>1, <2>2, CoversOne
<1>5. CASE ~Path(few)
  BY <1>5, CoversNone DEF DataPath
<1> QED BY <1>4, <1>5

\* What is known of one actor.
LEMMA ActorGrows ==
  ASSUME NEW few \in SUBSET Event, NEW many \in SUBSET Event, few \subseteq many,
         IsFiniteSet(many), NEW atRisk, NEW time
  PROVE  Covers(ActorCases(many, atRisk, time), ActorCases(few, atRisk, time))
<1> DEFINE Recent(events) == {e \in events : e.at >= time - Day}
           Logins(events) == {e \in events : e.kind \in LoginKinds /\ e.result = "success"}
           OfLogin(events, l) ==
             LoginAfterFailures(events, l) \cup DataPath(events, l, atRisk)
<1>1. /\ Recent(few) \subseteq Recent(many) /\ Recent(few) \in SUBSET Event
      /\ Recent(many) \in SUBSET Event /\ Logins(few) \subseteq Logins(many)
  OBVIOUS
<1>2. IsFiniteSet(Recent(many))
  BY FS_Subset
<1>3. /\ Covers(SensitiveEgress(Recent(many)), SensitiveEgress(Recent(few)))
      /\ Covers(LowSlow(Recent(many)), LowSlow(Recent(few)))
  BY <1>1, <1>2, EgressGrows, LowSlowGrows
<1>4. ASSUME NEW l \in Logins(few) PROVE Covers(OfLogin(many, l), OfLogin(few, l))
  BY FailuresGrow, DataPathGrows, CoversUnion
<1>5. Covers(UNION {OfLogin(many, l) : l \in Logins(many)},
             UNION {OfLogin(few, l) : l \in Logins(few)})
  <2> HIDE DEF OfLogin, Logins
  <2> QED BY <1>1, <1>4 DEF Covers
<1>6. /\ ActorCases(few, atRisk, time) =
           SensitiveEgress(Recent(few)) \cup LowSlow(Recent(few))
           \cup UNION {OfLogin(few, l) : l \in Logins(few)}
      /\ ActorCases(many, atRisk, time) =
           SensitiveEgress(Recent(many)) \cup LowSlow(Recent(many))
           \cup UNION {OfLogin(many, l) : l \in Logins(many)}
  BY DEF ActorCases
<1> HIDE DEF OfLogin, Logins, Recent
<1>7. Covers(SensitiveEgress(Recent(many)) \cup LowSlow(Recent(many)),
             SensitiveEgress(Recent(few)) \cup LowSlow(Recent(few)))
  BY <1>3, CoversUnion
<1> QED BY <1>5, <1>6, <1>7, CoversUnion

\* Another event hides no case of any actor.
LEMMA CasesGrow ==
  ASSUME NEW few \in SUBSET Event, NEW many \in SUBSET Event, few \subseteq many,
         IsFiniteSet(many), NEW atRisk, NEW time
  PROVE  Covers(Cases(many, atRisk, time), Cases(few, atRisk, time))
<1> DEFINE Of(events, a) == {e \in events : e.actor = a}
           Actors(events) == {e.actor : e \in events}
<1>1. \A a \in Actors(few) :
        /\ a \in Actors(many)
        /\ Covers(ActorCases(Of(many, a), atRisk, time),
                  ActorCases(Of(few, a), atRisk, time))
  <2> SUFFICES ASSUME NEW a \in Actors(few)
               PROVE  /\ a \in Actors(many)
                      /\ Covers(ActorCases(Of(many, a), atRisk, time),
                                ActorCases(Of(few, a), atRisk, time))
    OBVIOUS
  <2>1. /\ Of(few, a) \in SUBSET Event /\ Of(many, a) \in SUBSET Event
        /\ Of(few, a) \subseteq Of(many, a)
    OBVIOUS
  <2>2. IsFiniteSet(Of(many, a))
    BY FS_Subset
  <2> QED BY <2>1, <2>2, ActorGrows
<1> SUFFICES ASSUME NEW c \in Cases(few, atRisk, time)
             PROVE  \E d \in Cases(many, atRisk, time) :
                      d.rule = c.rule /\ c.evidence \subseteq d.evidence
  BY DEF Covers
<1>2. PICK a \in Actors(few) : c \in ActorCases(Of(few, a), atRisk, time)
  BY DEF Cases
<1>3. /\ \A d \in ActorCases(Of(many, a), atRisk, time) : d \in Cases(many, atRisk, time)
      /\ a \in Actors(many)
  BY <1>1, <1>2 DEF Cases
<1> HIDE DEF Of, Actors
<1>4. PICK d \in ActorCases(Of(many, a), atRisk, time) :
        d.rule = c.rule /\ c.evidence \subseteq d.evidence
  BY <1>1, <1>2 DEF Covers
<1> QED BY <1>3, <1>4

\* A case is about events that were analyzed, and about one at least.
LEMMA CasesAreOf ==
  ASSUME NEW events, NEW atRisk, NEW time, NEW c \in Cases(events, atRisk, time)
  PROVE  c.evidence # {} /\ c.evidence \subseteq events
<1>1. PICK a \in {e.actor : e \in events} :
        c \in ActorCases({e \in events : e.actor = a}, atRisk, time)
  BY DEF Cases
<1> DEFINE group == {e \in events : e.actor = a}
           recent == {e \in group : e.at >= time - Day}
<1>2. CASE c \in SensitiveEgress(recent)
  BY <1>2 DEF SensitiveEgress, Case
<1>3. CASE c \in LowSlow(recent)
  <2> DEFINE found == {e \in recent : Outside(e) /\ e.class \in Secret \cup {"internal"}}
  <2>1. c = Case("AN-LOW-SLOW", found) /\ Cardinality(found) >= Transfers
    BY <1>3 DEF LowSlow
  <2>2. found # {}
    BY <2>1, FS_EmptySet, ObservationsAssumption
  <2>3. found \subseteq events
    OBVIOUS
  <2> HIDE DEF found
  <2> QED BY <2>1, <2>2, <2>3 DEF Case
<1>4. ASSUME NEW l \in group, c \in LoginAfterFailures(group, l)
      PROVE  c.evidence # {} /\ c.evidence \subseteq events
  BY <1>4 DEF LoginAfterFailures, Case
<1>5. ASSUME NEW l \in group, c \in DataPath(group, l, atRisk)
      PROVE  c.evidence # {} /\ c.evidence \subseteq events
  <2> DEFINE after == {e \in group : e.session = l.session /\ e.at - l.at \in 0..Session}
             reads == {e \in after :
               e.kind = "file_read" /\ e.result = "success" /\ e.class \in Secret}
             egress == {e \in after : Outside(e) /\ e.class \in Secret}
             evidence == {l} \cup reads \cup {e \in egress : e.at >= Min(Times(reads))}
  <2>1. c = Case("AN-VPN-PRIVILEGE-DATA-PATH", evidence)
    BY <1>5 DEF DataPath
  <2>2. evidence # {} /\ evidence \subseteq events
    OBVIOUS
  <2> HIDE DEF evidence
  <2> QED BY <2>1, <2>2 DEF Case
<1> HIDE DEF recent
<1>6. CASE \E l \in group : c \in LoginAfterFailures(group, l) \cup DataPath(group, l, atRisk)
  <2> HIDE DEF group
  <2> QED BY <1>4, <1>5, <1>6
<1>7. \/ c \in SensitiveEgress(recent) \/ c \in LowSlow(recent)
      \/ \E l \in group : c \in LoginAfterFailures(group, l) \cup DataPath(group, l, atRisk)
  BY <1>1 DEF ActorCases, recent
<1> QED BY <1>2, <1>3, <1>6, <1>7

\* A case of more evidence goes on in what is shown of it, cut or not.
LEMMA PresentedGrows ==
  ASSUME NEW c, NEW d, d.rule = c.rule, c.evidence # {}, c.evidence \subseteq d.evidence,
         d.evidence \subseteq Event, IsFiniteSet(d.evidence)
  PROVE  Continues(Presented(d), Presented(c))
<1> DEFINE few == c.evidence
           many == d.evidence
<1>1. /\ IsFiniteSet(few) /\ Cardinality(few) <= Cardinality(many)
      /\ Cardinality(few) \in Nat /\ Cardinality(many) \in Nat
  BY FS_Subset, FS_CardinalityType
<1>2. Min(Times(many)) <= Min(Times(few)) /\ Max(Times(few)) <= Max(Times(many))
  BY TimesGrow
<1>3. {Min(Times(few)), Max(Times(few)), Min(Times(many)), Max(Times(many))} \subseteq Int
  BY TimesGrow
<1>4. ASSUME ~(Cardinality(many) > EvidenceLimit) PROVE First(many) = many
  <2> SUFFICES ASSUME NEW e \in many
               PROVE  Cardinality({f \in many \ {e} : Precedes(f, e)}) < EvidenceLimit
    BY DEF First
  <2>1. IsFiniteSet(many \ {e}) /\ Cardinality(many \ {e}) = Cardinality(many) - 1
    BY FS_RemoveElement
  <2>2. {f \in many \ {e} : Precedes(f, e)} \subseteq many \ {e}
    OBVIOUS
  <2> DEFINE before == {f \in many \ {e} : Precedes(f, e)}
  <2>3. Cardinality(before) <= Cardinality(many \ {e}) /\ Cardinality(before) \in Nat
    <3> HIDE DEF many
    <3> QED BY <2>1, <2>2, FS_Subset, FS_CardinalityType
  <2> HIDE DEF before, many
  <2>4. EvidenceLimit \in Nat
    BY ObservationsAssumption
  <2> QED BY <1>1, <1>4, <2>1, <2>3, <2>4 DEF before
<1>5. First(few) \subseteq few
  BY DEF First
<1> QED BY <1>1, <1>2, <1>3, <1>4, <1>5 DEF Continues, Presented

----------------------------------------------------------------------------
(* Requests, counted. *)

LEMMA InputTypes ==
  ASSUME NEW i \in Inputs
  PROVE  /\ i.path = "/api/events" => i.body \in RawEvents
         /\ i.path \in {"/api/check", "/api/send", "/api/preview"} =>
              i.id \in DOMAIN Bundles
BY DEF Inputs

LEMMA SlotTypes ==
  ASSUME ServerInv, NEW r \in Slots
  PROVE  /\ slot[r] # Idle <=> slot[r].stage # "idle"
         /\ slot[r] # Idle => slot[r] \in Slot /\ Sound(slot[r])
BY DEF ServerInv, Slot, Idle

\* A step of a request under way leaves the count alone.
LEMMA BecomeKeeps ==
  ASSUME ServerInv, NEW r \in Slots, slot[r] # Idle, NEW s \in Slot, Sound(s),
         Become(r, s), busy' = busy
  PROVE  ServerInv'
<1>1. /\ slot' \in [Slots -> Slot \cup {Idle}] /\ slot'[r] = s
      /\ \A q \in Slots \ {r} : slot'[q] = slot[q]
  BY DEF ServerInv, Become
<1>2. s # Idle
  BY DEF Slot, Idle
<1>3. Active' = Active
  BY <1>1, <1>2 DEF Active
<1> QED BY <1>1, <1>3 DEF ServerInv

\* Every end of a request gives its place back.
LEMMA LeaveKeeps ==
  ASSUME ServerInv, NEW r \in Slots, slot[r] # Idle, Leave(r)
  PROVE  ServerInv'
<1>1. /\ slot' \in [Slots -> Slot \cup {Idle}] /\ slot'[r] = Idle
      /\ \A q \in Slots \ {r} : slot'[q] = slot[q]
  BY DEF ServerInv, Leave, Become
<1>2. Active' = Active \ {r} /\ r \in Active
  BY <1>1 DEF Active
<1>3. IsFiniteSet(Active') /\ Cardinality(Active') = Cardinality(Active) - 1
  BY <1>2, FS_RemoveElement DEF ServerInv
<1>4. Cardinality(Active) \in Nat
  BY FS_CardinalityType DEF ServerInv
<1>5. busy' = Cardinality(Active') /\ busy' <= BusyLimit
  BY <1>3, <1>4, ControlAssumption DEF ServerInv, Leave
<1>6. \A q \in Slots : slot'[q] # Idle => Sound(slot'[q])
  BY <1>1 DEF ServerInv
<1> QED BY <1>1, <1>3, <1>5, <1>6 DEF ServerInv

\* A request that comes in takes one of the places that are left.
LEMMA ArriveKeeps ==
  ASSUME ServerInv, NEW r \in Slots, NEW input \in Inputs, Arrive(r, input)
  PROVE  ServerInv'
<1> DEFINE s == [Idle EXCEPT !.stage = "receiving", !.input = input]
<1>1. s \in Slot /\ s # Idle /\ Sound(s)
  <2>1. Idle \in [stage: {"idle"}, input: {NoInput}, found: Seq(Inspections),
                 child: {"none"}, expired: BOOLEAN, state: {"none"}]
    BY DEF Idle
  <2>2. Idle.found = <<>>
    BY DEF Idle
  <2> HIDE DEF Idle
  <2>3. s \in Slot /\ s # Idle
    BY <2>1 DEF Slot
  <2>4. s.stage = "receiving" /\ s.found = <<>> /\ s.child = "none"
    BY <2>1, <2>2
  <2> QED BY <2>3, <2>4 DEF Sound
<1>2. /\ slot' \in [Slots -> Slot \cup {Idle}] /\ slot'[r] = s
      /\ \A q \in Slots \ {r} : slot'[q] = slot[q]
  BY <1>1 DEF ServerInv, Arrive, Become
<1>3. Active' = Active \cup {r} /\ r \notin Active
  BY <1>1, <1>2 DEF Active, Arrive
<1>4. IsFiniteSet(Active') /\ Cardinality(Active') = Cardinality(Active) + 1
  BY <1>3, FS_AddElement DEF ServerInv
<1>5. Cardinality(Active) \in Nat
  BY FS_CardinalityType DEF ServerInv
<1>6. busy' = Cardinality(Active') /\ busy' <= BusyLimit
  BY <1>4, <1>5, ControlAssumption DEF ServerInv, Arrive
<1> QED BY <1>1, <1>2, <1>4, <1>6 DEF ServerInv

----------------------------------------------------------------------------
(* Documents and bundles. *)

LEMMA InspectTypes ==
  ASSUME NEW doc \in Document, NEW end \in Outcomes
  PROVE  Inspect(doc, end) \in Inspections
<1>1. ASSUME NEW p \in ToSet(doc.parts) PROVE p \in Part
  BY <1>1 DEF Document, ToSet
<1>2. \A m \in TextMarks : TextRule[m] \in Rules
  BY DEF Rules, SeenRules
<1>3. PartRules(doc.parts) \subseteq Rules
  <2> SUFFICES ASSUME NEW p \in ToSet(doc.parts),
                      NEW rule \in KindRules(p.kind) \cup {TextRule[m] : m \in p.text}
               PROVE  rule \in Rules
    BY DEF PartRules
  <2>1. p.text \subseteq TextMarks /\ p.kind \in PartKinds
    BY <1>1 DEF Part
  <2>2. CASE rule \in KindRules(p.kind)
    BY <2>1, <2>2 DEF Rules
  <2>3. CASE rule \in {TextRule[m] : m \in p.text}
    BY <1>2, <2>1, <2>3
  <2> QED BY <2>2, <2>3
<1>4. doc.structure \subseteq Rules /\ {TextRule[m] : m \in doc.split} \subseteq Rules
  <2>1. doc.structure \subseteq StructureRules /\ doc.split \subseteq TextMarks
    BY DEF Document
  <2> QED BY <1>2, <2>1 DEF Rules
<1>5. Build(doc) \in Inspections
  <2>1. NoContent(doc) \subseteq Rules
    BY DEF NoContent, Rules
  <2> DEFINE rules == PartRules(doc.parts) \cup doc.structure \cup NoContent(doc)
                      \cup {TextRule[m] : m \in doc.split}
  <2>2. rules \subseteq Rules /\ Build(doc) = Built(rules)
    BY <1>3, <1>4, <2>1 DEF Build
  <2> HIDE DEF rules
  <2> QED BY <2>2 DEF Built, Inspections
<1>6. ASSUME NEW rule \in FailureRules PROVE Failure(rule) \in Inspections
  BY <1>6 DEF Failure, Inspections, Rules
<1> QED BY <1>5, <1>6 DEF Inspect, InspectBytes, FailureRules

\* Nothing is found only of a document that was read, whole, and is clean.
LEMMA NothingFound ==
  ASSUME NEW doc \in Document, NEW end, Verdict(Inspect(doc, end)) = "no_findings"
  PROVE  Clean(doc)
<1>1. /\ Inspect(doc, end).coverage = "supported_text_complete"
      /\ Inspect(doc, end).findings = {}
  BY DEF Verdict
<1>2. end = "answered" /\ Inspect(doc, end) = InspectBytes(doc)
  BY <1>1 DEF Inspect, Failure
<1>3. /\ doc.header = "match" /\ doc.body = "whole" /\ doc.format # "docx"
      /\ InspectBytes(doc) = Build(doc)
  BY <1>1, <1>2 DEF InspectBytes, Failure, Document
<1>4. /\ PartRules(doc.parts) = {} /\ doc.structure = {} /\ NoContent(doc) = {}
      /\ {TextRule[m] : m \in doc.split} = {}
  BY <1>1, <1>2, <1>3 DEF Build, Built
<1>5. ASSUME NEW m \in doc.split PROVE FALSE
  <2>1. TextRule[m] \in {TextRule[n] : n \in doc.split}
    OBVIOUS
  <2> QED BY <1>4, <2>1
<1>6. ASSUME NEW p \in ToSet(doc.parts)
      PROVE  p.kind \in {"sheet", "page", "properties"} /\ p.text = {}
  <2>1. p \in Part
    BY DEF Document, ToSet
  <2>2. KindRules(p.kind) = {} /\ {TextRule[m] : m \in p.text} = {}
    BY <1>4 DEF PartRules
  <2> QED BY <2>1, <2>2 DEF KindRules, Part, PartKinds
<1>7. doc.format = "pdf" \/ \E p \in ToSet(doc.parts) : p.kind = "sheet"
  BY <1>4 DEF NoContent
<1> QED BY <1>3, <1>4, <1>5, <1>6, <1>7 DEF Clean

\* "allow" is said of a labelled question without secret and personal marks, and of files
\* in which nothing was found.
LEMMA AllowMeans ==
  ASSUME NEW question, NEW label, NEW found,
         CheckBundle(question, label, found) = "allow"
  PROVE  /\ label # NoLabel /\ {"secret", "personal"} \cap question = {}
         /\ \A f \in ToSet(found) : Verdict(f) = "no_findings"
<1> DEFINE request == [action |-> "ai.prompt", destination |-> Endpoint, tool |-> "null",
                       class |-> ClassOf(label), text |-> question]
           decision == Evaluate(request, BundlePolicy)
<1>1. /\ decision \notin {"block", "review"}
      /\ \A f \in ToSet(found) : Verdict(f) \notin {"block", "review"}
  <2> DEFINE decisions == {decision} \cup {Verdict(f) : f \in ToSet(found)}
  <2>1. CheckBundle(question, label, found) =
          IF "block" \in decisions THEN "block"
          ELSE IF "review" \in decisions THEN "review" ELSE "allow"
    BY DEF CheckBundle
  <2> HIDE DEF decision
  <2>2. "block" \notin decisions /\ "review" \notin decisions
    <3> HIDE DEF decisions
    <3> QED BY <2>1
  <2> QED BY <2>2
<1>2. \A f \in ToSet(found) : Verdict(f) = "no_findings"
  <2> SUFFICES ASSUME NEW f \in ToSet(found) PROVE Verdict(f) = "no_findings"
    OBVIOUS
  <2>1. Verdict(f) \in {"block", "review", "no_findings"}
    BY DEF Verdict
  <2> QED BY <1>1, <2>1
<1>3. Blocking(request, BundlePolicy) = {} /\ Reviewing(request) = {}
  <2> HIDE DEF request
  <2> QED BY <1>1 DEF Evaluate
<1>4. "secret" \notin question
  BY <1>3 DEF Blocking
<1>5. "personal" \notin question /\ ClassOf(label) # "unknown"
  BY <1>3 DEF Reviewing
<1>6. label # NoLabel
  BY <1>5 DEF ClassOf
<1> QED BY <1>2, <1>4, <1>5, <1>6

\* A bundle that was consented to, with a label of this content, and allowed on the
\* inspection of all its files, may be released.
LEMMA AllowedIsReleasable ==
  ASSUME NEW id \in DOMAIN Bundles, NEW found, Consented(id),
         Inspected(found, Bundles[id].docs), Len(found) = Len(Bundles[id].docs),
         CheckBundle(Bundles[id].question, Bundles[id].label, found) = "allow"
  PROVE  Releasable(id)
<1> DEFINE docs == Bundles[id].docs
<1>1. docs \in Seq(Document)
  BY ControlAssumption
<1>2. ASSUME NEW doc \in ToSet(docs) PROVE Clean(doc)
  <2>1. PICK i \in 1..Len(docs) : doc = docs[i]
    BY <1>1 DEF ToSet
  <2>2. doc \in Document
    BY <1>1, <2>1
  <2>3. PICK end \in Outcomes : found[i] = Inspect(doc, end)
    BY <2>1 DEF Inspected
  <2>4. i \in 1..Len(found) /\ found[i] \in ToSet(found)
    BY <2>1 DEF ToSet
  <2> QED BY <2>2, <2>3, <2>4, AllowMeans, NothingFound
<1> QED BY <1>2, AllowMeans DEF Consented, Releasable

----------------------------------------------------------------------------
(* The steps of a request. *)

\* The consent and the label are checked as the files begin to be read.
LEMMA BeginScanKeeps ==
  ASSUME ServerInv, NEW r \in Slots, BeginScan(r)
  PROVE  ServerInv'
<1> DEFINE s == [slot[r] EXCEPT !.stage = "scanning"]
<1>1. slot[r] # Idle /\ slot[r] \in Slot /\ Sound(slot[r])
  BY SlotTypes DEF BeginScan
<1>2. /\ s \in Slot /\ s.stage = "scanning" /\ s.input = slot[r].input /\ s.input \in Inputs
      /\ s.found = slot[r].found /\ s.child = slot[r].child
  BY <1>1 DEF Slot
<1>3. s.found = <<>> /\ s.child = "none"
  BY <1>1, <1>2 DEF BeginScan, Sound
<1>4. s.input.path \in {"/api/check", "/api/send", "/api/preview"}
  BY <1>2 DEF BeginScan
<1>5. s.input.path = "/api/send" => Consented(s.input.id)
  BY <1>2 DEF BeginScan, Bundle, Mislabelled, LabelRefused, Consented
<1>6. Inspected(s.found, Bundles[s.input.id].docs)
  <2>1. Bundles[s.input.id].docs \in Seq(Document)
    BY <1>2, <1>4, InputTypes, ControlAssumption
  <2> QED BY <1>3, <2>1 DEF Inspected
<1> HIDE DEF s
<1>7. Sound(s)
  BY <1>2, <1>3, <1>4, <1>5, <1>6 DEF Sound
<1> QED BY <1>1, <1>2, <1>7, BecomeKeeps DEF BeginScan, s

\* A worker runs for a file that has not been inspected yet.
LEMMA StartChildKeeps ==
  ASSUME ServerInv, NEW r \in Slots, StartChild(r)
  PROVE  ServerInv'
<1> DEFINE s == [slot[r] EXCEPT !.child = "running", !.expired = FALSE]
<1>1. slot[r] # Idle /\ slot[r] \in Slot /\ Sound(slot[r])
  BY SlotTypes DEF StartChild
<1>2. /\ s \in Slot /\ s.stage = "scanning" /\ s.input = slot[r].input
      /\ s.found = slot[r].found /\ s.child = "running"
  BY <1>1 DEF Slot, StartChild
<1>3. Len(s.found) < Len(Bundles[s.input.id].docs)
  <2>1. slot[r].input.path \in {"/api/check", "/api/send", "/api/preview"}
        /\ Inspected(slot[r].found, Bundle(r).docs)
    BY <1>1 DEF StartChild, Sound, Bundle
  <2>2. Bundle(r).docs \in Seq(Document) /\ slot[r].found \in Seq(Inspections)
    BY <1>1, <2>1, InputTypes, ControlAssumption DEF Slot, Bundle
  <2> QED BY <1>2, <2>1, <2>2 DEF StartChild, Scanned, Inspected, Bundle
<1>4. Sound(s)
  <2> HIDE DEF s
  <2> QED BY <1>1, <1>2, <1>3 DEF Sound, StartChild
<1> QED BY <1>1, <1>2, <1>4, BecomeKeeps DEF StartChild

\* What becomes of a worker is nothing the request rests on.
LEMMA ChildKeeps ==
  ASSUME ServerInv, NEW r \in Slots, slot[r].child # "none", slot[r] # Idle,
         NEW child \in {"running", "killed"} \cup Ends, NEW expired \in BOOLEAN,
         Become(r, [slot[r] EXCEPT !.child = child, !.expired = expired]), busy' = busy
  PROVE  ServerInv'
<1> DEFINE s == [slot[r] EXCEPT !.child = child, !.expired = expired]
<1>1. slot[r] \in Slot /\ Sound(slot[r])
  BY SlotTypes
<1>2. /\ s \in Slot /\ s.stage = slot[r].stage /\ s.input = slot[r].input
      /\ s.found = slot[r].found
  BY <1>1 DEF Slot
<1>3. Sound(s)
  <2> HIDE DEF s
  <2> QED BY <1>1, <1>2 DEF Sound
<1> QED BY <1>2, <1>3, BecomeKeeps

LEMMA ChildEndsKeeps ==
  ASSUME ServerInv, NEW r \in Slots, NEW end \in Ends, ChildEnds(r, end)
  PROVE  ServerInv'
<1>1. slot[r].child # "none" /\ slot[r] # Idle
  BY DEF ChildEnds, Idle
<1>2. slot[r] \in Slot
  BY <1>1, SlotTypes
<1>3. slot[r].expired \in BOOLEAN
      /\ [slot[r] EXCEPT !.child = end]
           = [slot[r] EXCEPT !.child = end, !.expired = slot[r].expired]
  BY <1>2 DEF Slot
<1>4. end \in {"running", "killed"} \cup Ends
  OBVIOUS
<1> QED BY <1>1, <1>3, <1>4, ChildKeeps DEF ChildEnds

LEMMA ExpireKeeps ==
  ASSUME ServerInv, NEW r \in Slots, Expire(r)
  PROVE  ServerInv'
<1> DEFINE child == IF slot[r].child \in {"running", "closed"} THEN "killed"
                    ELSE slot[r].child
<1>1. slot[r].child # "none" /\ slot[r] # Idle
  BY DEF Expire, Idle
<1>2. slot[r] \in Slot
  BY <1>1, SlotTypes
<1>3. child \in {"running", "killed"} \cup Ends
  BY <1>1, <1>2 DEF Slot
<1>4. Become(r, [slot[r] EXCEPT !.child = child, !.expired = TRUE])
  BY <1>2 DEF Expire, Slot, Become
<1> HIDE DEF child
<1> QED BY <1>1, <1>3, <1>4, ChildKeeps DEF Expire

\* One file more has been inspected, or has not: that is a finding too.
LEMMA CollectKeeps ==
  ASSUME ServerInv, NEW r \in Slots, Collect(r)
  PROVE  ServerInv'
<1> DEFINE docs == Bundle(r).docs
           n == Len(slot[r].found) + 1
           last == Inspect(docs[n], Outcome(slot[r]))
           found == Append(slot[r].found, last)
           s == [slot[r] EXCEPT !.child = "none", !.expired = FALSE, !.found = found]
<1>1. slot[r].child \notin {"none", "running"} /\ slot[r] # Idle
  BY DEF Collect, Idle
<1>2. slot[r] \in Slot /\ Sound(slot[r])
  BY <1>1, SlotTypes
<1>3. /\ slot[r].stage = "scanning" /\ Inspected(slot[r].found, docs)
      /\ Len(slot[r].found) < Len(docs)
      /\ slot[r].input.path \in {"/api/check", "/api/send", "/api/preview"}
  BY <1>1, <1>2 DEF Sound, Bundle
<1>4. docs \in Seq(Document) /\ slot[r].found \in Seq(Inspections)
  BY <1>2, <1>3, InputTypes, ControlAssumption DEF Slot, Bundle
<1>5. n \in 1..Len(docs) /\ docs[n] \in Document
  BY <1>3, <1>4
<1>6. Outcome(slot[r]) \in Outcomes
  <2>1. slot[r].child \in Ends \cup {"killed"}
    BY <1>1, <1>2 DEF Slot
  <2> QED BY <2>1 DEF Outcome, Outcomes
<1>7. last \in Inspections
  BY <1>5, <1>6, InspectTypes
<1>8. /\ found \in Seq(Inspections) /\ Len(found) = n
      /\ found[n] = last /\ \A i \in 1..Len(slot[r].found) : found[i] = slot[r].found[i]
  <2> HIDE DEF last
  <2> QED BY <1>4, <1>7
<1>9. Inspected(found, docs)
  <2>1. Len(found) <= Len(docs)
    BY <1>4, <1>5, <1>8
  <2>2. ASSUME NEW i \in 1..Len(found)
        PROVE  \E end \in Outcomes : found[i] = Inspect(docs[i], end)
    <3>1. CASE i = n
      BY <1>6, <1>8, <3>1
    <3>2. CASE i # n
      <4>1. i \in 1..Len(slot[r].found)
        BY <1>4, <1>8, <3>2
      <4> QED BY <1>3, <1>8, <4>1 DEF Inspected
    <3> QED BY <3>1, <3>2
  <2> QED BY <2>1, <2>2 DEF Inspected
<1> HIDE DEF found, last, n
<1>10. /\ s \in Slot /\ s.stage = slot[r].stage /\ s.input = slot[r].input
       /\ s.found = found /\ s.child = "none"
  BY <1>2, <1>8 DEF Slot
<1>11. Sound(s)
  <2> HIDE DEF s
  <2> QED BY <1>2, <1>3, <1>9, <1>10 DEF Sound, Bundle
<1>12. Become(r, s) /\ busy' = busy
  BY DEF Collect, found, last, n
<1> HIDE DEF s
<1> QED BY <1>1, <1>10, <1>11, <1>12, BecomeKeeps

\* The posture has been assessed.
LEMMA AssessKeeps ==
  ASSUME ServerInv, NEW r \in Slots, Assess(r)
  PROVE  ServerInv'
<1> DEFINE s == [slot[r] EXCEPT !.stage = "assessed"]
<1>1. slot[r] # Idle /\ slot[r] \in Slot /\ Sound(slot[r]) /\ slot[r].stage = "receiving"
  BY SlotTypes DEF Assess, At
<1>2. s \in Slot /\ s.stage = "assessed" /\ s.child = slot[r].child
  BY <1>1 DEF Slot
<1>3. Sound(s)
  <2> HIDE DEF s
  <2> QED BY <1>1, <1>2 DEF Sound
<1> QED BY <1>1, <1>2, <1>3, BecomeKeeps DEF Assess

\* A bundle is reserved for delivery when the whole of it may be released.
LEMMA ReserveKeeps ==
  ASSUME ServerInv, NEW r \in Slots, Reserve(r)
  PROVE  ServerInv'
<1>1. slot[r] # Idle /\ slot[r] \in Slot /\ Sound(slot[r])
  BY SlotTypes DEF Reserve, Scanned
<1>2. CASE Leave(r)
  BY <1>1, <1>2, LeaveKeeps
<1>3. CASE ~Leave(r)
  <2> DEFINE s == [slot[r] EXCEPT !.stage = "reserved"]
  <2>1. /\ s \in Slot /\ s.stage = "reserved" /\ s.input = slot[r].input
        /\ s.found = slot[r].found /\ s.child = slot[r].child
    BY <1>1 DEF Slot
  <2>2. Become(r, s) /\ busy' = busy /\ Decision(r) = "allow"
    BY <1>3 DEF Reserve
  <2>3. /\ slot[r].input.path = "/api/send" /\ slot[r].stage = "scanning"
        /\ Len(slot[r].found) = Len(Bundle(r).docs)
    BY DEF Reserve, Scanned
  <2>4. CheckBundle(Bundle(r).question, Bundle(r).label, slot[r].found) = "allow"
    BY <2>2 DEF Decision
  <2>5. /\ Consented(slot[r].input.id) /\ Inspected(slot[r].found, Bundle(r).docs)
        /\ ~(slot[r].child # "none")
    <3>1. slot[r].child # "none" => Len(slot[r].found) < Len(Bundle(r).docs)
      BY <1>1 DEF Sound, Bundle
    <3>2. Len(Bundle(r).docs) \in Nat
      BY <1>1, <2>3, InputTypes, ControlAssumption DEF Slot, Bundle
    <3> QED BY <1>1, <2>3, <3>1, <3>2 DEF Sound, Bundle
  <2>6. Releasable(slot[r].input.id)
    <3>1. slot[r].input.id \in DOMAIN Bundles
      BY <1>1, <2>3, InputTypes DEF Slot
    <3> QED BY <2>3, <2>4, <2>5, <3>1, AllowedIsReleasable DEF Bundle
  <2> HIDE DEF s
  <2>7. Sound(s)
    BY <2>1, <2>3, <2>5, <2>6 DEF Sound, Bundle
  <2> QED BY <1>1, <2>1, <2>2, <2>7, BecomeKeeps
<1> QED BY <1>2, <1>3

LEMMA DeliverKeeps ==
  ASSUME ServerInv, NEW r \in Slots, Deliver(r)
  PROVE  ServerInv'
<1>1. slot[r] # Idle /\ slot[r] \in Slot /\ Sound(slot[r]) /\ slot[r].stage = "reserved"
  BY SlotTypes DEF Deliver
<1>2. PICK state \in {"provider_completed", "delivery_unknown"} :
        Become(r, [slot[r] EXCEPT !.stage = "delivered", !.state = state])
  BY DEF Deliver
<1> DEFINE s == [slot[r] EXCEPT !.stage = "delivered", !.state = state]
<1>3. /\ s \in Slot /\ s.stage = "delivered" /\ s.input = slot[r].input
      /\ s.child = slot[r].child
  BY <1>1 DEF Slot
<1>4. Sound(s)
  <2> HIDE DEF s
  <2> QED BY <1>1, <1>3 DEF Sound
<1> QED BY <1>1, <1>2, <1>3, <1>4, BecomeKeeps DEF Deliver

\* The memory of a service that stops is gone, and every request with it.
LEMMA StopKeeps ==
  ASSUME ServerInv, Stop
  PROVE  ServerInv'
<1>1. slot' = [r \in Slots |-> Idle] /\ busy' = 0
  BY DEF Stop
<1>2. Active' = {}
  BY <1>1 DEF Active
<1>3. IsFiniteSet(Active') /\ Cardinality(Active') = 0
  BY <1>2, FS_EmptySet
<1> QED BY <1>1, <1>3, ControlAssumption DEF ServerInv

\* The count of the requests under way survives every step.
LEMMA ServeKeeps ==
  ASSUME ServerInv, NEW r \in Slots, Serve(r)
  PROVE  ServerInv'
<1>1. slot[r] # Idle
  BY SlotTypes DEF Serve, Refused, Ingest, Assess, Assign, BeginScan, StartChild, Collect,
                   Answer, Reserve, Deliver, Finish, At, Scanned, Idle
<1>2. CASE Refused(r) \/ Ingest(r) \/ Assign(r) \/ Answer(r) \/ Finish(r)
  BY <1>1, <1>2, LeaveKeeps DEF Refused, Ingest, Assign, Answer, Finish
<1>3. CASE Assess(r)
  BY <1>3, AssessKeeps
<1>4. CASE BeginScan(r)
  BY <1>4, BeginScanKeeps
<1>5. CASE StartChild(r)
  BY <1>5, StartChildKeeps
<1>6. CASE Collect(r)
  BY <1>6, CollectKeeps
<1>7. CASE Reserve(r)
  BY <1>7, ReserveKeeps
<1>8. CASE Deliver(r)
  BY <1>8, DeliverKeeps
<1> QED BY <1>2, <1>3, <1>4, <1>5, <1>6, <1>7, <1>8 DEF Serve

LEMMA ServerHolds ==
  ASSUME ServerInv, [Next]_vars
  PROVE  ServerInv'
<1>1. ASSUME NEW r \in Slots, NEW input \in Inputs, Arrive(r, input) PROVE ServerInv'
  BY <1>1, ArriveKeeps
<1>2. ASSUME NEW r \in Slots, Serve(r) PROVE ServerInv'
  BY <1>2, ServeKeeps
<1>3. ASSUME NEW r \in Slots, Expire(r) PROVE ServerInv'
  BY <1>3, ExpireKeeps
<1>4. ASSUME NEW r \in Slots, NEW end \in Ends, ChildEnds(r, end) PROVE ServerInv'
  BY <1>4, ChildEndsKeeps
<1>5. CASE Stop
  BY <1>5, StopKeeps
<1>6. ASSUME slot' = slot, busy' = busy PROVE ServerInv'
  BY <1>6 DEF ServerInv, Active
<1>7. CASE Start \/ PruneIndex \/ (\E before \in 1..MaxTime : PruneJournal(before))
           \/ (\E rows \in SUBSET index : LoseIndex(rows)) \/ Tick \/ UNCHANGED vars
  BY <1>6, <1>7 DEF Start, PruneIndex, PruneJournal, LoseIndex, Tick, vars
<1> QED BY <1>1, <1>2, <1>3, <1>4, <1>5, <1>7 DEF Next, Maintain

----------------------------------------------------------------------------
(* The store of events. *)

\* The journal holds no more events than the index knows and what the index has lost.
LEMMA JournalFits ==
  ASSUME StoreInv
  PROVE  Cardinality(observed) <= EventLimit + Cardinality(lost)
<1> DEFINE f == [row \in observed |-> row.event]
<1>1. f \in Injection(observed, index \cup lost)
  <2>1. \A row \in observed : row.event \in index \cup lost
    BY DEF StoreInv, Events
  <2>2. \A row, other \in observed : f[row] = f[other] => row = other
    BY DEF StoreInv
  <2>3. f \in [observed -> index \cup lost]
    BY <2>1
  <2> HIDE DEF f
  <2> QED BY <2>2, <2>3 DEF Injection, IsInjective
<1>2. /\ IsFiniteSet(index \cup lost) /\ IsFiniteSet(index \cap lost)
      /\ Cardinality(index \cup lost)
           = Cardinality(index) + Cardinality(lost) - Cardinality(index \cap lost)
  BY FS_Union, FS_Intersection DEF StoreInv
<1>3. Cardinality(observed) <= Cardinality(index \cup lost)
  BY <1>1, <1>2, FS_Injection
<1>4. {Cardinality(observed), Cardinality(index), Cardinality(lost),
       Cardinality(index \cap lost)} \subseteq Nat
  BY <1>2, FS_CardinalityType DEF StoreInv
<1>5. EventLimit \in Nat
  BY ControlAssumption
<1> QED BY <1>2, <1>3, <1>4, <1>5 DEF StoreInv

\* A new event is a row of the index and a row of the journal, under an id of its own.
LEMMA IngestKeeps ==
  ASSUME ServerInv, StoreInv, ClockInv, NEW r \in Slots, Ingest(r)
  PROVE  StoreInv'
<1> DEFINE e == slot[r].input.body
           row == [event |-> e, at |-> now]
<1>1. e \in RawEvents /\ e \in Event
  <2>1. slot[r] \in Slot
    BY SlotTypes DEF Ingest, At
  <2> QED BY <2>1, InputTypes DEF Ingest, At, Slot, Reportable
<1>2. CASE UNCHANGED <<observed, index>>
  BY <1>2 DEF StoreInv, Events, Ingest
<1>3. CASE /\ Seen(e) = {} /\ HasRoom /\ index' = index \cup {e}
           /\ observed' = observed \cup {row}
  <2>0. lost' = lost
    BY DEF Ingest
  <2> HIDE DEF e
  <2>1. /\ \A old \in index : old.id # e.id
        /\ \A old \in observed : old.event.id # e.id
    BY <1>3 DEF Seen, Events
  <2>2. row.event = e /\ row.at = now
    OBVIOUS
  <2> HIDE DEF row
  <2>3. /\ IsFiniteSet(observed') /\ IsFiniteSet(index')
        /\ Cardinality(index') <= EventLimit
    <3>1. e \notin index
      BY <2>1
    <3>2. Cardinality(index') = Cardinality(index) + 1 /\ Cardinality(index) \in Nat
      BY <1>3, <3>1, FS_AddElement, FS_CardinalityType DEF StoreInv
    <3>3. Cardinality(index') <= EventLimit
      <4>1. EventLimit \in Nat
        BY ControlAssumption
      <4> QED BY <1>3, <3>2, <4>1 DEF HasRoom
    <3> QED BY <1>3, <3>3, FS_AddElement DEF StoreInv
  <2>4. Events' = Events \cup {e}
    <3>1. observed' = observed \cup {row}
      BY <1>3
    <3> QED BY <2>2, <3>1 DEF Events
  <2>5. /\ \A old \in observed' :
             old.event \in RawEvents /\ old.event \in Event /\ old.at \in 0..MaxTime
        /\ index' \subseteq RawEvents \cap Event
    BY <1>1, <1>3, <2>2 DEF StoreInv, ClockInv
  <2>6. \A old, other \in observed' : old.event.id = other.event.id => old = other
    BY <1>3, <2>1, <2>2 DEF StoreInv
  <2>7. \A f, g \in index' \cup Events' : f.id = g.id => f = g
    <3>1. \A old \in Events : old.id # e.id
      BY <2>1 DEF Events
    <3> QED BY <1>3, <2>1, <2>4, <3>1 DEF StoreInv
  <2>8. Events' \subseteq index' \cup lost'
    BY <1>3, <2>0, <2>4 DEF StoreInv
  <2> QED BY <2>0, <2>3, <2>5, <2>6, <2>7, <2>8 DEF StoreInv
<1> QED BY <1>2, <1>3 DEF Ingest

\* Pruning takes rows away; what it takes from the index is in the journal no more.  What
\* is deleted from the index by hand is known to be lost.
LEMMA PruneKeeps ==
  ASSUME StoreInv,
         \/ PruneIndex \/ \E before \in 1..MaxTime : PruneJournal(before)
         \/ \E rows \in SUBSET index : LoseIndex(rows)
  PROVE  StoreInv'
<1>1. /\ observed' \subseteq observed /\ index' \subseteq index
      /\ lost \subseteq lost' /\ lost' \subseteq lost \cup index
  BY DEF PruneIndex, PruneJournal, LoseIndex
<1>2. /\ IsFiniteSet(observed') /\ IsFiniteSet(index') /\ IsFiniteSet(lost')
      /\ Cardinality(index') <= Cardinality(index)
      /\ Cardinality(index') \in Nat /\ Cardinality(index) \in Nat
  <2>1. IsFiniteSet(lost \cup index)
    BY FS_Union DEF StoreInv
  <2> QED BY <1>1, <2>1, FS_Subset, FS_CardinalityType DEF StoreInv
<1>3. Cardinality(index') <= EventLimit
  BY <1>2, ControlAssumption DEF StoreInv
<1>4. Events' \subseteq Events
  BY <1>1 DEF Events
<1>5. Events' \subseteq index' \cup lost'
  <2>1. CASE PruneIndex
    BY <2>1 DEF StoreInv, PruneIndex, Events
  <2>2. CASE \E before \in 1..MaxTime : PruneJournal(before)
    BY <1>4, <2>2 DEF StoreInv, PruneJournal
  <2>3. CASE \E rows \in SUBSET index : LoseIndex(rows)
    BY <1>4, <2>3 DEF StoreInv, LoseIndex
  <2> QED BY <2>1, <2>2, <2>3
<1> QED BY <1>1, <1>2, <1>3, <1>4, <1>5 DEF StoreInv

\* No other step touches the store.
LEMMA StoreHolds ==
  ASSUME ServerInv, StoreInv, ClockInv, [Next]_vars
  PROVE  StoreInv'
<1>1. ASSUME NEW r \in Slots, Ingest(r) PROVE StoreInv'
  BY <1>1, IngestKeeps
<1>2. ASSUME \/ PruneIndex \/ \E before \in 1..MaxTime : PruneJournal(before)
             \/ \E rows \in SUBSET index : LoseIndex(rows)
      PROVE  StoreInv'
  BY <1>2, PruneKeeps
<1>3. ASSUME UNCHANGED store PROVE StoreInv'
  BY <1>3 DEF StoreInv, Events, store
<1>4. ASSUME NEW r \in Slots, Serve(r), ~Ingest(r)
      PROVE  UNCHANGED store
  BY <1>4 DEF Serve, Refused, Assess, Assign, BeginScan, StartChild, Collect, Answer,
              Reserve, Deliver, Finish
<1>5. ASSUME NEW r \in Slots, NEW input \in Inputs, Arrive(r, input)
      PROVE  UNCHANGED store
  BY <1>5 DEF Arrive
<1>6. ASSUME NEW r \in Slots, Expire(r) \/ \E end \in Ends : ChildEnds(r, end)
      PROVE  UNCHANGED store
  BY <1>6 DEF Expire, ChildEnds
<1>7. CASE Stop \/ Start \/ Tick \/ UNCHANGED vars
  BY <1>3, <1>7 DEF Stop, Start, Tick, vars
<1> QED BY <1>1, <1>2, <1>3, <1>4, <1>5, <1>6, <1>7 DEF Next, Maintain

----------------------------------------------------------------------------
(* The clock, and what has left. *)

LEMMA ClockHolds ==
  ASSUME ClockInv, [Next]_vars
  PROVE  ClockInv'
<1>0. MaxTime \in Nat /\ MaxRequests \in Nat /\ MaxFaults \in Nat
  BY ControlAssumption
<1>1. CASE Tick
  <2>1. now' \in 0..MaxTime
    BY <1>0, <1>1 DEF ClockInv, Tick
  <2> QED BY <1>1, <2>1 DEF ClockInv, Tick, bounds
<1>2. CASE Stop
  <2>1. faults' \in 0..MaxFaults
    BY <1>0, <1>2 DEF ClockInv, Stop
  <2>2. up' \in BOOLEAN
    BY <1>2 DEF Stop
  <2>3. UNCHANGED <<now, asked>>
    BY <1>2 DEF Stop
  <2> QED BY <2>1, <2>2, <2>3 DEF ClockInv
<1>6. CASE \E rows \in SUBSET index : LoseIndex(rows)
  <2>1. faults' \in 0..MaxFaults
    BY <1>0, <1>6 DEF ClockInv, LoseIndex
  <2>2. UNCHANGED <<now, up, asked>>
    BY <1>6 DEF LoseIndex
  <2> QED BY <2>1, <2>2 DEF ClockInv
<1>3. CASE Start \/ PruneIndex \/ (\E before \in 1..MaxTime : PruneJournal(before))
           \/ UNCHANGED vars
  BY <1>3 DEF ClockInv, Start, PruneIndex, PruneJournal, vars, bounds
<1>4. ASSUME NEW r \in Slots, NEW input \in Inputs, Arrive(r, input) PROVE ClockInv'
  <2>1. asked' \in 0..MaxRequests
    BY <1>0, <1>4 DEF ClockInv, Arrive
  <2> QED BY <1>4, <2>1 DEF ClockInv, Arrive
<1>5. ASSUME NEW r \in Slots,
             Serve(r) \/ Expire(r) \/ \E end \in Ends : ChildEnds(r, end)
      PROVE  ClockInv'
  <2>1. UNCHANGED <<now, up, asked, faults>>
    BY <1>5 DEF Serve, Refused, Ingest, Assess, Assign, BeginScan, StartChild, Collect,
                Answer, Reserve, Deliver, Finish, Expire, ChildEnds, bounds
  <2> QED BY <2>1 DEF ClockInv
<1> QED BY <1>1, <1>2, <1>3, <1>4, <1>5, <1>6 DEF Next, Maintain

\* Only what was reserved is delivered.
LEMMA SentHolds ==
  ASSUME ServerInv, SentInv, [Next]_vars
  PROVE  SentInv'
<1>1. ASSUME NEW r \in Slots, Deliver(r) PROVE SentInv'
  <2>1. slot[r] \in Slot /\ Sound(slot[r]) /\ slot[r].stage = "reserved"
    BY <1>1, SlotTypes DEF Deliver
  <2>2. slot[r].input.id \in DOMAIN Bundles /\ Releasable(slot[r].input.id)
    BY <2>1, InputTypes DEF Slot, Sound
  <2>3. sent' \subseteq sent \cup {slot[r].input.id}
    BY <1>1 DEF Deliver
  <2> QED BY <2>2, <2>3 DEF SentInv
<1>2. ASSUME sent' = sent PROVE SentInv'
  BY <1>2 DEF SentInv
<1>3. ASSUME NEW r \in Slots, Serve(r), ~Deliver(r) PROVE sent' = sent
  BY <1>3 DEF Serve, Refused, Ingest, Assess, Assign, BeginScan, StartChild, Collect,
              Answer, Reserve, Finish
<1>4. ASSUME NEW r \in Slots, NEW input \in Inputs, Arrive(r, input) PROVE sent' = sent
  BY <1>4 DEF Arrive
<1>5. ASSUME NEW r \in Slots, Expire(r) \/ \E end \in Ends : ChildEnds(r, end)
      PROVE  sent' = sent
  BY <1>5 DEF Expire, ChildEnds
<1>6. CASE Maintain \/ Tick \/ UNCHANGED vars
  BY <1>2, <1>6 DEF Maintain, Stop, Start, PruneIndex, PruneJournal, LoseIndex, Tick, vars
<1> QED BY <1>1, <1>2, <1>3, <1>4, <1>5, <1>6 DEF Next

----------------------------------------------------------------------------
(* The theorems. *)

LEMMA InitHolds == Init => IInv
<1> SUFFICES ASSUME Init PROVE IInv
  OBVIOUS
<1>1. Active = {}
  BY DEF Init, Active
<1>2. /\ IsFiniteSet(Active) /\ Cardinality(Active) = 0
      /\ IsFiniteSet(observed) /\ IsFiniteSet(index) /\ IsFiniteSet(lost)
      /\ Cardinality(index) = 0
  BY <1>1, FS_EmptySet DEF Init
<1>3. ServerInv
  BY <1>2, ControlAssumption DEF Init, ServerInv
<1>4. StoreInv
  BY <1>2, ControlAssumption DEF Init, StoreInv, Events
<1>5. ClockInv /\ SentInv
  BY ControlAssumption DEF Init, ClockInv, SentInv
<1> QED BY <1>3, <1>4, <1>5 DEF IInv

LEMMA StepHolds == IInv /\ [Next]_vars => IInv'
BY ServerHolds, StoreHolds, ClockHolds, SentHolds DEF IInv

\* The inductive invariant above holds of every state the service and its store reach.
THEOREM Invariance == Spec => []IInv
BY InitHolds, StepHolds, PTL DEF Spec

\* Every path out of a request - refused, answered, cut off by a crash - gives back its
\* place in App.busy, for any number of threads, requests and crashes.
THEOREM TypeCorrect == Spec => []TypeOK
<1>1. IInv => TypeOK
  BY DEF IInv, ServerInv, StoreInv, ClockInv, SentInv, TypeOK, Active
<1> QED BY <1>1, Invariance, PTL

\* Ingestion, the maintenance that prunes journal and index in two transactions, rows of
\* the index deleted by hand, and a crash between them: an event is in the journal once,
\* and the journal outgrows what read() answers by no more than the rows deleted.
THEOREM JournalAnswers == Spec => []ObservedOnce
<1>1. IInv => ObservedOnce
  BY JournalFits DEF IInv, StoreInv, ObservedOnce
<1> QED BY <1>1, Invariance, PTL

\* Whatever bundle is sent, of any files in any number, nothing was found in it: every
\* file was read by a worker that answered in time, and none was missing or swapped.
THEOREM SentIsClean == Spec => []ReleaseIsClean
<1>1. IInv => ReleaseIsClean
  BY DEF IInv, SentInv, Releasable, ReleaseIsClean
<1> QED BY <1>1, Invariance, PTL

\* analyze() does not lose a case because one event more was ingested, and /api/state
\* shows no less of it but for what it says to be cut: for any events, any thresholds, any
\* limit of the evidence and any instant.
THEOREM CasesRemain == Spec => NothingErased
<1> DEFINE Keeps == observed \subseteq observed' /\ observed # observed' /\ ReadAnswers'
                      => \A c \in Shown : \E d \in Shown' : Continues(d, c)
<1>1. ASSUME IInv, IInv', [Next]_vars PROVE Keeps
  <2> SUFFICES ASSUME observed \subseteq observed', observed # observed', ReadAnswers',
                      NEW c \in Shown
               PROVE  \E d \in Shown' : Continues(d, c)
    OBVIOUS
  <2>1. PICK r \in Slots : Ingest(r)
    <3>1. ASSUME NEW r \in Slots, Serve(r), ~Ingest(r) PROVE observed' = observed
      BY <3>1 DEF Serve, Refused, Assess, Assign, BeginScan, StartChild, Collect, Answer,
                  Reserve, Deliver, Finish, store
    <3>2. ASSUME NEW r \in Slots,
                 (\E input \in Inputs : Arrive(r, input)) \/ Expire(r)
                 \/ \E end \in Ends : ChildEnds(r, end)
          PROVE  observed' = observed
      BY <3>2 DEF Arrive, Expire, ChildEnds, store
    <3>3. ASSUME NEW before \in 1..MaxTime, PruneJournal(before)
          PROVE  observed' \subseteq observed
      BY <3>3 DEF PruneJournal
    <3>4. ASSUME \/ Stop \/ Start \/ PruneIndex \/ Tick \/ UNCHANGED vars
                 \/ \E rows \in SUBSET index : LoseIndex(rows)
          PROVE  observed' = observed
      BY <3>4 DEF Stop, Start, PruneIndex, LoseIndex, Tick, vars, store
    <3>5. ~(observed' \subseteq observed)
      OBVIOUS
    <3> QED BY <1>1, <3>1, <3>2, <3>3, <3>4, <3>5 DEF Next, Maintain
  <2> DEFINE e == slot[r].input.body
  <2>2. /\ observed' = observed \cup {[event |-> e, at |-> now]} /\ InTime(e.at, now)
        /\ now' = now /\ risky' = risky
    BY <2>1 DEF Ingest, Reportable
  <2>3. Events' = Events \cup {e}
    <3> HIDE DEF e
    <3>1. [event |-> e, at |-> now].event = e
      OBVIOUS
    <3> QED BY <2>2, <3>1 DEF Events
  <2>4. Events' \in SUBSET Event /\ IsFiniteSet(Events') /\ Events \in SUBSET Event
    <3>1. Events' \subseteq Event
      BY <1>1 DEF IInv, StoreInv, Events
    <3>2. IsFiniteSet(Events')
      <4>1. Events' \subseteq index' \cup lost' /\ IsFiniteSet(index') /\ IsFiniteSet(lost')
        BY <1>1 DEF IInv, StoreInv
      <4>2. IsFiniteSet(index' \cup lost')
        BY <4>1, FS_Union
      <4> QED BY <4>1, <4>2, FS_Subset
    <3> QED BY <2>3, <3>1, <3>2
  <2>5. PICK old \in Cases(Events, risky, now) : c = Presented(old)
    BY DEF Shown
  <2>6. ~AnalysisRefused(Events, now)
    BY DEF Shown
  <2> HIDE DEF e
  <2>7. ~AnalysisRefused(Events', now')
    BY <2>2, <2>3, <2>6 DEF AnalysisRefused
  <2>8. Shown' = {Presented(new) : new \in Cases(Events', risky, now)}
    BY <2>2, <2>7 DEF Shown
  <2>9. PICK new \in Cases(Events', risky, now) :
          new.rule = old.rule /\ old.evidence \subseteq new.evidence
    <3>1. Covers(Cases(Events', risky, now), Cases(Events, risky, now))
      BY <2>3, <2>4, CasesGrow
    <3> QED BY <3>1 DEF Covers
  <2>10. /\ old.evidence # {} /\ new.evidence \subseteq Events'
         /\ new.evidence \subseteq Event /\ IsFiniteSet(new.evidence)
    <3>1. old.evidence # {} /\ new.evidence \subseteq Events'
      BY CasesAreOf
    <3> QED BY <2>4, <3>1, FS_Subset
  <2>11. Continues(Presented(new), Presented(old))
    BY <2>9, <2>10, PresentedGrows
  <2> QED BY <2>5, <2>8, <2>11
<1>2. Spec => [][Keeps]_vars
  BY <1>1, Invariance, PTL DEF Spec
<1> QED BY <1>2 DEF NothingErased
=============================================================================
