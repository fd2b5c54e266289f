------------------------ MODULE Eligibility_proofs ------------------------
(* Proofs about the decision function, for every set of policies, readings,  *)
(* timestamps and clock bound.                                               *)
EXTENDS Eligibility, TLAPS

\* Every state reachable is well typed.
THEOREM Typing == Spec => []TypeOK
  <1>1. Init => TypeOK
    BY TimeAssumption DEF Init, TypeOK
  <1>2. TypeOK /\ [Next]_vars => TypeOK'
    <2> SUFFICES ASSUME TypeOK, [Next]_vars
                 PROVE  TypeOK'
      OBVIOUS
    <2>1. CASE Tick
      BY <2>1, TimeAssumption DEF Tick, TypeOK
    <2>2. ASSUME NEW o \in Observation, Report(o)
          PROVE  TypeOK'
      BY <2>2 DEF Report, TypeOK
    <2>3. ASSUME NEW r \in Readings, Silence(r.link, r.quantity)
          PROVE  TypeOK'
      BY <2>3 DEF Silence, Restrict, TypeOK
    <2>4. CASE UNCHANGED vars
      BY <2>4 DEF vars, TypeOK
    <2> QED
      BY <2>1, <2>2, <2>3, <2>4 DEF Next
  <1> QED
    BY <1>1, <1>2, PTL DEF Spec

-----------------------------------------------------------------------------
(* Abstention *)

\* A reading never gets younger as the clock advances.
LEMMA AgeNeverShrinks ==
  ASSUME NEW o, o.at \in Int, NEW t1 \in Int, NEW t2 \in Int, t1 <= t2
  PROVE  Age(o, t1) <= Age(o, t2) /\ Age(o, t1) \in Int /\ Age(o, t2) \in Int
  BY DEF Age

\* On one and the same evidence, a rule that excludes a link goes on excluding it,
\* unless it is a directive and the directive lapses (rules.py).
LEMMA ExclusionPersists ==
  ASSUME NEW r, NEW link, NEW tclass, NEW ev,
         NEW t1 \in Int, NEW t2 \in Int, t1 <= t2,
         \A i \in DOMAIN ev : ev[i].at \in Int,
         r.kind = "freshness" => r.max_age \in Int,
         r.kind = "directive" => r.not_after \in Int /\ ~(t1 < r.not_after /\ r.not_after <= t2),
         Excludes(r, link, tclass, ev, t1)
  PROVE  Excludes(r, link, tclass, ev, t2)
  <1>1. CASE r.kind = "freshness" /\ EvidenceFreshness(r, link, ev, t1)
    <2>1. SUFFICES ASSUME NEW o \in Latest(ev, link.id, r.quantity), Age(o, t2) <= r.max_age
                   PROVE  FALSE
      BY <1>1 DEF Excludes, EvidenceFreshness
    <2>2. o.at \in Int
      BY <2>1 DEF Latest, Candidates
    <2>3. Age(o, t1) <= r.max_age
      BY <1>1, <2>1, <2>2, AgeNeverShrinks
    <2> QED
      BY <1>1, <2>3 DEF EvidenceFreshness
  <1>2. CASE r.kind = "directive" /\ Directive(r, link, t1)
    BY <1>2 DEF Excludes, Directive
  <1> QED
    BY <1>1, <1>2 DEF Excludes

\* Abstention: time passing over an unchanged snapshot only takes links out.
THEOREM AgeingContractsHolds == Spec => AgeingContracts
  <1> DEFINE Contracts ==
        UNCHANGED evidence =>
          \A b \in Bundles : \A t \in b.traffic_classes :
            (NoDirectiveLapses(b, now, now') /\ NoReadingBecomesCredible(now, now'))
              => Permitted(b, t, evidence, now') \subseteq Permitted(b, t, evidence, now)
  <1>1. TypeOK /\ [Next]_vars => now \in Int /\ now' \in Int /\ now <= now'
    <2> SUFFICES ASSUME TypeOK, [Next]_vars
                 PROVE  now \in Int /\ now' \in Int /\ now <= now'
      OBVIOUS
    <2>1. now \in Int
      BY TimeAssumption DEF TypeOK
    <2>2. now' = now + 1 \/ now' = now
      BY DEF Next, vars, Tick, Report, Silence
    <2> QED
      BY <2>1, <2>2
  <1>2. TypeOK /\ [Next]_vars => Contracts
    <2> SUFFICES ASSUME TypeOK, [Next]_vars,
                        NEW b \in Bundles, NEW t \in b.traffic_classes,
                        NoDirectiveLapses(b, now, now'),
                        AsOf(evidence, now') = AsOf(evidence, now)
                 PROVE  Permitted(b, t, evidence, now') \subseteq Permitted(b, t, evidence, now)
      BY DEF NoReadingBecomesCredible
    <2> DEFINE ev == AsOf(evidence, now)
    <2>1. \A i \in DOMAIN ev : ev[i].at \in Int
      BY TimeAssumption DEF TypeOK, Observation, AsOf, Restrict
    <2>2. ASSUME NEW k \in b.links, NEW r \in b.rules, Excludes(r, k, t, ev, now)
          PROVE  Excludes(r, k, t, ev, now')
      <3>1. r.kind = "directive" =>
              r.not_after \in Int /\ ~(now < r.not_after /\ r.not_after <= now')
        BY BundlesAssumption DEF NoDirectiveLapses
      <3>2. r.kind = "freshness" => r.max_age \in Int
        BY BundlesAssumption
      <3> HIDE DEF ev
      <3> QED
        BY <1>1, <2>1, <2>2, <3>1, <3>2, ExclusionPersists
    <2> QED
      BY <2>2 DEF Permitted
  <1>3. TypeOK /\ [Next]_vars => [Contracts]_vars
    BY <1>2
  <1> HIDE DEF Contracts
  <1>4. Spec => [][Contracts]_vars
    BY <1>3, Typing, PTL DEF Spec
  <1> QED
    BY <1>4 DEF AgeingContracts, Contracts
-----------------------------------------------------------------------------
(* Absence of evidence *)

\* Without the readings of one quantity of one link, the newest reading of that
\* quantity is missing and every other newest reading is what it was.
LEMMA SilencedLatest ==
  ASSUME NEW ev, NEW l, NEW q, NEW t, NEW x, NEW y,
         NEW left, left = Restrict(ev, DOMAIN ev \ Candidates(ev, l, q))
  PROVE  Latest(AsOf(left, t), x, y) \subseteq Latest(AsOf(ev, t), x, y)
  <1> DEFINE before == AsOf(ev, t)
             after  == AsOf(left, t)
  <1>1. /\ DOMAIN after = DOMAIN before \ Candidates(ev, l, q)
        /\ \A i \in DOMAIN after : after[i] = before[i] /\ before[i] = ev[i]
        /\ \A i \in DOMAIN before : before[i] = ev[i] /\ i \in DOMAIN ev
    BY DEF AsOf, Restrict
  <1>2. CASE x = l /\ y = q
    <2>1. Candidates(after, x, y) = {}
      BY <1>1, <1>2 DEF Candidates
    <2> QED
      BY <2>1 DEF Latest
  <1>3. CASE ~(x = l /\ y = q)
    <2>1. Candidates(after, x, y) = Candidates(before, x, y)
      BY <1>1, <1>3 DEF Candidates
    <2>2. \A i \in Candidates(after, x, y) : after[i] = before[i]
      BY <1>1 DEF Candidates
    <2> HIDE DEF before, after
    <2>3. ASSUME NEW o \in Latest(after, x, y)
          PROVE  o \in Latest(before, x, y)
      <3>1. PICK j \in Candidates(after, x, y) :
              /\ o = after[j]
              /\ \A k \in Candidates(after, x, y) :
                   after[k].at < after[j].at \/ (after[k].at = after[j].at /\ j <= k)
        BY <2>3 DEF Latest
      <3>2. \A k \in Candidates(before, x, y) :
              before[k].at < before[j].at \/ (before[k].at = before[j].at /\ j <= k)
        BY <2>1, <2>2, <3>1
      <3> QED
        BY <2>1, <2>2, <3>1, <3>2 DEF Latest
    <2> QED
      BY <2>3 DEF before, after
  <1> QED
    BY <1>2, <1>3

\* A rule that excludes on some evidence excludes on evidence whose newest readings
\* are all among the former's: each rule asks for a good reading (rules.py:7-9).
LEMMA FewerReadingsExclude ==
  ASSUME NEW r, NEW link, NEW tclass, NEW ev, NEW less, NEW t,
         \A x, y : Latest(less, x, y) \subseteq Latest(ev, x, y),
         Excludes(r, link, tclass, ev, t)
  PROVE  Excludes(r, link, tclass, less, t)
  BY DEF Excludes, LinkDown, MaxRtt, Quota, EvidenceFreshness

\* When a source falls silent about a quantity, no class gains a link.
THEOREM SilenceNeverAdmitsHolds == Spec => SilenceNeverAdmits
  <1> DEFINE Admits ==
        (\E r \in Readings : Silence(r.link, r.quantity)) =>
          \A b \in Bundles : \A t \in b.traffic_classes :
            Permitted(b, t, evidence', now) \subseteq Permitted(b, t, evidence, now)
  <1>1. Admits
    <2> SUFFICES ASSUME NEW r \in Readings, Silence(r.link, r.quantity),
                        NEW b \in Bundles, NEW t \in b.traffic_classes
                 PROVE  Permitted(b, t, evidence', now) \subseteq Permitted(b, t, evidence, now)
      OBVIOUS
    <2>1. ASSUME NEW x, NEW y
          PROVE  Latest(AsOf(evidence', now), x, y) \subseteq Latest(AsOf(evidence, now), x, y)
      <3>1. evidence' = Restrict(evidence, DOMAIN evidence \
                                             Candidates(evidence, r.link, r.quantity))
        BY DEF Silence
      <3> QED
        BY ONLY <3>1, SilencedLatest
    <2>2. ASSUME NEW k \in b.links, NEW rule \in b.rules,
                 Excludes(rule, k, t, AsOf(evidence, now), now)
          PROVE  Excludes(rule, k, t, AsOf(evidence', now), now)
      BY <2>1, <2>2, FewerReadingsExclude
    <2> QED
      BY <2>2 DEF Permitted
  <1>2. [Next]_vars => [Admits]_vars
    BY <1>1
  <1> HIDE DEF Admits
  <1>3. Spec => [][Admits]_vars
    BY <1>2, PTL DEF Spec
  <1> QED
    BY <1>3 DEF SilenceNeverAdmits, Admits
-----------------------------------------------------------------------------
(* What a permitted link has behind it *)

\* A link that a policy with a liveness rule permits was seen up, and no credible
\* reading dated later says otherwise.
THEOREM PermittedWasSeenUpHolds == Spec => []PermittedWasSeenUp
  <1>1. TypeOK => PermittedWasSeenUp
    <2> SUFFICES ASSUME TypeOK, NEW b \in Bundles, NEW t \in b.traffic_classes,
                        [kind |-> "link_down"] \in b.rules,
                        NEW l \in Permitted(b, t, evidence, now)
                 PROVE  \E i \in Candidates(evidence, l, "up") :
                          /\ evidence[i].value >= 1
                          /\ evidence[i].at <= now + MaxClockSkew
                          /\ \A j \in Candidates(evidence, l, "up") :
                               evidence[j].at > evidence[i].at =>
                                 evidence[j].at > now + MaxClockSkew
      BY DEF PermittedWasSeenUp
    <2> DEFINE ev == AsOf(evidence, now)
    <2>1. PICK link \in b.links : l = link.id /\ ~LinkDown(link, ev)
      BY DEF Permitted, Excludes
    <2>2. PICK i \in Candidates(ev, l, "up") :
            /\ ev[i].value >= 1
            /\ \A k \in Candidates(ev, l, "up") :
                 ev[k].at < ev[i].at \/ (ev[k].at = ev[i].at /\ i <= k)
      BY <2>1 DEF LinkDown, Latest
    <2>3. /\ \A j \in DOMAIN evidence : evidence[j].at \in Int
          /\ now + MaxClockSkew \in Int
      BY TimeAssumption, ClockSkewAssumption DEF TypeOK, Observation
    <2>4. \A j : j \in Candidates(ev, l, "up") <=>
                   /\ j \in Candidates(evidence, l, "up")
                   /\ evidence[j].at <= now + MaxClockSkew
      BY DEF AsOf, Restrict, Candidates
    <2>5. \A j \in Candidates(ev, l, "up") : ev[j] = evidence[j] /\ j \in DOMAIN evidence
      BY DEF AsOf, Restrict, Candidates
    <2>6. \A j \in Candidates(evidence, l, "up") : j \in DOMAIN evidence
      BY DEF Candidates
    <2> HIDE DEF ev
    <2>7. ASSUME NEW j \in Candidates(evidence, l, "up"), evidence[j].at > evidence[i].at
          PROVE  evidence[j].at > now + MaxClockSkew
      BY <2>2, <2>3, <2>4, <2>5, <2>6, <2>7
    <2> QED
      BY <2>2, <2>4, <2>5, <2>7
  <1> QED
    BY <1>1, Typing, PTL

\* The floor permits no link that the constraints the classes declare would refuse
\* (bundle.py:76-136).
THEOREM FloorKeepsDeclaredConstraintsHolds == Spec => []FloorKeepsDeclaredConstraints
  <1>1. FloorKeepsDeclaredConstraints
    <2> SUFFICES ASSUME NEW b \in Bundles, NEW t \in b.traffic_classes,
                        NEW k \in b.links, NEW r \in DeclaredOnly(b).rules, NEW ev,
                        Excludes(r, k, t, ev, now)
                 PROVE  \E f \in FloorBundle(b.links, b.traffic_classes).rules :
                          Excludes(f, k, t, ev, now)
      BY DEF FloorKeepsDeclaredConstraints, Permitted, DeclaredOnly, FloorBundle
    <2>1. FloorBundle(b.links, b.traffic_classes).rules =
            {[kind |-> "link_down"], [kind |-> "link_type", type |-> "fso"]}
              \cup FloorClassRules(b.traffic_classes)
      BY DEF FloorBundle
    <2>2. CASE r = [kind |-> "link_down"]
      BY <2>1, <2>2
    <2>3. ASSUME NEW kind \in {"metered", "max_rtt", "jurisdiction", "encryption"},
                 NEW c \in b.traffic_classes, r = [kind |-> kind, class |-> c.id]
          PROVE  r \in FloorClassRules(b.traffic_classes)
      <3>1. t.id = c.id
        BY <2>3 DEF Excludes, Metered, MaxRtt, Jurisdiction, Encryption
      <3>2. /\ kind = "max_rtt" => t.max_rtt # None
            /\ kind = "jurisdiction" => t.jurisdictions # None
            /\ kind = "encryption" => t.encryption
        BY <2>3 DEF Excludes, MaxRtt, Jurisdiction, Encryption
      <3>3. r = [kind |-> kind, class |-> t.id]
        BY <2>3, <3>1
      <3> QED
        BY <3>2, <3>3 DEF FloorClassRules
    <2> QED
      BY <2>1, <2>2, <2>3 DEF DeclaredOnly
  <1> QED
    BY <1>1, PTL
=============================================================================
