------------------------------- MODULE Policy -------------------------------
(***************************************************************************)
(* The pure decision core: pilotfish/core (models, rules, bundle, decide). *)
(*                                                                         *)
(* A bundle, a snapshot of evidence and a clock go in, the permitted links *)
(* of every traffic class come out.  Nothing here keeps state.             *)
(*                                                                         *)
(* Data is abstracted to what the rules read:                              *)
(*   link         [id, type, metered, encrypted, jurisdictions]            *)
(*   class        [id, max_rtt, allow_metered, jurisdictions, encryption]  *)
(*                max_rtt and jurisdictions may be None                    *)
(*   observation  [link, quantity, value, at]   the source is left out, no *)
(*                rule reads it; values are finite integers (models.py     *)
(*                refuses NaN and infinities at construction)              *)
(*   evidence     a function from positions of the snapshot tuple to       *)
(*                observations: equal timestamps are told apart by         *)
(*                position, exactly as max() over the tuple does           *)
(*   rule         a record tagged by kind; its id and its reason text are  *)
(*                left out, so a rule stands for its own id                *)
(***************************************************************************)
EXTENDS Integers, FiniteSets, Functions

CONSTANTS MaxClockSkew,  \* MAX_CLOCK_SKEW_S, in ticks of the model's clock
          None           \* Python's None

ASSUME ClockSkewAssumption == MaxClockSkew \in Nat

-----------------------------------------------------------------------------
(* Evidence: models.py *)

\* Mutant: the distance in time, in either direction.
AgeIsDistance(o, now) == IF now >= o.at THEN now - o.at ELSE o.at - now
\* Observation.age_s: a reading from slightly ahead of our clock is brand new.
Age(o, now) == IF now >= o.at THEN now - o.at ELSE 0

\* EvidenceSnapshot.as_of: readings dated past the skew allowance are dropped.
AsOf(ev, now) == Restrict(ev, {i \in DOMAIN ev : ev[i].at <= now + MaxClockSkew})

Candidates(ev, l, q) == {i \in DOMAIN ev : ev[i].link = l /\ ev[i].quantity = q}

\* EvidenceSnapshot.latest, as a set that holds at most one observation: the
\* newest reading of quantity q on link l, the first in the tuple among equals.
\* Empty stands for None.  Mutant: the one reported last, whatever its date.
LatestByPosition(ev, l, q) ==
  {ev[i] : i \in {j \in Candidates(ev, l, q) :
                    \A k \in Candidates(ev, l, q) : k <= j}}
Latest(ev, l, q) ==
  {ev[i] : i \in {j \in Candidates(ev, l, q) :
                    \A k \in Candidates(ev, l, q) :
                      \/ ev[k].at < ev[j].at
                      \/ ev[k].at = ev[j].at /\ j <= k}}

\* EvidenceSnapshot.hash: the sorted rows, so the bag of the observations.
EvidenceHash(ev) ==
  [o \in Range(ev) |-> Cardinality({i \in DOMAIN ev : ev[i] = o})]

-----------------------------------------------------------------------------
(* Rules: rules.py.  Each operator holds when the rule gives a reason.  A   *)
(* rule that reads a measurement is silent only if the measurement exists   *)
(* and is good, so an absent one excludes.                                  *)

\* Mutant: a link nobody has reported on is taken to be up.
LinkDownTrustsSilence(link, ev) == \E o \in Latest(ev, link.id, "up") : o.value < 1
LinkDown(link, ev) == ~ \E o \in Latest(ev, link.id, "up") : o.value >= 1

MaxRtt(r, link, tclass, ev) ==
  /\ tclass.id = r.class
  /\ tclass.max_rtt # None
  /\ ~ \E o \in Latest(ev, link.id, "rtt_ms") : o.value <= tclass.max_rtt

Metered(r, link, tclass) ==
  tclass.id = r.class /\ ~tclass.allow_metered /\ link.metered

Quota(r, link, ev) ==
  /\ link.type = r.type
  /\ ~ \E o \in Latest(ev, link.id, "quota_used_pct") : o.value < r.threshold

EvidenceFreshness(r, link, ev, now) ==
  /\ link.type = r.type
  /\ ~ \E o \in Latest(ev, link.id, r.quantity) : Age(o, now) <= r.max_age

Jurisdiction(r, link, tclass) ==
  /\ tclass.id = r.class
  /\ tclass.jurisdictions # None
  /\ link.jurisdictions = {} \/ ~(link.jurisdictions \subseteq tclass.jurisdictions)

Encryption(r, link, tclass) ==
  tclass.id = r.class /\ tclass.encryption /\ ~link.encrypted

LinkTypeRefused(r, link) == link.type = r.type

Directive(r, link, now) == link.id = r.link /\ now < r.not_after

\* Rule.evaluate(link, tclass, evidence, now) is not None
Excludes(r, link, tclass, ev, now) ==
  \/ r.kind = "link_down"    /\ LinkDown(link, ev)
  \/ r.kind = "max_rtt"      /\ MaxRtt(r, link, tclass, ev)
  \/ r.kind = "metered"      /\ Metered(r, link, tclass)
  \/ r.kind = "quota"        /\ Quota(r, link, ev)
  \/ r.kind = "freshness"    /\ EvidenceFreshness(r, link, ev, now)
  \/ r.kind = "jurisdiction" /\ Jurisdiction(r, link, tclass)
  \/ r.kind = "encryption"   /\ Encryption(r, link, tclass)
  \/ r.kind = "link_type"    /\ LinkTypeRefused(r, link)
  \/ r.kind = "directive"    /\ Directive(r, link, now)

-----------------------------------------------------------------------------
(* The decision: decide.py *)

\* The ids of the links no rule of the bundle excludes for tclass.
Permitted(bundle, tclass, evidence, now) ==
  {link.id : link \in {k \in bundle.links :
      \A r \in bundle.rules : ~Excludes(r, k, tclass, AsOf(evidence, now), now)}}

Exclusions(bundle, tclass, evidence, now) ==
  {x \in {link.id : link \in bundle.links} \X bundle.rules :
     \E k \in bundle.links :
        k.id = x[1] /\ Excludes(x[2], k, tclass, AsOf(evidence, now), now)}

\* decide(): bundle_hash stands for the bundle itself.
Decide(bundle, evidence, now, degraded) ==
  [ decided_at    |-> now,
    valid_until   |-> now + bundle.decision_ttl,
    bundle_hash   |-> bundle,
    evidence_hash |-> EvidenceHash(AsOf(evidence, now)),
    degraded      |-> degraded,
    classes       |-> {[ class      |-> t.id,
                         permitted  |-> Permitted(bundle, t, evidence, now),
                         exclusions |-> Exclusions(bundle, t, evidence, now) ]
                         : t \in bundle.traffic_classes} ]

-----------------------------------------------------------------------------
(* The floor: bundle.py *)

\* _floor_class_rules: every constraint a class declares, as rules.
\* Mutant: the jurisdiction rule is forgotten.
FloorRulesForgettingJurisdiction(classes) ==
  {[kind |-> "metered", class |-> t.id] : t \in classes}
    \cup {[kind |-> "max_rtt", class |-> t.id] : t \in {c \in classes : c.max_rtt # None}}
    \cup {[kind |-> "encryption", class |-> t.id] : t \in {c \in classes : c.encryption}}
FloorClassRules(classes) ==
  {[kind |-> "metered", class |-> t.id] : t \in classes}
    \cup {[kind |-> "max_rtt", class |-> t.id] : t \in {c \in classes : c.max_rtt # None}}
    \cup {[kind |-> "jurisdiction", class |-> t.id]
            : t \in {c \in classes : c.jurisdictions # None}}
    \cup {[kind |-> "encryption", class |-> t.id] : t \in {c \in classes : c.encryption}}

DefaultClass == [id |-> "default", max_rtt |-> None, allow_metered |-> FALSE,
                 jurisdictions |-> None, encryption |-> FALSE]

\* floor_bundle: what a site runs under when it has no valid bundle.
FloorBundle(links, declared) ==
  LET classes == IF declared = {} THEN {DefaultClass} ELSE declared
  IN  [ links           |-> links,
        traffic_classes |-> classes,
        decision_ttl    |-> 60,
        rules           |-> {[kind |-> "link_down"], [kind |-> "link_type", type |-> "fso"]}
                              \cup FloorClassRules(classes) ]
=============================================================================
