---------------------------- MODULE Eligibility ----------------------------
(***************************************************************************)
(* The decision function under a moving clock and a changing snapshot.     *)
(*                                                                         *)
(* The observation source (sdk/protocols.py, outside src's own logic) may  *)
(* report a reading with any timestamp, older or newer than what it        *)
(* reported before, and may stop reporting a quantity.  What decide()      *)
(* answers is recomputed from the snapshot at every cycle, so the state is *)
(* the clock and the snapshot alone; the properties compare the answers of *)
(* one cycle with those of the next, for every bundle of Bundles.          *)
(***************************************************************************)
EXTENDS Policy

CONSTANTS Bundles,   \* the policies the answers are compared under
          Readings,  \* [link, quantity, value] a source can report
          Stamps,    \* the timestamps a reading can carry
          MaxTime,   \* bound on the clock
          Slots      \* positions of the snapshot tuple: bounds its length

ASSUME TimeAssumption == Stamps \subseteq Int /\ MaxTime \in Nat
ASSUME SlotsAssumption == Slots \subseteq Nat
ASSUME BundlesAssumption ==
  \A b \in Bundles : \A r \in b.rules :
    /\ r.kind = "freshness" => r.max_age \in Int
    /\ r.kind = "directive" => r.not_after \in Int

VARIABLES now,       \* the clock passed to decide()
          evidence   \* the snapshot's observations, by position

vars == <<now, evidence>>

Observation ==
  {[link |-> r.link, quantity |-> r.quantity, value |-> r.value, at |-> t]
     : r \in Readings, t \in Stamps}

TypeOK ==
  /\ now \in 0..MaxTime
  /\ DOMAIN evidence \subseteq Slots
  /\ \A i \in DOMAIN evidence : evidence[i] \in Observation

-----------------------------------------------------------------------------

Init == now = 0 /\ evidence = [i \in {} |-> None]

Tick ==
  /\ now < MaxTime
  /\ now' = now + 1
  /\ UNCHANGED evidence

\* Mutant: an observation without a timestamp gets in.
ReportUndated(o) ==
  \E i \in Slots \ DOMAIN evidence :
    /\ evidence' = [j \in DOMAIN evidence \cup {i} |->
                      IF j = i THEN [o EXCEPT !.at = None] ELSE evidence[j]]
    /\ UNCHANGED now

\* One more observation, at the first position that is free.
Report(o) ==
  \E i \in Slots \ DOMAIN evidence :
    /\ \A j \in Slots \ DOMAIN evidence : i <= j
    /\ evidence' = [j \in DOMAIN evidence \cup {i} |->
                      IF j = i THEN o ELSE evidence[j]]
    /\ UNCHANGED now

\* The source stops reporting quantity q of link l: none of its readings is in
\* the next snapshot.
Silence(l, q) ==
  /\ Candidates(evidence, l, q) # {}
  /\ evidence' = Restrict(evidence, DOMAIN evidence \ Candidates(evidence, l, q))
  /\ UNCHANGED now

Next ==
  \/ Tick
  \/ \E o \in Observation : Report(o)
  \/ \E r \in Readings : Silence(r.link, r.quantity)

Spec == Init /\ [][Next]_vars

-----------------------------------------------------------------------------
(* Properties *)

NoDirectiveLapses(b, t1, t2) ==
  \A r \in b.rules : r.kind = "directive" => ~(t1 < r.not_after /\ r.not_after <= t2)

NoReadingBecomesCredible(t1, t2) == AsOf(evidence, t2) = AsOf(evidence, t1)

\* Abstention (rules.py:131-156, decide.py): while the snapshot stays the same,
\* time passing only takes links out of every permitted set.  The two ways the
\* code lets time widen one are a directive that lapses (rules.py:233) and a
\* reading that was dated ahead of the skew allowance and no longer is.
AgeingContracts ==
  [][ UNCHANGED evidence =>
        \A b \in Bundles : \A t \in b.traffic_classes :
          (NoDirectiveLapses(b, now, now') /\ NoReadingBecomesCredible(now, now'))
            => Permitted(b, t, evidence, now') \subseteq Permitted(b, t, evidence, now)
    ]_vars

\* Absence of evidence is never evidence of health (rules.py:7-9): when a source
\* falls silent about a quantity, no class gains a link.
SilenceNeverAdmits ==
  [][ (\E r \in Readings : Silence(r.link, r.quantity)) =>
        \A b \in Bundles : \A t \in b.traffic_classes :
          Permitted(b, t, evidence', now) \subseteq Permitted(b, t, evidence, now)
    ]_vars

\* A link that a policy with a liveness rule permits was seen up by a reading that
\* is credible now, and no credible reading dated later says otherwise
\* (models.py:118-137, rules.py:55-68), whatever order the readings came in.
PermittedWasSeenUp ==
  \A b \in Bundles : \A t \in b.traffic_classes :
    [kind |-> "link_down"] \in b.rules =>
      \A l \in Permitted(b, t, evidence, now) :
        \E i \in Candidates(evidence, l, "up") :
          /\ evidence[i].value >= 1
          /\ evidence[i].at <= now + MaxClockSkew
          /\ \A j \in Candidates(evidence, l, "up") :
               evidence[j].at > evidence[i].at =>
                 evidence[j].at > now + MaxClockSkew

\* The policy whose only rules are liveness and what its classes declare.
DeclaredOnly(b) ==
  [ links |-> b.links,
    rules |-> {[kind |-> "link_down"]} \cup
              {[kind |-> k, class |-> t.id] :
                 k \in {"metered", "max_rtt", "jurisdiction", "encryption"},
                 t \in b.traffic_classes} ]

\* The floor carries every constraint each traffic class declares
\* (bundle.py:76-95, spec/protocol.md 4.4): under the same evidence it permits no
\* link that those constraints alone would refuse.
FloorKeepsDeclaredConstraints ==
  \A b \in Bundles : \A t \in b.traffic_classes :
    Permitted(FloorBundle(b.links, b.traffic_classes), t, evidence, now) \subseteq
      Permitted(DeclaredOnly(b), t, evidence, now)

-----------------------------------------------------------------------------
(* What the documents say and the code does not do *)

\* tests/core/test_decide_properties.py and spec/protocol.md: a decision can be
\* recomputed from the bundle and the evidence its hashes name.  Two snapshots
\* with one hash must then give one decision.
HashDeterminesDecision ==
  \A f \in Bijection(DOMAIN evidence, DOMAIN evidence) :
    LET shuffled == [i \in DOMAIN evidence |-> evidence[f[i]]]
    IN  \A b \in Bundles :
          Decide(b, shuffled, now, FALSE) = Decide(b, evidence, now, FALSE)
=============================================================================
