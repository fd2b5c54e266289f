----------------------------- MODULE Simulation -----------------------------
(***************************************************************************)
(* sim/: the event loop, the link models, the selectors, the oracle.       *)
(*                                                                         *)
(* A run is one selector on one site.  Events change the true state of the *)
(* links, a step of the loop lets them report, asks the selector for a     *)
(* link per class and measures what it chose.  The governed selector is    *)
(* the agent itself, on the decision core of Policy; its store renews the  *)
(* policy whenever the authority is reachable.                             *)
(*                                                                         *)
(* The clock counts steps.  A link carries one unit per class and step.    *)
(* The measures of a run are sums over its steps: the model keeps what the *)
(* last step adds to each.                                                 *)
(***************************************************************************)
EXTENDS Policy, Sequences

CONSTANTS
  Selectors,   \* which selectors are run
  Policy0,     \* the policy the authority publishes, as in Policy
  Validity,    \* how long each publication is valid
  Dwell,       \* the hysteresis selector's dwell time
  Order,       \* the static priority list of link ids
  LinkOrder, ClassOrder,  \* the ids in sorted order
  DeclaredOrder,          \* the class ids in the order of Policy0.traffic_classes
  BaseRtt,     \* base_rtt_ms by link id
  Noises,      \* what the generator may add to the round trips of a step, by link id
  Allowance,   \* the units a metered link may carry before its allowance is spent
  Events,      \* [kind, target]
  MaxEvents, MaxTime  \* bounds

ASSUME SimulationAssumption ==
  /\ Validity \in Nat \ {0} /\ Dwell \in Nat /\ Allowance \in Nat \ {0}
  /\ MaxEvents \in Nat /\ MaxTime \in Nat
  /\ Selectors \subseteq {"greedy", "static_priority", "hysteresis", "governed"}
ASSUME NoneAssumption == None \notin Int

VARIABLES
  now,         \* the step about to be taken
  selector,    \* the selector of this run
  dark, foggy, obstructed, silent,  \* links that are down, in fog, ..., report nothing
  carried,     \* units by link, up to the allowance
  reachable,   \* the authority can be reached
  held, since, \* Hysteresis: the link and when it was taken
  until,       \* Governed: the not_after of the policy in its store
  contact,     \* history: the last step at which the authority was reachable
  moved,       \* history: the last step at which a choice changed
  frame,       \* what the last step chose and measured
  events       \* events so far

truth == <<dark, foggy, obstructed, silent, reachable>>
state == <<held, since, until>>
vars == <<now, selector, truth, carried, state, contact, moved, frame, events>>

Links == Policy0.links
Classes == Policy0.traffic_classes
Ids == {l.id : l \in Links}
Link(id) == CHOOSE l \in Links : l.id = id
Place(seq, x) == CHOOSE i \in DOMAIN seq : seq[i] = x

\* seq names every member of S, and each once.
Lists(seq, S) ==
  /\ seq \in Seq(S)
  /\ \A x \in S : \E i \in DOMAIN seq : \A j \in DOMAIN seq : seq[j] = x <=> j = i

\* The fleet and the dictionaries of run() are keyed by id, ids are strings, and the
\* static list names every link (report.py:22).
ASSUME FleetAssumption ==
  /\ None \notin Ids
  /\ \A k, l \in Links : k.id = l.id => k = l
  /\ Lists(LinkOrder, Ids) /\ Lists(ClassOrder, {c.id : c \in Classes})
  /\ Lists(DeclaredOrder, {c.id : c \in Classes})
  /\ Lists(Order, Ids)
  /\ BaseRtt \in [Ids -> Int] /\ Noises \subseteq [Ids -> Int]

\* An event that changes a link names one: _apply_event fails on any other target.
ASSUME EventsAssumption ==
  \A e \in Events :
    e.kind \in {"link_down", "fog", "obstruct", "sensor_fail"} => e.target \in Ids

-----------------------------------------------------------------------------
(* The links: links.py *)

\* LinkFleet.is_up
IsUp(l) == l.id \notin dark /\ (l.type = "fso" => l.id \notin foggy)

HasQuota(l) == l.type \in {"lte", "satellite"}
QuotaUsed(id) == (100 * carried[id]) \div Allowance
Penalty(l) == IF l.type = "satellite" /\ l.id \in obstructed THEN 400 ELSE 0
TrueRtt(l) == BaseRtt[l.id] + Penalty(l)

\* What a link that reports at all can report, in this order.
Quantities == <<"up", "visibility_m", "rtt_ms", "quota_used_pct">>

\* Mutant: fog does not show in the liveness of an optical link.
ReportsThroughFog(l, noise) ==
  [q \in {q \in {"up", "rtt_ms"} : l.id \notin silent /\ (q = "rtt_ms" => l.id \notin dark)} |->
     IF q = "rtt_ms" THEN TrueRtt(l) + noise ELSE IF l.id \in dark THEN 0 ELSE 1]
\* LinkModel.step: the value of every quantity that l reports.  A link whose sensor
\* failed is silent, one that is down reports that.
Reports(l, noise) ==
  [q \in {q \in Range(Quantities) :
            /\ l.id \notin silent
            /\ q = "visibility_m" => l.type = "fso"
            /\ q = "rtt_ms" => IsUp(l)
            /\ q = "quota_used_pct" => IsUp(l) /\ HasQuota(l)} |->
     CASE q = "up"             -> IF IsUp(l) THEN 1 ELSE 0
       [] q = "visibility_m"   -> IF l.id \in foggy THEN 80 ELSE 8000
       [] q = "rtt_ms"         -> TrueRtt(l) + noise
       [] q = "quota_used_pct" -> QuotaUsed(l.id)]

\* LinkFleet.step: the reports of one link after those of another.  A position that
\* nothing is reported for stays empty.
Evidence(noise) ==
  LET reports == [id \in Ids |-> Reports(Link(id), noise[id])]
      id(p) == LinkOrder[1 + ((p - 1) \div 4)]
      quantity(p) == Quantities[1 + ((p - 1) % 4)]
  IN  [p \in {p \in 1..(4 * Len(LinkOrder)) : quantity(p) \in DOMAIN reports[id(p)]} |->
         [link |-> id(p), quantity |-> quantity(p), value |-> reports[id(p)][quantity(p)],
          at |-> now]]

-----------------------------------------------------------------------------
(* The selectors: selectors.py *)

\* The published policy has a rule for everything that a class requires and for every
\* allowance, as the policy of all scenarios has (scenarios.py:36-58).
ASSUME PolicyAssumption ==
  /\ \A c \in Classes :
       /\ c.max_rtt # None => [kind |-> "max_rtt", class |-> c.id] \in Policy0.rules
       /\ ~c.allow_metered => [kind |-> "metered", class |-> c.id] \in Policy0.rules
       /\ c.jurisdictions # None =>
            [kind |-> "jurisdiction", class |-> c.id] \in Policy0.rules
       /\ c.encryption => [kind |-> "encryption", class |-> c.id] \in Policy0.rules
  /\ \A l \in Links : HasQuota(l) =>
       \E r \in Policy0.rules : r.kind = "quota" /\ r.type = l.type /\ r.threshold \in 0..100

ObservedUp(ev, id) == \E o \in Latest(ev, id, "up") : o.value >= 1

\* _best_by_rtt: the least <<rtt, id>> of the live candidates.
BestByRtt(ev, candidates) ==
  LET live == {id \in candidates : ObservedUp(ev, id)}
      rtt(id) == (CHOOSE o \in Latest(ev, id, "rtt_ms") : TRUE).value
  IN  IF live = {} THEN None
      ELSE CHOOSE id \in live : \A other \in live :
             \/ rtt(id) < rtt(other)
             \/ rtt(id) = rtt(other) /\ Place(LinkOrder, id) <= Place(LinkOrder, other)

\* StaticPriority
FirstUp(ev) ==
  LET live == {i \in DOMAIN Order : ObservedUp(ev, Order[i])}
  IN  IF live = {} THEN None ELSE Order[CHOOSE i \in live : \A j \in live : i <= j]

\* Mutant: a selector that lost its link forgets to start a new dwell.
DampedForgetful(ev) ==
  LET best == BestByRtt(ev, Ids)
      live == held # None /\ ObservedUp(ev, held)
  IN  IF ~live THEN [held |-> best, since |-> since]
      ELSE IF best # held /\ now - since >= Dwell THEN [held |-> best, since |-> now]
      ELSE [held |-> held, since |-> since]
\* Mutant: a selector that holds nothing waits for the dwell to pass too.
DampedWaits(ev) ==
  LET best == BestByRtt(ev, Ids)
      dead == held # None /\ ~ObservedUp(ev, held)
  IN  IF dead \/ (best # held /\ now - since >= Dwell) THEN [held |-> best, since |-> now]
      ELSE [held |-> held, since |-> since]
\* Hysteresis: what it holds, and since when, after this step.
Damped(ev) ==
  LET best == BestByRtt(ev, Ids)
      live == held # None /\ ObservedUp(ev, held)
  IN  IF ~live \/ (best # held /\ now - since >= Dwell) THEN [held |-> best, since |-> now]
      ELSE [held |-> held, since |-> since]

\* Mutant: the policy is published once and for all.
RenewedOnce == IF reachable /\ until = None THEN now + Validity ELSE until
\* Governed: _publish and accept(), at every step that can reach the authority.
Renewed == IF reachable THEN now + Validity ELSE until

\* BundleStore.current for the governed selector
Degraded == Renewed = None \/ now >= Renewed

\* The permitted set of each class, as the agent decides it.
Decided(ev) ==
  LET policy == IF Degraded THEN FloorBundle(Links, Classes) ELSE Policy0
  IN  [t \in {c.id : c \in Classes} |->
         Permitted(policy, CHOOSE c \in Classes : c.id = t, ev, now)]

\* Governed.__call__: a class that is permitted nothing gets what the first is.
GovernedChoice(ev, decided) ==
  [t \in DOMAIN decided |->
     BestByRtt(ev, IF decided[t] = {} THEN decided[ClassOrder[1]] ELSE decided[t])]

ChoicesOf(ev) ==
  LET all(link) == [t \in {c.id : c \in Classes} |-> link]
  IN  CASE selector = "greedy"          -> all(BestByRtt(ev, Ids))
        [] selector = "static_priority" -> all(FirstUp(ev))
        [] selector = "hysteresis"      -> all(Damped(ev).held)
        [] selector = "governed"        -> GovernedChoice(ev, Decided(ev))

-----------------------------------------------------------------------------
(* The oracle and the measures: metrics.py, run.py *)

\* check_violations, for class t on link id.
Violations(t, id) ==
  LET link == Link(id)
      class == CHOOSE c \in Classes : c.id = t
  IN  {v \in {"metered", "jurisdiction", "encryption", "latency", "quota"} :
         \/ v = "metered" /\ ~class.allow_metered /\ link.metered
         \/ /\ v = "jurisdiction" /\ class.jurisdictions # None
            /\ (link.jurisdictions = {} \/ ~(link.jurisdictions \subseteq class.jurisdictions))
         \/ v = "encryption" /\ class.encryption /\ ~link.encrypted
         \/ v = "latency" /\ class.max_rtt # None /\ TrueRtt(link) > class.max_rtt
         \/ v = "quota" /\ HasQuota(link) /\ QuotaUsed(id) >= 100}

\* The classes that link id carries in this step.
Carries(choices, id) ==
  {t \in DOMAIN choices : choices[t] = id /\ IsUp(Link(id))}

\* Those that the loop of run() comes to before t.
Before(choices, t) ==
  {u \in Carries(choices, choices[t]) : Place(DeclaredOrder, u) < Place(DeclaredOrder, t)}

Frame(ev, choices) ==
  LET served == {t \in DOMAIN choices : choices[t] # None}
  IN [ evidence |-> ev, choices |-> choices,
       degraded |-> selector = "governed" /\ Degraded,
       permitted |-> Decided(ev),
       violations |-> [t \in served |-> Violations(t, choices[t])],
       refused |-> DOMAIN choices \ served,
       down |-> {t \in served : ~IsUp(Link(choices[t]))},
       overage |-> {t \in served : /\ HasQuota(Link(choices[t])) /\ IsUp(Link(choices[t]))
                                   /\ carried[choices[t]]
                                        + Cardinality(Before(choices, t)) >= Allowance},
       flaps |-> {t \in DOMAIN choices : frame # None /\ frame.choices[t] # choices[t]} ]

TypeOK ==
  /\ now \in 0..MaxTime /\ selector \in Selectors
  /\ dark \cup foggy \cup obstructed \cup silent \subseteq Ids
  /\ carried \in [Ids -> 0..Allowance] /\ reachable \in BOOLEAN
  /\ held \in Ids \cup {None} /\ since \in 0..MaxTime
  /\ until \in Nat \cup {None}
  /\ frame = None \/ \A t \in DOMAIN frame.choices : frame.choices[t] \in Ids \cup {None}

-----------------------------------------------------------------------------

Init ==
  /\ now = 0 /\ selector \in Selectors
  /\ dark = {} /\ foggy = {} /\ obstructed = {} /\ silent = {} /\ reachable = TRUE
  /\ carried = [id \in Ids |-> 0]
  /\ held = None /\ since = 0 /\ until = None
  /\ contact = None /\ moved = None /\ frame = None
  /\ events = 0

\* A set that one kind of event adds the target to and another takes it from.
Toggled(S, on, off, e) ==
  CASE e.kind = on  -> S \cup {e.target}
    [] e.kind = off -> S \ {e.target}
    [] OTHER        -> S

\* _apply_event; several may fall on one step.
Happen(e) ==
  /\ events < MaxEvents /\ events' = events + 1
  /\ dark' = Toggled(dark, "link_down", "link_up", e)
  /\ foggy' = Toggled(foggy, "fog", "clear", e)
  /\ obstructed' = Toggled(obstructed, "obstruct", "unobstruct", e)
  /\ silent' = Toggled(silent, "sensor_fail", "sensor_recover", e)
  /\ reachable' = CASE e.kind = "authority_unreachable" -> FALSE
                    [] e.kind = "authority_reachable" -> TRUE
                    [] OTHER -> reachable
  /\ UNCHANGED <<now, selector, carried, state, contact, moved, frame>>

\* Mutant: the share of the allowance is not cut off at 100 per cent.
CarryUnbounded(choices) ==
  [id \in Ids |-> carried[id] + Cardinality(Carries(choices, id))]
\* LinkModel.carry, with the allowance of quota_used_pct as its bound.
Carry(choices) ==
  [id \in Ids |-> LET units == carried[id] + Cardinality(Carries(choices, id))
                  IN  IF units < Allowance THEN units ELSE Allowance]

\* One round of the loop in run().
Step(noise) ==
  /\ now < MaxTime
  /\ now' = now + 1
  /\ LET ev == Evidence(noise)
         choices == ChoicesOf(ev)
     IN  /\ frame' = Frame(ev, choices)
         /\ carried' = Carry(choices)
         /\ moved' = IF frame # None /\ frame.choices = choices THEN moved ELSE now
         /\ IF selector = "hysteresis"
            THEN held' = Damped(ev).held /\ since' = Damped(ev).since
            ELSE UNCHANGED <<held, since>>
  /\ IF selector = "governed" THEN until' = Renewed ELSE UNCHANGED until
  /\ contact' = IF reachable THEN now ELSE contact
  /\ UNCHANGED <<selector, truth, events>>

Next ==
  \/ \E e \in Events : Happen(e)
  \/ \E noise \in Noises : Step(noise)

Spec == Init /\ [][Next]_vars

-----------------------------------------------------------------------------
(* Properties *)

\* Hysteresis (selectors.py:90-114): a choice leaves a link that is still seen up
\* only when it has been held for the dwell time, whatever died and came back
\* in between.
DwellDamps ==
  [][ (selector = "hysteresis" /\ frame # None /\ frame' # frame) =>
        \A t \in DOMAIN frame'.choices :
          LET old == frame.choices[t]
          IN  (old # None /\ frame'.choices[t] # old /\ ObservedUp(frame'.evidence, old))
                => now - moved >= Dwell ]_vars

\* No baseline leaves a class without a link while one is seen up.
ServesWhenItCan ==
  (frame # None /\ selector # "governed" /\ frame.refused # {}) =>
    \A id \in Ids : ~ObservedUp(frame.evidence, id)

\* Whatever it reads, no selector chooses a link that is down at the time
\* (links.py:160-167): reports and truth are of one step.  The measure
\* downtime_s is zero in every run.
ChosenIsUp == frame # None => frame.down = {}

\* The site is degraded exactly when the authority has been out of reach for the
\* validity of a policy (selectors.py:132-156, bundle_store.py:166-171).
DegradedIffOutOfContact ==
  (frame # None /\ selector = "governed") =>
    (frame.degraded <=> (contact = None \/ now - 1 >= contact + Validity))

\* A class that is permitted anything breaks no requirement the oracle knows
\* (metrics.py:26-76), whatever the events and the generator do, but for two that the
\* evidence cannot cover: a spent allowance on the floor, which has no rule for it, and a
\* latency that what the link reported in this step hides: that met the limit.
PermittedMeansAllowed ==
  (frame # None /\ selector = "governed") =>
    \A t \in DOMAIN frame.violations : frame.permitted[t] # {} =>
      /\ frame.violations[t] \subseteq {"latency"} \cup (IF frame.degraded THEN {"quota"} ELSE {})
      /\ "latency" \in frame.violations[t] =>
           \E o \in Latest(frame.evidence, frame.choices[t], "rtt_ms") :
             o.value <= (CHOOSE c \in Classes : c.id = t).max_rtt

-----------------------------------------------------------------------------
(* What the documents say and the code does not do *)

\* Design 3: the scheduler's "only governed obligation is to stay inside the
\* permitted set".
StaysInside ==
  (frame # None /\ selector = "governed") =>
    \A t \in DOMAIN frame.choices :
      frame.choices[t] # None => frame.choices[t] \in frame.permitted[t]
=============================================================================
