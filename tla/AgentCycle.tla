----------------------------- MODULE AgentCycle -----------------------------
(***************************************************************************)
(* agent/cycle.py: one turn of the agent, with what it stands between: the *)
(* bundle store, the observation source, the dataplane and the log.        *)
(*                                                                         *)
(* run_once() is split wherever it calls out: the clock moves, a bundle    *)
(* arrives or the process dies between any two of the calls.  Each call    *)
(* may raise, and what it raises leaves run_once().                        *)
(*                                                                         *)
(*   store      the promise of PolicyInForce, which BundleStore implements *)
(*   decide()   Policy!Decide on the bundles and snapshots of a small site *)
(*   log        whole receipts; what a file does to them is ReceiptLog's   *)
(*              subject                                                    *)
(*   dataplane  external: the link ids in force, by traffic class          *)
(***************************************************************************)
EXTENDS Policy, Sequences

CONSTANTS
  Bundles,      \* policies, as in Policy, each with a sequence and a not_after
  FloorPolicy,  \* the floor of the site
  Snapshots,    \* what observe() can return
  Adapter,      \* what apply() does to the classes a decision does not name
  Faults,       \* which faults the environment makes, see FaultKinds
  MaxTime,      \* bound on the clock
  MaxFaults     \* bound on the number of faults

\* observe   observe() raises                 crash    the process dies
\* sink      record() raises, nothing written readback readback() raises
\* apply     apply() raises, its work done or not
\* ignored   apply() returns and has done nothing
\* kept      apply() returns and has left in force what was in force
\* lost      the dataplane loses a class on its own
\* clock     the clock is set back
FaultKinds == {"observe", "sink", "apply", "ignored", "kept", "readback", "crash", "lost",
               "clock"}

ASSUME FaultsAssumption == Faults \subseteq FaultKinds /\ MaxFaults \in Nat
ASSUME TimeAssumption == MaxTime \in Nat
ASSUME AdapterAssumption == Adapter \in {"replaces", "merges"}
ASSUME BundlesAssumption ==
  /\ None \notin Bundles /\ FloorPolicy \notin Bundles
  /\ \A b \in Bundles : b.sequence \in Nat /\ b.not_after \in Int

VARIABLES
  now,        \* the clock
  installed,  \* the store's bundle, or None
  newest,     \* the highest sequence the site ever adopted
  pc,         \* where run_once() is, named after what it does next; or "idle"
  pinned,     \* its bundle, degraded and now
  decision,   \* its decision
  actual,     \* its actual
  dataplane,  \* what is in force
  log,        \* the receipts of the last cycle that recorded any
  attempted,  \* history: <<class, link>> of every EXECUTION receipt
  highest,    \* history: the highest sequence a DECISION receipt names
  faults

store == <<installed, newest>>
locals == <<pinned, decision, actual>>
history == <<attempted, highest>>
vars == <<now, store, pc, locals, dataplane, log, history, faults>>

Store == INSTANCE PolicyInForce WITH
  Policies <- Bundles, Floor <- None, inForce <- installed, newest <- newest

-----------------------------------------------------------------------------
(* The data *)

Decisions == {Decide(b, ev, t, b = FloorPolicy) :
                b \in Bundles \cup {FloorPolicy}, ev \in Snapshots, t \in 0..MaxTime}

\* EligibilityDecision.permitted_for
PermittedFor(d, c) == UNION {k.permitted : k \in {x \in d.classes : x.class = c}}

\* What a decision asks of the dataplane.
Wanted(d) == [c \in {k.class : k \in d.classes} |-> PermittedFor(d, c)]

ClassIds == {t.id : t \in UNION {b.traffic_classes : b \in Bundles \cup {FloorPolicy}}}
LinkIds == {l.id : l \in UNION {b.links : b \in Bundles \cup {FloorPolicy}}}
States == UNION {[cs -> SUBSET LinkIds] : cs \in SUBSET ClassIds}

\* readback().get(c, ())
Held(state, c) == IF c \in DOMAIN state THEN state[c] ELSE {}

Pins == [bundle : Bundles \cup {FloorPolicy}, degraded : BOOLEAN, now : 0..MaxTime]

ASSUME NoneAssumption == None \notin Pins \cup Decisions

Receipt(kind, outcome, observed) ==
  [kind |-> kind, decision |-> decision, outcome |-> outcome, observed |-> observed]

Receipts ==
  [kind : {"DECISION", "EXECUTION", "EFFECT"}, decision : Decisions,
   outcome : {"", "ENFORCED", "ENFORCEMENT_ERROR", "POSTCONDITION_FAILED"},
   observed : States \cup {None}]

Last == log[Len(log)]

TypeOK ==
  /\ now \in 0..MaxTime
  /\ installed \in Bundles \cup {None}
  /\ newest \in {-1} \cup {b.sequence : b \in Bundles}
  /\ pc \in {"idle", "observe", "authorise", "attempt", "apply", "report error",
             "readback", "report effect"}
  /\ pinned \in Pins \cup {None}
  /\ pc # "idle" => pinned # None
  /\ decision \in Decisions \cup {None}
  /\ pc \notin {"idle", "observe"} => decision # None
  /\ actual \in States \cup {None}
  /\ dataplane \in States
  /\ log \in Seq(Receipts) /\ Len(log) <= 3
  /\ attempted \subseteq ClassIds \X LinkIds
  /\ highest \in {-1} \cup {b.sequence : b \in Bundles}
  /\ faults \in 0..MaxFaults

-----------------------------------------------------------------------------

Init ==
  /\ now = 0
  /\ Store!Init
  /\ pc = "idle"
  /\ pinned = None /\ decision = None /\ actual = None
  /\ dataplane = [c \in {} |-> {}]
  /\ log = <<>>
  /\ attempted = {} /\ highest = -1
  /\ faults = 0

Tick ==
  /\ now < MaxTime
  /\ now' = now + 1
  /\ UNCHANGED <<store, pc, locals, dataplane, log, history, faults>>

\* Mutant: the newest sequence is not looked at.
AcceptAny(b) ==
  /\ installed' = b
  /\ newest' = b.sequence
  /\ UNCHANGED <<now, pc, locals, dataplane, log, history, faults>>
\* The store adopts a bundle, in the middle of a cycle or between two.
Accept(b) ==
  /\ Store!Adopt(b)
  /\ UNCHANGED <<now, pc, locals, dataplane, log, history, faults>>

\* Where run_once() goes next, its locals apart.
Goes(from, to) == pc = from /\ pc' = to

\* Whatever run_once() knew is gone: it returned, or an exception left it.
Forgets == pinned' = None /\ decision' = None /\ actual' = None

Fault(kind) ==
  /\ kind \in Faults
  /\ faults < MaxFaults
  /\ faults' = faults + 1

\* Mutant: a bundle stays in force until the next one.
InForceForever(t) ==
  IF installed # None
  THEN [bundle |-> installed, degraded |-> FALSE, now |-> t]
  ELSE [bundle |-> FloorPolicy, degraded |-> TRUE, now |-> t]
\* BundleStore.current(now), at the time run_once() was called with.
InForce(t) ==
  IF installed # None /\ t < installed.not_after
  THEN [bundle |-> installed, degraded |-> FALSE, now |-> t]
  ELSE [bundle |-> FloorPolicy, degraded |-> TRUE, now |-> t]

\* The bundle is pinned.
Begin ==
  /\ Goes("idle", "observe")
  /\ pinned' = InForce(now)
  /\ UNCHANGED <<now, store, decision, actual, dataplane, log, history, faults>>

\* Mutant: the bundle is fetched again once the evidence is there.
DecideOnNewest(ev) ==
  /\ Goes("observe", "authorise")
  /\ decision' = Decide(InForce(pinned.now).bundle, ev, pinned.now, pinned.degraded)
  /\ UNCHANGED <<now, store, pinned, actual, dataplane, log, history, faults>>
\* observe() returned ev: the decision is taken.
DecideOn(ev) ==
  /\ Goes("observe", "authorise")
  /\ decision' = Decide(pinned.bundle, ev, pinned.now, pinned.degraded)
  /\ UNCHANGED <<now, store, pinned, actual, dataplane, log, history, faults>>

ObserveRaises ==
  /\ Goes("observe", "idle")
  /\ Fault("observe")
  /\ Forgets
  /\ UNCHANGED <<now, store, dataplane, log, history>>

\* self._chain.record(decision, now=now)
RecordDecision ==
  /\ Goes("authorise", "attempt")
  /\ log' = <<Receipt("DECISION", "", None)>>
  /\ highest' = IF decision.degraded THEN highest ELSE decision.bundle_hash.sequence
  /\ UNCHANGED <<now, store, locals, dataplane, attempted, faults>>

\* self._chain.record(decision, now=now, kind=KIND_EXECUTION)
RecordExecution ==
  /\ Goes("attempt", "apply")
  /\ log' = Append(log, Receipt("EXECUTION", "", None))
  /\ attempted' = attempted \cup
       {p \in ClassIds \X LinkIds : p[2] \in PermittedFor(decision, p[1])}
  /\ UNCHANGED <<now, store, locals, dataplane, highest, faults>>

\* What a dataplane that does as it is told has in force afterwards.
Obeyed ==
  LET wanted == Wanted(decision)
  IN  IF Adapter = "replaces" THEN wanted
      ELSE [c \in DOMAIN wanted \cup DOMAIN dataplane |->
              IF c \in DOMAIN wanted THEN wanted[c] ELSE dataplane[c]]

\* The dataplane adds what it is told to and removes nothing.
Kept == [c \in DOMAIN Obeyed \cup DOMAIN dataplane |-> Held(Obeyed, c) \cup Held(dataplane, c)]

Apply ==
  /\ Goes("apply", "readback")
  /\ \/ dataplane' = Obeyed /\ UNCHANGED faults
     \/ dataplane' = dataplane /\ Fault("ignored")
     \/ dataplane' = Kept /\ Fault("kept")
  /\ UNCHANGED <<now, store, locals, log, history>>

\* Mutant: the exception goes straight to the caller.
ApplyRaisesUnreported ==
  /\ Goes("apply", "idle")
  /\ Fault("apply")
  /\ dataplane' \in {dataplane, Obeyed}
  /\ Forgets
  /\ UNCHANGED <<now, store, log, history>>
ApplyRaises ==
  /\ Goes("apply", "report error")
  /\ Fault("apply")
  /\ dataplane' \in {dataplane, Obeyed}
  /\ UNCHANGED <<now, store, locals, log, history>>

\* The EFFECT receipt of an exception, which is raised again.
RecordError ==
  /\ Goes("report error", "idle")
  /\ log' = Append(log, Receipt("EFFECT", "ENFORCEMENT_ERROR", None))
  /\ Forgets
  /\ UNCHANGED <<now, store, dataplane, history, faults>>

Readback ==
  /\ Goes("readback", "report effect")
  /\ actual' = dataplane
  /\ UNCHANGED <<now, store, pinned, decision, dataplane, log, history, faults>>

ReadbackRaises ==
  /\ Goes("readback", "idle")
  /\ Fault("readback")
  /\ Forgets
  /\ UNCHANGED <<now, store, dataplane, log, history>>

\* Mutant: a class is looked at only to see that it holds something.
ComplaintMissesSurplus(d, state) ==
  \E k \in d.classes : Held(state, k.class) = {} /\ k.permitted # {}
\* _postcondition_complaint, whose text is left out.
Complaint(d, state) ==
  \E k \in d.classes :
    \/ ~(Held(state, k.class) \subseteq k.permitted)
    \/ Held(state, k.class) = {} /\ k.permitted # {}

\* The EFFECT receipt; a complaint is raised once it is written.
RecordEffect ==
  /\ Goes("report effect", "idle")
  /\ log' = Append(log, Receipt("EFFECT",
                          IF Complaint(decision, actual) THEN "POSTCONDITION_FAILED"
                                                         ELSE "ENFORCED", actual))
  /\ Forgets
  /\ UNCHANGED <<now, store, dataplane, history, faults>>

Recording == {"authorise", "attempt", "report error", "report effect"}

\* Mutant: the agent works on when it cannot record.
RecordFailsQuietly ==
  /\ pc \in Recording
  /\ pc' = CASE pc = "authorise" -> "attempt"
             [] pc = "attempt" -> "apply"
             [] OTHER -> "idle"
  /\ Fault("sink")
  /\ UNCHANGED <<now, store, locals, dataplane, log, history>>
\* record() raises before its line is written.
RecordFails ==
  /\ pc \in Recording
  /\ pc' = "idle"
  /\ Fault("sink")
  /\ Forgets
  /\ UNCHANGED <<now, store, dataplane, log, history>>

\* The process dies and is started again; the store has nothing but its floor.
Crash ==
  /\ Fault("crash")
  /\ pc' = "idle"
  /\ Store!FallBack
  /\ Forgets
  /\ UNCHANGED <<now, dataplane, log, history>>

\* The clock is set back, between two cycles or in the middle of one.
SetBack ==
  /\ Fault("clock")
  /\ now' \in {t \in 0..MaxTime : t < now}
  /\ UNCHANGED <<store, pc, locals, dataplane, log, history>>

\* The dataplane loses a class (external).
Lose(c) ==
  /\ Fault("lost")
  /\ dataplane' = Restrict(dataplane, DOMAIN dataplane \ {c})
  /\ UNCHANGED <<now, store, pc, locals, log, history>>

Next ==
  \/ Tick
  \/ \E b \in Bundles : Accept(b)
  \/ Begin
  \/ \E ev \in Snapshots : DecideOn(ev)
  \/ ObserveRaises
  \/ RecordDecision
  \/ RecordExecution
  \/ Apply
  \/ ApplyRaises
  \/ RecordError
  \/ Readback
  \/ ReadbackRaises
  \/ RecordEffect
  \/ RecordFails
  \/ Crash
  \/ SetBack
  \/ \E c \in DOMAIN dataplane : Lose(c)

Spec == Init /\ [][Next]_vars

\* Time passes, the agent is called again and again, and a call is carried on.
Fairness ==
  /\ WF_vars(Tick)
  /\ WF_vars(Begin)
  /\ WF_vars(\E ev \in Snapshots : DecideOn(ev))
  /\ WF_vars(RecordDecision)
  /\ WF_vars(RecordExecution)
  /\ WF_vars(Apply)
  /\ WF_vars(RecordError)
  /\ WF_vars(Readback)
  /\ WF_vars(RecordEffect)

FairSpec == Spec /\ Fairness

-----------------------------------------------------------------------------
(* Properties *)

\* A log that ends with ENFORCED tells the truth (cycle.py:13-16, 43-48): no class
\* the decision names has a link in force that the decision excluded, through
\* failing calls, crashes and the next cycle, until that records anything.
EnforcedIsTrue ==
  (log # <<>> /\ Last.outcome = "ENFORCED") =>
    \A k \in Last.decision.classes : Held(dataplane, k.class) \subseteq k.permitted

\* Recording precedes acting (cycle.py:18-20): no link is in force for a class
\* unless a receipt says that it was attempted, whatever calls failed since.
NothingInForceUnrecorded ==
  \A c \in DOMAIN dataplane : \A l \in dataplane[c] : <<c, l>> \in attempted

\* A bundle that arrives in mid-cycle never governs half of a decision
\* (cycle.py:5-6): what a receipt calls degraded was decided by the floor, and what
\* it does not by a bundle that had not lapsed.
DecisionIsOfOnePolicy ==
  \A i \in DOMAIN log :
    LET d == log[i].decision
    IN  IF d.degraded THEN d.bundle_hash = FloorPolicy
        ELSE d.bundle_hash \in Bundles /\ d.decided_at < d.bundle_hash.not_after

\* The log never goes back to an older policy (bundle_store.py:19-21), even where a
\* cycle that pinned one is overtaken by the next or the process starts again.
LogNeverRollsBack ==
  [][RecordDecision => (decision.degraded \/ decision.bundle_hash.sequence >= highest)]_vars

\* An attempt on record is answered by a receipt of its effect before the next cycle
\* (cycle.py:18-20, design 9a), also when apply() raises or nothing came of it.  Only
\* where the sink or the process fails is it left open, and where readback() raises,
\* which run_once() does not look after.
AttemptIsAnswered ==
  [][ (pc \notin {"idle", "observe", "authorise", "attempt"} /\ pc' = "idle") =>
        (Len(log') = 3 \/ RecordFails \/ ReadbackRaises \/ Crash) ]_vars

\* A policy that lapsed does not stay: in the end the log shows the floor enforced,
\* or a newer policy came, through any finite number of faults.
LapseTakesEffect ==
  \A b \in Bundles :
    (installed = b /\ now >= b.not_after) ~>
      \/ installed # b
      \/ log # <<>> /\ Last.outcome = "ENFORCED" /\ Last.decision.degraded

-----------------------------------------------------------------------------
(* What the documents say and the code does not do *)

\* cycle.py:43-48: a dataplane that "does not hold what was decided" is not
\* reported as ENFORCED; permitted_for() answers "nothing" for a class the decision
\* does not name.
EnforcedIsTheWholeTruth ==
  (log # <<>> /\ Last.outcome = "ENFORCED") =>
    \A c \in DOMAIN dataplane : dataplane[c] \subseteq PermittedFor(Last.decision, c)
=============================================================================
