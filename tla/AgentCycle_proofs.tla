------------------------- MODULE AgentCycle_proofs -------------------------
(* Proofs about one turn of the agent, for every site, every set of policies *)
(* and any number of faults.                                                 *)
EXTENDS AgentCycle, TLAPS

-----------------------------------------------------------------------------
(* What a decision holds *)

LEMMA DecideFields ==
  ASSUME NEW b, NEW ev, NEW t, NEW dg
  PROVE  /\ Decide(b, ev, t, dg).degraded = dg
         /\ Decide(b, ev, t, dg).bundle_hash = b
         /\ Decide(b, ev, t, dg).decided_at = t
  BY DEF Decide

\* A decision names classes of the site and permits links of the site.
LEMMA DecisionClasses ==
  ASSUME NEW d \in Decisions, NEW k \in d.classes
  PROVE  k.class \in ClassIds /\ k.permitted \subseteq LinkIds
  <1>1. PICK b \in Bundles \cup {FloorPolicy}, ev \in Snapshots, t \in 0..MaxTime :
             d = Decide(b, ev, t, b = FloorPolicy)
    BY DEF Decisions
  <1>2. PICK c \in b.traffic_classes :
               k = [class |-> c.id, permitted |-> Permitted(b, c, ev, t),
                    exclusions |-> Exclusions(b, c, ev, t)]
    BY <1>1 DEF Decide
  <1>3. k.class \in ClassIds
    BY <1>2 DEF ClassIds
  <1>4. k.permitted = Permitted(b, c, ev, t)
    BY <1>2
  <1>5. Permitted(b, c, ev, t) \subseteq {l.id : l \in b.links}
    BY DEF Permitted
  <1>6. {l.id : l \in b.links} \subseteq LinkIds
    BY DEF LinkIds
  <1> QED
    BY <1>3, <1>4, <1>5, <1>6

LEMMA PermittedForLinks ==
  ASSUME NEW d \in Decisions, NEW c
  PROVE  PermittedFor(d, c) \subseteq LinkIds
  BY DecisionClasses DEF PermittedFor

LEMMA WantedIsState ==
  ASSUME NEW d \in Decisions
  PROVE  Wanted(d) \in States
  <1>1. {k.class : k \in d.classes} \in SUBSET ClassIds
    BY DecisionClasses
  <1>2. Wanted(d) \in [{k.class : k \in d.classes} -> SUBSET LinkIds]
    BY PermittedForLinks DEF Wanted
  <1> QED
    BY <1>1, <1>2 DEF States

LEMMA StateHolds ==
  ASSUME NEW s \in States, NEW c
  PROVE  /\ Held(s, c) \subseteq LinkIds
         /\ DOMAIN s \subseteq ClassIds
         /\ \A x \in DOMAIN s : s[x] \subseteq LinkIds
  BY DEF States, Held

\* A function from classes of the site to links of the site is a state.
LEMMA IsState ==
  ASSUME NEW cs \in SUBSET ClassIds, NEW F \in [cs -> SUBSET LinkIds]
  PROVE  F \in States
  BY DEF States

\* What the dataplane may hold after a call of apply() is a state of it.
LEMMA AppliedIsState ==
  ASSUME decision \in Decisions, dataplane \in States
  PROVE  Obeyed \in States /\ Kept \in States
  <1> DEFINE w == Wanted(decision)
  <1>1. w \in States
    BY WantedIsState
  <1>2. Obeyed \in States
    <2>1. CASE Adapter = "replaces"
      BY <1>1, <2>1 DEF Obeyed
    <2>2. CASE Adapter # "replaces"
      <3> DEFINE m == [c \in DOMAIN w \cup DOMAIN dataplane |->
                         IF c \in DOMAIN w THEN w[c] ELSE dataplane[c]]
      <3>1. DOMAIN w \cup DOMAIN dataplane \in SUBSET ClassIds
        BY <1>1, StateHolds
      <3>2. m \in [DOMAIN w \cup DOMAIN dataplane -> SUBSET LinkIds]
        BY <1>1, StateHolds
      <3>3. Obeyed = m
        BY <2>2 DEF Obeyed
      <3> HIDE DEF m
      <3> QED
        BY <3>1, <3>2, <3>3, IsState
    <2> QED
      BY <2>1, <2>2
  <1>3. Kept \in States
    <2>1. DOMAIN Obeyed \cup DOMAIN dataplane \in SUBSET ClassIds
      BY <1>2, StateHolds
    <2>2. Kept \in [DOMAIN Obeyed \cup DOMAIN dataplane -> SUBSET LinkIds]
      BY <1>2, StateHolds DEF Kept
    <2> QED
      BY <2>1, <2>2, IsState
  <1> QED
    BY <1>2, <1>3

LEMMA RestrictIsState ==
  ASSUME NEW s \in States, NEW cs
  PROVE  Restrict(s, DOMAIN s \ cs) \in States
  <1>1. DOMAIN s \ cs \in SUBSET ClassIds
    BY StateHolds
  <1>2. Restrict(s, DOMAIN s \ cs) \in [DOMAIN s \ cs -> SUBSET LinkIds]
    BY StateHolds DEF Restrict
  <1> QED
    BY <1>1, <1>2, IsState

-----------------------------------------------------------------------------
(* Type correctness, which needs to know where run_once() is *)

\* A policy, and whether it is the degraded one, that could govern at time t.
Fits(b, degraded, t) ==
  IF degraded THEN b = FloorPolicy ELSE b \in Bundles /\ t < b.not_after

\* What run_once() holds where, and how far the log of its cycle is.
Progress ==
  /\ pc = "idle" => pinned = None
  /\ pc \in {"idle", "observe"} => decision = None
  /\ pinned # None => Fits(pinned.bundle, pinned.degraded, pinned.now)
  /\ decision # None => /\ decision.bundle_hash = pinned.bundle
                        /\ decision.degraded = pinned.degraded
                        /\ decision.decided_at = pinned.now
  /\ pc = "attempt" => Len(log) = 1
  /\ pc \in {"apply", "report error", "readback", "report effect"} => Len(log) = 2

LEMMA LogGrows ==
  /\ \A r \in Receipts : <<r>> \in Seq(Receipts) /\ Len(<<r>>) = 1
  /\ \A l \in Seq(Receipts) : \A r \in Receipts :
       Append(l, r) \in Seq(Receipts) /\ Len(Append(l, r)) = Len(l) + 1
  OBVIOUS

LEMMA InForceFits ==
  ASSUME TypeOK
  PROVE  /\ InForce(now) \in Pins
         /\ Fits(InForce(now).bundle, InForce(now).degraded, InForce(now).now)
  BY DEF TypeOK, InForce, Pins, Fits

\* TypeOK and Progress are inductive together.
LEMMA TypingStep ==
  ASSUME TypeOK, Progress, [Next]_vars
  PROVE  TypeOK' /\ Progress'
  <1> USE DEF store, locals, history
  <1>1. /\ faults < MaxFaults => faults + 1 \in 0..MaxFaults
        /\ now < MaxTime => now + 1 \in 0..MaxTime
    <2>1. now \in 0..MaxTime /\ faults \in 0..MaxFaults
      BY DEF TypeOK
    <2>2. MaxTime \in Nat /\ MaxFaults \in Nat
      BY FaultsAssumption, TimeAssumption
    <2> QED
      BY <2>1, <2>2
  <1>2. \A kind : Fault(kind) => faults' \in 0..MaxFaults
    BY <1>1 DEF Fault
  <1>3. \A b : Fits(b, TRUE, now) <=> b = FloorPolicy
    BY DEF Fits
  <1>4. CASE Tick
    BY <1>1, <1>4 DEF Tick, TypeOK, Progress, Last
  <1>5. ASSUME NEW b \in Bundles, Accept(b)
        PROVE  TypeOK' /\ Progress'
    BY <1>5 DEF Accept, Store!Adopt, TypeOK, Progress
  <1>6. CASE Begin
    BY <1>6, InForceFits, NoneAssumption DEF Begin, Goes, TypeOK, Progress
  <1>7. ASSUME NEW ev \in Snapshots, DecideOn(ev)
        PROVE  TypeOK' /\ Progress'
    <2>1. pinned \in Pins
      BY <1>7 DEF DecideOn, Goes, TypeOK
    <2>2. decision' \in Decisions
      <3>1. Fits(pinned.bundle, pinned.degraded, pinned.now)
        BY <2>1, NoneAssumption DEF Progress
      <3>2. pinned.degraded = (pinned.bundle = FloorPolicy)
        BY <2>1, <3>1, BundlesAssumption DEF Fits, Pins
      <3> QED
        BY <1>7, <2>1, <3>2 DEF DecideOn, Decisions, Pins
    <2>3. /\ decision'.bundle_hash = pinned.bundle
          /\ decision'.degraded = pinned.degraded
          /\ decision'.decided_at = pinned.now
      BY <1>7, DecideFields DEF DecideOn
    <2> QED
      BY <1>7, <2>1, <2>2, <2>3, NoneAssumption DEF DecideOn, Goes, TypeOK, Progress
  <1>8. CASE ObserveRaises
    BY <1>2, <1>8 DEF ObserveRaises, Goes, Forgets, TypeOK, Progress
  <1>9. CASE RecordDecision
    <2>1. decision \in Decisions /\ pinned # None
      BY <1>9 DEF RecordDecision, Goes, TypeOK
    <2>2. log' \in Seq(Receipts) /\ Len(log') = 1 /\ Len(log') <= 3
      <3>1. Receipt("DECISION", "", None) \in Receipts
        BY <2>1 DEF Receipt, Receipts
      <3>2. PICK r \in Receipts : log' = <<r>>
        BY <1>9, <3>1 DEF RecordDecision
      <3> QED
        BY <3>2, LogGrows
    <2>3. highest' \in {-1} \cup {b.sequence : b \in Bundles}
      <3>1. decision # None
        BY <2>1, NoneAssumption
      <3>2. ~decision.degraded => decision.bundle_hash \in Bundles
        BY <2>1, <3>1 DEF Progress, Fits
      <3> QED
        BY <1>9, <3>2 DEF RecordDecision, TypeOK
    <2> QED
      BY <1>9, <2>1, <2>2, <2>3 DEF RecordDecision, Goes, TypeOK, Progress
  <1>10. CASE RecordExecution
    <2>1. decision \in Decisions /\ Len(log) = 1
      BY <1>10 DEF RecordExecution, Goes, TypeOK, Progress
    <2>2. Receipt("EXECUTION", "", None) \in Receipts
      BY <2>1 DEF Receipt, Receipts
    <2>3. log' \in Seq(Receipts) /\ Len(log') = 2 /\ Len(log') <= 3
      <3>1. PICK r \in Receipts : log' = Append(log, r)
        BY <1>10, <2>2 DEF RecordExecution
      <3>2. log \in Seq(Receipts)
        BY DEF TypeOK
      <3> QED
        BY <2>1, <3>1, <3>2, LogGrows
    <2>4. attempted' \subseteq ClassIds \X LinkIds
      BY <1>10 DEF RecordExecution, TypeOK
    <2> QED
      BY <1>10, <2>3, <2>4 DEF RecordExecution, Goes, TypeOK, Progress
  <1>11. CASE Apply
    <2>1. decision \in Decisions
      BY <1>11 DEF Apply, Goes, TypeOK
    <2>2. dataplane' \in States
      BY <1>11, <2>1, AppliedIsState DEF Apply, TypeOK
    <2>3. faults' \in 0..MaxFaults
      BY <1>2, <1>11 DEF Apply, TypeOK
    <2> QED
      BY <1>11, <2>2, <2>3 DEF Apply, Goes, TypeOK, Progress
  <1>12. CASE ApplyRaises
    <2>1. decision \in Decisions
      BY <1>12 DEF ApplyRaises, Goes, TypeOK
    <2>2. dataplane' \in States
      BY <1>12, <2>1, AppliedIsState DEF ApplyRaises, TypeOK
    <2> QED
      BY <1>2, <1>12, <2>2 DEF ApplyRaises, Goes, TypeOK, Progress
  <1>13. CASE RecordError
    <2>1. decision \in Decisions /\ Len(log) = 2
      BY <1>13 DEF RecordError, Goes, TypeOK, Progress
    <2>2. Receipt("EFFECT", "ENFORCEMENT_ERROR", None) \in Receipts
      BY <2>1 DEF Receipt, Receipts
    <2>3. log' \in Seq(Receipts) /\ Len(log') = 3 /\ Len(log') <= 3
      <3>1. PICK r \in Receipts : log' = Append(log, r)
        BY <1>13, <2>2 DEF RecordError
      <3>2. log \in Seq(Receipts)
        BY DEF TypeOK
      <3>3. log' \in Seq(Receipts) /\ Len(log') = Len(log) + 1
        BY <3>1, <3>2, LogGrows
      <3> QED
        BY <2>1, <3>3
    <2> QED
      BY <1>13, <2>3 DEF RecordError, Goes, Forgets, TypeOK, Progress
  <1>14. CASE Readback
    BY <1>14 DEF Readback, Goes, TypeOK, Progress
  <1>15. CASE ReadbackRaises
    BY <1>2, <1>15 DEF ReadbackRaises, Goes, Forgets, TypeOK, Progress
  <1>16. CASE RecordEffect
    <2> DEFINE outcome == IF Complaint(decision, actual) THEN "POSTCONDITION_FAILED"
                                                         ELSE "ENFORCED"
    <2>1. decision \in Decisions /\ Len(log) = 2 /\ actual \in States \cup {None}
      BY <1>16 DEF RecordEffect, Goes, TypeOK, Progress
    <2>2. outcome \in {"ENFORCED", "POSTCONDITION_FAILED"}
      OBVIOUS
    <2>3. log' = Append(log, Receipt("EFFECT", outcome, actual))
      BY <1>16 DEF RecordEffect
    <2> HIDE DEF outcome
    <2>4. Receipt("EFFECT", outcome, actual) \in Receipts
      BY <2>1, <2>2 DEF Receipt, Receipts
    <2>5. log' \in Seq(Receipts) /\ Len(log') = 3 /\ Len(log') <= 3
      <3>1. PICK r \in Receipts : log' = Append(log, r)
        BY <2>3, <2>4
      <3>2. log \in Seq(Receipts)
        BY DEF TypeOK
      <3>3. log' \in Seq(Receipts) /\ Len(log') = Len(log) + 1
        BY <3>1, <3>2, LogGrows
      <3> QED
        BY <2>1, <3>3
    <2> QED
      BY <1>16, <2>5 DEF RecordEffect, Goes, Forgets, TypeOK, Progress
  <1>17. CASE RecordFails
    BY <1>2, <1>17 DEF RecordFails, Forgets, TypeOK, Progress
  <1>18. CASE Crash
    BY <1>2, <1>18 DEF Crash, Store!FallBack, Forgets, TypeOK, Progress
  <1>19. ASSUME NEW c \in DOMAIN dataplane, Lose(c)
         PROVE  TypeOK' /\ Progress'
    <2>1. dataplane' \in States
      BY <1>19, RestrictIsState DEF Lose, TypeOK
    <2> QED
      BY <1>2, <1>19, <2>1 DEF Lose, TypeOK, Progress
  <1>20. CASE SetBack
    BY <1>1, <1>2, <1>20 DEF SetBack, TypeOK, Progress, Last
  <1>21. CASE UNCHANGED vars
    BY <1>21 DEF vars, TypeOK, Progress
  <1> QED
    BY <1>4, <1>5, <1>6, <1>7, <1>8, <1>9, <1>10, <1>11, <1>12, <1>13, <1>14, <1>15,
       <1>16, <1>17, <1>18, <1>19, <1>20, <1>21 DEF Next

\* Every reachable state is well typed: in particular no cycle writes more than
\* three receipts.
LEMMA Inductive == Spec => [](TypeOK /\ Progress)
  <1>1. Init => TypeOK /\ Progress
    <2>1. 0 \in 0..MaxTime /\ 0 \in 0..MaxFaults
      BY FaultsAssumption, TimeAssumption
    <2>2. [c \in {} |-> {}] \in States
      <3>1. [c \in {} |-> {}] \in [{} -> SUBSET LinkIds]
        OBVIOUS
      <3> QED
        BY <3>1, IsState
    <2>3. <<>> \in Seq(Receipts) /\ Len(<<>>) = 0
      OBVIOUS
    <2> QED
      BY <2>1, <2>2, <2>3 DEF Init, Store!Init, Store!NoEpoch, TypeOK, Progress
  <1> QED
    BY <1>1, TypingStep, PTL DEF Spec

THEOREM Typing == Spec => []TypeOK
  BY Inductive, PTL

-----------------------------------------------------------------------------
(* ENFORCED is true *)

Attempting == {"attempt", "apply", "report error", "readback", "report effect"}

\* While an attempt is under way the log ends with a receipt that has no outcome,
\* and what was read back can only have got smaller since.
Truthful ==
  /\ EnforcedIsTrue
  /\ pc \in Attempting => log # <<>> /\ Last.outcome = ""
  /\ pc = "report effect" => \A c \in ClassIds : Held(dataplane, c) \subseteq Held(actual, c)

\* The log after a call of record(), which ends with its receipt.
LEMMA LastIsReceipt ==
  ASSUME TypeOK, decision \in Decisions, NEW kind, NEW outcome, NEW observed,
         Receipt(kind, outcome, observed) \in Receipts,
         \/ log' = <<Receipt(kind, outcome, observed)>>
         \/ log' = Append(log, Receipt(kind, outcome, observed))
  PROVE  log' # <<>> /\ Last'.outcome = outcome /\ Last'.decision = decision
  <1>1. PICK r \in Receipts : /\ r = Receipt(kind, outcome, observed)
                              /\ log' = <<r>> \/ log' = Append(log, r)
    OBVIOUS
  <1>2. log \in Seq(Receipts)
    BY DEF TypeOK
  <1>3. log' # <<>> /\ log'[Len(log')] = r
    <2>1. CASE log' = <<r>>
      BY <2>1
    <2>2. CASE log' = Append(log, r)
      <3>1. Len(log') = Len(log) + 1 /\ Len(log) \in Nat
        BY <1>2, <2>2
      <3>2. log'[Len(log) + 1] = r
        BY <1>2, <2>2
      <3> QED
        BY <3>1, <3>2
    <2> QED
      BY <1>1, <2>1, <2>2
  <1>4. r.outcome = outcome /\ r.decision = decision
    BY <1>1 DEF Receipt
  <1> QED
    BY <1>3, <1>4 DEF Last

LEMMA TruthfulStep ==
  ASSUME TypeOK, Progress, Truthful, [Next]_vars
  PROVE  Truthful'
  <1> USE DEF store, locals, history, Attempting
  <1>1. CASE \/ Tick \/ SetBack \/ Begin \/ ObserveRaises \/ ReadbackRaises \/ RecordFails \/ Crash
             \/ (\E b \in Bundles : Accept(b)) \/ UNCHANGED vars
             \/ (\E ev \in Snapshots : DecideOn(ev))
    <2>1. UNCHANGED <<dataplane, log>>
      BY <1>1 DEF Tick, SetBack, Begin, ObserveRaises, ReadbackRaises, RecordFails, Crash,
                  Accept, DecideOn, vars
    <2>2. pc' \in Attempting => pc' = pc /\ actual' = actual
      BY <1>1 DEF Tick, SetBack, Begin, ObserveRaises, ReadbackRaises, RecordFails, Crash,
                  Accept, DecideOn, Goes, vars
    <2> QED
      BY <2>1, <2>2 DEF Truthful, EnforcedIsTrue, Last
  <1>2. CASE RecordDecision
    <2>1. decision \in Decisions
      BY <1>2 DEF RecordDecision, Goes, TypeOK
    <2>2. Receipt("DECISION", "", None) \in Receipts
      BY <2>1 DEF Receipt, Receipts
    <2>3. log' # <<>> /\ Last'.outcome = ""
      BY <1>2, <2>1, <2>2, LastIsReceipt DEF RecordDecision
    <2> QED
      BY <1>2, <2>3 DEF RecordDecision, Goes, Truthful, EnforcedIsTrue
  <1>3. CASE RecordExecution
    <2>1. decision \in Decisions
      BY <1>3 DEF RecordExecution, Goes, TypeOK
    <2>2. Receipt("EXECUTION", "", None) \in Receipts
      BY <2>1 DEF Receipt, Receipts
    <2>3. log' # <<>> /\ Last'.outcome = ""
      BY <1>3, <2>1, <2>2, LastIsReceipt DEF RecordExecution
    <2> QED
      BY <1>3, <2>3 DEF RecordExecution, Goes, Truthful, EnforcedIsTrue
  <1>4. CASE Apply \/ ApplyRaises
    BY <1>4 DEF Apply, ApplyRaises, Goes, Truthful, EnforcedIsTrue, Last
  <1>5. CASE RecordError
    <2>1. decision \in Decisions
      BY <1>5 DEF RecordError, Goes, TypeOK
    <2>2. Receipt("EFFECT", "ENFORCEMENT_ERROR", None) \in Receipts
      BY <2>1 DEF Receipt, Receipts
    <2>3. log' # <<>> /\ Last'.outcome = "ENFORCEMENT_ERROR"
      BY <1>5, <2>1, <2>2, LastIsReceipt DEF RecordError
    <2> QED
      BY <1>5, <2>3 DEF RecordError, Goes, Truthful, EnforcedIsTrue
  <1>6. CASE Readback
    BY <1>6 DEF Readback, Goes, Truthful, EnforcedIsTrue, Last
  <1>7. CASE RecordEffect
    <2> DEFINE outcome == IF Complaint(decision, actual) THEN "POSTCONDITION_FAILED"
                                                         ELSE "ENFORCED"
    <2>1. /\ decision \in Decisions /\ actual \in States \cup {None}
          /\ \A c \in ClassIds : Held(dataplane, c) \subseteq Held(actual, c)
      BY <1>7 DEF RecordEffect, Goes, TypeOK, Truthful
    <2>2. outcome \in {"ENFORCED", "POSTCONDITION_FAILED"}
      OBVIOUS
    <2>3. log' = Append(log, Receipt("EFFECT", outcome, actual))
      BY <1>7 DEF RecordEffect
    <2>4. outcome = "ENFORCED" => ~Complaint(decision, actual)
      OBVIOUS
    <2> HIDE DEF outcome
    <2>5. Receipt("EFFECT", outcome, actual) \in Receipts
      BY <2>1, <2>2 DEF Receipt, Receipts
    <2>6. log' # <<>> /\ Last'.outcome = outcome /\ Last'.decision = decision
      BY <2>1, <2>3, <2>5, LastIsReceipt
    <2>7. ~Complaint(decision, actual) =>
            \A k \in decision.classes : Held(dataplane, k.class) \subseteq k.permitted
      <3> SUFFICES ASSUME ~Complaint(decision, actual), NEW k \in decision.classes
                   PROVE  Held(dataplane, k.class) \subseteq k.permitted
        OBVIOUS
      <3>1. Held(actual, k.class) \subseteq k.permitted
        BY DEF Complaint
      <3>2. k.class \in ClassIds
        BY <2>1, DecisionClasses
      <3> QED
        BY <2>1, <3>1, <3>2
    <2>8. UNCHANGED dataplane /\ pc' = "idle"
      BY <1>7 DEF RecordEffect, Goes
    <2>9. EnforcedIsTrue'
      BY <2>4, <2>6, <2>7, <2>8 DEF EnforcedIsTrue, Held
    <2> QED
      BY <2>8, <2>9 DEF Truthful
  <1>8. ASSUME NEW c \in DOMAIN dataplane, Lose(c)
        PROVE  Truthful'
    <2>1. dataplane' = Restrict(dataplane, DOMAIN dataplane \ {c})
      BY <1>8 DEF Lose
    <2>2. \A x : Held(dataplane', x) \subseteq Held(dataplane, x)
      BY <2>1 DEF Held, Restrict
    <2>3. UNCHANGED <<log, pc, actual>>
      BY <1>8 DEF Lose
    <2>4. EnforcedIsTrue'
      BY <2>2, <2>3 DEF Truthful, EnforcedIsTrue, Last, Held
    <2>5. pc' = "report effect" =>
            \A x \in ClassIds : Held(dataplane', x) \subseteq Held(actual', x)
      BY <2>2, <2>3 DEF Truthful
    <2> QED
      BY <2>3, <2>4, <2>5 DEF Truthful, Held, Last
  <1> QED
    BY <1>1, <1>2, <1>3, <1>4, <1>5, <1>6, <1>7, <1>8 DEF Next

\* A log that ends with ENFORCED tells the truth about every class its decision
\* names, whatever calls fail, at any number of sites, policies and faults.
THEOREM EnforcedIsTrueHolds == Spec => []EnforcedIsTrue
  <1>1. Init => Truthful
    BY DEF Init, Truthful, EnforcedIsTrue, Attempting
  <1>2. TypeOK /\ Progress /\ Truthful /\ [Next]_vars => Truthful'
    BY TruthfulStep
  <1>3. Truthful => EnforcedIsTrue
    BY DEF Truthful
  <1> QED
    BY <1>1, <1>2, <1>3, Inductive, PTL DEF Spec

-----------------------------------------------------------------------------
(* Recording precedes acting *)

\* Everything a decision asks for is recorded as attempted before it is applied.
Recorded ==
  /\ NothingInForceUnrecorded
  /\ pc = "apply" =>
       \A c \in ClassIds : \A l \in PermittedFor(decision, c) : <<c, l>> \in attempted

\* What apply() may leave in force was asked for or was in force before.
LEMMA AppliedWasKnown ==
  ASSUME decision \in Decisions, NEW c, NEW l,
         \/ c \in DOMAIN Obeyed /\ l \in Obeyed[c]
         \/ c \in DOMAIN Kept /\ l \in Kept[c]
  PROVE  \/ c \in ClassIds /\ l \in PermittedFor(decision, c)
         \/ c \in DOMAIN dataplane /\ l \in dataplane[c]
  <1>1. DOMAIN Wanted(decision) \subseteq ClassIds
    BY DecisionClasses DEF Wanted
  <1>2. \A x \in DOMAIN Wanted(decision) : Wanted(decision)[x] = PermittedFor(decision, x)
    BY DEF Wanted
  <1>3. (c \in DOMAIN Obeyed /\ l \in Obeyed[c]) =>
           \/ c \in ClassIds /\ l \in PermittedFor(decision, c)
           \/ c \in DOMAIN dataplane /\ l \in dataplane[c]
    BY <1>1, <1>2 DEF Obeyed
  <1>4. (c \in DOMAIN Kept /\ l \in Kept[c]) =>
           \/ c \in DOMAIN Obeyed /\ l \in Obeyed[c]
           \/ c \in DOMAIN dataplane /\ l \in dataplane[c]
    BY DEF Kept, Held
  <1> QED
    BY <1>3, <1>4

LEMMA RecordedStep ==
  ASSUME TypeOK, Recorded, [Next]_vars
  PROVE  Recorded'
  <1> USE DEF store, locals, history
  <1>1. CASE \/ Tick \/ SetBack \/ Begin \/ ObserveRaises \/ ReadbackRaises \/ RecordFails \/ Crash
             \/ (\E b \in Bundles : Accept(b)) \/ UNCHANGED vars
             \/ (\E ev \in Snapshots : DecideOn(ev))
             \/ RecordDecision \/ RecordError \/ Readback \/ RecordEffect
    <2>1. UNCHANGED <<dataplane, attempted>>
      BY <1>1 DEF Tick, SetBack, Begin, ObserveRaises, ReadbackRaises, RecordFails, Crash, Accept,
                  DecideOn, RecordDecision, RecordError, Readback, RecordEffect, vars
    <2>2. pc' = "apply" => pc = "apply" /\ decision' = decision
      BY <1>1 DEF Tick, SetBack, Begin, ObserveRaises, ReadbackRaises, RecordFails, Crash, Accept,
                  DecideOn, RecordDecision, RecordError, Readback, RecordEffect, Goes, vars
    <2> QED
      BY <2>1, <2>2 DEF Recorded, NothingInForceUnrecorded, PermittedFor
  <1>2. CASE RecordExecution
    <2>1. decision \in Decisions
      BY <1>2 DEF RecordExecution, Goes, TypeOK
    <2>2. \A c \in ClassIds : \A l \in PermittedFor(decision, c) : <<c, l>> \in attempted'
      BY <1>2, <2>1, PermittedForLinks DEF RecordExecution
    <2>3. UNCHANGED <<dataplane, decision>> /\ attempted \subseteq attempted'
      BY <1>2 DEF RecordExecution
    <2> QED
      BY <2>2, <2>3 DEF Recorded, NothingInForceUnrecorded, PermittedFor
  <1>3. CASE Apply \/ ApplyRaises
    <2>1. decision \in Decisions /\ UNCHANGED attempted /\ pc = "apply" /\ pc' # "apply"
      BY <1>3 DEF Apply, ApplyRaises, Goes, TypeOK
    <2>2. dataplane' \in {dataplane, Obeyed, Kept}
      BY <1>3 DEF Apply, ApplyRaises
    <2>3. ASSUME NEW c \in DOMAIN dataplane', NEW l \in dataplane'[c]
          PROVE  <<c, l>> \in attempted
      <3>1. \/ c \in ClassIds /\ l \in PermittedFor(decision, c)
            \/ c \in DOMAIN dataplane /\ l \in dataplane[c]
        BY <2>1, <2>2, <2>3, AppliedWasKnown
      <3> QED
        BY <2>1, <3>1 DEF Recorded, NothingInForceUnrecorded
    <2> QED
      BY <2>1, <2>3 DEF Recorded, NothingInForceUnrecorded
  <1>4. ASSUME NEW c \in DOMAIN dataplane, Lose(c)
        PROVE  Recorded'
    BY <1>4 DEF Lose, Restrict, Recorded, NothingInForceUnrecorded, PermittedFor
  <1> QED
    BY <1>1, <1>2, <1>3, <1>4 DEF Next

\* No link is in force for a class unless a receipt says that it was attempted.
THEOREM NothingInForceUnrecordedHolds == Spec => []NothingInForceUnrecorded
  <1>1. Init => Recorded
    BY DEF Init, Recorded, NothingInForceUnrecorded
  <1>2. TypeOK /\ Recorded /\ [Next]_vars => Recorded'
    BY RecordedStep
  <1>3. Recorded => NothingInForceUnrecorded
    BY DEF Recorded
  <1> QED
    BY <1>1, <1>2, <1>3, Typing, PTL DEF Spec

-----------------------------------------------------------------------------
(* One policy per decision, and never an older one *)

\* A log whose receipts all carry decisions of one policy, after one more of them.
LEMMA LogKeepsOnePolicy ==
  ASSUME TypeOK, Progress, DecisionIsOfOnePolicy, decision \in Decisions,
         pinned \in Pins, NEW kind, NEW outcome, NEW observed,
         \/ log' = <<Receipt(kind, outcome, observed)>>
         \/ log' = Append(log, Receipt(kind, outcome, observed))
  PROVE  DecisionIsOfOnePolicy'
  <1> DEFINE Ok(d) == IF d.degraded THEN d.bundle_hash = FloorPolicy
                      ELSE d.bundle_hash \in Bundles /\ d.decided_at < d.bundle_hash.not_after
  <1>1. decision # None /\ pinned # None
    BY NoneAssumption
  <1>2. Ok(decision)
    BY <1>1 DEF Progress, Fits
  <1>3. PICK r : /\ r.decision = decision
                 /\ log' = <<r>> \/ log' = Append(log, r)
    BY DEF Receipt
  <1>4. log \in Seq(Receipts) /\ \A i \in DOMAIN log : Ok(log[i].decision)
    BY DEF TypeOK, DecisionIsOfOnePolicy
  <1>5. \A i \in DOMAIN log' : Ok(log'[i].decision)
    <2> HIDE DEF Ok
    <2>1. CASE log' = <<r>>
      BY <1>2, <1>3, <2>1
    <2>2. CASE log' = Append(log, r)
      <3> SUFFICES ASSUME NEW i \in DOMAIN log'
                   PROVE  Ok(log'[i].decision)
        OBVIOUS
      <3>1. (i \in DOMAIN log /\ log'[i] = log[i]) \/ log'[i] = r
        BY <1>4, <2>2
      <3> QED
        BY <1>2, <1>3, <1>4, <3>1
    <2> QED
      BY <1>3, <2>1, <2>2
  <1> QED
    BY <1>5 DEF DecisionIsOfOnePolicy

\* A receipt that is not degraded names a policy that had not lapsed at the time of
\* the decision, a degraded one the floor.
THEOREM DecisionIsOfOnePolicyHolds == Spec => []DecisionIsOfOnePolicy
  <1>1. Init => DecisionIsOfOnePolicy
    BY DEF Init, DecisionIsOfOnePolicy
  <1>2. TypeOK /\ Progress /\ DecisionIsOfOnePolicy /\ [Next]_vars
          => DecisionIsOfOnePolicy'
    <2> SUFFICES ASSUME TypeOK, Progress, DecisionIsOfOnePolicy, [Next]_vars
                 PROVE  DecisionIsOfOnePolicy'
      OBVIOUS
    <2> USE DEF store, locals, history
    <2>1. CASE RecordDecision \/ RecordExecution \/ RecordError \/ RecordEffect
      <3>1. decision \in Decisions /\ pinned \in Pins
        BY <2>1 DEF RecordDecision, RecordExecution, RecordError, RecordEffect, Goes, TypeOK
      <3> QED
        BY <2>1, <3>1, LogKeepsOnePolicy
        DEF RecordDecision, RecordExecution, RecordError, RecordEffect
    <2>2. CASE UNCHANGED log
      BY <2>2 DEF DecisionIsOfOnePolicy
    <2>3. \/ RecordDecision \/ RecordExecution \/ RecordError \/ RecordEffect
          \/ UNCHANGED log
      BY DEF Next, Tick, SetBack, Accept, Begin, DecideOn, ObserveRaises, Apply, ApplyRaises,
             Readback, ReadbackRaises, RecordFails, Crash, Lose, vars
    <2> QED
      BY <2>1, <2>2, <2>3
  <1> QED
    BY <1>1, <1>2, Inductive, PTL DEF Spec

\* The newest policy ever adopted bounds what is installed, pinned and recorded, and
\* what is pinned is not older than what the log names.
Ranks ==
  /\ highest <= newest
  /\ installed # None => installed.sequence = newest
  /\ (pinned # None /\ ~pinned.degraded) =>
       /\ highest <= pinned.bundle.sequence
       /\ pinned.bundle.sequence <= newest

LEMMA SequencesAreIntegers ==
  ASSUME TypeOK
  PROVE  newest \in Int /\ highest \in Int /\ \A b \in Bundles : b.sequence \in Int
  <1>1. \A b \in Bundles : b.sequence \in Int
    BY BundlesAssumption
  <1>2. {-1} \cup {b.sequence : b \in Bundles} \subseteq Int
    BY <1>1
  <1>3. {newest, highest} \subseteq {-1} \cup {b.sequence : b \in Bundles}
    BY DEF TypeOK
  <1> QED
    BY <1>1, <1>2, <1>3

\* What a cycle records is the policy it pinned.
LEMMA RecordsWhatItPinned ==
  ASSUME TypeOK, Progress, Ranks, RecordDecision
  PROVE  \/ decision.degraded /\ highest' = highest
         \/ /\ ~decision.degraded /\ pinned.bundle \in Bundles
            /\ decision.bundle_hash = pinned.bundle
            /\ highest' = pinned.bundle.sequence
            /\ highest <= highest' /\ highest' <= newest
  <1>1. decision # None /\ pinned # None
    BY NoneAssumption DEF RecordDecision, Goes, TypeOK
  <1>2. /\ decision.degraded = pinned.degraded /\ decision.bundle_hash = pinned.bundle
        /\ ~pinned.degraded => pinned.bundle \in Bundles
    BY <1>1 DEF Progress, Fits
  <1>3. CASE decision.degraded
    BY <1>3 DEF RecordDecision
  <1>4. CASE ~decision.degraded
    <2>1. highest' = pinned.bundle.sequence
      BY <1>2, <1>4 DEF RecordDecision
    <2>2. highest <= pinned.bundle.sequence /\ pinned.bundle.sequence <= newest
      BY <1>1, <1>2, <1>4 DEF Ranks
    <2> QED
      BY <1>2, <1>4, <2>1, <2>2
  <1> QED
    BY <1>3, <1>4

LEMMA RanksStep ==
  ASSUME TypeOK, Progress, Ranks, [Next]_vars
  PROVE  Ranks'
  <1> USE DEF store, locals, history
  <1>1. ASSUME NEW b \in Bundles, Accept(b)
        PROVE  Ranks'
    <2>1. newest < newest' /\ newest' = b.sequence /\ installed' \in {b, None}
          /\ UNCHANGED <<pinned, highest>>
      BY <1>1 DEF Accept, Store!Adopt
    <2>2. newest \in Int /\ highest \in Int /\ b.sequence \in Int
      BY SequencesAreIntegers
    <2>3. (pinned # None /\ ~pinned.degraded) => pinned.bundle.sequence \in Int
      BY SequencesAreIntegers DEF Progress, Fits
    <2> QED
      BY <2>1, <2>2, <2>3 DEF Ranks
  <1>2. CASE Begin
    <2>1. pinned' = InForce(now) /\ UNCHANGED <<installed, newest, highest>>
      BY <1>2 DEF Begin
    <2>2. ~pinned'.degraded => installed # None /\ pinned'.bundle = installed
      BY <2>1 DEF InForce
    <2> QED
      BY <2>1, <2>2, SequencesAreIntegers DEF Ranks
  <1>3. CASE RecordDecision
    <2>1. UNCHANGED <<installed, newest, pinned>>
      BY <1>3 DEF RecordDecision
    <2>2. \/ highest' = highest
          \/ /\ highest' = pinned.bundle.sequence /\ highest' <= newest
             /\ pinned.bundle \in Bundles
      BY <1>3, RecordsWhatItPinned
    <2>3. CASE highest' = highest
      BY <2>1, <2>3 DEF Ranks
    <2>4. CASE /\ highest' = pinned.bundle.sequence /\ highest' <= newest
               /\ pinned.bundle \in Bundles
      BY <2>1, <2>4, SequencesAreIntegers DEF Ranks
    <2> QED
      BY <2>2, <2>3, <2>4
  <1>4. CASE /\ UNCHANGED <<newest, highest>>
             /\ installed' \in {installed, None} /\ pinned' \in {pinned, None}
    BY <1>4 DEF Ranks
  <1>5. \/ \E b \in Bundles : Accept(b)
        \/ Begin
        \/ RecordDecision
        \/ /\ UNCHANGED <<newest, highest>>
           /\ installed' \in {installed, None} /\ pinned' \in {pinned, None}
    BY DEF Next, Tick, SetBack, DecideOn, ObserveRaises, RecordExecution, Apply, ApplyRaises,
           RecordError, Readback, ReadbackRaises, RecordEffect, RecordFails, Crash,
           Store!FallBack, Lose, Forgets, vars
  <1> QED
    BY <1>1, <1>2, <1>3, <1>4, <1>5

\* The log never goes back to an older policy.
THEOREM LogNeverRollsBackHolds == Spec => LogNeverRollsBack
  <1>1. Init => Ranks
    BY DEF Init, Store!Init, Store!NoEpoch, Ranks
  <1>2. TypeOK /\ Progress /\ Ranks /\ [Next]_vars => Ranks'
    BY RanksStep
  <1>3. TypeOK /\ Progress /\ Ranks /\ [Next]_vars =>
          [RecordDecision => (decision.degraded \/ decision.bundle_hash.sequence >= highest)]_vars
    <2> SUFFICES ASSUME TypeOK, Progress, Ranks, RecordDecision, ~decision.degraded
                 PROVE  decision.bundle_hash.sequence >= highest
      OBVIOUS
    <2>1. /\ decision.bundle_hash = pinned.bundle /\ pinned.bundle \in Bundles
          /\ highest <= pinned.bundle.sequence
      BY RecordsWhatItPinned
    <2> QED
      BY <2>1, SequencesAreIntegers
  <1> QED
    BY <1>1, <1>2, <1>3, Inductive, PTL DEF Spec, LogNeverRollsBack

-----------------------------------------------------------------------------
(* Attempts are answered *)

\* An attempt on record is answered in the log before the next cycle, unless the
\* sink, readback() or the process failed.
THEOREM AttemptIsAnsweredHolds == Spec => AttemptIsAnswered
  <1>1. TypeOK /\ Progress /\ [Next]_vars =>
          [ (pc \notin {"idle", "observe", "authorise", "attempt"} /\ pc' = "idle") =>
              (Len(log') = 3 \/ RecordFails \/ ReadbackRaises \/ Crash) ]_vars
    <2> SUFFICES ASSUME TypeOK, Progress, Next, pc' = "idle",
                        pc \notin {"idle", "observe", "authorise", "attempt"},
                        ~(RecordFails \/ ReadbackRaises \/ Crash)
                 PROVE  Len(log') = 3
      OBVIOUS
    <2>1. RecordError \/ RecordEffect
      BY DEF Next, Tick, SetBack, Accept, Begin, DecideOn, ObserveRaises, RecordDecision,
             RecordExecution, Apply, ApplyRaises, Readback, Lose, Goes
    <2>2. log \in Seq(Receipts) /\ Len(log) = 2
      BY <2>1 DEF RecordError, RecordEffect, Goes, TypeOK, Progress
    <2>3. PICK r : log' = Append(log, r)
      BY <2>1 DEF RecordError, RecordEffect
    <2>4. log \in Seq(Receipts \cup {r}) /\ r \in Receipts \cup {r}
      BY <2>2
    <2>5. Len(Append(log, r)) = Len(log) + 1
      BY <2>4
    <2> QED
      BY <2>2, <2>3, <2>5
  <1> QED
    BY <1>1, Inductive, PTL DEF Spec, AttemptIsAnswered
=============================================================================
