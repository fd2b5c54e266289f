---------------------------- MODULE BundleStore ----------------------------
(***************************************************************************)
(* agent/bundle_store.py and agent/epoch.py: which policy a site is under. *)
(*                                                                         *)
(* One process at a time runs the store; it may die at any point and be    *)
(* started again.  accept() is split where a crash tells the parts apart:  *)
(* the checks, the durable commit of the high-water mark, the assignments  *)
(* that put the bundle in force.  The transport may deliver any message of *)
(* Envelopes, any number of times, in any order: one that is refused       *)
(* changes nothing, so a refusal is a stuttering step.                     *)
(*                                                                         *)
(*   envelope  [type, issuer, stamp, signed, nonce, bundle]                *)
(*             signed: the signature verifies under the trusted key        *)
(*   bundle    [authority, sequence, not_after, id]                        *)
(*   floor     [type, issuer, signed, site, inventory, links]              *)
(***************************************************************************)
EXTENDS Integers, FiniteSets

CONSTANTS
  Envelopes,       \* every message the transport can deliver
  FloorConfigs,    \* every floor configuration a start can be given
  Issuer,          \* the authority the site answers to
  Site,            \* the site's own id
  PresentedLinks,  \* floor_links: the inventory the site presents, or None
  MaxClockSkew,    \* MAX_CLOCK_SKEW_S, in ticks
  MaxTime,         \* bound on the clock
  MaxFaults,       \* bound on crashes, failed commits, damaged marks, clocks set back
  RenameSurvivesPowerCut,  \* os.replace is durable without an fsync of the directory
  None,
  Unreadable       \* a mark that exists and is not a number

ASSUME ClockAssumption == MaxClockSkew \in Nat /\ MaxTime \in Nat /\ MaxFaults \in Nat
ASSUME FileSystemAssumption == RenameSurvivesPowerCut \in BOOLEAN
ASSUME EnvelopesAssumption ==
  \A e \in Envelopes : /\ e.bundle.sequence \in Nat
                       /\ e.bundle.not_after \in Int
                       /\ e.stamp \in Int
ASSUME NoneAssumption == None \notin {e.bundle : e \in Envelopes} \cup Envelopes
ASSUME UnreadableAssumption == Unreadable \notin Int

VARIABLES
  now,       \* the clock the caller passes to accept() and current()
  mark,      \* what FileEpochStore.read() finds on disk
  synced,    \* what it finds after a power cut
  pc,        \* where the process is: "down", "idle", or inside accept()
  pending,   \* the envelope accept() is working on
  floor,     \* self._floor
  bundle,    \* self._bundle
  sequence,  \* self._sequence
  nonces,    \* self._seen_nonces
  governed,  \* history: every bundle that was ever put in force here
  faults     \* faults so far

disk == <<mark, synced>>
process == <<pc, pending, floor, bundle, sequence, nonces>>
vars == <<now, disk, process, governed, faults>>

NoEpoch == -1
Bundles == {e.bundle : e \in Envelopes}
Marks == {NoEpoch, Unreadable} \cup {b.sequence : b \in Bundles}

TypeOK ==
  /\ now \in 0..MaxTime
  /\ mark \in Marks
  /\ synced \in Marks
  /\ pc \in {"down", "idle", "commit", "install"}
  /\ pending \in Envelopes \cup {None}
  /\ pc \in {"commit", "install"} => pending \in Envelopes
  /\ floor \in FloorConfigs \cup {None}
  /\ bundle \in Bundles \cup {None}
  /\ sequence \in Marks \ {Unreadable}
  /\ nonces \subseteq {e.nonce : e \in Envelopes}
  /\ governed \subseteq Bundles
  /\ faults \in 0..MaxFaults

-----------------------------------------------------------------------------
(* What the store accepts *)

\* _install_floor: the checks a signed floor must pass before a start.
FloorIsOurs(f) ==
  /\ f.type = "FLOOR_CONFIG"
  /\ f.issuer = Issuer
  /\ f.signed
  /\ f.site = Site
  /\ f.inventory = IF PresentedLinks = None THEN f.links ELSE PresentedLinks

\* Mutant: no allowance for clocks that differ.
GenuineWithoutSkew(e) ==
  /\ e.type = "POLICY_BUNDLE"
  /\ e.issuer = Issuer
  /\ e.stamp <= now
  /\ e.signed
  /\ e.bundle.authority = Issuer
\* The checks of accept() that do not depend on what was accepted before.
Genuine(e) ==
  /\ e.type = "POLICY_BUNDLE"
  /\ e.issuer = Issuer
  /\ e.stamp <= now + MaxClockSkew
  /\ e.signed
  /\ e.bundle.authority = Issuer

\* Mutant: a bundle with the sequence already in force is let through.
AdmitsSameSequence(e) ==
  /\ Genuine(e)
  /\ e.nonce \notin nonces
  /\ e.bundle.sequence >= sequence
  /\ now < e.bundle.not_after

\* All the checks of accept(), in force when none of them raises.
Admissible(e) ==
  /\ Genuine(e)
  /\ e.nonce \notin nonces
  /\ e.bundle.sequence > sequence
  /\ now < e.bundle.not_after

\* current(): the bundle governs, or else the floor does and the site is degraded.
Governs == bundle # None /\ now < bundle.not_after
Current == IF Governs THEN <<bundle, FALSE>> ELSE <<floor, TRUE>>

-----------------------------------------------------------------------------

Init ==
  /\ now = 0
  /\ mark = NoEpoch /\ synced = NoEpoch
  /\ pc = "down" /\ pending = None /\ floor = None
  /\ bundle = None /\ sequence = NoEpoch /\ nonces = {}
  /\ governed = {}
  /\ faults = 0

Tick ==
  /\ now < MaxTime
  /\ now' = now + 1
  /\ UNCHANGED <<disk, process, governed, faults>>

\* Somebody, or a time server, sets the clock back.
SetBack(t) ==
  /\ t < now
  /\ faults < MaxFaults
  /\ faults' = faults + 1
  /\ now' = t
  /\ UNCHANGED <<disk, process, governed>>

\* Mutant: the mark is used without a look at whether it could be read.
StartUnchecked(f) ==
  /\ pc = "down"
  /\ FloorIsOurs(f)
  /\ pc' = "idle"
  /\ floor' = f
  /\ sequence' = mark
  /\ UNCHANGED <<now, disk, pending, bundle, nonces, governed, faults>>
\* BundleStore.__init__: refuses to start on an unreadable mark.
Start(f) ==
  /\ pc = "down"
  /\ FloorIsOurs(f)
  /\ mark # Unreadable
  /\ pc' = "idle"
  /\ floor' = f
  /\ sequence' = mark
  /\ UNCHANGED <<now, disk, pending, bundle, nonces, governed, faults>>

\* Mutant: the nonce is used up before the policy is recorded.
CheckBurnsNonce(e) ==
  /\ pc = "idle"
  /\ Admissible(e)
  /\ pc' = "commit"
  /\ pending' = e
  /\ nonces' = nonces \cup {e.nonce}
  /\ UNCHANGED <<now, disk, floor, bundle, sequence, governed, faults>>
\* accept(), up to the commit.
Check(e) ==
  /\ pc = "idle"
  /\ Admissible(e)
  /\ pc' = "commit"
  /\ pending' = e
  /\ UNCHANGED <<now, disk, floor, bundle, sequence, nonces, governed, faults>>

\* What the mark becomes, and what a power cut would leave of it: the rename has
\* not necessarily reached the disk, since commit() does not sync the directory.
Record(s) ==
  /\ mark' = s
  /\ synced' \in (IF RenameSurvivesPowerCut THEN {s} ELSE {s, synced})

\* Mutant: the sequence is kept in memory only.
CommitForgets ==
  /\ pc = "commit"
  /\ mark # Unreadable
  /\ pc' = "install"
  /\ UNCHANGED <<now, disk, pending, floor, bundle, sequence, nonces, governed, faults>>
\* FileEpochStore.commit: keeps the mark when it is already as high.
Commit ==
  /\ pc = "commit"
  /\ mark # Unreadable
  /\ IF pending.bundle.sequence <= mark THEN UNCHANGED disk
                                        ELSE Record(pending.bundle.sequence)
  /\ pc' = "install"
  /\ UNCHANGED <<now, pending, floor, bundle, sequence, nonces, governed, faults>>

\* commit() raises: the mark cannot be read, or the new one cannot be written.
\* accept() passes the exception on and the site keeps what it had.
CommitFails ==
  /\ pc = "commit"
  /\ \/ mark = Unreadable /\ UNCHANGED faults
     \/ faults < MaxFaults /\ faults' = faults + 1
  /\ pc' = "idle"
  /\ pending' = None
  /\ UNCHANGED <<now, disk, floor, bundle, sequence, nonces, governed>>

\* commit() raises when the new mark is in place already: accept() passes this on, too,
\* and the mark is ahead of what the site keeps.
CommitLate ==
  /\ pc = "commit"
  /\ mark # Unreadable
  /\ pending.bundle.sequence > mark
  /\ Record(pending.bundle.sequence)
  /\ faults < MaxFaults /\ faults' = faults + 1
  /\ pc' = "idle"
  /\ pending' = None
  /\ UNCHANGED <<now, floor, bundle, sequence, nonces, governed>>

\* The rest of accept(): the bundle is in force.
Install ==
  /\ pc = "install"
  /\ pc' = "idle"
  /\ pending' = None
  /\ nonces' = nonces \cup {pending.nonce}
  /\ bundle' = pending.bundle
  /\ sequence' = pending.bundle.sequence
  /\ governed' = governed \cup {pending.bundle}
  /\ UNCHANGED <<now, disk, floor, faults>>

\* Everything the process held in memory is gone.
Stopped ==
  /\ pc # "down"
  /\ faults < MaxFaults
  /\ faults' = faults + 1
  /\ pc' = "down" /\ pending' = None /\ floor' = None
  /\ bundle' = None /\ sequence' = NoEpoch /\ nonces' = {}

Crash == Stopped /\ UNCHANGED <<now, disk, governed>>

PowerCut ==
  /\ Stopped
  /\ mark' = synced
  /\ UNCHANGED <<now, synced, governed>>

\* The medium under the mark fails (outside the program).
Damage ==
  /\ faults < MaxFaults
  /\ faults' = faults + 1
  /\ mark' = Unreadable /\ synced' = Unreadable
  /\ UNCHANGED <<now, process, governed>>

Next ==
  \/ Tick
  \/ \E t \in 0..MaxTime : SetBack(t)
  \/ \E f \in FloorConfigs : Start(f)
  \/ \E e \in Envelopes : Check(e)
  \/ Commit
  \/ CommitFails
  \/ CommitLate
  \/ Install
  \/ Crash
  \/ PowerCut
  \/ Damage

Spec == Init /\ [][Next]_vars

\* The supervisor starts the agent again, a call that was entered is carried on,
\* time passes, and the transport goes on offering every message.
Fairness ==
  /\ WF_vars(Tick)
  /\ WF_vars(\E f \in FloorConfigs : Start(f))
  /\ WF_vars(Commit)
  /\ WF_vars(Install)
  /\ \A e \in Envelopes : WF_vars(Check(e))

FairSpec == Spec /\ Fairness

-----------------------------------------------------------------------------
(* Properties *)

\* Rollback protection across restarts (epoch.py:1-18, bundle_store.py:19-21): what
\* is in force is the newest policy that ever was, whatever crashed in between.
NoRollback ==
  bundle # None => \A b \in governed : b.sequence <= bundle.sequence

\* Two policies that carry one sequence are never both put in force, not even in
\* different lives of the process (epoch.py:11-17).
OnePolicyPerSequence ==
  \A b1, b2 \in governed : b1.sequence = b2.sequence => b1 = b2

\* The store, seen from outside, adopts ever newer policies, falls back to nothing
\* but the floor and, where the clock is set back, from there to nothing but the
\* newest policy (bundle_store.py:19-21, current()).
InForce == IF Governs THEN bundle ELSE None
Newest == IF governed = {} THEN NoEpoch
          ELSE (CHOOSE b \in governed : \A c \in governed : c.sequence <= b.sequence).sequence

Promise == INSTANCE PolicyInForce WITH
  Policies <- Bundles, Floor <- None, inForce <- InForce, newest <- Newest

KeepsPromise == Promise!Spec

\* The nonce set never stands between the site and a newer policy: it is the
\* redundant second line epoch.py:11-17 and spec/protocol.md 4.1 say it is.
NoncesOnlyRefuseTheOld ==
  pc = "idle" =>
    \A e \in Envelopes :
      Genuine(e) /\ e.nonce \in nonces => e.bundle.sequence <= sequence

\* Every policy of ours that the transport keeps offering is recorded or overtaken
\* in the end, through crashes and failed commits, unless it expires first or the
\* medium under the mark fails.
PolicyArrives ==
  \A e \in Envelopes :
    Genuine(e) ~> \/ mark = Unreadable
                  \/ mark >= e.bundle.sequence
                  \/ now >= e.bundle.not_after
=============================================================================
