---------------------------- MODULE Distribution ----------------------------
(***************************************************************************)
(* From a policy file to the policy in force: authority/signer.py and      *)
(* cli.py sign what protocol/ encodes, a transport carries it, and the     *)
(* bundle store of a site (BundleStore) reads, checks and adopts it.       *)
(*                                                                         *)
(* Operators sign a file again and again, each time over the output of the *)
(* time before.  The transport offers the outputs, and Mail besides: early *)
(* copies, what others have signed, messages with a field that is not      *)
(* theirs.                                                                 *)
(*                                                                         *)
(*   file   a policy file: JSON, in which optional fields may be missing   *)
(*   job    [file, key, issuer]: the arguments of sign-bundle              *)
(***************************************************************************)
EXTENDS Messages

CONSTANTS
  Jobs,             \* the files that are signed, each with a key and an issuer
  Mail,             \* the messages that are on their way already
  SignedBefore,     \* the envelopes that were ever signed with TrustedKey besides
  Floors,           \* the floors that are signed: [site, links, classes, key, issuer, at]
  LinksHere,        \* the links the site has
  Lead,             \* how far the clock of the authority is ahead of the site's
  AuthorityKinds,   \* kinds of rules the authority's version can decode
  SiteKinds,        \* kinds of rules the site's version can decode
  TrustedKey,
  Issuer, Site, MaxTime, MaxFaults, RenameSurvivesPowerCut,
  Unreadable        \* as in BundleStore

\* The clocks are so close that a message is not from the future for the site when it was
\* signed half a second after the file was loaded.
ASSUME LeadAssumption == Lead \in Nat /\ Lead < MaxClockSkew /\ MaxTime \in Nat

VARIABLES
  now, mark, synced, pc, pending, floor, bundle, sequence, nonces, governed, faults,
            \* as in BundleStore
  out       \* of each job: its output file, or None

site == <<mark, synced, pc, pending, floor, bundle, sequence, nonces, governed>>
vars == <<now, site, faults, out>>

Ours == {j \in Jobs : j.key = TrustedKey /\ j.issuer = Issuer}

\* No directive of a file lacks a field, sequences are numbers from 0, and files are valid
\* for whole seconds.
ASSUME FilesAssumption ==
  \A j \in Jobs : /\ j.file.sequence \in Nat /\ j.file.validity_s \in Int
                  /\ \A x \in j.file.rules : IsWireRule(x)

-----------------------------------------------------------------------------
(* The authority *)

Get(rec, field, default) == IF field \in DOMAIN rec THEN rec[field] ELSE default

LoadLink(l) ==
  [ id |-> l.id, type |-> l.type, metered |-> Get(l, "metered", FALSE),
    encrypted |-> Get(l, "encrypted_below", FALSE),
    jurisdictions |-> Get(l, "jurisdictions", {}) ]

LoadClass(c) ==
  [ id |-> c.id, max_rtt |-> Get(c, "max_rtt_ms", None),
    allow_metered |-> Get(c, "allow_metered", TRUE),
    jurisdictions |-> Get(c, "allowed_jurisdictions", None),
    encryption |-> Get(c, "requires_encryption", FALSE) ]

\* load_bundle_json raises on a rule of unknown kind.
Loadable(f) == \A x \in f.rules : x[1] \in AuthorityKinds

LoadBundle(f, t) ==
  [ id |-> f.bundle_id, authority |-> f.authority_id, sequence |-> f.sequence,
    issued_at |-> t, not_after |-> t + Dt(f.validity_s), decision_ttl |-> f.decision_ttl_s,
    links |-> {LoadLink(l) : l \in f.links},
    traffic_classes |-> {LoadClass(c) : c \in f.traffic_classes},
    rules |-> {DecodeRule(x) : x \in f.rules} ]

\* Sixteen zero bytes: the nonce of every message whose signer does not pass one.
DefaultNonce == 0

\* publish()
Published(j, b, t, nonce) ==
  EncodeEnvelope(Sign("POLICY_BUNDLE", j.issuer, t, nonce, EncodeBundle(b), j.key))

\* floor_bundle() as the authority calls it, ten years being as good as for ever here.
FloorPolicy(links, classes, t, issuer) ==
  LET f == FloorBundle(links, classes)
  IN  [ id |-> "floor", authority |-> issuer, sequence |-> 0, issued_at |-> t,
        not_after |-> t + Dt(3650), decision_ttl |-> f.decision_ttl, links |-> f.links,
        traffic_classes |-> f.traffic_classes, rules |-> f.rules ]

\* sign_floor(), for the inventory of links it is told to sign for.
SignedFloor(f) ==
  EncodeEnvelope(Sign("FLOOR_CONFIG", f.issuer, f.at, DefaultNonce,
    EncodeFloorConfig(f.site, LinkInventory(f.links),
                      FloorPolicy(f.links, f.classes, f.at, f.issuer)), f.key))

AuthorityTimes == Lead..(MaxTime + Lead + 1)

\* What a run of sign-bundle writes for a job, having loaded the file at one time and,
\* after another look at the clock, signed at another.  sign-bundle has no nonce to pass.
Signed(j, loaded, signed) ==
  [ job |-> j, loaded |-> loaded, signed |-> signed,
    message |-> Published(j, LoadBundle(j.file, loaded), signed, DefaultNonce) ]

Signings == {Signed(s[1], s[2], s[3]) : s \in Jobs \X AuthorityTimes \X AuthorityTimes}
Outputs == {s.message : s \in Signings}

-----------------------------------------------------------------------------
(* What the site reads of a message *)

\* What accept() finds in m, in the terms of BundleStore; nothing where the signature
\* does not verify or the bundle does not decode, and accept() raises.
Read(m) ==
  LET e == DecodeEnvelope(m)
  IN  IF e.msg_type = "POLICY_BUNDLE" /\ Verifies(e, TrustedKey)
      THEN {[type |-> e.msg_type, issuer |-> e.issuer, stamp |-> e.issued_at,
             signed |-> TRUE, nonce |-> e.nonce, bundle |-> b]
              : b \in DecodeBundle(e.payload, SiteKinds)}
      ELSE {}

\* Signatures cannot be forged: what comes with one under our key took it from an envelope
\* that we signed, and the policies we signed, if the site can read them, come from files.
ASSUME SignatureAssumption ==
  /\ \A m \in Mail : DecodeEnvelope(m).signature[1] = TrustedKey =>
       \E e \in SignedBefore : DecodeEnvelope(m).signature = e.signature
  /\ \A e \in SignedBefore :
       /\ Verifies(e, TrustedKey)
       /\ \/ e.msg_type # "POLICY_BUNDLE" \/ e.issuer # Issuer
          \/ DecodeBundle(e.payload, SiteKinds) = {}
          \/ \E j \in Ours, t \in AuthorityTimes : e.payload = EncodeBundle(LoadBundle(j.file, t))

\* The same for _install_floor(), which is given floors and refuses any other type before
\* it decodes.
ReadFloor(m) ==
  LET e == DecodeEnvelope(m)
  IN  {[type |-> e.msg_type, issuer |-> e.issuer, signed |-> Verifies(e, TrustedKey),
        site |-> e.payload[1], inventory |-> e.payload[2],
        links |-> LinkInventory(f.links), policy |-> f]
         : f \in DecodeBundle(e.payload[3], SiteKinds)}

FloorConfigs == UNION {ReadFloor(SignedFloor(f)) : f \in Floors}

\* floor_links: the site presents what it has.
PresentedLinks == LinkInventory(LinksHere)

Arrivals == UNION {Read(m) : m \in Mail}
Envelopes == Arrivals \cup UNION {Read(m) : m \in Outputs}

\* What BundleStore assumes.  The wire has no other times and sequences than numbers.
ASSUME MailAssumption ==
  \A e \in Arrivals :
    e.bundle.sequence \in Nat /\ e.bundle.not_after \in Int /\ e.stamp \in Int
ASSUME SiteAssumption == MaxFaults \in Nat /\ RenameSurvivesPowerCut \in BOOLEAN
ASSUME NoneAssumption == None \notin Envelopes \cup {e.bundle : e \in Envelopes}
ASSUME UnreadableAssumption == Unreadable \notin Int

Store == INSTANCE BundleStore

-----------------------------------------------------------------------------

Init == Store!Init /\ out = [j \in Jobs |-> None]

\* The clock of the authority: what sets the site's clock back sets it back as well.
Clock == now + Lead

\* sign-bundle overwrites its output.
SignBundle(j) ==
  /\ UNCHANGED <<now, site, faults>>
  /\ Loadable(j.file)
  /\ \E s \in Signings :
       /\ s.job = j /\ s.loaded = Clock /\ s.signed \in {Clock, Clock + 1}
       /\ out' = [out EXCEPT ![j] = s.message]

\* accept() is called with the output of a job.
Deliver(j) ==
  /\ UNCHANGED out
  /\ pc = "idle" /\ out[j] # None
  /\ \E e \in Read(out[j]) : Store!Check(e)

\* accept() is called with one of the other messages.
DeliverMail ==
  /\ UNCHANGED out
  /\ \E e \in Arrivals : Store!Check(e)

\* The agent is started.
Start ==
  /\ UNCHANGED out
  /\ pc = "down"
  /\ \E f \in FloorConfigs : Store!Start(f)

Next ==
  \/ \E j \in Jobs : SignBundle(j) \/ Deliver(j)
  \/ DeliverMail
  \/ Start
  \/ /\ \/ Store!Tick
        \/ \E t \in 0..MaxTime : Store!SetBack(t)
        \/ Store!Commit
        \/ Store!CommitFails
        \/ Store!CommitLate
        \/ Store!Install
        \/ Store!Crash
        \/ Store!PowerCut
        \/ Store!Damage
     /\ UNCHANGED out

Spec == Init /\ [][Next]_vars

\* Operators get to every file again and again, the transport offers the output of
\* every job, time passes, the supervisor starts the agent and a call that was entered
\* is carried on.
Fairness ==
  /\ \A j \in Jobs : WF_vars(SignBundle(j)) /\ WF_vars(Deliver(j))
  /\ WF_vars(Store!Tick /\ UNCHANGED out)
  /\ WF_vars(Start)
  /\ WF_vars(Store!Commit /\ UNCHANGED out)
  /\ WF_vars(Store!Install /\ UNCHANGED out)

FairSpec == Spec /\ Fairness

TypeOK ==
  /\ Store!TypeOK
  /\ out \in [Jobs -> Outputs \cup {None}]

-----------------------------------------------------------------------------
(* Properties *)

\* v is what rec says of field, if rec says something of it.
Says(rec, field, v) == field \in DOMAIN rec => rec[field] = v

LinkSays(l, d) ==
  /\ <<d.id, d.type>> = <<l.id, l.type>>
  /\ Says(l, "metered", d.metered)
  /\ Says(l, "encrypted_below", d.encrypted)
  /\ Says(l, "jurisdictions", d.jurisdictions)

ClassSays(c, d) ==
  /\ d.id = c.id
  /\ Says(c, "max_rtt_ms", d.max_rtt)
  /\ Says(c, "allow_metered", d.allow_metered)
  /\ Says(c, "allowed_jurisdictions", d.jurisdictions)
  /\ Says(c, "requires_encryption", d.encryption)

\* S says of T what P says of its members, and nothing is said of anything else.
Alike(S, T, P(_, _)) == /\ \A x \in S : \E y \in T : P(x, y)
                        /\ \A y \in T : \E x \in S : P(x, y)

\* b is what the file f says.
Faithful(b, f) ==
  /\ <<b.id, b.authority, b.sequence>> = <<f.bundle_id, f.authority_id, f.sequence>>
  /\ b.not_after - b.issued_at = Dt(f.validity_s)
  /\ Alike(f.links, b.links, LinkSays)
  /\ Alike(f.traffic_classes, b.traffic_classes, ClassSays)
  /\ {EncodeRule(r) : r \in b.rules} = f.rules

\* Every policy that ever governs says, link by link, class by class and rule by rule,
\* what the trusted authority's operators wrote in one file, whatever became of messages
\* on the way and whichever rules the site's version knows (messages.py:3-6, envelope.py
\* :3-8).
GovernedAsWritten == \A b \in governed : \E j \in Ours : Faithful(b, j.file)

\* A floor permits what the authority computed for this site and the links the site
\* has: no constraint of a class is lost between floor_bundle() and the cycle, and no
\* floor for other links or another site starts (bundle.py:24-30, messages.py:308-313).
FloorFitsTheSite ==
  floor # None =>
    \E f \in Floors :
      LET computed == FloorBundle(LinksHere, f.classes)
      IN  /\ f.links = LinksHere /\ f.site = Site /\ f.key = TrustedKey
          /\ floor.policy.links = computed.links
          /\ floor.policy.traffic_classes = computed.traffic_classes
          /\ floor.policy.rules = computed.rules

\* No message of ours is refused for its nonce alone: the sequence would refuse it too
\* (epoch.py:15-17).
NoncesOnlyRefuseTheOld ==
  pc = "idle" =>
    \A j \in Jobs : out[j] # None =>
      \A e \in Read(out[j]) :
        Store!Genuine(e) /\ e.nonce \in nonces => e.bundle.sequence <= sequence

\* A file that is signed again and again and that the site's version understands gets
\* there, or is overtaken, in the end: through crashes, failed commits, early copies that
\* arrive late and a clock that is set back, unless the mark becomes unreadable.  One thing
\* else can keep it out, and only while no restart clears it from memory: the nonce that
\* all that sign-bundle writes have in common (signer.py:26).  Stamps, sequences and what
\* was published under other nonces never lock a site out of what is signed for it.
FileArrives ==
  \A j \in Ours :
    (\A x \in j.file.rules : x[1] \in SiteKinds) =>
      \/ <>(mark = Unreadable \/ mark >= j.file.sequence)
      \/ <>[](DefaultNonce \in nonces)
=============================================================================
