------------------------- MODULE Distribution_proofs -------------------------
(* Proofs about the way from a policy file to the policy in force, for all    *)
(* files, messages and floors.                                                *)
EXTENDS Distribution, Messages_proofs

\* What is proved of the store, for the messages and floors of this pipeline.
StoreProofs == INSTANCE BundleStore_proofs

\* What sign-bundle ever writes for a job.
IsOutput(m, j) == \E t, u \in AuthorityTimes : m = Signed(j, t, u).message

OutputsAreSigned == \A j \in Jobs : out[j] # None => IsOutput(out[j], j)

\* The state, as far as the proofs need it.
Shape ==
  /\ now \in 0..MaxTime
  /\ out \in [Jobs -> Outputs \cup {None}]
  /\ OutputsAreSigned

LEMMA TimesAreIntegers ==
  /\ AuthorityTimes \subseteq Int
  /\ \A t \in 0..MaxTime : {t + Lead, t + Lead + 1} \subseteq AuthorityTimes
  BY LeadAssumption DEF AuthorityTimes

LEMMA OutputIsPublished ==
  ASSUME NEW j \in Jobs, NEW m, IsOutput(m, j)
  PROVE  /\ m \in Outputs
         /\ \E t, u \in AuthorityTimes : m = Published(j, LoadBundle(j.file, t), u, DefaultNonce)
  <1>1. PICK t \in AuthorityTimes, u \in AuthorityTimes : m = Signed(j, t, u).message
    BY DEF IsOutput
  <1>2. Signed(j, t, u) \in Signings
    <2> DEFINE s == <<j, t, u>>
    <2>1. s \in Jobs \X AuthorityTimes \X AuthorityTimes
      OBVIOUS
    <2>2. Signed(s[1], s[2], s[3]) \in Signings
      BY <2>1 DEF Signings
    <2> QED
      BY <2>2
  <1>3. Signed(j, t, u).message \in Outputs
    BY <1>2 DEF Outputs
  <1>4. Signed(j, t, u).message = Published(j, LoadBundle(j.file, t), u, DefaultNonce)
    BY DEF Signed
  <1> QED
    BY <1>1, <1>3, <1>4

LEMMA Shaping == Spec => []Shape
  <1> USE DEF Shape, OutputsAreSigned
  <1>1. Init => Shape
    BY LeadAssumption DEF Init, Store!Init
  <1>2. Shape /\ [Next]_vars => Shape'
    <2> SUFFICES ASSUME Shape, [Next]_vars
                 PROVE  Shape'
      OBVIOUS
    <2>1. ASSUME NEW j \in Jobs, SignBundle(j)
          PROVE  Shape'
      <3>0. Clock \in AuthorityTimes /\ Clock + 1 \in AuthorityTimes
        BY TimesAreIntegers DEF Clock
      <3>1. PICK s \in Signings : /\ s.job = j /\ s.loaded = Clock
                                 /\ s.signed \in {Clock, Clock + 1}
                                 /\ out' = [out EXCEPT ![j] = s.message]
        BY <2>1 DEF SignBundle
      <3>2. now' = now
        BY <2>1 DEF SignBundle
      <3>3. s = Signed(s.job, s.loaded, s.signed)
        <4>1. PICK x \in Jobs \X AuthorityTimes \X AuthorityTimes : s = Signed(x[1], x[2], x[3])
          BY DEF Signings
        <4> QED
          BY <4>1 DEF Signed
      <3>4. IsOutput(s.message, j)
        BY <3>0, <3>1, <3>3 DEF IsOutput
      <3>5. s.message \in Outputs
        BY <3>4, OutputIsPublished
      <3> QED
        BY <3>1, <3>2, <3>4, <3>5
    <2>2. ASSUME NEW j \in Jobs, Deliver(j)
          PROVE  Shape'
      BY <2>2 DEF Deliver, Store!Check
    <2>3. CASE DeliverMail
      BY <2>3 DEF DeliverMail, Store!Check
    <2>4. CASE Start
      BY <2>4 DEF Start, Store!Start
    <2>5. CASE Store!Tick /\ UNCHANGED out
      BY <2>5, LeadAssumption DEF Store!Tick
    <2>6. ASSUME NEW t \in 0..MaxTime, Store!SetBack(t), UNCHANGED out
          PROVE  Shape'
      BY <2>6 DEF Store!SetBack
    <2>7. CASE UNCHANGED <<now, out>>
      BY <2>7
    <2>8. CASE (Store!Commit \/ Store!CommitFails \/ Store!CommitLate \/ Store!Install
                \/ Store!Crash \/ Store!PowerCut \/ Store!Damage) /\ UNCHANGED out
      BY <2>8, <2>7 DEF Store!Commit, Store!CommitFails, Store!CommitLate, Store!Install,
                        Store!Crash, Store!PowerCut, Store!Damage
    <2> QED
      BY <2>1, <2>2, <2>3, <2>4, <2>5, <2>6, <2>7, <2>8 DEF Next, vars
  <1> QED
    BY <1>1, <1>2, PTL DEF Spec

-----------------------------------------------------------------------------
(* The pipeline is a bundle store *)

\* What the proofs about BundleStore say of every set of messages holds of the messages
\* of this pipeline: each of its steps is one of the store, or none.
THEOREM ImplementsStore == Spec => Store!Spec
  <1>1. Init => Store!Init
    BY DEF Init
  <1>2. Shape /\ [Next]_vars => [Store!Next]_(Store!vars)
    <2> SUFFICES ASSUME Shape, [Next]_vars
                 PROVE  [Store!Next]_(Store!vars)
      OBVIOUS
    <2> USE DEF Store!Next
    <2>1. ASSUME NEW j \in Jobs, SignBundle(j)
          PROVE  UNCHANGED Store!vars
      BY <2>1 DEF SignBundle, site, Store!vars, Store!disk, Store!process
    <2>2. ASSUME NEW j \in Jobs, Deliver(j)
          PROVE  Store!Next
      <3>1. PICK e \in Read(out[j]) : Store!Check(e)
        BY <2>2 DEF Deliver
      <3>2. out[j] \in Outputs
        BY <2>2, OutputIsPublished DEF Deliver, Shape, OutputsAreSigned
      <3>3. e \in Envelopes
        BY <3>1, <3>2 DEF Envelopes
      <3> QED
        BY <3>1, <3>3
    <2>3. CASE DeliverMail
      BY <2>3 DEF DeliverMail, Envelopes
    <2>4. CASE Start
      BY <2>4 DEF Start
    <2>5. CASE UNCHANGED vars
      BY <2>5 DEF vars, site, Store!vars, Store!disk, Store!process
    <2> QED
      BY <2>1, <2>2, <2>3, <2>4, <2>5 DEF Next
  <1> QED
    BY <1>1, <1>2, Shaping, PTL DEF Spec, Store!Spec

\* The two instances are of one module.
LEMMA OneStore == Store!Spec => StoreProofs!Spec
  <1> USE DEF Store!NoEpoch, StoreProofs!NoEpoch, Store!disk, StoreProofs!disk,
              Store!process, StoreProofs!process, Store!vars, StoreProofs!vars
  <1>1. Store!Init => StoreProofs!Init
    BY DEF Store!Init, StoreProofs!Init
  <1>2. [Store!Next]_(Store!vars) => [StoreProofs!Next]_(StoreProofs!vars)
    BY DEF Store!Next, StoreProofs!Next,
           Store!Tick, StoreProofs!Tick, Store!SetBack, StoreProofs!SetBack,
           Store!Start, StoreProofs!Start, Store!FloorIsOurs, StoreProofs!FloorIsOurs,
           Store!Check, StoreProofs!Check, Store!Admissible, StoreProofs!Admissible,
           Store!Genuine, StoreProofs!Genuine, Store!Commit, StoreProofs!Commit,
           Store!Record, StoreProofs!Record, Store!CommitFails, StoreProofs!CommitFails,
           Store!CommitLate, StoreProofs!CommitLate,
           Store!Install, StoreProofs!Install, Store!Crash, StoreProofs!Crash,
           Store!Stopped, StoreProofs!Stopped, Store!PowerCut, StoreProofs!PowerCut,
           Store!Damage, StoreProofs!Damage
  <1> QED
    BY <1>1, <1>2, PTL DEF Store!Spec, StoreProofs!Spec

\* The site reads a message in the form in which the store counts.
LEMMA EnvelopesAre ==
  ASSUME NEW e \in Envelopes
  PROVE  /\ e.bundle.sequence \in Nat /\ e.bundle.not_after \in Int /\ e.stamp \in Int
  <1>1. CASE e \in Arrivals
    BY <1>1, MailAssumption
  <1>2. CASE e \notin Arrivals
    <2>1. PICK m \in Outputs : e \in Read(m)
      BY <1>2 DEF Envelopes
    <2>2. PICK j \in Jobs, t \in AuthorityTimes, u \in AuthorityTimes :
            m = Published(j, LoadBundle(j.file, t), u, DefaultNonce)
      <3>1. PICK s \in Signings : m = s.message
        BY <2>1 DEF Outputs
      <3>2. PICK x \in Jobs \X AuthorityTimes \X AuthorityTimes : s = Signed(x[1], x[2], x[3])
        BY <3>1 DEF Signings
      <3> QED
        BY <3>1, <3>2 DEF Signed
    <2> DEFINE w == LoadBundle(j.file, t)
               d == DecodeEnvelope(m)
               f == EncodeBundle(w)
    <2>3. /\ d.payload = f /\ d.issued_at = Dt(Ts(u))
      BY <2>2 DEF Published, Sign, EncodeEnvelope, DecodeEnvelope
    <2>4. w.sequence = j.file.sequence /\ w.not_after = t + Dt(j.file.validity_s)
      BY DEF LoadBundle
    <2> HIDE DEF w, d
    <2>5. f[3] = w.sequence /\ f[5] = Ts(w.not_after)
      BY DEF EncodeBundle
    <2> HIDE DEF f
    <2>6. PICK b \in DecodeBundle(d.payload, SiteKinds) :
            e = [type |-> d.msg_type, issuer |-> d.issuer, stamp |-> d.issued_at,
                 signed |-> TRUE, nonce |-> d.nonce, bundle |-> b]
      BY <2>1 DEF Read, d
    <2>7. b = BundleOf(f, f[9])
      BY <2>3, <2>6 DEF DecodeBundle
    <2>8. b.sequence = f[3] /\ b.not_after = Dt(f[5])
      BY <2>7 DEF BundleOf
    <2>9. e.bundle = b /\ e.stamp = d.issued_at
      BY <2>6
    <2>10. j.file.sequence \in Nat /\ j.file.validity_s \in Int /\ t \in Int /\ u \in Int
      BY FilesAssumption, TimesAreIntegers
    <2>11. e.bundle.sequence = j.file.sequence
      BY <2>4, <2>5, <2>8, <2>9
    <2>12. e.bundle.not_after \in Int
      BY <2>4, <2>5, <2>8, <2>9, <2>10 DEF Dt, Ts
    <2>13. e.stamp \in Int
      BY <2>3, <2>9, <2>10 DEF Dt, Ts
    <2> QED
      BY <2>10, <2>11, <2>12, <2>13
  <1> QED
    BY <1>1, <1>2

LEMMA StoreAssumptionsHold ==
  /\ StoreProofs!ClockAssumption /\ StoreProofs!FileSystemAssumption
  /\ StoreProofs!EnvelopesAssumption /\ StoreProofs!NoneAssumption
  /\ StoreProofs!UnreadableAssumption
  BY ClockSkewAssumption, LeadAssumption, SiteAssumption, EnvelopesAre, NoneAssumption,
     UnreadableAssumption
     DEF StoreProofs!ClockAssumption, StoreProofs!FileSystemAssumption,
         StoreProofs!EnvelopesAssumption, StoreProofs!NoneAssumption,
         StoreProofs!UnreadableAssumption

\* For all files, messages and floors, the pipeline stays within the types of the store
\* and an output is one of sign-bundle.
THEOREM Typing == Spec => []TypeOK
  <1>1. StoreProofs!Spec => []StoreProofs!TypeOK
    BY StoreAssumptionsHold, StoreProofs!Typing, PTL
  <1>2. StoreProofs!TypeOK => Store!TypeOK
    BY DEF StoreProofs!TypeOK, Store!TypeOK, StoreProofs!Marks, Store!Marks,
           StoreProofs!Bundles, Store!Bundles, StoreProofs!NoEpoch, Store!NoEpoch
  <1>3. Shape /\ Store!TypeOK => TypeOK
    BY DEF Shape, TypeOK
  <1> QED
    BY <1>1, <1>2, <1>3, ImplementsStore, OneStore, Shaping, PTL

\* What is promised of the store is promised of the pipeline.  Whatever operators sign and
\* the transport brings, what is in force is the newest policy that ever was.
THEOREM NoRollbackHolds ==
  ASSUME RenameSurvivesPowerCut
  PROVE  Spec => []Store!NoRollback
  <1>1. StoreProofs!Spec => []StoreProofs!NoRollback
    BY StoreAssumptionsHold, StoreProofs!NoRollbackHolds, PTL
  <1>2. StoreProofs!NoRollback => Store!NoRollback
    BY DEF StoreProofs!NoRollback, Store!NoRollback
  <1> QED
    BY <1>1, <1>2, ImplementsStore, OneStore, PTL

\* No two policies with one sequence ever govern, though operators may sign two files with
\* one sequence.
THEOREM OnePolicyPerSequenceHolds ==
  ASSUME RenameSurvivesPowerCut
  PROVE  Spec => []Store!OnePolicyPerSequence
  <1>1. StoreProofs!Spec => []StoreProofs!OnePolicyPerSequence
    BY StoreAssumptionsHold, StoreProofs!OnePolicyPerSequenceHolds, PTL
  <1>2. StoreProofs!OnePolicyPerSequence => Store!OnePolicyPerSequence
    BY DEF StoreProofs!OnePolicyPerSequence, Store!OnePolicyPerSequence
  <1> QED
    BY <1>1, <1>2, ImplementsStore, OneStore, PTL

\* Seen from outside, the pipeline adopts ever newer policies and falls back to nothing but
\* the floor: the abstract PolicyInForce, two refinements up.
THEOREM KeepsPromiseHolds ==
  ASSUME RenameSurvivesPowerCut
  PROVE  Spec => Store!KeepsPromise
  <1> USE DEF StoreProofs!InForce, Store!InForce, StoreProofs!Newest, Store!Newest,
              StoreProofs!Governs, Store!Governs, StoreProofs!NoEpoch, Store!NoEpoch,
              StoreProofs!Promise!NoEpoch, Store!Promise!NoEpoch
  <1>1. StoreProofs!Spec => StoreProofs!KeepsPromise
    BY StoreAssumptionsHold, StoreProofs!KeepsPromiseHolds, PTL
  <1>2. StoreProofs!Promise!Init => Store!Promise!Init
    BY DEF StoreProofs!Promise!Init, Store!Promise!Init
  <1>3. [StoreProofs!Promise!Next]_(StoreProofs!Promise!vars)
          => [Store!Promise!Next]_(Store!Promise!vars)
    BY DEF StoreProofs!Promise!Next, Store!Promise!Next,
           StoreProofs!Promise!vars, Store!Promise!vars,
           StoreProofs!Promise!Adopt, Store!Promise!Adopt,
           StoreProofs!Promise!FallBack, Store!Promise!FallBack,
           StoreProofs!Promise!Return, Store!Promise!Return,
           StoreProofs!Bundles, Store!Bundles
  <1>4. StoreProofs!KeepsPromise => Store!KeepsPromise
    BY <1>2, <1>3, PTL
       DEF StoreProofs!KeepsPromise, Store!KeepsPromise,
           StoreProofs!Promise!Spec, Store!Promise!Spec
  <1> QED
    BY <1>1, <1>4, ImplementsStore, OneStore, PTL

-----------------------------------------------------------------------------
(* What governs is what operators wrote *)

\* A bundle that is decoded from what was encoded of a file says what the file says.
LEMMA FileRoundTrip ==
  ASSUME NEW j \in Jobs, NEW t \in AuthorityTimes,
         NEW b \in DecodeBundle(EncodeBundle(LoadBundle(j.file, t)), SiteKinds)
  PROVE  Faithful(b, j.file)
  <1> DEFINE w == LoadBundle(j.file, t)
             f == EncodeBundle(w)
  <1>1. /\ w.id = j.file.bundle_id /\ w.authority = j.file.authority_id
        /\ w.sequence = j.file.sequence
        /\ w.issued_at = t /\ w.not_after = t + Dt(j.file.validity_s)
        /\ w.links = {LoadLink(l) : l \in j.file.links}
        /\ w.traffic_classes = {LoadClass(c) : c \in j.file.traffic_classes}
        /\ w.rules = {DecodeRule(x) : x \in j.file.rules}
    BY DEF LoadBundle
  <1> HIDE DEF w
  <1>2. /\ f[1] = w.id /\ f[2] = w.authority /\ f[3] = w.sequence /\ f[4] = Ts(w.issued_at)
        /\ f[5] = Ts(w.not_after)
        /\ f[7] = {EncodeLink(l) : l \in w.links}
        /\ f[8] = {EncodeClass(c) : c \in w.traffic_classes}
        /\ f[9] = {EncodeRule(r) : r \in w.rules}
    BY DEF EncodeBundle
  <1> HIDE DEF f
  <1>3. b = BundleOf(f, f[9])
    BY DEF DecodeBundle, f, w
  <1>4. <<b.id, b.authority, b.sequence>>
          = <<j.file.bundle_id, j.file.authority_id, j.file.sequence>>
    BY <1>1, <1>2, <1>3 DEF BundleOf
  <1>5. b.not_after - b.issued_at = Dt(j.file.validity_s)
    BY <1>1, <1>2, <1>3, ValidityIsKept, TimesAreIntegers, FilesAssumption DEF BundleOf
  <1>6. Alike(j.file.links, b.links, LinkSays)
    <2>1. \A l : DecodeLink(EncodeLink(LoadLink(l))) = LoadLink(l)
      BY DEF LoadLink, EncodeLink, DecodeLink
    <2>2. b.links = {LoadLink(l) : l \in j.file.links}
      BY <1>1, <1>2, <1>3, <2>1 DEF BundleOf
    <2>3. \A l : LinkSays(l, LoadLink(l))
      BY DEF LinkSays, Says, LoadLink, Get
    <2> QED
      BY <2>2, <2>3 DEF Alike
  <1>7. Alike(j.file.traffic_classes, b.traffic_classes, ClassSays)
    <2>1. \A c : DecodeClass(EncodeClass(LoadClass(c))) = LoadClass(c)
      BY DEF LoadClass, EncodeClass, DecodeClass
    <2>2. b.traffic_classes = {LoadClass(c) : c \in j.file.traffic_classes}
      BY <1>1, <1>2, <1>3, <2>1 DEF BundleOf
    <2>3. \A c : ClassSays(c, LoadClass(c))
      BY DEF ClassSays, Says, LoadClass, Get
    <2> QED
      BY <2>2, <2>3 DEF Alike
  <1>8. {EncodeRule(r) : r \in b.rules} = j.file.rules
    <2>1. \A x \in j.file.rules : EncodeRule(DecodeRule(x)) = x
      BY WireRuleRoundTrip, FilesAssumption
    <2>2. f[9] = j.file.rules
      BY <1>1, <1>2, <2>1
    <2>3. b.rules = {DecodeRule(x) : x \in j.file.rules}
      BY <1>3, <2>2 DEF BundleOf
    <2> QED
      BY <2>1, <2>3
  <1> QED
    BY <1>4, <1>5, <1>6, <1>7, <1>8 DEF Faithful

OfOurs(e) == \E j \in Ours : Faithful(e.bundle, j.file)

\* What the site reads of an output that it finds genuine was signed for one of our jobs.
LEMMA OutputsAreOurs ==
  ASSUME NEW j \in Jobs, NEW m, IsOutput(m, j), NEW e \in Read(m), e.issuer = Issuer
  PROVE  OfOurs(e)
  <1>1. PICK t \in AuthorityTimes, u \in AuthorityTimes :
          m = Published(j, LoadBundle(j.file, t), u, DefaultNonce)
    BY OutputIsPublished
  <1> DEFINE b == LoadBundle(j.file, t)
             d == DecodeEnvelope(m)
             s == Sign("POLICY_BUNDLE", j.issuer, u, DefaultNonce, EncodeBundle(b), j.key)
  <1>2. /\ d.issuer = j.issuer /\ d.payload = EncodeBundle(b)
    BY <1>1 DEF Published, Sign, EncodeEnvelope, DecodeEnvelope
  <1>3. d = DecodeEnvelope(EncodeEnvelope(s))
    BY <1>1 DEF Published
  <1>4. /\ Verifies(d, TrustedKey)
        /\ e.issuer = d.issuer
        /\ e.bundle \in DecodeBundle(d.payload, SiteKinds)
    BY DEF Read
  <1>5. u \in Int
    BY TimesAreIntegers
  <1> HIDE DEF b, d, s
  <1>6. Verifies(d, TrustedKey) <=> TrustedKey = j.key
    <2>1. LET x == DecodeEnvelope(EncodeEnvelope(s))
          IN  Verifies(x, TrustedKey) <=> TrustedKey = j.key
      BY <1>5, SignedVerifies DEF s
    <2> QED
      BY <1>3, <2>1
  <1>7. j \in Ours
    BY <1>2, <1>4, <1>6 DEF Ours
  <1>8. Faithful(e.bundle, j.file)
    BY <1>2, <1>4, FileRoundTrip DEF b
  <1> QED
    BY <1>7, <1>8 DEF OfOurs

\* The same of the other messages: the signature vouches for every field.
LEMMA ArrivalsAreOurs ==
  ASSUME NEW e \in Arrivals, e.issuer = Issuer
  PROVE  OfOurs(e)
  <1>1. PICK m \in Mail : e \in Read(m)
    BY DEF Arrivals
  <1> DEFINE d == DecodeEnvelope(m)
  <1>2. /\ d.msg_type = "POLICY_BUNDLE" /\ Verifies(d, TrustedKey)
        /\ e.issuer = d.issuer
        /\ e.bundle \in DecodeBundle(d.payload, SiteKinds)
    BY <1>1 DEF Read
  <1> HIDE DEF d
  <1>3. d.signature = <<TrustedKey, SigningInput(d)>> /\ d.signature[1] = TrustedKey
    BY <1>2 DEF Verifies
  <1>4. PICK x \in SignedBefore : d.signature = x.signature
    BY <1>3, SignatureAssumption DEF d
  <1>5. x.signature = <<TrustedKey, SigningInput(x)>>
    BY SignatureAssumption DEF Verifies
  <1>6. d.msg_type = x.msg_type /\ d.issuer = x.issuer /\ d.payload = x.payload
    <2>1. SigningInput(d) = SigningInput(x)
      BY <1>3, <1>4, <1>5
    <2> QED
      BY <2>1 DEF SigningInput
  <1>7. PICK j \in Ours, t \in AuthorityTimes : d.payload = EncodeBundle(LoadBundle(j.file, t))
    BY <1>2, <1>6, SignatureAssumption
  <1>8. Faithful(e.bundle, j.file)
    BY <1>2, <1>7, FileRoundTrip DEF Ours
  <1> QED
    BY <1>8 DEF OfOurs

\* The inductive invariant: what accept() is at work on is ours, too.
Inv == (pc \in {"commit", "install"} => OfOurs(pending)) /\ GovernedAsWritten

\* For all files, keys, versions and messages, forged signatures apart, every policy that
\* governs says what operators of the trusted authority wrote in one file.
THEOREM GovernedAsWrittenHolds == Spec => []GovernedAsWritten
  <1> USE DEF Inv, GovernedAsWritten
  <1>1. Init => Inv
    BY DEF Init, Store!Init
  <1>2. Shape /\ Inv /\ [Next]_vars => Inv'
    <2> SUFFICES ASSUME Shape, Inv, [Next]_vars
                 PROVE  Inv'
      OBVIOUS
    <2>1. CASE UNCHANGED <<pc, pending, governed>>
      BY <2>1 DEF OfOurs
    <2>2. ASSUME NEW e, Store!Check(e), OfOurs(e)
          PROVE  Inv'
      BY <2>2 DEF Store!Check, OfOurs
    <2>3. ASSUME NEW j \in Jobs, SignBundle(j)
          PROVE  Inv'
      BY <2>1, <2>3 DEF SignBundle, site
    <2>4. ASSUME NEW j \in Jobs, Deliver(j)
          PROVE  Inv'
      <3>1. PICK e \in Read(out[j]) : Store!Check(e)
        BY <2>4 DEF Deliver
      <3>2. e.issuer = Issuer
        BY <3>1 DEF Store!Check, Store!Admissible, Store!Genuine
      <3>3. IsOutput(out[j], j)
        BY <2>4 DEF Deliver, Shape, OutputsAreSigned
      <3> QED
        BY <2>2, <3>1, <3>2, <3>3, OutputsAreOurs
    <2>5. CASE DeliverMail
      <3>1. PICK e \in Arrivals : Store!Check(e)
        BY <2>5 DEF DeliverMail
      <3>2. e.issuer = Issuer
        BY <3>1 DEF Store!Check, Store!Admissible, Store!Genuine
      <3> QED
        BY <2>2, <3>1, <3>2, ArrivalsAreOurs
    <2>6. CASE Start
      BY <2>6 DEF Start, Store!Start
    <2>7. CASE Store!Tick
      BY <2>1, <2>7 DEF Store!Tick, Store!process
    <2>8. ASSUME NEW t \in 0..MaxTime, Store!SetBack(t)
          PROVE  Inv'
      BY <2>1, <2>8 DEF Store!SetBack, Store!process
    <2>9. CASE Store!Commit
      BY <2>9 DEF Store!Commit, OfOurs
    <2>10. CASE Store!CommitFails \/ Store!CommitLate
      BY <2>10 DEF Store!CommitFails, Store!CommitLate
    <2>11. CASE Store!Install
      BY <2>11 DEF Store!Install, OfOurs
    <2>12. CASE Store!Crash \/ Store!PowerCut
      BY <2>12 DEF Store!Crash, Store!PowerCut, Store!Stopped
    <2>13. CASE Store!Damage
      BY <2>1, <2>13 DEF Store!Damage, Store!process
    <2>14. CASE UNCHANGED vars
      BY <2>1, <2>14 DEF vars, site
    <2> QED
      BY <2>3, <2>4, <2>5, <2>6, <2>7, <2>8, <2>9, <2>10, <2>11, <2>12, <2>13, <2>14
         DEF Next
  <1> QED
    BY <1>1, <1>2, Shaping, PTL DEF Spec

-----------------------------------------------------------------------------
(* The floor that starts is the one for this site *)

\* What is signed for links and classes are links and classes.
FloorsAreTyped ==
  /\ \A l \in LinksHere : IsLink(l)
  /\ \A f \in Floors : /\ \A l \in f.links : IsLink(l)
                       /\ \A c \in f.classes : IsClass(c)
                       /\ f.at \in Int

LEMMA InventoryTellsLinksApart ==
  ASSUME NEW S, NEW T, \A l \in S \cup T : IsLink(l), LinkInventory(S) = LinkInventory(T)
  PROVE  S = T
  <1>1. \A l, m : IsLink(l) /\ IsLink(m) /\ EncodeLink(l) = EncodeLink(m) => l = m
    BY LinkRoundTrip
  <1>2. \A U : LinkInventory(U) = {EncodeLink(l) : l \in U}
    BY DEF LinkInventory, EncodeLink
  <1>3. {EncodeLink(l) : l \in S} = {EncodeLink(l) : l \in T}
    BY <1>2
  <1>4. ASSUME NEW l \in S
        PROVE  l \in T
    <2>1. EncodeLink(l) \in {EncodeLink(m) : m \in T}
      BY <1>3
    <2>2. PICK m \in T : EncodeLink(l) = EncodeLink(m)
      BY <2>1
    <2> QED
      BY <1>1, <2>2
  <1>5. ASSUME NEW m \in T
        PROVE  m \in S
    <2>1. EncodeLink(m) \in {EncodeLink(l) : l \in S}
      BY <1>3
    <2>2. PICK l \in S : EncodeLink(m) = EncodeLink(l)
      BY <2>1
    <2> QED
      BY <1>1, <2>2
  <1> QED
    BY <1>4, <1>5

\* No rule of a floor is a directive: all of it arrives as it is.
LEMMA FloorsArriveWhole ==
  ASSUME NEW f \in Floors, FloorsAreTyped
  PROVE  LET w == FloorPolicy(f.links, f.classes, f.at, f.issuer)
         IN  IsPolicy(w) /\ \A r \in w.rules : Received(r) = r
  <1> DEFINE w == FloorPolicy(f.links, f.classes, f.at, f.issuer)
             classes == IF f.classes = {} THEN {DefaultClass} ELSE f.classes
             floorRules == {[kind |-> "link_down"], [kind |-> "link_type", type |-> "fso"]}
  <1>1. /\ w.links = f.links /\ w.traffic_classes = classes
        /\ w.rules = floorRules \cup FloorClassRules(classes)
    BY DEF FloorPolicy, FloorBundle
  <1>2. \A c \in classes : IsClass(c)
    BY DEF FloorsAreTyped, IsClass, DefaultClass
  <1>3. \A r \in floorRules : IsRule(r) /\ r.kind # "directive"
    BY DEF IsRule
  <1>4. ASSUME NEW r \in FloorClassRules(classes)
        PROVE  IsRule(r) /\ r.kind # "directive"
    <2>1. \E k \in ClassKinds, c \in classes : r = [kind |-> k, class |-> c.id]
      BY <1>4 DEF FloorClassRules, ClassKinds
    <2>2. PICK k \in ClassKinds, c \in classes : r = [kind |-> k, class |-> c.id]
      BY <2>1
    <2>3. r.class = c.id /\ r.kind = k
      BY <2>2
    <2>4. k # "directive"
      BY DEF ClassKinds
    <2> QED
      BY <2>2, <2>3, <2>4 DEF IsRule
  <1>5. \A r \in w.rules : IsRule(r) /\ Received(r) = r
    BY <1>1, <1>3, <1>4 DEF Received
  <1> QED
    BY <1>1, <1>2, <1>5 DEF IsPolicy, FloorsAreTyped

\* What a start finds in order is a floor that was signed for it.
LEMMA FloorsInOrderFit ==
  ASSUME FloorsAreTyped, NEW g \in FloorConfigs, Store!FloorIsOurs(g), PresentedLinks # None
  PROVE  \E f \in Floors :
           LET computed == FloorBundle(LinksHere, f.classes)
           IN  /\ f.links = LinksHere /\ f.site = Site /\ f.key = TrustedKey
               /\ g.policy.links = computed.links
               /\ g.policy.traffic_classes = computed.traffic_classes
               /\ g.policy.rules = computed.rules
  <1>1. PICK f \in Floors : g \in ReadFloor(SignedFloor(f))
    BY DEF FloorConfigs
  <1> DEFINE w == FloorPolicy(f.links, f.classes, f.at, f.issuer)
             payload == EncodeFloorConfig(f.site, LinkInventory(f.links), w)
             s == Sign("FLOOR_CONFIG", f.issuer, f.at, DefaultNonce, payload, f.key)
             d == DecodeEnvelope(EncodeEnvelope(s))
  <1>2. d.payload = <<f.site, LinkInventory(f.links), EncodeBundle(w)>>
    BY DEF Sign, EncodeEnvelope, DecodeEnvelope, EncodeFloorConfig
  <1>3. g \in ReadFloor(EncodeEnvelope(s))
    BY <1>1 DEF SignedFloor
  <1> HIDE DEF w, payload, s
  <1>4. PICK p \in DecodeBundle(d.payload[3], SiteKinds) :
          g = [type |-> d.msg_type, issuer |-> d.issuer, signed |-> Verifies(d, TrustedKey),
               site |-> d.payload[1], inventory |-> d.payload[2],
               links |-> LinkInventory(p.links), policy |-> p]
    BY <1>3 DEF ReadFloor
  <1> HIDE DEF d
  <1>5. /\ g.signed = Verifies(d, TrustedKey) /\ g.site = f.site
        /\ g.inventory = LinkInventory(f.links) /\ g.policy = p
        /\ p \in DecodeBundle(EncodeBundle(w), SiteKinds)
    BY <1>2, <1>4
  <1>6. /\ g.signed /\ f.site = Site /\ LinkInventory(f.links) = LinkInventory(LinksHere)
    BY <1>5 DEF Store!FloorIsOurs, PresentedLinks
  <1>7. f.key = TrustedKey
    <2>1. LET x == DecodeEnvelope(EncodeEnvelope(s))
          IN  Verifies(x, TrustedKey) <=> TrustedKey = f.key
      BY SignedVerifies DEF FloorsAreTyped, s
    <2> QED
      BY <1>5, <1>6, <2>1 DEF d
  <1>8. f.links = LinksHere
    BY <1>6, InventoryTellsLinksApart DEF FloorsAreTyped
  <1>9. IsPolicy(w) /\ \A r \in w.rules : Received(r) = r
    BY FloorsArriveWhole DEF w
  <1>10. p.links = w.links /\ p.traffic_classes = w.traffic_classes /\ p.rules = w.rules
    <2>1. {Received(r) : r \in w.rules} = w.rules
      BY <1>9
    <2>2. p = [ id |-> w.id, authority |-> w.authority, sequence |-> w.sequence,
                issued_at |-> Dt(Ts(w.issued_at)), not_after |-> Dt(Ts(w.not_after)),
                decision_ttl |-> w.decision_ttl, links |-> w.links,
                traffic_classes |-> w.traffic_classes,
                rules |-> {Received(r) : r \in w.rules} ]
      BY <1>5, <1>9, WholeOrNotAtAll
    <2> QED
      BY <2>1, <2>2
  <1>11. LET computed == FloorBundle(LinksHere, f.classes)
         IN  /\ w.links = computed.links
             /\ w.traffic_classes = computed.traffic_classes
             /\ w.rules = computed.rules
    BY <1>8 DEF w, FloorPolicy
  <1> QED
    BY <1>5, <1>6, <1>7, <1>8, <1>10, <1>11

\* For all floors that were ever signed for any site, links and classes, a site runs on
\* none but the one that was computed for it and the links it has, every rule of it there.
THEOREM FloorFitsTheSiteHolds ==
  ASSUME FloorsAreTyped, PresentedLinks # None
  PROVE  Spec => []FloorFitsTheSite
  <1> USE DEF FloorFitsTheSite
  <1>1. Init => FloorFitsTheSite
    BY DEF Init, Store!Init
  <1>2. FloorFitsTheSite /\ [Next]_vars => FloorFitsTheSite'
    <2> SUFFICES ASSUME FloorFitsTheSite, [Next]_vars
                 PROVE  FloorFitsTheSite'
      OBVIOUS
    <2>1. CASE UNCHANGED floor
      BY <2>1
    <2>2. CASE Start
      <3>1. PICK g \in FloorConfigs : Store!FloorIsOurs(g) /\ floor' = g
        BY <2>2 DEF Start, Store!Start
      <3> QED
        BY <3>1, FloorsInOrderFit
    <2>3. CASE Store!Crash \/ Store!PowerCut
      BY <2>3 DEF Store!Crash, Store!PowerCut, Store!Stopped
    <2>4. CASE (\E j \in Jobs : SignBundle(j) \/ Deliver(j)) \/ DeliverMail
      BY <2>1, <2>4 DEF SignBundle, Deliver, DeliverMail, Store!Check, site
    <2>5. CASE Store!Tick \/ (\E t \in 0..MaxTime : Store!SetBack(t)) \/ Store!Damage
      BY <2>1, <2>5 DEF Store!Tick, Store!SetBack, Store!Damage, Store!process
    <2>6. CASE Store!Commit \/ Store!CommitFails \/ Store!CommitLate \/ Store!Install
      BY <2>1, <2>6 DEF Store!Commit, Store!CommitFails, Store!CommitLate, Store!Install
    <2>7. CASE UNCHANGED vars
      BY <2>1, <2>7 DEF vars, site
    <2> QED
      BY <2>2, <2>3, <2>4, <2>5, <2>6, <2>7 DEF Next
  <1> QED
    BY <1>1, <1>2, PTL DEF Spec
=============================================================================
