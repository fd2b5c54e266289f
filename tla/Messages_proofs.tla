--------------------------- MODULE Messages_proofs ---------------------------
(* Proofs about the codecs, for every bundle, key and version.               *)
EXTENDS Messages, TLAPS

\* A rule that is decoded and encoded again is the rule that was there.
LEMMA WireRuleRoundTrip ==
  ASSUME NEW f, IsWireRule(f)
  PROVE  EncodeRule(DecodeRule(f)) = f
  <1> USE DEF EncodeRule, DecodeRule, ClassKinds
  <1>1. CASE f = <<"down">>
    BY <1>1
  <1>2. ASSUME NEW k \in ClassKinds, f = <<k, f[2]>>
        PROVE  EncodeRule(DecodeRule(f)) = f
    <2>1. f[1] = k
      BY <1>2
    <2>2. DecodeRule(f) = [kind |-> k, class |-> f[2]]
      BY <2>1
    <2> QED
      BY <1>2, <2>2
  <1>3. CASE f = <<"quota", f[2], f[3]>>
    BY <1>3
  <1>4. CASE f = <<"freshness", f[2], f[3], f[4]>>
    BY <1>4
  <1>5. CASE f = <<"link_type", f[2]>>
    BY <1>5
  <1>6. CASE f = <<"directive", f[2], f[3]>> /\ f[3] \in Int
    BY <1>6 DEF Ts, Dt
  <1> QED
    BY <1>1, <1>2, <1>3, <1>4, <1>5, <1>6 DEF IsWireRule

-----------------------------------------------------------------------------
(* Times *)

\* The wire has whole seconds: a time arrives less than a second early, never late.
LEMMA Truncation ==
  ASSUME NEW t \in Int
  PROVE  /\ Ts(t) \in Int /\ Ts(Dt(t)) = t
         /\ Dt(Ts(t)) \in {t - 1, t}
         /\ Ts(Dt(Ts(t))) = Ts(t)
  BY DEF Ts, Dt

\* A validity of whole seconds keeps its length on the wire.
LEMMA ValidityIsKept ==
  ASSUME NEW t \in Int, NEW n \in Int
  PROVE  Dt(Ts(t + Dt(n))) - Dt(Ts(t)) = Dt(n)
  <1>1. Ts(t + 2 * n) = Ts(t) + n
    BY DEF Ts
  <1> QED
    BY <1>1, Truncation DEF Dt

-----------------------------------------------------------------------------
(* Rules, links, classes and bundles *)

\* What arrives of a rule in memory: a directive that ends less than a second early.
Received(r) ==
  IF r.kind = "directive" THEN [r EXCEPT !.not_after = Dt(Ts(r.not_after))] ELSE r

IsRule(r) ==
  \/ r = [kind |-> "link_down"]
  \/ \E k \in ClassKinds : r = [kind |-> k, class |-> r.class]
  \/ r = [kind |-> "quota", type |-> r.type, threshold |-> r.threshold]
  \/ r = [kind |-> "freshness", type |-> r.type, quantity |-> r.quantity,
           max_age |-> r.max_age]
  \/ r = [kind |-> "link_type", type |-> r.type]
  \/ r = [kind |-> "directive", link |-> r.link, not_after |-> r.not_after]

LEMMA RuleRoundTrip ==
  ASSUME NEW r, IsRule(r)
  PROVE  DecodeRule(EncodeRule(r)) = Received(r)
  <1> USE DEF EncodeRule, DecodeRule, ClassKinds, Received
  <1>1. CASE r = [kind |-> "link_down"]
    BY <1>1
  <1>2. ASSUME NEW k \in ClassKinds, r = [kind |-> k, class |-> r.class]
        PROVE  DecodeRule(EncodeRule(r)) = Received(r)
    <2>1. r.kind = k
      BY <1>2
    <2>2. EncodeRule(r) = <<k, r.class>>
      BY <2>1
    <2>3. Received(r) = r
      BY <2>1
    <2> QED
      BY <1>2, <2>2, <2>3
  <1>3. CASE r = [kind |-> "quota", type |-> r.type, threshold |-> r.threshold]
    BY <1>3
  <1>4. CASE r = [kind |-> "freshness", type |-> r.type, quantity |-> r.quantity,
                  max_age |-> r.max_age]
    BY <1>4
  <1>5. CASE r = [kind |-> "link_type", type |-> r.type]
    BY <1>5
  <1>6. CASE r = [kind |-> "directive", link |-> r.link, not_after |-> r.not_after]
    <2>1. r.kind = "directive"
      BY <1>6
    <2>2. EncodeRule(r) = <<"directive", r.link, Ts(r.not_after)>>
      BY <2>1
    <2>3. DecodeRule(EncodeRule(r)) =
            [kind |-> "directive", link |-> r.link, not_after |-> Dt(Ts(r.not_after))]
      <3> HIDE DEF EncodeRule
      <3> QED
        BY <2>2
    <2> QED
      BY <1>6, <2>1, <2>3
  <1> QED
    BY <1>1, <1>2, <1>3, <1>4, <1>5, <1>6 DEF IsRule

IsLink(l) ==
  l = [id |-> l.id, type |-> l.type, metered |-> l.metered, encrypted |-> l.encrypted,
       jurisdictions |-> l.jurisdictions]

IsClass(c) ==
  c = [id |-> c.id, max_rtt |-> c.max_rtt, allow_metered |-> c.allow_metered,
       jurisdictions |-> c.jurisdictions, encryption |-> c.encryption]

IsPolicy(b) ==
  /\ \A l \in b.links : IsLink(l)
  /\ \A c \in b.traffic_classes : IsClass(c)
  /\ \A r \in b.rules : IsRule(r)

LEMMA LinkRoundTrip == ASSUME NEW l, IsLink(l) PROVE DecodeLink(EncodeLink(l)) = l
  BY DEF IsLink, EncodeLink, DecodeLink

LEMMA ClassRoundTrip == ASSUME NEW c, IsClass(c) PROVE DecodeClass(EncodeClass(c)) = c
  BY DEF IsClass, EncodeClass, DecodeClass

\* A policy arrives whole or not at all (messages.py:101-106): a side that knows all its
\* kinds of rules decodes the policy that was encoded, times in whole seconds, and one
\* that does not, nothing.
THEOREM WholeOrNotAtAll ==
  ASSUME NEW b, IsPolicy(b), NEW known
  PROVE  DecodeBundle(EncodeBundle(b), known) =
           IF \A r \in b.rules : EncodeRule(r)[1] \in known
           THEN {[ id |-> b.id, authority |-> b.authority, sequence |-> b.sequence,
                   issued_at |-> Dt(Ts(b.issued_at)), not_after |-> Dt(Ts(b.not_after)),
                   decision_ttl |-> b.decision_ttl, links |-> b.links,
                   traffic_classes |-> b.traffic_classes,
                   rules |-> {Received(r) : r \in b.rules} ]}
           ELSE {}
  <1> DEFINE f == EncodeBundle(b)
  <1>1. f = << b.id, b.authority, b.sequence, Ts(b.issued_at), Ts(b.not_after),
               b.decision_ttl, {EncodeLink(l) : l \in b.links},
               {EncodeClass(c) : c \in b.traffic_classes}, {EncodeRule(r) : r \in b.rules} >>
    BY DEF EncodeBundle
  <1>2. /\ f[1] = b.id /\ f[2] = b.authority /\ f[3] = b.sequence /\ f[4] = Ts(b.issued_at)
        /\ f[5] = Ts(b.not_after) /\ f[6] = b.decision_ttl
        /\ f[7] = {EncodeLink(l) : l \in b.links}
        /\ f[8] = {EncodeClass(c) : c \in b.traffic_classes}
        /\ f[9] = {EncodeRule(r) : r \in b.rules}
        /\ Len(f) = 9
    BY <1>1
  <1> HIDE DEF f
  <1>3. {DecodeLink(x) : x \in f[7]} = b.links
    <2>1. \A l \in b.links : DecodeLink(EncodeLink(l)) = l
      BY LinkRoundTrip DEF IsPolicy
    <2> QED
      BY <1>2, <2>1
  <1>4. {DecodeClass(x) : x \in f[8]} = b.traffic_classes
    <2>1. \A c \in b.traffic_classes : DecodeClass(EncodeClass(c)) = c
      BY ClassRoundTrip DEF IsPolicy
    <2> QED
      BY <1>2, <2>1
  <1>5. {DecodeRule(x) : x \in f[9]} = {Received(r) : r \in b.rules}
    <2>1. \A r \in b.rules : DecodeRule(EncodeRule(r)) = Received(r)
      BY RuleRoundTrip DEF IsPolicy
    <2> QED
      BY <1>2, <2>1
  <1>6. BundleOf(f, f[9]) =
          [ id |-> b.id, authority |-> b.authority, sequence |-> b.sequence,
            issued_at |-> Dt(Ts(b.issued_at)), not_after |-> Dt(Ts(b.not_after)),
            decision_ttl |-> b.decision_ttl, links |-> b.links,
            traffic_classes |-> b.traffic_classes,
            rules |-> {Received(r) : r \in b.rules} ]
    BY <1>2, <1>3, <1>4, <1>5 DEF BundleOf
  <1>7. (\E x \in f[9] : x[1] \notin known) <=> ~ \A r \in b.rules : EncodeRule(r)[1] \in known
    BY <1>2
  <1>8. DecodeBundle(f, known) =
          IF \E x \in f[9] : x[1] \notin known THEN {} ELSE {BundleOf(f, f[9])}
    BY <1>2 DEF DecodeBundle
  <1>9. DecodeBundle(EncodeBundle(b), known) = DecodeBundle(f, known)
    BY DEF f
  <1> QED
    BY <1>6, <1>7, <1>8, <1>9

-----------------------------------------------------------------------------
(* Decisions in receipts, observations and directives *)

\* A receipt that is read back from the log hashes to what it hashed to when it was
\* written, although its times lost their fraction (receipts.py:97, 113 and 228): the
\* chain of a restarted site goes on from the hash the next receipt expects.
THEOREM DecisionsRehash ==
  ASSUME NEW d, d.decided_at \in Int, d.valid_until \in Int
  PROVE  EncodeDecision(DecodeDecision(EncodeDecision(d))) = EncodeDecision(d)
  <1> DEFINE rows == {<<c.class, c.permitted, c.exclusions>> : c \in d.classes}
             f == EncodeDecision(d)
             decoded == {[class |-> c[1], permitted |-> c[2], exclusions |-> c[3]] : c \in rows}
             r == DecodeDecision(f)
  <1>1. f = << Ts(d.decided_at), Ts(d.valid_until), d.bundle_hash, d.evidence_hash,
               d.degraded, rows >>
    BY DEF EncodeDecision
  <1>2. r = [ decided_at |-> Dt(Ts(d.decided_at)), valid_until |-> Dt(Ts(d.valid_until)),
              bundle_hash |-> d.bundle_hash, evidence_hash |-> d.evidence_hash,
              degraded |-> d.degraded, classes |-> decoded ]
    <2> HIDE DEF f, rows
    <2> QED
      BY <1>1 DEF DecodeDecision
  <1>3. {<<c.class, c.permitted, c.exclusions>> : c \in decoded} = rows
    <2> DEFINE Row(x) == [class |-> x[1], permitted |-> x[2], exclusions |-> x[3]]
               Again(c) == <<c.class, c.permitted, c.exclusions>>
    <2>1. \A x \in rows : Again(Row(x)) = x
      OBVIOUS
    <2>2. decoded = {Row(x) : x \in rows}
      OBVIOUS
    <2> HIDE DEF rows, Row, decoded, Again
    <2>3. {Again(c) : c \in decoded} = rows
      BY <2>1, <2>2
    <2> QED
      BY <2>3 DEF Again
  <1>4. EncodeDecision(r) =
          << Ts(Dt(Ts(d.decided_at))), Ts(Dt(Ts(d.valid_until))), d.bundle_hash,
             d.evidence_hash, d.degraded, rows >>
    <2> HIDE DEF rows, decoded, r
    <2> QED
      BY <1>2, <1>3 DEF EncodeDecision
  <1> QED
    BY <1>1, <1>4, Truncation

\* A reading never looks fresher for having been sent (messages.py:246-260): on the other
\* side it is as old as here, or less than a second older.
THEOREM EvidenceAgesOnTheWire ==
  ASSUME NEW o, o.at \in Int, NEW now \in Int
  PROVE  Age(DecodeObservation(EncodeObservation(o)), now) \in {Age(o, now), Age(o, now) + 1}
  <1>1. DecodeObservation(EncodeObservation(o)).at = Dt(Ts(o.at))
    BY DEF DecodeObservation, EncodeObservation
  <1> QED
    BY <1>1, Truncation DEF Age

\* A directive that is sent by itself takes its link out until the very moment at which
\* the same directive as a rule of a bundle would (messages.py:276-282).
THEOREM DirectiveIsItsRule ==
  ASSUME NEW d
  PROVE  ToRule(DecodeDirective(EncodeDirective(d))) = DecodeRule(EncodeRule(ToRule(d)))
  <1>1. ToRule(DecodeDirective(EncodeDirective(d))) =
          [kind |-> "directive", link |-> d.link, not_after |-> Dt(Ts(d.not_after))]
    BY DEF ToRule, DecodeDirective, EncodeDirective
  <1>2. IsRule(ToRule(d)) /\ ToRule(d).kind = "directive"
    BY DEF ToRule, IsRule
  <1>3. Received(ToRule(d)) =
          [kind |-> "directive", link |-> d.link, not_after |-> Dt(Ts(d.not_after))]
    BY DEF ToRule, Received
  <1> QED
    BY <1>1, <1>2, <1>3, RuleRoundTrip

-----------------------------------------------------------------------------
(* Envelopes *)

\* What is signed verifies on arrival, under the key it was signed with and no other.
THEOREM SignedVerifies ==
  ASSUME NEW type, NEW issuer, NEW t \in Int, NEW nonce, NEW payload, NEW key, NEW other
  PROVE  LET e == DecodeEnvelope(EncodeEnvelope(Sign(type, issuer, t, nonce, payload, key)))
         IN  Verifies(e, other) <=> other = key
  <1> DEFINE s == Sign(type, issuer, t, nonce, payload, key)
             e == DecodeEnvelope(EncodeEnvelope(s))
  <1>1. s.signature = <<key, <<type, issuer, Ts(t), nonce, payload>>>>
    BY DEF Sign, SigningInput
  <1>2. e = [msg_type |-> type, issuer |-> issuer, issued_at |-> Dt(Ts(t)), nonce |-> nonce,
             payload |-> payload, signature |-> s.signature]
    BY DEF Sign, EncodeEnvelope, DecodeEnvelope
  <1>3. SigningInput(e) = <<type, issuer, Ts(t), nonce, payload>>
    BY <1>2, Truncation DEF SigningInput
  <1> QED
    BY <1>1, <1>2, <1>3 DEF Verifies

\* A signature lets through what was signed and nothing else: no field of a message can
\* be another's (envelope.py:44-47).
THEOREM SignatureCoversEverything ==
  ASSUME NEW type, NEW issuer, NEW t \in Int, NEW nonce, NEW payload, NEW key, NEW e,
         Verifies(e, key),
         e.signature = Sign(type, issuer, t, nonce, payload, key).signature
  PROVE  /\ <<e.msg_type, e.issuer, e.nonce, e.payload>> = <<type, issuer, nonce, payload>>
         /\ Ts(e.issued_at) = Ts(t)
  <1>1. e.signature = <<key, <<type, issuer, Ts(t), nonce, payload>>>>
    BY DEF Sign, SigningInput
  <1>2. e.signature = <<key, <<e.msg_type, e.issuer, Ts(e.issued_at), e.nonce, e.payload>>>>
    BY DEF Verifies, SigningInput
  <1> QED
    BY <1>1, <1>2
=============================================================================
