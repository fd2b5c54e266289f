------------------------------ MODULE Messages ------------------------------
(***************************************************************************)
(* protocol/messages.py and protocol/envelope.py: what the authority sends *)
(* and what a site reads of it.                                            *)
(*                                                                         *)
(* Bytes stand for the value they encode in canonical CBOR (external): an  *)
(* array is a tuple, a list whose order no rule reads is a set, a payload  *)
(* is the tuple inside it.  Rule ids, reason texts and owners are left     *)
(* out, as in Policy.                                                      *)
(*                                                                         *)
(* Time counts half seconds, so that a time between two whole seconds, the *)
(* only ones the wire has, exists.                                         *)
(***************************************************************************)
EXTENDS Policy, Sequences

-----------------------------------------------------------------------------
(* Times *)

\* _ts: int() drops the fraction.
Ts(t) == t \div 2

\* _dt
Dt(n) == 2 * n

-----------------------------------------------------------------------------
(* Rules, links and classes *)

ClassKinds == {"max_rtt", "metered", "jurisdiction", "encryption"}

EncodeRule(r) ==
  CASE r.kind = "link_down"    -> <<"down">>
    [] r.kind \in ClassKinds   -> <<r.kind, r.class>>
    [] r.kind = "quota"        -> <<"quota", r.type, r.threshold>>
    [] r.kind = "freshness"    -> <<"freshness", r.type, r.quantity, r.max_age>>
    [] r.kind = "link_type"    -> <<"link_type", r.type>>
    [] r.kind = "directive"    -> <<"directive", r.link, Ts(r.not_after)>>

\* The decoder of a kind this side knows.
DecodeRule(f) ==
  CASE f[1] = "down"         -> [kind |-> "link_down"]
    [] f[1] \in ClassKinds   -> [kind |-> f[1], class |-> f[2]]
    [] f[1] = "quota"        -> [kind |-> "quota", type |-> f[2], threshold |-> f[3]]
    [] f[1] = "freshness"    -> [kind |-> "freshness", type |-> f[2], quantity |-> f[3],
                                 max_age |-> f[4]]
    [] f[1] = "link_type"    -> [kind |-> "link_type", type |-> f[2]]
    [] f[1] = "directive"    -> [kind |-> "directive", link |-> f[2],
                                 not_after |-> Dt(f[3])]

\* The fields of a rule are there, and its times are integers.
IsWireRule(f) ==
  \/ f = <<"down">>
  \/ \E k \in ClassKinds : f = <<k, f[2]>>
  \/ f[1] = "quota" /\ f = <<"quota", f[2], f[3]>>
  \/ f[1] = "freshness" /\ f = <<"freshness", f[2], f[3], f[4]>>
  \/ f[1] = "link_type" /\ f = <<"link_type", f[2]>>
  \/ f[1] = "directive" /\ f = <<"directive", f[2], f[3]>> /\ f[3] \in Int

EncodeLink(l) == <<l.id, l.type, l.metered, l.encrypted, l.jurisdictions>>
DecodeLink(f) == [id |-> f[1], type |-> f[2], metered |-> f[3], encrypted |-> f[4],
                  jurisdictions |-> f[5]]

EncodeClass(c) == <<c.id, c.max_rtt, c.allow_metered, c.jurisdictions, c.encryption>>

DecodeClass(f) ==
  [id |-> f[1], max_rtt |-> f[2], allow_metered |-> f[3], jurisdictions |-> f[4],
   encryption |-> f[5]]

-----------------------------------------------------------------------------
(* Bundles and floors *)

EncodeBundle(b) ==
  << b.id, b.authority, b.sequence, Ts(b.issued_at), Ts(b.not_after), b.decision_ttl,
     {EncodeLink(l) : l \in b.links},
     {EncodeClass(c) : c \in b.traffic_classes},
     {EncodeRule(r) : r \in b.rules} >>

BundleOf(f, rules) ==
  [ id |-> f[1], authority |-> f[2], sequence |-> f[3], issued_at |-> Dt(f[4]),
    not_after |-> Dt(f[5]), decision_ttl |-> f[6],
    links |-> {DecodeLink(x) : x \in f[7]},
    traffic_classes |-> {DecodeClass(x) : x \in f[8]},
    rules |-> {DecodeRule(x) : x \in rules} ]

\* The bundle, or nothing: a field that is missing and one rule of a kind that is not
\* known are fatal.
DecodeBundle(f, known) ==
  IF Len(f) < 9 \/ \E x \in f[9] : x[1] \notin known THEN {} ELSE {BundleOf(f, f[9])}

\* Mutant: a link is known by its name and type.
LinkInventoryByName(links) == {<<l.id, l.type>> : l \in links}
\* link_inventory_hash: the rows it hashes.
LinkInventory(links) ==
  {<<l.id, l.type, l.metered, l.encrypted, l.jurisdictions>> : l \in links}

EncodeFloorConfig(site, inventory, policy) == <<site, inventory, EncodeBundle(policy)>>

-----------------------------------------------------------------------------
(* Decisions in receipts, observations and directives *)

\* The payload of a receipt: what Receipt.body() hashes of the decision.
EncodeDecision(d) ==
  << Ts(d.decided_at), Ts(d.valid_until), d.bundle_hash, d.evidence_hash, d.degraded,
     {<<c.class, c.permitted, c.exclusions>> : c \in d.classes} >>

DecodeDecision(f) ==
  [ decided_at |-> Dt(f[1]), valid_until |-> Dt(f[2]), bundle_hash |-> f[3],
    evidence_hash |-> f[4], degraded |-> f[5],
    classes |-> {[class |-> c[1], permitted |-> c[2], exclusions |-> c[3]] : c \in f[6]} ]

\* One row of an observation batch.
EncodeObservation(o) == <<o.link, o.quantity, o.value, Ts(o.at)>>

DecodeObservation(f) == [link |-> f[1], quantity |-> f[2], value |-> f[3], at |-> Dt(f[4])]

\* A directive that is sent by itself: [site, link, not_after].
EncodeDirective(d) == <<d.site, d.link, Ts(d.not_after)>>
DecodeDirective(f) == [site |-> f[1], link |-> f[2], not_after |-> Dt(f[3])]
ToRule(d) == [kind |-> "directive", link |-> d.link, not_after |-> d.not_after]

-----------------------------------------------------------------------------
(* Envelopes *)

\* Mutant: the signature covers what is around the payload.
SigningInputWithoutPayload(e) == <<e.msg_type, e.issuer, Ts(e.issued_at), e.nonce>>
SigningInput(e) == <<e.msg_type, e.issuer, Ts(e.issued_at), e.nonce, e.payload>>

\* A signature is known by its key and what it was made over: no two are alike, and
\* nobody else can make one (Ed25519, external).
Sign(type, issuer, issued_at, nonce, payload, key) ==
  LET e == [msg_type |-> type, issuer |-> issuer, issued_at |-> issued_at,
            nonce |-> nonce, payload |-> payload]
  IN  [msg_type |-> type, issuer |-> issuer, issued_at |-> issued_at, nonce |-> nonce,
       payload |-> payload, signature |-> <<key, SigningInput(e)>>]

\* verify() returns instead of raising.
Verifies(e, key) == e.signature = <<key, SigningInput(e)>>

EncodeEnvelope(e) ==
  <<e.msg_type, e.issuer, Ts(e.issued_at), e.nonce, e.payload, e.signature>>

DecodeEnvelope(f) ==
  [msg_type |-> f[1], issuer |-> f[2], issued_at |-> Dt(f[3]), nonce |-> f[4],
   payload |-> f[5], signature |-> f[6]]
=============================================================================
