--------------------------- MODULE MCBundleStore ---------------------------
(* Messages and floors for TLC.                                              *)
EXTENDS BundleStore

B(id, s, until) ==
  [authority |-> "ours", sequence |-> s, not_after |-> until, id |-> id]
E(b, stamp, nonce) ==
  [type |-> "POLICY_BUNDLE", issuer |-> "ours", stamp |-> stamp, signed |-> TRUE,
   nonce |-> nonce, bundle |-> b]

\* An early policy that expires soon, two drafts that share a sequence, one of them
\* sent twice, and a newer one stamped ahead of the site's clock.
V1 == E(B("v1", 1, 2), 0, "n1")
V2 == E(B("v2", 2, 9), 0, "n2")
V2draft == E(B("draft", 2, 3), 0, "n3")
V2again == E(B("v2", 2, 9), 1, "n4")
V3 == E(B("v3", 3, 9), 3, "n5")

\* Messages that are not for this site, or not what they claim to be.
Strays ==
  { [V3 EXCEPT !.issuer = "another"], [V3 EXCEPT !.signed = FALSE],
    [V3 EXCEPT !.bundle.authority = "another"], [V3 EXCEPT !.type = "OBSERVATION_BATCH"] }

MCEnvelopes == {V1, V2, V2draft, V2again, V3} \cup Strays

F == [type |-> "FLOOR_CONFIG", issuer |-> "ours", signed |-> TRUE, site |-> "here",
      inventory |-> "links", links |-> "links"]
MCFloors == {F, [F EXCEPT !.site = "elsewhere"], [F EXCEPT !.inventory = "old links"],
             [F EXCEPT !.signed = FALSE]}
=============================================================================
