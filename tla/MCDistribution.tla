--------------------------- MODULE MCDistribution ---------------------------
(* Policy files, others' messages and floors for TLC.                        *)
EXTENDS Distribution

Fiber == [id |-> "fiber", type |-> "fiber", jurisdictions |-> {"no"}]
Lte == [id |-> "lte", type |-> "lte", metered |-> TRUE]

File(s, seconds, class, rules) ==
  [ bundle_id |-> "policy", authority_id |-> "ours", sequence |-> s, validity_s |-> seconds,
    decision_ttl_s |-> 60, links |-> {Fiber, Lte}, traffic_classes |-> {class},
    rules |-> rules ]

\* A lenient policy, a strict one with an empty list of jurisdictions and a directive
\* for one second, and one with a rule that is newer than the site's version.
Lenient == File(1, 1, [id |-> "bulk"], {<<"down">>})
Strict == File(2, 2, [id |-> "bulk", allow_metered |-> FALSE, allowed_jurisdictions |-> {}],
               {<<"down">>, <<"jurisdiction", "bulk">>, <<"directive", "lte", 1>>})
Newer == File(3, 2, [id |-> "bulk"], {<<"down">>, <<"quota", "lte", 80>>})

Job(file) == [file |-> file, key |-> "our key", issuer |-> "ours"]
MCJobs == {Job(Lenient), Job(Strict)}

Kinds == {"down", "max_rtt", "metered", "quota", "freshness", "jurisdiction",
          "encryption", "link_type", "directive"}

\* Two early copies of the lenient policy, the policy of a newer version, one in our name
\* under another key; but for the first, who published them passed a nonce of their own.
Early == Published(Job(Lenient), LoadBundle(Lenient, Lead), Lead, DefaultNonce)
Copy == Published(Job(Lenient), LoadBundle(Lenient, Lead), Lead, 1)
Beyond == Published(Job(Newer), LoadBundle(Newer, Lead), Lead, 3)
Wide == Published([key |-> "their key", issuer |-> "ours"],
                  LoadBundle(File(9, 9, [id |-> "bulk"], {}), Lead), Lead, 9)
Good == {Early, Copy, Beyond}

\* Floors for the links the site has, for what they were before, for another site, and
\* one under another key.
Links == {LoadLink(Fiber), LoadLink(Lte)}
OldLinks == {LoadLink([Fiber EXCEPT !.jurisdictions = {}]), LoadLink(Lte)}
F == [site |-> "here", links |-> Links, key |-> "our key", issuer |-> "ours", at |-> 0,
      classes |-> {LoadClass([id |-> "voice", allowed_jurisdictions |-> {}])}]
MCFloors == {F, [F EXCEPT !.links = OldLinks], [F EXCEPT !.site = "elsewhere"],
             [F EXCEPT !.key = "their key"]}

\* What reaches the site besides, some of it with one field of another message.
MCSignedBefore == {DecodeEnvelope(m) : m \in Good \cup {SignedFloor(F)}}
MCMail ==
  Good \cup {[m EXCEPT ![i] = n[i]] :
                m \in Good, n \in Good \cup {Wide, SignedFloor(F)}, i \in 1..6}
=============================================================================
