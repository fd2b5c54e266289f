--------------------------- MODULE MCEligibility ---------------------------
(* A small site for TLC: a fiber link, a metered LTE link and a free-space   *)
(* optical one, two traffic classes and two policies over them.              *)
EXTENDS Eligibility

Fiber == [id |-> "fiber", type |-> "fiber", metered |-> FALSE,
          encrypted |-> FALSE, jurisdictions |-> {"no"}]
Lte == [id |-> "lte", type |-> "lte", metered |-> TRUE,
        encrypted |-> TRUE, jurisdictions |-> {"no", "se"}]
Fso == [id |-> "fso", type |-> "fso", metered |-> FALSE,
        encrypted |-> TRUE, jurisdictions |-> {}]

Bulk == [id |-> "bulk", max_rtt |-> None, allow_metered |-> TRUE,
         jurisdictions |-> {"no", "se"}, encryption |-> FALSE]
Control == [id |-> "control", max_rtt |-> 2, allow_metered |-> FALSE,
            jurisdictions |-> {"no"}, encryption |-> FALSE]
Any == [id |-> "any", max_rtt |-> None, allow_metered |-> TRUE,
        jurisdictions |-> None, encryption |-> FALSE]

\* Ordinary policy: liveness, the class constraints, a quota and a weather rule.
Ordinary ==
  [links |-> {Fiber, Lte, Fso}, traffic_classes |-> {Bulk, Control},
   decision_ttl |-> 60,
   rules |-> {[kind |-> "link_down"],
              [kind |-> "metered", class |-> "control"],
              [kind |-> "max_rtt", class |-> "control"],
              [kind |-> "jurisdiction", class |-> "bulk"],
              [kind |-> "quota", type |-> "lte", threshold |-> 90],
              [kind |-> "freshness", type |-> "fiber", quantity |-> "up", max_age |-> 1]}]

\* A policy that only reads evidence, with a directive against one link.
Measured ==
  [links |-> {Fiber, Lte, Fso}, traffic_classes |-> {Any},
   decision_ttl |-> 60,
   rules |-> {[kind |-> "link_down"],
              [kind |-> "freshness", type |-> "fso", quantity |-> "up", max_age |-> 0],
              [kind |-> "quota", type |-> "lte", threshold |-> 90],
              [kind |-> "directive", link |-> "fiber", not_after |-> 2]}]

\* A policy whose class asks for encryption and one jurisdiction.
Strict ==
  [links |-> {Fiber, Lte, Fso},
   traffic_classes |-> {[id |-> "strict", max_rtt |-> None, allow_metered |-> TRUE,
                         jurisdictions |-> {"se"}, encryption |-> TRUE]},
   decision_ttl |-> 60,
   rules |-> {[kind |-> "link_down"],
              [kind |-> "link_type", type |-> "fso"],
              [kind |-> "encryption", class |-> "strict"]}]

MCBundles == {Ordinary, Measured, Strict}

R(l, q, v) == [link |-> l, quantity |-> q, value |-> v]
MCReadings == {R("fiber", "up", 0), R("fiber", "up", 1), R("fiber", "rtt_ms", 2),
               R("lte", "up", 1), R("lte", "quota_used_pct", 50),
               R("fso", "up", 1)}
MCStamps == {0, 1, 3}
MCSlots == 1..3
=============================================================================
