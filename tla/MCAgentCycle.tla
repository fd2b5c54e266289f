---------------------------- MODULE MCAgentCycle ----------------------------
(* A site with two links for TLC, whose floor names a class of its own.      *)
EXTENDS AgentCycle

Fiber == [id |-> "fiber", type |-> "fiber", metered |-> FALSE,
          encrypted |-> TRUE, jurisdictions |-> {}]
Lte == [id |-> "lte", type |-> "lte", metered |-> TRUE,
        encrypted |-> TRUE, jurisdictions |-> {}]
Links == {Fiber, Lte}

Bulk(metered) == [id |-> "bulk", max_rtt |-> None, allow_metered |-> metered,
                  jurisdictions |-> None, encryption |-> FALSE]

Policy1(s, until, metered) ==
  [sequence |-> s, not_after |-> until, decision_ttl |-> 60, links |-> Links,
   traffic_classes |-> {Bulk(metered)},
   rules |-> {[kind |-> "link_down"], [kind |-> "metered", class |-> "bulk"]}]

\* The later policy refuses the metered link, and lapses too.
MCBundles == {Policy1(1, 1, TRUE), Policy1(2, 2, FALSE)}

\* The floor of a site that declares no classes.
MCFloor == FloorBundle(Links, {})

Up(l) == [link |-> l, quantity |-> "up", value |-> 1, at |-> 0]
MCSnapshots == {<<Up("fiber"), Up("lte")>>, <<Up("lte")>>}
=============================================================================
