---------------------------- MODULE MCSimulation ----------------------------
(* A site with a fiber, a satellite and an optical link for TLC.             *)
EXTENDS Simulation

Fiber == [id |-> "fiber", type |-> "fiber", metered |-> FALSE,
          encrypted |-> TRUE, jurisdictions |-> {"no", "se"}]
Fso == [id |-> "fso", type |-> "fso", metered |-> FALSE,
        encrypted |-> FALSE, jurisdictions |-> {"no"}]
Sat == [id |-> "sat", type |-> "satellite", metered |-> TRUE,
        encrypted |-> TRUE, jurisdictions |-> {"no"}]

Bulk == [id |-> "bulk", max_rtt |-> None, allow_metered |-> FALSE,
         jurisdictions |-> None, encryption |-> TRUE]
Health == [id |-> "health", max_rtt |-> 88, allow_metered |-> TRUE,
           jurisdictions |-> {"no"}, encryption |-> FALSE]

MCPolicy ==
  [ links |-> {Fiber, Fso, Sat}, traffic_classes |-> {Bulk, Health}, decision_ttl |-> 2,
    rules |-> {[kind |-> "link_down"],
               [kind |-> "metered", class |-> "bulk"],
               [kind |-> "max_rtt", class |-> "health"],
               [kind |-> "quota", type |-> "satellite", threshold |-> 90],
               [kind |-> "freshness", type |-> "fso", quantity |-> "visibility_m", max_age |-> 1],
               [kind |-> "jurisdiction", class |-> "health"],
               [kind |-> "encryption", class |-> "bulk"]} ]

MCOrder == <<"fiber", "sat", "fso">>
MCLinkOrder == <<"fiber", "fso", "sat">>
MCClassOrder == <<"bulk", "health">>
MCDeclaredOrder == <<"health", "bulk">>
MCBaseRtt == [id \in {"fiber", "fso", "sat"} |->
                CASE id = "fiber" -> 8 [] id = "fso" -> 3 [] id = "sat" -> 90]

\* The satellite is the one whose noise decides something: 90 ms are more than the
\* 88 that health allows, 90 - 5 are less.
Calm == [id \in {"fiber", "fso", "sat"} |-> 0]
NoisySat == {[Calm EXCEPT !["sat"] = n] : n \in {-5, 25}}
Quiet == {Calm}

Ev(k, t) == [kind |-> k, target |-> t]
MCEvents ==
  {Ev("link_down", "fiber"), Ev("link_up", "fiber"), Ev("fog", "fso"), Ev("clear", "fso"),
   Ev("obstruct", "sat"), Ev("unobstruct", "sat"),
   Ev("sensor_fail", "fso"), Ev("sensor_recover", "fso"),
   Ev("authority_unreachable", ""), Ev("authority_reachable", "")}
=============================================================================
