-------------------------- MODULE Simulation_proofs --------------------------
(* Proofs about the selectors, for all links, policies, noises and events.    *)
EXTENDS Simulation, FiniteSetTheorems, WellFoundedInduction, TLAPS

-----------------------------------------------------------------------------
(* Lists and finite sets *)

\* The place of a member of a list of a set.
LEMMA PlaceOf ==
  ASSUME NEW S, NEW seq, Lists(seq, S), NEW x \in S
  PROVE  /\ Place(seq, x) \in 1..Len(seq) /\ seq[Place(seq, x)] = x
         /\ \A i \in 1..Len(seq) : seq[i] = x => i = Place(seq, x)
  <1>1. DOMAIN seq = 1..Len(seq)
    BY DEF Lists
  <1>2. PICK i \in DOMAIN seq : \A j \in DOMAIN seq : seq[j] = x <=> j = i
    BY DEF Lists
  <1> QED
    BY <1>1, <1>2 DEF Place

\* What is listed is finite.
LEMMA ListedIsFinite ==
  ASSUME NEW S, NEW seq, Lists(seq, S)
  PROVE  IsFiniteSet(S)
  <1>1. seq \in [1..Len(seq) -> S] /\ Len(seq) \in Nat
    BY DEF Lists
  <1>2. \A x \in S : \E i \in 1..Len(seq) : seq[i] = x
    BY <1>1 DEF Lists
  <1>3. seq \in Surjection(1..Len(seq), S)
    BY <1>1, <1>2 DEF Surjection
  <1>4. IsFiniteSet(1..Len(seq))
    BY <1>1, FS_Interval
  <1> QED
    BY <1>3, <1>4, FS_Surjection

\* A finite set has a member that is least by f and then by g: of the sets of smaller
\* members one is minimal, and that one is empty.
LEMMA LeastExists ==
  ASSUME NEW S, IsFiniteSet(S), S # {}, NEW f \in [S -> Int], NEW g \in [S -> Int]
  PROVE  \E x \in S : \A y \in S : f[x] < f[y] \/ (f[x] = f[y] /\ g[x] <= g[y])
  <1> DEFINE Below(x) == {y \in S : f[y] < f[x] \/ (f[y] = f[x] /\ g[y] < g[x])}
             T == {Below(x) : x \in S}
  <1>1. T \subseteq FiniteSubsetsOf(S) /\ T # {}
    <2>1. \A x \in S : Below(x) \subseteq S /\ IsFiniteSet(Below(x))
      BY FS_Subset
    <2> HIDE DEF Below
    <2>2. \A x \in S : Below(x) \in FiniteSubsetsOf(S)
      BY <2>1 DEF FiniteSubsetsOf
    <2>3. PICK x \in S : TRUE
      OBVIOUS
    <2>4. Below(x) \in T
      OBVIOUS
    <2> QED
      BY <2>2, <2>4
  <1>2. IsWellFoundedOn(StrictSubsetOrdering(S), FiniteSubsetsOf(S))
    BY FS_StrictSubsetOrderingWellFounded
  <1>3. PICK B \in T : \A C \in T : <<C, B>> \notin StrictSubsetOrdering(S)
    <2> HIDE DEF T
    <2> QED
      BY <1>1, <1>2, WFMin
  <1>4. PICK x \in S : B = Below(x)
    OBVIOUS
  <1>5. ASSUME NEW y \in S, f[y] < f[x] \/ (f[y] = f[x] /\ g[y] < g[x])
        PROVE  FALSE
    <2>1. /\ f[x] \in Int /\ f[y] \in Int /\ g[x] \in Int /\ g[y] \in Int
          /\ \A z \in S : f[z] \in Int /\ g[z] \in Int
      OBVIOUS
    <2>2. Below(y) \subseteq Below(x)
      BY <1>5, <2>1
    <2>3. y \in Below(x) /\ y \notin Below(y)
      BY <1>5, <2>1
    <2>4. Below(y) \in T /\ Below(x) \subseteq S
      OBVIOUS
    <2>5. <<Below(y), Below(x)>> \in StrictSubsetOrdering(S)
      <3> HIDE DEF Below
      <3> QED
        BY <2>2, <2>3, <2>4 DEF StrictSubsetOrdering
    <2> QED
      BY <1>3, <1>4, <2>4, <2>5
  <1> QED
    BY <1>5

-----------------------------------------------------------------------------
(* Any snapshot *)

\* EvidenceSnapshot.latest answers whenever there is a reading of that quantity, with one
\* reading alone, and none is newer: a rule abstains on what was never reported, not on
\* how the snapshot was put together.
THEOREM LatestAnswersOnce ==
  ASSUME NEW ev, NEW l, NEW q, IsFiniteSet(Candidates(ev, l, q)),
         \A i \in Candidates(ev, l, q) : i \in Int /\ ev[i].at \in Int
  PROVE  /\ Candidates(ev, l, q) = {} => Latest(ev, l, q) = {}
         /\ Candidates(ev, l, q) # {} =>
              \E i \in Candidates(ev, l, q) :
                /\ Latest(ev, l, q) = {ev[i]}
                /\ \A k \in Candidates(ev, l, q) : ev[k].at <= ev[i].at
  <1> DEFINE C == Candidates(ev, l, q)
             age == [i \in C |-> - ev[i].at]
             place == [i \in C |-> i]
             Newest(i) == \A k \in C : ev[k].at < ev[i].at \/ (ev[k].at = ev[i].at /\ i <= k)
  <1>1. Latest(ev, l, q) = {ev[i] : i \in {j \in C : Newest(j)}}
    BY DEF Latest
  <1>2. CASE C = {}
    BY <1>1, <1>2
  <1>3. CASE C # {}
    <2>1. \A i \in C : i \in Int /\ ev[i].at \in Int /\ -ev[i].at \in Int
      OBVIOUS
    <2> HIDE DEF C
    <2>2. age \in [C -> Int] /\ place \in [C -> Int]
      BY <2>1
    <2>3. PICK i \in C : \A k \in C :
            age[i] < age[k] \/ (age[i] = age[k] /\ place[i] <= place[k])
      <3> HIDE DEF age, place
      <3>1. IsFiniteSet(C)
        BY DEF C
      <3> QED
        BY <1>3, <2>2, <3>1, LeastExists
    <2>4. Newest(i)
      BY <2>1, <2>3
    <2>5. \A j \in C : Newest(j) => j = i
      BY <2>1, <2>4
    <2>6. \A k \in C : ev[k].at <= ev[i].at
      BY <2>1, <2>4
    <2>7. {j \in C : Newest(j)} = {i}
      <3> HIDE DEF Newest
      <3> QED
        BY <2>4, <2>5
    <2>8. Latest(ev, l, q) = {ev[i]}
      BY <1>1, <2>7
    <2> QED
      BY <1>3, <2>6, <2>8 DEF C
  <1> QED
    BY <1>2, <1>3

-----------------------------------------------------------------------------
(* The evidence of a step *)

\* Ids name links, each one.
LEMMA LinkOf ==
  /\ \A id \in Ids : Link(id) \in Links /\ Link(id).id = id
  /\ \A l \in Links : l.id \in Ids /\ Link(l.id) = l
  <1>1. \A l \in Links : l.id \in Ids
    BY DEF Ids
  <1>2. ASSUME NEW id \in Ids
        PROVE  Link(id) \in Links /\ Link(id).id = id
    <2>1. \E l \in Links : l.id = id
      BY DEF Ids
    <2> QED
      BY <2>1 DEF Link
  <1> QED
    BY <1>1, <1>2, FleetAssumption

\* Every position is that of one link and one quantity.
LEMMA Positions ==
  ASSUME NEW n \in Nat
  PROVE  /\ \A p \in 1..(4 * n) : /\ 1 + ((p - 1) \div 4) \in 1..n
                                  /\ 1 + ((p - 1) % 4) \in 1..4
         /\ \A i \in 1..n, k \in 1..4 :
              \A p \in Int : (1 + ((p - 1) \div 4) = i /\ 1 + ((p - 1) % 4) = k)
                             <=> p = 4 * (i - 1) + k
         /\ \A i \in 1..n, k \in 1..4 : 4 * (i - 1) + k \in 1..(4 * n)
  OBVIOUS

LEMMA QuantityPlaces ==
  /\ Range(Quantities) = {"up", "visibility_m", "rtt_ms", "quota_used_pct"}
  /\ \A q \in Range(Quantities) :
       \E k \in 1..4 : \A j \in 1..4 : Quantities[j] = q <=> j = k
  BY DEF Quantities, Range

\* A reading of this step.
Reading(id, q, v) == [link |-> id, quantity |-> q, value |-> v, at |-> now]

\* There is one reading of what a link reports and none of what it does not.
LEMMA EvidenceIs ==
  ASSUME now \in Int, NEW noise, NEW id \in Ids, NEW q \in Range(Quantities)
  PROVE  Latest(Evidence(noise), id, q) =
           IF q \in DOMAIN Reports(Link(id), noise[id])
           THEN {Reading(id, q, Reports(Link(id), noise[id])[q])} ELSE {}
  <1> DEFINE reports == [i \in Ids |-> Reports(Link(i), noise[i])]
             link(p) == LinkOrder[1 + ((p - 1) \div 4)]
             quantity(p) == Quantities[1 + ((p - 1) % 4)]
             D == {p \in 1..(4 * Len(LinkOrder)) : quantity(p) \in DOMAIN reports[link(p)]}
             reading(p) == [link |-> link(p), quantity |-> quantity(p),
                            value |-> reports[link(p)][quantity(p)], at |-> now]
             ev == Evidence(noise)
             n == Len(LinkOrder)
  <1>1. ev = [p \in D |-> reading(p)]
    BY DEF Evidence
  <1>2. reports[id] = Reports(Link(id), noise[id])
    OBVIOUS
  <1>3. PICK i \in 1..n : \A j \in 1..n : LinkOrder[j] = id <=> j = i
    <2>1. Lists(LinkOrder, Ids)
      BY FleetAssumption
    <2> QED
      BY <2>1, PlaceOf
  <1>4. PICK k \in 1..4 : \A j \in 1..4 : Quantities[j] = q <=> j = k
    BY QuantityPlaces
  <1> DEFINE pos == 4 * (i - 1) + k
  <1>5. n \in Nat
    BY FleetAssumption DEF Lists
  <1>6. pos \in 1..(4 * n)
    BY <1>5, Positions
  <1>7. \A p \in 1..(4 * n) : (link(p) = id /\ quantity(p) = q) <=> p = pos
    <2> SUFFICES ASSUME NEW p \in 1..(4 * n)
                 PROVE  (link(p) = id /\ quantity(p) = q) <=> p = pos
      OBVIOUS
    <2>1. 1 + ((p - 1) \div 4) \in 1..n /\ 1 + ((p - 1) % 4) \in 1..4
      BY <1>5, Positions
    <2>2. link(p) = id <=> 1 + ((p - 1) \div 4) = i
      BY <1>3, <2>1
    <2>3. quantity(p) = q <=> 1 + ((p - 1) % 4) = k
      BY <1>4, <2>1
    <2>4. (1 + ((p - 1) \div 4) = i /\ 1 + ((p - 1) % 4) = k) <=> p = pos
      <3>1. p \in Int
        BY <1>5
      <3> QED
        BY <1>5, <3>1, Positions
    <2> QED
      BY <2>2, <2>3, <2>4
  <1>8. link(pos) = id /\ quantity(pos) = q
    BY <1>6, <1>7
  <1> HIDE DEF pos, link, quantity, reports, n
  <1>9. pos \in D <=> q \in DOMAIN reports[id]
    BY <1>6, <1>8 DEF n
  <1>10. Candidates(ev, id, q) = D \cap {pos}
    <2>1. D \subseteq 1..(4 * n)
      BY DEF n
    <2> HIDE DEF D, ev
    <2>2. DOMAIN ev = D /\ \A p \in D : ev[p].link = link(p) /\ ev[p].quantity = quantity(p)
      BY <1>1
    <2> QED
      BY <1>7, <2>1, <2>2 DEF Candidates
  <1>11. CASE q \in DOMAIN reports[id]
    <2>1. Candidates(ev, id, q) = {pos}
      BY <1>9, <1>10, <1>11
    <2>2. ev[pos] = Reading(id, q, reports[id][q])
      BY <1>1, <1>8, <1>9, <1>11 DEF Reading
    <2>3. ev[pos].at = now
      BY <2>2 DEF Reading
    <2>4. pos <= pos
      BY <1>6 DEF n
    <2> HIDE DEF ev
    <2>5. Latest(ev, id, q) = {ev[pos]}
      BY <2>1, <2>3, <2>4 DEF Latest
    <2> QED
      BY <1>2, <1>11, <2>2, <2>5 DEF ev
  <1>12. CASE q \notin DOMAIN reports[id]
    <2>1. Candidates(ev, id, q) = {}
      BY <1>9, <1>10, <1>12
    <2> HIDE DEF ev
    <2>2. Latest(ev, id, q) = {}
      BY <2>1 DEF Latest
    <2> QED
      BY <1>2, <1>12, <2>2 DEF ev
  <1> QED
    BY <1>11, <1>12

LEMMA TrueRttIsInteger ==
  ASSUME NEW l \in Links
  PROVE  TrueRtt(l) \in Int
  BY LinkOf, FleetAssumption DEF TrueRtt, Penalty

\* A link is seen up exactly when it reports and is up; then its round trip is known, and
\* what it has used of an allowance.
LEMMA WhatIsSeen ==
  ASSUME now \in Int, NEW noise \in Noises, NEW id \in Ids
  PROVE  LET ev == Evidence(noise)
         IN  /\ ObservedUp(ev, id) <=> id \notin silent /\ IsUp(Link(id))
             /\ ObservedUp(ev, id) =>
                  /\ \E v \in Int : Latest(ev, id, "rtt_ms") = {Reading(id, "rtt_ms", v)}
                  /\ HasQuota(Link(id)) =>
                       Latest(ev, id, "quota_used_pct")
                         = {Reading(id, "quota_used_pct", QuotaUsed(id))}
  <1> DEFINE l == Link(id)
             R == Reports(l, noise[id])
             D == {q \in Range(Quantities) :
                     /\ l.id \notin silent
                     /\ q = "visibility_m" => l.type = "fso"
                     /\ q = "rtt_ms" => IsUp(l)
                     /\ q = "quota_used_pct" => IsUp(l) /\ HasQuota(l)}
             V(q) == CASE q = "up"             -> IF IsUp(l) THEN 1 ELSE 0
                       [] q = "visibility_m"   -> IF l.id \in foggy THEN 80 ELSE 8000
                       [] q = "rtt_ms"         -> TrueRtt(l) + noise[id]
                       [] q = "quota_used_pct" -> QuotaUsed(l.id)
             ev == Evidence(noise)
  <1>1. l \in Links /\ l.id = id
    BY LinkOf
  <1>2. R = [q \in D |-> V(q)]
    BY DEF Reports
  <1>3. /\ V("up") = IF IsUp(l) THEN 1 ELSE 0
        /\ V("rtt_ms") = TrueRtt(l) + noise[id]
        /\ V("quota_used_pct") = QuotaUsed(id)
    BY <1>1
  <1>4. {"up", "rtt_ms", "quota_used_pct"} \subseteq Range(Quantities)
    BY QuantityPlaces
  <1>5. /\ "up" \in D <=> id \notin silent
        /\ "rtt_ms" \in D <=> id \notin silent /\ IsUp(l)
        /\ "quota_used_pct" \in D <=> id \notin silent /\ IsUp(l) /\ HasQuota(l)
    BY <1>1, <1>4
  <1>6. \A q \in {"up", "rtt_ms", "quota_used_pct"} :
          Latest(ev, id, q) = IF q \in D THEN {Reading(id, q, V(q))} ELSE {}
    <2> SUFFICES ASSUME NEW q \in {"up", "rtt_ms", "quota_used_pct"}
                 PROVE  Latest(ev, id, q) = IF q \in D THEN {Reading(id, q, V(q))} ELSE {}
      OBVIOUS
    <2>1. Latest(ev, id, q) = IF q \in DOMAIN R THEN {Reading(id, q, R[q])} ELSE {}
      BY <1>4, EvidenceIs
    <2> HIDE DEF D, V, ev, R
    <2> QED
      BY <1>2, <2>1
  <1> HIDE DEF D, V, ev, R
  <1>7. ObservedUp(ev, id) <=> id \notin silent /\ IsUp(l)
    <2>1. CASE "up" \in D
      <3>1. ObservedUp(ev, id) <=> V("up") >= 1
        <4>1. Latest(ev, id, "up") = {Reading(id, "up", V("up"))}
          BY <1>6, <2>1
        <4>2. Reading(id, "up", V("up")).value = V("up")
          BY DEF Reading
        <4> QED
          BY <4>1, <4>2 DEF ObservedUp
      <3> QED
        BY <1>3, <1>5, <2>1, <3>1
    <2>2. CASE "up" \notin D
      BY <1>5, <1>6, <2>2 DEF ObservedUp
    <2> QED
      BY <2>1, <2>2
  <1>8. TrueRtt(l) + noise[id] \in Int
    <2>1. noise[id] \in Int
      BY FleetAssumption
    <2> QED
      BY <1>1, <2>1, TrueRttIsInteger
  <1>9. ObservedUp(ev, id) => Latest(ev, id, "rtt_ms") = {Reading(id, "rtt_ms", V("rtt_ms"))}
    BY <1>5, <1>6, <1>7
  <1>10. ObservedUp(ev, id) /\ HasQuota(l) =>
           Latest(ev, id, "quota_used_pct") = {Reading(id, "quota_used_pct", QuotaUsed(id))}
    BY <1>3, <1>5, <1>6, <1>7
  <1> QED
    BY <1>3, <1>7, <1>8, <1>9, <1>10 DEF ev

-----------------------------------------------------------------------------
(* The choices *)

\* _best_by_rtt finds a live candidate if there is one.
LEMMA BestIs ==
  ASSUME now \in Int, NEW noise \in Noises, NEW candidates \in SUBSET Ids
  PROVE  LET ev == Evidence(noise)
             best == BestByRtt(ev, candidates)
         IN  \/ best = None /\ \A id \in candidates : ~ObservedUp(ev, id)
             \/ best \in candidates /\ ObservedUp(ev, best)
  <1> DEFINE ev == Evidence(noise)
             live == {id \in candidates : ObservedUp(ev, id)}
             rtt(id) == (CHOOSE o \in Latest(ev, id, "rtt_ms") : TRUE).value
             f == [id \in live |-> rtt(id)]
             g == [id \in live |-> Place(LinkOrder, id)]
             Least(id) == \A other \in live :
                            \/ rtt(id) < rtt(other)
                            \/ rtt(id) = rtt(other)
                                 /\ Place(LinkOrder, id) <= Place(LinkOrder, other)
  <1>1. CASE live = {}
    BY <1>1 DEF BestByRtt
  <1>2. CASE live # {}
    <2>1. \A id \in live : rtt(id) \in Int
      <3> SUFFICES ASSUME NEW id \in Ids, ObservedUp(ev, id)
                   PROVE  rtt(id) \in Int
        OBVIOUS
      <3>1. PICK v \in Int : Latest(ev, id, "rtt_ms") = {Reading(id, "rtt_ms", v)}
        BY WhatIsSeen
      <3>2. rtt(id) = v
        <4>1. (CHOOSE o \in Latest(ev, id, "rtt_ms") : TRUE) = Reading(id, "rtt_ms", v)
          BY <3>1
        <4>2. Reading(id, "rtt_ms", v).value = v
          BY DEF Reading
        <4> QED
          BY <4>1, <4>2, Zenon
      <3> QED
        BY <3>2
    <2>2. \A id \in live : Place(LinkOrder, id) \in Int
      BY PlaceOf, FleetAssumption
    <2>3. IsFiniteSet(live)
      BY ListedIsFinite, FleetAssumption, FS_Subset
    <2> HIDE DEF live, rtt
    <2>4. f \in [live -> Int] /\ g \in [live -> Int]
      BY <2>1, <2>2
    <2>5. PICK id \in live : \A y \in live : f[id] < f[y] \/ (f[id] = f[y] /\ g[id] <= g[y])
      BY <1>2, <2>3, <2>4, LeastExists
    <2>6. Least(id)
      BY <2>5
    <2>7. BestByRtt(ev, candidates) = CHOOSE x \in live : Least(x)
      BY <1>2 DEF BestByRtt, live, rtt
    <2> HIDE DEF Least
    <2>8. BestByRtt(ev, candidates) \in live
      BY <2>6, <2>7
    <2> QED
      BY <2>8 DEF live
  <1> QED
    BY <1>1, <1>2

\* The static list finds a link that is seen up if there is one.
LEMMA FirstIs ==
  ASSUME NEW ev
  PROVE  \/ FirstUp(ev) = None /\ \A id \in Ids : ~ObservedUp(ev, id)
         \/ FirstUp(ev) \in Ids /\ ObservedUp(ev, FirstUp(ev))
  <1> DEFINE live == {i \in DOMAIN Order : ObservedUp(ev, Order[i])}
             n == Len(Order)
  <1>1. /\ n \in Nat /\ DOMAIN Order = 1..n /\ \A i \in 1..n : Order[i] \in Ids
        /\ \A id \in Ids : \E i \in 1..n : Order[i] = id
    <2>1. Lists(Order, Ids) /\ DOMAIN Order = 1..n /\ n \in Nat
      BY FleetAssumption DEF Lists
    <2>2. \A id \in Ids : Place(Order, id) \in 1..n /\ Order[Place(Order, id)] = id
      BY <2>1, PlaceOf
    <2> QED
      BY <2>1, <2>2 DEF Lists
  <1>2. CASE live = {}
    BY <1>1, <1>2 DEF FirstUp
  <1>3. CASE live # {}
    <2>1. live \subseteq 1..n
      BY <1>1
    <2>2. IsFiniteSet(live)
      <3>1. IsFiniteSet(1..n)
        BY <1>1, FS_Interval
      <3> HIDE DEF live
      <3> QED
        BY <2>1, <3>1, FS_Subset
    <2> DEFINE f == [i \in live |-> i]
    <2> HIDE DEF live
    <2>3. f \in [live -> Int]
      BY <1>1, <2>1
    <2>4. PICK i \in live : \A j \in live : i <= j
      <3>1. PICK i \in live : \A j \in live : f[i] < f[j] \/ (f[i] = f[j] /\ f[i] <= f[j])
        BY <1>3, <2>2, <2>3, LeastExists
      <3> QED
        BY <1>1, <2>1, <3>1
    <2>5. FirstUp(ev) = Order[CHOOSE k \in live : \A j \in live : k <= j]
      BY <1>3 DEF FirstUp, live
    <2>6. \E k \in live : FirstUp(ev) = Order[k]
      BY <2>4, <2>5
    <2> QED
      BY <1>1, <2>1, <2>6 DEF live
  <1> QED
    BY <1>2, <1>3

\* So does hysteresis.
LEMMA DampedIs ==
  ASSUME now \in Int, held \in Ids \cup {None}, NEW noise \in Noises
  PROVE  LET ev == Evidence(noise)
             taken == Damped(ev).held
         IN  \/ taken = None /\ \A id \in Ids : ~ObservedUp(ev, id)
             \/ taken \in Ids /\ ObservedUp(ev, taken)
  <1> DEFINE ev == Evidence(noise)
             best == BestByRtt(ev, Ids)
  <1>1. \/ best = None /\ \A id \in Ids : ~ObservedUp(ev, id)
        \/ best \in Ids /\ ObservedUp(ev, best)
    BY BestIs
  <1>2. \/ Damped(ev).held = best
        \/ Damped(ev).held = held /\ held # None /\ ObservedUp(ev, held)
    BY DEF Damped
  <1> QED
    BY <1>1, <1>2

Ts == {c.id : c \in Classes}

LEMMA ClassOf ==
  ASSUME NEW t \in Ts
  PROVE  LET class == CHOOSE c \in Classes : c.id = t
         IN  class \in Classes /\ class.id = t
  <1>1. \E c \in Classes : c.id = t
    BY DEF Ts
  <1> QED
    BY <1>1

\* The agent permits links the site has.
LEMMA DecidedIs ==
  ASSUME NEW ev
  PROVE  Decided(ev) \in [Ts -> SUBSET Ids]
  <1>1. ASSUME NEW t \in Ts, NEW bundle, bundle.links = Links, NEW class
        PROVE  Permitted(bundle, class, ev, now) \subseteq Ids
    BY <1>1 DEF Permitted, Ids
  <1>2. FloorBundle(Links, Classes).links = Links /\ Policy0.links = Links
    BY DEF FloorBundle, Links
  <1> QED
    BY <1>1, <1>2 DEF Decided, Ts

\* A choice is seen up, and only the governed selector leaves a class without a link
\* while one is.
LEMMA ChoicesAre ==
  ASSUME TypeOK, NEW noise \in Noises
  PROVE  LET ev == Evidence(noise)
             choices == ChoicesOf(ev)
         IN  /\ DOMAIN choices = Ts
             /\ \A t \in Ts : \/ choices[t] = None
                              \/ choices[t] \in Ids /\ ObservedUp(ev, choices[t])
             /\ selector # "governed" =>
                  \A t \in Ts : choices[t] = None => \A id \in Ids : ~ObservedUp(ev, id)
  <1> DEFINE ev == Evidence(noise)
             all(link) == [t \in Ts |-> link]
             Served(link) == \/ link = None /\ \A id \in Ids : ~ObservedUp(ev, id)
                             \/ link \in Ids /\ ObservedUp(ev, link)
  <1>1. /\ now \in Int /\ held \in Ids \cup {None}
        /\ selector \in {"greedy", "static_priority", "hysteresis", "governed"}
    BY SimulationAssumption DEF TypeOK
  <1>2. CASE selector # "governed"
    <2>1. Served(BestByRtt(ev, Ids))
      BY <1>1, BestIs
    <2>2. Served(FirstUp(ev))
      BY FirstIs
    <2>3. Served(Damped(ev).held)
      BY <1>1, DampedIs
    <2>4. /\ selector = "greedy"          => ChoicesOf(ev) = all(BestByRtt(ev, Ids))
          /\ selector = "static_priority" => ChoicesOf(ev) = all(FirstUp(ev))
          /\ selector = "hysteresis"      => ChoicesOf(ev) = all(Damped(ev).held)
      BY DEF ChoicesOf, Ts
    <2> HIDE DEF ev, Served
    <2>5. \E link : ChoicesOf(ev) = all(link) /\ Served(link)
      BY <1>1, <1>2, <2>1, <2>2, <2>3, <2>4
    <2>6. PICK link : ChoicesOf(ev) = all(link) /\ Served(link)
      BY <2>5
    <2> QED
      BY <2>6, FleetAssumption DEF Served, ev
  <1>3. CASE selector = "governed"
    <2> DEFINE decided == Decided(ev)
               from(t) == IF decided[t] = {} THEN decided[ClassOrder[1]] ELSE decided[t]
    <2>1. ChoicesOf(ev) = GovernedChoice(ev, decided)
      BY <1>3 DEF ChoicesOf
    <2>2. decided \in [Ts -> SUBSET Ids]
      BY DecidedIs
    <2>3. ChoicesOf(ev) = [t \in Ts |-> BestByRtt(ev, from(t))]
      BY <2>1, <2>2 DEF GovernedChoice
    <2>4. ASSUME NEW t \in Ts
          PROVE  from(t) \in SUBSET Ids
      <3>1. Lists(ClassOrder, Ts)
        BY FleetAssumption DEF Ts
      <3>2. Place(ClassOrder, t) \in 1..Len(ClassOrder)
        BY <3>1, PlaceOf
      <3>3. ClassOrder[1] \in Ts
        BY <3>1, <3>2 DEF Lists
      <3> QED
        BY <2>2, <3>3
    <2> HIDE DEF from
    <2>5. ASSUME NEW t \in Ts
          PROVE  LET best == BestByRtt(ev, from(t))
                 IN  best = None \/ (best \in Ids /\ ObservedUp(ev, best))
      BY <1>1, <2>4, BestIs
    <2> HIDE DEF ev
    <2> QED
      BY <1>3, <2>3, <2>5 DEF ev
  <1> QED
    BY <1>2, <1>3

Served(choices) == {t \in DOMAIN choices : choices[t] # None}
Down(choices) == {t \in Served(choices) : ~IsUp(Link(choices[t]))}

\* What a step records.
LEMMA FrameIs ==
  ASSUME NEW ev, NEW choices
  PROVE  LET f == Frame(ev, choices)
         IN  /\ f.evidence = ev /\ f.choices = choices /\ f.permitted = Decided(ev)
             /\ f.violations = [t \in Served(choices) |-> Violations(t, choices[t])]
             /\ f.refused = DOMAIN choices \ Served(choices)
             /\ f.down = Down(choices)
  BY Zenon DEF Frame, Served, Down

LEMMA FrameTells ==
  ASSUME NEW ev, NEW choices
  PROVE  Frame(ev, choices).degraded <=> selector = "governed" /\ Degraded
  <1> DEFINE d == selector = "governed" /\ Degraded
  <1>1. d <=> selector = "governed" /\ Degraded
    OBVIOUS
  <1> HIDE DEF d
  <1>2. \E a, b, c, e, f, g, h, i :
          Frame(ev, choices) = [ evidence |-> a, choices |-> b, degraded |-> d,
                                 permitted |-> c, violations |-> e, refused |-> f,
                                 down |-> g, overage |-> h, flaps |-> i ]
    BY Zenon DEF Frame, d
  <1>3. Frame(ev, choices).degraded = d
    BY <1>2
  <1> QED
    BY <1>1, <1>3

-----------------------------------------------------------------------------
(* Contact with the authority *)

\* What the store of the governed selector holds is what the last contact left there.
Fresh ==
  /\ now \in Nat /\ contact \in Nat \cup {None}
  /\ selector = "governed" =>
       until = IF contact = None THEN None ELSE contact + Validity

LEMMA FreshStep ==
  ASSUME Fresh, [Next]_vars
  PROVE  Fresh'
  <1> USE SimulationAssumption, NoneAssumption
  <1>1. ASSUME NEW e \in Events, Happen(e)
        PROVE  Fresh'
    BY <1>1 DEF Fresh, Happen, state
  <1>2. ASSUME NEW noise \in Noises, Step(noise)
        PROVE  Fresh'
    BY <1>2 DEF Fresh, Step, Renewed, truth
  <1>3. CASE UNCHANGED vars
    BY <1>3 DEF Fresh, vars, state
  <1> QED
    BY <1>1, <1>2, <1>3 DEF Next

\* For every validity and any pattern of contacts and outages, the site is degraded
\* exactly when the last contact is a validity ago.
THEOREM DegradedIffOutOfContactHolds == Spec => []DegradedIffOutOfContact
  <1> USE SimulationAssumption, NoneAssumption
  <1>1. Init => Fresh /\ DegradedIffOutOfContact
    BY DEF Init, Fresh, DegradedIffOutOfContact
  <1>2. Fresh /\ DegradedIffOutOfContact /\ [Next]_vars => (Fresh /\ DegradedIffOutOfContact)'
    <2> SUFFICES ASSUME Fresh, DegradedIffOutOfContact, [Next]_vars
                 PROVE  DegradedIffOutOfContact'
      BY FreshStep
    <2>1. ASSUME NEW e \in Events, Happen(e)
          PROVE  DegradedIffOutOfContact'
      BY <2>1 DEF Happen, DegradedIffOutOfContact
    <2>2. ASSUME NEW noise \in Noises, Step(noise), selector = "governed"
          PROVE  DegradedIffOutOfContact'
      <3>1. frame'.degraded <=> Degraded
        <4>1. \E ev, choices : frame' = Frame(ev, choices)
          BY <2>2 DEF Step
        <4> QED
          BY <2>2, <4>1, FrameTells
      <3>2. /\ now' = now + 1
            /\ contact' = IF reachable THEN now ELSE contact
        BY <2>2 DEF Step
      <3>3. Degraded <=> (contact' = None \/ now >= contact' + Validity)
        BY <2>2, <3>2 DEF Degraded, Renewed, Fresh
      <3>4. now' - 1 = now
        BY <3>2 DEF Fresh
      <3> QED
        BY <3>1, <3>3, <3>4 DEF DegradedIffOutOfContact
    <2>3. ASSUME NEW noise \in Noises, Step(noise), selector # "governed"
          PROVE  DegradedIffOutOfContact'
      BY <2>3 DEF Step, truth, DegradedIffOutOfContact
    <2>4. CASE UNCHANGED vars
      BY <2>4 DEF vars, DegradedIffOutOfContact
    <2> QED
      BY <2>1, <2>2, <2>3, <2>4 DEF Next
  <1> QED
    BY <1>1, <1>2, PTL DEF Spec

-----------------------------------------------------------------------------
(* The dwell time *)

\* None is no record.
NoneIsNoFrame ==
  \A a, b, c, d, e, f, g, h, i :
    None # [ evidence |-> a, choices |-> b, degraded |-> c, permitted |-> d,
             violations |-> e, refused |-> f, down |-> g, overage |-> h, flaps |-> i ]

\* The dwell clock of the held link never starts before its classes moved to it.
Dwelling ==
  /\ now \in Nat /\ since \in 0..now
  /\ selector = "hysteresis" =>
       IF frame = None THEN held = None
       ELSE /\ frame.choices = [t \in Ts |-> held]
            /\ moved \in Nat /\ moved <= since

\* What a step of the hysteresis selector does.
LEMMA HysteresisStep ==
  ASSUME NoneIsNoFrame, selector = "hysteresis", NEW noise \in Noises, Step(noise)
  PROVE  \E ev : /\ frame' # None /\ frame'.evidence = ev
                 /\ frame'.choices = [t \in Ts |-> Damped(ev).held]
                 /\ held' = Damped(ev).held /\ since' = Damped(ev).since
                 /\ moved' = IF frame # None /\ frame.choices = frame'.choices
                             THEN moved ELSE now
  <1> DEFINE ev == Evidence(noise)
             choices == ChoicesOf(ev)
  <1>1. /\ frame' = Frame(ev, choices)
        /\ held' = Damped(ev).held /\ since' = Damped(ev).since
        /\ moved' = IF frame # None /\ frame.choices = choices THEN moved ELSE now
    BY DEF Step
  <1>2. choices = [t \in Ts |-> Damped(ev).held]
    BY DEF ChoicesOf, Ts
  <1> HIDE DEF ev, choices
  <1>3. frame' # None
    BY <1>1 DEF Frame, NoneIsNoFrame
  <1>4. frame'.evidence = ev /\ frame'.choices = choices
    BY <1>1 DEF Frame
  <1> QED
    BY <1>1, <1>2, <1>3, <1>4

\* A link is taken with a new dwell, and left alive only after a whole one.
LEMMA DampedKeeps ==
  ASSUME NEW ev, now \in Nat, since \in Nat
  PROVE  /\ Damped(ev).since \in {since, now}
         /\ held = None => Damped(ev).since = now
         /\ Damped(ev).held # held =>
              /\ Damped(ev).since = now
              /\ held = None \/ ~ObservedUp(ev, held) \/ now - since >= Dwell
  BY DEF Damped

LEMMA DwellingStep ==
  ASSUME NoneIsNoFrame, Dwelling, [Next]_vars
  PROVE  Dwelling'
  <1>1. ASSUME NEW e \in Events, Happen(e)
        PROVE  Dwelling'
    BY <1>1 DEF Dwelling, Happen, state, Ts
  <1>2. ASSUME NEW noise \in Noises, Step(noise), selector = "hysteresis"
        PROVE  Dwelling'
    <2>1. PICK ev : /\ frame' # None /\ frame'.evidence = ev
                    /\ frame'.choices = [t \in Ts |-> Damped(ev).held]
                    /\ held' = Damped(ev).held /\ since' = Damped(ev).since
                    /\ moved' = IF frame # None /\ frame.choices = frame'.choices
                                THEN moved ELSE now
      BY <1>2, HysteresisStep
    <2>2. now \in Nat /\ since \in 0..now /\ now' = now + 1 /\ selector' = selector
      BY <1>2 DEF Dwelling, Step
    <2>3. since' \in {since, now} /\ (held' # held => since' = now)
      BY <2>1, <2>2, DampedKeeps
    <2>4. frame = None => since' = now
      BY <1>2, <2>1, <2>2, DampedKeeps DEF Dwelling
    <2>5. moved' \in Nat /\ moved' <= since'
      <3>1. CASE frame = None
        BY <3>1, <2>1, <2>2, <2>4
      <3>2. CASE frame # None /\ frame.choices = frame'.choices
        BY <3>2, <1>2, <2>1, <2>2, <2>3 DEF Dwelling
      <3>3. CASE frame # None /\ frame.choices # frame'.choices
        <4>1. held' # held
          BY <3>3, <1>2, <2>1 DEF Dwelling
        <4> QED
          BY <3>3, <4>1, <2>1, <2>2, <2>3
      <3> QED
        BY <3>1, <3>2, <3>3
    <2> QED
      BY <1>2, <2>1, <2>2, <2>3, <2>5 DEF Dwelling, Ts
  <1>3. ASSUME NEW noise \in Noises, Step(noise), selector # "hysteresis"
        PROVE  Dwelling'
    BY <1>3 DEF Dwelling, Step
  <1>4. CASE UNCHANGED vars
    BY <1>4 DEF Dwelling, vars, state, Ts
  <1> QED
    BY <1>1, <1>2, <1>3, <1>4 DEF Next

\* For any number of links, any evidence and any dwell time, hysteresis leaves a link that
\* is seen up only after a whole dwell.
THEOREM DwellDampsHolds ==
  ASSUME NoneIsNoFrame
  PROVE  Spec => DwellDamps
  <1> DEFINE Leaving ==
        (selector = "hysteresis" /\ frame # None /\ frame' # frame) =>
          \A t \in DOMAIN frame'.choices :
            LET old == frame.choices[t]
            IN  (old # None /\ frame'.choices[t] # old /\ ObservedUp(frame'.evidence, old))
                  => now - moved >= Dwell
  <1>1. Init => Dwelling
    BY DEF Init, Dwelling
  <1>2. Dwelling /\ [Next]_vars => Dwelling'
    BY DwellingStep
  <1>3. Dwelling /\ [Next]_vars => [Leaving]_vars
    <2> SUFFICES ASSUME Dwelling, [Next]_vars, selector = "hysteresis", frame # None,
                        frame' # frame
                 PROVE  Leaving
      OBVIOUS
    <2>1. PICK noise \in Noises : Step(noise)
      BY DEF Next, Happen, vars
    <2>2. PICK ev : /\ frame'.evidence = ev
                    /\ frame'.choices = [t \in Ts |-> Damped(ev).held]
      BY <2>1, HysteresisStep
    <2>3. SUFFICES ASSUME NEW t \in Ts, frame.choices[t] # None,
                          frame'.choices[t] # frame.choices[t],
                          ObservedUp(ev, frame.choices[t])
                   PROVE  now - moved >= Dwell
      BY <2>2
    <2>4. /\ frame.choices[t] = held /\ frame'.choices[t] = Damped(ev).held
          /\ now \in Nat /\ since \in Nat /\ moved \in Nat /\ moved <= since
      BY <2>2 DEF Dwelling
    <2>5. now - since >= Dwell
      BY <2>3, <2>4, DampedKeeps
    <2> QED
      BY <2>4, <2>5, SimulationAssumption
  <1> QED
    BY <1>1, <1>2, <1>3, PTL DEF Spec, DwellDamps

-----------------------------------------------------------------------------
(* What holds in every run *)

LEMMA StepTypes ==
  ASSUME TypeOK, NEW noise \in Noises, Step(noise)
  PROVE  TypeOK'
  <1> DEFINE ev == Evidence(noise)
             choices == ChoicesOf(ev)
  <1>1. /\ now \in Nat /\ now' = now + 1 /\ now' \in 0..MaxTime /\ selector' = selector
        /\ dark' = dark /\ foggy' = foggy /\ obstructed' = obstructed /\ silent' = silent
        /\ reachable' = reachable
    BY SimulationAssumption DEF TypeOK, Step, truth
  <1>2. \A t \in DOMAIN frame'.choices : frame'.choices[t] \in Ids \cup {None}
    <2>1. frame' = Frame(ev, choices)
      BY DEF Step
    <2>2. frame'.choices = choices
      <3> HIDE DEF ev, choices
      <3> QED
        BY <2>1, FrameIs
    <2>3. DOMAIN choices = Ts /\ \A t \in Ts : choices[t] \in Ids \cup {None}
      BY ChoicesAre
    <2> QED
      BY <2>2, <2>3
  <1>3. carried' \in [Ids -> 0..Allowance]
    <2>1. \A id \in Ids : Cardinality(Carries(choices, id)) \in Nat
      <3>1. DOMAIN choices = Ts /\ IsFiniteSet(Ts)
        BY ChoicesAre, ListedIsFinite, FleetAssumption DEF Ts
      <3> HIDE DEF choices
      <3>2. \A id \in Ids : IsFiniteSet(Carries(choices, id))
        BY <3>1, FS_Subset DEF Carries
      <3> QED
        BY <3>2, FS_CardinalityType
    <2>2. carried' = Carry(choices)
      BY DEF Step
    <2> HIDE DEF choices
    <2>3. \A id \in Ids : carried[id] \in 0..Allowance
      BY DEF TypeOK
    <2> QED
      BY <2>1, <2>2, <2>3, SimulationAssumption DEF Carry
  <1>4. held' \in Ids \cup {None} /\ since' \in 0..MaxTime
    <2>1. CASE selector = "hysteresis"
      <3>1. held' = Damped(ev).held /\ since' = Damped(ev).since
        BY <2>1 DEF Step
      <3>2. Damped(ev).held \in Ids \cup {None}
        BY <1>1, DampedIs DEF TypeOK
      <3>3. Damped(ev).since \in {now, since}
        BY DEF Damped
      <3> QED
        BY <1>1, <3>1, <3>2, <3>3 DEF TypeOK
    <2>2. CASE selector # "hysteresis"
      BY <2>2 DEF Step, TypeOK
    <2> QED
      BY <2>1, <2>2
  <1>5. until' \in Nat \cup {None}
    BY <1>1, SimulationAssumption DEF Step, Renewed, TypeOK
  <1> QED
    BY <1>1, <1>2, <1>3, <1>4, <1>5 DEF TypeOK

\* Whatever the fleet, the policy, the noise and the events: every choice is a link of the
\* site or none, and no link carries more than its allowance.
THEOREM Typing == Spec => []TypeOK
  <1>1. Init => TypeOK
    BY SimulationAssumption DEF Init, TypeOK
  <1>2. TypeOK /\ [Next]_vars => TypeOK'
    <2> SUFFICES ASSUME TypeOK, [Next]_vars
                 PROVE  TypeOK'
      OBVIOUS
    <2>1. ASSUME NEW e \in Events, Happen(e)
          PROVE  TypeOK'
      <3>1. UNCHANGED <<now, selector, carried, held, since, until, frame>>
        BY <2>1 DEF Happen, state
      <3>2. reachable' \in BOOLEAN
        BY <2>1 DEF Happen, TypeOK
      <3>3. ASSUME NEW S \in SUBSET Ids, NEW on \in {"link_down", "fog", "obstruct", "sensor_fail"},
                   NEW off
            PROVE  Toggled(S, on, off, e) \in SUBSET Ids
        <4>1. e.kind = on => e.target \in Ids
          BY EventsAssumption
        <4> QED
          BY <4>1 DEF Toggled
      <3>4. dark' \cup foggy' \cup obstructed' \cup silent' \subseteq Ids
        BY <2>1, <3>3 DEF Happen, TypeOK
      <3> QED
        BY <3>1, <3>2, <3>4 DEF TypeOK
    <2>2. ASSUME NEW noise \in Noises, Step(noise)
          PROVE  TypeOK'
      BY <2>2, StepTypes
    <2>3. CASE UNCHANGED vars
      BY <2>3 DEF vars, truth, state, TypeOK
    <2> QED
      BY <2>1, <2>2, <2>3 DEF Next
  <1> QED
    BY <1>1, <1>2, PTL DEF Spec

\* No selector on any fleet chooses a link that is down at the time, in whatever way
\* links fail, lie in fog or fall silent.
THEOREM ChosenIsUpHolds == Spec => []ChosenIsUp
  <1>1. Init => ChosenIsUp
    BY DEF Init, ChosenIsUp
  <1>2. TypeOK /\ ChosenIsUp /\ [Next]_vars => ChosenIsUp'
    <2> SUFFICES ASSUME TypeOK, ChosenIsUp, [Next]_vars
                 PROVE  ChosenIsUp'
      OBVIOUS
    <2>1. ASSUME NEW noise \in Noises, Step(noise)
          PROVE  ChosenIsUp'
      <3> DEFINE ev == Evidence(noise)
                 choices == ChoicesOf(ev)
      <3>1. frame' = Frame(ev, choices)
        BY <2>1 DEF Step
      <3>2. \A t \in DOMAIN choices :
              choices[t] # None => choices[t] \in Ids /\ ObservedUp(ev, choices[t])
        BY ChoicesAre
      <3>3. \A id \in Ids : ObservedUp(ev, id) => IsUp(Link(id))
        BY WhatIsSeen DEF TypeOK
      <3> HIDE DEF choices, ev
      <3>4. frame'.down = Down(choices)
        BY <3>1, FrameIs
      <3>5. frame'.down = {}
        BY <3>2, <3>3, <3>4 DEF Down, Served
      <3> QED
        BY <3>5 DEF ChosenIsUp
    <2>2. CASE frame' = frame
      BY <2>2 DEF ChosenIsUp
    <2> QED
      BY <2>1, <2>2 DEF Next, Happen, vars
  <1> QED
    BY <1>1, <1>2, Typing, PTL DEF Spec

\* Greedy, the static list and hysteresis never leave a class without a link while one is
\* seen up.
THEOREM ServesWhenItCanHolds == Spec => []ServesWhenItCan
  <1>1. Init => ServesWhenItCan
    BY DEF Init, ServesWhenItCan
  <1>2. TypeOK /\ ServesWhenItCan /\ [Next]_vars => ServesWhenItCan'
    <2> SUFFICES ASSUME TypeOK, ServesWhenItCan, [Next]_vars
                 PROVE  ServesWhenItCan'
      OBVIOUS
    <2>1. ASSUME NEW noise \in Noises, Step(noise)
          PROVE  ServesWhenItCan'
      <3> DEFINE ev == Evidence(noise)
                 choices == ChoicesOf(ev)
      <3>1. frame' = Frame(ev, choices) /\ selector' = selector
        BY <2>1 DEF Step
      <3>2. selector # "governed" =>
              \A t \in DOMAIN choices : choices[t] = None => \A id \in Ids : ~ObservedUp(ev, id)
        BY ChoicesAre
      <3> HIDE DEF choices, ev
      <3>3. /\ frame'.refused = DOMAIN choices \ Served(choices)
            /\ frame'.evidence = ev
        BY <3>1, FrameIs
      <3> QED
        BY <3>1, <3>2, <3>3 DEF ServesWhenItCan, Served
    <2>2. CASE frame' = frame /\ selector' = selector
      BY <2>2 DEF ServesWhenItCan
    <2> QED
      BY <2>1, <2>2 DEF Next, Happen, vars
  <1> QED
    BY <1>1, <1>2, Typing, PTL DEF Spec

\* Readings of the step they are decided on are never from the future.
LEMMA AsOfNow ==
  ASSUME now \in Int, NEW noise
  PROVE  AsOf(Evidence(noise), now) = Evidence(noise)
  <1> DEFINE ev == Evidence(noise)
  <1>1. ev = [p \in DOMAIN ev |-> ev[p]]
    BY DEF Evidence
  <1>2. \A p \in DOMAIN ev : ev[p].at = now
    BY DEF Evidence
  <1>3. now <= now + MaxClockSkew
    BY ClockSkewAssumption
  <1> HIDE DEF ev
  <1>4. {p \in DOMAIN ev : ev[p].at <= now + MaxClockSkew} = DOMAIN ev
    BY <1>2, <1>3
  <1>5. AsOf(ev, now) = ev
    BY <1>1, <1>4 DEF AsOf, Restrict
  <1> QED
    BY <1>5 DEF ev

\* The rules behind a choice: the policy in force has one for every requirement of the
\* class, and for every allowance unless it is the floor.
LEMMA RulesInForce ==
  ASSUME NEW class \in Classes
  PROVE  LET policy == IF Degraded THEN FloorBundle(Links, Classes) ELSE Policy0
         IN  /\ policy.links = Links
             /\ class.max_rtt # None =>
                  [kind |-> "max_rtt", class |-> class.id] \in policy.rules
             /\ ~class.allow_metered =>
                  [kind |-> "metered", class |-> class.id] \in policy.rules
             /\ class.jurisdictions # None =>
                  [kind |-> "jurisdiction", class |-> class.id] \in policy.rules
             /\ class.encryption =>
                  [kind |-> "encryption", class |-> class.id] \in policy.rules
             /\ ~Degraded => \A l \in Links : HasQuota(l) =>
                  \E r \in policy.rules :
                    r.kind = "quota" /\ r.type = l.type /\ r.threshold \in 0..100
  <1>1. CASE Degraded
    <2>1. FloorBundle(Links, Classes).links = Links
      BY DEF FloorBundle
    <2>2. FloorClassRules(Classes) \subseteq FloorBundle(Links, Classes).rules
      BY DEF FloorBundle
    <2>3. /\ class.max_rtt # None =>
               [kind |-> "max_rtt", class |-> class.id] \in FloorClassRules(Classes)
          /\ [kind |-> "metered", class |-> class.id] \in FloorClassRules(Classes)
          /\ class.jurisdictions # None =>
               [kind |-> "jurisdiction", class |-> class.id] \in FloorClassRules(Classes)
          /\ class.encryption =>
               [kind |-> "encryption", class |-> class.id] \in FloorClassRules(Classes)
      BY DEF FloorClassRules
    <2> QED
      BY <1>1, <2>1, <2>2, <2>3
  <1>2. CASE ~Degraded
    BY <1>2, PolicyAssumption DEF Links
  <1> QED
    BY <1>1, <1>2

\* What the agent permits breaks nothing that it can know of.
LEMMA PermittedIsAllowed ==
  ASSUME TypeOK, NEW noise \in Noises, NEW t \in Ts,
         NEW id \in Decided(Evidence(noise))[t], ObservedUp(Evidence(noise), id)
  PROVE  /\ Violations(t, id) \subseteq {"latency"} \cup (IF Degraded THEN {"quota"} ELSE {})
         /\ "latency" \in Violations(t, id) =>
              \E o \in Latest(Evidence(noise), id, "rtt_ms") :
                o.value <= (CHOOSE c \in Classes : c.id = t).max_rtt
  <1> DEFINE ev == Evidence(noise)
             policy == IF Degraded THEN FloorBundle(Links, Classes) ELSE Policy0
             class == CHOOSE c \in Classes : c.id = t
             link == Link(id)
  <1>1. now \in Int
    BY DEF TypeOK
  <1>2. class \in Classes /\ class.id = t
    BY ClassOf
  <1>3. Decided(ev)[t] = Permitted(policy, class, ev, now)
    BY DEF Decided, Ts
  <1>4. AsOf(ev, now) = ev
    BY <1>1, AsOfNow
  <1>5. /\ id \in Ids /\ link \in Links /\ link.id = id
        /\ \A r \in policy.rules : ~Excludes(r, link, class, ev, now)
    <2>1. policy.links = Links
      BY <1>2, RulesInForce
    <2> HIDE DEF policy, ev, class
    <2>2. PICK k \in Links :
            /\ k.id = id
            /\ \A r \in policy.rules : ~Excludes(r, k, class, ev, now)
      BY <1>3, <1>4, <2>1 DEF Permitted, ev
    <2>3. id \in Ids /\ k = link
      BY <2>2, LinkOf
    <2> QED
      BY <2>2, <2>3
  <1>6. ~(~class.allow_metered /\ link.metered)
    <2> DEFINE r == [kind |-> "metered", class |-> class.id]
    <2> SUFFICES ASSUME ~class.allow_metered, link.metered
                 PROVE  FALSE
      OBVIOUS
    <2>1. r \in policy.rules
      BY <1>2, RulesInForce
    <2>2. r.kind = "metered" /\ r.class = class.id
      OBVIOUS
    <2> HIDE DEF policy, class, link, ev, r
    <2>3. Metered(r, link, class)
      BY <2>2 DEF Metered
    <2> QED
      BY <1>5, <2>1, <2>2, <2>3 DEF Excludes
  <1>7. ~(/\ class.jurisdictions # None
          /\ link.jurisdictions = {} \/ ~(link.jurisdictions \subseteq class.jurisdictions))
    <2> DEFINE r == [kind |-> "jurisdiction", class |-> class.id]
    <2> SUFFICES ASSUME class.jurisdictions # None,
                        link.jurisdictions = {}
                          \/ ~(link.jurisdictions \subseteq class.jurisdictions)
                 PROVE  FALSE
      OBVIOUS
    <2>1. r \in policy.rules
      BY <1>2, RulesInForce
    <2>2. r.kind = "jurisdiction" /\ r.class = class.id
      OBVIOUS
    <2> HIDE DEF policy, class, link, ev, r
    <2>3. Jurisdiction(r, link, class)
      BY <2>2 DEF Jurisdiction
    <2> QED
      BY <1>5, <2>1, <2>2, <2>3 DEF Excludes
  <1>8. ~(class.encryption /\ ~link.encrypted)
    <2> DEFINE r == [kind |-> "encryption", class |-> class.id]
    <2> SUFFICES ASSUME class.encryption, ~link.encrypted
                 PROVE  FALSE
      OBVIOUS
    <2>1. r \in policy.rules
      BY <1>2, RulesInForce
    <2>2. r.kind = "encryption" /\ r.class = class.id
      OBVIOUS
    <2> HIDE DEF policy, class, link, ev, r
    <2>3. Encryption(r, link, class)
      BY <2>2 DEF Encryption
    <2> QED
      BY <1>5, <2>1, <2>2, <2>3 DEF Excludes
  <1>9. ~Degraded => ~(HasQuota(link) /\ QuotaUsed(id) >= 100)
    <2> SUFFICES ASSUME ~Degraded, HasQuota(link)
                 PROVE  ~(QuotaUsed(id) >= 100)
      OBVIOUS
    <2>1. PICK r \in policy.rules :
            r.kind = "quota" /\ r.type = link.type /\ r.threshold \in 0..100
      BY <1>2, <1>5, RulesInForce
    <2>2. Latest(ev, id, "quota_used_pct") = {Reading(id, "quota_used_pct", QuotaUsed(id))}
      BY <1>1, <1>5, WhatIsSeen
    <2>3. Reading(id, "quota_used_pct", QuotaUsed(id)).value = QuotaUsed(id)
      BY DEF Reading
    <2>4. QuotaUsed(id) \in Int
      BY <1>5, SimulationAssumption DEF TypeOK, QuotaUsed
    <2> HIDE DEF policy, class, link, ev
    <2>5. ~Quota(r, link, ev)
      BY <1>5, <2>1 DEF Excludes
    <2>6. QuotaUsed(id) < r.threshold
      BY <1>5, <2>1, <2>2, <2>3, <2>5 DEF Quota
    <2> QED
      BY <2>1, <2>4, <2>6
  <1>10. class.max_rtt # None => \E o \in Latest(ev, id, "rtt_ms") : o.value <= class.max_rtt
    <2> DEFINE r == [kind |-> "max_rtt", class |-> class.id]
    <2> SUFFICES ASSUME class.max_rtt # None
                 PROVE  \E o \in Latest(ev, id, "rtt_ms") : o.value <= class.max_rtt
      OBVIOUS
    <2>1. r \in policy.rules
      BY <1>2, RulesInForce
    <2>2. r.kind = "max_rtt" /\ r.class = class.id
      OBVIOUS
    <2> HIDE DEF policy, class, link, ev, r
    <2>3. ~MaxRtt(r, link, class, ev)
      BY <1>5, <2>1, <2>2 DEF Excludes
    <2> QED
      BY <1>5, <2>2, <2>3 DEF MaxRtt
  <1>11. "latency" \in Violations(t, id) => class.max_rtt # None
    BY Zenon DEF Violations
  <1>12. \A v \in Violations(t, id) :
           \/ v = "latency"
           \/ v = "quota" /\ Degraded
    BY <1>6, <1>7, <1>8, <1>9, Zenon DEF Violations
  <1> QED
    BY <1>10, <1>11, <1>12

\* A class that is permitted anything is served from that or not at all.
LEMMA ServedFromItsOwn ==
  ASSUME TypeOK, selector = "governed", NEW noise \in Noises, NEW t \in Ts,
         Decided(Evidence(noise))[t] # {}, ChoicesOf(Evidence(noise))[t] # None
  PROVE  ChoicesOf(Evidence(noise))[t] \in Decided(Evidence(noise))[t]
  <1> DEFINE ev == Evidence(noise)
             decided == Decided(ev)
  <1>1. decided \in [Ts -> SUBSET Ids]
    BY DecidedIs
  <1>2. ChoicesOf(ev) = GovernedChoice(ev, decided)
    BY DEF ChoicesOf
  <1>3. ChoicesOf(ev)[t] = BestByRtt(ev, decided[t])
    BY <1>1, <1>2 DEF GovernedChoice
  <1>4. LET best == BestByRtt(ev, decided[t])
        IN  best = None \/ best \in decided[t]
    BY <1>1, BestIs DEF TypeOK
  <1> QED
    BY <1>3, <1>4

\* For every policy that has a rule for what its classes require, and for all links, noises
\* and events: a class that is permitted anything breaks no requirement, except on the floor
\* a spent allowance, and a latency where the link reported one within the limit.
THEOREM PermittedMeansAllowedHolds == Spec => []PermittedMeansAllowed
  <1>1. Init => PermittedMeansAllowed
    BY DEF Init, PermittedMeansAllowed
  <1>2. TypeOK /\ PermittedMeansAllowed /\ [Next]_vars => PermittedMeansAllowed'
    <2> SUFFICES ASSUME TypeOK, PermittedMeansAllowed, [Next]_vars
                 PROVE  PermittedMeansAllowed'
      OBVIOUS
    <2>1. ASSUME NEW noise \in Noises, Step(noise)
          PROVE  PermittedMeansAllowed'
      <3> DEFINE ev == Evidence(noise)
                 choices == ChoicesOf(ev)
      <3>1. frame' = Frame(ev, choices) /\ selector' = selector
        BY <2>1 DEF Step
      <3>2. /\ DOMAIN choices = Ts
            /\ \A t \in Served(choices) : ObservedUp(ev, choices[t])
        BY ChoicesAre DEF Served
      <3>3. ASSUME selector = "governed", NEW t \in Served(choices), Decided(ev)[t] # {}
            PROVE  /\ Violations(t, choices[t])
                        \subseteq {"latency"} \cup (IF Degraded THEN {"quota"} ELSE {})
                   /\ "latency" \in Violations(t, choices[t]) =>
                        \E o \in Latest(ev, choices[t], "rtt_ms") :
                          o.value <= (CHOOSE c \in Classes : c.id = t).max_rtt
        <4>1. t \in Ts /\ choices[t] # None /\ ObservedUp(ev, choices[t])
          BY <3>2, <3>3 DEF Served
        <4>2. choices[t] \in Decided(ev)[t]
          BY <3>3, <4>1, ServedFromItsOwn
        <4> HIDE DEF choices
        <4> QED
          BY <4>1, <4>2, PermittedIsAllowed
      <3> HIDE DEF choices, ev
      <3>4. /\ frame'.violations = [t \in Served(choices) |-> Violations(t, choices[t])]
            /\ frame'.choices = choices /\ frame'.permitted = Decided(ev)
            /\ frame'.evidence = ev
        BY <3>1, FrameIs
      <3>5. selector = "governed" => (frame'.degraded <=> Degraded)
        BY <3>1, FrameTells
      <3> QED
        BY <3>1, <3>3, <3>4, <3>5 DEF PermittedMeansAllowed
    <2>2. CASE frame' = frame /\ selector' = selector
      BY <2>2 DEF PermittedMeansAllowed
    <2> QED
      BY <2>1, <2>2 DEF Next, Happen, vars
  <1> QED
    BY <1>1, <1>2, Typing, PTL DEF Spec
=============================================================================
