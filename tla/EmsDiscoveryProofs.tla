-------------------------- MODULE EmsDiscoveryProofs --------------------------
(***************************************************************************)
(* Proofs about EmsDiscovery, for any nodes in any place.  A route learnt  *)
(* from a flood leads to one who has put the same flood on the air, so a   *)
(* route that is learnt now, which makes its node put the flood on the     *)
(* air, cannot be led back to by routes of the same flood; nor by routes   *)
(* of floods that did not overlap with it, since who has put on the air a  *)
(* flood that is not over has its route from that flood, or from one that  *)
(* overlaps with it.                                                       *)
(***************************************************************************)
EXTENDS EmsDiscovery, WellFoundedInduction, TLAPS

-----------------------------------------------------------------------------
(* Iteration of a function: what Within does. *)

Iterates(D, F, a, k, g) ==
  /\ g \in [0 .. k -> D] /\ g[0] = a
  /\ \A i \in 1 .. k : g[i] = F[g[i - 1]]

\* ... of which no more is known than what it does from one step to the next.
Follows(D, F, a, k, h) ==
  h[0] = a /\ \A i \in 1 .. k : h[i - 1] \in D => h[i] = F[h[i - 1]]

\* Every set of natural numbers that is not empty has a least member.
LEMMA LeastMember ==
  ASSUME NEW Numbers \in SUBSET Nat, Numbers # {}
  PROVE  \E m \in Numbers : \A n \in Numbers : m <= n
<1>1. \E m \in Numbers : \A n \in Numbers : ~ (<<n, m>> \in OpToRel(<, Nat))
  BY NatLessThanWellFounded, WFMin
<1>2. \A m, n \in Numbers : <<n, m>> \in OpToRel(<, Nat) <=> n < m
  BY DEF OpToRel
<1>3. PICK m \in Numbers : \A n \in Numbers : ~ (n < m)
  BY <1>1, <1>2
<1>4. \A n \in Numbers : m <= n
  BY <1>3, SMT
<1> QED
  BY <1>4

\* A function can be iterated.
LEMMA IterationExists ==
  ASSUME NEW D, NEW F \in [D -> D], NEW a \in D, NEW k \in Nat
  PROVE  \E g : Iterates(D, F, a, k, g)
<1> DEFINE Bad == {m \in Nat : ~ \E g : Iterates(D, F, a, m, g)}
<1>1. SUFFICES ASSUME Bad # {} PROVE FALSE
  OBVIOUS
<1>2. PICK m \in Bad : \A n \in Bad : m <= n
  <2>1. Bad \in SUBSET Nat
    OBVIOUS
  <2> HIDE DEF Bad
  <2> QED
    BY <1>1, <2>1, LeastMember
<1>3. CASE m = 0
  <2> DEFINE g == [i \in 0 .. m |-> a]
  <2>1. g \in [0 .. m -> D] /\ g[0] = a /\ 1 .. m = {}
    BY <1>3
  <2>2. Iterates(D, F, a, m, g)
    BY <2>1 DEF Iterates
  <2> QED
    BY <2>2
<1>4. CASE m # 0
  <2>1. m \in Nat /\ m - 1 \in Nat /\ m - 1 < m
    BY <1>4
  <2>2. m - 1 \notin Bad
    <3> HIDE DEF Bad
    <3> QED
      BY <1>2, <2>1
  <2>3. PICK h : Iterates(D, F, a, m - 1, h)
    BY <2>1, <2>2
  <2> DEFINE g == [i \in 0 .. m |-> IF i = m THEN F[h[m - 1]] ELSE h[i]]
  <2>4. \A i \in 0 .. m : i # m => i \in 0 .. m - 1
    BY <2>1
  <2>5. h \in [0 .. m - 1 -> D] /\ h[0] = a /\ m - 1 \in 0 .. m - 1
    BY <2>1, <2>3 DEF Iterates
  <2>6. g \in [0 .. m -> D]
    BY <2>4, <2>5
  <2>7. g[0] = a
    BY <1>4, <2>1, <2>5
  <2>8. ASSUME NEW i \in 1 .. m PROVE g[i] = F[g[i - 1]]
    <3>1. i - 1 \in 0 .. m /\ i - 1 # m /\ i \in 0 .. m
      BY <2>1
    <3>2. g[i - 1] = h[i - 1]
      BY <3>1
    <3>3. CASE i = m
      BY <3>1, <3>2, <3>3
    <3>4. CASE i # m
      <4>1. i \in 1 .. m - 1
        BY <2>1, <3>4
      <4>2. h[i] = F[h[i - 1]]
        BY <2>3, <4>1 DEF Iterates
      <4> QED
        BY <3>1, <3>2, <3>4, <4>2
    <3> QED
      BY <3>3, <3>4
  <2> HIDE DEF g
  <2>9. Iterates(D, F, a, m, g)
    BY <2>6, <2>7, <2>8 DEF Iterates
  <2> QED
    BY <2>9
<1> QED
  BY <1>3, <1>4

\* ... in one way.
LEMMA IterationIs ==
  ASSUME NEW D, NEW F \in [D -> D], NEW a \in D, NEW k \in Nat, NEW g, NEW h,
         Iterates(D, F, a, k, g), Follows(D, F, a, k, h)
  PROVE  \A i \in 0 .. k : h[i] = g[i]
<1> DEFINE Bad == {i \in 0 .. k : h[i] # g[i]}
<1>1. SUFFICES ASSUME Bad # {} PROVE FALSE
  OBVIOUS
<1>2. PICK m \in Bad : \A n \in Bad : m <= n
  <2>1. Bad \in SUBSET Nat
    OBVIOUS
  <2> HIDE DEF Bad
  <2> QED
    BY <1>1, <2>1, LeastMember
<1>3. m # 0
  BY DEF Iterates, Follows
<1>4. m \in 1 .. k /\ m - 1 \in 0 .. k /\ m - 1 < m
  BY <1>3
<1>5. m - 1 \notin Bad
  <2> HIDE DEF Bad
  <2> QED
    BY <1>2, <1>4
<1>6. h[m - 1] = g[m - 1] /\ g[m - 1] \in D
  BY <1>4, <1>5 DEF Iterates
<1>7. h[m] = g[m]
  BY <1>4, <1>6 DEF Iterates, Follows
<1> QED
  BY <1>7

-----------------------------------------------------------------------------
(* The nodes an origin reaches. *)

\* A set of nodes and those who hear one of them.
Wider == [N \in SUBSET Nodes |-> N \cup UNION {InRange[m] : m \in N}]

LEMMA WiderType == Wider \in [SUBSET Nodes -> SUBSET Nodes]
BY DiscoveryAssumption DEF Wider

LEMMA WithinIs ==
  ASSUME NEW n \in Nodes, NEW k \in Nat
  PROVE  \E g : Iterates(SUBSET Nodes, Wider, {n}, k, g) /\ Within(n, k) = g[k]
<1> DEFINE Reach(h) ==
      h = [i \in 0 .. k |->
             IF i = 0 THEN {n} ELSE h[i - 1] \cup UNION {InRange[m] : m \in h[i - 1]}]
<1>1. PICK g : Iterates(SUBSET Nodes, Wider, {n}, k, g)
  BY WiderType, IterationExists
<1>2. \A i \in 0 .. k :
        g[i] = IF i = 0 THEN {n} ELSE g[i - 1] \cup UNION {InRange[m] : m \in g[i - 1]}
  <2> SUFFICES ASSUME NEW i \in 0 .. k
               PROVE  g[i] = IF i = 0 THEN {n}
                             ELSE g[i - 1] \cup UNION {InRange[m] : m \in g[i - 1]}
    OBVIOUS
  <2>1. CASE i = 0
    BY <1>1, <2>1 DEF Iterates
  <2>2. CASE i # 0
    <3>1. i \in 1 .. k /\ i - 1 \in 0 .. k
      BY <2>2
    <3>2. g[i] = Wider[g[i - 1]] /\ g[i - 1] \in SUBSET Nodes
      BY <1>1, <3>1 DEF Iterates
    <3> QED
      BY <2>2, <3>2 DEF Wider
  <2> QED
    BY <2>1, <2>2
<1>3. g = [i \in 0 .. k |-> g[i]]
  BY <1>1 DEF Iterates
<1>4. Reach(g)
  BY <1>2, <1>3
<1>5. \E h : Reach(h) /\ Within(n, k) = h[k]
  <2> DEFINE at == CHOOSE h : Reach(h)
  <2>1. Reach(at)
    BY <1>4
  <2>2. Within(n, k) = at[k]
    BY DEF Within
  <2> HIDE DEF at, Reach
  <2> QED
    BY <2>1, <2>2
<1>6. PICK reach : Reach(reach) /\ Within(n, k) = reach[k]
  BY <1>5
<1>7. \A i \in 0 .. k :
        reach[i] = IF i = 0 THEN {n} ELSE reach[i - 1] \cup UNION {InRange[m] : m \in reach[i - 1]}
  BY <1>6
<1>8. reach[0] = {n} /\ {n} \in SUBSET Nodes
  <2>1. 0 \in 0 .. k
    OBVIOUS
  <2> QED
    BY <1>7, <2>1
<1>9. \A i \in 1 .. k : reach[i - 1] \in SUBSET Nodes => reach[i] = Wider[reach[i - 1]]
  <2>1. \A i \in 1 .. k : i \in 0 .. k /\ i # 0
    OBVIOUS
  <2> QED
    BY <1>7, <2>1 DEF Wider
<1>10. Follows(SUBSET Nodes, Wider, {n}, k, reach)
  BY <1>8, <1>9 DEF Follows
<1> HIDE DEF Reach
<1>11. \A i \in 0 .. k : reach[i] = g[i]
  <2> DEFINE D == SUBSET Nodes
             a == {n}
  <2>1. a \in D /\ Wider \in [D -> D]
    BY WiderType
  <2>2. Iterates(D, Wider, a, k, g) /\ Follows(D, Wider, a, k, reach)
    BY <1>1, <1>10
  <2> HIDE DEF D, a
  <2> QED
    BY <2>1, <2>2, IterationIs
<1>12. k \in 0 .. k
  OBVIOUS
<1>13. Within(n, k) = g[k]
  BY <1>6, <1>11, <1>12
<1> QED
  BY <1>1, <1>13

\* One hop more.
LEMMA WithinNext ==
  ASSUME NEW n \in Nodes, NEW k \in Nat
  PROVE  /\ Within(n, 0) = {n} /\ Within(n, k) \in SUBSET Nodes
         /\ Within(n, k + 1) = Wider[Within(n, k)]
<1>1. Within(n, 0) = {n}
  <2>1. PICK g : Iterates(SUBSET Nodes, Wider, {n}, 0, g) /\ Within(n, 0) = g[0]
    BY WithinIs
  <2> QED
    BY <2>1 DEF Iterates
<1>2. PICK g : Iterates(SUBSET Nodes, Wider, {n}, k, g) /\ Within(n, k) = g[k]
  BY WithinIs
<1>3. PICK h : Iterates(SUBSET Nodes, Wider, {n}, k + 1, h) /\ Within(n, k + 1) = h[k + 1]
  <2>1. k + 1 \in Nat
    OBVIOUS
  <2> QED
    BY <2>1, WithinIs
<1>4. h[0] = {n} /\ \A i \in 1 .. k : h[i] = Wider[h[i - 1]]
  BY <1>3 DEF Iterates
<1>5. h[k] = g[k] /\ g[k] \in SUBSET Nodes
  <2>1. {n} \in SUBSET Nodes /\ Follows(SUBSET Nodes, Wider, {n}, k, h)
    BY <1>4 DEF Follows
  <2>2. \A i \in 0 .. k : h[i] = g[i]
    BY <1>2, <2>1, WiderType, IterationIs
  <2> QED
    BY <1>2, <2>2 DEF Iterates
<1>6. h[k + 1] = Wider[h[k]]
  <2>1. k + 1 \in 1 .. k + 1 /\ (k + 1) - 1 = k
    OBVIOUS
  <2> QED
    BY <1>3, <2>1 DEF Iterates
<1> QED
  BY <1>1, <1>2, <1>3, <1>5, <1>6

\* More hops reach no fewer nodes.
LEMMA WithinGrows ==
  ASSUME NEW n \in Nodes, NEW i \in Nat, NEW j \in Nat, i <= j
  PROVE  Within(n, i) \subseteq Within(n, j)
<1> DEFINE Bad == {m \in Nat : i <= m /\ ~ (Within(n, i) \subseteq Within(n, m))}
<1>1. SUFFICES ASSUME Bad # {} PROVE FALSE
  OBVIOUS
<1>2. PICK m \in Bad : \A k \in Bad : m <= k
  <2>1. Bad \in SUBSET Nat
    OBVIOUS
  <2> HIDE DEF Bad
  <2> QED
    BY <1>1, <2>1, LeastMember
<1>3. m # i
  OBVIOUS
<1>4. m - 1 \in Nat /\ i <= m - 1 /\ m - 1 < m /\ (m - 1) + 1 = m
  BY <1>3
<1>5. m - 1 \notin Bad
  <2> HIDE DEF Bad
  <2> QED
    BY <1>2, <1>4
<1>6. Within(n, i) \subseteq Within(n, m - 1)
  BY <1>4, <1>5
<1>7. Within(n, m - 1) \in SUBSET Nodes /\ Within(n, m) = Wider[Within(n, m - 1)]
  BY <1>4, WithinNext
<1>8. Within(n, m - 1) \subseteq Within(n, m)
  BY <1>7 DEF Wider
<1> QED
  BY <1>6, <1>8

\* Who hears a node is one hop further from the origin.
LEMMA WithinHeard ==
  ASSUME NEW n \in Nodes, NEW k \in Nat, NEW m \in Within(n, k), NEW x \in InRange[m]
  PROVE  x \in Within(n, k + 1)
<1> DEFINE N == Within(n, k)
<1>1. N \in SUBSET Nodes /\ Within(n, k + 1) = Wider[N] /\ m \in N
  BY WithinNext
<1> HIDE DEF N
<1>2. x \in Wider[N]
  BY <1>1 DEF Wider
<1> QED
  BY <1>1, <1>2

-----------------------------------------------------------------------------
(* The invariant. *)

\* The rid of a request.
RidOfRequest(r) == [type |-> "request", of |-> r, by |-> Origin[r]]

\* Who has put a request of r on the air, or answered it, has learnt a route
\* from it.
Learnt(r, k) ==
  \E d \in net : /\ d.of = r
                 /\ \/ d.type = "request" /\ d.from = k
                    \/ d.type = "announcement" /\ d.by = k

\* A request is its origin's; who passed it on has registered it, and a
\* discovery has gone as many hops as its depth has lost.
RequestIsHonest(d) ==
  /\ d.of \in issued /\ d.by = Origin[d.of] /\ d.to = Everyone /\ d.end = Nobody
  /\ d.from # Origin[d.of] => RidOfRequest(d.of) \in known[d.from]
  /\ Wanted[d.of] = Everyone =>
       d.depth <= Depth[d.of] /\ d.from \in Within(Origin[d.of], Depth[d.of] - d.depth)

\* An announcement is made by one who has registered the request; its last
\* hop begins or ends at who made it.
AnnouncementIsHonest(d) ==
  /\ d.of \in issued /\ Wanted[d.of] # Nobody /\ d.to \in Nodes
  /\ d.end = Nobody => d.by \in {d.from, d.to}
  /\ d.by # Origin[d.of] => RidOfRequest(d.of) \in known[d.by]
  /\ Wanted[d.of] = Everyone => d.by \in Within(Origin[d.of], Depth[d.of] + 1)

NetIsHonest ==
  \A d \in net : /\ d.type = "request" => RequestIsHonest(d)
                 /\ d.type = "announcement" => AnnouncementIsHonest(d)

IssuedIsSent == \A r \in issued : Flood(Origin[r], r, Depth[r]) \in net

\* Two floods of an origin that are not over overlap.
OverlapsAreTold ==
  \A r, q \in issued :
    r # q /\ Origin[r] = Origin[q] => Over(r) \/ Over(q) \/ {r, q} \in overlapped

\* A route learnt from a flood leads to its origin, or to one who has learnt a
\* route from the same flood; any other is a single hop.
LedByFlood ==
  \A k, u \in Nodes : k # u =>
    /\ flood[k][u] = Nobody => route[k][u] \in {Nobody, u}
    /\ flood[k][u] # Nobody => route[k][u] = u \/ Learnt(flood[k][u], route[k][u])

\* Who has learnt a route from a flood that is not over has still that one, or
\* a single hop, or one of a flood that overlaps with it.
LatestIsKept ==
  \A r \in issued : Wanted[r] # Nobody /\ ~ Over(r) =>
    \A k \in Nodes \ {Origin[r]} : Learnt(r, k) =>
      flood[k][Origin[r]] \in {r, Nobody} \/ {flood[k][Origin[r]], r} \in overlapped

\* No two nodes of N have learnt their routes to u from floods that overlapped.
Apart(u, N) == \A m, n \in N : {flood[m][u], flood[n][u]} \notin overlapped

\* From no set of nodes do the routes to a node outside all lead into it, if
\* they are of floods that did not overlap.
NoCircle ==
  \A u \in Nodes : \A N \in SUBSET (Nodes \ {u}) :
    N # {} /\ Apart(u, N) => \E n \in N : route[n][u] \notin N

IInv == /\ TypeOK /\ NetIsHonest /\ IssuedIsSent /\ OverlapsAreTold
        /\ LedByFlood /\ LatestIsKept /\ NoCircle

-----------------------------------------------------------------------------
(* Lemmas. *)

\* The fields of a datagram are what they say.
LEMMA Fields ==
  ASSUME TypeOK, NEW d \in net
  PROVE  /\ d.type \in {"request", "announcement"} /\ d.of \in Requests /\ d.by \in Nodes
         /\ d.depth \in Nat /\ d.end \in Nodes \cup {Nobody} /\ d.from \in Nodes
         /\ d.to \in Nodes \cup {Everyone}
BY DEF TypeOK, Packages

\* What is put on the air is a package.
LEMMA FloodType ==
  ASSUME NEW n \in Nodes, NEW r \in Requests, NEW depth \in Nat
  PROVE  /\ Flood(n, r, depth) \in Packages
         /\ LET d == Flood(n, r, depth)
            IN  /\ d.type = "request" /\ d.of = r /\ d.by = Origin[r] /\ d.depth = depth
                /\ d.end = Nobody /\ d.from = n /\ d.to = Everyone
<1>1. Origin[r] \in Nodes
  BY DiscoveryAssumption
<1> QED
  BY <1>1 DEF Flood, Packages

LEMMA AnnounceType ==
  ASSUME NEW n \in Nodes, NEW r \in Requests, NEW by \in Nodes, NEW uid \in Nodes,
         NEW end \in Nodes, NEW m \in Nodes
  PROVE  /\ Announce(n, r, by, end, m, uid) \in Packages
         /\ LET d == Announce(n, r, by, end, m, uid)
            IN  /\ d.type = "announcement" /\ d.of = r /\ d.by = by /\ d.from = n /\ d.to = m
                /\ d.end = Nobody => m = uid
<1>1. Nobody \notin Nodes /\ 0 \in Nat
  BY DiscoveryAssumption
<1> QED
  BY <1>1 DEF Announce, Packages

\* Who has learnt a route from a flood and is not its origin has registered it.
LEMMA LearntIsKnown ==
  ASSUME IInv, NEW r \in Requests, NEW k \in Nodes, k # Origin[r], Learnt(r, k)
  PROVE  RidOfRequest(r) \in known[k]
<1>1. PICK d \in net : /\ d.of = r
                       /\ \/ d.type = "request" /\ d.from = k
                          \/ d.type = "announcement" /\ d.by = k
  BY DEF Learnt
<1>2. /\ d.type = "request" => RequestIsHonest(d)
      /\ d.type = "announcement" => AnnouncementIsHonest(d)
  BY DEF IInv, NetIsHonest
<1> QED
  BY <1>1, <1>2 DEF RequestIsHonest, AnnouncementIsHonest

\* The rid of a request on the air.
LEMMA RequestRid ==
  ASSUME IInv, NEW d \in net, d.type = "request"
  PROVE  RidOf(d) = RidOfRequest(d.of) /\ d.by = Origin[d.of] /\ Listeners(d) = InRange[d.from]
<1>1. RequestIsHonest(d)
  BY DEF IInv, NetIsHonest
<1> QED
  BY <1>1 DEF RequestIsHonest, RidOf, RidOfRequest, Listeners

\* While a node that is not its origin may still register a flood, it is not
\* over.
LEMMA NotOver ==
  ASSUME IInv, NEW d \in net, d.type = "request", NEW n \in InRange[d.from],
         n # Origin[d.of], RidOf(d) \notin known[n]
  PROVE  ~ Over(d.of)
BY DEF Over

-----------------------------------------------------------------------------
(* What all steps but Issue have in common. *)

\* Nodes only register more, and put a request on the air only as they
\* register it.
Grows ==
  /\ issued' = issued /\ net \subseteq net' /\ overlapped' = overlapped
  /\ \A k \in Nodes : known[k] \subseteq known'[k]
  /\ \A e \in net' \ net : e.type = "request" =>
       \E d \in net : /\ d.type = "request" /\ d.of = e.of /\ e.by = Origin[e.of]
                      /\ e.from \in InRange[d.from] /\ RidOf(d) \notin known[e.from]

\* A flood that is over stays over: only its origin may still pass it on, and
\* those in its range have had the first copy.
LEMMA OverStays ==
  ASSUME IInv, Grows, NEW r \in issued, Over(r)
  PROVE  Over(r)'
<1> SUFFICES ASSUME NEW e \in net', e.type = "request", e.of = r,
                    NEW x \in InRange[e.from] \ {Origin[r]}
             PROVE  RidOf(e) \in known'[x]
  BY DEF Over, RidOf
<1>0. TypeOK /\ r \in Requests
  BY DEF IInv, TypeOK
<1>1. CASE e \in net
  <2>1. e.from \in Nodes
    BY <1>0, <1>1, Fields
  <2>2. x \in Nodes
    BY <2>1, DiscoveryAssumption
  <2>3. RidOf(e) \in known[x]
    BY <1>1 DEF Over
  <2> QED
    BY <2>2, <2>3 DEF Grows
<1>2. CASE e \notin net
  <2>1. PICK d \in net : /\ d.type = "request" /\ d.of = r /\ e.by = Origin[r]
                         /\ e.from \in InRange[d.from] /\ RidOf(d) \notin known[e.from]
    BY <1>2 DEF Grows
  <2>2. e.from = Origin[r]
    BY <2>1 DEF Over
  <2> DEFINE first == Flood(Origin[r], r, Depth[r])
  <2>3. Origin[r] \in Nodes /\ Depth[r] \in Nat
    BY <1>0, DiscoveryAssumption
  <2>4. first \in net
    BY DEF IInv, IssuedIsSent
  <2>5. first.type = "request" /\ first.of = r /\ first.by = Origin[r] /\ first.from = Origin[r]
    BY <1>0, <2>3, FloodType
  <2> HIDE DEF first
  <2>6. RidOf(first) \in known[x]
    BY <2>2, <2>4, <2>5 DEF Over
  <2>7. RidOf(e) = RidOf(first)
    BY <2>1, <2>5 DEF RidOf
  <2>8. x \in Nodes
    BY <2>2, <2>3, DiscoveryAssumption
  <2> QED
    BY <2>6, <2>7, <2>8 DEF Grows
<1> QED
  BY <1>1, <1>2

\* What is known of the network stays true if it is true of what is new.
LEMMA GrowsKeeps ==
  ASSUME IInv, Grows,
         \A e \in net' \ net : /\ e.type = "request" => RequestIsHonest(e)'
                               /\ e.type = "announcement" => AnnouncementIsHonest(e)'
  PROVE  NetIsHonest' /\ IssuedIsSent' /\ OverlapsAreTold'
<1>1. ASSUME NEW d \in net
      PROVE  /\ d.type = "request" => RequestIsHonest(d)'
             /\ d.type = "announcement" => AnnouncementIsHonest(d)'
  <2>1. d.from \in Nodes /\ d.by \in Nodes
    BY Fields DEF IInv
  <2>2. known[d.from] \subseteq known'[d.from] /\ known[d.by] \subseteq known'[d.by]
    BY <2>1 DEF Grows
  <2>3. /\ d.type = "request" => RequestIsHonest(d)
        /\ d.type = "announcement" => AnnouncementIsHonest(d)
    BY DEF IInv, NetIsHonest
  <2>4. d.type = "request" => RequestIsHonest(d)'
    BY <2>2, <2>3 DEF Grows, RequestIsHonest
  <2>5. d.type = "announcement" => AnnouncementIsHonest(d)'
    BY <2>2, <2>3 DEF Grows, AnnouncementIsHonest
  <2> QED
    BY <2>4, <2>5
<1>2. NetIsHonest'
  BY <1>1 DEF NetIsHonest
<1>3. IssuedIsSent'
  BY DEF IInv, IssuedIsSent, Grows
<1>4. \A r \in issued : Over(r) => Over(r)'
  BY OverStays
<1>5. OverlapsAreTold'
  BY <1>4 DEF IInv, OverlapsAreTold, Grows
<1> QED
  BY <1>2, <1>3, <1>5

\* No route is learnt but to a neighbour, or to oneself.
LEMMA RoutesStay ==
  ASSUME IInv, Grows,
         \A r \in Requests, k \in Nodes : Wanted[r] # Nobody /\ Learnt(r, k)' => Learnt(r, k),
         \A k, u \in Nodes : k # u => \/ route'[k][u] = route[k][u] /\ flood'[k][u] = flood[k][u]
                                      \/ route'[k][u] = u /\ flood'[k][u] = Nobody
  PROVE  LedByFlood' /\ LatestIsKept' /\ NoCircle'
<1>1. ASSUME NEW r, NEW k, Learnt(r, k)
      PROVE  \E d \in net' : /\ d.of = r
                             /\ \/ d.type = "request" /\ d.from = k
                                \/ d.type = "announcement" /\ d.by = k
  BY <1>1 DEF Learnt, Grows
<1>2. LedByFlood'
  <2>1. ASSUME NEW k \in Nodes, NEW u \in Nodes, k # u
        PROVE  /\ flood'[k][u] = Nobody => route'[k][u] \in {Nobody, u}
               /\ flood'[k][u] # Nobody =>
                    \/ route'[k][u] = u
                    \/ \E d \in net' : /\ d.of = flood'[k][u]
                                       /\ \/ d.type = "request" /\ d.from = route'[k][u]
                                          \/ d.type = "announcement" /\ d.by = route'[k][u]
    <3>1. CASE route'[k][u] = u /\ flood'[k][u] = Nobody
      BY <3>1
    <3>2. CASE route'[k][u] = route[k][u] /\ flood'[k][u] = flood[k][u]
      <4>1. /\ flood[k][u] = Nobody => route[k][u] \in {Nobody, u}
            /\ flood[k][u] # Nobody => route[k][u] = u \/ Learnt(flood[k][u], route[k][u])
        BY <2>1 DEF IInv, LedByFlood
      <4> QED
        BY <1>1, <3>2, <4>1
    <3> QED
      BY <2>1, <3>1, <3>2
  <2> QED
    BY <2>1 DEF LedByFlood, Learnt
<1>3. ASSUME NEW r \in issued, Wanted[r] # Nobody, ~ Over(r)',
             NEW k \in Nodes \ {Origin[r]}, Learnt(r, k)'
      PROVE  flood'[k][Origin[r]] \in {r, Nobody} \/ {flood'[k][Origin[r]], r} \in overlapped
  <2>1. r \in Requests
    BY DEF IInv, TypeOK
  <2>2. Origin[r] \in Nodes
    BY <2>1, DiscoveryAssumption
  <2>3. ~ Over(r)
    BY <1>3, OverStays
  <2>4. Learnt(r, k)
    BY <1>3, <2>1
  <2>5. flood[k][Origin[r]] \in {r, Nobody} \/ {flood[k][Origin[r]], r} \in overlapped
    BY <1>3, <2>3, <2>4 DEF IInv, LatestIsKept
  <2>6. flood'[k][Origin[r]] \in {flood[k][Origin[r]], Nobody}
    BY <2>2
  <2> QED
    BY <2>5, <2>6
<1>4. LatestIsKept'
  BY <1>3 DEF LatestIsKept, Learnt, Grows
<1>5. NoCircle'
  <2> SUFFICES ASSUME NEW u \in Nodes, NEW N \in SUBSET (Nodes \ {u}), N # {},
                      \A m, n \in N : {flood'[m][u], flood'[n][u]} \notin overlapped,
                      \A n \in N : route'[n][u] \in N
               PROVE  FALSE
    BY DEF NoCircle, Apart, Grows
  <2>1. \A n \in N : route'[n][u] = route[n][u] /\ flood'[n][u] = flood[n][u]
    OBVIOUS
  <2>2. Apart(u, N)
    BY <2>1 DEF Apart
  <2>3. PICK n \in N : route[n][u] \notin N
    BY <2>2 DEF IInv, NoCircle
  <2> QED
    BY <2>1, <2>3
<1> QED
  BY <1>2, <1>4, <1>5

\* A route is learnt from a request: it leads to one who has learnt from the
\* same flood, and so, by routes of floods that did not overlap with it, not
\* back to who learns it.
LEMMA RouteLearnt ==
  ASSUME IInv, Grows, NEW d \in net, d.type = "request", Wanted[d.of] # Nobody,
         NEW n \in InRange[d.from], RidOf(d) \notin known[n],
         route' = [route EXCEPT ![n][d.by] = d.from],
         flood' = [flood EXCEPT ![n][d.by] = d.of],
         \A r \in Requests, k \in Nodes : Learnt(r, k)' => Learnt(r, k) \/ (r = d.of /\ k = n)
  PROVE  LedByFlood' /\ LatestIsKept' /\ NoCircle'
<1> DEFINE f == d.of
           o == Origin[d.of]
           m == d.from
<1>1. /\ f \in Requests /\ o \in Nodes /\ m \in Nodes /\ d.by = o
      /\ n \in Nodes /\ f \in issued /\ f # Nobody
  <2>1. d.of \in Requests /\ d.from \in Nodes
    BY Fields DEF IInv
  <2>2. RequestIsHonest(d)
    BY DEF IInv, NetIsHonest
  <2> QED
    BY <2>1, <2>2, DiscoveryAssumption DEF RequestIsHonest
<1>2. /\ route \in [Nodes -> [Nodes -> Nodes \cup {Nobody}]]
      /\ flood \in [Nodes -> [Nodes -> Requests \cup {Nobody}]]
  BY DEF IInv, TypeOK
<1>3. \A k, u \in Nodes : /\ route'[k][u] = IF k = n /\ u = o THEN m ELSE route[k][u]
                          /\ flood'[k][u] = IF k = n /\ u = o THEN f ELSE flood[k][u]
  BY <1>1, <1>2
<1>4. Learnt(f, m)
  BY DEF Learnt
<1>5. n # o => ~ Over(f) /\ ~ Learnt(f, n)
  <2>1. RidOf(d) = RidOfRequest(f)
    BY RequestRid
  <2> QED
    BY <1>1, <2>1, NotOver, LearntIsKnown
<1> HIDE DEF f, o, m
<1>6. \A r, k : Learnt(r, k) => \E e \in net' : /\ e.of = r
                                                 /\ \/ e.type = "request" /\ e.from = k
                                                    \/ e.type = "announcement" /\ e.by = k
  BY DEF Learnt, Grows
<1>7. LedByFlood'
  <2>1. ASSUME NEW k \in Nodes, NEW u \in Nodes, k # u
        PROVE  /\ flood'[k][u] = Nobody => route'[k][u] \in {Nobody, u}
               /\ flood'[k][u] # Nobody =>
                    \/ route'[k][u] = u
                    \/ \E e \in net' : /\ e.of = flood'[k][u]
                                       /\ \/ e.type = "request" /\ e.from = route'[k][u]
                                          \/ e.type = "announcement" /\ e.by = route'[k][u]
    <3>1. CASE k = n /\ u = o
      <4>1. route'[k][u] = m /\ flood'[k][u] = f
        BY <1>3, <3>1
      <4> QED
        BY <1>1, <1>4, <1>6, <4>1
    <3>2. CASE ~ (k = n /\ u = o)
      <4>1. route'[k][u] = route[k][u] /\ flood'[k][u] = flood[k][u]
        BY <1>3, <3>2
      <4>2. /\ flood[k][u] = Nobody => route[k][u] \in {Nobody, u}
            /\ flood[k][u] # Nobody => route[k][u] = u \/ Learnt(flood[k][u], route[k][u])
        BY <2>1 DEF IInv, LedByFlood
      <4> QED
        BY <1>6, <4>1, <4>2
    <3> QED
      BY <3>1, <3>2
  <2> QED
    BY <2>1 DEF LedByFlood, Learnt
<1>8. ASSUME NEW r \in issued, Wanted[r] # Nobody, ~ Over(r)',
             NEW k \in Nodes \ {Origin[r]}, Learnt(r, k)'
      PROVE  flood'[k][Origin[r]] \in {r, Nobody} \/ {flood'[k][Origin[r]], r} \in overlapped
  <2>1. r \in Requests
    BY DEF IInv, TypeOK
  <2>2. Origin[r] \in Nodes
    BY <2>1, DiscoveryAssumption
  <2>3. ~ Over(r)
    BY <1>8, OverStays
  <2>4. CASE k = n /\ Origin[r] = o
    <3>1. flood'[k][Origin[r]] = f
      BY <1>1, <1>3, <2>4
    <3>2. r = f \/ {f, r} \in overlapped
      <4>1. ~ Over(f) /\ Origin[f] = o
        BY <1>5, <1>8, <2>4 DEF f, o
      <4> QED
        BY <1>1, <2>3, <2>4, <4>1 DEF IInv, OverlapsAreTold
    <3> QED
      BY <3>1, <3>2
  <2>5. CASE ~ (k = n /\ Origin[r] = o)
    <3>1. Learnt(r, k)
      <4>1. Learnt(r, k) \/ (r = f /\ k = n)
        BY <1>8, <2>1 DEF f
      <4>2. r # f \/ k # n
        BY <2>5 DEF f, o
      <4> QED
        BY <4>1, <4>2
    <3>2. flood[k][Origin[r]] \in {r, Nobody} \/ {flood[k][Origin[r]], r} \in overlapped
      BY <1>8, <2>3, <3>1 DEF IInv, LatestIsKept
    <3>3. flood'[k][Origin[r]] = flood[k][Origin[r]]
      BY <1>3, <2>2, <2>5
    <3> QED
      BY <3>2, <3>3
  <2> QED
    BY <2>4, <2>5
<1>9. LatestIsKept'
  BY <1>8 DEF LatestIsKept, Learnt, Grows
<1>10. NoCircle'
  <2> SUFFICES ASSUME NEW u \in Nodes, NEW N \in SUBSET (Nodes \ {u}), N # {}, Apart(u, N)',
                      \A k \in N : route'[k][u] \in N
               PROVE  FALSE
    BY DEF NoCircle
  <2>0. \A x, y \in N : {flood'[x][u], flood'[y][u]} \notin overlapped
    BY DEF Apart, Grows
  <2>1. n \in N /\ u = o
    <3> SUFFICES ASSUME ~ (n \in N /\ u = o) PROVE FALSE
      OBVIOUS
    <3>1. \A k \in N : route'[k][u] = route[k][u] /\ flood'[k][u] = flood[k][u]
      BY <1>3
    <3>2. Apart(u, N)
      BY <2>0, <3>1 DEF Apart
    <3>3. PICK k \in N : route[k][u] \notin N
      BY <3>2 DEF IInv, NoCircle
    <3> QED
      BY <3>1, <3>3
  <2>2. n # o /\ route'[n][u] = m /\ flood'[n][u] = f /\ m \in N
    BY <1>1, <1>3, <2>1
  <2> DEFINE T == {x \in N : Learnt(f, x)}
  <2>3. m \in T /\ n \notin T /\ T \in SUBSET (Nodes \ {o})
    BY <1>4, <1>5, <2>1, <2>2
  <2>4. ASSUME NEW x \in T
        PROVE  /\ x \in Nodes \ {o} /\ x \in N /\ Learnt(f, x)
               /\ route'[x][o] = route[x][o] /\ flood'[x][o] = flood[x][o]
    BY <1>1, <1>3, <2>1, <2>3
  <2>5. ASSUME NEW x \in T PROVE route[x][o] \in T
    <3>1. route[x][o] \in N /\ route[x][o] # o /\ route[x][o] # Nobody
      BY <2>1, <2>4, DiscoveryAssumption
    <3>2. flood[x][o] \in {f, Nobody} \/ {flood[x][o], f} \in overlapped
      <4>1. Wanted[f] # Nobody /\ Origin[f] = o /\ ~ Over(f)
        BY <1>5, <2>2 DEF f, o
      <4> QED
        BY <1>1, <2>4, <4>1 DEF IInv, LatestIsKept
    <3>3. {flood[x][o], f} \notin overlapped
      BY <2>0, <2>1, <2>2, <2>4
    <3>4. flood[x][o] = f
      BY <1>1, <2>4, <3>1, <3>2, <3>3 DEF IInv, LedByFlood
    <3>5. Learnt(f, route[x][o])
      BY <1>1, <2>4, <3>1, <3>4 DEF IInv, LedByFlood
    <3> QED
      BY <3>1, <3>5
  <2>6. Apart(o, T)
    BY <2>0, <2>1, <2>4 DEF Apart
  <2> HIDE DEF T
  <2> QED
    BY <1>1, <2>3, <2>5, <2>6 DEF IInv, NoCircle
<1> QED
  BY <1>7, <1>9, <1>10

-----------------------------------------------------------------------------
(* The steps. *)

LEMMA InitHolds == Init => IInv
<1> SUFFICES ASSUME Init PROVE IInv
  OBVIOUS
<1>1. TypeOK
  <2>1. Met \in [Nodes -> SUBSET Nodes] /\ \A n \in Nodes : Met[n] \subseteq InRange[n]
    BY DiscoveryAssumption
  <2>2. route \in [Nodes -> [Nodes -> Nodes \cup {Nobody}]]
    BY DEF Init
  <2>3. \A n, u \in Nodes : route[n][u] = Nobody
    BY DEF Init
  <2>4. known \in [Nodes -> SUBSET Rids]
    BY DEF Init
  <2> QED
    BY <2>1, <2>2, <2>3, <2>4 DEF Init, TypeOK
<1>2. NetIsHonest /\ IssuedIsSent /\ OverlapsAreTold /\ LedByFlood /\ LatestIsKept
  <2>1. \A n, u \in Nodes : route[n][u] = Nobody /\ flood[n][u] = Nobody
    BY DEF Init
  <2> QED
    BY <2>1 DEF Init, NetIsHonest, IssuedIsSent, OverlapsAreTold, LedByFlood, LatestIsKept
<1>3. NoCircle
  <2>1. \A n, u \in Nodes : route[n][u] = Nobody
    BY DEF Init
  <2>2. Nobody \notin Nodes
    BY DiscoveryAssumption
  <2> QED
    BY <2>1, <2>2 DEF NoCircle
<1> QED
  BY <1>1, <1>2, <1>3 DEF IInv

\* n learns a route from the request d, and puts new on the air.
Learns(n, d, new) ==
  /\ New(n, d) /\ d.from \in near[n] /\ d.type = "request" /\ Wanted[d.of] # Nobody
  /\ register_rid(n, d) /\ register_uid(n, d)
  /\ net' = net \cup new
  /\ UNCHANGED <<near, issued, astray, overlapped>>

\* What n puts on the air is its answer, or the request with a hop less to go.
LEMMA LearnKeeps ==
  ASSUME IInv, NEW d \in net, NEW n \in Listeners(d), NEW new, Learns(n, d, new),
         \A e \in new :
           \/ e = Announce(n, d.of, n, d.by, d.from, d.by)
           \/ \E x \in Nat : /\ e = Flood(n, d.of, x)
                             /\ Wanted[d.of] = Everyone => x + 1 = d.depth
  PROVE  IInv'
<1>1. /\ d.type = "request" /\ d.of \in Requests /\ d.by \in Nodes /\ d.depth \in Nat
      /\ d.from \in Nodes /\ n \in InRange[d.from] /\ n \in Nodes
      /\ RidOf(d) = RidOfRequest(d.of) /\ d.by = Origin[d.of]
  <2>1. d.type = "request"
    BY DEF Learns
  <2>2. /\ d.of \in Requests /\ d.by \in Nodes /\ d.depth \in Nat /\ d.from \in Nodes
    BY Fields DEF IInv
  <2>3. RidOf(d) = RidOfRequest(d.of) /\ d.by = Origin[d.of] /\ n \in InRange[d.from]
    BY <2>1, RequestRid
  <2> QED
    BY <2>1, <2>2, <2>3, DiscoveryAssumption
<1>2. RequestIsHonest(d)
  BY <1>1 DEF IInv, NetIsHonest
<1>3. TypeOK /\ RidOf(d) \in Rids /\ RidOf(d) \notin known[n]
  BY <1>1 DEF IInv, RidOf, Rids, Learns, New
<1>4. ASSUME NEW e \in new
      PROVE  /\ e \in Packages /\ e.of = d.of
             /\ e.type = "request" => e.from = n /\ e.by = Origin[e.of]
             /\ e.type = "announcement" => e.by = n
  <2>1. CASE e = Announce(n, d.of, n, d.by, d.from, d.by)
    BY <1>1, <2>1, AnnounceType
  <2>2. CASE \E x \in Nat : e = Flood(n, d.of, x)
    BY <1>1, <2>2, FloodType
  <2> QED
    BY <2>1, <2>2
<1>5. /\ \A k \in Nodes : known'[k] = known[k] \cup IF k = n THEN {RidOf(d)} ELSE {}
      /\ known' \in [Nodes -> SUBSET Rids]
  BY <1>1, <1>3 DEF Learns, register_rid, TypeOK
<1>6. TypeOK'
  <2>1. net' \subseteq Packages
    BY <1>3, <1>4 DEF Learns, TypeOK
  <2>2. route' \in [Nodes -> [Nodes -> Nodes \cup {Nobody}]]
    BY <1>1, <1>3 DEF Learns, register_uid, TypeOK
  <2>3. \A k, u \in Nodes : route'[k][u] \in near'[k] \cup {Nobody}
    BY <1>1, <1>3 DEF Learns, register_uid, TypeOK
  <2>4. flood' \in [Nodes -> [Nodes -> Requests \cup {Nobody}]]
    BY <1>1, <1>3 DEF Learns, register_uid, TypeOK
  <2> QED
    BY <1>3, <1>5, <2>1, <2>2, <2>3, <2>4 DEF Learns, TypeOK
<1>7. Grows
  <2>1. ASSUME NEW e \in net' \ net, e.type = "request"
        PROVE  \E c \in net : /\ c.type = "request" /\ c.of = e.of /\ e.by = Origin[e.of]
                              /\ e.from \in InRange[c.from] /\ RidOf(c) \notin known[e.from]
    <3>1. e \in new
      BY DEF Learns
    <3> QED
      BY <1>1, <1>3, <1>4, <2>1, <3>1
  <2> QED
    BY <1>5, <2>1 DEF Learns, Grows
<1>8. ASSUME Wanted[d.of] = Everyone
      PROVE  /\ d.depth <= Depth[d.of] /\ Depth[d.of] \in Nat
             /\ n \in Within(Origin[d.of], (Depth[d.of] - d.depth) + 1)
  <2>1. Depth[d.of] \in Nat /\ Origin[d.of] \in Nodes
    BY <1>1, DiscoveryAssumption
  <2>2. d.depth <= Depth[d.of] /\ d.from \in Within(Origin[d.of], Depth[d.of] - d.depth)
    BY <1>2, <1>8 DEF RequestIsHonest
  <2>3. Depth[d.of] - d.depth \in Nat
    BY <1>1, <2>1, <2>2
  <2> QED
    BY <1>1, <2>1, <2>2, <2>3, WithinHeard
<1>9. RidOfRequest(d.of) \in known'[n] /\ issued' = issued /\ d.of \in issued
  BY <1>1, <1>2, <1>5 DEF Learns, RequestIsHonest
<1>10. ASSUME NEW e \in net' \ net
       PROVE  /\ e.type = "request" => RequestIsHonest(e)'
              /\ e.type = "announcement" => AnnouncementIsHonest(e)'
  <2>1. e \in new
    BY DEF Learns
  <2>2. CASE e = Announce(n, d.of, n, d.by, d.from, d.by)
    <3>1. /\ e.type = "announcement" /\ e.of = d.of /\ e.by = n /\ e.from = n /\ e.to = d.from
      BY <1>1, <2>2, AnnounceType
    <3>2. ASSUME Wanted[d.of] = Everyone PROVE n \in Within(Origin[d.of], Depth[d.of] + 1)
      <4> DEFINE i == (Depth[d.of] - d.depth) + 1
                 j == Depth[d.of] + 1
      <4>1. i \in Nat /\ j \in Nat /\ i <= j
        BY <1>1, <1>8, <3>2
      <4>2. Origin[d.of] \in Nodes /\ n \in Within(Origin[d.of], i)
        BY <1>1, <1>8, <3>2
      <4> HIDE DEF i, j
      <4>3. n \in Within(Origin[d.of], j)
        BY <4>1, <4>2, WithinGrows
      <4> QED
        BY <4>3 DEF j
    <3>3. Wanted[d.of] # Nobody
      BY DEF Learns
    <3> QED
      BY <1>1, <1>9, <3>1, <3>2, <3>3 DEF AnnouncementIsHonest
  <2>3. CASE \E x \in Nat : /\ e = Flood(n, d.of, x)
                            /\ Wanted[d.of] = Everyone => x + 1 = d.depth
    <3>1. PICK x \in Nat : /\ e = Flood(n, d.of, x)
                           /\ Wanted[d.of] = Everyone => x + 1 = d.depth
      BY <2>3
    <3>2. /\ e.type = "request" /\ e.of = d.of /\ e.by = Origin[d.of] /\ e.depth = x
          /\ e.end = Nobody /\ e.from = n /\ e.to = Everyone
      BY <1>1, <3>1, FloodType
    <3>3. ASSUME Wanted[d.of] = Everyone
          PROVE  x <= Depth[d.of] /\ n \in Within(Origin[d.of], Depth[d.of] - x)
      <4>1. (Depth[d.of] - d.depth) + 1 = Depth[d.of] - x /\ x <= Depth[d.of]
        BY <1>1, <1>8, <3>1, <3>3
      <4> QED
        BY <1>8, <3>3, <4>1
    <3> QED
      BY <1>9, <3>2, <3>3 DEF RequestIsHonest
  <2> QED
    BY <2>1, <2>2, <2>3
<1>11. NetIsHonest' /\ IssuedIsSent' /\ OverlapsAreTold'
  BY <1>7, <1>10, GrowsKeeps
<1>12. \A r \in Requests, k \in Nodes : Learnt(r, k)' => Learnt(r, k) \/ (r = d.of /\ k = n)
  <2> SUFFICES ASSUME NEW r \in Requests, NEW k \in Nodes, Learnt(r, k)', ~ Learnt(r, k)
               PROVE  r = d.of /\ k = n
    OBVIOUS
  <2>1. PICK e \in net' : /\ e.of = r
                          /\ \/ e.type = "request" /\ e.from = k
                             \/ e.type = "announcement" /\ e.by = k
    BY DEF Learnt
  <2>2. e \in new
    BY <2>1 DEF Learnt, Learns
  <2> QED
    BY <1>4, <2>1, <2>2
<1>13. LedByFlood' /\ LatestIsKept' /\ NoCircle'
  <2>1. /\ Wanted[d.of] # Nobody /\ route' = [route EXCEPT ![n][d.by] = d.from]
        /\ flood' = [flood EXCEPT ![n][d.by] = d.of]
    BY DEF Learns, register_uid
  <2> QED
    BY <1>1, <1>3, <1>7, <1>12, <2>1, RouteLearnt
<1> QED
  BY <1>6, <1>11, <1>13 DEF IInv

\* A package of a node that is no neighbour is registered, or not even that.
LEMMA StrangerKeeps ==
  ASSUME IInv, NEW d \in net, NEW n \in Listeners(d), Stranger(n, d)
  PROVE  IInv'
<1>1. n \in Nodes /\ RidOf(d) \in Rids /\ TypeOK
  <2>1. d.type = "request"
    BY DEF Stranger
  <2>2. d.type \in {"request", "announcement"} /\ d.of \in Requests /\ d.by \in Nodes /\ d.from \in Nodes
    BY Fields DEF IInv
  <2>3. n \in InRange[d.from]
    BY <2>1, RequestRid
  <2> QED
    BY <2>2, <2>3, DiscoveryAssumption DEF IInv, RidOf, Rids
<1>2. TypeOK'
  BY <1>1 DEF Stranger, register_rid, TypeOK
<1>3. Grows
  BY <1>1 DEF Stranger, register_rid, Grows, TypeOK
<1>4. NetIsHonest' /\ IssuedIsSent' /\ OverlapsAreTold'
  <2>1. net' = net
    BY DEF Stranger
  <2> QED
    BY <1>3, <2>1, GrowsKeeps
<1>5. LedByFlood' /\ LatestIsKept' /\ NoCircle'
  <2>1. \A r, k : Learnt(r, k)' => Learnt(r, k)
    BY DEF Stranger, Learnt
  <2>2. route' = route /\ flood' = flood
    BY DEF Stranger
  <2> QED
    BY <1>3, <2>1, <2>2, RoutesStay
<1> QED
  BY <1>2, <1>4, <1>5 DEF IInv

LEMMA MeetKeeps ==
  ASSUME IInv, NEW n \in Nodes, NEW m \in Nodes, Meet(n, m)
  PROVE  IInv'
<1>1. TypeOK
  BY DEF IInv
<1>2. TypeOK'
  BY <1>1 DEF Meet, TypeOK
<1>3. Grows
  BY DEF Meet, Grows
<1>4. NetIsHonest' /\ IssuedIsSent' /\ OverlapsAreTold'
  <2>1. net' = net
    BY DEF Meet
  <2> QED
    BY <1>3, <2>1, GrowsKeeps
<1>5. LedByFlood' /\ LatestIsKept' /\ NoCircle'
  <2>1. \A r, k : Learnt(r, k)' => Learnt(r, k)
    BY DEF Meet, Learnt
  <2>2. route' = route /\ flood' = flood
    BY DEF Meet
  <2> QED
    BY <1>3, <2>1, <2>2, RoutesStay
<1> QED
  BY <1>2, <1>4, <1>5 DEF IInv

\* No route is learnt from a message for all.
LEMMA MessageKeeps ==
  ASSUME IInv, NEW d \in net, NEW n \in Listeners(d), HearMessage(n, d)
  PROVE  IInv'
<1> DEFINE new == Flood(n, d.of, d.depth)
<1>1. /\ d.type = "request" /\ d.of \in Requests /\ d.depth \in Nat /\ n \in InRange[d.from]
      /\ n \in Nodes /\ RidOf(d) = RidOfRequest(d.of) /\ RidOf(d) \in Rids /\ TypeOK
      /\ Wanted[d.of] = Nobody /\ RidOf(d) \notin known[n]
  <2>1. d.type = "request" /\ Wanted[d.of] = Nobody /\ RidOf(d) \notin known[n]
    BY DEF HearMessage, New
  <2>2. d.of \in Requests /\ d.by \in Nodes /\ d.depth \in Nat /\ d.from \in Nodes
    BY Fields DEF IInv
  <2>3. RidOf(d) = RidOfRequest(d.of) /\ n \in InRange[d.from]
    BY <2>1, RequestRid
  <2> QED
    BY <2>1, <2>2, <2>3, DiscoveryAssumption DEF IInv, RidOf, Rids
<1>2. /\ new \in Packages
      /\ new.type = "request" /\ new.of = d.of /\ new.by = Origin[d.of]
      /\ new.end = Nobody /\ new.from = n /\ new.to = Everyone
  BY <1>1, FloodType
<1>3. net' = net \cup {new} /\ UNCHANGED <<near, route, issued, astray, flood, overlapped>>
  BY DEF HearMessage
<1> HIDE DEF new
<1>4. /\ \A k \in Nodes : known'[k] = known[k] \cup IF k = n THEN {RidOf(d)} ELSE {}
      /\ known' \in [Nodes -> SUBSET Rids]
  BY <1>1 DEF HearMessage, register_rid, TypeOK
<1>5. TypeOK'
  BY <1>1, <1>2, <1>3, <1>4 DEF TypeOK
<1>6. Grows
  BY <1>1, <1>2, <1>3, <1>4 DEF Grows
<1>7. RequestIsHonest(new)'
  <2>1. d.of \in issued
    BY <1>1 DEF IInv, NetIsHonest, RequestIsHonest
  <2>2. RidOfRequest(d.of) \in known'[n]
    BY <1>1, <1>4
  <2>3. Wanted[d.of] # Everyone
    BY <1>1, DiscoveryAssumption
  <2> QED
    BY <1>2, <1>3, <2>1, <2>2, <2>3 DEF RequestIsHonest
<1>8. NetIsHonest' /\ IssuedIsSent' /\ OverlapsAreTold'
  <2>1. \A e \in net' \ net : /\ e.type = "request" => RequestIsHonest(e)'
                              /\ e.type = "announcement" => AnnouncementIsHonest(e)'
    BY <1>2, <1>3, <1>7
  <2> QED
    BY <1>6, <2>1, GrowsKeeps
<1>9. LedByFlood' /\ LatestIsKept' /\ NoCircle'
  <2>1. \A r \in Requests, k \in Nodes : Wanted[r] # Nobody /\ Learnt(r, k)' => Learnt(r, k)
    BY <1>1, <1>2, <1>3 DEF Learnt
  <2> QED
    BY <1>3, <1>6, <2>1, RoutesStay
<1> QED
  BY <1>5, <1>8, <1>9 DEF IInv

\* At its end an announcement teaches a route of one hop.
LEMMA HearAnnouncementKeeps ==
  ASSUME IInv, NEW d \in net, NEW n \in Listeners(d), HearAnnouncement(n, d)
  PROVE  IInv'
<1>1. /\ d.by \in {d.from, n} /\ n \in Nodes /\ d.by \in Nodes /\ d.from \in near[n]
      /\ RidOf(d) \in Rids /\ TypeOK
  <2>1. d.type = "announcement" /\ d.end = Nobody /\ d.from \in near[n]
    BY DEF HearAnnouncement
  <2>2. d.of \in Requests /\ d.by \in Nodes
    BY Fields DEF IInv
  <2>3. AnnouncementIsHonest(d)
    BY <2>1 DEF IInv, NetIsHonest
  <2>4. d.to \in Nodes /\ d.by \in {d.from, d.to}
    BY <2>1, <2>3 DEF AnnouncementIsHonest
  <2>5. n = d.to
    BY <2>4, DiscoveryAssumption DEF Listeners
  <2> QED
    BY <2>1, <2>2, <2>4, <2>5 DEF IInv, RidOf, Rids
<1>2. /\ \A k \in Nodes : known[k] \subseteq known'[k]
      /\ known' \in [Nodes -> SUBSET Rids]
  BY <1>1 DEF HearAnnouncement, register_rid, TypeOK
<1>3. /\ route' \in [Nodes -> [Nodes -> Nodes \cup {Nobody}]]
      /\ flood' \in [Nodes -> [Nodes -> Requests \cup {Nobody}]]
      /\ \A k, u \in Nodes :
           /\ route'[k][u] = IF k = n /\ u = d.by THEN d.from ELSE route[k][u]
           /\ flood'[k][u] = IF k = n /\ u = d.by THEN Nobody ELSE flood[k][u]
  <2>1. d.from \in Nodes /\ d.type # "request"
    BY Fields DEF IInv, HearAnnouncement
  <2> QED
    BY <1>1, <2>1 DEF HearAnnouncement, register_uid, TypeOK
<1>4. UNCHANGED <<net, near, issued, astray, overlapped>>
  BY DEF HearAnnouncement
<1>5. TypeOK'
  <2>0. \A k, u \in Nodes : route[k][u] \in near[k] \cup {Nobody}
    BY <1>1 DEF TypeOK
  <2>1. \A k, u \in Nodes : route'[k][u] \in near[k] \cup {Nobody}
    BY <1>1, <1>3, <2>0
  <2>2. net' = net /\ near' = near /\ issued' = issued /\ astray' = astray /\ overlapped' = overlapped
    BY <1>4
  <2>3. \A k, u \in Nodes : route'[k][u] \in near'[k] \cup {Nobody}
    BY <2>1, <2>2
  <2>4. /\ net' \subseteq Packages /\ near' \in [Nodes -> SUBSET Nodes]
        /\ \A k \in Nodes : near'[k] \subseteq InRange[k]
        /\ issued' \subseteq Requests /\ astray' \subseteq Nodes
        /\ overlapped' \subseteq SUBSET Requests
    BY <1>1, <2>2 DEF TypeOK
  <2> QED
    BY <1>2, <1>3, <2>3, <2>4 DEF TypeOK
<1>6. Grows
  BY <1>2, <1>4 DEF Grows
<1>7. NetIsHonest' /\ IssuedIsSent' /\ OverlapsAreTold'
  BY <1>4, <1>6, GrowsKeeps
<1>8. LedByFlood' /\ LatestIsKept' /\ NoCircle'
  <2>1. \A r, k : Learnt(r, k)' => Learnt(r, k)
    BY <1>4 DEF Learnt
  <2>2. \A k, u \in Nodes : k # u => \/ route'[k][u] = route[k][u] /\ flood'[k][u] = flood[k][u]
                                     \/ route'[k][u] = u /\ flood'[k][u] = Nobody
    BY <1>1, <1>3
  <2> QED
    BY <1>6, <2>1, <2>2, RoutesStay
<1> QED
  BY <1>5, <1>7, <1>8 DEF IInv

\* On its way it keeps its source, and teaches nothing.
LEMMA PassAnnouncementKeeps ==
  ASSUME IInv, NEW d \in net, NEW n \in Listeners(d), PassAnnouncement(n, d)
  PROVE  IInv'
<1>1. /\ d.type = "announcement" /\ AnnouncementIsHonest(d) /\ d.of \in Requests /\ d.by \in Nodes
      /\ d.end \in Nodes /\ n \in Nodes /\ RidOf(d) \in Rids /\ TypeOK
  <2>1. /\ d.type \in {"request", "announcement"} /\ d.of \in Requests /\ d.by \in Nodes
        /\ d.end \in Nodes \cup {Nobody}
    BY Fields DEF IInv
  <2>2. d.end # Nobody
    BY DEF PassAnnouncement
  <2>3. d.type = "announcement"
    BY <2>1, <2>2 DEF IInv, NetIsHonest, RequestIsHonest
  <2>4. AnnouncementIsHonest(d)
    BY <2>3 DEF IInv, NetIsHonest
  <2>5. n = d.to /\ d.to \in Nodes
    BY <2>4, DiscoveryAssumption DEF Listeners, AnnouncementIsHonest
  <2> QED
    BY <2>1, <2>2, <2>3, <2>4, <2>5 DEF IInv, RidOf, Rids
<1>2. /\ \A k \in Nodes : known[k] \subseteq known'[k]
      /\ known' \in [Nodes -> SUBSET Rids]
  BY <1>1 DEF PassAnnouncement, register_rid, TypeOK
<1>3. UNCHANGED <<near, route, issued, flood, overlapped>> /\ astray' \in SUBSET Nodes /\ net \subseteq net'
  BY <1>1 DEF PassAnnouncement, TypeOK
<1>4. ASSUME NEW e \in net' \ net
      PROVE  /\ e \in Packages /\ e.type = "announcement" /\ e.of = d.of /\ e.by = d.by
             /\ e.to \in Nodes
             /\ e.end = Nobody => e.to = e.by
  <2> DEFINE m == route[n][d.by]
  <2>1. m # Nobody /\ e = Announce(n, d.of, d.by, d.end, m, d.by)
    BY DEF PassAnnouncement
  <2>2. m \in Nodes
    BY <1>1, <2>1 DEF TypeOK
  <2> DEFINE a == Announce(n, d.of, d.by, d.end, m, d.by)
  <2> HIDE DEF m
  <2>3. /\ a \in Packages /\ a.type = "announcement" /\ a.of = d.of /\ a.by = d.by /\ a.to = m
        /\ a.end = Nobody => m = d.by
    <3>1. n \in Nodes /\ d.of \in Requests /\ d.by \in Nodes /\ d.end \in Nodes
      BY <1>1
    <3> QED
      BY <2>2, <3>1, DiscoveryAssumption DEF Announce, Packages
  <2>4. e = a
    BY <2>1
  <2> HIDE DEF a
  <2> QED
    BY <2>2, <2>3, <2>4
<1>5. TypeOK'
  <2>1. net' \subseteq Packages
    BY <1>1, <1>4 DEF TypeOK
  <2> QED
    BY <1>1, <1>2, <1>3, <2>1 DEF TypeOK
<1>6. Grows
  BY <1>2, <1>3, <1>4 DEF Grows
<1>7. ASSUME NEW e \in net' \ net PROVE AnnouncementIsHonest(e)'
  <2>1. known[d.by] \subseteq known'[d.by]
    BY <1>1, <1>2
  <2> QED
    BY <1>1, <1>3, <1>4, <2>1 DEF AnnouncementIsHonest
<1>8. NetIsHonest' /\ IssuedIsSent' /\ OverlapsAreTold'
  <2>1. \A e \in net' \ net : /\ e.type = "request" => RequestIsHonest(e)'
                              /\ e.type = "announcement" => AnnouncementIsHonest(e)'
    BY <1>4, <1>7
  <2> QED
    BY <1>6, <2>1, GrowsKeeps
<1>9. LedByFlood' /\ LatestIsKept' /\ NoCircle'
  <2>1. \A r, k : Learnt(r, k)' => Learnt(r, k)
    <3> SUFFICES ASSUME NEW r, NEW k, Learnt(r, k)' PROVE Learnt(r, k)
      OBVIOUS
    <3>1. PICK e \in net' : /\ e.of = r
                            /\ \/ e.type = "request" /\ e.from = k
                               \/ e.type = "announcement" /\ e.by = k
      BY DEF Learnt
    <3>2. CASE e \in net
      BY <3>1, <3>2 DEF Learnt
    <3>3. CASE e \notin net
      BY <1>1, <1>4, <3>1, <3>3 DEF Learnt
    <3> QED
      BY <3>2, <3>3
  <2> QED
    BY <1>3, <1>6, <2>1, RoutesStay
<1> QED
  BY <1>5, <1>8, <1>9 DEF IInv

\* A request is made whatever floods of its origin are not over: they overlap.
\* Nobody has learnt anything from the new one.
LEMMA IssueKeeps ==
  ASSUME IInv, NEW r \in Requests, Issue(r)
  PROVE  IInv'
<1> DEFINE first == Flood(Origin[r], r, Depth[r])
<1>1. Origin[r] \in Nodes /\ Depth[r] \in Nat
  BY DiscoveryAssumption
<1>2. /\ first \in Packages
      /\ first.type = "request" /\ first.of = r /\ first.by = Origin[r] /\ first.depth = Depth[r]
      /\ first.end = Nobody /\ first.from = Origin[r] /\ first.to = Everyone
  BY <1>1, FloodType
<1>3. /\ net' = net \cup {first} /\ issued' = issued \cup {r}
      /\ UNCHANGED <<known, near, route, astray, flood>> /\ r \notin issued
      /\ overlapped \subseteq overlapped'
      /\ \A q \in issued : Origin[q] = Origin[r] => Over(q) \/ {q, r} \in overlapped'
  BY DEF Issue
<1>4. /\ TypeOK /\ \A d \in net : d.type \in {"request", "announcement"}
      /\ \A d \in net : d.of \in issued /\ d.of # r
  <2>1. \A d \in net : d.type \in {"request", "announcement"}
    BY Fields DEF IInv
  <2>2. \A d \in net : d.of \in issued
    BY <2>1 DEF IInv, NetIsHonest, RequestIsHonest, AnnouncementIsHonest
  <2> QED
    BY <1>3, <2>1, <2>2 DEF IInv
<1>5. IssuedIsSent'
  BY <1>3 DEF IInv, IssuedIsSent
<1> HIDE DEF first
<1>6. TypeOK'
  <2>1. overlapped' \subseteq SUBSET Requests
    BY <1>4 DEF Issue, TypeOK
  <2> QED
    BY <1>2, <1>3, <1>4, <2>1 DEF TypeOK
<1>7. RequestIsHonest(first)'
  <2>1. Depth[r] <= Depth[r] /\ Depth[r] - Depth[r] = 0
    BY <1>1
  <2>2. Origin[r] \in Within(Origin[r], 0)
    BY <1>1, WithinNext
  <2>3. Origin[r] \in Within(Origin[r], Depth[r] - Depth[r])
    BY <2>1, <2>2
  <2> QED
    BY <1>2, <1>3, <2>1, <2>3 DEF RequestIsHonest
<1>8. NetIsHonest'
  <2>1. \A d \in net : /\ RequestIsHonest(d) => RequestIsHonest(d)'
                       /\ AnnouncementIsHonest(d) => AnnouncementIsHonest(d)'
    BY <1>3 DEF RequestIsHonest, AnnouncementIsHonest
  <2>2. \A d \in net : /\ d.type = "request" => RequestIsHonest(d)
                       /\ d.type = "announcement" => AnnouncementIsHonest(d)
    BY DEF IInv, NetIsHonest
  <2>3. \A d \in net : /\ d.type = "request" => RequestIsHonest(d)'
                       /\ d.type = "announcement" => AnnouncementIsHonest(d)'
    BY <2>1, <2>2
  <2> QED
    BY <1>2, <1>3, <1>7, <2>3 DEF NetIsHonest
<1>9. \A q \in issued : Over(q)' <=> Over(q)
  BY <1>2, <1>3 DEF Over, RidOf
<1>10. OverlapsAreTold'
  <2> SUFFICES ASSUME NEW p \in issued', NEW q \in issued', p # q, Origin[p] = Origin[q],
                      ~ Over(p)', ~ Over(q)'
               PROVE  {p, q} \in overlapped'
    BY DEF OverlapsAreTold
  <2>1. {p, q} = {q, p}
    OBVIOUS
  <2>2. CASE p = r
    BY <1>3, <1>9, <2>1, <2>2
  <2>3. CASE q = r
    BY <1>3, <1>9, <2>3
  <2>4. CASE p # r /\ q # r
    BY <1>3, <1>9, <2>4 DEF IInv, OverlapsAreTold
  <2> QED
    BY <2>2, <2>3, <2>4
<1>11. \A q, k : q # r => (Learnt(q, k)' <=> Learnt(q, k))
  BY <1>2, <1>3 DEF Learnt
<1>12. \A k : Learnt(r, k)' => k = Origin[r]
  BY <1>2, <1>3, <1>4 DEF Learnt
<1>13. LedByFlood'
  <2>1. ASSUME NEW q, NEW k, Learnt(q, k)
        PROVE  \E e \in net' : /\ e.of = q
                               /\ \/ e.type = "request" /\ e.from = k
                                  \/ e.type = "announcement" /\ e.by = k
    BY <1>3, <2>1 DEF Learnt
  <2>2. route' = route /\ flood' = flood
    BY <1>3
  <2>3. ASSUME NEW k \in Nodes, NEW u \in Nodes, k # u
        PROVE  /\ flood[k][u] = Nobody => route[k][u] \in {Nobody, u}
               /\ flood[k][u] # Nobody =>
                    \/ route[k][u] = u
                    \/ \E e \in net' : /\ e.of = flood[k][u]
                                       /\ \/ e.type = "request" /\ e.from = route[k][u]
                                          \/ e.type = "announcement" /\ e.by = route[k][u]
    <3>1. /\ flood[k][u] = Nobody => route[k][u] \in {Nobody, u}
          /\ flood[k][u] # Nobody => route[k][u] = u \/ Learnt(flood[k][u], route[k][u])
      BY <2>3 DEF IInv, LedByFlood
    <3> QED
      BY <2>1, <3>1
  <2> QED
    BY <2>2, <2>3 DEF LedByFlood, Learnt
<1>14. LatestIsKept'
  <2>1. ASSUME NEW q \in issued', Wanted[q] # Nobody, ~ Over(q)',
               NEW k \in Nodes \ {Origin[q]}, Learnt(q, k)'
        PROVE  flood[k][Origin[q]] \in {q, Nobody} \/ {flood[k][Origin[q]], q} \in overlapped'
    <3>1. q # r
      BY <1>12, <2>1
    <3>2. q \in issued /\ ~ Over(q) /\ Learnt(q, k)
      BY <1>3, <1>9, <1>11, <2>1, <3>1
    <3>3. flood[k][Origin[q]] \in {q, Nobody} \/ {flood[k][Origin[q]], q} \in overlapped
      BY <2>1, <3>2 DEF IInv, LatestIsKept
    <3> QED
      BY <1>3, <3>3
  <2>2. flood' = flood
    BY <1>3
  <2> QED
    BY <2>1, <2>2 DEF LatestIsKept, Learnt
<1>15. NoCircle'
  BY <1>3 DEF IInv, NoCircle, Apart
<1> QED
  BY <1>5, <1>6, <1>8, <1>10, <1>13, <1>14, <1>15 DEF IInv

LEMMA StepKeeps == IInv /\ [Next]_vars => IInv'
<1> SUFFICES ASSUME IInv, [Next]_vars PROVE IInv'
  OBVIOUS
<1>1. ASSUME NEW r \in Requests, Issue(r) PROVE IInv'
  BY <1>1, IssueKeeps
<1>2. ASSUME NEW d \in net, NEW n \in Listeners(d), Stranger(n, d) PROVE IInv'
  BY <1>2, StrangerKeeps
<1>3. ASSUME NEW d \in net, NEW n \in Listeners(d), PassRequest(n, d) PROVE IInv'
  <2>1. Learns(n, d, {Flood(n, d.of, d.depth)})
    <3>1. Wanted[d.of] # Nobody
      BY <1>3, DiscoveryAssumption DEF PassRequest
    <3> QED
      BY <1>3, <3>1 DEF PassRequest, Learns
  <2>2. Wanted[d.of] # Everyone
    BY <1>3, DiscoveryAssumption DEF PassRequest
  <2>3. d.depth \in Nat
    BY Fields DEF IInv
  <2> QED
    BY <2>1, <2>2, <2>3, LearnKeeps
<1>4. ASSUME NEW d \in net, NEW n \in Listeners(d), AnswerRequest(n, d) PROVE IInv'
  <2>1. n \in Nodes
    <3>1. d.type = "request" /\ d.from \in Nodes
      BY <1>4, Fields DEF AnswerRequest, IInv
    <3>2. n \in InRange[d.from]
      BY <3>1, RequestRid
    <3> QED
      BY <3>1, <3>2, DiscoveryAssumption
  <2>2. Wanted[d.of] # Nobody
    BY <1>4, <2>1, DiscoveryAssumption DEF AnswerRequest
  <2>3. Learns(n, d, {Announce(n, d.of, n, d.by, d.from, d.by)})
    BY <1>4, <2>2 DEF AnswerRequest, Learns
  <2> QED
    BY <2>3, LearnKeeps
<1>5. ASSUME NEW d \in net, NEW n \in Listeners(d), Discover(n, d) PROVE IInv'
  <2> DEFINE new == {Announce(n, d.of, n, d.by, d.from, d.by)}
                      \cup IF d.depth > 0 THEN {Flood(n, d.of, d.depth - 1)} ELSE {}
  <2>1. Wanted[d.of] # Nobody
    BY <1>5, DiscoveryAssumption DEF Discover
  <2>2. Learns(n, d, new)
    BY <1>5, <2>1 DEF Discover, Learns
  <2>3. d.depth \in Nat
    BY Fields DEF IInv
  <2>4. ASSUME NEW e \in new
        PROVE  \/ e = Announce(n, d.of, n, d.by, d.from, d.by)
               \/ \E x \in Nat : /\ e = Flood(n, d.of, x)
                                 /\ Wanted[d.of] = Everyone => x + 1 = d.depth
    <3>1. CASE d.depth > 0 /\ e = Flood(n, d.of, d.depth - 1)
      <4>1. d.depth - 1 \in Nat /\ (d.depth - 1) + 1 = d.depth
        BY <2>3, <3>1
      <4> QED
        BY <3>1, <4>1
    <3>2. e = Announce(n, d.of, n, d.by, d.from, d.by) \/ (d.depth > 0 /\ e = Flood(n, d.of, d.depth - 1))
      OBVIOUS
    <3> QED
      BY <3>1, <3>2
  <2> HIDE DEF new
  <2> QED
    BY <2>2, <2>4, LearnKeeps
<1>6. ASSUME NEW d \in net, NEW n \in Listeners(d), HearMessage(n, d) PROVE IInv'
  BY <1>6, MessageKeeps
<1>7. ASSUME NEW d \in net, NEW n \in Listeners(d), HearAnnouncement(n, d) PROVE IInv'
  BY <1>7, HearAnnouncementKeeps
<1>8. ASSUME NEW d \in net, NEW n \in Listeners(d), PassAnnouncement(n, d) PROVE IInv'
  BY <1>8, PassAnnouncementKeeps
<1>9. ASSUME NEW n \in Nodes, NEW m \in Nodes, Meet(n, m) PROVE IInv'
  BY <1>9, MeetKeeps
<1>10. CASE UNCHANGED vars
  <2>1. /\ net' = net /\ known' = known /\ near' = near /\ route' = route /\ issued' = issued
        /\ astray' = astray /\ flood' = flood /\ overlapped' = overlapped
    BY <1>10 DEF vars
  <2>2. TypeOK' /\ NetIsHonest' /\ IssuedIsSent'
    BY <2>1 DEF IInv, TypeOK, NetIsHonest, RequestIsHonest, AnnouncementIsHonest, IssuedIsSent
  <2>3. \A r, k : (Over(r)' <=> Over(r)) /\ (Learnt(r, k)' <=> Learnt(r, k))
    BY <2>1 DEF Over, Learnt
  <2>4. OverlapsAreTold'
    BY <2>1, <2>3 DEF IInv, OverlapsAreTold
  <2>5. LedByFlood'
    BY <2>1 DEF IInv, LedByFlood, Learnt
  <2>6. LatestIsKept'
    BY <2>1 DEF IInv, LatestIsKept, Over, Learnt
  <2>7. NoCircle'
    BY <2>1 DEF IInv, NoCircle, Apart
  <2> QED
    BY <2>2, <2>4, <2>5, <2>6, <2>7 DEF IInv
<1> QED
  BY <1>1, <1>2, <1>3, <1>4, <1>5, <1>6, <1>7, <1>8, <1>9, <1>10 DEF Next

LEMMA Invariant == Spec => []IInv
BY InitHolds, StepKeeps, PTL DEF Spec

-----------------------------------------------------------------------------
(* The theorems. *)

\* What the nodes keep has its type: every route leads to a neighbour.
THEOREM TypeCorrect == Spec => []TypeOK
<1>1. IInv => TypeOK
  BY DEF IInv
<1> QED
  BY <1>1, Invariant, PTL

\* A discovery is answered only by nodes at most its depth and one hop away,
\* however the copies of its flood overtake each other.
THEOREM StaysNear == Spec => []DiscoveryStaysNear
<1>1. IInv => DiscoveryStaysNear
  BY DEF IInv, NetIsHonest, AnnouncementIsHonest, DiscoveryStaysNear
<1> QED
  BY <1>1, Invariant, PTL

\* The routes learnt from floods and announcements lead packages round in a
\* circle only if two of them come from floods that overlapped, with any number
\* of nodes, wherever they are, and any number of floods, whenever they begin.
THEOREM Circles == Spec => []CirclesAreOfOverlaps
<1>1. IInv => CirclesAreOfOverlaps
  <2> SUFFICES ASSUME IInv, NEW u \in Nodes, NEW N \in SUBSET Onward(u), Circle(u, N)
               PROVE  \E m, n \in N : {flood[m][u], flood[n][u]} \in overlapped
    BY DEF CirclesAreOfOverlaps
  <2>1. N \in SUBSET (Nodes \ {u}) /\ N # {} /\ \A n \in N : route[n][u] \in N
    BY DEF Onward, Circle
  <2>2. ~ Apart(u, N)
    BY <2>1 DEF IInv, NoCircle
  <2> QED
    BY <2>2 DEF Apart
<1> QED
  BY <1>1, Invariant, PTL
==============================================================================
