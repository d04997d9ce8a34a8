---------------------------- MODULE EmsDiscovery ----------------------------
(***************************************************************************)
(* How EMS nodes find each other (messages.c).  A node that has no route   *)
(* to a name or a uid floods a request; every node on the way learns a     *)
(* route back to the origin, and the node wanted sends an announcement by  *)
(* that route.  A discovery is a request that every node answers and that  *)
(* goes a number of hops.  The packages of a node that is not a neighbour  *)
(* are not processed; nodes in range become neighbours at any time, since  *)
(* all ask for neighbours again and again.                                 *)
(*                                                                         *)
(* As in EmsMesh the network is a set of datagrams that never shrinks.     *)
(* The table of routes is taken to be large enough (EmsRoutes has its      *)
(* limit), neighbours stay (EmsNeighbors), and nodes remember the rids of  *)
(* the floods (EmsPackage).                                                *)
(***************************************************************************)
EXTENDS Integers

CONSTANTS Nodes,
          InRange,      \* InRange[n]: the nodes that hear n
          Met,          \* Met[n]: its neighbours at the start
          Requests, Origin,
          Wanted,       \* the node a request asks for; Everyone for a discovery,
                        \* Nobody for a broadcast message
          Depth,        \* of a discovery; 0 for other requests
          Everyone, Nobody,
          Together      \* bound: the sets of requests that are all made

ASSUME DiscoveryAssumption ==
  /\ InRange \in [Nodes -> SUBSET Nodes] /\ Met \in [Nodes -> SUBSET Nodes]
  /\ \A n \in Nodes : n \notin InRange[n] /\ Met[n] \subseteq InRange[n]
  /\ \A n \in Nodes : \A m \in InRange[n] : n \in InRange[m]
  /\ Origin \in [Requests -> Nodes]
  /\ Wanted \in [Requests -> Nodes \cup {Everyone, Nobody}]
  /\ Depth \in [Requests -> Nat]
  /\ Everyone \notin Nodes /\ Nobody \notin Nodes /\ Everyone # Nobody
  /\ Nobody \notin Requests

VARIABLES net,          \* the requests and announcements transmitted
          known,        \* the rids each node has registered
          near,         \* its neighbours
          route,        \* the neighbour each of its routes leads to
          issued,       \* the requests made
          astray,       \* the nodes that sent by a route they had not found
          flood,        \* history: the request each route was learnt from, Nobody
                        \* for one learnt from an announcement
          overlapped    \* history: the pairs of an origin's requests the later of
                        \* which was made before the flood of the other was over

vars == <<net, known, near, route, issued, astray, flood, overlapped>>

Rids == [type : {"request", "announcement"}, of : Requests, by : Nodes]
RidOf(d) == [type |-> d.type, of |-> d.of, by |-> d.by]

\* by: the identified source; end: the end in the intermediate head, if there
\* is one; to: Everyone for a broadcast.
Packages == [type : {"request", "announcement"}, of : Requests, by : Nodes, depth : Nat,
             end : Nodes \cup {Nobody}, from : Nodes, to : Nodes \cup {Everyone}]

\* Floods, neighbours and routes; a route leads to a neighbour in range.
TypeOK ==
  /\ net \subseteq Packages
  /\ known \in [Nodes -> SUBSET Rids]
  /\ near \in [Nodes -> SUBSET Nodes]
  /\ route \in [Nodes -> [Nodes -> Nodes \cup {Nobody}]]
  /\ \A n, u \in Nodes : route[n][u] \in near[n] \cup {Nobody}
  /\ \A n \in Nodes : near[n] \subseteq InRange[n]
  /\ issued \subseteq Requests /\ astray \subseteq Nodes
  /\ flood \in [Nodes -> [Nodes -> Requests \cup {Nobody}]]
  /\ overlapped \subseteq SUBSET Requests

Init ==
  /\ net = {}
  /\ known = [n \in Nodes |-> {}]
  /\ near = Met
  /\ route = [n \in Nodes |-> [u \in Nodes |-> Nobody]]
  /\ issued = {} /\ astray = {}
  /\ flood = [n \in Nodes |-> [u \in Nodes |-> Nobody]]
  /\ overlapped = {}

-----------------------------------------------------------------------------
\* The nodes an origin's request may reach in k hops.
Within(n, k) ==
  LET reach[i \in 0 .. k] ==
        IF i = 0 THEN {n} ELSE reach[i - 1] \cup UNION {InRange[m] : m \in reach[i - 1]}
  IN  reach[k]

\* A flood is over: all who could hear it have registered it.
Over(r) ==
  \A d \in net : d.type = "request" /\ d.of = r =>
    \A n \in InRange[d.from] \ {Origin[r]} : RidOf(d) \in known[n]

\* What n puts on the air: a request, an announcement by neighbour m.
Flood(n, r, depth) == [type |-> "request", of |-> r, by |-> Origin[r], depth |-> depth,
                       end |-> Nobody, from |-> n, to |-> Everyone]
Announce(n, r, by, end, m, uid) ==
  [type |-> "announcement", of |-> r, by |-> by, depth |-> 0,
   end |-> IF m = uid THEN Nobody ELSE end, from |-> n, to |-> m]

\* send_name_request, send_uid_request, discovery_neighborhood,
\* send_broadcast_msg: check_send_out asks once for each message without a
\* route and again every second, whatever has become of the last request.
Issue(r) ==
  /\ r \notin issued /\ Origin[r] \notin astray
  /\ \E some \in Together : issued \cup {r} \subseteq some
  /\ net' = net \cup {Flood(Origin[r], r, Depth[r])}
  /\ issued' = issued \cup {r}
  /\ overlapped' = overlapped \cup {{q, r} : q \in {q \in issued : Origin[q] = Origin[r] /\ ~ Over(q)}}
  /\ UNCHANGED <<known, near, route, astray, flood>>

\* The nodes that may receive d; one that does, and has not registered its rid.
Listeners(d) == IF d.to = Everyone THEN InRange[d.from] ELSE {d.to}
New(n, d) == n \notin astray /\ RidOf(d) \notin known[n]

register_rid(n, d) == known' = [known EXCEPT ![n] = @ \cup {RidOf(d)}]
register_uid(n, d) ==
  /\ route' = [route EXCEPT ![n][d.by] = d.from]
  /\ flood' = [flood EXCEPT ![n][d.by] = IF d.type = "request" THEN d.of ELSE Nobody]

\* process_package, of a node that is not a neighbour: a discovery is
\* registered, other packages are left for their next copy.
Stranger(n, d) ==
  /\ New(n, d) /\ d.from \notin near[n] /\ d.type = "request" /\ Wanted[d.of] = Everyone
  /\ register_rid(n, d)
  /\ UNCHANGED <<net, near, route, issued, astray, flood, overlapped>>

\* Mutant: the route is learnt from repeated requests, too.
PassRequest_Repeated(n, d) ==
  /\ n \notin astray /\ d.from \in near[n] /\ d.type = "request"
  /\ Wanted[d.of] \in Nodes \ {n}
  /\ register_rid(n, d) /\ register_uid(n, d)
  /\ net' = net \cup {Flood(n, d.of, d.depth)}
  /\ UNCHANGED <<near, issued, astray, overlapped>>

\* PACKAGE_NAME_REQUEST, PACKAGE_UID_REQUEST: passed on to all, or answered.
PassRequest(n, d) ==
  /\ New(n, d) /\ d.from \in near[n] /\ d.type = "request"
  /\ Wanted[d.of] \in Nodes \ {n}
  /\ register_rid(n, d) /\ register_uid(n, d)
  /\ net' = net \cup {Flood(n, d.of, d.depth)}
  /\ UNCHANGED <<near, issued, astray, overlapped>>

AnswerRequest(n, d) ==
  /\ New(n, d) /\ d.from \in near[n] /\ d.type = "request"
  /\ Wanted[d.of] = n
  /\ register_rid(n, d) /\ register_uid(n, d)
  /\ net' = net \cup {Announce(n, d.of, n, d.by, d.from, d.by)}
  /\ UNCHANGED <<near, issued, astray, overlapped>>

\* Mutant: passed on, too, when no depth is left.
Discover_Deeper(n, d) ==
  /\ New(n, d) /\ d.from \in near[n] /\ d.type = "request"
  /\ Wanted[d.of] = Everyone
  /\ register_rid(n, d) /\ register_uid(n, d)
  /\ net' = net \cup {Announce(n, d.of, n, d.by, d.from, d.by),
                      Flood(n, d.of, (d.depth + 255) % 256)}
  /\ UNCHANGED <<near, issued, astray, overlapped>>

\* Mutant: the route is registered whether or not its first node is a neighbour.
Discover_Anybody(n, d) ==
  /\ New(n, d) /\ d.type = "request"
  /\ Wanted[d.of] = Everyone
  /\ register_rid(n, d) /\ register_uid(n, d)
  /\ net' = net \cup {Announce(n, d.of, n, d.by, d.from, d.by)}
                \cup IF d.depth > 0 THEN {Flood(n, d.of, d.depth - 1)} ELSE {}
  /\ UNCHANGED <<near, issued, astray, overlapped>>

\* PACKAGE_NEIGHBOR_REQUEST with a depth: passed on while there is depth left,
\* and answered.
Discover(n, d) ==
  /\ New(n, d) /\ d.from \in near[n] /\ d.type = "request"
  /\ Wanted[d.of] = Everyone
  /\ register_rid(n, d) /\ register_uid(n, d)
  /\ net' = net \cup {Announce(n, d.of, n, d.by, d.from, d.by)}
                \cup IF d.depth > 0 THEN {Flood(n, d.of, d.depth - 1)} ELSE {}
  /\ UNCHANGED <<near, issued, astray, overlapped>>

\* PACKAGE_BROADCAST_MSG: printed and passed on, whoever it came from, by its
\* own origin, too.
HearMessage(n, d) ==
  /\ New(n, d) /\ d.type = "request" /\ Wanted[d.of] = Nobody
  /\ register_rid(n, d)
  /\ net' = net \cup {Flood(n, d.of, d.depth)}
  /\ UNCHANGED <<near, route, issued, astray, flood, overlapped>>

\* PACKAGE_ANNOUNCEMENT at its end.
HearAnnouncement(n, d) ==
  /\ New(n, d) /\ d.from \in near[n] /\ d.type = "announcement" /\ d.end = Nobody
  /\ register_rid(n, d) /\ register_uid(n, d)
  /\ UNCHANGED <<net, near, issued, astray, overlapped>>

\* An INTERMEDIATE announcement: with a route to its end, it is sent by the
\* route to its source, whether or not there is one ("broken path ?").
PassAnnouncement(n, d) ==
  /\ New(n, d) /\ d.end # Nobody
  /\ register_rid(n, d)
  /\ \/ /\ route[n][d.end] = Nobody
        /\ UNCHANGED <<net, astray>>
     \/ /\ route[n][d.end] # Nobody /\ route[n][d.by] = Nobody
        /\ astray' = astray \cup {n}
        /\ net' = net
     \/ /\ route[n][d.end] # Nobody /\ route[n][d.by] # Nobody
        /\ net' = net \cup {Announce(n, d.of, d.by, d.end, route[n][d.by], d.by)}
        /\ astray' = astray
  /\ UNCHANGED <<near, route, issued, flood, overlapped>>

\* register_neighbor: after a NEIGHBOR_REQUEST of n comes an ECHO of m, or
\* after one of m, and an ECHO of n, its REECHO.
Meet(n, m) ==
  /\ n \notin astray /\ m \in InRange[n] \ near[n]
  /\ near' = [near EXCEPT ![n] = @ \cup {m}]
  /\ UNCHANGED <<net, known, route, issued, astray, flood, overlapped>>

Next ==
  \/ \E r \in Requests : Issue(r)
  \/ \E d \in net : \E n \in Listeners(d) : Stranger(n, d)
  \/ \E d \in net : \E n \in Listeners(d) : PassRequest(n, d)
  \/ \E d \in net : \E n \in Listeners(d) : AnswerRequest(n, d)
  \/ \E d \in net : \E n \in Listeners(d) : Discover(n, d)
  \/ \E d \in net : \E n \in Listeners(d) : HearMessage(n, d)
  \/ \E d \in net : \E n \in Listeners(d) : HearAnnouncement(n, d)
  \/ \E d \in net : \E n \in Listeners(d) : PassAnnouncement(n, d)
  \/ \E n, m \in Nodes : Meet(n, m)

Spec == Init /\ [][Next]_vars

-----------------------------------------------------------------------------
\* The nodes whose route to u does not lead to u itself.
Onward(u) == {n \in Nodes \ {u} : route[n][u] \in Nodes \ {u}}

\* The routes to u of some nodes lead round among them.
Circle(u, N) == N # {} /\ \A n \in N : route[n][u] \in N

\* The routes the nodes learn from floods and announcements lead packages round
\* in a circle only if two of them come from floods the second of which its
\* origin began before the first was over: in whatever order the copies of a
\* flood come, and however the floods overtake each other, the routes of one
\* flood, or of floods that followed each other, make none.
CirclesAreOfOverlaps ==
  \A u \in Nodes : \A N \in SUBSET Onward(u) : Circle(u, N) =>
    \E m, n \in N : {flood[m][u], flood[n][u]} \in overlapped

\* A discovery is answered only by nodes at most its depth and one hop away.
DiscoveryStaysNear ==
  \A d \in net : d.type = "announcement" /\ Wanted[d.of] = Everyone =>
    d.by \in Within(Origin[d.of], Depth[d.of] + 1)

\* With every node up and every link working no path is broken, and a node
\* that passes on an announcement has a route to its source.
NoPathIsBroken == astray = {}
=============================================================================
