------------------------------- MODULE EmsMesh -------------------------------
(***************************************************************************)
(* EMS nodes exchanging messages and acknowledgements (messages.c with     *)
(* sendout.c and package.c).  A package travels from its sender to its end *)
(* in one hop or, with an intermediate head, through others.  Every        *)
(* transmission of a message has a rid of its own; the acknowledgement is  *)
(* a package with a new rid that names the message.                        *)
(*                                                                         *)
(* The network is a set of datagrams that never shrinks: a datagram may be *)
(* received at any time, any number of times, in any order or never.       *)
(* Routes are those of EmsRoutes, seen from here: a look-up may give any   *)
(* other node, right or wrong, or none.  The rids a node knows are those   *)
(* of EmsPackage; Forgetful nodes may forget any of them, others none.     *)
(*                                                                         *)
(* Dropping a known transmission and leaving one of a stranger unregistered *)
(* change nothing here and are stuttering steps.                           *)
(***************************************************************************)
EXTENDS Integers, FiniteSets

CONSTANTS Nodes,
          Messages, Source, Target,     \* Source[m] sends m to Target[m]
          Acks,                         \* the fixed parts of acknowledgements' rids
          MOST,                         \* MOST[m]: transmissions of m (21)
          Forgetful     \* the nodes that may forget rids

ASSUME MeshAssumption ==
  /\ Source \in [Messages -> Nodes] /\ Target \in [Messages -> Nodes]
  /\ \A m \in Messages : Source[m] # Target[m]
  /\ Messages \cap Acks = {}
  /\ MOST \in [Messages -> Nat]
  /\ Forgetful \subseteq Nodes

VARIABLES net,          \* the datagrams transmitted
          known,        \* the rids each node has registered
          phase,        \* of each message's slot: "new", "waiting", "over"
          sent,         \* transmissions of each message
          processed,    \* history: how often each message was processed; 2 is
                        \* more than once
          acked         \* history: the messages acknowledged

vars == <<net, known, phase, sent, processed, acked>>

Rids == [package : Messages \cup Acks, flex : Nat]

\* A package has an intermediate head exactly if it goes to another node than its end.
Datagrams == [rid : Rids, type : {"msg", "ack"}, of : Messages, end : Nodes, from : Nodes, to : Nodes]

\* The network, the nodes' rids and, for each message, its slot and its history.
TypeOK ==
  /\ net \subseteq Datagrams
  /\ known \in [Nodes -> SUBSET Rids]
  /\ phase \in [Messages -> {"new", "waiting", "over"}]
  /\ sent \in [Messages -> Nat] /\ \A m \in Messages : sent[m] <= MOST[m]
  /\ processed \in [Messages -> 0 .. 2]
  /\ acked \subseteq Messages

Init ==
  /\ net = {}
  /\ known = [n \in Nodes |-> {}]
  /\ phase = [m \in Messages |-> "new"]
  /\ sent = [m \in Messages |-> 0]
  /\ processed = [m \in Messages |-> 0]
  /\ acked = {}

-----------------------------------------------------------------------------
\* exists_rid: 1 and 2.
Seen(n, rid) == rid \in known[n]
SeenOther(n, rid) == \E other \in known[n] : other.package = rid.package

register_rid(n, rid) == known' = [known EXCEPT ![n] = @ \cup {rid}]

\* send_package_by_table at node n, if a route is found.
Send(n, rid, type, of, end) ==
  \E link \in Nodes \ {n} :
    net' = net \cup {[rid |-> rid, type |-> type, of |-> of, end |-> end, from |-> n, to |-> link]}

\* send_ack: a new package, if there is a route to the source.
send_ack(n, m) ==
  \/ net' = net
  \/ \E a \in Acks : /\ \A d \in net : d.rid.package # a
                     /\ Send(n, [package |-> a, flex |-> 0], "ack", m, Source[m])

\* Mutant: the attempts are not counted.
Transmit_Endless(m) ==
  /\ phase[m] # "over"
  /\ Send(Source[m], [package |-> m, flex |-> sent[m]], "msg", m, Target[m])
  /\ phase' = [phase EXCEPT ![m] = "waiting"]
  /\ sent' = [sent EXCEPT ![m] = @ + 1]
  /\ UNCHANGED <<known, processed, acked>>

\* send_out_by_name and check_send_out: a transmission of m; the sender does
\* not register its own rid.
Transmit(m) ==
  /\ phase[m] # "over" /\ sent[m] < MOST[m]
  /\ Send(Source[m], [package |-> m, flex |-> sent[m]], "msg", m, Target[m])
  /\ phase' = [phase EXCEPT ![m] = "waiting"]
  /\ sent' = [sent EXCEPT ![m] = @ + 1]
  /\ UNCHANGED <<known, processed, acked>>

\* check_send_out: the time is over.
GiveUp(m) ==
  /\ phase[m] = "waiting"
  /\ phase' = [phase EXCEPT ![m] = "over"]
  /\ UNCHANGED <<net, known, sent, processed, acked>>

\* Mutant: what is passed on is not registered.
PassOn_Unregistered(d) ==
  /\ d.end # d.to /\ ~ Seen(d.to, d.rid)
  /\ Send(d.to, d.rid, d.type, d.of, d.end)
  /\ UNCHANGED <<known, phase, sent, processed, acked>>

\* process_package of an INTERMEDIATE package: passed on if there is a route.
PassOn(d) ==
  /\ d.end # d.to /\ ~ Seen(d.to, d.rid)
  /\ register_rid(d.to, d.rid)
  /\ net' = net \/ Send(d.to, d.rid, d.type, d.of, d.end)
  /\ UNCHANGED <<phase, sent, processed, acked>>

\* process_package of another transmission of a package known: acknowledged
\* again if it asks for that, but not processed.
Again(d) ==
  /\ d.end = d.to /\ ~ Seen(d.to, d.rid) /\ SeenOther(d.to, d.rid)
  /\ register_rid(d.to, d.rid)
  /\ IF d.type = "msg" THEN send_ack(d.to, d.of) ELSE net' = net
  /\ UNCHANGED <<phase, sent, processed, acked>>

OneMore(times) == IF times = 0 THEN 1 ELSE 2

New(d) == d.end = d.to /\ ~ Seen(d.to, d.rid) /\ ~ SeenOther(d.to, d.rid)

\* Mutant: a transmission of a package known is processed, too.
ProcessMsg_Again(d) ==
  /\ d.end = d.to /\ ~ Seen(d.to, d.rid) /\ d.type = "msg"
  /\ register_rid(d.to, d.rid)
  /\ send_ack(d.to, d.of)
  /\ processed' = [processed EXCEPT ![d.of] = OneMore(@)]
  /\ UNCHANGED <<phase, sent, acked>>

\* process_package, PACKAGE_MSG and PACKAGE_COMMAND, of a neighbour.
ProcessMsg(d) ==
  /\ New(d) /\ d.type = "msg"
  /\ register_rid(d.to, d.rid)
  /\ send_ack(d.to, d.of)
  /\ processed' = [processed EXCEPT ![d.of] = OneMore(@)]
  /\ UNCHANGED <<phase, sent, acked>>

\* process_package, PACKAGE_ACK: acknowledge frees the slot of the message.
\* (A slot that has another message by now is left alone: phase is "over" then,
\* and the history alone changes.)
ProcessAck(d) ==
  /\ New(d) /\ d.type = "ack"
  /\ register_rid(d.to, d.rid)
  /\ phase' = [phase EXCEPT ![d.of] = "over"]
  /\ acked' = acked \cup {d.of}
  /\ UNCHANGED <<net, sent, processed>>

\* register_rid overwrites the oldest rid of the ring.
Forget(n, rid) ==
  /\ n \in Forgetful /\ rid \in known[n]
  /\ known' = [known EXCEPT ![n] = @ \ {rid}]
  /\ UNCHANGED <<net, phase, sent, processed, acked>>

Next ==
  \/ \E m \in Messages : Transmit(m)
  \/ \E m \in Messages : GiveUp(m)
  \/ \E d \in net : PassOn(d)
  \/ \E d \in net : Again(d)
  \/ \E d \in net : ProcessMsg(d)
  \/ \E d \in net : ProcessAck(d)
  \/ \E n \in Nodes : \E rid \in known[n] : Forget(n, rid)

Spec == Init /\ [][Next]_vars

-----------------------------------------------------------------------------
\* A sender never takes for acknowledged what the receiver has not processed,
\* whatever is lost, doubled, delayed, misrouted or forgotten.
AckedIsProcessed == \A m \in acked : processed[m] > 0

\* Routes in circles do not keep a package alive: a node that does not forget
\* puts a transmission on the air once, and the node it started from once
\* more if it came back.
CirclesEnd ==
  \A d \in net : d.from \notin Forgetful =>
    Cardinality({e \in net : e.rid = d.rid /\ e.from = d.from}) <=
      IF d.from = (IF d.type = "msg" THEN Source[d.of] ELSE Target[d.of]) THEN 2 ELSE 1

\* The nodes keep the promise of EmsExchange.
Once == {m \in Messages : Target[m] \notin Forgetful}
Exchange == INSTANCE EmsExchange

ImplementsExchange == Exchange!Spec
=============================================================================
