---------------------------- MODULE EmsMeshProofs ----------------------------
(***************************************************************************)
(* Proofs about EmsMesh, for any nodes, messages, acknowledgements and     *)
(* numbers of transmissions.  What an acknowledgement tells its sender is  *)
(* a chain of three facts, one for each place the news passes through: the *)
(* receiver's table, the datagrams, the sender.                            *)
(***************************************************************************)
EXTENDS EmsMesh, FiniteSetTheorems, TLAPS

\* A message transmitted names its end; an acknowledgement transmitted is of
\* a message processed.
NetIsHonest ==
  \A d \in net :
    \/ /\ d.type = "msg" /\ d.rid.package = d.of /\ d.end = Target[d.of]
       /\ sent[d.of] > 0
    \/ /\ d.type = "ack" /\ d.rid.package \in Acks /\ d.end = Source[d.of]
       /\ processed[d.of] > 0

\* The end of a message knows no rid of it that it has not processed.
KnownIsProcessed ==
  \A m \in Messages : \A rid \in known[Target[m]] :
    rid.package = m => processed[m] > 0

AckedIsOver == \A m \in acked : phase[m] = "over"

\* What a node that does not forget has processed is known, and processed once.
ProcessedIsKnown ==
  \A m \in Once :
    /\ processed[m] <= 1
    /\ processed[m] > 0 => \E rid \in known[Target[m]] : rid.package = m

IInv == /\ TypeOK /\ NetIsHonest /\ KnownIsProcessed
        /\ AckedIsProcessed /\ AckedIsOver /\ ProcessedIsKnown

\* The rid of a datagram is one of Rids, and its fields are what they say.
LEMMA Fields ==
  ASSUME TypeOK, NEW d \in net
  PROVE  /\ d.rid \in Rids /\ d.of \in Messages /\ d.end \in Nodes
         /\ d.to \in Nodes /\ d.from \in Nodes /\ d.type \in {"msg", "ack"}
BY DEF TypeOK, Datagrams

\* What a node transmits joins the network.
LEMMA SendAdds ==
  ASSUME NEW n, NEW rid, NEW type, NEW of, NEW end, Send(n, rid, type, of, end)
  PROVE  \E link \in Nodes \ {n} :
           net' = net \cup {[rid |-> rid, type |-> type, of |-> of, end |-> end,
                             from |-> n, to |-> link]}
BY DEF Send

\* The types survive a transmission.
LEMMA SendIsTyped ==
  ASSUME net \subseteq Datagrams,
         NEW n \in Nodes, NEW rid \in Rids, NEW type \in {"msg", "ack"}, NEW of \in Messages,
         NEW end \in Nodes, Send(n, rid, type, of, end)
  PROVE  net' \subseteq Datagrams
BY DEF Send, Datagrams

\* An acknowledgement of a message processed is honest.
LEMMA AckIsHonest ==
  ASSUME TypeOK, NetIsHonest, NEW n \in Nodes, NEW m \in Messages, send_ack(n, m),
         sent' = sent, processed' \in [Messages -> 0 .. 2],
         \A l \in Messages : processed[l] > 0 => processed'[l] > 0,
         processed'[m] > 0
  PROVE  net' \subseteq Datagrams /\ NetIsHonest'
<1>1. CASE net' = net
  BY <1>1, Fields DEF NetIsHonest, TypeOK
<1>2. CASE \E a \in Acks : Send(n, [package |-> a, flex |-> 0], "ack", m, Source[m])
  <2>1. PICK a \in Acks : Send(n, [package |-> a, flex |-> 0], "ack", m, Source[m])
    BY <1>2
  <2>2. PICK link \in Nodes \ {n} :
          net' = net \cup {[rid |-> [package |-> a, flex |-> 0], type |-> "ack", of |-> m,
                            end |-> Source[m], from |-> n, to |-> link]}
    BY <2>1 DEF Send
  <2>3. [package |-> a, flex |-> 0] \in Rids /\ Source[m] \in Nodes
    BY MeshAssumption DEF Rids
  <2>4. net' \subseteq Datagrams
    BY <2>2, <2>3 DEF TypeOK, Datagrams
  <2>5. NetIsHonest'
    BY <2>2, Fields DEF NetIsHonest
  <2> QED
    BY <2>4, <2>5
<1> QED
  BY <1>1, <1>2 DEF send_ack

\* An idle network satisfies the invariant.
LEMMA InitHolds == Init => IInv
<1> SUFFICES ASSUME Init PROVE IInv
  OBVIOUS
<1>1. TypeOK
  BY MeshAssumption DEF Init, TypeOK
<1>2. NetIsHonest /\ KnownIsProcessed /\ AckedIsProcessed /\ AckedIsOver
  BY MeshAssumption DEF Init, NetIsHonest, KnownIsProcessed, AckedIsProcessed, AckedIsOver
<1>3. ProcessedIsKnown
  BY DEF Init, ProcessedIsKnown, Once
<1> QED
  BY <1>1, <1>2, <1>3 DEF IInv

\* A transmission keeps the invariant (send_out_by_name, check_send_out).
LEMMA TransmitPreserves ==
  ASSUME IInv, NEW m \in Messages, Transmit(m)
  PROVE  IInv'
<1> USE DEF IInv
<1>1. PICK link \in Nodes \ {Source[m]} :
        net' = net \cup {[rid |-> [package |-> m, flex |-> sent[m]], type |-> "msg", of |-> m,
                          end |-> Target[m], from |-> Source[m], to |-> link]}
  BY DEF Transmit, Send
<1>2. /\ sent[m] \in Nat /\ sent[m] < MOST[m] /\ MOST[m] \in Nat /\ sent' = [sent EXCEPT ![m] = @ + 1]
      /\ phase' = [phase EXCEPT ![m] = "waiting"] /\ phase[m] # "over"
      /\ known' = known /\ processed' = processed /\ acked' = acked
  BY MeshAssumption DEF Transmit, TypeOK
<1>3. [package |-> m, flex |-> sent[m]] \in Rids
  BY <1>2 DEF Rids
<1>4. TypeOK'
  <2>1. net' \subseteq Datagrams
    BY <1>1, <1>3, MeshAssumption DEF TypeOK, Datagrams
  <2>2. sent' \in [Messages -> Nat] /\ \A l \in Messages : sent'[l] <= MOST[l]
    BY <1>2, MeshAssumption DEF TypeOK
  <2> QED
    BY <1>2, <2>1, <2>2 DEF TypeOK
<1>5. NetIsHonest'
  <2>1. \A l \in Messages : sent[l] > 0 => sent'[l] > 0
    BY <1>2, MeshAssumption DEF TypeOK
  <2>2. sent'[m] > 0
    BY <1>2, MeshAssumption DEF TypeOK
  <2> QED
    BY <1>1, <1>2, <2>1, <2>2, Fields DEF NetIsHonest
<1>6. KnownIsProcessed' /\ AckedIsProcessed' /\ ProcessedIsKnown'
  BY <1>2 DEF KnownIsProcessed, AckedIsProcessed, ProcessedIsKnown
<1>7. AckedIsOver'
  BY <1>2 DEF AckedIsOver, TypeOK
<1> QED
  BY <1>4, <1>5, <1>6, <1>7

\* The end of the retries keeps the invariant (check_send_out).
LEMMA GiveUpPreserves ==
  ASSUME IInv, NEW m \in Messages, GiveUp(m)
  PROVE  IInv'
BY DEF IInv, GiveUp, TypeOK, NetIsHonest, KnownIsProcessed, AckedIsProcessed, AckedIsOver,
       ProcessedIsKnown

\* Registering at a node that is not the end, or of an acknowledgement, tells
\* nothing of a message; registering loses nothing.
LEMMA PassOnPreserves ==
  ASSUME IInv, NEW d \in net, PassOn(d)
  PROVE  IInv'
<1> USE DEF IInv
<1>1. /\ d.rid \in Rids /\ d.of \in Messages /\ d.end \in Nodes
      /\ d.to \in Nodes /\ d.type \in {"msg", "ack"}
  BY Fields
<1>2. /\ known' = [known EXCEPT ![d.to] = @ \cup {d.rid}] /\ d.end # d.to
      /\ phase' = phase /\ sent' = sent /\ processed' = processed /\ acked' = acked
  BY DEF PassOn, register_rid
<1>3. net' \subseteq Datagrams /\ NetIsHonest'
  <2>1. CASE net' = net
    BY <2>1, <1>2 DEF TypeOK, NetIsHonest
  <2>2. CASE Send(d.to, d.rid, d.type, d.of, d.end)
    <3>1. PICK link \in Nodes \ {d.to} :
            net' = net \cup {[rid |-> d.rid, type |-> d.type, of |-> d.of, end |-> d.end,
                              from |-> d.to, to |-> link]}
      BY <2>2 DEF Send
    <3>2. net' \subseteq Datagrams
      BY <3>1, <1>1 DEF TypeOK, Datagrams
    <3>3. NetIsHonest'
      BY <3>1, <1>2 DEF NetIsHonest
    <3> QED
      BY <3>2, <3>3
  <2> QED
    BY <2>1, <2>2 DEF PassOn
<1>4. TypeOK'
  BY <1>1, <1>2, <1>3 DEF TypeOK
<1>5. KnownIsProcessed'
  BY <1>1, <1>2, MeshAssumption DEF KnownIsProcessed, NetIsHonest, TypeOK
<1>6. ProcessedIsKnown'
  BY <1>1, <1>2, MeshAssumption DEF ProcessedIsKnown, TypeOK
<1>7. AckedIsProcessed' /\ AckedIsOver'
  BY <1>2 DEF AckedIsProcessed, AckedIsOver
<1> QED
  BY <1>3, <1>4, <1>5, <1>6, <1>7

\* Acknowledging a known package again keeps the invariant (process_package).
LEMMA AgainPreserves ==
  ASSUME IInv, NEW d \in net, Again(d)
  PROVE  IInv'
<1> USE DEF IInv
<1>1. /\ d.rid \in Rids /\ d.of \in Messages /\ d.end \in Nodes
      /\ d.to \in Nodes /\ d.type \in {"msg", "ack"}
  BY Fields
<1>2. /\ known' = [known EXCEPT ![d.to] = @ \cup {d.rid}] /\ d.end = d.to
      /\ phase' = phase /\ sent' = sent /\ processed' = processed /\ acked' = acked
  BY DEF Again, register_rid
<1>3. d.type = "msg" => d.rid.package = d.of /\ d.to = Target[d.of]
  BY <1>2 DEF NetIsHonest
<1>4. d.type = "msg" => processed[d.of] > 0
  BY <1>1, <1>3 DEF Again, SeenOther, KnownIsProcessed
<1>5. net' \subseteq Datagrams /\ NetIsHonest'
  <2>1. CASE d.type = "msg"
    <3>1. send_ack(d.to, d.of)
      BY <2>1 DEF Again
    <3> QED
      BY <3>1, <1>1, <1>2, <1>4, <2>1, AckIsHonest DEF TypeOK
  <2>2. CASE d.type # "msg"
    BY <2>2, <1>2 DEF Again, TypeOK, NetIsHonest
  <2> QED
    BY <2>1, <2>2
<1>6. TypeOK'
  BY <1>1, <1>2, <1>5 DEF TypeOK
<1>7. KnownIsProcessed'
  BY <1>1, <1>2, <1>3, <1>4, MeshAssumption DEF KnownIsProcessed, NetIsHonest, TypeOK
<1>8. ProcessedIsKnown'
  BY <1>1, <1>2, MeshAssumption DEF ProcessedIsKnown, TypeOK
<1>9. AckedIsProcessed' /\ AckedIsOver'
  BY <1>2 DEF AckedIsProcessed, AckedIsOver
<1> QED
  BY <1>5, <1>6, <1>7, <1>8, <1>9

\* Processing a message keeps the invariant (process_package).
LEMMA ProcessMsgPreserves ==
  ASSUME IInv, NEW d \in net, ProcessMsg(d)
  PROVE  IInv'
<1> USE DEF IInv
<1>1. /\ d.rid \in Rids /\ d.of \in Messages /\ d.end \in Nodes
      /\ d.to \in Nodes /\ d.type = "msg"
  BY Fields DEF ProcessMsg
<1>2. /\ known' = [known EXCEPT ![d.to] = @ \cup {d.rid}] /\ d.end = d.to
      /\ processed' = [processed EXCEPT ![d.of] = OneMore(@)]
      /\ phase' = phase /\ sent' = sent /\ acked' = acked
      /\ send_ack(d.to, d.of)
  BY DEF ProcessMsg, New, register_rid
<1>3. d.rid.package = d.of /\ d.to = Target[d.of]
  BY <1>1, <1>2 DEF NetIsHonest
<1>4. /\ processed' \in [Messages -> 0 .. 2] /\ processed'[d.of] > 0
      /\ \A l \in Messages : processed[l] > 0 => processed'[l] > 0
  BY <1>1, <1>2 DEF TypeOK, OneMore
<1>5. net' \subseteq Datagrams /\ NetIsHonest'
  BY <1>1, <1>2, <1>4, AckIsHonest
<1>6. TypeOK'
  BY <1>1, <1>2, <1>4, <1>5 DEF TypeOK
<1>7. KnownIsProcessed'
  BY <1>1, <1>2, <1>3, <1>4, MeshAssumption DEF KnownIsProcessed, TypeOK
<1>8. ProcessedIsKnown'
  <2>1. d.of \in Once => processed[d.of] = 0
    BY <1>1, <1>3 DEF ProcessMsg, New, SeenOther, ProcessedIsKnown, TypeOK
  <2>2. \A l \in Messages : known[Target[l]] \subseteq known'[Target[l]]
    BY <1>1, <1>2, MeshAssumption DEF TypeOK
  <2>3. d.rid \in known'[Target[d.of]]
    BY <1>1, <1>2, <1>3 DEF TypeOK
  <2>4. ASSUME NEW l \in Once
        PROVE  processed'[l] <= 1 /\ (processed'[l] > 0 => \E rid \in known'[Target[l]] : rid.package = l)
    <3>1. CASE l = d.of
      BY <3>1, <2>1, <2>3, <2>4, <1>1, <1>2, <1>3 DEF TypeOK, OneMore, Once
    <3>2. CASE l # d.of
      BY <3>2, <2>2, <2>4, <1>1, <1>2 DEF TypeOK, ProcessedIsKnown, Once
    <3> QED
      BY <3>1, <3>2
  <2> QED
    BY <2>4 DEF ProcessedIsKnown
<1>9. AckedIsProcessed' /\ AckedIsOver'
  BY <1>2, <1>4 DEF AckedIsProcessed, AckedIsOver, TypeOK
<1> QED
  BY <1>5, <1>6, <1>7, <1>8, <1>9

\* An acknowledgement keeps the invariant (acknowledge).
LEMMA ProcessAckPreserves ==
  ASSUME IInv, NEW d \in net, ProcessAck(d)
  PROVE  IInv'
<1> USE DEF IInv
<1>1. /\ d.rid \in Rids /\ d.of \in Messages /\ d.end \in Nodes
      /\ d.to \in Nodes /\ d.type = "ack"
  BY Fields DEF ProcessAck
<1>2. /\ known' = [known EXCEPT ![d.to] = @ \cup {d.rid}] /\ d.end = d.to
      /\ phase' = [phase EXCEPT ![d.of] = "over"] /\ acked' = acked \cup {d.of}
      /\ net' = net /\ sent' = sent /\ processed' = processed
  BY DEF ProcessAck, New, register_rid
<1>3. d.rid.package \in Acks /\ processed[d.of] > 0
  BY <1>1 DEF NetIsHonest
<1>4. TypeOK' /\ NetIsHonest'
  BY <1>1, <1>2 DEF TypeOK, NetIsHonest
<1>5. KnownIsProcessed'
  BY <1>1, <1>2, <1>3, MeshAssumption DEF KnownIsProcessed, TypeOK
<1>6. ProcessedIsKnown'
  BY <1>1, <1>2, MeshAssumption DEF ProcessedIsKnown, TypeOK
<1>7. AckedIsProcessed' /\ AckedIsOver'
  BY <1>1, <1>2, <1>3 DEF AckedIsProcessed, AckedIsOver, TypeOK
<1> QED
  BY <1>4, <1>5, <1>6, <1>7

\* The ring of rids moving on keeps the invariant (register_rid).
LEMMA ForgetPreserves ==
  ASSUME IInv, NEW n \in Nodes, NEW rid \in known[n], Forget(n, rid)
  PROVE  IInv'
<1> USE DEF IInv
<1>1. /\ n \in Forgetful /\ known' = [known EXCEPT ![n] = @ \ {rid}]
      /\ net' = net /\ phase' = phase /\ sent' = sent /\ processed' = processed /\ acked' = acked
  BY DEF Forget
<1>2. TypeOK' /\ NetIsHonest' /\ AckedIsProcessed' /\ AckedIsOver'
  BY <1>1 DEF TypeOK, NetIsHonest, AckedIsProcessed, AckedIsOver
<1>4. ProcessedIsKnown'
  <2>1. \A m \in Once : known'[Target[m]] = known[Target[m]]
    BY <1>1, MeshAssumption DEF Once, TypeOK
  <2> QED
    BY <1>1, <2>1 DEF ProcessedIsKnown
<1>3. KnownIsProcessed'
  BY <1>1, MeshAssumption DEF KnownIsProcessed, TypeOK
<1> QED
  BY <1>2, <1>3, <1>4

\* So every step keeps it.
LEMMA NextPreserves == IInv /\ [Next]_vars => IInv'
<1> SUFFICES ASSUME IInv, [Next]_vars PROVE IInv'
  OBVIOUS
<1>1. CASE UNCHANGED vars
  BY <1>1 DEF vars, IInv, TypeOK, NetIsHonest, KnownIsProcessed, AckedIsProcessed, AckedIsOver,
              ProcessedIsKnown
<1>2. CASE \E m \in Messages : Transmit(m)
  BY <1>2, TransmitPreserves
<1>3. CASE \E m \in Messages : GiveUp(m)
  BY <1>3, GiveUpPreserves
<1>4. CASE \E d \in net : PassOn(d)
  BY <1>4, PassOnPreserves
<1>5. CASE \E d \in net : Again(d)
  BY <1>5, AgainPreserves
<1>6. CASE \E d \in net : ProcessMsg(d)
  BY <1>6, ProcessMsgPreserves
<1>7. CASE \E d \in net : ProcessAck(d)
  BY <1>7, ProcessAckPreserves
<1>8. CASE \E n \in Nodes : \E rid \in known[n] : Forget(n, rid)
  BY <1>8, ForgetPreserves
<1> QED
  BY <1>1, <1>2, <1>3, <1>4, <1>5, <1>6, <1>7, <1>8 DEF Next

\* The chain holds in every state.
THEOREM Invariant == Spec => []IInv
BY InitHolds, NextPreserves, PTL DEF Spec

\* The datagrams, tables and slots of every run have their types.
THEOREM TypeCorrect == Spec => []TypeOK
<1>1. IInv => TypeOK
  BY DEF IInv
<1> QED
  BY <1>1, Invariant, PTL

\* Forgetful or not, a node takes for acknowledged only what the other end
\* has processed (acknowledge of sendout.c, send_ack of messages.c).
THEOREM AckedAreProcessed == Spec => []AckedIsProcessed
<1>1. IInv => AckedIsProcessed
  BY DEF IInv
<1> QED
  BY <1>1, Invariant, PTL

-----------------------------------------------------------------------------
LEMMA ExchangeInit == Init => Exchange!Init
BY DEF Init, Exchange!Init

\* Every step is one of EmsExchange or changes nothing there.
LEMMA ExchangeStep ==
  ASSUME IInv, [Next]_vars
  PROVE  [Exchange!Next]_(Exchange!vars)
<1> USE DEF IInv
<1>1. CASE UNCHANGED vars
  BY <1>1 DEF vars, Exchange!vars
<1>2. ASSUME NEW m \in Messages, Transmit(m)
      PROVE  Exchange!Next
  <2>1. m \notin acked
    BY <1>2 DEF Transmit, AckedIsOver
  <2>2. Exchange!Send(m)
    BY <1>2, <2>1 DEF Transmit, Exchange!Send
  <2> QED
    BY <2>2 DEF Exchange!Next
<1>3. ASSUME NEW d \in net, ProcessMsg(d)
      PROVE  Exchange!Next
  <2>1. /\ d.of \in Messages /\ d.rid.package = d.of /\ d.to = Target[d.of] /\ sent[d.of] > 0
        /\ processed' = [processed EXCEPT ![d.of] = OneMore(@)]
        /\ sent' = sent /\ acked' = acked
    BY <1>3, Fields DEF ProcessMsg, New, NetIsHonest
  <2>2. d.of \in Once => processed[d.of] = 0
    BY <1>3, <2>1 DEF ProcessMsg, New, SeenOther, ProcessedIsKnown, TypeOK
  <2>3. Exchange!Process(d.of)
    BY <2>1, <2>2 DEF Exchange!Process, OneMore
  <2> QED
    BY <2>1, <2>3 DEF Exchange!Next
<1>4. ASSUME NEW d \in net, ProcessAck(d)
      PROVE  Exchange!Next
  <2>1. /\ d.of \in Messages /\ processed[d.of] > 0 /\ acked' = acked \cup {d.of}
        /\ sent' = sent /\ processed' = processed
    BY <1>4, Fields DEF ProcessAck, NetIsHonest
  <2>2. Exchange!Acknowledge(d.of)
    BY <2>1 DEF Exchange!Acknowledge
  <2> QED
    BY <2>1, <2>2 DEF Exchange!Next
<1>5. CASE \/ \E m \in Messages : GiveUp(m)
           \/ \E d \in net : PassOn(d)
           \/ \E d \in net : Again(d)
           \/ \E n \in Nodes : \E rid \in known[n] : Forget(n, rid)
  BY <1>5 DEF GiveUp, PassOn, Again, Forget, Exchange!vars
<1> QED
  BY <1>1, <1>2, <1>3, <1>4, <1>5 DEF Next

\* The nodes keep the promise of EmsExchange: a receiver that does not forget
\* processes a message once, the sender stops once it is acknowledged.
THEOREM MeshImplementsExchange == Spec => ImplementsExchange
<1>1. IInv /\ [Next]_vars => [Exchange!Next]_(Exchange!vars)
  BY ExchangeStep
<1> QED
  BY <1>1, Invariant, ExchangeInit, PTL DEF Spec, Exchange!Spec, ImplementsExchange
-----------------------------------------------------------------------------
(* A package in circles.  A node that does not forget passes a rid on only *)
(* before it knows it and knows it from then on; its origin alone has put  *)
(* it on the air without knowing it.                                       *)

Origin(d) == IF d.type = "msg" THEN Source[d.of] ELSE Target[d.of]

\* A rid belongs to one package, and that of a message to one of its past
\* transmissions.
RidsAreOfOne ==
  /\ \A d, e \in net : d.rid = e.rid => d.type = e.type /\ d.of = e.of
  /\ \A d \in net : d.type = "msg" => d.rid.flex < sent[d.of]

\* What a node that does not forget has put on the air it knows, the first
\* datagram of an origin excepted.
SendersKnow ==
  \A d, e \in net :
    /\ d.rid = e.rid /\ d.from = e.from /\ d.from \notin Forgetful
    /\ d # e \/ d.from # Origin(d)
    => d.rid \in known[d.from]

\* It has put a rid on the air once, its origin at most twice.
FewDatagrams ==
  /\ \A d, e \in net :
       d.rid = e.rid /\ d.from = e.from /\ d.from \notin Forgetful /\ d # e
       => d.from = Origin(d)
  /\ \A d, e, f \in net :
       d.rid = e.rid /\ d.rid = f.rid /\ d.from = e.from /\ d.from = f.from /\ d.from \notin Forgetful
       => d = e \/ d = f \/ e = f

Circling == RidsAreOfOne /\ SendersKnow /\ FewDatagrams

\* Nothing new on the air: a node that does not forget still knows what it knew.
LEMMA NothingSent ==
  ASSUME Circling, net' = net, sent' = sent,
         \A n \in Nodes \ Forgetful : known[n] \subseteq known'[n], net \subseteq Datagrams
  PROVE  Circling'
<1>1. RidsAreOfOne' /\ FewDatagrams'
  BY DEF Circling, RidsAreOfOne, FewDatagrams, Origin
<1>2. SendersKnow'
  BY DEF Circling, SendersKnow, Origin, Datagrams
<1> QED
  BY <1>1, <1>2 DEF Circling

\* An origin puts a new rid on the air.
LEMMA FreshSent ==
  ASSUME Circling, net \subseteq Datagrams, NEW x, net' = net \cup {x},
         \A d \in net : d.rid # x.rid, x.from = Origin(x),
         \A d \in net : sent[d.of] <= sent'[d.of], sent \in [Messages -> Nat],
         sent' \in [Messages -> Nat],
         x.type = "msg" => x.rid.flex < sent'[x.of],
         \A n \in Nodes \ Forgetful : known[n] \subseteq known'[n]
  PROVE  Circling'
<1>1. RidsAreOfOne'
  <2>1. \A d \in net : d.type = "msg" => d.rid.flex < sent'[d.of]
    <3>1. \A d \in net : /\ d.rid.flex \in Nat /\ sent[d.of] \in Nat /\ sent'[d.of] \in Nat
      BY DEF Datagrams, Rids
    <3> QED
      BY <3>1 DEF Circling, RidsAreOfOne
  <2> QED
    BY <2>1 DEF Circling, RidsAreOfOne
<1>2. SendersKnow'
  BY DEF Circling, SendersKnow, Origin, Datagrams
<1>3. FewDatagrams'
  BY DEF Circling, FewDatagrams, Origin
<1> QED
  BY <1>1, <1>2, <1>3 DEF Circling

\* A node passes on, and registers, a rid it did not know.
LEMMA PassedOn ==
  ASSUME Circling, net \subseteq Datagrams, NEW d \in net, NEW x, net' = net \cup {x},
         x.rid = d.rid, x.type = d.type, x.of = d.of, x.from = d.to,
         d.rid \notin known[d.to], d.rid \in known'[d.to],
         \A n \in Nodes \ Forgetful : known[n] \subseteq known'[n], sent' = sent
  PROVE  Circling'
<1>1. RidsAreOfOne'
  BY DEF Circling, RidsAreOfOne
<1>2. \A e \in net : e.rid = x.rid /\ e.from = x.from /\ x.from \notin Forgetful => e.from = Origin(e)
  BY DEF Circling, SendersKnow
<1>3. \A e, f \in net : /\ e.rid = x.rid /\ e.from = x.from /\ x.from \notin Forgetful
                        /\ f.rid = x.rid /\ f.from = x.from
                        => e = f
  BY DEF Circling, SendersKnow
<1>4. \A e \in net : e.rid = x.rid => Origin(e) = Origin(x)
  BY DEF Circling, RidsAreOfOne, Origin
<1>5. SendersKnow'
  BY DEF Circling, SendersKnow, Origin, Datagrams
<1>6. FewDatagrams'
  BY <1>2, <1>3, <1>4 DEF Circling, FewDatagrams, Origin
<1> QED
  BY <1>1, <1>5, <1>6 DEF Circling

\* An acknowledgement of m is a package of its own, from the target of m.
LEMMA AckIsFresh ==
  ASSUME Circling, TypeOK, NEW m \in Messages, send_ack(Target[m], m), sent' = sent,
         \A n \in Nodes \ Forgetful : known[n] \subseteq known'[n]
  PROVE  Circling'
<1>1. CASE net' = net
  BY <1>1, NothingSent DEF TypeOK
<1>2. ASSUME NEW a \in Acks, \A d \in net : d.rid.package # a,
             Send(Target[m], [package |-> a, flex |-> 0], "ack", m, Source[m])
      PROVE  Circling'
  <2>1. PICK link \in Nodes \ {Target[m]} :
          net' = net \cup {[rid |-> [package |-> a, flex |-> 0], type |-> "ack", of |-> m,
                            end |-> Source[m], from |-> Target[m], to |-> link]}
    BY <1>2 DEF Send
  <2> DEFINE x == [rid |-> [package |-> a, flex |-> 0], type |-> "ack", of |-> m,
                   end |-> Source[m], from |-> Target[m], to |-> link]
  <2>2. /\ \A d \in net : d.rid # x.rid
        /\ x.from = Origin(x) /\ x.type # "msg"
    BY <1>2 DEF Origin
  <2>3. \A d \in net : d.of \in Messages
    BY DEF TypeOK, Datagrams
  <2>4. net \subseteq Datagrams /\ sent \in [Messages -> Nat]
    BY DEF TypeOK
  <2>5. net' = net \cup {x}
    BY <2>1
  <2>6. \A d \in net : sent[d.of] <= sent'[d.of]
    BY <2>3, <2>4
  <2> HIDE DEF x
  <2> QED
    BY <2>2, <2>4, <2>5, <2>6, FreshSent
<1> QED
  BY <1>1, <1>2 DEF send_ack

\* A transmission has a rid of its own.
LEMMA TransmitCircles ==
  ASSUME IInv, Circling, NEW m \in Messages, Transmit(m)
  PROVE  Circling'
<1>1. PICK link \in Nodes \ {Source[m]} :
        net' = net \cup {[rid |-> [package |-> m, flex |-> sent[m]], type |-> "msg", of |-> m,
                          end |-> Target[m], from |-> Source[m], to |-> link]}
  BY DEF Transmit, Send
<1> DEFINE x == [rid |-> [package |-> m, flex |-> sent[m]], type |-> "msg", of |-> m,
                 end |-> Target[m], from |-> Source[m], to |-> link]
<1>2. /\ net \subseteq Datagrams /\ sent \in [Messages -> Nat]
      /\ sent' = [sent EXCEPT ![m] = sent[m] + 1] /\ known' = known
  BY DEF IInv, TypeOK, Transmit
<1>3. \A d \in net : d.rid # x.rid
  <2> SUFFICES ASSUME NEW d \in net, d.rid = x.rid PROVE FALSE
    OBVIOUS
  <2>1. d.rid.package = m /\ d.rid.flex = sent[m]
    OBVIOUS
  <2>2. d.type = "msg" /\ d.of = m
    BY <2>1, MeshAssumption DEF IInv, NetIsHonest
  <2>3. d.rid.flex < sent[m]
    BY <2>2 DEF Circling, RidsAreOfOne
  <2> QED
    BY <2>1, <2>3, <1>2
<1>4. sent' \in [Messages -> Nat] /\ \A d \in net : sent[d.of] <= sent'[d.of]
  BY <1>2 DEF Datagrams
<1>5. x.from = Origin(x) /\ (x.type = "msg" => x.rid.flex < sent'[x.of])
  BY <1>2 DEF Origin
<1>6. net' = net \cup {x}
  BY <1>1
<1> HIDE DEF x
<1> QED
  BY <1>2, <1>3, <1>4, <1>5, <1>6, FreshSent

\* No step puts more on the air than a circle may.
LEMMA NextCircles ==
  ASSUME IInv, Circling, [Next]_vars
  PROVE  Circling'
<1>1. net \subseteq Datagrams /\ TypeOK
  BY DEF IInv, TypeOK
<1>2. CASE UNCHANGED vars
  BY <1>1, <1>2, NothingSent DEF vars
<1>3. ASSUME NEW m \in Messages, Transmit(m) PROVE Circling'
  BY <1>3, TransmitCircles
<1>4. ASSUME NEW m \in Messages, GiveUp(m) PROVE Circling'
  BY <1>1, <1>4, NothingSent DEF GiveUp
<1>5. ASSUME NEW d \in net, register_rid(d.to, d.rid)
      PROVE  d.rid \in known'[d.to] /\ \A n \in Nodes \ Forgetful : known[n] \subseteq known'[n]
  <2>1. d.to \in Nodes /\ known \in [Nodes -> SUBSET Rids]
    BY <1>1, Fields DEF TypeOK
  <2> QED
    BY <1>5, <2>1 DEF register_rid
<1>6. ASSUME NEW d \in net, PassOn(d) PROVE Circling'
  <2>1. /\ d.rid \notin known[d.to] /\ d.rid \in known'[d.to] /\ sent' = sent
        /\ \A n \in Nodes \ Forgetful : known[n] \subseteq known'[n]
    BY <1>5, <1>6 DEF PassOn, Seen
  <2>2. CASE net' = net
    BY <1>1, <2>1, <2>2, NothingSent
  <2>3. CASE Send(d.to, d.rid, d.type, d.of, d.end)
    <3>1. PICK link \in Nodes \ {d.to} :
            net' = net \cup {[rid |-> d.rid, type |-> d.type, of |-> d.of, end |-> d.end,
                              from |-> d.to, to |-> link]}
      BY <2>3 DEF Send
    <3> DEFINE x == [rid |-> d.rid, type |-> d.type, of |-> d.of, end |-> d.end,
                     from |-> d.to, to |-> link]
    <3>2. /\ net' = net \cup {x} /\ x.rid = d.rid /\ x.type = d.type /\ x.of = d.of /\ x.from = d.to
      BY <3>1
    <3> HIDE DEF x
    <3> QED
      BY <1>1, <2>1, <3>2, PassedOn
  <2> QED
    BY <1>6, <2>2, <2>3 DEF PassOn
<1>7. ASSUME NEW d \in net, d.type = "msg" PROVE d.of \in Messages /\ d.end = Target[d.of]
  BY <1>7, <1>1, Fields DEF IInv, NetIsHonest
<1>8. ASSUME NEW d \in net, Again(d) PROVE Circling'
  BY <1>1, <1>5, <1>7, <1>8, NothingSent, AckIsFresh DEF Again
<1>9. ASSUME NEW d \in net, ProcessMsg(d) PROVE Circling'
  BY <1>1, <1>5, <1>7, <1>9, AckIsFresh DEF ProcessMsg, New
<1>10. ASSUME NEW d \in net, ProcessAck(d) PROVE Circling'
  BY <1>1, <1>5, <1>10, NothingSent DEF ProcessAck
<1>11. ASSUME NEW n \in Nodes, NEW rid \in known[n], Forget(n, rid) PROVE Circling'
  <2>1. \A k \in Nodes \ Forgetful : known[k] \subseteq known'[k]
    BY <1>1, <1>11 DEF Forget, TypeOK
  <2> QED
    BY <1>1, <1>11, <2>1, NothingSent DEF Forget
<1> QED
  BY <1>2, <1>3, <1>4, <1>6, <1>8, <1>9, <1>10, <1>11 DEF Next

\* So it holds in every state.
LEMMA CirclingInvariant == Spec => []Circling
<1>1. Init => Circling
  BY DEF Init, Circling, RidsAreOfOne, SendersKnow, FewDatagrams
<1> QED
  BY <1>1, NextCircles, Invariant, PTL DEF Spec

\* However the routes are wrong, a package does not circle for ever: a node
\* that does not forget transmits it once, its origin at most once more
\* (exists_rid and register_rid of package.c, process_package of messages.c).
THEOREM CirclesDoEnd == Spec => []CirclesEnd
<1>1. ASSUME Circling PROVE CirclesEnd
  <2> SUFFICES ASSUME NEW d \in net, d.from \notin Forgetful
               PROVE  Cardinality({e \in net : e.rid = d.rid /\ e.from = d.from}) <=
                        IF d.from = Origin(d) THEN 2 ELSE 1
    BY DEF CirclesEnd, Origin
  <2> DEFINE S == {e \in net : e.rid = d.rid /\ e.from = d.from}
  <2>1. CASE S = {d}
    BY <2>1, FS_Singleton
  <2>2. ASSUME NEW e \in S, e # d PROVE d.from = Origin(d) /\ Cardinality(S) = 2
    <3>1. d.from = Origin(d)
      BY <1>1, <2>2 DEF Circling, FewDatagrams
    <3>2. S = {d} \cup {e}
      BY <1>1, <2>2 DEF Circling, FewDatagrams
    <3>3. Cardinality({d} \cup {e}) = 2
      <4>1. IsFiniteSet({d}) /\ Cardinality({d}) = 1
        BY FS_Singleton
      <4>2. e \notin {d}
        BY <2>2
      <4> HIDE DEF S
      <4>3. Cardinality({d} \cup {e}) = IF e \in {d} THEN Cardinality({d}) ELSE Cardinality({d}) + 1
        BY <4>1, FS_AddElement
      <4> QED
        BY <4>1, <4>2, <4>3
    <3> QED
      BY <3>1, <3>2, <3>3
  <2> QED
    BY <2>1, <2>2
<1> QED
  BY <1>1, CirclingInvariant, PTL
=============================================================================
