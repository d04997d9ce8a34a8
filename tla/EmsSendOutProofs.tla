-------------------------- MODULE EmsSendOutProofs --------------------------
(***************************************************************************)
(* The slots of sendout.c keep the promise of EmsDelivery for any number   *)
(* of slots, any sizes, any times and any bound on the messages.           *)
(***************************************************************************)
EXTENDS EmsSendOut, FiniteSetTheorems, TLAPS

-----------------------------------------------------------------------------
(* Arithmetic. *)

\* Products of natural numbers are natural numbers.
LEMMA ProductType == ASSUME NEW a \in Nat, NEW d \in Nat PROVE a * d \in Nat
BY SMT

\* More attempts take more time.
LEMMA ProductOrder ==
  ASSUME NEW a \in Nat, NEW b \in Nat, NEW d \in Nat, a <= b
  PROVE  a * d <= b * d
BY SMT

\* A product below another one of the same factor is below it by that factor.
LEMMA ProductGap ==
  ASSUME NEW a \in Nat, NEW b \in Nat, NEW d \in Nat, a * d < b * d
  PROVE  (a + 1) * d <= b * d
<1>1. a + 1 <= b
  BY ProductOrder
<1> QED
  BY <1>1, ProductOrder

\* A multiple of d is a product.
LEMMA Multiple ==
  ASSUME NEW a \in Nat, NEW d \in Nat \ {0}, a % d = 0
  PROVE  \E k \in Nat : a = k * d
<1> DEFINE k == a \div d
<1>1. k \in Nat /\ a = d * k
  BY SMTT(30)
<1> HIDE DEF k
<1>2. a = k * d
  BY <1>1, SMT
<1> QED
  BY <1>1, <1>2

\* One attempt more takes one period more.
LEMMA Distribute ==
  ASSUME NEW a \in Nat, NEW b \in Nat, NEW d \in Nat
  PROVE  (a + b) * d = a * d + b * d
BY SMT

\* t transmissions and the time left, d seconds for each, are no more than n
\* transmissions: so it stays when one is made and a second passes.
LEMMA OneMore ==
  ASSUME NEW t \in Nat, NEW time \in Nat \ {0}, NEW d \in Nat \ {0}, NEW n \in Nat,
         (time - 1) % d = 0, t * d + time <= n * d
  PROVE  (t + 1) * d + (time - 1) <= n * d
<1> DEFINE a == time - 1
<1>1. a \in Nat
  BY SMT
<1>2. PICK k \in Nat : a = k * d
  BY <1>1, Multiple
<1>3. t * d \in Nat /\ k * d \in Nat /\ n * d \in Nat
  BY ProductType
<1>4. (t + k) * d = t * d + k * d
  BY Distribute
<1>5. (t + k) * d < n * d
  BY <1>2, <1>3, <1>4
<1>6. (t + k + 1) * d <= n * d
  BY <1>5, ProductGap
<1>7. (t + 1) * d + k * d = ((t + 1) + k) * d
  BY Distribute
<1>8. (t + 1) + k = t + k + 1
  OBVIOUS
<1> QED
  BY <1>2, <1>6, <1>7, <1>8

\* Fewer than n times d is fewer than n.
LEMMA Cancel ==
  ASSUME NEW t \in Nat, NEW n \in Nat, NEW d \in Nat \ {0}, t * d <= n * d
  PROVE  t <= n
<1> SUFFICES ASSUME n < t PROVE FALSE
  OBVIOUS
<1>1. (n + 1) * d <= t * d
  BY ProductOrder
<1>2. (n + 1) * d = n * d + 1 * d
  BY Distribute
<1> QED
  BY <1>1, <1>2, ProductType

-----------------------------------------------------------------------------
(* The inductive invariant. *)

Sending == TIME_TO_SEND * SENDING_ATTEMPTS
Solving == TIME_TO_SOLVE * SOLVING_ATTEMPTS

\* A slot in use has a rid issued, and no two slots have the same.
RidsAreOwn ==
  /\ \A i \in Slots :
       /\ sendout_package[i].rid <= issued
       /\ sendout_package[i].time # 0 => sendout_package[i].rid # 0
  /\ \A i, j \in Slots :
       sendout_package[i].rid = sendout_package[j].rid /\ sendout_package[i].rid # 0 => i = j

\* What was never issued was never transmitted.
AirIsIssued == /\ \A a \in air : a.rid <= issued
               /\ \A m \in Messages : m > issued => tries[m] = 0

\* A waiting slot agrees with what its message left behind, and has enough
\* seconds left for the transmissions still allowed, and no more.
SlotsTally ==
  \A i \in Slots :
    LET p == sendout_package[i]
    IN  /\ 0 - Solving <= p.time /\ p.time <= Sending
        /\ p.time < 0 => /\ p.to \in Names
                         /\ tries[p.rid] = 0
                         /\ \A a \in air : a.rid # p.rid
        /\ p.time > 0 => /\ p.to \in Peers
                         /\ tries[p.rid] * TIME_TO_SEND + p.time
                              <= (SENDING_ATTEMPTS + 1) * TIME_TO_SEND
                         /\ \A a \in air : a.rid = p.rid => a.uid = p.to
                         /\ \E a \in air : a.rid = p.rid

\* All transmissions of a message go to one uid.
OneReceiver == \A a, b \in air : a.rid = b.rid => a.uid = b.uid

\* A message acknowledged no longer waits.
AckedIsOver ==
  \A m \in acked : /\ \E a \in air : a.rid = m
                   /\ \A i \in Slots : sendout_package[i].rid = m => sendout_package[i].time = 0

IInv == TypeOK /\ RidsAreOwn /\ AirIsIssued /\ SlotsTally /\ PackagesFit /\ OneReceiver /\ AckedIsOver

-----------------------------------------------------------------------------
(* Constants and parts of a slot. *)

\* The longest count-downs fit an int8_t; one attempt more takes one period more.
LEMMA Times ==
  /\ Sending \in 1 .. 127 /\ Solving \in 1 .. 128
  /\ TIME_TO_SEND \in Nat \ {0} /\ SENDING_ATTEMPTS \in Nat \ {0}
  /\ (SENDING_ATTEMPTS + 1) * TIME_TO_SEND = Sending + TIME_TO_SEND
<1>1. (SENDING_ATTEMPTS + 1) * TIME_TO_SEND
        = SENDING_ATTEMPTS * TIME_TO_SEND + 1 * TIME_TO_SEND
  BY Distribute, SendOutAssumption
<1>2. SENDING_ATTEMPTS * TIME_TO_SEND = Sending
  BY SendOutAssumption, SMT DEF Sending
<1> QED
  BY <1>1, <1>2, SendOutAssumption DEF Sending, Solving

\* send_package_by_table changes nothing but the intermediate head and the
\* size that goes with it.
LEMMA SendType ==
  ASSUME NEW p \in Packages, NEW uid \in Peers, p.size >= Grown(p)
  PROVE  LET q == send_package_by_table(p, uid)
         IN  /\ q \in Packages
             /\ q.to = p.to /\ q.time = p.time /\ q.rid = p.rid /\ q.flex = p.flex
             /\ q.size - Grown(q) = p.size - Grown(p)
<1>0. INTERMEDIATE \in Nat
  BY SendOutAssumption
<1>1. CASE route[uid] = "direct" /\ p.kind = "intermediate"
  <2> DEFINE n == p.size - INTERMEDIATE
             q == [p EXCEPT !.kind = "plain", !.size = n]
  <2>1. send_package_by_table(p, uid) = q
    BY <1>1 DEF send_package_by_table
  <2>2. n \in Nat /\ n - Grown([kind |-> "plain"]) = p.size - Grown(p)
    BY <1>1, <1>0 DEF Packages, Grown
  <2> HIDE DEF n
  <2>3. q \in Packages
    BY <2>2 DEF Packages
  <2>4. /\ q.to = p.to /\ q.time = p.time /\ q.rid = p.rid /\ q.flex = p.flex
        /\ q.size = n /\ q.kind = "plain"
    BY DEF Packages
  <2> HIDE DEF q
  <2> QED
    BY <2>1, <2>2, <2>3, <2>4 DEF Grown
<1>2. CASE route[uid] # "direct" /\ p.kind = "plain"
  <2> DEFINE n == p.size + INTERMEDIATE
             q == [p EXCEPT !.kind = "intermediate", !.size = n]
  <2>1. send_package_by_table(p, uid) = q
    BY <1>2 DEF send_package_by_table
  <2>2. n \in Nat /\ n - Grown([kind |-> "intermediate"]) = p.size - Grown(p)
    BY <1>2, <1>0 DEF Packages, Grown
  <2> HIDE DEF n
  <2>3. q \in Packages
    BY <2>2 DEF Packages
  <2>4. /\ q.to = p.to /\ q.time = p.time /\ q.rid = p.rid /\ q.flex = p.flex
        /\ q.size = n /\ q.kind = "intermediate"
    BY DEF Packages
  <2> HIDE DEF q
  <2> QED
    BY <2>1, <2>2, <2>3, <2>4 DEF Grown
<1>3. CASE /\ ~ (route[uid] = "direct" /\ p.kind = "intermediate")
           /\ ~ (route[uid] # "direct" /\ p.kind = "plain")
  BY <1>3 DEF send_package_by_table
<1> QED
  BY <1>1, <1>2, <1>3

\* RID_INC keeps a rid a rid.
LEMMA IncType ==
  ASSUME NEW p \in Packages
  PROVE  /\ RID_INC(p) \in Packages
         /\ RID_INC(p).to = p.to /\ RID_INC(p).time = p.time /\ RID_INC(p).rid = p.rid
         /\ RID_INC(p).kind = p.kind /\ RID_INC(p).size = p.size
<1>1. (p.flex + 1) % FLEX \in Flexes
  BY SendOutAssumption, SMTT(30) DEF Packages, Flexes
<1> DEFINE f == (p.flex + 1) % FLEX
<1>2. RID_INC(p) = [p EXCEPT !.flex = f]
  BY DEF RID_INC
<1> HIDE DEF f
<1> QED
  BY <1>1, <1>2 DEF Packages, f

\* First makes a slot wait for an acknowledgement of uid.
LEMMA FirstType ==
  ASSUME NEW p \in Packages, NEW uid \in Peers, p.size >= Grown(p)
  PROVE  LET q == First(p, uid)
         IN  /\ q \in Packages
             /\ q.to = uid /\ q.time = Sending /\ q.rid = p.rid /\ q.flex = p.flex
             /\ q.size - Grown(q) = p.size - Grown(p)
<1> DEFINE r == [p EXCEPT !.to = uid, !.time = Sending]
<1>1. First(p, uid) = send_package_by_table(r, uid)
  BY DEF First, Sending
<1>0. Sending \in -128 .. 127
  BY Times
<1>2. /\ r \in Packages
      /\ r.to = uid /\ r.time = Sending /\ r.rid = p.rid /\ r.flex = p.flex
      /\ r.size = p.size /\ r.kind = p.kind
  BY <1>0 DEF Packages
<1> HIDE DEF r
<1> QED
  BY <1>1, <1>2, SendType DEF Grown
-----------------------------------------------------------------------------
(* What a second does to a slot. *)

\* A name that is found leads to a uid.
LEMMA NameType ==
  ASSUME TypeOK, NEW name \in Names, find_table_by_name(name) # NoUid
  PROVE  find_table_by_name(name) \in Peers
BY DEF TypeOK, find_table_by_name

\* The four things that may happen to a slot in a second, and nothing.
Solved(p, q) == /\ p.time < 0 /\ q.time = Sending /\ q.to \in Peers
                /\ Transmits(p)
Asked(p, q) == /\ p.time < 0 /\ q.time = p.time + 1 /\ q.to = p.to /\ q.to \in Names
               /\ ~ Transmits(p)
Repeated(p, q) == /\ p.time > 0 /\ q.time = p.time - 1 /\ q.to = p.to /\ q.to \in Peers
                  /\ (p.time - 1) % TIME_TO_SEND = 0
                  /\ Transmits(p)
Waited(p, q) == /\ p.time > 0 /\ q.time = p.time - 1 /\ q.to = p.to /\ q.to \in Peers
                /\ ~ Transmits(p)
Idle(p, q) == /\ p.time = 0 /\ q = p
              /\ ~ Transmits(p)

\* A second leaves a slot within its type and does one of five things to it.
LEMMA SecondType ==
  ASSUME TypeOK, NEW p \in Packages, p.size >= Grown(p) \/ p.time = 0,
         0 - Solving <= p.time, p.time <= Sending,
         p.time < 0 => p.to \in Names, p.time > 0 => p.to \in Peers
  PROVE  LET q == Second(p)
         IN  /\ q \in Packages
             /\ q.rid = p.rid
             /\ q.size - Grown(q) = p.size - Grown(p)
             /\ Solved(p, q) \/ Asked(p, q) \/ Repeated(p, q) \/ Waited(p, q) \/ Idle(p, q)
<1> DEFINE q == Second(p)
<1>0. /\ p.time \in Int
      /\ Sending \in 1 .. 127 /\ Solving \in 1 .. 128
  BY Times DEF Packages
<1>1. CASE Solves(p)
  <2>1. p.time < 0 /\ find_table_by_name(p.to) \in Peers
    BY <1>1, NameType DEF Solves, Unsolved
  <2>2. q = First(p, find_table_by_name(p.to))
    BY <1>1 DEF Second
  <2>3. Transmits(p)
    BY <1>1 DEF Transmits
  <2>4. p.size >= Grown(p)
    BY <2>1
  <2> QED
    BY <2>1, <2>2, <2>3, <2>4, FirstType DEF Solved
<1>2. CASE ~ Solves(p) /\ Unsolved(p)
  <2> DEFINE t == p.time + 1
  <2>1. q = [p EXCEPT !.time = t]
    BY <1>2 DEF Second
  <2>2. p.time < 0 /\ t \in -128 .. 127
    BY <1>2, <1>0 DEF Unsolved
  <2> HIDE DEF t
  <2>3. q \in Packages /\ q.rid = p.rid /\ q.time = t /\ q.to = p.to /\ q.size = p.size
        /\ q.kind = p.kind
    BY <2>1, <2>2 DEF Packages
  <2>4. ~ Transmits(p)
    BY <1>2, <1>0 DEF Transmits, Repeats, IsDue, Unacked, Unsolved
  <2> QED
    BY <2>2, <2>3, <2>4 DEF Asked, Grown, t
<1>3. CASE ~ Unsolved(p) /\ Repeats(p)
  <2> DEFINE t == p.time - 1
             r == [p EXCEPT !.time = t]
  <2>1. ~ Solves(p)
    BY <1>3 DEF Solves
  <2>2. q = send_package_by_table(RID_INC(r), p.to)
    BY <1>3, <2>1 DEF Second
  <2>3. p.time > 0 /\ p.to \in Peers /\ t \in -128 .. 127 /\ t % TIME_TO_SEND = 0
    BY <1>3, <1>0 DEF Repeats, IsDue, Unacked
  <2> HIDE DEF t
  <2>4. r \in Packages /\ r.rid = p.rid /\ r.time = t /\ r.to = p.to /\ r.size = p.size
        /\ r.kind = p.kind
    BY <2>3 DEF Packages
  <2> HIDE DEF r
  <2> DEFINE u == RID_INC(r)
  <2>5. u \in Packages /\ u.rid = p.rid /\ u.time = t /\ u.to = p.to /\ u.size = p.size
        /\ u.kind = p.kind
    BY <2>4, IncType
  <2> HIDE DEF u
  <2>6. u.size >= Grown(u) /\ Grown(u) = Grown(p)
    BY <2>3, <2>5, <1>0 DEF Grown
  <2>7. Transmits(p)
    BY <1>3 DEF Transmits
  <2>8. q = send_package_by_table(u, p.to)
    BY <2>2 DEF u
  <2>9. q \in Packages /\ q.rid = p.rid /\ q.time = t /\ q.to = p.to
        /\ q.size - Grown(q) = p.size - Grown(p)
    BY <2>3, <2>5, <2>6, <2>8, SendType
  <2> QED
    BY <2>3, <2>7, <2>9 DEF Repeated, t
<1>4. CASE ~ Unsolved(p) /\ ~ Repeats(p) /\ Unacked(p)
  <2> DEFINE t == p.time - 1
  <2>1. q = [p EXCEPT !.time = t]
    BY <1>4 DEF Second, Solves
  <2>2. p.time > 0 /\ t \in -128 .. 127
    BY <1>4, <1>0 DEF Unacked
  <2> HIDE DEF t
  <2>3. q \in Packages /\ q.rid = p.rid /\ q.time = t /\ q.to = p.to /\ q.size = p.size
        /\ q.kind = p.kind
    BY <2>1, <2>2 DEF Packages
  <2>4. ~ Transmits(p)
    BY <1>4 DEF Transmits, Solves
  <2> QED
    BY <2>2, <2>3, <2>4 DEF Waited, Grown, t
<1>5. CASE ~ Unsolved(p) /\ ~ Unacked(p)
  <2>1. q = p /\ ~ Transmits(p)
    BY <1>5 DEF Second, Transmits, Solves, Repeats, IsDue
  <2> QED
    BY <2>1, <1>5, <1>0 DEF Idle, Unsolved, Unacked
<1> QED
  BY <1>1, <1>2, <1>3, <1>4, <1>5
-----------------------------------------------------------------------------
(* What a second does to all slots, and to what they leave behind. *)

SlotMoves(p, q) == Solved(p, q) \/ Asked(p, q) \/ Repeated(p, q) \/ Waited(p, q) \/ Idle(p, q)

\* What the invariant says of one slot.
LEMMA SlotFacts ==
  ASSUME IInv, NEW i \in Slots
  PROVE  LET p == sendout_package[i]
         IN  /\ p \in Packages
             /\ p.size >= Grown(p) \/ p.time = 0
             /\ 0 - Solving <= p.time /\ p.time <= Sending
             /\ p.time < 0 => p.to \in Names
             /\ p.time > 0 => p.to \in Peers
             /\ p.time # 0 => p.rid \in Messages
<1> DEFINE p == sendout_package[i]
<1>1. p \in Packages
  BY DEF IInv, TypeOK
<1>2. p.rid \in Rids /\ p.time \in Int /\ p.size \in Nat
  BY <1>1 DEF Packages
<1>3. p.time # 0 => p.rid \in Messages
  <2>0. MESSAGES \in Nat
    BY SendOutAssumption
  <2>1. p.time # 0 => p.rid # 0
    BY DEF IInv, RidsAreOwn
  <2> QED
    BY <1>2, <2>0, <2>1 DEF Rids, Messages
<1>4. ASSUME p.time # 0 PROVE p.size >= Grown(p)
  <2>1. length[p.rid] \in Nat
    <3>1. Lengths \cup {0} \subseteq Nat
      BY SendOutAssumption
    <3>2. length \in [Messages -> Lengths \cup {0}]
      BY DEF IInv, TypeOK
    <3> QED
      BY <1>3, <1>4, <3>1, <3>2
  <2>2. p.size = PACKAGE + IDENTIFIED + length[p.rid] + Grown(p)
    BY <1>4 DEF IInv, PackagesFit
  <2>3. PACKAGE \in Nat /\ IDENTIFIED \in Nat /\ Grown(p) \in Nat
    BY SendOutAssumption DEF Grown
  <2> QED
    BY <2>1, <2>2, <2>3
<1>5. /\ 0 - Solving <= p.time /\ p.time <= Sending
      /\ p.time < 0 => p.to \in Names
      /\ p.time > 0 => p.to \in Peers
  BY DEF IInv, SlotsTally
<1> QED
  BY <1>1, <1>3, <1>4, <1>5

\* What a second does to a slot, case by case (check_send_out).
LEMMA SecondStep ==
  ASSUME IInv, check_send_out
  PROVE  /\ sendout_package' \in [Slots -> Packages]
         /\ \A i \in Slots :
              LET p == sendout_package[i]  q == sendout_package'[i]
              IN  /\ q.rid = p.rid /\ q.size - Grown(q) = p.size - Grown(p)
                  /\ SlotMoves(p, q)
                  /\ Transmits(p) => /\ p.rid \in Messages
                                     /\ tries'[p.rid] = tries[p.rid] + 1
                                     /\ \E a \in air' : a.rid = p.rid /\ a.uid = q.to
                  /\ ~ Transmits(p) /\ p.rid \in Messages => tries'[p.rid] = tries[p.rid]
         /\ air \subseteq air'
         /\ air' \subseteq [rid : Messages, flex : Flexes, uid : Peers]
         /\ \A a \in air' \ air : \E i \in Slots :
              /\ Transmits(sendout_package[i])
              /\ a.rid = sendout_package[i].rid
              /\ a.uid = sendout_package'[i].to
         /\ \A m \in Messages :
              \/ tries'[m] = tries[m]
              \/ /\ tries'[m] = tries[m] + 1
                 /\ \E i \in Slots : Transmits(sendout_package[i]) /\ sendout_package[i].rid = m
         /\ tries' = [m \in Messages |-> tries'[m]]
<1> DEFINE P(i) == sendout_package[i]
           Q(i) == sendout_package'[i]
           Record(i) == [rid |-> Q(i).rid, flex |-> Q(i).flex, uid |-> Q(i).to]
<1>1. ASSUME NEW i \in Slots
      PROVE  /\ Q(i) = Second(P(i)) /\ Q(i) \in Packages
             /\ Q(i).rid = P(i).rid /\ Q(i).size - Grown(Q(i)) = P(i).size - Grown(P(i))
             /\ SlotMoves(P(i), Q(i))
  <2>1. Q(i) = Second(P(i))
    BY DEF check_send_out
  <2> QED
    BY <2>1, SlotFacts, SecondType DEF SlotMoves, IInv
<1>2. sendout_package' \in [Slots -> Packages]
  <2>1. sendout_package' = [i \in Slots |-> Second(sendout_package[i])]
    BY DEF check_send_out
  <2> QED
    BY <2>1, <1>1
<1>3. ASSUME NEW i \in Slots, Transmits(P(i))
      PROVE  /\ P(i).rid \in Messages /\ Q(i).to \in Peers
             /\ Record(i) \in [rid : Messages, flex : Flexes, uid : Peers]
  <2>1. P(i).time # 0 /\ Q(i).to \in Peers
    <3>1. Solved(P(i), Q(i)) \/ Repeated(P(i), Q(i))
      BY <1>1, <1>3 DEF SlotMoves, Asked, Waited, Idle
    <3>2. P(i).time \in Int
      BY SlotFacts DEF Packages
    <3> QED
      BY <3>1, <3>2 DEF Solved, Repeated
  <2>2. P(i).rid \in Messages
    BY <2>1, SlotFacts
  <2>3. Q(i).flex \in Flexes
    BY <1>1 DEF Packages
  <2> QED
    BY <2>1, <2>2, <2>3, <1>1
<1>4. air' = air \cup {Record(i) : i \in {j \in Slots : Transmits(P(j))}}
  <2>1. \A i \in Slots : Q(i) = Second(P(i))
    BY <1>1
  <2> QED
    BY <2>1 DEF check_send_out
<1>5. tries' = [m \in Messages |-> IF \E i \in Slots : Transmits(P(i)) /\ P(i).rid = m
                                   THEN tries[m] + 1 ELSE tries[m]]
  <2>1. \A i \in Slots : Second(P(i)).rid = P(i).rid
    BY <1>1
  <2>2. ASSUME NEW m \in Messages
        PROVE  (\E i \in {j \in Slots : Transmits(P(j))} : [k \in Slots |-> Second(P(k))][i].rid = m)
                 <=> \E i \in Slots : Transmits(P(i)) /\ P(i).rid = m
    BY <2>1
  <2> QED
    BY <2>2 DEF check_send_out
<1>6. ASSUME NEW i \in Slots, P(i).rid \in Messages
      PROVE  tries'[P(i).rid] = IF Transmits(P(i)) THEN tries[P(i).rid] + 1 ELSE tries[P(i).rid]
  <2>1. P(i).rid # 0
    BY <1>6 DEF Messages
  <2>2. \A j \in Slots : P(j).rid = P(i).rid => j = i
    BY <2>1 DEF IInv, RidsAreOwn
  <2>3. (\E j \in Slots : Transmits(P(j)) /\ P(j).rid = P(i).rid) <=> Transmits(P(i))
    BY <2>2
  <2> QED
    BY <1>5, <1>6, <2>3
<1>7. ASSUME NEW i \in Slots, Transmits(P(i))
      PROVE  \E a \in air' : a.rid = P(i).rid /\ a.uid = Q(i).to
  <2>1. Record(i) \in air'
    BY <1>4, <1>7
  <2>2. Record(i).rid = P(i).rid /\ Record(i).uid = Q(i).to
    BY <1>1
  <2> QED
    BY <2>1, <2>2
<1>8. air' \subseteq [rid : Messages, flex : Flexes, uid : Peers]
  BY <1>3, <1>4 DEF IInv, TypeOK
<1>9. ASSUME NEW a \in air' \ air
      PROVE  \E i \in Slots : Transmits(P(i)) /\ a.rid = P(i).rid /\ a.uid = Q(i).to
  <2>1. PICK i \in Slots : Transmits(P(i)) /\ a = Record(i)
    BY <1>4
  <2> QED
    BY <2>1, <1>1
<1>10. air \subseteq air'
  BY <1>4
<1>11. ASSUME NEW m \in Messages
       PROVE  \/ tries'[m] = tries[m]
              \/ tries'[m] = tries[m] + 1 /\ \E i \in Slots : Transmits(P(i)) /\ P(i).rid = m
  BY <1>5
<1>12. tries' = [m \in Messages |-> tries'[m]]
  BY <1>5
<1> QED
  BY <1>1, <1>2, <1>3, <1>6, <1>7, <1>8, <1>9, <1>10, <1>11, <1>12
-----------------------------------------------------------------------------
(* The invariant. *)

\* Empty slots satisfy the invariant.
LEMMA InitOK == Init => IInv
<1> SUFFICES ASSUME Init PROVE IInv
  OBVIOUS
<1>0. MESSAGES \in Nat /\ FLEX \in Nat /\ 0 < FLEX /\ SENDING_ATTEMPTS \in Nat
  BY SendOutAssumption, SMT
<1>1. TypeOK
  BY <1>0 DEF Init, TypeOK, Packages, Rids, Flexes, Messages
<1>2. RidsAreOwn
  BY DEF Init, RidsAreOwn
<1>3. AirIsIssued
  BY DEF Init, AirIsIssued
<1>4. SlotsTally
  BY Times DEF Init, SlotsTally
<1>5. PackagesFit
  BY DEF Init, PackagesFit
<1>6. OneReceiver /\ AckedIsOver
  BY DEF Init, OneReceiver, AckedIsOver
<1> QED
  BY <1>1, <1>2, <1>3, <1>4, <1>5, <1>6 DEF IInv

\* A second keeps the invariant (check_send_out).
LEMMA SecondOK ==
  ASSUME IInv, check_send_out
  PROVE  IInv'
<1> DEFINE P(i) == sendout_package[i]
           Q(i) == sendout_package'[i]
           Most == (SENDING_ATTEMPTS + 1) * TIME_TO_SEND
<1>0. UNCHANGED <<route, named, issued, acked, length>>
  BY DEF check_send_out
<1>1. ASSUME NEW i \in Slots
      PROVE  /\ P(i) \in Packages /\ Q(i) \in Packages
             /\ P(i).time \in Int /\ Q(i).time \in Int
             /\ Q(i).rid = P(i).rid /\ Q(i).size - Grown(Q(i)) = P(i).size - Grown(P(i))
             /\ SlotMoves(P(i), Q(i))
             /\ Q(i).time # 0 => P(i).time # 0
  <2>1. P(i) \in Packages /\ Q(i) \in Packages
    BY SlotFacts, SecondStep
  <2>2. P(i).time \in Int /\ Q(i).time \in Int
    BY <2>1 DEF Packages
  <2>3. SlotMoves(P(i), Q(i)) /\ Q(i).rid = P(i).rid
        /\ Q(i).size - Grown(Q(i)) = P(i).size - Grown(P(i))
    BY SecondStep
  <2>4. Q(i).time # 0 => P(i).time # 0
    BY <2>3 DEF SlotMoves, Solved, Asked, Repeated, Waited, Idle
  <2> QED
    BY <2>1, <2>2, <2>3, <2>4
<1>2. RidsAreOwn'
  BY <1>0, <1>1 DEF IInv, RidsAreOwn
<1>3. ASSUME NEW i \in Slots, Transmits(P(i))
      PROVE  P(i).rid \in Messages /\ P(i).rid <= issued /\ P(i).time # 0
  <2>0. P(i).rid \in Messages
    BY <1>3, SecondStep
  <2>1. P(i).rid <= issued
    BY DEF IInv, RidsAreOwn
  <2>2. P(i).time # 0
    BY <1>1, <1>3 DEF SlotMoves, Solved, Asked, Repeated, Waited, Idle
  <2> QED
    BY <2>0, <2>1, <2>2
<1>4. AirIsIssued'
  <2>1. ASSUME NEW a \in air' PROVE a.rid <= issued
    <3>1. CASE a \in air
      BY <3>1 DEF IInv, AirIsIssued
    <3>2. CASE a \notin air
      BY <3>2, <1>3, SecondStep
    <3> QED
      BY <3>1, <3>2
  <2>2. ASSUME NEW m \in Messages, m > issued PROVE tries'[m] = 0
    <3>1. m \in Int /\ issued \in Int
      BY SendOutAssumption DEF Messages, IInv, TypeOK, Rids
    <3>2. \A i \in Slots : ~ (Transmits(P(i)) /\ P(i).rid = m)
      BY <1>3, <2>2, <3>1
    <3>3. tries'[m] = tries[m]
      BY <3>2, SecondStep
    <3> QED
      BY <2>2, <3>3 DEF IInv, AirIsIssued
  <2> QED
    BY <1>0, <2>1, <2>2 DEF AirIsIssued
\* A message with a waiting slot: its tries, before and after.
<1>5. ASSUME NEW i \in Slots, P(i).time # 0
      PROVE  /\ P(i).rid \in Messages /\ tries[P(i).rid] \in Nat
             /\ tries'[P(i).rid] = IF Transmits(P(i)) THEN tries[P(i).rid] + 1 ELSE tries[P(i).rid]
  <2>1. P(i).rid \in Messages
    BY <1>5, SlotFacts
  <2>2. tries \in [Messages -> 0 .. SENDING_ATTEMPTS + 1] /\ SENDING_ATTEMPTS \in Nat
    BY Times DEF IInv, TypeOK
  <2>3. tries[P(i).rid] \in Nat
    BY <2>1, <2>2
  <2> QED
    BY <2>1, <2>3, SecondStep
<1>6. ASSUME NEW i \in Slots, P(i).time > 0
      PROVE  tries[P(i).rid] * TIME_TO_SEND + P(i).time <= Most
  BY <1>6 DEF IInv, SlotsTally
<1>7. ASSUME NEW i \in Slots, Repeated(P(i), Q(i))
      PROVE  tries'[P(i).rid] * TIME_TO_SEND + Q(i).time <= Most
  <2> DEFINE t == tries[P(i).rid]  time == P(i).time  n == SENDING_ATTEMPTS + 1
  <2>1. time \in Nat \ {0} /\ (time - 1) % TIME_TO_SEND = 0 /\ Transmits(P(i))
    BY <1>1, <1>7 DEF Repeated
  <2>2. t \in Nat /\ tries'[P(i).rid] = t + 1
    BY <1>5, <2>1
  <2>3. t * TIME_TO_SEND + time <= n * TIME_TO_SEND
    BY <1>6, <2>1
  <2>4. Q(i).time = time - 1
    BY <1>7 DEF Repeated
  <2>5. TIME_TO_SEND \in Nat \ {0} /\ n \in Nat
    BY Times
  <2> HIDE DEF t, time, n
  <2>6. (t + 1) * TIME_TO_SEND + (time - 1) <= n * TIME_TO_SEND
    BY <2>1, <2>2, <2>3, <2>5, OneMore
  <2> QED
    BY <2>2, <2>4, <2>6 DEF n
<1>8. ASSUME NEW i \in Slots, Solved(P(i), Q(i))
      PROVE  /\ tries'[P(i).rid] = 1
             /\ tries'[P(i).rid] * TIME_TO_SEND + Q(i).time <= Most
             /\ \A a \in air : a.rid # P(i).rid
  <2>1. P(i).time < 0 /\ Q(i).time = Sending /\ Transmits(P(i))
    BY <1>8 DEF Solved
  <2>2. tries[P(i).rid] = 0 /\ \A a \in air : a.rid # P(i).rid
    BY <2>1 DEF IInv, SlotsTally
  <2>3. tries'[P(i).rid] = 1
    BY <1>1, <1>5, <2>1, <2>2
  <2>4. Most = Sending + TIME_TO_SEND /\ Sending \in Nat /\ TIME_TO_SEND \in Nat
    BY Times
  <2>5. 1 * TIME_TO_SEND = TIME_TO_SEND
    BY <2>4
  <2> HIDE DEF Most
  <2> QED
    BY <2>1, <2>2, <2>3, <2>4, <2>5
\* What is new in the air about a slot's message is what the slot sent.
<1>9. ASSUME NEW i \in Slots, P(i).time # 0, NEW a \in air', a.rid = P(i).rid, a \notin air
      PROVE  Transmits(P(i)) /\ a.uid = Q(i).to
  <2>1. PICK j \in Slots : Transmits(P(j)) /\ a.rid = P(j).rid /\ a.uid = Q(j).to
    BY <1>9, SecondStep
  <2>2. P(i).rid # 0
    BY <1>9 DEF IInv, RidsAreOwn
  <2>3. i = j
    BY <1>9, <2>1, <2>2 DEF IInv, RidsAreOwn
  <2> QED
    BY <2>1, <2>3
<1>10. SlotsTally'
  <2> SUFFICES ASSUME NEW i \in Slots
               PROVE  /\ 0 - Solving <= Q(i).time /\ Q(i).time <= Sending
                      /\ Q(i).time < 0 => /\ Q(i).to \in Names
                                          /\ tries'[Q(i).rid] = 0
                                          /\ \A a \in air' : a.rid # Q(i).rid
                      /\ Q(i).time > 0 =>
                           /\ Q(i).to \in Peers
                           /\ tries'[Q(i).rid] * TIME_TO_SEND + Q(i).time <= Most
                           /\ \A a \in air' : a.rid = Q(i).rid => a.uid = Q(i).to
                           /\ \E a \in air' : a.rid = Q(i).rid
    BY DEF SlotsTally
  <2> HIDE DEF Most
  <2>0. /\ 0 - Solving <= P(i).time /\ P(i).time <= Sending /\ Sending \in Nat /\ Solving \in Nat
        /\ P(i).time \in Int
    BY <1>1, SlotFacts, Times
  <2>1. CASE Solved(P(i), Q(i))
    <3>1. P(i).time < 0 /\ Q(i).time = Sending /\ Q(i).to \in Peers /\ Transmits(P(i))
      BY <2>1 DEF Solved
    <3>2. \A a \in air' : a.rid = Q(i).rid => a.uid = Q(i).to
      BY <1>1, <1>8, <1>9, <2>1, <3>1, <2>0
    <3>3. \E a \in air' : a.rid = Q(i).rid
      BY <3>1, <1>1, SecondStep
    <3>4. tries'[Q(i).rid] * TIME_TO_SEND + Q(i).time <= Most
      BY <1>1, <1>8, <2>1
    <3>5. 0 - Solving <= Q(i).time /\ Q(i).time <= Sending /\ ~ (Q(i).time < 0)
      BY <3>1, <2>0
    <3> QED
      BY <3>1, <3>2, <3>3, <3>4, <3>5
  <2>2. CASE Asked(P(i), Q(i))
    <3>1. /\ P(i).time < 0 /\ Q(i).time = P(i).time + 1 /\ Q(i).to \in Names /\ ~ Transmits(P(i))
      BY <2>2 DEF Asked
    <3>2. tries[P(i).rid] = 0 /\ \A a \in air : a.rid # P(i).rid
      BY <3>1 DEF IInv, SlotsTally
    <3>3. tries'[Q(i).rid] = 0
      BY <1>1, <1>5, <3>1, <3>2, <2>0
    <3>4. \A a \in air' : a.rid # Q(i).rid
      BY <1>1, <1>9, <3>1, <3>2, <2>0
    <3>5. 0 - Solving <= Q(i).time /\ Q(i).time <= Sending /\ ~ (Q(i).time > 0)
      BY <3>1, <2>0
    <3> QED
      BY <3>1, <3>3, <3>4, <3>5
  <2>3. CASE Repeated(P(i), Q(i))
    <3>1. /\ P(i).time > 0 /\ Q(i).time = P(i).time - 1 /\ Q(i).to = P(i).to /\ Q(i).to \in Peers
          /\ Transmits(P(i))
      BY <2>3 DEF Repeated
    <3>2. \A a \in air : a.rid = P(i).rid => a.uid = P(i).to
      BY <3>1 DEF IInv, SlotsTally
    <3>3. \A a \in air' : a.rid = Q(i).rid => a.uid = Q(i).to
      BY <1>1, <1>9, <3>1, <3>2, <2>0
    <3>4. \E a \in air' : a.rid = Q(i).rid
      BY <3>1, <1>1, SecondStep
    <3>5. tries'[Q(i).rid] * TIME_TO_SEND + Q(i).time <= Most
      BY <1>1, <1>7, <2>3
    <3>6. 0 - Solving <= Q(i).time /\ Q(i).time <= Sending /\ ~ (Q(i).time < 0)
      BY <3>1, <2>0
    <3> QED
      BY <3>1, <3>3, <3>4, <3>5, <3>6
  <2>4. CASE Waited(P(i), Q(i))
    <3>1. /\ P(i).time > 0 /\ Q(i).time = P(i).time - 1 /\ Q(i).to = P(i).to /\ Q(i).to \in Peers
          /\ ~ Transmits(P(i))
      BY <2>4 DEF Waited
    <3>2. /\ \A a \in air : a.rid = P(i).rid => a.uid = P(i).to
          /\ \E a \in air : a.rid = P(i).rid
      BY <3>1 DEF IInv, SlotsTally
    <3>3. \A a \in air' : a.rid = Q(i).rid => a.uid = Q(i).to
      BY <1>1, <1>9, <3>1, <3>2, <2>0
    <3>4. \E a \in air' : a.rid = Q(i).rid
      BY <3>2, <1>1, SecondStep
    <3>5. tries'[P(i).rid] = tries[P(i).rid] /\ tries[P(i).rid] \in Nat
      BY <1>5, <3>1, <2>0
    <3>6. tries'[Q(i).rid] * TIME_TO_SEND + Q(i).time <= Most
      <4> DEFINE x == tries[P(i).rid] * TIME_TO_SEND
      <4>1. x \in Nat /\ Most \in Nat
        BY <3>5, Times, ProductType DEF Most
      <4>2. x + P(i).time <= Most
        BY <1>6, <3>1
      <4>3. tries'[Q(i).rid] * TIME_TO_SEND = x
        BY <3>5, <1>1
      <4> HIDE DEF x
      <4> QED
        BY <4>1, <4>2, <4>3, <3>1, <2>0
    <3>7. 0 - Solving <= Q(i).time /\ Q(i).time <= Sending /\ ~ (Q(i).time < 0)
      BY <3>1, <2>0
    <3> QED
      BY <3>1, <3>3, <3>4, <3>6, <3>7
  <2>5. CASE Idle(P(i), Q(i))
    <3>1. P(i).time = 0 /\ Q(i).time = 0
      BY <2>5 DEF Idle
    <3> QED
      BY <3>1, <2>0
  <2> QED
    BY <1>1, <2>1, <2>2, <2>3, <2>4, <2>5 DEF SlotMoves
<1>11. TypeOK'
  <2>1. sendout_package' \in [Slots -> Packages]
    BY SecondStep
  <2>2. air' \subseteq [rid : Messages, flex : Flexes, uid : Peers]
    BY SecondStep
  <2>3. ASSUME NEW m \in Messages
        PROVE  tries'[m] \in 0 .. SENDING_ATTEMPTS + 1
    <3>0. /\ tries[m] \in 0 .. SENDING_ATTEMPTS + 1 /\ SENDING_ATTEMPTS \in Nat \ {0}
          /\ TIME_TO_SEND \in Nat \ {0} /\ Sending \in Nat
      BY Times DEF IInv, TypeOK
    <3>1. CASE tries'[m] = tries[m]
      BY <3>0, <3>1
    <3>2. CASE tries'[m] # tries[m]
      <4>1. PICK i \in Slots : Transmits(P(i)) /\ P(i).rid = m
        BY <3>2, SecondStep
      <4>2. tries'[m] = tries[m] + 1
        BY <3>2, SecondStep
      <4>3. Solved(P(i), Q(i)) \/ Repeated(P(i), Q(i))
        BY <4>1, <1>1 DEF SlotMoves, Asked, Waited, Idle
      <4>4. tries'[m] * TIME_TO_SEND + Q(i).time <= Most /\ Q(i).time \in Nat
        BY <4>1, <4>3, <3>0, <1>1, <1>7, <1>8 DEF Solved, Repeated
      <4>5. tries'[m] \in Nat
        BY <4>2, <3>0
      <4>6. tries'[m] * TIME_TO_SEND \in Nat /\ Most \in Nat
        BY <4>5, <3>0, ProductType
      <4>7. tries'[m] * TIME_TO_SEND <= (SENDING_ATTEMPTS + 1) * TIME_TO_SEND
        <5> HIDE DEF Most
        <5> DEFINE x == tries'[m] * TIME_TO_SEND
        <5>1. x + Q(i).time <= Most /\ x \in Nat
          BY <4>4, <4>6
        <5> HIDE DEF x
        <5>2. x <= Most
          BY <5>1, <4>4, <4>6
        <5> QED
          BY <5>2 DEF x, Most
      <4>8. tries'[m] <= SENDING_ATTEMPTS + 1
        BY <4>5, <4>7, <3>0, Cancel
      <4> QED
        BY <4>5, <4>8, <3>0
    <3> QED
      BY <3>1, <3>2
  <2>4. tries' \in [Messages -> 0 .. SENDING_ATTEMPTS + 1]
    <3>1. tries' = [m \in Messages |-> tries'[m]]
      BY SecondStep
    <3> QED
      BY <2>3, <3>1
  <2> QED
    BY <1>0, <2>1, <2>2, <2>4 DEF IInv, TypeOK
<1>12. PackagesFit'
  <2> SUFFICES ASSUME NEW i \in Slots, Q(i).time # 0
               PROVE  /\ Q(i).size = PACKAGE + IDENTIFIED + length[Q(i).rid] + Grown(Q(i))
                      /\ PACKAGE + IDENTIFIED + length[Q(i).rid] + INTERMEDIATE <= SENDOUT_BUFFER_SIZE
    BY <1>0 DEF PackagesFit, Grown
  <2>1. P(i).time # 0 /\ Q(i).rid = P(i).rid
    BY <1>1
  <2>2. /\ P(i).size = PACKAGE + IDENTIFIED + length[P(i).rid] + Grown(P(i))
        /\ PACKAGE + IDENTIFIED + length[P(i).rid] + INTERMEDIATE <= SENDOUT_BUFFER_SIZE
    BY <2>1 DEF IInv, PackagesFit
  <2>3. Q(i).size - Grown(Q(i)) = P(i).size - Grown(P(i))
    BY <1>1
  <2>4. /\ P(i).size \in Nat /\ Q(i).size \in Nat /\ Grown(P(i)) \in Nat /\ Grown(Q(i)) \in Nat
        /\ PACKAGE + IDENTIFIED \in Nat
    BY <1>1, SendOutAssumption DEF Packages, Grown
  <2>5. length[P(i).rid] \in Nat
    <3>1. Lengths \cup {0} \subseteq Nat
      BY SendOutAssumption
    <3>2. length \in [Messages -> Lengths \cup {0}]
      BY DEF IInv, TypeOK
    <3> QED
      BY <1>5, <2>1, <3>1, <3>2
  <2> DEFINE whole == PACKAGE + IDENTIFIED + length[P(i).rid]
  <2>6. whole \in Nat
    BY <2>4, <2>5
  <2>7. P(i).size = whole + Grown(P(i))
    BY <2>2
  <2> HIDE DEF whole
  <2>8. Q(i).size = whole + Grown(Q(i))
    BY <2>3, <2>4, <2>6, <2>7
  <2> QED
    BY <2>1, <2>2, <2>8 DEF whole
<1>13. OneReceiver'
  <2> SUFFICES ASSUME NEW a \in air', NEW b \in air', a.rid = b.rid
               PROVE  a.uid = b.uid
    BY DEF OneReceiver
  <2>1. ASSUME NEW c \in air', NEW d \in air', c.rid = d.rid, c \notin air
        PROVE  c.uid = d.uid
    <3>1. PICK i \in Slots : Transmits(P(i)) /\ c.rid = P(i).rid /\ c.uid = Q(i).to
      BY <2>1, SecondStep
    <3>2. P(i).time # 0
      BY <1>3, <3>1
    <3>3. CASE d \notin air
      BY <3>1, <3>2, <3>3, <2>1, <1>9
    <3>4. CASE d \in air
      <4>1. ~ Solved(P(i), Q(i))
        BY <3>1, <3>4, <2>1, <1>8
      <4>2. Repeated(P(i), Q(i))
        BY <3>1, <4>1, <1>1 DEF SlotMoves, Asked, Waited, Idle
      <4>3. P(i).time > 0 /\ Q(i).to = P(i).to
        BY <4>2 DEF Repeated
      <4>4. d.uid = P(i).to
        BY <4>3, <3>1, <3>4, <2>1 DEF IInv, SlotsTally
      <4> QED
        BY <3>1, <4>3, <4>4
    <3> QED
      BY <3>3, <3>4
  <2>2. CASE a \in air /\ b \in air
    BY <2>2 DEF IInv, OneReceiver
  <2> QED
    BY <2>1, <2>2
<1>14. AckedIsOver'
  <2>1. ASSUME NEW m \in acked
        PROVE  /\ \E a \in air' : a.rid = m
               /\ \A i \in Slots : Q(i).rid = m => Q(i).time = 0
    <3>1. \E a \in air : a.rid = m
      BY DEF IInv, AckedIsOver
    <3>2. \A i \in Slots : P(i).rid = m => P(i).time = 0
      BY DEF IInv, AckedIsOver
    <3> QED
      BY <3>1, <3>2, <1>1, SecondStep
  <2> QED
    BY <1>0, <2>1 DEF AckedIsOver
<1> QED
  BY <1>2, <1>4, <1>10, <1>11, <1>12, <1>13, <1>14 DEF IInv
-----------------------------------------------------------------------------
(* The other actions. *)

\* What send_out_by_name leaves: a fresh rid in one slot, that waits for its
\* uid or has been transmitted once.
LEMMA SubmitStep ==
  ASSUME IInv, NEW i \in Slots, NEW name \in Names, NEW len \in Lengths, NEW flex \in Random,
         send_out_by_name(i, name, len, flex)
  PROVE  LET q == sendout_package'[i]  m == issued + 1
         IN  /\ m \in Messages /\ issued' = m /\ issued \in Nat
             /\ sendout_package[i].time = 0
             /\ sendout_package' = [sendout_package EXCEPT ![i] = q]
             /\ q \in Packages /\ q.rid = m
             /\ q.size - Grown(q) = PACKAGE + IDENTIFIED + len
             /\ length' = [length EXCEPT ![m] = len]
             /\ PACKAGE + IDENTIFIED + len + INTERMEDIATE <= SENDOUT_BUFFER_SIZE
             /\ \/ /\ q.to \in Names /\ q.time = 0 - Solving
                   /\ air' = air /\ tries' = tries
                \/ /\ q.to \in Peers /\ q.time = Sending
                   /\ air' = air \cup {[rid |-> m, flex |-> flex, uid |-> q.to]}
                   /\ tries' = [tries EXCEPT ![m] = 1]
             /\ UNCHANGED <<route, named, acked>>
<1> DEFINE q == sendout_package'[i]
           m == issued + 1
           n == PACKAGE + IDENTIFIED + len
           uid == find_table_by_name(name)
           made == [to |-> name, time |-> 0 - Solving, size |-> n, rid |-> m, flex |-> flex,
                    kind |-> "plain"]
<1>1. issued \in Nat /\ m \in Messages
  <2>1. issued \in 0 .. MESSAGES /\ issued < MESSAGES /\ MESSAGES \in Nat
    BY SendOutAssumption DEF IInv, TypeOK, Rids, send_out_by_name
  <2> QED
    BY <2>1 DEF Messages
<1>2. n \in Nat /\ flex \in Flexes /\ Solving \in 1 .. 128
  BY Times, SendOutAssumption DEF Flexes
<1>3. /\ issued' = m /\ sendout_package[i].time = 0
      /\ length' = [length EXCEPT ![m] = len]
      /\ PACKAGE + IDENTIFIED + len + INTERMEDIATE <= SENDOUT_BUFFER_SIZE
      /\ UNCHANGED <<route, named, acked>>
  BY DEF send_out_by_name, Free, Fits
<1>4. sendout_package \in [Slots -> Packages]
  BY DEF IInv, TypeOK
<1>5. CASE uid = NoUid
  <2>1. sendout_package' = [sendout_package EXCEPT ![i] = made] /\ air' = air /\ tries' = tries
    BY <1>5 DEF send_out_by_name, Solving
  <2>2. q = made
    BY <2>1, <1>4
  <2>3. 0 - Solving \in -128 .. 127 /\ m \in Rids
    BY <1>1, <1>2 DEF Rids, Messages
  <2>4. made \in Packages
    <3> HIDE DEF n, m
    <3> QED
      BY <2>3, <1>2 DEF Packages
  <2>5. made.rid = m /\ made.size - Grown(made) = n /\ made.to = name /\ made.time = 0 - Solving
    BY <1>2 DEF Grown
  <2> HIDE DEF made, n, m
  <2>6. q.to \in Names /\ q.time = 0 - Solving
    BY <2>2, <2>5
  <2> QED
    BY <1>1, <1>3, <2>1, <2>2, <2>4, <2>5, <2>6 DEF n, m
<1>6. CASE uid # NoUid
  <2>0. uid \in Peers
    BY <1>6, NameType DEF IInv
  <2>1. /\ sendout_package' = [sendout_package EXCEPT ![i] = First(made, uid)]
        /\ air' = air \cup {[rid |-> m, flex |-> flex, uid |-> uid]}
        /\ tries' = [tries EXCEPT ![m] = 1]
    BY <1>6, <1>3 DEF send_out_by_name, Solving
  <2>2. q = First(made, uid)
    BY <2>1, <1>4
  <2>3. 0 - Solving \in -128 .. 127 /\ m \in Rids
    BY <1>1, <1>2 DEF Rids, Messages
  <2>4. made \in Packages
    <3> HIDE DEF n, m
    <3> QED
      BY <2>3, <1>2 DEF Packages
  <2>5. made.rid = m /\ made.size - Grown(made) = n /\ made.size >= Grown(made)
    BY <1>2 DEF Grown
  <2> HIDE DEF made, n, m
  <2>6. /\ q \in Packages /\ q.to = uid /\ q.time = Sending /\ q.rid = m
        /\ q.size - Grown(q) = n
    BY <2>0, <2>2, <2>4, <2>5, FirstType
  <2>7. sendout_package' = [sendout_package EXCEPT ![i] = q]
    BY <2>1, <2>2
  <2> HIDE DEF q, uid
  <2> QED
    BY <1>1, <1>3, <2>0, <2>1, <2>6, <2>7 DEF n, m, q
<1> QED
  BY <1>5, <1>6
LEMMA SubmitOK ==
  ASSUME IInv, NEW i \in Slots, NEW name \in Names, NEW len \in Lengths, NEW flex \in Random,
         send_out_by_name(i, name, len, flex)
  PROVE  IInv'
<1> DEFINE P(j) == sendout_package[j]
           Q(j) == sendout_package'[j]
           m == issued + 1
           Most == (SENDING_ATTEMPTS + 1) * TIME_TO_SEND
<1>1. /\ m \in Messages /\ issued' = m /\ issued \in Nat
      /\ sendout_package' = [sendout_package EXCEPT ![i] = Q(i)]
      /\ Q(i) \in Packages /\ Q(i).rid = m
      /\ Q(i).size - Grown(Q(i)) = PACKAGE + IDENTIFIED + len
      /\ length' = [length EXCEPT ![m] = len]
      /\ PACKAGE + IDENTIFIED + len + INTERMEDIATE <= SENDOUT_BUFFER_SIZE
      /\ UNCHANGED <<route, named, acked>>
  BY SubmitStep
<1>2. \/ /\ Q(i).to \in Names /\ Q(i).time = 0 - Solving
         /\ air' = air /\ tries' = tries
      \/ /\ Q(i).to \in Peers /\ Q(i).time = Sending
         /\ air' = air \cup {[rid |-> m, flex |-> flex, uid |-> Q(i).to]}
         /\ tries' = [tries EXCEPT ![m] = 1]
  BY SubmitStep
<1>3. ASSUME NEW j \in Slots, j # i
      PROVE  Q(j) = P(j)
  BY <1>1, <1>3 DEF IInv, TypeOK
<1>4. ASSUME NEW j \in Slots
      PROVE  P(j).rid <= issued /\ P(j).rid \in Nat /\ P(j).rid # m
  <2>1. P(j).rid \in Nat
    <3>1. P(j) \in Packages
      BY DEF IInv, TypeOK
    <3> QED
      BY <3>1 DEF Packages, Rids
  <2>2. P(j).rid <= issued
    BY DEF IInv, RidsAreOwn
  <2> QED
    BY <2>1, <2>2, <1>1
<1>5. \A a \in air : a.rid \in Nat /\ a.rid <= issued /\ a.rid # m
  <2>1. ASSUME NEW a \in air PROVE a.rid \in Nat /\ a.rid <= issued
    BY DEF IInv, TypeOK, AirIsIssued, Messages
  <2> QED
    BY <2>1, <1>1
<1>6. tries[m] = 0
  <2>1. m > issued
    BY <1>1
  <2> QED
    BY <1>1, <2>1 DEF IInv, AirIsIssued
<1>7. tries \in [Messages -> 0 .. SENDING_ATTEMPTS + 1]
  BY DEF IInv, TypeOK
<1>8. ASSUME NEW k \in Messages, k # m PROVE tries'[k] = tries[k] /\ length'[k] = length[k]
  <2>1. length \in [Messages -> Lengths \cup {0}]
    BY DEF IInv, TypeOK
  <2> QED
    BY <1>1, <1>2, <1>7, <1>8, <2>1
<1>9. length'[m] = len
  BY <1>1 DEF IInv, TypeOK
<1> HIDE DEF m
<1>10. TypeOK'
  <2>1. sendout_package' \in [Slots -> Packages]
    BY <1>1 DEF IInv, TypeOK
  <2>2. air' \subseteq [rid : Messages, flex : Flexes, uid : Peers]
    <3>1. flex \in Flexes
      BY SendOutAssumption DEF Flexes
    <3>2. air \subseteq [rid : Messages, flex : Flexes, uid : Peers]
      BY DEF IInv, TypeOK
    <3> QED
      BY <1>1, <1>2, <3>1, <3>2
  <2>3. tries' \in [Messages -> 0 .. SENDING_ATTEMPTS + 1]
    <3>1. 1 \in 0 .. SENDING_ATTEMPTS + 1
      BY Times
    <3> QED
      BY <1>2, <1>7, <3>1
  <2>4. length' \in [Messages -> Lengths \cup {0}]
    BY <1>1 DEF IInv, TypeOK
  <2>5. issued' \in Rids
    BY <1>1, SendOutAssumption DEF Rids, Messages
  <2> QED
    BY <1>1, <2>1, <2>2, <2>3, <2>4, <2>5 DEF IInv, TypeOK
<1>11. RidsAreOwn'
  <2>0. m = issued + 1
    BY DEF m
  <2>1. ASSUME NEW j \in Slots
        PROVE  Q(j).rid <= m /\ (Q(j).time # 0 => Q(j).rid # 0)
    <3>1. CASE j = i
      BY <1>1, <2>0, <3>1
    <3>2. CASE j # i
      BY <1>1, <1>3, <1>4, <2>0, <3>2 DEF IInv, RidsAreOwn
    <3> QED
      BY <3>1, <3>2
  <2>2. ASSUME NEW j \in Slots, NEW k \in Slots, Q(j).rid = Q(k).rid, Q(j).rid # 0
        PROVE  j = k
    BY <1>1, <1>3, <1>4, <2>2 DEF IInv, RidsAreOwn
  <2> QED
    BY <1>1, <2>1, <2>2 DEF RidsAreOwn
<1>12. AirIsIssued'
  <2>0. m = issued + 1
    BY DEF m
  <2>1. ASSUME NEW a \in air' PROVE a.rid <= m
    BY <1>1, <1>2, <1>5, <2>0
  <2>2. ASSUME NEW k \in Messages, k > m PROVE tries'[k] = 0
    <3>1. k \in Nat /\ k # m /\ k > issued
      BY <1>1, <2>0, <2>2 DEF Messages
    <3> QED
      BY <1>8, <3>1 DEF IInv, AirIsIssued
  <2> QED
    BY <1>1, <2>1, <2>2 DEF AirIsIssued
<1>13. SlotsTally'
  <2> SUFFICES ASSUME NEW j \in Slots
               PROVE  /\ 0 - Solving <= Q(j).time /\ Q(j).time <= Sending
                      /\ Q(j).time < 0 =>
                           /\ Q(j).to \in Names
                           /\ tries'[Q(j).rid] = 0
                           /\ \A a \in air' : a.rid # Q(j).rid
                      /\ Q(j).time > 0 =>
                           /\ Q(j).to \in Peers
                           /\ tries'[Q(j).rid] * TIME_TO_SEND + Q(j).time <= Most
                           /\ \A a \in air' : a.rid = Q(j).rid => a.uid = Q(j).to
                           /\ \E a \in air' : a.rid = Q(j).rid
    BY DEF SlotsTally
  <2>0. /\ Sending \in 1 .. 127 /\ Solving \in 1 .. 128 /\ TIME_TO_SEND \in Nat
        /\ Most = Sending + TIME_TO_SEND
    BY Times
  <2> HIDE DEF Most
  <2>1. CASE j = i /\ Q(i).to \in Names /\ Q(i).time = 0 - Solving /\ air' = air /\ tries' = tries
    <3>1. Q(i).time < 0 /\ ~ (Q(i).time > 0) /\ 0 - Solving <= Q(i).time /\ Q(i).time <= Sending
      BY <2>0, <2>1
    <3> QED
      BY <2>1, <3>1, <1>1, <1>5, <1>6
  <2>2. CASE /\ j = i /\ Q(i).to \in Peers /\ Q(i).time = Sending
             /\ air' = air \cup {[rid |-> m, flex |-> flex, uid |-> Q(i).to]}
             /\ tries' = [tries EXCEPT ![m] = 1]
    <3>1. Q(i).time > 0 /\ ~ (Q(i).time < 0) /\ 0 - Solving <= Q(i).time /\ Q(i).time <= Sending
      BY <2>0, <2>2
    <3>2. tries'[Q(i).rid] = 1
      BY <1>1, <1>7, <2>2
    <3>3. 1 * TIME_TO_SEND + Sending <= Most
      BY <2>0
    <3>4. tries'[Q(i).rid] * TIME_TO_SEND + Q(i).time <= Most
      BY <3>2, <3>3, <2>2
    <3>5. \A a \in air' : a.rid = Q(i).rid => a.uid = Q(i).to
      BY <1>1, <1>5, <2>2
    <3>6. [rid |-> m, flex |-> flex, uid |-> Q(i).to] \in air'
      BY <2>2
    <3>7. \E a \in air' : a.rid = Q(i).rid
      BY <1>1, <3>6
    <3> QED
      BY <2>2, <3>1, <3>4, <3>5, <3>7
  <2>3. CASE j # i
    <3>1. Q(j) = P(j)
      BY <1>3, <2>3
    <3>2. /\ 0 - Solving <= P(j).time /\ P(j).time <= Sending
          /\ P(j).time < 0 => /\ P(j).to \in Names
                              /\ tries[P(j).rid] = 0
                              /\ \A a \in air : a.rid # P(j).rid
          /\ P(j).time > 0 => /\ P(j).to \in Peers
                              /\ tries[P(j).rid] * TIME_TO_SEND + P(j).time <= Most
                              /\ \A a \in air : a.rid = P(j).rid => a.uid = P(j).to
                              /\ \E a \in air : a.rid = P(j).rid
      BY DEF IInv, SlotsTally, Most
    <3>3. P(j).time # 0 => P(j).rid \in Messages /\ P(j).rid # m
      BY SlotFacts, <1>4 DEF m
    <3>4. P(j).time # 0 => tries'[P(j).rid] = tries[P(j).rid]
      BY <3>3, <1>8
    <3>5. P(j).time \in Int
      BY SlotFacts DEF Packages
    <3>6. air \subseteq air' /\ \A a \in air' : a \in air \/ a.rid = m
      BY <1>2
    <3> QED
      BY <3>1, <3>2, <3>3, <3>4, <3>5, <3>6
  <2> QED
    BY <1>2, <2>1, <2>2, <2>3
<1>14. PackagesFit'
  <2> SUFFICES ASSUME NEW j \in Slots, Q(j).time # 0
               PROVE  /\ Q(j).size = PACKAGE + IDENTIFIED + length'[Q(j).rid] + Grown(Q(j))
                      /\ PACKAGE + IDENTIFIED + length'[Q(j).rid] + INTERMEDIATE <= SENDOUT_BUFFER_SIZE
    BY DEF PackagesFit, Grown
  <2>1. CASE j = i
    <3>1. Q(i).size \in Nat /\ Grown(Q(i)) \in Nat /\ PACKAGE + IDENTIFIED \in Nat /\ len \in Nat
      BY <1>1, SendOutAssumption DEF Packages, Grown
    <3> QED
      BY <1>1, <1>9, <2>1, <3>1
  <2>2. CASE j # i
    <3>1. Q(j) = P(j) /\ P(j).time # 0
      BY <1>3, <2>2
    <3>2. P(j).rid \in Messages /\ P(j).rid # m
      BY <3>1, SlotFacts, <1>4 DEF m
    <3>3. length'[P(j).rid] = length[P(j).rid]
      BY <3>2, <1>8
    <3> QED
      BY <3>1, <3>3 DEF IInv, PackagesFit
  <2> QED
    BY <2>1, <2>2
<1>15. OneReceiver'
  <2> SUFFICES ASSUME NEW a \in air', NEW b \in air', a.rid = b.rid
               PROVE  a.uid = b.uid
    BY DEF OneReceiver
  <2>1. CASE a \in air /\ b \in air
    BY <2>1 DEF IInv, OneReceiver
  <2>2. CASE ~ (a \in air /\ b \in air)
    BY <2>2, <1>2, <1>5 DEF m
  <2> QED
    BY <2>1, <2>2
<1>16. AckedIsOver'
  <2>1. ASSUME NEW k \in acked
        PROVE  /\ \E a \in air' : a.rid = k
               /\ \A j \in Slots : Q(j).rid = k => Q(j).time = 0
    <3>1. PICK a \in air : a.rid = k
      BY DEF IInv, AckedIsOver
    <3>2. a \in air' /\ k # m
      BY <3>1, <1>2, <1>5 DEF m
    <3> QED
      BY <3>1, <3>2, <1>1, <1>3 DEF IInv, AckedIsOver
  <2> QED
    BY <1>1, <2>1 DEF AckedIsOver
<1> QED
  BY <1>10, <1>11, <1>12, <1>13, <1>14, <1>15, <1>16 DEF IInv

\* Time and rid, and for a waiting slot everything, decide of the invariant.
LEMMA FreeSlotsOK ==
  ASSUME IInv, sendout_package' \in [Slots -> Packages],
         \A i \in Slots : /\ sendout_package'[i].rid = sendout_package[i].rid
                          /\ \/ sendout_package'[i] = sendout_package[i]
                             \/ sendout_package'[i].time = 0,
         acked' \subseteq Messages,
         \A m \in acked' \ acked :
            /\ \E a \in air : a.rid = m
            /\ \A i \in Slots : sendout_package'[i].rid = m => sendout_package'[i].time = 0,
         acked \subseteq acked',
         route' \in [Peers -> {"none", "direct", "via"}],
         named' \in [Names -> Peers \cup {NoUid}],
         UNCHANGED <<issued, air, tries, length>>
  PROVE  IInv'
<1> DEFINE P(j) == sendout_package[j]
           Q(j) == sendout_package'[j]
<1>1. TypeOK'
  BY DEF IInv, TypeOK
<1>2. RidsAreOwn'
  BY DEF IInv, RidsAreOwn
<1>3. AirIsIssued' /\ OneReceiver'
  BY DEF IInv, AirIsIssued, OneReceiver
<1>4. SlotsTally'
  <2> SUFFICES ASSUME NEW j \in Slots
               PROVE  /\ 0 - Solving <= Q(j).time /\ Q(j).time <= Sending
                      /\ Q(j).time < 0 =>
                           /\ Q(j).to \in Names
                           /\ tries[Q(j).rid] = 0
                           /\ \A a \in air : a.rid # Q(j).rid
                      /\ Q(j).time > 0 =>
                           /\ Q(j).to \in Peers
                           /\ tries[Q(j).rid] * TIME_TO_SEND + Q(j).time
                                <= (SENDING_ATTEMPTS + 1) * TIME_TO_SEND
                           /\ \A a \in air : a.rid = Q(j).rid => a.uid = Q(j).to
                           /\ \E a \in air : a.rid = Q(j).rid
    BY DEF SlotsTally
  <2>1. CASE Q(j) = P(j)
    BY <2>1 DEF IInv, SlotsTally
  <2>2. CASE Q(j).time = 0
    <3>1. Sending \in Nat /\ Solving \in Nat
      BY Times
    <3>2. 0 - Solving <= Q(j).time /\ Q(j).time <= Sending /\ ~ (Q(j).time < 0) /\ ~ (Q(j).time > 0)
      BY <2>2, <3>1
    <3> QED
      BY <3>2
  <2> QED
    BY <2>1, <2>2
<1>5. PackagesFit'
  <2>1. \A j \in Slots : Q(j).time # 0 => Q(j) = P(j)
    OBVIOUS
  <2> QED
    BY <2>1 DEF IInv, PackagesFit, Grown
<1>6. AckedIsOver'
  <2>1. ASSUME NEW m \in acked'
        PROVE  /\ \E a \in air : a.rid = m
               /\ \A j \in Slots : Q(j).rid = m => Q(j).time = 0
    <3>1. CASE m \in acked
      BY <3>1 DEF IInv, AckedIsOver
    <3>2. CASE m \notin acked
      BY <3>2
    <3> QED
      BY <3>1, <3>2
  <2> QED
    BY <2>1 DEF AckedIsOver
<1> QED
  BY <1>1, <1>2, <1>3, <1>4, <1>5, <1>6 DEF IInv
LEMMA RefuseOK ==
  ASSUME IInv, NEW i \in Slots, NEW len \in Lengths, Refuse(i, len)
  PROVE  IInv'
<1> DEFINE n == PACKAGE + IDENTIFIED + len
<1>1. n \in Nat
  BY SendOutAssumption
<1>2. sendout_package \in [Slots -> Packages]
  BY DEF IInv, TypeOK
<1> DEFINE q == [sendout_package[i] EXCEPT !.size = n]
<1>3. sendout_package' = [sendout_package EXCEPT ![i] = q]
  BY <1>2 DEF Refuse
<1>4. sendout_package[i].time = 0
  BY DEF Refuse, Free
<1> HIDE DEF n
<1>5. q \in Packages /\ q.rid = sendout_package[i].rid /\ q.time = 0
  BY <1>1, <1>2, <1>4 DEF Packages
<1> HIDE DEF q
<1>6. sendout_package' \in [Slots -> Packages]
  BY <1>2, <1>3, <1>5
<1>7. \A j \in Slots : /\ sendout_package'[j].rid = sendout_package[j].rid
                       /\ \/ sendout_package'[j] = sendout_package[j]
                          \/ sendout_package'[j].time = 0
  BY <1>2, <1>3, <1>5
<1>8. UNCHANGED <<route, named, issued, air, tries, acked, length>>
  BY DEF Refuse
<1>9. /\ acked \subseteq Messages
      /\ route \in [Peers -> {"none", "direct", "via"}]
      /\ named \in [Names -> Peers \cup {NoUid}]
  BY DEF IInv, TypeOK
<1> QED
  BY <1>6, <1>7, <1>8, <1>9, FreeSlotsOK

\* A message has at most one slot, so the first one with its rid is that one.
LEMMA MatchIsOwn ==
  ASSUME IInv, NEW m \in Messages, NEW i \in Slots, sendout_package[i].rid = m
  PROVE  Matches(i, m)
<1>1. m # 0 /\ \A j \in 0 .. i - 1 : j \in Slots /\ j # i
  BY SendOutAssumption DEF Messages, Slots
<1> QED
  BY <1>1 DEF Matches, IInv, RidsAreOwn

\* An acknowledgement keeps the invariant (acknowledge).
LEMMA AcknowledgeOK ==
  ASSUME IInv, NEW m \in Messages, acknowledge(m)
  PROVE  IInv'
<1>1. ASSUME NEW p \in Packages
      PROVE  LET q == [p EXCEPT !.time = 0]
             IN  q \in Packages /\ q.rid = p.rid /\ q.time = 0
  BY DEF Packages
<1>2. sendout_package \in [Slots -> Packages]
  BY DEF IInv, TypeOK
<1>3. ASSUME NEW i \in Slots
      PROVE  /\ sendout_package'[i] \in Packages
             /\ sendout_package'[i].rid = sendout_package[i].rid
             /\ \/ sendout_package'[i] = sendout_package[i]
                \/ sendout_package'[i].time = 0
             /\ sendout_package[i].rid = m => sendout_package'[i].time = 0
  <2>1. sendout_package'[i] = IF Matches(i, m) THEN [sendout_package[i] EXCEPT !.time = 0]
                                               ELSE sendout_package[i]
    BY DEF acknowledge
  <2>2. CASE Matches(i, m)
    BY <1>1, <1>2, <2>1, <2>2
  <2>3. CASE ~ Matches(i, m)
    BY <1>2, <2>1, <2>3, MatchIsOwn
  <2> QED
    BY <2>2, <2>3
<1>4. sendout_package' \in [Slots -> Packages]
  <2>1. sendout_package' = [i \in Slots |-> sendout_package'[i]]
    BY DEF acknowledge
  <2> QED
    BY <2>1, <1>3
<1>5. UNCHANGED <<route, named, issued, air, tries, length>> /\ acked' = acked \cup {m}
  BY DEF acknowledge
<1>6. /\ acked' \subseteq Messages
      /\ route \in [Peers -> {"none", "direct", "via"}]
      /\ named \in [Names -> Peers \cup {NoUid}]
  BY <1>5 DEF IInv, TypeOK
<1>7. \E a \in air : a.rid = m
  BY DEF acknowledge
<1> QED
  BY <1>3, <1>4, <1>5, <1>6, <1>7, FreeSlotsOK

\* Changes of routes and names keep the invariant.
LEMMA WorldOK ==
  ASSUME IInv,
         \/ \E uid \in Peers, r \in {"none", "direct", "via"} : ChangeRoute(uid, r)
         \/ \E name \in Names, uid \in Peers \cup {NoUid} : ChangeName(name, uid)
  PROVE  IInv'
<1>1. /\ route' \in [Peers -> {"none", "direct", "via"}]
      /\ named' \in [Names -> Peers \cup {NoUid}]
      /\ UNCHANGED <<sendout_package, issued, air, tries, acked, length>>
  BY DEF IInv, TypeOK, ChangeRoute, ChangeName
<1> QED
  BY <1>1, FreeSlotsOK DEF IInv, TypeOK

\* A step that changes nothing keeps the invariant.
LEMMA StutterOK == ASSUME IInv, UNCHANGED vars PROVE IInv'
BY DEF IInv, vars, TypeOK, RidsAreOwn, AirIsIssued, SlotsTally, PackagesFit, OneReceiver,
       AckedIsOver, Grown, Packages

\* So every step keeps the invariant.
LEMMA NextOK ==
  ASSUME IInv, [Next]_vars
  PROVE  IInv'
<1>1. CASE check_send_out
  BY <1>1, SecondOK
<1>2. CASE \E i \in Slots, name \in Names, len \in Lengths, flex \in Random :
             send_out_by_name(i, name, len, flex)
  BY <1>2, SubmitOK
<1>3. CASE \E i \in Slots, len \in Lengths : Refuse(i, len)
  BY <1>3, RefuseOK
<1>4. CASE \E m \in Messages : acknowledge(m)
  BY <1>4, AcknowledgeOK
<1>5. CASE \/ \E uid \in Peers, r \in {"none", "direct", "via"} : ChangeRoute(uid, r)
           \/ \E name \in Names, uid \in Peers \cup {NoUid} : ChangeName(name, uid)
  BY <1>5, WorldOK
<1>6. CASE UNCHANGED vars
  BY <1>6, StutterOK
<1> QED
  BY <1>1, <1>2, <1>3, <1>4, <1>5, <1>6 DEF Next

\* The state of sendout.c keeps the inductive invariant: every waiting slot
\* has a message of its own, the right half of its union, its true size, room
\* for an intermediate head and no more time than tries.
THEOREM Invariant == Spec => []IInv
BY InitOK, NextOK, PTL DEF Spec

\* No count of sendout.c leaves its range; in particular no message is
\* transmitted more than SENDING_ATTEMPTS + 1 times.
THEOREM TypeCorrect == Spec => []TypeOK
<1>1. IInv => TypeOK
  BY DEF IInv
<1> QED
  BY <1>1, Invariant, PTL

\* check_send_out never reads a name as a uid or a uid as a name.
THEOREM UnionIsRight == Spec => []UnionMatchesTime
<1>1. IInv => UnionMatchesTime
  BY DEF IInv, SlotsTally, UnionMatchesTime
<1> QED
  BY <1>1, Invariant, PTL

\* send_package_by_table never grows a package beyond the buffer of its slot.
THEOREM Fit == Spec => []PackagesFit
<1>1. IInv => PackagesFit
  BY DEF IInv
<1> QED
  BY <1>1, Invariant, PTL
-----------------------------------------------------------------------------
(* The promise of EmsDelivery. *)

\* What phase, left and receiver say of a message, without a choice.
MessageFacts ==
  \A m \in Messages :
    /\ m > issued => phase[m] = "new" /\ left[m] = 0
    /\ \A i \in Slots :
         LET p == sendout_package[i]
         IN  /\ p.rid = m /\ p.time < 0 => phase[m] = "resolving" /\ left[m] = 0 - p.time
             /\ p.rid = m /\ p.time > 0 => phase[m] = "sending" /\ left[m] = p.time
    /\ m <= issued /\ (\A i \in Slots : sendout_package[i].rid = m => sendout_package[i].time = 0)
         => phase[m] = "over" /\ left[m] = 0
    /\ \A a \in air : a.rid = m => receiver[m] = a.uid
    /\ (\A a \in air : a.rid # m) => receiver[m] = NoUid

\* In every state of the invariant the mapping gives a state of EmsDelivery.
LEMMA Mapping == IInv => MessageFacts
<1> SUFFICES ASSUME IInv, NEW m \in Messages
             PROVE  /\ m > issued => phase[m] = "new" /\ left[m] = 0
                    /\ \A i \in Slots :
                         LET p == sendout_package[i]
                         IN  /\ p.rid = m /\ p.time < 0
                                  => phase[m] = "resolving" /\ left[m] = 0 - p.time
                             /\ p.rid = m /\ p.time > 0
                                  => phase[m] = "sending" /\ left[m] = p.time
                    /\ m <= issued
                         /\ (\A i \in Slots : sendout_package[i].rid = m
                                                => sendout_package[i].time = 0)
                         => phase[m] = "over" /\ left[m] = 0
                    /\ \A a \in air : a.rid = m => receiver[m] = a.uid
                    /\ (\A a \in air : a.rid # m) => receiver[m] = NoUid
  BY DEF MessageFacts
<1>0. m \in Nat /\ m # 0 /\ issued \in Nat
  BY SendOutAssumption DEF Messages, IInv, TypeOK, Rids
<1>1. ASSUME Waits(m) = {}
      PROVE  left[m] = 0 /\ phase[m] = IF m > issued THEN "new" ELSE "over"
  BY <1>1 DEF left, phase
<1>2. ASSUME m > issued
      PROVE  Waits(m) = {}
  <2>1. \A i \in Slots : sendout_package[i].rid <= issued
    BY DEF IInv, RidsAreOwn
  <2>2. \A i \in Slots : sendout_package[i].rid # m
    BY <2>1, <1>0, <1>2
  <2> QED
    BY <2>2 DEF Waits
<1>3. ASSUME NEW i \in Slots, sendout_package[i].rid = m, sendout_package[i].time # 0
      PROVE  LET t == sendout_package[i].time
             IN  /\ phase[m] = IF t < 0 THEN "resolving" ELSE "sending"
                 /\ left[m] = IF t < 0 THEN 0 - t ELSE t
  <2>1. Waits(m) = {i}
    BY <1>0, <1>3 DEF Waits, IInv, RidsAreOwn
  <2>2. ~ (m > issued)
    BY <1>2, <2>1
  <2>3. (CHOOSE j \in Waits(m) : TRUE) = i
    BY <2>1
  <2>4. phase[m] = IF sendout_package[i].time < 0 THEN "resolving" ELSE "sending"
    BY <2>1, <2>2 DEF phase
  <2>5. left[m] = LET time == sendout_package[CHOOSE j \in Waits(m) : TRUE].time
                  IN  IF time < 0 THEN 0 - time ELSE time
    BY <2>1 DEF left
  <2> QED
    BY <2>3, <2>4, <2>5
<1>4. ASSUME NEW i \in Slots
      PROVE  sendout_package[i].time \in Int
  BY SlotFacts DEF Packages
<1>5. ASSUME NEW a \in air, a.rid = m
      PROVE  receiver[m] = a.uid
  <2> DEFINE b == CHOOSE c \in air : c.rid = m
  <2>1. b \in air /\ b.rid = m
    BY <1>5
  <2>2. receiver[m] = b.uid
    BY <1>5 DEF receiver
  <2> HIDE DEF b
  <2> QED
    BY <1>5, <2>1, <2>2 DEF IInv, OneReceiver
<1>6. (\A a \in air : a.rid # m) => receiver[m] = NoUid
  BY DEF receiver
<1>7. m <= issued
        /\ (\A i \in Slots : sendout_package[i].rid = m => sendout_package[i].time = 0)
        => phase[m] = "over" /\ left[m] = 0
  <2> SUFFICES ASSUME m <= issued,
                      \A i \in Slots : sendout_package[i].rid = m => sendout_package[i].time = 0
               PROVE  phase[m] = "over" /\ left[m] = 0
    OBVIOUS
  <2>1. Waits(m) = {}
    BY DEF Waits
  <2> QED
    BY <1>0, <1>1, <2>1
<1>8. m > issued => phase[m] = "new" /\ left[m] = 0
  BY <1>1, <1>2
<1>9. ASSUME NEW i \in Slots
      PROVE  LET p == sendout_package[i]
             IN  /\ p.rid = m /\ p.time < 0 => phase[m] = "resolving" /\ left[m] = 0 - p.time
                 /\ p.rid = m /\ p.time > 0 => phase[m] = "sending" /\ left[m] = p.time
  BY <1>3, <1>4
<1> QED
  BY <1>5, <1>6, <1>7, <1>8, <1>9

\* The same of the next state.
LEMMA MappingNext == IInv' => MessageFacts'
BY Mapping, PTL
LEMMA SameReceiver ==
  ASSUME MessageFacts, MessageFacts', NEW m \in Messages, air \subseteq air',
         \A a \in air' : a \notin air => a.rid # m
  PROVE  receiver'[m] = receiver[m]
<1>1. CASE \E a \in air : a.rid = m
  <2>1. PICK a \in air : a.rid = m
    BY <1>1
  <2> QED
    BY <2>1 DEF MessageFacts
<1>2. CASE \A a \in air : a.rid # m
  <2>1. \A a \in air' : a.rid # m
    BY <1>2
  <2> QED
    BY <1>2, <2>1 DEF MessageFacts
<1> QED
  BY <1>1, <1>2

\* The message of a slot that is not free: its slot decides what it does.
LEMMA WaitingSecond ==
  ASSUME IInv, IInv', MessageFacts, MessageFacts', check_send_out,
         NEW m \in Messages, NEW i \in Slots,
         sendout_package[i].rid = m, sendout_package[i].time # 0
  PROVE  Delivery!Start(m) \/ Delivery!Second(m)
<1> DEFINE p == sendout_package[i]
           q == sendout_package'[i]
<1>1. /\ q.rid = m /\ SlotMoves(p, q) /\ p.time \in Int /\ q.time \in Int
      /\ Sending \in 1 .. 127 /\ tries[m] \in Nat
      /\ air \subseteq air'
  <2>1. q.rid = m /\ SlotMoves(p, q) /\ air \subseteq air'
    BY SecondStep
  <2>2. p \in Packages /\ q \in Packages
    BY DEF IInv, TypeOK
  <2>3. p.time \in Int /\ q.time \in Int
    BY <2>2 DEF Packages
  <2>4. tries[m] \in 0 .. SENDING_ATTEMPTS + 1
    BY DEF IInv, TypeOK
  <2> QED
    BY <2>1, <2>3, <2>4, Times
<1>2. IF Transmits(p) THEN /\ tries'[m] = tries[m] + 1
                           /\ \E a \in air' : a.rid = m /\ a.uid = q.to
                      ELSE tries'[m] = tries[m]
  BY SecondStep
<1>3. m \notin acked'
  <2>1. m \notin acked
    BY DEF IInv, AckedIsOver
  <2> QED
    BY <2>1 DEF check_send_out
<1>4. m <= issued /\ issued' = issued
  BY DEF IInv, RidsAreOwn, check_send_out
<1>5. /\ p.time < 0 => phase[m] = "resolving" /\ left[m] = 0 - p.time
      /\ p.time > 0 => phase[m] = "sending" /\ left[m] = p.time
  BY DEF MessageFacts
<1>6. /\ q.time < 0 => phase'[m] = "resolving" /\ left'[m] = 0 - q.time
      /\ q.time > 0 => phase'[m] = "sending" /\ left'[m] = q.time
  BY <1>1 DEF MessageFacts
<1>7. ASSUME q.time = 0 PROVE phase'[m] = "over" /\ left'[m] = 0
  <2>1. \A j \in Slots : sendout_package'[j].rid = m => j = i
    <3>1. m # 0
      BY DEF Messages
    <3> QED
      BY <1>1, <3>1 DEF IInv, RidsAreOwn
  <2> QED
    BY <1>4, <1>7, <2>1 DEF MessageFacts
<1>8. ASSUME ~ Transmits(p) PROVE receiver'[m] = receiver[m]
  <2>1. m # 0
    BY DEF Messages
  <2>2. ASSUME NEW a \in air', a \notin air PROVE a.rid # m
    BY <1>8, <2>1, <2>2, SecondStep DEF IInv, RidsAreOwn
  <2> QED
    BY <1>1, <2>2, SameReceiver
<1>9. CASE Solved(p, q)
  <2>1. p.time < 0 /\ q.time = Sending /\ q.time > 0 /\ q.to \in Peers /\ Transmits(p)
    BY <1>1, <1>9 DEF Solved
  <2>2. tries[m] = 0
    BY <2>1 DEF IInv, SlotsTally
  <2>3. receiver'[m] \in Peers
    BY <1>2, <2>1 DEF MessageFacts
  <2> QED
    BY <1>2, <1>3, <1>5, <1>6, <2>1, <2>2, <2>3 DEF Delivery!Start, Sending
<1>10. CASE Asked(p, q)
  <2>1. p.time < 0 /\ q.time = p.time + 1 /\ ~ Transmits(p)
    BY <1>10 DEF Asked
  <2>2. left'[m] = left[m] - 1 /\ phase'[m] = IF left'[m] = 0 THEN "over" ELSE phase[m]
    BY <1>1, <1>5, <1>6, <1>7, <2>1
  <2> QED
    BY <1>2, <1>3, <1>5, <1>8, <2>1, <2>2 DEF Delivery!Second
<1>11. CASE Repeated(p, q)
  <2>1. p.time > 0 /\ q.time = p.time - 1 /\ q.to = p.to /\ Transmits(p)
    BY <1>11 DEF Repeated
  <2>2. left'[m] = left[m] - 1 /\ phase'[m] = IF left'[m] = 0 THEN "over" ELSE phase[m]
    BY <1>1, <1>5, <1>6, <1>7, <2>1
  <2>3. tries'[m] <= SENDING_ATTEMPTS + 1
    <3>1. tries'[m] \in 0 .. SENDING_ATTEMPTS + 1
      BY DEF IInv, TypeOK
    <3> QED
      BY <3>1, Times
  <2>4. receiver'[m] = receiver[m]
    <3>1. PICK a \in air : a.rid = m /\ a.uid = p.to
      BY <2>1 DEF IInv, SlotsTally
    <3> QED
      BY <1>1, <3>1 DEF MessageFacts
  <2> QED
    BY <1>2, <1>3, <1>5, <2>1, <2>2, <2>3, <2>4 DEF Delivery!Second
<1>12. CASE Waited(p, q)
  <2>1. p.time > 0 /\ q.time = p.time - 1 /\ ~ Transmits(p)
    BY <1>12 DEF Waited
  <2>2. left'[m] = left[m] - 1 /\ phase'[m] = IF left'[m] = 0 THEN "over" ELSE phase[m]
    BY <1>1, <1>5, <1>6, <1>7, <2>1
  <2> QED
    BY <1>2, <1>3, <1>5, <1>8, <2>1, <2>2 DEF Delivery!Second
<1> QED
  BY <1>1, <1>9, <1>10, <1>11, <1>12 DEF SlotMoves, Idle

\* A message without a slot, before and after.
LEMMA Slotless ==
  ASSUME IInv, MessageFacts, MessageFacts', NEW m \in Messages, issued' = issued,
         \A i \in Slots : sendout_package[i].rid = m => sendout_package[i].time = 0,
         \A i \in Slots : sendout_package'[i].rid = m => sendout_package'[i].time = 0
  PROVE  /\ phase'[m] = phase[m] /\ left'[m] = left[m] /\ left[m] = 0
         /\ phase[m] = IF m > issued THEN "new" ELSE "over"
<1>1. m \in Nat /\ issued \in Nat
  BY SendOutAssumption DEF Messages, IInv, TypeOK, Rids
<1>2. CASE m > issued
  BY <1>2 DEF MessageFacts
<1>3. CASE m <= issued
  BY <1>1, <1>3 DEF MessageFacts
<1> QED
  BY <1>1, <1>2, <1>3

\* A second is a step of EmsDelivery (check_send_out).
LEMMA SecondDelivers ==
  ASSUME IInv, IInv', MessageFacts, MessageFacts', check_send_out, NEW m \in Messages
  PROVE  Delivery!Start(m) \/ Delivery!Second(m) \/ Delivery!Rest(m)
<1>1. CASE \E i \in Slots : sendout_package[i].rid = m /\ sendout_package[i].time # 0
  BY <1>1, WaitingSecond
<1>2. CASE \A i \in Slots : sendout_package[i].rid = m => sendout_package[i].time = 0
  <2>1. ASSUME NEW i \in Slots, sendout_package[i].rid = m
        PROVE  ~ Transmits(sendout_package[i]) /\ sendout_package'[i].time = 0
    <3>1. sendout_package[i].time = 0
      BY <1>2, <2>1
    <3>2. SlotMoves(sendout_package[i], sendout_package'[i])
      BY SecondStep
    <3> QED
      BY <3>1, <3>2 DEF SlotMoves, Solved, Asked, Repeated, Waited, Idle
  <2>2. \A i \in Slots : sendout_package'[i].rid = m => sendout_package'[i].time = 0
    BY <2>1, SecondStep
  <2>3. tries'[m] = tries[m]
    BY <2>1, SecondStep
  <2>4. \A a \in air' : a \notin air => a.rid # m
    BY <2>1, SecondStep
  <2>5. receiver'[m] = receiver[m]
    BY <2>4, SecondStep, SameReceiver
  <2>6. issued' = issued /\ acked' = acked
    BY DEF check_send_out
  <2>7. phase'[m] = phase[m] /\ left'[m] = left[m]
    BY <1>2, <2>2, <2>6, Slotless
  <2> QED
    BY <2>3, <2>5, <2>6, <2>7 DEF Delivery!Rest
<1> QED
  BY <1>1, <1>2
LEMMA SubmitDelivers ==
  ASSUME IInv, IInv', MessageFacts, MessageFacts',
         NEW i \in Slots, NEW name \in Names, NEW len \in Lengths, NEW flex \in Random,
         send_out_by_name(i, name, len, flex), NEW m \in Messages
  PROVE  Delivery!Wait(m) \/ Delivery!Start(m) \/ Delivery!Rest(m)
<1> DEFINE new == issued + 1
           q == sendout_package'[i]
<1>1. /\ new \in Messages /\ issued' = new /\ issued \in Nat
      /\ sendout_package[i].time = 0
      /\ sendout_package' = [sendout_package EXCEPT ![i] = q]
      /\ q.rid = new /\ acked' = acked
  BY SubmitStep
<1>2. \/ /\ q.to \in Names /\ q.time = 0 - Solving
         /\ air' = air /\ tries' = tries
      \/ /\ q.to \in Peers /\ q.time = Sending
         /\ air' = air \cup {[rid |-> new, flex |-> flex, uid |-> q.to]}
         /\ tries' = [tries EXCEPT ![new] = 1]
  BY SubmitStep
<1>3. \A a \in air : a.rid # new
  <2>1. \A a \in air : a.rid <= issued /\ a.rid \in Nat
    BY DEF IInv, AirIsIssued, TypeOK, Messages
  <2> QED
    BY <1>1, <2>1
<1>4. Sending \in 1 .. 127 /\ Solving \in 1 .. 128
  BY Times
<1>5. ASSUME NEW j \in Slots, j # i
      PROVE  sendout_package'[j] = sendout_package[j]
  BY <1>1, <1>5 DEF IInv, TypeOK
<1>6. tries \in [Messages -> 0 .. SENDING_ATTEMPTS + 1]
  BY DEF IInv, TypeOK
<1>7. m \in Nat
  BY DEF Messages
<1>8. CASE m = new
  <2>1. phase[m] = "new" /\ left[m] = 0 /\ tries[m] = 0
    BY <1>1, <1>8 DEF MessageFacts, IInv, AirIsIssued
  <2>2. m \notin acked'
    BY <1>1, <1>3, <1>8 DEF IInv, AckedIsOver
  <2>3. CASE q.time = 0 - Solving /\ air' = air /\ tries' = tries
    <3>1. q.time < 0 /\ 0 - q.time = Solving
      BY <1>4, <2>3
    <3>2. phase'[m] = "resolving" /\ left'[m] = Solving
      BY <1>1, <1>8, <3>1 DEF MessageFacts
    <3>3. receiver'[m] = receiver[m]
      BY <2>3, SameReceiver
    <3> QED
      BY <2>1, <2>2, <2>3, <3>2, <3>3 DEF Delivery!Wait, Solving
  <2>4. CASE /\ q.to \in Peers /\ q.time = Sending
             /\ air' = air \cup {[rid |-> new, flex |-> flex, uid |-> q.to]}
             /\ tries' = [tries EXCEPT ![new] = 1]
    <3>1. q.time > 0
      BY <1>4, <2>4
    <3>2. phase'[m] = "sending" /\ left'[m] = Sending
      BY <1>1, <1>8, <2>4, <3>1 DEF MessageFacts
    <3>3. tries'[m] = 1
      BY <1>1, <1>6, <1>8, <2>4
    <3>4. [rid |-> new, flex |-> flex, uid |-> q.to] \in air'
      BY <2>4
    <3>5. \E a \in air' : a.rid = m /\ a.uid \in Peers
      BY <1>8, <2>4, <3>4
    <3>6. receiver'[m] \in Peers
      BY <3>5 DEF MessageFacts
    <3> QED
      BY <2>1, <2>2, <3>2, <3>3, <3>6 DEF Delivery!Start, Sending
  <2> QED
    BY <1>2, <2>3, <2>4
<1>9. CASE m # new
  <2>1. receiver'[m] = receiver[m] /\ tries'[m] = tries[m]
    <3>1. \A a \in air' : a \notin air => a.rid # m
      BY <1>2, <1>9
    <3>2. air \subseteq air' /\ tries'[m] = tries[m]
      BY <1>2, <1>6, <1>9
    <3> QED
      BY <3>1, <3>2, SameReceiver
  <2>2. m > issued' <=> m > issued
    BY <1>1, <1>7, <1>9
  <2>3. ASSUME NEW j \in Slots, sendout_package[j].rid = m, sendout_package[j].time # 0
        PROVE  phase'[m] = phase[m] /\ left'[m] = left[m]
    <3>1. sendout_package'[j] = sendout_package[j]
      BY <1>1, <1>5, <2>3
    <3>2. sendout_package[j].time \in Int
      BY SlotFacts DEF Packages
    <3> QED
      BY <2>3, <3>1, <3>2 DEF MessageFacts
  <2>4. ASSUME \A j \in Slots : sendout_package[j].rid = m => sendout_package[j].time = 0
        PROVE  phase'[m] = phase[m] /\ left'[m] = left[m]
    <3>1. \A j \in Slots : sendout_package'[j].rid = m => sendout_package'[j].time = 0
      BY <1>1, <1>5, <1>9, <2>4
    <3>2. CASE m > issued
      BY <2>2, <3>2 DEF MessageFacts
    <3>3. CASE m <= issued
      <4>1. m <= issued'
        BY <1>1, <1>7, <3>3
      <4> QED
        BY <2>4, <3>1, <3>3, <4>1 DEF MessageFacts
    <3> QED
      BY <1>1, <1>7, <3>2, <3>3
  <2> QED
    BY <1>1, <2>1, <2>3, <2>4 DEF Delivery!Rest
<1> QED
  BY <1>8, <1>9

\* A slot that keeps its time and its rid, and nothing new in the air: so
\* does Refuse, and the world around the slots.
LEMMA Unmoved ==
  ASSUME IInv, MessageFacts, MessageFacts', NEW m \in Messages,
         \A i \in Slots : /\ sendout_package'[i].rid = sendout_package[i].rid
                          /\ sendout_package[i].rid = m
                               => sendout_package'[i].time = sendout_package[i].time,
         UNCHANGED <<issued, air, tries>>, m \in acked' <=> m \in acked
  PROVE  Delivery!Rest(m)
<1>1. receiver'[m] = receiver[m]
  BY SameReceiver
<1>2. ASSUME NEW i \in Slots, sendout_package[i].rid = m, sendout_package[i].time # 0
      PROVE  phase'[m] = phase[m] /\ left'[m] = left[m]
  <2>1. sendout_package[i].time \in Int
    BY SlotFacts DEF Packages
  <2> QED
    BY <1>2, <2>1 DEF MessageFacts
<1>3. ASSUME \A i \in Slots : sendout_package[i].rid = m => sendout_package[i].time = 0
      PROVE  phase'[m] = phase[m] /\ left'[m] = left[m]
  BY <1>3, Slotless
<1> QED
  BY <1>1, <1>2, <1>3 DEF Delivery!Rest

\* An acknowledgement is a step of EmsDelivery (acknowledge).
LEMMA AcknowledgeDelivers ==
  ASSUME IInv, MessageFacts, MessageFacts', NEW k \in Messages, acknowledge(k),
         NEW m \in Messages
  PROVE  Delivery!Acknowledge(m) \/ Delivery!Rest(m)
<1>0. /\ UNCHANGED <<issued, air, tries>> /\ acked' = acked \cup {k}
      /\ \E a \in air : a.rid = k
  BY DEF acknowledge
<1>1. ASSUME NEW i \in Slots
      PROVE  sendout_package'[i] = IF Matches(i, k) THEN [sendout_package[i] EXCEPT !.time = 0]
                                                    ELSE sendout_package[i]
  BY DEF acknowledge
<1>2. ASSUME NEW i \in Slots
      PROVE  /\ sendout_package'[i].rid = sendout_package[i].rid
             /\ sendout_package[i].rid # k => sendout_package'[i] = sendout_package[i]
             /\ sendout_package[i].rid = k => sendout_package'[i].time = 0
  <2>1. sendout_package[i] \in Packages
    BY SlotFacts
  <2>2. CASE sendout_package[i].rid = k
    BY <1>1, <2>1, <2>2, MatchIsOwn DEF Packages
  <2>3. CASE sendout_package[i].rid # k
    BY <1>1, <2>3 DEF Matches
  <2> QED
    BY <2>2, <2>3
<1>3. CASE m # k
  BY <1>0, <1>2, <1>3, Unmoved
<1>4. CASE m = k
  <2>1. k <= issued /\ issued' = issued
    BY <1>0 DEF IInv, AirIsIssued
  <2>2. phase'[m] = "over" /\ left'[m] = 0
    BY <1>2, <1>4, <2>1 DEF MessageFacts
  <2>3. phase[m] \in {"sending", "over"}
    <3>1. CASE \E i \in Slots : sendout_package[i].rid = m /\ sendout_package[i].time # 0
      <4>1. PICK i \in Slots : sendout_package[i].rid = m /\ sendout_package[i].time # 0
        BY <3>1
      <4>2. ~ (sendout_package[i].time < 0)
        BY <1>0, <1>4, <4>1 DEF IInv, SlotsTally
      <4>3. sendout_package[i].time > 0
        BY <4>1, <4>2, SlotFacts DEF Packages
      <4> QED
        BY <4>1, <4>3 DEF MessageFacts
    <3>2. CASE \A i \in Slots : sendout_package[i].rid = m => sendout_package[i].time = 0
      BY <1>4, <2>1, <3>2 DEF MessageFacts
    <3> QED
      BY <3>1, <3>2
  <2>4. receiver'[m] = receiver[m]
    BY <1>0, SameReceiver
  <2> QED
    BY <1>0, <1>4, <2>2, <2>3, <2>4 DEF Delivery!Acknowledge
<1> QED
  BY <1>3, <1>4

\* Changes of routes and names change nothing in EmsDelivery.
LEMMA OthersDeliver ==
  ASSUME IInv, MessageFacts, MessageFacts', NEW m \in Messages,
         \/ \E i \in Slots, len \in Lengths : Refuse(i, len)
         \/ \E uid \in Peers, r \in {"none", "direct", "via"} : ChangeRoute(uid, r)
         \/ \E name \in Names, uid \in Peers \cup {NoUid} : ChangeName(name, uid)
         \/ UNCHANGED vars
  PROVE  Delivery!Rest(m)
<1>1. UNCHANGED <<issued, air, tries, acked>>
  BY DEF Refuse, ChangeRoute, ChangeName, vars
<1>2. CASE \E i \in Slots, len \in Lengths : Refuse(i, len)
  <2>1. PICK i \in Slots, len \in Lengths : Refuse(i, len)
    BY <1>2
  <2>2. sendout_package' = [sendout_package EXCEPT ![i].size = PACKAGE + IDENTIFIED + len]
    BY <2>1 DEF Refuse
  <2>3. ASSUME NEW j \in Slots
        PROVE  /\ sendout_package'[j].rid = sendout_package[j].rid
               /\ sendout_package'[j].time = sendout_package[j].time
    BY <2>2, SlotFacts DEF Packages, IInv, TypeOK
  <2> QED
    BY <1>1, <2>3, Unmoved
<1>3. CASE UNCHANGED sendout_package
  BY <1>1, <1>3, Unmoved
<1> QED
  BY <1>2, <1>3 DEF ChangeRoute, ChangeName, vars

\* The initial state maps to an initial one.
LEMMA DeliveryInit == Init => Delivery!Init
<1> SUFFICES ASSUME Init PROVE Delivery!Init
  OBVIOUS
<1>1. \A m \in Messages : m > issued
  BY SendOutAssumption DEF Init, Messages
<1>2. \A m \in Messages : Waits(m) = {}
  BY DEF Init, Waits
<1>3. phase = [m \in Messages |-> "new"]
  BY <1>1 DEF phase
<1>4. left = [m \in Messages |-> 0]
  BY <1>2 DEF left
<1>5. receiver = [m \in Messages |-> NoUid]
  BY DEF Init, receiver
<1> QED
  BY <1>3, <1>4, <1>5 DEF Init, Delivery!Init

\* Every step maps to a step or to a stutter.
LEMMA DeliveryStep == IInv /\ IInv' /\ [Next]_vars => [Delivery!Next]_(Delivery!vars)
<1> SUFFICES ASSUME IInv, IInv', [Next]_vars, NEW m \in Messages
             PROVE  \/ Delivery!Wait(m) \/ Delivery!Start(m) \/ Delivery!Second(m)
                    \/ Delivery!Acknowledge(m) \/ Delivery!Rest(m)
  BY DEF Delivery!Next
<1>1. MessageFacts /\ MessageFacts'
  BY Mapping, MappingNext
<1>2. CASE check_send_out
  BY <1>1, <1>2, SecondDelivers
<1>3. CASE \E i \in Slots, name \in Names, len \in Lengths, flex \in Random :
             send_out_by_name(i, name, len, flex)
  BY <1>1, <1>3, SubmitDelivers
<1>4. CASE \E k \in Messages : acknowledge(k)
  BY <1>1, <1>4, AcknowledgeDelivers
<1>5. CASE \/ \E i \in Slots, len \in Lengths : Refuse(i, len)
           \/ \E uid \in Peers, r \in {"none", "direct", "via"} : ChangeRoute(uid, r)
           \/ \E name \in Names, uid \in Peers \cup {NoUid} : ChangeName(name, uid)
           \/ UNCHANGED vars
  BY <1>1, <1>5, OthersDeliver
<1> QED
  BY <1>2, <1>3, <1>4, <1>5 DEF Next

\* Every message send_out_by_name accepts lives the life of EmsDelivery: it is
\* kept its full time, goes to one receiver, is transmitted no more than
\* SENDING_ATTEMPTS + 1 times and never once acknowledged.
THEOREM SendOutImplementsDelivery == Spec => ImplementsDelivery
BY Invariant, DeliveryInit, DeliveryStep, PTL DEF Spec, Delivery!Spec, ImplementsDelivery

-----------------------------------------------------------------------------
(* The flexible parts.  A message's next rid is as many increments ahead   *)
(* of each of its earlier ones as transmissions lie between, and there are *)
(* fewer transmissions than flexible parts.                                *)

\* The increments that lead from one flexible part to another.
Ahead(f, g) == IF f <= g THEN g - f ELSE g - f + FLEX

AirOf(m) == {a \in air : a.rid = m}

\* The transmissions of a message differ, and the rid in its slot is fewer
\* increments ahead of each than there are transmissions.
Tallied ==
  /\ \A m \in Messages : IsFiniteSet(AirOf(m)) /\ Cardinality(AirOf(m)) = tries[m]
  /\ \A i \in Slots :
       LET p == sendout_package[i]
       IN  p.time > 0 => \A a \in air : a.rid = p.rid => Ahead(a.flex, p.flex) < tries[p.rid]

\* An increment leads away from every flexible part not yet a round behind.
LEMMA AheadOfInc ==
  ASSUME NEW f \in Flexes, NEW g \in Flexes, Ahead(f, g) + 1 < FLEX
  PROVE  LET h == (g + 1) % FLEX IN h # f /\ Ahead(f, h) = Ahead(f, g) + 1
<1>1. FLEX \in Nat /\ f \in 0 .. FLEX - 1 /\ g \in 0 .. FLEX - 1
  BY SendOutAssumption DEF Flexes
<1>2. CASE g + 1 < FLEX
  <2>1. (g + 1) % FLEX = g + 1
    BY <1>1, <1>2
  <2> QED
    BY <1>1, <1>2, <2>1 DEF Ahead
<1>3. CASE g + 1 = FLEX
  <2>1. (g + 1) % FLEX = 0
    BY <1>1, <1>3
  <2> QED
    BY <1>1, <1>3, <2>1 DEF Ahead
<1> QED
  BY <1>1, <1>2, <1>3

\* A repetition increments the rid of a slot, and nothing else changes it
\* (check_send_out).
LEMMA SecondFlex ==
  ASSUME IInv, NEW i \in Slots
  PROVE  LET p == sendout_package[i]
         IN  Second(p).flex = IF p.time > 0 /\ Transmits(p) THEN (p.flex + 1) % FLEX ELSE p.flex
<1> DEFINE p == sendout_package[i]
           q == Second(p)
<1>0. /\ p \in Packages /\ p.time \in -128 .. 127 /\ (p.time # 0 => p.size >= Grown(p))
      /\ (p.time > 0 => p.to \in Peers) /\ (p.time < 0 => p.to \in Names)
  BY SlotFacts DEF Packages
<1> HIDE DEF p
<1>1. CASE Solves(p)
  <2>1. p.time < 0 /\ find_table_by_name(p.to) \in Peers
    BY <1>0, <1>1, NameType DEF Solves, Unsolved, IInv
  <2>2. q = First(p, find_table_by_name(p.to))
    BY <1>1 DEF Second
  <2>3. q.flex = p.flex
    BY <1>0, <2>1, <2>2, FirstType
  <2> QED
    BY <1>0, <2>1, <2>3 DEF p
<1>2. CASE ~ Solves(p) /\ Unsolved(p)
  <2>1. q = [p EXCEPT !.time = p.time + 1] /\ p.time < 0
    BY <1>2 DEF Second, Unsolved
  <2>2. q.flex = p.flex
    BY <1>0, <2>1 DEF Packages
  <2> QED
    BY <1>0, <2>1, <2>2 DEF p
<1>3. CASE ~ Unsolved(p) /\ Repeats(p)
  <2> DEFINE t == p.time - 1
             r == [p EXCEPT !.time = t]
  <2>1. q = send_package_by_table(RID_INC(r), p.to)
    BY <1>3 DEF Second, Solves
  <2>2. p.time > 0 /\ t \in -128 .. 127
    BY <1>0, <1>3 DEF Repeats, IsDue, Unacked
  <2> HIDE DEF t
  <2>3. r \in Packages /\ r.size = p.size /\ r.kind = p.kind /\ r.flex = p.flex
    BY <1>0, <2>2 DEF Packages
  <2> HIDE DEF r
  <2> DEFINE u == RID_INC(r)
  <2>4. u \in Packages /\ u.size = p.size /\ u.kind = p.kind
    BY <2>3, IncType
  <2>5. u.flex = (p.flex + 1) % FLEX
    BY <2>3 DEF RID_INC, Packages
  <2> HIDE DEF u
  <2>6. q = send_package_by_table(u, p.to) /\ u.size >= Grown(u) /\ p.to \in Peers
    BY <1>0, <2>1, <2>2, <2>4 DEF u, Grown
  <2>7. q.flex = u.flex
    BY <2>4, <2>6, SendType
  <2>8. Transmits(p)
    BY <1>3 DEF Transmits
  <2> QED
    BY <2>2, <2>5, <2>7, <2>8 DEF p
<1>4. CASE ~ Unsolved(p) /\ ~ Repeats(p) /\ Unacked(p)
  <2>1. q = [p EXCEPT !.time = p.time - 1] /\ ~ Transmits(p)
    BY <1>4 DEF Second, Solves, Transmits
  <2>2. q.flex = p.flex
    BY <1>0, <2>1 DEF Packages
  <2> QED
    BY <2>1, <2>2 DEF p
<1>5. CASE ~ Unsolved(p) /\ ~ Unacked(p)
  BY <1>5 DEF Second, Transmits, Solves, Repeats, IsDue, p
<1> QED
  BY <1>1, <1>2, <1>3, <1>4, <1>5

\* A second keeps the transmissions different (check_send_out).
LEMMA SecondTallies ==
  ASSUME IInv, IInv', Tallied, check_send_out
  PROVE  Tallied'
<1> DEFINE P(i) == sendout_package[i]
           Q(i) == sendout_package'[i]
           Record(i) == [rid |-> Q(i).rid, flex |-> Q(i).flex, uid |-> Q(i).to]
<1>1. ASSUME NEW i \in Slots
      PROVE  /\ P(i) \in Packages /\ P(i).time \in Int /\ P(i).flex \in Flexes
             /\ Q(i).rid = P(i).rid /\ SlotMoves(P(i), Q(i))
             /\ Q(i).flex = IF P(i).time > 0 /\ Transmits(P(i)) THEN (P(i).flex + 1) % FLEX
                                                              ELSE P(i).flex
  <2>1. Q(i) = Second(P(i))
    BY DEF check_send_out
  <2> QED
    BY <2>1, SecondStep, SecondFlex, SlotFacts DEF Packages
<1>2. air' = air \cup {Record(i) : i \in {j \in Slots : Transmits(P(j))}}
  <2>1. \A i \in Slots : Q(i) = Second(P(i))
    BY DEF check_send_out
  <2> QED
    BY <2>1 DEF check_send_out
<1>3. /\ tries \in [Messages -> 0 .. SENDING_ATTEMPTS + 1]
      /\ tries' \in [Messages -> 0 .. SENDING_ATTEMPTS + 1]
      /\ SENDING_ATTEMPTS \in Nat /\ FLEX \in Nat /\ SENDING_ATTEMPTS < FLEX
  BY SendOutAssumption DEF IInv, TypeOK
<1>4. \A a \in air : a.flex \in Flexes /\ a.rid \in Messages
  BY DEF IInv, TypeOK
\* A transmission has a rid its message never had, ahead of those it had.
<1>5. ASSUME NEW i \in Slots, Transmits(P(i))
      PROVE  /\ P(i).rid \in Messages /\ tries'[P(i).rid] = tries[P(i).rid] + 1
             /\ \A a \in air : a.rid = P(i).rid =>
                  a.flex # Q(i).flex /\ Ahead(a.flex, Q(i).flex) < tries'[P(i).rid]
  <2>1. P(i).rid \in Messages /\ tries'[P(i).rid] = tries[P(i).rid] + 1
    BY <1>5, SecondStep
  <2>2. CASE P(i).time > 0
    <3> SUFFICES ASSUME NEW a \in air, a.rid = P(i).rid
                 PROVE  a.flex # Q(i).flex /\ Ahead(a.flex, Q(i).flex) < tries'[P(i).rid]
      BY <2>1
    <3>1. Ahead(a.flex, P(i).flex) < tries[P(i).rid]
      BY <2>2 DEF Tallied
    <3>2. Ahead(a.flex, P(i).flex) \in Int /\ tries[P(i).rid] \in Nat
          /\ tries[P(i).rid] <= SENDING_ATTEMPTS
      <4>1. a.flex \in Int /\ P(i).flex \in Int
        BY <1>1, <1>3, <1>4 DEF Flexes
      <4>2. Ahead(a.flex, P(i).flex) \in Int
        BY <4>1, <1>3 DEF Ahead
      <4>3. tries'[P(i).rid] \in 0 .. SENDING_ATTEMPTS + 1 /\ tries[P(i).rid] \in 0 .. SENDING_ATTEMPTS + 1
        BY <1>3, <2>1
      <4> QED
        BY <4>2, <4>3, <2>1, <1>3
    <3>3. Ahead(a.flex, P(i).flex) + 1 < FLEX
      BY <3>1, <3>2, <1>3
    <3>4. Q(i).flex = (P(i).flex + 1) % FLEX
      BY <1>1, <1>5, <2>2
    <3>5. Q(i).flex # a.flex /\ Ahead(a.flex, Q(i).flex) = Ahead(a.flex, P(i).flex) + 1
      BY <1>1, <1>4, <3>3, <3>4, AheadOfInc
    <3> QED
      BY <2>1, <3>1, <3>2, <3>5
  <2>3. CASE ~ (P(i).time > 0)
    <3>1. P(i).time < 0
      BY <1>1, <1>5, <2>3 DEF SlotMoves, Solved, Asked, Repeated, Waited, Idle
    <3>2. \A a \in air : a.rid # P(i).rid
      BY <3>1 DEF IInv, SlotsTally
    <3> QED
      BY <2>1, <3>2
  <2> QED
    BY <2>2, <2>3
<1>6. ASSUME NEW i \in Slots, NEW j \in Slots, P(i).rid = P(j).rid, P(i).rid \in Messages
      PROVE  i = j
  <2>1. P(i).rid # 0
    BY <1>6 DEF Messages
  <2> QED
    BY <1>6, <2>1 DEF IInv, RidsAreOwn
<1>7. ASSUME NEW m \in Messages
      PROVE  IsFiniteSet(AirOf(m)') /\ Cardinality(AirOf(m)') = tries'[m]
  <2>0. IsFiniteSet(AirOf(m)) /\ Cardinality(AirOf(m)) = tries[m]
    BY DEF Tallied
  <2>1. CASE \E i \in Slots : Transmits(P(i)) /\ P(i).rid = m
    <3>1. PICK i \in Slots : Transmits(P(i)) /\ P(i).rid = m
      BY <2>1
    <3>2. AirOf(m)' = AirOf(m) \cup {Record(i)}
      <4>1. \A j \in Slots : Transmits(P(j)) /\ Record(j).rid = m => j = i
        BY <1>1, <1>6, <3>1
      <4>2. Record(i).rid = m
        BY <1>1, <3>1
      <4> QED
        BY <1>2, <3>1, <4>1, <4>2 DEF AirOf
    <3>3. Record(i) \notin AirOf(m)
      BY <1>5, <3>1 DEF AirOf
    <3> DEFINE x == Record(i)
    <3> HIDE DEF x
    <3>4. Cardinality(AirOf(m) \cup {x}) = tries[m] + 1 /\ IsFiniteSet(AirOf(m) \cup {x})
      BY <2>0, <3>3, FS_AddElement DEF x
    <3> QED
      BY <1>5, <3>1, <3>2, <3>4 DEF x
  <2>2. CASE ~ \E i \in Slots : Transmits(P(i)) /\ P(i).rid = m
    <3>1. AirOf(m)' = AirOf(m)
      BY <1>1, <1>2, <2>2 DEF AirOf
    <3>2. tries'[m] = tries[m]
      BY <2>2, SecondStep
    <3> QED
      BY <2>0, <3>1, <3>2
  <2> QED
    BY <2>1, <2>2
<1>8. ASSUME NEW i \in Slots, Q(i).time > 0, NEW a \in air', a.rid = Q(i).rid
      PROVE  Ahead(a.flex, Q(i).flex) < tries'[Q(i).rid]
  <2>1. P(i).time # 0 /\ P(i).rid \in Messages /\ Q(i).rid = P(i).rid
    <3>1. P(i).time # 0
      BY <1>1, <1>8 DEF SlotMoves, Solved, Asked, Repeated, Waited, Idle
    <3> QED
      BY <1>1, <3>1, SlotFacts
  <2>2. CASE Transmits(P(i))
    <3>1. CASE a \in air
      BY <1>5, <1>8, <2>1, <2>2, <3>1
    <3>2. CASE a \notin air
      <4>1. a = Record(i)
        BY <1>1, <1>2, <1>6, <1>8, <2>1, <3>2
      <4>2. a.flex = Q(i).flex /\ Q(i).flex \in Int
        <5>1. Q(i) \in Packages
          BY SecondStep
        <5> QED
          BY <4>1, <5>1, <1>3 DEF Packages, Flexes
      <4>3. Ahead(a.flex, Q(i).flex) = 0
        BY <4>2 DEF Ahead
      <4>4. tries'[P(i).rid] > 0
        BY <1>3, <1>5, <2>2
      <4> QED
        BY <4>3, <4>4, <2>1
    <3> QED
      BY <3>1, <3>2
  <2>3. CASE ~ Transmits(P(i))
    <3>1. P(i).time > 0
      <4>1. Q(i).time \in Int /\ ~ Solved(P(i), Q(i)) /\ ~ Repeated(P(i), Q(i))
        BY <2>3, SecondStep DEF Solved, Repeated, Packages
      <4>2. ~ Asked(P(i), Q(i))
        BY <1>1, <1>8 DEF Asked
      <4> QED
        BY <4>1, <4>2, <1>1, <1>8, <2>1 DEF SlotMoves, Waited, Idle
    <3>2. Q(i).flex = P(i).flex /\ tries'[P(i).rid] = tries[P(i).rid]
      BY <1>1, <2>1, <2>3, SecondStep
    <3>3. a \in air
      BY <1>1, <1>2, <1>6, <1>8, <2>1, <2>3
    <3>4. Ahead(a.flex, P(i).flex) < tries[P(i).rid]
      BY <1>8, <2>1, <3>1, <3>3 DEF Tallied
    <3> QED
      BY <2>1, <3>2, <3>4
  <2> QED
    BY <2>2, <2>3
<1> QED
  BY <1>7, <1>8 DEF Tallied

\* A message accepted has no transmission yet, or one (send_out_by_name).
LEMMA SubmitTallies ==
  ASSUME IInv, Tallied, NEW i \in Slots, NEW name \in Names, NEW len \in Lengths, NEW flex \in Random,
         send_out_by_name(i, name, len, flex)
  PROVE  Tallied'
<1> DEFINE P(j) == sendout_package[j]
           Q(j) == sendout_package'[j]
           m == issued + 1
           x == [rid |-> m, flex |-> flex, uid |-> Q(i).to]
<1>1. /\ m \in Messages /\ issued \in Nat /\ Q(i) \in Packages /\ Q(i).rid = m
      /\ sendout_package' = [sendout_package EXCEPT ![i] = Q(i)]
  BY SubmitStep
<1>2. \/ /\ Q(i).time = 0 - Solving /\ air' = air /\ tries' = tries
      \/ /\ air' = air \cup {x} /\ tries' = [tries EXCEPT ![m] = 1]
  BY SubmitStep
<1>3. \A a \in air : a.rid # m
  <2>1. \A a \in air : a.rid \in Nat /\ a.rid <= issued
    BY DEF IInv, TypeOK, AirIsIssued, Messages
  <2> QED
    BY <1>1, <2>1
<1>4. AirOf(m) = {} /\ IsFiniteSet({}) /\ Cardinality({}) = 0
  BY <1>3, FS_EmptySet DEF AirOf
<1>5. tries \in [Messages -> 0 .. SENDING_ATTEMPTS + 1]
  BY DEF IInv, TypeOK
<1>6. ASSUME NEW j \in Slots, P(j).time > 0 PROVE P(j).rid \in Messages /\ P(j).rid # m
  <2>1. P(j).rid \in Messages
    BY <1>6, SlotFacts
  <2>2. P(j).rid <= issued
    BY DEF IInv, RidsAreOwn
  <2> QED
    BY <1>1, <2>1, <2>2 DEF Messages
\* The first transmission made at once has the rid in the slot.
<1>7. Q(i).flex = flex /\ flex \in Int
  <2> DEFINE made == [to |-> name, time |-> 0 - TIME_TO_SOLVE * SOLVING_ATTEMPTS,
                      size |-> PACKAGE + IDENTIFIED + len, rid |-> issued + 1, flex |-> flex,
                      kind |-> "plain"]
             uid == find_table_by_name(name)
  <2>1. sendout_package \in [Slots -> Packages] /\ flex \in Flexes
    BY SendOutAssumption DEF IInv, TypeOK, Flexes
  <2>2. Q(i) = IF uid = NoUid THEN made ELSE First(made, uid)
    BY <2>1 DEF send_out_by_name
  <2>3. made \in Packages /\ made.size >= Grown(made) /\ made.flex = flex
    <3>1. PACKAGE + IDENTIFIED + len \in Nat /\ 0 - TIME_TO_SOLVE * SOLVING_ATTEMPTS \in -128 .. 127
          /\ issued + 1 \in Rids
      BY <1>1, Times, SendOutAssumption DEF Solving, Rids, Messages
    <3> DEFINE n == PACKAGE + IDENTIFIED + len
               t == 0 - TIME_TO_SOLVE * SOLVING_ATTEMPTS
               k == issued + 1
    <3>2. made = [to |-> name, time |-> t, size |-> n, rid |-> k, flex |-> flex, kind |-> "plain"]
      OBVIOUS
    <3>3. n \in Nat /\ t \in -128 .. 127 /\ k \in Rids
      BY <3>1
    <3> HIDE DEF n, t, k
    <3> QED
      BY <2>1, <3>2, <3>3 DEF Packages, Grown
  <2> HIDE DEF made
  <2>4. CASE uid = NoUid
    BY <2>1, <2>2, <2>3, <2>4, SendOutAssumption DEF Flexes
  <2>5. CASE uid # NoUid
    <3>1. uid \in Peers
      BY <2>5, NameType DEF IInv
    <3>2. First(made, uid).flex = made.flex
      BY <3>1, <2>3, FirstType
    <3> QED
      BY <2>1, <2>2, <2>3, <2>5, <3>2, SendOutAssumption DEF Flexes
  <2> QED
    BY <2>4, <2>5
<1>8. ASSUME NEW k \in Messages
      PROVE  IsFiniteSet(AirOf(k)') /\ Cardinality(AirOf(k)') = tries'[k]
  <2>1. IsFiniteSet(AirOf(k)) /\ Cardinality(AirOf(k)) = tries[k]
    BY DEF Tallied
  <2>2. CASE air' = air /\ tries' = tries
    BY <2>1, <2>2 DEF AirOf
  <2>3. CASE air' = air \cup {x} /\ tries' = [tries EXCEPT ![m] = 1]
    <3>1. CASE k = m
      <4>1. AirOf(k)' = {x}
        BY <1>3, <2>3, <3>1 DEF AirOf
      <4>2. IsFiniteSet({x}) /\ Cardinality({x}) = 1
        BY FS_Singleton
      <4>3. tries'[k] = 1
        BY <1>1, <1>5, <2>3, <3>1
      <4> QED
        BY <4>1, <4>2, <4>3
    <3>2. CASE k # m
      <4>1. AirOf(k)' = AirOf(k) /\ tries'[k] = tries[k]
        BY <1>1, <1>5, <2>3, <3>2 DEF AirOf
      <4> QED
        BY <2>1, <4>1
    <3> QED
      BY <3>1, <3>2
  <2> QED
    BY <1>2, <2>2, <2>3
<1>9. ASSUME NEW j \in Slots, Q(j).time > 0, NEW a \in air', a.rid = Q(j).rid
      PROVE  Ahead(a.flex, Q(j).flex) < tries'[Q(j).rid]
  <2>1. CASE j = i
    <3>1. ~ (Q(i).time = 0 - Solving)
      BY <1>9, <2>1, Times
    <3>2. air' = air \cup {x} /\ tries' = [tries EXCEPT ![m] = 1]
      BY <1>2, <3>1
    <3>3. a = x /\ tries'[m] = 1
      BY <1>1, <1>3, <1>5, <1>9, <2>1, <3>2
    <3>4. Ahead(flex, flex) = 0
      BY <1>7 DEF Ahead
    <3> QED
      BY <1>1, <1>7, <2>1, <3>3, <3>4
  <2>2. CASE j # i
    <3>1. Q(j) = P(j)
      BY <1>1, <2>2 DEF IInv, TypeOK
    <3>2. P(j).rid \in Messages /\ P(j).rid # m
      BY <1>6, <1>9, <3>1
    <3>3. a \in air /\ tries'[P(j).rid] = tries[P(j).rid]
      BY <1>1, <1>2, <1>5, <1>9, <3>1, <3>2
    <3> QED
      BY <1>9, <3>1, <3>3 DEF Tallied
  <2> QED
    BY <2>1, <2>2
<1> QED
  BY <1>8, <1>9 DEF Tallied

\* The other actions transmit nothing and change no rid that waits.
LEMMA OthersTally ==
  ASSUME IInv, Tallied,
         \/ \E i \in Slots, len \in Lengths : Refuse(i, len)
         \/ \E m \in Messages : acknowledge(m)
         \/ \E uid \in Peers, r \in {"none", "direct", "via"} : ChangeRoute(uid, r)
         \/ \E name \in Names, uid \in Peers \cup {NoUid} : ChangeName(name, uid)
         \/ UNCHANGED vars
  PROVE  Tallied'
<1>1. sendout_package \in [Slots -> Packages]
  BY DEF IInv, TypeOK
<1>2. air' = air /\ tries' = tries
  BY DEF Refuse, acknowledge, ChangeRoute, ChangeName, vars
<1>3. ASSUME NEW i \in Slots, sendout_package'[i].time > 0
      PROVE  sendout_package'[i] = sendout_package[i]
  <2>1. CASE \E k \in Slots, len \in Lengths : Refuse(k, len)
    <3>1. PICK k \in Slots, len \in Lengths : Refuse(k, len)
      BY <2>1
    <3>2. sendout_package' = [sendout_package EXCEPT
            ![k] = [sendout_package[k] EXCEPT !.size = PACKAGE + IDENTIFIED + len]]
      BY <1>1, <3>1 DEF Refuse
    <3>3. sendout_package[k].time = 0
      BY <3>1 DEF Refuse, Free
    <3>4. [sendout_package[k] EXCEPT !.size = PACKAGE + IDENTIFIED + len].time = 0
      BY <1>1, <3>3 DEF Packages
    <3> QED
      BY <1>1, <1>3, <3>2, <3>4
  <2>2. CASE \E m \in Messages : acknowledge(m)
    <3>1. PICK m \in Messages : acknowledge(m)
      BY <2>2
    <3>2. [sendout_package[i] EXCEPT !.time = 0].time = 0
      BY <1>1 DEF Packages
    <3> QED
      BY <1>3, <3>1, <3>2 DEF acknowledge
  <2>3. CASE sendout_package' = sendout_package
    BY <2>3
  <2> QED
    BY <2>1, <2>2, <2>3 DEF ChangeRoute, ChangeName, vars
<1> QED
  BY <1>2, <1>3 DEF Tallied, AirOf

\* So the transmissions differ in every state.
LEMMA TalliedInvariant == Spec => []Tallied
<1>1. Init => Tallied
  <2> SUFFICES ASSUME Init PROVE Tallied
    OBVIOUS
  <2>1. \A m \in Messages : AirOf(m) = {} /\ tries[m] = 0
    BY DEF Init, AirOf
  <2>2. \A i \in Slots : sendout_package[i].time = 0
    BY DEF Init
  <2> QED
    BY <2>1, <2>2, FS_EmptySet DEF Tallied
<1>2. IInv /\ IInv' /\ Tallied /\ [Next]_vars => Tallied'
  <2> SUFFICES ASSUME IInv, IInv', Tallied, [Next]_vars PROVE Tallied'
    OBVIOUS
  <2>1. CASE check_send_out
    BY <2>1, SecondTallies
  <2>2. CASE \E i \in Slots, name \in Names, len \in Lengths, flex \in Random :
               send_out_by_name(i, name, len, flex)
    BY <2>2, SubmitTallies
  <2>3. CASE \/ \E i \in Slots, len \in Lengths : Refuse(i, len)
             \/ \E m \in Messages : acknowledge(m)
             \/ \E uid \in Peers, r \in {"none", "direct", "via"} : ChangeRoute(uid, r)
             \/ \E name \in Names, uid \in Peers \cup {NoUid} : ChangeName(name, uid)
             \/ UNCHANGED vars
    BY <2>3, OthersTally
  <2> QED
    BY <2>1, <2>2, <2>3 DEF Next
<1> QED
  BY <1>1, <1>2, Invariant, PTL DEF Spec

\* No two transmissions of a message have the same rid, though its flexible
\* part wraps around: RID_INC makes a new one each time (sendout.c).
THEOREM TransmissionsDo == Spec => []TransmissionsDiffer
<1>1. Tallied => TransmissionsDiffer
  BY DEF Tallied, TransmissionsDiffer, AirOf
<1> QED
  BY <1>1, TalliedInvariant, PTL
=============================================================================
