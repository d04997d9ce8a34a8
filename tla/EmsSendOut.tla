----------------------------- MODULE EmsSendOut -----------------------------
(***************************************************************************)
(* The messages an EMS node sends until they are acknowledged (sendout.c). *)
(* A message lives in a slot of sendout_package.  The sign of the slot's   *)
(* time says what it waits for and what its union holds:                   *)
(*    time < 0   the name of the receiver, whose uid is looked for;        *)
(*    time > 0   the uid of the receiver, an acknowledgement is due;       *)
(*    time = 0   nothing: the slot is free.                                *)
(*                                                                         *)
(* The routes and the names are those of EmsRoutes, seen from here: a uid  *)
(* has no route, is a neighbour or is reached through one, and a name      *)
(* belongs to a uid.  Both change at any time.  An acknowledgement of      *)
(* anything that was transmitted may come at any time, and more than once. *)
(***************************************************************************)
EXTENDS Integers, FiniteSets

CONSTANTS SENDOUT_QTY,          \* slots (2)
          SENDOUT_BUFFER_SIZE,  \* bytes of a slot's buffer (60)
          PACKAGE,              \* sizeof(package_t) (5)
          IDENTIFIED,           \* sizeof(identified_head_t) (16)
          INTERMEDIATE,         \* sizeof(intermediate_head_t) (16)
          TIME_TO_SOLVE, SOLVING_ATTEMPTS,    \* of me (1 and 20)
          TIME_TO_SEND, SENDING_ATTEMPTS,     \* of me (1 and 20)
          FLEX,                 \* values of the flexible part of a rid (256)
          Random,               \* those a new rid may have (all of them)
          Peers, Names,
          NoUid,
          Lengths,              \* lengths of the data given to send_out_by_name
          MESSAGES              \* bound: the messages accepted

ASSUME SendOutAssumption ==
  /\ SENDOUT_QTY \in Nat /\ SENDOUT_BUFFER_SIZE \in Nat
  /\ PACKAGE \in Nat /\ IDENTIFIED \in Nat /\ INTERMEDIATE \in Nat
  /\ TIME_TO_SOLVE \in Nat \ {0} /\ SOLVING_ATTEMPTS \in Nat \ {0}
  /\ TIME_TO_SEND \in Nat \ {0} /\ SENDING_ATTEMPTS \in Nat \ {0}
  /\ TIME_TO_SOLVE * SOLVING_ATTEMPTS \in 1 .. 128
  /\ TIME_TO_SEND * SENDING_ATTEMPTS \in 1 .. 127
  /\ FLEX \in Nat /\ SENDING_ATTEMPTS < FLEX
  /\ Random \subseteq 0 .. FLEX - 1
  /\ Peers \cap Names = {} /\ NoUid \notin Peers \cup Names
  /\ Lengths \subseteq Nat
  /\ MESSAGES \in Nat

VARIABLES
  sendout_package,  \* the slots
  route,            \* how a uid is reached: "none", "direct" or "via"
  named,            \* the uid a name belongs to, or NoUid
  issued,           \* the messages accepted so far: their numbers stand for
                    \* the fixed parts of their rids
  air,              \* history: what was transmitted, as [rid, flex, uid]
  tries,            \* history: how often each message was transmitted
  acked,            \* history: the messages acknowledged
  length            \* history: the length of each message's data

vars == <<sendout_package, route, named, issued, air, tries, acked, length>>

Slots == 0 .. SENDOUT_QTY - 1
Messages == 1 .. MESSAGES
Rids == 0 .. MESSAGES           \* 0 is the rid of a slot never used
Flexes == 0 .. FLEX - 1

Packages == [to : Peers \cup Names \cup {NoUid}, time : -128 .. 127, size : Nat,
             rid : Rids, flex : Flexes, kind : {"plain", "intermediate"}]

\* The slots with their count-downs in the int8_t's range, and what the world knows.
TypeOK ==
  /\ sendout_package \in [Slots -> Packages]
  /\ route \in [Peers -> {"none", "direct", "via"}]
  /\ named \in [Names -> Peers \cup {NoUid}]
  /\ issued \in Rids
  /\ air \subseteq [rid : Messages, flex : Flexes, uid : Peers]
  /\ tries \in [Messages -> 0 .. SENDING_ATTEMPTS + 1]
  /\ acked \subseteq Messages
  /\ length \in [Messages -> Lengths \cup {0}]

Init ==
  /\ sendout_package = [i \in Slots |-> [to |-> NoUid, time |-> 0, size |-> 0, rid |-> 0,
                                         flex |-> 0, kind |-> "plain"]]
  /\ route = [u \in Peers |-> "none"]
  /\ named = [n \in Names |-> NoUid]
  /\ issued = 0
  /\ air = {}
  /\ tries = [m \in Messages |-> 0]
  /\ acked = {}
  /\ length = [m \in Messages |-> 0]

-----------------------------------------------------------------------------
find_table_by_uid(uid) == route[uid] # "none"

\* The uid of the live route that bears the name.
find_table_by_name(name) ==
  IF named[name] # NoUid /\ find_table_by_uid(named[name]) THEN named[name] ELSE NoUid

\* Mutant: a second intermediate head is put before the first.
send_package_by_table_Again(p, uid) ==
  IF route[uid] = "direct"
  THEN IF p.kind = "plain" THEN p ELSE [p EXCEPT !.kind = "plain", !.size = @ - INTERMEDIATE]
  ELSE [p EXCEPT !.kind = "intermediate", !.size = @ + INTERMEDIATE]

\* send_package_by_table takes the intermediate head off a package for a
\* neighbour and puts one on any other.
send_package_by_table(p, uid) ==
  IF route[uid] = "direct" /\ p.kind = "intermediate"
  THEN [p EXCEPT !.kind = "plain", !.size = @ - INTERMEDIATE]
  ELSE IF route[uid] # "direct" /\ p.kind = "plain"
  THEN [p EXCEPT !.kind = "intermediate", !.size = @ + INTERMEDIATE]
  ELSE p

\* Mutants: the increment runs into the fixed part; it is forgotten.
RID_INC_Carry(p) == [p EXCEPT !.flex = @ + 1]
RID_INC_None(p) == p

RID_INC(p) == [p EXCEPT !.flex = (@ + 1) % FLEX]

\* Mutant: the name stays in the union.
First_KeepName(p, uid) ==
  send_package_by_table([p EXCEPT !.time = TIME_TO_SEND * SENDING_ATTEMPTS], uid)

\* The first transmission, to the uid that replaces the name in the union.
First(p, uid) ==
  send_package_by_table([p EXCEPT !.to = uid, !.time = TIME_TO_SEND * SENDING_ATTEMPTS], uid)

-----------------------------------------------------------------------------
\* What a second does to a slot of check_send_out, and whether it transmits its package.
Unsolved(p) == p.time < 0
Unacked(p) == p.time > 0

Solves(p) == Unsolved(p) /\ find_table_by_name(p.to) # NoUid
IsDue(p) == Unacked(p) /\ (p.time - 1) % TIME_TO_SEND = 0
Repeats(p) == IsDue(p) /\ find_table_by_uid(p.to)
Transmits(p) == Solves(p) \/ Repeats(p)

\* Mutant: no second is counted while there is no route.
Second_Hold(p) ==
  IF Solves(p) THEN First(p, find_table_by_name(p.to))
  ELSE IF Unsolved(p) THEN [p EXCEPT !.time = @ + 1]
  ELSE IF Repeats(p) THEN send_package_by_table(RID_INC([p EXCEPT !.time = @ - 1]), p.to)
  ELSE IF Unacked(p) /\ ~ IsDue(p) THEN [p EXCEPT !.time = @ - 1]
  ELSE p

Second(p) ==
  IF Solves(p) THEN First(p, find_table_by_name(p.to))
  ELSE IF Unsolved(p) THEN [p EXCEPT !.time = @ + 1]      \* and asks for the name
  ELSE IF Repeats(p) THEN send_package_by_table(RID_INC([p EXCEPT !.time = @ - 1]), p.to)
  ELSE IF Unacked(p) THEN [p EXCEPT !.time = @ - 1]       \* and asks for the uid
  ELSE p

check_send_out ==
  LET done == [i \in Slots |-> Second(sendout_package[i])]
      sent == {i \in Slots : Transmits(sendout_package[i])}
  IN  /\ sendout_package' = done
      /\ air' = air \cup {[rid |-> done[i].rid, flex |-> done[i].flex, uid |-> done[i].to] : i \in sent}
      /\ tries' = [m \in Messages |-> IF \E i \in sent : done[i].rid = m THEN tries[m] + 1
                                                                          ELSE tries[m]]
      /\ UNCHANGED <<route, named, issued, acked, length>>

\* Mutant: a slot whose name is unsolved is taken for a free one.
Free_Unsolved(i) ==
  sendout_package[i].time <= 0 /\ \A j \in 0 .. i - 1 : sendout_package[j].time > 0

\* send_out_by_name, from the commands send and command: the first free slot.
Free(i) == sendout_package[i].time = 0 /\ \A j \in 0 .. i - 1 : sendout_package[j].time # 0

Fits(len) == PACKAGE + IDENTIFIED + len + INTERMEDIATE <= SENDOUT_BUFFER_SIZE

\* Its package gets a random rid; flex is the flexible part of it.
send_out_by_name(i, name, len, flex) ==
  LET uid == find_table_by_name(name)
      made == [to |-> name, time |-> 0 - TIME_TO_SOLVE * SOLVING_ATTEMPTS,
               size |-> PACKAGE + IDENTIFIED + len, rid |-> issued + 1, flex |-> flex,
               kind |-> "plain"]
  IN  /\ Free(i) /\ Fits(len)
      /\ issued < MESSAGES
      /\ issued' = issued + 1
      /\ length' = [length EXCEPT ![issued'] = len]
      /\ IF uid = NoUid
         THEN /\ sendout_package' = [sendout_package EXCEPT ![i] = made]
              /\ UNCHANGED <<air, tries>>
         ELSE /\ sendout_package' = [sendout_package EXCEPT ![i] = First(made, uid)]
              /\ air' = air \cup {[rid |-> issued', flex |-> flex, uid |-> uid]}
              /\ tries' = [tries EXCEPT ![issued'] = 1]
      /\ UNCHANGED <<route, named, acked>>

\* Too much data: the slot keeps its time, but its size is written before
\* the data is refused.
Refuse(i, len) ==
  /\ Free(i) /\ ~ Fits(len)
  /\ sendout_package' = [sendout_package EXCEPT ![i].size = PACKAGE + IDENTIFIED + len]
  /\ UNCHANGED <<route, named, issued, air, tries, acked, length>>

\* acknowledge, from PACKAGE_ACK and PACKAGE_BROADCAST_ACK, of something
\* transmitted: the first slot with its rid is not asked whether it waits.
Matches(i, m) ==
  sendout_package[i].rid = m /\ \A j \in 0 .. i - 1 : sendout_package[j].rid # m

acknowledge(m) ==
  /\ \E a \in air : a.rid = m
  /\ sendout_package' = [i \in Slots |-> IF Matches(i, m)
                                        THEN [sendout_package[i] EXCEPT !.time = 0]
                                        ELSE sendout_package[i]]
  /\ acked' = acked \cup {m}
  /\ UNCHANGED <<route, named, issued, air, tries, length>>

\* The routes and names change.
ChangeRoute(uid, r) ==
  /\ route[uid] # r
  /\ route' = [route EXCEPT ![uid] = r]
  /\ UNCHANGED <<sendout_package, named, issued, air, tries, acked, length>>

ChangeName(name, uid) ==
  /\ named[name] # uid
  /\ named' = [named EXCEPT ![name] = uid]
  /\ UNCHANGED <<sendout_package, route, issued, air, tries, acked, length>>

Next ==
  \/ check_send_out
  \/ \E i \in Slots, name \in Names, len \in Lengths, flex \in Random :
       send_out_by_name(i, name, len, flex)
  \/ \E i \in Slots, len \in Lengths : Refuse(i, len)
  \/ \E m \in Messages : acknowledge(m)
  \/ \E uid \in Peers, r \in {"none", "direct", "via"} : ChangeRoute(uid, r)
  \/ \E name \in Names, uid \in Peers \cup {NoUid} : ChangeName(name, uid)

\* The timer of one second fires for ever.
Spec == Init /\ [][Next]_vars /\ WF_vars(check_send_out)

-----------------------------------------------------------------------------
\* The union of a slot holds what the sign of its time says.
UnionMatchesTime ==
  \A i \in Slots :
    LET p == sendout_package[i]
    IN  (p.time < 0 => p.to \in Names) /\ (p.time > 0 => p.to \in Peers)

\* The bytes of the intermediate head in a package.
Grown(p) == IF p.kind = "intermediate" THEN INTERMEDIATE ELSE 0

\* However often the route of a message changes between direct and via, its
\* package has its true size and room for an intermediate head.
PackagesFit ==
  \A i \in Slots :
    LET p == sendout_package[i]
    IN  p.time # 0 =>
          /\ p.size = PACKAGE + IDENTIFIED + length[p.rid] + Grown(p)
          /\ PACKAGE + IDENTIFIED + length[p.rid] + INTERMEDIATE <= SENDOUT_BUFFER_SIZE

\* No two transmissions have the same rid: a receiver that has missed one
\* never takes the next for a copy of it.
TransmissionsDiffer ==
  \A m \in Messages : Cardinality({a \in air : a.rid = m}) = tries[m]

\* The life of every message is the one EmsDelivery promises.
Waits(m) == {i \in Slots : sendout_package[i].rid = m /\ sendout_package[i].time # 0}

phase == [m \in Messages |->
            IF m > issued THEN "new"
            ELSE IF \E i \in Waits(m) : sendout_package[i].time < 0 THEN "resolving"
            ELSE IF Waits(m) # {} THEN "sending"
            ELSE "over"]

left == [m \in Messages |->
           IF Waits(m) = {} THEN 0
           ELSE LET time == sendout_package[CHOOSE i \in Waits(m) : TRUE].time
                IN  IF time < 0 THEN 0 - time ELSE time]

receiver == [m \in Messages |->
               IF \E a \in air : a.rid = m THEN (CHOOSE a \in air : a.rid = m).uid ELSE NoUid]

Delivery == INSTANCE EmsDelivery WITH
  MOST <- SENDING_ATTEMPTS + 1,
  Solving <- TIME_TO_SOLVE * SOLVING_ATTEMPTS,
  Sending <- TIME_TO_SEND * SENDING_ATTEMPTS

ImplementsDelivery == Delivery!Spec

\* Every slot becomes free again, whatever becomes of its message.
SlotsAreFreed == \A i \in Slots : sendout_package[i].time # 0 ~> sendout_package[i].time = 0
=============================================================================
