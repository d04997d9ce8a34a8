----------------------------- MODULE EmsDelivery -----------------------------
(***************************************************************************)
(* What EMS promises about a message accepted by send_out_by_name, whatever*)
(* happens to the routes, the names and the other messages: it waits a     *)
(* fixed time for the uid of its receiver and then a fixed time for an     *)
(* acknowledgement, is not given up before, goes to that one receiver, is  *)
(* transmitted no more than MOST times and never once acknowledged.        *)
(*                                                                         *)
(* The messages are independent: a step may move any number of them.       *)
(***************************************************************************)
EXTENDS Integers

CONSTANTS Messages, Peers, NoUid,
          MOST,               \* transmissions at most
          Solving, Sending    \* seconds to wait for a uid, for an acknowledgement

VARIABLES phase,      \* of each message
          left,       \* the seconds it still waits in that phase
          tries,      \* its transmissions so far
          receiver,   \* the uid its name stood for when it was first sent
          acked       \* the messages acknowledged

vars == <<phase, left, tries, receiver, acked>>

Init ==
  /\ phase = [m \in Messages |-> "new"]
  /\ left = [m \in Messages |-> 0]
  /\ tries = [m \in Messages |-> 0]
  /\ receiver = [m \in Messages |-> NoUid]
  /\ acked = {}

\* Accepted, but nobody of that name is known.
Wait(m) ==
  /\ phase[m] = "new" /\ phase'[m] = "resolving" /\ left'[m] = Solving
  /\ tries'[m] = tries[m] /\ receiver'[m] = receiver[m]
  /\ m \notin acked'

\* The first transmission, to the node of that name.
Start(m) ==
  /\ phase[m] \in {"new", "resolving"} /\ phase'[m] = "sending" /\ left'[m] = Sending
  /\ tries[m] = 0 /\ tries'[m] = 1 /\ receiver'[m] \in Peers
  /\ m \notin acked'

\* A second passes; the message may be transmitted again, to the same node.
Second(m) ==
  /\ phase[m] \in {"resolving", "sending"}
  /\ left'[m] = left[m] - 1
  /\ phase'[m] = IF left'[m] = 0 THEN "over" ELSE phase[m]
  /\ \/ tries'[m] = tries[m]
     \/ phase[m] = "sending" /\ tries'[m] = tries[m] + 1 /\ tries'[m] <= MOST
  /\ receiver'[m] = receiver[m]
  /\ m \notin acked'

\* Acknowledged, in time or late.
Acknowledge(m) ==
  /\ phase[m] \in {"sending", "over"} /\ phase'[m] = "over" /\ left'[m] = 0
  /\ tries'[m] = tries[m] /\ receiver'[m] = receiver[m]
  /\ m \in acked'

Rest(m) ==
  /\ phase'[m] = phase[m] /\ left'[m] = left[m]
  /\ tries'[m] = tries[m] /\ receiver'[m] = receiver[m]
  /\ m \in acked' <=> m \in acked

Next == \A m \in Messages :
          Wait(m) \/ Start(m) \/ Second(m) \/ Acknowledge(m) \/ Rest(m)

Spec == Init /\ [][Next]_vars
=============================================================================
