----------------------------- MODULE EmsExchange -----------------------------
(***************************************************************************)
(* What EMS promises about a message, seen from both ends: the receiver    *)
(* processes it only if it was sent, and once at most unless it forgets;   *)
(* the sender takes it for acknowledged only if the receiver has processed *)
(* it, and sends it no more from then on.  Nothing promises that a message *)
(* arrives.                                                                *)
(***************************************************************************)
EXTENDS Integers

CONSTANTS Messages,
          Once          \* those whose receiver does not forget

VARIABLES sent,         \* how often each message was transmitted
          processed,    \* how often each message was processed, up to 2
          acked         \* the messages acknowledged

vars == <<sent, processed, acked>>

Init ==
  /\ sent = [m \in Messages |-> 0]
  /\ processed = [m \in Messages |-> 0]
  /\ acked = {}

Send(m) ==
  /\ m \notin acked
  /\ sent' = [sent EXCEPT ![m] = @ + 1]
  /\ UNCHANGED <<processed, acked>>

Process(m) ==
  /\ sent[m] > 0
  /\ m \in Once => processed[m] = 0
  /\ processed' = [processed EXCEPT ![m] = IF @ = 0 THEN 1 ELSE 2]
  /\ UNCHANGED <<sent, acked>>

Acknowledge(m) ==
  /\ processed[m] > 0
  /\ acked' = acked \cup {m}
  /\ UNCHANGED <<sent, processed>>

Next == \E m \in Messages : Send(m) \/ Process(m) \/ Acknowledge(m)

Spec == Init /\ [][Next]_vars
=============================================================================
