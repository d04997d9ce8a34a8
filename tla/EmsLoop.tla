------------------------------- MODULE EmsLoop -------------------------------
(***************************************************************************)
(* The main loop of an EMS node (ems.c) under Contiki's event timers.      *)
(* When the time of a timer is up, the timer process posts an event to     *)
(* ems_process and only then marks the timer expired; until the loop has   *)
(* restarted it, it posts no other.  Whatever wakes the loop, it serves    *)
(* one thing: et1 if it has expired, else et2, else a datagram.  Timer     *)
(* events wait in Contiki's queue, a datagram is delivered at once.        *)
(* (The names begin with Loop where EmsInterface has the same one: what is *)
(* proved of the two is proved together.)                                  *)
(***************************************************************************)
EXTENDS Integers, FiniteSets

CONSTANT NUMEVENTS      \* events Contiki's queue holds (32)

ASSUME LoopAssumption == NUMEVENTS \in Nat \ {0, 1}

VARIABLES expired,      \* the timers expired: a subset of {"et1", "et2"}
          nevents,      \* the timer events waiting for ems_process
          served        \* what the loop did last

loopVars == <<expired, nevents, served>>

Timers == {"et1", "et2"}

\* The timers, the queue within its size, and the purpose of the last turn.
LoopTypeOK ==
  /\ expired \subseteq Timers
  /\ nevents \in 0 .. NUMEVENTS
  /\ served \in {"none", "interface", "seconds", "package", "nothing"}

LoopInit == expired = {} /\ nevents = 0 /\ served = "none"

\* Mutant: the timer is marked expired whether or not the event was posted.
Expire_Anyway(t) ==
  /\ t \notin expired
  /\ expired' = expired \cup {t}
  /\ nevents' = nevents + 1
  /\ UNCHANGED served

\* The timer process; with the queue full it tries again later.
Expire(t) ==
  /\ t \notin expired /\ nevents < NUMEVENTS
  /\ expired' = expired \cup {t}
  /\ nevents' = nevents + 1
  /\ UNCHANGED served

\* Mutant: a timer is not restarted.
Body_NoRestart(ev) ==
  \/ "et1" \in expired /\ expired' = expired /\ served' = "interface"
  \/ "et1" \notin expired /\ "et2" \in expired /\ expired' = expired \ {"et2"} /\ served' = "seconds"
  \/ expired = {} /\ expired' = expired /\ served' = IF ev = "tcpip" THEN "package" ELSE "nothing"

\* One turn of the loop.
Body(ev) ==
  \/ "et1" \in expired /\ expired' = expired \ {"et1"} /\ served' = "interface"
  \/ "et1" \notin expired /\ "et2" \in expired /\ expired' = expired \ {"et2"} /\ served' = "seconds"
  \/ expired = {} /\ expired' = expired /\ served' = IF ev = "tcpip" THEN "package" ELSE "nothing"

\* The next timer event of the queue.
TimerEvent == nevents > 0 /\ nevents' = nevents - 1 /\ Body("timer")

\* A datagram; unless no timer has expired it is never looked at.
Datagram == Body("tcpip") /\ UNCHANGED nevents

LoopNext == TimerEvent \/ Datagram \/ \E t \in Timers : Expire(t)

\* Contiki delivers what is in its queue; a turn of the loop takes less than
\* the 100 ms of et1, so that et1 does not expire before every turn.
LoopSpec == /\ LoopInit /\ [][LoopNext]_loopVars
            /\ WF_loopVars(TimerEvent)
            /\ SF_loopVars(TimerEvent /\ "et1" \notin expired)

-----------------------------------------------------------------------------
\* However datagrams take the turns meant for timers, an expired timer has an
\* event on its way: a timer the loop forgot would never fire again, and with
\* it all retries or the command line would stop.
ExpiredHasEvent == Cardinality(expired) <= nevents

\* Every timer that expires is restarted.
TimersGoOn == \A t \in Timers : t \in expired ~> t \notin expired
=============================================================================
