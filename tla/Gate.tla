-------------------------------- MODULE Gate --------------------------------
(***************************************************************************)
(* The gate (fixo.c).  Each second it sends a beacon; the mobile nodes in  *)
(* range answer with their numbers (mobile.c).  A mobile is let in when it *)
(* is heard again INTERV_BEG to INTERV_END seconds after it was first      *)
(* heard: one that only passes by is not.  The gate remembers HISTORY_SIZE *)
(* mobiles; another one takes the oldest entry.                            *)
(*                                                                         *)
(* Beacons and answers get lost, an answer may be late or doubled, and the *)
(* main loop drops one that finds its timer expired: a mobile is heard any *)
(* number of times in a second.  Seconds are unsigned: until INTERV_END of *)
(* them have passed, the time INTERV_END ago is a very late one.           *)
(***************************************************************************)
EXTENDS Integers, FiniteSets, FiniteSetsExt

CONSTANTS Mobiles,      \* the numbers of the mobiles
          HISTORY_SIZE, INTERV_BEG, INTERV_END,
          WORD,         \* 2^32, the numbers of a uint32_t
          MaxTime,      \* bound: seconds the gate is watched
          Nobody

ASSUME GateAssumption ==
  /\ Mobiles \subseteq Nat /\ HISTORY_SIZE \in Nat \ {0}
  /\ INTERV_BEG \in Nat \ {0} /\ INTERV_END \in Nat /\ INTERV_BEG < INTERV_END
  /\ WORD \in Nat /\ MaxTime \in Nat \ {0} /\ INTERV_END + MaxTime < WORD
  /\ Nobody \notin Mobiles

VARIABLES cur_time,
          history,      \* the entries: the number and a time
          opened,       \* whom the last step let in
          heard,        \* when each mobile was heard, since it was let in and
                        \* not longer ago than INTERV_END
          crowded       \* the last time when more were waiting than have room

vars == <<cur_time, history, opened, heard, crowded>>

Slots == 0 .. HISTORY_SIZE - 1

\* An entry holds a mobile and a time gone by, or nothing.
TypeOK ==
  /\ cur_time \in 1 .. MaxTime
  /\ history \in [Slots -> [id : Mobiles \cup {0}, time : 0 .. cur_time]]
  /\ opened \in Mobiles \cup {Nobody}
  /\ heard \in [Mobiles -> SUBSET (0 .. cur_time)]
  /\ crowded \in 0 .. cur_time

Init ==
  /\ cur_time = 1
  /\ history = [i \in Slots |-> [id |-> 0, time |-> 0]]
  /\ opened = Nobody
  /\ heard = [m \in Mobiles |-> {}]
  /\ crowded = 0

\* A difference of two uint32_t.
Minus(a, b) == (a - b + WORD) % WORD

\* The entry of a mobile: the first with its number.
Entries(m) == {i \in Slots : history[i].id = m}
Loc(m) == Min(Entries(m))

\* Mutant: the newest entry is given away.
Oldest_Newest == Min({i \in Slots : \A j \in Slots : history[j].time <= history[i].time})

\* The entry to be given away: the first of the oldest.
Oldest == Min({i \in Slots : \A j \in Slots : history[i].time <= history[j].time})

\* Mutant: however short the wait.
InTime_Early(t) == Minus(cur_time, INTERV_END) <= t

\* Was the entry made in time for its mobile to be let in, or is it too old?
InTime(t) ==
  Minus(cur_time, INTERV_END) <= t /\ t <= Minus(cur_time, INTERV_BEG)
TooOld(t) == t < Minus(cur_time, INTERV_END)

-----------------------------------------------------------------------------
\* What the properties remember: m is heard, and waits.
Hear(m) ==
  /\ heard' = [heard EXCEPT ![m] = @ \cup {cur_time}]
  /\ crowded' = IF Cardinality({k \in Mobiles : heard'[k] # {}}) > HISTORY_SIZE
                THEN cur_time ELSE crowded
  /\ opened' = Nobody

\* tcpip_handler: a known mobile is let in ...
LetIn(m) ==
  /\ Entries(m) # {} /\ InTime(history[Loc(m)].time)
  /\ history' = [history EXCEPT ![Loc(m)].time = 0]
  /\ opened' = m
  /\ heard' = [heard EXCEPT ![m] = {}]
  /\ UNCHANGED <<cur_time, crowded>>

\* ... or comes again after it has been away ...
ComeAgain(m) ==
  /\ Entries(m) # {} /\ ~ InTime(history[Loc(m)].time) /\ TooOld(history[Loc(m)].time)
  /\ history' = [history EXCEPT ![Loc(m)].time = cur_time]
  /\ Hear(m)
  /\ UNCHANGED cur_time

\* ... or has to wait;
Wait(m) ==
  /\ Entries(m) # {} /\ ~ InTime(history[Loc(m)].time) /\ ~ TooOld(history[Loc(m)].time)
  /\ Hear(m)
  /\ UNCHANGED <<history, cur_time>>

\* a mobile that is not known takes the oldest entry.
Come(m) ==
  /\ Entries(m) = {}
  /\ history' = [history EXCEPT ![Oldest] = [id |-> m, time |-> cur_time]]
  /\ Hear(m)
  /\ UNCHANGED cur_time

\* timeout_handler.
Second ==
  /\ cur_time < MaxTime
  /\ cur_time' = cur_time + 1
  /\ heard' = [m \in Mobiles |-> {t \in heard[m] : cur_time' <= t + INTERV_END}]
  /\ opened' = Nobody
  /\ UNCHANGED <<history, crowded>>

Next ==
  \/ Second
  \/ \E m \in Mobiles : LetIn(m) \/ ComeAgain(m) \/ Wait(m) \/ Come(m)

Spec == Init /\ [][Next]_vars

-----------------------------------------------------------------------------
\* A mobile is let in only if, since it was last let in, it was heard at least
\* INTERV_BEG and at most INTERV_END seconds ago, whatever became of its entry
\* in between.  (In the second INTERV_END after the start a zeroed time looks
\* like one long enough ago: then a mobile just let in is let in again.)
LetInAfterWaiting ==
  [][\A m \in Mobiles : opened' = m /\ cur_time # INTERV_END =>
       \E t \in heard[m] : t + INTERV_BEG <= cur_time /\ cur_time <= t + INTERV_END]_vars

\* m was first heard INTERV_END seconds ago, and since then never missed as
\* many seconds in a row as there are times to be let in.
Overdue(m) ==
  LET first == cur_time - INTERV_END
      last  == cur_time - (INTERV_END - INTERV_BEG + 1)
  IN  /\ first >= INTERV_END - 1 /\ first \in heard[m]
      /\ \A t \in first .. last :
           \E s \in (t + 1) .. (t + INTERV_END - INTERV_BEG + 1) : s \in heard[m]

\* While there is room for all who wait, nobody who is heard regularly is kept
\* waiting longer than INTERV_END seconds, whoever else comes and goes.
NobodyWaitsForever ==
  [][cur_time' # cur_time =>
       \A m \in Mobiles : Overdue(m) => crowded >= cur_time - INTERV_END]_vars
=============================================================================
