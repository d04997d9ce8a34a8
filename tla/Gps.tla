-------------------------------- MODULE Gps --------------------------------
(***************************************************************************)
(* The ring of characters in the GPS receiver (gps.c).  The interrupt of   *)
(* the serial port puts them in at bufe and never asks whether there is    *)
(* room; once a second the process takes them out at bufi until the two    *)
(* are equal and gives them to the parser.  bufe has two bytes, which the  *)
(* processor reads one after the other while the interrupt may change them.*)
(*                                                                         *)
(* A character is the number of characters received before it; what a      *)
(* zeroed ring holds at the start has the numbers below zero.              *)
(***************************************************************************)
EXTENDS Integers

CONSTANTS BUF_SIZE,
          BYTE,         \* the values of a byte: 256
          MaxReceived   \* bound: characters sent to the receiver

ASSUME GpsAssumption ==
  BUF_SIZE \in Nat \ {0} /\ BYTE \in Nat \ {0} /\ MaxReceived \in Nat

VARIABLES buf, bufi, bufe,
          pc,           \* what timeout_handler does next
          seen,         \* the byte of bufe it has read
          received,     \* the number of characters received
          next,         \* one more than the last the parser was given
          lapped        \* has the interrupt ever caught up with bufi?

gpsVars == <<buf, bufi, bufe, pc, seen, received, next, lapped>>

Places == 0 .. BUF_SIZE - 1
Bytes == {"low", "high"}

\* The two bytes of an index.
ByteOf(index, b) == IF b = "low" THEN index % BYTE ELSE index \div BYTE
Other(b) == IF b = "low" THEN "high" ELSE "low"
After(index) == (index + 1) % BUF_SIZE

\* Indices of the ring, and a byte where one was read.
GpsTypeOK ==
  /\ buf \in [Places -> Int]
  /\ bufi \in Places /\ bufe \in Places
  /\ pc \in {"asleep", "test", "low", "high", "take"}
  /\ seen \in Nat
  /\ received \in 0 .. MaxReceived /\ next \in Nat
  /\ lapped \in BOOLEAN

GpsInit ==
  /\ buf = [i \in Places |-> i - BUF_SIZE]
  /\ bufi = 0 /\ bufe = 0
  /\ pc = "asleep" /\ seen = 0
  /\ received = 0 /\ next = 0 /\ lapped = FALSE

\* Mutant: the index is moved before the character is stored.
getc0_MoveFirst ==
  /\ received < MaxReceived
  /\ bufe' = After(bufe)
  /\ buf' = [buf EXCEPT ![bufe'] = received]
  /\ received' = received + 1
  /\ lapped' = (lapped \/ received' - next >= BUF_SIZE)
  /\ UNCHANGED <<bufi, pc, seen, next>>

\* The interrupt: it comes between any two steps of the process.
getc0 ==
  /\ received < MaxReceived
  /\ buf' = [buf EXCEPT ![bufe] = received]
  /\ bufe' = After(bufe)
  /\ received' = received + 1
  /\ lapped' = (lapped \/ received' - next >= BUF_SIZE)
  /\ UNCHANGED <<bufi, pc, seen, next>>

\* timeout_handler, woken each second by the timer.
Wake ==
  /\ pc = "asleep"
  /\ pc' = "test"
  /\ UNCHANGED <<buf, bufi, bufe, seen, received, next, lapped>>

\* bufi != bufe: one byte is read and then the other.
TestFirst(b) ==
  /\ pc = "test"
  /\ seen' = ByteOf(bufe, b) /\ pc' = b
  /\ UNCHANGED <<buf, bufi, bufe, received, next, lapped>>

\* Mutant: one byte decides.
TestSecond_OneByte(b) ==
  /\ pc = b
  /\ pc' = IF seen = ByteOf(bufi, b) THEN "asleep" ELSE "take"
  /\ UNCHANGED <<buf, bufi, bufe, seen, received, next, lapped>>

\* Mutant: an empty ring is used from its start again.
TestSecond_Rewind(b) ==
  /\ pc = b
  /\ \/ /\ seen = ByteOf(bufi, b) /\ ByteOf(bufe, Other(b)) = ByteOf(bufi, Other(b))
        /\ pc' = "asleep" /\ bufi' = 0 /\ bufe' = 0
     \/ /\ seen # ByteOf(bufi, b) \/ ByteOf(bufe, Other(b)) # ByteOf(bufi, Other(b))
        /\ pc' = "take" /\ UNCHANGED <<bufi, bufe>>
  /\ UNCHANGED <<buf, seen, received, next, lapped>>

TestSecond(b) ==
  /\ pc = b
  /\ pc' = IF seen = ByteOf(bufi, b) /\ ByteOf(bufe, Other(b)) = ByteOf(bufi, Other(b))
           THEN "asleep" ELSE "take"
  /\ UNCHANGED <<buf, bufi, bufe, seen, received, next, lapped>>

\* encode(buf[bufi]).
Take ==
  /\ pc = "take"
  /\ next' = buf[bufi] + 1
  /\ bufi' = After(bufi)
  /\ pc' = "test"
  /\ UNCHANGED <<buf, bufe, seen, received, lapped>>

GpsNext ==
  \/ getc0 \/ Wake \/ Take
  \/ \E b \in Bytes : TestFirst(b) \/ TestSecond(b)

\* The timer is restarted each time, and the handler runs on whatever the
\* interrupt does; nobody has to send anything.
GpsSpec == /\ GpsInit /\ [][GpsNext]_gpsVars
           /\ WF_gpsVars(Wake) /\ WF_gpsVars(Take)
           /\ WF_gpsVars(\E b \in Bytes : TestFirst(b))
           /\ WF_gpsVars(\E b \in Bytes : TestSecond(b))

-----------------------------------------------------------------------------
\* However often the interrupt laps the process, and whatever mixture of an old
\* and a new bufe is compared, the parser is never given a character twice, nor
\* one before an earlier one, nor one that was not received.
TakenInOrder == [][Take => next <= buf[bufi] /\ buf[bufi] < received]_gpsVars

\* Until BUF_SIZE characters wait at once, the parser is given every one.
NothingIsSkipped == [][Take /\ ~ lapped => buf[bufi] = next]_gpsVars

\* When the line falls silent all there is in the ring has been taken, unless
\* it was lapped: a lap of just BUF_SIZE characters looks like an empty ring.
AllIsTaken == <>[](lapped \/ next = received)
=============================================================================
