---------------------------- MODULE DeviceProofs ----------------------------
(***************************************************************************)
(* Proofs about the two programs that are no EMS nodes: the ring of the    *)
(* GPS receiver, for every size of the ring and of a byte and however many *)
(* characters come, and the gate, for any mobiles and waiting times, any   *)
(* size of the history and width of a word.                                *)
(***************************************************************************)
EXTENDS Gps, Gate, FiniteSetTheorems, WellFoundedInduction, TLAPS

-----------------------------------------------------------------------------
(* Facts about quotients and remainders, for a ring whose indices wrap. *)

\* A number is a multiple of s and its remainder.
LEMMA Division ==
  ASSUME NEW a \in Int, NEW s \in Nat \ {0}
  PROVE  /\ a \div s \in Int /\ (a % s) \in 0 .. s - 1
         /\ a = s * (a \div s) + (a % s)
BY SMT

\* The quotient and the remainder are the only ones.
LEMMA DivisionUnique ==
  ASSUME NEW s \in Nat \ {0}, NEW q \in Int, NEW p \in Int,
         NEW r \in 0 .. s - 1, NEW t \in 0 .. s - 1, s * q + r = s * p + t
  PROVE  q = p /\ r = t
<1>1. CASE q < p
  <2>1. s * (p - q) >= s
    BY <1>1, SMT
  <2>2. s * (p - q) = s * p - s * q
    BY SMT
  <2> QED
    BY <2>1, <2>2, SMT
<1>2. CASE p < q
  <2>1. s * (q - p) >= s
    BY <1>2, SMT
  <2>2. s * (q - p) = s * q - s * p
    BY SMT
  <2> QED
    BY <2>1, <2>2, SMT
<1>3. CASE p = q
  BY <1>3, SMT
<1> QED
  BY <1>1, <1>2, <1>3, SMT

\* Two numbers with the same remainder are equal or s apart.
LEMMA SameRemainder ==
  ASSUME NEW a \in Int, NEW b \in Int, NEW s \in Nat \ {0}, (a % s) = (b % s), b - s < a
  PROVE  b <= a
<1> DEFINE q == a \div s  p == b \div s  r == b % s
<1>1. q \in Int /\ p \in Int /\ r \in Int /\ a = s * q + r /\ b = s * p + r
  BY Division
<1> HIDE DEF q, p, r
<1>2. SUFFICES ASSUME q < p PROVE b <= a
  <2>1. CASE q = p
    BY <1>1, <2>1, SMT
  <2>2. CASE q > p
    <3>1. s * (q - p) >= 0 /\ s * (q - p) = s * q - s * p
      BY <1>1, <2>2, SMT
    <3> QED
      BY <3>1, <1>1, SMT
  <2> QED
    BY <1>1, <2>1, <2>2, SMT
<1>3. s * (p - q) >= s /\ s * (p - q) = s * p - s * q
  BY <1>1, <1>2, SMT
<1> QED
  BY <1>1, <1>3, SMT

\* One more, and s less.
LEMMA NextRemainder ==
  ASSUME NEW a \in Int, NEW s \in Nat \ {0}
  PROVE  ((a % s) + 1) % s = (a + 1) % s
<1> DEFINE q == a \div s  r == a % s
           p == (r + 1) \div s  u == (r + 1) % s
           o == (a + 1) \div s  v == (a + 1) % s
<1>1. q \in Int /\ r \in 0 .. s - 1 /\ a = s * q + r
  BY Division, SMT
<1>2. p \in Int /\ u \in 0 .. s - 1 /\ r + 1 = s * p + u
  BY <1>1, Division, SMT
<1>3. o \in Int /\ v \in 0 .. s - 1 /\ a + 1 = s * o + v
  BY Division, SMT
<1> HIDE DEF q, r, p, u, o, v
<1>4. s * (q + p) + u = s * o + v
  <2>1. s * (q + p) = s * q + s * p
    BY <1>1, <1>2, SMT
  <2> QED
    BY <2>1, <1>1, <1>2, <1>3, SMT
<1>5. u = v
  BY <1>1, <1>2, <1>3, <1>4, DivisionUnique
<1> QED
  BY <1>5 DEF u, v, r

\* s less leaves the remainder.
LEMMA LowerRemainder ==
  ASSUME NEW a \in Int, NEW s \in Nat \ {0}
  PROVE  ((a - s) % s) = (a % s)
<1> DEFINE q == a \div s  r == a % s
           p == (a - s) \div s  u == (a - s) % s
<1>1. q \in Int /\ r \in 0 .. s - 1 /\ a = s * q + r
  BY Division, SMT
<1>2. p \in Int /\ u \in 0 .. s - 1 /\ a - s = s * p + u
  BY Division, SMT
<1> HIDE DEF q, r, p, u
<1>3. s * (p + 1) = s * p + s
  BY <1>2, SMT
<1>4. s * (p + 1) + u = s * q + r
  BY <1>1, <1>2, <1>3, SMT
<1>5. u = r
  BY <1>1, <1>2, <1>4, DivisionUnique
<1> QED
  BY <1>5 DEF u, r

-----------------------------------------------------------------------------
\* The indices are the counts, the ring holds the last BUF_SIZE characters
\* received, and what was read of bufe tells an empty ring when it is one.
Placed ==
  /\ bufi = (next % BUF_SIZE) /\ bufe = (received % BUF_SIZE)
  /\ next <= received
Held ==
  \A i \in Places : /\ (buf[i] % BUF_SIZE) = i
                   /\ received - BUF_SIZE <= buf[i] /\ buf[i] < received
Tested ==
  /\ pc \in Bytes /\ received = next => seen = ByteOf(bufi, pc)
  /\ pc = "take" => next < received
Room == ~ lapped => received - next < BUF_SIZE

GpsIInv == GpsTypeOK /\ Placed /\ Held /\ Tested /\ Room

\* What the next character to be taken is.
LEMMA NextTaken ==
  ASSUME GpsIInv, pc = "take"
  PROVE  /\ bufi \in Places /\ buf[bufi] \in Int
         /\ next <= buf[bufi] /\ buf[bufi] < received
         /\ ~ lapped => buf[bufi] = next
<1>1. /\ bufi \in Places /\ buf[bufi] \in Int /\ next \in Int /\ received \in Int
      /\ BUF_SIZE \in Nat \ {0}
  BY GpsAssumption DEF GpsIInv, GpsTypeOK
<1>2. /\ next < received /\ (buf[bufi] % BUF_SIZE) = (next % BUF_SIZE)
      /\ received - BUF_SIZE <= buf[bufi] /\ buf[bufi] < received
  BY <1>1 DEF GpsIInv, Tested, Placed, Held
<1>3. next - BUF_SIZE < buf[bufi]
  BY <1>1, <1>2, SMT
<1>4. next <= buf[bufi]
  BY <1>1, <1>2, <1>3, SameRemainder
<1>5. ASSUME ~ lapped PROVE buf[bufi] <= next
  <2>1. received - next < BUF_SIZE
    BY <1>5 DEF GpsIInv, Room
  <2>2. buf[bufi] - BUF_SIZE < next
    BY <1>1, <1>2, <2>1, SMT
  <2> QED
    BY <1>1, <1>2, <2>2, SameRemainder
<1> QED
  BY <1>1, <1>2, <1>4, <1>5, SMT

LEMMA GpsInitInv == GpsInit => GpsIInv
<1> SUFFICES ASSUME GpsInit PROVE GpsIInv
  OBVIOUS
<1>1. BUF_SIZE \in Nat \ {0} /\ MaxReceived \in Nat
  BY GpsAssumption
<1>2. GpsTypeOK
  <2>1. buf \in [Places -> Int]
    BY <1>1, SMT DEF GpsInit, Places
  <2>2. 0 \in Places /\ 0 \in 0 .. MaxReceived /\ 0 \in Nat
    BY <1>1, SMT DEF Places
  <2> QED
    BY <2>1, <2>2 DEF GpsInit, GpsTypeOK
<1>3. (0 % BUF_SIZE) = 0
  BY <1>1, SMT
<1>4. Placed /\ Tested /\ Room
  BY <1>1, <1>3, SMT DEF GpsInit, Placed, Tested, Room, Bytes
<1>5. ASSUME NEW i \in Places
      PROVE  (buf[i] % BUF_SIZE) = i /\ 0 - BUF_SIZE <= buf[i] /\ buf[i] < 0
  <2>1. i \in 0 .. BUF_SIZE - 1 /\ i \in Int /\ buf[i] = i - BUF_SIZE
    BY <1>1, SMT DEF GpsInit, Places
  <2>2. (i % BUF_SIZE) = i
    BY <1>1, <2>1, SMT
  <2>3. ((i - BUF_SIZE) % BUF_SIZE) = (i % BUF_SIZE)
    BY <1>1, <2>1, LowerRemainder
  <2> QED
    BY <1>1, <2>1, <2>2, <2>3, SMT
<1>6. Held
  BY <1>5 DEF Held, GpsInit
<1> QED
  BY <1>2, <1>4, <1>6 DEF GpsIInv

\* The interrupt overwrites the oldest character of the ring.
LEMMA Received ==
  ASSUME GpsIInv, getc0
  PROVE  GpsIInv'
<1>1. /\ BUF_SIZE \in Nat \ {0} /\ MaxReceived \in Nat
      /\ buf \in [Places -> Int] /\ bufe \in Places /\ bufi \in Places
      /\ next \in Nat /\ received \in 0 .. MaxReceived /\ received \in Int
  BY GpsAssumption DEF GpsIInv, GpsTypeOK
<1>2. /\ received < MaxReceived /\ received' = received + 1
      /\ buf' = [buf EXCEPT ![bufe] = received] /\ bufe' = ((bufe + 1) % BUF_SIZE)
      /\ bufi' = bufi /\ pc' = pc /\ seen' = seen /\ next' = next
  BY DEF getc0, After
<1>3. bufe' = ((received + 1) % BUF_SIZE)
  <2>1. ((received % BUF_SIZE) + 1) % BUF_SIZE = (received + 1) % BUF_SIZE
    BY <1>1, NextRemainder
  <2> QED
    BY <1>2, <2>1 DEF GpsIInv, Placed
<1>4. bufe' \in Places
  BY <1>1, <1>3, Division DEF Places
<1>5. lapped' \in BOOLEAN
  BY Zenon DEF GpsIInv, GpsTypeOK, getc0
<1>6. GpsTypeOK'
  <2>1. buf' \in [Places -> Int] /\ received' \in 0 .. MaxReceived
    BY <1>1, <1>2, SMT
  <2> QED
    BY <1>1, <1>2, <1>4, <1>5, <2>1 DEF GpsTypeOK, GpsIInv
<1>7. Placed'
  BY <1>1, <1>2, <1>3, SMT DEF Placed, GpsIInv
<1>8. ASSUME NEW i \in Places
      PROVE  /\ (buf'[i] % BUF_SIZE) = i
             /\ received' - BUF_SIZE <= buf'[i] /\ buf'[i] < received'
  <2>1. CASE i = bufe
    <3>1. buf'[i] = received /\ (received % BUF_SIZE) = i
      BY <1>1, <1>2, <2>1 DEF GpsIInv, Placed
    <3> QED
      BY <1>1, <1>2, <3>1, SMT
  <2>2. CASE i # bufe
    <3>1. /\ buf'[i] = buf[i] /\ buf[i] \in Int /\ (buf[i] % BUF_SIZE) = i
          /\ received - BUF_SIZE <= buf[i] /\ buf[i] < received
      BY <1>1, <1>2, <2>2 DEF GpsIInv, Held
    <3>2. ((received - BUF_SIZE) % BUF_SIZE) = bufe
      <4>1. ((received - BUF_SIZE) % BUF_SIZE) = (received % BUF_SIZE)
        BY <1>1, LowerRemainder
      <4> QED
        BY <4>1 DEF GpsIInv, Placed
    <3>3. buf[i] # received - BUF_SIZE
      BY <3>1, <3>2, <2>2
    <3> QED
      BY <1>1, <1>2, <3>1, <3>3, SMT
  <2> QED
    BY <2>1, <2>2
<1>9. Held'
  BY <1>8 DEF Held, Places
<1>10. Tested'
  BY <1>1, <1>2, SMT DEF GpsIInv, Placed, Tested, Bytes
<1>11. Room'
  <2>1. lapped' = (lapped \/ received' - next >= BUF_SIZE)
    BY DEF getc0
  <2>2. ~ lapped' => ~ (received' - next >= BUF_SIZE)
    BY <2>1, Zenon
  <2>3. ~ (received' - next >= BUF_SIZE) => received' - next < BUF_SIZE
    BY <1>1, <1>2, SMT
  <2> QED
    BY <1>2, <2>2, <2>3, Zenon DEF Room
<1> QED
  BY <1>6, <1>7, <1>9, <1>10, <1>11 DEF GpsIInv

\* A step of timeout_handler that takes nothing.
LEMMA Compared ==
  ASSUME GpsIInv, Wake \/ \E b \in Bytes : TestFirst(b) \/ TestSecond(b)
  PROVE  GpsIInv'
<1>1. UNCHANGED <<buf, bufi, bufe, received, next, lapped>>
  BY DEF Wake, TestFirst, TestSecond
<1>2. Placed' /\ Room'
  BY <1>1 DEF Placed, Room, GpsIInv
<1>3. Held'
  BY <1>1 DEF Held, GpsIInv
<1>4. bufi \in Int /\ bufe \in Nat /\ BYTE \in Nat \ {0} /\ bufi \in Nat
  BY GpsAssumption, SMT DEF GpsIInv, GpsTypeOK, Places
<1>5. CASE Wake
  BY <1>1, <1>2, <1>3, <1>5 DEF Wake, GpsIInv, GpsTypeOK, Tested, Bytes
<1>6. ASSUME NEW b \in Bytes, TestFirst(b)
      PROVE  GpsIInv'
  <2>1. ByteOf(bufe, b) \in Nat
    BY <1>4, SMT DEF ByteOf
  <2>2. GpsTypeOK'
    BY <1>1, <1>6, <2>1 DEF TestFirst, GpsIInv, GpsTypeOK, Bytes
  <2>3. received = next => bufe = bufi
    BY DEF GpsIInv, Placed
  <2>4. Tested'
    BY <1>1, <1>6, <2>3 DEF TestFirst, Tested, Bytes
  <2> QED
    BY <1>2, <1>3, <2>2, <2>4 DEF GpsIInv
<1>7. ASSUME NEW b \in Bytes, TestSecond(b)
      PROVE  GpsIInv'
  <2>1. GpsTypeOK'
    BY <1>1, <1>7 DEF TestSecond, GpsIInv, GpsTypeOK, Bytes
  <2>2. received = next => bufe = bufi /\ seen = ByteOf(bufi, b)
    BY <1>7 DEF TestSecond, GpsIInv, Placed, Tested
  <2>3. received = next => pc' = "asleep"
    BY <1>7, <2>2 DEF TestSecond
  <2>4. next < received \/ next = received
    BY SMT DEF GpsIInv, Placed, GpsTypeOK
  <2>5. pc' \in {"asleep", "take"}
    BY <1>7 DEF TestSecond
  <2>6. Tested'
    BY <1>1, <2>3, <2>4, <2>5 DEF Tested, Bytes
  <2> QED
    BY <1>2, <1>3, <2>1, <2>6 DEF GpsIInv
<1> QED
  BY <1>5, <1>6, <1>7

LEMMA Taken ==
  ASSUME GpsIInv, Take
  PROVE  GpsIInv'
<1>1. /\ BUF_SIZE \in Nat \ {0} /\ bufi \in Places /\ buf[bufi] \in Int
      /\ next \in Nat /\ received \in 0 .. MaxReceived /\ MaxReceived \in Nat
      /\ (buf[bufi] % BUF_SIZE) = bufi
  BY GpsAssumption DEF GpsIInv, GpsTypeOK, Held
<1>2. next <= buf[bufi] /\ buf[bufi] < received /\ (~ lapped => buf[bufi] = next)
  BY NextTaken DEF Take
<1>3. next' = buf[bufi] + 1 /\ bufi' = ((bufi + 1) % BUF_SIZE) /\ pc' = "test"
  BY DEF Take, After
<1>4. UNCHANGED <<buf, bufe, seen, received, lapped>>
  BY DEF Take
<1>5. bufi' = (next' % BUF_SIZE)
  BY <1>1, <1>3, NextRemainder
<1>6. bufi' \in Places /\ next' \in Nat /\ next' <= received
  <2>1. next' \in Int
    BY <1>1, <1>3
  <2>2. (next' % BUF_SIZE) \in 0 .. BUF_SIZE - 1
    BY <1>1, <2>1, Division
  <2> QED
    BY <1>1, <1>2, <1>3, <1>5, <2>1, <2>2, SMT DEF Places
<1>7. GpsTypeOK'
  BY <1>3, <1>4, <1>6 DEF GpsIInv, GpsTypeOK
<1>8. Placed' /\ Tested'
  BY <1>3, <1>4, <1>5, <1>6 DEF GpsIInv, Placed, Tested, Bytes
<1>9. Held'
  BY <1>4 DEF GpsIInv, Held
<1>10. Room'
  BY <1>1, <1>2, <1>3, <1>4, SMT DEF GpsIInv, Room
<1> QED
  BY <1>7, <1>8, <1>9, <1>10 DEF GpsIInv

-----------------------------------------------------------------------------
\* The invariant is inductive.
LEMMA GpsStepInv == GpsIInv /\ [GpsNext]_gpsVars => GpsIInv'
<1> SUFFICES ASSUME GpsIInv, [GpsNext]_gpsVars PROVE GpsIInv'
  OBVIOUS
<1>1. CASE UNCHANGED gpsVars
  BY <1>1 DEF gpsVars, GpsIInv, GpsTypeOK, Placed, Held, Tested, Room
<1> QED
  BY <1>1, Received, Compared, Taken DEF GpsNext

LEMMA GpsAlwaysInv == GpsSpec => []GpsIInv
BY GpsInitInv, GpsStepInv, PTL DEF GpsSpec

\* The indices stay in the ring.
THEOREM GpsTypeCorrect == GpsSpec => []GpsTypeOK
<1>1. GpsIInv => GpsTypeOK
  BY DEF GpsIInv
<1> QED
  BY <1>1, GpsAlwaysInv, PTL

\* The parser is given characters in the order they came, each once, whatever
\* the interrupt does and whichever bytes of bufe are compared.
THEOREM OrderCorrect == GpsSpec => TakenInOrder
<1>1. GpsIInv /\ [GpsNext]_gpsVars => [Take => next <= buf[bufi] /\ buf[bufi] < received]_gpsVars
  BY NextTaken DEF Take
<1> QED
  BY <1>1, GpsAlwaysInv, PTL DEF GpsSpec, TakenInOrder

\* None is skipped before the ring was full.
THEOREM SkipCorrect == GpsSpec => NothingIsSkipped
<1>1. GpsIInv /\ [GpsNext]_gpsVars => [Take /\ ~ lapped => buf[bufi] = next]_gpsVars
  BY NextTaken DEF Take
<1> QED
  BY <1>1, GpsAlwaysInv, PTL DEF GpsSpec, NothingIsSkipped

-----------------------------------------------------------------------------
(* The gate. *)

\* Every set of natural numbers that is not empty has a least member.
LEMMA LeastMember ==
  ASSUME NEW S \in SUBSET Nat, S # {}
  PROVE  Min(S) \in S /\ \A n \in S : Min(S) <= n
<1>1. \E m \in S : \A n \in S : ~ (<<n, m>> \in OpToRel(<, Nat))
  BY NatLessThanWellFounded, WFMin
<1>2. \A m, n \in S : <<n, m>> \in OpToRel(<, Nat) <=> n < m
  BY DEF OpToRel
<1>3. PICK m \in S : \A n \in S : ~ (n < m)
  BY <1>1, <1>2
<1>4. \A n \in S : m <= n
  BY <1>3, SMT
<1> QED
  BY <1>4 DEF Min

\* The constants, one fact at a time.
LEMMA Constants ==
  /\ HISTORY_SIZE \in Nat \ {0} /\ INTERV_BEG \in Nat \ {0} /\ INTERV_END \in Nat
  /\ INTERV_BEG < INTERV_END /\ WORD \in Nat \ {0} /\ MaxTime \in Nat \ {0}
  /\ INTERV_END + MaxTime < WORD /\ Mobiles \subseteq Nat /\ Nobody \notin Mobiles
BY GateAssumption, SMT

\* A difference of two seconds wraps when the second one is later.
LEMMA MinusValue ==
  ASSUME NEW a \in Nat, NEW b \in Nat, a < WORD, b < WORD
  PROVE  Minus(a, b) = IF b <= a THEN a - b ELSE (a - b) + WORD
<1>1. WORD \in Nat \ {0}
  BY Constants
<1>2. ASSUME NEW c \in 0 .. WORD - 1 PROVE (c % WORD) = c /\ ((c + WORD) % WORD) = c
  BY <1>1, SMTT(60)
<1>3. CASE b <= a
  <2>1. a - b \in 0 .. WORD - 1
    BY <1>1, <1>3, SMT
  <2> QED
    BY <1>2, <1>3, <2>1 DEF Minus
<1>4. CASE ~ (b <= a)
  <2>1. (a - b) + WORD \in 0 .. WORD - 1
    BY <1>1, <1>4, SMT
  <2> QED
    BY <1>2, <1>4, <2>1 DEF Minus
<1> QED
  BY <1>3, <1>4

-----------------------------------------------------------------------------
\* A time is one its mobile was heard at, and is found under its number.
Remembered ==
  \A i \in Slots : history[i].time # 0 =>
    /\ history[i].id \in Mobiles
    /\ cur_time <= history[i].time + INTERV_END => history[i].time \in heard[history[i].id]
Found ==
  \A j \in Slots : history[j].time # 0 =>
    \A i \in Slots : i < j => history[i].id # history[j].id

IInv == TypeOK /\ Remembered /\ Found

\* The entry of a mobile is the first with its number.
LEMMA LocFirst ==
  ASSUME NEW m \in Mobiles, Entries(m) # {}
  PROVE  /\ Loc(m) \in Slots /\ history[Loc(m)].id = m
         /\ \A i \in Slots : history[i].id = m => Loc(m) <= i
<1>1. Entries(m) \in SUBSET Nat
  BY Constants, SMT DEF Entries, Slots
<1>2. Loc(m) \in Entries(m) /\ \A i \in Entries(m) : Loc(m) <= i
  BY <1>1, LeastMember DEF Loc
<1> QED
  BY <1>2 DEF Entries

\* There is always an oldest entry.
LEMMA OldestIsSlot ==
  ASSUME TypeOK
  PROVE  Oldest \in Slots /\ \A j \in Slots : history[Oldest].time <= history[j].time
<1> DEFINE Times == {history[i].time : i \in Slots}
           Oldests == {i \in Slots : \A j \in Slots : history[i].time <= history[j].time}
<1>1. \A i \in Slots : history[i].time \in 0 .. cur_time
  BY DEF TypeOK
<1>2. cur_time \in Nat /\ Slots \subseteq Nat /\ 0 \in Slots
  BY Constants, SMT DEF TypeOK, Slots
<1>3. Times \in SUBSET Nat /\ Times # {}
  <2>1. \A i \in Slots : history[i].time \in Nat
    BY <1>1, <1>2, SMT
  <2>2. Times \in SUBSET Nat
    BY <2>1
  <2>3. history[0].time \in Times
    BY <1>2
  <2> QED
    BY <2>2, <2>3
<1>4. PICK i \in Slots : history[i].time = Min(Times)
  BY <1>3, LeastMember
<1>5. \A j \in Slots : history[i].time <= history[j].time
  <2>1. \A n \in Times : Min(Times) <= n
    BY <1>3, LeastMember
  <2> QED
    BY <1>4, <2>1
<1>6. i \in Oldests
  BY <1>5
<1>7. Oldests \in SUBSET Nat /\ Oldests # {}
  BY <1>2, <1>6
<1>8. Min(Oldests) \in Oldests
  BY <1>7, LeastMember
<1> QED
  BY <1>8 DEF Oldest

\* Who is let in has waited, save in the second INTERV_END.
LEMMA HasWaited ==
  ASSUME IInv, NEW m \in Mobiles, LetIn(m), cur_time # INTERV_END
  PROVE  \E t \in heard[m] : t + INTERV_BEG <= cur_time /\ cur_time <= t + INTERV_END
<1> DEFINE t == history[Loc(m)].time
<1>1. Loc(m) \in Slots /\ history[Loc(m)].id = m
  BY LocFirst DEF LetIn
<1>2. t \in 0 .. cur_time /\ cur_time \in 1 .. MaxTime
  BY <1>1 DEF IInv, TypeOK
<1>3. Minus(cur_time, INTERV_END) <= t /\ t <= Minus(cur_time, INTERV_BEG)
  BY DEF LetIn, InTime
<1>4. /\ Minus(cur_time, INTERV_END) =
            IF INTERV_END <= cur_time THEN cur_time - INTERV_END ELSE (cur_time - INTERV_END) + WORD
      /\ Minus(cur_time, INTERV_BEG) =
            IF INTERV_BEG <= cur_time THEN cur_time - INTERV_BEG ELSE (cur_time - INTERV_BEG) + WORD
  <2>1. /\ cur_time \in Nat /\ cur_time < WORD /\ INTERV_END \in Nat /\ INTERV_END < WORD
        /\ INTERV_BEG \in Nat /\ INTERV_BEG < WORD
    BY <1>2, Constants, SMT
  <2> QED
    BY <2>1, MinusValue
<1> HIDE DEF t
<1>5. INTERV_END < cur_time
  BY <1>2, <1>3, <1>4, Constants, SMT
<1>6. t # 0 /\ t + INTERV_BEG <= cur_time /\ cur_time <= t + INTERV_END
  BY <1>2, <1>3, <1>4, <1>5, Constants, SMT
<1>7. t \in heard[m]
  BY <1>1, <1>6 DEF t, IInv, Remembered
<1> QED
  BY <1>6, <1>7

-----------------------------------------------------------------------------
LEMMA InitInv == Init => IInv
<1> SUFFICES ASSUME Init PROVE IInv
  OBVIOUS
<1>1. /\ cur_time = 1 /\ opened = Nobody /\ crowded = 0
      /\ history = [i \in Slots |-> [id |-> 0, time |-> 0]] /\ heard = [m \in Mobiles |-> {}]
  BY DEF Init
<1>2. 1 \in 1 .. MaxTime /\ 0 \in 0 .. 1
  BY GateAssumption, SMT
<1>3. TypeOK
  BY <1>1, <1>2 DEF TypeOK
<1>4. Remembered /\ Found
  BY <1>1 DEF Remembered, Found
<1> QED
  BY <1>3, <1>4 DEF IInv

LEMMA SecondInv ==
  ASSUME IInv, Second
  PROVE  IInv'
<1>1. cur_time \in 1 .. MaxTime /\ cur_time < MaxTime /\ cur_time' = cur_time + 1
  BY DEF Second, IInv, TypeOK
<1>2. history' = history /\ crowded' = crowded /\ opened' = Nobody
  BY DEF Second
<1>3. heard' = [m \in Mobiles |-> {t \in heard[m] : cur_time' <= t + INTERV_END}]
  BY DEF Second
<1>4. 0 .. cur_time \subseteq 0 .. cur_time'
  BY <1>1, Constants, SMT
<1>5. TypeOK'
  <2>1. cur_time' \in 1 .. MaxTime
    BY <1>1, Constants, SMT
  <2>2. heard' \in [Mobiles -> SUBSET (0 .. cur_time')]
    BY <1>3, <1>4 DEF IInv, TypeOK
  <2>3. history' \in [Slots -> [id : Mobiles \cup {0}, time : 0 .. cur_time']]
    BY <1>2, <1>4 DEF IInv, TypeOK
  <2> QED
    BY <1>2, <1>4, <2>1, <2>2, <2>3 DEF IInv, TypeOK
<1>6. ASSUME NEW i \in Slots, history[i].time # 0, cur_time' <= history[i].time + INTERV_END
      PROVE  history[i].id \in Mobiles /\ history[i].time \in heard'[history[i].id]
  <2>1. history[i].id \in Mobiles /\ history[i].time \in 0 .. cur_time
    BY <1>6 DEF IInv, Remembered, TypeOK
  <2>2. cur_time <= history[i].time + INTERV_END
    BY <1>1, <1>6, <2>1, Constants, SMT
  <2>3. history[i].time \in heard[history[i].id]
    BY <1>6, <2>2 DEF IInv, Remembered
  <2> QED
    BY <1>3, <1>6, <2>1, <2>3
<1>7. Remembered'
  BY <1>2, <1>6 DEF Remembered, IInv
<1>8. Found'
  BY <1>2 DEF Found, IInv
<1> QED
  BY <1>5, <1>7, <1>8 DEF IInv

LEMMA LetInInv ==
  ASSUME IInv, NEW m \in Mobiles, LetIn(m)
  PROVE  IInv'
<1> DEFINE l == Loc(m)
<1>1. /\ l \in Slots /\ history[l].id = m
      /\ \A i \in Slots : history[i].id = m => l <= i
  BY LocFirst DEF LetIn
<1>2. /\ history' = [history EXCEPT ![l].time = 0]
      /\ heard' = [heard EXCEPT ![m] = {}] /\ opened' = m
      /\ cur_time' = cur_time /\ crowded' = crowded
  BY DEF LetIn
<1> HIDE DEF l
<1>3. cur_time \in 1 .. MaxTime /\ Slots \subseteq Nat /\ 0 \in 0 .. cur_time
  BY Constants, SMT DEF IInv, TypeOK, Slots
<1>4. \A i \in Slots : /\ history'[i].id = history[i].id
                       /\ history'[i].time = IF i = l THEN 0 ELSE history[i].time
  BY <1>1, <1>2 DEF IInv, TypeOK
<1>5. TypeOK'
  <2>1. history' \in [Slots -> [id : Mobiles \cup {0}, time : 0 .. cur_time']]
    BY <1>1, <1>2, <1>3 DEF IInv, TypeOK
  <2> QED
    BY <1>2, <2>1 DEF IInv, TypeOK
<1>6. ASSUME NEW i \in Slots, history'[i].time # 0
      PROVE  history[i].time # 0 /\ history[i].id # m
  <2>1. i # l /\ history[i].time # 0
    BY <1>4, <1>6
  <2>2. ASSUME history[i].id = m PROVE FALSE
    <3>1. l < i
      BY <1>1, <1>3, <2>1, <2>2, SMT
    <3> QED
      BY <1>1, <2>1, <2>2, <3>1 DEF IInv, Found
  <2> QED
    BY <2>1, <2>2
<1>7. Remembered'
  BY <1>2, <1>4, <1>6 DEF IInv, Remembered, TypeOK
<1>8. Found'
  BY <1>4, <1>6 DEF IInv, Found
<1> QED
  BY <1>5, <1>7, <1>8 DEF IInv

\* An entry of m that is, from now on, the first and only one with a time.
LEMMA EntryInv ==
  ASSUME IInv, NEW m \in Mobiles, NEW l \in Slots, Hear(m), cur_time' = cur_time,
         history' = [history EXCEPT ![l] = [id |-> m, time |-> cur_time]],
         \A i \in Slots : history[i].id = m => l <= i /\ history[l].id = m
  PROVE  IInv'
<1>1. /\ heard' = [heard EXCEPT ![m] = @ \cup {cur_time}] /\ opened' = Nobody
      /\ crowded' \in {cur_time, crowded}
  BY DEF Hear
<1>2. cur_time \in 1 .. MaxTime /\ Slots \subseteq Nat /\ cur_time \in 0 .. cur_time
  BY Constants, SMT DEF IInv, TypeOK, Slots
<1>3. /\ history'[l].id = m /\ history'[l].time = cur_time
      /\ \A i \in Slots \ {l} : history'[i].id = history[i].id /\ history'[i].time = history[i].time
  BY DEF IInv, TypeOK
<1>4. \A k \in Mobiles : heard[k] \subseteq heard'[k]
  BY <1>1 DEF IInv, TypeOK
<1>5. cur_time \in heard'[m]
  BY <1>1 DEF IInv, TypeOK
<1>6. TypeOK'
  <2>1. history' \in [Slots -> [id : Mobiles \cup {0}, time : 0 .. cur_time']]
    BY <1>2 DEF IInv, TypeOK
  <2>2. heard' \in [Mobiles -> SUBSET (0 .. cur_time')]
    BY <1>1, <1>2 DEF IInv, TypeOK
  <2> QED
    BY <1>1, <1>2, <2>1, <2>2 DEF IInv, TypeOK
<1>7. Remembered'
  BY <1>3, <1>4, <1>5 DEF IInv, Remembered
<1>8. ASSUME NEW j \in Slots, NEW i \in Slots, history'[j].time # 0, i < j
      PROVE  history'[i].id # history'[j].id
  <2>1. i # j
    BY <1>2, <1>8, SMT
  <2>2. CASE j = l
    <3>1. ~ (l <= i)
      BY <1>2, <1>8, <2>2, SMT
    <3> QED
      BY <1>3, <2>1, <2>2, <3>1
  <2>3. CASE j # l /\ i # l
    BY <1>3, <1>8, <2>3 DEF IInv, Found
  <2>4. CASE j # l /\ i = l
    <3>1. history'[j].id = history[j].id /\ history[j].time # 0 /\ history'[i].id = m
      BY <1>3, <1>8, <2>4
    <3>2. ASSUME history[j].id = m PROVE FALSE
      <4>1. history[i].id = m
        BY <2>4, <3>2
      <4> QED
        BY <1>8, <3>1, <3>2, <4>1 DEF IInv, Found
    <3> QED
      BY <3>1, <3>2
  <2> QED
    BY <2>2, <2>3, <2>4
<1>9. Found'
  BY <1>8 DEF Found
<1> QED
  BY <1>6, <1>7, <1>9 DEF IInv

LEMMA ComeAgainInv ==
  ASSUME IInv, NEW m \in Mobiles, ComeAgain(m)
  PROVE  IInv'
<1> DEFINE l == Loc(m)
<1>1. /\ l \in Slots /\ history[l].id = m
      /\ \A i \in Slots : history[i].id = m => l <= i
  BY LocFirst DEF ComeAgain
<1>2. history' = [history EXCEPT ![l].time = cur_time] /\ Hear(m) /\ cur_time' = cur_time
  BY DEF ComeAgain
<1> HIDE DEF l
<1>3. history' = [history EXCEPT ![l] = [id |-> m, time |-> cur_time]]
  <2>1. history[l] \in [id : Mobiles \cup {0}, time : 0 .. cur_time]
    BY <1>1 DEF IInv, TypeOK
  <2>2. [history[l] EXCEPT !.time = cur_time] = [id |-> m, time |-> cur_time]
    BY <1>1, <2>1
  <2> QED
    BY <1>2, <2>2
<1> QED
  BY <1>1, <1>2, <1>3, EntryInv

LEMMA ComeInv ==
  ASSUME IInv, NEW m \in Mobiles, Come(m)
  PROVE  IInv'
<1>1. Oldest \in Slots
  BY OldestIsSlot DEF IInv
<1>2. \A i \in Slots : history[i].id # m
  BY DEF Come, Entries
<1> QED
  BY <1>1, <1>2, EntryInv DEF Come

LEMMA WaitInv ==
  ASSUME IInv, NEW m \in Mobiles, Wait(m)
  PROVE  IInv'
<1>1. /\ heard' = [heard EXCEPT ![m] = @ \cup {cur_time}] /\ opened' = Nobody
      /\ crowded' \in {cur_time, crowded} /\ history' = history /\ cur_time' = cur_time
  BY DEF Wait, Hear
<1>2. cur_time \in 1 .. MaxTime /\ cur_time \in 0 .. cur_time
  BY Constants, SMT DEF IInv, TypeOK
<1>3. TypeOK'
  BY <1>1, <1>2 DEF IInv, TypeOK
<1>4. \A k \in Mobiles : heard[k] \subseteq heard'[k]
  BY <1>1 DEF IInv, TypeOK
<1>5. Remembered' /\ Found'
  BY <1>1, <1>4 DEF IInv, Remembered, Found
<1> QED
  BY <1>3, <1>5 DEF IInv

\* The invariant is inductive.
LEMMA StepInv == IInv /\ [Next]_vars => IInv'
<1> SUFFICES ASSUME IInv, [Next]_vars PROVE IInv'
  OBVIOUS
<1>1. CASE UNCHANGED vars
  BY <1>1 DEF vars, IInv, TypeOK, Remembered, Found
<1> QED
  BY <1>1, SecondInv, LetInInv, ComeAgainInv, WaitInv, ComeInv DEF Next

LEMMA AlwaysInv == Spec => []IInv
BY InitInv, StepInv, PTL DEF Spec

-----------------------------------------------------------------------------
\* Entries hold mobiles and times gone by.
THEOREM TypeCorrect == Spec => []TypeOK
<1>1. IInv => TypeOK
  BY DEF IInv
<1> QED
  BY <1>1, AlwaysInv, PTL

\* Nobody is let in who was not heard INTERV_BEG to INTERV_END seconds ago,
\* however many mobiles compete for the entries.
THEOREM WaitingCorrect == Spec => LetInAfterWaiting
<1> DEFINE Waited ==
      \A m \in Mobiles : opened' = m /\ cur_time # INTERV_END =>
        \E t \in heard[m] : t + INTERV_BEG <= cur_time /\ cur_time <= t + INTERV_END
<1>1. ASSUME IInv, Next PROVE Waited \/ UNCHANGED vars
  <2>1. ASSUME NEW m \in Mobiles, opened' = m PROVE LetIn(m)
    BY <1>1, <2>1, Constants DEF Next, Second, ComeAgain, Wait, Come, Hear, LetIn
  <2> QED
    BY <1>1, <2>1, HasWaited
<1>2. IInv /\ [Next]_vars => [Waited]_vars
  BY <1>1
<1> QED
  BY <1>2, AlwaysInv, PTL DEF Spec, LetInAfterWaiting

-----------------------------------------------------------------------------
(* Who is heard regularly is let in.  A mobile heard at f has an entry with *)
(* a time t not yet INTERV_BEG seconds before f.  The entry stays until     *)
(* t + INTERV_END, for whoever takes it has found all the others as young,  *)
(* of mobiles that wait as well: then there are too many.                   *)

Entry(m, t) == \E i \in Slots : history[i].id = m /\ history[i].time = t

\* m, heard at f, has waited since t, and was not heard in time to be let in.
Waits(m, f, t) ==
  /\ t # 0 /\ t <= f /\ f < t + INTERV_BEG
  /\ \A x \in heard[m] : ~ (t + INTERV_BEG <= x /\ x <= t + INTERV_END)
  /\ cur_time <= t + INTERV_END => Entry(m, t)

Waiting == {m \in Mobiles : heard[m] # {}}

Patient ==
  /\ IsFiniteSet(Waiting)
  /\ \A m \in Mobiles : \A f \in heard[m] :
       INTERV_END - 1 <= f /\ crowded < f => \E t \in Nat : Waits(m, f, t)

\* The unsigned comparisons, from the second before INTERV_END on.
LEMMA TimesAre ==
  ASSUME TypeOK, INTERV_END - 1 <= cur_time, NEW t \in 0 .. cur_time
  PROVE  /\ InTime(t) <=> /\ INTERV_END <= cur_time /\ cur_time <= t + INTERV_END
                          /\ t + INTERV_BEG <= cur_time
         /\ TooOld(t) <=> (INTERV_END <= cur_time => t + INTERV_END < cur_time)
<1>1. cur_time \in 1 .. MaxTime
  BY DEF TypeOK
<1>2. /\ Minus(cur_time, INTERV_END) =
            IF INTERV_END <= cur_time THEN cur_time - INTERV_END ELSE (cur_time - INTERV_END) + WORD
      /\ Minus(cur_time, INTERV_BEG) = cur_time - INTERV_BEG
  <2>1. /\ cur_time \in Nat /\ cur_time < WORD /\ INTERV_END \in Nat /\ INTERV_END < WORD
        /\ INTERV_BEG \in Nat /\ INTERV_BEG < WORD /\ INTERV_BEG <= cur_time
    BY <1>1, Constants, SMT
  <2> QED
    BY <2>1, MinusValue
<1> DEFINE a == Minus(cur_time, INTERV_END)
           b == Minus(cur_time, INTERV_BEG)
<1>3. (InTime(t) <=> a <= t /\ t <= b) /\ (TooOld(t) <=> t < a)
  BY DEF InTime, TooOld
<1> HIDE DEF a, b
<1>4. /\ a = IF INTERV_END <= cur_time THEN cur_time - INTERV_END ELSE (cur_time - INTERV_END) + WORD
      /\ b = cur_time - INTERV_BEG
  BY <1>2 DEF a, b
<1> QED
  BY <1>1, <1>3, <1>4, Constants, SMT

\* The entries, if they all hold different mobiles and somebody else waits as
\* well, are fewer than those who wait.
LEMMA TooMany ==
  ASSUME NEW e, NEW m, NEW W, IsFiniteSet(W), m \in W,
         \A i \in Slots : e[i] \in W /\ e[i] # m,
         \A i, j \in Slots : i < j => e[i] # e[j]
  PROVE  Cardinality(W) > HISTORY_SIZE
<1> DEFINE S == 0 .. HISTORY_SIZE
           f == [i \in S |-> IF i = HISTORY_SIZE THEN m ELSE e[i]]
<1>1. HISTORY_SIZE \in Nat /\ S \subseteq Nat /\ \A i \in S : i # HISTORY_SIZE => i \in Slots
  BY Constants DEF Slots
<1>2. IsFiniteSet(S) /\ Cardinality(S) = HISTORY_SIZE + 1
  <2>1. 0 \in Int /\ HISTORY_SIZE \in Int /\ ~ (0 > HISTORY_SIZE)
    BY <1>1
  <2>2. Cardinality(S) = HISTORY_SIZE - 0 + 1
    BY <2>1, FS_Interval
  <2>3. IsFiniteSet(S)
    BY <2>1, FS_Interval
  <2> QED
    BY <1>1, <2>2, <2>3
<1>3. f \in [S -> W]
  BY <1>1
<1>4. Cardinality(W) \in Nat
  BY FS_CardinalityType
<1>5. SUFFICES ASSUME Cardinality(W) < Cardinality(S) PROVE FALSE
  BY <1>1, <1>2, <1>4
<1>6. PICK x, y \in S : x # y /\ f[x] = f[y]
  <2> HIDE DEF S, f
  <2> QED
    BY <1>2, <1>3, <1>5, FS_PigeonHole
<1>7. ASSUME NEW i \in S, NEW j \in S, i < j
      PROVE  f[i] # f[j]
  <2>1. i # HISTORY_SIZE /\ i \in Slots
    BY <1>1, <1>7
  <2>2. f[i] = e[i]
    BY <2>1
  <2>3. CASE j = HISTORY_SIZE
    BY <2>1, <2>2, <2>3
  <2>4. CASE j # HISTORY_SIZE
    BY <1>1, <1>7, <2>1, <2>2, <2>4
  <2> QED
    BY <2>3, <2>4
<1>8. x < y \/ y < x
  BY <1>1, <1>6
<1> QED
  BY <1>6, <1>7, <1>8

\* m is heard: its entry is a young one then, and nobody else's is lost unless
\* there are too many.
LEMMA HearKeeps ==
  ASSUME IInv, Patient, NEW m \in Mobiles, Hear(m), cur_time' = cur_time,
         \A k \in Mobiles \ {m} : \A t \in Nat :
           t # 0 /\ cur_time <= t + INTERV_END /\ crowded' < cur_time /\ Entry(k, t) => Entry(k, t)',
         INTERV_END - 1 <= cur_time =>
           \E t \in Nat : t # 0 /\ t <= cur_time /\ cur_time < t + INTERV_BEG /\ Entry(m, t)',
         \A t \in Nat :
           t # 0 /\ INTERV_END <= cur_time /\ cur_time <= t + INTERV_END /\ Entry(m, t)
           => Entry(m, t)' /\ ~ (t + INTERV_BEG <= cur_time)
  PROVE  Patient'
<1>1. /\ heard' = [heard EXCEPT ![m] = @ \cup {cur_time}] /\ crowded' \in {cur_time, crowded}
      /\ heard \in [Mobiles -> SUBSET (0 .. cur_time)]
  BY DEF Hear, IInv, TypeOK
<1>2. cur_time \in Nat /\ crowded \in Nat /\ crowded <= cur_time /\ INTERV_BEG \in Nat /\ INTERV_END \in Nat
  BY Constants DEF IInv, TypeOK
<1>3. \A k \in Mobiles : heard'[k] = IF k = m THEN heard[m] \cup {cur_time} ELSE heard[k]
  BY <1>1
<1>4. IsFiniteSet(Waiting')
  <2>1. Waiting' = Waiting \cup {m}
    BY <1>3 DEF Waiting
  <2> QED
    BY <2>1, FS_AddElement DEF Patient
<1>5. ASSUME NEW k \in Mobiles \ {m}, NEW f \in heard'[k], INTERV_END - 1 <= f, crowded' < f
      PROVE  \E t \in Nat : Waits(k, f, t)'
  <2>1. f \in heard[k] /\ f \in 0 .. cur_time /\ heard'[k] = heard[k]
    BY <1>1, <1>3
  <2>2. crowded' = crowded /\ crowded' < cur_time
    BY <1>1, <1>2, <1>5, <2>1
  <2>3. PICK t \in Nat : Waits(k, f, t)
    BY <1>5, <2>1, <2>2 DEF Patient
  <2>4. Waits(k, f, t)'
    <3>1. cur_time' <= t + INTERV_END => Entry(k, t)'
      BY <2>2, <2>3 DEF Waits
    <3> QED
      BY <2>1, <2>3, <3>1 DEF Waits
  <2> QED
    BY <2>4
<1>6. ASSUME INTERV_END - 1 <= cur_time
      PROVE  \E t \in Nat : Waits(m, cur_time, t)'
  <2>1. PICK t \in Nat : t # 0 /\ t <= cur_time /\ cur_time < t + INTERV_BEG /\ Entry(m, t)'
    BY <1>6
  <2>2. ASSUME NEW x \in heard'[m] PROVE ~ (t + INTERV_BEG <= x)
    <3>1. x \in 0 .. cur_time
      BY <1>1, <1>2, <1>3
    <3> QED
      BY <1>2, <2>1, <3>1
  <2>3. Waits(m, cur_time, t)'
    BY <2>1, <2>2 DEF Waits
  <2> QED
    BY <2>3
<1>7. ASSUME NEW f \in heard'[m], INTERV_END - 1 <= f, crowded' < f, f # cur_time
      PROVE  \E t \in Nat : Waits(m, f, t)'
  <2>1. f \in heard[m] /\ f \in 0 .. cur_time
    BY <1>1, <1>3, <1>7
  <2>2. f < cur_time /\ INTERV_END <= cur_time /\ crowded' = crowded
    BY <1>1, <1>2, <1>7, <2>1
  <2>3. PICK t \in Nat : Waits(m, f, t)
    BY <1>7, <2>1, <2>2 DEF Patient
  <2>4. cur_time <= t + INTERV_END => Entry(m, t)' /\ ~ (t + INTERV_BEG <= cur_time)
    BY <2>2, <2>3 DEF Waits
  <2>5. \A x \in heard'[m] : ~ (t + INTERV_BEG <= x /\ x <= t + INTERV_END)
    BY <1>3, <2>3, <2>4 DEF Waits
  <2>6. Waits(m, f, t)'
    BY <2>3, <2>4, <2>5 DEF Waits
  <2> QED
    BY <2>6
<1>8. \A k \in Mobiles : \A f \in heard'[k] :
        INTERV_END - 1 <= f /\ crowded' < f => \E t \in Nat : Waits(k, f, t)'
  BY <1>5, <1>6, <1>7
<1> QED
  BY <1>4, <1>8 DEF Patient

LEMMA WaitKeeps ==
  ASSUME IInv, Patient, NEW m \in Mobiles, Wait(m)
  PROVE  Patient'
<1>1. PICK l \in Slots : /\ l = Loc(m) /\ history[l].id = m
                         /\ \A i \in Slots : history[i].id = m => l <= i
  BY LocFirst DEF Wait
<1>2. PICK t \in 0 .. cur_time : t = history[l].time
  BY DEF IInv, TypeOK
<1>3. Hear(m) /\ cur_time' = cur_time /\ history' = history /\ ~ InTime(t) /\ ~ TooOld(t)
  BY <1>1, <1>2 DEF Wait
<1>4. t \in Nat /\ t <= cur_time /\ cur_time \in Nat /\ Slots \subseteq Nat
  BY Constants, SMT DEF IInv, TypeOK, Slots
<1>5. \A k \in Mobiles : \A x \in Nat : Entry(k, x) => Entry(k, x)'
  BY <1>3 DEF Entry
<1>6. Entry(m, t)'
  BY <1>1, <1>2, <1>5, <1>4 DEF Entry
<1>7. ASSUME INTERV_END - 1 <= cur_time
      PROVE  t # 0 /\ INTERV_END <= cur_time /\ cur_time <= t + INTERV_END /\ cur_time < t + INTERV_BEG
  <2>1. ~ (INTERV_END <= cur_time /\ cur_time <= t + INTERV_END /\ t + INTERV_BEG <= cur_time)
    BY <1>3, <1>7, TimesAre DEF IInv
  <2>2. ~ (INTERV_END <= cur_time => t + INTERV_END < cur_time)
    BY <1>3, <1>7, TimesAre DEF IInv
  <2> QED
    BY <1>4, <2>1, <2>2, Constants
<1>8. ASSUME NEW x \in Nat, x # 0, INTERV_END <= cur_time, Entry(m, x)
      PROVE  ~ (x + INTERV_BEG <= cur_time)
  <2>1. PICK i \in Slots : history[i].id = m /\ history[i].time = x
    BY <1>8 DEF Entry
  <2>2. l <= i /\ ~ (l < i)
    BY <1>1, <1>8, <2>1 DEF IInv, Found
  <2>3. i = l
    BY <1>4, <2>2
  <2>4. x = t
    BY <1>2, <2>1, <2>3
  <2> QED
    BY <1>4, <1>7, <1>8, <2>4, Constants
<1>9. INTERV_END - 1 <= cur_time =>
        \E x \in Nat : x # 0 /\ x <= cur_time /\ cur_time < x + INTERV_BEG /\ Entry(m, x)'
  BY <1>4, <1>6, <1>7
<1> QED
  BY <1>3, <1>5, <1>8, <1>9, HearKeeps

LEMMA ComeAgainKeeps ==
  ASSUME IInv, Patient, NEW m \in Mobiles, ComeAgain(m)
  PROVE  Patient'
<1> DEFINE l == Loc(m)
           t == history[l].time
<1>1. /\ l \in Slots /\ history[l].id = m
      /\ \A i \in Slots : history[i].id = m => l <= i
  BY LocFirst DEF ComeAgain
<1>2. /\ Hear(m) /\ cur_time' = cur_time /\ history' = [history EXCEPT ![l].time = cur_time]
      /\ TooOld(t)
  BY DEF ComeAgain
<1>3. t \in 0 .. cur_time /\ cur_time \in Nat \ {0} /\ Slots \subseteq Nat
  BY <1>1, Constants, SMT DEF IInv, TypeOK, Slots
<1> HIDE DEF l
<1>4. /\ \A i \in Slots : history'[i].id = history[i].id
      /\ history'[l].time = cur_time
      /\ \A i \in Slots \ {l} : history'[i].time = history[i].time
  BY <1>1, <1>2 DEF IInv, TypeOK
<1>5. \A k \in Mobiles \ {m} : \A x \in Nat : Entry(k, x) => Entry(k, x)'
  BY <1>1, <1>4 DEF Entry
<1>6. Entry(m, cur_time)'
  <2>1. l \in Slots /\ history'[l].id = m /\ history'[l].time = cur_time'
    BY <1>1, <1>2, <1>4
  <2> QED
    BY <2>1 DEF Entry
<1>7. ASSUME NEW x \in Nat, x # 0, INTERV_END <= cur_time, cur_time <= x + INTERV_END, Entry(m, x)
      PROVE  FALSE
  <2>1. PICK i \in Slots : history[i].id = m /\ history[i].time = x
    BY <1>7 DEF Entry
  <2>2. l <= i /\ ~ (l < i)
    BY <1>1, <1>7, <2>1 DEF IInv, Found
  <2>3. i = l
    BY <1>1, <1>3, <2>2
  <2>4. x = t
    BY <2>1, <2>3
  <2> HIDE DEF t
  <2>5. INTERV_END - 1 <= cur_time
    BY <1>3, <1>7, Constants
  <2>6. t + INTERV_END < cur_time
    BY <1>2, <1>3, <1>7, <2>5, TimesAre DEF IInv
  <2> QED
    BY <1>3, <1>7, <2>4, <2>6, Constants
<1>8. cur_time \in Nat /\ cur_time # 0 /\ cur_time <= cur_time /\ cur_time < cur_time + INTERV_BEG
  BY <1>3, Constants
<1>9. \E x \in Nat : x # 0 /\ x <= cur_time /\ cur_time < x + INTERV_BEG /\ Entry(m, x)'
  BY <1>2, <1>6, <1>8 DEF Entry
<1> QED
  BY <1>2, <1>5, <1>7, <1>9, HearKeeps

LEMMA ComeKeeps ==
  ASSUME IInv, Patient, NEW m \in Mobiles, Come(m)
  PROVE  Patient'
<1>1. PICK o \in Slots : o = Oldest /\ \A j \in Slots : history[o].time <= history[j].time
  BY OldestIsSlot DEF IInv
<1>2. /\ Hear(m) /\ cur_time' = cur_time /\ history' = [history EXCEPT ![o] = [id |-> m, time |-> cur_time]]
      /\ \A i \in Slots : history[i].id # m
  BY <1>1 DEF Come, Entries
<1>3. /\ history'[o].id = m /\ history'[o].time = cur_time
      /\ \A i \in Slots \ {o} : history'[i] = history[i]
  BY <1>2 DEF IInv, TypeOK
<1>4. cur_time \in Nat \ {0} /\ \A i \in Slots : history[i].time \in Nat
  <2>1. cur_time \in Nat \ {0} /\ \A i \in Slots : history[i].time \in 0 .. cur_time
    BY Constants, SMT DEF IInv, TypeOK
  <2> QED
    BY <2>1
<1>5. ASSUME NEW k \in Mobiles \ {m}, NEW t \in Nat, t # 0, cur_time <= t + INTERV_END,
             crowded' < cur_time, Entry(k, t)
      PROVE  Entry(k, t)'
  <2>1. PICK i \in Slots : history[i].id = k /\ history[i].time = t
    BY <1>5 DEF Entry
  <2>2. CASE i # o
    BY <1>3, <2>1, <2>2 DEF Entry
  <2>3. CASE i = o
    <3> DEFINE e == [j \in Slots |-> history[j].id]
               W == {n \in Mobiles : heard'[n] # {}}
    <3>1. /\ heard' = [heard EXCEPT ![m] = @ \cup {cur_time}]
          /\ crowded' = IF Cardinality(W) > HISTORY_SIZE THEN cur_time ELSE crowded
      BY <1>2 DEF Hear
    <3>2. \A n \in Mobiles : heard'[n] = IF n = m THEN heard[m] \cup {cur_time} ELSE heard[n]
      BY <3>1 DEF IInv, TypeOK
    <3>3. m \in W /\ Waiting \subseteq W /\ W = Waiting \cup {m}
      BY <3>2 DEF Waiting
    <3>4. IsFiniteSet(W)
      BY <3>3, FS_AddElement DEF Patient
    <3>5. ASSUME NEW j \in Slots
          PROVE  history[j].time # 0 /\ history[j].id \in Waiting
      <4>1. t <= history[j].time
        BY <1>1, <2>1, <2>3
      <4>2. history[j].time # 0 /\ cur_time <= history[j].time + INTERV_END
        BY <1>4, <1>5, <4>1, Constants
      <4> QED
        BY <4>2 DEF IInv, Remembered, Waiting
    <3>6. \A j \in Slots : e[j] \in W /\ e[j] # m
      BY <1>2, <3>3, <3>5
    <3>7. \A j, n \in Slots : j < n => e[j] # e[n]
      BY <3>5 DEF IInv, Found
    <3> HIDE DEF e, W
    <3>8. Cardinality(W) > HISTORY_SIZE
      BY <3>3, <3>4, <3>6, <3>7, TooMany
    <3>9. crowded' = cur_time
      BY <3>1, <3>8
    <3> QED
      BY <1>4, <1>5, <3>9
  <2> QED
    BY <2>2, <2>3
<1>6. Entry(m, cur_time)'
  BY <1>2, <1>3 DEF Entry
<1>7. \E t \in Nat : t # 0 /\ t <= cur_time /\ cur_time < t + INTERV_BEG /\ Entry(m, t)'
  <2>1. cur_time # 0 /\ cur_time <= cur_time /\ cur_time < cur_time + INTERV_BEG
    BY <1>4, Constants
  <2> QED
    BY <1>2, <1>4, <1>6, <2>1 DEF Entry
<1>8. \A t : ~ Entry(m, t)
  BY <1>2 DEF Entry
<1> QED
  BY <1>2, <1>5, <1>7, <1>8, HearKeeps

\* Who is let in waits no more, and the others' entries stay.
LEMMA LetInKeeps ==
  ASSUME IInv, Patient, NEW m \in Mobiles, LetIn(m)
  PROVE  Patient'
<1>1. PICK l \in Slots : l = Loc(m) /\ history[l].id = m
  BY LocFirst DEF LetIn
<1>2. /\ history' = [history EXCEPT ![l].time = 0] /\ heard' = [heard EXCEPT ![m] = {}]
      /\ cur_time' = cur_time /\ crowded' = crowded
  BY <1>1 DEF LetIn
<1>3. \A k \in Mobiles : heard'[k] = IF k = m THEN {} ELSE heard[k]
  BY <1>2 DEF IInv, TypeOK
<1>4. /\ \A i \in Slots : history'[i].id = history[i].id
      /\ \A i \in Slots \ {l} : history'[i].time = history[i].time
  BY <1>2 DEF IInv, TypeOK
<1>5. IsFiniteSet(Waiting')
  <2>1. Waiting' \in SUBSET Waiting
    BY <1>3 DEF Waiting
  <2> QED
    BY <2>1, FS_Subset DEF Patient
<1>6. ASSUME NEW k \in Mobiles, NEW f \in heard'[k], INTERV_END - 1 <= f, crowded' < f
      PROVE  \E t \in Nat : Waits(k, f, t)'
  <2>1. k # m /\ f \in heard[k] /\ heard'[k] = heard[k]
    BY <1>3
  <2>2. PICK t \in Nat : Waits(k, f, t)
    BY <1>2, <1>6, <2>1 DEF Patient
  <2>3. Entry(k, t) => Entry(k, t)'
    BY <1>1, <1>4, <2>1 DEF Entry
  <2>4. Waits(k, f, t)'
    BY <1>2, <2>1, <2>2, <2>3 DEF Waits
  <2> QED
    BY <2>4
<1> QED
  BY <1>5, <1>6 DEF Patient

LEMMA SecondKeeps ==
  ASSUME IInv, Patient, Second
  PROVE  Patient'
<1>1. /\ cur_time' = cur_time + 1 /\ history' = history /\ crowded' = crowded /\ cur_time \in Nat
      /\ \A k \in Mobiles : heard'[k] \subseteq heard[k]
  BY Constants, SMT DEF Second, IInv, TypeOK
<1>2. IsFiniteSet(Waiting')
  <2>1. Waiting' \in SUBSET Waiting
    BY <1>1 DEF Waiting
  <2> QED
    BY <2>1, FS_Subset DEF Patient
<1>3. ASSUME NEW k \in Mobiles, NEW f \in heard'[k], INTERV_END - 1 <= f, crowded' < f
      PROVE  \E t \in Nat : Waits(k, f, t)'
  <2>1. f \in heard[k]
    BY <1>1
  <2>2. PICK t \in Nat : Waits(k, f, t)
    BY <1>1, <1>3, <2>1 DEF Patient
  <2>3. cur_time' <= t + INTERV_END => cur_time <= t + INTERV_END
    BY <1>1, Constants
  <2>4. Entry(k, t) => Entry(k, t)'
    BY <1>1 DEF Entry
  <2>5. Waits(k, f, t)'
    BY <1>1, <2>2, <2>3, <2>4 DEF Waits
  <2> QED
    BY <2>5
<1> QED
  BY <1>2, <1>3 DEF Patient

LEMMA PatientInit == Init => Patient
<1> SUFFICES ASSUME Init PROVE Patient
  OBVIOUS
<1>1. \A m \in Mobiles : heard[m] = {}
  BY DEF Init
<1>2. Waiting = {}
  BY <1>1 DEF Waiting
<1> QED
  BY <1>1, <1>2, FS_EmptySet DEF Patient

LEMMA PatientStep == IInv /\ Patient /\ [Next]_vars => Patient'
<1> SUFFICES ASSUME IInv, Patient, [Next]_vars PROVE Patient'
  OBVIOUS
<1>1. CASE UNCHANGED vars
  BY <1>1 DEF vars, Patient, Waiting, Waits, Entry
<1> QED
  BY <1>1, SecondKeeps, LetInKeeps, ComeAgainKeeps, WaitKeeps, ComeKeeps DEF Next

\* While there is room for all who wait, nobody who is heard regularly is kept
\* waiting longer than INTERV_END seconds, for any mobiles, entries and times
\* (tcpip_handler).
THEOREM NobodyIsForgotten == Spec => NobodyWaitsForever
<1> DEFINE Served == cur_time' # cur_time =>
                       \A m \in Mobiles : Overdue(m) => crowded >= cur_time - INTERV_END
<1>1. ASSUME IInv, Patient PROVE Served
  <2>1. SUFFICES ASSUME NEW m \in Mobiles, Overdue(m), crowded < cur_time - INTERV_END
                 PROVE  FALSE
    <3>1. crowded \in Nat /\ cur_time \in Nat /\ INTERV_END \in Nat
      BY <1>1, Constants, SMT DEF IInv, TypeOK
    <3> QED
      BY <2>1, <3>1
  <2> DEFINE f == cur_time - INTERV_END
  <2>2. cur_time \in Nat /\ f \in Int /\ INTERV_END \in Nat /\ INTERV_BEG \in Nat /\ heard[m] \subseteq Nat
    BY <1>1, Constants, SMT DEF IInv, TypeOK
  <2>3. f >= INTERV_END - 1 /\ f \in heard[m]
    BY <2>1 DEF Overdue
  <2>4. PICK t \in Nat : Waits(m, f, t)
    <3>1. INTERV_END - 1 <= f /\ crowded < f
      BY <2>1, <2>2, <2>3
    <3> HIDE DEF f
    <3> QED
      BY <1>1, <2>3, <3>1 DEF Patient
  <2>5. t <= f /\ f < t + INTERV_BEG /\ t # 0
    BY <2>4 DEF Waits
  <2>6. t + INTERV_BEG - 1 \in f .. cur_time - (INTERV_END - INTERV_BEG + 1)
    BY <2>2, <2>5
  <2>7. PICK s \in (t + INTERV_BEG - 1 + 1) .. (t + INTERV_BEG - 1 + INTERV_END - INTERV_BEG + 1) : s \in heard[m]
    BY <2>1, <2>6 DEF Overdue
  <2>8. t + INTERV_BEG <= s /\ s <= t + INTERV_END
    BY <2>2, <2>7
  <2> QED
    BY <2>4, <2>7, <2>8 DEF Waits
<1>2. IInv /\ Patient => Served
  BY <1>1
<1>3. Spec => []Patient
  BY PatientInit, PatientStep, AlwaysInv, PTL DEF Spec
<1>4. IInv /\ Patient /\ [Next]_vars => [Served]_vars
  BY <1>2
<1> QED
  BY <1>3, <1>4, AlwaysInv, PTL DEF Spec, NobodyWaitsForever
=============================================================================
