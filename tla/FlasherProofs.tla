---------------------------- MODULE FlasherProofs ----------------------------
(***************************************************************************)
(* Proofs about the flash programmer, for files, blocks, banks and words   *)
(* of any size.  A line that damages bytes leaves the two programs in step *)
(* or stops them, up to a write behind the Arduino's buffer; as long as    *)
(* nothing is damaged the memory holds what was written so far; and if one *)
(* byte was damaged, a host that reads the file back without a complaint   *)
(* has compared every byte of it.                                          *)
(***************************************************************************)
EXTENDS Flasher, SequenceTheorems, WellFoundedInduction, TLAPS

-----------------------------------------------------------------------------
(* Numbers: words, the bytes of an address. *)

\* The constants, one fact at a time.
LEMMA Constants ==
  /\ BYTE \in Nat /\ BYTE >= 4 /\ WORD \in Nat \ {0}
  /\ BUFFER_SIZE \in Nat /\ BUFFER_SIZE >= 4 /\ BUFFER_SIZE < BYTE * BYTE
  /\ BUFFER_SIZE % WORD = 0 /\ BANK \in Nat \ {0} /\ DAMAGES \in Nat
  /\ FLASH = BYTE * BYTE * 4 /\ FLASH % WORD = 0
BY FlasherAssumption, SMT

\* The sizes of the memories are numbers.
LEMMA Sizes == BYTE * BYTE \in Nat \ {0} /\ FLASH \in Nat \ {0} /\ FLASH = 4 * (BYTE * BYTE)
<1>1. BYTE * BYTE \in Nat /\ BYTE * BYTE >= 16
  BY Constants, SMT
<1> QED
  BY <1>1, Constants, SMT

\* A file is a sequence of bytes that fits into the memory.
LEMMA FileType ==
  ASSUME NEW f \in Files
  PROVE  /\ f \in Seq(Bytes) /\ Len(f) \in Nat /\ Len(f) <= FLASH
         /\ \A i \in 1 .. Len(f) : f[i] \in Bytes
<1>1. f \in Seq(Bytes) /\ Len(f) <= FLASH
  BY FlasherAssumption DEF Bytes
<1> QED
  BY <1>1, LenProperties

\* A number is a multiple of s and its remainder.
LEMMA Division ==
  ASSUME NEW a \in Int, NEW s \in Nat \ {0}
  PROVE  /\ a \div s \in Int /\ (a % s) \in 0 .. s - 1
         /\ a = s * (a \div s) + (a % s)
BY SMT

\* They exist, as numbers with names.
LEMMA DivisionExists ==
  ASSUME NEW a \in Int, NEW s \in Nat \ {0}
  PROVE  \E q \in Int, r \in 0 .. s - 1 : a = s * q + r /\ q = a \div s /\ r = a % s
<1> DEFINE x == a \div s  y == a % s
<1>1. x \in Int /\ y \in 0 .. s - 1 /\ a = s * x + y
  BY Division
<1>2. x = a \div s /\ y = a % s
  OBVIOUS
<1> HIDE DEF x, y
<1> QED
  BY <1>1, <1>2, Zenon

\* A multiple is one.
LEMMA MultipleIs ==
  ASSUME NEW a \in Int, NEW s \in Nat \ {0}, (a % s) = 0
  PROVE  \E q \in Int : a = s * q
<1>1. PICK q \in Int, r \in 0 .. s - 1 : a = s * q + r /\ q = a \div s /\ r = a % s
  BY DivisionExists
<1>2. s * q \in Int
  BY SMT
<1>3. a = s * q
  BY <1>1, <1>2, SMT
<1> QED
  BY <1>3

\* The quotient and the remainder are the only ones.
LEMMA DivisionUnique ==
  ASSUME NEW s \in Nat \ {0}, NEW q \in Int, NEW p \in Int,
         NEW r \in 0 .. s - 1, NEW t \in 0 .. s - 1, s * q + r = s * p + t
  PROVE  q = p /\ r = t
<1>1. CASE q < p
  <2>1. s * (p - q) >= s /\ s * (p - q) = s * p - s * q
    BY <1>1, SMT
  <2> QED
    BY <2>1, SMT
<1>2. CASE p < q
  <2>1. s * (q - p) >= s /\ s * (q - p) = s * q - s * p
    BY <1>2, SMT
  <2> QED
    BY <2>1, SMT
<1> QED
  BY <1>1, <1>2, SMT

\* ... so a number that is written as both tells them.
LEMMA DivisionIs ==
  ASSUME NEW s \in Nat \ {0}, NEW q \in Int, NEW r \in 0 .. s - 1
  PROVE  ((s * q + r) % s) = r /\ (s * q + r) \div s = q
<1> DEFINE a == s * q + r
<1>1. a \in Int
  BY SMT
<1> HIDE DEF a
<1>2. PICK x \in Int, y \in 0 .. s - 1 : a = s * x + y /\ x = a \div s /\ y = a % s
  BY <1>1, DivisionExists
<1>3. s * q + r = s * x + y
  BY <1>2 DEF a
<1>4. q = x /\ r = y
  BY <1>3, DivisionUnique
<1> QED
  BY <1>2, <1>4 DEF a

\* A multiple leaves nothing.
LEMMA MultipleLeavesNothing ==
  ASSUME NEW s \in Nat \ {0}, NEW q \in Int
  PROVE  ((s * q) % s) = 0
<1>1. 0 \in 0 .. s - 1
  BY SMT
<1>2. ((s * q + 0) % s) = 0
  BY <1>1, DivisionIs
<1>3. s * q + 0 = s * q
  BY SMT
<1> QED
  BY <1>2, <1>3

\* A remainder is its own.
LEMMA SmallIs ==
  ASSUME NEW s \in Nat \ {0}, NEW r \in 0 .. s - 1
  PROVE  (r % s) = r /\ r \div s = 0
<1>1. ((s * 0 + r) % s) = r /\ (s * 0 + r) \div s = 0
  BY DivisionIs
<1>2. s * 0 + r = r
  BY SMT
<1> QED
  BY <1>1, <1>2

\* The sum of two multiples is one.
LEMMA MultipleSum ==
  ASSUME NEW a \in Int, NEW b \in Int, NEW s \in Nat \ {0}, (a % s) = 0, (b % s) = 0
  PROVE  ((a + b) % s) = 0
<1>1. PICK q \in Int : a = s * q
  BY MultipleIs
<1>2. PICK p \in Int : b = s * p
  BY MultipleIs
<1>3. a + b = s * (q + p) /\ q + p \in Int
  BY <1>1, <1>2, SMT
<1> QED
  BY <1>3, MultipleLeavesNothing

\* Multiples are at least s apart.
LEMMA MultipleBelow ==
  ASSUME NEW a \in Int, NEW b \in Int, NEW s \in Nat \ {0}, (a % s) = 0, (b % s) = 0, a < b + s
  PROVE  a <= b
<1>1. PICK q \in Int : a = s * q
  BY MultipleIs
<1>2. PICK p \in Int : b = s * p
  BY MultipleIs
<1>3. CASE q > p
  <2>1. s * (q - p) >= s /\ s * (q - p) = s * q - s * p
    BY <1>3, SMT
  <2> QED
    BY <2>1, <1>1, <1>2, SMT
<1>4. CASE q <= p
  <2>1. s * (p - q) >= 0 /\ s * (p - q) = s * p - s * q
    BY <1>4, SMT
  <2> QED
    BY <2>1, <1>1, <1>2, SMT
<1> QED
  BY <1>3, <1>4, SMT

\* A number filled up to a multiple of s.
LEMMA FilledUp ==
  ASSUME NEW n \in Nat, NEW s \in Nat \ {0}
  PROVE  /\ n + ((s - (n % s)) % s) \in Nat
         /\ n <= n + ((s - (n % s)) % s) /\ n + ((s - (n % s)) % s) < n + s
         /\ ((n + ((s - (n % s)) % s)) % s) = 0
<1>1. PICK q \in Int, r \in 0 .. s - 1 : n = s * q + r /\ q = n \div s /\ r = n % s
  BY DivisionExists
<1>2. CASE r = 0
  <2>1. s = s * 1 /\ s - 0 = s
    BY SMT
  <2>2. ((s - 0) % s) = 0
    BY <2>1, MultipleLeavesNothing
  <2>3. ((s - (n % s)) % s) = 0
    BY <1>1, <1>2, <2>2
  <2>4. (n % s) = 0 /\ n + 0 = n
    BY <1>1, <1>2, SMT
  <2>5. n + 0 \in Nat /\ n <= n + 0 /\ n + 0 < n + s
    BY SMT
  <2> QED
    BY <2>3, <2>4, <2>5
<1>3. CASE r # 0
  <2>1. s - r \in 0 .. s - 1 /\ q + 1 \in Int
    BY <1>3, SMT
  <2>2. ((s - r) % s) = s - r
    BY <2>1, SmallIs
  <2>3. n + (s - r) = s * (q + 1)
    BY <1>1, SMT
  <2>4. ((n + (s - r)) % s) = 0
    BY <2>1, <2>3, MultipleLeavesNothing
  <2>5. n + (s - r) \in Nat /\ n <= n + (s - r) /\ n + (s - r) < n + s
    BY <2>1, SMT
  <2> QED
    BY <1>1, <2>2, <2>4, <2>5
<1> QED
  BY <1>2, <1>3

\* The three bytes of an address make the address.
LEMMA AddressBack ==
  ASSUME NEW c \in 0 .. FLASH - 1
  PROVE  /\ Low(c) \in Bytes /\ Middle(c) \in Bytes /\ High(c) \in Bytes
         /\ Low(c) + BYTE * Middle(c) + BYTE * BYTE * High(c) = c
<1>1. BYTE \in Nat \ {0} /\ BYTE >= 4 /\ BYTE * BYTE \in Nat \ {0} /\ FLASH = 4 * (BYTE * BYTE)
  BY Constants, Sizes, SMT
<1>2. PICK q \in Int, l \in 0 .. BYTE - 1 : c = BYTE * q + l /\ q = c \div BYTE /\ l = c % BYTE
  BY <1>1, DivisionExists
<1>3. PICK h \in Int, m \in 0 .. BYTE - 1 : q = BYTE * h + m /\ h = q \div BYTE /\ m = q % BYTE
  BY <1>1, DivisionExists
<1>4. c = (BYTE * BYTE) * h + (BYTE * m + l)
  <2>1. BYTE * q = BYTE * (BYTE * h) + BYTE * m
    BY <1>1, <1>3, SMT
  <2>2. BYTE * (BYTE * h) = (BYTE * BYTE) * h
    BY <1>1, SMT
  <2>3. BYTE * m \in Int /\ (BYTE * BYTE) * h \in Int
    BY <1>1, SMT
  <2> QED
    BY <2>1, <2>2, <2>3, <1>2, SMT
<1>5. BYTE * m + l \in 0 .. BYTE * BYTE - 1
  <2>1. BYTE * (BYTE - 1 - m) >= 0 /\ BYTE * (BYTE - 1 - m) = BYTE * BYTE - BYTE - BYTE * m
    BY <1>1, SMT
  <2>2. BYTE * m \in Int /\ BYTE * m >= 0
    BY <1>1, SMT
  <2> QED
    BY <2>1, <2>2, <1>1, SMT
<1>6. c \div (BYTE * BYTE) = h
  BY <1>1, <1>4, <1>5, DivisionIs
<1>7. h \in 0 .. 3
  <2>1. PICK s \in Nat \ {0} : s = BYTE * BYTE
    BY <1>1
  <2>2. PICK r \in 0 .. s - 1 : r = BYTE * m + l
    BY <1>5, <2>1
  <2>3. c = s * h + r /\ c >= 0 /\ c < 4 * s
    BY <1>1, <1>4, <2>1, <2>2, SMT
  <2>4. CASE h < 0
    <3>1. s * (0 - h) >= s /\ s * (0 - h) = 0 - s * h
      BY <2>4, SMT
    <3> QED
      BY <3>1, <2>3, SMT
  <2>5. CASE h > 3
    <3>1. s * (h - 4) >= 0 /\ s * (h - 4) = s * h - 4 * s
      BY <2>5, SMT
    <3> QED
      BY <3>1, <2>3, SMT
  <2> QED
    BY <2>4, <2>5, SMT
<1>8. (h % 4) = h
  BY <1>7, SMT
<1>9. High(c) = h /\ Middle(c) = m /\ Low(c) = l
  BY <1>2, <1>3, <1>6, <1>8 DEF High, Middle, Low
<1>10. l + BYTE * m + BYTE * BYTE * h = c
  <2>1. BYTE * m \in Int /\ (BYTE * BYTE) * h \in Int
    BY <1>1, SMT
  <2> QED
    BY <2>1, <1>4, SMT
<1> QED
  BY <1>1, <1>7, <1>9, <1>10, SMT DEF Bytes

\* The two bytes of a size make the size, whatever is in the third.
LEMMA SizeBack ==
  ASSUME NEW n \in 0 .. BYTE * BYTE - 1, NEW x \in Int
  PROVE  /\ Low(n) \in Bytes /\ Middle(n) \in Bytes
         /\ ((Low(n) + BYTE * Middle(n) + BYTE * BYTE * x) % (BYTE * BYTE)) = n
<1>1. BYTE \in Nat \ {0} /\ BYTE * BYTE \in Nat \ {0} /\ n \in Int
  BY Constants, Sizes, SMT
<1>2. PICK q \in Int, l \in 0 .. BYTE - 1 : n = BYTE * q + l /\ q = n \div BYTE /\ l = n % BYTE
  BY <1>1, DivisionExists
<1>3. q \in 0 .. BYTE - 1
  <2>1. CASE q < 0
    <3>1. BYTE * (0 - q) >= BYTE /\ BYTE * (0 - q) = 0 - BYTE * q
      BY <1>1, <2>1, SMT
    <3> QED
      BY <3>1, <1>2, <1>1, SMT
  <2>2. CASE q > BYTE - 1
    <3>1. BYTE * (q - BYTE) >= 0 /\ BYTE * (q - BYTE) = BYTE * q - BYTE * BYTE
      BY <1>1, <2>2, SMT
    <3> QED
      BY <3>1, <1>2, <1>1, SMT
  <2> QED
    BY <2>1, <2>2, <1>1, SMT
<1>4. (q % BYTE) = q
  BY <1>1, <1>3, SmallIs
<1>5. Low(n) = l /\ Middle(n) = q
  BY <1>2, <1>4 DEF Low, Middle
<1>6. Low(n) + BYTE * Middle(n) + BYTE * BYTE * x = (BYTE * BYTE) * x + n
  <2>1. BYTE * q \in Int /\ (BYTE * BYTE) * x \in Int
    BY <1>1, SMT
  <2> QED
    BY <1>2, <1>5, <2>1, SMT
<1>7. (((BYTE * BYTE) * x + n) % (BYTE * BYTE)) = n
  BY <1>1, DivisionIs
<1> QED
  BY <1>3, <1>5, <1>6, <1>7 DEF Bytes

-----------------------------------------------------------------------------
(* What is on the line, however many bytes were damaged. *)

\* The Arduino takes no command any more, for it has none or never will.
Doomed == ~ arduino.alive \/ (toArduino # <<>> /\ Head(toArduino).type # "command")
Quiet == toArduino = <<>> \/ Doomed

\* The host will come to an exit or to a reply that never comes: it waits for
\* one, or it is about to exit; or one step is left to it that is acknowledged
\* already, or two.
Lost ==
  /\ Quiet
  /\ \/ at = "exit"
     \/ waiting /\ toHost = <<>>
     \/ waiting /\ toHost # <<>> /\ Head(toHost).type \notin Due
     \/ /\ ~ waiting /\ toHost = <<>> /\ at \in {"write_buffer", "write", "read"}
        /\ Doomed /\ Len(toArduino) <= 1
     \/ /\ waiting /\ Len(toHost) = 1 /\ at \in {"write_addr", "write_buffer", "read_addr", "read"}
        /\ Doomed /\ Len(toArduino) <= 1

\* The Arduino has answered a request to read whose size was cut, and will give
\* up; the host goes on to its next request, or to the end.
Left ==
  /\ Doomed /\ Len(toArduino) <= 1
  /\ \/ waiting /\ at = "read" /\ Len(toHost) = 2
     \/ waiting /\ at = "read_ack" /\ Len(toHost) = 1
     \/ ~ waiting /\ at \in {"read_addr", "verified"} /\ toHost = <<>>

Idle == ~ waiting /\ toArduino = <<>> /\ toHost = <<>>
Asked ==
  /\ waiting /\ at # "read_ack" /\ toHost = <<>>
  /\ Len(toArduino) = Len(Request(at))
  /\ toArduino[1].type \in {"command", "rejected"}
  /\ Len(toArduino) = 2 => toArduino[2].type # "command"
Answered ==
  /\ waiting /\ toArduino = <<>>
  /\ Len(toHost) = IF at = "read" THEN 2 ELSE 1

\* The host's step, and how far it is in the file.
Fitting ==
  /\ waiting => at \notin {"ask", "verified", "unverified", "exit"}
  /\ at = "read_ack" => waiting
  /\ count % WORD = 0
  /\ at \in {"info", "erase", "dma"} => count = 0
  /\ at \in {"ask", "unverified", "verified"} => Len(file) <= count
  /\ (at \in {"write_addr", "read_addr"} /\ waiting)
       \/ at \in {"write_buffer", "write", "read", "read_ack"} => count < Len(file)

Sync == Fitting /\ (Lost \/ Idle \/ Asked \/ Answered \/ Left)

-----------------------------------------------------------------------------
(* What is in the memory. *)

\* The file with the zeroes behind it.
Padded(a) == IF a < Len(file) THEN file[a + 1] ELSE 0

Holds(n) == \A a \in Addresses : a < n => flash[a] = Padded(a)
Blank(n) == \A a \in Addresses : a >= n => flash[a] = BYTE - 1
Contents(a, n) == [i \in 1 .. n |-> flash[a + i - 1]]

\* The Arduino has done what was asked for.
Done == waiting /\ toArduino = <<>>

\* The frames are those of the protocol.
AnswerTo == CASE at = "info" -> <<Data(<<1, 0, 0, 0>>)>>
              [] at = "read" -> <<Data(Contents(count, Len(Block))), Command("ACK")>>
              [] OTHER -> <<Command("ACK")>>
Exact ==
  \/ Idle
  \/ waiting /\ at # "read_ack" /\ toArduino = Request(at) /\ toHost = <<>>
  \/ waiting /\ toArduino = <<>> /\ toHost = AnswerTo

\* As long as nothing is damaged: the pages written hold the file.
Pages(n) == Holds(n) /\ Blank(n)
Writing ==
  /\ at = "erase" /\ Done => Blank(0)
  /\ at = "dma" => Blank(0)
  /\ at = "dma" /\ Done => arduino.dma
  /\ at \in {"write_addr", "write_buffer", "write"} => arduino.dma
  /\ at \in {"write_addr", "write_buffer"} \/ (at = "write" /\ ~ Done) => Pages(count)
  /\ at = "write" /\ Done => Pages(count + Len(Block))
  /\ (at = "write_addr" /\ Done) \/ at \in {"write_buffer", "write"} => arduino.write_addr = count
  /\ (at = "write_buffer" /\ Done) \/ at = "write" =>
       /\ arduino.write_count = Len(Block)
       /\ \A i \in 1 .. Len(Block) : arduino.buffer[i - 1] = Block[i]

Verifying == at \in {"read_addr", "read", "read_ack", "verified"}
Programmed == \E n \in 0 .. FLASH : n % WORD = 0 /\ Len(file) <= n /\ Holds(n)
ReadFrom == (at = "read_addr" /\ Done) \/ at = "read" => arduino.read_addr = count

Clean ==
  /\ Exact /\ silent /\ at # "exit"
  /\ Writing
  /\ Verifying \/ at \in {"ask", "unverified"} => Programmed
  /\ ReadFrom

\* What has been verified, if nobody complained.
Compared(n) == \A a \in Addresses : a < n /\ a < Len(file) => flash[a] = file[a + 1]
Verified ==
  silent => Compared(IF at = "read_ack" THEN count + Len(Block) ELSE count)

Suspect == Lost \/ HoldsFile \/ (Exact /\ ReadFrom /\ Verified)

IInv ==
  /\ TypeOK /\ Sync
  /\ damages = 0 => Clean
  /\ damages = 1 /\ Verifying => Suspect

-----------------------------------------------------------------------------
(* Blocks and requests. *)

\* How many bytes of the file are in the next block.
Taken == IF count < Len(file)
         THEN IF count + BUFFER_SIZE <= Len(file) THEN BUFFER_SIZE ELSE Len(file) - count
         ELSE 0

\* The block has them, and is filled up to a whole word with zeroes.
LEMMA BlockIs ==
  ASSUME file \in Files, count \in Nat
  PROVE  LET n == Taken + ((WORD - (Taken % WORD)) % WORD)
         IN  /\ Taken \in Nat /\ n \in Nat /\ Taken <= n
             /\ Block = [i \in 1 .. n |-> IF i <= Taken THEN file[count + i] ELSE 0]
<1>1. Len(file) \in Nat /\ BUFFER_SIZE \in Nat /\ WORD \in Nat \ {0} /\ BUFFER_SIZE >= 4
  BY FileType, Constants
<1>2. Taken \in Nat
  BY <1>1, SMT DEF Taken
<1>3. Taken + ((WORD - (Taken % WORD)) % WORD) \in Nat
      /\ Taken <= Taken + ((WORD - (Taken % WORD)) % WORD)
  BY <1>1, <1>2, FilledUp
<1> DEFINE last == IF count + BUFFER_SIZE <= Len(file) THEN count + BUFFER_SIZE ELSE Len(file)
           n == IF count < last THEN last - count ELSE 0
<1>4. n = Taken
  BY <1>1, SMT DEF Taken
<1>5. Block = LET padded == n + ((WORD - (n % WORD)) % WORD)
              IN  [i \in 1 .. padded |-> IF i <= n THEN file[count + i] ELSE 0]
  BY Zenon DEF Block
<1> HIDE DEF n
<1> QED
  BY <1>2, <1>3, <1>4, <1>5, Zenon

\* A block is whole words, no more than the buffer holds, and ends less than a
\* word behind the file.
LEMMA BlockSize ==
  ASSUME file \in Files, count \in Nat
  PROVE  /\ Block \in Seq(Bytes) /\ Len(Block) \in Nat /\ Len(Block) <= BUFFER_SIZE
         /\ (Len(Block) % WORD) = 0
         /\ count >= Len(file) => Block = <<>> /\ Len(Block) = 0
         /\ count < Len(file) => /\ Block # <<>> /\ Len(Block) > 0
                                 /\ count + Len(Block) < Len(file) + WORD
         /\ count + Len(Block) < count + Taken + WORD /\ Taken <= Len(Block)
<1>0. PICK n : n = Taken + ((WORD - (Taken % WORD)) % WORD)
  OBVIOUS
<1>1. /\ Len(file) \in Nat /\ BUFFER_SIZE \in Nat /\ WORD \in Nat \ {0} /\ BUFFER_SIZE >= 4
      /\ (BUFFER_SIZE % WORD) = 0
  BY FileType, Constants
<1>2. /\ Taken \in Nat /\ n \in Nat /\ Taken <= n
      /\ Block = [i \in 1 .. n |-> IF i <= Taken THEN file[count + i] ELSE 0]
  BY <1>0, BlockIs
<1>3. n < Taken + WORD /\ (n % WORD) = 0
  BY <1>0, <1>1, <1>2, FilledUp
<1>4. Taken <= BUFFER_SIZE /\ (count < Len(file) => Taken > 0 /\ count + Taken <= Len(file))
      /\ (count >= Len(file) => Taken = 0)
  BY <1>1, SMT DEF Taken
<1>5. n <= BUFFER_SIZE
  <2>1. n < BUFFER_SIZE + WORD /\ n \in Int /\ BUFFER_SIZE \in Int
    BY <1>1, <1>2, <1>3, <1>4, SMT
  <2> QED
    BY <2>1, <1>1, <1>3, MultipleBelow
<1>6. count >= Len(file) => n = 0
  <2>1. ASSUME count >= Len(file) PROVE n <= 0
    <3>1. n < 0 + WORD /\ (0 % WORD) = 0
      BY <1>1, <1>2, <1>3, <1>4, <2>1, SMT
    <3> QED
      BY <3>1, <1>1, <1>2, <1>3, MultipleBelow
  <2> QED
    BY <2>1, <1>2, SMT
<1>7. ASSUME NEW i \in 1 .. n PROVE (IF i <= Taken THEN file[count + i] ELSE 0) \in Bytes
  <2>1. i <= Taken => count + i \in 1 .. Len(file)
    BY <1>1, <1>2, <1>4, SMT
  <2>2. i <= Taken => file[count + i] \in Bytes
    BY <2>1, FileType
  <2>3. 0 \in Bytes
    BY Constants, SMT DEF Bytes
  <2> QED
    BY <2>2, <2>3
<1>8. Block \in Seq(Bytes) /\ Len(Block) = n
  BY <1>2, <1>7, SMT
<1>9. n = 0 => Block = <<>>
  BY <1>8, EmptySeq, SMT
<1>10. n > 0 => Block # <<>>
  BY <1>8, EmptySeq, SMT
<1> QED
  BY <1>1, <1>2, <1>3, <1>4, <1>5, <1>6, <1>8, <1>9, <1>10, SMT

\* Its bytes are those of the file and the zeroes behind it.
LEMMA BlockIsPadded ==
  ASSUME file \in Files, count \in Nat, NEW i \in 1 .. Len(Block)
  PROVE  Block[i] = Padded(count + i - 1) /\ Block[i] \in Bytes
<1>0. PICK n : n = Taken + ((WORD - (Taken % WORD)) % WORD)
  OBVIOUS
<1>1. /\ Len(file) \in Nat /\ BUFFER_SIZE \in Nat /\ WORD \in Nat \ {0} /\ BUFFER_SIZE >= 4
  BY FileType, Constants
<1>2. /\ Taken \in Nat /\ n \in Nat /\ Taken <= n
      /\ Block = [j \in 1 .. n |-> IF j <= Taken THEN file[count + j] ELSE 0]
  BY <1>0, BlockIs
<1>3. /\ Block \in Seq(Bytes) /\ Len(Block) \in Nat /\ Len(Block) <= BUFFER_SIZE
      /\ count >= Len(file) => Len(Block) = 0
  BY BlockSize
<1>4. i \in 1 .. n
  <2>1. DOMAIN Block = 1 .. n /\ DOMAIN Block = 1 .. Len(Block)
    BY <1>2, <1>3, LenProperties
  <2> QED
    BY <2>1
<1>5. Block[i] = IF i <= Taken THEN file[count + i] ELSE 0
  BY <1>2, <1>4
<1>6. i <= Taken <=> count + i - 1 < Len(file)
  BY <1>1, <1>3, SMT DEF Taken
<1>7. count + i - 1 + 1 = count + i
  BY <1>3, SMT
<1>8. Block[i] \in Bytes
  BY <1>3, ElementOfSeq
<1> QED
  BY <1>5, <1>6, <1>7, <1>8 DEF Padded

\* The end of the block is in the memory, and before any whole word behind the
\* file.
LEMMA BlockEnds ==
  ASSUME file \in Files, count \in Nat, (count % WORD) = 0, count < Len(file)
  PROVE  /\ ((count + Len(Block)) % WORD) = 0
         /\ count + Len(Block) <= FLASH
         /\ \A n \in Nat : (n % WORD) = 0 /\ Len(file) <= n => count + Len(Block) <= n
<1>1. /\ Len(Block) \in Nat /\ (Len(Block) % WORD) = 0
      /\ count + Len(Block) < Len(file) + WORD
  BY BlockSize
<1>2. Len(file) \in Nat /\ Len(file) <= FLASH /\ FLASH \in Nat /\ (FLASH % WORD) = 0 /\ WORD \in Nat \ {0}
  BY FileType, Constants, Sizes
<1>3. ((count + Len(Block)) % WORD) = 0
  <2>1. count \in Int /\ Len(Block) \in Int
    BY <1>1, SMT
  <2> QED
    BY <2>1, <1>1, <1>2, MultipleSum
<1>4. ASSUME NEW n \in Nat, (n % WORD) = 0, Len(file) <= n PROVE count + Len(Block) <= n
  <2>1. count + Len(Block) < n + WORD /\ count + Len(Block) \in Int /\ n \in Int
    BY <1>1, <1>2, <1>4, SMT
  <2> QED
    BY <2>1, <1>2, <1>3, <1>4, MultipleBelow
<1> QED
  BY <1>2, <1>3, <1>4

\* The steps that send a request, and those whose request has two frames.
Sending == {"info", "erase", "dma", "write_addr", "write_buffer", "write", "read_addr", "read"}
Long == {"write_addr", "write_buffer", "read_addr", "read"}

\* The three bytes of an address are bytes, even beyond the memory.
LEMMA AddressType ==
  ASSUME NEW x \in Nat
  PROVE  /\ Low(x) \in Bytes /\ Middle(x) \in Bytes /\ High(x) \in Bytes
         /\ Address(x) \in Seq(Bytes) /\ <<Low(x), Middle(x)>> \in Seq(Bytes)
<1>1. BYTE \in Nat \ {0} /\ BYTE >= 4 /\ BYTE * BYTE \in Nat \ {0} /\ 4 \in Nat \ {0}
  BY Constants, Sizes, SMT
<1>2. x \in Int /\ x \div BYTE \in Int /\ x \div (BYTE * BYTE) \in Int
  BY <1>1, Division, SMT
<1>3. /\ (x % BYTE) \in 0 .. BYTE - 1 /\ ((x \div BYTE) % BYTE) \in 0 .. BYTE - 1
      /\ ((x \div (BYTE * BYTE)) % 4) \in 0 .. 4 - 1
  BY <1>1, <1>2, Division
<1>4. Low(x) \in Bytes /\ Middle(x) \in Bytes /\ High(x) \in Bytes
  BY <1>1, <1>3, SMT DEF Low, Middle, High, Bytes
<1> QED
  BY <1>4, SMT DEF Address

\* What a frame is.
LEMMA FrameIs ==
  /\ \A c : /\ Command(c).type = "command" /\ Command(c).code = c
            /\ c \in Commands => Command(c) \in Frames
  /\ \A d : /\ Data(d).type = "data" /\ Data(d).code = "none" /\ Data(d).data = d
            /\ d \in Seq(Bytes) => Data(d) \in Frames
  /\ \A d : Cut(d).type = "cut" /\ (d \in Seq(Bytes) => Cut(d) \in Frames)
  /\ Rejected \in Frames /\ Rejected.type = "rejected" /\ Rejected.code = "none"
  /\ \A f \in Frames : f.type = "command" => f.code \in Commands /\ f = Command(f.code)
  /\ \A f \in Frames : f.type \in {"data", "cut"} => f.data \in Seq(Bytes) /\ f.code = "none"
  /\ \A f \in Frames : f.type \in {"command", "data", "cut", "rejected"}
<1>1. \A c : Command(c).type = "command" /\ Command(c).code = c
  BY DEF Command
<1>2. \A c : c \in Commands => Command(c) \in Frames
  BY DEF Frames
<1>3. \A d : Data(d).type = "data" /\ Data(d).code = "none" /\ Data(d).data = d
  BY DEF Data
<1>4. \A d : d \in Seq(Bytes) => Data(d) \in Frames
  BY DEF Frames, Data
<1>7. \A d : Cut(d).type = "cut" /\ (d \in Seq(Bytes) => Cut(d) \in Frames)
  BY DEF Frames, Cut
<1>5. Rejected \in Frames /\ Rejected.type = "rejected" /\ Rejected.code = "none"
  BY DEF Frames, Rejected
<1>6. ASSUME NEW f \in Frames
      PROVE  \/ f.type = "command" /\ f.code \in Commands /\ f = Command(f.code)
             \/ f.type = "rejected"
             \/ f.type \in {"data", "cut"} /\ f.data \in Seq(Bytes) /\ f.code = "none"
  <2>1. CASE f \in {Command(c) : c \in Commands}
    <3>1. PICK c \in Commands : f = Command(c)
      BY <2>1
    <3> QED
      BY <3>1, <1>1
  <2>2. CASE f \in {Rejected}
    BY <2>2, <1>5
  <2>3. CASE f \in [type : {"data", "cut"}, code : {"none"}, data : Seq(Bytes)]
    BY <2>3
  <2> QED
    BY <2>1, <2>2, <2>3 DEF Frames
<1> QED
  BY <1>1, <1>2, <1>3, <1>4, <1>5, <1>6, <1>7

\* A request is one or two frames: a command, and data.
LEMMA RequestIs ==
  ASSUME file \in Files, count \in Nat, NEW step \in Sending
  PROVE  /\ Request(step) \in Seq(Frames)
         /\ Len(Request(step)) = IF step \in Long THEN 2 ELSE 1
         /\ Request(step)[1].type = "command"
         /\ step \in Long => Request(step)[2].type = "data"
<1>1. \A c : c \in Commands => Command(c) \in Frames /\ Command(c).type = "command"
  BY FrameIs
<1>2. \A d : d \in Seq(Bytes) => Data(d) \in Frames /\ Data(d).type = "data"
  BY FrameIs
<1>3. Address(count) \in Seq(Bytes) /\ Block \in Seq(Bytes) /\ Len(Block) \in Nat
  BY AddressType, BlockSize
<1>4. <<Low(Len(Block)), Middle(Len(Block))>> \in Seq(Bytes)
  BY <1>3, AddressType
<1>5. \A f \in Frames : <<f>> \in Seq(Frames) /\ Len(<<f>>) = 1 /\ <<f>>[1] = f
  BY SMT
<1>6. \A f, g \in Frames : /\ <<f, g>> \in Seq(Frames) /\ Len(<<f, g>>) = 2
                          /\ <<f, g>>[1] = f /\ <<f, g>>[2] = g
  BY SMT
<1>7. CASE step = "info"
  BY <1>1, <1>5, <1>7, Zenon DEF Request, Commands, WithData, Long
<1>8. CASE step = "erase"
  BY <1>1, <1>5, <1>8, Zenon DEF Request, Commands, WithData, Long
<1>9. CASE step = "dma"
  BY <1>1, <1>5, <1>9, Zenon DEF Request, Commands, WithData, Long
<1>10. CASE step = "write"
  BY <1>1, <1>5, <1>10, Zenon DEF Request, Commands, WithData, Long
<1>11. CASE step = "write_addr"
  BY <1>1, <1>2, <1>3, <1>6, <1>11, Zenon DEF Request, Commands, WithData, Long
<1>12. CASE step = "write_buffer"
  BY <1>1, <1>2, <1>3, <1>6, <1>12, Zenon DEF Request, Commands, WithData, Long
<1>13. CASE step = "read_addr"
  BY <1>1, <1>2, <1>3, <1>6, <1>13, Zenon DEF Request, Commands, WithData, Long
<1>14. CASE step = "read"
  BY <1>1, <1>2, <1>4, <1>6, <1>14, Zenon DEF Request, Commands, WithData, Long
<1> QED
  BY <1>7, <1>8, <1>9, <1>10, <1>11, <1>12, <1>13, <1>14 DEF Sending

\* A set of natural numbers that is not empty has a least member.
LEMMA LeastMember ==
  ASSUME NEW S \in SUBSET Nat, S # {}
  PROVE  \E m \in S : \A n \in S : m <= n
<1>1. \E m \in S : \A n \in S : ~ (<<n, m>> \in OpToRel(<, Nat))
  BY NatLessThanWellFounded, WFMin
<1>2. \A m, n \in S : <<n, m>> \in OpToRel(<, Nat) <=> n < m
  BY DEF OpToRel
<1>3. PICK m \in S : \A n \in S : ~ (n < m)
  BY <1>1, <1>2
<1>4. \A n \in S : m <= n
  BY <1>3, SMT
<1> QED
  BY <1>4

-----------------------------------------------------------------------------
(* Reading bank by bank. *)

\* A part of the memory is a sequence of bytes.
LEMMA FlashBlockIs ==
  ASSUME flash \in [Addresses -> Bytes], NEW bank \in Nat, NEW x \in Nat, NEW n \in Nat
  PROVE  FlashBlock(bank, x, n) \in Seq(Bytes) /\ Len(FlashBlock(bank, x, n)) = n
<1>1. FLASH \in Nat \ {0} /\ BANK \in Nat \ {0}
  BY Constants, Sizes
<1>2. BANK * bank \in Nat
  BY <1>1, SMT
<1>3. ASSUME NEW i \in 1 .. n PROVE flash[(BANK * bank + x + i - 1) % FLASH] \in Bytes
  <2>1. BANK * bank + x + i - 1 \in Int
    BY <1>2, SMT
  <2>2. ((BANK * bank + x + i - 1) % FLASH) \in Addresses
    BY <1>1, <2>1, Division DEF Addresses
  <2> QED
    BY <2>2
<1>4. FlashBlock(bank, x, n) = [i \in 1 .. n |-> flash[(BANK * bank + x + i - 1) % FLASH]]
  BY DEF FlashBlock
<1>5. FlashBlock(bank, x, n) \in Seq(Bytes)
  <2> DEFINE e(i) == flash[(BANK * bank + x + i - 1) % FLASH]
  <2>1. \A i \in 1 .. n : e(i) \in Bytes
    BY <1>3
  <2> HIDE DEF e
  <2>2. [i \in 1 .. n |-> e(i)] \in Seq(Bytes)
    BY <2>1, IsASeq
  <2> QED
    BY <2>2, <1>4 DEF e
<1>6. Len(FlashBlock(bank, x, n)) = n
  <2>1. DOMAIN FlashBlock(bank, x, n) = 1 .. n
    BY <1>4
  <2> QED
    BY <2>1, <1>5, LenProperties, SMT
<1> QED
  BY <1>4, <1>5, <1>6

\* The part up to the end of a bank and the part that follows in the next one
\* are one part.
LEMMA NextBank ==
  ASSUME flash \in [Addresses -> Bytes], NEW bank \in Nat, NEW x \in 0 .. BANK - 1,
         NEW left \in Nat \ {0}
  PROVE  LET len == InBank(x, left)
         IN  /\ len \in Nat \ {0} /\ left - len \in Nat
             /\ FlashBlock(bank, x, len) \o FlashBlock(bank + 1, 0, left - len)
                  = FlashBlock(bank, x, left)
<1> DEFINE len == InBank(x, left)
           s == FlashBlock(bank, x, len)
           t == FlashBlock(bank + 1, 0, left - len)
           u == FlashBlock(bank, x, left)
<1>1. BANK \in Nat \ {0}
  BY Constants
<1>2. len \in Nat \ {0} /\ left - len \in Nat /\ (len = left \/ x + len = BANK)
  BY <1>1, SMT DEF InBank
<1>3. x \in Nat /\ 0 \in Nat /\ bank + 1 \in Nat
  BY <1>1, SMT
<1> HIDE DEF len
<1>4. /\ s \in Seq(Bytes) /\ Len(s) = len
      /\ \A i \in 1 .. len : s[i] = flash[(BANK * bank + x + i - 1) % FLASH]
  <2>1. s \in Seq(Bytes) /\ Len(s) = len
    BY <1>2, <1>3, FlashBlockIs
  <2> QED
    BY <2>1 DEF FlashBlock
<1>5. /\ t \in Seq(Bytes) /\ Len(t) = left - len
      /\ \A i \in 1 .. left - len : t[i] = flash[(BANK * (bank + 1) + 0 + i - 1) % FLASH]
  <2>1. t \in Seq(Bytes) /\ Len(t) = left - len
    BY <1>2, <1>3, FlashBlockIs
  <2> QED
    BY <2>1 DEF FlashBlock
<1>6. /\ u \in Seq(Bytes) /\ Len(u) = left
      /\ \A i \in 1 .. left : u[i] = flash[(BANK * bank + x + i - 1) % FLASH]
  <2>1. u \in Seq(Bytes) /\ Len(u) = left
    BY <1>3, FlashBlockIs
  <2> QED
    BY <2>1 DEF FlashBlock
<1> HIDE DEF s, t, u
<1>7. /\ s \o t \in Seq(Bytes) /\ Len(s \o t) = len + (left - len)
      /\ \A i \in 1 .. len + (left - len) : (s \o t)[i] = IF i <= len THEN s[i] ELSE t[i - len]
  BY <1>4, <1>5, ConcatProperties
<1>8. len + (left - len) = left
  BY <1>2, SMT
<1>9. ASSUME NEW i \in 1 .. left PROVE (s \o t)[i] = u[i]
  <2>1. CASE i <= len
    <3>1. i \in 1 .. len
      BY <2>1, <1>2, SMT
    <3> QED
      BY <3>1, <2>1, <1>4, <1>6, <1>7, <1>8
  <2>2. CASE i > len
    <3>1. i - len \in 1 .. left - len /\ x + len = BANK /\ ~ (i <= len)
      BY <2>2, <1>2, SMT
    <3>2. BANK * (bank + 1) = BANK * bank + BANK /\ BANK * bank \in Int
      BY <1>1, SMT
    <3>3. BANK * (bank + 1) + 0 + (i - len) - 1 = BANK * bank + x + i - 1
      BY <3>1, <3>2, <1>1, <1>2, <1>3, SMT
    <3>4. t[i - len] = flash[(BANK * (bank + 1) + 0 + (i - len) - 1) % FLASH]
      BY <3>1, <1>5
    <3>5. u[i] = flash[(BANK * bank + x + i - 1) % FLASH]
      BY <1>6
    <3>6. i \in 1 .. len + (left - len)
      BY <1>8
    <3>7. (s \o t)[i] = t[i - len]
      BY <3>1, <3>6, <1>7
    <3> QED
      BY <3>3, <3>4, <3>5, <3>7
  <2>3. i <= len \/ i > len
    BY <1>2, SMT
  <2> QED
    BY <2>1, <2>2, <2>3
<1>10. s \o t = u
  BY <1>6, <1>7, <1>8, <1>9, SeqEqual
<1> QED
  BY <1>2, <1>10 DEF len, s, t, u

\* So START_READ reads what is behind the address, whatever banks it is in.
LEMMA ReadIsBlock ==
  ASSUME flash \in [Addresses -> Bytes], NEW a \in Nat, NEW n \in Nat
  PROVE  Read(a, n) = FlashBlock(a \div BANK, a % BANK, n)
<1> DEFINE Body(f) ==
      [r \in Rests |->
        LET len == InBank(r.xaddr, r.left)
        IN  IF r.left = 0 THEN <<>>
            ELSE FlashBlock(r.bank, r.xaddr, len) \o f[Rest(r.bank + 1, 0, r.left - len)]]
           from == CHOOSE f : f = Body(f)
           parts == [r \in Rests |-> FlashBlock(r.bank, r.xaddr, r.left)]
           start == Rest(a \div BANK, a % BANK, n)
<1>1. BANK \in Nat \ {0}
  BY Constants
<1>2. ASSUME NEW r \in Rests, r.left # 0
      PROVE  LET len == InBank(r.xaddr, r.left)
                 next == Rest(r.bank + 1, 0, r.left - len)
             IN  /\ next \in Rests /\ next.left < r.left
                 /\ FlashBlock(r.bank, r.xaddr, r.left) = FlashBlock(r.bank, r.xaddr, len) \o parts[next]
  <2>1. r.bank \in Nat /\ r.xaddr \in 0 .. BANK - 1 /\ r.left \in Nat \ {0}
    BY <1>2 DEF Rests
  <2>2. PICK len : len = InBank(r.xaddr, r.left)
    OBVIOUS
  <2>3. /\ len \in Nat \ {0} /\ r.left - len \in Nat
        /\ FlashBlock(r.bank, r.xaddr, len) \o FlashBlock(r.bank + 1, 0, r.left - len)
             = FlashBlock(r.bank, r.xaddr, r.left)
    BY <2>1, <2>2, NextBank, Zenon
  <2>4. PICK next : next = Rest(r.bank + 1, 0, r.left - len)
    OBVIOUS
  <2>5. next.bank = r.bank + 1 /\ next.xaddr = 0 /\ next.left = r.left - len /\ next \in Rests
    <3>1. r.bank + 1 \in Nat /\ 0 \in 0 .. BANK - 1
      BY <2>1, <1>1, SMT
    <3> QED
      BY <3>1, <2>3, <2>4 DEF Rest, Rests
  <2>6. parts[next] = FlashBlock(r.bank + 1, 0, r.left - len)
    BY <2>5, Zenon
  <2>7. next.left < r.left
    BY <2>1, <2>3, <2>5, SMT
  <2> QED
    BY <2>2, <2>3, <2>4, <2>5, <2>6, <2>7, Zenon
<1>3. ASSUME NEW r \in Rests, r.left = 0 PROVE FlashBlock(r.bank, r.xaddr, r.left) = <<>>
  <2>1. r.bank \in Nat /\ r.xaddr \in Nat
    BY <1>1, SMT DEF Rests
  <2>2. FlashBlock(r.bank, r.xaddr, 0) \in Seq(Bytes) /\ Len(FlashBlock(r.bank, r.xaddr, 0)) = 0
    BY <2>1, FlashBlockIs
  <2> QED
    BY <2>2, <1>3, EmptySeq, SMT
<1>4. parts = Body(parts)
  <2>1. ASSUME NEW r \in Rests PROVE parts[r] = Body(parts)[r]
    BY <1>2, <1>3, Zenon
  <2> QED
    BY <2>1, Zenon
<1>5. from = Body(from)
  <2> HIDE DEF Body, parts
  <2> QED
    BY <1>4, Zenon
<1> DEFINE Bad == {m \in Nat : \E r \in Rests : r.left = m /\ from[r] # parts[r]}
<1>6. Bad = {}
  <2> SUFFICES ASSUME Bad # {} PROVE FALSE
    OBVIOUS
  <2>1. PICK m \in Bad : \A k \in Bad : m <= k
    <3>1. Bad \in SUBSET Nat
      OBVIOUS
    <3> HIDE DEF Bad
    <3> QED
      BY <3>1, LeastMember
  <2>2. PICK r \in Rests : r.left = m /\ from[r] # parts[r]
    BY <2>1
  <2> HIDE DEF from
  <2>3. from[r] = Body(from)[r]
    <3> HIDE DEF Body
    <3> QED
      BY <1>5
  <2>4. CASE r.left = 0
    <3>1. from[r] = <<>>
      BY <2>3, <2>4, Zenon
    <3>2. parts[r] = <<>>
      BY <2>4, <1>3, Zenon
    <3> QED
      BY <3>1, <3>2, <2>2
  <2>5. CASE r.left # 0
    <3>1. PICK len, next : len = InBank(r.xaddr, r.left) /\ next = Rest(r.bank + 1, 0, r.left - len)
      OBVIOUS
    <3>2. /\ next \in Rests /\ next.left < r.left
          /\ FlashBlock(r.bank, r.xaddr, r.left) = FlashBlock(r.bank, r.xaddr, len) \o parts[next]
      BY <2>5, <3>1, <1>2, Zenon
    <3>3. from[next] = parts[next]
      <4>1. next.left \in Nat /\ m \in Nat
        BY <3>2, <2>1 DEF Rests
      <4>2. next.left \notin Bad
        <5> HIDE DEF Bad
        <5> QED
          BY <4>1, <3>2, <2>1, <2>2, SMT
      <4> QED
        BY <4>1, <4>2, <3>2, Zenon
    <3>4. from[r] = FlashBlock(r.bank, r.xaddr, len) \o from[next]
      BY <2>3, <2>5, <3>1, Zenon
    <3>5. parts[r] = FlashBlock(r.bank, r.xaddr, r.left)
      BY Zenon
    <3> QED
      BY <2>2, <3>2, <3>3, <3>4, <3>5, Zenon
  <2> QED
    BY <2>4, <2>5
<1>7. start \in Rests /\ start.bank = a \div BANK /\ start.xaddr = a % BANK /\ start.left = n
  <2>1. a \div BANK \in Nat /\ (a % BANK) \in 0 .. BANK - 1
    BY <1>1, SMT
  <2> QED
    BY <2>1 DEF Rest, Rests
<1>8. Read(a, n) = from[start]
  BY Zenon DEF Read
<1>9. from[start] = parts[start]
  <2> HIDE DEF from, parts, start
  <2> QED
    BY <1>6, <1>7 DEF Rests
<1> QED
  <2> HIDE DEF from
  <2> QED
    BY <1>7, <1>8, <1>9, Zenon

\* What START_READ sends: as many bytes as are wanted, and as long as they are
\* in the memory those from the address on.
LEMMA ReadIs ==
  ASSUME flash \in [Addresses -> Bytes], NEW a \in Nat, NEW n \in Nat
  PROVE  /\ Read(a, n) \in Seq(Bytes) /\ Len(Read(a, n)) = n
         /\ a + n <= FLASH => Read(a, n) = Contents(a, n)
<1>1. BANK \in Nat \ {0} /\ FLASH \in Nat \ {0}
  BY Constants, Sizes
<1>2. PICK q \in Int, x \in 0 .. BANK - 1 : a = BANK * q + x /\ q = a \div BANK /\ x = a % BANK
  BY <1>1, DivisionExists
<1>3. q \in Nat /\ x \in Nat
  <2>1. CASE q < 0
    <3>1. BANK * (0 - q) >= BANK /\ BANK * (0 - q) = 0 - BANK * q
      BY <1>1, <2>1, SMT
    <3> QED
      BY <3>1, <1>1, <1>2, SMT
  <2> QED
    BY <2>1, <1>1, SMT
<1>4. Read(a, n) = FlashBlock(q, x, n)
  BY <1>2, ReadIsBlock
<1>5. FlashBlock(q, x, n) \in Seq(Bytes) /\ Len(FlashBlock(q, x, n)) = n
  BY <1>3, FlashBlockIs
<1>6. ASSUME a + n <= FLASH PROVE FlashBlock(q, x, n) = Contents(a, n)
  <2>1. ASSUME NEW i \in 1 .. n
        PROVE  flash[(BANK * q + x + i - 1) % FLASH] = flash[a + i - 1]
    <3>1. a + i - 1 \in 0 .. FLASH - 1
      BY <1>1, <1>6, SMT
    <3>2. ((a + i - 1) % FLASH) = a + i - 1
      BY <3>1, <1>1, SmallIs
    <3>3. BANK * q \in Int
      BY <1>1, SMT
    <3>4. BANK * q + x + i - 1 = a + i - 1
      BY <1>2, <3>3, SMT
    <3> QED
      BY <3>2, <3>4
  <2> QED
    BY <2>1, Zenon DEF FlashBlock, Contents
<1> QED
  BY <1>4, <1>5, <1>6

-----------------------------------------------------------------------------
(* Writing a block. *)

\* Whatever is in the buffer, bytes are written.
LEMMA WrittenType ==
  ASSUME TypeOK
  PROVE  Written(flash) \in [Addresses -> Bytes]
<1>1. WORD \in Nat \ {0} /\ FLASH \in Nat \ {0} /\ BUFFER_SIZE \in Nat
  BY Constants, Sizes
<1>2. /\ arduino.write_addr \in Nat /\ arduino.write_count \in 0 .. BUFFER_SIZE
      /\ arduino.buffer \in [0 .. BUFFER_SIZE - 1 -> Bytes] /\ flash \in [Addresses -> Bytes]
  BY SMT DEF TypeOK
<1> DEFINE first == arduino.write_addr - (arduino.write_addr % WORD)
<1>3. first \in Int
  BY <1>1, <1>2, SMT
<1> HIDE DEF first
<1>4. ASSUME NEW a \in Addresses
      PROVE  (IF arduino.dma /\ ((a - first) % FLASH) < arduino.write_count
              THEN Both(flash[a], arduino.buffer[(a - first) % FLASH]) ELSE flash[a]) \in Bytes
  <2>1. PICK i : i = (a - first) % FLASH
    OBVIOUS
  <2>2. i \in 0 .. FLASH - 1
    <3>1. a - first \in Int
      BY <1>1, <1>3, SMT DEF Addresses
    <3> QED
      BY <3>1, <2>1, <1>1, Division
  <2>3. i < arduino.write_count => i \in 0 .. BUFFER_SIZE - 1
    BY <1>1, <1>2, <2>2, SMT
  <2>4. i < arduino.write_count => Both(flash[a], arduino.buffer[i]) \in Bytes
    BY <2>3, <1>2, FlasherAssumption DEF Bytes
  <2> QED
    BY <2>1, <2>4, <1>2
<1>5. Written(flash) = [a \in Addresses |->
                          IF arduino.dma /\ ((a - first) % FLASH) < arduino.write_count
                          THEN Both(flash[a], arduino.buffer[(a - first) % FLASH]) ELSE flash[a]]
  BY Zenon DEF Written, first
<1> QED
  BY <1>4, <1>5, Zenon

\* Where the memory is blank, a block that starts at a word is written as it
\* is, and nothing else is.
LEMMA WrittenIs ==
  ASSUME TypeOK, (count % WORD) = 0, count + Len(Block) <= FLASH, Blank(count),
         arduino.dma, arduino.write_addr = count, arduino.write_count = Len(Block),
         \A i \in 1 .. Len(Block) : arduino.buffer[i - 1] = Block[i],
         NEW a \in Addresses
  PROVE  Written(flash)[a] = IF count <= a /\ a < count + Len(Block) THEN Padded(a) ELSE flash[a]
<1>1. WORD \in Nat \ {0} /\ FLASH \in Nat \ {0} /\ BUFFER_SIZE \in Nat
  BY Constants, Sizes
<1>2. file \in Files /\ count \in Nat /\ Len(Block) \in Nat
  <2>1. file \in Files /\ count \in 0 .. Len(file) + WORD - 1
    BY DEF TypeOK
  <2>2. count \in Nat
    BY <2>1, <1>1, FileType, SMT
  <2> QED
    BY <2>1, <2>2, BlockSize
<1>3. a \in 0 .. FLASH - 1
  BY DEF Addresses
<1>4. arduino.write_addr - (arduino.write_addr % WORD) = count
  BY <1>2, SMT
<1>5. PICK i : i = (a - count) % FLASH
  OBVIOUS
<1>6. Written(flash)[a] = IF i < Len(Block) THEN Both(flash[a], arduino.buffer[i]) ELSE flash[a]
  BY <1>4, <1>5, Zenon DEF Written
<1>7. CASE a < count
  <2>1. PICK r \in 0 .. FLASH - 1 : r = a - count + FLASH
    BY <1>1, <1>2, <1>3, <1>7, SMT
  <2>2. PICK q \in Int : FLASH * q + r = a - count
    <3>1. FLASH * (0 - 1) + r = a - count /\ 0 - 1 \in Int
      BY <2>1, <1>1, <1>2, <1>3, SMT
    <3> QED
      BY <3>1, Zenon
  <2>3. i = a - count + FLASH
    <3>1. ((FLASH * q + r) % FLASH) = r
      BY <1>1, DivisionIs
    <3> QED
      BY <3>1, <2>1, <2>2, <1>5
  <2>4. ~ (i < Len(Block)) /\ ~ (count <= a)
    BY <2>3, <1>1, <1>2, <1>3, <1>7, SMT
  <2> QED
    BY <2>4, <1>6
<1>8. CASE count <= a
  <2>1. a - count \in 0 .. FLASH - 1
    BY <1>1, <1>2, <1>3, <1>8, SMT
  <2>2. i = a - count
    BY <2>1, <1>1, <1>5, SmallIs
  <2>3. i < Len(Block) <=> a < count + Len(Block)
    BY <2>2, <1>2, <1>3, SMT
  <2>4. CASE i < Len(Block)
    <3>1. i + 1 \in 1 .. Len(Block) /\ (i + 1) - 1 = i /\ count + (i + 1) - 1 = a
      BY <2>1, <2>2, <2>4, <1>2, <1>3, SMT
    <3>2. arduino.buffer[i] = Block[i + 1]
      BY <3>1
    <3>3. Block[i + 1] = Padded(a) /\ Block[i + 1] \in Bytes
      BY <3>1, <1>2, BlockIsPadded
    <3>4. flash[a] = BYTE - 1
      BY <1>2, <1>3, <1>8, SMT DEF Blank
    <3>5. Both(BYTE - 1, Block[i + 1]) = Block[i + 1]
      BY <3>3, FlasherAssumption DEF Bytes
    <3> QED
      BY <2>3, <2>4, <1>6, <1>8, <3>2, <3>3, <3>4, <3>5
  <2>5. CASE ~ (i < Len(Block))
    BY <2>3, <2>5, <1>6
  <2> QED
    BY <2>4, <2>5
<1>9. a < count \/ count <= a
  BY <1>2, <1>3, SMT
<1> QED
  BY <1>7, <1>8, <1>9

\* The pages written grow by the block.
LEMMA PagesGrow ==
  ASSUME TypeOK, (count % WORD) = 0, count + Len(Block) <= FLASH, Pages(count),
         arduino.dma, arduino.write_addr = count, arduino.write_count = Len(Block),
         \A i \in 1 .. Len(Block) : arduino.buffer[i - 1] = Block[i],
         flash' = Written(flash), UNCHANGED <<file, count>>
  PROVE  (Pages(count + Len(Block)))'
<1>1. WORD \in Nat \ {0}
  BY Constants
<1>2. file \in Files /\ count \in Nat /\ Len(Block) \in Nat
  <2>1. file \in Files /\ count \in 0 .. Len(file) + WORD - 1
    BY DEF TypeOK
  <2>2. count \in Nat
    BY <2>1, <1>1, FileType, SMT
  <2> QED
    BY <2>1, <2>2, BlockSize
<1>3. PICK c \in Nat, l \in Nat : c = count /\ l = Len(Block)
  BY <1>2
<1>4. (count + Len(Block))' = c + l
  BY <1>3 DEF Block
<1>5. ASSUME NEW a \in Addresses
      PROVE  /\ a < c + l => flash'[a] = Padded(a)
             /\ a >= c + l => flash'[a] = BYTE - 1
  <2>1. flash'[a] = IF c <= a /\ a < c + l THEN Padded(a) ELSE flash[a]
    BY <1>3, WrittenIs DEF Pages
  <2>2. a \in Int
    BY SMT DEF Addresses
  <2>3. a < c => flash[a] = Padded(a)
    BY <1>3 DEF Pages, Holds
  <2>4. a >= c + l => a >= c /\ ~ (a < c + l)
    BY <1>3, <2>2, SMT
  <2>5. a >= c => flash[a] = BYTE - 1
    BY <1>3 DEF Pages, Blank
  <2>6. a < c \/ c <= a
    BY <1>3, <2>2, SMT
  <2> QED
    BY <2>1, <2>3, <2>4, <2>5, <2>6
<1>6. \A a : Padded(a)' = Padded(a)
  BY DEF Padded
<1>7. (Pages(c + l))'
  BY <1>5, <1>6 DEF Pages, Holds, Blank
<1> QED
  BY <1>4, <1>7 DEF Pages, Holds, Blank

-----------------------------------------------------------------------------
(* What the Arduino consumes and answers. *)

\* The first frame, and what is behind it.
LEMMA FirstIs ==
  ASSUME NEW s \in Seq(Frames), s # <<>>
  PROVE  /\ Head(s) = s[1] /\ s[1] \in Frames /\ Len(s) \in Nat \ {0}
         /\ Tail(s) \in Seq(Frames) /\ Len(Tail(s)) = Len(s) - 1
         /\ Len(s) = 1 => Tail(s) = <<>>
         /\ Len(s) = 2 => Tail(s) = <<s[2]>> /\ s[2] \in Frames
<1>1. /\ Head(s) \in Frames /\ Tail(s) \in Seq(Frames) /\ Len(Tail(s)) = Len(s) - 1
      /\ \A i \in 1 .. Len(Tail(s)) : Tail(s)[i] = s[i + 1]
  BY HeadTailProperties
<1>2. Len(s) \in Nat \ {0} /\ \A i \in 1 .. Len(s) : s[i] \in Frames
  BY LenProperties, EmptySeq
<1>3. s[1] \in Frames /\ Head(s) = s[1]
  BY <1>2, SMT
<1>4. PICK t : t = Tail(s)
  OBVIOUS
<1>5. t \in Seq(Frames) /\ Len(t) = Len(s) - 1 /\ \A i \in 1 .. Len(t) : t[i] = s[i + 1]
  BY <1>1, <1>4
<1>6. ASSUME Len(s) = 1 PROVE t = <<>>
  <2>1. Len(t) = 0
    BY <1>5, <1>6, SMT
  <2> QED
    BY <2>1, <1>5, EmptySeq
<1>7. ASSUME Len(s) = 2 PROVE t = <<s[2]>> /\ s[2] \in Frames
  <2>1. s[2] \in Frames /\ Len(t) = 1
    <3>1. 2 \in 1 .. Len(s) /\ Len(s) - 1 = 1
      BY <1>7, SMT
    <3> QED
      BY <3>1, <1>2, <1>5
  <2>2. t[1] = s[2]
    <3>1. 1 \in 1 .. Len(t) /\ 1 + 1 = 2
      BY <2>1, SMT
    <3> QED
      BY <3>1, <1>5
  <2>3. <<s[2]>> \in Seq(Frames) /\ Len(<<s[2]>>) = 1 /\ <<s[2]>>[1] = s[2]
    BY <2>1, SMT
  <2>4. \A i \in 1 .. Len(t) : t[i] = <<s[2]>>[i]
    BY <2>1, <2>2, <2>3, SMT
  <2>5. Len(t) = Len(<<s[2]>>)
    BY <2>1, <2>3
  <2> QED
    BY <1>5, <2>1, <2>3, <2>4, <2>5, SeqEqual
<1> QED
  BY <1>1, <1>2, <1>3, <1>4, <1>6, <1>7

\* The types that the steps have.
LEMMA TypesAre ==
  ASSUME TypeOK
  PROVE  /\ file \in Files /\ count \in Nat /\ count < Len(file) + WORD
         /\ Len(file) \in Nat /\ Len(file) <= FLASH
         /\ toArduino \in Seq(Frames) /\ toHost \in Seq(Frames)
         /\ flash \in [Addresses -> Bytes] /\ at \in Steps
         /\ waiting \in BOOLEAN /\ silent \in BOOLEAN
<1>1. file \in Files /\ count \in 0 .. Len(file) + WORD - 1
  BY DEF TypeOK
<1>2. Len(file) \in Nat /\ Len(file) <= FLASH /\ WORD \in Nat
  BY <1>1, FileType, Constants
<1>3. count \in Nat /\ count < Len(file) + WORD
  BY <1>1, <1>2, SMT
<1> QED
  BY <1>1, <1>2, <1>3 DEF TypeOK

\* A host that waits for a request to be done has sent one.
LEMMA AskedSends ==
  ASSUME TypeOK, Fitting, Asked
  PROVE  at \in Sending
BY TypesAre DEF Fitting, Asked, Sending, Steps

\* The Arduino only handles a command of a host that has just asked.
LEMMA HandlesAsked ==
  ASSUME TypeOK, Sync, NEW c, Handles(c)
  PROVE  /\ Asked /\ ~ Lost /\ Fitting /\ waiting /\ at \in Sending /\ toHost = <<>>
         /\ Len(toArduino) = IF at \in Long THEN 2 ELSE 1
         /\ toArduino # <<>> /\ Head(toArduino).code = c /\ Head(toArduino) = Command(c)
<1>1. toArduino # <<>> /\ Head(toArduino) = Command(c) /\ arduino.alive
  BY DEF Handles
<1>2. Head(toArduino).type = "command" /\ Head(toArduino).code = c
  BY <1>1, FrameIs
<1>3. ~ Lost
  BY <1>1, <1>2 DEF Lost, Quiet, Doomed
<1>4. Asked /\ Fitting
  BY <1>1, <1>2, <1>3 DEF Sync, Idle, Answered, Left, Doomed
<1>5. at \in Sending
  BY <1>4, AskedSends
<1>6. Len(toArduino) = IF at \in Long THEN 2 ELSE 1
  BY <1>4, <1>5, TypesAre, RequestIs DEF Asked
<1> QED
  BY <1>1, <1>2, <1>3, <1>4, <1>5, <1>6 DEF Asked

\* The data that follow it are of the host's step, and fit into the buffer.
LEMMA DataAsked ==
  ASSUME TypeOK, Sync, NEW c, HandlesData(c)
  PROVE  /\ at \in Long /\ Asked /\ ~ Lost /\ Fitting /\ waiting /\ toHost = <<>>
         /\ Len(toArduino) = 2 /\ toArduino # <<>> /\ Head(toArduino).code = c
         /\ toArduino[2].type \in {"data", "cut"} /\ Head(toArduino) = Command(c)
         /\ Received \in Seq(Bytes) /\ Len(Received) \in 0 .. BUFFER_SIZE
         /\ c = "START_READ" => ~ (Wanted > BUFFER_SIZE)
<1>1. /\ Handles(c) /\ Len(toArduino) = 2 /\ toArduino[2].type \in {"data", "cut"}
      /\ ~ (Len(Received) > BUFFER_SIZE)
      /\ ~ (Head(toArduino) = Command("START_READ") /\ Wanted > BUFFER_SIZE)
  BY Zenon DEF HandlesData, Brought, Overruns
<1>2. /\ Asked /\ ~ Lost /\ Fitting /\ waiting /\ at \in Sending /\ toHost = <<>>
      /\ Len(toArduino) = IF at \in Long THEN 2 ELSE 1
      /\ toArduino # <<>> /\ Head(toArduino).code = c /\ Head(toArduino) = Command(c)
  BY <1>1, HandlesAsked
<1>3. at \in Long
  BY <1>1, <1>2
<1>4. toArduino[2] \in Frames
  BY <1>1, <1>2, TypesAre, FirstIs
<1>5. Received \in Seq(Bytes)
  BY <1>1, <1>4, FrameIs DEF Received
<1>6. Len(Received) \in 0 .. BUFFER_SIZE
  <2>1. PICK n \in Nat : n = Len(Received)
    BY <1>5, LenProperties
  <2>2. ~ (n > BUFFER_SIZE) /\ BUFFER_SIZE \in Nat
    BY <1>1, <2>1, Constants
  <2>3. n \in 0 .. BUFFER_SIZE
    BY <2>2, SMT
  <2> QED
    BY <2>1, <2>3
<1> QED
  BY <1>1, <1>2, <1>3, <1>5, <1>6

\* What remains of a frame is nothing, or a frame that is rejected.
LEMMA RemainsIs ==
  ASSUME NEW f
  PROVE  /\ f.type # "cut" => Remains(f) = <<>>
         /\ Remains(f) \in {<<>>, <<Rejected>>} /\ Remains(f) \in Seq(Frames)
         /\ Len(Remains(f)) <= 1 /\ Len(Remains(f)) \in Nat
         /\ Remains(f) # <<>> => Head(Remains(f)).type = "rejected" /\ Len(Remains(f)) = 1
<1>1. Rejected \in Frames /\ Rejected.type = "rejected"
  BY FrameIs
<1>2. <<Rejected>> \in Seq(Frames) /\ Head(<<Rejected>>) = Rejected /\ Len(<<Rejected>>) = 1
  BY <1>1, SMT
<1>3. <<>> \in Seq(Frames) /\ Len(<<>>) = 0
  BY EmptySeq
<1>4. CASE f.type = "cut"
  <2>1. Remains(f) = <<Rejected>>
    BY <1>4, Zenon DEF Remains
  <2>2. Len(Remains(f)) <= 1 /\ Len(Remains(f)) \in Nat
    BY <1>2, <2>1, SMT
  <2> QED
    BY <1>1, <1>2, <1>4, <2>1, <2>2
<1>5. CASE f.type # "cut"
  <2>1. Remains(f) = <<>>
    BY <1>5, Zenon DEF Remains
  <2>2. Len(Remains(f)) <= 1 /\ Len(Remains(f)) \in Nat
    BY <1>3, <2>1, SMT
  <2> QED
    BY <1>3, <2>1, <2>2
<1> QED
  BY <1>4, <1>5

\* What remains of a frame comes before what is behind it.
LEMMA RemainsBefore ==
  ASSUME NEW f, NEW s \in Seq(Frames), Remains(f) # <<>>
  PROVE  Remains(f) \o s # <<>> /\ Head(Remains(f) \o s).type = "rejected"
<1>1. /\ Remains(f) \in Seq(Frames) /\ Len(Remains(f)) = 1 /\ Head(Remains(f)).type = "rejected"
      /\ Len(s) \in Nat
  BY RemainsIs, LenProperties
<1>2. PICK t : t = Remains(f) \o s
  OBVIOUS
<1>3. /\ t \in Seq(Frames) /\ Len(t) = Len(Remains(f)) + Len(s)
      /\ \A i \in 1 .. Len(Remains(f)) + Len(s) :
           t[i] = IF i <= Len(Remains(f)) THEN Remains(f)[i] ELSE s[i - Len(Remains(f))]
  BY <1>1, <1>2, ConcatProperties
<1>4. Len(t) = 1 + Len(s) /\ 1 \in 1 .. Len(Remains(f)) + Len(s) /\ 1 <= Len(Remains(f)) /\ Len(t) # 0
  BY <1>1, <1>3, SMT
<1>5. t[1] = Remains(f)[1] /\ t # <<>>
  BY <1>3, <1>4, EmptySeq
<1>6. Head(t) = t[1] /\ Head(Remains(f)) = Remains(f)[1]
  BY <1>1, <1>3, <1>5, FirstIs
<1> QED
  BY <1>1, <1>2, <1>5, <1>6

\* A command with data leaves nothing on the line, unless they were cut.
LEMMA DataConsumed ==
  ASSUME TypeOK, Sync, NEW c \in WithData, HandlesData(c), NEW frames \in Seq(Frames), Reply(frames)
  PROVE  /\ toArduino' = Remains(toArduino[2]) /\ toHost' = frames
         /\ toArduino[2].type = "data" => toArduino' = <<>>
<1>1. Len(toArduino) = 2 /\ Head(toArduino).code = c /\ toHost = <<>>
  BY DataAsked
<1>2. toArduino' = Remains(toArduino[2]) /\ toHost' = toHost \o frames
  BY <1>1, Zenon DEF Reply
<1> QED
  BY <1>1, <1>2, RemainsIs, ConcatEmptySeq

\* A command without data leaves none either, unless the host sent another one.
LEMMA PlainConsumed ==
  ASSUME TypeOK, Sync, NEW c \in Commands \ WithData, Handles(c),
         NEW frames \in Seq(Frames), Reply(frames)
  PROVE  /\ toHost' = frames
         /\ at \notin Long => toArduino' = <<>>
         /\ at \in Long => /\ toArduino' # <<>> /\ Len(toArduino') = 1
                           /\ Head(toArduino') \in Frames /\ Head(toArduino').type # "command"
<1>1. /\ toHost = <<>> /\ Head(toArduino).code = c /\ toArduino # <<>> /\ Asked /\ at \in Sending
      /\ Len(toArduino) = IF at \in Long THEN 2 ELSE 1
  BY HandlesAsked
<1>2. toArduino' = Tail(toArduino) /\ toHost' = toHost \o frames
  BY <1>1, Zenon DEF Reply
<1>3. toArduino \in Seq(Frames)
  BY TypesAre
<1>4. /\ Len(toArduino) = 1 => Tail(toArduino) = <<>>
      /\ Len(toArduino) = 2 => Tail(toArduino) = <<toArduino[2]>> /\ toArduino[2] \in Frames
  BY <1>1, <1>3, FirstIs
<1>5. at \notin Long => toArduino' = <<>>
  BY <1>1, <1>2, <1>4
<1>6. ASSUME at \in Long
      PROVE  /\ toArduino' # <<>> /\ Len(toArduino') = 1
             /\ Head(toArduino') \in Frames /\ Head(toArduino').type # "command"
  <2>1. toArduino' = <<toArduino[2]>> /\ toArduino[2] \in Frames
    BY <1>1, <1>2, <1>4, <1>6
  <2>2. toArduino[2].type # "command"
    BY <1>1, <1>6 DEF Asked
  <2>3. toArduino' # <<>> /\ Len(toArduino') = 1 /\ Head(toArduino') = toArduino[2]
    BY <2>1, SMT
  <2> QED
    BY <2>1, <2>2, <2>3
<1> QED
  BY <1>1, <1>2, <1>5, <1>6, ConcatEmptySeq

\* The data of a request fit into the buffer.
LEMMA RequestData ==
  ASSUME file \in Files, count \in Nat
  PROVE  /\ Request("write_addr")[2].data = Address(count)
         /\ Request("read_addr")[2].data = Address(count)
         /\ Request("write_buffer")[2].data = Block
         /\ Request("read")[2].data = <<Low(Len(Block)), Middle(Len(Block))>>
         /\ \A step \in Long : /\ Request(step)[2].data \in Seq(Bytes)
                               /\ Len(Request(step)[2].data) \in 0 .. BUFFER_SIZE
<1>1. \A d : Data(d).data = d
  BY FrameIs
<1>2. \A f, g : <<f, g>>[2] = g
  OBVIOUS
<1>3. Request("write_addr")[2].data = Address(count) /\ Request("read_addr")[2].data = Address(count)
  BY <1>1, <1>2, Zenon DEF Request
<1>4. Request("write_buffer")[2].data = Block
  BY <1>1, <1>2, Zenon DEF Request
<1>5. Request("read")[2].data = <<Low(Len(Block)), Middle(Len(Block))>>
  BY <1>1, <1>2, Zenon DEF Request
<1>6. Block \in Seq(Bytes) /\ Len(Block) \in Nat /\ Len(Block) <= BUFFER_SIZE
  BY BlockSize
<1>7. Address(count) \in Seq(Bytes) /\ <<Low(Len(Block)), Middle(Len(Block))>> \in Seq(Bytes)
  BY <1>6, AddressType
<1>8. Len(Address(count)) = 3 /\ Len(<<Low(Len(Block)), Middle(Len(Block))>>) = 2
  BY DEF Address
<1>9. BUFFER_SIZE \in Nat /\ BUFFER_SIZE >= 4
  BY Constants
<1>10. 3 \in 0 .. BUFFER_SIZE /\ 2 \in 0 .. BUFFER_SIZE /\ Len(Block) \in 0 .. BUFFER_SIZE
  BY <1>6, <1>9, SMT
<1> QED
  BY <1>3, <1>4, <1>5, <1>6, <1>7, <1>8, <1>10 DEF Long

-----------------------------------------------------------------------------
(* The types. *)

Arduinos ==
  [alive : BOOLEAN, overrun : BOOLEAN, buffer : [0 .. BUFFER_SIZE - 1 -> Bytes], dma : BOOLEAN,
   write_addr : 0 .. BYTE * BYTE * BYTE - 1, write_count : 0 .. BUFFER_SIZE,
   read_addr : 0 .. BYTE * BYTE * BYTE - 1]

\* The buffer holds bytes, and the address in it has three.
LEMMA FilledType ==
  ASSUME TypeOK, NEW d \in Seq(Bytes)
  PROVE  /\ Filled(d) \in [0 .. BUFFER_SIZE - 1 -> Bytes]
         /\ AddressIn(Filled(d)) \in 0 .. BYTE * BYTE * BYTE - 1
<1>1. arduino.buffer \in [0 .. BUFFER_SIZE - 1 -> Bytes]
  BY DEF TypeOK
<1>2. BUFFER_SIZE \in Nat /\ BUFFER_SIZE >= 4 /\ BYTE \in Nat /\ BYTE >= 4
  BY Constants
<1>3. ASSUME NEW i \in 0 .. BUFFER_SIZE - 1
      PROVE  (IF i < Len(d) THEN d[i + 1] ELSE arduino.buffer[i]) \in Bytes
  <2>1. i < Len(d) => i + 1 \in 1 .. Len(d)
    BY LenProperties, SMT
  <2>2. i < Len(d) => d[i + 1] \in Bytes
    BY <2>1, ElementOfSeq
  <2> QED
    BY <2>2, <1>1
<1>4. Filled(d) \in [0 .. BUFFER_SIZE - 1 -> Bytes]
  BY <1>3 DEF Filled
<1>5. PICK x, y, z : x = Filled(d)[0] /\ y = Filled(d)[1] /\ z = Filled(d)[2]
  OBVIOUS
<1>6. x \in 0 .. BYTE - 1 /\ y \in 0 .. BYTE - 1 /\ z \in 0 .. BYTE - 1
  <2>1. 0 \in 0 .. BUFFER_SIZE - 1 /\ 1 \in 0 .. BUFFER_SIZE - 1 /\ 2 \in 0 .. BUFFER_SIZE - 1
    BY <1>2, SMT
  <2> QED
    BY <2>1, <1>4, <1>5 DEF Bytes
<1>7. x + BYTE * y + BYTE * BYTE * z \in 0 .. BYTE * BYTE * BYTE - 1
  <2>1. /\ BYTE * (BYTE - 1 - y) >= 0 /\ BYTE * (BYTE - 1 - y) = BYTE * BYTE - BYTE - BYTE * y
        /\ BYTE * y >= 0 /\ BYTE * y \in Int
    BY <1>2, <1>6, SMT
  <2>2. PICK s \in Nat : s = BYTE * BYTE
    BY <1>2, SMT
  <2>3. s * z >= 0 /\ s * (BYTE - 1 - z) >= 0 /\ s * (BYTE - 1 - z) = s * BYTE - s - s * z
        /\ s * BYTE \in Int /\ s * z \in Int
    BY <1>2, <1>6, SMT
  <2>4. x + BYTE * y + s * z \in 0 .. s * BYTE - 1
    BY <2>1, <2>2, <2>3, <1>2, <1>6, SMT
  <2> QED
    BY <2>2, <2>4
<1> QED
  BY <1>4, <1>5, <1>7 DEF AddressIn

\* Frames that are consumed and answered are those of the lines.
LEMMA ReplyType ==
  ASSUME TypeOK, NEW frames \in Seq(Frames), Len(frames) <= 2, Reply(frames),
         toArduino' \in Seq(Frames), Len(toArduino') <= 3, toHost' = frames,
         arduino' \in Arduinos, flash' \in [Addresses -> Bytes]
  PROVE  TypeOK'
BY Zenon DEF TypeOK, Reply, Arduinos

\* The answers.
LEMMA AnswersAre ==
  /\ <<>> \in Seq(Frames) /\ Len(<<>>) = 0
  /\ <<Command("ACK")>> \in Seq(Frames) /\ Len(<<Command("ACK")>>) = 1
  /\ Head(<<Command("ACK")>>) = Command("ACK") /\ Tail(<<Command("ACK")>>) = <<>>
  /\ \A d \in Seq(Bytes) : /\ <<Data(d)>> \in Seq(Frames) /\ Len(<<Data(d)>>) = 1
                           /\ Head(<<Data(d)>>) = Data(d) /\ Tail(<<Data(d)>>) = <<>>
                           /\ <<Data(d), Command("ACK")>> \in Seq(Frames)
                           /\ Len(<<Data(d), Command("ACK")>>) = 2
                           /\ Head(<<Data(d), Command("ACK")>>) = Data(d)
                           /\ Tail(<<Data(d), Command("ACK")>>) = <<Command("ACK")>>
<1>1. Command("ACK") \in Frames /\ \A d \in Seq(Bytes) : Data(d) \in Frames
  BY FrameIs DEF Commands
<1>2. \A f \in Frames : /\ <<f>> \in Seq(Frames) /\ Len(<<f>>) = 1
                        /\ Head(<<f>>) = f /\ Tail(<<f>>) = <<>>
  BY SMT
<1>3. \A f, g \in Frames : /\ <<f, g>> \in Seq(Frames) /\ Len(<<f, g>>) = 2
                          /\ Head(<<f, g>>) = f /\ Tail(<<f, g>>) = <<g>>
  BY SMT
<1>4. <<>> \in Seq(Frames) /\ Len(<<>>) = 0
  BY EmptySeq
<1> QED
  BY <1>1, <1>2, <1>3, <1>4

\* The lines after a command with data ...
LEMMA DataReplyType ==
  ASSUME TypeOK, Sync, NEW c \in WithData, HandlesData(c),
         NEW frames \in Seq(Frames), Len(frames) <= 2, Reply(frames),
         arduino' \in Arduinos, flash' \in [Addresses -> Bytes]
  PROVE  TypeOK'
<1>1. toArduino' = Remains(toArduino[2]) /\ toHost' = frames
  BY DataConsumed
<1>2. toArduino' \in Seq(Frames) /\ Len(toArduino') <= 3
  <2>1. toArduino' \in Seq(Frames) /\ Len(toArduino') <= 1 /\ Len(toArduino') \in Nat
    BY <1>1, RemainsIs
  <2>2. PICK n \in Nat : n = Len(toArduino')
    BY <2>1
  <2> QED
    BY <2>1, <2>2, SMT
<1> QED
  BY <1>1, <1>2, ReplyType

\* ... and after one without.
LEMMA PlainReplyType ==
  ASSUME TypeOK, Sync, NEW c \in Commands \ WithData, Handles(c),
         NEW frames \in Seq(Frames), Len(frames) <= 2, Reply(frames),
         arduino' \in Arduinos, flash' \in [Addresses -> Bytes]
  PROVE  TypeOK'
<1>1. toHost' = frames
  BY PlainConsumed
<1>2. toArduino # <<>> /\ Head(toArduino).code = c /\ Len(toArduino) \in 1 .. 2
  BY HandlesAsked
<1>3. toArduino' = Tail(toArduino)
  BY <1>2, Zenon DEF Reply
<1>4. toArduino' \in Seq(Frames) /\ Len(toArduino') <= 3
  BY <1>2, <1>3, TypesAre, FirstIs, SMT
<1> QED
  BY <1>1, <1>4, ReplyType

\* The Arduino's variables, one at a time.
LEMMA ArduinoIs ==
  ASSUME TypeOK
  PROVE  /\ arduino \in Arduinos
         /\ \A b \in [0 .. BUFFER_SIZE - 1 -> Bytes] : [arduino EXCEPT !.buffer = b] \in Arduinos
         /\ \A b \in [0 .. BUFFER_SIZE - 1 -> Bytes], x \in 0 .. BYTE * BYTE * BYTE - 1 :
              /\ [arduino EXCEPT !.buffer = b, !.write_addr = x] \in Arduinos
              /\ [arduino EXCEPT !.buffer = b, !.read_addr = x] \in Arduinos
         /\ \A b \in [0 .. BUFFER_SIZE - 1 -> Bytes], n \in 0 .. BUFFER_SIZE :
              [arduino EXCEPT !.buffer = b, !.write_count = n] \in Arduinos
         /\ [arduino EXCEPT !.dma = TRUE] \in Arduinos
         /\ \A b \in BOOLEAN : [arduino EXCEPT !.alive = FALSE, !.overrun = b] \in Arduinos
<1>1. arduino \in Arduinos
  BY DEF TypeOK, Arduinos
<1> QED
  BY <1>1 DEF Arduinos

\* What START_READ wants is a number.
LEMMA WantedType ==
  ASSUME TypeOK, Received \in Seq(Bytes)
  PROVE  Wanted \in Nat
<1>1. AddressIn(Filled(Received)) \in Int
  <2>1. AddressIn(Filled(Received)) \in 0 .. BYTE * BYTE * BYTE - 1
    BY FilledType
  <2> QED
    BY <2>1, SMT
<1>2. (AddressIn(Filled(Received)) % (BYTE * BYTE)) \in 0 .. BYTE * BYTE - 1
  BY <1>1, Sizes, Division
<1> QED
  BY <1>2, SMT DEF Wanted

\* The buffer after what was read is put into it.
ReadBuffer(read) ==
  [i \in 0 .. BUFFER_SIZE - 1 |-> IF i < Wanted THEN read[i + 1] ELSE Filled(Received)[i]]

\* It is a buffer.
LEMMA ReadBufferType ==
  ASSUME TypeOK, Received \in Seq(Bytes), NEW read \in Seq(Bytes), Len(read) = Wanted
  PROVE  ReadBuffer(read) \in [0 .. BUFFER_SIZE - 1 -> Bytes]
<1>1. Wanted \in Nat /\ BUFFER_SIZE \in Nat /\ Filled(Received) \in [0 .. BUFFER_SIZE - 1 -> Bytes]
  BY WantedType, FilledType, Constants
<1>2. ASSUME NEW i \in 0 .. BUFFER_SIZE - 1
      PROVE  (IF i < Wanted THEN read[i + 1] ELSE Filled(Received)[i]) \in Bytes
  <2>1. i < Wanted => i + 1 \in 1 .. Len(read)
    BY <1>1, SMT
  <2>2. i < Wanted => read[i + 1] \in Bytes
    BY <2>1, ElementOfSeq
  <2> QED
    BY <2>2, <1>1
<1> QED
  BY <1>2 DEF ReadBuffer

\* StartRead, with a name for what it reads.
LEMMA StartReadIs ==
  ASSUME TypeOK, Sync, StartRead
  PROVE  /\ Received \in Seq(Bytes) /\ Wanted \in Nat /\ Wanted <= BUFFER_SIZE
         /\ Read(arduino.read_addr, Wanted) \in Seq(Bytes)
         /\ Len(Read(arduino.read_addr, Wanted)) = Wanted
         /\ arduino' = [arduino EXCEPT !.buffer = ReadBuffer(Read(arduino.read_addr, Wanted))]
         /\ Reply(<<Data(Read(arduino.read_addr, Wanted)), Command("ACK")>>)
         /\ HandlesData("START_READ") /\ flash' = flash
<1>1. HandlesData("START_READ")
  BY DEF StartRead
<1>3. Received \in Seq(Bytes) /\ ~ (Wanted > BUFFER_SIZE)
  BY <1>1, DataAsked
<1>4. Wanted \in Nat
  BY <1>3, WantedType
<1>2. Wanted <= BUFFER_SIZE
  BY <1>3, <1>4, Constants, SMT
<1>5. arduino.read_addr \in Nat /\ flash \in [Addresses -> Bytes]
  BY SMT DEF TypeOK
<1>6. /\ Read(arduino.read_addr, Wanted) \in Seq(Bytes)
      /\ Len(Read(arduino.read_addr, Wanted)) = Wanted
  BY <1>4, <1>5, ReadIs
<1>7. /\ arduino' = [arduino EXCEPT !.buffer = ReadBuffer(Read(arduino.read_addr, Wanted))]
      /\ Reply(<<Data(Read(arduino.read_addr, Wanted)), Command("ACK")>>) /\ flash' = flash
  BY Zenon DEF StartRead, ReadBuffer
<1> QED
  BY <1>1, <1>2, <1>3, <1>4, <1>6, <1>7

\* Every handler leaves every variable its type.
LEMMA ArduinoType ==
  ASSUME TypeOK, Sync, Arduino
  PROVE  TypeOK'
<1>1. /\ <<>> \in Seq(Frames) /\ Len(<<>>) <= 2
      /\ <<Command("ACK")>> \in Seq(Frames) /\ Len(<<Command("ACK")>>) <= 2
  BY AnswersAre, SMT
<1>2. flash \in [Addresses -> Bytes] /\ arduino \in Arduinos
  BY TypesAre, ArduinoIs
<1>3. ASSUME NEW c, HandlesData(c)
      PROVE  /\ Received \in Seq(Bytes) /\ Len(Received) \in 0 .. BUFFER_SIZE
             /\ Filled(Received) \in [0 .. BUFFER_SIZE - 1 -> Bytes]
             /\ AddressIn(Filled(Received)) \in 0 .. BYTE * BYTE * BYTE - 1
  <2>1. Received \in Seq(Bytes) /\ Len(Received) \in 0 .. BUFFER_SIZE
    BY <1>3, DataAsked
  <2> QED
    BY <2>1, FilledType
<1>4. CASE GetInfo
  <2> DEFINE info == <<1, 0, 0, 0>>
  <2>1. info \in Seq(Bytes)
    BY Constants, SMT DEF Bytes
  <2>2. /\ Handles("GET_INFO") /\ Reply(<<Data(info)>>) /\ flash' = flash
        /\ arduino' = [arduino EXCEPT !.buffer = Filled(info)]
    BY <1>4 DEF GetInfo
  <2> HIDE DEF info
  <2>3. arduino' \in Arduinos
    BY <2>1, <2>2, FilledType, ArduinoIs
  <2>4. <<Data(info)>> \in Seq(Frames) /\ Len(<<Data(info)>>) <= 2
    BY <2>1, AnswersAre, SMT
  <2>5. "GET_INFO" \in Commands \ WithData
    BY DEF Commands, WithData
  <2> QED
    BY <2>2, <2>3, <2>4, <2>5, <1>2, PlainReplyType
<1>5. CASE SetWriteAddr
  <2>1. /\ HandlesData("SET_WRITE_ADDR") /\ Reply(<<Command("ACK")>>) /\ flash' = flash
        /\ arduino' = [arduino EXCEPT !.buffer = Filled(Received),
                                      !.write_addr = AddressIn(Filled(Received))]
    BY <1>5 DEF SetWriteAddr
  <2>2. arduino' \in Arduinos
    BY <2>1, <1>3, ArduinoIs
  <2> QED
    BY <2>1, <2>2, <1>1, <1>2, DataReplyType DEF WithData
<1>6. CASE SetReadAddr
  <2>1. /\ HandlesData("SET_READ_ADDR") /\ Reply(<<Command("ACK")>>) /\ flash' = flash
        /\ arduino' = [arduino EXCEPT !.buffer = Filled(Received),
                                      !.read_addr = AddressIn(Filled(Received))]
    BY <1>6 DEF SetReadAddr
  <2>2. arduino' \in Arduinos
    BY <2>1, <1>3, ArduinoIs
  <2> QED
    BY <2>1, <2>2, <1>1, <1>2, DataReplyType DEF WithData
<1>7. CASE SetWriteBuffer
  <2>1. /\ HandlesData("SET_WRITE_BUFFER") /\ Reply(<<Command("ACK")>>) /\ flash' = flash
        /\ arduino' = [arduino EXCEPT !.buffer = Filled(Received), !.write_count = Len(Received)]
    BY <1>7 DEF SetWriteBuffer
  <2>2. arduino' \in Arduinos
    BY <2>1, <1>3, ArduinoIs
  <2> QED
    BY <2>1, <2>2, <1>1, <1>2, DataReplyType DEF WithData
<1>8. CASE StartRead
  <2>1. PICK read \in Seq(Bytes) :
          /\ Len(read) = Wanted /\ arduino' = [arduino EXCEPT !.buffer = ReadBuffer(read)]
          /\ Reply(<<Data(read), Command("ACK")>>) /\ HandlesData("START_READ") /\ flash' = flash
    BY <1>8, StartReadIs
  <2>2. ReadBuffer(read) \in [0 .. BUFFER_SIZE - 1 -> Bytes]
    BY <1>8, <2>1, StartReadIs, ReadBufferType
  <2>3. arduino' \in Arduinos
    BY <2>1, <2>2, ArduinoIs
  <2>4. <<Data(read), Command("ACK")>> \in Seq(Frames) /\ Len(<<Data(read), Command("ACK")>>) <= 2
    BY AnswersAre, SMT
  <2> QED
    BY <2>1, <2>3, <2>4, <1>2, DataReplyType DEF WithData
<1>9. CASE EnableDma
  <2>1. /\ Handles("ENABLE_DMA") /\ Reply(<<Command("ACK")>>) /\ flash' = flash
        /\ arduino' \in Arduinos
    BY <1>9, ArduinoIs DEF EnableDma
  <2> QED
    BY <2>1, <1>1, <1>2, PlainReplyType DEF Commands, WithData
<1>10. CASE EraseChip
  <2>1. Handles("ERASE_CHIP") /\ Reply(<<Command("ACK")>>) /\ arduino' = arduino
    BY <1>10 DEF EraseChip
  <2>2. flash' \in [Addresses -> Bytes]
    <3>1. BYTE - 1 \in Bytes
      BY Constants, SMT DEF Bytes
    <3> QED
      BY <1>10, <3>1, Zenon DEF EraseChip, Erased
  <2> QED
    BY <2>1, <2>2, <1>1, <1>2, PlainReplyType DEF Commands, WithData
<1>11. CASE StartWrite
  <2>1. Handles("START_WRITE") /\ Reply(<<Command("ACK")>>) /\ arduino' = arduino
    BY <1>11 DEF StartWrite
  <2>2. flash' \in [Addresses -> Bytes]
    BY <1>11, WrittenType DEF StartWrite
  <2> QED
    BY <2>1, <2>2, <1>1, <1>2, PlainReplyType DEF Commands, WithData
<1>12. CASE Ignore
  <2>1. PICK c \in {"unknown", "ACK"} : Handles(c)
    BY <1>12 DEF Ignore
  <2>2. c \in Commands \ WithData /\ Reply(<<>>) /\ arduino' = arduino /\ flash' = flash
    BY <1>12 DEF Ignore, Commands, WithData
  <2> QED
    BY <2>1, <2>2, <1>1, <1>2, PlainReplyType
<1>13. CASE Die
  <2>1. arduino' \in Arduinos
    <3>1. (Head(toArduino).code \in WithData /\ Brought) \in BOOLEAN
      BY DEF Brought
    <3> QED
      BY <1>13, <3>1, ArduinoIs, Zenon DEF Die
  <2> QED
    BY <1>13, <2>1, Zenon DEF Die, TypeOK, Arduinos
<1> QED
  BY <1>4, <1>5, <1>6, <1>7, <1>8, <1>9, <1>10, <1>11, <1>12, <1>13 DEF Arduino

\* So does every step of the host ...
LEMMA HostType ==
  ASSUME TypeOK, Sync, Host
  PROVE  TypeOK'
<1>1. /\ file \in Files /\ count \in Nat /\ Len(file) \in Nat /\ count < Len(file) + WORD
      /\ toArduino \in Seq(Frames) /\ toHost \in Seq(Frames) /\ at \in Steps /\ silent \in BOOLEAN
      /\ WORD \in Nat \ {0} /\ waiting \in BOOLEAN
  BY TypesAre, Constants
<1>2. ASSUME toHost # <<>>
      PROVE  Tail(toHost) \in Seq(Frames) /\ Len(Tail(toHost)) <= 2
  <2>1. Len(toHost) <= 2 /\ Len(toHost) \in Nat
    BY <1>1, LenProperties DEF TypeOK
  <2> QED
    BY <1>1, <1>2, <2>1, FirstIs, SMT
<1>3. CASE Send
  <2>1. at \in Sending /\ ~ waiting
    BY <1>1, <1>3 DEF Send, Sending, Steps
  <2>2. Len(toArduino) \in 0 .. 1
    <3>1. Lost \/ Idle \/ Left
      BY <2>1 DEF Sync, Asked, Answered
    <3>2. Len(toArduino) \in Nat /\ Len(<<>>) = 0
      BY <1>1, LenProperties, EmptySeq
    <3>3. Len(toArduino) <= 1 \/ toArduino = <<>>
      BY <3>1, <2>1, Zenon DEF Lost, Idle, Left, Sending
    <3>4. PICK n \in Nat : n = Len(toArduino)
      BY <3>2
    <3>5. n <= 1 \/ n = 0
      BY <3>2, <3>3, <3>4
    <3> QED
      BY <3>4, <3>5, SMT
  <2>3. Request(at) \in Seq(Frames) /\ Len(Request(at)) \in 1 .. 2
    BY <1>1, <2>1, RequestIs
  <2>4. toArduino' \in Seq(Frames) /\ Len(toArduino') <= 3
    <3>1. toArduino' = toArduino \o Request(at)
      BY <1>3 DEF Send
    <3>2. toArduino' \in Seq(Frames) /\ Len(toArduino') = Len(toArduino) + Len(Request(at))
      BY <1>1, <2>3, <3>1, ConcatProperties
    <3>3. PICK n \in 0 .. 1, m \in 1 .. 2 : n = Len(toArduino) /\ m = Len(Request(at))
      BY <2>2, <2>3
    <3>4. n + m <= 3
      BY SMT
    <3> QED
      BY <3>2, <3>3, <3>4
  <2> QED
    BY <1>3, <2>4, Zenon DEF Send, TypeOK
<1>4. CASE ReceiveAck
  <2>1. at \in {"erase", "dma", "write_addr", "write_buffer", "write", "read_addr", "read_ack"}
    BY <1>1, <1>4 DEF ReceiveAck, Sync, Fitting, Steps, Lost, Idle, Asked, Answered, Left
  <2>2. at' \in Steps
    BY <1>4, <2>1 DEF ReceiveAck, Following, Steps
  <2>3. count' \in 0 .. Len(file) + WORD - 1
    <3>1. /\ Len(Block) \in Nat
          /\ count >= Len(file) => Len(Block) = 0
          /\ count < Len(file) => count + Len(Block) < Len(file) + WORD
      BY <1>1, BlockSize
    <3>2. count' \in {count, count + Len(Block)}
      BY <1>4 DEF ReceiveAck
    <3> QED
      BY <1>1, <3>1, <3>2, SMT
  <2>4. silent' \in BOOLEAN /\ waiting' \in BOOLEAN /\ toHost' \in Seq(Frames) /\ Len(toHost') <= 2
    BY <1>1, <1>2, <1>4 DEF ReceiveAck
  <2> QED
    BY <1>4, <2>2, <2>3, <2>4, Zenon DEF ReceiveAck, TypeOK
<1>5. CASE ReceiveInfo
  <2>1. at' \in Steps /\ waiting' \in BOOLEAN /\ toHost' \in Seq(Frames) /\ Len(toHost') <= 2
    BY <1>1, <1>2, <1>5 DEF ReceiveInfo, Following, Steps
  <2> QED
    BY <1>5, <2>1, Zenon DEF ReceiveInfo, TypeOK
<1>6. CASE ReceiveBlock
  <2>2. toHost # <<>> /\ toHost' = Remains(Head(toHost)) \o Tail(toHost)
    BY <1>6 DEF ReceiveBlock
  <2>3. toHost' \in Seq(Frames) /\ Len(toHost') <= 2
    <3>1. Len(toHost) <= 2 /\ Len(toHost) \in Nat
      BY <1>1, LenProperties DEF TypeOK
    <3>2. /\ Tail(toHost) \in Seq(Frames) /\ Len(Tail(toHost)) = Len(toHost) - 1
          /\ Remains(Head(toHost)) \in Seq(Frames)
          /\ Len(Remains(Head(toHost))) <= 1 /\ Len(Remains(Head(toHost))) \in Nat
      BY <1>1, <2>2, FirstIs, RemainsIs
    <3>3. /\ toHost' \in Seq(Frames)
          /\ Len(toHost') = Len(Remains(Head(toHost))) + Len(Tail(toHost))
      BY <2>2, <3>2, ConcatProperties
    <3>4. PICK n \in Nat, m \in Nat : n = Len(toHost) /\ m = Len(Remains(Head(toHost)))
      BY <3>1, <3>2
    <3>5. n <= 2 /\ m <= 1 /\ Len(toHost') = m + (n - 1)
      BY <3>1, <3>2, <3>3, <3>4
    <3>6. m + (n - 1) <= 2
      BY <3>5, SMT
    <3> QED
      BY <3>3, <3>5, <3>6
  <2>1. at' \in Steps /\ silent' \in BOOLEAN /\ toHost' \in Seq(Frames) /\ Len(toHost') <= 2
    BY <1>1, <1>6, <2>3 DEF ReceiveBlock, Steps
  <2> QED
    BY <1>6, <2>1, Zenon DEF ReceiveBlock, TypeOK
<1>7. CASE Exit
  <2>1. at' \in Steps /\ waiting' \in BOOLEAN /\ toHost' \in Seq(Frames) /\ Len(toHost') <= 2
    BY <1>1, <1>2, <1>7 DEF Exit, Steps
  <2> QED
    BY <1>7, <2>1, Zenon DEF Exit, TypeOK
<1>8. CASE EndOfFile
  <2>1. at' \in Steps
    BY <1>8 DEF EndOfFile, Steps
  <2> QED
    BY <1>8, <2>1, Zenon DEF EndOfFile, TypeOK
<1>9. CASE Answer
  <2>1. at' \in Steps /\ count' \in {0, count}
    BY <1>9 DEF Answer, Steps
  <2>2. count' \in 0 .. Len(file) + WORD - 1
    BY <1>1, <2>1, SMT
  <2> QED
    BY <1>9, <2>1, <2>2, Zenon DEF Answer, TypeOK
<1> QED
  BY <1>3, <1>4, <1>5, <1>6, <1>7, <1>8, <1>9 DEF Host

\* What a byte makes of a frame is a frame: a command is made of a command only,
\* and data are made of data.
LEMMA DamagedIs ==
  ASSUME NEW s \in Seq(Frames), NEW i \in DOMAIN s, NEW bad \in Damaged(s[i]) \cup Overlong(s[i])
  PROVE  /\ [s EXCEPT ![i] = bad] \in Seq(Frames) /\ Len([s EXCEPT ![i] = bad]) = Len(s)
         /\ bad \in Frames /\ s[i] \in Frames
         /\ \/ bad = Rejected
            \/ bad.type = "command" /\ s[i].type = "command"
            \/ bad.type \in {"data", "cut"} /\ s[i].type = "data"
         /\ [s EXCEPT ![i] = bad][i] = bad
         /\ \A j \in 1 .. Len(s) : j # i => [s EXCEPT ![i] = bad][j] = s[j]
<1>1. i \in 1 .. Len(s) /\ s[i] \in Frames
  BY LenProperties, ElementOfSeq
<1>2. PICK f \in Frames : f = s[i]
  BY <1>1
<1>3. CASE bad = Rejected
  BY <1>1, <1>3, FrameIs, ExceptSeq
<1>4. CASE f.type = "command" /\ bad \in {Command(c) : c \in Commands \ {f.code}}
  <2>1. PICK c \in Commands : bad = Command(c)
    BY <1>4
  <2>2. bad.type = "command" /\ bad \in Frames
    BY <2>1, FrameIs
  <2> QED
    BY <1>1, <1>2, <1>4, <2>2, ExceptSeq
<1>5. CASE f.type = "data" /\ \E d \in Seq(Bytes) : bad \in {Cut(d), Data(d)}
  <2>1. PICK d \in Seq(Bytes) : bad \in {Cut(d), Data(d)}
    BY <1>5
  <2>2. bad.type \in {"data", "cut"} /\ bad \in Frames
    BY <2>1, FrameIs
  <2> QED
    BY <1>1, <1>2, <1>5, <2>2, ExceptSeq
<1>6. ASSUME f.type = "data" PROVE f.data \in Seq(Bytes) /\ Len(f.data) \in Nat
  BY <1>6, FrameIs, LenProperties
<1>7. ASSUME f.type = "data", NEW n \in 0 .. Len(f.data) - 1, bad = Cut(SubSeq(f.data, 1, n))
      PROVE  \E d \in Seq(Bytes) : bad \in {Cut(d), Data(d)}
  <2>1. SubSeq(f.data, 1, n) \in Seq(Bytes)
    <3>1. n \in Int /\ n <= Len(f.data)
      BY <1>6, <1>7, SMT
    <3>2. \A k \in 1 .. n : f.data[k] \in Bytes
      BY <1>6, <1>7, <3>1, ElementOfSeq, SMT
    <3> QED
      BY <1>6, <1>7, <3>1, <3>2, SubSeqProperties, SMT
  <2> QED
    BY <1>7, <2>1
<1>8. ASSUME f.type = "data", NEW more \in {<<b>> : b \in Bytes} \cup (Bytes \X Bytes),
             bad = Data(f.data \o more)
      PROVE  \E d \in Seq(Bytes) : bad \in {Cut(d), Data(d)}
  <2>1. more \in Seq(Bytes)
    <3>1. CASE more \in {<<b>> : b \in Bytes}
      <4>1. PICK b \in Bytes : more = <<b>>
        BY <3>1
      <4> QED
        BY <4>1
    <3>2. CASE more \in Bytes \X Bytes
      <4>1. PICK b \in Bytes, c \in Bytes : more = <<b, c>>
        BY <3>2
      <4> QED
        BY <4>1
    <3> QED
      BY <1>8, <3>1, <3>2
  <2>2. f.data \o more \in Seq(Bytes)
    BY <1>6, <1>8, <2>1, ConcatProperties
  <2> QED
    BY <1>8, <2>2
<1>9. \/ bad = Rejected
      \/ f.type = "command" /\ bad \in {Command(c) : c \in Commands \ {f.code}}
      \/ f.type = "data" /\ \E n \in 0 .. Len(f.data) - 1 : bad = Cut(SubSeq(f.data, 1, n))
      \/ f.type = "data" /\ \E more \in {<<b>> : b \in Bytes} \cup (Bytes \X Bytes) :
                                bad = Data(f.data \o more)
  BY <1>2, Zenon DEF Damaged, Overlong
<1> QED
  BY <1>3, <1>4, <1>5, <1>7, <1>8, <1>9

\* ... and the line.
LEMMA DamageType ==
  ASSUME TypeOK, DamageToArduino \/ DamageToHost
  PROVE  TypeOK'
<1>1. toArduino \in Seq(Frames) /\ toHost \in Seq(Frames) /\ DAMAGES \in Nat
  BY TypesAre, Constants
<1>2. damages \in 0 .. DAMAGES /\ Len(toArduino) <= 3 /\ Len(toHost) <= 2
  BY DEF TypeOK
<1>3. CASE DamageToArduino
  <2>1. toArduino' \in Seq(Frames) /\ Len(toArduino') <= 3
    BY <1>1, <1>2, <1>3, DamagedIs DEF DamageToArduino
  <2>2. damages' \in 0 .. DAMAGES
    BY <1>1, <1>2, <1>3, SMT DEF DamageToArduino
  <2> QED
    BY <1>3, <2>1, <2>2, Zenon DEF DamageToArduino, TypeOK
<1>4. CASE DamageToHost
  <2>1. toHost' \in Seq(Frames) /\ Len(toHost') <= 2
    BY <1>1, <1>2, <1>4, DamagedIs DEF DamageToHost
  <2>2. damages' \in 0 .. DAMAGES
    BY <1>1, <1>2, <1>4, SMT DEF DamageToHost
  <2> QED
    BY <1>4, <2>1, <2>2, Zenon DEF DamageToHost, TypeOK
<1> QED
  BY <1>3, <1>4

-----------------------------------------------------------------------------
(* The two programs stay in step, or stop. *)

\* What does not change the host keeps its place in the file.
LEMMA FittingUnchanged ==
  ASSUME Fitting, UNCHANGED <<file, at, waiting, count>>
  PROVE  Fitting'
BY DEF Fitting

\* Every step of the host keeps it: it counts whole blocks, and is in a block
\* as long as there is one.
LEMMA FittingHost ==
  ASSUME TypeOK, Fitting, Host
  PROVE  Fitting'
<1>1. /\ file \in Files /\ count \in Nat /\ Len(file) \in Nat /\ WORD \in Nat \ {0} /\ (0 % WORD) = 0
      /\ at \in Steps
  BY TypesAre, Constants, SmallIs, SMT
<1>2. /\ count >= Len(file) => Block = <<>>
      /\ count < Len(file) => Block # <<>>
      /\ Len(Block) \in Nat
  BY <1>1, BlockSize
<1>3. count < Len(file) \/ count >= Len(file)
  BY <1>1, SMT
<1>4. CASE Send
  <2>1. at \in {"write_addr", "read_addr"} => count < Len(file)
    BY <1>2, <1>3, <1>4 DEF Send, Over
  <2>2. /\ waiting' /\ ~ waiting /\ UNCHANGED <<file, at, count>>
        /\ at \notin {"ask", "read_ack", "verified", "unverified", "exit"}
    BY <1>4 DEF Send
  <2> QED
    BY <2>1, <2>2, Zenon DEF Fitting
<1>5. CASE ReceiveAck
  <2>1. /\ waiting /\ ~ waiting' /\ at' = Following(at) /\ file' = file /\ at \notin {"info", "read"}
        /\ count' = IF at \in {"write", "read_ack"} THEN count + Len(Block) ELSE count
    BY <1>5 DEF ReceiveAck
  <2>2. CASE at \in {"write", "read_ack"}
    <3>1. (count' % WORD) = 0
      BY <1>1, <2>1, <2>2, BlockEnds DEF Fitting
    <3>2. at' \in {"write_addr", "read_addr"}
      BY <2>1, <2>2 DEF Following
    <3> QED
      BY <2>1, <3>1, <3>2, Zenon DEF Fitting
  <2>3. CASE at \in {"write_addr", "write_buffer", "read_addr"}
    <3>1. count < Len(file) /\ count' = count /\ (count % WORD) = 0
      BY <2>1, <2>3 DEF Fitting
    <3>2. at' \in {"write_buffer", "write", "read"}
      BY <2>1, <2>3 DEF Following
    <3> QED
      BY <2>1, <3>1, <3>2, Zenon DEF Fitting
  <2>4. CASE at \in {"erase", "dma"}
    <3>1. count = 0 /\ count' = count /\ (count % WORD) = 0
      BY <2>1, <2>4 DEF Fitting
    <3>2. at' \in {"dma", "write_addr"}
      BY <2>1, <2>4 DEF Following
    <3> QED
      BY <2>1, <3>1, <3>2, Zenon DEF Fitting
  <2> QED
    BY <1>1, <2>1, <2>2, <2>3, <2>4 DEF Fitting, Steps
<1>6. CASE ReceiveInfo
  <2>1. at' \in {"exit", "erase"} /\ at = "info" /\ ~ waiting' /\ count' = count /\ file' = file
    BY <1>6 DEF ReceiveInfo, Following
  <2> QED
    BY <2>1, Zenon DEF Fitting
<1>7. CASE ReceiveBlock
  <2>1. waiting /\ waiting' = waiting /\ at = "read" /\ at' = "read_ack" /\ count' = count /\ file' = file
    BY <1>7 DEF ReceiveBlock
  <2> QED
    BY <2>1, Zenon DEF Fitting
<1>8. CASE Exit
  <2>1. at' = "exit" /\ ~ waiting' /\ count' = count /\ file' = file
    BY <1>8 DEF Exit
  <2> QED
    BY <2>1, Zenon DEF Fitting
<1>9. CASE EndOfFile
  <2>1. /\ at' \in {"ask", "verified"} /\ ~ waiting /\ waiting' = waiting
        /\ count' = count /\ file' = file /\ Len(file) <= count
    BY <1>2, <1>3, <1>9 DEF EndOfFile, Over
  <2> QED
    BY <2>1, Zenon DEF Fitting
<1>10. CASE Answer
  <2>1. /\ at = "ask" /\ waiting' = waiting /\ file' = file
        /\ (at' = "read_addr" /\ count' = 0) \/ (at' = "unverified" /\ count' = count)
    BY <1>10 DEF Answer
  <2> QED
    BY <1>1, <2>1, Zenon DEF Fitting
<1> QED
  BY <1>4, <1>5, <1>6, <1>7, <1>8, <1>9, <1>10 DEF Host

\* A request does not save an Arduino that is doomed.
LEMMA SendDoomed ==
  ASSUME TypeOK, Doomed, Send
  PROVE  Doomed'
<1>1. /\ file \in Files /\ count \in Nat /\ toArduino \in Seq(Frames) /\ at \in Steps
  BY TypesAre
<1>2. arduino' = arduino /\ toArduino' = toArduino \o Request(at) /\ at \in Sending
  BY <1>1 DEF Send, Sending, Steps
<1>3. CASE ~ arduino.alive
  BY <1>2, <1>3 DEF Doomed
<1>4. CASE toArduino # <<>> /\ Head(toArduino).type # "command"
  <2>1. Request(at) \in Seq(Frames) /\ Len(Request(at)) \in Nat
    BY <1>1, <1>2, RequestIs, LenProperties
  <2>2. Len(toArduino) \in Nat \ {0} /\ Head(toArduino) = toArduino[1]
    BY <1>1, <1>4, FirstIs
  <2>3. /\ toArduino' \in Seq(Frames) /\ Len(toArduino') = Len(toArduino) + Len(Request(at))
        /\ \A i \in 1 .. Len(toArduino) + Len(Request(at)) : (toArduino \o Request(at))[i] =
             IF i <= Len(toArduino) THEN toArduino[i] ELSE Request(at)[i - Len(toArduino)]
    BY <1>1, <1>2, <2>1, ConcatProperties
  <2>4. 1 \in 1 .. Len(toArduino) + Len(Request(at)) /\ 1 <= Len(toArduino)
    BY <2>1, <2>2, SMT
  <2>5. toArduino'[1] = toArduino[1]
    BY <1>2, <2>3, <2>4
  <2>6. toArduino' # <<>>
    <3>1. Len(toArduino') # 0
      BY <2>1, <2>2, <2>3, SMT
    <3> QED
      BY <3>1, EmptySeq
  <2>7. Head(toArduino') = toArduino'[1]
    BY <2>3, <2>6, FirstIs
  <2> QED
    BY <1>4, <2>2, <2>5, <2>6, <2>7 DEF Doomed
<1> QED
  BY <1>3, <1>4 DEF Doomed

\* Who is lost stays so when the host takes a step ...
LEMMA LostHost ==
  ASSUME TypeOK, Fitting, Lost, Host
  PROVE  Lost'
<1>1. /\ file \in Files /\ count \in Nat /\ toArduino \in Seq(Frames) /\ toHost \in Seq(Frames)
      /\ at \in Steps
  BY TypesAre
<1>2. Len(toHost) = 1 => toHost # <<>> /\ Tail(toHost) = <<>>
  <2>1. toHost # <<>> => (Len(toHost) = 1 => Tail(toHost) = <<>>)
    BY <1>1, FirstIs
  <2>2. Len(<<>>) = 0
    BY EmptySeq
  <2> QED
    BY <2>1, <2>2
<1>3. ASSUME UNCHANGED <<arduino, toArduino>> PROVE Quiet' /\ (Doomed => Doomed')
  BY <1>3 DEF Lost, Quiet, Doomed
<1>4. CASE Send
  <2>1. /\ ~ waiting /\ toHost = <<>> /\ at \in {"write_buffer", "write", "read"}
        /\ Doomed
    BY <1>4, Zenon DEF Send, Lost
  <2>2. /\ waiting' /\ UNCHANGED <<toHost, arduino>> /\ toArduino' = toArduino \o Request(at)
    BY <1>4 DEF Send
  <2>3. Doomed'
    BY <1>4, <2>1, SendDoomed
  <2> QED
    BY <2>1, <2>2, <2>3 DEF Lost, Quiet
<1>5. CASE ReceiveAck
  <2>1. /\ waiting /\ at \notin {"info", "read"} /\ toHost # <<>> /\ Head(toHost).type = "command"
        /\ at' = Following(at) /\ ~ waiting' /\ toHost' = Tail(toHost)
        /\ UNCHANGED <<arduino, toArduino>>
    BY <1>5 DEF ReceiveAck
  <2>4. Head(toHost).type \in Due
    BY <2>1 DEF Due
  <2>2. /\ Len(toHost) = 1 /\ at \in {"write_addr", "write_buffer", "read_addr", "read"}
        /\ Doomed /\ Len(toArduino) <= 1
    BY <2>1, <2>4, Zenon DEF Lost, Fitting
  <2>3. at' \in {"write_buffer", "write", "read"}
    BY <2>1, <2>2 DEF Following
  <2> QED
    BY <1>2, <1>3, <2>1, <2>2, <2>3 DEF Lost
<1>6. CASE ReceiveInfo
  <2>1. /\ waiting /\ at = "info" /\ toHost # <<>> /\ Head(toHost).type = "data"
    BY <1>6 DEF ReceiveInfo
  <2>2. Head(toHost).type \in Due
    BY <2>1 DEF Due
  <2> QED
    BY <2>1, <2>2, Zenon DEF Lost
<1>7. CASE ReceiveBlock
  <2>1. /\ waiting /\ at = "read" /\ toHost # <<>> /\ Head(toHost).type \in Due
        /\ at' = "read_ack" /\ waiting' /\ toHost' = Remains(Head(toHost)) \o Tail(toHost)
        /\ UNCHANGED <<arduino, toArduino>>
    BY <1>7 DEF ReceiveBlock
  <2>2. Len(toHost) = 1
    BY <2>1, Zenon DEF Lost, Fitting
  <2>3. toHost' = Remains(Head(toHost))
    BY <1>2, <2>1, <2>2, RemainsIs, ConcatEmptySeq
  <2>4. toHost' = <<>> \/ (toHost' # <<>> /\ Head(toHost').type = "rejected")
    BY <2>3, RemainsIs
  <2>5. Due' = {"command"}
    BY <2>1 DEF Due
  <2> QED
    BY <1>3, <2>1, <2>4, <2>5, Zenon DEF Lost
<1>8. CASE Exit
  BY <1>3, <1>8 DEF Exit, Lost
<1>9. CASE EndOfFile
  BY <1>9, Zenon DEF EndOfFile, Over, Lost, Fitting
<1>10. CASE Answer
  BY <1>10, Zenon DEF Answer, Lost, Fitting
<1> QED
  BY <1>4, <1>5, <1>6, <1>7, <1>8, <1>9, <1>10 DEF Host

\* A doomed Arduino only can give up, and stays doomed.
LEMMA DoomedArduino ==
  ASSUME TypeOK, Doomed, Arduino
  PROVE  /\ Doomed' /\ UNCHANGED <<file, at, waiting, count, toArduino, toHost>>
         /\ ~ EraseChip /\ ~ StartWrite
<1>1. ASSUME NEW c, Handles(c) PROVE FALSE
  <2>1. /\ arduino.alive /\ toArduino # <<>> /\ Head(toArduino) = Command(c)
    BY <1>1 DEF Handles
  <2> QED
    BY <2>1, FrameIs DEF Doomed
<1>2. Die
  <2>1. \/ \E c : Handles(c)
        \/ Die
    BY Zenon DEF Arduino, GetInfo, SetWriteAddr, SetReadAddr, SetWriteBuffer, EnableDma, EraseChip,
           StartWrite, StartRead, Ignore, HandlesData
  <2> QED
    BY <1>1, <2>1
<1>3. /\ arduino' = [arduino EXCEPT !.alive = FALSE,
                       !.overrun = Head(toArduino).code \in WithData /\ Brought]
      /\ arduino \in Arduinos /\ UNCHANGED <<file, at, waiting, count, toArduino, toHost>>
  BY <1>2, ArduinoIs DEF Die
<1>4. ~ arduino'.alive
  BY <1>3 DEF Arduinos
<1>5. ~ EraseChip /\ ~ StartWrite
  BY <1>1 DEF EraseChip, StartWrite
<1> QED
  BY <1>3, <1>4, <1>5 DEF Doomed

\* ... or the Arduino ...
LEMMA LostArduino ==
  ASSUME TypeOK, Sync, Lost, Arduino
  PROVE  Lost'
<1>1. ASSUME NEW c, Handles(c) PROVE FALSE
  BY <1>1, HandlesAsked
<1>2. Doomed
  <2>1. toArduino # <<>>
    <3>1. \/ \E c : Handles(c)
          \/ Die
      BY Zenon DEF Arduino, GetInfo, SetWriteAddr, SetReadAddr, SetWriteBuffer, EnableDma,
             EraseChip, StartWrite, StartRead, Ignore, HandlesData
    <3> QED
      BY <1>1, <3>1 DEF Die
  <2> QED
    BY <2>1 DEF Lost, Quiet
<1>3. Doomed' /\ UNCHANGED <<at, waiting, toArduino, toHost>>
  BY <1>2, DoomedArduino
<1> QED
  BY <1>2, <1>3 DEF Lost, Quiet, Due

\* Damage makes no command of what is none.
LEMMA DoomedDamage ==
  ASSUME TypeOK, Doomed, DamageToArduino
  PROVE  Doomed' /\ Len(toArduino') = Len(toArduino)
<1>1. toArduino \in Seq(Frames) /\ arduino' = arduino
  BY TypesAre DEF DamageToArduino
<1>2. PICK i \in DOMAIN toArduino : \E bad \in Damaged(toArduino[i]) \cup Overlong(toArduino[i]) :
        toArduino' = [toArduino EXCEPT ![i] = bad]
  BY DEF DamageToArduino
<1>3. PICK bad \in Damaged(toArduino[i]) \cup Overlong(toArduino[i]) :
        toArduino' = [toArduino EXCEPT ![i] = bad]
  BY <1>2
<1>4. /\ toArduino' \in Seq(Frames) /\ Len(toArduino') = Len(toArduino)
      /\ \/ bad = Rejected
         \/ bad.type = "command" /\ toArduino[i].type = "command"
         \/ bad.type \in {"data", "cut"} /\ toArduino[i].type = "data"
      /\ toArduino'[i] = bad /\ \A j \in 1 .. Len(toArduino) : j # i => toArduino'[j] = toArduino[j]
  BY <1>1, <1>3, DamagedIs
<1>5. i \in 1 .. Len(toArduino) /\ Len(toArduino) \in Nat
  BY <1>1, LenProperties
<1>6. toArduino # <<>> /\ toArduino' # <<>>
  <2>1. Len(toArduino) # 0
    BY <1>5, SMT
  <2> QED
    BY <1>4, <2>1, EmptySeq
<1>7. Head(toArduino) = toArduino[1] /\ Head(toArduino') = toArduino'[1]
  BY <1>1, <1>4, <1>6, FirstIs
<1>8. 1 \in 1 .. Len(toArduino)
  BY <1>5, SMT
<1>9. CASE ~ arduino.alive
  BY <1>1, <1>4, <1>9 DEF Doomed
<1>10. CASE Head(toArduino).type # "command"
  <2>1. toArduino'[1].type # "command"
    <3>1. CASE i = 1
      BY <1>4, <1>7, <1>10, <3>1, FrameIs
    <3>2. CASE i # 1
      BY <1>4, <1>7, <1>8, <1>10, <3>2
    <3> QED
      BY <3>1, <3>2
  <2> QED
    BY <1>4, <1>6, <1>7, <2>1 DEF Doomed
<1> QED
  BY <1>6, <1>9, <1>10 DEF Doomed

\* ... or when the line does damage.
LEMMA LostDamage ==
  ASSUME TypeOK, Lost, DamageToArduino \/ DamageToHost
  PROVE  Lost'
<1>1. toArduino \in Seq(Frames) /\ toHost \in Seq(Frames)
  BY TypesAre
<1>2. CASE DamageToArduino
  <2>1. UNCHANGED <<at, waiting, toHost, arduino>> /\ toArduino # <<>>
    BY <1>1, <1>2, EmptySeq, SMT DEF DamageToArduino
  <2>2. Doomed
    BY <2>1 DEF Lost, Quiet
  <2>3. Doomed' /\ Len(toArduino') = Len(toArduino)
    BY <1>2, <2>2, DoomedDamage
  <2> QED
    BY <2>1, <2>2, <2>3, Zenon DEF Lost, Quiet, Due
<1>3. CASE DamageToHost
  <2>1. UNCHANGED <<at, waiting, toArduino, arduino>>
    BY <1>3 DEF DamageToHost
  <2>0. PICK i \in DOMAIN toHost :
          \E bad \in Damaged(toHost[i]) : toHost' = [toHost EXCEPT ![i] = bad]
    BY <1>3 DEF DamageToHost
  <2>2. PICK bad \in Damaged(toHost[i]) : toHost' = [toHost EXCEPT ![i] = bad]
    BY <2>0
  <2>3. /\ toHost' \in Seq(Frames) /\ Len(toHost') = Len(toHost)
        /\ \/ bad = Rejected
           \/ bad.type = "command" /\ toHost[i].type = "command"
           \/ bad.type \in {"data", "cut"} /\ toHost[i].type = "data"
        /\ toHost'[i] = bad /\ \A j \in 1 .. Len(toHost) : j # i => toHost'[j] = toHost[j]
    BY <1>1, <2>2, DamagedIs
  <2>4. i \in 1 .. Len(toHost) /\ Len(toHost) \in Nat
    BY <1>1, LenProperties
  <2>5. toHost # <<>> /\ toHost' # <<>>
    <3>1. Len(toHost) # 0
      BY <2>4, SMT
    <3> QED
      BY <2>3, <3>1, EmptySeq
  <2>6. Head(toHost) = toHost[1] /\ Head(toHost') = toHost'[1]
    BY <1>1, <2>3, <2>5, FirstIs
  <2>7. 1 \in 1 .. Len(toHost)
    BY <2>4, SMT
  <2>8. Head(toHost).type \notin Due => Head(toHost').type \notin Due
    <3>1. CASE i = 1
      <4>1. Due \in {{"data"}, {"data", "cut"}, {"command"}}
        BY DEF Due
      <4>2. "rejected" \notin Due /\ ("data" \notin Due => "cut" \notin Due)
        BY <4>1
      <4> QED
        BY <2>3, <2>6, <3>1, <4>2, FrameIs
    <3>2. CASE i # 1
      BY <2>3, <2>6, <2>7, <3>2
    <3> QED
      BY <3>1, <3>2
  <2>9. Quiet' /\ (Doomed => Doomed') /\ Due' = Due
    BY <2>1 DEF Lost, Quiet, Doomed, Due
  <2> QED
    BY <2>1, <2>3, <2>5, <2>8, <2>9, Zenon DEF Lost
<1> QED
  BY <1>2, <1>3

\* A command that has an answer or none: the host has its reply, or one that is
\* not due, or waits for one in vain.
LEMMA PlainSync ==
  ASSUME TypeOK, Sync, NEW c \in Commands \ WithData, Handles(c),
         NEW frames \in Seq(Frames), Reply(frames),
         \/ frames = <<>>
         \/ Len(frames) = 1 /\ frames # <<>> /\ Head(frames).type \in {"command", "data"}
  PROVE  Sync' /\ (at \in Long => Lost')
<1>1. /\ toHost' = frames
      /\ at \notin Long => toArduino' = <<>>
      /\ at \in Long => /\ toArduino' # <<>> /\ Len(toArduino') = 1
                        /\ Head(toArduino').type # "command"
  BY PlainConsumed
<1>2. Fitting /\ waiting
  BY HandlesAsked
<1>3. UNCHANGED <<file, at, waiting, count>>
  BY DEF Reply
<1>4. Fitting'
  BY <1>2, <1>3, FittingUnchanged
<1>5. Quiet' /\ (at \in Long => Doomed')
  BY <1>1 DEF Quiet, Doomed
<1>6. CASE frames = <<>>
  <2>1. Lost'
    BY <1>1, <1>2, <1>3, <1>5, <1>6 DEF Lost
  <2> QED
    BY <2>1, <1>4 DEF Sync
<1>7. CASE Len(frames) = 1 /\ frames # <<>> /\ Head(frames).type \in {"command", "data"}
  <2>1. CASE at \notin Long
    <3>1. Answered'
      BY <1>1, <1>2, <1>3, <1>7, <2>1 DEF Answered, Long
    <3> QED
      BY <3>1, <2>1, <1>4 DEF Sync
  <2>2. CASE at \in Long
    <3>1. Doomed' /\ Len(toArduino') <= 1
      <4>1. Doomed' /\ Len(toArduino') = 1
        BY <1>1, <1>5, <2>2, Zenon
      <4>2. \A n : n = 1 => n <= 1
        BY SMT
      <4> QED
        BY <4>1, <4>2, Zenon
    <3>2. Lost'
      BY <1>1, <1>2, <1>3, <1>5, <1>7, <2>2, <3>1, Zenon DEF Lost, Long
    <3> QED
      BY <3>2, <1>4 DEF Sync
  <2> QED
    BY <2>1, <2>2
<1> QED
  BY <1>6, <1>7

\* A command with data is acknowledged, or answered with data.
LEMMA DataSync ==
  ASSUME TypeOK, Sync, NEW c \in WithData, HandlesData(c),
         NEW frames \in Seq(Frames), Reply(frames), frames # <<>>,
         \/ Len(frames) = 1 /\ Head(frames).type = "command"
         \/ Len(frames) = 2 /\ Head(frames).type = "data"
  PROVE  Sync'
<1>1. /\ toArduino' = <<>> \/ (toArduino' # <<>> /\ Head(toArduino').type = "rejected")
      /\ Len(toArduino') <= 1 /\ toHost' = frames
  BY DataConsumed, RemainsIs
<1>2. Fitting /\ waiting /\ at \in Long
  BY DataAsked
<1>3. UNCHANGED <<file, at, waiting, count>>
  BY DEF Reply
<1>4. Fitting'
  BY <1>2, <1>3, FittingUnchanged
<1>5. Quiet' /\ (toArduino' # <<>> => Doomed')
  BY <1>1 DEF Quiet, Doomed
<1>6. CASE Len(frames) # 1 /\ at # "read"
  <2>1. Due' = {"command"}
    BY <1>2, <1>3, <1>6 DEF Due, Long
  <2>2. Head(frames).type \notin {"command"}
    BY <1>6
  <2>3. Lost'
    BY <1>1, <1>2, <1>3, <1>5, <2>1, <2>2, Zenon DEF Lost
  <2> QED
    BY <2>3, <1>4 DEF Sync
<1>7. CASE Len(frames) = 1 /\ at = "read"
  <2>1. Due' = {"data", "cut"}
    BY <1>3, <1>7 DEF Due
  <2>2. Head(frames).type \notin {"data", "cut"}
    BY <1>7
  <2>3. Lost'
    BY <1>1, <1>2, <1>3, <1>5, <2>1, <2>2, Zenon DEF Lost
  <2> QED
    BY <2>3, <1>4 DEF Sync
<1>8. CASE Len(frames) = IF at = "read" THEN 2 ELSE 1
  <2>1. CASE toArduino' = <<>>
    <3>1. Answered'
      BY <1>1, <1>2, <1>3, <1>8, <2>1 DEF Answered
    <3> QED
      BY <3>1, <1>4 DEF Sync
  <2>2. CASE toArduino' # <<>> /\ at = "read"
    <3>1. Left'
      BY <1>1, <1>2, <1>3, <1>5, <1>8, <2>2, Zenon DEF Left
    <3> QED
      BY <3>1, <1>4 DEF Sync
  <2>3. CASE toArduino' # <<>> /\ at # "read"
    <3>1. Lost'
      BY <1>1, <1>2, <1>3, <1>5, <1>8, <2>3, Zenon DEF Lost, Long
    <3> QED
      BY <3>1, <1>4 DEF Sync
  <2> QED
    BY <2>1, <2>2, <2>3
<1> QED
  BY <1>6, <1>7, <1>8

\* Every step of the Arduino keeps the two in step; a command that is not the
\* last of a request stops them.
LEMMA SyncArduino ==
  ASSUME TypeOK, Sync, Arduino
  PROVE  /\ Sync'
         /\ at \in Long /\ (EraseChip \/ StartWrite) => Lost'
<1>1. /\ <<>> \in Seq(Frames) /\ Command("ACK").type = "command"
      /\ <<Command("ACK")>> \in Seq(Frames) /\ Len(<<Command("ACK")>>) = 1
      /\ Head(<<Command("ACK")>>) = Command("ACK") /\ <<Command("ACK")>> # <<>>
  BY AnswersAre, FrameIs
<1>2. ASSUME NEW c \in Commands \ WithData, Handles(c), Reply(<<Command("ACK")>>)
      PROVE  Sync' /\ (at \in Long => Lost')
  BY <1>1, <1>2, PlainSync
<1>3. ASSUME NEW c \in WithData, HandlesData(c), Reply(<<Command("ACK")>>)
      PROVE  Sync'
  BY <1>1, <1>3, DataSync
<1>4. CASE GetInfo
  <2> DEFINE info == <<1, 0, 0, 0>>
  <2>1. info \in Seq(Bytes)
    BY Constants, SMT DEF Bytes
  <2>2. Handles("GET_INFO") /\ Reply(<<Data(info)>>)
    BY <1>4 DEF GetInfo
  <2> HIDE DEF info
  <2>3. /\ <<Data(info)>> \in Seq(Frames) /\ Len(<<Data(info)>>) = 1 /\ <<Data(info)>> # <<>>
        /\ Head(<<Data(info)>>).type = "data"
    BY <2>1, AnswersAre, FrameIs
  <2>4. "GET_INFO" \in Commands \ WithData
    BY DEF Commands, WithData
  <2>5. Sync'
    BY <2>2, <2>3, <2>4, PlainSync
  <2>6. ~ EraseChip /\ ~ StartWrite
    BY <2>2 DEF EraseChip, StartWrite, Handles, Command
  <2> QED
    BY <2>5, <2>6
<1>5. CASE SetWriteAddr \/ SetReadAddr \/ SetWriteBuffer
  <2>1. PICK c \in WithData : HandlesData(c) /\ Reply(<<Command("ACK")>>)
    BY <1>5, Zenon DEF SetWriteAddr, SetReadAddr, SetWriteBuffer, WithData
  <2>2. ~ EraseChip /\ ~ StartWrite
    BY <2>1 DEF EraseChip, StartWrite, HandlesData, Handles, Command, WithData
  <2> QED
    BY <2>1, <2>2, <1>3
<1>6. CASE StartRead
  <2>1. PICK read \in Seq(Bytes) : HandlesData("START_READ") /\ Reply(<<Data(read), Command("ACK")>>)
    BY <1>6, StartReadIs
  <2>2. /\ <<Data(read), Command("ACK")>> \in Seq(Frames) /\ Len(<<Data(read), Command("ACK")>>) = 2
        /\ Head(<<Data(read), Command("ACK")>>).type = "data" /\ <<Data(read), Command("ACK")>> # <<>>
    BY AnswersAre, FrameIs
  <2>3. Sync'
    BY <2>1, <2>2, DataSync DEF WithData
  <2>4. ~ EraseChip /\ ~ StartWrite
    BY <2>1 DEF EraseChip, StartWrite, HandlesData, Handles, Command
  <2> QED
    BY <2>3, <2>4
<1>7. CASE EnableDma \/ EraseChip \/ StartWrite
  <2>1. PICK c \in Commands \ WithData : Handles(c) /\ Reply(<<Command("ACK")>>)
    BY <1>7, Zenon DEF EnableDma, EraseChip, StartWrite, Commands, WithData
  <2> QED
    BY <2>1, <1>2
<1>8. CASE Ignore
  <2>1. PICK c \in {"unknown", "ACK"} : Handles(c)
    BY <1>8 DEF Ignore
  <2>2. c \in Commands \ WithData /\ Reply(<<>>)
    BY <1>8 DEF Ignore, Commands, WithData
  <2>3. Sync'
    BY <1>1, <2>1, <2>2, PlainSync
  <2>4. ~ EraseChip /\ ~ StartWrite
    BY <2>1 DEF EraseChip, StartWrite, Handles, Command
  <2> QED
    BY <2>3, <2>4
<1>9. CASE Die
  <2>0. Doomed => Doomed'
    BY <1>9, DoomedArduino DEF Arduino
  <2>1. UNCHANGED <<file, at, waiting, count, toArduino, toHost>> /\ ~ Understood
    BY <1>9 DEF Die
  <2>2. Fitting'
    BY <2>1, FittingUnchanged DEF Sync
  <2>3. CASE Lost
    BY <1>9, <2>2, <2>3, LostArduino DEF Sync, Arduino
  <2>4. EraseChip \/ StartWrite => Lost'
    <3>1. EraseChip \/ StartWrite => Understood
      BY FrameIs DEF EraseChip, StartWrite, Handles, Understood, WithData
    <3> QED
      BY <2>1, <3>1
  <2>5. CASE ~ Lost
    <3>1. Idle' \/ Asked' \/ Answered' \/ Left'
      <4>1. Idle \/ Asked \/ Answered \/ Left
        BY <2>5 DEF Sync
      <4>2. Request(at)' = Request(at)
        BY <2>1 DEF Request, Block
      <4> QED
        BY <2>0, <2>1, <4>1, <4>2 DEF Idle, Asked, Answered, Left
    <3> QED
      BY <2>2, <2>4, <3>1 DEF Sync
  <2> QED
    BY <2>3, <2>4, <2>5
<1> QED
  BY <1>4, <1>5, <1>6, <1>7, <1>8, <1>9 DEF Arduino

\* So does every step of the host ...
LEMMA SyncHost ==
  ASSUME TypeOK, Sync, Host
  PROVE  Sync'
<1>1. /\ file \in Files /\ count \in Nat /\ toArduino \in Seq(Frames) /\ toHost \in Seq(Frames)
      /\ at \in Steps
  BY TypesAre
<1>2. Fitting'
  BY FittingHost DEF Sync
<1>3. CASE Lost
  BY <1>2, <1>3, LostHost DEF Sync
<1>5. CASE ~ Lost /\ Left
  <2>1. Doomed /\ Len(toArduino) <= 1
    BY <1>5 DEF Left
  <2>2. Len(<<>>) = 0
    BY EmptySeq
  <2>3. ASSUME UNCHANGED <<arduino, toArduino>> PROVE Doomed' /\ Quiet' /\ Len(toArduino') <= 1
    BY <2>1, <2>3 DEF Doomed, Quiet
  <2>4. CASE Send
    <3>1. ~ waiting /\ waiting' /\ toHost' = toHost /\ toHost = <<>>
      BY <2>4, <1>5 DEF Send, Left
    <3>2. Doomed'
      BY <2>1, <2>4, SendDoomed
    <3>3. Lost'
      BY <3>1, <3>2 DEF Lost, Quiet
    <3> QED
      BY <3>3, <1>2 DEF Sync
  <2>5. CASE ReceiveAck
    <3>1. /\ waiting /\ at \notin {"info", "read"} /\ toHost # <<>> /\ ~ waiting'
          /\ toHost' = Tail(toHost) /\ at' = Following(at) /\ UNCHANGED <<arduino, toArduino>>
      BY <2>5 DEF ReceiveAck
    <3>2. at = "read_ack" /\ Len(toHost) = 1
      BY <3>1, <1>5, Zenon DEF Left
    <3>3. toHost' = <<>>
      BY <1>1, <3>1, <3>2, FirstIs
    <3>4. at' = "read_addr"
      BY <3>1, <3>2 DEF Following
    <3>5. Left'
      BY <2>3, <3>1, <3>3, <3>4, Zenon DEF Left
    <3> QED
      BY <3>5, <1>2 DEF Sync
  <2>6. CASE ReceiveInfo
    BY <2>6, <1>5 DEF ReceiveInfo, Left
  <2>7. CASE ReceiveBlock
    <3>1. /\ waiting /\ at = "read" /\ toHost # <<>> /\ at' = "read_ack" /\ waiting' = waiting
          /\ toHost' = Remains(Head(toHost)) \o Tail(toHost) /\ UNCHANGED <<arduino, toArduino>>
      BY <2>7 DEF ReceiveBlock
    <3>2. Len(toHost) = 2
      BY <3>1, <1>5, Zenon DEF Left
    <3>3. Tail(toHost) \in Seq(Frames) /\ Tail(toHost) = <<toHost[2]>> /\ Len(Tail(toHost)) = 1
      <4>1. Len(Tail(toHost)) = Len(toHost) - 1
        BY <1>1, <3>1, FirstIs
      <4>2. Len(Tail(toHost)) = 1
        BY <3>2, <4>1, SMT
      <4> QED
        BY <1>1, <3>1, <3>2, <4>2, FirstIs
    <3>4. CASE Remains(Head(toHost)) = <<>>
      <4>1. Len(toHost') = 1
        BY <3>1, <3>3, <3>4, ConcatEmptySeq
      <4>2. Left'
        BY <2>3, <3>1, <4>1, Zenon DEF Left
      <4> QED
        BY <4>2, <1>2 DEF Sync
    <3>5. CASE Remains(Head(toHost)) # <<>>
      <4>1. toHost' # <<>> /\ Head(toHost').type = "rejected"
        BY <3>1, <3>3, <3>5, RemainsBefore
      <4>2. Due' = {"command"}
        BY <3>1 DEF Due
      <4>3. Lost'
        BY <2>3, <3>1, <4>1, <4>2, Zenon DEF Lost
      <4> QED
        BY <4>3, <1>2 DEF Sync
    <3> QED
      BY <3>4, <3>5
  <2>8. CASE Exit
    <3>1. UNCHANGED <<arduino, toArduino>> /\ at' = "exit"
      BY <2>8 DEF Exit
    <3>2. Lost'
      BY <2>3, <3>1 DEF Lost
    <3> QED
      BY <3>2, <1>2 DEF Sync
  <2>9. CASE EndOfFile
    <3>1. /\ ~ waiting /\ at \in {"write_addr", "read_addr"}
          /\ at' = (IF at = "write_addr" THEN "ask" ELSE "verified")
          /\ UNCHANGED <<waiting, toHost, arduino, toArduino>>
      BY <2>9 DEF EndOfFile, Over
    <3>2. at = "read_addr" /\ toHost = <<>>
      BY <3>1, <1>5, Zenon DEF Left
    <3>3. Left'
      BY <2>3, <3>1, <3>2, Zenon DEF Left
    <3> QED
      BY <3>3, <1>2 DEF Sync
  <2>10. CASE Answer
    BY <2>10, <1>5 DEF Answer, Left
  <2> QED
    BY <2>4, <2>5, <2>6, <2>7, <2>8, <2>9, <2>10 DEF Host
<1>4. CASE ~ Lost /\ ~ Left
  <2>1. Idle \/ Asked \/ Answered
    BY <1>4 DEF Sync
  <2>2. toHost # <<>> => waiting /\ Answered /\ toArduino = <<>>
    BY <2>1 DEF Idle, Asked, Answered
  <2>3. toHost # <<>> => /\ at # "read" => Tail(toHost) = <<>>
                         /\ at = "read" => Len(Tail(toHost)) = 1
    <3>1. ASSUME toHost # <<>> PROVE /\ at # "read" => Len(toHost) = 1
                                     /\ at = "read" => Len(toHost) = 2
      BY <2>2, <3>1 DEF Answered
    <3>2. ASSUME toHost # <<>>, Len(toHost) = 2 PROVE Len(Tail(toHost)) = 1
      <4>1. Len(Tail(toHost)) = Len(toHost) - 1
        BY <1>1, <3>2, FirstIs
      <4> QED
        BY <4>1, <3>2, SMT
    <3>3. ASSUME toHost # <<>>, Len(toHost) = 1 PROVE Tail(toHost) = <<>>
      BY <1>1, <3>3, FirstIs
    <3> QED
      BY <3>1, <3>2, <3>3
  <2>4. CASE Send
    <3>1. /\ ~ waiting /\ waiting' /\ at' = at /\ UNCHANGED <<file, count, toHost>>
          /\ toArduino' = toArduino \o Request(at)
          /\ at \notin {"ask", "read_ack", "verified", "unverified", "exit"}
      BY <2>4 DEF Send
    <3>2. toArduino = <<>> /\ toHost = <<>> /\ at \in Sending
      BY <1>1, <2>1, <3>1 DEF Idle, Asked, Answered, Sending, Steps
    <3>3. Request(at) \in Seq(Frames) /\ Request(at)[1].type = "command"
      BY <1>1, <3>2, RequestIs
    <3>4. toArduino' = Request(at)
      BY <3>1, <3>2, <3>3, ConcatEmptySeq
    <3>5. Request(at)' = Request(at)
      BY <3>1 DEF Request, Block
    <3>7. Len(Request(at)) = 2 => Request(at)[2].type = "data"
      BY <1>1, <3>2, RequestIs
    <3>6. Asked'
      BY <3>1, <3>2, <3>3, <3>4, <3>5, <3>7 DEF Asked
    <3> QED
      BY <3>6, <1>2 DEF Sync
  <2>5. CASE ReceiveAck \/ ReceiveInfo
    <3>1. /\ toHost # <<>> /\ ~ waiting' /\ toArduino' = toArduino /\ toHost' = Tail(toHost)
          /\ at # "read"
      BY <2>5 DEF ReceiveAck, ReceiveInfo
    <3>2. Idle'
      BY <3>1, <2>2, <2>3 DEF Idle
    <3> QED
      BY <3>2, <1>2 DEF Sync
  <2>6. CASE ReceiveBlock
    <3>1. /\ toHost # <<>> /\ waiting /\ waiting' = waiting /\ toArduino' = toArduino
          /\ toHost' = Remains(Head(toHost)) \o Tail(toHost) /\ at = "read" /\ at' = "read_ack"
      BY <2>6 DEF ReceiveBlock
    <3>2. Tail(toHost) \in Seq(Frames) /\ Len(Tail(toHost)) = 1
      BY <1>1, <2>3, <3>1, FirstIs
    <3>3. CASE Remains(Head(toHost)) = <<>>
      <4>1. Len(toHost') = 1
        BY <3>1, <3>2, <3>3, ConcatEmptySeq
      <4>2. Answered'
        BY <3>1, <4>1, <2>2 DEF Answered
      <4> QED
        BY <4>2, <1>2 DEF Sync
    <3>4. CASE Remains(Head(toHost)) # <<>>
      <4>1. toHost' # <<>> /\ Head(toHost').type = "rejected"
        BY <3>1, <3>2, <3>4, RemainsBefore
      <4>2. Due' = {"command"}
        BY <3>1 DEF Due
      <4>3. toArduino' = <<>>
        BY <3>1, <2>2
      <4>4. Lost'
        BY <3>1, <4>1, <4>2, <4>3, Zenon DEF Lost, Quiet
      <4> QED
        BY <4>4, <1>2 DEF Sync
    <3> QED
      BY <3>3, <3>4
  <2>7. CASE Exit
    <3>1. toHost # <<>> /\ toArduino' = toArduino /\ at' = "exit"
      BY <2>7 DEF Exit
    <3>2. Lost'
      BY <3>1, <2>2 DEF Lost, Quiet
    <3> QED
      BY <3>2, <1>2 DEF Sync
  <2>8. CASE EndOfFile \/ Answer
    <3>1. ~ waiting /\ UNCHANGED <<waiting, toArduino, toHost>>
      BY <2>8 DEF EndOfFile, Answer, Sync, Fitting
    <3>2. Idle'
      BY <3>1, <2>1 DEF Idle, Asked, Answered
    <3> QED
      BY <3>2, <1>2 DEF Sync
  <2> QED
    BY <2>4, <2>5, <2>6, <2>7, <2>8 DEF Host
<1> QED
  BY <1>3, <1>4, <1>5

\* ... and damage.
LEMMA SyncDamage ==
  ASSUME TypeOK, Sync, DamageToArduino \/ DamageToHost
  PROVE  Sync'
<1>1. /\ file \in Files /\ count \in Nat /\ toArduino \in Seq(Frames) /\ toHost \in Seq(Frames)
  BY TypesAre
<1>2. UNCHANGED <<file, at, waiting, count>>
  BY DEF DamageToArduino, DamageToHost
<1>3. Fitting'
  BY <1>2, FittingUnchanged DEF Sync
<1>4. CASE Lost
  BY <1>3, <1>4, LostDamage DEF Sync
<1>5. CASE Left
  <2>1. Doomed /\ Len(toArduino) <= 1
    BY <1>5 DEF Left
  <2>2. Doomed' /\ Len(toArduino') <= 1
    <3>1. CASE DamageToArduino
      BY <2>1, <3>1, DoomedDamage
    <3>2. CASE DamageToHost
      BY <2>1, <3>2 DEF DamageToHost, Doomed
    <3> QED
      BY <3>1, <3>2
  <2>3. Len(toHost') = Len(toHost) /\ (toHost = <<>> => toHost' = <<>>)
    <3>1. CASE DamageToArduino
      BY <3>1 DEF DamageToArduino
    <3>2. CASE DamageToHost
      <4>1. toHost' \in Seq(Frames) /\ Len(toHost') = Len(toHost)
        BY <1>1, <3>2, DamagedIs DEF DamageToHost
      <4> QED
        BY <4>1, EmptySeq
    <3> QED
      BY <3>1, <3>2
  <2>4. Left'
    BY <1>2, <1>5, <2>2, <2>3, Zenon DEF Left
  <2> QED
    BY <1>3, <2>4 DEF Sync
<1>6. CASE ~ Lost /\ ~ Left /\ DamageToArduino
  <2>1. PICK i \in DOMAIN toArduino : \E bad \in Damaged(toArduino[i]) \cup Overlong(toArduino[i]) :
          toArduino' = [toArduino EXCEPT ![i] = bad]
    BY <1>6 DEF DamageToArduino
  <2>2. PICK bad \in Damaged(toArduino[i]) \cup Overlong(toArduino[i]) :
          toArduino' = [toArduino EXCEPT ![i] = bad]
    BY <2>1
  <2>3. /\ toArduino' \in Seq(Frames) /\ Len(toArduino') = Len(toArduino)
        /\ \/ bad = Rejected
           \/ bad.type = "command" /\ toArduino[i].type = "command"
           \/ bad.type \in {"data", "cut"} /\ toArduino[i].type = "data"
        /\ toArduino'[i] = bad /\ \A j \in 1 .. Len(toArduino) : j # i => toArduino'[j] = toArduino[j]
    BY <1>1, <2>2, DamagedIs
  <2>4. i \in 1 .. Len(toArduino) /\ Len(toArduino) \in Nat
    BY <1>1, LenProperties
  <2>5. toArduino # <<>>
    <3>1. Len(toArduino) # 0
      BY <2>4, SMT
    <3> QED
      BY <3>1, EmptySeq
  <2>6. Asked /\ at \in Sending
    BY <1>6, <2>5, AskedSends DEF Sync, Idle, Answered
  <2>7. Request(at)' = Request(at)
    BY <1>2 DEF Request, Block
  <2>8. toArduino'[1].type \in {"command", "rejected"}
    <3>1. CASE i = 1
      <4>1. toArduino[1].type \in {"command", "rejected"}
        BY <2>6 DEF Asked
      <4> QED
        BY <2>3, <3>1, <4>1, FrameIs
    <3>2. CASE i # 1
      <4>1. 1 \in 1 .. Len(toArduino)
        BY <2>4, SMT
      <4> QED
        BY <2>3, <2>6, <3>2, <4>1 DEF Asked
    <3> QED
      BY <3>1, <3>2
  <2>9. ASSUME Len(toArduino) = 2 PROVE toArduino'[2].type # "command"
    <3>0. toArduino[2].type # "command"
      BY <2>6, <2>9 DEF Asked
    <3>1. CASE i = 2
      BY <2>3, <3>0, <3>1, FrameIs
    <3>2. CASE i # 2
      <4>1. 2 \in 1 .. Len(toArduino)
        BY <2>9, SMT
      <4> QED
        BY <2>3, <3>0, <3>2, <4>1
    <3> QED
      BY <3>1, <3>2
  <2>10. toHost' = toHost
    BY <1>6 DEF DamageToArduino
  <2>11. Asked'
    BY <1>2, <2>3, <2>6, <2>7, <2>8, <2>9, <2>10 DEF Asked
  <2> QED
    BY <1>3, <2>11 DEF Sync
<1>7. CASE ~ Lost /\ ~ Left /\ DamageToHost
  <2>1. PICK i \in DOMAIN toHost :
          \E bad \in Damaged(toHost[i]) : toHost' = [toHost EXCEPT ![i] = bad]
    BY <1>7 DEF DamageToHost
  <2>2. PICK bad \in Damaged(toHost[i]) : toHost' = [toHost EXCEPT ![i] = bad]
    BY <2>1
  <2>3. Len(toHost') = Len(toHost)
    BY <1>1, <2>2, DamagedIs
  <2>4. i \in 1 .. Len(toHost) /\ Len(toHost) \in Nat
    BY <1>1, LenProperties
  <2>5. toHost # <<>>
    <3>1. Len(toHost) # 0
      BY <2>4, SMT
    <3> QED
      BY <3>1, EmptySeq
  <2>6. Answered
    BY <1>7, <2>5 DEF Sync, Idle, Asked
  <2>7. toArduino' = toArduino
    BY <1>7 DEF DamageToHost
  <2>8. Answered'
    BY <1>2, <2>3, <2>6, <2>7 DEF Answered
  <2> QED
    BY <1>3, <2>8 DEF Sync
<1> QED
  BY <1>4, <1>5, <1>6, <1>7

-----------------------------------------------------------------------------
(* As long as every frame is what it should be. *)

\* The command handled is the one the host has asked for.
LEMMA ExactHandles ==
  ASSUME TypeOK, Sync, Exact, NEW c, Handles(c)
  PROVE  /\ toArduino = Request(at) /\ waiting /\ toHost = <<>>
         /\ <<c, at>> \in {<<"GET_INFO", "info">>, <<"ERASE_CHIP", "erase">>,
                           <<"ENABLE_DMA", "dma">>, <<"SET_WRITE_ADDR", "write_addr">>,
                           <<"SET_WRITE_BUFFER", "write_buffer">>, <<"START_WRITE", "write">>,
                           <<"SET_READ_ADDR", "read_addr">>, <<"START_READ", "read">>}
<1>1. toArduino # <<>> /\ at \in Sending /\ Head(toArduino) = Command(c)
  BY HandlesAsked
<1>2. toArduino = Request(at) /\ waiting /\ toHost = <<>>
  BY <1>1 DEF Exact, Idle
<1>3. Head(Request(at)).code = c
  BY <1>1, <1>2, FrameIs
<1>4. \A f, g : Head(<<f>>) = f /\ Head(<<f, g>>) = f
  OBVIOUS
<1>5. \A d : Command(d).code = d
  BY FrameIs
<1>6. CASE at \in {"info", "erase", "dma", "write"}
  BY <1>2, <1>3, <1>4, <1>5, <1>6 DEF Request
<1>7. CASE at \in {"write_addr", "write_buffer", "read_addr", "read"}
  BY <1>2, <1>3, <1>4, <1>5, <1>7 DEF Request
<1> QED
  BY <1>1, <1>6, <1>7 DEF Sending

\* The data sent are the data received, whole.
LEMMA ExactReceived ==
  ASSUME TypeOK, Sync, Exact, NEW c, HandlesData(c)
  PROVE  /\ toArduino[2].type = "data"
         /\ at \in {"write_addr", "read_addr"} => Received = Address(count)
         /\ at = "write_buffer" => Received = Block
         /\ at = "read" => Received = <<Low(Len(Block)), Middle(Len(Block))>>
<1>1. Handles(c) /\ at \in Long /\ at \in Sending
  BY DataAsked DEF HandlesData, Long, Sending
<1>2. toArduino = Request(at)
  BY <1>1, ExactHandles
<1>3. Request(at)[2].type = "data"
  BY <1>1, TypesAre, RequestIs
<1> QED
  BY <1>2, <1>3, RequestData, TypesAre DEF Received

\* An address comes out of the buffer as it was put in.
LEMMA AddressReceived ==
  ASSUME TypeOK, count < FLASH, Received = Address(count)
  PROVE  AddressIn(Filled(Received)) = count
<1>1. count \in 0 .. FLASH - 1
  <2>1. PICK n \in Nat : n = count
    BY TypesAre
  <2>2. n < FLASH /\ FLASH \in Nat
    BY <2>1, Sizes
  <2> QED
    BY <2>1, <2>2, SMT
<1>2. Low(count) + BYTE * Middle(count) + BYTE * BYTE * High(count) = count
  BY <1>1, AddressBack
<1>3. 0 \in 0 .. BUFFER_SIZE - 1 /\ 1 \in 0 .. BUFFER_SIZE - 1 /\ 2 \in 0 .. BUFFER_SIZE - 1
  BY Constants, SMT
<1>4. /\ Len(Address(count)) = 3 /\ Address(count)[1] = Low(count)
      /\ Address(count)[2] = Middle(count) /\ Address(count)[3] = High(count)
  BY DEF Address
<1>5. /\ Filled(Address(count))[0] = Low(count) /\ Filled(Address(count))[1] = Middle(count)
      /\ Filled(Address(count))[2] = High(count)
  BY <1>3, <1>4 DEF Filled
<1> QED
  BY <1>2, <1>5, Zenon DEF AddressIn

\* So does a size.
LEMMA SizeReceived ==
  ASSUME TypeOK, Received = <<Low(Len(Block)), Middle(Len(Block))>>
  PROVE  Wanted = Len(Block)
<1> DEFINE n == Len(Block)
<1>1. n \in Nat /\ n <= BUFFER_SIZE
  BY TypesAre, BlockSize
<1> HIDE DEF n
<1>2. n \in 0 .. BYTE * BYTE - 1
  <2>1. PICK s \in Nat : s = BYTE * BYTE
    BY Sizes
  <2>2. BUFFER_SIZE \in Nat /\ BUFFER_SIZE < s
    BY <2>1, Constants
  <2>3. n \in 0 .. s - 1
    BY <1>1, <2>2, SMT
  <2> QED
    BY <2>1, <2>3
<1>3. 0 \in 0 .. BUFFER_SIZE - 1 /\ 1 \in 0 .. BUFFER_SIZE - 1 /\ 2 \in 0 .. BUFFER_SIZE - 1
  BY Constants, SMT
<1> DEFINE d == <<Low(n), Middle(n)>>
<1>4. Len(d) = 2 /\ d[1] = Low(n) /\ d[2] = Middle(n) /\ Received = d
  BY DEF n
<1> HIDE DEF d
<1>5. arduino.buffer[2] \in Int
  <2>1. arduino.buffer \in [0 .. BUFFER_SIZE - 1 -> Bytes]
    BY DEF TypeOK
  <2> QED
    BY <1>3, <2>1, Constants DEF Bytes
<1>6. Filled(d)[0] = Low(n) /\ Filled(d)[1] = Middle(n) /\ Filled(d)[2] = arduino.buffer[2]
  BY <1>3, <1>4 DEF Filled
<1>7. ((Low(n) + BYTE * Middle(n) + BYTE * BYTE * arduino.buffer[2]) % (BYTE * BYTE)) = n
  BY <1>2, <1>5, SizeBack
<1>8. Wanted = n
  BY <1>4, <1>6, <1>7, Zenon DEF Wanted, AddressIn
<1> QED
  BY <1>8 DEF n

\* What is read is what the memory holds behind the count.
LEMMA ExactRead ==
  ASSUME TypeOK, Sync, Exact, at = "read", ReadFrom, HandlesData("START_READ")
  PROVE  Read(arduino.read_addr, Wanted) = Contents(count, Len(Block))
<1>1. file \in Files /\ count \in Nat /\ flash \in [Addresses -> Bytes]
  BY TypesAre
<1>2. (count % WORD) = 0 /\ count < Len(file)
  BY DEF Sync, Fitting
<1>3. Len(Block) \in Nat /\ count + Len(Block) <= FLASH
  BY <1>1, <1>2, BlockSize, BlockEnds
<1>4. Wanted = Len(Block)
  BY ExactReceived, SizeReceived
<1>5. arduino.read_addr = count
  BY DEF ReadFrom
<1> QED
  BY <1>1, <1>3, <1>4, <1>5, ReadIs

\* A request as it was sent is understood.
LEMMA ExactUnderstood ==
  ASSUME TypeOK, Sync, Exact, toArduino # <<>>
  PROVE  Understood
<1>1. at \in Sending /\ toArduino = Request(at)
  <2>1. waiting /\ at # "read_ack" /\ toArduino = Request(at)
    BY DEF Exact, Idle
  <2> QED
    BY <2>1, TypesAre DEF Sync, Fitting, Sending, Steps
<1>2. /\ toArduino \in Seq(Frames) /\ toArduino[1].type = "command"
      /\ Len(toArduino) = IF at \in Long THEN 2 ELSE 1
      /\ at \in Long => toArduino[2].type = "data"
  BY <1>1, TypesAre, RequestIs
<1>3. Head(toArduino).type = "command"
  BY <1>2, FirstIs
<1>4. at \in {"info", "erase", "dma", "write"} => Head(toArduino).code \notin WithData
  <2>1. \A c : Head(<<Command(c)>>).code = c
    BY FrameIs
  <2> QED
    BY <1>1, <2>1 DEF Request, WithData
<1>5. Head(toArduino) = Command("START_READ") => at = "read"
  <2>1. \A c, f : Head(<<Command(c)>>).code = c /\ Head(<<Command(c), f>>).code = c
    BY FrameIs
  <2>2. at \in {"write_addr", "write_buffer", "read_addr"} => Head(toArduino).code # "START_READ"
    BY <1>1, <2>1 DEF Request
  <2>3. Command("START_READ").code = "START_READ"
    BY FrameIs
  <2> QED
    BY <1>1, <1>4, <2>2, <2>3 DEF Sending, WithData
<1>6. at = "read" => ~ (Wanted > BUFFER_SIZE)
  <2>1. at = "read" => Received = <<Low(Len(Block)), Middle(Len(Block))>>
    BY <1>1, TypesAre, RequestData DEF Received
  <2>2. PICK n \in Nat : n = Len(Block) /\ n <= BUFFER_SIZE
    BY TypesAre, BlockSize
  <2>3. ~ (n > BUFFER_SIZE)
    BY <2>2, Constants, SMT
  <2> QED
    BY <2>1, <2>2, <2>3, SizeReceived
<1>7. Head(toArduino).code \in WithData => at \in Long
  BY <1>1, <1>4 DEF Sending, Long
<1>8. at \in Long => ~ (Len(Received) > BUFFER_SIZE)
  <2> SUFFICES ASSUME at \in Long PROVE ~ (Len(Received) > BUFFER_SIZE)
    OBVIOUS
  <2>1. Len(Received) \in 0 .. BUFFER_SIZE
    BY <1>1, TypesAre, RequestData DEF Received
  <2> QED
    BY <2>1, Constants, SMT
<1> QED
  BY <1>2, <1>3, <1>5, <1>6, <1>7, <1>8, Zenon DEF Understood, Brought, Overruns

\* What the host is due is what it was.
LEMMA AnswerUnchanged ==
  ASSUME UNCHANGED <<file, at, count>>, at = "read" => flash' = flash
  PROVE  AnswerTo' = AnswerTo
<1>1. Block' = Block
  BY DEF Block
<1>2. at = "read" => Contents(count, Len(Block))' = Contents(count, Len(Block))
  BY <1>1 DEF Contents
<1> QED
  BY <1>2 DEF AnswerTo

\* The Arduino answers as it should, and knows from where to read.
LEMMA ExactArduino ==
  ASSUME TypeOK, Sync, Exact, ReadFrom, Arduino
  PROVE  Exact' /\ ReadFrom'
<1>1. ASSUME UNCHANGED <<file, at, waiting, count>>, waiting, toArduino' = <<>>,
             at = "read" => flash' = flash, toHost' = AnswerTo
      PROVE  Exact'
  <2>1. AnswerTo' = AnswerTo
    BY <1>1, AnswerUnchanged
  <2> QED
    BY <1>1, <2>1 DEF Exact
<1>2. ASSUME UNCHANGED <<at, count>>, at # "read_addr", arduino'.read_addr = arduino.read_addr
      PROVE  ReadFrom'
  BY <1>2 DEF ReadFrom
<1>3. at \notin {"info", "read"} => AnswerTo = <<Command("ACK")>>
  BY DEF AnswerTo
<1>4. /\ <<>> \in Seq(Frames) /\ <<Command("ACK")>> \in Seq(Frames)
  BY AnswersAre
<1>5. \A b, w, r, n, d, l :
        /\ [arduino EXCEPT !.buffer = b].read_addr = arduino.read_addr
        /\ [arduino EXCEPT !.buffer = b, !.write_addr = w].read_addr = arduino.read_addr
        /\ [arduino EXCEPT !.buffer = b, !.write_count = n].read_addr = arduino.read_addr
        /\ [arduino EXCEPT !.buffer = b, !.read_addr = r].read_addr = r
        /\ [arduino EXCEPT !.dma = d].read_addr = arduino.read_addr
        /\ [arduino EXCEPT !.alive = l, !.overrun = r].read_addr = arduino.read_addr
  BY SMT DEF TypeOK
<1>6. CASE GetInfo
  <2> DEFINE info == <<1, 0, 0, 0>>
  <2>1. info \in Seq(Bytes)
    BY Constants, SMT DEF Bytes
  <2>2. Handles("GET_INFO") /\ Reply(<<Data(info)>>) /\ flash' = flash
        /\ arduino' = [arduino EXCEPT !.buffer = Filled(info)]
    BY <1>6, Zenon DEF GetInfo
  <2>3. at = "info" /\ waiting
    BY <2>2, ExactHandles
  <2>4. AnswerTo = <<Data(info)>>
    BY <2>3 DEF AnswerTo
  <2> HIDE DEF info
  <2>5. <<Data(info)>> \in Seq(Frames)
    BY <2>1, AnswersAre
  <2>6. toArduino' = <<>> /\ toHost' = <<Data(info)>>
    BY <2>2, <2>3, <2>5, PlainConsumed DEF Commands, WithData, Long
  <2>7. UNCHANGED <<file, at, waiting, count>>
    BY <2>2 DEF Reply
  <2>8. Exact'
    BY <2>2, <2>3, <2>4, <2>6, <2>7, <1>1
  <2>9. ReadFrom'
    BY <2>2, <2>3, <2>7, <1>2, <1>5
  <2> QED
    BY <2>8, <2>9
<1>7. CASE EnableDma \/ EraseChip \/ StartWrite
  <2>1. PICK c \in {"ENABLE_DMA", "ERASE_CHIP", "START_WRITE"} :
          Handles(c) /\ Reply(<<Command("ACK")>>)
    BY <1>7, Zenon DEF EnableDma, EraseChip, StartWrite
  <2>2. at \in {"dma", "erase", "write"} /\ waiting
    BY <2>1, ExactHandles
  <2>3. toArduino' = <<>> /\ toHost' = <<Command("ACK")>>
    BY <2>1, <2>2, <1>4, PlainConsumed DEF Commands, WithData, Long
  <2>4. UNCHANGED <<file, at, waiting, count>>
    BY <2>1 DEF Reply
  <2>5. Exact'
    BY <2>2, <2>3, <2>4, <1>1, <1>3
  <2>6. ReadFrom'
    BY <2>2, <2>4 DEF ReadFrom
  <2> QED
    BY <2>5, <2>6
<1>8. CASE SetWriteAddr \/ SetWriteBuffer \/ SetReadAddr
  <2>1. PICK c \in {"SET_WRITE_ADDR", "SET_WRITE_BUFFER", "SET_READ_ADDR"} :
          HandlesData(c) /\ Reply(<<Command("ACK")>>)
    BY <1>8, Zenon DEF SetWriteAddr, SetWriteBuffer, SetReadAddr
  <2>2. at \in {"write_addr", "write_buffer", "read_addr"} /\ waiting
    BY <2>1, ExactHandles DEF HandlesData
  <2>3. toArduino' = <<>> /\ toHost' = <<Command("ACK")>>
    BY <2>1, <1>4, DataConsumed, ExactReceived DEF WithData
  <2>4. UNCHANGED <<file, at, waiting, count>>
    BY <2>1 DEF Reply
  <2>5. Exact'
    BY <2>2, <2>3, <2>4, <1>1, <1>3
  <2>6. CASE at = "read_addr"
    <3>1. SetReadAddr
      BY <1>8, <2>6, ExactHandles DEF SetWriteAddr, SetWriteBuffer, HandlesData
    <3>2. Received = Address(count)
      BY <2>1, <2>6, ExactReceived
    <3>3. count < FLASH
      <4>1. PICK n \in Nat : n = Len(file)
        BY TypesAre
      <4>2. n <= FLASH /\ count < n
        BY <4>1, <2>2, <2>6, TypesAre DEF Sync, Fitting
      <4>3. count \in Nat /\ FLASH \in Nat
        BY TypesAre, Sizes
      <4> QED
        BY <4>2, <4>3, SMT
    <3>4. arduino'.read_addr = count
      BY <3>1, <3>2, <3>3, AddressReceived, <1>5 DEF SetReadAddr
    <3> QED
      BY <2>4, <2>5, <3>4 DEF ReadFrom
  <2>7. CASE at # "read_addr"
    <3>1. SetWriteAddr \/ SetWriteBuffer
      BY <1>8, <2>7, ExactHandles DEF SetReadAddr, HandlesData
    <3>2. arduino'.read_addr = arduino.read_addr
      <4>1. CASE SetWriteAddr
        BY <4>1, <1>5 DEF SetWriteAddr
      <4>2. CASE SetWriteBuffer
        <5>1. arduino' = [arduino EXCEPT !.buffer = Filled(Received), !.write_count = Len(Received)]
          BY <4>2 DEF SetWriteBuffer
        <5> QED
          BY <5>1, <1>5, Zenon
      <4> QED
        BY <3>1, <4>1, <4>2
    <3> QED
      BY <2>4, <2>5, <2>7, <3>2, <1>2
  <2> QED
    BY <2>6, <2>7
<1>9. CASE StartRead
  <2> DEFINE read == Read(arduino.read_addr, Wanted)
  <2>1. /\ HandlesData("START_READ") /\ Reply(<<Data(read), Command("ACK")>>) /\ flash' = flash
        /\ read \in Seq(Bytes) /\ arduino' = [arduino EXCEPT !.buffer = ReadBuffer(read)]
    BY <1>9, StartReadIs
  <2>2. at = "read" /\ waiting
    BY <2>1, ExactHandles DEF HandlesData
  <2>3. read = Contents(count, Len(Block))
    BY <2>1, <2>2, ExactRead
  <2> HIDE DEF read
  <2>4. <<Data(read), Command("ACK")>> \in Seq(Frames)
    BY <2>1, AnswersAre
  <2>5. toArduino' = <<>> /\ toHost' = <<Data(read), Command("ACK")>>
    BY <2>1, <2>4, DataConsumed, ExactReceived DEF WithData
  <2>6. UNCHANGED <<file, at, waiting, count>>
    BY <2>1 DEF Reply
  <2>7. toHost' = AnswerTo
    BY <2>2, <2>3, <2>5 DEF AnswerTo
  <2>8. Exact'
    BY <2>1, <2>2, <2>5, <2>6, <2>7, <1>1
  <2>9. ReadFrom'
    BY <2>1, <2>2, <2>6, <1>2, <1>5
  <2> QED
    BY <2>8, <2>9
<1>10. CASE Ignore
  BY <1>10, ExactHandles DEF Ignore
<1>11. CASE Die
  <2>1. /\ UNCHANGED <<file, at, waiting, count, toArduino, toHost, flash>>
        /\ arduino'.read_addr = arduino.read_addr
    BY <1>11, <1>5 DEF Die
  <2>2. AnswerTo' = AnswerTo /\ Request(at)' = Request(at)
    BY <2>1, AnswerUnchanged DEF Request, Block
  <2>3. Exact'
    BY <2>1, <2>2 DEF Exact, Idle
  <2>4. ReadFrom'
    BY <2>1 DEF ReadFrom, Done
  <2> QED
    BY <2>3, <2>4
<1> QED
  BY <1>6, <1>7, <1>8, <1>9, <1>10, <1>11 DEF Arduino

\* A reply is the one that is due.
LEMMA ExactReply ==
  ASSUME TypeOK, Sync, Exact, toHost # <<>>
  PROVE  /\ waiting /\ toArduino = <<>> /\ toHost = AnswerTo
         /\ at \in {"info", "read"} => Head(toHost).type = "data"
         /\ at \notin {"info", "read"} => Head(toHost) = Command("ACK") /\ Tail(toHost) = <<>>
         /\ at = "info" => Head(toHost).data[1] = 1 /\ Tail(toHost) = <<>>
         /\ at = "read" => /\ Head(toHost).data = Contents(count, Len(Block))
                           /\ Tail(toHost) = <<Command("ACK")>>
<1>1. waiting /\ toArduino = <<>> /\ toHost = AnswerTo
  BY DEF Exact, Idle
<1>2. CASE at \notin {"info", "read"}
  BY <1>1, <1>2, AnswersAre DEF AnswerTo
<1>3. CASE at = "info"
  <2> DEFINE info == <<1, 0, 0, 0>>
  <2>1. info \in Seq(Bytes) /\ info[1] = 1
    BY Constants, SMT DEF Bytes
  <2>2. toHost = <<Data(info)>>
    BY <1>1, <1>3 DEF AnswerTo
  <2> HIDE DEF info
  <2>3. Head(toHost) = Data(info) /\ Tail(toHost) = <<>>
    BY <2>1, <2>2, AnswersAre
  <2> QED
    BY <1>1, <1>3, <2>1, <2>3, FrameIs
<1>4. CASE at = "read"
  <2> DEFINE held == Contents(count, Len(Block))
  <2>1. toHost = <<Data(held), Command("ACK")>>
    BY <1>1, <1>4 DEF AnswerTo
  <2> HIDE DEF held
  <2>2. Head(toHost) = Data(held) /\ Tail(toHost) = <<Command("ACK")>>
    BY <2>1
  <2>3. Head(toHost).type = "data" /\ Head(toHost).data = held
    BY <2>2, FrameIs
  <2> QED
    BY <1>1, <1>4, <2>2, <2>3 DEF held
<1> QED
  BY <1>2, <1>3, <1>4

\* The host goes on, and does not exit.
LEMMA ExactHost ==
  ASSUME TypeOK, Sync, Exact, ReadFrom, Host
  PROVE  Exact' /\ ReadFrom' /\ at' # "exit"
<1>1. ~ waiting => Idle
  BY DEF Exact
<1>2. ASSUME ~ waiting', toArduino' = <<>>, toHost' = <<>> PROVE Exact'
  BY <1>2 DEF Exact, Idle
<1>3. at \in Steps /\ waiting \in BOOLEAN /\ toArduino \in Seq(Frames)
  BY TypesAre
<1>4. waiting => at \notin {"ask", "verified", "unverified", "exit"}
  BY DEF Sync, Fitting
<1>5. CASE Send
  <2>1. /\ ~ waiting /\ waiting' /\ UNCHANGED <<file, at, count, toHost, arduino>>
        /\ toArduino' = toArduino \o Request(at)
        /\ at \notin {"ask", "read_ack", "verified", "unverified", "exit"}
    BY <1>5 DEF Send
  <2>2. at \in Sending /\ toArduino = <<>> /\ toHost = <<>>
    BY <1>1, <1>3, <2>1 DEF Idle, Sending, Steps
  <2>3. /\ Request(at) \in Seq(Frames) /\ Request(at) # <<>>
    <3>1. Request(at) \in Seq(Frames) /\ Len(Request(at)) = IF at \in Long THEN 2 ELSE 1
      BY <2>2, TypesAre, RequestIs
    <3> QED
      BY <3>1
  <2>4. toArduino' = Request(at)
    BY <2>1, <2>2, <2>3, ConcatEmptySeq
  <2>5. Request(at)' = Request(at)
    BY <2>1 DEF Request, Block
  <2>6. Exact'
    BY <2>1, <2>2, <2>4, <2>5 DEF Exact
  <2>7. ReadFrom'
    BY <2>1, <2>3, <2>4 DEF ReadFrom, Done
  <2> QED
    BY <2>1, <2>6, <2>7
<1>6. CASE ReceiveAck
  <2>1. /\ waiting /\ at \notin {"info", "read"} /\ toHost # <<>> /\ ~ waiting'
        /\ toHost' = Tail(toHost) /\ at' = Following(at)
        /\ count' = IF at \in {"write", "read_ack"} THEN count + Len(Block) ELSE count
        /\ UNCHANGED <<toArduino, arduino>>
    BY <1>6, Zenon DEF ReceiveAck
  <2>2. toArduino' = <<>> /\ toHost' = <<>> /\ toArduino = <<>>
    BY <2>1, ExactReply
  <2>3. Exact'
    BY <1>2, <2>1, <2>2
  <2>4. at' # "exit" /\ (at' = "read" => at = "read_addr")
    BY <1>3, <1>4, <2>1 DEF Following, Steps
  <2>5. at' = "read" => arduino'.read_addr = count'
    BY <2>1, <2>2, <2>4 DEF ReadFrom, Done
  <2> QED
    BY <2>1, <2>3, <2>4, <2>5 DEF ReadFrom, Done
<1>7. CASE ReceiveInfo
  <2>1. /\ waiting /\ at = "info" /\ toHost # <<>> /\ ~ waiting' /\ toHost' = Tail(toHost)
        /\ at' = IF Head(toHost).data[1] = 0 THEN "exit" ELSE Following(at)
        /\ UNCHANGED <<toArduino, arduino>>
    BY <1>7, Zenon DEF ReceiveInfo
  <2>2. toArduino' = <<>> /\ toHost' = <<>> /\ Head(toHost).data[1] = 1
    BY <2>1, ExactReply
  <2>3. at' = "erase"
    BY <2>1, <2>2 DEF Following
  <2> QED
    BY <1>2, <2>1, <2>2, <2>3 DEF ReadFrom
<1>8. CASE ReceiveBlock
  <2>1. /\ waiting /\ at = "read" /\ toHost # <<>> /\ waiting'
        /\ toHost' = Remains(Head(toHost)) \o Tail(toHost)
        /\ at' = "read_ack" /\ UNCHANGED <<toArduino, arduino>>
    BY <1>8 DEF ReceiveBlock
  <2>2. toArduino' = <<>> /\ toHost' = <<Command("ACK")>>
    <3>1. /\ toArduino = <<>> /\ Tail(toHost) = <<Command("ACK")>>
          /\ Head(toHost).type = "data"
      BY <2>1, ExactReply
    <3>2. Remains(Head(toHost)) = <<>>
      BY <3>1, RemainsIs
    <3> QED
      BY <2>1, <3>1, <3>2, AnswersAre, ConcatEmptySeq
  <2>3. AnswerTo' = <<Command("ACK")>>
    BY <2>1 DEF AnswerTo
  <2> QED
    BY <2>1, <2>2, <2>3 DEF Exact, ReadFrom
<1>9. CASE Exit
  <2>1. toHost # <<>> /\ Head(toHost).type \notin Due
    BY <1>9, Zenon DEF Exit
  <2>2. Due = IF at = "info" THEN {"data"} ELSE IF at = "read" THEN {"data", "cut"} ELSE {"command"}
    BY DEF Due
  <2> QED
    BY <2>1, <2>2, ExactReply, FrameIs
<1>10. CASE EndOfFile \/ Answer
  <2>1. ~ waiting /\ ~ waiting' /\ UNCHANGED <<toArduino, toHost>>
    BY <1>4, <1>10 DEF EndOfFile, Answer
  <2>2. at' # "read" /\ at' # "exit"
    BY <1>10 DEF EndOfFile, Answer
  <2> QED
    BY <1>1, <1>2, <2>1, <2>2 DEF Idle, ReadFrom, Done
<1> QED
  BY <1>5, <1>6, <1>7, <1>8, <1>9, <1>10 DEF Host

-----------------------------------------------------------------------------
(* As long as nothing is damaged. *)

\* What is read of a chip that holds the file is a block of the file.
LEMMA ProgrammedBlock ==
  ASSUME TypeOK, Fitting, Programmed, count < Len(file)
  PROVE  Contents(count, Len(Block)) = Block
<1>1. /\ file \in Files /\ count \in Nat /\ (count % WORD) = 0
  BY TypesAre DEF Fitting
<1>2. PICK n \in 0 .. FLASH : n % WORD = 0 /\ Len(file) <= n /\ Holds(n)
  BY DEF Programmed
<1>3. n \in Nat /\ FLASH \in Nat /\ n <= FLASH
  BY <1>2, Sizes, SMT
<1>4. count + Len(Block) <= n /\ Len(Block) \in Nat
  BY <1>1, <1>2, <1>3, BlockEnds, BlockSize
<1>5. ASSUME NEW i \in 1 .. Len(Block) PROVE flash[count + i - 1] = Block[i]
  <2>1. PICK m \in Nat : m = Len(Block)
    BY <1>4
  <2>2. i \in Int /\ 1 <= i /\ i <= m
    BY <1>5, <2>1, SMT
  <2>3. count + i - 1 \in 0 .. FLASH - 1 /\ count + i - 1 < n
    BY <1>1, <1>3, <1>4, <2>1, <2>2, SMT
  <2>4. flash[count + i - 1] = Padded(count + i - 1)
    BY <1>2, <2>3 DEF Holds, Addresses
  <2> QED
    BY <1>1, <2>4, BlockIsPadded
<1>6. Block \in Seq(Bytes)
  BY <1>1, BlockSize
<1>7. Block = [i \in 1 .. Len(Block) |-> Block[i]]
  BY <1>6
<1> QED
  BY <1>5, <1>7, Zenon DEF Contents

\* Behind the last page that is written there is nothing left of the file.
LEMMA AllPages ==
  ASSUME TypeOK, Fitting, Pages(count), Block = <<>>
  PROVE  Programmed
<1>1. /\ file \in Files /\ count \in Nat /\ (count % WORD) = 0 /\ count < Len(file) + WORD
      /\ Len(file) \in Nat /\ Len(file) <= FLASH
  BY TypesAre DEF Fitting
<1>2. Len(file) <= count
  <2>1. count >= Len(file) \/ count < Len(file)
    BY <1>1, SMT
  <2>2. ~ (count < Len(file))
    BY <1>1, BlockSize
  <2>3. count >= Len(file)
    BY <2>1, <2>2
  <2> QED
    BY <1>1, <2>3, SMT
<1>3. count <= FLASH
  <2>1. count < FLASH + WORD
    <3>1. PICK n \in Nat : n = Len(file)
      BY <1>1
    <3>2. n <= FLASH /\ count < n + WORD /\ FLASH \in Nat /\ WORD \in Nat
      BY <1>1, <3>1, Sizes, Constants
    <3> QED
      BY <1>1, <3>2, SMT
  <2>2. count \in Int /\ FLASH \in Int /\ WORD \in Nat \ {0} /\ FLASH % WORD = 0
    BY <1>1, Sizes, Constants
  <2> QED
    BY <1>1, <2>1, <2>2, MultipleBelow
<1>4. count \in 0 .. FLASH
  BY <1>1, <1>3, Sizes, SMT
<1> QED
  BY <1>1, <1>2, <1>4, Zenon DEF Programmed, Pages

\* The memory, and how far the host is, are what they were.
LEMMA MemoryUnchanged ==
  ASSUME UNCHANGED <<file, flash>>
  PROVE  /\ Programmed' = Programmed /\ Blank(0)' = Blank(0) /\ HoldsFile' = HoldsFile
         /\ count' = count => /\ Block' = Block /\ Pages(count)' = Pages(count)
                              /\ Pages(count + Len(Block))' = Pages(count + Len(Block))
<1>1. count' = count => Block' = Block
  BY DEF Block
<1>2. ASSUME count' = count
      PROVE  /\ Pages(count)' = Pages(count)
             /\ Pages(count + Len(Block))' = Pages(count + Len(Block))
  BY <1>1, <1>2 DEF Pages, Holds, Blank, Padded
<1> QED
  BY <1>1, <1>2 DEF Programmed, Blank, HoldsFile, Holds, Padded

\* The host goes on writing, and has nothing to complain of.
LEMMA CleanHost ==
  ASSUME TypeOK, Sync, Clean, Host
  PROVE  Clean'
<1>1. Exact /\ silent /\ at # "exit" /\ Writing /\ ReadFrom /\ Fitting /\ at \in Steps
      /\ (Verifying \/ at \in {"ask", "unverified"} => Programmed)
  BY TypesAre DEF Clean, Sync
<1>2. Exact' /\ ReadFrom' /\ at' # "exit"
  BY <1>1, ExactHost
<1>3. UNCHANGED <<file, flash, arduino>>
  BY DEF Host, Send, ReceiveAck, ReceiveInfo, ReceiveBlock, Exit, EndOfFile, Answer
<1>4. /\ Programmed' = Programmed /\ Blank(0)' = Blank(0)
      /\ count' = count => /\ Block' = Block /\ Pages(count)' = Pages(count)
                           /\ Pages(count + Len(Block))' = Pages(count + Len(Block))
  BY <1>3, MemoryUnchanged
<1>5. waiting => at \notin {"ask", "verified", "unverified", "exit"}
  BY <1>1 DEF Fitting
<1>6. CASE Send
  <2>1. /\ ~ waiting /\ waiting' /\ UNCHANGED <<at, count, silent>>
        /\ toArduino' = toArduino \o Request(at)
        /\ at \notin {"ask", "read_ack", "verified", "unverified", "exit"}
    BY <1>6 DEF Send
  <2>2. toArduino' # <<>>
    <3>1. at \in Sending /\ toArduino = <<>>
      BY <1>1, <2>1 DEF Exact, Idle, Sending, Steps
    <3>2. Request(at) \in Seq(Frames) /\ Len(Request(at)) = IF at \in Long THEN 2 ELSE 1
      BY <3>1, TypesAre, RequestIs
    <3> QED
      BY <2>1, <3>1, <3>2, ConcatEmptySeq
  <2>3. Writing'
    BY <1>1, <1>3, <1>4, <2>1, <2>2 DEF Writing, Done
  <2> QED
    BY <1>1, <1>2, <1>4, <2>1, <2>3 DEF Clean, Verifying
<1>7. CASE ReceiveAck
  <2>1. /\ waiting /\ at \notin {"info", "read"} /\ toHost # <<>> /\ ~ waiting'
        /\ silent' = (silent /\ Head(toHost).code = "ACK") /\ at' = Following(at)
        /\ count' = IF at \in {"write", "read_ack"} THEN count + Len(Block) ELSE count
    BY <1>7, Zenon DEF ReceiveAck
  <2>2. Head(toHost) = Command("ACK") /\ Done
    BY <1>1, <2>1, ExactReply DEF Done
  <2>3. silent'
    BY <1>1, <2>1, <2>2, FrameIs
  <2>4. at \in {"erase", "dma", "write_addr", "write_buffer", "write", "read_addr", "read_ack"}
    BY <1>1, <1>5, <2>1 DEF Steps
  <2>5. ~ Done'
    BY <2>1 DEF Done
  <2>6. Verifying' \/ at' \in {"ask", "unverified"} => Programmed'
    BY <1>1, <1>4, <2>1, <2>4 DEF Verifying, Following
  <2>7. CASE at = "erase"
    <3>1. at' = "dma" /\ Blank(0)'
      BY <1>1, <1>4, <2>1, <2>2, <2>7 DEF Following, Writing
    <3> QED
      BY <1>2, <2>3, <2>5, <2>6, <3>1 DEF Clean, Writing
  <2>8. CASE at = "dma"
    <3>1. at' = "write_addr" /\ count' = count /\ count = 0
      BY <1>1, <2>1, <2>8 DEF Following, Fitting
    <3>2. arduino'.dma
      BY <1>1, <1>3, <2>2, <2>8 DEF Writing
    <3>3. Blank(0)
      BY <1>1, <2>8 DEF Writing
    <3>4. Holds(0)
      BY SMT, Sizes DEF Holds, Addresses
    <3>5. Pages(count)'
      BY <1>4, <3>1, <3>3, <3>4 DEF Pages
    <3> QED
      BY <1>2, <2>3, <2>5, <2>6, <3>1, <3>2, <3>5 DEF Clean, Writing
  <2>9. CASE at \in {"write_addr", "write_buffer"}
    <3>1. /\ at = "write_addr" => at' = "write_buffer"
          /\ at = "write_buffer" => at' = "write"
          /\ count' = count
      BY <2>1, <2>9 DEF Following
    <3>2. Writing'
      BY <1>1, <1>3, <1>4, <2>2, <2>5, <2>9, <3>1 DEF Writing
    <3> QED
      BY <1>2, <2>3, <2>6, <3>2 DEF Clean
  <2>10. CASE at = "write"
    <3>1. at' = "write_addr" /\ count' = count + Len(Block)
      BY <2>1, <2>10 DEF Following
    <3>2. arduino'.dma /\ Pages(count + Len(Block))
      BY <1>1, <1>3, <2>2, <2>10 DEF Writing
    <3>3. Pages(count)'
      BY <1>3, <3>1, <3>2 DEF Pages, Holds, Blank, Padded
    <3> QED
      BY <1>2, <2>3, <2>5, <2>6, <3>1, <3>2, <3>3 DEF Clean, Writing
  <2>11. CASE at \in {"read_addr", "read_ack"}
    <3>1. at' \in {"read", "read_addr"}
      BY <2>1, <2>11 DEF Following
    <3> QED
      BY <1>2, <2>3, <2>6, <3>1 DEF Clean, Writing
  <2> QED
    BY <2>4, <2>7, <2>8, <2>9, <2>10, <2>11
<1>8. CASE ReceiveInfo
  <2>1. /\ waiting /\ at = "info" /\ toHost # <<>> /\ ~ waiting' /\ silent' = silent
        /\ at' = IF Head(toHost).data[1] = 0 THEN "exit" ELSE Following(at)
    BY <1>8, Zenon DEF ReceiveInfo
  <2>2. at' = "erase"
    BY <1>2, <2>1 DEF Following
  <2> QED
    BY <1>1, <1>2, <2>1, <2>2 DEF Clean, Writing, Done, Verifying
<1>9. CASE ReceiveBlock
  <2>1. /\ at = "read" /\ toHost # <<>> /\ at' = "read_ack"
        /\ silent' = (silent /\ Head(toHost).data = Block)
    BY <1>9 DEF ReceiveBlock
  <2>2. Head(toHost).data = Contents(count, Len(Block))
    BY <1>1, <2>1, ExactReply
  <2>3. Programmed /\ count < Len(file)
    BY <1>1, <2>1 DEF Verifying, Fitting
  <2>4. silent'
    BY <1>1, <2>1, <2>2, <2>3, ProgrammedBlock
  <2> QED
    BY <1>2, <1>4, <2>1, <2>3, <2>4 DEF Clean, Writing
<1>10. CASE Exit
  <2>1. at' = "exit"
    BY <1>10 DEF Exit
  <2> QED
    BY <1>2, <2>1
<1>11. CASE EndOfFile
  <2>1. /\ Over(at) /\ UNCHANGED <<count, silent>>
        /\ at' = IF at = "write_addr" THEN "ask" ELSE "verified"
    BY <1>11 DEF EndOfFile
  <2>2. at \in {"write_addr", "read_addr"} /\ Block = <<>> /\ at' \in {"ask", "verified"}
    BY <2>1 DEF Over
  <2>3. at = "write_addr" => Pages(count)
    BY <1>1 DEF Writing
  <2>4. Programmed
    BY <1>1, <2>2, <2>3, AllPages DEF Verifying
  <2> QED
    BY <1>1, <1>2, <1>4, <2>1, <2>2, <2>4 DEF Clean, Writing
<1>12. CASE Answer
  <2>1. at = "ask" /\ silent' = silent /\ at' \in {"read_addr", "unverified"}
    BY <1>12 DEF Answer
  <2> QED
    BY <1>1, <1>2, <1>4, <2>1 DEF Clean, Writing
<1> QED
  BY <1>6, <1>7, <1>8, <1>9, <1>10, <1>11, <1>12 DEF Host

\* The Arduino writes the pages that are due.
LEMMA CleanArduino ==
  ASSUME TypeOK, Sync, Clean, Arduino
  PROVE  Clean'
<1>1. /\ Exact /\ silent /\ at # "exit" /\ Writing /\ ReadFrom /\ Fitting /\ at \in Steps
      /\ (Verifying \/ at \in {"ask", "unverified"} => Programmed)
  BY TypesAre DEF Clean, Sync
<1>2. Exact' /\ ReadFrom'
  BY <1>1, ExactArduino
<1>3. UNCHANGED <<file, at, waiting, count, silent>>
  BY Zenon DEF Arduino, GetInfo, SetWriteAddr, SetReadAddr, SetWriteBuffer, EnableDma, EraseChip,
               StartWrite, StartRead, Ignore, Die, Reply
<1>4. flash' = flash =>
        /\ Programmed' = Programmed /\ Blank(0)' = Blank(0) /\ Block' = Block
        /\ Pages(count)' = Pages(count) /\ Pages(count + Len(Block))' = Pages(count + Len(Block))
  BY <1>3, MemoryUnchanged
<1>5. ASSUME NEW c, Handles(c) PROVE ~ Done
  BY <1>5 DEF Handles, Done
<1>6. ASSUME Writing', at \in {"write", "erase"} \/ flash' = flash PROVE Clean'
  BY <1>1, <1>2, <1>3, <1>4, <1>6 DEF Clean, Verifying
<1>7. CASE GetInfo
  <2>1. at = "info" /\ flash' = flash
    BY <1>1, <1>7, ExactHandles DEF GetInfo
  <2> QED
    BY <1>3, <1>6, <2>1 DEF Writing
<1>8. CASE StartRead
  <2>1. at = "read" /\ flash' = flash
    BY <1>1, <1>8, ExactHandles DEF StartRead, HandlesData
  <2> QED
    BY <1>3, <1>6, <2>1 DEF Writing
<1>9. CASE SetReadAddr
  <2>1. at = "read_addr" /\ flash' = flash
    BY <1>1, <1>9, ExactHandles DEF SetReadAddr, HandlesData
  <2> QED
    BY <1>3, <1>6, <2>1 DEF Writing
<1>10. CASE EraseChip
  <2>1. at = "erase" /\ flash' = Erased
    BY <1>1, <1>10, ExactHandles DEF EraseChip
  <2>2. Blank(0)'
    BY <2>1 DEF Blank, Erased
  <2> QED
    BY <1>3, <1>6, <2>1, <2>2 DEF Writing
<1>11. CASE EnableDma
  <2>1. at = "dma" /\ flash' = flash
    BY <1>1, <1>11, ExactHandles DEF EnableDma
  <2>2. arduino'.dma
    <3>1. arduino' = [arduino EXCEPT !.dma = TRUE]
      BY <1>11 DEF EnableDma
    <3> QED
      BY <3>1 DEF TypeOK
  <2>3. Blank(0)'
    BY <1>1, <1>4, <2>1 DEF Writing
  <2> QED
    BY <1>3, <1>6, <2>1, <2>2, <2>3 DEF Writing
<1>12. CASE SetWriteAddr
  <2>1. /\ HandlesData("SET_WRITE_ADDR") /\ flash' = flash
        /\ arduino' = [arduino EXCEPT !.buffer = Filled(Received),
                                      !.write_addr = AddressIn(Filled(Received))]
    BY <1>12 DEF SetWriteAddr
  <2>2. at = "write_addr" /\ waiting /\ ~ Done
    BY <1>1, <1>5, <2>1, ExactHandles DEF HandlesData
  <2>3. Received = Address(count)
    BY <1>1, <2>1, <2>2, ExactReceived
  <2>4. count < FLASH
    <3>1. PICK n \in Nat : n = Len(file)
      BY TypesAre
    <3>2. n <= FLASH /\ count < n
      BY <1>1, <2>2, <3>1, TypesAre DEF Fitting
    <3>3. count \in Nat /\ FLASH \in Nat
      BY TypesAre, Sizes
    <3> QED
      BY <3>2, <3>3, SMT
  <2>5. AddressIn(Filled(Received)) = count
    BY <2>3, <2>4, AddressReceived
  <2>6. arduino'.write_addr = count /\ arduino'.dma = arduino.dma
    BY <2>1, <2>5 DEF TypeOK
  <2>7. arduino.dma /\ Pages(count)
    BY <1>1, <2>2 DEF Writing
  <2> QED
    BY <1>3, <1>4, <1>6, <2>1, <2>2, <2>6, <2>7 DEF Writing
<1>13. CASE SetWriteBuffer
  <2>1. /\ HandlesData("SET_WRITE_BUFFER") /\ flash' = flash
        /\ arduino' = [arduino EXCEPT !.buffer = Filled(Received), !.write_count = Len(Received)]
    BY <1>13 DEF SetWriteBuffer
  <2>2. at = "write_buffer" /\ waiting /\ ~ Done
    BY <1>1, <1>5, <2>1, ExactHandles DEF HandlesData
  <2>3. Received = Block
    BY <1>1, <2>1, <2>2, ExactReceived
  <2>4. /\ arduino'.write_count = Len(Block) /\ arduino'.buffer = Filled(Block)
        /\ arduino'.write_addr = arduino.write_addr /\ arduino'.dma = arduino.dma
    BY <2>1, <2>3 DEF TypeOK
  <2>5. \A i \in 1 .. Len(Block) : Filled(Block)[i - 1] = Block[i]
    <3>1. PICK n \in Nat : n = Len(Block)
      BY TypesAre, BlockSize
    <3>2. n <= BUFFER_SIZE /\ BUFFER_SIZE \in Nat
      BY <3>1, TypesAre, BlockSize, Constants
    <3>3. \A i \in 1 .. n : i - 1 \in 0 .. BUFFER_SIZE - 1 /\ i - 1 < n /\ (i - 1) + 1 = i
      BY <3>2, SMT
    <3> QED
      BY <3>1, <3>3 DEF Filled
  <2>6. arduino.dma /\ Pages(count) /\ arduino.write_addr = count
    BY <1>1, <2>2 DEF Writing
  <2>7. \A i \in 1 .. Len(Block)' : arduino'.buffer[i - 1] = Block'[i]
    BY <1>4, <2>1, <2>4, <2>5
  <2>8. arduino'.write_count = Len(Block)'
    BY <1>4, <2>1, <2>4
  <2> QED
    BY <1>3, <1>4, <1>6, <2>1, <2>2, <2>4, <2>6, <2>7, <2>8 DEF Writing
<1>14. CASE StartWrite
  <2>1. Handles("START_WRITE") /\ flash' = Written(flash) /\ arduino' = arduino
    BY <1>14 DEF StartWrite
  <2>2. at = "write" /\ waiting /\ ~ Done
    BY <1>1, <1>5, <2>1, ExactHandles
  <2>3. /\ arduino.dma /\ Pages(count) /\ arduino.write_addr = count
        /\ arduino.write_count = Len(Block)
        /\ \A i \in 1 .. Len(Block) : arduino.buffer[i - 1] = Block[i]
    BY <1>1, <2>2 DEF Writing
  <2>4. (count % WORD) = 0 /\ count + Len(Block) <= FLASH
    BY <1>1, <2>2, TypesAre, BlockEnds DEF Fitting
  <2>5. (Pages(count + Len(Block)))'
    BY <1>3, <2>1, <2>3, <2>4, PagesGrow
  <2>6. Block' = Block
    BY <1>3 DEF Block
  <2>7. at' = "write" /\ Done'
    <3>1. toArduino' = <<>>
      BY <1>1, <2>1, <2>2, <1>14, PlainConsumed, AnswersAre DEF StartWrite, Commands, WithData, Long
    <3> QED
      BY <1>3, <2>2, <3>1 DEF Done
  <2>8. Writing'
    BY <1>3, <2>1, <2>3, <2>5, <2>6, <2>7 DEF Writing
  <2> QED
    BY <1>6, <2>2, <2>8
<1>15. CASE Ignore
  BY <1>1, <1>15, ExactHandles DEF Ignore
<1>16. CASE Die
  <2>1. /\ UNCHANGED <<toArduino, flash>>
        /\ arduino' = [arduino EXCEPT !.alive = FALSE,
                         !.overrun = Head(toArduino).code \in WithData /\ Brought]
    BY <1>16 DEF Die
  <2>2. /\ arduino'.dma = arduino.dma /\ arduino'.write_addr = arduino.write_addr
        /\ arduino'.write_count = arduino.write_count /\ arduino'.buffer = arduino.buffer
    BY <2>1 DEF TypeOK
  <2>3. Done' = Done
    BY <1>3, <2>1 DEF Done
  <2>4. Writing'
    BY <1>1, <1>3, <1>4, <2>1, <2>2, <2>3 DEF Writing
  <2> QED
    BY <1>6, <2>1, <2>4
<1> QED
  BY <1>7, <1>8, <1>9, <1>10, <1>11, <1>12, <1>13, <1>14, <1>15, <1>16 DEF Arduino

-----------------------------------------------------------------------------
(* After one damage. *)

\* A chip that holds the file still holds it, unless the two do not come to an
\* end: while the host reads, no command is sent alone that writes.
LEMMA HoldsFileKept ==
  ASSUME TypeOK, Sync, HoldsFile, Verifying, Host \/ Arduino
  PROVE  HoldsFile' \/ Lost'
<1>1. CASE Host
  <2>1. UNCHANGED <<file, flash>>
    BY <1>1 DEF Host, Send, ReceiveAck, ReceiveInfo, ReceiveBlock, Exit, EndOfFile, Answer
  <2> QED
    BY <2>1, MemoryUnchanged
<1>2. CASE Arduino /\ (EraseChip \/ StartWrite)
  <2>1. PICK c \in {"ERASE_CHIP", "START_WRITE"} : Handles(c)
    BY <1>2 DEF EraseChip, StartWrite
  <2>2. at \in Sending
    BY <2>1, HandlesAsked
  <2>3. at \in Long
    BY <2>2 DEF Verifying, Sending, Long
  <2> QED
    BY <1>2, <2>3, SyncArduino
<1>3. CASE Arduino /\ ~ EraseChip /\ ~ StartWrite
  <2>1. flash' = flash
    BY <1>3, Zenon DEF Arduino, GetInfo, SetWriteAddr, SetReadAddr, SetWriteBuffer, EnableDma,
                       StartRead, Ignore, Die
  <2>2. file' = file
    BY <1>3, Zenon DEF Arduino, GetInfo, SetWriteAddr, SetReadAddr, SetWriteBuffer, EnableDma,
                       StartRead, Ignore, Die, Reply
  <2> QED
    BY <2>1, <2>2, MemoryUnchanged
<1> QED
  BY <1>1, <1>2, <1>3

\* The next block is compared.
LEMMA BlockCompared ==
  ASSUME TypeOK, Compared(count), Contents(count, Len(Block)) = Block
  PROVE  Compared(count + Len(Block))
<1>1. /\ file \in Files /\ count \in Nat /\ Len(Block) \in Nat
  BY TypesAre, BlockSize
<1> SUFFICES ASSUME NEW a \in Addresses, a < count + Len(Block), a < Len(file)
             PROVE  flash[a] = file[a + 1]
  BY DEF Compared
<1>2. a \in Int
  BY Sizes, SMT DEF Addresses
<1>3. CASE a < count
  BY <1>3 DEF Compared
<1>4. CASE ~ (a < count)
  <2>1. PICK m \in Nat : m = Len(Block)
    BY <1>1
  <2>2. PICK i \in Int : i = a - count + 1
    BY <1>1, <1>2
  <2>3. i \in 1 .. m /\ count + i - 1 = a
    BY <1>1, <1>2, <1>4, <2>1, <2>2, SMT
  <2>4. i \in 1 .. Len(Block)
    BY <2>1, <2>3
  <2>5. Contents(count, Len(Block))[i] = flash[a]
    BY <2>3, <2>4 DEF Contents
  <2>6. Block[i] = Padded(a)
    BY <1>1, <2>3, <2>4, BlockIsPadded
  <2> QED
    BY <2>5, <2>6, Zenon DEF Padded
<1> QED
  BY <1>3, <1>4

\* Nothing is compared yet.
LEMMA NothingCompared ==
  Compared(0)
BY SMT, Sizes DEF Compared, Addresses

\* As long as the two are in step, what is not complained of is in the memory.
LEMMA VerifiedStep ==
  ASSUME TypeOK, Sync, Verifying, Exact, ReadFrom, Verified, Host \/ Arduino
  PROVE  Exact' /\ ReadFrom' /\ Verified'
<1>1. file \in Files /\ count \in Nat /\ Fitting /\ silent \in BOOLEAN
  BY TypesAre DEF Sync
<1>2. ASSUME UNCHANGED <<file, flash>>, NEW n, Compared(n)
      PROVE  \A a \in Addresses : a < n /\ a < Len(file') => flash'[a] = file'[a + 1]
  BY <1>2 DEF Compared
<1>3. UNCHANGED <<file, flash>> /\ (Arduino => UNCHANGED <<at, count, silent>>)
  <2>1. CASE Host
    <3>1. UNCHANGED <<file, flash>>
      BY <2>1 DEF Host, Send, ReceiveAck, ReceiveInfo, ReceiveBlock, Exit, EndOfFile, Answer
    <3>2. Arduino => UNCHANGED <<at, count, silent>>
      BY Zenon DEF Arduino, GetInfo, SetWriteAddr, SetReadAddr, SetWriteBuffer, EnableDma,
                   EraseChip, StartWrite, StartRead, Ignore, Die, Reply
    <3> QED
      BY <3>1, <3>2
  <2>2. CASE Arduino
    <3>1. UNCHANGED <<file, at, count, silent>>
      BY <2>2, Zenon DEF Arduino, GetInfo, SetWriteAddr, SetReadAddr, SetWriteBuffer, EnableDma,
                         EraseChip, StartWrite, StartRead, Ignore, Die, Reply
    <3>2. ~ EraseChip /\ ~ StartWrite
      BY ExactHandles DEF Verifying, EraseChip, StartWrite
    <3>3. flash' = flash
      BY <2>2, <3>2, Zenon DEF Arduino, GetInfo, SetWriteAddr, SetReadAddr, SetWriteBuffer,
                               EnableDma, StartRead, Ignore, Die
    <3> QED
      BY <3>1, <3>3
  <2> QED
    BY <2>1, <2>2
<1>4. count' = count => Block' = Block
  BY <1>3 DEF Block
<1>5. ASSUME UNCHANGED <<at, count>>, silent' => silent PROVE Verified'
  BY <1>2, <1>3, <1>4, <1>5 DEF Verified, Compared
<1>6. CASE Arduino
  BY <1>3, <1>5, <1>6, ExactArduino
<1>7. CASE Host
  <2>1. Exact' /\ ReadFrom' /\ at' # "exit"
    BY <1>7, ExactHost
  <2>2. CASE Send
    BY <1>5, <2>1, <2>2 DEF Send
  <2>3. CASE ReceiveAck
    <3>1. /\ waiting /\ at \notin {"info", "read"} /\ at' = Following(at)
          /\ silent' = (silent /\ Head(toHost).code = "ACK")
          /\ count' = IF at \in {"write", "read_ack"} THEN count + Len(Block) ELSE count
      BY <2>3, Zenon DEF ReceiveAck
    <3>2. at \in {"read_addr", "read_ack"}
      BY <1>1, <3>1 DEF Verifying, Fitting
    <3>3. CASE at = "read_addr"
      <4>1. at' = "read" /\ count' = count
        BY <3>1, <3>3 DEF Following
      <4>2. silent' => Compared(count)
        BY <3>1, <3>3 DEF Verified
      <4>3. Verified'
        BY <1>2, <1>3, <4>1, <4>2 DEF Verified, Compared
      <4> QED
        BY <2>1, <4>3
    <3>4. CASE at = "read_ack"
      <4>1. at' = "read_addr" /\ count' = count + Len(Block)
        BY <3>1, <3>4 DEF Following
      <4>2. silent' => Compared(count + Len(Block))
        BY <3>1, <3>4 DEF Verified
      <4>3. Verified'
        BY <1>2, <1>3, <4>1, <4>2 DEF Verified, Compared
      <4> QED
        BY <2>1, <4>3
    <3> QED
      BY <3>2, <3>3, <3>4
  <2>4. CASE ReceiveInfo
    BY <2>4 DEF ReceiveInfo, Verifying
  <2>5. CASE ReceiveBlock
    <3>1. /\ at = "read" /\ toHost # <<>> /\ at' = "read_ack" /\ count' = count
          /\ silent' = (silent /\ Head(toHost).data = Block)
      BY <2>5 DEF ReceiveBlock
    <3>2. Head(toHost).data = Contents(count, Len(Block))
      BY <3>1, ExactReply
    <3>3. silent' => Compared(count + Len(Block))
      BY <3>1, <3>2, BlockCompared DEF Verified
    <3>4. Verified'
      BY <1>2, <1>3, <1>4, <3>1, <3>3 DEF Verified, Compared
    <3> QED
      BY <2>1, <3>4
  <2>6. CASE Exit
    BY <2>1, <2>6 DEF Exit
  <2>7. CASE EndOfFile
    <3>1. at = "read_addr" /\ at' = "verified" /\ UNCHANGED <<count, silent>>
      BY <2>7 DEF EndOfFile, Over, Verifying
    <3>2. Verified'
      BY <1>2, <1>3, <3>1 DEF Verified, Compared
    <3> QED
      BY <2>1, <3>2
  <2>8. CASE Answer
    BY <2>8 DEF Answer, Verifying
  <2> QED
    BY <1>7, <2>2, <2>3, <2>4, <2>5, <2>6, <2>7, <2>8 DEF Host
<1> QED
  BY <1>6, <1>7

\* A host that reads after a damage reads what it should, or comes to no end.
LEMMA SuspectStep ==
  ASSUME TypeOK, Sync, Verifying, Suspect, Host \/ Arduino
  PROVE  Suspect'
<1>1. CASE Lost
  BY <1>1, LostHost, LostArduino DEF Suspect, Sync
<1>2. CASE HoldsFile
  BY <1>2, HoldsFileKept DEF Suspect
<1>3. CASE Exact /\ ReadFrom /\ Verified
  BY <1>3, VerifiedStep DEF Suspect
<1> QED
  BY <1>1, <1>2, <1>3 DEF Suspect

\* It begins to read when the Arduino has answered everything.
LEMMA SuspectBegins ==
  ASSUME TypeOK, Sync, ~ Verifying, Host \/ Arduino, Verifying'
  PROVE  Suspect'
<1>1. ~ Arduino
  <2>1. Arduino => at' = at
    BY Zenon DEF Arduino, GetInfo, SetWriteAddr, SetReadAddr, SetWriteBuffer, EnableDma,
                 EraseChip, StartWrite, StartRead, Ignore, Die, Reply
  <2> QED
    BY <2>1 DEF Verifying
<1>2. at \in Steps /\ Fitting
  BY TypesAre DEF Sync
<1>3. Answer
  <2>1. CASE Send
    BY <2>1 DEF Send, Verifying
  <2>2. CASE ReceiveAck
    <3>1. waiting /\ at' = Following(at) /\ at \notin {"info", "read"}
      BY <2>2 DEF ReceiveAck
    <3>2. at \in {"erase", "dma", "write_addr", "write_buffer", "write"}
      BY <1>2, <3>1 DEF Fitting, Steps, Verifying
    <3>3. at' \in {"dma", "write_addr", "write_buffer", "write"}
      BY <3>1, <3>2 DEF Following
    <3> QED
      BY <3>3 DEF Verifying
  <2>3. CASE ReceiveInfo
    BY <2>3 DEF ReceiveInfo, Following, Verifying
  <2>4. CASE ReceiveBlock
    BY <2>4 DEF ReceiveBlock, Verifying
  <2>5. CASE Exit
    BY <2>5 DEF Exit, Verifying
  <2>6. CASE EndOfFile
    BY <2>6 DEF EndOfFile, Over, Verifying
  <2> QED
    BY <1>1, <2>1, <2>2, <2>3, <2>4, <2>5, <2>6 DEF Host
<1>4. at = "ask" /\ at' = "read_addr" /\ count' = 0 /\ UNCHANGED <<waiting, toArduino, toHost>>
  BY <1>3 DEF Answer, Verifying
<1>5. ~ waiting
  BY <1>2, <1>4 DEF Fitting
<1>6. Idle
  BY <1>4, <1>5 DEF Sync, Lost, Asked, Answered, Left
<1>7. Exact' /\ ReadFrom'
  BY <1>4, <1>6 DEF Exact, Idle, ReadFrom, Done
<1>8. Verified'
  BY <1>4, NothingCompared, Sizes, SMT DEF Verified, Compared, Addresses
<1> QED
  BY <1>7, <1>8 DEF Suspect

\* A chip that holds the file and the zeroes behind it holds the file.
LEMMA ProgrammedHolds ==
  ASSUME TypeOK, Programmed
  PROVE  HoldsFile
<1>1. PICK n \in 0 .. FLASH : n % WORD = 0 /\ Len(file) <= n /\ Holds(n)
  BY DEF Programmed
<1> SUFFICES ASSUME NEW i \in 1 .. Len(file) PROVE flash[i - 1] = file[i]
  BY DEF HoldsFile
<1>2. PICK l \in Nat : l = Len(file)
  BY TypesAre
<1>3. i \in 1 .. l /\ l <= n /\ n \in 0 .. FLASH /\ FLASH \in Nat
  BY <1>1, <1>2, Sizes
<1>4. i - 1 \in 0 .. FLASH - 1 /\ i - 1 < n /\ i - 1 < l /\ (i - 1) + 1 = i
  BY <1>3, SMT
<1>5. flash[i - 1] = Padded(i - 1)
  BY <1>1, <1>4 DEF Holds, Addresses
<1> QED
  BY <1>2, <1>4, <1>5 DEF Padded

\* So does one that was read to the end of the file.
LEMMA ComparedHolds ==
  ASSUME TypeOK, Compared(count), Len(file) <= count
  PROVE  HoldsFile
<1> SUFFICES ASSUME NEW i \in 1 .. Len(file) PROVE flash[i - 1] = file[i]
  BY DEF HoldsFile
<1>1. PICK l \in Nat : l = Len(file)
  BY TypesAre
<1>2. i \in 1 .. l /\ l <= count /\ l <= FLASH /\ FLASH \in Nat /\ count \in Nat
  BY <1>1, TypesAre, Sizes
<1>3. i - 1 \in 0 .. FLASH - 1 /\ i - 1 < count /\ i - 1 < l /\ (i - 1) + 1 = i
  BY <1>2, SMT
<1> QED
  BY <1>1, <1>3 DEF Compared, Addresses

-----------------------------------------------------------------------------
(* The inductive invariant. *)

\* At the start nothing is on the line.
LEMMA InitIs ==
  Init => IInv
<1> SUFFICES ASSUME Init PROVE IInv
  OBVIOUS
<1>1. /\ file \in Files /\ at = "info" /\ waiting = FALSE /\ count = 0 /\ silent = TRUE
      /\ toArduino = <<>> /\ toHost = <<>> /\ damages = 0
  BY DEF Init
<1>2. TypeOK
  <2>1. count \in 0 .. Len(file) + WORD - 1
    <3>1. PICK n \in Nat : n = Len(file)
      BY <1>1, FileType
    <3>2. 0 \in 0 .. n + WORD - 1
      BY <3>1, Constants, SMT
    <3> QED
      BY <1>1, <3>1, <3>2
  <2>2. toArduino \in Seq(Frames) /\ toHost \in Seq(Frames) /\ Len(toArduino) = 0 /\ Len(toHost) = 0
    BY <1>1, AnswersAre
  <2>3. /\ 0 \in Bytes /\ BYTE - 1 \in Bytes /\ 0 \in 0 .. BUFFER_SIZE /\ 0 \in 0 .. DAMAGES
        /\ 0 \in 0 .. BYTE * BYTE * BYTE - 1
    <3>1. 0 \in Bytes /\ BYTE - 1 \in Bytes /\ 0 \in 0 .. BUFFER_SIZE /\ 0 \in 0 .. DAMAGES
      BY Constants, SMT DEF Bytes
    <3>2. 0 \in 0 .. BYTE * BYTE * BYTE - 1
      <4>1. PICK b \in Nat \ {0} : b = BYTE * BYTE
        BY Sizes
      <4>2. b * BYTE \in Nat /\ b * BYTE >= 1
        BY Constants, SMT
      <4> QED
        BY <4>1, <4>2, SMT
    <3> QED
      BY <3>1, <3>2
  <2>4. arduino \in Arduinos
    BY <2>3, Zenon DEF Init, Arduinos
  <2>5. flash \in [Addresses -> Bytes]
    BY <2>3 DEF Init
  <2>6. at \in Steps /\ waiting \in BOOLEAN /\ silent \in BOOLEAN /\ damages \in 0 .. DAMAGES
    BY <1>1, <2>3 DEF Steps
  <2>7. Len(toArduino) <= 3 /\ Len(toHost) <= 2
    BY <2>2, SMT
  <2> QED
    BY <1>1, <2>1, <2>2, <2>4, <2>5, <2>6, <2>7, Zenon DEF TypeOK, Arduinos
<1>3. Sync
  <2>1. (count % WORD) = 0
    <3>1. 0 \in 0 .. WORD - 1 /\ WORD \in Nat \ {0}
      BY Constants, SMT
    <3> QED
      BY <1>1, <3>1, SmallIs
  <2> QED
    BY <1>1, <2>1 DEF Sync, Fitting, Idle
<1>4. Clean
  BY <1>1 DEF Clean, Exact, Idle, Writing, Verifying, ReadFrom, Done
<1> QED
  BY <1>1, <1>2, <1>3, <1>4 DEF IInv

\* A step that changes nothing.
LEMMA NothingChanges ==
  ASSUME IInv, UNCHANGED vars
  PROVE  IInv'
<1>1. UNCHANGED <<file, at, waiting, count, silent, toArduino, toHost, arduino, flash, damages>>
  BY DEF vars
<1>2. Block' = Block /\ Request(at)' = Request(at) /\ AnswerTo' = AnswerTo
  BY <1>1, AnswerUnchanged DEF Block, Request
<1>3. TypeOK'
  BY <1>1, Zenon DEF IInv, TypeOK
<1>4. Lost' = Lost /\ (Idle \/ Asked \/ Answered \/ Left)' = (Idle \/ Asked \/ Answered \/ Left)
  BY <1>1, <1>2 DEF Lost, Quiet, Doomed, Due, Idle, Asked, Answered, Left
<1>5. Sync'
  BY <1>1, <1>4, FittingUnchanged DEF IInv, Sync
<1>6. Exact' = Exact /\ ReadFrom' = ReadFrom /\ Verifying' = Verifying
  BY <1>1, <1>2 DEF Exact, Idle, ReadFrom, Done, Verifying
<1>7. /\ Programmed' = Programmed /\ Blank(0)' = Blank(0) /\ HoldsFile' = HoldsFile
      /\ Pages(count)' = Pages(count) /\ Pages(count + Len(Block))' = Pages(count + Len(Block))
  BY <1>1, MemoryUnchanged
<1>8. Writing' = Writing
  BY <1>1, <1>2, <1>7 DEF Writing, Done
<1>9. Verified' = Verified
  BY <1>1, <1>2 DEF Verified, Compared
<1>10. Clean' = Clean
  BY <1>1, <1>6, <1>7, <1>8 DEF Clean
<1>11. Suspect' = Suspect
  BY <1>4, <1>6, <1>7, <1>9 DEF Suspect
<1> QED
  BY <1>1, <1>3, <1>5, <1>6, <1>10, <1>11 DEF IInv

\* A damage is the first, and the chip holds the file if the host reads; or it
\* is one too many.
LEMMA DamageStep ==
  ASSUME IInv, DamageToArduino \/ DamageToHost
  PROVE  IInv'
<1>1. TypeOK /\ Sync /\ damages \in Nat /\ damages' = damages + 1 /\ damages < DAMAGES
      /\ UNCHANGED <<file, at, flash>>
  <2>1. damages \in 0 .. DAMAGES
    BY DEF IInv, TypeOK
  <2> QED
    BY <2>1, Constants, SMT DEF IInv, DamageToArduino, DamageToHost
<1>2. TypeOK' /\ Sync'
  BY <1>1, DamageType, SyncDamage
<1>3. damages' # 0 /\ (damages' = 1 => damages = 0)
  BY <1>1, SMT
<1>4. Verifying' = Verifying
  BY <1>1 DEF Verifying
<1>5. damages = 0 /\ Verifying => HoldsFile
  BY <1>1, ProgrammedHolds DEF IInv, Clean
<1>6. HoldsFile' = HoldsFile
  BY <1>1, MemoryUnchanged
<1> QED
  BY <1>2, <1>3, <1>4, <1>5, <1>6 DEF IInv, Suspect

\* A step of one of the two.
LEMMA WorkStep ==
  ASSUME IInv, Host \/ Arduino
  PROVE  IInv'
<1>1. TypeOK /\ Sync
  BY DEF IInv
<1>2. TypeOK' /\ Sync'
  BY <1>1, HostType, ArduinoType, SyncHost, SyncArduino
<1>3. damages' = damages
  <2>1. Host => damages' = damages
    BY Zenon DEF Host, Send, ReceiveAck, ReceiveInfo, ReceiveBlock, Exit, EndOfFile, Answer
  <2>2. Arduino => damages' = damages
    BY Zenon DEF Arduino, GetInfo, SetWriteAddr, SetReadAddr, SetWriteBuffer, EnableDma,
                 EraseChip, StartWrite, StartRead, Ignore, Die, Reply
  <2> QED
    BY <2>1, <2>2
<1>4. damages = 0 => Clean'
  BY <1>1, CleanHost, CleanArduino DEF IInv
<1>5. damages = 1 /\ Verifying' => Suspect'
  BY <1>1, SuspectStep, SuspectBegins DEF IInv
<1> QED
  BY <1>2, <1>3, <1>4, <1>5 DEF IInv

\* The invariant of every reachable state.
THEOREM Invariant ==
  Spec => []IInv
<1>1. IInv /\ [Next]_vars => IInv'
  BY NothingChanges, DamageStep, WorkStep DEF Next
<1> QED
  BY InitIs, <1>1, PTL DEF Spec

\* Both programs, the line and the memory are of their types, whatever is
\* damaged, until the Arduino writes behind its buffer: no count, no address and
\* no buffer leaves its bounds, and no more than one request and its reply are on
\* the line.
THEOREM TypeCorrect ==
  Spec => []TypeOK
<1>1. IInv => TypeOK
  BY DEF IInv
<1> QED
  BY <1>1, Invariant, PTL

\* However many bytes are damaged, lengths of data among them, the two stay in
\* step, or they come to no end, or a request to read was answered whose size was
\* cut; a step is never taken for another one, and a reply never for the next.
\* Nothing is said of an Arduino that has written behind its buffer.
THEOREM InStep ==
  Spec => [](~ arduino.overrun => Sync)
<1>1. IInv => (~ arduino.overrun => Sync)
  BY DEF IInv
<1> QED
  BY <1>1, Invariant, PTL

\* Once the two are out of step the host neither verifies the file nor says
\* that the chip was programmed: it exits, or waits for a reply without end.
\* This, too, holds until the Arduino writes behind its buffer.
THEOREM NoEnd ==
  Spec => /\ [](~ arduino.overrun /\ Lost => at \notin {"verified", "unverified"})
          /\ [][~ arduino.overrun' /\ Lost => Lost']_vars
<1>1. IInv => (~ arduino.overrun /\ Lost => at \notin {"verified", "unverified"})
  BY DEF IInv, Sync, Fitting, Lost
<1>2. IInv /\ [Next]_vars => [~ arduino.overrun' /\ Lost => Lost']_vars
  BY LostHost, LostArduino, LostDamage DEF IInv, Sync, Next
<1> QED
  BY <1>1, <1>2, Invariant, PTL DEF Spec

\* As long as nothing is damaged neither program gives up, the Arduino does not
\* write behind its buffer, and the host never waits in vain: a reply is on the
\* line, or a request that the Arduino understands and handles.
THEOREM NobodyGivesUp ==
  Spec => [](damages = 0 => /\ arduino.alive /\ ~ arduino.overrun /\ at # "exit"
                            /\ toArduino # <<>> => Understood
                            /\ waiting => toArduino # <<>> \/ toHost # <<>>)
<1> DEFINE Alive == damages = 0 => arduino.alive /\ ~ arduino.overrun
<1>1. IInv /\ damages = 0 => /\ at # "exit" /\ (toArduino # <<>> => Understood)
                             /\ (waiting => toArduino # <<>> \/ toHost # <<>>)
  <2> SUFFICES ASSUME IInv, damages = 0
               PROVE  /\ at # "exit" /\ (toArduino # <<>> => Understood)
                      /\ (waiting => toArduino # <<>> \/ toHost # <<>>)
    OBVIOUS
  <2>1. TypeOK /\ Sync /\ Exact /\ at # "exit"
    BY DEF IInv, Clean
  <2>2. AnswerTo # <<>>
    <3>1. \A f, g : <<f>> # <<>> /\ <<f, g>> # <<>>
      OBVIOUS
    <3> QED
      BY <3>1 DEF AnswerTo
  <2>3. waiting => toArduino # <<>> \/ toHost # <<>>
    <3>1. CASE waiting /\ toHost = AnswerTo
      BY <2>2, <3>1
    <3>2. CASE waiting /\ at # "read_ack" /\ toArduino = Request(at)
      <4>1. at \in Sending
        BY <2>1, <3>2, TypesAre DEF Sync, Fitting, Sending, Steps
      <4>2. Len(Request(at)) = IF at \in Long THEN 2 ELSE 1
        BY <2>1, <4>1, TypesAre, RequestIs
      <4> QED
        BY <3>2, <4>2
    <3> QED
      BY <2>1, <3>1, <3>2 DEF Exact, Idle
  <2> QED
    BY <2>1, <2>3, ExactUnderstood
<1>2. Init => Alive
  BY DEF Init
<1>3. IInv /\ Alive /\ [Next]_vars => Alive'
  <2> SUFFICES ASSUME IInv, Alive, [Next]_vars, damages' = 0 PROVE arduino'.alive /\ ~ arduino'.overrun
    OBVIOUS
  <2>1. CASE UNCHANGED vars
    BY <2>1 DEF vars
  <2>2. CASE Host
    BY <2>2, Zenon DEF Host, Send, ReceiveAck, ReceiveInfo, ReceiveBlock, Exit, EndOfFile, Answer
  <2>3. CASE DamageToArduino \/ DamageToHost
    <3>1. damages \in 0 .. DAMAGES /\ damages' = damages + 1
      BY <2>3 DEF IInv, TypeOK, DamageToArduino, DamageToHost
    <3> QED
      BY <3>1, Constants, SMT
  <2>4. CASE Arduino
    <3>1. damages = 0
      BY <2>4, Zenon DEF Arduino, GetInfo, SetWriteAddr, SetReadAddr, SetWriteBuffer, EnableDma,
                         EraseChip, StartWrite, StartRead, Ignore, Die, Reply
    <3>2. ~ Die
      BY <1>1, <3>1 DEF Die
    <3>3. arduino.alive /\ ~ arduino.overrun /\ \A b, w, n, r, d :
            /\ [arduino EXCEPT !.buffer = b].alive = arduino.alive
            /\ [arduino EXCEPT !.buffer = b, !.write_addr = w].alive = arduino.alive
            /\ [arduino EXCEPT !.buffer = b, !.write_count = n].alive = arduino.alive
            /\ [arduino EXCEPT !.buffer = b, !.read_addr = r].alive = arduino.alive
            /\ [arduino EXCEPT !.dma = d].alive = arduino.alive
            /\ [arduino EXCEPT !.buffer = b].overrun = arduino.overrun
            /\ [arduino EXCEPT !.buffer = b, !.write_addr = w].overrun = arduino.overrun
            /\ [arduino EXCEPT !.buffer = b, !.write_count = n].overrun = arduino.overrun
            /\ [arduino EXCEPT !.buffer = b, !.read_addr = r].overrun = arduino.overrun
            /\ [arduino EXCEPT !.dma = d].overrun = arduino.overrun
      BY <3>1, SMT DEF IInv, TypeOK
    <3>4. CASE GetInfo \/ SetWriteAddr \/ SetWriteBuffer \/ SetReadAddr \/ EnableDma
      <4>1. CASE GetInfo
        BY <3>3, <4>1, Zenon DEF GetInfo
      <4>2. CASE SetWriteAddr
        BY <3>3, <4>2, Zenon DEF SetWriteAddr
      <4>3. CASE SetWriteBuffer
        BY <3>3, <4>3, Zenon DEF SetWriteBuffer
      <4>4. CASE SetReadAddr
        BY <3>3, <4>4, Zenon DEF SetReadAddr
      <4>5. CASE EnableDma
        BY <3>3, <4>5, Zenon DEF EnableDma
      <4> QED
        BY <3>4, <4>1, <4>2, <4>3, <4>4, <4>5
    <3>5. CASE EraseChip \/ StartWrite \/ Ignore
      BY <3>3, <3>5, Zenon DEF EraseChip, StartWrite, Ignore
    <3>6. CASE StartRead
      BY <3>3, <3>6, Zenon DEF StartRead
    <3> QED
      BY <2>4, <3>2, <3>4, <3>5, <3>6 DEF Arduino
  <2> QED
    BY <2>1, <2>2, <2>3, <2>4 DEF Next
<1> QED
  BY <1>1, <1>2, <1>3, Invariant, PTL DEF Spec

\* If nothing was damaged the chip holds the file and the host has nothing to
\* complain of; if one byte was, a length of data or another, without the Arduino
\* writing behind its buffer, and the host verifies the file without a complaint,
\* the chip holds it, too.
THEOREM ChipIsRight ==
  Spec => []ChipHoldsFile
<1>1. IInv => ChipHoldsFile
  <2> SUFFICES ASSUME IInv PROVE ChipHoldsFile
    OBVIOUS
  <2>1. TypeOK /\ Fitting /\ damages \in Nat /\ waiting \in BOOLEAN
    BY DEF IInv, Sync, TypeOK
  <2>2. damages = 0 => silent /\ (at \in {"verified", "unverified"} => HoldsFile)
    BY <2>1, ProgrammedHolds DEF IInv, Clean, Verifying
  <2>3. ASSUME damages = 1, at = "verified", silent PROVE HoldsFile
    <3>1. Suspect
      BY <2>3 DEF IInv, Verifying
    <3>2. ~ waiting /\ Len(file) <= count
      BY <2>1, <2>3 DEF Fitting
    <3>3. ~ Lost
      BY <2>3, <3>2 DEF Lost
    <3>4. Verified => Compared(count)
      BY <2>3 DEF Verified
    <3> QED
      BY <2>1, <3>1, <3>2, <3>3, <3>4, ComparedHolds DEF Suspect
  <2>4. damages <= 1 => damages = 0 \/ damages = 1
    BY <2>1, SMT
  <2> QED
    BY <2>2, <2>3, <2>4 DEF ChipHoldsFile
<1> QED
  BY <1>1, Invariant, PTL
=============================================================================
