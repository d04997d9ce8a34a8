------------------------------- MODULE Flasher -------------------------------
(***************************************************************************)
(* The flash programmer: a host program (cc2530flasher.c) and an Arduino   *)
(* (cc2530_flasher.ino) on the two ends of a serial line, and the flash    *)
(* memory of the chip that the Arduino programs.  The host erases the      *)
(* chip, writes the file in blocks and, if asked to, reads it back.        *)
(*                                                                         *)
(* A command is two bytes without a checksum; data have a length, which    *)
(* the checksum behind them does not cover.  The line may damage or lose a *)
(* byte: a command becomes another one; a frame is rejected, or waited for *)
(* without end, and in both cases its receiver does nothing any more; or   *)
(* data with a damaged length are accepted, too long or too short.         *)
(*                                                                         *)
(* Bytes have BYTE values; addresses are three bytes, the least first.     *)
(***************************************************************************)
EXTENDS Integers, Sequences

CONSTANTS Files,        \* the files to be programmed: sequences of bytes
          BYTE,         \* the values of a byte (256)
          WORD,         \* bytes in a word of flash memory (4)
          BUFFER_SIZE,  \* bytes in a block (1536)
          BANK,         \* bytes in a bank of flash memory (0x8000)
          FLASH,        \* bytes of flash memory (2^18)
          DAMAGES,      \* bound: the bytes damaged
          Both(_, _)    \* the bits set in both of two bytes

ASSUME FlasherAssumption ==
  /\ BYTE \in Nat /\ BYTE >= 4 /\ WORD \in Nat \ {0}
  /\ BUFFER_SIZE \in 4 .. BYTE * BYTE - 1 /\ BUFFER_SIZE % WORD = 0
  /\ BANK \in Nat \ {0} /\ FLASH = BYTE * BYTE * 4 /\ FLASH % WORD = 0
  /\ Files \subseteq Seq(0 .. BYTE - 1)
  /\ \A f \in Files : Len(f) <= FLASH
  /\ DAMAGES \in Nat
  /\ \A a, b \in 0 .. BYTE - 1 : Both(a, b) \in 0 .. BYTE - 1
  /\ \A b \in 0 .. BYTE - 1 : Both(BYTE - 1, b) = b

VARIABLES
  file,         \* the file given to the host
  at,           \* what the host does
  waiting,      \* it has sent its request and waits for the reply
  count,        \* bytes written, or verified
  silent,       \* it has not complained
  toArduino, toHost,    \* the two directions of the line
  arduino,      \* the variables of the Arduino
  flash,        \* the flash memory
  damages       \* history: how many bytes were damaged

vars == <<file, at, waiting, count, silent, toArduino, toHost, arduino, flash, damages>>

Bytes == 0 .. BYTE - 1
Addresses == 0 .. FLASH - 1

WithData == {"SET_WRITE_ADDR", "SET_READ_ADDR", "SET_WRITE_BUFFER", "START_READ"}
Commands == WithData \cup {"GET_INFO", "ERASE_CHIP", "ENABLE_DMA", "START_WRITE", "ACK", "unknown"}

Command(c) == [type |-> "command", code |-> c, data |-> <<>>]
Data(d) == [type |-> "data", code |-> "none", data |-> d]
Cut(d) == [type |-> "cut", code |-> "none", data |-> d]
Rejected == [type |-> "rejected", code |-> "none", data |-> <<>>]
Frames == {Command(c) : c \in Commands} \cup {Rejected}
          \cup [type : {"data", "cut"}, code : {"none"}, data : Seq(Bytes)]

Steps == {"info", "erase", "dma", "write_addr", "write_buffer", "write", "ask",
          "read_addr", "read", "read_ack", "verified", "unverified", "exit"}

\* Both programs, the line and the memory.  The Arduino is followed until it
\* writes behind its buffer, which makes a chance of everything after it.
TypeOK ==
  /\ file \in Files /\ at \in Steps /\ waiting \in BOOLEAN /\ silent \in BOOLEAN
  /\ count \in 0 .. Len(file) + WORD - 1
  /\ toArduino \in Seq(Frames) /\ Len(toArduino) <= 3
  /\ toHost \in Seq(Frames) /\ Len(toHost) <= 2
  /\ arduino \in [alive : BOOLEAN, overrun : BOOLEAN,
                  buffer : [0 .. BUFFER_SIZE - 1 -> Bytes], dma : BOOLEAN,
                  write_addr : 0 .. BYTE * BYTE * BYTE - 1, write_count : 0 .. BUFFER_SIZE,
                  read_addr : 0 .. BYTE * BYTE * BYTE - 1]
  /\ flash \in [Addresses -> Bytes]
  /\ damages \in 0 .. DAMAGES

\* The chip holds whatever was in it: nothing, or the zeroes that are hardest
\* to get rid of.
Init ==
  /\ file \in Files /\ at = "info" /\ waiting = FALSE /\ count = 0 /\ silent = TRUE
  /\ toArduino = <<>> /\ toHost = <<>>
  /\ arduino = [alive |-> TRUE, overrun |-> FALSE,
                buffer |-> [i \in 0 .. BUFFER_SIZE - 1 |-> 0], dma |-> FALSE,
                write_addr |-> 0, write_count |-> 0, read_addr |-> 0]
  /\ \E b \in {0, BYTE - 1} : flash = [a \in Addresses |-> b]
  /\ damages = 0

-----------------------------------------------------------------------------
(* The host. *)

\* The next block of the file, with zeroes up to a whole word.
Block ==
  LET last == IF count + BUFFER_SIZE <= Len(file) THEN count + BUFFER_SIZE ELSE Len(file)
      n == IF count < last THEN last - count ELSE 0
      padded == n + ((WORD - (n % WORD)) % WORD)
  IN  [i \in 1 .. padded |-> IF i <= n THEN file[count + i] ELSE 0]

\* The low and the middle byte of x, and two bits of the high one.
Low(x) == x % BYTE
Middle(x) == (x \div BYTE) % BYTE
High(x) == (x \div (BYTE * BYTE)) % 4
Address(x) == <<Low(x), Middle(x), High(x)>>

\* The loops over the file end when fread returns nothing.
Over(step) == step \in {"write_addr", "read_addr"} /\ Block = <<>>

Request(step) ==
  CASE step = "info"         -> <<Command("GET_INFO")>>
    [] step = "erase"        -> <<Command("ERASE_CHIP")>>
    [] step = "dma"          -> <<Command("ENABLE_DMA")>>
    [] step = "write_addr"   -> <<Command("SET_WRITE_ADDR"), Data(Address(count))>>
    [] step = "write_buffer" -> <<Command("SET_WRITE_BUFFER"), Data(Block)>>
    [] step = "write"        -> <<Command("START_WRITE")>>
    [] step = "read_addr"    -> <<Command("SET_READ_ADDR"), Data(Address(count))>>
    [] step = "read"         -> <<Command("START_READ"),
                                  Data(<<Low(Len(Block)), Middle(Len(Block))>>)>>

Following(step) ==
  CASE step = "info" -> "erase" [] step = "erase" -> "dma" [] step = "dma" -> "write_addr"
    [] step = "write_addr" -> "write_buffer" [] step = "write_buffer" -> "write"
    [] step = "write" -> "write_addr" [] step = "read_addr" -> "read"
    [] step = "read" -> "read_ack" [] step = "read_ack" -> "read_addr"

Send ==
  /\ ~ waiting /\ at \notin {"ask", "read_ack", "verified", "unverified", "exit"} /\ ~ Over(at)
  /\ toArduino' = toArduino \o Request(at)
  /\ waiting' = TRUE
  /\ UNCHANGED <<file, at, count, silent, toHost, arduino, flash, damages>>

\* The types of the frames that are accepted.
Due == CASE at = "info" -> {"data"} [] at = "read" -> {"data", "cut"} [] OTHER -> {"command"}

\* receberComando: another command than an acknowledgement is complained of
\* and taken for one.
ReceiveAck ==
  /\ waiting /\ at \notin {"info", "read"}
  /\ toHost # <<>> /\ Head(toHost).type = "command"
  /\ silent' = (silent /\ Head(toHost).code = "ACK")
  /\ at' = Following(at)
  /\ count' = IF at \in {"write", "read_ack"} THEN count + Len(Block) ELSE count
  /\ waiting' = FALSE
  /\ toHost' = Tail(toHost)
  /\ UNCHANGED <<file, toArduino, arduino, flash, damages>>

\* The reply to GET_INFO; a chip id of zero ends the program.
ReceiveInfo ==
  /\ waiting /\ at = "info"
  /\ toHost # <<>> /\ Head(toHost).type = "data"
  /\ at' = IF Head(toHost).data[1] = 0 THEN "exit" ELSE Following(at)
  /\ waiting' = FALSE
  /\ toHost' = Tail(toHost)
  /\ UNCHANGED <<file, count, silent, toArduino, arduino, flash, damages>>

\* What is left of a frame that was cut is no command.
Remains(frame) == IF frame.type = "cut" THEN <<Rejected>> ELSE <<>>

\* What was read is compared with the file.
ReceiveBlock ==
  /\ waiting /\ at = "read"
  /\ toHost # <<>> /\ Head(toHost).type \in Due
  /\ silent' = (silent /\ Head(toHost).data = Block)
  /\ at' = "read_ack"
  /\ toHost' = Remains(Head(toHost)) \o Tail(toHost)
  /\ UNCHANGED <<file, waiting, count, toArduino, arduino, flash, damages>>

\* A header or a checksum is not what is due: exit(1).
Exit ==
  /\ waiting /\ toHost # <<>> /\ Head(toHost).type \notin Due
  /\ at' = "exit" /\ waiting' = FALSE
  /\ toHost' = Tail(toHost)
  /\ UNCHANGED <<file, count, silent, toArduino, arduino, flash, damages>>

\* A loop over the file ends.
EndOfFile ==
  /\ ~ waiting /\ Over(at)
  /\ at' = IF at = "write_addr" THEN "ask" ELSE "verified"
  /\ UNCHANGED <<file, waiting, count, silent, toArduino, toHost, arduino, flash, damages>>

\* "Deseja fazer a verificacao dos dados escritos? (s/n)"
Answer ==
  /\ at = "ask"
  /\ \/ at' = "read_addr" /\ count' = 0
     \/ at' = "unverified" /\ count' = count
  /\ UNCHANGED <<file, waiting, silent, toArduino, toHost, arduino, flash, damages>>

-----------------------------------------------------------------------------
(* The Arduino: loop handles one command. *)

Handles(c) == arduino.alive /\ toArduino # <<>> /\ Head(toArduino) = Command(c)

\* A command is followed by data, which fill the buffer from its start.
Brought == Len(toArduino) = 2 /\ toArduino[2].type \in {"data", "cut"}
Received == toArduino[2].data
Filled(data) ==
  [i \in 0 .. BUFFER_SIZE - 1 |-> IF i < Len(data) THEN data[i + 1] ELSE arduino.buffer[i]]

AddressIn(buffer) == buffer[0] + BYTE * buffer[1] + BYTE * BYTE * buffer[2]

\* What START_READ asks for.
Wanted == AddressIn(Filled(Received)) % (BYTE * BYTE)

\* The data received, or the data to be read, are more than the buffer holds:
\* what is behind it is overwritten.
Overruns ==
  \/ Len(Received) > BUFFER_SIZE
  \/ Head(toArduino) = Command("START_READ") /\ Wanted > BUFFER_SIZE

HandlesData(c) == Handles(c) /\ Brought /\ ~ Overruns

\* The end of a handler: the frames are consumed, the answer is sent.
Reply(frames) ==
  /\ toArduino' = IF Head(toArduino).code \in WithData THEN Remains(toArduino[2])
                                                       ELSE Tail(toArduino)
  /\ toHost' = toHost \o frames
  /\ UNCHANGED <<file, at, waiting, count, silent, damages>>

\* The four bytes that tell of the chip; its id is 0xA5 (setup exits otherwise).
GetInfo ==
  /\ Handles("GET_INFO")
  /\ LET info == <<1, 0, 0, 0>>
     IN  Reply(<<Data(info)>>) /\ arduino' = [arduino EXCEPT !.buffer = Filled(info)]
  /\ UNCHANGED flash

SetWriteAddr ==
  /\ HandlesData("SET_WRITE_ADDR")
  /\ arduino' = [arduino EXCEPT !.buffer = Filled(Received),
                                !.write_addr = AddressIn(Filled(Received))]
  /\ Reply(<<Command("ACK")>>) /\ UNCHANGED flash

SetReadAddr ==
  /\ HandlesData("SET_READ_ADDR")
  /\ arduino' = [arduino EXCEPT !.buffer = Filled(Received),
                                !.read_addr = AddressIn(Filled(Received))]
  /\ Reply(<<Command("ACK")>>) /\ UNCHANGED flash

\* Mutant: two bytes of the frame are counted with its data.
SetWriteBuffer_Checksum ==
  /\ HandlesData("SET_WRITE_BUFFER")
  /\ arduino' = [arduino EXCEPT !.buffer = Filled(Received), !.write_count = Len(Received) + 2]
  /\ Reply(<<Command("ACK")>>) /\ UNCHANGED flash

SetWriteBuffer ==
  /\ HandlesData("SET_WRITE_BUFFER")
  /\ arduino' = [arduino EXCEPT !.buffer = Filled(Received), !.write_count = Len(Received)]
  /\ Reply(<<Command("ACK")>>) /\ UNCHANGED flash

\* Mutant: the command is not acknowledged.
EnableDma_Silent ==
  /\ Handles("ENABLE_DMA")
  /\ arduino' = [arduino EXCEPT !.dma = TRUE]
  /\ Reply(<<>>) /\ UNCHANGED flash

EnableDma ==
  /\ Handles("ENABLE_DMA")
  /\ arduino' = [arduino EXCEPT !.dma = TRUE]
  /\ Reply(<<Command("ACK")>>) /\ UNCHANGED flash

\* chip_erase sets every bit, and waits until it is done.
Erased == [a \in Addresses |-> BYTE - 1]

EraseChip ==
  /\ Handles("ERASE_CHIP")
  /\ flash' = Erased
  /\ Reply(<<Command("ACK")>>) /\ UNCHANGED arduino

\* write_flash_memory_block: the DMA brings the buffer to the flash controller,
\* which starts at a word and can only clear bits.  While the DMA is paused, or
\* if there is nothing in the buffer yet, nothing is written.
Written(memory) ==
  LET first == arduino.write_addr - (arduino.write_addr % WORD)
  IN  [a \in Addresses |->
         LET i == (a - first) % FLASH
         IN  IF arduino.dma /\ i < arduino.write_count THEN Both(memory[a], arduino.buffer[i])
                                                       ELSE memory[a]]

StartWrite ==
  /\ Handles("START_WRITE")
  /\ flash' = Written(flash)
  /\ Reply(<<Command("ACK")>>) /\ UNCHANGED arduino

\* read_flash_memory_block: one bank is mapped, and read from address on.
FlashBlock(bank, address, n) ==
  [i \in 1 .. n |-> flash[(BANK * bank + address + i - 1) % FLASH]]

\* How many of the bytes wanted are in the bank.
InBank(xaddr, left) == IF xaddr + left < BANK THEN left ELSE BANK - xaddr

\* What is still to be read: from where in which bank, and how much.
Rest(bank, xaddr, left) == [bank |-> bank, xaddr |-> xaddr, left |-> left]
Rests == [bank : Nat, xaddr : 0 .. BANK - 1, left : Nat]

\* Mutant: the next bank is not read from its start.
Read_NoReset(addr, n) ==
  LET from[r \in Rests] ==
        LET len == InBank(r.xaddr, r.left)
        IN  IF r.left = 0 THEN <<>>
            ELSE FlashBlock(r.bank, r.xaddr, len) \o from[Rest(r.bank + 1, r.xaddr, r.left - len)]
  IN  from[Rest(addr \div BANK, addr % BANK, n)]

\* START_READ reads n bytes bank by bank.
Read(addr, n) ==
  LET from[r \in Rests] ==
        LET len == InBank(r.xaddr, r.left)
        IN  IF r.left = 0 THEN <<>>
            ELSE FlashBlock(r.bank, r.xaddr, len) \o from[Rest(r.bank + 1, 0, r.left - len)]
  IN  from[Rest(addr \div BANK, addr % BANK, n)]

\* The buffer is sent after it was filled from the flash memory.
StartRead ==
  /\ HandlesData("START_READ")
  /\ LET read == Read(arduino.read_addr, Wanted)
     IN  /\ arduino' = [arduino EXCEPT !.buffer =
                          [i \in 0 .. BUFFER_SIZE - 1 |-> IF i < Wanted THEN read[i + 1]
                                                          ELSE Filled(Received)[i]]]
         /\ Reply(<<Data(read), Command("ACK")>>)
  /\ UNCHANGED flash

\* loop has no case for other commands, and sends nothing.
Ignore ==
  /\ Handles("unknown") \/ Handles("ACK")
  /\ Reply(<<>>) /\ UNCHANGED <<arduino, flash>>

\* A command, with its data if it has any.
Understood ==
  /\ Head(toArduino).type = "command"
  /\ Head(toArduino).code \in WithData => Brought /\ ~ Overruns

\* exit blinks for ever.  So does, here, an Arduino that has overrun its buffer.
Die ==
  /\ arduino.alive /\ toArduino # <<>> /\ ~ Understood
  /\ arduino' = [arduino EXCEPT !.alive = FALSE,
                   !.overrun = Head(toArduino).code \in WithData /\ Brought]
  /\ UNCHANGED <<file, at, waiting, count, silent, toArduino, toHost, flash, damages>>

-----------------------------------------------------------------------------
\* What one damaged byte makes of a frame.  A length that is too small may end
\* the data where the next bytes are their checksum, in a block and in the size
\* of one (the addresses that are sent, and the reply to GET_INFO, have no such
\* end).  Every other damage to data is taken to be found by the checksum, which
\* one in 65536 is not.
Damaged(frame) ==
  {Rejected}
  \cup (IF frame.type = "command" THEN {Command(c) : c \in Commands \ {frame.code}} ELSE {})
  \cup (IF frame.type = "data" /\ at \in {"write_buffer", "read"}
        THEN {Cut(SubSeq(frame.data, 1, n)) : n \in 0 .. Len(frame.data) - 1} ELSE {})

\* A length that is one or two too large makes data of the checksum: what the
\* Arduino then misses of it are zeroes once readBytes is out of time, and they
\* are right.  (The host has no such time, and does not accept more than there is.)
Overlong(frame) ==
  IF frame.type = "data"
  THEN {Data(frame.data \o more) : more \in {<<b>> : b \in Bytes} \cup (Bytes \X Bytes)} ELSE {}

DamageToArduino ==
  /\ damages < DAMAGES /\ damages' = damages + 1
  /\ \E i \in DOMAIN toArduino : \E bad \in Damaged(toArduino[i]) \cup Overlong(toArduino[i]) :
       toArduino' = [toArduino EXCEPT ![i] = bad]
  /\ UNCHANGED <<file, at, waiting, count, silent, toHost, arduino, flash>>

DamageToHost ==
  /\ damages < DAMAGES /\ damages' = damages + 1
  /\ \E i \in DOMAIN toHost : \E bad \in Damaged(toHost[i]) :
       toHost' = [toHost EXCEPT ![i] = bad]
  /\ UNCHANGED <<file, at, waiting, count, silent, toArduino, arduino, flash>>

Host == Send \/ ReceiveAck \/ ReceiveInfo \/ ReceiveBlock \/ Exit \/ EndOfFile \/ Answer

Arduino == \/ GetInfo \/ SetWriteAddr \/ SetWriteBuffer \/ SetReadAddr \/ EnableDma
           \/ EraseChip \/ StartWrite \/ StartRead \/ Ignore \/ Die

Next == Host \/ Arduino \/ DamageToArduino \/ DamageToHost

\* Both programs run on; the host's user answers.
Spec == Init /\ [][Next]_vars /\ WF_vars(Host) /\ WF_vars(Arduino)

-----------------------------------------------------------------------------
HoldsFile == \A i \in 1 .. Len(file) : flash[i - 1] = file[i]

\* If nothing was damaged the chip holds the file and the host has nothing to
\* complain of; if one byte was damaged, anywhere, without the Arduino writing
\* behind its buffer, and the host verifies the file without a complaint, the
\* chip holds the file, too.  (Two damages are too many: the last block is
\* neither written nor read if SET_WRITE_BUFFER and SET_READ_ADDR both become
\* SET_WRITE_ADDR, and a block like it is read.)
ChipHoldsFile ==
  /\ damages = 0 => silent /\ (at \in {"verified", "unverified"} => HoldsFile)
  /\ damages <= 1 /\ ~ arduino.overrun /\ at = "verified" /\ silent => HoldsFile

\* The host comes to its end if nothing is damaged, whatever the file.
HostEnds == <>(at \in {"verified", "unverified"} \/ damages > 0)
=============================================================================
