--------------------------- MODULE EmsNodeProofs ---------------------------
(***************************************************************************)
(* What the parts of one node that serve the others do, whatever their     *)
(* sizes: what the interrupt and the main loop of interface.c may do to    *)
(* the ring of command buffers, for any number and size of buffers and     *)
(* wherever the interrupt comes; what the main loop (ems.c) does with its  *)
(* timers, for event queues of any size; and that the table of rids keeps  *)
(* its promise, for any table and any two parts of a rid.                  *)
(***************************************************************************)
EXTENDS EmsInterface, EmsLoop, EmsPackage, FiniteSetTheorems, TLAPS

\* A number modulo CMD_QTY is the number of a buffer.
LEMMA SlotType ==
  ASSUME NEW n \in Nat
  PROVE  n % CMD_QTY \in Slots
BY InterfaceAssumption, SMTT(60) DEF Slots

\* The line being typed has a buffer.
LEMMA TypingType ==
  ASSUME TypeOK
  PROVE  Typing \in Slots
<1>1. cmd_next + cmd_qty \in Nat
  BY InterfaceAssumption DEF TypeOK, Slots
<1> QED
  BY <1>1, SlotType DEF Typing

\* Between one and CMD_QTY - 1 steps ahead of a slot lies another slot.
LEMMA AheadIsElsewhere ==
  ASSUME NEW s \in Slots, NEW n \in 1 .. CMD_QTY - 1
  PROVE  (s + n) % CMD_QTY # s
<1>1. (s + n) % CMD_QTY = IF s + n < CMD_QTY THEN s + n ELSE s + n - CMD_QTY
  BY InterfaceAssumption, SMTT(60) DEF Slots
<1> QED
  BY <1>1, InterfaceAssumption DEF Slots

\* The histories count the complete commands until a write hits an exposed
\* state; nothing was typed before the resets are over.
Counted ==
  ~ hit => /\ pc \in Releasing => cmd_qty = Len(lines) + 1
           /\ pc \notin Releasing => cmd_qty = Len(lines)
           /\ pc \in Resetting => Len(lines) = 0 /\ cmd_pt = 0
           /\ Len(line) = cmd_pt
           /\ pc = "store" => loaded = cmd_qty

\* The inductive invariant.
IInv == TypeOK /\ Counted /\ ReleaseNeverUnderflows /\ BuffersAreTerminated

\* The ring as the linker leaves it satisfies the invariant.
LEMMA InitHolds == Init => IInv
<1> SUFFICES ASSUME Init PROVE IInv
  OBVIOUS
<1>6. cmd_buffer = [s \in Slots |-> [p \in Positions |-> NUL]]
  BY Zenon DEF Init
<1>1. /\ cmd_next = 0 /\ cmd_qty = 0 /\ cmd_pt = 0 /\ loaded = 0
      /\ pc = "resetNext"
  BY Zenon DEF Init
<1>7. lines \in Seq(Seq(Char)) /\ Len(lines) = 0
  <2>1. lines = <<>>
    BY Zenon DEF Init
  <2> QED
    BY <2>1
<1>8. line \in Seq(Char) /\ Len(line) = 0
  <2>1. line = <<>>
    BY Zenon DEF Init
  <2> QED
    BY <2>1
<1>2. hit \in BOOLEAN
  BY Zenon DEF Init
<1>3. TypeOK
  <2>1. cmd_buffer \in [Slots -> [Positions -> Char \cup {NUL}]]
    BY <1>6
  <2>2. cmd_next \in Slots /\ cmd_qty \in 0 .. CMD_QTY /\ cmd_pt \in 0 .. CMD_SIZE
        /\ loaded \in 0 .. CMD_QTY
    BY <1>1, InterfaceAssumption DEF Slots
  <2>3. pc \in Places
    BY <1>1 DEF Places, Resetting
  <2> QED
    BY <1>2, <1>7, <1>8, <2>1, <2>2, <2>3 DEF TypeOK
<1>4. Counted /\ ReleaseNeverUnderflows
  <2>1. pc \notin Releasing
    BY <1>1 DEF Releasing
  <2>2. pc # "store" /\ pc # "load" /\ pc # "execute"
    BY <1>1
  <2>3. Counted
    <3>1. cmd_qty = Len(lines)
      BY <1>1, <1>7
    <3>2. Len(line) = cmd_pt /\ cmd_pt = 0 /\ Len(lines) = 0
      BY <1>1, <1>7, <1>8
    <3> QED
      BY <3>1, <3>2, <2>1, <2>2, Zenon DEF Counted
  <2>4. ReleaseNeverUnderflows
    BY <2>2 DEF ReleaseNeverUnderflows
  <2> QED
    BY <2>3, <2>4
<1>5. BuffersAreTerminated
  BY <1>6, InterfaceAssumption DEF BuffersAreTerminated, Positions
<1> QED
  BY <1>3, <1>4, <1>5 DEF IInv

\* The histories keep their types.
LEMMA WitnessType ==
  ASSUME IInv, NEW newLines \in Seq(Seq(Char)), NEW newLine \in Seq(Char),
         Witness(newLines, newLine)
  PROVE  /\ hit' \in BOOLEAN /\ lines' \in Seq(Seq(Char)) /\ line' \in Seq(Char)
         /\ ~ hit' => ~ hit /\ ~ Exposed /\ lines' = newLines /\ line' = newLine
<1>1. hit' = (hit \/ Exposed)
  BY Zenon DEF Witness
<1>2. hit' \in BOOLEAN /\ (~ hit' => ~ hit /\ ~ Exposed)
  BY <1>1, Zenon
<1>3. lines' = (IF hit' THEN <<>> ELSE newLines) /\ line' = (IF hit' THEN <<>> ELSE newLine)
  BY Zenon DEF Witness
<1> QED
  BY <1>2, <1>3

\* A character typed keeps the invariant (process_char).
LEMMA LetterKeeps ==
  ASSUME IInv, NEW x \in Char, Letter(x)
  PROVE  IInv'
<1>1. Typing \in Slots
  BY TypingType DEF IInv
<1>2. Append(line, x) \in Seq(Char) /\ Len(Append(line, x)) = Len(line) + 1
  BY DEF IInv, TypeOK
<1>3. /\ hit' \in BOOLEAN /\ lines' \in Seq(Seq(Char)) /\ line' \in Seq(Char)
      /\ ~ hit' => ~ hit /\ ~ Exposed /\ lines' = lines /\ line' = Append(line, x)
  BY <1>2, WitnessType DEF Letter, IInv, TypeOK
<1>4. cmd_buffer' \in [Slots -> [Positions -> Char \cup {NUL}]]
  BY <1>1 DEF IInv, TypeOK, Letter
<1>5. TypeOK'
  BY <1>3, <1>4, InterfaceAssumption DEF IInv, TypeOK, Letter, Full
<1>6. Counted'
  BY <1>2, <1>3 DEF IInv, TypeOK, Counted, Letter, Exposed
<1>7. ReleaseNeverUnderflows'
  BY DEF IInv, ReleaseNeverUnderflows, Letter
<1>8. BuffersAreTerminated'
  BY <1>1, InterfaceAssumption DEF IInv, TypeOK, BuffersAreTerminated, Letter, Positions
<1> QED
  BY <1>5, <1>6, <1>7, <1>8 DEF IInv

\* A backspace keeps the invariant (process_char).
LEMMA BackspaceKeeps ==
  ASSUME IInv, Backspace
  PROVE  IInv'
<1> DEFINE shorter == SubSeq(line, 1, Len(line) - 1)
<1>1. Typing \in Slots
  BY TypingType DEF IInv
<1>2. shorter \in Seq(Char)
  BY DEF IInv, TypeOK
<1>3. ~ hit => Len(shorter) = Len(line) - 1
  BY DEF IInv, TypeOK, Counted, Backspace
<1>4. /\ hit' \in BOOLEAN /\ lines' \in Seq(Seq(Char)) /\ line' \in Seq(Char)
      /\ ~ hit' => ~ hit /\ ~ Exposed /\ lines' = lines /\ line' = shorter
  BY <1>2, WitnessType DEF Backspace, IInv, TypeOK
<1>5. cmd_buffer' \in [Slots -> [Positions -> Char \cup {NUL}]]
  BY <1>1 DEF IInv, TypeOK, Backspace
<1>6. TypeOK'
  BY <1>4, <1>5, InterfaceAssumption DEF IInv, TypeOK, Backspace, Full
<1>7. Counted'
  <2> HIDE DEF shorter
  <2> QED
    BY <1>3, <1>4 DEF IInv, TypeOK, Counted, Backspace, Exposed
<1>8. ReleaseNeverUnderflows'
  BY DEF IInv, ReleaseNeverUnderflows, Backspace
<1>9. BuffersAreTerminated'
  BY <1>1, InterfaceAssumption DEF IInv, TypeOK, BuffersAreTerminated, Backspace, Positions
<1> QED
  BY <1>6, <1>7, <1>8, <1>9 DEF IInv

\* A newline keeps the invariant (process_char).
LEMMA NewlineKeeps ==
  ASSUME IInv, Newline
  PROVE  IInv'
<1>1. Typing \in Slots
  BY TypingType DEF IInv
<1>2. /\ Append(lines, line) \in Seq(Seq(Char))
      /\ Len(Append(lines, line)) = Len(lines) + 1
      /\ <<>> \in Seq(Char) /\ Len(<<>>) = 0
  BY DEF IInv, TypeOK
<1>3. /\ hit' \in BOOLEAN /\ lines' \in Seq(Seq(Char)) /\ line' \in Seq(Char)
      /\ ~ hit' => ~ hit /\ ~ Exposed /\ lines' = Append(lines, line) /\ line' = <<>>
  BY <1>2, WitnessType DEF Newline, IInv, TypeOK
<1>4. cmd_buffer' \in [Slots -> [Positions -> Char \cup {NUL}]]
  BY <1>1 DEF IInv, TypeOK, Newline
<1>5. TypeOK'
  BY <1>3, <1>4, InterfaceAssumption DEF IInv, TypeOK, Newline, Full
<1>6. Counted'
  <2>1. ~ hit' => Len(lines') = Len(lines) + 1 /\ Len(line') = 0
    BY <1>2, <1>3
  <2> QED
    BY <1>3, <2>1 DEF IInv, TypeOK, Counted, Newline, Exposed, Releasing
<1>7. ReleaseNeverUnderflows'
  BY DEF IInv, TypeOK, ReleaseNeverUnderflows, Newline
<1>8. BuffersAreTerminated'
  BY <1>1, InterfaceAssumption DEF IInv, TypeOK, BuffersAreTerminated, Newline, Positions
<1> QED
  BY <1>5, <1>6, <1>7, <1>8 DEF IInv

\* The interrupt leaves the main loop where it is.
LEMMA InterruptKeeps ==
  ASSUME IInv, process_char
  PROVE  IInv'
BY LetterKeeps, BackspaceKeeps, NewlineKeeps DEF process_char

-----------------------------------------------------------------------------
(* The steps of the main loop. *)

\* Every assignment of init_interface keeps the invariant.
LEMMA ResetKeeps ==
  ASSUME IInv, init_interface
  PROVE  IInv'
<1>1. TypeOK'
  <2>1. CASE ResetNext
    BY <2>1, InterfaceAssumption
       DEF ResetNext, IInv, TypeOK, Slots, Places, Resetting
  <2>2. CASE ResetQty
    BY <2>2, InterfaceAssumption DEF ResetQty, IInv, TypeOK, Places, Resetting
  <2>3. CASE ResetPt
    BY <2>3, InterfaceAssumption DEF ResetPt, IInv, TypeOK, Places, Resetting
  <2> QED
    BY <2>1, <2>2, <2>3 DEF init_interface
<1>2. Counted'
  BY DEF init_interface, ResetNext, ResetQty, ResetPt, IInv, TypeOK, Counted,
         Resetting, Releasing
<1>3. ReleaseNeverUnderflows'
  BY DEF init_interface, ResetNext, ResetQty, ResetPt, ReleaseNeverUnderflows
<1>4. BuffersAreTerminated'
  BY DEF init_interface, ResetNext, ResetQty, ResetPt, IInv, BuffersAreTerminated
<1> QED
  BY <1>1, <1>2, <1>3, <1>4 DEF IInv

\* Calling execute_cmd keeps the invariant (check_interface).
LEMMA ExecuteKeeps ==
  ASSUME IInv, Execute
  PROVE  IInv'
<1>1. TypeOK'
  BY DEF Execute, cmds, IInv, TypeOK, Places
<1>2. Counted'
  BY DEF Execute, cmds, IInv, Counted, Resetting, Releasing
<1>3. ReleaseNeverUnderflows'
  BY DEF Execute, cmds, IInv, TypeOK, ReleaseNeverUnderflows
<1>4. BuffersAreTerminated'
  BY DEF Execute, cmds, IInv, BuffersAreTerminated
<1> QED
  BY <1>1, <1>2, <1>3, <1>4 DEF IInv

\* The return from execute_cmd and the step of cmd_next keep the invariant.
LEMMA AdvanceKeeps ==
  ASSUME IInv, Advance
  PROVE  IInv'
<1>1. (cmd_next + 1) % CMD_QTY \in Slots
  <2>1. cmd_next + 1 \in Nat
    BY InterfaceAssumption DEF IInv, TypeOK, Slots
  <2> QED
    BY <2>1, SlotType
<1>2. PICK cut \in SUBSET Positions :
        cmd_buffer' = [cmd_buffer EXCEPT ![cmd_next] =
                         [p \in Positions |-> IF p \in cut THEN NUL ELSE @[p]]]
  BY DEF Advance
<1>3. ~ hit => Len(lines) > 0
  BY DEF Advance, IInv, TypeOK, Counted, ReleaseNeverUnderflows, Releasing
<1>4. ~ hit => Tail(lines) \in Seq(Seq(Char)) /\ Len(Tail(lines)) = Len(lines) - 1
  BY <1>3 DEF IInv, TypeOK
<1>5. lines' \in Seq(Seq(Char)) /\ (~ hit => lines' = Tail(lines))
  BY <1>4 DEF Advance
<1>6. cmd_buffer' \in [Slots -> [Positions -> Char \cup {NUL}]]
  BY <1>2 DEF IInv, TypeOK
<1>7. TypeOK'
  BY <1>1, <1>5, <1>6 DEF Advance, IInv, TypeOK, Places, Releasing
<1>8. Counted'
  BY <1>4, <1>5 DEF Advance, IInv, TypeOK, Counted, Resetting, Releasing
<1>9. ReleaseNeverUnderflows'
  BY DEF Advance, IInv, ReleaseNeverUnderflows
<1>10. BuffersAreTerminated'
  BY <1>2, InterfaceAssumption DEF IInv, TypeOK, BuffersAreTerminated, Positions
<1> QED
  BY <1>7, <1>8, <1>9, <1>10 DEF IInv

\* Both halves of cmd_qty-- keep the invariant.
LEMMA ReleaseKeeps ==
  ASSUME IInv, LoadQty \/ StoreQty
  PROVE  IInv'
<1>1. TypeOK'
  <2>1. CASE LoadQty
    BY <2>1 DEF LoadQty, cmds, IInv, TypeOK, Places, Releasing
  <2>2. CASE StoreQty
    <3>1. loaded - 1 \in 0 .. CMD_QTY
      BY <2>2, InterfaceAssumption DEF StoreQty, IInv, TypeOK, ReleaseNeverUnderflows
    <3>2. 0 \in 0 .. CMD_QTY
      BY InterfaceAssumption
    <3> QED
      BY <2>2, <3>1, <3>2 DEF StoreQty, IInv, TypeOK, Places
  <2> QED
    BY <2>1, <2>2
<1>2. Counted'
  <2>1. CASE LoadQty
    BY <2>1 DEF LoadQty, cmds, IInv, TypeOK, Counted, Resetting, Releasing
  <2>2. CASE StoreQty
    BY <2>2 DEF StoreQty, IInv, TypeOK, Counted, Resetting, Releasing
  <2> QED
    BY <2>1, <2>2
<1>3. ReleaseNeverUnderflows'
  BY DEF LoadQty, StoreQty, cmds, IInv, TypeOK, ReleaseNeverUnderflows
<1>4. BuffersAreTerminated'
  BY DEF LoadQty, StoreQty, cmds, IInv, BuffersAreTerminated
<1> QED
  BY <1>1, <1>2, <1>3, <1>4 DEF IInv

\* So every step keeps it.
LEMMA StepKeeps == IInv /\ [Next]_vars => IInv'
<1> SUFFICES ASSUME IInv, [Next]_vars PROVE IInv'
  OBVIOUS
<1>1. CASE UNCHANGED vars
  BY <1>1 DEF vars, IInv, TypeOK, Counted, ReleaseNeverUnderflows, BuffersAreTerminated
<1>2. CASE Next
  BY <1>2, InterruptKeeps, ResetKeeps, ExecuteKeeps, AdvanceKeeps, ReleaseKeeps
     DEF Next, check_interface
<1> QED
  BY <1>1, <1>2

-----------------------------------------------------------------------------
THEOREM Invariant == Spec => []IInv
BY InitHolds, StepKeeps, PTL DEF Spec

\* The variables of interface.c stay in their ranges, for a ring of any size.
THEOREM TypeCorrect == Spec => []TypeOK
BY Invariant, PTL DEF IInv

\* Wherever the interrupt comes, every buffer ends in a terminator.
THEOREM Terminated == Spec => []BuffersAreTerminated
BY Invariant, PTL DEF IInv

\* Wherever the interrupt comes, cmd_qty-- never wraps below zero.
THEOREM NoUnderflow == Spec => []ReleaseNeverUnderflows
BY Invariant, PTL DEF IInv

\* The buffer handed to execute_cmd is never the buffer being typed into.
LEMMA TypingIsElsewhere ==
  ASSUME IInv, pc = "execute", ~ Full
  PROVE  Typing # cmd_next
<1>1. cmd_qty \in 1 .. CMD_QTY - 1
  BY InterfaceAssumption DEF IInv, TypeOK, ReleaseNeverUnderflows, Full
<1> QED
  BY <1>1, AheadIsElsewhere DEF IInv, TypeOK, Typing

\* The command being executed is not written to by the interrupt, for any
\* number of buffers and even after a race lost a command.
THEOREM ExecutionIsStable == Spec => ExecutingBufferIsStable
<1> DEFINE Stable == pc = "execute" => \/ cmd_buffer'[cmd_next] = cmd_buffer[cmd_next]
                                       \/ pc' = "load"
<1>1. IInv /\ [Next]_vars => [Stable]_vars
  <2> SUFFICES ASSUME IInv, Next, pc = "execute"
               PROVE  cmd_buffer'[cmd_next] = cmd_buffer[cmd_next] \/ pc' = "load"
    BY DEF vars
  <2>1. CASE process_char
    <3>1. ~ Full
      BY <2>1 DEF process_char, Letter, Backspace, Newline
    <3>2. Typing # cmd_next
      BY <3>1, TypingIsElsewhere
    <3> QED
      BY <2>1, <3>2 DEF process_char, Letter, Backspace, Newline, IInv, TypeOK
  <2>2. CASE init_interface \/ check_interface
    BY <2>2 DEF init_interface, check_interface, ResetNext, ResetQty, ResetPt,
                Execute, Advance, LoadQty, StoreQty
  <2> QED
    BY <2>1, <2>2 DEF Next
<1> QED
  BY <1>1, Invariant, PTL DEF Spec, ExecutingBufferIsStable
-----------------------------------------------------------------------------
(* The ring holds the lines typed. *)

\* The buffer n steps ahead of buffer s.
Slot(s, n) == (s + n) % CMD_QTY

LEMMA SlotIs ==
  ASSUME NEW s \in Slots, NEW n \in 0 .. CMD_QTY
  PROVE  /\ Slot(s, n) = IF s + n < CMD_QTY THEN s + n ELSE s + n - CMD_QTY
         /\ Slot(s, n) \in Slots
<1>1. Slot(s, n) = IF s + n < CMD_QTY THEN s + n ELSE s + n - CMD_QTY
  BY InterfaceAssumption, SMTT(60) DEF Slots, Slot
<1> QED
  BY <1>1, InterfaceAssumption DEF Slots

\* Buffers less than a whole round apart are different ones.
LEMMA SlotsDiffer ==
  ASSUME NEW s \in Slots, NEW m \in 0 .. CMD_QTY, NEW n \in 0 .. CMD_QTY,
         m < n, n - m < CMD_QTY
  PROVE  Slot(s, m) # Slot(s, n)
<1>1. /\ Slot(s, m) = IF s + m < CMD_QTY THEN s + m ELSE s + m - CMD_QTY
      /\ Slot(s, n) = IF s + n < CMD_QTY THEN s + n ELSE s + n - CMD_QTY
  BY SlotIs
<1> QED
  BY <1>1, InterfaceAssumption DEF Slots

\* What is n steps ahead of the next buffer is one step further from this one.
LEMMA SlotNext ==
  ASSUME NEW s \in Slots, NEW n \in 0 .. CMD_QTY - 1
  PROVE  Slot((s + 1) % CMD_QTY, n) = Slot(s, n + 1)
<1>0. 1 \in 0 .. CMD_QTY /\ n \in 0 .. CMD_QTY /\ n + 1 \in 0 .. CMD_QTY
  BY InterfaceAssumption
<1>1. /\ Slot(s, 1) = IF s + 1 < CMD_QTY THEN s + 1 ELSE s + 1 - CMD_QTY
      /\ Slot(s, 1) \in Slots
  BY <1>0, SlotIs
<1>2. (s + 1) % CMD_QTY = Slot(s, 1)
  BY DEF Slot
<1> DEFINE t == Slot(s, 1)
<1> HIDE DEF t
<1>3. t \in Slots /\ t = IF s + 1 < CMD_QTY THEN s + 1 ELSE s + 1 - CMD_QTY
  BY <1>1 DEF t
<1>4. Slot(t, n) = IF t + n < CMD_QTY THEN t + n ELSE t + n - CMD_QTY
  BY <1>0, <1>3, SlotIs
<1>5. Slot(s, n + 1) = IF s + (n + 1) < CMD_QTY THEN s + (n + 1) ELSE s + (n + 1) - CMD_QTY
  BY <1>0, SlotIs
<1>6. Slot(t, n) = Slot(s, n + 1)
  BY <1>3, <1>4, <1>5, InterfaceAssumption DEF Slots
<1> QED
  BY <1>2, <1>6 DEF t

\* The buffer begins with the text and its terminator.
Holding(buffer, text) ==
  /\ Len(text) \in Positions
  /\ buffer[Len(text)] = NUL
  /\ \A k \in 1 .. Len(text) : buffer[k - 1] = text[k]

\* Then the text is the command the buffer holds.
LEMMA HoldingIsText ==
  ASSUME NEW buffer, NEW text \in Seq(Char), Holding(buffer, text)
  PROVE  Text(buffer) = text
<1> DEFINE ends == {p \in Positions : buffer[p] = NUL}
           end == CHOOSE p \in ends : \A q \in ends : p <= q
<1>1. Len(text) \in ends /\ Len(text) \in Nat
  BY DEF Holding
<1>2. ASSUME NEW q \in ends PROVE Len(text) <= q
  <2>1. q \in Nat /\ buffer[q] = NUL
    BY InterfaceAssumption DEF Positions
  <2>2. q + 1 \in 1 .. Len(text) => buffer[(q + 1) - 1] = text[q + 1] /\ text[q + 1] \in Char
    BY DEF Holding
  <2>3. (q + 1) - 1 = q
    BY <2>1
  <2>4. ~ (q + 1 \in 1 .. Len(text))
    BY <2>1, <2>2, <2>3, InterfaceAssumption
  <2> QED
    BY <1>1, <2>1, <2>4
<1>3. \A p \in ends : (\A q \in ends : p <= q) => p = Len(text)
  <2>1. \A p \in ends : p \in Nat
    BY InterfaceAssumption DEF Positions
  <2> HIDE DEF ends
  <2> QED
    BY <1>1, <1>2, <2>1
<1>4. end = Len(text)
  <2>1. \E p \in ends : \A q \in ends : p <= q
    BY <1>1, <1>2
  <2> HIDE DEF ends
  <2>2. end \in ends /\ \A q \in ends : end <= q
    BY <2>1
  <2> HIDE DEF end
  <2> QED
    BY <1>3, <2>2
<1>5. Text(buffer) = [k \in 1 .. end |-> buffer[k - 1]]
  BY DEF Text
<1> HIDE DEF ends, end
<1>6. Text(buffer) = [k \in 1 .. Len(text) |-> text[k]]
  BY <1>4, <1>5 DEF Holding
<1> QED
  BY <1>6

\* What the ring holds; when it is full, nothing has been typed since.
Held ==
  /\ Full => cmd_pt = 0
  /\ ~ hit => /\ \A i \in 1 .. Len(lines) :
                   Holding(cmd_buffer[Slot(cmd_next, i - 1)], lines[i])
              /\ \A k \in 1 .. cmd_pt :
                   cmd_buffer[Slot(cmd_next, Len(lines))][k - 1] = line[k]

\* The interrupt writes to the buffer behind the complete lines, and to none
\* of theirs.
LEMMA TypingIsBehind ==
  ASSUME IInv, ~ hit, ~ Exposed, ~ Full
  PROVE  /\ Typing = Slot(cmd_next, Len(lines)) /\ Typing \in Slots
         /\ Len(lines) \in 0 .. CMD_QTY - 1
         /\ \A i \in 1 .. Len(lines) : Slot(cmd_next, i - 1) # Typing /\ Slot(cmd_next, i - 1) \in Slots
<1>1. cmd_qty = Len(lines) /\ cmd_qty \in 0 .. CMD_QTY - 1 /\ cmd_next \in Slots
  BY InterfaceAssumption DEF IInv, TypeOK, Counted, Exposed, Full
<1>2. Typing = Slot(cmd_next, Len(lines))
  BY <1>1 DEF Typing, Slot
<1>3. ASSUME NEW i \in 1 .. Len(lines)
      PROVE  Slot(cmd_next, i - 1) # Typing /\ Slot(cmd_next, i - 1) \in Slots
  <2>1. /\ i - 1 \in 0 .. CMD_QTY /\ Len(lines) \in 0 .. CMD_QTY
        /\ i - 1 < Len(lines) /\ Len(lines) - (i - 1) < CMD_QTY
    BY <1>1, InterfaceAssumption
  <2> QED
    BY <1>1, <1>2, <2>1, SlotIs, SlotsDiffer
<1> QED
  BY <1>1, <1>2, <1>3, TypingType DEF IInv

LEMMA HeldInit == Init => Held
<1> SUFFICES ASSUME Init PROVE Held
  OBVIOUS
<1>1. cmd_pt = 0 /\ lines = <<>>
  BY Zenon DEF Init
<1>2. 1 .. cmd_pt = {} /\ 1 .. Len(lines) = {}
  BY <1>1
<1> QED
  BY <1>1, <1>2, Zenon DEF Held

\* A character is added to the line being typed (process_char).
LEMMA HeldLetter ==
  ASSUME IInv, Held, NEW x \in Char, Letter(x)
  PROVE  Held'
<1>1. /\ ~ Full /\ cmd_pt < CMD_SIZE /\ cmd_pt' = cmd_pt + 1
      /\ cmd_buffer' = [cmd_buffer EXCEPT ![Typing][cmd_pt] = x]
      /\ cmd_next' = cmd_next /\ cmd_qty' = cmd_qty /\ Witness(lines, Append(line, x))
  BY DEF Letter
<1>2. Full' => cmd_pt' = 0
  BY <1>1 DEF Full
<1>3. ASSUME ~ hit'
      PROVE  /\ \A i \in 1 .. Len(lines') :
                  Holding(cmd_buffer'[Slot(cmd_next', i - 1)], lines'[i])
             /\ \A k \in 1 .. cmd_pt' :
                  cmd_buffer'[Slot(cmd_next', Len(lines'))][k - 1] = line'[k]
  <2>1. Append(line, x) \in Seq(Char) /\ lines \in Seq(Seq(Char))
    BY DEF IInv, TypeOK
  <2>2. ~ hit /\ ~ Exposed /\ lines' = lines /\ line' = Append(line, x)
    BY <1>1, <1>3, <2>1, WitnessType
  <2>3. /\ Typing = Slot(cmd_next, Len(lines)) /\ Typing \in Slots
        /\ \A i \in 1 .. Len(lines) :
             Slot(cmd_next, i - 1) # Typing /\ Slot(cmd_next, i - 1) \in Slots
    BY <1>1, <2>2, TypingIsBehind
  <2>4. /\ line \in Seq(Char) /\ Len(line) = cmd_pt /\ cmd_pt \in Nat
        /\ cmd_pt \in Positions
        /\ cmd_buffer \in [Slots -> [Positions -> Char \cup {NUL}]]
    BY <2>2, InterfaceAssumption DEF IInv, TypeOK, Counted, Positions
  <2>5. \A i \in 1 .. Len(lines) : Holding(cmd_buffer'[Slot(cmd_next', i - 1)], lines'[i])
    <3>1. ASSUME NEW i \in 1 .. Len(lines)
          PROVE  cmd_buffer'[Slot(cmd_next, i - 1)] = cmd_buffer[Slot(cmd_next, i - 1)]
      BY <1>1, <2>3, <2>4
    <3> QED
      BY <1>1, <2>2, <3>1 DEF Held
  <2>6. \A p \in Positions :
          cmd_buffer'[Typing][p] = IF p = cmd_pt THEN x ELSE cmd_buffer[Typing][p]
    BY <1>1, <2>3, <2>4
  <2>7. ASSUME NEW k \in 1 .. cmd_pt + 1
        PROVE  cmd_buffer'[Typing][k - 1] = Append(line, x)[k]
    <3>1. CASE k = cmd_pt + 1
      <4>1. k - 1 = cmd_pt /\ Append(line, x)[k] = x
        BY <2>4, <3>1
      <4> QED
        BY <2>4, <2>6, <4>1
    <3>2. CASE k # cmd_pt + 1
      <4>1. k \in 1 .. cmd_pt /\ k - 1 # cmd_pt /\ k - 1 \in Positions
        BY <2>4, <3>2, InterfaceAssumption DEF Positions
      <4>2. Append(line, x)[k] = line[k]
        BY <2>4, <4>1
      <4>3. cmd_buffer[Typing][k - 1] = line[k]
        BY <2>2, <2>3, <4>1 DEF Held
      <4> QED
        BY <2>6, <4>1, <4>2, <4>3
    <3> QED
      BY <3>1, <3>2
  <2> QED
    BY <1>1, <2>2, <2>3, <2>5, <2>7
<1> QED
  BY <1>2, <1>3 DEF Held

\* A character is taken from the line being typed (process_char).
LEMMA HeldBackspace ==
  ASSUME IInv, Held, Backspace
  PROVE  Held'
<1> DEFINE shorter == SubSeq(line, 1, Len(line) - 1)
<1>1. /\ ~ Full /\ cmd_pt > 0 /\ cmd_pt' = cmd_pt - 1
      /\ cmd_buffer' = [cmd_buffer EXCEPT ![Typing][cmd_pt - 1] = NUL]
      /\ cmd_next' = cmd_next /\ cmd_qty' = cmd_qty /\ Witness(lines, shorter)
  BY DEF Backspace
<1>2. Full' => cmd_pt' = 0
  BY <1>1 DEF Full
<1>3. ASSUME ~ hit'
      PROVE  /\ \A i \in 1 .. Len(lines') :
                  Holding(cmd_buffer'[Slot(cmd_next', i - 1)], lines'[i])
             /\ \A k \in 1 .. cmd_pt' :
                  cmd_buffer'[Slot(cmd_next', Len(lines'))][k - 1] = line'[k]
  <2>1. shorter \in Seq(Char) /\ lines \in Seq(Seq(Char))
    BY DEF IInv, TypeOK
  <2> HIDE DEF shorter
  <2>2. ~ hit /\ ~ Exposed /\ lines' = lines /\ line' = shorter
    BY <1>1, <1>3, <2>1, WitnessType
  <2>3. /\ Typing = Slot(cmd_next, Len(lines)) /\ Typing \in Slots
        /\ \A i \in 1 .. Len(lines) :
             Slot(cmd_next, i - 1) # Typing /\ Slot(cmd_next, i - 1) \in Slots
    BY <1>1, <2>2, TypingIsBehind
  <2>4. /\ line \in Seq(Char) /\ Len(line) = cmd_pt /\ cmd_pt \in Nat \ {0}
        /\ cmd_pt <= CMD_SIZE
        /\ cmd_buffer \in [Slots -> [Positions -> Char \cup {NUL}]]
    BY <1>1, <2>2, InterfaceAssumption DEF IInv, TypeOK, Counted
  <2>5. \A i \in 1 .. Len(lines) : Holding(cmd_buffer'[Slot(cmd_next', i - 1)], lines'[i])
    <3>1. ASSUME NEW i \in 1 .. Len(lines)
          PROVE  cmd_buffer'[Slot(cmd_next, i - 1)] = cmd_buffer[Slot(cmd_next, i - 1)]
      BY <1>1, <2>3, <2>4
    <3> QED
      BY <1>1, <2>2, <3>1 DEF Held
  <2>6. ASSUME NEW k \in 1 .. cmd_pt - 1
        PROVE  cmd_buffer'[Typing][k - 1] = shorter[k]
    <3>1. k \in 1 .. cmd_pt /\ k - 1 # cmd_pt - 1 /\ k - 1 \in Positions
      BY <2>4, InterfaceAssumption DEF Positions
    <3>2. cmd_buffer'[Typing][k - 1] = cmd_buffer[Typing][k - 1]
      BY <1>1, <2>3, <2>4, <3>1
    <3>3. shorter[k] = line[k]
      BY <2>4 DEF shorter
    <3> QED
      BY <2>2, <2>3, <3>1, <3>2, <3>3 DEF Held
  <2> QED
    BY <1>1, <2>2, <2>3, <2>5, <2>6
<1> QED
  BY <1>2, <1>3 DEF Held

\* The line being typed is completed (process_char).
LEMMA HeldNewline ==
  ASSUME IInv, Held, Newline
  PROVE  Held'
<1>1. /\ ~ Full /\ cmd_pt' = 0
      /\ cmd_buffer' = [cmd_buffer EXCEPT ![Typing][cmd_pt] = NUL]
      /\ cmd_next' = cmd_next /\ Witness(Append(lines, line), <<>>)
  BY DEF Newline
<1>2. 1 .. cmd_pt' = {}
  BY <1>1
<1>3. ASSUME ~ hit'
      PROVE  \A i \in 1 .. Len(lines') :
               Holding(cmd_buffer'[Slot(cmd_next', i - 1)], lines'[i])
  <2>1. line \in Seq(Char) /\ lines \in Seq(Seq(Char)) /\ <<>> \in Seq(Char)
    BY DEF IInv, TypeOK
  <2>2. Append(lines, line) \in Seq(Seq(Char))
    BY <2>1
  <2>3. ~ hit /\ ~ Exposed /\ lines' = Append(lines, line)
    BY <1>1, <1>3, <2>1, <2>2, WitnessType
  <2>4. /\ Typing = Slot(cmd_next, Len(lines)) /\ Typing \in Slots
        /\ \A i \in 1 .. Len(lines) :
             Slot(cmd_next, i - 1) # Typing /\ Slot(cmd_next, i - 1) \in Slots
    BY <1>1, <2>3, TypingIsBehind
  <2>5. /\ Len(line) = cmd_pt /\ cmd_pt \in Nat /\ cmd_pt \in Positions
        /\ cmd_buffer \in [Slots -> [Positions -> Char \cup {NUL}]]
    BY <2>3, InterfaceAssumption DEF IInv, TypeOK, Counted, Positions
  <2>6. ASSUME NEW i \in 1 .. Len(lines)
        PROVE  Holding(cmd_buffer'[Slot(cmd_next, i - 1)], lines[i])
    <3>1. cmd_buffer'[Slot(cmd_next, i - 1)] = cmd_buffer[Slot(cmd_next, i - 1)]
      BY <1>1, <2>4, <2>5
    <3> QED
      BY <2>3, <3>1 DEF Held
  <2>7. Holding(cmd_buffer'[Typing], line)
    <3>1. \A p \in Positions :
            cmd_buffer'[Typing][p] = IF p = cmd_pt THEN NUL ELSE cmd_buffer[Typing][p]
      BY <1>1, <2>4, <2>5
    <3>2. ASSUME NEW k \in 1 .. cmd_pt PROVE cmd_buffer'[Typing][k - 1] = line[k]
      <4>1. k - 1 \in Positions /\ k - 1 # cmd_pt
        BY <2>5, InterfaceAssumption DEF Positions
      <4>2. cmd_buffer[Typing][k - 1] = line[k]
        BY <2>3, <2>4 DEF Held
      <4> QED
        BY <3>1, <4>1, <4>2
    <3> QED
      BY <2>5, <3>1, <3>2 DEF Holding
  <2>8. ASSUME NEW i \in 1 .. Len(lines')
        PROVE  Holding(cmd_buffer'[Slot(cmd_next', i - 1)], lines'[i])
    <3>1. CASE i = Len(lines) + 1
      <4>1. lines'[i] = line /\ i - 1 = Len(lines)
        BY <2>1, <2>3, <3>1
      <4> QED
        BY <1>1, <2>4, <2>7, <4>1
    <3>2. CASE i # Len(lines) + 1
      <4>1. i \in 1 .. Len(lines) /\ lines'[i] = lines[i]
        BY <2>1, <2>3, <3>2
      <4> QED
        BY <1>1, <2>6, <4>1
    <3> QED
      BY <3>1, <3>2
  <2> QED
    BY <2>8
<1> QED
  BY <1>1, <1>2, <1>3, Zenon DEF Held

\* The oldest line is executed; the next one is the oldest then
\* (check_interface).
LEMMA HeldAdvance ==
  ASSUME IInv, Held, Advance
  PROVE  Held'
<1>1. PICK cut \in SUBSET Positions :
        cmd_buffer' = [cmd_buffer EXCEPT ![cmd_next] =
                         [p \in Positions |-> IF p \in cut THEN NUL ELSE @[p]]]
  BY DEF Advance
<1>2. /\ pc = "execute" /\ cmd_next' = (cmd_next + 1) % CMD_QTY
      /\ cmd_qty' = cmd_qty /\ cmd_pt' = cmd_pt /\ line' = line /\ (hit' <=> hit)
      /\ lines' = IF hit THEN <<>> ELSE Tail(lines)
  BY DEF Advance
<1>3. Full' => cmd_pt' = 0
  BY <1>2 DEF Held, Full
<1>4. ASSUME ~ hit
      PROVE  /\ \A i \in 1 .. Len(lines') :
                  Holding(cmd_buffer'[Slot(cmd_next', i - 1)], lines'[i])
             /\ \A k \in 1 .. cmd_pt' :
                  cmd_buffer'[Slot(cmd_next', Len(lines'))][k - 1] = line'[k]
  <2>1. /\ cmd_qty = Len(lines) /\ cmd_qty \in 1 .. CMD_QTY /\ cmd_next \in Slots
        /\ lines \in Seq(Seq(Char))
        /\ cmd_buffer \in [Slots -> [Positions -> Char \cup {NUL}]]
    BY <1>2, <1>4, InterfaceAssumption
       DEF IInv, TypeOK, Counted, ReleaseNeverUnderflows, Releasing
  <2>2. /\ lines' = Tail(lines) /\ Len(lines') = Len(lines) - 1
        /\ \A i \in 1 .. Len(lines') : lines'[i] = lines[i + 1]
    BY <1>2, <1>4, <2>1
  <2>3. cmd_next = Slot(cmd_next, 0)
    BY <2>1, SlotIs, InterfaceAssumption DEF Slots
  <2>4. ASSUME NEW n \in 1 .. CMD_QTY - 1
        PROVE  cmd_buffer'[Slot(cmd_next, n)] = cmd_buffer[Slot(cmd_next, n)]
    <3>1. 0 \in 0 .. CMD_QTY /\ n \in 0 .. CMD_QTY /\ 0 < n /\ n - 0 < CMD_QTY
      BY InterfaceAssumption
    <3>2. Slot(cmd_next, n) # cmd_next /\ Slot(cmd_next, n) \in Slots
      BY <2>1, <2>3, <3>1, SlotIs, SlotsDiffer
    <3> QED
      BY <1>1, <2>1, <3>2
  <2>5. \A n \in 0 .. CMD_QTY - 1 : Slot(cmd_next', n) = Slot(cmd_next, n + 1)
    BY <1>2, <2>1, SlotNext
  <2>6. ASSUME NEW i \in 1 .. Len(lines')
        PROVE  Holding(cmd_buffer'[Slot(cmd_next', i - 1)], lines'[i])
    <3>1. /\ i - 1 \in 0 .. CMD_QTY - 1 /\ i \in 1 .. CMD_QTY - 1
          /\ (i - 1) + 1 = i /\ (i + 1) - 1 = i /\ i + 1 \in 1 .. Len(lines)
      BY <2>1, <2>2, InterfaceAssumption
    <3>2. Slot(cmd_next', i - 1) = Slot(cmd_next, i)
      BY <2>5, <3>1
    <3>3. Holding(cmd_buffer[Slot(cmd_next, (i + 1) - 1)], lines[i + 1])
      BY <1>4, <3>1 DEF Held
    <3> QED
      BY <2>2, <2>4, <3>1, <3>2, <3>3
  <2>7. ASSUME NEW k \in 1 .. cmd_pt'
        PROVE  cmd_buffer'[Slot(cmd_next', Len(lines'))][k - 1] = line'[k]
    <3>1. cmd_qty # CMD_QTY
      <4>1. cmd_pt # 0
        BY <1>2 DEF IInv, TypeOK
      <4> QED
        BY <4>1 DEF Held, Full
    <3>2. /\ Len(lines') \in 0 .. CMD_QTY - 1 /\ Len(lines') + 1 = Len(lines)
          /\ Len(lines) \in 1 .. CMD_QTY - 1
      BY <2>1, <2>2, <3>1, InterfaceAssumption
    <3>3. Slot(cmd_next', Len(lines')) = Slot(cmd_next, Len(lines))
      BY <2>5, <3>2
    <3>4. cmd_buffer'[Slot(cmd_next', Len(lines'))] = cmd_buffer[Slot(cmd_next, Len(lines))]
      BY <2>4, <3>2, <3>3
    <3> QED
      BY <1>2, <1>4, <3>4 DEF Held
  <2> QED
    BY <2>6, <2>7
<1> QED
  BY <1>2, <1>3, <1>4 DEF Held

\* The resets find nothing typed, and the count is not part of the ring.
LEMMA HeldElse ==
  ASSUME IInv, Held, init_interface \/ Execute \/ LoadQty \/ StoreQty
  PROVE  Held'
<1>1. CASE init_interface
  <2>1. /\ pc \in Resetting /\ cmd_buffer' = cmd_buffer /\ lines' = lines /\ line' = line
        /\ (hit' <=> hit) /\ cmd_pt' \in {cmd_pt, 0} /\ cmd_qty' \in {cmd_qty, 0}
    BY <1>1 DEF init_interface, ResetNext, ResetQty, ResetPt, Resetting
  <2>2. Full' => cmd_pt' = 0
    BY <2>1, InterfaceAssumption DEF Held, Full
  <2>3. ~ hit' => 1 .. Len(lines') = {} /\ 1 .. cmd_pt' = {}
    BY <2>1 DEF IInv, Counted
  <2> QED
    BY <2>2, <2>3, Zenon DEF Held
<1>2. CASE Execute
  BY <1>2 DEF Execute, cmds, Held, Full
<1>3. CASE LoadQty
  BY <1>3 DEF LoadQty, cmds, Held, Full
<1>4. CASE StoreQty
  <2>1. ~ Full'
    BY <1>4, InterfaceAssumption DEF StoreQty, Full, IInv, TypeOK
  <2> QED
    BY <1>4, <2>1 DEF StoreQty, Held
<1> QED
  BY <1>1, <1>2, <1>3, <1>4

LEMMA HeldStep == IInv /\ Held /\ [Next]_vars => Held'
<1> SUFFICES ASSUME IInv, Held, [Next]_vars PROVE Held'
  OBVIOUS
<1>1. CASE UNCHANGED vars
  BY <1>1 DEF vars, Held, Full
<1>2. CASE Next
  BY <1>2, HeldLetter, HeldBackspace, HeldNewline, HeldAdvance, HeldElse
     DEF Next, process_char, check_interface
<1> QED
  BY <1>1, <1>2

\* As long as no interrupt wrote during a reset or a release, the ring holds
\* exactly the lines typed, whole and in order, for any number and size of
\* buffers (process_char, check_interface).
THEOREM LinesAreHeld == Spec => []BuffersHoldLines
<1>1. ASSUME IInv, Held PROVE BuffersHoldLines
  <2> SUFFICES ASSUME ~ hit
               PROVE  /\ cmd_qty = Len(lines) + (IF pc \in Releasing THEN 1 ELSE 0)
                      /\ \A i \in 1 .. Len(lines) :
                           Text(cmd_buffer[(cmd_next + i - 1) % CMD_QTY]) = lines[i]
                      /\ Len(line) = cmd_pt
                      /\ \A i \in 1 .. cmd_pt :
                           cmd_buffer[(cmd_next + Len(lines)) % CMD_QTY][i - 1] = line[i]
    BY DEF BuffersHoldLines
  <2>1. lines \in Seq(Seq(Char)) /\ cmd_next \in Nat
    BY <1>1, InterfaceAssumption DEF IInv, TypeOK, Slots
  <2>2. ASSUME NEW i \in 1 .. Len(lines)
        PROVE  Text(cmd_buffer[(cmd_next + i - 1) % CMD_QTY]) = lines[i]
    <3>1. lines[i] \in Seq(Char)
      BY <2>1
    <3>2. Holding(cmd_buffer[Slot(cmd_next, i - 1)], lines[i])
      BY <1>1 DEF Held
    <3>3. Text(cmd_buffer[Slot(cmd_next, i - 1)]) = lines[i]
      BY <3>1, <3>2, HoldingIsText
    <3>4. cmd_next + (i - 1) = cmd_next + i - 1
      BY <2>1
    <3> QED
      BY <3>3, <3>4 DEF Slot
  <2>3. cmd_qty = Len(lines) + (IF pc \in Releasing THEN 1 ELSE 0) /\ Len(line) = cmd_pt
    BY <1>1, <2>1 DEF IInv, TypeOK, Counted
  <2> QED
    BY <1>1, <2>2, <2>3 DEF Held, Slot
<1>2. Init => Held
  BY HeldInit
<1>3. IInv /\ Held /\ [Next]_vars => Held'
  BY HeldStep
<1> QED
  BY <1>1, <1>2, <1>3, Invariant, PTL DEF Spec

-----------------------------------------------------------------------------
(* The main loop.  With two timers that each have an event on its way, one *)
(* timer can be taken by the turn of the other and still finds an event    *)
(* left.                                                                   *)

LoopIInv == LoopTypeOK /\ ExpiredHasEvent

\* The set of expired timers is finite, and so is every part of it.
LEMMA TimersFinite ==
  ASSUME NEW S, S \subseteq Timers
  PROVE  IsFiniteSet(S) /\ Cardinality(S) \in Nat
<1>1. IsFiniteSet({"et1"}) /\ IsFiniteSet({"et1"} \cup {"et2"})
  BY FS_Singleton, FS_AddElement
<1>2. Timers = {"et1"} \cup {"et2"}
  BY DEF Timers
<1>3. IsFiniteSet(S)
  BY <1>1, <1>2, FS_Subset
<1> QED
  BY <1>3, FS_CardinalityType

\* What a turn does to the timers: it restarts one that has expired, if any.
LEMMA Restarted ==
  ASSUME NEW ev, expired \subseteq Timers, Body(ev)
  PROVE  /\ served' \in {"interface", "seconds", "package", "nothing"}
         /\ \/ expired = {} /\ expired' = {}
            \/ \E t \in expired : expired' = expired \ {t}
BY DEF Body, Timers

\* One timer less counts one less.
LEMMA CountAfter ==
  ASSUME NEW ev, expired \subseteq Timers, Body(ev)
  PROVE  /\ expired' \subseteq Timers
         /\ \/ Cardinality(expired) = 0 /\ Cardinality(expired') = 0
            \/ Cardinality(expired') = Cardinality(expired) - 1
<1>1. CASE expired = {} /\ expired' = {}
  BY <1>1, FS_EmptySet
<1>2. ASSUME NEW t \in expired, expired' = expired \ {t}
      PROVE  expired' \subseteq Timers /\ Cardinality(expired') = Cardinality(expired) - 1
  BY <1>2, TimersFinite, FS_RemoveElement
<1> QED
  BY <1>1, <1>2, Restarted

LEMMA LoopInitHolds == LoopInit => LoopIInv
<1> SUFFICES ASSUME LoopInit PROVE LoopIInv
  OBVIOUS
<1>1. 0 \in 0 .. NUMEVENTS
  BY LoopAssumption, SMT
<1>2. Cardinality({}) = 0
  BY FS_EmptySet
<1> QED
  BY <1>1, <1>2, SMT DEF LoopInit, LoopIInv, LoopTypeOK, ExpiredHasEvent

LEMMA LoopStepKeeps == LoopIInv /\ [LoopNext]_loopVars => LoopIInv'
<1> SUFFICES ASSUME LoopIInv, [LoopNext]_loopVars PROVE LoopIInv'
  OBVIOUS
<1> USE DEF LoopIInv
<1>1. nevents \in 0 .. NUMEVENTS /\ NUMEVENTS \in Nat /\ expired \subseteq Timers
  BY LoopAssumption DEF LoopTypeOK
<1>2. Cardinality(expired) \in Nat /\ Cardinality(expired) <= nevents
  BY <1>1, TimersFinite DEF ExpiredHasEvent
<1>3. CASE UNCHANGED loopVars
  BY <1>3 DEF loopVars, LoopTypeOK, ExpiredHasEvent
<1>4. ASSUME NEW t \in Timers, Expire(t)
      PROVE  LoopIInv'
  <2>1. /\ expired' = expired \cup {t} /\ t \notin expired /\ served' = served
        /\ nevents' = nevents + 1 /\ nevents < NUMEVENTS
    BY <1>4 DEF Expire
  <2>2. Cardinality(expired') = Cardinality(expired) + 1
    BY <1>1, <2>1, TimersFinite, FS_AddElement
  <2>3. nevents' \in 0 .. NUMEVENTS /\ Cardinality(expired') <= nevents'
    BY <1>1, <1>2, <2>1, <2>2, SMT
  <2>4. expired' \subseteq Timers
    BY <1>1, <2>1
  <2> QED
    BY <2>1, <2>3, <2>4 DEF LoopTypeOK, ExpiredHasEvent
<1>5. CASE TimerEvent
  <2>1. nevents > 0 /\ nevents' = nevents - 1 /\ Body("timer")
    BY <1>5 DEF TimerEvent
  <2>2. /\ expired' \subseteq Timers
        /\ \/ Cardinality(expired) = 0 /\ Cardinality(expired') = 0
           \/ Cardinality(expired') = Cardinality(expired) - 1
    BY <1>1, <2>1, CountAfter
  <2>3. nevents' \in 0 .. NUMEVENTS /\ Cardinality(expired') <= nevents'
    BY <1>1, <1>2, <2>1, <2>2, SMT
  <2>4. served' \in {"interface", "seconds", "package", "nothing"}
    BY <1>1, <2>1, Restarted
  <2> QED
    BY <2>2, <2>3, <2>4 DEF LoopTypeOK, ExpiredHasEvent
<1>6. CASE Datagram
  <2>1. nevents' = nevents /\ Body("tcpip")
    BY <1>6 DEF Datagram
  <2>2. /\ expired' \subseteq Timers
        /\ \/ Cardinality(expired) = 0 /\ Cardinality(expired') = 0
           \/ Cardinality(expired') = Cardinality(expired) - 1
    BY <1>1, <2>1, CountAfter
  <2>3. Cardinality(expired') <= nevents'
    BY <1>1, <1>2, <2>1, <2>2, SMT
  <2>4. served' \in {"interface", "seconds", "package", "nothing"}
    BY <1>1, <2>1, Restarted
  <2> QED
    BY <1>1, <2>1, <2>2, <2>3, <2>4 DEF LoopTypeOK, ExpiredHasEvent
<1> QED
  BY <1>3, <1>4, <1>5, <1>6 DEF LoopNext

LEMMA LoopInvariant == LoopSpec => []LoopIInv
BY LoopInitHolds, LoopStepKeeps, PTL DEF LoopSpec

\* The queue keeps within its size.
THEOREM LoopTypeCorrect == LoopSpec => []LoopTypeOK
<1>1. LoopIInv => LoopTypeOK
  BY DEF LoopIInv
<1> QED
  BY <1>1, LoopInvariant, PTL

\* No expired timer is left without an event on its way.
THEOREM LoopEventCorrect == LoopSpec => []ExpiredHasEvent
<1>1. LoopIInv => ExpiredHasEvent
  BY DEF LoopIInv
<1> QED
  BY <1>1, LoopInvariant, PTL

-----------------------------------------------------------------------------
(* The rings of rids: which slot is how old. *)

\* The slot written d registrations ago, without the remainder.
LEMMA BackCases ==
  ASSUME NEW last \in RidSlots, NEW d \in RidSlots
  PROVE  Back(last, d) = IF d <= last THEN last - d ELSE last - d + RID_QTY
BY RidAssumption, SMTT(60) DEF Back, RidSlots

\* A slot number is one again after the last registration moved on.
LEMMA NextCases ==
  ASSUME NEW last \in RidSlots
  PROVE  (last + 1) % RID_QTY = IF last + 1 < RID_QTY THEN last + 1 ELSE 0
BY RidAssumption, SMTT(60) DEF RidSlots

\* Every distance names a slot, and the ring moving on makes each entry one
\* registration older; the new entry is at distance 0.
LEMMA BackMoves ==
  ASSUME NEW last \in RidSlots, NEW d \in RidSlots,
         NEW next, next = (last + 1) % RID_QTY
  PROVE  /\ Back(last, d) \in RidSlots
         /\ next \in RidSlots
         /\ Back(next, 0) = next
         /\ d + 1 \in RidSlots => Back(next, d + 1) = Back(last, d)
         /\ d + 1 \in RidSlots => Back(last, d) # next
         /\ d + 1 \notin RidSlots => Back(last, d) = next
<1>1. 0 \in RidSlots
  BY RidAssumption DEF RidSlots
<1>2. next = IF last + 1 < RID_QTY THEN last + 1 ELSE 0
  BY NextCases
<1>3. next \in RidSlots
  BY <1>1, <1>2, RidAssumption DEF RidSlots
<1>4. Back(last, d) = IF d <= last THEN last - d ELSE last - d + RID_QTY
  BY BackCases
<1>5. Back(next, 0) = next
  BY BackCases, <1>1, <1>3 DEF RidSlots
<1>6. ASSUME d + 1 \in RidSlots
      PROVE  Back(next, d + 1) = IF d + 1 <= next THEN next - (d + 1)
                                 ELSE next - (d + 1) + RID_QTY
  BY BackCases, <1>3, <1>6
<1> QED
  BY <1>2, <1>3, <1>4, <1>5, <1>6, RidAssumption DEF RidSlots

-----------------------------------------------------------------------------
(* What exists_rid answers, under the type invariant. *)

\* The zeroed rid is a rid.
LEMMA ZeroRidType == ZeroRid \in Rids
BY RidAssumption DEF ZeroRid, Rids

\* RID_HASH names a block.
LEMMA HashType ==
  ASSUME NEW rid \in Rids
  PROVE  RidHash(rid) \in Blocks
BY RidAssumption, SMTT(60) DEF RidHash, Blocks, Rids

\* EmsOnce speaks of the same rids, blocks and packages as the table.
LEMMA OnceIsSame ==
  /\ Once!Rids = Rids
  /\ Once!ZeroRid = ZeroRid
  /\ \A rid : Once!RidHash(rid) = RidHash(rid)
  /\ \A rid, other : Once!SamePackage(rid, other) = SamePackage(rid, other)
BY DEF Once!Rids, Rids, Once!ZeroRid, ZeroRid, Once!RidHash, RidHash,
       Once!SamePackage, SamePackage

\* The type invariant without EmsOnce's names.
LEMMA TypeUnfolded ==
  ASSUME RidTypeOK
  PROVE  /\ rid_table \in [Blocks -> [RidSlots -> Rids]]
         /\ last_rid \in [Blocks -> RidSlots]
         /\ age \in [Rids -> 0 .. RID_QTY]
BY OnceIsSame DEF RidTypeOK, Once!TypeOK

\* The inductive invariant: the ages and the table tell the same story.
RidIInv == RidTypeOK /\ RingHoldsRecent /\ RingHoldsOnlyRecent

\* A rid within the window is found.
LEMMA RecentIsFound ==
  ASSUME RidIInv, NEW rid \in Rids, age[rid] < RID_QTY
  PROVE  \E i \in RidSlots : rid_table[RidHash(rid)][i] = rid
<1> DEFINE b == RidHash(rid)
<1>1. b \in Blocks
  BY HashType
<1>2. last_rid[b] \in RidSlots /\ age[rid] \in RidSlots
  BY <1>1, TypeUnfolded, RidAssumption DEF RidIInv, RidSlots
<1>3. Back(last_rid[b], age[rid]) \in RidSlots
  BY <1>2, BackMoves
<1> QED
  BY <1>3 DEF RidIInv, RingHoldsRecent

\* A rid found is within the window, or it is the zero rid.
LEMMA FoundIsRecent ==
  ASSUME RidIInv, NEW b \in Blocks, NEW i \in RidSlots
  PROVE  /\ rid_table[b][i] \in Rids
         /\ rid_table[b][i] = ZeroRid \/ age[rid_table[b][i]] < RID_QTY
BY TypeUnfolded DEF RidIInv, RingHoldsOnlyRecent

-----------------------------------------------------------------------------
(* exists_rid = 1 exactly when the rid is in its block's ring. *)

\* exists_rid tells whether the rid, or another of its package, is in the block.
LEMMA ExistsIsMembership ==
  ASSUME NEW rid
  PROVE  (exists_rid(rid) = 1) <=> (\E i \in RidSlots : rid_table[RidHash(rid)][i] = rid)
BY DEF exists_rid

\* The search of register_rid is part of the search of exists_rid.
LEMMA RoomInRing ==
  ASSUME RidTypeOK, NEW rid \in Rids, exists_rid(rid) # 1
  PROVE  ~ InRoom(rid)
<1> DEFINE b == RidHash(rid)
<1>1. b \in Blocks
  BY HashType
<1>2. last_rid[b] \in RidSlots
  BY <1>1, TypeUnfolded
<1>3. SUFFICES ASSUME NEW d \in 0 .. RID_ROOM - 1, rid_table[b][Back(last_rid[b], d)] = rid
               PROVE  FALSE
  BY DEF InRoom
<1>4. d \in RidSlots
  BY RoomAssumption, RidAssumption DEF RidSlots
<1>5. Back(last_rid[b], d) \in RidSlots
  BY <1>2, <1>4, BackMoves
<1> QED
  BY <1>3, <1>5, ExistsIsMembership

\* A registration whose rid is not in the ring keeps the invariant.
LEMMA RegisterKeeps ==
  ASSUME RidIInv, NEW rid \in Rids, exists_rid(rid) # 1,
         register_rid(rid), age' = Once!Aged(rid),
         verdict' \in Once!Verdicts
  PROVE  RidIInv'
<1> DEFINE b == RidHash(rid)
           last == last_rid[b]
           next == (last + 1) % RID_QTY
<1>1. b \in Blocks /\ last \in RidSlots
  BY HashType, TypeUnfolded DEF RidIInv
<1>2. /\ last_rid' = [last_rid EXCEPT ![b] = next]
      /\ rid_table' = [rid_table EXCEPT ![b][next] = rid]
  BY RoomInRing DEF register_rid, RidIInv
<1>3. /\ next \in RidSlots /\ 0 \in RidSlots
      /\ Back(next, 0) = next
  <2>1. 0 \in RidSlots
    BY RidAssumption DEF RidSlots
  <2> QED
    BY <1>1, <2>1, BackMoves
<1>4. \A d \in RidSlots : /\ Back(last, d) \in RidSlots
                          /\ d + 1 \in RidSlots => Back(next, d + 1) = Back(last, d)
                          /\ d + 1 \in RidSlots => Back(last, d) # next
                          /\ d + 1 \notin RidSlots => Back(last, d) = next
  BY <1>1, BackMoves
<1>5. age' = [other \in Rids |->
                IF other = rid THEN 0
                ELSE IF RidHash(other) = b /\ age[other] < RID_QTY
                     THEN age[other] + 1 ELSE age[other]]
  BY OnceIsSame DEF Once!Aged
<1>6. \A other \in Rids : age[other] \in 0 .. RID_QTY
  BY TypeUnfolded DEF RidIInv
<1>7. \A i \in RidSlots : rid_table[b][i] # rid
  BY ExistsIsMembership
<1>8. RidTypeOK'
  <2>1. age' \in [Rids -> 0 .. RID_QTY]
    BY <1>5, <1>6, RidAssumption
  <2>2. rid_table' \in [Blocks -> [RidSlots -> Rids]] /\ last_rid' \in [Blocks -> RidSlots]
    BY <1>1, <1>2, <1>3, TypeUnfolded DEF RidIInv
  <2> QED
    BY <2>1, <2>2, OnceIsSame DEF RidTypeOK, Once!TypeOK
<1>9. RingHoldsRecent'
  <2> SUFFICES ASSUME NEW other \in Rids, age'[other] < RID_QTY
               PROVE  rid_table'[RidHash(other)][Back(last_rid'[RidHash(other)], age'[other])]
                        = other
    BY DEF RingHoldsRecent, Back
  <2>1. CASE other = rid
    BY <2>1, <1>1, <1>2, <1>3, <1>5, TypeUnfolded DEF RidIInv
  <2>2. CASE other # rid /\ RidHash(other) = b
    <3>1. age[other] + 1 \in RidSlots /\ age[other] \in RidSlots /\ age'[other] = age[other] + 1
      BY <2>2, <1>5, <1>6, RidAssumption DEF RidSlots
    <3>2. age[other] < RID_QTY
      BY <3>1, RidAssumption DEF RidSlots
    <3>3. rid_table[b][Back(last, age[other])] = other
      BY <2>2, <3>2 DEF RidIInv, RingHoldsRecent
    <3>4. last_rid'[b] = next
      BY <1>1, <1>2, TypeUnfolded DEF RidIInv
    <3> QED
      BY <2>2, <3>1, <3>3, <3>4, <1>1, <1>2, <1>4, TypeUnfolded DEF RidIInv
  <2>3. CASE other # rid /\ RidHash(other) # b
    <3>1. age'[other] = age[other] /\ RidHash(other) \in Blocks
      BY <2>3, <1>5, HashType
    <3> QED
      BY <2>3, <3>1, <1>1, <1>2, TypeUnfolded DEF RidIInv, RingHoldsRecent
  <2> QED
    BY <2>1, <2>2, <2>3
<1>10. RingHoldsOnlyRecent'
  <2> SUFFICES ASSUME NEW c \in Blocks, NEW i \in RidSlots,
                      NEW it, it = rid_table'[c][i], it # ZeroRid
               PROVE  /\ RidHash(it) = c
                      /\ Back(last_rid'[c], age'[it]) = i
                      /\ age'[it] < RID_QTY
    BY DEF RingHoldsOnlyRecent, Back
  <2>1. CASE c = b /\ i = next
    BY <2>1, <1>1, <1>2, <1>3, <1>5, TypeUnfolded, RidAssumption DEF RidIInv
  <2>2. CASE c # b \/ i # next
    <3>1. it = rid_table[c][i] /\ it \in Rids
      BY <2>2, <1>1, <1>2, TypeUnfolded DEF RidIInv
    <3>2. RidHash(it) = c /\ Back(last_rid[c], age[it]) = i /\ age[it] < RID_QTY
      BY <3>1 DEF RidIInv, RingHoldsOnlyRecent
    <3>3. CASE c # b
      <4>1. it # rid /\ age'[it] = age[it] /\ last_rid'[c] = last_rid[c]
        BY <3>1, <3>2, <3>3, <1>1, <1>2, <1>5, TypeUnfolded DEF RidIInv
      <4> QED
        BY <3>2, <4>1
    <3>4. CASE c = b
      <4>1. i # next /\ it # rid
        BY <2>2, <3>1, <3>4, <1>7
      <4>2. age[it] \in RidSlots
        BY <3>1, <3>2, <1>6, RidAssumption DEF RidSlots
      <4>3. age[it] + 1 \in RidSlots
        BY <3>2, <3>4, <4>1, <4>2, <1>4
      <4>4. age'[it] = age[it] + 1 /\ last_rid'[c] = next
        BY <3>1, <3>2, <3>4, <4>1, <1>1, <1>2, <1>5, TypeUnfolded DEF RidIInv
      <4> QED
        BY <3>2, <3>4, <4>2, <4>3, <4>4, <1>4, RidAssumption DEF RidSlots
    <3> QED
      BY <3>3, <3>4
  <2> QED
    BY <2>1, <2>2
<1> QED
  BY <1>8, <1>9, <1>10 DEF RidIInv

-----------------------------------------------------------------------------
(* The invariant, and the steps of EmsOnce. *)

\* The zeroed table satisfies the invariant.
LEMMA RidInitHolds == RidInit => RidIInv
<1> SUFFICES ASSUME RidInit PROVE RidIInv
  OBVIOUS
<1>1. RidTypeOK
  BY ZeroRidType, RidAssumption DEF RidInit, RidTypeOK, Once!Init, Once!TypeOK,
     Once!Rids, Rids, RidSlots, Once!NoVerdict
<1>2. \A rid \in Rids : age[rid] = RID_QTY
  BY OnceIsSame DEF RidInit, Once!Init
<1>3. RingHoldsRecent
  BY <1>2, RidAssumption DEF RingHoldsRecent
<1>4. RingHoldsOnlyRecent
  BY DEF RidInit, RingHoldsOnlyRecent
<1> QED
  BY <1>1, <1>3, <1>4 DEF RidIInv

\* A step that leaves the table and the ages alone keeps the invariant.
LEMMA LeaveKeeps ==
  ASSUME RidIInv, UNCHANGED <<rid_table, last_rid, age>>,
         verdict' \in Once!Verdicts \cup {Once!NoVerdict}
  PROVE  RidIInv'
<1>1. RidTypeOK'
  BY TypeUnfolded, OnceIsSame DEF RidIInv, RidTypeOK, Once!TypeOK
<1>2. RingHoldsRecent' /\ RingHoldsOnlyRecent'
  BY DEF RidIInv, RingHoldsRecent, RingHoldsOnlyRecent, Back
<1> QED
  BY <1>1, <1>2 DEF RidIInv

\* Every way process_package treats a package keeps the invariant.
LEMMA RidStepKeeps == RidIInv /\ [RidNext]_ridVars => RidIInv'
<1> SUFFICES ASSUME RidIInv, [RidNext]_ridVars PROVE RidIInv'
  OBVIOUS
<1>1. CASE UNCHANGED ridVars
  BY <1>1, LeaveKeeps DEF ridVars, RidIInv, RidTypeOK, Once!TypeOK
<1>2. ASSUME NEW rid \in Rids,
             Drop(rid) \/ Relay(rid) \/ Again(rid) \/ Process(rid) \/ Defer(rid)
      PROVE  RidIInv'
  <2>1. \A is \in {"dropped", "again", "relayed", "processed", "deferred"} :
          [rid |-> rid, is |-> is] \in Once!Verdicts
    BY <1>2, OnceIsSame DEF Once!Verdicts
  <2>2. CASE Drop(rid)
    BY <2>1, <2>2, LeaveKeeps DEF Drop, Leave
  <2>3. CASE Defer(rid)
    BY <2>1, <2>3, LeaveKeeps DEF Defer, Leave
  <2>4. CASE Relay(rid)
    BY <1>2, <2>1, <2>4, RegisterKeeps DEF Relay, Register
  <2>5. CASE Again(rid)
    BY <1>2, <2>1, <2>5, RegisterKeeps DEF Again, Register
  <2>6. CASE Process(rid)
    BY <1>2, <2>1, <2>6, RegisterKeeps DEF Process, Register
  <2> QED
    BY <1>2, <2>2, <2>3, <2>4, <2>5, <2>6
<1> QED
  BY <1>1, <1>2 DEF RidNext

\* The table and the ages agree in every state, for every size of the table:
\* a rid is in its block's ring exactly while fewer than RID_QTY others were
\* registered after it.
THEOREM RidInvariant == RidSpec => []RidIInv
<1> QED
  BY RidInitHolds, RidStepKeeps, PTL DEF RidSpec

\* The tables of package.c keep their types, for every size of the table.
THEOREM RidTypeCorrect == RidSpec => []RidTypeOK
BY RidInvariant, PTL DEF RidIInv

\* exists_rid and register_rid: what is in the table, and where, is exactly
\* what was registered within the window.
THEOREM TableIsWindow == RidSpec => []RingIsWindow
<1>1. RidIInv => RingIsWindow
  BY DEF RidIInv, RingIsWindow
<1> QED
  BY <1>1, RidInvariant, PTL

-----------------------------------------------------------------------------
(* Every step of the table is a step of EmsOnce. *)

\* exists_rid # 1 only if the rid was not registered within the window.
LEMMA NotFoundIsNotRecent ==
  ASSUME RidIInv, NEW rid \in Rids, exists_rid(rid) # 1
  PROVE  ~ Once!Recent(rid)
BY RecentIsFound, ExistsIsMembership DEF Once!Recent

\* exists_rid = 0 only if no transmission of the package was registered
\* within the window.
LEMMA NoneFoundIsNoneRecent ==
  ASSUME RidIInv, NEW rid \in Rids, exists_rid(rid) = 0
  PROVE  ~ Once!RecentPackage(rid)
<1> SUFFICES ASSUME NEW other \in Rids, SamePackage(rid, other), age[other] < RID_QTY
             PROVE  FALSE
  BY OnceIsSame DEF Once!RecentPackage, Once!Recent
<1>1. PICK i \in RidSlots : rid_table[RidHash(other)][i] = other
  BY RecentIsFound
<1>2. RidHash(other) = RidHash(rid)
  BY DEF SamePackage, RidHash
<1> QED
  BY <1>1, <1>2 DEF exists_rid, SamePackage

\* exists_rid = 2 only if another transmission of the package was registered
\* within the window, or the fixed part is 0.
LEMMA OtherFoundIsRecent ==
  ASSUME RidIInv, NEW rid \in Rids, exists_rid(rid) = 2
  PROVE  Once!RecentPackage(rid) \/ rid.fixed = 0
<1> DEFINE b == RidHash(rid)
<1>1. PICK i \in RidSlots : SamePackage(rid_table[b][i], rid)
  BY DEF exists_rid
<1>2. /\ rid_table[b][i] \in Rids
      /\ rid_table[b][i] = ZeroRid \/ age[rid_table[b][i]] < RID_QTY
  BY HashType, FoundIsRecent
<1>3. CASE rid_table[b][i] = ZeroRid
  BY <1>1, <1>3 DEF SamePackage, ZeroRid
<1>4. CASE age[rid_table[b][i]] < RID_QTY
  <2>1. Once!SamePackage(rid, rid_table[b][i])
    BY <1>1 DEF SamePackage, Once!SamePackage
  <2> QED
    BY <1>2, <1>4, <2>1, OnceIsSame DEF Once!RecentPackage, Once!Recent
<1> QED
  BY <1>2, <1>3, <1>4

\* Every step on the table is a step of EmsOnce or changes nothing there.
LEMMA StepImplements == RidIInv /\ [RidNext]_ridVars => [Once!Next]_(Once!vars)
<1> SUFFICES ASSUME RidIInv, [RidNext]_ridVars PROVE [Once!Next]_(Once!vars)
  OBVIOUS
<1>1. CASE UNCHANGED ridVars
  BY <1>1 DEF ridVars, Once!vars
<1>2. ASSUME NEW rid \in Rids, Drop(rid)
      PROVE  Once!Drop(rid)
  <2>1. PICK i \in RidSlots : rid_table[RidHash(rid)][i] = rid
    BY <1>2, ExistsIsMembership DEF Drop
  <2>2. rid = ZeroRid \/ age[rid] < RID_QTY
    BY <2>1, HashType, FoundIsRecent
  <2> QED
    BY <1>2, <2>2, OnceIsSame DEF Drop, Leave, Once!Drop, Once!Recent
<1>3. ASSUME NEW rid \in Rids, Relay(rid)
      PROVE  Once!Relay(rid)
  BY <1>3, NotFoundIsNotRecent DEF Relay, Register, Once!Relay
<1>4. ASSUME NEW rid \in Rids, Again(rid)
      PROVE  Once!Again(rid)
  BY <1>4, NotFoundIsNotRecent, OtherFoundIsRecent DEF Again, Register, Once!Again
<1>5. ASSUME NEW rid \in Rids, Process(rid)
      PROVE  Once!Process(rid)
  BY <1>5, NoneFoundIsNoneRecent DEF Process, Register, Once!Process
<1>6. ASSUME NEW rid \in Rids, Defer(rid)
      PROVE  Once!Defer(rid)
  BY <1>6, NoneFoundIsNoneRecent DEF Defer, Leave, Once!Defer
<1> QED
  BY <1>1, <1>2, <1>3, <1>4, <1>5, <1>6, OnceIsSame DEF RidNext, Once!Next

\* The table implements EmsOnce: for every size of the table, a transmission
\* is handled once and a package processed once within the window.
THEOREM TableImplementsOnce == RidSpec => ImplementsOnce
<1>1. RidInit => Once!Init
  BY DEF RidInit
<1> QED
  BY <1>1, StepImplements, RidInvariant, PTL DEF RidSpec, ImplementsOnce, Once!Spec
=============================================================================
