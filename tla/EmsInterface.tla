---------------------------- MODULE EmsInterface ----------------------------
(***************************************************************************)
(* The command line of an EMS node (interface.c).  process_char runs in    *)
(* the receive interrupt of the UART and fills a ring of CMD_QTY command   *)
(* buffers; check_interface runs in the main loop, executes the oldest     *)
(* complete command where it lies and then releases its buffer.  The two   *)
(* share cmd_next and cmd_qty, and nothing disables the interrupt: it may  *)
(* come between any two accesses of the main loop.  The release            *)
(*        cmd_next = (cmd_next+1)%CMD_QTY; cmd_qty--;                      *)
(* is a store, a load and a store on the 8051, and so three steps here.    *)
(***************************************************************************)
EXTENDS Integers, Sequences

CONSTANTS CMD_QTY,      \* command buffers (4)
          CMD_SIZE,     \* characters of a command (127)
          Char,         \* the printable characters
          NUL           \* the terminator

ASSUME InterfaceAssumption ==
  /\ CMD_QTY \in Nat \ {0, 1}
  /\ CMD_SIZE \in Nat \ {0}
  /\ NUL \notin Char

VARIABLES cmd_buffer,   \* cmd_buffer[slot][position]
          cmd_next,     \* the slot of the oldest complete command
          cmd_qty,      \* complete commands
          cmd_pt,       \* characters of the line being typed
          pc,           \* where the main loop is
          loaded,       \* the value of cmd_qty that cmd_qty-- has loaded
          lines,        \* history: the complete lines not yet executed
          line,         \* history: the line being typed
          hit           \* history: the interrupt wrote during a reset or a release

vars == <<cmd_buffer, cmd_next, cmd_qty, cmd_pt, pc, loaded, lines, line, hit>>
cmds == <<cmd_buffer, cmd_next, cmd_qty, cmd_pt>>

Slots == 0 .. CMD_QTY - 1

Positions == 0 .. CMD_SIZE

\* The main loop: three resets of init_interface, then waiting for a command,
\* executing it, and the two places inside its release.
Resetting == {"resetNext", "resetQty", "resetPt"}
Releasing == {"load", "store"}
Places == Resetting \cup {"idle", "execute"} \cup Releasing

\* Inside a reset or a release the interrupt sees a state nobody wrote it for.
Exposed == pc \in Resetting \cup Releasing

\* The variables of interface.c and the place of the main loop.
TypeOK ==
  /\ cmd_buffer \in [Slots -> [Positions -> Char \cup {NUL}]]
  /\ cmd_next \in Slots
  /\ cmd_qty \in 0 .. CMD_QTY
  /\ cmd_pt \in 0 .. CMD_SIZE
  /\ pc \in Places
  /\ loaded \in 0 .. CMD_QTY
  /\ lines \in Seq(Seq(Char)) /\ line \in Seq(Char)
  /\ hit \in BOOLEAN

Init ==
  /\ cmd_buffer = [s \in Slots |-> [p \in Positions |-> NUL]]
  /\ cmd_next = 0 /\ cmd_qty = 0 /\ cmd_pt = 0
  /\ pc = "resetNext"
  /\ loaded = 0
  /\ lines = <<>> /\ line = <<>>
  /\ hit = FALSE

-----------------------------------------------------------------------------
(* process_char, in the interrupt. *)

\* The buffer of the line being typed, as the interrupt computes it.
Typing == (cmd_next + cmd_qty) % CMD_QTY

\* Mutant: the line being typed may take the buffer being executed.
Full_OneLate == cmd_qty > CMD_QTY

Full == cmd_qty = CMD_QTY

\* The histories follow the input until a write hits an exposed state.
Witness(newLines, newLine) ==
  /\ hit' = (hit \/ Exposed)
  /\ lines' = IF hit' THEN <<>> ELSE newLines
  /\ line' = IF hit' THEN <<>> ELSE newLine

Backspace ==
  /\ ~ Full
  /\ cmd_pt > 0
  /\ cmd_pt' = cmd_pt - 1
  /\ cmd_buffer' = [cmd_buffer EXCEPT ![Typing][cmd_pt - 1] = NUL]
  /\ Witness(lines, SubSeq(line, 1, Len(line) - 1))
  /\ UNCHANGED <<cmd_next, cmd_qty, pc, loaded>>

\* Mutant: the next line is typed behind this one.
Newline_NoReset ==
  /\ ~ Full
  /\ cmd_buffer' = [cmd_buffer EXCEPT ![Typing][cmd_pt] = NUL]
  /\ cmd_qty' = cmd_qty + 1
  /\ Witness(Append(lines, line), <<>>)
  /\ UNCHANGED <<cmd_next, cmd_pt, pc, loaded>>

Newline ==
  /\ ~ Full
  /\ cmd_buffer' = [cmd_buffer EXCEPT ![Typing][cmd_pt] = NUL]
  /\ cmd_qty' = cmd_qty + 1
  /\ cmd_pt' = 0
  /\ Witness(Append(lines, line), <<>>)
  /\ UNCHANGED <<cmd_next, pc, loaded>>

\* Mutant: one character more than CMD_SIZE is stored.
Letter_Overrun(x) ==
  /\ ~ Full
  /\ cmd_pt <= CMD_SIZE
  /\ cmd_buffer' = [cmd_buffer EXCEPT ![Typing][cmd_pt] = x]
  /\ cmd_pt' = cmd_pt + 1
  /\ Witness(lines, Append(line, x))
  /\ UNCHANGED <<cmd_next, cmd_qty, pc, loaded>>

\* A character past CMD_SIZE, like any character when all buffers are full,
\* is ignored.
Letter(x) ==
  /\ ~ Full
  /\ cmd_pt < CMD_SIZE
  /\ cmd_buffer' = [cmd_buffer EXCEPT ![Typing][cmd_pt] = x]
  /\ cmd_pt' = cmd_pt + 1
  /\ Witness(lines, Append(line, x))
  /\ UNCHANGED <<cmd_next, cmd_qty, pc, loaded>>

process_char == Backspace \/ Newline \/ \E x \in Char : Letter(x)

-----------------------------------------------------------------------------
(* init_interface and check_interface, in the main loop. *)

\* init_interface installs process_char before it resets what it uses.
ResetNext ==
  /\ pc = "resetNext"
  /\ cmd_next' = 0
  /\ pc' = "resetQty"
  /\ UNCHANGED <<cmd_buffer, cmd_qty, cmd_pt, loaded, lines, line, hit>>

ResetQty ==
  /\ pc = "resetQty"
  /\ cmd_qty' = 0
  /\ pc' = "resetPt"
  /\ UNCHANGED <<cmd_buffer, cmd_next, cmd_pt, loaded, lines, line, hit>>

ResetPt ==
  /\ pc = "resetPt"
  /\ cmd_pt' = 0
  /\ pc' = "idle"
  /\ UNCHANGED <<cmd_buffer, cmd_next, cmd_qty, loaded, lines, line, hit>>

\* Mutant: the count is reduced modulo the size of the ring.
Execute_Modulo ==
  /\ pc = "idle"
  /\ cmd_qty % CMD_QTY # 0
  /\ pc' = "execute"
  /\ UNCHANGED <<cmds, loaded, lines, line, hit>>

\* if( !cmd_qty ) return 0; execute_cmd(cmd_buffer[cmd_next]) begins.
Execute ==
  /\ pc = "idle"
  /\ cmd_qty # 0
  /\ pc' = "execute"
  /\ UNCHANGED <<cmds, loaded, lines, line, hit>>

\* execute_cmd is done; it may have cut its argument out of the buffer by
\* writing a terminator.  Then cmd_next moves on.
Advance ==
  /\ pc = "execute"
  /\ \E cut \in SUBSET Positions :
       cmd_buffer' = [cmd_buffer EXCEPT ![cmd_next] =
                        [p \in Positions |-> IF p \in cut THEN NUL ELSE @[p]]]
  /\ cmd_next' = (cmd_next + 1) % CMD_QTY
  /\ pc' = "load"
  /\ lines' = IF hit THEN <<>> ELSE Tail(lines)
  /\ UNCHANGED <<cmd_qty, cmd_pt, loaded, line, hit>>

\* cmd_qty--, its load and its store.
LoadQty ==
  /\ pc = "load"
  /\ loaded' = cmd_qty
  /\ pc' = "store"
  /\ UNCHANGED <<cmds, lines, line, hit>>

StoreQty ==
  /\ pc = "store"
  /\ cmd_qty' = loaded - 1
  /\ loaded' = 0
  /\ pc' = "idle"
  /\ UNCHANGED <<cmd_buffer, cmd_next, cmd_pt, lines, line, hit>>

init_interface == ResetNext \/ ResetQty \/ ResetPt
check_interface == Execute \/ Advance \/ LoadQty \/ StoreQty

Next == process_char \/ init_interface \/ check_interface

\* The timer et1 of the main loop calls check_interface again and again
\* (module EmsLoop); what the user types is not fair.
Spec == Init /\ [][Next]_vars /\ WF_vars(init_interface \/ check_interface)

-----------------------------------------------------------------------------
\* The command a buffer holds: what precedes its first terminator.
Text(buffer) ==
  LET ends == {p \in Positions : buffer[p] = NUL}
      end == CHOOSE p \in ends : \A q \in ends : p <= q
  IN  [i \in 1 .. end |-> buffer[i - 1]]

\* The interrupt never writes to the buffer execute_cmd is reading: the guard
\* on cmd_qty keeps the line being typed out of it, whatever was lost before.
ExecutingBufferIsStable ==
  [][pc = "execute" => cmd_buffer'[cmd_next] = cmd_buffer[cmd_next] \/ pc' = "load"]_vars

\* No buffer loses its last terminator, whenever the interrupt comes: what
\* execute_cmd reads ends inside the buffer (cmd_pt < CMD_SIZE in
\* process_char).
BuffersAreTerminated == \A s \in Slots : cmd_buffer[s][CMD_SIZE] = NUL

\* As long as no interrupt wrote during a reset or a release, the ring holds
\* exactly the lines typed, oldest first, and the line being typed: commands
\* are executed once, whole and in order.
BuffersHoldLines ==
  ~ hit =>
    /\ cmd_qty = Len(lines) + (IF pc \in Releasing THEN 1 ELSE 0)
    /\ \A i \in 1 .. Len(lines) :
         Text(cmd_buffer[(cmd_next + i - 1) % CMD_QTY]) = lines[i]
    /\ Len(line) = cmd_pt
    /\ \A i \in 1 .. cmd_pt :
         cmd_buffer[(cmd_next + Len(lines)) % CMD_QTY][i - 1] = line[i]

\* cmd_qty never counts a command nobody typed: an interrupt inside the
\* release can lose a command but not invent one.  (The release never
\* decrements zero, where the uint8_t would wrap to 255.)
ReleaseNeverUnderflows == /\ pc \in {"execute", "load"} => cmd_qty > 0
                          /\ pc = "store" => loaded > 0

\* Full buffers never stay full: characters are not ignored for ever.
RoomAgain == Full ~> ~ Full
=============================================================================
