# ConcretID-HW: specifications

TLA+ modules, model-checking runs and machine-checked proofs for the programs of
the ConcretID-HW repository. Paths below are relative to the repository; `ems/` stands for
`cc2530/contiki_os/examples/cc2530dk/ems/` and `projetao/` for its sibling.

## 1. The system

ConcretID-HW is firmware and tooling around TI CC2530 radio nodes running Contiki.
The repository vendors the whole Contiki tree (`cc2530/contiki_os/core`, `apps`, `cpu`,
`platform`, `tools`, `regression-tests`, the other examples); the project's own programs are these.

| Part | Source | State | Operations |
|---|---|---|---|
| Package identifiers | `ems/package.c` | ring of rids per block | `exists_rid`, `register_rid`, `make_package_head` |
| Command line | `ems/interface.c` | ring of command buffers shared by the UART interrupt and the main loop | `process_char`, `check_interface`, `execute_cmd` |
| Main loop | `ems/ems.c` | two timers, the Contiki event queue | `PROCESS_THREAD(ems_process)` |
| Neighbours and routes | `ems/transmission.c` | four hash lists and a free list of neighbours in arrays of links; four routes in order of preference | `register_neighbor`, `new_neighbor`, `Del_neighbor`, `find_neighbor`, `check_transmission`, `register_uid`, `promote_uid_table`, `send_package_by_table` |
| Outgoing packages | `ems/sendout.c` | two slots with a signed count-down each | `send_out_by_name`, `check_send_out`, `acknowledge` |
| Messages | `ems/messages.c` | static buffers, list of blocked nodes | `process_package` and the senders |
| Settings | `ems/settings.c`, `ems/util.c` | names, retry counts | `init_settings`, `strtoi` |
| First mesh | `projetao/com.c`, `network.c` | older forms of all of the above in one file | `processPackage`, `sendOut`, `checkSendOut1`, `forward` |
| GPS | `projetao/gps.c` | 2000-byte ring filled by the UART interrupt, two two-byte indices; an NMEA parser | `getc0`, `timeout_handler`, `encode` |
| Gate | `projeto-edna/fixo.c`, `mobile.c` | 100 entries of number and 32-bit time | `timeout_handler` (beacon), `tcpip_handler` (answer, gate opened) |
| Flash programmer | `cc2530/Programador Arduino/` | host program, Arduino firmware, serial line | erase, write, read, verify |
| Panic button | `DemoDay_ino/` | debounced button, buzzer, GPS fix | `loop` |
| GPS converter | `conversor_ino/` | parsed sentence | `getCoordGPS` |
| RFID reader | `leitorRFID/RFID` | serial protocol with CRC | thirteen reader commands |
| Server bridge | `Raspberry/ServerRasp.py` | none | serial line to HTTP POST |

### How the EMS parts interact

One process per node. The main loop (`ems.c`) is the only thread: each event it
receives is used for exactly one of three things, tried in this order: timer `et1` (every
100 ms, `check_interface`), timer `et2` (every second, `check_send_out` then
`check_transmission`), a received datagram (`process_package`). The UART receive
interrupt (`process_char`) is the only other actor of a node; it shares the command
ring with `check_interface`. Nodes interact only by UDP datagrams, which the
radio may lose, duplicate or reorder. Inside a node, `process_package` asks
`package.c` whether the identifier was seen, updates the neighbours and routes of
`transmission.c`, releases slots of `sendout.c` on an acknowledgement and runs
commands of `interface.c`; `check_send_out` sends through the routes and floods a
`NAME_REQUEST` or `UID_REQUEST` when it has none.

### What is hard

* The command ring has no lock: the interrupt may come between the two statements
  that release a buffer, and inside the decrement.
* The identifiers are remembered in a small ring: how long is a repeated package recognised?
* The neighbour lists are linked by array indices, with 255 as "none" and as "no
  time", and entries are reused.
* Routes are permuted by `table_order`, indexed sometimes by position and
  sometimes by entry.
* A retransmission, its acknowledgement and the retransmission's acknowledgement may cross.
* Timers, datagrams and commands compete for the events of one process.
* The GPS ring has no lock, no test for fullness, and an index that cannot be read at once.
* The gate compares unsigned differences of times, and mobiles compete for its entries.

### What makes each part correct

* Identifiers: a transmission is handled once and a package processed once while it is remembered; nothing else is suppressed.
* Command line: commands run once, whole, in order; the interrupt never writes what is being executed.
* Main loop: a timer that expired is served; every event serves at most one purpose.
* Neighbours: each entry is in exactly one list; lists end; a look-up finds the entry if there is one.
* Routes: the order is a permutation; live routes come first and point to live neighbours.
* Outgoing packages: a slot holds a uid exactly when its count is positive; a package never outgrows its slot; every slot is released in the end; an acknowledged package is not sent again.
* Mesh: whatever the radio does, a receiver processes a package once, and a sender that stops retrying early was acknowledged.
* Programmer: the chip holds the file, or the host's user learns that it does not.
* GPS ring: characters reach the parser in order, once, and all of them unless the ring was full.
* Gate: who is let in has waited; who is heard regularly is let in, as long as there is room for all who wait.

## 2. Modules

| Module | Models | State and actions |
|---|---|---|
| `EmsRid` | `rid_t`, `RID_HASH`, `RID_INC` of `package.h` | operators only |
| `EmsOnce` | the promise about repeated packages (abstract) | `age` of each rid, `verdict` on the last package |
| `EmsPackage` | `exists_rid`, `register_rid` and their use by `process_package` | `rid_table`, `last_rid` as in the code; one action per way `process_package` treats a package |
| `EmsInterface` | `process_char`, `check_interface`, `init_interface` | the ring as in the code, the main loop's place in a release |
| `EmsNeighbors` | the neighbour lists of `transmission.c` | the arrays `neighbor*` as one record `nb`, `check_transmission`'s counter; register, search without end, the tick |
| `EmsNeighborsProofs` | proofs about `EmsNeighbors` | |
| `EmsRoutes` | `uid_table`, `table_order`, `last_table` of `transmission.c` and every handler of `messages.c` that changes them | the three as in the code; one action per package type that learns or uses a route |
| `MCEmsRoutes` | symmetry for `EmsRoutes` | |
| `EmsRoutesProofs` | proofs about `EmsRoutes` | |
| `EmsDelivery` | the promise about one message (abstract) | `phase`, `left`, `tries`, `receiver`, `acked` of each message |
| `EmsSendOut` | `sendout.c` | `sendout_package` as in the code; the tick, `send_out_by_name`, `acknowledge`; the routes and names as an environment |
| `EmsSendOutProofs` | proofs about `EmsSendOut` | |
| `EmsExchange` | the promise about a message seen from both ends (abstract) | `sent`, `processed`, `acked` |
| `EmsMesh` | several nodes: `sendout.c`, `package.c` and the message part of `process_package` over a network | the datagrams, each node's rids, each message's slot |
| `MCEmsMesh` | who sends what to whom in the run | |
| `EmsMeshProofs` | proofs about `EmsMesh` | |
| `EmsDiscovery` | requests, discoveries, announcements and messages to all of `messages.c` among several nodes | the datagrams, each node's rids, neighbours and routes |
| `MCEmsDiscovery` | the nodes and requests of the run | |
| `EmsDiscoveryProofs` | proofs about `EmsDiscovery` | |
| `EmsLoop` | `PROCESS_THREAD(ems_process)` under Contiki's timers | the timers expired, the events queued |
| `EmsNodeProofs` | proofs about `EmsPackage`, `EmsInterface` and `EmsLoop` | |
| `Gps` | the ring of `projetao/gps.c` | `buf`, `bufi`, `bufe` as in the code, the process' place in its loop and the byte it has read of `bufe` |
| `Gate` | `projeto-edna/fixo.c`, with `mobile.c` as what may be heard | `history`, `cur_time` as in the code; the second, and one action per branch of `tcpip_handler` |
| `DeviceProofs` | proofs about `Gps` and `Gate` | |
| `Flasher` | `cc2530flasher.c`, `cc2530_flasher.ino` and both `Comunicacao.h` | the host's step and counts, the two directions of the line, the Arduino's variables, the flash memory; one action per send and receive of the host and per command of the Arduino |
| `MCFlasher` | the files of the run, and the bits of a byte | |
| `FlasherProofs` | proofs about `Flasher` | |

### How the modules fit together

`EmsRid` is extended by `EmsOnce` and `EmsPackage`; the latter implements the former
(`ImplementsOnce`). `EmsSendOut` implements `EmsDelivery`, `EmsMesh` implements
`EmsExchange`. `EmsMesh` and `EmsDiscovery` are the compositions: each takes of a
component what the component's own module shows of it.

| What a composition takes | Where it is shown |
|---|---|
| a known transmission is found in the table, within its window | `EmsPackage`, `TableImplementsOnce`; outside of the window: `Forgetful` nodes in `EmsMesh` |
| a message's transmissions have different rids and are at most `MOST` | `EmsSendOut`, `TransmissionsDiffer`, `ImplementsDelivery` |
| a route may lead anywhere or be missing | `EmsRoutes` shows when it leads where it was learnt; `EmsMesh` relies on nothing |
| a neighbour heard is found | `EmsNeighbors`, `HeardIsFound` |
| every package and every second is looked at, or lost as a datagram may be | `EmsLoop` |

A handler of the code is one action: `process_package`, `check_send_out` and
the others run to completion in Contiki's one process, so nothing but the UART interrupt
comes in between. The interrupt touches the command ring alone, and `EmsInterface`
breaks the main loop's side of the ring into its single loads and stores. When
a handler does several things (register, learn a route, promote it, answer) the
action does all of them; the disjuncts of one action are the branches of one handler.

### Abstractions

* Rids: the fixed part and the flexible part are small numbers; `RID_HASH` keeps the
  modulo. In the compositions a rid is the package it belongs to and a flexible part.
* Uids and names are model values, except in `EmsNeighbors`, where the hash of a uid
  matters and a uid is the number of its last byte.
* The 255 that means "no index" is `NONE`; 255 as a count saturates the same way.
* Lengths are numbers; of a package's bytes only the sizes of its heads and data matter.
* Characters are `NUL`, newline, backspace and any other.
* `time` of a slot is an `int8_t`; the assumption of `EmsSendOut` names what keeps
  it in range, and the type invariant is that it does.
* `Flasher`: a frame of the serial line is one thing, a command or a block of data. A byte damaged or lost makes
  a command another one, or a frame one that is rejected or waited for without end (`Damaged`). The lengths of data are not covered by the checksum. The
  Arduino reads what it misses of the checksum as zeroes when `readBytes` is out of time, and they are what the checksum over its own bytes comes to: a length one or
  two too large is accepted, with bytes of the checksum as data (`Overlong`). A length too small is accepted if the next bytes of the data happen to be the checksum of those before them, and
  what is left of the frame comes where a command is due (`Cut`). Other damages that the 16 bits of the checksum fail to tell are left out.
  The flash memory starts at a word and can only clear bits, as the CC2530's.
* Undefined behaviour ends a behaviour: `fault` in `EmsRoutes` and `astray` in
  `EmsDiscovery` mark the node that used an entry that it had not found; `overrun` in `Flasher` marks an Arduino that has written behind `buffer[1536]`,
  after which it is followed no further.

## 3. The runs

| Run | Question | Bounds |
|---|---|---|
| `rid_table` | Is a transmission handled once and a package processed once while its rid is remembered, and is what is suppressed really known? | 3 fixed and 3 flexible parts, 2 blocks of 3 rids, the shorter search of `register_rid` over 2 of them: the ring wraps, and a caller that had not asked `exists_rid` would register a rid twice |
| `command_line` | Wherever the interrupt comes, are lines whole, terminated, in order, stable while executed, and is a full ring emptied? | 3 buffers of 2 letters and a terminator: the ring fills and wraps, lines overflow, and every pair of accesses of the main loop may be interrupted |
| `neighbors` | Are lists sound and neighbours found; and what is left when there are more neighbours than entries? | 2 entries, 2 lists, 4 uids of which three share a list, times up to 4 |
| `routes` | Is the order always a permutation; do live routes lead where they were learnt and bear the right name? | 2 neighbours of 3, 3 routes for 4 uids, one name: entries are inherited, neighbours replaced |
| `send_out` | Does each of several messages in two slots keep its promise, whatever routes, names and acknowledgements do? | 2 messages in 2 slots, 2 attempts to solve and to send, data of the largest length that fits and one more |
| `mesh` | Is a message processed once, acknowledged truthfully and silenced afterwards; do circles end? | 3 nodes, a message sent twice at most one way and one sent once the other way, two acknowledgements in all; one end may forget rids |
| `discovery` | Do floods stay within their depth, do routes lead through neighbours, and in circles only when floods overlapped? | 4 nodes with a triangle and a tail, one pair of which has not met; together a discovery passed on once, a request of the same origin and a discovery not passed on, or the first and a message to all (`Together`): two floods of one origin overtake each other, and routes form a circle in the run |
| `main_loop` | Is an expired timer always served? | the code's own 32 events |
| `flasher` | Does the chip hold the file; is a verification without complaint right in spite of a damaged byte; does the host end? | bytes of 2 bits, words of 2, blocks of 6, banks of 8: 32 files of two blocks, the last one whole or half, the second across two banks; a chip full of ones or of zeroes; one damage, which a full block lets overrun the buffer and a half one does not |
| `gate` | Does everyone let in have waited; is everyone heard regularly let in while there is room? | 3 mobiles, one with the number zero, for 2 entries; times to be let in 2 to 4 seconds; 12 seconds, three times the longest wait |
| `gps` | Does the parser get characters in order, once, and all? | a ring of 5, bytes of 2 values so that an index has two bytes, 14 characters: two laps and more |
| `broken_path` | Is the branch "broken path ?" of `messages.c` reached only when a path is broken? | one request over two hops |

The runs whose configuration says `CHECK_DEADLOCK FALSE` model systems that may
stop: bounded messages are over, a fault or a search without end stops a node.

Why the bounds are enough: every table is taken smaller than the number of things
that want to be in it, so each becomes full, wraps or evicts; every count-down
passes zero; each pair of actors that can interleave is there. The properties of
every run but `broken_path` that are not about liveness are proved for all sizes as well (section 5).

### What the runs show beyond "no error"

* *More neighbours than entries.* `Del_neighbor` unlinks through `neighbor_prev`,
  which is zero, not 255, for the first of a list. The ninth neighbour damages the lists and later a search
  for a stranger may never return (`Hang` fires). `ListsAreSound` and `HeardIsFound`
  are therefore stated of a node that has heard of no more neighbours than it
  has entries; `RegisteredIsFound` and the types hold for all.
* *Replaced neighbours.* A route that has lost its link may come back to life, since `promote_uid_table` and
  `send_package_by_table` take the number of an entry for its position. The two properties about
  live routes are stated of a node that never replaced a neighbour.
* *Lost datagrams.* A datagram that finds a timer expired is never looked at; the
  retries of `sendout.c` make up for it.
* *Late acknowledgements.* The last count-down of a slot transmits and frees the slot
  in the same second: the acknowledgement of the last transmission always comes
  too late for the sender to know.
* *Floods of one origin that overlap* teach routes that form a circle: `check_send_out` asks again every second, and once
  for each slot without a route, whatever has become of the last flood. The run reaches such circles: two nodes hear the
  two floods in different orders, and each hears its second one from the other. `CirclesAreOfOverlaps` says that this is the only way, and `mesh` that packages in circles
  end anyway.
* *A node's own flood* comes back to it, and it learns a route to itself.
* *The programmer's commands* have no checksum and `receberComando`'s result is only complained of: one damaged
  byte may erase the chip again or write a block to the place of another one, and the host reports success. Only the
  verification finds it, and `flasher` shows that it always does for one damage. With two it does not: the same run
  with `DAMAGES = 2` and the bound in `ChipHoldsFile` raised to two is violated (the comment there tells how).
* *The programmer's lengths.* A length damaged to one or two more passes the checksum of the Arduino. In a block that is not full, `write_count` is then too large and
  bytes of the checksum are written behind the end of the file, where the verification does not look; in a full one they are written behind
  `buffer[1536]`, and nothing is claimed from there on.
* *The programmer's replies* have no timeout: with a damaged byte the Arduino may blink and the host wait for ever, which
  is why `HostEnds` is stated of a line without damage.
* *The programmer's comments* speak of a buffer of 512 bytes (`cc2530_flasher.ino:11`) and of 4 to 1024 bytes
  (`:514`); host and Arduino agree on 1536.
* *The GPS ring* mixes old and new bytes of `bufe` and never tests for fullness. The order is
  kept all the same: a wrong comparison only ends the loop early, until the next second, or goes
  on through characters of a lap. A lap of just 2000 characters in a second would look like an empty ring; until then nothing is skipped.
* *The gate* lets in a mobile that was just let in if it is heard in the second `INTERV_END` after
  the start: the zeroed time is then exactly `INTERV_END` ago. `LetInAfterWaiting` leaves that second out, and
  `WaitingCorrect` proves that it is the only one. With more mobiles waiting than entries, they can
  push each other out for ever; `NobodyWaitsForever` is stated of times when that did not happen.
* *The GPS position* before the first fix is shown as 0.0 without a mark, because `initGps` is never called.
* *Finding* (`broken_path`). An announcement passed on is sent by the route to its source
  instead of the route to its end (`messages.c:167` to `177`). The node in between has no
  route to the source when the announcement is the first news of it, and then sends through the null pointer.

## 4. Fairness

* `EmsInterface`: weak fairness of the main loop (`init_interface`, `check_interface`):
  `et1` fires for ever. None for the interrupt: nobody need type.
* `EmsSendOut`: weak fairness of `check_send_out`: `et2` fires for ever.
* `EmsLoop`: Contiki delivers queued events (weak fairness of `TimerEvent`), and a
  turn of the loop takes less than the 100 ms of `et1`, so that again and again an
  event finds `et1` running (strong fairness of that case). This is what the two others rest on.
* `Flasher`: weak fairness of the host and of the Arduino, two programs that run whenever they have something to
  do; the host's user answers. None for the damages.
* `Gps`: weak fairness of each step of the process; its timer is restarted each second. None for the interrupt: nothing need be received.
* The other modules state no liveness: a radio may lose everything. `NobodyWaitsForever` in `Gate` is a bound, not a
  liveness property: it needs no fairness, and says who may be late by when he was heard.

## 5. The proofs

Each `*Proofs` module states the type invariant and the safety properties as
theorems for every value of the constants that satisfies the module's assumptions,
from an inductive invariant `IInv`.

* `EmsNodeProofs`, of the parts of a node that serve the others. Of the rids, `RidIInv` says that the age of each rid and the ring tell the same story:
  a rid of age *d* below `RID_QTY` is in the slot *d* places behind `last_rid`, and nothing else is in the ring but
  zeroes. The arithmetic of the ring (`BackCases`, `BackMoves`) carries it over a registration. From
  it follow `RingIsWindow` and the refinement of `EmsOnce`.
  Of the commands, `IInv` relates `cmd_qty` to the number of complete lines at every place of the
  main loop between two accesses, until a write hits an exposed state. It gives the terminators, that a
  release never decrements zero, and, since the line being typed is one to
  `CMD_QTY - 1` buffers ahead of the one executed (`AheadIsElsewhere`), that the latter is stable and, as long as
  nothing is written to an exposed state, every buffer holds its line (`Held`). Of the main loop, the type invariant and `ExpiredHasEvent` are inductive together; whichever timer a turn
  restarts, the expired ones are one less (`CountAfter`), as the events are.
* `EmsSendOutProofs`. `IInv` bounds each slot's transmissions by the time it has left (transmissions times
  period plus time left is at most the whole), makes the slots of a message unique and relates sizes
  to heads. `SendOutImplementsDelivery` maps every step, with all slots moving in the one second, to a step of each message. `Tallied` says
  that a message's transmissions are as many as its tries, and that the flexible part in its slot is fewer increments ahead of each of them: fewer
  than there are flexible parts, so that the next one is new (`TransmissionsDo`).
* `EmsMeshProofs`. What an acknowledgement tells its sender is a chain: the receiver knows no rid of a
  message it has not processed (`KnownIsProcessed`), an acknowledgement on the air is of a message processed
  (`NetIsHonest`), and so is what the sender takes for acknowledged. `ProcessedIsKnown` adds that a
  node that does not forget processes once. Together: `MeshImplementsExchange`, for any nodes, messages, routes,
  retries and set of forgetful nodes. `Circling` counts: a datagram passed on was registered by its sender (`SendersKnow`), which
  does not register it again, so that a rid is on the air once from each node and twice from its origin (`FewDatagrams`), however
  the routes lead round.
* `EmsNeighborsProofs`. That the lists are sound is not inductive: it does not say that a free entry is left for a new neighbour, without
  which `Del_neighbor` unlinks through a link back that was never initialised. `IInv` says what is true as long as there are no
  more neighbours than entries (`Chained`). Entries are taken in the order of their numbers (`FreeInOrder`), one for each uid (`UsedOnce`),
  and a list goes from its newest entry to the newest one older than that, which is the entry whose link back is right
  (`ListsNewestFirst`). A walk along a list therefore meets smaller and smaller indices: it ends (`WalkOlder`, `WalkEnds`), and it
  passes none of the list's entries by (`WalkMeets`), since the first step that would is the first one beyond it. `ListsSound` and `HeardFound`
  follow; `RegisteredFound` needs none of this, only the types: whatever the links, the new entry is first in its list.
* `EmsRoutesProofs`. `IInv` says that the order is a permutation (`Permutes`) and, while no neighbour was replaced, that the
  positions of live routes hold the first entries (`Straight`), so that the number of an entry and its position, which the code mixes,
  are live together; that each live route has the link and the name it was told (`Told`); and that there is one per uid. Each exchange
  of `promote_uid_table` and `send_package_by_table` permutes; `Correct_table_order` is a loop of them, and the least turn of it
  that would not permute is the counterexample that its predecessor refutes (`CorrectedPermutes`).
* `EmsDiscoveryProofs`. `NoCircle` says it of sets: from no set of nodes, no two of whose routes come from floods that overlapped (`Apart`), do all routes to a node outside
  lead back into the set. It is not inductive. A route learnt from a flood leads to its origin or to a node that learnt from the same flood (`LedByFlood`);
  who learnt from a flood that is not over has still that route, or one of a flood that overlaps with it (`LatestIsKept`), since any two floods of an origin of which
  neither is over do overlap (`OverlapsAreTold`), and a flood that is over has no one left to teach (`OverStays`). A node that learns a route now has learnt from that flood never before,
  so no route of the same flood leads to it, and one of any other flood would overlap. The depth left in a request counts the
  hops it went (`RequestIsHonest`), and `StaysNear` follows with `WithinHeard`, for any graph of nodes.
* `DeviceProofs`, of the two programs that are no EMS nodes. `GpsIInv` says which character each place of the ring holds (`Placed`, `Held`: `bufe` is the number
  received and `bufi` the number taken, modulo the size), that a byte read of `bufe` was true when it was read (`Tested`), and that
  before a lap the ring has room for all that wait (`Room`). `Take` is then shown to get the right one. `IInv`, of the gate, says that the time of an entry, unless
  zero or more than `INTERV_END` ago, is one at which its mobile was heard since it was last let in (`Remembered`), and that no entry before one
  with a time has its number, so that the search finds that one (`Found`). `InTime`, unsigned as it is, then names a time of `heard`,
  except in the one second above. `NobodyIsForgotten` needs a further invariant (`Patient`): who was heard at some time has waited since a time less than
  `INTERV_BEG` before, was not heard in time to be let in, and has an entry with that time as long as it is worth anything. Only `Come` could
  take it, as the oldest; but then the mobiles of all the entries are waiting, they differ, and so does the one who comes: they are more than there is
  room for (`TooMany`, by pigeons and holes). Gate and ring rest on lemmas about remainders, which the library does not have.
* `FlasherProofs`. `Sync` is of the line and holds however much is damaged, until the Arduino has overrun its buffer: the host has asked nothing (`Idle`), or its request is on its way, damaged or not
  (`Asked`), or its reply is (`Answered`); or the two are `Lost`; or the size in a request to read was cut, which the Arduino answers before it gives up (`Left`: the host
  complains of what was read, and gets no further than the next request or the end of the file). They get lost, for one, when a command with data becomes one without: the Arduino answers it, finds
  the data where it expects a command, and gives up. The host takes the answer for its reply, goes on by one step, and waits for ever or exits,
  in any case before it has come to an end (`NoEnd`); the cases of `Lost` are the ways there. `Clean` says what holds before any damage: the
  frames are those of the protocol (`Exact`), and the memory holds the file up to the page being written and is blank behind it (`Writing`). A page is written as it
  should be because the memory is blank there (`WrittenIs`), and no address or size changes when it is cut into bytes and put together again
  (`AddressBack`, `SizeBack`). `Suspect` says what holds after one damage when the host reads: the two are lost, or the memory holds the file (`HoldsFile`), as when the damage came after the chip was programmed, or
  the frames are exact again and all that was not complained of was compared (`Verified`). `ChipIsRight` follows. What reads bank by bank is a
  function defined by recursion on what is left; that it returns the bytes in order (`ReadIsBlock`) is shown by the least count left for which it would not.
  `NobodyGivesUp` is the part of `HostEnds` that needs no fairness.

The assumptions are those named in the modules (`RidAssumption`, `RoomAssumption`, `InterfaceAssumption`, `NeighborsAssumption`,
`RoutesAssumption`, `SendOutAssumption`, `MeshAssumption`, `DiscoveryAssumption`, `LoopAssumption`, `GpsAssumption`, `GateAssumption`,
`FlasherAssumption`); TLC evaluates each in the
runs. They say that numbers are natural, that `NONE` is no index, that the values for "nobody" are nobody's, that radios hear
each other (`DiscoveryAssumption`: the range is symmetric) and that a slot's times fit in an `int8_t`
(`SendOutAssumption`); and, of the flash programmer (`FlasherAssumption`), that a block is some words, has room for an address, and its size fits in two bytes, that the memory is some words and as
large as three bytes of which the last has two bits can address, that a file fits in it, and of the bits that two bytes share (`Both`) only that they are a byte, and the other byte if one has
every bit. What bounds a run, its cap on seconds or characters, is a parameter and arbitrary in the proofs.

The conditions within the properties are in the theorems too, and are reached: a node with more neighbours than entries, a
replaced neighbour, a forgetful node, a write during a release and an Arduino that has overrun its buffer are states of the runs, where the properties claim less.
So some of what the code does wrong is modelled, and shown to be reached, but excluded from the properties: a newline lost within a release (`BuffersHoldLines`), lists damaged
by a deletion (`ListsAreSound`, `HeardIsFound`), a route promoted in place of the one meant and a route revived after its neighbour was replaced (`LiveRoutesAreTrue`), a
silent neighbour that is not asked again, a host that waits for ever on a damaged line (`HostEnds`), a mobile let in again in the one second above (`LetInAfterWaiting`).

Only model-checked: what is about liveness (`RoomAgain`, `SlotsAreFreed`, `TimersGoOn`, `AllIsTaken`, `HostEnds`), out of the prover's reach
with fairness and ENABLED. `Flasher` takes the bits that two bytes share as a constant, because no module with a theorem can use the
community module of bitwise operators; `MCFlasher` gives it the operator `&`.

## 6. Not modelled

* Contiki, vendored with its applications, ports and tools, is by far most of the repository's lines; it is third-party code. Its
  timers, event queue and UDP are modelled where the programs depend on them. So a map of the programs covers a small
  part of the whole.
* `messages.c`: no function makes a `PACKAGE_MSG_TO`, `SEQUENCE`, `BASE64` or `FIRST`; the one call of `send_nack` is commented
  out (`messages.c:184`); a `BROADCAST_ACK`
  answers only an acknowledged package without an identified head, and every package that asks for an acknowledgement has that head (`sendout.c:88`). The list of blocked nodes (`block_uid`) drops what certain neighbours send: that is a datagram lost, which
  `EmsMesh` and `EmsDiscovery` allow anyway.
* Conversions of text, which have no state: `strtoi` and names of `util.c`, the parser of uids, the cutting of a command's arguments, `conversor_ino`, the NMEA
  parser of `gps.c` (a copy of TinyGPS).
* `projetao/com.c` and `network.c`, earlier forms of EMS: the questions are those asked of EMS.
* `DemoDay_ino`, one loop that debounces one button; `leitorRFID`, one request and one reply at a time without state between
  them; `ServerRasp.py`, `rs232.c`, `ping6.c`: input and output, or third-party code.
* Of the programmer: the bits of the debug interface, `setup`, opening the port and the file.

## 7. Plan

What could be added next:

1. `Com`, from `projetao/com.c`, against `EmsDelivery`: does the earlier mesh keep the same promise?
