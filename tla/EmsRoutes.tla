------------------------------ MODULE EmsRoutes ------------------------------
(***************************************************************************)
(* The routes of an EMS node (transmission.c).  An entry of uid_table says *)
(* which neighbour (link) leads to a uid and what the uid is called.       *)
(* table_order holds the entries in order of preference; its first         *)
(* last_table positions are live.                                          *)
(*                                                                         *)
(* neighbor stands for the array of EmsNeighbors: an entry of it is taken  *)
(* by a new neighbour, and taken again by another one when all are in use. *)
(* NONE is the 255 that means "no index".                                  *)
(***************************************************************************)
EXTENDS Integers, FiniteSets

CONSTANTS NEIGHBORHOOD_SIZE,    \* entries for neighbours (8)
          UID_TABLE_SIZE,       \* entries for routes (4)
          NONE,                 \* 255
          Near,                 \* the uids that may be neighbours
          Peers,                \* the uids that may be the end of a route
          Names,                \* the names they announce
          NoUid, NoName         \* the zeroed uid and the empty name

ASSUME RoutesAssumption ==
  /\ NEIGHBORHOOD_SIZE \in Nat \ {0}
  /\ UID_TABLE_SIZE \in Nat \ {0}
  /\ NONE \in Nat /\ NONE >= NEIGHBORHOOD_SIZE /\ NONE >= UID_TABLE_SIZE
  /\ NoUid \notin Near \cup Peers
  /\ NoName \notin Names

VARIABLES
  neighbor,     \* the uid in each entry of the neighbours
  uid_table,    \* the routes: [uid, link, name]
  table_order,  \* a position's entry of uid_table
  last_table,   \* the number of live positions
  fault,        \* "none"; "wild": a route without link was used; "null": a
                \* route that was not found was used
  via,          \* history: the neighbour each entry was learnt from
  announced,    \* history: the name each uid announced last
  crowded       \* history: a neighbour was replaced by another, and the
                \* other two histories are kept no longer

vars == <<neighbor, uid_table, table_order, last_table, fault, via, announced, crowded>>

Indices == 0 .. NEIGHBORHOOD_SIZE - 1
Entries == 0 .. UID_TABLE_SIZE - 1

Valid_num(x) == x # NONE

Routes == [uid : Peers \cup {NoUid}, link : Indices \cup {NONE}, name : Names \cup {NoName}]

\* The routes, their order and the neighbours they lead through.
TypeOK ==
  /\ neighbor \in [Indices -> Near \cup {NoUid}]
  /\ uid_table \in [Entries -> Routes]
  /\ table_order \in [Entries -> Entries]
  /\ last_table \in 0 .. UID_TABLE_SIZE
  /\ fault \in {"none", "wild", "null"}
  /\ via \in [Entries -> Near \cup {NoUid}]
  /\ announced \in [Peers -> Names \cup {NoName}]
  /\ crowded \in BOOLEAN

Init ==
  /\ neighbor = [i \in Indices |-> NoUid]
  /\ uid_table = [e \in Entries |-> [uid |-> NoUid, link |-> 0, name |-> NoName]]
  /\ table_order = [p \in Entries |-> p]
  /\ last_table = 0
  /\ fault = "none"
  /\ via = [e \in Entries |-> NoUid]
  /\ announced = [u \in Peers |-> NoName]
  /\ crowded = FALSE

-----------------------------------------------------------------------------
\* The live routes, most preferred first, and where a uid or a name is found.
Live(last) == 0 .. last - 1

Found(positions, order) ==
  IF positions = {} THEN NONE
  ELSE order[CHOOSE p \in positions : \A q \in positions : p <= q]

find_table_by_uid(table, order, last, uid) ==
  Found({p \in Live(last) : table[order[p]].uid = uid}, order)

find_table_by_name(name) ==
  Found({p \in Live(last_table) : uid_table[table_order[p]].name = name}, table_order)

\* Mutant: the entry in between is forgotten.
Swap_Lossy(order, p, q) == [order EXCEPT ![p] = order[q]]

Swap(order, p, q) == [order EXCEPT ![p] = order[q], ![q] = order[p]]

\* promote_uid_table(uid_table+x) swaps its way down from position x of the
\* order: what is there comes first, what was before it moves back by one.
promote_uid_table(order, x) ==
  [p \in Entries |-> IF p = 0 THEN order[x] ELSE IF p <= x THEN order[p - 1] ELSE order[p]]

\* send_package_by_table(uid_table+x) moves position x of the order forward.
Sent(order, x) == IF x # 0 THEN Swap(order, x, x - 1) ELSE order

\* Correct_table_order: positions whose entry has a link move to the front.
Corrected(table, order, last) ==
  LET pass[i \in 0 .. last] ==
        IF i = 0 THEN [order |-> order, j |-> 0]
        ELSE LET p == pass[i - 1]
             IN  IF Valid_num(table[p.order[i - 1]].link)
                 THEN [order |-> Swap(p.order, i - 1, p.j), j |-> p.j + 1]
                 ELSE p
  IN  pass[last]

-----------------------------------------------------------------------------
(* The neighbours change. *)

\* new_neighbor, with a free entry.
NewNeighbor(i, uid) ==
  /\ fault = "none"
  /\ neighbor[i] = NoUid
  /\ \A j \in Indices : neighbor[j] # uid
  /\ neighbor' = [neighbor EXCEPT ![i] = uid]
  /\ UNCHANGED <<uid_table, table_order, last_table, fault, via, announced, crowded>>

\* new_neighbor, after Del_neighbor(x): the live routes by x lose their link.
\* A neighbour that an earlier deletion lost from the lists (EmsNeighbors) is
\* not found, and gets a second entry.
ReplaceNeighbor(x, uid) ==
  LET table == [e \in Entries |->
                  IF uid_table[e].link = x /\ \E p \in Live(last_table) : table_order[p] = e
                  THEN [uid_table[e] EXCEPT !.link = NONE]
                  ELSE uid_table[e]]
      corrected == Corrected(table, table_order, last_table)
  IN  /\ fault = "none"
      /\ \A j \in Indices : neighbor[j] # NoUid /\ (~ crowded => neighbor[j] # uid)
      /\ neighbor' = [neighbor EXCEPT ![x] = uid]
      /\ uid_table' = table
      /\ table_order' = corrected.order
      /\ last_table' = corrected.j
      /\ crowded' = TRUE
      /\ via' = [e \in Entries |-> NoUid]
      /\ announced' = [u \in Peers |-> NoName]
      /\ UNCHANGED fault

-----------------------------------------------------------------------------
(* The routes change. *)

\* Mutants: the name of the entry's last user stays; a route is not led
\* through another neighbour; the count grows for a known uid too.
register_uid_KeepName(uid, link, name) ==
  LET known == find_table_by_uid(uid_table, table_order, last_table, uid)
      p == IF last_table = UID_TABLE_SIZE THEN last_table - 1 ELSE last_table
      e == IF Valid_num(known) THEN known ELSE table_order[p]
  IN  [entry |-> e,
       table |-> [uid_table EXCEPT ![e] =
                    [uid |-> uid, link |-> link,
                     name |-> IF name = NoName THEN @.name ELSE name]],
       last |-> IF Valid_num(known) THEN last_table ELSE p + 1]

register_uid_KeepLink(uid, link, name) ==
  LET known == find_table_by_uid(uid_table, table_order, last_table, uid)
      p == IF last_table = UID_TABLE_SIZE THEN last_table - 1 ELSE last_table
      e == IF Valid_num(known) THEN known ELSE table_order[p]
      old == IF Valid_num(known) THEN uid_table[e].name ELSE NoName
  IN  [entry |-> e,
       table |-> [uid_table EXCEPT ![e] =
                    [uid |-> uid, link |-> IF Valid_num(known) THEN @.link ELSE link,
                     name |-> IF name = NoName THEN old ELSE name]],
       last |-> IF Valid_num(known) THEN last_table ELSE p + 1]

register_uid_CountKnown(uid, link, name) ==
  LET known == find_table_by_uid(uid_table, table_order, last_table, uid)
      p == IF last_table = UID_TABLE_SIZE THEN last_table - 1 ELSE last_table
      e == IF Valid_num(known) THEN known ELSE table_order[p]
  IN  [entry |-> e,
       table |-> [uid_table EXCEPT ![e] = [uid |-> uid, link |-> link, name |-> name]],
       last |-> last_table + 1]

\* register_uid(uid, link, name), with NoName for NULL: the route of uid, or
\* the next free one, or the least preferred one.
register_uid(uid, link, name) ==
  LET known == find_table_by_uid(uid_table, table_order, last_table, uid)
      p == IF last_table = UID_TABLE_SIZE THEN last_table - 1 ELSE last_table
      e == IF Valid_num(known) THEN known ELSE table_order[p]
      old == IF Valid_num(known) THEN uid_table[e].name ELSE NoName
  IN  [entry |-> e,
       table |-> [uid_table EXCEPT ![e] =
                    [uid |-> uid, link |-> link,
                     name |-> IF name = NoName THEN old ELSE name]],
       last |-> IF Valid_num(known) THEN last_table ELSE p + 1]

\* A handler learns from neighbour link of a route to uid; then it promotes
\* the route, or sends an announcement by it, or both.
Learn(uid, link, name, promote, answer) ==
  LET learnt == register_uid(uid, link, name)
      order == IF promote THEN promote_uid_table(table_order, learnt.entry)
                          ELSE table_order
      x == find_table_by_uid(learnt.table, order, learnt.last, uid)
      sends == answer /\ Valid_num(x)
  IN  /\ fault = "none"
      /\ neighbor[link] # NoUid
      /\ uid_table' = learnt.table
      /\ last_table' = learnt.last
      /\ table_order' = IF sends THEN Sent(order, x) ELSE order
      /\ fault' = IF sends /\ ~ Valid_num(learnt.table[x].link) THEN "wild" ELSE fault
      /\ via' = IF crowded THEN via
                ELSE [via EXCEPT ![learnt.entry] = neighbor[link]]
      /\ announced' = IF crowded \/ name = NoName THEN announced
                      ELSE [announced EXCEPT ![uid] = name]
      /\ UNCHANGED <<neighbor, crowded>>

\* PACKAGE_NAME_REQUEST, PACKAGE_UID_REQUEST: passed on, or answered.
PassRequest(uid, link) == Learn(uid, link, NoName, FALSE, FALSE)
AnswerRequest(uid, link) == Learn(uid, link, NoName, TRUE, TRUE)

\* PACKAGE_NEIGHBOR_REQUEST with a depth.
AnswerDiscovery(uid, link) == Learn(uid, link, NoName, FALSE, TRUE)

\* PACKAGE_ANNOUNCEMENT, with or without a name.
HearAnnouncement(uid, link, name) == Learn(uid, link, name, TRUE, FALSE)

\* A package leaves by entry x of uid_table.
UseEntry(x) ==
  /\ fault = "none"
  /\ table_order' = IF Valid_num(uid_table[x].link) THEN Sent(table_order, x) ELSE table_order
  /\ fault' = IF Valid_num(uid_table[x].link) THEN fault ELSE "wild"
  /\ UNCHANGED <<neighbor, uid_table, last_table, via, announced, crowded>>

\* An acknowledgement, a retransmission, an INTERMEDIATE package passed on.
SendToUid(uid) ==
  LET x == find_table_by_uid(uid_table, table_order, last_table, uid)
  IN  Valid_num(x) /\ UseEntry(x)

\* send_out_by_name and the end of its search for a uid.
SendToName(name) ==
  LET x == find_table_by_name(name)
  IN  Valid_num(x) /\ UseEntry(x)

\* An INTERMEDIATE announcement of src for end: the routes of both are
\* promoted and the package leaves by the one looked up last, that of src,
\* whether or not it was found.
PassAnnouncement(end, src) ==
  LET x == find_table_by_uid(uid_table, table_order, last_table, end)
      first == promote_uid_table(table_order, x)
      y == find_table_by_uid(uid_table, first, last_table, src)
      second == promote_uid_table(first, y)
      sends == Valid_num(y) /\ Valid_num(uid_table[y].link)
  IN  /\ fault = "none" /\ Valid_num(x)
      /\ table_order' = IF ~ Valid_num(y) THEN first
                        ELSE IF sends THEN Sent(second, y) ELSE second
      /\ fault' = IF ~ Valid_num(y) THEN "null" ELSE IF sends THEN fault ELSE "wild"
      /\ UNCHANGED <<neighbor, uid_table, last_table, via, announced, crowded>>

\* A fault is undefined behaviour: nothing is said of what follows.
Next ==
  \/ \E i \in Indices, uid \in Near : NewNeighbor(i, uid)
  \/ \E i \in Indices, uid \in Near : ReplaceNeighbor(i, uid)
  \/ \E uid \in Peers, link \in Indices : PassRequest(uid, link)
  \/ \E uid \in Peers, link \in Indices : AnswerRequest(uid, link)
  \/ \E uid \in Peers, link \in Indices : AnswerDiscovery(uid, link)
  \/ \E uid \in Peers, link \in Indices, name \in Names \cup {NoName} :
       HearAnnouncement(uid, link, name)
  \/ \E uid \in Peers : SendToUid(uid)
  \/ \E name \in Names : SendToName(name)
  \/ \E end, src \in Peers : PassAnnouncement(end, src)

Spec == Init /\ [][Next]_vars

-----------------------------------------------------------------------------
(* Of any node. *)

\* table_order never loses an entry of uid_table and never doubles one.
OrderIsPermutation == {table_order[p] : p \in Entries} = Entries

-----------------------------------------------------------------------------
(* Of a node that never had to replace a neighbour.  On one that did, an   *)
(* entry that lost its link may come back to life: promote_uid_table and   *)
(* send_package_by_table take the number of an entry for its position.     *)

\* A route carries no other name than the one its uid announced last: a
\* message for a name never goes to a node that inherited the entry.
RoutesAreNamedRight ==
  ~ crowded =>
    \A p \in Live(last_table) :
      LET route == uid_table[table_order[p]]
      IN  route.name # NoName => route.name = announced[route.uid]

\* Whatever promotions and sendings do to the preferences, the live routes
\* lead through the neighbour they were learnt from, there is one per uid, and
\* no package is sent by a route without a link.
LiveRoutesAreTrue ==
  ~ crowded =>
    /\ fault # "wild"
    /\ \A p \in Live(last_table) :
         LET e == table_order[p]
         IN  /\ Valid_num(uid_table[e].link)
             /\ neighbor[uid_table[e].link] = via[e]
             /\ via[e] # NoUid
    /\ \A p, q \in Live(last_table) :
         uid_table[table_order[p]].uid = uid_table[table_order[q]].uid => p = q
=============================================================================
