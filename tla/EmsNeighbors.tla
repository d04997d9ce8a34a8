---------------------------- MODULE EmsNeighbors ----------------------------
(***************************************************************************)
(* The neighbours of an EMS node (transmission.c).  They live in an array  *)
(* whose entries neighbor_next and neighbor_prev link into one list per    *)
(* value of the hash of their uid and, for the free entries, into a trash  *)
(* list.  What the loss of a neighbour does to the routes is in EmsRoutes. *)
(*                                                                         *)
(* Uids are positive numbers that stand for their last byte; NONE is the   *)
(* 255 that means "no index" and "no time" and is also the largest count   *)
(* of a uint8_t.                                                           *)
(***************************************************************************)
EXTENDS Integers, FiniteSets

CONSTANTS NEIGHBORHOOD_SIZE,        \* entries (8)
          NEIGHBORHOOD_HEAD_SIZE,   \* lists (4)
          NEIGHBOR_GOOD_TILL,       \* me.neighbor_good_till (30)
          NONE,                     \* 255
          Near                      \* the uids this node hears directly

ASSUME NeighborsAssumption ==
  /\ NEIGHBORHOOD_SIZE \in Nat \ {0}
  /\ NEIGHBORHOOD_HEAD_SIZE \in Nat \ {0}
  /\ NEIGHBOR_GOOD_TILL \in Nat
  /\ NONE \in Nat /\ NONE >= NEIGHBORHOOD_SIZE
  /\ Near \subseteq Nat \ {0}

VARIABLES
  nb,       \* neighbor_head, neighbor, neighbor_prev, neighbor_next, neighbor_time
  count,    \* the static counter of check_transmission
  asked,    \* the neighbours the last check_transmission asked for a sign of life
  hung,     \* a search has come to a list without end and never returns
  heard     \* history: the uids ever registered

vars == <<nb, count, asked, hung, heard>>

Indices == 0 .. NEIGHBORHOOD_SIZE - 1
Heads == 0 .. NEIGHBORHOOD_HEAD_SIZE
Trash == NEIGHBORHOOD_HEAD_SIZE             \* Neighbor_head_trash is the last head
Index == Indices \cup {NONE}
NoUid == 0

Valid_num(x) == x # NONE

Hash(uid) == uid % NEIGHBORHOOD_HEAD_SIZE

\* The arrays of indices and times of transmission.c.
TypeOK ==
  /\ nb \in [head : [Heads -> Index], uid : [Indices -> Near \cup {NoUid}],
             prev : [Indices -> Index], next : [Indices -> Index],
             time : [Indices -> 0 .. NONE]]
  /\ count \in 0 .. NEIGHBOR_GOOD_TILL \div 2
  /\ asked \subseteq Indices
  /\ hung \in BOOLEAN
  /\ heard \subseteq Near

\* Nothing initialises neighbor_prev: it is zero.
Init ==
  /\ nb = [head |-> [h \in Heads |-> IF h = Trash THEN 0 ELSE NONE],
           uid  |-> [i \in Indices |-> NoUid],
           prev |-> [i \in Indices |-> 0],
           next |-> [i \in Indices |-> IF i + 1 \in Indices THEN i + 1 ELSE NONE],
           time |-> [i \in Indices |-> NONE]]
  /\ count = 0
  /\ asked = {}
  /\ hung = FALSE
  /\ heard = {}

-----------------------------------------------------------------------------
\* Where a search of list h of n is after 0, 1, ..., NEIGHBORHOOD_SIZE steps.
Walk(n, h) ==
  LET at[k \in 0 .. NEIGHBORHOOD_SIZE] ==
        IF k = 0 THEN n.head[h]
        ELSE LET i == at[k - 1] IN IF Valid_num(i) THEN n.next[i] ELSE NONE
  IN  at

\* The first index of the list of uid that holds uid, or NONE.
find_neighbor(n, uid) ==
  LET at == Walk(n, Hash(uid))
      hits == {k \in 0 .. NEIGHBORHOOD_SIZE : Valid_num(at[k]) /\ n.uid[at[k]] = uid}
  IN  IF hits = {} THEN NONE ELSE at[CHOOSE k \in hits : \A j \in hits : k <= j]

\* A walk as long as the array that has not ended goes in circles.
Endless(n, h) == Valid_num(Walk(n, h)[NEIGHBORHOOD_SIZE])

\* Without a hit in a list without end find_neighbor does not return.
Hangs(n, uid) == find_neighbor(n, uid) = NONE /\ Endless(n, Hash(uid))

\* new_neighbor gives up the first entry with the largest time.
Oldest(n) ==
  CHOOSE i \in Indices : /\ \A j \in Indices : n.time[j] <= n.time[i]
                         /\ \A j \in 0 .. i - 1 : n.time[j] < n.time[i]

Del_neighbor(n, x) ==
  LET passed == IF Valid_num(n.prev[x])
                THEN [n EXCEPT !.next[n.prev[x]] = n.next[x]]
                ELSE [n EXCEPT !.head[Hash(n.uid[x])] = n.next[x]]
      back == IF Valid_num(passed.next[x])
              THEN [passed EXCEPT !.prev[passed.next[x]] = passed.prev[x]]
              ELSE passed
  IN  [back EXCEPT !.next[x] = back.head[Trash], !.time[x] = NONE, !.head[Trash] = x]

\* Mutant: the old first entry does not learn of the new one.
TakeFree_NoBack(n, uid) ==
  LET ret == n.head[Trash]
  IN  [n EXCEPT !.head[Trash] = n.next[ret], !.next[ret] = n.head[Hash(uid)],
                !.head[Hash(uid)] = ret, !.time[ret] = 0, !.uid[ret] = uid]

\* Mutant: the list is chosen before the uid is stored.
TakeFree_OldUid(n, uid) ==
  LET ret == n.head[Trash]
      h == Hash(n.uid[ret])
      first == n.head[h]
      back == IF Valid_num(first) THEN [n EXCEPT !.prev[first] = ret] ELSE n
  IN  [back EXCEPT !.head[Trash] = n.next[ret], !.next[ret] = first,
                   !.head[h] = ret, !.time[ret] = 0, !.uid[ret] = uid]

\* new_neighbor takes the first free entry and puts it first in its list.
TakeFree(n, uid) ==
  LET ret == n.head[Trash]
      first == n.head[Hash(uid)]
      back == IF Valid_num(first) THEN [n EXCEPT !.prev[first] = ret] ELSE n
  IN  [back EXCEPT !.head[Trash] = n.next[ret], !.next[ret] = first,
                   !.head[Hash(uid)] = ret, !.time[ret] = 0, !.uid[ret] = uid]

new_neighbor(n, uid) ==
  TakeFree(IF Valid_num(n.head[Trash]) THEN n ELSE Del_neighbor(n, Oldest(n)), uid)

-----------------------------------------------------------------------------
\* Mutant: the neighbour is not looked up first.
register_neighbor_Blind(uid) ==
  /\ ~ hung /\ ~ Hangs(nb, uid)
  /\ nb' = new_neighbor(nb, uid)
  /\ heard' = heard \cup {uid}
  /\ UNCHANGED <<count, asked, hung>>

\* PACKAGE_ECHO and PACKAGE_REECHO.
register_neighbor(uid) ==
  LET loc == find_neighbor(nb, uid)
  IN  /\ ~ hung /\ ~ Hangs(nb, uid)
      /\ nb' = IF Valid_num(loc) THEN [nb EXCEPT !.time[loc] = 0]
                                 ELSE new_neighbor(nb, uid)
      /\ heard' = heard \cup {uid}
      /\ UNCHANGED <<count, asked, hung>>

\* process_package looks up the sender of every package.
Hang(uid) ==
  /\ ~ hung /\ Hangs(nb, uid)
  /\ hung' = TRUE
  /\ UNCHANGED <<nb, count, asked, heard>>

\* Mutant: the counter is not put back.
check_transmission_NoReset ==
  /\ ~ hung
  /\ nb' = [nb EXCEPT !.time = [i \in Indices |->
              IF Valid_num(nb.time[i]) THEN nb.time[i] + 1 ELSE NONE]]
  /\ count' = count + 1
  /\ asked' = {}
  /\ UNCHANGED <<hung, heard>>

\* Every second.  The branch that would delete a neighbour comes after the
\* one that asks it, whose condition is the weaker: it is never taken.
check_transmission ==
  LET time == [i \in Indices |->
                 IF Valid_num(nb.time[i]) THEN nb.time[i] + 1 ELSE NONE]
      all == count = NEIGHBOR_GOOD_TILL \div 2
  IN  /\ ~ hung
      /\ nb' = [nb EXCEPT !.time = time]
      /\ count' = IF all THEN 0 ELSE count + 1
      /\ asked' = {i \in Indices : Valid_num(nb.time[i]) /\ time[i] > NEIGHBOR_GOOD_TILL}
      /\ UNCHANGED <<hung, heard>>

Next ==
  \/ \E uid \in Near : register_neighbor(uid)
  \/ \E uid \in Near : Hang(uid)
  \/ check_transmission

Spec == Init /\ [][Next]_vars

-----------------------------------------------------------------------------
\* The node has not heard of more neighbours than it has entries for.
Few == Cardinality(heard) <= NEIGHBORHOOD_SIZE

ListOf(h) == {Walk(nb, h)[k] : k \in 0 .. NEIGHBORHOOD_SIZE} \ {NONE}

\* With few neighbours every list ends, every entry is in exactly one, the
\* free ones in the trash and the others in the list of their uid; the way
\* back agrees with the way forth.
ListsAreSound ==
  Few =>
    /\ \A h \in Heads : ~ Endless(nb, h)
    /\ \A i \in Indices : Cardinality({h \in Heads : i \in ListOf(h)}) = 1
    /\ \A h \in Heads \ {Trash} : \A i \in ListOf(h) :
         /\ Hash(nb.uid[i]) = h
         /\ Valid_num(nb.next[i]) => nb.prev[nb.next[i]] = i

\* With few neighbours a look-up finds those heard of, each in an entry of its
\* own, and no others; none is ever forgotten, and only they are asked for a
\* sign of life.
HeardIsFound ==
  Few =>
    /\ \A uid \in Near :
         LET i == find_neighbor(nb, uid)
         IN  IF uid \in heard THEN {j \in Indices : nb.uid[j] = uid} = {i}
                              ELSE i = NONE
    /\ \A i \in asked : nb.uid[i] \in heard

\* Of any node, the damaged lists of one with many neighbours included: a
\* neighbour just registered is found by the next look-up.
RegisteredIsFound ==
  [][\A uid \in Near : register_neighbor(uid) =>
       LET i == find_neighbor(nb', uid)
       IN  i # NONE /\ nb'.uid[i] = uid /\ nb'.time[i] = 0]_vars
=============================================================================
