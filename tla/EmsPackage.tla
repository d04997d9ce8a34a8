----------------------------- MODULE EmsPackage -----------------------------
(***************************************************************************)
(* The table of rids of package.c and the way process_package uses it:     *)
(* exists_rid classifies the package received and register_rid remembers   *)
(* it.  The table is RID_BLOCKS rings of RID_QTY rids; register_rid looks  *)
(* at the RID_ROOM youngest rids of the ring before it overwrites the      *)
(* oldest.                                                                 *)
(***************************************************************************)
EXTENDS EmsRid

CONSTANT RID_ROOM       \* 8

ASSUME RoomAssumption == RID_ROOM \in 1 .. RID_QTY

VARIABLES rid_table,    \* rid_table[block][slot]
          last_rid,     \* last_rid[block]: the slot written last
          age,          \* history: see EmsOnce
          verdict       \* history: what was done with the last package

ridVars == <<rid_table, last_rid, age, verdict>>

RidSlots == 0 .. RID_QTY - 1

Once == INSTANCE EmsOnce

\* The tables of package.c and the ages.
RidTypeOK ==
  /\ rid_table \in [Blocks -> [RidSlots -> Rids]]
  /\ last_rid \in [Blocks -> RidSlots]
  /\ Once!TypeOK

RidInit ==
  /\ rid_table = [b \in Blocks |-> [i \in RidSlots |-> ZeroRid]]
  /\ last_rid = [b \in Blocks |-> 0]
  /\ Once!Init

\* The slot written d registrations before slot last.
Back(last, d) == (last - d) % RID_QTY

\* 1: this transmission is in the table; 2: another one of the package is.
exists_rid(rid) ==
  LET ring == rid_table[RidHash(rid)]
  IN  IF \E i \in RidSlots : ring[i] = rid THEN 1
      ELSE IF \E i \in RidSlots : SamePackage(ring[i], rid) THEN 2
      ELSE 0

InRoom(rid) ==
  LET b == RidHash(rid)
  IN  \E d \in 0 .. RID_ROOM - 1 : rid_table[b][Back(last_rid[b], d)] = rid

\* Mutant: the rid is written to the slot in use before the ring moves on.
register_rid_WriteThenAdvance(rid) ==
  LET b == RidHash(rid)
      last == last_rid[b]
  IN  IF InRoom(rid)
      THEN UNCHANGED <<rid_table, last_rid>>
      ELSE /\ last_rid' = [last_rid EXCEPT ![b] = (last + 1) % RID_QTY]
           /\ rid_table' = [rid_table EXCEPT ![b][last] = rid]

\* Mutant: the ring does not wrap.
register_rid_NoWrap(rid) ==
  LET b == RidHash(rid)
      next == last_rid[b] + 1
  IN  IF InRoom(rid)
      THEN UNCHANGED <<rid_table, last_rid>>
      ELSE /\ last_rid' = [last_rid EXCEPT ![b] = next]
           /\ rid_table' = [rid_table EXCEPT ![b][next] = rid]

register_rid(rid) ==
  LET b == RidHash(rid)
      next == (last_rid[b] + 1) % RID_QTY
  IN  IF InRoom(rid)
      THEN UNCHANGED <<rid_table, last_rid>>
      ELSE /\ last_rid' = [last_rid EXCEPT ![b] = next]
           /\ rid_table' = [rid_table EXCEPT ![b][next] = rid]

\* process_package registers rid and does what "is" names with the package.
Register(rid, is) ==
  /\ register_rid(rid)
  /\ age' = Once!Aged(rid)
  /\ verdict' = [rid |-> rid, is |-> is]

\* process_package leaves the table alone.
Leave(rid, is) ==
  /\ UNCHANGED <<rid_table, last_rid, age>>
  /\ verdict' = [rid |-> rid, is |-> is]

\* e_rid == 1: return at once.
Drop(rid) == exists_rid(rid) = 1 /\ Leave(rid, "dropped")

\* An INTERMEDIATE package is registered and passed on whether or not
\* another transmission of it was seen.
Relay(rid) == exists_rid(rid) # 1 /\ Register(rid, "relayed")

\* Mutant: an exact repetition is taken for a new transmission.
Again_AnyKnown(rid) == exists_rid(rid) # 0 /\ Register(rid, "again")

\* e_rid == 2: register, acknowledge, return.
Again(rid) == exists_rid(rid) = 2 /\ Register(rid, "again")

\* e_rid == 0 and the type or the sender lets the package be processed.
Process(rid) == exists_rid(rid) = 0 /\ Register(rid, "processed")

\* e_rid == 0 and the sender is no neighbour yet: the package is not
\* registered, so that its next transmission is processed.
Defer(rid) == exists_rid(rid) = 0 /\ Leave(rid, "deferred")

RidNext == \E rid \in Rids : \/ Drop(rid) \/ Relay(rid) \/ Again(rid)
                             \/ Process(rid) \/ Defer(rid)

RidSpec == RidInit /\ [][RidNext]_ridVars

-----------------------------------------------------------------------------
\* A rid sits in the table exactly where its age says: the ring forgets the
\* oldest registration and no other (package.c, register_rid).
RingHoldsRecent ==
  \A rid \in Rids : age[rid] < RID_QTY =>
    LET b == RidHash(rid) IN rid_table[b][Back(last_rid[b], age[rid])] = rid

\* Nothing is in the table that was not registered within the window, but
\* for the zero rid of a fresh table: no package is dropped or acknowledged
\* by mistake (package.c, exists_rid).
RingHoldsOnlyRecent ==
  \A b \in Blocks, i \in RidSlots :
    LET rid == rid_table[b][i]
    IN  \/ rid = ZeroRid
        \/ RidHash(rid) = b /\ Back(last_rid[b], age[rid]) = i /\ age[rid] < RID_QTY

\* The table is the window of the last RID_QTY registrations of each block.
\* register_rid by itself does not make it so: it looks only at the RID_ROOM
\* youngest rids for the one it is given, and what it finds it leaves where it
\* is.  It takes callers that have asked exists_rid, which looks at all, first.
RingIsWindow == RingHoldsRecent /\ RingHoldsOnlyRecent

\* The table implements the promise of EmsOnce: inside the window of RID_QTY
\* registrations a transmission is handled once and a package is processed
\* once.
ImplementsOnce == Once!Spec
=============================================================================
