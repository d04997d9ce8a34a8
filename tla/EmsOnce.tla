------------------------------- MODULE EmsOnce -------------------------------
(***************************************************************************)
(* What a node promises about repeated packages, without the table that    *)
(* implements it.  age[rid] is the number of rids of the same block the    *)
(* node has registered after rid, RID_QTY standing for "that many, more,   *)
(* or rid was never registered".  Inside that window a transmission is     *)
(* handled once, and a package is processed once however often it is sent. *)
(* The fixed part 0 is the exception the code makes: a zeroed table already *)
(* holds it.                                                               *)
(***************************************************************************)
EXTENDS EmsRid

VARIABLES age,      \* [Rids -> 0 .. RID_QTY]
          verdict   \* what was done with the last package received

vars == <<age, verdict>>

Verdicts == [rid : Rids, is : {"dropped", "again", "relayed", "processed", "deferred"}]

NoVerdict == [rid |-> ZeroRid, is |-> "none"]

\* Ages and verdict.
TypeOK ==
  /\ age \in [Rids -> 0 .. RID_QTY]
  /\ verdict \in Verdicts \cup {NoVerdict}

Init ==
  /\ age = [rid \in Rids |-> RID_QTY]
  /\ verdict = NoVerdict

Recent(rid) == age[rid] < RID_QTY

RecentPackage(rid) == \E other \in Rids : SamePackage(rid, other) /\ Recent(other)

\* rid becomes the youngest of its block, the others grow older.
Aged(rid) ==
  [other \in Rids |->
     IF other = rid THEN 0
     ELSE IF RidHash(other) = RidHash(rid) /\ age[other] < RID_QTY
          THEN age[other] + 1
          ELSE age[other]]

\* A package is ignored only if this very transmission was seen.
Drop(rid) ==
  /\ Recent(rid) \/ rid = ZeroRid
  /\ verdict' = [rid |-> rid, is |-> "dropped"]
  /\ UNCHANGED age

\* A package is acknowledged and not processed only if an earlier
\* transmission of it was seen.
Again(rid) ==
  /\ ~ Recent(rid)
  /\ RecentPackage(rid) \/ rid.fixed = 0
  /\ verdict' = [rid |-> rid, is |-> "again"]
  /\ age' = Aged(rid)

\* A package for another node is passed on once per transmission.
Relay(rid) ==
  /\ ~ Recent(rid)
  /\ verdict' = [rid |-> rid, is |-> "relayed"]
  /\ age' = Aged(rid)

\* A package is processed only if no transmission of it was seen.
Process(rid) ==
  /\ ~ RecentPackage(rid)
  /\ verdict' = [rid |-> rid, is |-> "processed"]
  /\ age' = Aged(rid)

\* A package of a stranger is left for its next transmission.
Defer(rid) ==
  /\ ~ RecentPackage(rid)
  /\ verdict' = [rid |-> rid, is |-> "deferred"]
  /\ UNCHANGED age

Next == \E rid \in Rids : \/ Drop(rid) \/ Again(rid) \/ Relay(rid)
                          \/ Process(rid) \/ Defer(rid)

Spec == Init /\ [][Next]_vars
=============================================================================
