------------------------------- MODULE EmsRid -------------------------------
(***************************************************************************)
(* The random identifier (rid) every EMS package carries: 32 bits whose    *)
(* low byte, the flexible part, counts the transmissions of one package    *)
(* and whose other bits, the fixed part, name the package.                 *)
(***************************************************************************)
EXTENDS Integers

CONSTANTS FIXED,        \* number of values of the fixed part (2^24 in the code)
          FLEX,         \* number of values of the flexible part (256)
          RID_BLOCKS,   \* blocks of the table of rids (8)
          RID_QTY       \* rids a block remembers (16)

ASSUME RidAssumption ==
  /\ FIXED \in Nat \ {0}
  /\ FLEX \in Nat \ {0}
  /\ RID_BLOCKS \in Nat \ {0}
  /\ RID_QTY \in Nat \ {0}

Rids == [fixed : 0 .. FIXED - 1, flex : 0 .. FLEX - 1]

Blocks == 0 .. RID_BLOCKS - 1

\* The block of the table a rid belongs to: the low bits of its fixed part.
RidHash(rid) == rid.fixed % RID_BLOCKS

\* Two rids of the same package: only the flexible part may differ.
SamePackage(rid, other) == rid.fixed = other.fixed

\* The next transmission of a package; the flexible part wraps.
RidInc(rid) == [rid EXCEPT !.flex = (@ + 1) % FLEX]

\* The rid of a table nobody has written: the C runtime zeroes rid_table.
ZeroRid == [fixed |-> 0, flex |-> 0]
=============================================================================
