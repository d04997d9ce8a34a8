----------------------------- MODULE MCEmsMesh -----------------------------
(***************************************************************************)
(* EmsMesh for TLC: the messages of There go from A to B, the others from  *)
(* B to A; the first are sent twice at most, the others once.  The rids of *)
(* acknowledgements are interchangeable.                                   *)
(***************************************************************************)
EXTENDS EmsMesh, TLC

CONSTANTS A, B, There

MCSource == [m \in Messages |-> IF m \in There THEN A ELSE B]
MCMOST == [m \in Messages |-> IF m \in There THEN 2 ELSE 1]
MCTarget == [m \in Messages |-> IF m \in There THEN B ELSE A]

Interchangeable == Permutations(Acks)
=============================================================================
