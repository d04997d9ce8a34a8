------------------------------ MODULE MCFlasher ------------------------------
(***************************************************************************)
(* Flasher for TLC: bytes of two bits, words of two bytes, blocks of three *)
(* words and banks of four.  The files have two blocks, the second of      *)
(* which crosses into the next bank; it may be short, and either may be    *)
(* like the other, like erased memory or a part of it.                     *)
(***************************************************************************)
EXTENDS Flasher, Bitwise

MCBoth(a, b) == a & b

Blocks == {<<0, 0, 3, 3, 0, 1>>, <<3, 0, 3, 3, 3, 3>>, <<3, 3, 3, 3, 3, 3>>, <<0, 0, 0, 0, 0, 0>>}
MCFiles == {b \o c : b \in Blocks, c \in Blocks}
           \cup {b \o SubSeq(c, 1, 3) : b \in Blocks, c \in Blocks}
=============================================================================
