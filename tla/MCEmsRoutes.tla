----------------------------- MODULE MCEmsRoutes -----------------------------
(***************************************************************************)
(* EmsRoutes with interchangeable neighbours and interchangeable ends of   *)
(* routes: a route's end plays no part in the choice of its neighbour.     *)
(***************************************************************************)
EXTENDS EmsRoutes, TLC

Interchangeable == Permutations(Near) \cup Permutations(Peers)
=============================================================================
