--------------------------- MODULE MCRequestPath ----------------------------
(***************************************************************************)
(* Finite instances of RequestPath for TLC.                                *)
(***************************************************************************)
EXTENDS ReplyInvariant, PoolInvariant, TLC

\* The sockets are alike, and so are the objects of each pool.
Symmetry == Permutations(Sockets) \cup Permutations(Slots)
            \cup Permutations(Chunks) \cup Permutations(Jobs)
=============================================================================
