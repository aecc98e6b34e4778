---------------------------- MODULE MCCAService ----------------------------
(***************************************************************************)
(* A small instance of CAService: a minute of one second, serials of two   *)
(* seconds by two nonces, requests for no, one, too many or fewer minutes. *)
(***************************************************************************)
EXTENDS CAService, TLC

CONSTANTS i1, c1, c2, k1, k2

OneHome == (c1 :> i1) @@ (c2 :> i1)

Durations == {-1, 0, 1, 3}

\* Callers of one process, and keys, are alike.
Alike == Permutations({c1, c2}) \cup Permutations({k1, k2})
=============================================================================
