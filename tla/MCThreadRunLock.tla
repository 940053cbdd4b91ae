---------------------------- MODULE MCThreadRunLock ----------------------------
(***************************************************************************)
(* Two calls in one process and one in another.                            *)
(***************************************************************************)
EXTENDS ThreadRunLock, TLC

CONSTANTS c1, c2, c3, p1, p2

MCHome == (c1 :> p1) @@ (c2 :> p1) @@ (c3 :> p2)

=============================================================================
