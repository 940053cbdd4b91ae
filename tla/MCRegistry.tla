------------------------------ MODULE MCRegistry ------------------------------
(***************************************************************************)
(* Instances of RedisRunRegistry for TLC.  Runtime processes are           *)
(* interchangeable: the scripts only compare owner ids.                    *)
(***************************************************************************)
EXTENDS RedisRunRegistry, TLC

Processes == Permutations(Instances)

=============================================================================
