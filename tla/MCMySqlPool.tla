----------------------------- MODULE MCMySqlPool -----------------------------
(***************************************************************************)
(* MySqlPool with the logic worker, which nests, and two gRPC threads.     *)
(***************************************************************************)
EXTENDS MySqlPool
=============================================================================
