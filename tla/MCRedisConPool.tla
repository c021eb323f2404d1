--------------------------- MODULE MCRedisConPool ---------------------------
(***************************************************************************)
(* RedisConPool with fewer connections than users.                         *)
(***************************************************************************)
EXTENDS RedisConPool
=============================================================================
