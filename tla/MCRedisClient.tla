---------------------------- MODULE MCRedisClient ----------------------------
(* Two callers of two commands each, two connections and a pool of one. *)
EXTENDS RedisClient
=============================================================================
