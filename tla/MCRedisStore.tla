--------------------------- MODULE MCRedisStore ---------------------------
(***************************************************************************)
(* Instances of the Redis store: two sessions whose calls overlap.         *)
(***************************************************************************)
EXTENDS RedisStore, TLC

SymmetricSessions == Permutations(Keys)
============================================================================
