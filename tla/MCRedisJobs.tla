---------------------------- MODULE MCRedisJobs ----------------------------
(* A small instance of the Redis job queue: one queue, an urgent job j1 that *)
(* may be tried once and another that may be tried twice, one shared key.    *)
EXTENDS RedisJobs

CONSTANTS j1, j2

OneQueue == [j \in Jobs |-> "steps"]
FirstUrgent == [j \in Jobs |-> IF j = j1 THEN 1 ELSE 0]
SharedKey == [j \in Jobs |-> "key"]
OnceThenTwice == [j \in Jobs |-> IF j = j1 THEN 1 ELSE 2]
=============================================================================
