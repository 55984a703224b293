---------------------------- MODULE MCRedisLoss -----------------------------
(* A small instance of RedisLoss: all runs share one thread.               *)
EXTENDS RedisLoss

CONSTANT t1

OneThread == [r \in Runs |-> t1]
=============================================================================
