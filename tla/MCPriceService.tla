---------------------------- MODULE MCPriceService ----------------------------
(* Three handlers of one worker process: two ask for one token, one for both,  *)
(* so that they meet in the limiter's queue and in Redis.                      *)
EXTENDS PriceService

CONSTANTS w1, c1, c2, c3, t1, t2

MCWorkerOf == [c \in Caller |-> w1]

MCMints == [c \in Caller |-> CASE c = c1 -> <<t1, t2>> [] c = c2 -> <<t2>> [] c = c3 -> <<t1>>]

\* One token has a price, one is not listed yet.
MCFirstQuote == [t \in Token |-> IF t = t1 THEN 1 ELSE 0]
===============================================================================
