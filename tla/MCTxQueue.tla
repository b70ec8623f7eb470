----------------------------- MODULE MCTxQueue -----------------------------
(* An instance of TxQueue for TLC: an ordinary message, a malformed one and *)
(* one that arrives with all its attempts used up.                          *)
EXTENDS TxQueue, TLC

CONSTANTS tx, bad, old, c1, c2, c3, c4, w1, w2

MCMsg == {tx, bad, old}
MCMalformed == {bad} \cap Msg
MCFirstAttempt == [m \in Msg |-> IF m = old THEN MaxRetries ELSE 0]

Symmetry == Permutations(Copy) \cup Permutations(Worker)
=============================================================================
