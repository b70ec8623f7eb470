----------------------------- MODULE MCIndexer -----------------------------
(* An instance of Indexer for TLC: the worker writes one row for the first  *)
(* transaction, two for the second, none for the third, and so on.          *)
EXTENDS Indexer

CONSTANTS k1, k2

MCRows == [t \in Tx |-> t % 3]
=============================================================================
