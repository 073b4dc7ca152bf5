----------------------------- MODULE MCTxQueue -----------------------------
(* TxQueue on small pools, queues and counters.                            *)
EXTENDS TxQueue, TLC

Symmetry == Permutations(Buffers) \cup Permutations(Queues)
============================================================================
