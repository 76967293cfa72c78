------------------------------ MODULE MCEspLease ------------------------------
(* The firmware lease on a small instance: one session.  The nonces, the      *)
(* forced blocks and the transactions are only compared for equality.         *)
EXTENDS EspLease, TLC

Perms == Permutations(Nonces) \cup Permutations(ForcedBlocks) \cup Permutations(Txs)
=============================================================================
