------------------------------ MODULE MCTxSend ------------------------------
(***************************************************************************)
(* A small instance of TxSend for TLC.                                     *)
(***************************************************************************)
EXTENDS TxSend, TLC

CONSTANTS s1, s2, p1, p2, n1, n2

Symmetry == Permutations(Senders) \cup Permutations(Payloads) \cup Permutations(Nodes)

=============================================================================
