---------------------------- MODULE MCRpcClient -----------------------------
(***************************************************************************)
(* Small instances of RpcClient for TLC.  The cfg files choose the ops: a  *)
(* call has one id, the batch two, a notification none; "back" is the      *)
(* request of a method that the peer called.                               *)
(***************************************************************************)
EXTENDS RpcClient, TLC

CONSTANTS call, batch, notify, back, c1, b1, b2, r1, p1, p2

MCIds   == {c1, b1, b2, r1}
MCIdsOf == [o \in Ops |-> CASE o = call  -> {c1}
                            [] o = batch -> {b1, b2}
                            [] o = back  -> {r1}
                            [] OTHER     -> {}]

\* The method of p1 makes no request, the one of p2 makes "back".
MCReverse == [p \in Procs |-> IF p = p2 THEN back ELSE NoOp]

=============================================================================
