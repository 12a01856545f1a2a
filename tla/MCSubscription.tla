--------------------------- MODULE MCSubscription ---------------------------
(***************************************************************************)
(* Small instances of Subscription for TLC.                                *)
(***************************************************************************)
EXTENDS Subscription, TLC

CONSTANTS u1, u2

UserSymmetry == Permutations(Users)

=============================================================================
