---------------------------- MODULE MCUtilities -----------------------------
(***************************************************************************)
(* Small instances of the utilities for TLC.                               *)
(***************************************************************************)
EXTENDS Utilities, TLC

CONSTANTS i1, i2, i3, p1, p2, p3

CallerSymmetry == Permutations(Callers)

=============================================================================
