----------------------------- MODULE MCChainSDK -----------------------------
(***************************************************************************)
(* Small instances of ChainSDK for TLC.  Selectors are interchangeable:    *)
(* nothing compares them, so permuting them is a symmetry.                 *)
(***************************************************************************)
EXTENDS ChainSDK, TLC

SelectorSymmetry == Permutations(Selectors)

=============================================================================
