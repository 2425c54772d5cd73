--------------------------- MODULE MCBinaryCache ---------------------------
(* Three requests: one that stages a binary and two that overlap after it. *)
EXTENDS BinaryCache, TLC

Symmetry == Permutations(Request)
=============================================================================
