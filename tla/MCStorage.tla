----------------------------- MODULE MCStorage -----------------------------
(* Instances of Storage for TLC.                                           *)
EXTENDS Storage, TLC

CONSTANTS v1, v2

StorageSymmetry == Permutations({v1, v2})
=============================================================================
