--------------------------- MODULE MCStatusFile ---------------------------
(* Instances of StatusFile for TLC. *)
EXTENDS StatusFile, TLC

CONSTANTS w1, w2, w3

TickSymmetry == Permutations(Tick)
=============================================================================
