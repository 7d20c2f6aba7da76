------------------------ MODULE MCCoordinationExport ------------------------
(* An instance of CoordinationExport for TLC. *)
EXTENDS CoordinationExport, TLC

CONSTANTS c1, c2, r1, r2

Symmetry == Permutations(Command) \union Permutations(Request)
=============================================================================
