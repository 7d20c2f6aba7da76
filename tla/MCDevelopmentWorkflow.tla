----------------------- MODULE MCDevelopmentWorkflow -----------------------
(* DevelopmentWorkflow with handlers as model values. *)
EXTENDS DevelopmentInv

CONSTANTS h1, h2
=============================================================================
