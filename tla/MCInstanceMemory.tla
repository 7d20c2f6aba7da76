-------------------------- MODULE MCInstanceMemory --------------------------
(* Instances of InstanceMemory for TLC: a checkout that publishes its        *)
(* memory, and one that recovers it and publishes its own.                   *)
EXTENDS InstanceMemory, TLC

CONSTANTS c1, c2, o1, outsider

CallsOf == (c1 :> {"checkpoint", "synchronize"}) @@ (c2 :> {"checkpoint", "synchronize", "reconcile", "recover"})
CommitsOf == (c1 :> 2) @@ (c2 :> 1)
=============================================================================
