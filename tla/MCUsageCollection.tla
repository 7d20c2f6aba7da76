------------------------- MODULE MCUsageCollection -------------------------
(* Instances of UsageCollection for TLC. *)
EXTENDS UsageCollection, TLC

CONSTANTS c1, c2, r1

Text(type, tokens, windows) == [type |-> type, session |-> "own", tokens |-> tokens, windows |-> windows]

(* A call with a reading above the threshold, and a call with one below it.   *)
CountLines == <<Text("count", TRUE, "above"), Text("count", TRUE, "below")>>
Identity == [environment_id |-> "env", instance_id |-> "inst", session_id |-> "own"]
CountConfig == Identity @@ [source_format |-> "count", conservative |-> TRUE]
OneProfile == [c \in Reporting |-> Identity @@ [active |-> TRUE]]
BothTurns == [r \in Run |-> {1, 2}]
=============================================================================
