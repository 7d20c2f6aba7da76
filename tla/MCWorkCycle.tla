---------------------------- MODULE MCWorkCycle ----------------------------
(* Instances of WorkCycle for TLC. *)
EXTENDS WorkCycleInv, TLC

CONSTANTS t1, t2, op, m1, m2, m3, s1, s2

OneRoot == [p \in Proc |-> "root"]
TwoRoots == [p \in Proc |-> IF p = t1 THEN "root" ELSE "other root"]

AllTasks == [m \in Message |-> "task"]
MixedKinds ==
  [m \in Message |-> CASE m = m1 -> "task" [] m = m2 -> "stop" [] m = m3 -> "other"]
RankOf == [m \in Message |-> CASE m = m1 -> 1 [] m = m2 -> 2 [] m = m3 -> 3]
=============================================================================
