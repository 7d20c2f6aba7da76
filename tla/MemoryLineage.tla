---------------------------- MODULE MemoryLineage ----------------------------
(***************************************************************************)
(* What the memory of one Instance promises, whatever is checkpointed,     *)
(* pushed, given up or recovered: the memory of a checkout and that of the *)
(* remote only grow, nothing is published that no checkout has had, and a  *)
(* checkout takes over only what the remote has.                           *)
(***************************************************************************)
EXTENDS SequencesExt

CONSTANTS
  Checkout,      \* the checkouts of the Instance's environment
  Outsider       \* whoever else may push to the remote

VARIABLES local, remote

lineageVars == <<local, remote>>

Init ==
  /\ local = [c \in Checkout |-> <<>>]
  /\ remote = <<>>

Checkpoint(c) ==
  /\ local' = [local EXCEPT ![c] = Append(@, c)]
  /\ UNCHANGED remote

Publish ==
  /\ \E c \in Checkout : remote' \in {SubSeq(local[c], 1, n) : n \in 1 .. Len(local[c])}
  /\ IsStrictPrefix(remote, remote')
  /\ UNCHANGED local

(* The memory that is taken over holds nobody else's commits. *)
Recover(c) ==
  /\ \E n \in 1 .. Len(remote) : local' = [local EXCEPT ![c] = SubSeq(remote, 1, n)]
  /\ IsStrictPrefix(local[c], local'[c])
  /\ Outsider \notin ToSet(local'[c])
  /\ UNCHANGED remote

Intrude ==
  /\ remote' = Append(remote, Outsider)
  /\ UNCHANGED local

Next == Publish \/ Intrude \/ \E c \in Checkout : Checkpoint(c) \/ Recover(c)

Spec == Init /\ [][Next]_lineageVars
=============================================================================
