--------------------------- MODULE ProviderLedger ---------------------------
(***************************************************************************)
(* What a development task promises about its provider calls (docs/        *)
(* contracts/development-cycle-v0.md): each call is reserved, durably,     *)
(* before it is made, is made at most once, and counts against one finite  *)
(* allowance; nothing is called when the task is closed.                   *)
(***************************************************************************)
EXTENDS Naturals

CONSTANT MaxInvocations   \* maximum_invocations of the task

VARIABLES
  reserved,   \* how many calls have been reserved; a call is its ordinal
  calls,      \* calls[n]: how often the n-th call was made
  closed      \* the task has reached a terminal stage

vars == <<reserved, calls, closed>>

Call == 1..MaxInvocations

Init == reserved = 0 /\ calls = [n \in Call |-> 0] /\ closed = FALSE

Reserve ==
  /\ ~closed /\ reserved < MaxInvocations
  /\ reserved' = reserved + 1
  /\ UNCHANGED <<calls, closed>>

(* Only the latest reservation can be used, and once. *)
Launch ==
  /\ ~closed /\ reserved > 0 /\ calls[reserved] = 0
  /\ calls' = [calls EXCEPT ![reserved] = 1]
  /\ UNCHANGED <<reserved, closed>>

Close ==
  /\ ~closed /\ closed' = TRUE
  /\ UNCHANGED <<reserved, calls>>

Next == Reserve \/ Launch \/ Close

Spec == Init /\ [][Next]_vars
=============================================================================
