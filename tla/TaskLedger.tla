----------------------------- MODULE TaskLedger -----------------------------
(***************************************************************************)
(* What the reader progress of an Instance promises, with no ticks, locks, *)
(* commits or faults in it.  Each message goes through                     *)
(*                                                                         *)
(*    unseen -> claimed -> completed | failed | stopped                    *)
(*                      -> unresolved -> failed (by an operator only)      *)
(*                                                                         *)
(* and "runs" counts how often its handler was called.  A message is       *)
(* claimed only while no other one bars the way, and a handler is called   *)
(* only for a claimed message and only once.  WorkCycle implements this.   *)
(***************************************************************************)
EXTENDS ReaderProgress

VARIABLES tasks, runs

vars == <<tasks, runs>>

Init == tasks = NoTasks /\ runs = [m \in Message |-> 0]

Claim(m) ==
  /\ Barriers(tasks) = {} /\ HasBudget(tasks)
  /\ tasks[m] = "unseen"
  /\ tasks' = [tasks EXCEPT ![m] = "claimed"]
  /\ UNCHANGED runs

Dispatch(m) ==
  /\ tasks[m] = "claimed" /\ runs[m] = 0
  /\ runs' = [runs EXCEPT ![m] = 1]
  /\ UNCHANGED tasks

(* Only a handler that ran can have completed the task. *)
Finish(m, d) ==
  /\ tasks[m] = "claimed"
  /\ d = "completed" => runs[m] = 1
  /\ tasks' = [tasks EXCEPT ![m] = d]
  /\ UNCHANGED runs

Reconcile(m) ==
  /\ tasks[m] = "unresolved"
  /\ tasks' = [tasks EXCEPT ![m] = "failed"]
  /\ UNCHANGED runs

Next ==
  \E m \in Message :
    \/ Claim(m)
    \/ Dispatch(m)
    \/ \E d \in FinalDisposition : Finish(m, d)
    \/ Reconcile(m)

Spec == Init /\ [][Next]_vars
=============================================================================
