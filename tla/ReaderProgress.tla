--------------------------- MODULE ReaderProgress ---------------------------
(***************************************************************************)
(* The reader progress record of one PeopleBot Instance (work_cycle.py):   *)
(* the durable account of what happened to every message the Instance was  *)
(* sent.  It is the content of one Git commit under refs/peoplebot; the    *)
(* commit a save expects is its parent.  A ref that is only ever moved     *)
(* from a commit to a child of that commit has one commit per depth, so    *)
(* the depth "ver" stands for the commit id (0: the ref does not exist).   *)
(***************************************************************************)
EXTENDS Integers, FiniteSets

CONSTANTS
  Message,        \* messages a peer may address to this Instance
  Source,         \* peer message refs the Instance reads
  MaxCompleted    \* TaskPolicy.maximum_completed_tasks

(* TaskDisposition, and "unseen" for a message that has no TaskProgress. *)
Disposition ==
  {"unseen", "claimed", "completed", "failed", "unresolved", "stopped"}

(* What a handler, and so a final TaskProgress, may say. *)
FinalDisposition == {"completed", "failed", "unresolved", "stopped"}

(* Dispositions that make the next tick halt before it reads anything. *)
BarrierDisposition == {"claimed", "unresolved", "stopped"}

(* Dispositions counted against the policy's maximum. *)
CompletedDisposition == {"completed", "failed"}

Tasks == [Message -> Disposition]

(* A reviewed reconciliation names the exact progress commit and task. *)
Reconciliation == [ver : Nat, msg : Message]

Progress ==
  [ver : Nat, tasks : Tasks, cursors : [Source -> SUBSET Message],
   recon : SUBSET Reconciliation]

NoTasks == [m \in Message |-> "unseen"]
NoCursors == [s \in Source |-> {}]
EmptyProgress == [ver |-> 0, tasks |-> NoTasks, cursors |-> NoCursors, recon |-> {}]

Barriers(tasks) == {m \in Message : tasks[m] \in BarrierDisposition}
Completed(tasks) == {m \in Message : tasks[m] \in CompletedDisposition}

(* TaskPolicy leaves room for one more task. *)
HasBudget(tasks) == Cardinality(Completed(tasks)) < MaxCompleted

(* The commits a save writes: always the child of the progress it changes. *)
Child(p, tasks, cursors, recon) ==
  [ver |-> p.ver + 1, tasks |-> tasks, cursors |-> cursors, recon |-> recon]

WithCursors(p, cursors) == Child(p, p.tasks, cursors, p.recon)

WithTask(p, cursors, m, d) ==
  Child(p, [p.tasks EXCEPT ![m] = d], cursors, p.recon)

WithReconciliation(p, r) ==
  Child(p, [p.tasks EXCEPT ![r.msg] = "failed"], p.cursors, p.recon \union {r})
=============================================================================
