-------------------------- MODULE WorkCycleProofs --------------------------
(***************************************************************************)
(* The theorems of WorkCycle for all values of its constants.              *)
(*                                                                         *)
(* First type correctness, and the ledger of messages the cycle keeps.     *)
(* TypeOK alone is not inductive: what a process saves, replies and        *)
(* reports is well-typed only because of the phase it is in, which TypeInv *)
(* records.  Then IndInv is inductive, and every step is a step of         *)
(* TaskLedger or leaves its variables alone: the steps that move the       *)
(* progress ref are treated first, by what they can find there; all other  *)
(* steps only move one process.                                            *)
(*                                                                         *)
(* Then CycleInv: the progress ref, the outbound log, the memory and the   *)
(* status file of an Instance tell one story about every task.  The        *)
(* evidence a commit relies on is there before the commit, whichever       *)
(* process or left-over git child makes it.                                *)
(*                                                                         *)
(* Last what the owner lock is for, and that the oldest message is taken   *)
(* first.                                                                  *)
(***************************************************************************)
EXTENDS WorkCycleInv, StatusFile, FiniteSetTheorems, TLAPS

-----------------------------------------------------------------------------
(* The commits that are saved are progress records one deeper than what they *)
(* were made from (ReaderProgressStore.save, _replace_progress).             *)
LEMMA WithCursorsFacts ==
  ASSUME NEW p \in Progress, NEW cs \in [Source -> SUBSET Message]
  PROVE  /\ WithCursors(p, cs) \in Progress
         /\ WithCursors(p, cs).ver = p.ver + 1
         /\ WithCursors(p, cs).tasks = p.tasks
BY DEF WithCursors, Child, Progress

LEMMA WithTaskFacts ==
  ASSUME NEW p \in Progress, NEW cs \in [Source -> SUBSET Message],
         NEW m \in Message, NEW d \in Disposition
  PROVE  /\ WithTask(p, cs, m, d) \in Progress
         /\ WithTask(p, cs, m, d).ver = p.ver + 1
         /\ WithTask(p, cs, m, d).tasks = [p.tasks EXCEPT ![m] = d]
BY DEF WithTask, Child, Progress, Tasks

LEMMA WithReconciliationFacts ==
  ASSUME NEW p \in Progress, NEW r \in Reconciliation
  PROVE  /\ WithReconciliation(p, r) \in Progress
         /\ WithReconciliation(p, r).ver = p.ver + 1
         /\ WithReconciliation(p, r).tasks = [p.tasks EXCEPT ![r.msg] = "failed"]
BY DEF WithReconciliation, Child, Progress, Tasks, Reconciliation, Disposition

LEMMA EmptyFacts ==
  EmptyProgress \in Progress /\ EmptyProgress.ver = 0 /\ EmptyProgress.tasks = NoTasks
  /\ NoCursors \in [Source -> SUBSET Message]
BY DEF EmptyProgress, Progress, NoTasks, NoCursors, Tasks, Disposition

-----------------------------------------------------------------------------
LEMMA InitTypes == Init => TypeInv
<1> SUFFICES ASSUME Init PROVE TypeInv
  OBVIOUS
<1>1. TypeOK
  BY EmptyFacts, ProcAssumption
  DEF Init, TypeOK, Status, Phase, Disposition, NoCursors
<1>2. ChosenOK /\ DecidedOK /\ PlanOK
  BY DEF Init, ChosenOK, DecidedOK, PlanOK, Chosen, Decided, Reconciling
<1> QED
  BY <1>1, <1>2 DEF TypeInv

(* A process that ends leaves well-typed memory and locks behind. *)
LEMMA LeaveTypes ==
  ASSUME TypeInv, NEW p \in Proc, Leave(p)
  PROVE  /\ owner' \in [Roots -> Proc \union {None}]
         /\ inner' \in [Roots -> Proc \union {None, Other}]
         /\ pc' \in [Proc -> Phase] /\ base' \in [Proc -> Progress]
         /\ unread' \in [Proc -> SUBSET Source]
         /\ tips' \in [Proc -> [Source -> SUBSET Message]]
         /\ sel' \in [Proc -> Message \union {None}]
         /\ disp' \in [Proc -> Disposition]
         /\ ChosenOK' /\ DecidedOK'
         /\ plan' = plan => PlanOK'
<1> USE DEF TypeInv, TypeOK, Leave, Dismiss
<1>1. /\ owner' \in [Roots -> Proc \union {None}]
      /\ inner' \in [Roots -> Proc \union {None, Other}]
  OBVIOUS
<1>2. /\ pc' \in [Proc -> Phase] /\ base' \in [Proc -> Progress]
      /\ unread' \in [Proc -> SUBSET Source]
      /\ tips' \in [Proc -> [Source -> SUBSET Message]]
      /\ sel' \in [Proc -> Message \union {None}]
      /\ disp' \in [Proc -> Disposition]
  BY EmptyFacts DEF Phase, Disposition
<1>3. ChosenOK' /\ DecidedOK' /\ (plan' = plan => PlanOK')
  BY DEF ChosenOK, DecidedOK, PlanOK, Chosen, Decided, Reconciling
<1> QED
  BY <1>1, <1>2, <1>3

(* What a save attaches, or leaves unattached, is a progress record. *)
LEMMA SaveTypes ==
  ASSUME TypeInv, NEW c \in Progress,
         (Saved(c) /\ UNCHANGED faults) \/ SaveRaised(c)
  PROVE  progress' \in Progress /\ faults' \in Nat
BY DEF TypeInv, TypeOK, Saved, SaveRaised, Fault

(* The commits that saving processes are about to attach. *)
LEMMA PendingTypes ==
  ASSUME TypeInv, NEW p \in Proc
  PROVE  /\ IdleProgress(p) \in Progress /\ IdleProgress(p).ver = base[p].ver + 1
         /\ IdleProgress(p).tasks = base[p].tasks
         /\ pc[p] = "claim" =>
              /\ ClaimedProgress(p) \in Progress
              /\ ClaimedProgress(p).ver = base[p].ver + 1
              /\ ClaimedProgress(p).tasks = [base[p].tasks EXCEPT ![sel[p]] = "claimed"]
         /\ pc[p] \in Decided =>
              /\ FinalProgress(p) \in Progress
              /\ FinalProgress(p).ver = base[p].ver + 1
              /\ FinalProgress(p).tasks = [base[p].tasks EXCEPT ![sel[p]] = disp[p]]
         /\ pc[p] \in Reconciling =>
              /\ ReconciledProgress(p) \in Progress
              /\ ReconciledProgress(p).ver = base[p].ver + 1
              /\ ReconciledProgress(p).tasks =
                   [base[p].tasks EXCEPT ![plan[p].msg] = "failed"]
<1>0. /\ base[p] \in Progress /\ tips[p] \in [Source -> SUBSET Message]
      /\ base[p].cursors \in [Source -> SUBSET Message]
  BY DEF TypeInv, TypeOK, Progress
<1>1. /\ IdleProgress(p) \in Progress /\ IdleProgress(p).ver = base[p].ver + 1
      /\ IdleProgress(p).tasks = base[p].tasks
  BY <1>0, WithCursorsFacts DEF IdleProgress
<1>2. ASSUME pc[p] = "claim"
      PROVE  /\ ClaimedProgress(p) \in Progress
             /\ ClaimedProgress(p).ver = base[p].ver + 1
             /\ ClaimedProgress(p).tasks = [base[p].tasks EXCEPT ![sel[p]] = "claimed"]
  <2>1. sel[p] \in Message /\ "claimed" \in Disposition
    BY <1>2 DEF TypeInv, ChosenOK, Chosen, Disposition
  <2> QED
    BY <1>0, <2>1, WithTaskFacts DEF ClaimedProgress
<1>3. ASSUME pc[p] \in Decided
      PROVE  /\ FinalProgress(p) \in Progress
             /\ FinalProgress(p).ver = base[p].ver + 1
             /\ FinalProgress(p).tasks = [base[p].tasks EXCEPT ![sel[p]] = disp[p]]
  <2>1. sel[p] \in Message /\ disp[p] \in Disposition
    BY <1>3 DEF TypeInv, ChosenOK, Chosen, Decided, DecidedOK, Disposition, FinalDisposition
  <2> QED
    BY <1>0, <2>1, WithTaskFacts DEF FinalProgress
<1>4. ASSUME pc[p] \in Reconciling
      PROVE  /\ ReconciledProgress(p) \in Progress
             /\ ReconciledProgress(p).ver = base[p].ver + 1
             /\ ReconciledProgress(p).tasks =
                  [base[p].tasks EXCEPT ![plan[p].msg] = "failed"]
  <2>1. plan[p] \in Reconciliation
    BY <1>4 DEF TypeInv, PlanOK
  <2> QED
    BY <1>0, <2>1, WithReconciliationFacts DEF ReconciledProgress
<1> QED
  BY <1>1, <1>2, <1>3, <1>4

-----------------------------------------------------------------------------
(* Every step keeps the types: one lemma per group of actions, one step per *)
(* action.                                                                 *)
(* A tick up to its choice of a message. *)
LEMMA ReadingTypes ==
  ASSUME TypeInv, NEW p \in Ticks,
         \/ TickStart(p) \/ TickBusy(p) \/ TickDeclined(p)
         \/ TickAdmitted(p) \/ LoadHalts(p) \/ Halt(p) \/ LoadExhausted(p) \/ Load(p)
         \/ (\E s \in Source : ReadSource(p, s)) \/ ReadFails(p)
         \/ TickIdle(p) \/ TickNotesCursors(p) \/ SaveCursors(p)
         \/ Select(p) \/ TickRaises(p)
  PROVE  TypeInv'
<1> p \in Proc
  BY DEF Proc
<1> USE DEF refs, locks, world, outbox, tasksv, held
<1>1. CASE TickStart(p)
  <2>1. TypeOK'
    BY <1>1 DEF TickStart, TypeInv, TypeOK, Go, Phase
  <2>2. ChosenOK' /\ DecidedOK' /\ PlanOK'
    BY <1>1 DEF TickStart, TypeInv, ChosenOK, DecidedOK, PlanOK, TypeOK, Go,
       Chosen, Decided, Reconciling
  <2> QED
    BY <2>1, <2>2 DEF TypeInv
<1>2. CASE TickBusy(p)
  <2>1. TypeOK'
    BY <1>2 DEF TickBusy, TypeInv, TypeOK, Status
  <2>2. ChosenOK' /\ DecidedOK' /\ PlanOK'
    BY <1>2 DEF TickBusy, TypeInv, ChosenOK, DecidedOK, PlanOK
  <2> QED
    BY <2>1, <2>2 DEF TypeInv
<1>3. CASE TickDeclined(p)
  BY <1>3, LeaveTypes
  DEF TickDeclined, LeaveQuietly, TypeInv, TypeOK, Status, Fault
<1>4. CASE TickAdmitted(p)
  <2>1. TypeOK'
    BY <1>4 DEF TickAdmitted, TypeInv, TypeOK, Go, Phase
  <2>2. ChosenOK' /\ DecidedOK' /\ PlanOK'
    BY <1>4 DEF TickAdmitted, TypeInv, ChosenOK, DecidedOK, PlanOK, TypeOK, Go,
       Chosen, Decided, Reconciling
  <2> QED
    BY <2>1, <2>2 DEF TypeInv
<1>5. CASE LoadHalts(p)
  <2>1. PICK m \in Barriers(progress.tasks) :
          /\ sel' = [sel EXCEPT ![p] = m]
          /\ disp' = [disp EXCEPT ![p] = progress.tasks[m]]
    BY <1>5 DEF LoadHalts
  <2>2. /\ m \in Message /\ progress.tasks[m] \in BarrierDisposition
        /\ progress.tasks[m] \in Disposition
    BY <2>1 DEF Barriers, BarrierDisposition, Disposition
  <2>3. TypeOK'
    BY <1>5, <2>1, <2>2 DEF LoadHalts, TypeInv, TypeOK, Go, Phase
  <2>4. ChosenOK' /\ DecidedOK' /\ PlanOK'
    BY <1>5, <2>1, <2>2 DEF LoadHalts, TypeInv, ChosenOK, DecidedOK, PlanOK, TypeOK,
       Go, Chosen, Decided, Reconciling
  <2> QED
    BY <2>3, <2>4 DEF TypeInv
<1>14. CASE Halt(p)
  <2>1. sel[p] \in Message /\ disp[p] \in BarrierDisposition
    BY <1>14 DEF Halt, TypeInv, ChosenOK, Chosen, DecidedOK
  <2>2. HaltStatus(p) \in Status
    BY <2>1 DEF HaltStatus, Naming, Status, HaltCode, FinalDisposition, BarrierDisposition
  <2>3. status' \in Status
    BY <1>14, <2>2 DEF Halt, TypeInv, TypeOK
  <2> QED
    BY <1>14, <2>3, LeaveTypes DEF Halt, TypeInv, TypeOK
<1>15. CASE LoadExhausted(p)
  BY <1>15, LeaveTypes
  DEF LoadExhausted, LeaveQuietly, TypeInv, TypeOK, Status, Fault
<1>6. CASE Load(p)
  <2>1. TypeOK'
    BY <1>6 DEF Load, TypeInv, TypeOK, Go, Phase
  <2>2. ChosenOK' /\ DecidedOK' /\ PlanOK'
    BY <1>6 DEF Load, TypeInv, ChosenOK, DecidedOK, PlanOK, TypeOK, Go, Chosen,
       Decided, Reconciling
  <2> QED
    BY <2>1, <2>2 DEF TypeInv
<1>7. CASE \E s \in Source : ReadSource(p, s)
  <2>1. TypeOK'
    BY <1>7 DEF ReadSource, TypeInv, TypeOK
  <2>2. ChosenOK' /\ DecidedOK' /\ PlanOK'
    BY <1>7 DEF ReadSource, TypeInv, ChosenOK, DecidedOK, PlanOK
  <2> QED
    BY <2>1, <2>2 DEF TypeInv
<1>8. CASE ReadFails(p)
  BY <1>8, LeaveTypes
  DEF ReadFails, LeaveQuietly, TypeInv, TypeOK, Status, Fault
<1>9. CASE TickIdle(p)
  BY <1>9, LeaveTypes
  DEF TickIdle, LeaveQuietly, TypeInv, TypeOK, Status, Fault
<1>10. CASE TickNotesCursors(p)
  <2>1. TypeOK'
    BY <1>10 DEF TickNotesCursors, TypeInv, TypeOK, Go, Phase
  <2>2. ChosenOK' /\ DecidedOK' /\ PlanOK'
    BY <1>10 DEF TickNotesCursors, TypeInv, ChosenOK, DecidedOK, PlanOK, TypeOK, Go,
       Chosen, Decided, Reconciling
  <2> QED
    BY <2>1, <2>2 DEF TypeInv
<1>11. CASE SaveCursors(p)
  <2>1. IdleProgress(p) \in Progress
    BY <1>11, PendingTypes DEF SaveCursors, Decided, Reconciling
  <2>2. progress' \in Progress /\ faults' \in Nat
    BY <1>11, <2>1, SaveTypes DEF SaveCursors
  <2> QED
    BY <1>11, <2>2, LeaveTypes DEF SaveCursors, LeaveQuietly, TypeInv, TypeOK, Status
<1>12. CASE Select(p)
  <2>1. TypeOK'
    BY <1>12 DEF Select, TypeInv, TypeOK, Go, Phase, Disposition, Preset, Candidates
  <2>2. ChosenOK' /\ DecidedOK' /\ PlanOK'
    BY <1>12 DEF Select, TypeInv, ChosenOK, DecidedOK, PlanOK, TypeOK, Go, Chosen,
       Decided, Reconciling, FinalDisposition, Preset, Candidates
  <2> QED
    BY <2>1, <2>2 DEF TypeInv
<1>13. CASE TickRaises(p)
  BY <1>13, LeaveTypes
  DEF TickRaises, LeaveQuietly, TypeInv, TypeOK, Status, Fault
<1> QED
  BY <1>1, <1>2, <1>3, <1>4, <1>5, <1>6, <1>7, <1>8, <1>9, <1>10, <1>11, <1>12, <1>13,
     <1>14, <1>15

(* A tick from its claim to its status. *)
LEMMA WorkingTypes ==
  ASSUME TypeInv, NEW p \in Ticks,
         \/ Claim(p) \/ ClaimFails(p) \/ Dispatch(p)
         \/ (\E d \in FinalDisposition : HandlerReturns(p, d))
         \/ Checkpoint(p) \/ CheckpointFails(p) \/ AppendReply(p)
         \/ ReplyRefused(p) \/ PushReply(p) \/ PushUnverified(p)
         \/ Finish(p) \/ FinishFails(p) \/ Report(p)
  PROVE  TypeInv'
<1> p \in Proc
  BY DEF Proc
<1> USE DEF refs, locks, world, outbox, tasksv, held
<1>1. CASE Claim(p)
  <2>1. ClaimedProgress(p) \in Progress
    BY <1>1, PendingTypes DEF Claim, Decided
  <2>2. progress' \in Progress /\ faults' \in Nat
    BY <1>1, <2>1, SaveTypes DEF Claim
  <2>3. TypeOK'
    BY <1>1, <2>1, <2>2 DEF Claim, TypeInv, TypeOK, Go, Phase, Dismiss
  <2>4. ChosenOK' /\ DecidedOK' /\ PlanOK'
    BY <1>1 DEF Claim, TypeInv, TypeOK, Go, ChosenOK, Chosen, DecidedOK, Decided,
       PlanOK, Reconciling, FinalDisposition
  <2> QED
    BY <2>3, <2>4 DEF TypeInv
<1>2. CASE ClaimFails(p)
  <2>1. ClaimedProgress(p) \in Progress
    BY <1>2, PendingTypes DEF ClaimFails, Decided, Reconciling
  <2>2. progress' \in Progress /\ faults' \in Nat
    BY <1>2, <2>1, SaveTypes DEF ClaimFails
  <2> QED
    BY <1>2, <2>2, LeaveTypes DEF ClaimFails, LeaveQuietly, TypeInv, TypeOK, Status
<1>3. CASE Dispatch(p)
  <2>1. TypeOK'
    BY <1>3 DEF Dispatch, TypeInv, TypeOK, Go, Phase, ChosenOK, Chosen
  <2>2. ChosenOK' /\ DecidedOK' /\ PlanOK'
    BY <1>3 DEF Dispatch, TypeInv, ChosenOK, DecidedOK, PlanOK, TypeOK, Go, Chosen,
       Decided, Reconciling
  <2> QED
    BY <2>1, <2>2 DEF TypeInv
<1>4. CASE \E d \in FinalDisposition : HandlerReturns(p, d)
  <2> PICK d \in FinalDisposition : HandlerReturns(p, d)
    BY <1>4
  <2>1. pc' \in [Proc -> Phase] /\ disp' \in [Proc -> Disposition]
    BY DEF HandlerReturns, TypeInv, TypeOK, Go, Phase, FinalDisposition, Disposition
  <2>2. /\ memory' \in [Message -> {"none", "due", "kept"}]
        /\ inner' \in [Roots -> Proc \union {None, Other}]
    BY DEF HandlerReturns, TypeInv, TypeOK, Dismiss
  <2>3. TypeOK'
    BY <2>1, <2>2 DEF HandlerReturns, TypeInv, TypeOK
  <2>4. ChosenOK' /\ DecidedOK' /\ PlanOK'
    BY DEF HandlerReturns, TypeInv, TypeOK, Go, ChosenOK, Chosen, DecidedOK, Decided,
       PlanOK, Reconciling
  <2> QED
    BY <2>3, <2>4 DEF TypeInv
<1>5. CASE Checkpoint(p)
  <2>1. TypeOK'
    BY <1>5 DEF Checkpoint, TypeInv, TypeOK, Go, Phase
  <2>2. ChosenOK' /\ DecidedOK' /\ PlanOK'
    BY <1>5 DEF Checkpoint, TypeInv, ChosenOK, DecidedOK, PlanOK, TypeOK, Go,
       Chosen, Decided, Reconciling
  <2> QED
    BY <2>1, <2>2 DEF TypeInv
<1>6. CASE CheckpointFails(p)
  <2>1. TypeOK'
    BY <1>6 DEF CheckpointFails, TypeInv, TypeOK, Go, Phase, Fault, Disposition
  <2>2. ChosenOK' /\ DecidedOK' /\ PlanOK'
    BY <1>6 DEF CheckpointFails, TypeInv, ChosenOK, DecidedOK, PlanOK, TypeOK, Go,
       Chosen, Decided, Reconciling, FinalDisposition
  <2> QED
    BY <2>1, <2>2 DEF TypeInv
<1>7. CASE AppendReply(p)
  <2>1. TypeOK'
    BY <1>7 DEF AppendReply, TypeInv, TypeOK, Go, Phase, ReplyOf, Reply, ChosenOK,
       Chosen, DecidedOK, Decided
  <2>2. ChosenOK' /\ DecidedOK' /\ PlanOK'
    BY <1>7 DEF AppendReply, TypeInv, ChosenOK, DecidedOK, PlanOK, TypeOK, Go,
       Chosen, Decided, Reconciling
  <2> QED
    BY <2>1, <2>2 DEF TypeInv
<1>8. CASE ReplyRefused(p)
  <2>1. TypeOK'
    BY <1>8 DEF ReplyRefused, TypeInv, TypeOK, Go, Phase, Fault, ReplyOf, Reply,
       ChosenOK, Chosen, DecidedOK, Decided, Disposition
  <2>2. ChosenOK' /\ DecidedOK' /\ PlanOK'
    BY <1>8 DEF ReplyRefused, TypeInv, ChosenOK, DecidedOK, PlanOK, TypeOK, Go,
       Chosen, Decided, Reconciling, FinalDisposition
  <2> QED
    BY <2>1, <2>2 DEF TypeInv
<1>9. CASE PushReply(p)
  <2>1. TypeOK'
    BY <1>9 DEF PushReply, TypeInv, TypeOK, Go, Phase, ReplyOf, Reply, ChosenOK,
       Chosen, DecidedOK, Decided
  <2>2. ChosenOK' /\ DecidedOK' /\ PlanOK'
    BY <1>9 DEF PushReply, TypeInv, ChosenOK, DecidedOK, PlanOK, TypeOK, Go,
       Chosen, Decided, Reconciling
  <2> QED
    BY <2>1, <2>2 DEF TypeInv
<1>10. CASE PushUnverified(p)
  <2>1. TypeOK'
    BY <1>10 DEF PushUnverified, TypeInv, TypeOK, Go, Phase, Fault, ReplyOf, Reply,
       ChosenOK, Chosen, DecidedOK, Decided, Disposition
  <2>2. ChosenOK' /\ DecidedOK' /\ PlanOK'
    BY <1>10 DEF PushUnverified, TypeInv, ChosenOK, DecidedOK, PlanOK, TypeOK, Go,
       Chosen, Decided, Reconciling, FinalDisposition
  <2> QED
    BY <2>1, <2>2 DEF TypeInv
<1>11. CASE Finish(p)
  <2>1. FinalProgress(p) \in Progress
    BY <1>11, PendingTypes DEF Finish, Decided
  <2>2. progress' \in Progress /\ faults' \in Nat
    BY <1>11, <2>1, SaveTypes DEF Finish
  <2>3. TypeOK'
    BY <1>11, <2>1, <2>2 DEF Finish, TypeInv, TypeOK, Go, Phase, Dismiss
  <2>4. ChosenOK' /\ DecidedOK' /\ PlanOK'
    BY <1>11 DEF Finish, TypeInv, TypeOK, Go, ChosenOK, Chosen, DecidedOK, Decided,
       PlanOK, Reconciling, FinalDisposition
  <2> QED
    BY <2>3, <2>4 DEF TypeInv
<1>12. CASE FinishFails(p)
  <2>1. FinalProgress(p) \in Progress
    BY <1>12, PendingTypes DEF FinishFails, Decided
  <2>2. progress' \in Progress /\ faults' \in Nat
    BY <1>12, <2>1, SaveTypes DEF FinishFails
  <2>3. TypeOK'
    BY <1>12, <2>1, <2>2 DEF FinishFails, TypeInv, TypeOK, Go, Phase, Dismiss
  <2>4. ChosenOK' /\ DecidedOK' /\ PlanOK'
    BY <1>12 DEF FinishFails, TypeInv, TypeOK, Go, ChosenOK, Chosen, DecidedOK, Decided,
       PlanOK, Reconciling, FinalDisposition
  <2> QED
    BY <2>3, <2>4 DEF TypeInv
<1>13. CASE Report(p)
  <2>1. sel[p] \in Message /\ disp[p] \in FinalDisposition
    BY <1>13 DEF Report, TypeInv, ChosenOK, Chosen, DecidedOK, Decided
  <2>2. status' \in Status /\ faults' \in Nat
    BY <1>13, <2>1
    DEF Report, TerminalStatus, Naming, TypeInv, TypeOK, Status, Fault, FinalDisposition
  <2> QED
    BY <1>13, <2>2, LeaveTypes DEF Report, TypeInv, TypeOK
<1> QED
  BY <1>1, <1>2, <1>3, <1>4, <1>5, <1>6, <1>7, <1>8, <1>9, <1>10, <1>11, <1>12, <1>13

(* Reconciliation. *)
LEMMA OperatorTypes ==
  ASSUME TypeInv, NEW p \in Operators,
         \/ (\E m \in Message : Review(p, m)) \/ ReconcileStart(p)
         \/ ReconcileAdmitted(p) \/ ReconcileDeclined(p)
         \/ ReconcileAccepted(p) \/ ReconcileSave(p)
  PROVE  TypeInv'
<1> p \in Proc
  BY DEF Proc
<1> USE DEF refs, locks, world, outbox, tasksv, held
<1>1. CASE \E m \in Message : Review(p, m)
  <2> PICK m \in Message : Review(p, m)
    BY <1>1
  <2>1. [ver |-> progress.ver, msg |-> m] \in Reconciliation
    BY DEF TypeInv, TypeOK, Progress, Reconciliation
  <2> QED
    BY <2>1 DEF Review, TypeInv, TypeOK, ChosenOK, DecidedOK, PlanOK
<1>2. CASE ReconcileStart(p)
  <2>1. TypeOK'
    BY <1>2 DEF ReconcileStart, TypeInv, TypeOK, Go, Phase
  <2>2. ChosenOK' /\ DecidedOK' /\ PlanOK'
    BY <1>2 DEF ReconcileStart, TypeInv, ChosenOK, DecidedOK, PlanOK, TypeOK, Go,
       Chosen, Decided, Reconciling
  <2> QED
    BY <2>1, <2>2 DEF TypeInv
<1>3. CASE ReconcileAdmitted(p)
  <2>1. TypeOK'
    BY <1>3 DEF ReconcileAdmitted, TypeInv, TypeOK, Go, Phase
  <2>2. ChosenOK' /\ DecidedOK' /\ PlanOK'
    BY <1>3 DEF ReconcileAdmitted, TypeInv, ChosenOK, DecidedOK, PlanOK, TypeOK,
       Go, Chosen, Decided, Reconciling
  <2> QED
    BY <2>1, <2>2 DEF TypeInv
<1>4. CASE ReconcileDeclined(p)
  BY <1>4, LeaveTypes
  DEF ReconcileDeclined, LeaveQuietly, TypeInv, TypeOK, Status, Fault
<1>5. CASE ReconcileAccepted(p)
  <2>1. TypeOK'
    BY <1>5 DEF ReconcileAccepted, TypeInv, TypeOK, Go, Phase
  <2>2. ChosenOK' /\ DecidedOK' /\ PlanOK'
    BY <1>5 DEF ReconcileAccepted, TypeInv, ChosenOK, DecidedOK, PlanOK, TypeOK,
       Go, Chosen, Decided, Reconciling
  <2> QED
    BY <2>1, <2>2 DEF TypeInv
<1>6. CASE ReconcileSave(p)
  <2>1. ReconciledProgress(p) \in Progress
    BY <1>6, PendingTypes DEF ReconcileSave, Decided, Reconciling
  <2>2. progress' \in Progress /\ faults' \in Nat
    BY <1>6, <2>1, SaveTypes DEF ReconcileSave
  <2> QED
    BY <1>6, <2>2, LeaveTypes DEF ReconcileSave, LeaveQuietly, TypeInv, TypeOK, Status
<1> QED
  BY <1>1, <1>2, <1>3, <1>4, <1>5, <1>6

(* Faults, peers, and other executions. *)
LEMMA EnvironmentTypes ==
  ASSUME TypeInv, Environment
  PROVE  TypeInv'
<1> USE DEF refs, locks, world, outbox, tasksv, held
<1>1. CASE \E p \in Proc : Crash(p)
  <2> PICK p \in Proc : Crash(p)
    BY <1>1
  <2>1. Pending(p) \subseteq Progress
    BY PendingTypes DEF Pending, Decided, Reconciling
  <2>2. pc[p] = "push" => ReplyOf(p) \in Reply
    BY DEF ReplyOf, Reply, TypeInv, ChosenOK, Chosen, DecidedOK, Decided
  <2>3. orphans' \subseteq Progress /\ inflight' \subseteq Reply /\ faults' \in Nat
    BY <2>1, <2>2 DEF Crash, TypeInv, TypeOK, Fault
  <2> QED
    BY <2>3, LeaveTypes DEF Crash, TypeInv, TypeOK
<1>2. CASE \E c \in orphans : OrphanLands(c)
  BY <1>2 DEF OrphanLands, Saved, TypeInv, TypeOK, ChosenOK, DecidedOK, PlanOK
<1>3. CASE \E r \in inflight : PushLands(r)
  BY <1>3 DEF PushLands, TypeInv, TypeOK, ChosenOK, DecidedOK, PlanOK
<1>4. CASE \E r \in Roots : OtherAdmitted(r) \/ OtherReleases(r)
  BY <1>4 DEF OtherAdmitted, OtherReleases, TypeInv, TypeOK, ChosenOK, DecidedOK, PlanOK
<1>5. CASE \E s \in Source, m \in Message : Arrive(s, m)
  BY <1>5 DEF Arrive, TypeInv, TypeOK, ChosenOK, DecidedOK, PlanOK
<1>6. CASE \E s \in Source, ms \in SUBSET Message : Rewrite(s, ms)
  BY <1>6 DEF Rewrite, Fault, TypeInv, TypeOK, ChosenOK, DecidedOK, PlanOK
<1>7. CASE ToggleStop
  BY <1>7 DEF ToggleStop, TypeInv, TypeOK, ChosenOK, DecidedOK, PlanOK
<1> QED
  BY <1>1, <1>2, <1>3, <1>4, <1>5, <1>6, <1>7 DEF Environment

LEMMA TypeStep == TypeInv /\ [Next]_vars => TypeInv'
<1> SUFFICES ASSUME TypeInv, [Next]_vars PROVE TypeInv'
  OBVIOUS
<1>1. CASE \E p \in Ticks : TickBusy(p) \/ TickStep(p) \/ TickFailure(p)
  BY <1>1, ReadingTypes, WorkingTypes DEF TickStep, TickFailure
<1>2. CASE \E o \in Operators : OperatorStep(o)
  BY <1>2, OperatorTypes DEF OperatorStep
<1>3. CASE Environment
  BY <1>3, EnvironmentTypes
<1>4. CASE UNCHANGED vars
  BY <1>4 DEF vars, refs, locks, world, outbox, tasksv, held, TypeInv, TypeOK,
     ChosenOK, DecidedOK, PlanOK
<1> QED
  BY <1>1, <1>2, <1>3, <1>4 DEF Next

(* In every state of every behaviour, for any set of processes, messages,    *)
(* sources and roots, the variables have the types TypeOK gives them.        *)
THEOREM TypeCorrect == Spec => []TypeOK
<1>1. Spec => []TypeInv
  BY InitTypes, TypeStep, PTL DEF Spec
<1>2. TypeInv => TypeOK
  BY DEF TypeInv
<1> QED
  BY <1>1, <1>2, PTL

-----------------------------------------------------------------------------
(* The ledger of messages. *)

(* Only barriers keep their messages from being unhandled. *)
LEMMA ClaimedIsBarrier ==
  ASSUME NEW t, NEW m \in Message, t[m] \in {"claimed", "unresolved"}
  PROVE  m \in Barriers(t)
BY DEF Barriers, BarrierDisposition

(* A process past its load whose commit fits on the ref sees the ref as it is. *)
LEMMA FreshBase ==
  ASSUME IndInv, NEW p \in Proc, pc[p] \in Working, base[p].ver = progress.ver
  PROVE  base[p] = progress
BY DEF IndInv, LedgerInv, BaseInv, BaseOf

(* Without a claim in the ledger no tick is engaged. *)
LEMMA NoneEngaged ==
  ASSUME IndInv, \A m \in Message : progress.tasks[m] # "claimed"
  PROVE  \A p \in Proc : pc[p] \notin Engaged
BY DEF IndInv, LedgerInv, EngagedInv, TypeInv, ChosenOK, Engaged, Chosen

LEMMA Versions ==
  ASSUME TypeInv, NEW p \in Proc
  PROVE  progress.ver \in Nat /\ base[p].ver \in Nat
BY DEF TypeInv, TypeOK, Progress

-----------------------------------------------------------------------------
(* The four saves and what they find. *)

LEMMA IdleSave ==
  ASSUME IndInv, NEW p \in Proc, pc[p] = "idle", IsChild(IdleProgress(p))
  PROVE  MayNoteCursors(IdleProgress(p))
<1>1. /\ IdleProgress(p).ver = base[p].ver + 1
      /\ IdleProgress(p).tasks = base[p].tasks
  BY PendingTypes DEF IndInv
<1>2. base[p] = progress
  BY <1>1, FreshBase, Versions DEF IsChild, IndInv, Working
<1> QED
  BY <1>1, <1>2 DEF IndInv, LedgerInv, ReadingInv, ReadingOf, MayNoteCursors

LEMMA ClaimSave ==
  ASSUME IndInv, NEW p \in Proc, pc[p] = "claim", IsChild(ClaimedProgress(p))
  PROVE  /\ MayClaim(ClaimedProgress(p))
         /\ progress.tasks[sel[p]] = "unseen"
         /\ ClaimedProgress(p).tasks = [progress.tasks EXCEPT ![sel[p]] = "claimed"]
<1>1. /\ ClaimedProgress(p).ver = base[p].ver + 1
      /\ ClaimedProgress(p).tasks = [base[p].tasks EXCEPT ![sel[p]] = "claimed"]
  BY PendingTypes DEF IndInv
<1>2. base[p] = progress
  BY <1>1, FreshBase, Versions DEF IsChild, IndInv, Working
<1>3. sel[p] \in Message
  BY DEF IndInv, TypeInv, ChosenOK, Chosen
<1> QED
  BY <1>1, <1>2, <1>3 DEF IndInv, LedgerInv, ReadingInv, ReadingOf, MayClaim

(* An engaged tick's last save closes the claim it made. *)
LEMMA FinishSave ==
  ASSUME IndInv, NEW p \in Proc, pc[p] = "finish"
  PROVE  /\ sel[p] \in Message /\ disp[p] \in FinalDisposition
         /\ progress.tasks[sel[p]] = "claimed"
         /\ disp[p] = "completed" => runs[sel[p]] = 1
         /\ FinalProgress(p).ver = progress.ver + 1
         /\ FinalProgress(p).tasks = [progress.tasks EXCEPT ![sel[p]] = disp[p]]
         /\ \A q \in Proc : pc[q] \in Engaged => q = p
<1>1. sel[p] \in Message /\ disp[p] \in FinalDisposition
  BY DEF IndInv, TypeInv, ChosenOK, Chosen, DecidedOK, Decided
<1>2. /\ base[p] = progress /\ progress.tasks[sel[p]] = "claimed"
      /\ \A q \in Proc : pc[q] \in Engaged => q = p
  BY DEF IndInv, LedgerInv, EngagedInv, Engaged
<1>3. /\ FinalProgress(p).ver = base[p].ver + 1
      /\ FinalProgress(p).tasks = [base[p].tasks EXCEPT ![sel[p]] = disp[p]]
  BY PendingTypes DEF IndInv, Decided
<1>4. disp[p] = "completed" => runs[sel[p]] = 1
  BY DEF IndInv, LedgerInv, RanInv, RanOf
<1> QED
  BY <1>1, <1>2, <1>3, <1>4

LEMMA ReconciliationSave ==
  ASSUME IndInv, NEW o \in Proc, pc[o] = "rSave", IsChild(ReconciledProgress(o))
  PROVE  MayReconcile(ReconciledProgress(o))
<1>1. /\ ReconciledProgress(o).ver = base[o].ver + 1
      /\ ReconciledProgress(o).tasks = [base[o].tasks EXCEPT ![plan[o].msg] = "failed"]
  BY PendingTypes DEF IndInv, Reconciling
<1>2. base[o] = progress
  BY <1>1, FreshBase, Versions DEF IsChild, IndInv, Working
<1>3. plan[o].msg \in Message
  BY DEF IndInv, TypeInv, PlanOK, Reconciling, Reconciliation
<1> QED
  BY <1>1, <1>2, <1>3 DEF IndInv, LedgerInv, RevisingInv, RevisingOf, MayReconcile

-----------------------------------------------------------------------------
(* What the parts of the invariant need from a step. *)

(* A ref that moves to a child of what it was outdates every commit made     *)
(* from what it was.                                                         *)
LEMMA MoveKeeps ==
  ASSUME IndInv, progress' \in Progress, progress'.ver = progress.ver + 1,
         orphans' \subseteq orphans,
         \A q \in Proc : base'[q] \in {base[q], EmptyProgress, progress'}
  PROVE  BaseInv' /\ OrphanInv'
<1>1. progress.ver \in Nat /\ progress'.ver \in Nat
  BY DEF IndInv, TypeInv, TypeOK, Progress
<1>2. \A q \in Proc : base[q].ver \in Nat /\ base[q].ver =< progress.ver
  BY Versions DEF IndInv, LedgerInv, BaseInv, BaseOf
<1>3. BaseInv'
  BY <1>1, <1>2, EmptyFacts DEF BaseInv, BaseOf
<1>4. \A c \in orphans : c.ver \in Nat /\ c.ver =< progress.ver + 1
  BY DEF IndInv, LedgerInv, OrphanInv, TypeInv, TypeOK, Progress
<1>5. OrphanInv'
  BY <1>1, <1>4 DEF OrphanInv, IsChild
<1> QED
  BY <1>3, <1>5

(* No message becomes unhandled again. *)
LEMMA RunsKeep ==
  ASSUME IndInv, UNCHANGED runs,
         \A m \in Message : progress'.tasks[m] = "unseen" => progress.tasks[m] = "unseen"
  PROVE  RunsInv'
BY DEF IndInv, LedgerInv, RunsInv

(* A process that ends takes nothing with it that others rely on. *)
LEMMA LeaveKeeps ==
  ASSUME IndInv, NEW p \in Proc, Leave(p), UNCHANGED <<runs, plan>>
  PROVE  /\ ReadingInv' /\ RanInv' /\ RevisingInv'
         /\ \A q \in Proc : base'[q] \in {base[q], EmptyProgress}
         /\ \A q \in Proc : pc'[q] \in Engaged =>
              q # p /\ pc[q] \in Engaged /\ base'[q] = base[q] /\ sel'[q] = sel[q]
<1>1. \A q \in Proc :
        /\ q # p => /\ pc'[q] = pc[q] /\ base'[q] = base[q]
                    /\ sel'[q] = sel[q] /\ disp'[q] = disp[q]
        /\ q = p => pc'[q] = "ready" /\ base'[q] = EmptyProgress
  BY DEF IndInv, TypeInv, TypeOK, Leave
<1>2. ReadingInv' /\ RanInv' /\ RevisingInv'
  BY <1>1 DEF IndInv, LedgerInv, ReadingInv, ReadingOf, RanInv, RanOf, RevisingInv, RevisingOf
<1> QED
  BY <1>1, <1>2 DEF Engaged

(* A process ends and the ref stays. *)
LEMMA QuitStep ==
  ASSUME IndInv, NEW p \in Proc, Leave(p), UNCHANGED <<progress, orphans, runs, plan>>
  PROVE  LedgerInv'
<1>1. ReadingInv' /\ RanInv' /\ RevisingInv'
  BY LeaveKeeps
<1>2. EngagedInv'
  BY LeaveKeeps DEF IndInv, LedgerInv, EngagedInv
<1>3. \A q \in Proc : pc'[q] # "ready" => pc'[q] = pc[q] /\ base'[q] = base[q]
  BY DEF Leave, IndInv, TypeInv, TypeOK
<1>4. BaseInv'
  BY <1>3, LeaveKeeps, EmptyFacts, Versions DEF IndInv, LedgerInv, BaseInv, BaseOf, Working
<1>5. OrphanInv'
  <2>1. \A q \in Proc : pc'[q] \in Engaged => pc[q] \in Engaged
    BY LeaveKeeps
  <2>2. \A c : MayFinish(c) => MayFinish(c)'
    BY <2>1 DEF MayFinish, Closes
  <2> QED
    BY <2>2 DEF IndInv, LedgerInv, OrphanInv, IsChild, MayNoteCursors, MayClaim, MayReconcile
<1>6. RunsInv'
  BY RunsKeep
<1> QED
  BY <1>1, <1>2, <1>4, <1>5, <1>6 DEF LedgerInv

(* A process ends, and its last save, or a late one, moved the ref while no  *)
(* other tick was engaged.                                                   *)
LEMMA QuitMoved ==
  ASSUME IndInv, NEW p \in Proc, Leave(p), UNCHANGED <<orphans, runs, plan>>,
         progress' \in Progress, progress'.ver = progress.ver + 1,
         \A q \in Proc : pc[q] \in Engaged => q = p,
         \A m \in Message : progress'.tasks[m] = "unseen" => progress.tasks[m] = "unseen"
  PROVE  LedgerInv'
<1>1. ReadingInv' /\ RanInv' /\ RevisingInv'
  BY LeaveKeeps
<1>2. EngagedInv'
  BY LeaveKeeps DEF EngagedInv
<1>3. BaseInv' /\ OrphanInv'
  BY LeaveKeeps, MoveKeeps
<1>4. RunsInv'
  BY RunsKeep
<1> QED
  BY <1>1, <1>2, <1>3, <1>4 DEF LedgerInv

(* The commits that may be attached close or open no handled message. *)
LEMMA MayFacts ==
  ASSUME IndInv, NEW c
  PROVE  /\ MayNoteCursors(c) \/ MayClaim(c) \/ MayFinish(c) \/ MayReconcile(c) =>
              \A m \in Message : c.tasks[m] = "unseen" => progress.tasks[m] = "unseen"
         /\ MayNoteCursors(c) \/ MayClaim(c) \/ MayFinish(c) \/ MayReconcile(c) =>
              \A q \in Proc : pc[q] \notin Engaged
<1>0. progress.tasks \in [Message -> Disposition]
  BY DEF IndInv, TypeInv, TypeOK, Progress, Tasks
<1>1. MayNoteCursors(c) \/ MayClaim(c) \/ MayFinish(c) \/ MayReconcile(c) =>
        \A m \in Message : c.tasks[m] = "unseen" => progress.tasks[m] = "unseen"
  BY <1>0 DEF MayNoteCursors, MayClaim, MayFinish, Closes, MayReconcile, FinalDisposition
<1>2. MayNoteCursors(c) \/ MayClaim(c) => \A m \in Message : progress.tasks[m] # "claimed"
  BY DEF MayNoteCursors, MayClaim, Barriers, BarrierDisposition
<1>3. MayReconcile(c) => \A m \in Message : progress.tasks[m] # "claimed"
  BY DEF MayReconcile, Barriers, BarrierDisposition
<1> QED
  BY <1>1, <1>2, <1>3, NoneEngaged DEF MayFinish

-----------------------------------------------------------------------------
(* Every step keeps LedgerInv. *)

(* A step that moves neither the ref nor the handlers' count, and engages    *)
(* no tick, keeps what can become of orphans.                                *)
LEMMA StayStep ==
  ASSUME IndInv, UNCHANGED <<progress, orphans, runs>>,
         \A q \in Proc : pc'[q] \in Engaged => pc[q] \in Engaged
  PROVE  OrphanInv' /\ RunsInv'
<1>1. \A c : MayFinish(c) => MayFinish(c)'
  BY DEF MayFinish, Closes
<1> QED
  BY <1>1 DEF IndInv, LedgerInv, OrphanInv, RunsInv, IsChild, MayNoteCursors,
     MayClaim, MayReconcile

(* What process q holds that the invariant speaks of. *)
Same(q) ==
  /\ pc'[q] = pc[q] /\ base'[q] = base[q] /\ sel'[q] = sel[q]
  /\ disp'[q] = disp[q] /\ plan'[q] = plan[q]

(* A step of one process only has to be looked at where that process is.     *)
LEMMA OwnStep ==
  ASSUME IndInv, NEW p \in Proc, UNCHANGED <<progress, orphans, runs>>,
         \A q \in Proc : q # p => Same(q),
         pc'[p] \in Engaged => pc[p] \in Engaged /\ base'[p] = base[p] /\ sel'[p] = sel[p],
         BaseOf(p)', ReadingOf(p)', RanOf(p)', RevisingOf(p)'
  PROVE  LedgerInv'
<1>1. \A q \in Proc : pc'[q] \in Engaged =>
        pc[q] \in Engaged /\ base'[q] = base[q] /\ sel'[q] = sel[q]
  BY DEF Same
<1>2. OrphanInv' /\ RunsInv'
  BY <1>1, StayStep
<1>3. EngagedInv'
  BY <1>1 DEF IndInv, LedgerInv, EngagedInv
<1>4. BaseInv' /\ ReadingInv'
  BY DEF IndInv, LedgerInv, BaseInv, ReadingInv, Same, BaseOf, ReadingOf
<1>5. RanInv' /\ RevisingInv'
  BY DEF IndInv, LedgerInv, RanInv, RevisingInv, Same, RanOf, RevisingOf
<1> QED
  BY <1>2, <1>3, <1>4, <1>5 DEF LedgerInv

(* Most steps keep what the process loaded. *)
LEMMA OwnParts ==
  ASSUME IndInv, NEW p \in Proc
  PROVE  /\ BaseOf(p) /\ ReadingOf(p) /\ RanOf(p) /\ RevisingOf(p)
         /\ pc[p] \in Engaged => base[p] = progress
BY DEF IndInv, LedgerInv, BaseInv, ReadingInv, EngagedInv, RanInv, RevisingInv

(* A tick up to its choice of a message. *)
LEMMA ReadingKeeps ==
  ASSUME IndInv, NEW p \in Ticks,
         \/ TickStart(p) \/ TickBusy(p) \/ TickDeclined(p)
         \/ TickAdmitted(p) \/ LoadHalts(p) \/ Halt(p) \/ LoadExhausted(p) \/ Load(p)
         \/ (\E s \in Source : ReadSource(p, s)) \/ ReadFails(p)
         \/ TickIdle(p) \/ TickNotesCursors(p) \/ SaveCursors(p)
         \/ Select(p) \/ TickRaises(p)
  PROVE  LedgerInv'
<1> p \in Proc
  BY DEF Proc
<1> USE DEF refs, locks, world, outbox, tasksv, held
<1>1. CASE TickStart(p)
  <2>1. /\ UNCHANGED <<progress, orphans, runs>>
        /\ \A q \in Proc : q # p => Same(q)
        /\ pc'[p] \in Engaged => pc[p] \in Engaged /\ base'[p] = base[p] /\ sel'[p] = sel[p]
    BY <1>1 DEF TickStart, Go, IndInv, TypeInv, TypeOK, Same, Engaged
  <2>2. BaseOf(p)'
    BY <1>1, OwnParts DEF TickStart, Go, IndInv, TypeInv, TypeOK, BaseOf, Working
  <2>3. ReadingOf(p)'
    BY <1>1, OwnParts DEF TickStart, Go, IndInv, TypeInv, TypeOK, ReadingOf
  <2>4. RanOf(p)' /\ RevisingOf(p)'
    BY <1>1, OwnParts DEF TickStart, Go, IndInv, TypeInv, TypeOK, RanOf, RevisingOf
  <2> QED
    BY <2>1, <2>2, <2>3, <2>4, OwnStep
<1>2. CASE TickBusy(p)
  <2>1. /\ UNCHANGED <<progress, orphans, runs>>
        /\ \A q \in Proc : q # p => Same(q)
        /\ pc'[p] \in Engaged => pc[p] \in Engaged /\ base'[p] = base[p] /\ sel'[p] = sel[p]
    BY <1>2 DEF TickBusy, IndInv, TypeInv, TypeOK, Same, Engaged
  <2>2. BaseOf(p)'
    BY <1>2, OwnParts DEF TickBusy, IndInv, TypeInv, TypeOK, BaseOf, Working
  <2>3. ReadingOf(p)'
    BY <1>2, OwnParts DEF TickBusy, IndInv, TypeInv, TypeOK, ReadingOf
  <2>4. RanOf(p)' /\ RevisingOf(p)'
    BY <1>2, OwnParts DEF TickBusy, IndInv, TypeInv, TypeOK, RanOf, RevisingOf
  <2> QED
    BY <2>1, <2>2, <2>3, <2>4, OwnStep
<1>3. CASE TickDeclined(p)
  BY <1>3, QuitStep DEF TickDeclined, LeaveQuietly
<1>4. CASE TickAdmitted(p)
  <2>1. /\ UNCHANGED <<progress, orphans, runs>>
        /\ \A q \in Proc : q # p => Same(q)
        /\ pc'[p] \in Engaged => pc[p] \in Engaged /\ base'[p] = base[p] /\ sel'[p] = sel[p]
    BY <1>4 DEF TickAdmitted, Go, IndInv, TypeInv, TypeOK, Same, Engaged
  <2>2. BaseOf(p)'
    BY <1>4, OwnParts DEF TickAdmitted, Go, IndInv, TypeInv, TypeOK, BaseOf, Working
  <2>3. ReadingOf(p)'
    BY <1>4, OwnParts DEF TickAdmitted, Go, IndInv, TypeInv, TypeOK, ReadingOf
  <2>4. RanOf(p)' /\ RevisingOf(p)'
    BY <1>4, OwnParts DEF TickAdmitted, Go, IndInv, TypeInv, TypeOK, RanOf, RevisingOf
  <2> QED
    BY <2>1, <2>2, <2>3, <2>4, OwnStep
<1>5. CASE LoadHalts(p)
  <2>1. /\ UNCHANGED <<progress, orphans, runs>>
        /\ \A q \in Proc : q # p => Same(q)
        /\ pc'[p] \in Engaged => pc[p] \in Engaged /\ base'[p] = base[p] /\ sel'[p] = sel[p]
    BY <1>5 DEF LoadHalts, Go, IndInv, TypeInv, TypeOK, Same, Engaged
  <2>2. BaseOf(p)'
    BY <1>5, OwnParts DEF LoadHalts, Go, IndInv, TypeInv, TypeOK, BaseOf, Working
  <2>3. ReadingOf(p)' /\ RanOf(p)' /\ RevisingOf(p)'
    BY <1>5 DEF LoadHalts, Go, IndInv, TypeInv, TypeOK, ReadingOf, RanOf, RevisingOf
  <2> QED
    BY <2>1, <2>2, <2>3, OwnStep
<1>14. CASE Halt(p) \/ LoadExhausted(p)
  BY <1>14, QuitStep DEF Halt, LoadExhausted, LeaveQuietly
<1>6. CASE Load(p)
  <2>1. /\ UNCHANGED <<progress, orphans, runs>>
        /\ \A q \in Proc : q # p => Same(q)
        /\ pc'[p] \in Engaged => pc[p] \in Engaged /\ base'[p] = base[p] /\ sel'[p] = sel[p]
    BY <1>6 DEF Load, Go, IndInv, TypeInv, TypeOK, Same, Engaged
  <2>2. BaseOf(p)'
    BY <1>6, OwnParts DEF Load, Go, IndInv, TypeInv, TypeOK, BaseOf, Working, Progress
  <2>3. ReadingOf(p)'
    BY <1>6, OwnParts DEF Load, Go, IndInv, TypeInv, TypeOK, ReadingOf
  <2>4. RanOf(p)' /\ RevisingOf(p)'
    BY <1>6, OwnParts DEF Load, Go, IndInv, TypeInv, TypeOK, RanOf, RevisingOf
  <2> QED
    BY <2>1, <2>2, <2>3, <2>4, OwnStep
<1>7. CASE \E s \in Source : ReadSource(p, s)
  <2>1. /\ UNCHANGED <<progress, orphans, runs>>
        /\ \A q \in Proc : q # p => Same(q)
        /\ pc'[p] \in Engaged => pc[p] \in Engaged /\ base'[p] = base[p] /\ sel'[p] = sel[p]
    BY <1>7 DEF ReadSource, IndInv, TypeInv, TypeOK, Same, Engaged
  <2>2. BaseOf(p)'
    BY <1>7, OwnParts DEF ReadSource, IndInv, TypeInv, TypeOK, BaseOf, Working
  <2>3. ReadingOf(p)'
    BY <1>7, OwnParts DEF ReadSource, IndInv, TypeInv, TypeOK, ReadingOf
  <2>4. RanOf(p)' /\ RevisingOf(p)'
    BY <1>7, OwnParts DEF ReadSource, IndInv, TypeInv, TypeOK, RanOf, RevisingOf
  <2> QED
    BY <2>1, <2>2, <2>3, <2>4, OwnStep
<1>8. CASE ReadFails(p)
  BY <1>8, QuitStep DEF ReadFails, LeaveQuietly
<1>9. CASE TickIdle(p)
  BY <1>9, QuitStep DEF TickIdle, LeaveQuietly
<1>10. CASE TickNotesCursors(p)
  <2>1. /\ UNCHANGED <<progress, orphans, runs>>
        /\ \A q \in Proc : q # p => Same(q)
        /\ pc'[p] \in Engaged => pc[p] \in Engaged /\ base'[p] = base[p] /\ sel'[p] = sel[p]
    BY <1>10 DEF TickNotesCursors, Go, IndInv, TypeInv, TypeOK, Same, Engaged
  <2>2. BaseOf(p)'
    BY <1>10, OwnParts DEF TickNotesCursors, Go, IndInv, TypeInv, TypeOK, BaseOf, Working,
       AllRead
  <2>3. ReadingOf(p)'
    BY <1>10, OwnParts DEF TickNotesCursors, Go, IndInv, TypeInv, TypeOK, ReadingOf, AllRead
  <2>4. RanOf(p)' /\ RevisingOf(p)'
    BY <1>10, OwnParts DEF TickNotesCursors, Go, IndInv, TypeInv, TypeOK, RanOf, RevisingOf
  <2> QED
    BY <2>1, <2>2, <2>3, <2>4, OwnStep
<1>11. CASE SaveCursors(p)
  <2>1. CASE UNCHANGED progress
    BY <1>11, <2>1, QuitStep DEF SaveCursors, LeaveQuietly
  <2>2. CASE Saved(IdleProgress(p))
    <3>1. IdleProgress(p) \in Progress /\ IsChild(IdleProgress(p)) /\ progress' = IdleProgress(p)
      BY <1>11, <2>2, PendingTypes DEF SaveCursors, Saved, IndInv, Reconciling
    <3>0. MayNoteCursors(IdleProgress(p))
      BY <1>11, <3>1, IdleSave DEF SaveCursors
    <3>2. /\ \A q \in Proc : pc[q] \notin Engaged
          /\ \A m \in Message : progress'.tasks[m] = "unseen" => progress.tasks[m] = "unseen"
      BY <3>0, <3>1, MayFacts
    <3>3. progress' \in Progress /\ progress'.ver = progress.ver + 1
      BY <3>1 DEF IsChild
    <3>4. Leave(p) /\ UNCHANGED <<orphans, runs, plan>>
      BY <1>11 DEF SaveCursors, LeaveQuietly
    <3> QED
      BY <3>2, <3>3, <3>4, QuitMoved
  <2> QED
    BY <1>11, <2>1, <2>2 DEF SaveCursors, SaveRaised
<1>12. CASE Select(p)
  <2>1. /\ UNCHANGED <<progress, orphans, runs>>
        /\ \A q \in Proc : q # p => Same(q)
        /\ pc'[p] \in Engaged => pc[p] \in Engaged /\ base'[p] = base[p] /\ sel'[p] = sel[p]
    BY <1>12 DEF Select, Go, IndInv, TypeInv, TypeOK, Same, Engaged
  <2>2. BaseOf(p)'
    BY <1>12, OwnParts DEF Select, Go, IndInv, TypeInv, TypeOK, BaseOf, Working, AllRead
  <2>3. ReadingOf(p)'
    BY <1>12, OwnParts DEF Select, Go, IndInv, TypeInv, TypeOK, ReadingOf, AllRead,
       Candidates, Preset
  <2>4. RanOf(p)' /\ RevisingOf(p)'
    BY <1>12, OwnParts DEF Select, Go, IndInv, TypeInv, TypeOK, RanOf, RevisingOf
  <2> QED
    BY <2>1, <2>2, <2>3, <2>4, OwnStep
<1>13. CASE TickRaises(p)
  BY <1>13, QuitStep DEF TickRaises
<1> QED
  BY <1>1, <1>2, <1>3, <1>4, <1>5, <1>6, <1>7, <1>8, <1>9, <1>10, <1>11, <1>12, <1>13,
     <1>14

(* An engaged tick between the saves, and a claim that raises. *)
LEMMA WorkingKeeps ==
  ASSUME IndInv, NEW p \in Ticks,
         \/ ClaimFails(p)
         \/ (\E d \in FinalDisposition : HandlerReturns(p, d))
         \/ Checkpoint(p) \/ CheckpointFails(p) \/ AppendReply(p)
         \/ ReplyRefused(p) \/ PushReply(p) \/ PushUnverified(p)
         \/ Report(p)
  PROVE  LedgerInv'
<1> p \in Proc
  BY DEF Proc
<1> USE DEF refs, locks, world, outbox, tasksv, held
<1>1. CASE ClaimFails(p)
  <2>1. CASE UNCHANGED progress
    BY <1>1, <2>1, QuitStep DEF ClaimFails, LeaveQuietly
  <2>2. CASE Saved(ClaimedProgress(p))
    <3>1. ClaimedProgress(p) \in Progress /\ IsChild(ClaimedProgress(p)) /\ progress' = ClaimedProgress(p)
      BY <1>1, <2>2, PendingTypes DEF ClaimFails, Saved, IndInv, Reconciling
    <3>0. MayClaim(ClaimedProgress(p))
      BY <1>1, <3>1, ClaimSave DEF ClaimFails
    <3>2. /\ \A q \in Proc : pc[q] \notin Engaged
          /\ \A m \in Message : progress'.tasks[m] = "unseen" => progress.tasks[m] = "unseen"
      BY <3>0, <3>1, MayFacts
    <3>3. progress' \in Progress /\ progress'.ver = progress.ver + 1
      BY <3>1 DEF IsChild
    <3>4. Leave(p) /\ UNCHANGED <<orphans, runs, plan>>
      BY <1>1 DEF ClaimFails, LeaveQuietly
    <3> QED
      BY <3>2, <3>3, <3>4, QuitMoved
  <2> QED
    BY <1>1, <2>1, <2>2 DEF ClaimFails, SaveRaised
<1>2. CASE \E d \in FinalDisposition : HandlerReturns(p, d)
  <2>1. /\ UNCHANGED <<progress, orphans, runs>>
        /\ \A q \in Proc : q # p => Same(q)
        /\ pc'[p] \in Engaged => pc[p] \in Engaged /\ base'[p] = base[p] /\ sel'[p] = sel[p]
    BY <1>2 DEF HandlerReturns, Go, IndInv, TypeInv, TypeOK, Same, Engaged
  <2>2. BaseOf(p)'
    BY <1>2, OwnParts DEF HandlerReturns, Go, IndInv, TypeInv, TypeOK, BaseOf, Working
  <2>3. ReadingOf(p)'
    BY <1>2, OwnParts DEF HandlerReturns, Go, IndInv, TypeInv, TypeOK, ReadingOf
  <2>4. RanOf(p)' /\ RevisingOf(p)'
    BY <1>2, OwnParts DEF HandlerReturns, Go, IndInv, TypeInv, TypeOK, RanOf, RevisingOf
  <2> QED
    BY <2>1, <2>2, <2>3, <2>4, OwnStep
<1>3. CASE Checkpoint(p)
  <2>1. /\ UNCHANGED <<progress, orphans, runs>>
        /\ \A q \in Proc : q # p => Same(q)
        /\ pc'[p] \in Engaged => pc[p] \in Engaged /\ base'[p] = base[p] /\ sel'[p] = sel[p]
    BY <1>3 DEF Checkpoint, Go, IndInv, TypeInv, TypeOK, Same, Engaged
  <2>2. BaseOf(p)'
    BY <1>3, OwnParts DEF Checkpoint, Go, IndInv, TypeInv, TypeOK, BaseOf, Working
  <2>3. ReadingOf(p)'
    BY <1>3, OwnParts DEF Checkpoint, Go, IndInv, TypeInv, TypeOK, ReadingOf
  <2>4. RanOf(p)' /\ RevisingOf(p)'
    BY <1>3, OwnParts DEF Checkpoint, Go, IndInv, TypeInv, TypeOK, RanOf, RevisingOf
  <2> QED
    BY <2>1, <2>2, <2>3, <2>4, OwnStep
<1>4. CASE CheckpointFails(p)
  <2>1. /\ UNCHANGED <<progress, orphans, runs>>
        /\ \A q \in Proc : q # p => Same(q)
        /\ pc'[p] \in Engaged => pc[p] \in Engaged /\ base'[p] = base[p] /\ sel'[p] = sel[p]
    BY <1>4 DEF CheckpointFails, Go, IndInv, TypeInv, TypeOK, Same, Engaged
  <2>2. BaseOf(p)'
    BY <1>4, OwnParts DEF CheckpointFails, Go, IndInv, TypeInv, TypeOK, BaseOf, Working
  <2>3. ReadingOf(p)'
    BY <1>4, OwnParts DEF CheckpointFails, Go, IndInv, TypeInv, TypeOK, ReadingOf
  <2>4. RanOf(p)' /\ RevisingOf(p)'
    BY <1>4, OwnParts DEF CheckpointFails, Go, IndInv, TypeInv, TypeOK, RanOf, RevisingOf
  <2> QED
    BY <2>1, <2>2, <2>3, <2>4, OwnStep
<1>5. CASE AppendReply(p)
  <2>1. /\ UNCHANGED <<progress, orphans, runs>>
        /\ \A q \in Proc : q # p => Same(q)
        /\ pc'[p] \in Engaged => pc[p] \in Engaged /\ base'[p] = base[p] /\ sel'[p] = sel[p]
    BY <1>5 DEF AppendReply, Go, IndInv, TypeInv, TypeOK, Same, Engaged
  <2>2. BaseOf(p)'
    BY <1>5, OwnParts DEF AppendReply, Go, IndInv, TypeInv, TypeOK, BaseOf, Working
  <2>3. ReadingOf(p)'
    BY <1>5, OwnParts DEF AppendReply, Go, IndInv, TypeInv, TypeOK, ReadingOf
  <2>4. RanOf(p)' /\ RevisingOf(p)'
    BY <1>5, OwnParts DEF AppendReply, Go, IndInv, TypeInv, TypeOK, RanOf, RevisingOf
  <2> QED
    BY <2>1, <2>2, <2>3, <2>4, OwnStep
<1>6. CASE ReplyRefused(p)
  <2>1. /\ UNCHANGED <<progress, orphans, runs>>
        /\ \A q \in Proc : q # p => Same(q)
        /\ pc'[p] \in Engaged => pc[p] \in Engaged /\ base'[p] = base[p] /\ sel'[p] = sel[p]
    BY <1>6 DEF ReplyRefused, Go, IndInv, TypeInv, TypeOK, Same, Engaged
  <2>2. BaseOf(p)'
    BY <1>6, OwnParts DEF ReplyRefused, Go, IndInv, TypeInv, TypeOK, BaseOf, Working
  <2>3. ReadingOf(p)'
    BY <1>6, OwnParts DEF ReplyRefused, Go, IndInv, TypeInv, TypeOK, ReadingOf
  <2>4. RanOf(p)' /\ RevisingOf(p)'
    BY <1>6, OwnParts DEF ReplyRefused, Go, IndInv, TypeInv, TypeOK, RanOf, RevisingOf
  <2> QED
    BY <2>1, <2>2, <2>3, <2>4, OwnStep
<1>7. CASE PushReply(p)
  <2>1. /\ UNCHANGED <<progress, orphans, runs>>
        /\ \A q \in Proc : q # p => Same(q)
        /\ pc'[p] \in Engaged => pc[p] \in Engaged /\ base'[p] = base[p] /\ sel'[p] = sel[p]
    BY <1>7 DEF PushReply, Go, IndInv, TypeInv, TypeOK, Same, Engaged
  <2>2. BaseOf(p)'
    BY <1>7, OwnParts DEF PushReply, Go, IndInv, TypeInv, TypeOK, BaseOf, Working
  <2>3. ReadingOf(p)'
    BY <1>7, OwnParts DEF PushReply, Go, IndInv, TypeInv, TypeOK, ReadingOf
  <2>4. RanOf(p)' /\ RevisingOf(p)'
    BY <1>7, OwnParts DEF PushReply, Go, IndInv, TypeInv, TypeOK, RanOf, RevisingOf
  <2> QED
    BY <2>1, <2>2, <2>3, <2>4, OwnStep
<1>8. CASE PushUnverified(p)
  <2>1. /\ UNCHANGED <<progress, orphans, runs>>
        /\ \A q \in Proc : q # p => Same(q)
        /\ pc'[p] \in Engaged => pc[p] \in Engaged /\ base'[p] = base[p] /\ sel'[p] = sel[p]
    BY <1>8 DEF PushUnverified, Go, IndInv, TypeInv, TypeOK, Same, Engaged
  <2>2. BaseOf(p)'
    BY <1>8, OwnParts DEF PushUnverified, Go, IndInv, TypeInv, TypeOK, BaseOf, Working
  <2>3. ReadingOf(p)'
    BY <1>8, OwnParts DEF PushUnverified, Go, IndInv, TypeInv, TypeOK, ReadingOf
  <2>4. RanOf(p)' /\ RevisingOf(p)'
    BY <1>8, OwnParts DEF PushUnverified, Go, IndInv, TypeInv, TypeOK, RanOf, RevisingOf
  <2> QED
    BY <2>1, <2>2, <2>3, <2>4, OwnStep
<1>9. CASE Report(p)
  BY <1>9, QuitStep DEF Report
<1> QED
  BY <1>1, <1>2, <1>3, <1>4, <1>5, <1>6, <1>7, <1>8, <1>9

(* Reconciliation. *)
LEMMA OperatorKeeps ==
  ASSUME IndInv, NEW p \in Operators,
         \/ (\E m \in Message : Review(p, m)) \/ ReconcileStart(p)
         \/ ReconcileAdmitted(p) \/ ReconcileDeclined(p)
         \/ ReconcileAccepted(p) \/ ReconcileSave(p)
  PROVE  LedgerInv'
<1> p \in Proc
  BY DEF Proc
<1> USE DEF refs, locks, world, outbox, tasksv, held
<1>1. CASE \E m \in Message : Review(p, m)
  <2>1. /\ UNCHANGED <<progress, orphans, runs>>
        /\ \A q \in Proc : q # p => Same(q)
        /\ pc'[p] \in Engaged => pc[p] \in Engaged /\ base'[p] = base[p] /\ sel'[p] = sel[p]
    BY <1>1 DEF Review, IndInv, TypeInv, TypeOK, Same, Engaged
  <2>2. BaseOf(p)'
    BY <1>1, OwnParts DEF Review, IndInv, TypeInv, TypeOK, BaseOf, Working
  <2>3. ReadingOf(p)'
    BY <1>1, OwnParts DEF Review, IndInv, TypeInv, TypeOK, ReadingOf
  <2>4. RanOf(p)' /\ RevisingOf(p)'
    BY <1>1, OwnParts DEF Review, IndInv, TypeInv, TypeOK, RanOf, RevisingOf
  <2> QED
    BY <2>1, <2>2, <2>3, <2>4, OwnStep
<1>2. CASE ReconcileStart(p)
  <2>1. /\ UNCHANGED <<progress, orphans, runs>>
        /\ \A q \in Proc : q # p => Same(q)
        /\ pc'[p] \in Engaged => pc[p] \in Engaged /\ base'[p] = base[p] /\ sel'[p] = sel[p]
    BY <1>2 DEF ReconcileStart, Go, IndInv, TypeInv, TypeOK, Same, Engaged
  <2>2. BaseOf(p)'
    BY <1>2, OwnParts DEF ReconcileStart, Go, IndInv, TypeInv, TypeOK, BaseOf, Working
  <2>3. ReadingOf(p)'
    BY <1>2, OwnParts DEF ReconcileStart, Go, IndInv, TypeInv, TypeOK, ReadingOf
  <2>4. RanOf(p)' /\ RevisingOf(p)'
    BY <1>2, OwnParts DEF ReconcileStart, Go, IndInv, TypeInv, TypeOK, RanOf, RevisingOf
  <2> QED
    BY <2>1, <2>2, <2>3, <2>4, OwnStep
<1>3. CASE ReconcileAdmitted(p)
  <2>1. /\ UNCHANGED <<progress, orphans, runs>>
        /\ \A q \in Proc : q # p => Same(q)
        /\ pc'[p] \in Engaged => pc[p] \in Engaged /\ base'[p] = base[p] /\ sel'[p] = sel[p]
    BY <1>3 DEF ReconcileAdmitted, Go, IndInv, TypeInv, TypeOK, Same, Engaged
  <2>2. BaseOf(p)'
    BY <1>3, OwnParts DEF ReconcileAdmitted, Go, IndInv, TypeInv, TypeOK, BaseOf, Working
  <2>3. ReadingOf(p)'
    BY <1>3, OwnParts DEF ReconcileAdmitted, Go, IndInv, TypeInv, TypeOK, ReadingOf
  <2>4. RanOf(p)' /\ RevisingOf(p)'
    BY <1>3, OwnParts DEF ReconcileAdmitted, Go, IndInv, TypeInv, TypeOK, RanOf, RevisingOf
  <2> QED
    BY <2>1, <2>2, <2>3, <2>4, OwnStep
<1>4. CASE ReconcileDeclined(p)
  BY <1>4, QuitStep DEF ReconcileDeclined
<1>5. CASE ReconcileAccepted(p)
  <2>1. /\ UNCHANGED <<progress, orphans, runs>>
        /\ \A q \in Proc : q # p => Same(q)
        /\ pc'[p] \in Engaged => pc[p] \in Engaged /\ base'[p] = base[p] /\ sel'[p] = sel[p]
    BY <1>5 DEF ReconcileAccepted, Go, IndInv, TypeInv, TypeOK, Same, Engaged
  <2>2. BaseOf(p)'
    BY <1>5, OwnParts DEF ReconcileAccepted, Go, IndInv, TypeInv, TypeOK, BaseOf, Working,
       Progress
  <2>3. ReadingOf(p)'
    BY <1>5, OwnParts DEF ReconcileAccepted, Go, IndInv, TypeInv, TypeOK, ReadingOf
  <2>4. RanOf(p)' /\ RevisingOf(p)'
    BY <1>5, OwnParts DEF ReconcileAccepted, Go, IndInv, TypeInv, TypeOK, RanOf, RevisingOf
  <2> QED
    BY <2>1, <2>2, <2>3, <2>4, OwnStep
<1>6. CASE ReconcileSave(p)
  <2>1. CASE UNCHANGED progress
    BY <1>6, <2>1, QuitStep DEF ReconcileSave
  <2>2. CASE Saved(ReconciledProgress(p))
    <3>1. ReconciledProgress(p) \in Progress /\ IsChild(ReconciledProgress(p)) /\ progress' = ReconciledProgress(p)
      BY <1>6, <2>2, PendingTypes DEF ReconcileSave, Saved, IndInv, Reconciling
    <3>0. MayReconcile(ReconciledProgress(p))
      BY <1>6, <3>1, ReconciliationSave DEF ReconcileSave
    <3>2. /\ \A q \in Proc : pc[q] \notin Engaged
          /\ \A m \in Message : progress'.tasks[m] = "unseen" => progress.tasks[m] = "unseen"
      BY <3>0, <3>1, MayFacts
    <3>3. progress' \in Progress /\ progress'.ver = progress.ver + 1
      BY <3>1 DEF IsChild
    <3>4. Leave(p) /\ UNCHANGED <<orphans, runs, plan>>
      BY <1>6 DEF ReconcileSave
    <3> QED
      BY <3>2, <3>3, <3>4, QuitMoved
  <2> QED
    BY <1>6, <2>1, <2>2 DEF ReconcileSave, SaveRaised
<1> QED
  BY <1>1, <1>2, <1>3, <1>4, <1>5, <1>6

-----------------------------------------------------------------------------
(* The steps that open, run and close a claim. *)

(* Who does not move keeps what it relied on, if the step dispatches nothing. *)
LEMMA OthersKeep ==
  ASSUME IndInv, NEW p \in Proc, UNCHANGED runs, \A q \in Proc : q # p => Same(q),
         ReadingOf(p)', RanOf(p)', RevisingOf(p)'
  PROVE  ReadingInv' /\ RanInv' /\ RevisingInv'
<1>1. ReadingInv'
  BY DEF IndInv, LedgerInv, ReadingInv, Same, ReadingOf
<1>2. RanInv' /\ RevisingInv'
  BY DEF IndInv, LedgerInv, RanInv, RevisingInv, Same, RanOf, RevisingOf
<1> QED
  BY <1>1, <1>2

LEMMA ClaimKeeps ==
  ASSUME IndInv, NEW p \in Ticks, Claim(p)
  PROVE  LedgerInv'
<1> p \in Proc
  BY DEF Proc
<1> DEFINE c == ClaimedProgress(p)
<1>1. /\ pc[p] = "claim" /\ IsChild(c) /\ progress' = c /\ UNCHANGED <<orphans, runs>>
      /\ sel[p] \in Message
  BY DEF Claim, Saved, refs, tasksv, IndInv, TypeInv, ChosenOK, Chosen
<1>2. /\ MayClaim(c) /\ progress.tasks[sel[p]] = "unseen"
      /\ c.tasks = [progress.tasks EXCEPT ![sel[p]] = "claimed"]
  BY <1>1, ClaimSave
<1>3. /\ \A q \in Proc : pc[q] \notin Engaged
      /\ \A m \in Message : c.tasks[m] = "unseen" => progress.tasks[m] = "unseen"
  BY <1>2, MayFacts
<1>4. c \in Progress /\ c.ver = progress.ver + 1 /\ progress.tasks \in Tasks
  BY <1>1, PendingTypes DEF IsChild, IndInv, TypeInv, TypeOK, Progress
<1>5. /\ \A q \in Proc : q # p => Same(q)
      /\ base'[p] = c /\ sel'[p] = sel[p] /\ disp'[p] = disp[p]
      /\ pc'[p] = IF disp[p] = "unseen" THEN "dispatch" ELSE "append"
  BY DEF Claim, Go, Same, IndInv, TypeInv, TypeOK
<1>6. BaseInv' /\ OrphanInv'
  BY <1>1, <1>4, <1>5, MoveKeeps DEF Same
<1>7. EngagedInv'
  BY <1>1, <1>2, <1>3, <1>4, <1>5 DEF EngagedInv, Same, Tasks
<1>8. RunsInv'
  BY <1>1, <1>3, RunsKeep
<1>9. runs[sel[p]] = 0 /\ disp[p] # "completed"
  BY <1>1, <1>2 DEF IndInv, LedgerInv, RunsInv, ReadingInv, ReadingOf
<1>10. ReadingOf(p)' /\ RanOf(p)' /\ RevisingOf(p)'
  BY <1>1, <1>5, <1>9 DEF ReadingOf, RanOf, RevisingOf
<1> QED
  BY <1>1, <1>5, <1>6, <1>7, <1>8, <1>10, OthersKeep DEF LedgerInv

(* The only step that calls a handler: its message is claimed, was never     *)
(* dispatched, and no late commit fits on the ref.                           *)
LEMMA DispatchKeeps ==
  ASSUME IndInv, NEW p \in Ticks, Dispatch(p)
  PROVE  LedgerInv'
<1> p \in Proc
  BY DEF Proc
<1>1. /\ pc[p] = "dispatch" /\ sel[p] \in Message /\ UNCHANGED <<progress, orphans>>
      /\ \A q \in Proc : /\ base'[q] = base[q] /\ sel'[q] = sel[q]
                         /\ disp'[q] = disp[q] /\ plan'[q] = plan[q]
                         /\ q # p => pc'[q] = pc[q]
      /\ pc'[p] = "running"
      /\ runs' = [runs EXCEPT ![sel[p]] = runs[sel[p]] + 1]
  BY DEF Dispatch, Go, refs, IndInv, TypeInv, TypeOK, ChosenOK, Chosen
<1>2. /\ progress.tasks[sel[p]] = "claimed" /\ runs[sel[p]] = 0
      /\ \A q \in Proc : pc[q] \in Engaged => q = p
  BY <1>1 DEF IndInv, LedgerInv, EngagedInv, Engaged, RanInv, RanOf
<1>3. \A c \in orphans : ~IsChild(c)
  BY <1>1, MayFacts DEF IndInv, LedgerInv, OrphanInv, Engaged
<1>4. OrphanInv'
  BY <1>1, <1>3 DEF IndInv, LedgerInv, OrphanInv, IsChild
<1>5. runs' \in [Message -> Nat] /\ runs'[sel[p]] = 1
  BY <1>1, <1>2 DEF IndInv, TypeInv, TypeOK
<1>6. RunsInv'
  BY <1>1, <1>2, <1>5 DEF IndInv, LedgerInv, RunsInv, TypeInv, TypeOK
<1>7. RanInv'
  BY <1>1, <1>2, <1>5 DEF RanInv, RanOf, Engaged
<1>8. BaseInv' /\ ReadingInv' /\ RevisingInv'
  <2>1. ASSUME NEW q \in Proc
        PROVE  BaseOf(q)' /\ ReadingOf(q)' /\ RevisingOf(q)'
    BY <1>1, OwnParts DEF BaseOf, ReadingOf, RevisingOf, Working
  <2> QED
    BY <2>1 DEF BaseInv, ReadingInv, RevisingInv
<1>9. EngagedInv'
  BY <1>1 DEF IndInv, LedgerInv, EngagedInv, Engaged
<1> QED
  BY <1>4, <1>6, <1>7, <1>8, <1>9 DEF LedgerInv

(* The last save, seen by its tick or only by the ref. *)
LEMMA FinishKeeps ==
  ASSUME IndInv, NEW p \in Ticks, Finish(p) \/ FinishFails(p)
  PROVE  LedgerInv'
<1> p \in Proc
  BY DEF Proc
<1> DEFINE c == FinalProgress(p)
<1>1. /\ pc[p] = "finish" /\ UNCHANGED <<orphans, runs>>
      /\ \A q \in Proc : q # p => Same(q)
      /\ base'[p] = base[p] /\ pc'[p] \in {"report", "unsaved"}
  BY DEF Finish, FinishFails, Go, Same, tasksv, IndInv, TypeInv, TypeOK
<1>2. ReadingOf(p)' /\ RanOf(p)' /\ RevisingOf(p)'
  BY <1>1 DEF ReadingOf, RanOf, RevisingOf
<1>3. CASE UNCHANGED progress
  <2>1. BaseOf(p)'
    BY <1>1, <1>3 DEF BaseOf, Working, IndInv, LedgerInv, BaseInv
  <2> QED
    BY <1>1, <1>2, <1>3, <2>1, OwnStep DEF Engaged
<1>4. CASE progress' = c
  <2>1. c \in Progress /\ c.ver = progress.ver + 1
    BY <1>1, FinishSave, PendingTypes DEF IndInv, Decided
  <2>2. BaseInv' /\ OrphanInv'
    BY <1>1, <1>4, <2>1, MoveKeeps DEF Same
  <2>3. EngagedInv'
    BY <1>1, FinishSave DEF EngagedInv, Engaged, Same
  <2>4. RunsInv'
    <3>1. /\ disp[p] # "unseen" /\ sel[p] \in Message
          /\ c.tasks = [progress.tasks EXCEPT ![sel[p]] = disp[p]]
      BY <1>1, FinishSave DEF FinalDisposition
    <3>2. progress.tasks \in [Message -> Disposition]
      BY DEF IndInv, TypeInv, TypeOK, Progress, Tasks
    <3>3. \A m \in Message : c.tasks[m] = "unseen" => progress.tasks[m] = "unseen"
      BY <3>1, <3>2
    <3> QED
      BY <1>1, <1>4, <3>3, RunsKeep
  <2> QED
    BY <1>1, <1>2, <2>2, <2>3, <2>4, OthersKeep DEF LedgerInv
<1> QED
  BY <1>3, <1>4 DEF Finish, FinishFails, Saved, SaveRaised

-----------------------------------------------------------------------------
(* Deaths, late commits, and the rest of the world. *)

(* A git child that outlives a process holds a commit that still may be made. *)
LEMMA PendingMay ==
  ASSUME IndInv, NEW p \in Proc, NEW c \in Pending(p)
  PROVE  /\ c.ver =< progress.ver + 1
         /\ IsChild(c) =>
              \/ MayNoteCursors(c) \/ MayClaim(c) \/ MayReconcile(c)
              \/ Closes(c) /\ \A q \in Proc : pc[q] \in Engaged => q = p
<1>1. base[p].ver \in Nat /\ progress.ver \in Nat /\ base[p].ver =< progress.ver
  BY Versions DEF IndInv, LedgerInv, BaseInv, BaseOf
<1>2. CASE pc[p] = "idle" /\ c = IdleProgress(p)
  <2>1. c.ver = base[p].ver + 1
    BY <1>2, PendingTypes DEF IndInv
  <2> QED
    BY <1>1, <1>2, <2>1, IdleSave
<1>3. CASE pc[p] = "claim" /\ c = ClaimedProgress(p)
  <2>1. c.ver = base[p].ver + 1
    BY <1>3, PendingTypes DEF IndInv
  <2>2. IsChild(ClaimedProgress(p)) => MayClaim(ClaimedProgress(p))
    BY <1>3, ClaimSave
  <2> QED
    BY <1>1, <1>3, <2>1, <2>2
<1>4. CASE pc[p] = "finish" /\ c = FinalProgress(p)
  <2>1. c.ver = progress.ver + 1
    BY <1>4, FinishSave
  <2>2. /\ sel[p] \in Message /\ disp[p] \in FinalDisposition
        /\ progress.tasks[sel[p]] = "claimed"
        /\ disp[p] = "completed" => runs[sel[p]] = 1
        /\ c.tasks = [progress.tasks EXCEPT ![sel[p]] = disp[p]]
        /\ \A q \in Proc : pc[q] \in Engaged => q = p
    BY <1>4, FinishSave
  <2>3. Closes(c)
    BY <2>2 DEF Closes
  <2> QED
    BY <1>1, <2>1, <2>2, <2>3
<1>5. CASE pc[p] = "rSave" /\ c = ReconciledProgress(p)
  <2>1. c.ver = base[p].ver + 1
    BY <1>5, PendingTypes DEF IndInv, Reconciling
  <2>2. IsChild(ReconciledProgress(p)) => MayReconcile(ReconciledProgress(p))
    BY <1>5, ReconciliationSave
  <2> QED
    BY <1>1, <1>5, <2>1, <2>2
<1> QED
  BY <1>2, <1>3, <1>4, <1>5 DEF Pending

LEMMA CrashKeeps ==
  ASSUME IndInv, NEW p \in Proc, Crash(p)
  PROVE  LedgerInv'
<1> USE DEF tasksv
<1>1. /\ Leave(p) /\ UNCHANGED <<progress, runs, plan>>
      /\ orphans' \subseteq orphans \union Pending(p)
  BY DEF Crash
<1>2. ReadingInv' /\ RanInv' /\ RevisingInv'
  BY <1>1, LeaveKeeps
<1>3. EngagedInv'
  BY <1>1, LeaveKeeps DEF IndInv, LedgerInv, EngagedInv
<1>4. \A q \in Proc : pc'[q] # "ready" => pc'[q] = pc[q] /\ base'[q] = base[q]
  BY <1>1 DEF Leave, IndInv, TypeInv, TypeOK
<1>5. BaseInv'
  BY <1>1, <1>4, LeaveKeeps, EmptyFacts, Versions
  DEF IndInv, LedgerInv, BaseInv, BaseOf, Working
<1>6. OrphanInv'
  <2>1. \A q \in Proc : pc'[q] \in Engaged => q # p /\ pc[q] \in Engaged
    BY <1>1, LeaveKeeps
  <2>2. \A c : Closes(c) => Closes(c)'
    BY <1>1 DEF Closes
  <2>3. ASSUME NEW c \in orphans
        PROVE  /\ c.ver =< progress.ver + 1
               /\ IsChild(c) => \/ MayNoteCursors(c) \/ MayClaim(c)
                                \/ MayFinish(c)' \/ MayReconcile(c)
    BY <2>1, <2>2 DEF IndInv, LedgerInv, OrphanInv, MayFinish
  <2>4. ASSUME NEW c \in Pending(p)
        PROVE  /\ c.ver =< progress.ver + 1
               /\ IsChild(c) => \/ MayNoteCursors(c) \/ MayClaim(c)
                                \/ MayFinish(c)' \/ MayReconcile(c)
    <3>1. /\ c.ver =< progress.ver + 1
          /\ IsChild(c) =>
               \/ MayNoteCursors(c) \/ MayClaim(c) \/ MayReconcile(c)
               \/ Closes(c) /\ \A q \in Proc : pc[q] \in Engaged => q = p
      BY PendingMay
    <3>2. Closes(c) /\ (\A q \in Proc : pc[q] \in Engaged => q = p) => MayFinish(c)'
      BY <2>1, <2>2 DEF MayFinish
    <3> QED
      BY <3>1, <3>2
  <2> QED
    BY <1>1, <2>3, <2>4 DEF OrphanInv, IsChild, MayNoteCursors, MayClaim, MayReconcile
<1>7. RunsInv'
  BY <1>1, RunsKeep
<1> QED
  BY <1>2, <1>3, <1>5, <1>6, <1>7 DEF LedgerInv

(* A commit that lands late lands where no tick relies on the ref. *)
LEMMA OrphanKeeps ==
  ASSUME IndInv, NEW c \in orphans, OrphanLands(c)
  PROVE  LedgerInv'
<1> USE DEF held, tasksv
<1>1. /\ IsChild(c) /\ progress' = c /\ orphans' \subseteq orphans
      /\ UNCHANGED <<runs, plan, pc, base, sel, disp>>
  BY DEF OrphanLands, Saved
<1>2. c \in Progress /\ c.ver = progress.ver + 1
  BY <1>1 DEF IndInv, TypeInv, TypeOK, IsChild
<1>3. /\ \A q \in Proc : pc[q] \notin Engaged
      /\ \A m \in Message : c.tasks[m] = "unseen" => progress.tasks[m] = "unseen"
  BY <1>1, MayFacts DEF IndInv, LedgerInv, OrphanInv
<1>4. BaseInv' /\ OrphanInv'
  BY <1>1, <1>2, MoveKeeps
<1>5. RunsInv'
  BY <1>1, <1>3, RunsKeep
<1>6. EngagedInv'
  BY <1>1, <1>3 DEF EngagedInv
<1>7. ReadingInv' /\ RanInv' /\ RevisingInv'
  BY <1>1 DEF IndInv, LedgerInv, ReadingInv, ReadingOf, RanInv, RanOf, RevisingInv, RevisingOf
<1> QED
  BY <1>4, <1>5, <1>6, <1>7 DEF LedgerInv

LEMMA StillKeeps ==
  ASSUME IndInv, UNCHANGED <<progress, orphans, runs, plan, pc, base, sel, disp>>
  PROVE  LedgerInv'
<1>1. OrphanInv' /\ RunsInv'
  BY StayStep
<1>2. BaseInv' /\ EngagedInv'
  BY DEF IndInv, LedgerInv, BaseInv, BaseOf, EngagedInv
<1>3. ReadingInv' /\ RanInv' /\ RevisingInv'
  BY DEF IndInv, LedgerInv, ReadingInv, ReadingOf, RanInv, RanOf, RevisingInv, RevisingOf
<1> QED
  BY <1>1, <1>2, <1>3 DEF LedgerInv

LEMMA EnvironmentKeeps ==
  ASSUME IndInv, Environment
  PROVE  LedgerInv'
<1> USE DEF refs, tasksv, held
<1>1. CASE \E p \in Proc : Crash(p)
  BY <1>1, CrashKeeps
<1>2. CASE \E c \in orphans : OrphanLands(c)
  BY <1>2, OrphanKeeps
<1>3. CASE \/ \E r \in inflight : PushLands(r)
           \/ \E r \in Roots : OtherAdmitted(r) \/ OtherReleases(r)
           \/ \E s \in Source, m \in Message : Arrive(s, m)
           \/ \E s \in Source, ms \in SUBSET Message : Rewrite(s, ms)
           \/ ToggleStop
  <2>1. UNCHANGED <<progress, orphans, runs, plan, pc, base, sel, disp>>
    BY <1>3 DEF PushLands, OtherAdmitted, OtherReleases, Arrive, Rewrite, ToggleStop
  <2> QED
    BY <2>1, StillKeeps
<1> QED
  BY <1>1, <1>2, <1>3 DEF Environment

-----------------------------------------------------------------------------
(* The theorems *)

LEMMA LedgerInit == Init => LedgerInv
<1> SUFFICES ASSUME Init PROVE LedgerInv
  OBVIOUS
<1>1. BaseInv /\ ReadingInv /\ RevisingInv
  BY EmptyFacts DEF Init, BaseInv, BaseOf, ReadingInv, ReadingOf, RevisingInv,
     RevisingOf, Proc
<1>2. EngagedInv /\ RanInv
  BY DEF Init, EngagedInv, Engaged, RanInv, RanOf
<1>3. OrphanInv /\ RunsInv
  BY DEF Init, OrphanInv, RunsInv
<1> QED
  BY <1>1, <1>2, <1>3 DEF LedgerInv

LEMMA LedgerStep == IndInv /\ [Next]_vars => LedgerInv'
<1> SUFFICES ASSUME IndInv, [Next]_vars PROVE LedgerInv'
  OBVIOUS
<1>1. CASE \E p \in Ticks : TickBusy(p) \/ TickStep(p) \/ TickFailure(p)
  BY <1>1, ReadingKeeps, WorkingKeeps, ClaimKeeps, DispatchKeeps, FinishKeeps
  DEF TickStep, TickFailure
<1>2. CASE \E o \in Operators : OperatorStep(o)
  BY <1>2, OperatorKeeps DEF OperatorStep
<1>3. CASE Environment
  BY <1>3, EnvironmentKeeps
<1>4. CASE UNCHANGED vars
  BY <1>4, StillKeeps DEF vars, refs, tasksv, held
<1> QED
  BY <1>1, <1>2, <1>3, <1>4 DEF Next

(* The inductive invariant holds in every reachable state, whatever runtime  *)
(* roots the commands use and however many faults there are.                 *)
THEOREM Inductive == Spec => []IndInv
<1>1. Init => IndInv
  BY InitTypes, LedgerInit DEF IndInv
<1>2. IndInv /\ [Next]_vars => IndInv'
  BY TypeStep, LedgerStep DEF IndInv
<1> QED
  BY <1>1, <1>2, PTL DEF Spec

(* No message is ever given to a handler twice, and one that was is never    *)
(* unhandled again: the claim is durable before the handler is called, and   *)
(* nothing but a compare-and-swap moves the ref.                             *)
THEOREM HandledAtMostOnce == Spec => []AtMostOnce
<1>1. IndInv => AtMostOnce
  BY DEF IndInv, LedgerInv, RunsInv, AtMostOnce
<1> QED
  BY <1>1, Inductive, PTL

-----------------------------------------------------------------------------
(* WorkCycle implements TaskLedger *)

(* The helpers of ReaderProgress mean in TaskLedger what they mean here. *)
LEMMA SameHelpers ==
  /\ \A t : Ledger!Barriers(t) = Barriers(t)
  /\ \A t : Ledger!HasBudget(t) <=> HasBudget(t)
  /\ Ledger!FinalDisposition = FinalDisposition /\ Ledger!NoTasks = NoTasks
<1>1. \A t : Ledger!Barriers(t) = Barriers(t)
  BY DEF Ledger!Barriers, Barriers, Ledger!BarrierDisposition, BarrierDisposition
<1>2. \A t : Ledger!Completed(t) = Completed(t)
  BY DEF Ledger!Completed, Completed, Ledger!CompletedDisposition, CompletedDisposition
<1>3. \A S : Ledger!Cardinality(S) = Cardinality(S)
  BY DEF Ledger!Cardinality, Cardinality
<1>4. Ledger!FinalDisposition = FinalDisposition /\ Ledger!NoTasks = NoTasks
  BY DEF Ledger!FinalDisposition, FinalDisposition, Ledger!NoTasks, NoTasks
<1> QED
  BY <1>1, <1>2, <1>3, <1>4 DEF Ledger!HasBudget, HasBudget

(* Whatever is attached to the ref is one move of one message, or none. *)
LEMMA CommitMaps ==
  ASSUME IndInv, NEW c,
         MayNoteCursors(c) \/ MayClaim(c) \/ Closes(c) \/ MayReconcile(c),
         progress' = c, UNCHANGED runs
  PROVE  [Ledger!Next]_(Ledger!vars)
<1>1. CASE MayNoteCursors(c)
  BY <1>1 DEF MayNoteCursors, Ledger!vars
<1>2. CASE MayClaim(c)
  <2>1. PICK m \in Message : Ledger!Claim(m)
    BY <1>2, SameHelpers DEF MayClaim, Ledger!Claim
  <2> QED
    BY <2>1 DEF Ledger!Next
<1>3. CASE Closes(c)
  <2>1. PICK m \in Message, d \in FinalDisposition : Ledger!Finish(m, d)
    BY <1>3 DEF Closes, Ledger!Finish
  <2> QED
    BY <2>1, SameHelpers DEF Ledger!Next
<1>4. CASE MayReconcile(c)
  <2>1. PICK m \in Message : Ledger!Reconcile(m)
    BY <1>4 DEF MayReconcile, Ledger!Reconcile
  <2> QED
    BY <2>1 DEF Ledger!Next
<1> QED
  BY <1>1, <1>2, <1>3, <1>4

(* A process's save, reported or not, and a late one. *)
LEMMA SaveMaps ==
  ASSUME IndInv, NEW p \in Proc, NEW c \in Pending(p), Saved(c) \/ SaveRaised(c),
         UNCHANGED runs
  PROVE  [Ledger!Next]_(Ledger!vars)
<1>1. CASE UNCHANGED progress
  BY <1>1 DEF Ledger!vars
<1>2. CASE Saved(c)
  <2>1. MayNoteCursors(c) \/ MayClaim(c) \/ MayReconcile(c) \/ Closes(c)
    BY <1>2, PendingMay DEF Saved
  <2>2. progress' = c
    BY <1>2 DEF Saved
  <2> QED
    BY <2>1, <2>2, CommitMaps
<1> QED
  BY <1>1, <1>2 DEF SaveRaised

LEMMA OrphanMaps ==
  ASSUME IndInv, NEW c \in orphans, OrphanLands(c)
  PROVE  [Ledger!Next]_(Ledger!vars)
<1>1. progress' = c /\ IsChild(c) /\ UNCHANGED runs
  BY DEF OrphanLands, Saved, tasksv
<1>2. MayNoteCursors(c) \/ MayClaim(c) \/ MayFinish(c) \/ MayReconcile(c)
  BY <1>1 DEF IndInv, LedgerInv, OrphanInv
<1> QED
  BY <1>1, <1>2, CommitMaps DEF MayFinish

LEMMA DispatchMaps ==
  ASSUME IndInv, NEW p \in Ticks, Dispatch(p)
  PROVE  [Ledger!Next]_(Ledger!vars)
<1>1. p \in Proc /\ pc[p] = "dispatch"
  BY DEF Proc, Dispatch
<1>2. /\ sel[p] \in Message
      /\ progress.tasks[sel[p]] = "claimed" /\ runs[sel[p]] = 0
  BY <1>1 DEF IndInv, TypeInv, ChosenOK, Chosen, LedgerInv, EngagedInv, Engaged, RanInv, RanOf
<1>3. Ledger!Dispatch(sel[p])
  BY <1>2 DEF Dispatch, Ledger!Dispatch, refs
<1> QED
  BY <1>2, <1>3 DEF Ledger!Next

LEMMA LedgerMaps == IndInv /\ [Next]_vars => [Ledger!Next]_(Ledger!vars)
<1> SUFFICES ASSUME IndInv, [Next]_vars PROVE [Ledger!Next]_(Ledger!vars)
  OBVIOUS
<1> USE DEF refs, tasksv
<1>1. ASSUME NEW p \in Proc,
             \/ SaveCursors(p) \/ Claim(p) \/ ClaimFails(p) \/ Finish(p)
             \/ FinishFails(p) \/ ReconcileSave(p)
      PROVE  [Ledger!Next]_(Ledger!vars)
  <2>1. CASE SaveCursors(p)
    BY <2>1, SaveMaps DEF SaveCursors, Pending
  <2>2. CASE Claim(p) \/ ClaimFails(p)
    BY <2>2, SaveMaps DEF Claim, ClaimFails, Pending
  <2>3. CASE Finish(p) \/ FinishFails(p)
    BY <2>3, SaveMaps DEF Finish, FinishFails, Pending
  <2>4. CASE ReconcileSave(p)
    BY <2>4, SaveMaps DEF ReconcileSave, Pending
  <2> QED
    BY <1>1, <2>1, <2>2, <2>3, <2>4
<1>2. ASSUME NEW p \in Ticks,
             \/ TickBusy(p) \/ TickStart(p) \/ TickDeclined(p) \/ TickAdmitted(p)
             \/ LoadHalts(p) \/ Halt(p) \/ LoadExhausted(p) \/ Load(p)
             \/ (\E s \in Source : ReadSource(p, s)) \/ TickIdle(p) \/ TickNotesCursors(p) \/ Select(p)
             \/ (\E d \in FinalDisposition : HandlerReturns(p, d))
             \/ Checkpoint(p) \/ AppendReply(p) \/ PushReply(p) \/ Report(p)
             \/ ReadFails(p) \/ CheckpointFails(p) \/ ReplyRefused(p)
             \/ PushUnverified(p) \/ TickRaises(p)
      PROVE  UNCHANGED <<progress, runs>>
  BY <1>2 DEF TickBusy, TickStart, TickDeclined, TickAdmitted, LoadHalts, Halt,
     LoadExhausted, Load, ReadSource, TickIdle, TickNotesCursors, Select, HandlerReturns, Checkpoint,
     AppendReply, PushReply, Report, ReadFails, CheckpointFails, ReplyRefused,
     PushUnverified, TickRaises
<1>3. ASSUME NEW o \in Operators,
             \/ (\E m \in Message : Review(o, m)) \/ ReconcileStart(o)
             \/ ReconcileAdmitted(o) \/ ReconcileDeclined(o) \/ ReconcileAccepted(o)
      PROVE  UNCHANGED <<progress, runs>>
  BY <1>3 DEF Review, ReconcileStart, ReconcileAdmitted, ReconcileDeclined,
     ReconcileAccepted
<1>4. ASSUME Environment, \A c \in orphans : ~OrphanLands(c)
      PROVE  UNCHANGED <<progress, runs>>
  BY <1>4 DEF Environment, Crash, PushLands, OtherAdmitted, OtherReleases, Arrive,
     Rewrite, ToggleStop
<1>5. UNCHANGED <<progress, runs>> => UNCHANGED Ledger!vars
  BY DEF Ledger!vars
<1>6. CASE \E p \in Ticks : TickBusy(p) \/ TickStep(p) \/ TickFailure(p)
  <2>1. PICK p \in Ticks : TickBusy(p) \/ TickStep(p) \/ TickFailure(p)
    BY <1>6
  <2>2. p \in Proc
    BY DEF Proc
  <2> QED
    BY <2>1, <2>2, <1>1, <1>2, <1>5, DispatchMaps DEF TickStep, TickFailure
<1>7. CASE \E o \in Operators : OperatorStep(o)
  <2>1. PICK o \in Operators : OperatorStep(o)
    BY <1>7
  <2>2. o \in Proc
    BY DEF Proc
  <2> QED
    BY <2>1, <2>2, <1>1, <1>3, <1>5 DEF OperatorStep
<1>8. CASE Environment
  BY <1>4, <1>5, <1>8, OrphanMaps
<1>9. CASE UNCHANGED vars
  BY <1>5, <1>9 DEF vars
<1> QED
  BY <1>6, <1>7, <1>8, <1>9 DEF Next

(* Every behaviour of the work cycle is one of the ledger: whoever moves the *)
(* progress ref, a message only goes along the arrows TaskLedger draws.      *)
THEOREM LedgerImplemented == Spec => LedgerKept
<1>1. Init => Ledger!Init
  BY EmptyFacts, SameHelpers DEF Init, Ledger!Init
<1> QED
  BY <1>1, Inductive, LedgerMaps, PTL DEF Spec, LedgerKept, Ledger!Spec

-----------------------------------------------------------------------------
(* What is on record has its evidence *)

(* How one step can change the dispositions on record.                      *)
Claims == \E m \in Message :
  /\ Barriers(progress.tasks) = {} /\ HasBudget(progress.tasks)
  /\ progress.tasks[m] = "unseen"
  /\ progress'.tasks = [progress.tasks EXCEPT ![m] = "claimed"]
Finishes == \E m \in Message, d \in FinalDisposition :
  /\ progress.tasks[m] = "claimed"
  /\ progress'.tasks = [progress.tasks EXCEPT ![m] = d]
Reconciles == \E m \in Message :
  /\ progress.tasks[m] = "unresolved"
  /\ progress'.tasks = [progress.tasks EXCEPT ![m] = "failed"]

(* A step of the cycle is a step of the ledger or leaves the tasks alone.   *)
LEMMA LedgerMoves ==
  ASSUME IndInv, [Next]_vars
  PROVE  progress'.tasks = progress.tasks \/ Claims \/ Finishes \/ Reconciles
<1>1. [Ledger!Next]_(Ledger!vars)
  BY LedgerMaps
<1>2. CASE UNCHANGED Ledger!vars
  BY <1>2 DEF Ledger!vars
<1>3. ASSUME NEW m \in Message, Ledger!Claim(m)
      PROVE  Claims
  BY <1>3, SameHelpers DEF Ledger!Claim, Claims
<1>4. ASSUME NEW m \in Message, Ledger!Dispatch(m)
      PROVE  progress'.tasks = progress.tasks
  BY <1>4 DEF Ledger!Dispatch
<1>5. ASSUME NEW m \in Message, NEW d \in FinalDisposition, Ledger!Finish(m, d)
      PROVE  Finishes
  BY <1>5 DEF Ledger!Finish, Finishes
<1>6. ASSUME NEW m \in Message, Ledger!Reconcile(m)
      PROVE  Reconciles
  BY <1>6 DEF Ledger!Reconcile, Reconciles
<1>7. Ledger!FinalDisposition = FinalDisposition
  BY SameHelpers
<1> QED
  BY <1>1, <1>2, <1>3, <1>4, <1>5, <1>6, <1>7 DEF Ledger!Next

(* A disposition once recorded stays, but for its reconciliation.           *)
LEMMA RecordedStays ==
  ASSUME IndInv, [Next]_vars, NEW m \in Message, NEW d \in FinalDisposition,
         Recorded(m, d)
  PROVE  Recorded(m, d)'
<1> USE DEF Recorded
<1>1. progress.tasks \in [Message -> Disposition]
  BY DEF IndInv, TypeInv, TypeOK, Progress, Tasks
<1>2. progress.tasks[m] \in FinalDisposition \/ progress.tasks[m] = "failed"
  OBVIOUS
<1>3. CASE progress'.tasks = progress.tasks
  BY <1>3
<1>4. CASE Claims
  BY <1>1, <1>2, <1>4 DEF Claims, FinalDisposition
<1>5. CASE Finishes
  BY <1>1, <1>2, <1>5 DEF Finishes, FinalDisposition
<1>6. CASE Reconciles
  BY <1>1, <1>2, <1>6 DEF Reconciles, FinalDisposition
<1> QED
  BY <1>3, <1>4, <1>5, <1>6, LedgerMoves

-----------------------------------------------------------------------------
(* SoleBarrier: claims are made only when nothing bars the way.             *)

LEMMA CountStep ==
  ASSUME IndInv, CountInv, [Next]_vars
  PROVE  CountInv'
<1> DEFINE t == progress.tasks
           u == progress'.tasks
           Counted(f) == Barriers(f) \union Completed(f)
<1>1. t \in [Message -> Disposition]
  BY DEF IndInv, TypeInv, TypeOK, Progress, Tasks
<1>2. /\ IsFiniteSet(Counted(t)) /\ Cardinality(Barriers(t)) =< 1
      /\ Cardinality(Counted(t)) =< MaxCompleted
  BY DEF CountInv, SoleBarrier
<1>3. CASE u = t
  BY <1>3, <1>2 DEF CountInv, SoleBarrier
<1>4. CASE Claims
  <2>1. PICK m \in Message : /\ Barriers(t) = {} /\ HasBudget(t)
                             /\ t[m] = "unseen"
                             /\ u = [t EXCEPT ![m] = "claimed"]
    BY <1>4 DEF Claims
  <2>2. Barriers(u) = {m} /\ Completed(u) = Completed(t)
    BY <1>1, <2>1 DEF Barriers, Completed, BarrierDisposition, CompletedDisposition
  <2>3. m \notin Completed(t)
    BY <2>1 DEF Completed, CompletedDisposition
  <2>4. IsFiniteSet(Completed(t)) /\ Cardinality(Completed(t)) < MaxCompleted
    BY <1>2, <2>1 DEF HasBudget
  <2>5. /\ IsFiniteSet(Completed(t) \union {m})
        /\ Cardinality(Completed(t) \union {m}) = Cardinality(Completed(t)) + 1
    BY <2>3, <2>4, FS_AddElement
  <2>6. Cardinality(Completed(t)) \in Nat /\ MaxCompleted \in Nat
    BY <2>4, FS_CardinalityType, BoundAssumption
  <2>7. Cardinality({m}) = 1
    BY FS_Singleton
  <2>8. Counted(u) = Completed(t) \union {m}
    BY <2>2
  <2>9. Cardinality(Completed(t)) + 1 =< MaxCompleted
    BY <2>4, <2>6
  <2>10. IsFiniteSet(Counted(u)) /\ Cardinality(Counted(u)) =< MaxCompleted
    <3> HIDE DEF Counted
    <3> QED
      BY <2>5, <2>8, <2>9
  <2> QED
    BY <2>2, <2>7, <2>10 DEF CountInv, SoleBarrier
<1>5. CASE Finishes \/ Reconciles
  <2>1. Barriers(u) \subseteq Barriers(t) /\ Counted(u) \subseteq Counted(t)
    <3>1. CASE Finishes
      BY <1>1, <3>1 DEF Finishes, Barriers, Completed, BarrierDisposition,
         CompletedDisposition, FinalDisposition
    <3>2. CASE Reconciles
      BY <1>1, <3>2 DEF Reconciles, Barriers, Completed, BarrierDisposition,
         CompletedDisposition
    <3> QED
      BY <1>5, <3>1, <3>2
  <2>2. /\ IsFiniteSet(Counted(u))
        /\ Cardinality(Counted(u)) =< Cardinality(Counted(t))
    BY <1>2, <2>1, FS_Subset
  <2>3. IsFiniteSet(Barriers(t))
    BY <1>2, FS_Subset
  <2>4. IsFiniteSet(Barriers(u)) /\ Cardinality(Barriers(u)) =< Cardinality(Barriers(t))
    BY <2>1, <2>3, FS_Subset
  <2>5. /\ Cardinality(Counted(u)) \in Nat /\ Cardinality(Counted(t)) \in Nat
        /\ Cardinality(Barriers(u)) \in Nat /\ Cardinality(Barriers(t)) \in Nat
        /\ MaxCompleted \in Nat
    BY <1>2, <2>2, <2>3, <2>4, FS_CardinalityType, BoundAssumption
  <2>6. Cardinality(Barriers(u)) =< 1 /\ Cardinality(Counted(u)) =< MaxCompleted
    BY <1>2, <2>2, <2>4, <2>5
  <2> QED
    BY <2>2, <2>6 DEF CountInv, SoleBarrier
<1> QED
  BY <1>3, <1>4, <1>5, LedgerMoves

LEMMA CountInit == Init => CountInv
<1> SUFFICES ASSUME Init PROVE CountInv
  OBVIOUS
<1>1. Barriers(progress.tasks) = {} /\ Completed(progress.tasks) = {}
  BY DEF Init, EmptyProgress, NoTasks, Barriers, Completed, BarrierDisposition,
     CompletedDisposition
<1>2. IsFiniteSet({}) /\ Cardinality({}) = 0
  BY FS_EmptySet
<1>3. {} \union {} = {}
  OBVIOUS
<1> QED
  BY <1>1, <1>2, <1>3, BoundAssumption DEF CountInv, SoleBarrier

-----------------------------------------------------------------------------
(* Evidence: steps that move neither the ref nor what is evidence.          *)

(* The parts of the evidence that only such state decides.                  *)
LEMMA FrameEvidence ==
  ASSUME EvidenceInv, UNCHANGED <<progress, orphans, remote, inflight, memory>>,
         \A q \in Proc : EvidenceOf(q)'
  PROVE  EvidenceInv'
<1>1. UnseenInv' /\ OrphanEvidence'
  BY DEF EvidenceInv, UnseenInv, NoReply, OrphanEvidence, Evidenced, Evidence, IsChild
<1>2. ClosedWithEvidence' /\ OneVerdict'
  BY DEF EvidenceInv, ClosedWithEvidence, ClosedByOperator, OneVerdict
<1> QED
  BY <1>1, <1>2 DEF EvidenceInv

LEMMA StillEvidence ==
  ASSUME EvidenceInv,
         UNCHANGED <<progress, orphans, remote, inflight, memory, pc, sel, disp>>
  PROVE  EvidenceInv'
<1>1. \A q \in Proc : EvidenceOf(q)'
  BY DEF EvidenceInv, EvidenceOf, NoReply, ReplyOf
<1> QED
  BY <1>1, FrameEvidence

(* A step of one process only has to be looked at where that process is.    *)
LEMMA OwnEvidence ==
  ASSUME EvidenceInv, NEW p \in Proc, \A q \in Proc : q # p => Same(q),
         UNCHANGED <<progress, orphans, remote, inflight, memory>>,
         EvidenceOf(p)'
  PROVE  EvidenceInv'
<1>1. \A q \in Proc : q # p => EvidenceOf(q)'
  BY DEF EvidenceInv, EvidenceOf, NoReply, ReplyOf, Same
<1> QED
  BY <1>1, FrameEvidence

(* A process in a phase that rests on no evidence. *)
LEMMA FreeEvidence ==
  ASSUME NEW p, pc'[p] \notin Engaged
  PROVE  EvidenceOf(p)'
BY DEF EvidenceOf, Engaged

LEMMA LeaveSame ==
  ASSUME TypeInv, NEW p \in Proc, Leave(p), UNCHANGED plan
  PROVE  /\ \A q \in Proc : q # p => Same(q)
         /\ pc'[p] = "ready"
BY DEF Leave, TypeInv, TypeOK, Same

(* Ends of a process that save nothing. *)
LEMMA QuitEvidence ==
  ASSUME IndInv, EvidenceInv, NEW p \in Proc, Leave(p),
         UNCHANGED <<progress, orphans, remote, inflight, memory, plan>>
  PROVE  EvidenceInv'
<1>1. (\A q \in Proc : q # p => Same(q)) /\ pc'[p] = "ready"
  BY LeaveSame DEF IndInv
<1>2. EvidenceOf(p)'
  BY <1>1, FreeEvidence DEF Engaged
<1> QED
  BY <1>1, <1>2, OwnEvidence

-----------------------------------------------------------------------------
(* Evidence: steps of an engaged tick.                                      *)

(* While a tick is engaged no left-over commit fits on the ref, nobody else  *)
(* is engaged, and the message of the tick is claimed.                      *)
LEMMA EngagedFacts ==
  ASSUME IndInv, NEW p \in Proc, pc[p] \in Engaged
  PROVE  /\ sel[p] \in Message /\ progress.tasks[sel[p]] = "claimed"
         /\ \A c \in orphans : ~IsChild(c)
         /\ \A q \in Proc : q # p => pc[q] \notin Engaged
<1>1. sel[p] \in Message /\ progress.tasks[sel[p]] = "claimed"
  BY DEF IndInv, TypeInv, ChosenOK, Chosen, Engaged, LedgerInv, EngagedInv
<1>2. \A q \in Proc : q # p => pc[q] \notin Engaged
  BY DEF IndInv, LedgerInv, EngagedInv
<1>3. ASSUME NEW c \in orphans, IsChild(c)
      PROVE  FALSE
  <2>1. MayNoteCursors(c) \/ MayClaim(c) \/ MayFinish(c) \/ MayReconcile(c)
    BY <1>3 DEF IndInv, LedgerInv, OrphanInv
  <2> QED
    BY <2>1, MayFacts
<1> QED
  BY <1>1, <1>2, <1>3

(* A step of an engaged tick that changes the memory or the outbound log.   *)
LEMMA WorkEvidence ==
  ASSUME IndInv, EvidenceInv, NEW p \in Proc, pc[p] \in Engaged,
         \A q \in Proc : q # p => Same(q),
         UNCHANGED <<progress, orphans>>,
         \A m \in Message : m # sel[p] => memory'[m] = memory[m],
         remote \subseteq remote', inflight \subseteq inflight',
         (remote' \union inflight') \subseteq (remote \union inflight) \union {ReplyOf(p)},
         (remote' = remote /\ inflight' = inflight) \/ NoReply(sel[p]),
         EvidenceOf(p)'
  PROVE  EvidenceInv'
<1>1. /\ sel[p] \in Message /\ progress.tasks[sel[p]] = "claimed"
      /\ \A c \in orphans : ~IsChild(c)
      /\ \A q \in Proc : q # p => pc[q] \notin Engaged
  BY EngagedFacts
<1>2. ASSUME NEW q \in Proc
      PROVE  EvidenceOf(q)'
  <2>1. CASE q = p
    BY <2>1
  <2>2. CASE q # p
    <3>1. pc'[q] \notin Engaged
      BY <1>1, <2>2 DEF Same
    <3> QED
      BY <3>1 DEF EvidenceOf, Engaged
  <2> QED
    BY <2>1, <2>2
<1>3. UnseenInv'
  BY <1>1 DEF EvidenceInv, UnseenInv, NoReply, ReplyOf
<1>4. OrphanEvidence'
  BY <1>1 DEF OrphanEvidence, IsChild
<1>5. ClosedWithEvidence'
  BY <1>1 DEF EvidenceInv, ClosedWithEvidence, ClosedByOperator
<1>6. OneVerdict'
  <2>1. ASSUME NEW a \in remote' \union inflight', NEW b \in remote' \union inflight',
               a.msg = b.msg, a # b
        PROVE  FALSE
    <3>1. a \in remote \union inflight \/ a = ReplyOf(p)
      OBVIOUS
    <3>2. b \in remote \union inflight \/ b = ReplyOf(p)
      OBVIOUS
    <3>3. ReplyOf(p).msg = sel[p]
      BY DEF ReplyOf
    <3> QED
      BY <2>1, <3>1, <3>2, <3>3 DEF EvidenceInv, OneVerdict, NoReply
  <2> QED
    BY <2>1 DEF OneVerdict
<1> QED
  BY <1>2, <1>3, <1>4, <1>5, <1>6 DEF EvidenceInv
-----------------------------------------------------------------------------
(* Evidence: commits.                                                       *)

(* What a saving process is about to attach rests on evidence already there.*)
LEMMA PendingEvidence ==
  ASSUME IndInv, EvidenceInv, NEW p \in Proc, NEW c \in Pending(p), IsChild(c)
  PROVE  Evidenced(c)
<1>1. base[p] \in Progress /\ progress \in Progress
  BY DEF IndInv, TypeInv, TypeOK
<1>2. CASE pc[p] = "idle" /\ c = IdleProgress(p)
  <2>1. base[p] = progress
    <3>1. c.ver = base[p].ver + 1
      BY <1>2, PendingTypes DEF IndInv
    <3> QED
      BY <1>1, <1>2, <3>1, FreshBase DEF IsChild, Working, Progress
  <2> QED
    BY <1>2, <2>1 DEF Evidenced, IdleProgress, WithCursors, Child
<1>3. CASE pc[p] = "claim" /\ c = ClaimedProgress(p)
  <2>1. base[p] = progress
    <3>1. c.ver = base[p].ver + 1
      BY <1>3, PendingTypes DEF IndInv
    <3> QED
      BY <1>1, <1>3, <3>1, FreshBase DEF IsChild, Working, Progress
  <2>2. /\ c.recon = progress.recon
        /\ c.tasks = [progress.tasks EXCEPT ![sel[p]] = "claimed"]
    BY <1>3, <2>1 DEF ClaimedProgress, WithTask, Child
  <2> QED
    BY <1>1, <2>2 DEF Evidenced, Closed, Progress, Tasks
<1>4. CASE pc[p] = "finish" /\ c = FinalProgress(p)
  <2>1. base[p] = progress
    <3>1. c.ver = base[p].ver + 1
      BY <1>4, PendingTypes DEF IndInv, Decided
    <3> QED
      BY <1>1, <1>4, <3>1, FreshBase DEF IsChild, Working, Progress
  <2>2. /\ c.recon = progress.recon
        /\ c.tasks = [progress.tasks EXCEPT ![sel[p]] = disp[p]]
    BY <1>4, <2>1 DEF FinalProgress, WithTask, Child
  <2>3. disp[p] \in Closed => Evidence(sel[p], disp[p])
    BY <1>4 DEF EvidenceInv, EvidenceOf, Evidence, ReplyOf, Closed
  <2> QED
    BY <1>1, <2>2, <2>3 DEF Evidenced, Progress, Tasks
<1>5. CASE pc[p] = "rSave" /\ c = ReconciledProgress(p)
  <2>1. base[p] = progress
    <3>1. c.ver = base[p].ver + 1
      BY <1>5, PendingTypes DEF IndInv, Reconciling
    <3> QED
      BY <1>1, <1>5, <3>1, FreshBase DEF IsChild, Working, Progress
  <2>2. /\ c.recon = progress.recon \union {plan[p]}
        /\ c.tasks = [progress.tasks EXCEPT ![plan[p].msg] = "failed"]
    BY <1>5, <2>1 DEF ReconciledProgress, WithReconciliation, Child
  <2> QED
    BY <1>1, <2>2 DEF Evidenced, Progress, Tasks
<1> QED
  BY <1>2, <1>3, <1>4, <1>5 DEF Pending

(* A commit with its evidence leaves everything evidenced, and makes every  *)
(* left-over commit too old to land.                                        *)
LEMMA CommitEvidence ==
  ASSUME IndInv, EvidenceInv, [Next]_vars, TypeInv',
         NEW c, IsChild(c), Evidenced(c), progress' = c, orphans' \subseteq orphans,
         UNCHANGED <<remote, inflight, memory>>,
         \A q \in Proc : EvidenceOf(q)'
  PROVE  EvidenceInv'
<1>1. progress.tasks \in [Message -> Disposition] /\ progress.ver \in Nat
  BY DEF IndInv, TypeInv, TypeOK, Progress, Tasks
<1>2. UnseenInv'
  <2>1. ASSUME NEW m \in Message, progress'.tasks[m] = "unseen"
        PROVE  progress.tasks[m] = "unseen"
    BY <1>1, <2>1, LedgerMoves DEF Claims, Finishes, Reconciles, FinalDisposition
  <2> QED
    BY <2>1 DEF EvidenceInv, UnseenInv, NoReply
<1>3. OrphanEvidence'
  <2>1. progress'.ver = progress.ver + 1
    BY DEF IsChild
  <2>2. ASSUME NEW o \in orphans'
        PROVE  ~IsChild(o)'
    <3>1. o \in orphans /\ o.ver =< progress.ver + 1
      BY <2>2 DEF IndInv, LedgerInv, OrphanInv
    <3>2. o.ver \in Nat
      BY <3>1 DEF IndInv, TypeInv, TypeOK, Progress
    <3> QED
      BY <1>1, <2>1, <3>1, <3>2 DEF IsChild
  <2> QED
    BY <2>2 DEF OrphanEvidence
<1>4. ClosedWithEvidence'
  <2>1. ASSUME NEW m \in Message, c.tasks[m] \in Closed
        PROVE  (\E r \in c.recon : r.msg = m) \/ Evidence(m, c.tasks[m])
    <3>1. CASE c.tasks[m] # progress.tasks[m]
      BY <2>1, <3>1 DEF Evidenced
    <3>2. CASE c.tasks[m] = progress.tasks[m]
      BY <2>1, <3>2 DEF Evidenced, EvidenceInv, ClosedWithEvidence, ClosedByOperator,
         Evidence, Closed
    <3> QED
      BY <3>1, <3>2
  <2> QED
    BY <2>1 DEF ClosedWithEvidence, ClosedByOperator, Evidence, Closed
<1>5. OneVerdict'
  BY DEF EvidenceInv, OneVerdict
<1> QED
  BY <1>2, <1>3, <1>4, <1>5 DEF EvidenceInv

(* Who has no part in a commit keeps what it relied on.                     *)
LEMMA OthersEvidence ==
  ASSUME EvidenceInv, NEW q \in Proc, Same(q), UNCHANGED <<remote, inflight, memory>>
  PROVE  EvidenceOf(q)'
BY DEF EvidenceInv, EvidenceOf, NoReply, ReplyOf, Same

(* A process saves its pending commit; what it does next needs no evidence, *)
(* or the evidence that the save made.                                      *)
LEMMA SaveEvidence ==
  ASSUME IndInv, EvidenceInv, [Next]_vars, TypeInv', NEW p \in Proc,
         NEW c \in Pending(p), Saved(c), \A q \in Proc : q # p => Same(q),
         UNCHANGED <<orphans, remote, inflight, memory>>,
         EvidenceOf(p)'
  PROVE  EvidenceInv'
<1>1. IsChild(c) /\ progress' = c /\ orphans' \subseteq orphans
  BY DEF Saved
<1>2. Evidenced(c)
  BY <1>1, PendingEvidence
<1>3. \A q \in Proc : EvidenceOf(q)'
  BY OthersEvidence
<1> QED
  BY <1>1, <1>2, <1>3, CommitEvidence

(* A save that raises, or that ends the process. *)
LEMMA SaveEnds ==
  ASSUME IndInv, EvidenceInv, [Next]_vars, TypeInv', NEW p \in Proc,
         NEW c \in Pending(p), Saved(c) \/ SaveRaised(c), Leave(p),
         UNCHANGED <<orphans, remote, inflight, memory, plan>>
  PROVE  EvidenceInv'
<1>1. (\A q \in Proc : q # p => Same(q)) /\ pc'[p] = "ready"
  BY LeaveSame DEF IndInv
<1>2. EvidenceOf(p)'
  BY <1>1, FreeEvidence DEF Engaged
<1>3. CASE UNCHANGED progress
  BY <1>3, QuitEvidence
<1>4. CASE Saved(c)
  BY <1>1, <1>2, <1>4, SaveEvidence
<1> QED
  BY <1>3, <1>4 DEF SaveRaised

-----------------------------------------------------------------------------
(* Every step: one lemma per group of actions, one step per action.         *)

(* A tick up to its choice of a message. *)
LEMMA ReadingEvidence ==
  ASSUME IndInv, EvidenceInv, [Next]_vars, TypeInv', NEW p \in Ticks,
         \/ TickBusy(p) \/ TickStart(p) \/ TickDeclined(p) \/ TickAdmitted(p)
         \/ LoadHalts(p) \/ Halt(p) \/ LoadExhausted(p) \/ Load(p)
         \/ (\E s \in Source : ReadSource(p, s)) \/ ReadFails(p)
         \/ TickIdle(p) \/ TickNotesCursors(p) \/ SaveCursors(p) \/ Select(p)
         \/ TickRaises(p)
  PROVE  EvidenceInv'
<1> p \in Proc
  BY DEF Proc
<1> USE DEF refs, locks, world, outbox, tasksv, held
<1>1. CASE TickBusy(p)
  BY <1>1, StillEvidence DEF TickBusy
<1>2. CASE \/ TickDeclined(p) \/ Halt(p) \/ LoadExhausted(p) \/ TickIdle(p)
           \/ ReadFails(p) \/ TickRaises(p)
  BY <1>2, QuitEvidence
  DEF TickDeclined, Halt, LoadExhausted, TickIdle, ReadFails, TickRaises, LeaveQuietly
<1>3. CASE \/ TickStart(p) \/ TickAdmitted(p) \/ LoadHalts(p) \/ Load(p)
           \/ (\E s \in Source : ReadSource(p, s)) \/ TickNotesCursors(p) \/ Select(p)
  <2>1. UNCHANGED <<progress, orphans, remote, inflight, memory, status>>
    BY <1>3 DEF TickStart, TickAdmitted, LoadHalts, Load, ReadSource, TickNotesCursors, Select
  <2>2. /\ \A q \in Proc : q # p => Same(q)
        /\ pc'[p] \in {"owned", "load", "halt", "read", "idle", "claim"}
    BY <1>3 DEF IndInv, TypeInv, TypeOK, Same, Go, TickStart, TickAdmitted, LoadHalts,
       Load, ReadSource, TickNotesCursors, Select, AllRead
  <2>3. EvidenceOf(p)'
    BY <2>2, FreeEvidence DEF Engaged
  <2> QED
    BY <2>1, <2>2, <2>3, OwnEvidence
<1>4. CASE SaveCursors(p)
  <2>1. IdleProgress(p) \in Pending(p)
    BY <1>4 DEF SaveCursors, Pending
  <2> QED
    BY <1>4, <2>1, SaveEnds DEF SaveCursors, LeaveQuietly
<1> QED
  BY <1>1, <1>2, <1>3, <1>4

(* A tick that has chosen a message. *)
LEMMA ChosenEvidence ==
  ASSUME IndInv, EvidenceInv, [Next]_vars, TypeInv', NEW p \in Ticks,
         \/ Claim(p) \/ ClaimFails(p) \/ Dispatch(p) \/ AppendReply(p)
         \/ ReplyRefused(p) \/ Finish(p) \/ FinishFails(p) \/ Report(p)
  PROVE  EvidenceInv'
<1> p \in Proc
  BY DEF Proc
<1> USE DEF refs, locks, world, outbox, tasksv, held
<1>1. CASE Claim(p)
  <2>1. ClaimedProgress(p) \in Pending(p) /\ Saved(ClaimedProgress(p))
    BY <1>1 DEF Claim, Pending
  <2>2. /\ sel[p] \in Message /\ memory[sel[p]] = "none" /\ NoReply(sel[p])
    <3>1. progress.tasks[sel[p]] = "unseen" /\ sel[p] \in Message
      BY <1>1, <2>1, ClaimSave
      DEF Claim, Saved, IndInv, TypeInv, ChosenOK, Chosen
    <3> QED
      BY <3>1 DEF EvidenceInv, UnseenInv
  <2>3. /\ \A q \in Proc : q # p => Same(q)
        /\ pc'[p] \in {"dispatch", "append"} /\ sel' = sel
        /\ UNCHANGED <<orphans, remote, inflight, memory, status>>
    BY <1>1 DEF Claim, Go, Dismiss, Same, IndInv, TypeInv, TypeOK
  <2>4. EvidenceOf(p)'
    BY <2>2, <2>3 DEF EvidenceOf, NoReply
  <2> QED
    BY <2>1, <2>3, <2>4, SaveEvidence
<1>2. CASE ClaimFails(p)
  <2>1. ClaimedProgress(p) \in Pending(p)
    BY <1>2 DEF ClaimFails, Pending
  <2> QED
    BY <1>2, <2>1, SaveEnds DEF ClaimFails, LeaveQuietly
<1>3. CASE Dispatch(p) \/ AppendReply(p) \/ ReplyRefused(p)
  <2>1. /\ \A q \in Proc : q # p => Same(q)
        /\ UNCHANGED <<progress, orphans, remote, inflight, memory, status, sel>>
    BY <1>3 DEF Dispatch, AppendReply, ReplyRefused, Go, Same, IndInv, TypeInv, TypeOK
  <2>2. \/ pc[p] = "dispatch" /\ pc'[p] = "running" /\ disp'[p] = disp[p]
        \/ pc[p] = "append" /\ pc'[p] = "push" /\ disp'[p] = disp[p]
        \/ pc[p] = "append" /\ pc'[p] = "finish" /\ disp'[p] = "unresolved"
    BY <1>3 DEF Dispatch, AppendReply, ReplyRefused, Go, IndInv, TypeInv, TypeOK
  <2>3. EvidenceOf(p)
    BY DEF EvidenceInv
  <2>4. EvidenceOf(p)'
    BY <2>1, <2>2, <2>3 DEF EvidenceOf, NoReply, Engaged
  <2> QED
    BY <2>1, <2>4, OwnEvidence
<1>4. CASE Finish(p) \/ FinishFails(p)
  <2>1. FinalProgress(p) \in Pending(p)
    BY <1>4 DEF Finish, FinishFails, Pending
  <2>2. /\ \A q \in Proc : q # p => Same(q)
        /\ UNCHANGED <<orphans, remote, inflight, memory, status, sel, disp>>
        /\ pc[p] = "finish"
    BY <1>4 DEF Finish, FinishFails, Go, Same, IndInv, TypeInv, TypeOK
  <2>3. CASE UNCHANGED progress /\ FinishFails(p)
    <3>1. pc'[p] = "unsaved"
      BY <2>3 DEF FinishFails, Go, IndInv, TypeInv, TypeOK
    <3>2. EvidenceOf(p)'
      BY <3>1, FreeEvidence DEF Engaged
    <3> QED
      BY <2>2, <2>3, <3>2, OwnEvidence
  <2>4. CASE Saved(FinalProgress(p))
    <3>1. pc'[p] \in {"report", "unsaved"}
      BY <1>4 DEF Finish, FinishFails, Go, IndInv, TypeInv, TypeOK
    <3>3. EvidenceOf(p)'
      BY <3>1, FreeEvidence DEF Engaged
    <3> QED
      BY <2>1, <2>2, <2>4, <3>3, SaveEvidence
  <2> QED
    BY <1>4, <2>3, <2>4 DEF Finish, FinishFails, SaveRaised
<1>5. CASE Report(p)
  BY <1>5, QuitEvidence DEF Report
<1> QED
  BY <1>1, <1>2, <1>3, <1>4, <1>5
(* Handler, memory checkpoint and push: what becomes evidence. *)
LEMMA WorkingEvidence ==
  ASSUME IndInv, EvidenceInv, NEW p \in Ticks,
         \/ (\E d \in FinalDisposition : HandlerReturns(p, d))
         \/ Checkpoint(p) \/ CheckpointFails(p) \/ PushReply(p) \/ PushUnverified(p)
  PROVE  EvidenceInv'
<1> p \in Proc
  BY DEF Proc
<1> USE DEF refs, locks, world, outbox, tasksv, held
<1>0. EvidenceOf(p)
  BY DEF EvidenceInv
<1>1. CASE \/ (\E d \in FinalDisposition : HandlerReturns(p, d))
           \/ Checkpoint(p) \/ CheckpointFails(p)
  <2>1. /\ \A q \in Proc : q # p => Same(q)
        /\ UNCHANGED <<progress, orphans, remote, inflight, status, sel>>
    BY <1>1 DEF HandlerReturns, Checkpoint, CheckpointFails, Go, Same, IndInv, TypeInv,
       TypeOK
  <2>2. pc[p] \in {"running", "checkpoint"} /\ pc'[p] \in {"checkpoint", "append"}
    BY <1>1 DEF HandlerReturns, Checkpoint, CheckpointFails, Go, IndInv, TypeInv, TypeOK
  <2>3. sel[p] \in Message
    BY <2>2, EngagedFacts DEF Engaged
  <2>4. \A m \in Message : m # sel[p] => memory'[m] = memory[m]
    BY <1>1 DEF HandlerReturns, Checkpoint, CheckpointFails, IndInv, TypeInv, TypeOK
  <2>5. pc'[p] = "append" /\ disp'[p] # "unresolved" => memory'[sel[p]] # "due"
    BY <1>0, <1>1, <2>3 DEF EvidenceOf, HandlerReturns, Checkpoint, CheckpointFails, Go,
       IndInv, TypeInv, TypeOK
  <2>6. EvidenceOf(p)'
    BY <1>0, <2>1, <2>2, <2>5 DEF EvidenceOf, NoReply, Engaged
  <2> QED
    BY <2>1, <2>2, <2>4, <2>6, WorkEvidence DEF Engaged
<1>2. CASE PushReply(p) \/ PushUnverified(p)
  <2>1. /\ \A q \in Proc : q # p => Same(q)
        /\ UNCHANGED <<progress, orphans, status, sel, memory>>
        /\ pc[p] = "push" /\ pc'[p] = "finish"
        /\ remote \subseteq remote' /\ inflight \subseteq inflight'
        /\ (remote' \union inflight') \subseteq (remote \union inflight) \union {ReplyOf(p)}
    BY <1>2 DEF PushReply, PushUnverified, Go, Same, IndInv, TypeInv, TypeOK
  <2>2. NoReply(sel[p]) /\ (disp[p] # "unresolved" => memory[sel[p]] # "due")
    BY <1>0, <2>1 DEF EvidenceOf, Engaged
  <2>3. \/ disp'[p] = "unresolved"
        \/ disp' = disp /\ ReplyOf(p) \in remote'
    BY <1>2 DEF PushReply, PushUnverified, IndInv, TypeInv, TypeOK
  <2>4. EvidenceOf(p)'
    BY <2>1, <2>2, <2>3 DEF EvidenceOf, Engaged, ReplyOf
  <2> QED
    BY <2>1, <2>2, <2>4, WorkEvidence DEF Engaged
<1> QED
  BY <1>1, <1>2

(* Reconciliation. *)
LEMMA OperatorEvidence ==
  ASSUME IndInv, EvidenceInv, [Next]_vars, TypeInv', NEW p \in Operators, OperatorStep(p)
  PROVE  EvidenceInv'
<1> p \in Proc
  BY DEF Proc
<1> USE DEF refs, locks, world, outbox, tasksv, held
<1>1. CASE \E m \in Message : Review(p, m)
  BY <1>1, StillEvidence DEF Review
<1>2. CASE ReconcileStart(p) \/ ReconcileAdmitted(p) \/ ReconcileAccepted(p)
  <2>1. UNCHANGED <<progress, orphans, remote, inflight, memory, status>>
    BY <1>2 DEF ReconcileStart, ReconcileAdmitted, ReconcileAccepted
  <2>2. /\ \A q \in Proc : q # p => Same(q)
        /\ pc'[p] \in {"rOwned", "rCheck", "rSave"}
    BY <1>2 DEF ReconcileStart, ReconcileAdmitted, ReconcileAccepted, Go, Same, IndInv,
       TypeInv, TypeOK
  <2>3. EvidenceOf(p)'
    BY <2>2, FreeEvidence DEF Engaged
  <2> QED
    BY <2>1, <2>2, <2>3, OwnEvidence
<1>3. CASE ReconcileDeclined(p)
  BY <1>3, QuitEvidence DEF ReconcileDeclined
<1>4. CASE ReconcileSave(p)
  <2>1. ReconciledProgress(p) \in Pending(p)
    BY <1>4 DEF ReconcileSave, Pending
  <2> QED
    BY <1>4, <2>1, SaveEnds DEF ReconcileSave
<1> QED
  BY <1>1, <1>2, <1>3, <1>4 DEF OperatorStep

(* A process dies: a git child of it keeps its commit, a push may go on. *)
LEMMA CrashEvidence ==
  ASSUME IndInv, EvidenceInv, NEW p \in Proc, Crash(p)
  PROVE  EvidenceInv'
<1> USE DEF tasksv
<1>1. /\ Leave(p) /\ UNCHANGED <<progress, remote, memory, plan, status>>
      /\ orphans' \subseteq orphans \union Pending(p)
  BY DEF Crash
<1>2. (\A q \in Proc : q # p => Same(q)) /\ pc'[p] = "ready"
  BY <1>1, LeaveSame DEF IndInv
<1>3. EvidenceOf(p)'
  BY <1>2, FreeEvidence DEF Engaged
<1>4. CASE inflight' = inflight
  <2>1. \A q \in Proc : EvidenceOf(q)'
    BY <1>1, <1>2, <1>3, <1>4 DEF EvidenceInv, EvidenceOf, NoReply, ReplyOf, Same
  <2>2. OrphanEvidence'
    <3>1. ASSUME NEW c \in orphans', IsChild(c)
          PROVE  Evidenced(c)
      <4>1. CASE c \in orphans
        BY <3>1, <4>1 DEF EvidenceInv, OrphanEvidence
      <4>2. CASE c \in Pending(p)
        BY <3>1, <4>2, PendingEvidence
      <4> QED
        BY <1>1, <4>1, <4>2
    <3> QED
      BY <1>1, <3>1 DEF OrphanEvidence, IsChild, Evidenced, Evidence
  <2>3. UnseenInv' /\ ClosedWithEvidence' /\ OneVerdict'
    BY <1>1, <1>4 DEF EvidenceInv, UnseenInv, NoReply, ClosedWithEvidence,
       ClosedByOperator, OneVerdict
  <2> QED
    BY <2>1, <2>2, <2>3 DEF EvidenceInv
<1>5. CASE pc[p] = "push" /\ inflight' = inflight \union {ReplyOf(p)}
  <2>1. orphans' = orphans
    BY <1>1, <1>5 DEF Crash, Pending
  <2>2. NoReply(sel[p])
    BY <1>5 DEF EvidenceInv, EvidenceOf, Engaged
  <2> QED
    BY <1>1, <1>2, <1>3, <1>5, <2>1, <2>2, WorkEvidence DEF Engaged
<1> QED
  BY <1>4, <1>5 DEF Crash

(* What lands late, and what peers, direct executions and users do. *)
LEMMA EnvironmentEvidence ==
  ASSUME IndInv, EvidenceInv, [Next]_vars, TypeInv', Environment
  PROVE  EvidenceInv'
<1> USE DEF refs, locks, world, outbox, tasksv, held
<1>1. ASSUME NEW c \in orphans, OrphanLands(c)
      PROVE  EvidenceInv'
  <2>1. /\ IsChild(c) /\ progress' = c /\ orphans' \subseteq orphans
        /\ UNCHANGED <<remote, inflight, memory, status, plan, pc, base, sel, disp>>
    BY <1>1 DEF OrphanLands, Saved
  <2>2. Evidenced(c)
    BY <2>1 DEF EvidenceInv, OrphanEvidence
  <2>3. \A q \in Proc : EvidenceOf(q)'
    BY <2>1, OthersEvidence DEF Same
  <2> QED
    BY <2>1, <2>2, <2>3, CommitEvidence
<1>2. ASSUME NEW r \in inflight, PushLands(r)
      PROVE  EvidenceInv'
  <2>1. /\ remote \subseteq remote'
        /\ remote' \union inflight' = remote \union inflight
        /\ UNCHANGED <<progress, orphans, memory, status, pc, sel, disp>>
    BY <1>2 DEF PushLands
  <2>2. \A m : NoReply(m)' <=> NoReply(m)
    BY <2>1 DEF NoReply
  <2>3. \A q \in Proc : EvidenceOf(q)'
    BY <2>1 DEF EvidenceInv, EvidenceOf, NoReply, ReplyOf
  <2>4. UnseenInv' /\ OrphanEvidence'
    BY <2>1, <2>2 DEF EvidenceInv, UnseenInv, OrphanEvidence, Evidenced, Evidence, IsChild
  <2>5. ClosedWithEvidence' /\ OneVerdict'
    BY <2>1 DEF EvidenceInv, ClosedWithEvidence, ClosedByOperator, OneVerdict
  <2> QED
    BY <2>3, <2>4, <2>5 DEF EvidenceInv
<1>3. CASE \/ \E r \in Roots : OtherAdmitted(r) \/ OtherReleases(r)
           \/ \E s \in Source, m \in Message : Arrive(s, m)
           \/ \E s \in Source, ms \in SUBSET Message : Rewrite(s, ms)
           \/ ToggleStop
  <2>1. UNCHANGED <<progress, orphans, remote, inflight, memory, status, pc, sel, disp>>
    BY <1>3 DEF OtherAdmitted, OtherReleases, Arrive, Rewrite, ToggleStop
  <2> QED
    BY <2>1, StillEvidence
<1> QED
  BY <1>1, <1>2, <1>3, CrashEvidence DEF Environment

LEMMA EvidenceStep ==
  ASSUME IndInv, EvidenceInv, TypeInv', [Next]_vars
  PROVE  EvidenceInv'
<1>1. CASE \E p \in Ticks : TickBusy(p) \/ TickStep(p) \/ TickFailure(p)
  BY <1>1, ReadingEvidence, ChosenEvidence, WorkingEvidence DEF TickStep, TickFailure
<1>2. CASE \E o \in Operators : OperatorStep(o)
  BY <1>2, OperatorEvidence
<1>3. CASE Environment
  BY <1>3, EnvironmentEvidence
<1>4. CASE UNCHANGED vars
  BY <1>4, StillEvidence DEF vars, refs, outbox, tasksv, held
<1> QED
  BY <1>1, <1>2, <1>3, <1>4 DEF Next

LEMMA EvidenceInit == Init => EvidenceInv
<1> SUFFICES ASSUME Init PROVE EvidenceInv
  OBVIOUS
<1>1. \A p \in Proc : EvidenceOf(p)
  BY DEF Init, EvidenceOf, Engaged
<1>2. UnseenInv /\ OrphanEvidence /\ OneVerdict
  BY DEF Init, UnseenInv, NoReply, OrphanEvidence, OneVerdict
<1>3. ClosedWithEvidence
  BY DEF Init, ClosedWithEvidence, EmptyProgress, NoTasks
<1> QED
  BY <1>1, <1>2, <1>3 DEF EvidenceInv

(* At most one message bars the way and the policy's maximum is respected;   *)
(* a task the cycle closed has its reply and its memory; no message ever has *)
(* two verdicts: whatever ticks, operators, crashes, late git children and   *)
(* late pushes do.                                                           *)
THEOREM CycleConsistent == Spec => []CycleInv
<1>1. Init => CountInv /\ EvidenceInv
  BY CountInit, EvidenceInit
<1>2. IndInv /\ IndInv' /\ CountInv /\ EvidenceInv /\ [Next]_vars
        => CountInv' /\ EvidenceInv'
  <2>1. IndInv' => TypeInv'
    BY DEF IndInv
  <2> QED
    BY <2>1, CountStep, EvidenceStep
<1>3. CountInv /\ EvidenceInv => CycleInv
  BY DEF CountInv, EvidenceInv, CycleInv
<1> QED
  BY <1>1, <1>2, <1>3, Inductive, PTL DEF Spec

-----------------------------------------------------------------------------
(* The owner lock                                                           *)

(* A process takes the free lock of its root, goes on under it, or ends.     *)
Takes(p) ==
  /\ pc[p] = "ready" /\ owner[Root[p]] = None
  /\ owner' = [owner EXCEPT ![Root[p]] = p]
Proceeds(p) == pc[p] # "ready" /\ UNCHANGED owner
MovesOnly(p) == \A q \in Proc : q # p => pc'[q] = pc[q]

LEMMA LockTaken ==
  ASSUME TypeOK, LockInv, NEW p \in Proc, Takes(p), MovesOnly(p)
  PROVE  LockInv'
<1>1. None \notin Proc /\ Root[p] \in Roots
  BY ProcAssumption DEF Roots
<1>2. ASSUME NEW q \in Proc, q # p PROVE OwnsOf(q)'
  <2>1. pc[q] # "ready" => owner[Root[q]] = q /\ q # None
    BY <1>1 DEF LockInv, OwnsOf
  <2>2. pc[q] # "ready" => Root[q] # Root[p]
    BY <2>1 DEF Takes
  <2>3. Root[q] \in Roots /\ pc'[q] = pc[q]
    BY <1>2 DEF Roots, MovesOnly
  <2> QED
    BY <2>1, <2>2, <2>3 DEF Takes, OwnsOf, TypeOK
<1>3. OwnsOf(p)'
  BY <1>1 DEF Takes, OwnsOf, TypeOK
<1> QED
  BY <1>2, <1>3 DEF LockInv

LEMMA LockKept ==
  ASSUME LockInv, NEW p \in Proc, Proceeds(p), MovesOnly(p)
  PROVE  LockInv'
BY DEF LockInv, OwnsOf, Proceeds, MovesOnly

LEMMA LockLeft ==
  ASSUME TypeOK, LockInv, NEW p \in Proc, Leave(p)
  PROVE  LockInv'
<1>1. pc'[p] = "ready" /\ \A q \in Proc : q # p => pc'[q] = pc[q]
  BY DEF Leave, TypeOK
<1>2. ASSUME NEW q \in Proc, q # p, pc[q] # "ready" PROVE owner'[Root[q]] = q
  <2>1. owner[Root[q]] = q /\ Root[q] \in Roots
    BY <1>2 DEF LockInv, OwnsOf, Roots
  <2> QED
    BY <1>2, <2>1 DEF Leave, TypeOK
<1> QED
  BY <1>1, <1>2 DEF LockInv, OwnsOf

LEMMA GoMovesOnly ==
  ASSUME TypeOK, NEW p \in Proc, NEW phase, Go(p, phase)
  PROVE  MovesOnly(p)
BY DEF Go, TypeOK, MovesOnly

(* Every step: who moves, and what becomes of the lock.                      *)
LEMMA LockStep ==
  ASSUME TypeOK, LockInv, [Next]_vars
  PROVE  LockInv'
<1>0. ASSUME UNCHANGED <<owner, pc>> PROVE LockInv'
  BY <1>0 DEF LockInv, OwnsOf
<1>1. ASSUME NEW p \in Ticks, TickBusy(p) \/ TickStep(p) \/ TickFailure(p)
      PROVE  LockInv'
  <2> p \in Proc
    BY DEF Proc
  <2> USE DEF locks, held
  <2>1. CASE TickBusy(p) \/ \E s \in Source : ReadSource(p, s)
    BY <2>1, <1>0 DEF TickBusy, ReadSource
  <2>2. CASE TickStart(p)
    BY <2>2, LockTaken, GoMovesOnly DEF TickStart, Contended, Takes
  <2>3. CASE \/ TickAdmitted(p) \/ LoadHalts(p) \/ Load(p) \/ TickNotesCursors(p)
             \/ Select(p)
             \/ Claim(p) \/ Dispatch(p)
             \/ \E d \in FinalDisposition : HandlerReturns(p, d)
    <3>1. Proceeds(p) /\ \E phase \in Phase : Go(p, phase)
      BY <2>3 DEF TickAdmitted, LoadHalts, Load, TickNotesCursors, Select, AllRead, Claim,
                  Dispatch, HandlerReturns, Proceeds, Phase
    <3> QED
      BY <3>1, LockKept, GoMovesOnly
  <2>4. CASE \/ Checkpoint(p) \/ AppendReply(p) \/ PushReply(p) \/ Finish(p)
             \/ CheckpointFails(p) \/ ReplyRefused(p) \/ PushUnverified(p)
             \/ FinishFails(p)
    <3>1. Proceeds(p) /\ \E phase \in Phase : Go(p, phase)
      BY <2>4 DEF Checkpoint, AppendReply, PushReply, Finish, CheckpointFails,
                  ReplyRefused, PushUnverified, FinishFails, Proceeds, Phase
    <3> QED
      BY <3>1, LockKept, GoMovesOnly
  <2>5. CASE \/ TickDeclined(p) \/ Halt(p) \/ LoadExhausted(p) \/ TickIdle(p)
             \/ SaveCursors(p)
             \/ Report(p) \/ ReadFails(p) \/ ClaimFails(p) \/ TickRaises(p)
    <3>1. Leave(p)
      BY <2>5 DEF TickDeclined, Halt, LoadExhausted, TickIdle, SaveCursors, Report, ReadFails,
                  ClaimFails, TickRaises, LeaveQuietly
    <3> QED
      BY <3>1, LockLeft
  <2> QED
    BY <1>1, <2>1, <2>2, <2>3, <2>4, <2>5 DEF TickStep, TickFailure
<1>2. ASSUME NEW o \in Operators, OperatorStep(o) PROVE LockInv'
  <2> o \in Proc
    BY DEF Proc
  <2> USE DEF locks, held
  <2>1. CASE \E m \in Message : Review(o, m)
    BY <2>1, <1>0 DEF Review
  <2>2. CASE ReconcileStart(o)
    BY <2>2, LockTaken, GoMovesOnly DEF ReconcileStart, Contended, Takes
  <2>3. CASE ReconcileAdmitted(o) \/ ReconcileAccepted(o)
    <3>1. Proceeds(o) /\ \E phase \in Phase : Go(o, phase)
      BY <2>3 DEF ReconcileAdmitted, ReconcileAccepted, Proceeds, Phase
    <3> QED
      BY <3>1, LockKept, GoMovesOnly
  <2>4. CASE ReconcileDeclined(o) \/ ReconcileSave(o)
    <3>1. Leave(o)
      BY <2>4 DEF ReconcileDeclined, ReconcileSave
    <3> QED
      BY <3>1, LockLeft
  <2> QED
    BY <1>2, <2>1, <2>2, <2>3, <2>4 DEF OperatorStep
<1>3. CASE Environment
  <2>1. CASE \E p \in Proc : Crash(p)
    BY <2>1, LockLeft DEF Crash
  <2>2. CASE ~\E p \in Proc : Crash(p)
    <3>1. UNCHANGED <<owner, pc>>
      BY <1>3, <2>2 DEF Environment, OrphanLands, PushLands, OtherAdmitted,
         OtherReleases, Arrive, Rewrite, ToggleStop, locks, held
    <3> QED
      BY <3>1, <1>0
  <2> QED
    BY <2>1, <2>2
<1>4. CASE UNCHANGED vars
  BY <1>0, <1>4 DEF vars, locks, held
<1> QED
  BY <1>1, <1>2, <1>3, <1>4 DEF Next

(* Who moves the progress ref: a process that leaves the phase in which it   *)
(* saves, or a git child that attaches its commit and is gone.               *)
Saving == {"idle", "claim", "finish", "rSave"}
LEMMA WhoMoves ==
  ASSUME TypeOK, Next, progress' # progress
  PROVE  \/ orphans' # orphans
         \/ \E q \in Proc : pc[q] \in Saving /\ pc'[q] # pc[q]
<1>1. ASSUME NEW p \in Ticks, TickBusy(p) \/ TickStep(p) \/ TickFailure(p)
      PROVE  \E q \in Proc : pc[q] \in Saving /\ pc'[q] # pc[q]
  <2> p \in Proc
    BY DEF Proc
  <2> USE DEF refs
  <2>1. CASE SaveCursors(p) \/ ClaimFails(p)
    <3>1. pc[p] \in Saving /\ pc'[p] = "ready"
      BY <2>1 DEF SaveCursors, ClaimFails, LeaveQuietly, Leave, TypeOK, Saving
    <3> QED
      BY <3>1 DEF Saving
  <2>2. CASE Claim(p) \/ Finish(p) \/ FinishFails(p)
    <3>1. /\ pc[p] \in {"claim", "finish"}
          /\ \E phase \in {"dispatch", "append", "report", "unsaved"} : Go(p, phase)
      BY <2>2 DEF Claim, Finish, FinishFails
    <3> QED
      BY <3>1 DEF Go, TypeOK, Saving
  <2>3. CASE \/ TickBusy(p) \/ TickStart(p) \/ TickDeclined(p) \/ TickAdmitted(p)
             \/ LoadHalts(p) \/ Halt(p) \/ LoadExhausted(p) \/ Load(p)
             \/ (\E s \in Source : ReadSource(p, s)) \/ TickIdle(p) \/ TickNotesCursors(p) \/ Select(p) \/ Dispatch(p)
    BY <2>3, <1>1 DEF TickBusy, TickStart, TickDeclined, TickAdmitted, LoadHalts,
       Halt, LoadExhausted, Load, ReadSource, TickIdle, TickNotesCursors, Select, Dispatch
  <2>4. CASE \/ (\E d \in FinalDisposition : HandlerReturns(p, d))
             \/ Checkpoint(p) \/ AppendReply(p) \/ PushReply(p) \/ Report(p)
             \/ ReadFails(p) \/ CheckpointFails(p) \/ ReplyRefused(p)
             \/ PushUnverified(p) \/ TickRaises(p)
    BY <2>4 DEF HandlerReturns, Checkpoint, AppendReply, PushReply, Report,
       ReadFails, CheckpointFails, ReplyRefused, PushUnverified, TickRaises
  <2> QED
    BY <1>1, <2>1, <2>2, <2>3, <2>4 DEF TickStep, TickFailure
<1>2. ASSUME NEW o \in Operators, OperatorStep(o)
      PROVE  \E q \in Proc : pc[q] \in Saving /\ pc'[q] # pc[q]
  <2> o \in Proc
    BY DEF Proc
  <2>1. ReconcileSave(o)
    BY <1>2 DEF OperatorStep, Review, ReconcileStart, ReconcileAdmitted,
       ReconcileDeclined, ReconcileAccepted, refs
  <2>2. pc[o] = "rSave" /\ pc'[o] = "ready"
    BY <2>1 DEF ReconcileSave, Leave, TypeOK
  <2> QED
    BY <2>2 DEF Saving
<1>3. ASSUME Environment PROVE orphans' # orphans
  <2>1. PICK c \in orphans : OrphanLands(c)
    BY <1>3 DEF Environment, Crash, PushLands, OtherAdmitted, OtherReleases,
       Arrive, Rewrite, ToggleStop, refs
  <2> QED
    BY <2>1 DEF OrphanLands
<1> QED
  BY <1>1, <1>2, <1>3 DEF Next

(* Under a process that has loaded the progress the ref is moved by that     *)
(* process, by a command of another runtime root, or by a git child that     *)
(* outlived an earlier owner: the owner lock covers the load, the work and   *)
(* the save of every command of its root.                                    *)
THEOREM OwnerLockCovers == Spec => NoRivalSave
<1>1. Init => LockInv
  BY DEF Init, LockInv, OwnsOf
<1>2. TypeOK /\ LockInv /\ [Next]_vars => LockInv'
  BY LockStep
<1>3. TypeOK /\ LockInv /\ [Next]_vars =>
        [\A p \in Proc : pc[p] \in Working /\ progress' # progress =>
           \/ \E q \in Proc : (q = p \/ Root[q] # Root[p]) /\ pc'[q] # pc[q]
           \/ orphans' # orphans]_vars
  <2>1. SUFFICES ASSUME TypeOK, LockInv, Next, NEW p \in Proc, pc[p] \in Working,
                        progress' # progress, orphans' = orphans
                 PROVE  \E q \in Proc : (q = p \/ Root[q] # Root[p]) /\ pc'[q] # pc[q]
    OBVIOUS
  <2>2. PICK q \in Proc : pc[q] \in Saving /\ pc'[q] # pc[q]
    BY <2>1, WhoMoves
  <2>3. pc[p] # "ready" /\ pc[q] # "ready"
    BY <2>1, <2>2 DEF Working, Saving
  <2>4. owner[Root[p]] = p /\ owner[Root[q]] = q
    BY <2>1, <2>3 DEF LockInv, OwnsOf
  <2> QED
    BY <2>2, <2>4
<1> QED
  BY <1>1, <1>2, <1>3, TypeCorrect, PTL DEF Spec, NoRivalSave


-----------------------------------------------------------------------------
(* The oldest message first                                                  *)

(* What a process saves claims nothing over the head of an older message:    *)
(* only a claim claims, and what closes a task leaves cursors alone.         *)
LEMMA PendingOldest ==
  ASSUME IndInv, AgeInv, NEW p \in Proc, NEW c \in Pending(p)
  PROVE  OldestIn(c)
<1>1. CASE pc[p] = "idle" /\ c = IdleProgress(p)
  <2>1. c.tasks = base[p].tasks
    BY <1>1, PendingTypes DEF IndInv
  <2>2. \A m \in Message : c.tasks[m] # "claimed"
    BY <1>1, <2>1, ClaimedIsBarrier DEF IndInv, LedgerInv, ReadingInv, ReadingOf
  <2> QED
    BY <2>2 DEF OldestIn
<1>2. CASE pc[p] = "claim" /\ c = ClaimedProgress(p)
  BY <1>2 DEF AgeInv, AgeOf
<1>3. CASE pc[p] = "finish" /\ c = FinalProgress(p)
  <2>1. base[p] = progress /\ progress \in Progress
    BY <1>3 DEF IndInv, TypeInv, TypeOK, LedgerInv, EngagedInv, Engaged
  <2>2. c.tasks = [progress.tasks EXCEPT ![sel[p]] = disp[p]]
        /\ c.cursors = progress.cursors
    BY <1>3, <2>1 DEF FinalProgress, WithTask, Child
  <2>3. disp[p] \in FinalDisposition
    BY <1>3 DEF IndInv, TypeInv, DecidedOK, Decided
  <2>4. \A m \in Message :
          /\ c.tasks[m] = "claimed" => progress.tasks[m] = "claimed"
          /\ c.tasks[m] = "unseen" => progress.tasks[m] = "unseen"
    BY <2>1, <2>2, <2>3 DEF Progress, Tasks, FinalDisposition
  <2> QED
    BY <2>2, <2>4 DEF AgeInv, OldestIn
<1>4. CASE pc[p] = "rSave" /\ c = ReconciledProgress(p)
  <2>1. base[p] \in Progress /\ plan[p] \in Reconciliation
    BY <1>4 DEF IndInv, TypeInv, TypeOK, PlanOK, Reconciling
  <2>2. c.tasks = [base[p].tasks EXCEPT ![plan[p].msg] = "failed"]
    BY <1>4 DEF ReconciledProgress, WithReconciliation, Child
  <2>3. Barriers(base[p].tasks) = {plan[p].msg}
    BY <1>4 DEF IndInv, LedgerInv, RevisingInv, RevisingOf
  <2>4. \A m \in Message : c.tasks[m] # "claimed"
    BY <2>1, <2>2, <2>3, ClaimedIsBarrier DEF Progress, Tasks, Reconciliation
  <2> QED
    BY <2>4 DEF OldestIn
<1> QED
  BY <1>1, <1>2, <1>3, <1>4 DEF Pending

(* Select takes the oldest of what it has read: a claim of it leaves only    *)
(* younger ones.                                                             *)
LEMMA SelectOldest ==
  ASSUME IndInv, NEW p \in Proc, Select(p)
  PROVE  AgeOf(p)'
<1>1. PICK m \in Candidates(p) :
        /\ \A n \in Candidates(p) : Rank[m] =< Rank[n]
        /\ sel' = [sel EXCEPT ![p] = m]
  BY DEF Select
<1>2. m \in Message /\ sel'[p] = m /\ base'[p] = base[p] /\ tips'[p] = tips[p]
  BY <1>1 DEF Select, Candidates, IndInv, TypeInv, TypeOK
<1>3. Barriers(base[p].tasks) = {} /\ base[p] \in Progress
      /\ tips[p] \in [Source -> SUBSET Message]
  BY DEF Select, AllRead, IndInv, TypeInv, TypeOK, LedgerInv, ReadingInv, ReadingOf
<1> DEFINE c == WithTask(base[p], tips[p], m, "claimed")
<1>4. ClaimedProgress(p)' = c
  BY <1>2 DEF ClaimedProgress
<1>5. c.tasks = [base[p].tasks EXCEPT ![m] = "claimed"] /\ c.cursors = tips[p]
  BY DEF WithTask, Child
<1>6. ASSUME NEW k \in Message, NEW n \in Message,
             c.tasks[k] = "claimed", c.tasks[n] = "unseen", Kind[n] # "other",
             \E s \in Source : n \in c.cursors[s]
      PROVE  Rank[k] < Rank[n]
  <2>1. k = m
    BY <1>2, <1>3, <1>5, <1>6, ClaimedIsBarrier DEF Progress, Tasks
  <2>2. n # m /\ base[p].tasks[n] = "unseen"
    BY <1>2, <1>3, <1>5, <1>6 DEF Progress, Tasks
  <2>3. n \in Candidates(p)
    BY <1>5, <1>6, <2>2 DEF Candidates
  <2>4. Rank[m] =< Rank[n] /\ Rank[m] # Rank[n] /\ Rank[m] \in Nat /\ Rank[n] \in Nat
    BY <1>1, <1>2, <2>2, <2>3, MessageAssumption
  <2> QED
    BY <2>1, <2>4
<1>7. OldestIn(c)
  BY <1>6 DEF OldestIn
<1> QED
  BY <1>4, <1>7 DEF AgeOf, OldestIn

(* The choice of a tick stands until it has saved it. *)
Choice(p) == <<base[p], tips[p], sel[p]>>
LEMMA ChoiceStands ==
  ASSUME TypeInv, [Next]_vars, NEW q \in Proc, pc'[q] = "claim",
         ~(q \in Ticks /\ Select(q))
  PROVE  pc[q] = "claim" /\ UNCHANGED Choice(q)
<1>0. ASSUME UNCHANGED <<pc, base, tips, sel>>
      PROVE  pc[q] = "claim" /\ UNCHANGED Choice(q)
  BY <1>0 DEF Choice
<1>1. ASSUME NEW p \in Proc, p # q, Leave(p)
      PROVE  pc[q] = "claim" /\ UNCHANGED Choice(q)
  BY <1>1 DEF Leave, TypeInv, TypeOK, Choice
<1>2. ASSUME NEW p \in Proc, NEW phase, phase # "claim", Go(p, phase),
             UNCHANGED <<tips, sel>>, \E b : base' = [base EXCEPT ![p] = b]
      PROVE  pc[q] = "claim" /\ UNCHANGED Choice(q)
  BY <1>2 DEF Go, TypeInv, TypeOK, Choice
<1>3. ASSUME NEW p \in Proc, Leave(p) PROVE p # q
  BY <1>3 DEF Leave, TypeInv, TypeOK
<1>4. \A p \in Proc : base = [base EXCEPT ![p] = base[p]]
  BY DEF TypeInv, TypeOK
<1>5. ASSUME NEW p \in Ticks, TickBusy(p) \/ TickStep(p) \/ TickFailure(p)
      PROVE  pc[q] = "claim" /\ UNCHANGED Choice(q)
  <2> p \in Proc
    BY DEF Proc
  <2> USE DEF held
  <2>1. CASE TickBusy(p)
    BY <2>1, <1>0 DEF TickBusy
  <2>2. CASE \E s \in Source : ReadSource(p, s)
    BY <2>2 DEF ReadSource, TypeInv, TypeOK, Choice
  <2>3. CASE \/ TickDeclined(p) \/ Halt(p) \/ LoadExhausted(p) \/ TickIdle(p)
             \/ SaveCursors(p)
             \/ Report(p) \/ ReadFails(p) \/ ClaimFails(p) \/ TickRaises(p)
    <3>1. Leave(p)
      BY <2>3 DEF TickDeclined, Halt, LoadExhausted, TickIdle, SaveCursors, Report, ReadFails,
                  ClaimFails, TickRaises, LeaveQuietly
    <3> QED
      BY <3>1, <1>1, <1>3
  <2>4. CASE \/ TickStart(p) \/ TickAdmitted(p) \/ Load(p) \/ TickNotesCursors(p)
             \/ Claim(p) \/ Dispatch(p)
             \/ \E d \in FinalDisposition : HandlerReturns(p, d)
    <3>1. /\ \E phase \in Phase \ {"claim"} : Go(p, phase)
          /\ UNCHANGED <<tips, sel>>
          /\ UNCHANGED base \/ \E b : base' = [base EXCEPT ![p] = b]
      BY <2>4 DEF TickStart, TickAdmitted, Load, TickNotesCursors, Claim, Dispatch,
                  HandlerReturns, Phase
    <3>2. PICK phase \in Phase \ {"claim"} : Go(p, phase)
      BY <3>1
    <3> QED
      BY <3>1, <3>2, <1>2, <1>4
  <2>5. CASE \/ Checkpoint(p) \/ AppendReply(p) \/ PushReply(p) \/ Finish(p)
             \/ CheckpointFails(p) \/ ReplyRefused(p) \/ PushUnverified(p)
             \/ FinishFails(p)
    <3>1. /\ \E phase \in Phase \ {"claim"} : Go(p, phase)
          /\ UNCHANGED <<tips, sel, base>>
      BY <2>5 DEF Checkpoint, AppendReply, PushReply, Finish, CheckpointFails,
                  ReplyRefused, PushUnverified, FinishFails, Phase
    <3>2. PICK phase \in Phase \ {"claim"} : Go(p, phase)
      BY <3>1
    <3> QED
      BY <3>1, <3>2, <1>2, <1>4
  <2>6. CASE Select(p)
    <3>1. p # q
      BY <2>6
    <3> QED
      BY <3>1, <2>6 DEF Select, Go, TypeInv, TypeOK, Choice
  <2>7. CASE LoadHalts(p)
    <3>1. pc'[p] = "halt"
      BY <2>7 DEF LoadHalts, Go, TypeInv, TypeOK
    <3> QED
      BY <3>1, <2>7 DEF LoadHalts, Go, TypeInv, TypeOK, Choice
  <2> QED
    BY <1>5, <2>1, <2>2, <2>3, <2>4, <2>5, <2>6, <2>7 DEF TickStep, TickFailure
<1>6. ASSUME NEW o \in Operators, OperatorStep(o)
      PROVE  pc[q] = "claim" /\ UNCHANGED Choice(q)
  <2> o \in Proc
    BY DEF Proc
  <2> USE DEF held
  <2>1. CASE \E m \in Message : Review(o, m)
    BY <2>1, <1>0 DEF Review
  <2>2. CASE ReconcileStart(o) \/ ReconcileAdmitted(o) \/ ReconcileAccepted(o)
    <3>1. /\ \E phase \in Phase \ {"claim"} : Go(o, phase)
          /\ UNCHANGED <<tips, sel>>
          /\ UNCHANGED base \/ \E b : base' = [base EXCEPT ![o] = b]
      BY <2>2 DEF ReconcileStart, ReconcileAdmitted, ReconcileAccepted, Phase
    <3>2. PICK phase \in Phase \ {"claim"} : Go(o, phase)
      BY <3>1
    <3> QED
      BY <3>1, <3>2, <1>2, <1>4
  <2>3. CASE ReconcileDeclined(o) \/ ReconcileSave(o)
    <3>1. Leave(o)
      BY <2>3 DEF ReconcileDeclined, ReconcileSave
    <3> QED
      BY <3>1, <1>1, <1>3
  <2> QED
    BY <1>6, <2>1, <2>2, <2>3 DEF OperatorStep
<1>7. CASE Environment
  <2>1. CASE \E p \in Proc : Crash(p)
    BY <2>1, <1>1, <1>3 DEF Crash
  <2>2. CASE ~\E p \in Proc : Crash(p)
    <3>1. UNCHANGED <<pc, base, tips, sel>>
      BY <1>7, <2>2 DEF Environment, OrphanLands, PushLands, OtherAdmitted,
         OtherReleases, Arrive, Rewrite, ToggleStop, held
    <3> QED
      BY <3>1, <1>0
  <2> QED
    BY <2>1, <2>2
<1>8. CASE UNCHANGED vars
  BY <1>0, <1>8 DEF vars, held
<1> QED
  BY <1>5, <1>6, <1>7, <1>8 DEF Next

(* Where commits come from: the progress ref is moved to what a process is   *)
(* about to save or a git child left over from one is.                       *)
LEMMA WhatMoves ==
  ASSUME [Next]_vars
  PROVE  /\ \/ progress' = progress
            \/ /\ progress'.ver = progress.ver + 1
               /\ progress' \in orphans \/ \E p \in Proc : progress' \in Pending(p)
         /\ \A c \in orphans' : c \in orphans \/ \E p \in Proc : c \in Pending(p)
<1>1. ASSUME NEW p \in Ticks, TickBusy(p) \/ TickStep(p) \/ TickFailure(p)
      PROVE  /\ \/ progress' = progress
                \/ /\ progress'.ver = progress.ver + 1
                   /\ \E q \in Proc : progress' \in Pending(q)
             /\ orphans' = orphans
  <2> p \in Proc
    BY DEF Proc
  <2> USE DEF refs
  <2>1. CASE SaveCursors(p) \/ Claim(p) \/ ClaimFails(p) \/ Finish(p) \/ FinishFails(p)
    <3>1. /\ orphans' = orphans
          /\ \E c \in Pending(p) : Saved(c) \/ SaveRaised(c)
      BY <2>1 DEF SaveCursors, Claim, ClaimFails, Finish, FinishFails, Pending
    <3> QED
      BY <3>1 DEF Saved, SaveRaised, IsChild
  <2>2. CASE \/ TickBusy(p) \/ TickStart(p) \/ TickDeclined(p) \/ TickAdmitted(p)
             \/ LoadHalts(p) \/ Halt(p) \/ LoadExhausted(p) \/ Load(p)
             \/ (\E s \in Source : ReadSource(p, s)) \/ TickIdle(p) \/ TickNotesCursors(p) \/ Select(p) \/ Dispatch(p)
    BY <2>2 DEF TickBusy, TickStart, TickDeclined, TickAdmitted, LoadHalts,
       Halt, LoadExhausted, Load, ReadSource, TickIdle, TickNotesCursors, Select, Dispatch
  <2>3. CASE \/ (\E d \in FinalDisposition : HandlerReturns(p, d))
             \/ Checkpoint(p) \/ AppendReply(p) \/ PushReply(p) \/ Report(p)
             \/ ReadFails(p) \/ CheckpointFails(p) \/ ReplyRefused(p)
             \/ PushUnverified(p) \/ TickRaises(p)
    BY <2>3 DEF HandlerReturns, Checkpoint, AppendReply, PushReply, Report,
       ReadFails, CheckpointFails, ReplyRefused, PushUnverified, TickRaises
  <2> QED
    BY <1>1, <2>1, <2>2, <2>3 DEF TickStep, TickFailure
<1>2. ASSUME NEW o \in Operators, OperatorStep(o)
      PROVE  /\ \/ progress' = progress
                \/ /\ progress'.ver = progress.ver + 1
                   /\ \E q \in Proc : progress' \in Pending(q)
             /\ orphans' = orphans
  <2> o \in Proc
    BY DEF Proc
  <2>1. CASE ReconcileSave(o)
    <3>1. /\ orphans' = orphans
          /\ \E c \in Pending(o) : Saved(c) \/ SaveRaised(c)
      BY <2>1 DEF ReconcileSave, Pending
    <3> QED
      BY <3>1 DEF Saved, SaveRaised, IsChild
  <2>2. CASE ~ReconcileSave(o)
    BY <1>2, <2>2 DEF OperatorStep, Review, ReconcileStart, ReconcileAdmitted,
       ReconcileDeclined, ReconcileAccepted, refs
  <2> QED
    BY <2>1, <2>2
<1>3. CASE Environment
  <2>1. CASE \E c \in orphans : OrphanLands(c)
    BY <2>1 DEF OrphanLands, Saved, IsChild
  <2>2. CASE \E p \in Proc : Crash(p)
    BY <2>2 DEF Crash
  <2>3. CASE ~(\E c \in orphans : OrphanLands(c)) /\ ~(\E p \in Proc : Crash(p))
    BY <1>3, <2>3 DEF Environment, PushLands, OtherAdmitted,
       OtherReleases, Arrive, Rewrite, ToggleStop, refs
  <2> QED
    BY <2>1, <2>2, <2>3
<1>4. CASE UNCHANGED vars
  BY <1>4 DEF vars, refs
<1> QED
  BY <1>1, <1>2, <1>3, <1>4 DEF Next

LEMMA AgeStep ==
  ASSUME IndInv, AgeInv, [Next]_vars
  PROVE  AgeInv'
<1>1. OldestIn(progress)'
  <2>1. OldestIn(progress')
    BY WhatMoves, PendingOldest DEF AgeInv
  <2> QED
    BY <2>1 DEF OldestIn
<1>2. ASSUME NEW c \in orphans' PROVE OldestIn(c)'
  <2>1. OldestIn(c)
    BY <1>2, WhatMoves, PendingOldest DEF AgeInv
  <2> QED
    BY <2>1 DEF OldestIn
<1>3. ASSUME NEW p \in Proc PROVE AgeOf(p)'
  <2>1. CASE pc'[p] # "claim"
    BY <2>1 DEF AgeOf
  <2>2. CASE p \in Ticks /\ Select(p)
    BY <2>2, SelectOldest
  <2>3. CASE pc'[p] = "claim" /\ ~(p \in Ticks /\ Select(p))
    <3>1. pc[p] = "claim" /\ UNCHANGED Choice(p)
      BY <2>3, ChoiceStands DEF IndInv
    <3>2. OldestIn(ClaimedProgress(p)) /\ ClaimedProgress(p)' = ClaimedProgress(p)
      BY <3>1 DEF AgeInv, AgeOf, Choice, ClaimedProgress
    <3> QED
      BY <3>2 DEF AgeOf, OldestIn
  <2> QED
    BY <2>1, <2>2, <2>3
<1> QED
  BY <1>1, <1>2, <1>3 DEF AgeInv

(* While a message is claimed no older unhandled one was in what the         *)
(* claiming tick had read, and that stays so whichever process or left-over  *)
(* git child moved the progress ref since.                                   *)
THEOREM OldestFirst == Spec => []OldestClaimed
<1>1. Init => AgeInv
  BY DEF Init, AgeInv, AgeOf, OldestIn, EmptyProgress, NoTasks
<1>2. IndInv /\ AgeInv /\ [Next]_vars => AgeInv'
  BY AgeStep
<1>3. AgeInv => OldestClaimed
  BY DEF AgeInv, OldestIn, OldestClaimed
<1> QED
  BY <1>1, <1>2, <1>3, Inductive, PTL DEF Spec

-----------------------------------------------------------------------------
(* What the status file reports                                              *)

(* How a tick comes to be engaged, and to have a status to write.            *)
LEMMA PhaseMoves ==
  ASSUME TypeInv, [Next]_vars, NEW q \in Proc
  PROVE  /\ pc'[q] \in Engaged => pc[q] \in Engaged \/ (q \in Ticks /\ Claim(q))
         /\ pc'[q] \in Reporting =>
              \/ pc'[q] = pc[q] /\ sel'[q] = sel[q] /\ disp'[q] = disp[q]
              \/ q \in Ticks /\ (LoadHalts(q) \/ Finish(q) \/ FinishFails(q))
<1> DEFINE Goal ==
      /\ pc'[q] \in Engaged => pc[q] \in Engaged \/ (q \in Ticks /\ Claim(q))
      /\ pc'[q] \in Reporting =>
           \/ pc'[q] = pc[q] /\ sel'[q] = sel[q] /\ disp'[q] = disp[q]
           \/ q \in Ticks /\ (LoadHalts(q) \/ Finish(q) \/ FinishFails(q))
<1> SUFFICES Goal
  OBVIOUS
<1>0. Same(q) => Goal
  BY DEF Same
<1>1. UNCHANGED <<pc, sel, disp>> => Goal
  OBVIOUS
<1>2. pc'[q] \notin Engaged \union Reporting => Goal
  OBVIOUS
<1>3. pc'[q] \in Engaged /\ pc[q] \in Engaged => Goal
  BY DEF Engaged, Reporting
<1>4. q \in Ticks /\ (Claim(q) \/ LoadHalts(q) \/ Finish(q) \/ FinishFails(q)) => Goal
  <2>1. Claim(q) => pc'[q] \in {"dispatch", "append"}
    BY DEF Claim, Go, TypeInv, TypeOK
  <2>2. LoadHalts(q) \/ Finish(q) \/ FinishFails(q) =>
          pc'[q] \in {"halt", "report", "unsaved"}
    BY DEF LoadHalts, Finish, FinishFails, Go, TypeInv, TypeOK
  <2> QED
    BY <2>1, <2>2 DEF Engaged, Reporting
<1>5. ASSUME NEW p \in Proc, Leave(p)
      PROVE  pc'[p] = "ready"
             /\ \A r \in Proc : r # p => pc'[r] = pc[r] /\ sel'[r] = sel[r] /\ disp'[r] = disp[r]
  BY <1>5 DEF Leave, TypeInv, TypeOK
<1>6. ASSUME NEW p \in Proc, Leave(p) PROVE Goal
  BY <1>5, <1>6 DEF Engaged, Reporting
<1> HIDE DEF Goal
<1>7. ASSUME NEW p \in Ticks, TickBusy(p) \/ TickStep(p) \/ TickFailure(p)
      PROVE  Goal
  <2> p \in Proc
    BY DEF Proc
  <2> USE DEF held
  <2>1. CASE TickBusy(p)
    BY <2>1, <1>1 DEF TickBusy
  <2>2. CASE \/ TickDeclined(p) \/ Halt(p) \/ LoadExhausted(p) \/ TickIdle(p)
             \/ SaveCursors(p) \/ Report(p) \/ ReadFails(p) \/ ClaimFails(p)
             \/ TickRaises(p)
    <3>1. Leave(p)
      BY <2>2 DEF TickDeclined, Halt, LoadExhausted, TickIdle, SaveCursors, Report,
                  ReadFails, ClaimFails, TickRaises, LeaveQuietly
    <3> QED
      BY <3>1, <1>6
  <2>3. CASE \/ TickStart(p) \/ TickAdmitted(p) \/ Load(p)
             \/ (\E s \in Source : ReadSource(p, s)) \/ TickNotesCursors(p) \/ Select(p)
    <3>1. /\ p # q => Same(q)
          /\ pc'[p] \in {"owned", "load", "read", "idle", "claim"}
      BY <2>3 DEF TickStart, TickAdmitted, Load, ReadSource, TickNotesCursors, Select,
                  AllRead, Go, Same, TypeInv, TypeOK
    <3> QED
      BY <3>1, <1>0, <1>2 DEF Engaged, Reporting
  <2>4. CASE \/ Dispatch(p) \/ (\E d \in FinalDisposition : HandlerReturns(p, d))
             \/ Checkpoint(p) \/ AppendReply(p) \/ PushReply(p)
             \/ CheckpointFails(p) \/ ReplyRefused(p) \/ PushUnverified(p)
    <3>1. /\ p # q => Same(q)
          /\ pc[p] \in {"dispatch", "running", "checkpoint", "append", "push"}
          /\ pc'[p] \in {"running", "checkpoint", "append", "push", "finish"}
      BY <2>4 DEF Dispatch, HandlerReturns, Checkpoint, AppendReply, PushReply,
                  CheckpointFails, ReplyRefused, PushUnverified, Go, Same, TypeInv, TypeOK
    <3> QED
      BY <3>1, <1>0, <1>3 DEF Engaged
  <2>5. CASE Claim(p) \/ LoadHalts(p) \/ Finish(p) \/ FinishFails(p)
    <3>1. p # q => Same(q)
      BY <2>5 DEF Claim, LoadHalts, Finish, FinishFails, Go, Same, TypeInv, TypeOK
    <3> QED
      BY <3>1, <2>5, <1>0, <1>4
  <2> QED
    BY <1>7, <2>1, <2>2, <2>3, <2>4, <2>5 DEF TickStep, TickFailure
<1>8. ASSUME NEW o \in Operators, OperatorStep(o) PROVE Goal
  <2> o \in Proc
    BY DEF Proc
  <2> USE DEF held
  <2>1. CASE \E m \in Message : Review(o, m)
    BY <2>1, <1>1 DEF Review
  <2>2. CASE ReconcileStart(o) \/ ReconcileAdmitted(o) \/ ReconcileAccepted(o)
    <3>1. /\ o # q => Same(q)
          /\ pc'[o] \in {"rOwned", "rCheck", "rSave"}
      BY <2>2 DEF ReconcileStart, ReconcileAdmitted, ReconcileAccepted, Go, Same, TypeInv,
                  TypeOK
    <3> QED
      BY <3>1, <1>0, <1>2 DEF Engaged, Reporting
  <2>3. CASE ReconcileDeclined(o) \/ ReconcileSave(o)
    <3>1. Leave(o)
      BY <2>3 DEF ReconcileDeclined, ReconcileSave
    <3> QED
      BY <3>1, <1>6
  <2> QED
    BY <1>8, <2>1, <2>2, <2>3 DEF OperatorStep
<1>9. CASE Environment
  <2>1. CASE \E p \in Proc : Crash(p)
    BY <2>1, <1>6 DEF Crash
  <2>2. CASE ~\E p \in Proc : Crash(p)
    <3>1. UNCHANGED <<pc, sel, disp>>
      BY <1>9, <2>2 DEF Environment, OrphanLands, PushLands, OtherAdmitted,
         OtherReleases, Arrive, Rewrite, ToggleStop, held
    <3> QED
      BY <3>1, <1>1
  <2> QED
    BY <2>1, <2>2
<1>10. CASE UNCHANGED vars
  BY <1>1, <1>10 DEF vars, held
<1> QED
  BY <1>7, <1>8, <1>9, <1>10 DEF Next

(* A claim whose terminal save failed without effect stays a claim.          *)
LEMMA StrandedStays ==
  ASSUME IndInv, [Next]_vars, NEW m \in Message, Stranded(m)
  PROVE  Stranded(m)'
<1>1. m \in Barriers(progress.tasks)
  BY ClaimedIsBarrier DEF Stranded
<1>2. ASSUME NEW q \in Proc, NEW c \in Pending(q), IsChild(c)
      PROVE  FALSE
  <2>1. CASE pc[q] = "idle" /\ c = IdleProgress(q)
    BY <1>1, <1>2, <2>1, IdleSave DEF MayNoteCursors
  <2>2. CASE pc[q] = "claim" /\ c = ClaimedProgress(q)
    BY <1>1, <1>2, <2>2, ClaimSave DEF MayClaim
  <2>3. CASE pc[q] = "finish"
    BY <2>3 DEF Stranded, Engaged
  <2>4. CASE pc[q] = "rSave" /\ c = ReconciledProgress(q)
    BY <1>1, <1>2, <2>4, ReconciliationSave DEF MayReconcile, Stranded
  <2> QED
    BY <2>1, <2>2, <2>3, <2>4 DEF Pending
<1>3. progress' = progress
  BY <1>2, WhatMoves DEF Stranded, IsChild
<1>4. \A c \in orphans' : ~IsChild(c)
  BY <1>2, WhatMoves DEF Stranded
<1>5. ASSUME NEW q \in Proc, pc'[q] \in Engaged
      PROVE  FALSE
  <2>1. pc[q] \notin Engaged
    BY DEF Stranded
  <2>2. Claim(q)
    BY <1>5, <2>1, PhaseMoves DEF IndInv
  <2> QED
    BY <2>2, <1>2 DEF Claim, Saved, Pending
<1> QED
  BY <1>3, <1>4, <1>5 DEF Stranded, IsChild

LEMMA SavelessStays ==
  ASSUME IndInv, [Next]_vars, NEW m \in Message, NEW d \in FinalDisposition,
         Saveless(m, d)
  PROVE  Saveless(m, d)'
BY StrandedStays, RecordedStays DEF Saveless

LEMMA ToldStays ==
  ASSUME IndInv, [Next]_vars, NEW m \in Message,
         NEW d \in FinalDisposition \union {"claimed"}, Told(m, d)
  PROVE  Told(m, d)'
<1>1. CASE d # "claimed"
  BY <1>1, RecordedStays DEF Told
<1>2. CASE d = "claimed"
  <2>1. progress.tasks \in [Message -> Disposition] /\ progress.tasks[m] # "unseen"
    BY <1>2 DEF Told, IndInv, TypeInv, TypeOK, Progress, Tasks
  <2>2. progress'.tasks[m] # "unseen"
    BY <2>1, LedgerMoves DEF Claims, Finishes, Reconciles, FinalDisposition
  <2> QED
    BY <1>2, <2>2 DEF Told
<1> QED
  BY <1>1, <1>2

(* What a status says stays true. *)
LEMMA StatusStays ==
  ASSUME IndInv, [Next]_vars, NEW st \in Status, StatusHolds(st)
  PROVE  StatusHolds(st)'
<1>1. CASE st.msg = None
  BY <1>1 DEF StatusHolds
<1>2. CASE st.msg # None
  <2>1. /\ st.msg \in Message /\ st.disposition \in FinalDisposition
        /\ st.code = "terminal_progress_persist_failed" =>
             st.original \in FinalDisposition
    BY <1>2 DEF Status, Quiet, Naming, FinalDisposition, HaltCode
  <2>2. CASE st.code = "claimed_unresolved"
    <3>1. Told(st.msg, "claimed")
      BY <1>2, <2>2 DEF StatusHolds
    <3>2. Told(st.msg, "claimed")'
      BY <2>1, <3>1, ToldStays
    <3> QED
      BY <2>2, <3>2 DEF StatusHolds
  <2>3. CASE st.code = "terminal_progress_persist_failed"
    <3>1. Saveless(st.msg, st.original)
      BY <1>2, <2>3 DEF StatusHolds
    <3>2. Saveless(st.msg, st.original)'
      BY <2>1, <2>3, <3>1, SavelessStays
    <3> QED
      BY <2>3, <3>2 DEF StatusHolds
  <2>4. CASE st.code \notin {"claimed_unresolved", "terminal_progress_persist_failed"}
    <3>1. Told(st.msg, st.disposition)
      BY <1>2, <2>4 DEF StatusHolds
    <3>2. Told(st.msg, st.disposition)'
      BY <2>1, <3>1, ToldStays
    <3> QED
      BY <2>4, <3>2 DEF StatusHolds
  <2> QED
    BY <2>2, <2>3, <2>4
<1> QED
  BY <1>1, <1>2

(* Who writes the status file, and what. *)
LEMMA StatusMoves ==
  ASSUME [Next]_vars
  PROVE  \/ status' \in {status, Quiet}
         \/ \E p \in Ticks : Halt(p) /\ status' = HaltStatus(p)
         \/ \E p \in Ticks : Report(p) /\ status' = TerminalStatus(p)
<1>1. ASSUME NEW p \in Ticks, TickBusy(p) \/ TickStep(p) \/ TickFailure(p)
      PROVE  \/ status' \in {status, Quiet}
             \/ Halt(p) /\ status' = HaltStatus(p)
             \/ Report(p) /\ status' = TerminalStatus(p)
  <2>1. CASE \/ TickBusy(p) \/ TickDeclined(p) \/ LoadExhausted(p) \/ TickIdle(p)
             \/ SaveCursors(p) \/ ReadFails(p) \/ ClaimFails(p) \/ TickRaises(p)
    BY <2>1 DEF TickBusy, TickDeclined, LoadExhausted, TickIdle, SaveCursors, ReadFails,
                ClaimFails, TickRaises, LeaveQuietly
  <2>2. CASE \/ TickStart(p) \/ TickAdmitted(p) \/ LoadHalts(p) \/ Load(p)
             \/ (\E s \in Source : ReadSource(p, s)) \/ TickNotesCursors(p)
             \/ Select(p) \/ Claim(p) \/ Dispatch(p)
             \/ (\E d \in FinalDisposition : HandlerReturns(p, d))
    BY <2>2 DEF TickStart, TickAdmitted, LoadHalts, Load, ReadSource,
                TickNotesCursors, Select, Claim, Dispatch, HandlerReturns
  <2>3. CASE \/ Checkpoint(p) \/ AppendReply(p) \/ PushReply(p) \/ Finish(p)
             \/ CheckpointFails(p) \/ ReplyRefused(p) \/ PushUnverified(p)
             \/ FinishFails(p)
    BY <2>3 DEF Checkpoint, AppendReply, PushReply, Finish, CheckpointFails,
                ReplyRefused, PushUnverified, FinishFails
  <2>4. CASE Halt(p)
    BY <2>4 DEF Halt
  <2>5. CASE Report(p)
    BY <2>5 DEF Report
  <2> QED
    BY <1>1, <2>1, <2>2, <2>3, <2>4, <2>5 DEF TickStep, TickFailure
<1>2. ASSUME NEW o \in Operators, OperatorStep(o) PROVE status' = status
  BY <1>2 DEF OperatorStep, Review, ReconcileStart, ReconcileAdmitted,
     ReconcileDeclined, ReconcileAccepted, ReconcileSave
<1>3. ASSUME Environment PROVE status' = status
  BY <1>3 DEF Environment, Crash, OrphanLands, PushLands, OtherAdmitted,
     OtherReleases, Arrive, Rewrite, ToggleStop
<1>4. CASE UNCHANGED vars
  BY <1>4 DEF vars
<1> QED
  BY <1>1, <1>2, <1>3, <1>4 DEF Next

(* What a process will report it has read or saved, and it stays true.       *)
LEMMA ReportStep ==
  ASSUME IndInv, StatusInv, [Next]_vars, NEW q \in Proc
  PROVE  ReportOf(q)'
<1>0. TypeInv
  BY DEF IndInv
<1>1. CASE pc'[q] \notin Reporting
  BY <1>1 DEF ReportOf, Reporting
<1>2. CASE pc'[q] \in Reporting /\ pc'[q] = pc[q] /\ sel'[q] = sel[q] /\ disp'[q] = disp[q]
  <2>1. PICK m \in Message, d \in Disposition : m = sel[q] /\ d = disp[q]
    BY <1>0, <1>2 DEF TypeInv, TypeOK, ChosenOK, Chosen, Reporting
  <2>2. CASE pc[q] = "halt"
    <3>1. Told(m, d) /\ d \in FinalDisposition \union {"claimed"}
      BY <1>0, <2>1, <2>2 DEF StatusInv, ReportOf, TypeInv, DecidedOK, BarrierDisposition,
         FinalDisposition
    <3>2. Told(m, d)'
      BY <3>1, ToldStays
    <3> QED
      BY <1>2, <2>1, <2>2, <3>2 DEF ReportOf, Told, Recorded
  <2>3. CASE pc[q] = "report"
    <3>1. Recorded(m, d) /\ d \in FinalDisposition
      BY <1>0, <2>1, <2>3 DEF StatusInv, ReportOf, TypeInv, DecidedOK, Decided
    <3>2. Recorded(m, d)'
      BY <3>1, RecordedStays
    <3> QED
      BY <1>2, <2>1, <2>3, <3>2 DEF ReportOf, Recorded
  <2>4. CASE pc[q] = "unsaved"
    <3>1. Saveless(m, d) /\ d \in FinalDisposition
      BY <1>0, <2>1, <2>4 DEF StatusInv, ReportOf, TypeInv, DecidedOK, Decided
    <3>2. Saveless(m, d)'
      BY <3>1, SavelessStays
    <3> QED
      BY <1>2, <2>1, <2>4, <3>2 DEF ReportOf, Saveless, Stranded, Recorded
  <2> QED
    BY <1>2, <2>2, <2>3, <2>4 DEF Reporting
<1>3. CASE LoadHalts(q)
  <2>1. PICK m \in Barriers(progress.tasks) :
          sel'[q] = m /\ disp'[q] = progress.tasks[m]
    BY <1>0, <1>3 DEF LoadHalts, TypeInv, TypeOK
  <2>2. pc'[q] = "halt" /\ progress' = progress
    BY <1>0, <1>3 DEF LoadHalts, Go, refs, TypeInv, TypeOK
  <2> QED
    BY <2>1, <2>2 DEF ReportOf, Told, Recorded
<1>4. ASSUME Finish(q) \/ FinishFails(q)
      PROVE  ReportOf(q)'
  <2>1. /\ pc[q] = "finish" /\ sel' = sel /\ disp' = disp /\ orphans' = orphans
        /\ pc' = [pc EXCEPT ![q] = pc'[q]] /\ pc'[q] \in {"report", "unsaved"}
        /\ pc'[q] = "report" => Saved(FinalProgress(q))
    BY <1>0, <1>4 DEF Finish, FinishFails, Go, TypeInv, TypeOK
  <2>2. CASE Saved(FinalProgress(q))
    <3>1. /\ sel[q] \in Message
          /\ progress'.tasks = [progress.tasks EXCEPT ![sel[q]] = disp[q]]
      BY <2>1, <2>2, FinishSave DEF Saved
    <3>2. progress.tasks \in [Message -> Disposition]
      BY <1>0 DEF TypeInv, TypeOK, Progress, Tasks
    <3>3. progress'.tasks[sel[q]] = disp[q]
      BY <3>1, <3>2
    <3> QED
      BY <2>1, <3>3 DEF ReportOf, Saveless, Recorded
  <2>3. CASE UNCHANGED progress /\ pc'[q] = "unsaved"
    <3>1. /\ progress.tasks[sel[q]] = "claimed"
          /\ \A c \in orphans : ~IsChild(c)
          /\ \A r \in Proc : r # q => pc[r] \notin Engaged
      BY <2>1, EngagedFacts DEF Engaged
    <3>2. \A r \in Proc : pc'[r] \notin Engaged
      BY <1>0, <2>1, <2>3, <3>1 DEF TypeInv, TypeOK, Engaged
    <3> QED
      BY <2>1, <2>3, <3>1, <3>2 DEF ReportOf, Saveless, Stranded, IsChild
  <2> QED
    BY <1>4, <2>1, <2>2, <2>3 DEF Finish, FinishFails, SaveRaised
<1> QED
  BY <1>0, <1>1, <1>2, <1>3, <1>4, PhaseMoves

LEMMA StatusStep ==
  ASSUME IndInv, TypeInv', StatusInv, [Next]_vars
  PROVE  StatusInv'
<1>0. TypeInv
  BY DEF IndInv
<1>1. ASSUME NEW st \in Status, StatusHolds(st), status' = st
      PROVE  StatusInv'
  <2>1. StatusHolds(st)'
    BY <1>1, StatusStays
  <2>2. StatusHolds(status)'
    BY <1>1, <2>1 DEF StatusHolds, Told, Saveless, Stranded, Recorded
  <2> QED
    BY <2>2, ReportStep DEF StatusInv
<1>2. status' \in Status
  BY DEF TypeInv, TypeOK
<1>3. PICK st \in Status : st = status'
  BY <1>2
<1>4. CASE st = status
  BY <1>1, <1>3, <1>4 DEF StatusInv
<1>5. CASE st = Quiet
  BY <1>1, <1>3, <1>5 DEF StatusHolds, Quiet, Naming
<1>6. ASSUME NEW p \in Ticks, Halt(p), st = HaltStatus(p)
      PROVE  StatusInv'
  <2>1. p \in Proc /\ pc[p] = "halt"
    BY <1>6 DEF Proc, Halt
  <2>2. Told(sel[p], disp[p]) /\ disp[p] \in BarrierDisposition
    BY <1>0, <2>1 DEF StatusInv, ReportOf, TypeInv, DecidedOK
  <2>3. StatusHolds(st)
    BY <1>6, <2>2 DEF StatusHolds, HaltStatus, Naming, BarrierDisposition
  <2> QED
    BY <1>1, <1>3, <2>3
<1>7. ASSUME NEW p \in Ticks, Report(p), st = TerminalStatus(p)
      PROVE  StatusInv'
  <2>1. p \in Proc /\ pc[p] \in {"report", "unsaved"}
    BY <1>7 DEF Proc, Report
  <2>2. /\ pc[p] = "report" => Recorded(sel[p], disp[p])
        /\ pc[p] = "unsaved" => Saveless(sel[p], disp[p])
        /\ disp[p] \in FinalDisposition
    BY <1>0, <2>1 DEF StatusInv, ReportOf, TypeInv, DecidedOK, Decided
  <2>3. StatusHolds(st)
    BY <1>7, <2>1, <2>2 DEF StatusHolds, TerminalStatus, Naming, FinalDisposition, Told
  <2> QED
    BY <1>1, <1>3, <2>3
<1> QED
  BY <1>3, <1>4, <1>5, <1>6, <1>7, StatusMoves

(* What the status file says of the task it names the progress ref bears out *)
(* at any later time, of the halt a barrier causes and of the end of a       *)
(* handled message alike, although commands of other runtime roots, left-over*)
(* git children and operators move the ref before and after it is written;   *)
(* and after a terminal save that failed, whatever became of the save, the   *)
(* task is still claimed or has the original disposition.                    *)
THEOREM StatusAgrees == Spec => []StatusTruthful
<1>1. Init => StatusInv
  BY DEF Init, StatusInv, StatusHolds, Quiet, Naming, ReportOf
<1>2. IndInv /\ IndInv' /\ StatusInv /\ [Next]_vars => StatusInv'
  <2>1. IndInv' => TypeInv'
    BY DEF IndInv
  <2> QED
    BY <2>1, StatusStep
<1>3. IndInv /\ StatusInv => StatusTruthful
  <2>1. SUFFICES ASSUME IndInv, StatusInv, status.msg # None PROVE StatusTruthful
    BY DEF StatusTruthful
  <2>2. status.disposition # "claimed"
    BY <2>1 DEF IndInv, TypeInv, TypeOK, Status, Quiet, Naming, FinalDisposition
  <2> QED
    BY <2>1, <2>2 DEF StatusTruthful, StatusInv, StatusHolds, Told, Saveless, Stranded
<1> QED
  BY <1>1, <1>2, <1>3, Inductive, PTL DEF Spec

-----------------------------------------------------------------------------
(* The status file that the same ticks write (StatusFile).                   *)

(* A tick in one of these phases goes on to replace or remove the temporary  *)
(* file, or finds it open in another tick that will.                         *)
Responsible == {"write", "close", "replace", "clean", "unlink"}
Attended ==
  ~killed /\ temporary # Nobody => \E w \in Tick : stage[w] \in Responsible

(* A tick that stays where it was still answers for the file. *)
LEMMA OthersAttend ==
  ASSUME StatusTypeOK, NEW w \in Tick, NEW v \in Tick, v # w, NEW phase,
         StageTo(w, phase), stage[v] \in Responsible
  PROVE  \E u \in Tick : stage'[u] \in Responsible
<1>1. stage'[v] = stage[v]
  BY DEF StageTo, StatusTypeOK
<1>. QED BY <1>1

LEMMA AttendedStep ==
  ASSUME StatusTypeOK, Attended, NEW w \in Tick,
         \/ Start(w) \/ Open(w) \/ Write(w) \/ Close(w) \/ Replace(w) \/ Fails(w)
         \/ Clean(w) \/ Unlink(w) \/ UnlinkRaises(w) \/ Die(w)
  PROVE  Attended'
<1>0. SUFFICES ASSUME ~killed', temporary' # Nobody
               PROVE  \E u \in Tick : stage'[u] \in Responsible
  BY DEF Attended
<1>1. ASSUME NEW phase \in Responsible, StageTo(w, phase)
      PROVE  \E u \in Tick : stage'[u] \in Responsible
  BY <1>1 DEF StageTo, StatusTypeOK
<1>2. CASE Start(w)
  <2>1. stage[w] = "ready" /\ StageTo(w, "open") /\ temporary # Nobody /\ ~killed
    BY <1>0, <1>2 DEF Start, files
  <2>2. PICK v \in Tick : stage[v] \in Responsible
    BY <1>0, <2>1 DEF Attended
  <2>3. v # w
    BY <2>1, <2>2 DEF Responsible
  <2>. QED BY <2>1, <2>2, <2>3, OthersAttend
<1>3. CASE Open(w) \/ Write(w) \/ Close(w) \/ Replace(w) \/ Fails(w)
  <2>1. \E phase \in Responsible : StageTo(w, phase)
    BY <1>3 DEF Open, Write, Close, Replace, Fails, Responsible
  <2>. QED BY <2>1, <1>1
<1>4. CASE Clean(w)
  <2>1. StageTo(w, "unlink")
    BY <1>0, <1>4 DEF Clean
  <2>. QED BY <2>1, <1>1 DEF Responsible
<1>5. CASE Unlink(w)
  BY <1>0, <1>5 DEF Unlink
<1>6. CASE UnlinkRaises(w)
  <2>1. IsOpen /\ stage[w] = "unlink" /\ StageTo(w, "ready")
    BY <1>0, <1>6 DEF UnlinkRaises, End
  <2>2. PICK v \in Tick : stage[v] \in {"write", "close"}
    BY <2>1 DEF IsOpen
  <2>3. v # w /\ stage[v] \in Responsible
    BY <2>1, <2>2 DEF Responsible
  <2>. QED BY <2>1, <2>3, OthersAttend
<1>7. CASE Die(w)
  BY <1>0, <1>7 DEF Die
<1>. QED BY <1>2, <1>3, <1>4, <1>5, <1>6, <1>7

(* Nobody removes or renames a file that is open. *)
OpenExists ==
  \A w \in Tick : stage[w] \in {"write", "close"} => temporary \in Content

LEMMA StatusTypeStep ==
  ASSUME StatusTypeOK, OpenExists, NEW w \in Tick,
         \/ Start(w) \/ Open(w) \/ Write(w) \/ Close(w) \/ Replace(w) \/ Fails(w)
         \/ Clean(w) \/ Unlink(w) \/ UnlinkRaises(w) \/ Die(w)
  PROVE  StatusTypeOK' /\ OpenExists'
<1>. USE DEF StatusTypeOK, files, past
<1>1. ASSUME NEW phase \in Stage, StageTo(w, phase)
      PROVE  /\ stage' \in [Tick -> Stage]
             /\ stage'[w] = phase /\ \A v \in Tick : v # w => stage'[v] = stage[v]
  BY <1>1 DEF StageTo
<1>2. CASE Start(w)
  <2>1. holder' \in Tick \union {Nobody}
    BY <1>2 DEF Start
  <2>2. long' \in [Tick -> BOOLEAN] /\ installed' \in [Tick -> BOOLEAN]
    BY <1>2 DEF Start
  <2>3. overlapped' \in BOOLEAN
    BY <1>2 DEF Start
  <2>4. StageTo(w, "open") /\ UNCHANGED <<files, killed>>
    BY <1>2 DEF Start
  <2>5. StatusTypeOK'
    BY <2>1, <2>2, <2>3, <2>4, <1>1 DEF Stage
  <2>. QED BY <2>4, <2>5, <1>1 DEF OpenExists, Stage
<1>3. CASE Open(w)
  <2>1. Empty \in Content
    BY DEF Empty, Content
  <2>2. StageTo(w, "write") /\ temporary' = Empty
        /\ UNCHANGED <<holder, target, long, installed, past>>
    BY <1>3 DEF Open
  <2>. QED BY <2>1, <2>2, <1>1 DEF OpenExists, Stage
<1>4. CASE Write(w)
  <2>1. Overwritten(temporary, w) \in Content
    BY <1>4 DEF Write, OpenExists, Overwritten, Content
  <2>2. StageTo(w, "close") /\ temporary' = Overwritten(temporary, w)
        /\ UNCHANGED <<holder, target, long, installed, past>>
    BY <1>4 DEF Write
  <2>. QED BY <2>1, <2>2, <1>1 DEF OpenExists, Stage
<1>5. ASSUME NEW phase \in Stage \ {"write", "close"}, StageTo(w, phase),
             UNCHANGED <<holder, files, long, installed, past>>
      PROVE  StatusTypeOK' /\ OpenExists'
  BY <1>5, <1>1 DEF OpenExists
<1>6. CASE Close(w) \/ Fails(w)
  <2>1. \E phase \in Stage \ {"write", "close"} : StageTo(w, phase)
    BY <1>6 DEF Close, Fails, Stage
  <2>. QED BY <2>1, <1>5, <1>6 DEF Close, Fails
<1>7. CASE Replace(w)
  <2>1. \A v \in Tick : stage[v] \notin {"write", "close"}
    BY <1>7 DEF Replace, IsOpen
  <2>2. /\ StageTo(w, "clean") /\ target' = temporary /\ temporary' = Nobody
        /\ installed' \in [Tick -> BOOLEAN] /\ UNCHANGED <<holder, long, past>>
    BY <1>7 DEF Replace
  <2>. QED BY <2>1, <2>2, <1>1 DEF OpenExists, Stage
<1>8. ASSUME End(w), temporary' = temporary \/ (temporary' = Nobody /\ ~IsOpen),
             killed' \in BOOLEAN
      PROVE  StatusTypeOK' /\ OpenExists'
  <2>1. /\ StageTo(w, "ready") /\ holder' \in Tick \union {Nobody}
        /\ UNCHANGED <<target, long, installed, overlapped>>
    BY <1>8 DEF End
  <2>2. StatusTypeOK'
    BY <2>1, <1>8, <1>1 DEF Stage
  <2>. QED BY <2>1, <2>2, <1>8, <1>1 DEF OpenExists, Stage, IsOpen
<1>9. CASE Clean(w)
  <2>1. CASE temporary = Nobody
    BY <2>1, <1>8, <1>9 DEF Clean
  <2>2. CASE temporary # Nobody
    BY <2>2, <1>5, <1>9 DEF Clean, Stage
  <2>. QED BY <2>1, <2>2
<1>10. CASE Unlink(w) \/ UnlinkRaises(w) \/ Die(w)
  BY <1>10, <1>8 DEF Unlink, UnlinkRaises, Die
<1>. QED BY <1>2, <1>3, <1>4, <1>6, <1>7, <1>9, <1>10

(* Type correctness, for any number of ticks. *)
THEOREM StatusTypes == StatusSpec => [](StatusTypeOK /\ OpenExists)
<1>1. StatusInit => StatusTypeOK /\ OpenExists
  BY StatusFileAssumption DEF StatusInit, StatusTypeOK, OpenExists, Stage, Content
<1>2. StatusTypeOK /\ OpenExists /\ [StatusNext]_statusVars => (StatusTypeOK /\ OpenExists)'
  <2>1. SUFFICES ASSUME StatusTypeOK, OpenExists, [StatusNext]_statusVars
                 PROVE  (StatusTypeOK /\ OpenExists)'
    OBVIOUS
  <2>2. CASE StatusNext
    BY <2>1, <2>2, StatusTypeStep DEF StatusNext
  <2>3. CASE UNCHANGED statusVars
    BY <2>1, <2>3 DEF statusVars, files, past, StatusTypeOK, OpenExists, Content, Stage
  <2>. QED BY <2>1, <2>2, <2>3
<1>. QED BY <1>1, <1>2, PTL DEF StatusSpec

(* persist_cycle_status removes its temporary file in a "finally" block:     *)
(* once all ticks have ended and none was killed, none is left, although    *)
(* each may have failed to remove it because another had it open.           *)
THEOREM NoneLeft == StatusSpec => []NoLeftover
<1>1. StatusInit => Attended
  BY DEF StatusInit, Attended
<1>2. StatusTypeOK /\ Attended /\ [StatusNext]_statusVars => Attended'
  <2>1. SUFFICES ASSUME StatusTypeOK, Attended, [StatusNext]_statusVars PROVE Attended'
    OBVIOUS
  <2>2. CASE StatusNext
    BY <2>1, <2>2, AttendedStep DEF StatusNext
  <2>3. CASE UNCHANGED statusVars
    BY <2>1, <2>3 DEF statusVars, files, past, Attended
  <2>. QED BY <2>1, <2>2, <2>3
<1>3. Attended => NoLeftover
  BY DEF Attended, NoLeftover, Responsible
<1>. QED BY <1>1, <1>2, <1>3, StatusTypes, PTL DEF StatusSpec


-----------------------------------------------------------------------------
(* As long as no two ticks overlapped, one tick at most is running, and the  *)
(* temporary file holds what that tick has written of its own status: nothing *)
(* of a tick that was killed before it.                                      *)
Solo == \A v, w \in Tick : stage[v] # "ready" /\ stage[w] # "ready" => v = w
Progressed(w) ==
  /\ stage[w] = "write" => temporary = Empty
  /\ stage[w] \in {"close", "replace"} => temporary = Whole(w)
StatusSolo == ~overlapped => Solo /\ \A w \in Tick : Progressed(w)

(* A tick that moves while it is the only one running stays that, and what   *)
(* has to be shown is what it has written.                                   *)
LEMMA StatusSoloMoves ==
  ASSUME StatusTypeOK, Solo, NEW w \in Tick, stage[w] # "ready",
         NEW phase, StageTo(w, phase), Progressed(w)'
  PROVE  Solo' /\ \A v \in Tick : Progressed(v)'
<1>1. \A v \in Tick : v # w => stage'[v] = "ready"
  BY DEF StageTo, StatusTypeOK, Solo
<1>. QED BY <1>1 DEF Solo, Progressed

LEMMA StatusSoloStep ==
  ASSUME StatusTypeOK, StatusSolo, NEW w \in Tick,
         \/ Start(w) \/ Open(w) \/ Write(w) \/ Close(w) \/ Replace(w) \/ Fails(w)
         \/ Clean(w) \/ Unlink(w) \/ UnlinkRaises(w) \/ Die(w)
  PROVE  StatusSolo'
<1>1. SUFFICES ASSUME ~overlapped' PROVE Solo' /\ \A v \in Tick : Progressed(v)'
  BY DEF StatusSolo
<1>2. CASE Start(w)
  <2>1. (\A v \in Tick : stage[v] = "ready") /\ StageTo(w, "open")
    BY <1>1, <1>2 DEF Start
  <2>. QED BY <2>1 DEF StageTo, StatusTypeOK, Solo, Progressed
<1>3. CASE ~Start(w)
  <2>1. stage[w] # "ready" /\ UNCHANGED overlapped /\ UNCHANGED long
    BY <1>3 DEF Open, Write, Close, Replace, Fails, Clean, Unlink, UnlinkRaises,
                Die, End, past
  <2>2. Solo /\ Progressed(w)
    BY <1>1, <2>1 DEF StatusSolo
  <2>3. ASSUME NEW phase \in Stage \ {"write", "close", "replace"}, StageTo(w, phase)
        PROVE  Progressed(w)'
    BY <2>3 DEF StageTo, StatusTypeOK, Progressed
  <2>4. ASSUME StageTo(w, "write"), temporary' = Empty
        PROVE  Progressed(w)'
    BY <2>4 DEF StageTo, StatusTypeOK, Progressed
  <2>5. ASSUME NEW phase \in {"close", "replace"}, StageTo(w, phase),
               temporary' = Whole(w)
        PROVE  Progressed(w)'
    BY <2>1, <2>5 DEF StageTo, StatusTypeOK, Progressed, Whole
  <2>6. CASE Open(w)
    <3>1. StageTo(w, "write") /\ temporary' = Empty
      BY <2>6 DEF Open
    <3>. QED BY <3>1, <2>1, <2>2, <2>4, StatusSoloMoves
  <2>7. CASE Write(w)
    <3>1. StageTo(w, "close") /\ temporary' = Whole(w)
      BY <2>7, <2>2 DEF Write, Progressed, Overwritten, Whole, Empty
    <3>. QED BY <3>1, <2>1, <2>2, <2>5, StatusSoloMoves
  <2>8. CASE Close(w)
    <3>1. StageTo(w, "replace") /\ temporary' = Whole(w)
      BY <2>8, <2>2 DEF Close, Progressed, files
    <3>. QED BY <3>1, <2>1, <2>2, <2>5, StatusSoloMoves
  <2>9. CASE Replace(w) \/ Fails(w) \/ Clean(w) \/ Unlink(w)
             \/ UnlinkRaises(w) \/ Die(w)
    <3>1. \E phase \in {"clean", "unlink", "ready"} : StageTo(w, phase)
      BY <2>9 DEF Replace, Fails, Clean, Unlink, UnlinkRaises, Die, End
    <3>2. PICK phase \in Stage \ {"write", "close", "replace"} : StageTo(w, phase)
      BY <3>1 DEF Stage
    <3>. QED BY <3>2, <2>1, <2>2, <2>3, StatusSoloMoves
  <2>. QED BY <1>3, <2>6, <2>7, <2>8, <2>9
<1>. QED BY <1>2, <1>3

(* While no two ticks overlapped, what os.replace of persist_cycle_status    *)
(* installs is the whole status of the tick that calls it, whatever killed   *)
(* ticks and failed removals left in the temporary file before.             *)
THEOREM InstallsOwnStatus == StatusSpec => OwnStatus
<1>1. StatusInit => StatusSolo
  BY DEF StatusInit, StatusSolo, Solo, Progressed
<1>2. StatusTypeOK /\ StatusSolo /\ [StatusNext]_statusVars => StatusSolo'
  <2>1. SUFFICES ASSUME StatusTypeOK, StatusSolo, [StatusNext]_statusVars PROVE StatusSolo'
    OBVIOUS
  <2>2. CASE StatusNext
    BY <2>1, <2>2, StatusSoloStep DEF StatusNext
  <2>3. CASE UNCHANGED statusVars
    BY <2>1, <2>3 DEF statusVars, files, past, StatusSolo, Solo, Progressed, Whole
  <2>. QED BY <2>1, <2>2, <2>3
<1>3. StatusTypeOK /\ StatusSolo /\ [StatusNext]_statusVars
        => [~overlapped => \A w \in Tick : InstallsOwn(w)]_statusVars
  <2>1. SUFFICES ASSUME StatusTypeOK, StatusSolo, StatusNext, ~overlapped, NEW w \in Tick,
                        ~installed[w], installed'[w]
                 PROVE  target' = Whole(w)
    BY DEF InstallsOwn
  <2>2. PICK v \in Tick :
          \/ Start(v) \/ Open(v) \/ Write(v) \/ Close(v) \/ Replace(v) \/ Fails(v)
          \/ Clean(v) \/ Unlink(v) \/ UnlinkRaises(v) \/ Die(v)
    BY <2>1 DEF StatusNext
  <2>3. Replace(v) /\ v = w
    <3>1. CASE Start(v)
      BY <3>1, <2>1 DEF Start, StatusTypeOK
    <3>2. CASE Replace(v)
      BY <3>2, <2>1 DEF Replace, StatusTypeOK
    <3>3. CASE ~Start(v) /\ ~Replace(v)
      <4>1. UNCHANGED installed
        BY <3>3, <2>2 DEF Open, Write, Close, Fails, Clean, Unlink,
                          UnlinkRaises, Die, End
      <4>. QED BY <4>1, <2>1
    <3>. QED BY <3>1, <3>2, <3>3
  <2>. QED BY <2>1, <2>3 DEF Replace, StatusSolo, Progressed
<1>. QED BY <1>1, <1>2, <1>3, StatusTypes, PTL DEF StatusSpec, OwnStatus
=============================================================================
