---------------------------- MODULE WorkCycleInv ----------------------------
(***************************************************************************)
(* The inductive invariants of WorkCycle: behind AtMostOnce and the        *)
(* refinement of TaskLedger, behind CycleInv, behind NoRivalSave, behind   *)
(* OldestClaimed.  Only the third speaks of a lock: for the others the     *)
(* compare-and-swap of the progress ref and the barrier a claim leaves are *)
(* enough, whatever runtime roots the commands use.                        *)
(***************************************************************************)
EXTENDS WorkCycle

(* Phases in which a tick has chosen a message, those in which it has a     *)
(* result for it, and those of a reconciliation.                            *)
Chosen == {"halt", "claim", "dispatch", "running", "checkpoint", "append", "push",
           "finish", "report", "unsaved"}
Decided == {"checkpoint", "append", "push", "finish", "report", "unsaved"}
Reconciling == {"rOwned", "rCheck", "rSave"}

ChosenOK == \A p \in Proc : pc[p] \in Chosen => sel[p] \in Message
DecidedOK ==
  \A p \in Proc :
    /\ pc[p] \in Decided => disp[p] \in FinalDisposition
    /\ pc[p] = "claim" => disp[p] \in FinalDisposition \union {"unseen"}
    /\ pc[p] = "halt" => disp[p] \in BarrierDisposition
PlanOK ==
  \A p \in Proc : pc[p] \in Reconciling => p \in Operators /\ plan[p] \in Reconciliation

(* Type correctness, with what each phase adds to it. *)
TypeInv == TypeOK /\ ChosenOK /\ DecidedOK /\ PlanOK

(* A tick that has claimed its message and not yet closed it. *)
Engaged == {"dispatch", "running", "checkpoint", "append", "push", "finish"}

(* What a process loaded is what the ref had at that depth. *)
BaseOf(p) ==
  /\ base[p].ver =< progress.ver
  /\ pc[p] \in Working /\ base[p].ver = progress.ver => base[p] = progress
BaseInv == \A p \in Proc : BaseOf(p)

(* A tick reads and chooses on the strength of a progress without barriers. *)
ReadingOf(p) ==
  /\ pc[p] \in {"read", "idle", "claim"} =>
       Barriers(base[p].tasks) = {} /\ HasBudget(base[p].tasks)
  /\ pc[p] = "claim" =>
       base[p].tasks[sel[p]] = "unseen" /\ disp[p] # "completed"
ReadingInv == \A p \in Proc : ReadingOf(p)

(* One tick is engaged at most, and nothing moves the ref under it. *)
EngagedInv ==
  /\ \A p \in Proc : pc[p] \in Engaged =>
       base[p] = progress /\ progress.tasks[sel[p]] = "claimed"
  /\ \A p, q \in Proc : pc[p] \in Engaged /\ pc[q] \in Engaged => p = q

(* Whether the handler was called is known from the phase. *)
RanOf(p) ==
  /\ pc[p] = "dispatch" => runs[sel[p]] = 0
  /\ pc[p] \in {"running", "checkpoint"} => runs[sel[p]] = 1
  /\ pc[p] \in {"append", "push", "finish"} /\ disp[p] = "completed" =>
       runs[sel[p]] = 1
RanInv == \A p \in Proc : RanOf(p)

(* A reconciliation about to be saved was checked against what it loaded. *)
RevisingOf(o) ==
  pc[o] = "rSave" => /\ Barriers(base[o].tasks) = {plan[o].msg}
                     /\ base[o].tasks[plan[o].msg] = "unresolved"
RevisingInv == \A o \in Proc : RevisingOf(o)

(* What a git child that outlived its parent can still do to the ref. *)
MayNoteCursors(c) ==
  Barriers(progress.tasks) = {} /\ c.tasks = progress.tasks
MayClaim(c) ==
  /\ Barriers(progress.tasks) = {} /\ HasBudget(progress.tasks)
  /\ \E m \in Message : /\ progress.tasks[m] = "unseen"
                        /\ c.tasks = [progress.tasks EXCEPT ![m] = "claimed"]
Closes(c) ==
  \E m \in Message, d \in FinalDisposition :
    /\ progress.tasks[m] = "claimed"
    /\ d = "completed" => runs[m] = 1
    /\ c.tasks = [progress.tasks EXCEPT ![m] = d]
MayFinish(c) == Closes(c) /\ \A p \in Proc : pc[p] \notin Engaged
MayReconcile(c) ==
  \E m \in Message : /\ Barriers(progress.tasks) = {m}
                     /\ progress.tasks[m] = "unresolved"
                     /\ c.tasks = [progress.tasks EXCEPT ![m] = "failed"]
OrphanInv ==
  \A c \in orphans :
    /\ c.ver =< progress.ver + 1
    /\ IsChild(c) =>
         MayNoteCursors(c) \/ MayClaim(c) \/ MayFinish(c) \/ MayReconcile(c)

RunsInv ==
  \A m \in Message :
    runs[m] \in {0, 1} /\ (progress.tasks[m] = "unseen" => runs[m] = 0)

(* Stepwise invariant: LedgerInv /\ TypeInv is inductive. *)
LedgerInv ==
  /\ BaseInv /\ ReadingInv /\ EngagedInv /\ RanInv /\ RevisingInv
  /\ OrphanInv /\ RunsInv

IndInv == TypeInv /\ LedgerInv

-----------------------------------------------------------------------------
(* The invariant behind CycleInv, inductive beside IndInv.                  *)

(* The bounds of SoleBarrier need finite sets to count.                     *)
CountInv ==
  /\ IsFiniteSet(Barriers(progress.tasks) \union Completed(progress.tasks))
  /\ SoleBarrier

NoReply(m) == \A a \in remote \union inflight : a.msg # m

(* What the cycle closes needs; it is there before the commit that closes.  *)
Evidence(m, d) == [msg |-> m, disp |-> d] \in remote /\ memory[m] # "due"

(* What the phase of a process says of the evidence for its message.        *)
EvidenceOf(p) ==
  /\ pc[p] \in {"dispatch", "running"} => memory[sel[p]] = "none"
  /\ pc[p] \in {"append", "push", "finish"} /\ disp[p] # "unresolved" =>
       memory[sel[p]] # "due"
  /\ pc[p] \in Engaged \ {"finish"} => NoReply(sel[p])
  /\ pc[p] = "finish" /\ disp[p] # "unresolved" => ReplyOf(p) \in remote

(* Nothing is known of a message nobody has claimed.                        *)
UnseenInv ==
  \A m \in Message :
    progress.tasks[m] = "unseen" => memory[m] = "none" /\ NoReply(m)

(* A commit closes nothing without its evidence, or an operator's record,   *)
(* and drops no such record.                                                *)
Closed == {"completed", "failed", "stopped"}
Evidenced(c) ==
  /\ progress.recon \subseteq c.recon
  /\ \A m \in Message :
       c.tasks[m] \in Closed /\ c.tasks[m] # progress.tasks[m] =>
         (\E r \in c.recon : r.msg = m) \/ Evidence(m, c.tasks[m])
OrphanEvidence == \A c \in orphans : IsChild(c) => Evidenced(c)

EvidenceInv ==
  /\ \A p \in Proc : EvidenceOf(p)
  /\ UnseenInv /\ OrphanEvidence
  /\ ClosedWithEvidence /\ OneVerdict

-----------------------------------------------------------------------------
(* The invariant behind StatusTruthful, inductive beside IndInv.            *)

(* The terminal save of m failed before it took effect: no process and no    *)
(* left-over git child is going to close the claim.                          *)
Stranded(m) ==
  /\ progress.tasks[m] = "claimed"
  /\ \A c \in orphans : ~IsChild(c)
  /\ \A q \in Proc : pc[q] \notin Engaged
Saveless(m, d) == Stranded(m) \/ Recorded(m, d)

(* What was read of a barrier: a claim may have been closed since.           *)
Told(m, d) ==
  IF d = "claimed" THEN progress.tasks[m] # "unseen" ELSE Recorded(m, d)

(* What a process that is about to write its status will report.             *)
Reporting == {"halt", "report", "unsaved"}
ReportOf(p) ==
  /\ pc[p] = "halt" => Told(sel[p], disp[p])
  /\ pc[p] = "report" => Recorded(sel[p], disp[p])
  /\ pc[p] = "unsaved" => Saveless(sel[p], disp[p])

(* What the status file reports.                                             *)
StatusHolds(st) ==
  st.msg # None =>
    CASE st.code = "claimed_unresolved" -> Told(st.msg, "claimed")
      [] st.code = "terminal_progress_persist_failed" ->
           Saveless(st.msg, st.original)
      [] OTHER -> Told(st.msg, st.disposition)

StatusInv == StatusHolds(status) /\ \A p \in Proc : ReportOf(p)


-----------------------------------------------------------------------------
(* A process that is not at rest holds the owner lock of its root.          *)
OwnsOf(p) == pc[p] # "ready" => owner[Root[p]] = p
LockInv == \A p \in Proc : OwnsOf(p)


(* A commit claims no message while it leaves an older one it knows of       *)
(* unhandled: the progress ref, what a git child may still attach to it, and *)
(* what a tick that has chosen is about to save.                             *)
OldestIn(c) ==
  \A m, n \in Message :
    c.tasks[m] = "claimed" /\ c.tasks[n] = "unseen"
      /\ Kind[n] # "other" /\ (\E s \in Source : n \in c.cursors[s])
    => Rank[m] < Rank[n]
AgeOf(p) == pc[p] = "claim" => OldestIn(ClaimedProgress(p))
AgeInv ==
  /\ OldestIn(progress) /\ \A c \in orphans : OldestIn(c)
  /\ \A p \in Proc : AgeOf(p)
=============================================================================
