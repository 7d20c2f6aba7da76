----------------------------- MODULE WorkCycle -----------------------------
(***************************************************************************)
(* The work cycle of one Instance (src/peoplebot/work_cycle.py): ticks and *)
(* operator reconciliations that run as separate operating-system          *)
(* processes over one progress ref, one outbound message ref and the       *)
(* non-blocking locks of a runtime root.                                   *)
(*                                                                         *)
(* A process may die, or be unwound by an exception nothing catches,       *)
(* between any two of its steps; a Git transaction may take effect and     *)
(* still be reported as failed, or be committed by a git child that        *)
(* outlives its parent; a push may land after it was given up on.  Each of *)
(* these uses one unit of MaxFaults.                                       *)
(***************************************************************************)
EXTENDS ReaderProgress

CONSTANTS
  Ticks,          \* executions of run_work_cycle_tick
  Operators,      \* executions of reconcile_reader_task
  Root,           \* Root[p]: the runtime_root p's bindings name
  Kind,           \* Kind[m]: "task", "stop", or "other" (not ours, or a reply)
  Routed,         \* messages whose purpose has a route and a handler
  Remembering,    \* messages whose handler may return memory items
  Rank,           \* Rank[m]: place of (created_at, message_id) in sort order
  AllowStop,      \* TaskPolicy.allow_stop_messages
  MaxFaults,      \* bound on faults
  OutsideRoots,   \* roots in which the Instance is also executed directly
  MayStop,        \* whether the stop file is ever used
  MayDie,         \* whether processes may be killed
  None

Proc == Ticks \union Operators
Roots == {Root[p] : p \in Proc}
Other == <<"other">>     \* a direct execution of the same Instance

ASSUME ProcAssumption ==
  /\ Ticks \intersect Operators = {}
  /\ None \notin Proc /\ Other \notin Proc /\ None # Other
  /\ None \notin Message

ASSUME MessageAssumption ==
  /\ Kind \in [Message -> {"task", "stop", "other"}]
  /\ Routed \subseteq Message /\ Remembering \subseteq Message
  /\ Rank \in [Message -> Nat]
  /\ \A m, n \in Message : Rank[m] = Rank[n] => m = n
  /\ AllowStop \in BOOLEAN /\ MayStop \in BOOLEAN /\ MayDie \in BOOLEAN

ASSUME BoundAssumption == MaxCompleted \in Nat /\ MaxFaults \in Nat

VARIABLES
  progress,     \* the commit the progress ref points to
  orphans,      \* commits a git child that outlived its parent may attach
  owner,        \* owner[r]: holder of the "work-cycle-owner" lock in root r
  inner,        \* inner[r]: holder of the Instance lock in root r
  feed,         \* feed[s]: messages in peer ref s
  stopFile,     \* bindings.stop_path exists
  status,       \* content of the status file
  local,        \* replies in the local outbound ref
  remote,       \* replies in the outbound ref at the destination
  inflight,     \* replies of pushes that were given up on and may still land
  runs,         \* runs[m]: how often the handler was called with m
  memory,       \* memory[m]: "none", "due" or "kept" checkpoint of m's items
  faults,       \* faults so far
  plan,         \* plan[o]: the reconciliation file operator o was given
  pc, base, unread, tips, sel, disp    \* what each process holds in memory

refs   == <<progress, orphans>>
locks  == <<owner, inner>>
world  == <<feed, stopFile>>
outbox == <<local, remote, inflight>>
tasksv == <<runs, memory>>
held   == <<pc, base, unread, tips, sel, disp>>
vars   == <<refs, locks, world, status, outbox, tasksv, faults, plan, held>>

Phase ==
  {"ready", "owned", "load", "halt", "read", "idle", "claim", "dispatch",
   "running", "checkpoint", "append", "push", "finish", "report", "unsaved",
   "rOwned", "rCheck", "rSave"}

Reply == [msg : Message, disp : FinalDisposition]

(* A status that names the task whose message state it carries; original is *)
(* the disposition a terminal save that failed would have recorded.          *)
Naming(code, m, d, original) ==
  [code |-> code, msg |-> m, disposition |-> d, original |-> original]
(* Statuses with no message state (busy, stopped by the file, exhausted,     *)
(* idle, an error code) share one value.                                     *)
Quiet == Naming("quiet", None, None, None)
HaltCode == {"stopped_halt", "unresolved_halt", "claimed_unresolved"}
Status ==
  {Quiet} \union
  [code : FinalDisposition \union HaltCode, msg : Message,
   disposition : FinalDisposition, original : {None}]
  \union
  [code : {"terminal_progress_persist_failed"}, msg : Message,
   disposition : {"unresolved"}, original : FinalDisposition]

TypeOK ==
  /\ progress \in Progress /\ orphans \subseteq Progress
  /\ owner \in [Roots -> Proc \union {None}]
  /\ inner \in [Roots -> Proc \union {None, Other}]
  /\ feed \in [Source -> SUBSET Message] /\ stopFile \in BOOLEAN
  /\ status \in Status
  /\ local \subseteq Reply /\ remote \subseteq Reply /\ inflight \subseteq Reply
  /\ runs \in [Message -> Nat]
  /\ memory \in [Message -> {"none", "due", "kept"}]
  /\ faults \in Nat
  /\ plan \in [Operators -> Reconciliation \union {None}]
  /\ pc \in [Proc -> Phase]
  /\ base \in [Proc -> Progress]
  /\ unread \in [Proc -> SUBSET Source]
  /\ tips \in [Proc -> [Source -> SUBSET Message]]
  /\ sel \in [Proc -> Message \union {None}]
  /\ disp \in [Proc -> Disposition]

Init ==
  /\ progress = EmptyProgress /\ orphans = {}
  /\ owner = [r \in Roots |-> None] /\ inner = [r \in Roots |-> None]
  /\ feed = NoCursors /\ stopFile = FALSE
  /\ status = Quiet
  /\ local = {} /\ remote = {} /\ inflight = {}
  /\ runs = [m \in Message |-> 0] /\ memory = [m \in Message |-> "none"]
  /\ faults = 0
  /\ plan = [o \in Operators |-> None]
  /\ pc = [p \in Proc |-> "ready"]
  /\ base = [p \in Proc |-> EmptyProgress]
  /\ unread = [p \in Proc |-> {}]
  /\ tips = [p \in Proc |-> NoCursors]
  /\ sel = [p \in Proc |-> None]
  /\ disp = [p \in Proc |-> "unseen"]

-----------------------------------------------------------------------------
(* Building blocks *)

Fault == faults < MaxFaults /\ faults' = faults + 1

(* try_acquire_execution finds the lock held; _Ignored takes the refusal of  *)
(* the operating system for an acquisition.                                  *)
Contended_Ignored(holder) == FALSE
Contended(holder) == holder # None

Go(p, phase) == pc' = [pc EXCEPT ![p] = phase]

(* Release of the Instance lock in the "finally" after the handler. *)
Dismiss(p) == inner' = [inner EXCEPT ![Root[p]] = IF @ = p THEN None ELSE @]

(* The process ends: both locks are free and what it held in memory is gone. *)
Leave(p) ==
  /\ owner' = [owner EXCEPT ![Root[p]] = IF @ = p THEN None ELSE @]
  /\ Dismiss(p)
  /\ pc' = [pc EXCEPT ![p] = "ready"]
  /\ base' = [base EXCEPT ![p] = EmptyProgress]
  /\ unread' = [unread EXCEPT ![p] = {}]
  /\ tips' = [tips EXCEPT ![p] = NoCursors]
  /\ sel' = [sel EXCEPT ![p] = None]
  /\ disp' = [disp EXCEPT ![p] = "unseen"]

(* An early return: persist_cycle_status, which may raise, then the "finally"*)
(* blocks.                                                                   *)
LeaveQuietly(p) == Leave(p) /\ status' \in {status, Quiet}

(* ReaderProgressStore.save: attach commit c if the ref is at its parent;  *)
(* _Unconditionally does not compare.                                      *)
IsChild(c) == c.ver = progress.ver + 1
Saved_Unconditionally(c) == progress' = c
Saved(c) == IsChild(c) /\ progress' = c

(* save raises: the ref had moved, git failed before it committed, or git  *)
(* committed and the confirmation was lost.                                *)
SaveRaised(c) ==
  \/ ~IsChild(c) /\ UNCHANGED <<progress, faults>>
  \/ Fault /\ UNCHANGED progress
  \/ Fault /\ Saved(c)

(* The disposition of a message that no handler is called for.              *)
Preset(m) ==
  IF Kind[m] = "stop" THEN IF AllowStop THEN "stopped" ELSE "failed"
  ELSE IF m \in Routed THEN "unseen" ELSE "failed"

(* _AfterCursor looks only at messages the recorded cursors do not cover.    *)
Candidates_AfterCursor(p) ==
  {m \in UNION {tips[p][s] \ base[p].cursors[s] : s \in Source} :
     Kind[m] # "other" /\ base[p].tasks[m] = "unseen"}
Candidates(p) ==
  {m \in UNION {tips[p][s] : s \in Source} :
     Kind[m] # "other" /\ base[p].tasks[m] = "unseen"}

(* The commit each saving phase is about to attach. *)
IdleProgress(p)       == WithCursors(base[p], tips[p])
ClaimedProgress(p)    == WithTask(base[p], tips[p], sel[p], "claimed")
FinalProgress(p)      == WithTask(base[p], base[p].cursors, sel[p], disp[p])
ReconciledProgress(o) == WithReconciliation(base[o], plan[o])
Pending(p) ==
  CASE pc[p] = "idle"   -> {IdleProgress(p)}
    [] pc[p] = "claim"  -> {ClaimedProgress(p)}
    [] pc[p] = "finish" -> {FinalProgress(p)}
    [] pc[p] = "rSave"  -> {ReconciledProgress(p)}
    [] OTHER            -> {}

(* run_work_cycle_tick up to the progress load *)

TickStart(p) ==
  /\ pc[p] = "ready" /\ ~Contended(owner[Root[p]])
  /\ owner' = [owner EXCEPT ![Root[p]] = p]
  /\ Go(p, "owned")
  /\ UNCHANGED <<refs, inner, world, status, outbox, tasksv, faults, plan,
                 base, unread, tips, sel, disp>>

(* The status is written without any lock. *)
TickBusy(p) ==
  /\ pc[p] = "ready" /\ Contended(owner[Root[p]])
  /\ status' \in {status, Quiet}
  /\ UNCHANGED <<refs, locks, world, outbox, tasksv, faults, plan, held>>

(* The stop file exists, or an execution of the Instance is running.        *)
TickDeclined(p) ==
  /\ pc[p] = "owned"
  /\ stopFile \/ Contended(inner[Root[p]])
  /\ LeaveQuietly(p)
  /\ UNCHANGED <<refs, world, outbox, tasksv, faults, plan>>

TickAdmitted(p) ==
  /\ pc[p] = "owned" /\ ~stopFile /\ ~Contended(inner[Root[p]])
  /\ inner' = [inner EXCEPT ![Root[p]] = p]
  /\ Go(p, "load")
  /\ UNCHANGED <<refs, owner, world, status, outbox, tasksv, faults, plan,
                 base, unread, tips, sel, disp>>

(* A barrier ends the tick: the status will name it and what was read of it. *)
LoadHalts(p) ==
  /\ pc[p] = "load"
  /\ \E m \in Barriers(progress.tasks) :
       /\ sel' = [sel EXCEPT ![p] = m]
       /\ disp' = [disp EXCEPT ![p] = progress.tasks[m]]
  /\ Go(p, "halt")
  /\ UNCHANGED <<refs, locks, world, status, outbox, tasksv, faults, plan,
                 base, unread, tips>>

(* A claimed task is reported as unresolved too; only the code tells.        *)
HaltStatus(p) ==
  Naming(CASE disp[p] = "stopped"    -> "stopped_halt"
           [] disp[p] = "unresolved" -> "unresolved_halt"
           [] OTHER                  -> "claimed_unresolved",
         sel[p], IF disp[p] = "stopped" THEN "stopped" ELSE "unresolved", None)
Halt(p) ==
  /\ pc[p] = "halt"
  /\ status' \in {status, HaltStatus(p)}
  /\ Leave(p)
  /\ UNCHANGED <<refs, world, outbox, tasksv, faults, plan>>

(* The policy's maximum is reached. *)
LoadExhausted(p) ==
  /\ pc[p] = "load"
  /\ Barriers(progress.tasks) = {} /\ ~HasBudget(progress.tasks)
  /\ LeaveQuietly(p)
  /\ UNCHANGED <<refs, world, outbox, tasksv, faults, plan>>

(* _PastClaims takes a claim no tick is working on for no barrier. *)
Load_PastClaims(p) ==
  /\ pc[p] = "load"
  /\ \A m \in Message : progress.tasks[m] \notin {"unresolved", "stopped"}
  /\ HasBudget(progress.tasks)
  /\ base' = [base EXCEPT ![p] = progress]
  /\ unread' = [unread EXCEPT ![p] = Source]
  /\ Go(p, "read")
  /\ UNCHANGED <<refs, locks, world, status, outbox, tasksv, faults, plan,
                 tips, sel, disp>>
Load(p) ==
  /\ pc[p] = "load"
  /\ Barriers(progress.tasks) = {} /\ HasBudget(progress.tasks)
  /\ base' = [base EXCEPT ![p] = progress]
  /\ unread' = [unread EXCEPT ![p] = Source]
  /\ Go(p, "read")
  /\ UNCHANGED <<refs, locks, world, status, outbox, tasksv, faults, plan,
                 tips, sel, disp>>

-----------------------------------------------------------------------------
(* Reading the peers and choosing one message *)

(* Each source is inspected and fetched on its own; the order is the one of *)
(* the configuration file, about which nothing is assumed.                  *)
ReadSource(p, s) ==
  /\ pc[p] = "read" /\ s \in unread[p]
  /\ unread' = [unread EXCEPT ![p] = @ \ {s}]
  /\ tips' = [tips EXCEPT ![p][s] = feed[s]]
  /\ UNCHANGED <<refs, locks, world, status, outbox, tasksv, faults, plan,
                 pc, base, sel, disp>>

(* CycleError or MessageError while loading or reading. *)
ReadFails(p) ==
  /\ pc[p] \in {"load", "read"} /\ Fault
  /\ LeaveQuietly(p)
  /\ UNCHANGED <<refs, world, outbox, tasksv, plan>>

AllRead(p) == pc[p] = "read" /\ unread[p] = {}

(* Nothing to do: new cursors are saved, unchanged ones are not. *)
NothingNew(p) == base[p].ver # 0 /\ tips[p] = base[p].cursors

TickIdle(p) ==
  /\ AllRead(p) /\ Candidates(p) = {} /\ NothingNew(p)
  /\ LeaveQuietly(p)
  /\ UNCHANGED <<refs, world, outbox, tasksv, faults, plan>>

TickNotesCursors(p) ==
  /\ AllRead(p) /\ Candidates(p) = {} /\ ~NothingNew(p)
  /\ Go(p, "idle")
  /\ UNCHANGED <<refs, locks, world, status, outbox, tasksv, faults, plan,
                 base, unread, tips, sel, disp>>

SaveCursors(p) ==
  /\ pc[p] = "idle"
  /\ \/ Saved(IdleProgress(p)) /\ UNCHANGED faults
     \/ SaveRaised(IdleProgress(p))
  /\ LeaveQuietly(p)
  /\ UNCHANGED <<orphans, world, outbox, tasksv, plan>>

(* The oldest candidate; _Newest sorts the other way. *)
Select_Newest(p) ==
  /\ AllRead(p)
  /\ \E m \in Candidates(p) :
       /\ \A n \in Candidates(p) : Rank[n] =< Rank[m]
       /\ sel' = [sel EXCEPT ![p] = m]
       /\ disp' = [disp EXCEPT ![p] = Preset(m)]
  /\ Go(p, "claim")
  /\ UNCHANGED <<refs, locks, world, status, outbox, tasksv, faults, plan,
                 base, unread, tips>>
Select(p) ==
  /\ AllRead(p)
  /\ \E m \in Candidates(p) :
       /\ \A n \in Candidates(p) : Rank[m] =< Rank[n]
       /\ sel' = [sel EXCEPT ![p] = m]
       /\ disp' = [disp EXCEPT ![p] = Preset(m)]
  /\ Go(p, "claim")
  /\ UNCHANGED <<refs, locks, world, status, outbox, tasksv, faults, plan,
                 base, unread, tips>>

-----------------------------------------------------------------------------
(* Claim, handler, memory checkpoint *)

Claim(p) ==
  /\ pc[p] = "claim" /\ Saved(ClaimedProgress(p))
  /\ base' = [base EXCEPT ![p] = ClaimedProgress(p)]
  /\ IF disp[p] = "unseen"
       THEN Go(p, "dispatch") /\ UNCHANGED inner
       ELSE Go(p, "append") /\ Dismiss(p)
  /\ UNCHANGED <<orphans, owner, world, status, outbox, tasksv, faults, plan,
                 unread, tips, sel, disp>>

ClaimFails(p) ==
  /\ pc[p] = "claim" /\ SaveRaised(ClaimedProgress(p))
  /\ LeaveQuietly(p)
  /\ UNCHANGED <<orphans, world, outbox, tasksv, plan>>

Dispatch(p) ==
  /\ pc[p] = "dispatch"
  /\ runs' = [runs EXCEPT ![sel[p]] = @ + 1]
  /\ Go(p, "running")
  /\ UNCHANGED <<refs, locks, world, status, outbox, memory, faults, plan,
                 base, unread, tips, sel, disp>>

(* The handler returns a result, or raises: then it is unresolved and has  *)
(* no memory items.  The Instance lock is released either way.             *)
HandlerReturns(p, d) ==
  /\ pc[p] = "running"
  /\ disp' = [disp EXCEPT ![p] = d]
  /\ \/ Go(p, "append") /\ UNCHANGED memory
     \/ /\ sel[p] \in Remembering
        /\ Go(p, "checkpoint")
        /\ memory' = [memory EXCEPT ![sel[p]] = "due"]
  /\ Dismiss(p)
  /\ UNCHANGED <<refs, owner, world, status, outbox, runs, faults, plan,
                 base, unread, tips, sel>>

Checkpoint(p) ==
  /\ pc[p] = "checkpoint"
  /\ memory' = [memory EXCEPT ![sel[p]] = "kept"]
  /\ Go(p, "append")
  /\ UNCHANGED <<refs, locks, world, status, outbox, runs, faults, plan,
                 base, unread, tips, sel, disp>>

(* The checkpoint raises, whether or not it took effect. *)
CheckpointFails(p) ==
  /\ pc[p] = "checkpoint" /\ Fault
  /\ disp' = [disp EXCEPT ![p] = "unresolved"]
  /\ \/ UNCHANGED memory
     \/ memory' = [memory EXCEPT ![sel[p]] = "kept"]
  /\ Go(p, "append")
  /\ UNCHANGED <<refs, locks, world, status, outbox, runs, plan,
                 base, unread, tips, sel>>

-----------------------------------------------------------------------------
(* Reply, terminal progress, status *)

ReplyOf(p) == [msg |-> sel[p], disp |-> disp[p]]

(* append_and_publish_owned_message up to the local append. *)
AppendReply(p) ==
  /\ pc[p] = "append" /\ local = remote
  /\ local' = local \union {ReplyOf(p)}
  /\ Go(p, "push")
  /\ UNCHANGED <<refs, locks, world, status, remote, inflight, tasksv, faults,
                 plan, base, unread, tips, sel, disp>>

(* The local ref is not what the destination has, or the append raised: the *)
(* publisher was busy, the destination unreachable, the ref not moved or    *)
(* moved without a confirmation.                                            *)
ReplyRefused(p) ==
  /\ pc[p] = "append"
  /\ \/ local # remote /\ UNCHANGED <<local, faults>>
     \/ Fault /\ UNCHANGED local
     \/ Fault /\ local = remote /\ local' = local \union {ReplyOf(p)}
  /\ disp' = [disp EXCEPT ![p] = "unresolved"]
  /\ Go(p, "finish")
  /\ UNCHANGED <<refs, locks, world, status, remote, inflight, tasksv, plan,
                 base, unread, tips, sel>>

PushReply(p) ==
  /\ pc[p] = "push"
  /\ remote' = remote \union {ReplyOf(p)}
  /\ Go(p, "finish")
  /\ UNCHANGED <<refs, locks, world, status, local, inflight, tasksv, faults,
                 plan, base, unread, tips, sel, disp>>

(* publish_message does not verify the push: it did not land, it did and    *)
(* that was not seen, or it may land later.  _Trusted keeps the disposition.*)
PushUnverified_Trusted(p) ==
  /\ pc[p] = "push" /\ Fault
  /\ Go(p, "finish")
  /\ UNCHANGED <<refs, locks, world, status, outbox, tasksv, plan,
                 base, unread, tips, sel, disp>>
PushUnverified(p) ==
  /\ pc[p] = "push" /\ Fault
  /\ \/ UNCHANGED <<remote, inflight>>
     \/ remote' = remote \union {ReplyOf(p)} /\ UNCHANGED inflight
     \/ inflight' = inflight \union {ReplyOf(p)} /\ UNCHANGED remote
  /\ disp' = [disp EXCEPT ![p] = "unresolved"]
  /\ Go(p, "finish")
  /\ UNCHANGED <<refs, locks, world, status, local, tasksv, plan,
                 base, unread, tips, sel>>

Finish(p) ==
  /\ pc[p] = "finish" /\ Saved(FinalProgress(p))
  /\ Go(p, "report")
  /\ UNCHANGED <<orphans, locks, world, status, outbox, tasksv, faults, plan,
                 base, unread, tips, sel, disp>>

(* _Unnoticed reports the disposition the save was to record. *)
FinishFails_Unnoticed(p) ==
  /\ pc[p] = "finish" /\ SaveRaised(FinalProgress(p))
  /\ Go(p, "report")
  /\ UNCHANGED <<orphans, locks, world, status, outbox, tasksv, plan,
                 base, unread, tips, sel, disp>>
FinishFails(p) ==
  /\ pc[p] = "finish" /\ SaveRaised(FinalProgress(p))
  /\ Go(p, "unsaved")
  /\ UNCHANGED <<orphans, locks, world, status, outbox, tasksv, plan,
                 base, unread, tips, sel, disp>>

(* After a failed terminal save the status says unresolved, whatever became  *)
(* of the ref, and keeps the disposition that was to be recorded.            *)
TerminalStatus(p) ==
  IF pc[p] = "report"
    THEN Naming(disp[p], sel[p], disp[p], None)
    ELSE Naming("terminal_progress_persist_failed", sel[p], "unresolved", disp[p])

(* _persist_terminal_status, which swallows an OSError, and the end. *)
Report(p) ==
  /\ pc[p] \in {"report", "unsaved"}
  /\ \/ status' = TerminalStatus(p) /\ UNCHANGED faults
     \/ Fault /\ UNCHANGED status
  /\ Leave(p)
  /\ UNCHANGED <<refs, world, outbox, tasksv, plan>>

-----------------------------------------------------------------------------
(* Reconciliation by an operator *)

(* The operator reviews an unresolved task and writes it down, with the     *)
(* exact progress commit; a reconciliation of anything else is refused when *)
(* it is constructed.                                                       *)
Review(o, m) ==
  /\ pc[o] = "ready" /\ progress.tasks[m] = "unresolved"
  /\ plan' = [plan EXCEPT ![o] = [ver |-> progress.ver, msg |-> m]]
  /\ UNCHANGED <<refs, locks, world, status, outbox, tasksv, faults, held>>

(* A busy owner lock is reported and changes nothing. *)
ReconcileStart(o) ==
  /\ pc[o] = "ready" /\ plan[o] # None /\ ~Contended(owner[Root[o]])
  /\ owner' = [owner EXCEPT ![Root[o]] = o]
  /\ Go(o, "rOwned")
  /\ UNCHANGED <<refs, inner, world, status, outbox, tasksv, faults, plan,
                 base, unread, tips, sel, disp>>

ReconcileAdmitted(o) ==
  /\ pc[o] = "rOwned" /\ ~stopFile /\ ~Contended(inner[Root[o]])
  /\ inner' = [inner EXCEPT ![Root[o]] = o]
  /\ Go(o, "rCheck")
  /\ UNCHANGED <<refs, owner, world, status, outbox, tasksv, faults, plan,
                 base, unread, tips, sel, disp>>

(* Busy, stopped, already applied, conflicting, or not what was reviewed;   *)
(* or the evidence does not support it.                                     *)
ReconcileDeclined(o) ==
  /\ \/ pc[o] = "rOwned" /\ (stopFile \/ Contended(inner[Root[o]]))
     \/ pc[o] = "rCheck"
  /\ Leave(o)
  /\ UNCHANGED <<refs, world, status, outbox, tasksv, faults, plan>>

ReconcileAccepted(o) ==
  /\ pc[o] = "rCheck"
  /\ plan[o] \notin progress.recon
  /\ progress.ver = plan[o].ver
  /\ Barriers(progress.tasks) = {plan[o].msg}
  /\ progress.tasks[plan[o].msg] = "unresolved"
  /\ base' = [base EXCEPT ![o] = progress]
  /\ Go(o, "rSave")
  /\ UNCHANGED <<refs, locks, world, status, outbox, tasksv, faults, plan,
                 unread, tips, sel, disp>>

ReconcileSave(o) ==
  /\ pc[o] = "rSave"
  /\ \/ Saved(ReconciledProgress(o)) /\ UNCHANGED faults
     \/ SaveRaised(ReconciledProgress(o))
  /\ Leave(o)
  /\ UNCHANGED <<orphans, world, status, outbox, tasksv, plan>>

-----------------------------------------------------------------------------
(* Faults and the environment *)

(* An exception the tick does not catch: git timing out while progress or a  *)
(* peer's history is read (ProvenanceError) or before the reply is appended, *)
(* where building the reply may fail too.  The "finally" blocks run; there   *)
(* is no status.                                                             *)
TickRaises(p) ==
  /\ pc[p] \in {"load", "read", "append"} /\ Fault
  /\ Leave(p)
  /\ UNCHANGED <<refs, world, status, outbox, tasksv, plan>>

(* The process dies and the operating system frees its locks.  A git child   *)
(* it had started may still attach its commit, a push may still land.        *)
Crash(p) ==
  /\ MayDie /\ pc[p] # "ready" /\ Fault
  /\ orphans' \in {orphans, orphans \union Pending(p)}
  /\ IF pc[p] = "push"
       THEN inflight' \in {inflight, inflight \union {ReplyOf(p)}}
       ELSE UNCHANGED inflight
  /\ Leave(p)
  /\ UNCHANGED <<progress, world, status, local, remote, tasksv, plan>>

OrphanLands(c) ==
  /\ c \in orphans /\ Saved(c)
  /\ orphans' = orphans \ {c}
  /\ UNCHANGED <<locks, world, status, outbox, tasksv, faults, plan, held>>

PushLands(r) ==
  /\ r \in inflight
  /\ inflight' = inflight \ {r} /\ remote' = remote \union {r}
  /\ UNCHANGED <<refs, locks, world, status, local, tasksv, faults, plan, held>>

(* A direct execution of the Instance takes and releases the same lock. *)
OtherAdmitted(r) ==
  /\ r \in OutsideRoots /\ ~Contended(inner[r])
  /\ inner' = [inner EXCEPT ![r] = Other]
  /\ UNCHANGED <<refs, owner, world, status, outbox, tasksv, faults, plan, held>>

OtherReleases(r) ==
  /\ inner[r] = Other
  /\ inner' = [inner EXCEPT ![r] = None]
  /\ UNCHANGED <<refs, owner, world, status, outbox, tasksv, faults, plan, held>>

(* A peer appends a message; one message may appear in several sources. *)
Arrive(s, m) ==
  /\ m \notin feed[s]
  /\ feed' = [feed EXCEPT ![s] = @ \union {m}]
  /\ UNCHANGED <<refs, locks, stopFile, status, outbox, tasksv, faults, plan, held>>

(* A peer ref is replaced by another history: what was read is not what a   *)
(* later tick reads.                                                        *)
Rewrite(s, ms) ==
  /\ Fault /\ ms # feed[s]
  /\ feed' = [feed EXCEPT ![s] = ms]
  /\ UNCHANGED <<refs, locks, stopFile, status, outbox, tasksv, plan, held>>

ToggleStop ==
  /\ MayStop
  /\ stopFile' = ~stopFile
  /\ UNCHANGED <<refs, locks, feed, status, outbox, tasksv, faults, plan, held>>

-----------------------------------------------------------------------------

(* What tick p does once it owns the cycle, when nothing fails. *)
TickStep(p) ==
  \/ TickStart(p) \/ TickDeclined(p) \/ TickAdmitted(p)
  \/ LoadHalts(p) \/ Halt(p) \/ LoadExhausted(p) \/ Load(p)
  \/ \E s \in Source : ReadSource(p, s)
  \/ TickIdle(p) \/ TickNotesCursors(p) \/ SaveCursors(p) \/ Select(p)
  \/ Claim(p) \/ Dispatch(p)
  \/ \E d \in FinalDisposition : HandlerReturns(p, d)
  \/ Checkpoint(p) \/ AppendReply(p) \/ PushReply(p) \/ Finish(p) \/ Report(p)

(* What can go wrong in tick p short of its end. *)
TickFailure(p) ==
  \/ ReadFails(p) \/ ClaimFails(p) \/ CheckpointFails(p) \/ ReplyRefused(p)
  \/ PushUnverified(p) \/ FinishFails(p) \/ TickRaises(p)

OperatorStep(o) ==
  \/ \E m \in Message : Review(o, m)
  \/ ReconcileStart(o) \/ ReconcileAdmitted(o) \/ ReconcileDeclined(o)
  \/ ReconcileAccepted(o) \/ ReconcileSave(o)

Environment ==
  \/ \E p \in Proc : Crash(p)
  \/ \E c \in orphans : OrphanLands(c)
  \/ \E r \in inflight : PushLands(r)
  \/ \E r \in Roots : OtherAdmitted(r) \/ OtherReleases(r)
  \/ \E s \in Source, m \in Message : Arrive(s, m)
  \/ \E s \in Source, ms \in SUBSET Message : Rewrite(s, ms)
  \/ ToggleStop

Next ==
  \/ \E p \in Ticks : TickBusy(p) \/ TickStep(p) \/ TickFailure(p)
  \/ \E o \in Operators : OperatorStep(o)
  \/ Environment

Spec == Init /\ [][Next]_vars

(* A scheduler keeps starting ticks, and a tick does not hang: git calls and *)
(* pushes have timeouts, locks are never waited for, handlers return.        *)
(* Peers, operators and direct executions owe nothing.                       *)
FairSpec == Spec /\ \A p \in Ticks : WF_vars(TickStep(p) \/ TickFailure(p))

-----------------------------------------------------------------------------
(* Safety *)

Ledger == INSTANCE TaskLedger WITH tasks <- progress.tasks

(* The ledger of messages is kept whatever ticks, operators, crashes, lost   *)
(* confirmations and late git children do to the progress ref.               *)
LedgerKept == Ledger!Spec

(* No message reaches a handler twice, and one that did is on record.        *)
AtMostOnce ==
  \A m \in Message : runs[m] =< 1 /\ (runs[m] = 1 => progress.tasks[m] # "unseen")

(* At most one message bars the way (the halt status reports one), and the   *)
(* policy's maximum counts it.                                               *)
SoleBarrier ==
  /\ Cardinality(Barriers(progress.tasks)) =< 1
  /\ Cardinality(Barriers(progress.tasks) \union Completed(progress.tasks))
       =< MaxCompleted

(* A task the cycle closed has its reply at the destination and the memory   *)
(* its handler asked for; one an operator closed need not have either.       *)
ClosedByOperator(m) == \E r \in progress.recon : r.msg = m
ClosedWithEvidence ==
  \A m \in Message :
    progress.tasks[m] \in {"completed", "failed", "stopped"} =>
      \/ ClosedByOperator(m)
      \/ /\ [msg |-> m, disp |-> progress.tasks[m]] \in remote
         /\ memory[m] # "due"

(* A peer never finds two replies with different verdicts to one message.    *)
OneVerdict ==
  \A a, b \in remote \union inflight : a.msg = b.msg => a = b

(* What the progress ref, the outbound log and the memory say of a task goes *)
(* together.                                                                 *)
CycleInv == SoleBarrier /\ ClosedWithEvidence /\ OneVerdict

(* Disposition d was recorded for m; an operator may have closed it since.   *)
Recorded(m, d) ==
  progress.tasks[m] = d \/ (d = "unresolved" /\ progress.tasks[m] = "failed")

(* What the status file says of the task it names, the progress ref bears    *)
(* out whenever it is read, however late it was written: a disposition it    *)
(* reports was recorded; a claim it reports was made; and after a terminal   *)
(* save that failed the task is still claimed or has the original            *)
(* disposition, nothing else.                                                *)
StatusTruthful ==
  status.msg # None =>
    CASE status.code = "claimed_unresolved" ->
           progress.tasks[status.msg] # "unseen"
      [] status.code = "terminal_progress_persist_failed" ->
           \/ progress.tasks[status.msg] = "claimed"
           \/ Recorded(status.msg, status.original)
      [] OTHER -> Recorded(status.msg, status.disposition)

(* While a message is claimed no older unhandled message was in what the     *)
(* claiming tick had read.                                                   *)
OldestClaimed ==
  \A m, n \in Message :
    progress.tasks[m] = "claimed" /\ progress.tasks[n] = "unseen"
      /\ Kind[n] # "other" /\ (\E s \in Source : n \in progress.cursors[s])
    => Rank[m] < Rank[n]

(* The owner lock of a runtime root keeps the other commands of that root    *)
(* off the progress ref: under a process that has loaded it, it is moved by  *)
(* that process, by a command of another root, or by a git child that        *)
(* outlived an earlier owner.                                                *)
Working == {"read", "idle", "claim", "dispatch", "running", "checkpoint",
            "append", "push", "finish", "rSave"}
NoRivalSave ==
  [][\A p \in Proc : pc[p] \in Working /\ progress' # progress =>
       \/ \E q \in Proc : (q = p \/ Root[q] # Root[p]) /\ pc'[q] # pc[q]
       \/ orphans' # orphans]_vars

-----------------------------------------------------------------------------
(* Liveness *)

(* A message for this Instance is taken up, unless it is withdrawn, the      *)
(* cycle has a reason to halt, or direct executions of the Instance never    *)
(* end or come in again and again; so no tick waits for what another holds.  *)
Halted == stopFile \/ Barriers(progress.tasks) # {} \/ ~HasBudget(progress.tasks)
EventuallyTaken ==
  <>[](\A r \in Roots : inner[r] # Other) =>
    \A m \in Message, s \in Source :
      Kind[m] # "other" =>
        []<>(progress.tasks[m] # "unseen" \/ Halted \/ m \notin feed[s])
=============================================================================
