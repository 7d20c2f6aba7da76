--------------------------- MODULE OwnedExecution ---------------------------
(***************************************************************************)
(* The read-only executions of one Instance: admission under its lock,     *)
(* the attempt's evidence, the version and the answer of a Codex child in  *)
(* a workspace of its own, and the terminal evidence                       *)
(* (src/peoplebot/provenance.py, run_with_execution_provenance;            *)
(* src/peoplebot/adapters/codex_read_only.py and project_review.py;        *)
(* src/peoplebot/admission.py).  Each execution is called by a process of  *)
(* its own, which may be killed at any step, and may be called again.      *)
(***************************************************************************)
EXTENDS OwnedProcess, CodexEvents, AdapterAnswers

CONSTANTS
  Adapter,                 \* Adapter[e]: "licensing" or "review"
  Documents,               \* the States of the context that was assembled
  VersionLine,             \* what the adopted runtime answers to --version
  VersionPlans, AnswerPlans,  \* per execution: what its children may be about to write
  MaxStdout, MaxStderr,    \* the adopted output limits
  MaxRetries, MaxKills

ASSUME ExecutionAssumption ==
  /\ None \notin Execution \union {"start", "rejected", "completed", "failed"}
  /\ MaxStdout \in 0 .. StdoutCap /\ MaxStderr \in 0 .. StderrCap
  /\ MaxRetries \in [Execution -> Nat] /\ MaxKills \in [Execution -> Nat]

(* A child writes lines to the one stream, and counted bytes to the other.   *)
ASSUME PlanAssumption ==
  \A e \in Execution : \A plan \in VersionPlans[e] \union AnswerPlans[e] :
    plan.stdout \in Seq(ToSet(plan.stdout)) /\ plan.stderr \in Nat

(* The findings of a review are an array, the citations of each are one, and  *)
(* a licensing task has a context.                                            *)
ASSUME AnswerAssumption ==
  \A e \in Execution :
    IF Adapter[e] = "licensing" THEN 1 \in DOMAIN Documents
    ELSE \A plan \in AnswerPlans[e] : \A i \in Messages(plan.stdout) :
           LET findings == plan.stdout[i].answer.findings
           IN /\ findings \in Seq(ToSet(findings))
              /\ \A n \in DOMAIN findings :
                   findings[n].citations \in Seq(ToSet(findings[n].citations))

VARIABLES
  lock,      \* the execution whose process holds the Instance's lock, or None
  attempt,   \* attempt[e]: what the isolated ref of the attempt holds
  space,     \* space[e]: the workspace of the last call
  call,      \* call[e]: the calling process
  told,      \* told[e]: what the last admitted call returned
  orphan,    \* executions whose process was killed while their child ran
  retries, tasks, kills \* calls that find the attempt recorded, tasks begun, processes killed

vars == <<procVars, lock, attempt, space, call, told, orphan, retries, tasks, kills>>
ledgerVars == <<lock, attempt, space, told, orphan, retries, tasks, kills>>

-----------------------------------------------------------------------------
NoObservation == [code |-> None, started |-> FALSE, remnant |-> FALSE]
Told(how, remnant, persisted) == [how |-> how, remnant |-> remnant, persisted |-> persisted]
Untold == Told("nothing", FALSE, None)
Idle == [pc |-> "idle", seen |-> NoObservation, persisted |-> None]

Init ==
  /\ ProcInit
  /\ lock = None
  /\ attempt = [e \in Execution |-> None]
  /\ space = [e \in Execution |-> "none"]
  /\ call = [e \in Execution |-> Idle]
  /\ told = [e \in Execution |-> Untold]
  /\ orphan = {}
  /\ retries = [e \in Execution |-> 0] /\ tasks = [e \in Execution |-> 0] /\ kills = [e \in Execution |-> 0]

At(e, pc) == call[e].pc = pc
To(e, pc) == call' = [call EXCEPT ![e].pc = pc]
Observes(e, code, started, pc) ==
  call' = [call EXCEPT ![e].pc = pc, ![e].seen = [code |-> code, started |-> started, remnant |-> FALSE]]
NoResult(e) == run' = [run EXCEPT ![e] = NoRun]

(* An update of the attempt's ref from one value to another, in a prepared   *)
(* transaction: it succeeds, or fails before or after it has taken effect.   *)
UpdateRef_Blind(e, expected, value, outcome) ==
  attempt' = [attempt EXCEPT ![e] = IF outcome # "failed" THEN value ELSE @]
UpdateRef(e, expected, value, outcome) ==
  /\ outcome # "failed" => attempt[e] = expected
  /\ attempt' = [attempt EXCEPT ![e] = IF outcome # "failed" THEN value ELSE @]
Outcomes == {"done", "unconfirmed", "failed"}
PersistAttempt(e, phase, outcome) == UpdateRef(e, None, phase, outcome)
PersistRecord(e, status, outcome) == UpdateRef(e, "start", status, outcome)

-----------------------------------------------------------------------------
(* try_acquire_execution; then the evidence of the attempt.  (The results    *)
(* and workspaces of calls that are over are compared until the next call.)  *)
Acquire(e) ==
  /\ At(e, "idle") /\ e \notin orphan
  /\ attempt[e] # None => retries[e] < MaxRetries[e]
  /\ retries' = [retries EXCEPT ![e] = IF attempt[e] = None THEN @ ELSE @ + 1]
  /\ told' = [f \in Execution |-> Untold]
  /\ IF lock = None THEN lock' = e /\ To(e, "attempting") ELSE To(e, "rejecting") /\ UNCHANGED lock
  /\ space' = [f \in Execution |-> IF At(f, "idle") THEN "none" ELSE space[f]]
  /\ UNCHANGED <<procVars, attempt, orphan, tasks, kills>>

PersistRejection(e) ==
  /\ At(e, "rejecting")
  /\ \E outcome \in Outcomes : PersistAttempt(e, "rejected", outcome)
  /\ To(e, "idle")
  /\ UNCHANGED <<procVars, lock, space, told, orphan, retries, tasks, kills>>

PersistStart(e) ==
  /\ At(e, "attempting")
  /\ \E outcome \in Outcomes :
       /\ PersistAttempt(e, "start", outcome)
       /\ To(e, IF outcome = "done" THEN "prompting" ELSE "releasing")
       /\ tasks' = [tasks EXCEPT ![e] = IF outcome = "done" THEN @ + 1 ELSE @]
  /\ UNCHANGED <<procVars, lock, space, told, orphan, retries, kills>>

(* The task: a prompt within its limit, and a child that names the adopted   *)
(* version.                                                                  *)
CheckPrompt(e) ==
  /\ At(e, "prompting")
  /\ \/ Observes(e, "input_limit_exceeded", FALSE, "recording") /\ UNCHANGED procVars
     \/ To(e, "version") /\ \E plan \in VersionPlans[e] : Launch(e, plan)
  /\ UNCHANGED ledgerVars

VersionMatches(out) == ~out.over /\ out.code = 0 /\ out.stdout = <<VersionLine>>

(* A task that raises an exception has no observation to record.             *)
TaskRaises(e) == To(e, "recording")

CheckVersion(e) ==
  /\ At(e, "version") /\ RunAt(e, "returned")
  /\ CASE run[e].res = "unresolved" -> To(e, "unresolved") /\ UNCHANGED run
       [] run[e].res = "setup"      -> TaskRaises(e) /\ NoResult(e)
       [] run[e].res = "interrupt"  -> To(e, "releasing") /\ NoResult(e)
       [] run[e].res \in {"timeout", "io", "not_launched"} ->
            Observes(e, "runtime_unavailable", FALSE, "recording") /\ NoResult(e)
       [] run[e].res = "completed" /\ ~VersionMatches(Completed(e)) ->
            Observes(e, "runtime_mismatch", FALSE, "recording") /\ NoResult(e)
       [] OTHER -> To(e, "preparing") /\ NoResult(e)
  /\ UNCHANGED <<child, pipe, ledgerVars>>

(* The invocation workspace is made, or the task raises; the response schema *)
(* is written there and the child launched, or neither.                      *)
MakeWorkspace(e) ==
  /\ At(e, "preparing")
  /\ \/ space' = [space EXCEPT ![e] = "present"] /\ To(e, "launching")
     \/ UNCHANGED space /\ TaskRaises(e)
  /\ UNCHANGED <<procVars, lock, attempt, told, orphan, retries, tasks, kills>>

LaunchAnswer(e) ==
  /\ At(e, "launching")
  /\ \E plan \in AnswerPlans[e] : Launch(e, plan)
  /\ To(e, "answering")
  /\ UNCHANGED ledgerVars

AnswerUnresolved(e) ==
  /\ At(e, "answering") /\ RunAt(e, "returned") /\ run[e].res = "unresolved"
  /\ To(e, "unresolved")
  /\ UNCHANGED <<procVars, ledgerVars>>

(* What one completed child is worth, when its workspace was removed or not. *)
OverLimit(out) == out.over \/ Len(out.stdout) > MaxStdout \/ out.stderr > MaxStderr
AnswerVerdict(e, answer) ==
  IF Adapter[e] = "licensing" THEN LicensingVerdict(answer, Documents) ELSE ReviewVerdict(answer, Documents)

Judgement_AnyExit(e, out, removed) ==
  IF OverLimit(out) THEN "output_limit_exceeded"
  ELSE IF Verdict(out.stdout) # "completed" THEN Verdict(out.stdout)
  ELSE IF ~removed THEN "workspace_cleanup_failed"
  ELSE AnswerVerdict(e, Answer(out.stdout))
Judgement(e, out, removed) ==
  IF OverLimit(out) THEN "output_limit_exceeded"
  ELSE IF out.code # 0 THEN "process_failed"
  ELSE IF Verdict(out.stdout) # "completed" THEN Verdict(out.stdout)
  ELSE IF ~removed THEN "workspace_cleanup_failed"
  ELSE AnswerVerdict(e, Answer(out.stdout))

TransportCode(e, removed) ==
  CASE run[e].res = "timeout"      -> "timeout"
    [] run[e].res = "io"           -> "io_failed"
    [] run[e].res = "setup"        -> "process_setup_failed"
    [] run[e].res = "not_launched" -> "runtime_failed"
    [] OTHER                       -> Judgement(e, Completed(e), removed)

(* The workspace is removed, or that fails and is not tried again;           *)
(* _Forgetting does not tell.                                                *)
CleanWorkspace_Forgetting(e) ==
  /\ At(e, "answering") /\ RunAt(e, "returned") /\ run[e].res # "unresolved"
  /\ \E removed \in BOOLEAN :
       /\ space' = [space EXCEPT ![e] = IF removed THEN "removed" ELSE "present"]
       /\ IF run[e].res = "interrupt"
          THEN To(e, "releasing")
          ELSE call' = [call EXCEPT ![e].pc = "recording",
                 ![e].seen = [code |-> TransportCode(e, removed), started |-> run[e].res # "not_launched",
                              remnant |-> ~removed /\ run[e].res # "not_launched"]]
  /\ NoResult(e)
  /\ UNCHANGED <<child, pipe, lock, attempt, told, orphan, retries, tasks, kills>>
CleanWorkspace(e) ==
  /\ At(e, "answering") /\ RunAt(e, "returned") /\ run[e].res # "unresolved"
  /\ \E removed \in BOOLEAN :
       /\ space' = [space EXCEPT ![e] = IF removed THEN "removed" ELSE "present"]
       /\ IF run[e].res = "interrupt"
          THEN call' = [call EXCEPT ![e].pc = "releasing", ![e].seen.remnant = ~removed]
          ELSE call' = [call EXCEPT ![e].pc = "recording",
                 ![e].seen = [code |-> TransportCode(e, removed), started |-> run[e].res # "not_launched",
                              remnant |-> ~removed]]
  /\ NoResult(e)
  /\ UNCHANGED <<child, pipe, lock, attempt, told, orphan, retries, tasks, kills>>

(* The terminal evidence of the observation: none where the task raised,     *)
(* since its artifacts need an observation.                                  *)
Terminal(code) == IF code = "completed" THEN "completed" ELSE "failed"
PersistTerminal(e) ==
  /\ At(e, "recording")
  /\ IF call[e].seen.code = None
     THEN To(e, "releasing") /\ UNCHANGED attempt
     ELSE \E outcome \in Outcomes :
            /\ PersistRecord(e, Terminal(call[e].seen.code), outcome)
            /\ call' = [call EXCEPT ![e] =
                 [Idle EXCEPT !.pc = "releasing", !.seen.remnant = call[e].seen.remnant,
                              !.persisted = IF outcome = "done" THEN Terminal(call[e].seen.code) ELSE None]]
  /\ UNCHANGED <<procVars, lock, space, told, orphan, retries, tasks, kills>>

(* The lock is given up, or kept where that fails, and the call returns: what *)
(* it knows of its child is gone.                                            *)
(* Only a child whose answer was recorded is remembered, for the properties. *)
Forget(e) ==
  /\ pipe' = [pipe EXCEPT ![e] = NoPipe]
  /\ run' = [run EXCEPT ![e] = NoRun]
  /\ child' = IF attempt[e] = "completed" \/ ~Stopped(e) THEN child ELSE [child EXCEPT ![e] = NoChild]
  /\ call' = [call EXCEPT ![e] = Idle]

Release(e) ==
  /\ At(e, "releasing")
  /\ lock' \in {lock, None}
  /\ told' = [told EXCEPT ![e] = Told("returned", call[e].seen.remnant, call[e].persisted)]
  /\ Forget(e)
  /\ UNCHANGED <<attempt, space, orphan, retries, tasks, kills>>

(* The caller of a call that could not let go of its lock tries again.       *)
ReleaseRetained(e) ==
  /\ At(e, "idle") /\ lock = e
  /\ lock' = None
  /\ UNCHANGED <<procVars, attempt, space, call, told, orphan, retries, tasks, kills>>

-----------------------------------------------------------------------------
(* A child that could not be shown to have stopped: the lock is retained     *)
(* with it, the owner may be asked to clean up again, and then the workspace *)
(* is removed; the lock is given up only when the child has stopped.         *)
Recover(e) ==
  /\ At(e, "unresolved") /\ RecoverChild(e)
  /\ UNCHANGED <<ledgerVars, call>>

RecoverWorkspace(e) ==
  /\ At(e, "unresolved") /\ RunAt(e, "returned") /\ run[e].res = "recovered" /\ ~call[e].seen.remnant
  /\ \/ space' = [space EXCEPT ![e] = IF @ = "present" THEN "removed" ELSE @] /\ UNCHANGED call
     \/ space[e] = "present" /\ call' = [call EXCEPT ![e].seen.remnant = TRUE] /\ UNCHANGED space
  /\ UNCHANGED <<procVars, lock, attempt, told, orphan, retries, tasks, kills>>

ReleaseRecovered(e) ==
  /\ At(e, "unresolved") /\ RunAt(e, "returned") /\ Stopped(e)
  /\ lock' = None
  /\ told' = [told EXCEPT ![e] =
       Told("recovered", space[e] = "present", None)]
  /\ Forget(e)
  /\ UNCHANGED <<attempt, space, orphan, retries, tasks, kills>>

(* The calling process is killed: its threads are gone, the system frees the *)
(* lock, and a child goes on without an owner.                               *)
Die(e) ==
  /\ kills[e] < MaxKills[e] /\ (~At(e, "idle") \/ lock = e)
  /\ kills' = [kills EXCEPT ![e] = @ + 1]
  /\ lock' = IF lock = e THEN None ELSE lock
  /\ orphan' = IF Running(e) THEN orphan \union {e} ELSE orphan
  /\ child' = [child EXCEPT ![e] =
       IF Running(e) THEN [NoChild EXCEPT !.st = "running"] ELSE IF attempt[e] = "completed" THEN @ ELSE NoChild]
  /\ pipe' = [pipe EXCEPT ![e] = NoPipe] /\ run' = [run EXCEPT ![e] = NoRun]
  /\ call' = [call EXCEPT ![e] = Idle] /\ told' = [told EXCEPT ![e] = Untold]
  /\ space' = [space EXCEPT ![e] = "none"]
  /\ UNCHANGED <<attempt, retries, tasks>>

-----------------------------------------------------------------------------
CallStep(e) ==
  \/ PersistRejection(e) \/ PersistStart(e) \/ CheckPrompt(e) \/ CheckVersion(e) \/ MakeWorkspace(e)
  \/ LaunchAnswer(e) \/ AnswerUnresolved(e) \/ CleanWorkspace(e) \/ PersistTerminal(e) \/ Release(e)

Owned(e) == ProcStep(e) /\ UNCHANGED <<ledgerVars, call>>

Next ==
  \E e \in Execution :
    \/ Acquire(e) \/ CallStep(e) \/ Owned(e) \/ ReleaseRetained(e)
    \/ Recover(e) \/ RecoverWorkspace(e) \/ ReleaseRecovered(e) \/ Die(e)

Spec == Init /\ [][Next]_vars

(* The calling thread goes on, and the deadlines come.  Nothing is asked of  *)
(* the child, of the threads, or of a caller who holds a retained lock.      *)
Forward(e) == CallStep(e) \/ (MainStep(e) /\ UNCHANGED <<ledgerVars, call>>)
Deadline(e) == TimePasses(e) /\ UNCHANGED <<ledgerVars, call>>
FairSpec == Spec /\ \A e \in Execution : WF_vars(Forward(e)) /\ WF_vars(Deadline(e))

-----------------------------------------------------------------------------
(* What the properties compare with: the streams and answers worth the name, *)
(* told by the sets their lines are in.                                      *)
IsMessage(l) == l.type = "item.completed" /\ l.item = "agent_message" /\ l.text
WholeStream(lines) ==
  /\ Len(lines) <= MaxEvents
  /\ \A i \in DOMAIN lines :
       /\ lines[i].json = "object"
       /\ lines[i].type \in SupportedTypes \ {"error", "turn.failed"}
       /\ lines[i].type \in ItemEvents => lines[i].item \in NonToolItems
  /\ \E i \in DOMAIN lines : {j \in DOMAIN lines : IsMessage(lines[j])} = {i}
  /\ \E i \in DOMAIN lines : {j \in DOMAIN lines : lines[j].type = "turn.completed"} = {i}
CitesContext(e, answer) ==
  LET cited == IF Adapter[e] = "licensing" THEN ToSet(answer.citation)
               ELSE UNION {ToSet(answer.findings[i].citations) : i \in DOMAIN answer.findings}
  IN cited \subseteq ToSet(Documents)

(* The type of each variable. *)
TypeOK ==
  /\ \A e \in Execution :
       /\ child[e].st \in {"none", "running", "ended"} /\ child[e].held \in BOOLEAN
       /\ child[e].stdout \in 0 .. Planned(e).stdout /\ child[e].stderr \in 0 .. Planned(e).stderr
       /\ \A s \in Reader : pipe[e][s] \in 0 .. Cap[s] + 1
       /\ run[e].late \in BOOLEAN
       /\ space[e] \in {"none", "present", "removed"}
       /\ call[e].seen.remnant \in BOOLEAN /\ told[e].remnant \in BOOLEAN
       /\ retries[e] \in 0 .. MaxRetries[e]
  /\ lock \in Execution \union {None} /\ orphan \subseteq Execution /\ kills \in [Execution -> Nat]

(* While a child that was started for an execution runs, or a thread still   *)
(* serves its pipes, the execution's process holds the Instance's lock, in    *)
(* whatever way its call has ended (provenance.py:857); only a killed         *)
(* process loses the lock before its child ends.                             *)
LockCoversChild == \A e \in Execution \ orphan : ~Stopped(e) => lock = e

(* Terminal evidence of success stands for the whole of what the child wrote: *)
(* it had ended with exit status 0, no thread was reading any more, every     *)
(* line was read and is supported, there is one message and one completed     *)
(* turn, the answer cites nothing but the context, and no workspace is left.  *)
WholeAnswer ==
  \A e \in Execution : attempt[e] = "completed" =>
    /\ Stopped(e) /\ child[e].code = 0
    /\ child[e].stdout = Len(child[e].plan.stdout)
    /\ WholeStream(child[e].plan.stdout)
    /\ \A i \in DOMAIN child[e].plan.stdout :
         IsMessage(child[e].plan.stdout[i]) => CitesContext(e, child[e].plan.stdout[i].answer)
    /\ space[e] # "present"

(* An execution's task begins at most once, however often the execution is    *)
(* called: the ref of its attempt is there for ever.                         *)
OneTask == \A e \in Execution : tasks[e] <= 1

(* When a call is over, a workspace that is left is one its result names.     *)
SpaceAccounted ==
  \A e \in Execution :
    told[e].how \in {"returned", "recovered"} => (space[e] = "present" <=> told[e].remnant)

(* A call whose result names terminal evidence has left that evidence.        *)
EvidenceTold == \A e \in Execution : told[e].persisted # None => attempt[e] = told[e].persisted

(* The results of a call, the evidence of its attempt and what is left of it  *)
(* go together.                                                              *)
CallInv == TypeOK /\ SpaceAccounted /\ EvidenceTold

(* A call always ends: with a result, or with a child it gives up to its      *)
(* caller, whatever the child and the threads do.                            *)
EveryCallEnds ==
  \A e \in Execution : []<>(At(e, "idle") \/ (At(e, "unresolved") /\ RunAt(e, "returned")))
=============================================================================
