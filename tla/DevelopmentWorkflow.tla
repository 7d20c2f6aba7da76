------------------------ MODULE DevelopmentWorkflow ------------------------
(***************************************************************************)
(* One development task (src/peoplebot/development.py): the handler that   *)
(* reserves, makes and records provider calls over one durable progress    *)
(* ref, with the implementer's adapter, which promotes a candidate.        *)
(*                                                                         *)
(* Any number of executions of DevelopmentWorkflowHandler may run over the *)
(* same progress ref, one after the other or at once; only the compare-    *)
(* and-swap of the ref is between them.  A progress commit is known by its *)
(* depth, because the ref moves only from a commit to a child of it.  A    *)
(* provider call is its ordinal, and so is the candidate it makes.         *)
(***************************************************************************)
EXTENDS Naturals

CONSTANTS
  Handler,          \* executions of the handler
  MaxInvocations,   \* maximum_invocations of the task
  MaxCorrections,   \* maximum_corrections of the task
  MaxFaults,        \* bound on faults
  None

(* DevelopmentTask.__post_init__ demands this of a task. *)
ASSUME DevelopmentAssumption ==
  /\ MaxInvocations \in Nat /\ MaxCorrections \in Nat /\ MaxFaults \in Nat
  /\ MaxInvocations >= 2 + 2 * MaxCorrections
  /\ None \notin Nat

Call == 1..MaxInvocations
Base == 0                         \* the commit the task starts from
Foreign == MaxInvocations + 1     \* a commit somebody else made
Commit == 0..Foreign

Reserved == {"implementer_reserved", "reviewer_reserved"}
Terminal == {"accepted", "findings", "failed", "unresolved"}
Stage ==
  {"imported", "candidate_ready", "correction_pending"} \union Reserved \union Terminal

Phase ==
  {"idle", "decide", "save", "record", "implement", "working", "promote", "remove",
   "review", "reviewing"}

VARIABLES
  progress,      \* what the progress ref names; depth 0 where there is none
  orphans,       \* progress commits a git child may attach after its parent
  candidateRef,  \* the candidate branch
  expired,       \* maximum_elapsed_seconds have passed
  launched,      \* launched[n]: how often the n-th call was made
  cleared,       \* candidates a reviewer had no findings on
  answers,       \* dispositions handlers returned, "unresolved" left out
  faults,        \* faults so far
  pc,            \* what each handler is at
  mine,          \* the progress it works on; its depth is that of the commit it is made from
  expected       \* what it found the candidate branch at

refs   == <<progress, orphans>>
world  == <<launched, cleared, candidateRef, expired>>
held   == <<mine, expected>>
vars   == <<refs, world, answers, faults, pc, held>>

Progress ==
  [depth : Nat, stage : Stage, reserved : 0..MaxInvocations,
   corrections : 0..MaxCorrections, candidate : Commit \union {None}]

TypeOK ==
  /\ progress \in Progress /\ orphans \subseteq Progress
  /\ candidateRef \in Commit \union {None} /\ expired \in BOOLEAN
  /\ launched \in [Call -> Nat] /\ cleared \subseteq Commit
  /\ answers \subseteq {"completed", "failed"} /\ faults \in Nat
  /\ pc \in [Handler -> Phase] /\ mine \in [Handler -> Progress]
  /\ expected \in [Handler -> Commit \union {None}]

Imported ==
  [depth |-> 0, stage |-> "imported", reserved |-> 0, corrections |-> 0,
   candidate |-> None]

Init ==
  /\ progress = Imported /\ orphans = {}
  /\ candidateRef = None /\ expired = FALSE
  /\ launched = [n \in Call |-> 0] /\ cleared = {}
  /\ answers = {} /\ faults = 0
  /\ pc = [h \in Handler |-> "idle"]
  /\ mine = [h \in Handler |-> Imported]
  /\ expected = [h \in Handler |-> None]

Fault == faults < MaxFaults /\ faults' = faults + 1

Go(h, phase) == pc' = [pc EXCEPT ![h] = phase]

(* _result_for_progress: the disposition a stage is reported with. *)
Disposition(stage) ==
  CASE stage = "accepted" -> "completed"
    [] stage \in {"findings", "failed"} -> "failed"
    [] OTHER -> "unresolved"

Return(h, stage) ==
  /\ Go(h, "idle")
  /\ answers' = answers \union ({Disposition(stage)} \ {"unresolved"})

(* Working on p, to be saved, or recorded if that can be done. *)
Continue(h, p, phase) ==
  /\ mine' = [mine EXCEPT ![h] = p]
  /\ Go(h, phase)
  /\ UNCHANGED <<answers, expected>>

AtStage(h, stage) == [mine[h] EXCEPT !.stage = stage]

-----------------------------------------------------------------------------
(* The handler loads the progress, or imports the task. _PastReserved goes   *)
(* on where a call is reserved, and makes it.                                *)

Load_PastReserved(h) ==
  /\ pc[h] = "idle"
  /\ IF progress.depth > 0 /\ progress.stage \in Terminal
       THEN Return(h, progress.stage) /\ UNCHANGED held
       ELSE Continue(h, progress,
              IF progress.depth = 0 THEN "save"
              ELSE IF progress.stage = "implementer_reserved" THEN "implement"
              ELSE IF progress.stage = "reviewer_reserved" THEN "review" ELSE "decide")
  /\ UNCHANGED <<refs, world, faults>>
Load(h) ==
  /\ pc[h] = "idle"
  /\ IF progress.depth > 0 /\ progress.stage \in Reserved \union Terminal
       THEN Return(h, progress.stage) /\ UNCHANGED held
       ELSE Continue(h, progress, IF progress.depth = 0 THEN "save" ELSE "decide")
  /\ UNCHANGED <<refs, world, faults>>

(* The head of the loop: the budgets, and the next reservation. *)
Exhausted(h) == expired \/ mine[h].reserved >= MaxInvocations

Stop(h) ==
  /\ pc[h] = "decide" /\ Exhausted(h)
  /\ Continue(h, AtStage(h, "failed"), "save")
  /\ UNCHANGED <<refs, world, faults>>

(* A correction counts.                                                      *)
ReserveImplementer(h) ==
  /\ pc[h] = "decide" /\ ~Exhausted(h)
  /\ mine[h].stage \in {"imported", "correction_pending"}
  /\ Continue(h, [mine[h] EXCEPT !.stage = "implementer_reserved", !.reserved = @ + 1,
                    !.corrections = IF mine[h].stage = "correction_pending" THEN @ + 1 ELSE @],
              "save")
  /\ UNCHANGED <<refs, world, faults>>

ReserveReviewer(h) ==
  /\ pc[h] = "decide" /\ ~Exhausted(h)
  /\ mine[h].stage = "candidate_ready"
  /\ Continue(h, [mine[h] EXCEPT !.stage = "reviewer_reserved", !.reserved = @ + 1], "save")
  /\ UNCHANGED <<refs, world, faults>>

-----------------------------------------------------------------------------
(* DevelopmentProgressStore.persist *)

Saved(h) == [mine[h] EXCEPT !.depth = @ + 1]

(* The compare-and-swap finds the commit this progress was made from.        *)
Fits(p) == p.depth = progress.depth + 1

Saves(h) == pc[h] \in {"save", "record"}

Save(h) ==
  /\ Saves(h) /\ Fits(Saved(h))
  /\ progress' = Saved(h)
  /\ IF mine[h].stage \in Terminal
       THEN Return(h, mine[h].stage) /\ UNCHANGED held
       ELSE Continue(h, Saved(h),
              CASE mine[h].stage = "implementer_reserved" -> "implement"
                [] mine[h].stage = "reviewer_reserved" -> "review"
                [] OTHER -> "decide")
  /\ UNCHANGED <<orphans, world, faults>>

(* The ref has moved or Git fails; or the commit is attached and its         *)
(* confirmation lost; or the git child is still at it.                       *)
Unconfirmed(h) ==
  \/ UNCHANGED <<refs, faults>>
  \/ Fault /\ Fits(Saved(h)) /\ progress' = Saved(h) /\ UNCHANGED orphans
  \/ Fault /\ Fits(Saved(h)) /\ orphans' = orphans \union {Saved(h)} /\ UNCHANGED progress

(* persist raises. What was only to be recorded is reported all the same.    *)
(* _Retries tries again until it is saved.                                   *)
SaveFails_Retries(h) ==
  /\ Saves(h) /\ Unconfirmed(h)
  /\ UNCHANGED <<world, answers, pc, held>>
SaveFails(h) ==
  /\ Saves(h) /\ Unconfirmed(h)
  /\ Return(h, IF pc[h] = "record" THEN mine[h].stage ELSE "unresolved")
  /\ UNCHANGED <<world, held>>

(* A git child that outlives its parent attaches its commit, or not.         *)
OrphanEnds ==
  \E p \in orphans :
    /\ orphans' = orphans \ {p}
    /\ UNCHANGED progress \/ (Fits(p) /\ progress' = p)
    /\ UNCHANGED <<world, answers, faults, pc, held>>

-----------------------------------------------------------------------------
(* CodexDevelopmentAdapter.  The time left is read and acted on in one step: *)
(* time that passes in between is time that passes afterwards.               *)

Start(h) == IF mine[h].candidate = None THEN Base ELSE mine[h].candidate

Make(h) == launched' = [launched EXCEPT ![mine[h].reserved] = @ + 1]

(* The call ends without a candidate: "failed" when all of it has stopped,   *)
(* "unresolved" when the branches or the ownership are in doubt.             *)
Fails(h) == \E stage \in {"failed", "unresolved"} : Continue(h, AtStage(h, stage), "record")

(* There is no time left for the call, and the handler raises.               *)
OutOfTime(h) ==
  /\ pc[h] = "implement" /\ expired
  /\ Go(h, "idle")
  /\ UNCHANGED <<refs, world, answers, faults, held>>

Launch(h) ==
  /\ pc[h] = "implement" /\ ~expired
  /\ Make(h) /\ Go(h, "working")
  /\ UNCHANGED <<refs, cleared, candidateRef, expired, answers, faults, held>>

(* It is not launched, or the work or one of the checks on it fails.         *)
ImplementFails(h) ==
  /\ pc[h] = "working" \/ (pc[h] = "implement" /\ ~expired)
  /\ Fails(h)
  /\ UNCHANGED <<refs, world, faults>>

(* The candidate is made, and its branch must be where the call started.     *)
Inspect(h) ==
  /\ pc[h] = "working"
  /\ IF candidateRef \in {None, Start(h)}
       THEN /\ expected' = [expected EXCEPT ![h] = candidateRef]
            /\ Go(h, "promote") /\ UNCHANGED <<mine, answers>>
       ELSE Continue(h, AtStage(h, "unresolved"), "record")
  /\ UNCHANGED <<refs, world, faults>>

Promoted(h) ==
  candidateRef = expected[h] /\ candidateRef' = mine[h].reserved

Move(h) ==
  /\ pc[h] = "promote" /\ Promoted(h) /\ Go(h, "remove")
  /\ UNCHANGED <<refs, launched, cleared, expired, answers, faults, held>>

(* The branch has moved meanwhile or Git fails; or it was moved, and its     *)
(* confirmation is lost.  Either is a ProvenanceError, and an unexpected     *)
(* failure.  _Ignored goes on.                                               *)
MoveFails_Ignored(h) ==
  /\ pc[h] = "promote" /\ Go(h, "remove")
  /\ UNCHANGED <<refs, world, answers, faults, held>>
MoveFails(h) ==
  /\ pc[h] = "promote" /\ Fails(h)
  /\ UNCHANGED <<candidateRef, faults>> \/ (Fault /\ Promoted(h))
  /\ UNCHANGED <<refs, launched, cleared, expired>>

(* The worktree is removed and the evidence persisted, or not: then the      *)
(* candidate is known, and not reviewed.                                     *)
Finish(h) ==
  LET made == [mine[h] EXCEPT !.candidate = mine[h].reserved]
  IN /\ pc[h] = "remove"
     /\ \/ Continue(h, [made EXCEPT !.stage = "candidate_ready"], "save")
        \/ Continue(h, [made EXCEPT !.stage = "unresolved"], "record")
     /\ UNCHANGED <<refs, world, faults>>

(* Git does not end in time, and its exception replaces the observation.     *)
RemoveRaises(h) ==
  /\ pc[h] = "remove" /\ Fails(h)
  /\ UNCHANGED <<refs, world, faults>>

-----------------------------------------------------------------------------
(* ExactProjectReviewer, and what is made of its review.                     *)

LaunchReview(h) ==
  /\ pc[h] = "review" /\ ~expired
  /\ Make(h) /\ Go(h, "reviewing")
  /\ UNCHANGED <<refs, cleared, candidateRef, expired, answers, faults, held>>

(* No response, or no evidence of it; too late for the call, it is not made. *)
ReviewFails(h) ==
  /\ \/ pc[h] = "review" /\ expired /\ Continue(h, AtStage(h, "unresolved"), "record")
     \/ pc[h] = "review" /\ ~expired /\ Fails(h)
     \/ pc[h] = "reviewing" /\ Fails(h)
  /\ UNCHANGED <<refs, world, faults>>

AfterFindings(p) ==
  IF p.corrections < MaxCorrections THEN "correction_pending" ELSE "findings"

Review(h) ==
  /\ pc[h] = "reviewing"
  /\ \/ /\ Continue(h, AtStage(h, "accepted"), "save")
        /\ cleared' = cleared \union {mine[h].candidate}
     \/ /\ Continue(h, AtStage(h, AfterFindings(mine[h])), "save")
        /\ UNCHANGED cleared
     \/ /\ Continue(h, AtStage(h, "unresolved"), "save")    \* insufficient_evidence
        /\ UNCHANGED cleared
  /\ UNCHANGED <<refs, launched, candidateRef, expired, faults>>

-----------------------------------------------------------------------------
(* The process is killed, or an exception passes through the handler, at any *)
(* step; what Git was doing it may have done, or still do.                   *)
Die(h) ==
  /\ pc[h] # "idle" /\ Go(h, "idle")
  /\ \/ UNCHANGED <<refs, candidateRef, faults>>
     \/ Saves(h) /\ Unconfirmed(h) /\ UNCHANGED candidateRef
     \/ pc[h] = "promote" /\ Fault /\ Promoted(h) /\ UNCHANGED refs
  /\ UNCHANGED <<launched, cleared, expired, answers, held>>

Expire ==
  /\ ~expired /\ expired' = TRUE
  /\ UNCHANGED <<refs, launched, cleared, candidateRef, answers, faults, pc, held>>

(* Somebody else moves the candidate branch. *)
Outsider ==
  /\ candidateRef # Foreign /\ candidateRef' = Foreign
  /\ UNCHANGED <<refs, launched, cleared, expired, answers, faults, pc, held>>

Step(h) ==
  \/ Stop(h) \/ ReserveImplementer(h) \/ ReserveReviewer(h) \/ Save(h) \/ SaveFails(h)
  \/ OutOfTime(h) \/ Launch(h) \/ ImplementFails(h) \/ Inspect(h) \/ Move(h) \/ MoveFails(h)
  \/ Finish(h) \/ RemoveRaises(h) \/ LaunchReview(h) \/ ReviewFails(h) \/ Review(h)

Next ==
  \/ \E h \in Handler : Load(h) \/ Step(h) \/ Die(h)
  \/ OrphanEnds \/ Expire \/ Outsider

Spec == Init /\ [][Next]_vars

(* A handler that runs goes on: Git, the provider and the checks have their  *)
(* time limits, and the handler waits for nothing else.                      *)
FairSpec == Spec /\ \A h \in Handler : WF_vars(Step(h))

-----------------------------------------------------------------------------
(* What is accepted is what a reviewer had no findings on, and the candidate *)
(* branch is there unless somebody else has moved it (development.py:2510).  *)
AcceptedAsReviewed ==
  progress.stage = "accepted" =>
    /\ progress.candidate \in cleared
    /\ candidateRef \in {progress.candidate, Foreign}

(* What a handler has reported as completed or failed stands: no other       *)
(* handler, and no late git child, makes the progress say otherwise, also    *)
(* where the failure could not be recorded (development.py:2405).            *)
AnswersStand ==
  /\ "completed" \in answers => progress.stage = "accepted"
  /\ "failed" \in answers => progress.stage \in Reserved \union (Terminal \ {"accepted"})

(* The calls that were reserved are those of the corrections that were       *)
(* counted, two for each and two to begin with (development.py:2333).        *)
BudgetKept == progress.reserved <= 2 + 2 * progress.corrections

(* What the progress says agrees with what was answered and what was done.   *)
OutcomeInv == AcceptedAsReviewed /\ AnswersStand /\ BudgetKept

(* After a handler has answered, no provider is called, whoever runs the     *)
(* handler again (development.py:2285).                                      *)
NoCallAfterAnswer == [][answers # {} => UNCHANGED launched]_vars

(* Calls are reserved before they are made, made once, and counted.          *)
Calls == INSTANCE ProviderLedger WITH
  reserved <- progress.reserved, calls <- launched, closed <- progress.stage \in Terminal
CallsKept == Calls!Spec

(* Every handler comes to an end: its loop is bounded by the corrections     *)
(* (development.py:2305).                                                    *)
HandlerEnds == \A h \in Handler : pc[h] # "idle" ~> pc[h] = "idle"

(* "The failed State is never promoted as a candidate."                      *)
(* (docs/contracts/development-cycle-v0.md) Of a failed task, the candidate  *)
(* branch has no candidate but the one the task itself names. It fails: what *)
(* is raised after the branch has moved is taken for an ordinary failure     *)
(* (development.py:1736, 1744).                                              *)
FailedNotPromoted ==
  progress.stage = "failed" => candidateRef \in {None, Base, Foreign, progress.candidate}
=============================================================================
