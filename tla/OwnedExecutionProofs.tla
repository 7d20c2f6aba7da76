------------------------ MODULE OwnedExecutionProofs ------------------------
(***************************************************************************)
(* The invariants of OwnedExecution, for any number of executions and      *)
(* whatever their children write: what an execution's own step may change, *)
(* and that no step of another changes it.                                 *)
(***************************************************************************)
EXTENDS OwnedExecution, FiniteSetTheorems, WellFoundedInduction, TLAPS

Thread == {"stdout", "stderr", "stdin"}
Plan == {NoPlan} \union UNION {VersionPlans[e] \union AnswerPlans[e] : e \in Execution}
ExitCode == {0, 1} \union {plan.code : plan \in Plan}
ChildType ==
  [st : {"none", "running", "ended"}, plan : Plan, stdout : Nat, stderr : Nat,
   code : ExitCode, held : BOOLEAN]
PipeType ==
  [stdout : Nat, stderr : Nat, over : BOOLEAN, failed : BOOLEAN,
   thread : [Thread -> {"none", "alive", "done"}]]
Body == {"starting", "waiting", "checking", "joining"}
CleanUp == {"terminating", "reaping", "killing", "rejoining"}
Cause == {"overflow", "io", "timeout", "setup", "interrupt", "recovery"}
Result == {"unresolved", "not_launched", "timeout", "io", "setup", "interrupt", "recovered", "completed"}
RunType ==
  [pc : {"none", "returned"} \union Body \union CleanUp, late : BOOLEAN,
   why : Cause \union {None}, res : Result \union {None}]

Calling == {"version", "answering", "unresolved"}    \* a child may be at work
Clear == {"rejecting", "attempting", "prompting", "version", "preparing"}  \* no workspace yet
CallPc == {"idle", "launching", "answering", "unresolved", "recording", "releasing"} \union Clear
Evidence == {"rejected", "start", "completed", "failed"}
CallTyped(e) ==       \* the code of an observation is whatever the verdicts say
  call[e] \in [pc : CallPc,
               seen : [code : {call[e].seen.code}, started : BOOLEAN, remnant : BOOLEAN],
               persisted : {"completed", "failed", None}]
CallsTyped == call = [e \in Execution |-> call[e]] /\ \A e \in Execution : CallTyped(e)
ToldType ==
  [how : {"nothing", "returned", "recovered"}, remnant : BOOLEAN,
   persisted : {"completed", "failed", None}]

ProcType ==
  child \in [Execution -> ChildType] /\ pipe \in [Execution -> PipeType] /\ run \in [Execution -> RunType]
TypeInv ==
  /\ ProcType
  /\ lock \in Execution \union {None} /\ orphan \subseteq Execution
  /\ attempt \in [Execution -> Evidence \union {None}]
  /\ space \in [Execution -> {"none", "present", "removed"}]
  /\ CallsTyped
  /\ told \in [Execution -> ToldType]
  /\ retries \in [Execution -> Nat] /\ tasks \in [Execution -> Nat] /\ kills \in [Execution -> Nat]
  /\ \A e \in Execution : retries[e] =< MaxRetries[e]

(* The child and its pipes: what was read had been written and what was      *)
(* written was planned; a reader that is done without a fault has read all;  *)
(* and a child that ends well has written all.                               *)
PipeInv(e) ==
  /\ \A s \in Reader : /\ pipe[e][s] =< child[e][s] /\ pipe[e][s] =< Cap[s] + 1
                       /\ child[e][s] =< Planned(e)[s]
  /\ pipe[e].thread["stdout"] = "done" /\ ~pipe[e].failed /\ ~pipe[e].over =>
       EndOfStream(e) /\ pipe[e].stdout = child[e].stdout
  /\ ~Running(e) /\ child[e].code = 0 => child[e].stdout = Planned(e).stdout

(* The calling thread: it waits only where all threads were started, and a   *)
(* call that nothing went wrong with has seen them all end.                  *)
RunFits(e, r) ==
  /\ r.pc \in {"waiting", "checking", "joining"} => \A w \in Thread : pipe[e].thread[w] # "none"
  /\ r.res = None <=> r.pc # "returned"
  /\ r.res = "recovered" => r.why = "recovery"
  /\ r.pc \in CleanUp \union {"returned"} /\ r.res # "not_launched" =>
       /\ r.why = None => ~pipe[e].failed /\ \A w \in Thread : pipe[e].thread[w] = "done"
       /\ r.why = "overflow" => pipe[e].over
  /\ r.res = "completed" => r.why \in {None, "overflow"}
  /\ r.pc = "returned" /\ r.res # "unresolved" => Stopped(e)
RunInv(e) == RunFits(e, run[e])
ProcInv(e) == PipeInv(e) /\ RunInv(e)

(* A call past its admission holds the lock, and a child is about only where *)
(* the call says so, unless its process was killed.                          *)
LockInv(e) ==
  /\ call[e].pc \notin {"idle", "rejecting"} => lock = e
  /\ ~At(e, "idle") => e \notin orphan
  /\ run[e].pc = "none" <=> call[e].pc \notin Calling
  /\ run[e].why = "recovery" => At(e, "unresolved")
  /\ call[e].pc \notin Calling /\ e \notin orphan => Stopped(e)

(* A task has begun only where the ref of the attempt is there.              *)
TaskInv(e) ==
  /\ tasks[e] =< 1 /\ (attempt[e] = None => tasks[e] = 0)
  /\ call[e].pc \in (Calling \union {"prompting", "preparing", "launching", "recording"}) => attempt[e] = "start"

(* A workspace that is left is in the observation, and then in the result.   *)
SpaceInv(e) ==
  /\ call[e].pc \in Clear => space[e] # "present"
  /\ call[e].pc \in {"launching", "answering"} => space[e] = "present"
  /\ call[e].pc \in Clear \union {"idle", "launching", "answering"} => ~call[e].seen.remnant
  /\ call[e].pc \in {"recording", "releasing"} => (space[e] = "present" <=> call[e].seen.remnant)
  /\ told[e].how # "nothing" => (space[e] = "present" <=> told[e].remnant)

(* What is told of the evidence is so. *)
ToldInv(e) ==
  /\ ~At(e, "idle") => told[e] = Untold
  /\ told[e].persisted # None => attempt[e] = told[e].persisted
  /\ call[e].persisted # None => At(e, "releasing") /\ attempt[e] = call[e].persisted

(* An answer that was taken is that of a child that ended well and of whom   *)
(* all was read; and it passed every check.                                  *)
Taken(e) ==
  /\ Stopped(e) /\ child[e].code = 0 /\ child[e].stdout = Planned(e).stdout
  /\ child[e].plan \in AnswerPlans[e]
  /\ Verdict(child[e].plan.stdout) = "completed"
  /\ AnswerVerdict(e, Answer(child[e].plan.stdout)) = "completed"
  /\ space[e] # "present"
AnswerInv(e) ==
  /\ At(e, "answering") => run[e].res = "not_launched" \/ child[e].plan \in AnswerPlans[e]
  /\ call[e].seen.code # None => At(e, "recording")
  /\ attempt[e] = "completed" \/ (At(e, "recording") /\ call[e].seen.code = "completed") => Taken(e)

CallOf(e) == LockInv(e) /\ TaskInv(e) /\ SpaceInv(e) /\ ToldInv(e) /\ AnswerInv(e)
ExecutionInv == TypeInv /\ \A e \in Execution : ProcInv(e) /\ CallOf(e)
-----------------------------------------------------------------------------
(* Threads, plans and caps. *)

LEMMA WorkerIs ==
  /\ ToSet(Worker) = Thread /\ Len(Worker) = 3
  /\ \A n \in 0 .. 2 : Worker[n + 1] \in Thread
BY DEF Worker, Thread, ToSet

LEMMA PlanIs ==
  ASSUME NEW plan \in Plan
  PROVE  plan.stdout \in Seq(ToSet(plan.stdout)) /\ Len(plan.stdout) \in Nat /\ plan.stderr \in Nat
<1>1. CASE plan = NoPlan
  BY <1>1 DEF NoPlan
<1>2. CASE plan # NoPlan
  BY <1>2, PlanAssumption DEF Plan
<1> QED
  BY <1>1, <1>2

LEMMA CapIs == \A s \in Reader : Cap[s] \in Nat
BY ProcessAssumption DEF Cap, Reader

LEMMA PlannedIs ==
  ASSUME ProcType, NEW e \in Execution, NEW s \in Reader
  PROVE  /\ Planned(e)[s] \in Nat /\ child[e][s] \in Nat /\ pipe[e][s] \in Nat
         /\ child[e] \in ChildType /\ pipe[e] \in PipeType /\ run[e] \in RunType
<1>1. child[e] \in ChildType /\ pipe[e] \in PipeType /\ run[e] \in RunType
  BY DEF ProcType
<1>2. child[e].plan \in Plan
  BY <1>1 DEF ChildType
<1>3. Planned(e)[s] \in Nat
  BY <1>2, PlanIs DEF Planned, Reader
<1> QED
  BY <1>1, <1>3 DEF ChildType, PipeType, Reader

LEMMA ThreadsAre ==
  ASSUME NEW e
  PROVE  /\ Threads(e) = {w \in Thread : pipe[e].thread[w] = "alive"}
         /\ Threads(e)' = {w \in Thread : pipe'[e].thread[w] = "alive"}
BY WorkerIs DEF Threads

-----------------------------------------------------------------------------
(* What a step of the child, its threads or the calling thread comes to.     *)
ProcMove(e) ==
  /\ ProcType' /\ ProcInv(e)'
  /\ \A d \in Execution : d # e => child'[d] = child[d] /\ pipe'[d] = pipe[d] /\ run'[d] = run[d]
  /\ run'[e].pc = "none" <=> run[e].pc = "none"
  /\ run'[e].why = "recovery" => run[e].why = "recovery"
  /\ run[e].res = "not_launched" => run'[e].res = "not_launched"
  /\ child'[e].plan = child[e].plan
  /\ Stopped(e) /\ run[e].pc = "none" =>
       Stopped(e)' /\ child'[e].stdout = child[e].stdout /\ child'[e].code = child[e].code

(* The child goes on; it never unwrites, and does not come back.             *)
LEMMA ChildMoves ==
  ASSUME ProcType, NEW e \in Execution, ProcInv(e), ChildStep(e)
  PROVE  ProcMove(e)
<1> USE DEF Running
<1>1. pipe' = pipe /\ run' = run
  BY DEF ChildStep, ChildWrites, ChildEnds, HolderEnds
<1>2. child[e] \in ChildType /\ pipe[e] \in PipeType
  BY DEF ProcType
<1>3. ASSUME NEW c \in ChildType, child' = [child EXCEPT ![e] = c], c.plan = child[e].plan,
             \A s \in Reader : pipe[e][s] =< c[s] /\ c[s] =< Planned(e)[s],
             ~Running(e) => c.st # "running" /\ c.stdout = child[e].stdout /\ c.code = child[e].code,
             EndOfStream(e) => ~c.held,
             c.st # "running" /\ c.code = 0 => c.stdout = Planned(e).stdout
      PROVE  ProcMove(e)
  <2>1. /\ child'[e] = c /\ ProcType'
        /\ \A d \in Execution : d # e => child'[d] = child[d]
    BY <1>1, <1>3 DEF ProcType
  <2>2. Planned(e)' = Planned(e) /\ Threads(e)' = Threads(e)
    BY <1>1, <1>3, <2>1 DEF Planned, Threads
  <2>3. PipeInv(e)'
    BY <1>1, <1>3, <2>1, <2>2 DEF ProcInv, PipeInv, EndOfStream
  <2>4. Stopped(e) => Stopped(e)'
    BY <1>3, <2>1, <2>2 DEF Stopped
  <2>5. RunInv(e)'
    BY <1>1, <2>4 DEF ProcInv, RunInv, RunFits
  <2> QED
    BY <1>1, <1>3, <2>1, <2>3, <2>4, <2>5 DEF ProcMove, ProcInv, Stopped
<1>4. ASSUME NEW s \in Reader, ChildWrites(e, s)
      PROVE  ProcMove(e)
  <2> DEFINE c == [child[e] EXCEPT ![s] = @ + 1]
  <2>1. /\ child' = [child EXCEPT ![e] = c] /\ child[e].st = "running"
        /\ child[e][s] < Planned(e)[s]
    BY <1>4 DEF ChildWrites, ProcType
  <2>2. /\ \A t \in Reader : /\ pipe[e][t] =< child[e][t] /\ child[e][t] =< Planned(e)[t]
                             /\ pipe[e][t] \in Nat /\ child[e][t] \in Nat /\ Planned(e)[t] \in Nat
    BY PlannedIs DEF ProcInv, PipeInv
  <2>3. c \in ChildType /\ c.plan = child[e].plan /\ c.st = "running"
    BY <1>2, <2>1 DEF ChildType, Reader
  <2>4. \A t \in Reader : c[t] = IF t = s THEN child[e][t] + 1 ELSE child[e][t]
    BY <1>2 DEF ChildType, Reader
  <2> HIDE DEF c
  <2>5. \A t \in Reader : pipe[e][t] =< c[t] /\ c[t] =< Planned(e)[t]
    BY <2>1, <2>2, <2>4
  <2> QED
    BY <1>3, <2>1, <2>3, <2>5 DEF EndOfStream
<1>5. CASE ChildEnds(e)
  <2>1. PICK held \in BOOLEAN :
          child' = [child EXCEPT ![e].st = "ended", ![e].held = held,
            ![e].code = IF child[e].stdout = Planned(e).stdout THEN child[e].plan.code ELSE 1]
    BY <1>5 DEF ChildEnds
  <2> DEFINE code == IF child[e].stdout = Planned(e).stdout THEN child[e].plan.code ELSE 1
             c == [child[e] EXCEPT !.st = "ended", !.held = held, !.code = code]
  <2>2. code \in ExitCode /\ (code = 0 => child[e].stdout = Planned(e).stdout)
    BY <1>2 DEF ChildType, ExitCode
  <2>3. child' = [child EXCEPT ![e] = c] /\ child[e].st = "running"
    BY <1>5, <2>1 DEF ChildEnds, ProcType
  <2> HIDE DEF code
  <2>4. /\ c \in ChildType /\ c.plan = child[e].plan /\ c.st = "ended" /\ c.code = code
        /\ c.stdout = child[e].stdout /\ \A t \in Reader : c[t] = child[e][t]
    BY <1>2, <2>2 DEF ChildType, Reader
  <2> HIDE DEF c
  <2> QED
    BY <1>3, <2>2, <2>3, <2>4 DEF EndOfStream, ProcInv, PipeInv
<1>6. CASE HolderEnds(e)
  <2> DEFINE c == [child[e] EXCEPT !.held = FALSE]
  <2>1. child' = [child EXCEPT ![e] = c]
    BY <1>6 DEF HolderEnds, ProcType
  <2>2. /\ c \in ChildType /\ c.plan = child[e].plan /\ c.st = child[e].st /\ c.held = FALSE
        /\ c.stdout = child[e].stdout /\ c.code = child[e].code
        /\ \A t \in Reader : c[t] = child[e][t]
    BY <1>2 DEF ChildType, Reader
  <2> HIDE DEF c
  <2> QED
    BY <1>3, <2>1, <2>2 DEF ProcInv, PipeInv
<1> QED
  BY <1>4, <1>5, <1>6 DEF ChildStep

(* A thread only ends, and a reader keeps no more than was written. *)
LEMMA ThreadMoves ==
  ASSUME ProcType, NEW e \in Execution, ProcInv(e), ThreadStep(e)
  PROVE  ProcMove(e)
<1>1. child' = child /\ run' = run
  BY DEF ThreadStep, Drain, DrainFails, WriteInput
<1>2. child[e] \in ChildType /\ pipe[e] \in PipeType
  BY DEF ProcType
<1>3. ASSUME NEW p \in PipeType, pipe' = [pipe EXCEPT ![e] = p],
             \A s \in Reader : p[s] =< child[e][s] /\ p[s] =< Cap[s] + 1,
             \E w \in Thread : pipe[e].thread[w] = "alive",
             pipe[e].over => p.over,
             \A w \in Thread : pipe[e].thread[w] # "none" => p.thread[w] # "none",
             p.thread["stdout"] = "done" /\ ~p.failed /\ ~p.over =>
               EndOfStream(e) /\ p.stdout = child[e].stdout
      PROVE  ProcMove(e)
  <2>1. /\ pipe'[e] = p /\ ProcType'
        /\ \A d \in Execution : d # e => pipe'[d] = pipe[d]
    BY <1>1, <1>3 DEF ProcType
  <2>2. Planned(e)' = Planned(e) /\ Running(e)' = Running(e) /\ EndOfStream(e)' = EndOfStream(e)
    BY <1>1 DEF Planned, Running, EndOfStream
  <2>3. PipeInv(e)'
    BY <1>1, <1>3, <2>1, <2>2 DEF ProcInv, PipeInv
  <2>4. ~Stopped(e)
    BY <1>3, ThreadsAre DEF Stopped
  <2>5. RunInv(e)'
    BY <1>1, <1>3, <2>1, <2>4 DEF ProcInv, RunInv, RunFits
  <2> QED
    BY <1>1, <2>1, <2>3, <2>4, <2>5 DEF ProcMove, ProcInv
<1>4. ASSUME NEW s \in Reader, Drain(e, s)
      PROVE  ProcMove(e)
  <2> DEFINE unread == child[e][s] - pipe[e][s]
             kept == Least(pipe[e][s] + Least(unread, Chunk), Cap[s] + 1)
             over == pipe[e].over \/ kept > Cap[s]
             state == IF kept > Cap[s] \/ unread < Chunk THEN "done" ELSE pipe[e].thread[s]
             p == [pipe[e] EXCEPT ![s] = kept, !.over = over, !.thread[s] = state]
  <2>1. /\ pipe' = [pipe EXCEPT ![e] = p] /\ pipe[e].thread[s] = "alive"
        /\ unread >= Chunk \/ EndOfStream(e)
    BY <1>4 DEF Drain, ProcType, Alive
  <2>2. /\ child[e][s] \in Nat /\ pipe[e][s] \in Nat /\ Cap[s] \in Nat /\ Chunk \in Nat \ {0}
        /\ pipe[e][s] =< child[e][s] /\ pipe[e][s] =< Cap[s] + 1
    BY PlannedIs, CapIs, ProcessAssumption DEF ProcInv, PipeInv
  <2>3. /\ kept \in Nat /\ kept =< child[e][s] /\ kept =< Cap[s] + 1
        /\ kept =< Cap[s] /\ unread < Chunk => kept = child[e][s]
    BY <2>2 DEF Least
  <2>0. unread \in Nat /\ kept \in Nat
    BY <2>2, <2>3
  <2> HIDE DEF unread, kept
  <2>4. /\ over \in BOOLEAN /\ (pipe[e].over => over)
        /\ kept > Cap[s] => over
        /\ state \in {"alive", "done"}
    BY <2>1
  <2>5. state = "done" /\ ~over => EndOfStream(e) /\ kept = child[e][s]
    <3>1. CASE kept > Cap[s]
      BY <2>4, <3>1
    <3>2. CASE ~(kept > Cap[s]) /\ unread < Chunk
      <4>1. ~(unread >= Chunk) /\ kept =< Cap[s]
        BY <2>0, <2>2, <3>2
      <4> QED
        BY <2>1, <2>3, <3>2, <4>1
    <3>3. CASE ~(kept > Cap[s]) /\ ~(unread < Chunk)
      BY <2>1, <3>3
    <3> QED
      BY <3>1, <3>2, <3>3
  <2> HIDE DEF over, state
  <2>6. /\ p \in PipeType /\ p.over = over /\ p.failed = pipe[e].failed
        /\ \A t \in Reader : p[t] = IF t = s THEN kept ELSE pipe[e][t]
        /\ \A w \in Thread : p.thread[w] = IF w = s THEN state ELSE pipe[e].thread[w]
    <3>1. CASE s = "stdout"
      BY <1>2, <2>3, <2>4, <3>1 DEF PipeType, Reader, Thread
    <3>2. CASE s = "stderr"
      BY <1>2, <2>3, <2>4, <3>2 DEF PipeType, Reader, Thread
    <3> QED
      BY <3>1, <3>2 DEF Reader
  <2> HIDE DEF p
  <2>7. \A t \in Reader : p[t] =< child[e][t] /\ p[t] =< Cap[t] + 1
    BY <2>3, <2>6 DEF ProcInv, PipeInv
  <2>8. p.thread["stdout"] = "done" /\ ~p.failed /\ ~p.over =>
          EndOfStream(e) /\ p["stdout"] = child[e]["stdout"]
    <3>1. CASE s = "stdout"
      BY <2>5, <2>6, <3>1 DEF Thread, Reader
    <3>2. CASE s # "stdout"
      BY <2>4, <2>6, <3>2 DEF Thread, Reader, ProcInv, PipeInv
    <3> QED
      BY <3>1, <3>2
  <2>9. /\ \E w \in Thread : pipe[e].thread[w] = "alive"
        /\ \A w \in Thread : pipe[e].thread[w] # "none" => p.thread[w] # "none"
    BY <2>1, <2>4, <2>6 DEF Thread, Reader
  <2> QED
    BY <1>3, <2>1, <2>4, <2>6, <2>7, <2>8, <2>9
<1>5. ASSUME NEW w \in Thread, pipe[e].thread[w] = "alive", NEW failed \in BOOLEAN,
             pipe[e].failed => failed, w = "stdout" => failed,
             pipe' = [pipe EXCEPT ![e].thread[w] = "done", ![e].failed = failed]
      PROVE  ProcMove(e)
  <2> DEFINE p == [pipe[e] EXCEPT !.thread[w] = "done", !.failed = failed]
  <2>1. pipe' = [pipe EXCEPT ![e] = p]
    BY <1>5 DEF ProcType
  <2>2. /\ p \in PipeType /\ p.over = pipe[e].over /\ p.failed = failed
        /\ \A t \in Reader : p[t] = pipe[e][t]
        /\ p.stdout = pipe[e].stdout
        /\ \A v \in Thread : p.thread[v] = IF v = w THEN "done" ELSE pipe[e].thread[v]
    BY <1>2 DEF PipeType, Reader, Thread
  <2> HIDE DEF p
  <2>3. \A t \in Reader : p[t] =< child[e][t] /\ p[t] =< Cap[t] + 1
    BY <2>2 DEF ProcInv, PipeInv
  <2>4. p.thread["stdout"] = "done" /\ ~p.failed /\ ~p.over =>
          EndOfStream(e) /\ p.stdout = child[e].stdout
    BY <1>5, <2>2 DEF ProcInv, PipeInv, Thread
  <2> QED
    BY <1>3, <1>5, <2>1, <2>2, <2>3, <2>4
<1>6. ASSUME NEW s \in Reader, DrainFails(e, s)
      PROVE  ProcMove(e)
  BY <1>5, <1>6 DEF DrainFails, Alive, Reader, Thread
<1>7. CASE WriteInput(e)
  <2>1. PICK broken \in BOOLEAN :
          pipe' = [pipe EXCEPT ![e].thread["stdin"] = "done", ![e].failed = @ \/ (broken /\ Running(e))]
    BY <1>7 DEF WriteInput
  <2> DEFINE failed == pipe[e].failed \/ (broken /\ Running(e))
  <2>2. failed \in BOOLEAN /\ (pipe[e].failed => failed)
    BY <1>2 DEF PipeType
  <2>3. pipe' = [pipe EXCEPT ![e].thread["stdin"] = "done", ![e].failed = failed]
    BY <2>1
  <2> HIDE DEF failed
  <2> QED
    BY <1>5, <1>7, <2>2, <2>3 DEF WriteInput, Alive, Thread
<1> QED
  BY <1>4, <1>6, <1>7 DEF ThreadStep

LEMMA StartedIs ==
  ASSUME NEW e
  PROVE  /\ Started(e) \in 0 .. 3
         /\ Started(e) = 3 => \A w \in Thread : pipe[e].thread[w] # "none"
<1> DEFINE S == {w \in Thread : pipe[e].thread[w] # "none"}
<1>1. Started(e) = Cardinality(S)
  BY WorkerIs DEF Started
<1>2. IsFiniteSet(Thread) /\ Cardinality(Thread) = 3
  <2>1. /\ IsFiniteSet({}) /\ Cardinality({}) = 0
    BY FS_EmptySet
  <2>2. IsFiniteSet({"stdin"}) /\ Cardinality({"stdin"}) = 1
    BY FS_Singleton
  <2>3. IsFiniteSet({"stdin"} \union {"stderr"}) /\ Cardinality({"stdin"} \union {"stderr"}) = 2
    BY <2>2, FS_AddElement
  <2>4. /\ IsFiniteSet(({"stdin"} \union {"stderr"}) \union {"stdout"})
        /\ Cardinality(({"stdin"} \union {"stderr"}) \union {"stdout"}) = 3
    BY <2>3, FS_AddElement
  <2>5. Thread = ({"stdin"} \union {"stderr"}) \union {"stdout"}
    BY DEF Thread
  <2> QED
    BY <2>4, <2>5
<1>3. /\ S \subseteq Thread /\ IsFiniteSet(S) /\ Cardinality(S) =< 3 /\ Cardinality(S) \in Nat
      /\ Cardinality(S) = 3 => S = Thread
  BY <1>2, FS_Subset, FS_CardinalityType
<1> QED
  BY <1>1, <1>3

(* A step of the calling thread, from one place to another. *)
LEMMA RunOnly ==
  ASSUME ProcType, NEW e \in Execution, ProcInv(e), UNCHANGED <<child, pipe>>,
         NEW r \in RunType, run' = [run EXCEPT ![e] = r], RunFits(e, r),
         r.pc = "none" <=> run[e].pc = "none", r.why = "recovery" => run[e].why = "recovery",
         run[e].res = "not_launched" => r.res = "not_launched"
  PROVE  ProcMove(e)
<1>1. /\ run'[e] = r /\ ProcType'
      /\ \A d \in Execution : d # e => run'[d] = run[d]
  BY DEF ProcType
<1>2. PipeInv(e)' /\ (Stopped(e) <=> Stopped(e)')
  BY DEF ProcInv, PipeInv, Planned, EndOfStream, Running, Stopped, Threads
<1>3. RunInv(e)'
  BY <1>1, <1>2 DEF RunInv, RunFits
<1> QED
  BY <1>1, <1>2, <1>3 DEF ProcMove, ProcInv

LEMMA RunToMove ==
  ASSUME ProcType, NEW e \in Execution, ProcInv(e), UNCHANGED <<child, pipe>>,
         NEW pc \in Body \union CleanUp, RunTo(e, pc), run[e].pc \in Body \union CleanUp,
         pc \in CleanUp => run[e].pc \in CleanUp,
         pc \in {"waiting", "checking", "joining"} => \A w \in Thread : pipe[e].thread[w] # "none"
  PROVE  ProcMove(e)
<1> DEFINE r == [run[e] EXCEPT !.pc = pc]
<1>1. run[e] \in RunType /\ run' = [run EXCEPT ![e] = r]
  BY DEF RunTo, ProcType
<1>2. r \in RunType /\ r.pc = pc /\ r.why = run[e].why /\ r.res = run[e].res
  BY <1>1 DEF RunType
<1> HIDE DEF r
<1>3. RunFits(e, r)
  BY <1>2 DEF ProcInv, RunInv, RunFits, Body, CleanUp
<1> QED
  BY <1>1, <1>2, <1>3, RunOnly DEF Body, CleanUp

LEMMA RaiseMove ==
  ASSUME ProcType, NEW e \in Execution, ProcInv(e), UNCHANGED <<child, pipe>>,
         NEW why \in (Cause \ {"recovery"}) \union {None}, Raise(e, why), run[e].pc \in Body,
         why = None => ~pipe[e].failed /\ \A w \in Thread : pipe[e].thread[w] = "done",
         why = "overflow" => pipe[e].over
  PROVE  ProcMove(e)
<1> DEFINE r == [run[e] EXCEPT !.pc = "terminating", !.why = why, !.late = FALSE]
<1>1. run[e] \in RunType /\ run' = [run EXCEPT ![e] = r]
  BY DEF Raise, ProcType
<1>2. r \in RunType /\ r.pc = "terminating" /\ r.why = why /\ r.res = run[e].res
  BY <1>1 DEF RunType, CleanUp
<1> HIDE DEF r
<1>3. RunFits(e, r)
  BY <1>2, NoneAssumption DEF ProcInv, RunInv, RunFits, Body
<1>4. r.pc # "none" /\ run[e].pc # "none" /\ r.why # "recovery"
  BY <1>2, NoneAssumption DEF Body
<1> QED
  BY <1>1, <1>2, <1>3, <1>4, RunOnly

LEMMA EndsMove ==
  ASSUME ProcType, NEW e \in Execution, ProcInv(e), UNCHANGED <<child, pipe>>,
         NEW result \in Result \ {"not_launched"}, Ends(e, result), RunAt(e, "rejoining"),
         result = "completed" => run[e].why \in {None, "overflow"},
         result = "recovered" => run[e].why = "recovery",
         result # "unresolved" => Stopped(e)
  PROVE  ProcMove(e)
<1> DEFINE r == [run[e] EXCEPT !.pc = "returned", !.res = result]
<1>1. run[e] \in RunType /\ run' = [run EXCEPT ![e] = r]
  BY DEF Ends, ProcType
<1>2. r \in RunType /\ r.pc = "returned" /\ r.why = run[e].why /\ r.res = result
  BY <1>1 DEF RunType
<1> HIDE DEF r
<1>3. run[e].pc = "rejoining" /\ run[e].res # "not_launched" /\ result # None
  BY NoneAssumption DEF Result, RunAt, ProcInv, RunInv, RunFits
<1>4. RunFits(e, r)
  BY <1>2, <1>3 DEF ProcInv, RunInv, RunFits, CleanUp
<1> QED
  BY <1>1, <1>2, <1>3, <1>4, RunOnly

(* The threads are started in their order, and then waited for. *)
LEMMA StartMoves ==
  ASSUME ProcType, NEW e \in Execution, ProcInv(e), StartWorker(e)
  PROVE  ProcMove(e)
<1>1. /\ child' = child /\ run[e].pc = "starting" /\ pipe[e] \in PipeType
      /\ Started(e) \in 0 .. 3 /\ Len(Worker) = 3
  BY StartedIs, WorkerIs DEF StartWorker, RunAt, ProcType
<1>2. CASE Started(e) = Len(Worker)
  <2>1. RunTo(e, "waiting") /\ UNCHANGED <<child, pipe>>
    BY <1>1, <1>2 DEF StartWorker
  <2>2. \A w \in Thread : pipe[e].thread[w] # "none"
    BY <1>1, <1>2, StartedIs
  <2> QED
    BY <1>1, <2>1, <2>2, RunToMove DEF Body, CleanUp
<1>3. CASE Started(e) # Len(Worker) /\ run' # run
  <2>1. Raise(e, "setup") /\ UNCHANGED <<child, pipe>>
    BY <1>1, <1>3 DEF StartWorker
  <2> QED
    BY <1>1, <2>1, RaiseMove, NoneAssumption DEF Body, Cause
<1>4. CASE Started(e) # Len(Worker) /\ run' = run
  <2> DEFINE w == Worker[Started(e) + 1]
             p == [pipe[e] EXCEPT !.thread[w] = "alive"]
  <2>1. w \in Thread
    <3>1. Started(e) \in 0 .. 2
      BY <1>1, <1>4
    <3> QED
      BY <3>1, WorkerIs
  <2>2. pipe' = [pipe EXCEPT ![e] = p] \/ (Raise(e, "setup") /\ pipe' = pipe)
    BY <1>4 DEF StartWorker, ProcType
  <2> HIDE DEF w
  <2>3. /\ p \in PipeType /\ p.over = pipe[e].over /\ p.failed = pipe[e].failed
        /\ \A t \in Reader : p[t] = pipe[e][t]
        /\ p.stdout = pipe[e].stdout
        /\ p.thread["stdout"] = "done" => pipe[e].thread["stdout"] = "done"
    BY <1>1, <2>1 DEF PipeType, Reader, Thread
  <2> HIDE DEF p
  <2>4. CASE pipe' = [pipe EXCEPT ![e] = p]
    <3>1. /\ pipe'[e] = p /\ ProcType'
          /\ \A d \in Execution : d # e => pipe'[d] = pipe[d]
      BY <1>1, <1>4, <2>3, <2>4 DEF ProcType
    <3>2. Planned(e)' = Planned(e) /\ Running(e)' = Running(e) /\ EndOfStream(e)' = EndOfStream(e)
      BY <1>1 DEF Planned, Running, EndOfStream
    <3>3. PipeInv(e)'
      BY <1>1, <2>3, <3>1, <3>2 DEF ProcInv, PipeInv
    <3>4. RunInv(e)'
      BY <1>1, <1>4, NoneAssumption DEF ProcInv, RunInv, RunFits, CleanUp
    <3> QED
      BY <1>1, <1>4, <3>1, <3>3, <3>4 DEF ProcMove, ProcInv
  <2>5. CASE Raise(e, "setup") /\ pipe' = pipe
    BY <1>1, <2>5, RaiseMove, NoneAssumption DEF Body, Cause
  <2> QED
    BY <2>2, <2>4, <2>5
<1> QED
  BY <1>2, <1>3, <1>4

(* The call waits, gives up, or finds that all has ended; and then cleans up. *)
LEMMA RunMoves ==
  ASSUME ProcType, NEW e \in Execution, ProcInv(e), MainStep(e) \/ Interrupted(e) \/ TimePasses(e)
  PROVE  ProcMove(e)
<1>1. CASE StartWorker(e)
  BY <1>1, StartMoves
<1>2. CASE Poll(e) \/ CheckRunning(e)
  <2>1. /\ UNCHANGED <<child, pipe>> /\ run[e].pc \in {"waiting", "checking"}
        /\ \A w \in Thread : pipe[e].thread[w] # "none"
    BY <1>2 DEF Poll, CheckRunning, RunAt, ProcInv, RunInv, RunFits
  <2>2. CASE \E pc \in {"waiting", "checking", "joining"} : RunTo(e, pc)
    BY <2>1, <2>2, RunToMove DEF Body, CleanUp
  <2>3. CASE \E why \in {"overflow", "io", "timeout"} : Raise(e, why) /\ (why = "overflow" => pipe[e].over)
    BY <2>1, <2>3, RaiseMove, NoneAssumption DEF Body, Cause
  <2> QED
    BY <1>2, <2>2, <2>3 DEF Poll, CheckRunning
<1>3. CASE JoinWorkers(e)
  <2>1. /\ UNCHANGED <<child, pipe>> /\ run[e].pc = "joining" /\ pipe[e] \in PipeType
        /\ \A w \in Thread : pipe[e].thread[w] # "none"
    BY <1>3 DEF JoinWorkers, RunAt, ProcInv, RunInv, RunFits, ProcType
  <2>2. CASE Threads(e) # {}
    <3>1. Raise(e, "timeout")
      BY <1>3, <2>2 DEF JoinWorkers
    <3> QED
      BY <2>1, <3>1, RaiseMove, NoneAssumption DEF Body, Cause
  <2>3. CASE Threads(e) = {}
    <3>1. Raise(e, AfterTheEnd(e))
      BY <1>3, <2>3 DEF JoinWorkers
    <3>2. \A w \in Thread : pipe[e].thread[w] = "done"
      BY <2>1, <2>3, ThreadsAre DEF PipeType
    <3>3. /\ AfterTheEnd(e) \in (Cause \ {"recovery"}) \union {None}
          /\ AfterTheEnd(e) = None => ~pipe[e].failed
          /\ AfterTheEnd(e) = "overflow" => pipe[e].over
      BY NoneAssumption DEF AfterTheEnd, Cause
    <3> QED
      BY <2>1, <3>1, <3>2, <3>3, RaiseMove DEF Body
  <2> QED
    BY <2>2, <2>3
<1>4. CASE Terminate(e) \/ Reap(e) \/ Kill(e)
  <2>1. /\ UNCHANGED <<child, pipe>> /\ run[e].pc \in CleanUp
        /\ \E pc \in CleanUp : RunTo(e, pc)
    BY <1>4 DEF Terminate, Reap, Kill, RunAt, CleanUp
  <2> QED
    BY <2>1, RunToMove DEF Body, CleanUp
<1>5. CASE Rejoin(e)
  <2>1. /\ UNCHANGED <<child, pipe>> /\ RunAt(e, "rejoining")
        /\ run[e].why \in Cause \union {None}
    BY <1>5 DEF Rejoin, ProcType, RunType
  <2>2. CASE Ends(e, "unresolved")
    BY <2>1, <2>2, EndsMove DEF Result
  <2>3. ASSUME NEW closed \in BOOLEAN, Stopped(e), Ends(e, Resolution(e, closed))
        PROVE  ProcMove(e)
    <3>1. /\ Resolution(e, closed) \in Result \ {"not_launched"}
          /\ Resolution(e, closed) = "completed" => run[e].why \in {None, "overflow"}
          /\ Resolution(e, closed) = "recovered" => run[e].why = "recovery"
      BY <2>1 DEF Resolution, Result, Cause
    <3> QED
      BY <2>1, <2>3, <3>1, EndsMove
  <2> QED
    BY <1>5, <2>2, <2>3 DEF Rejoin
<1>6. CASE Interrupted(e)
  <2>1. UNCHANGED <<child, pipe>> /\ run[e].pc \in Body /\ Raise(e, "interrupt")
    BY <1>6 DEF Interrupted, Body
  <2> QED
    BY <2>1, RaiseMove, NoneAssumption DEF Cause
<1>7. CASE TimePasses(e)
  <2> DEFINE r == [run[e] EXCEPT !.late = TRUE]
  <2>1. UNCHANGED <<child, pipe>> /\ run' = [run EXCEPT ![e] = r] /\ run[e] \in RunType
    BY <1>7 DEF TimePasses, ProcType
  <2>2. r \in RunType /\ r.pc = run[e].pc /\ r.why = run[e].why /\ r.res = run[e].res
    BY <2>1 DEF RunType
  <2> HIDE DEF r
  <2>3. RunFits(e, r)
    BY <2>2 DEF ProcInv, RunInv, RunFits
  <2> QED
    BY <2>1, <2>2, <2>3, RunOnly
<1> QED
  BY <1>1, <1>2, <1>3, <1>4, <1>5, <1>6, <1>7 DEF MainStep

LEMMA ProcMoves ==
  ASSUME ProcType, NEW e \in Execution, ProcInv(e), ProcStep(e)
  PROVE  ProcMove(e)
BY ChildMoves, ThreadMoves, RunMoves, Zenon DEF ProcStep

-----------------------------------------------------------------------------
(* What the steps of a call do to the process and to the call.               *)

(* The processes of the others stay as they are. *)
ProcOthers(e) ==
  \A d \in Execution : d # e => child'[d] = child[d] /\ pipe'[d] = pipe[d] /\ run'[d] = run[d]

LEMMA LaunchFacts ==
  ASSUME ProcType, NEW e \in Execution, ProcInv(e), Stopped(e), NEW plan \in Plan, Launch(e, plan)
  PROVE  /\ ProcType' /\ ProcOthers(e) /\ ProcInv(e)' /\ run'[e].pc # "none" /\ run'[e].why # "recovery"
         /\ run'[e].res = "not_launched" \/ child'[e].plan = plan
<1>1. CASE /\ child' = [child EXCEPT ![e] = [NoChild EXCEPT !.st = "running", !.plan = plan]]
           /\ pipe' = [pipe EXCEPT ![e] = NoPipe]
           /\ run' = [run EXCEPT ![e] = [NoRun EXCEPT !.pc = "starting"]]
  <2> DEFINE c == [NoChild EXCEPT !.st = "running", !.plan = plan]
             r == [NoRun EXCEPT !.pc = "starting"]
  <2>1. /\ c \in ChildType /\ c.st = "running" /\ c.plan = plan /\ c.stdout = 0 /\ c.stderr = 0
    BY DEF NoChild, ChildType, ExitCode
  <2>2. /\ NoPipe \in PipeType /\ NoPipe.stdout = 0 /\ NoPipe.stderr = 0
        /\ \A w \in Thread : NoPipe.thread[w] = "none"
    BY WorkerIs DEF NoPipe, PipeType
  <2>3. r \in RunType /\ r.pc = "starting" /\ r.res = None /\ r.why # "recovery"
    BY NoneAssumption DEF NoRun, RunType, Body
  <2> HIDE DEF c, r
  <2>4. /\ child'[e] = c /\ pipe'[e] = NoPipe /\ run'[e] = r /\ ProcType' /\ ProcOthers(e)
    BY <1>1, <2>1, <2>2, <2>3 DEF ProcType, ProcOthers, c, r
  <2>5. PipeInv(e)'
    <3>1. \A s \in Reader : /\ pipe'[e][s] = 0 /\ child'[e][s] = 0 /\ Cap[s] \in Nat
                            /\ Planned(e)'[s] \in Nat
      BY <2>1, <2>2, <2>4, CapIs, PlanIs DEF Reader, Planned
    <3>2. "stdout" \in Thread
      BY DEF Thread
    <3> QED
      BY <2>1, <2>2, <2>4, <3>1, <3>2 DEF PipeInv, Running
  <2>6. RunInv(e)'
    BY <2>3, <2>4, NoneAssumption DEF RunInv, RunFits, CleanUp
  <2>7. child'[e].plan = plan
    BY <2>1, <2>4
  <2> QED
    BY <2>3, <2>4, <2>5, <2>6, <2>7 DEF ProcInv
<1>2. CASE /\ run' = [run EXCEPT ![e] = [NoRun EXCEPT !.pc = "returned", !.res = "not_launched"]]
           /\ UNCHANGED <<child, pipe>>
  <2> DEFINE r == [NoRun EXCEPT !.pc = "returned", !.res = "not_launched"]
  <2>1. r \in RunType /\ r.pc = "returned" /\ r.res = "not_launched" /\ r.why # "recovery"
    BY NoneAssumption DEF NoRun, RunType, Result
  <2> HIDE DEF r
  <2>2. run'[e] = r /\ ProcType' /\ ProcOthers(e)
    BY <1>2, <2>1 DEF ProcType, ProcOthers, r
  <2>3. PipeInv(e)' /\ Stopped(e)'
    BY <1>2 DEF ProcInv, PipeInv, Planned, EndOfStream, Running, Stopped, Threads
  <2>4. RunInv(e)'
    BY <2>1, <2>2, <2>3, NoneAssumption DEF RunInv, RunFits
  <2> QED
    BY <2>1, <2>2, <2>3, <2>4 DEF ProcInv
<1> QED
  BY <1>1, <1>2 DEF Launch

LEMMA NoRunIs ==
  /\ NoRun \in RunType /\ NoRun.pc = "none" /\ NoRun.res = None /\ NoRun.why # "recovery"
  /\ NoPipe \in PipeType /\ NoPipe.stdout = 0 /\ NoPipe.stderr = 0
  /\ \A w \in Thread : NoPipe.thread[w] = "none"
  /\ NoChild \in ChildType /\ NoChild.stdout = 0 /\ NoChild.stderr = 0 /\ NoChild.st = "none"
  /\ NoChild.plan.stdout = <<>> /\ NoChild.plan = NoPlan /\ NoPlan \in Plan
BY WorkerIs, NoneAssumption DEF NoRun, NoPipe, NoChild, NoPlan, RunType, PipeType, ChildType, ExitCode, Plan

LEMMA NoResultFacts ==
  ASSUME ProcType, NEW e \in Execution, ProcInv(e), UNCHANGED <<child, pipe>>, NoResult(e)
  PROVE  ProcType' /\ ProcOthers(e) /\ ProcInv(e)' /\ run'[e].pc = "none" /\ run'[e].why # "recovery"
<1>1. run'[e] = NoRun /\ ProcType' /\ ProcOthers(e)
  BY NoRunIs DEF NoResult, ProcType, ProcOthers
<1>2. PipeInv(e)'
  BY DEF ProcInv, PipeInv, Planned, EndOfStream, Running
<1>3. RunInv(e)'
  BY <1>1, NoRunIs, NoneAssumption DEF RunInv, RunFits, CleanUp
<1> QED
  BY <1>1, <1>2, <1>3, NoRunIs DEF ProcInv

(* A call that is over, or whose process is gone, leaves no pipe, and a      *)
(* child that is what it was, or is no more, or is on its own.               *)
LEMMA EndsProc ==
  ASSUME ProcType, NEW e \in Execution, ProcInv(e),
         pipe' = [pipe EXCEPT ![e] = NoPipe], run' = [run EXCEPT ![e] = NoRun],
         NEW c \in {child[e], NoChild, [NoChild EXCEPT !.st = "running"]},
         child' = [child EXCEPT ![e] = c]
  PROVE  /\ ProcType' /\ ProcOthers(e) /\ ProcInv(e)' /\ run'[e].pc = "none" /\ run'[e].why # "recovery"
         /\ child'[e] = c /\ Threads(e)' = {}
<1> DEFINE o == [NoChild EXCEPT !.st = "running"]
<1>1. /\ o \in ChildType /\ o.stdout = 0 /\ o.stderr = 0 /\ o.st = "running" /\ o.plan = NoPlan
  BY NoRunIs DEF NoChild, ChildType, ExitCode
<1>2. c \in {child[e], NoChild, o}
  OBVIOUS
<1> HIDE DEF o
<1>3. c \in ChildType
  BY <1>1, <1>2, NoRunIs DEF ProcType
<1>4. /\ child'[e] = c /\ pipe'[e] = NoPipe /\ run'[e] = NoRun /\ ProcType' /\ ProcOthers(e)
  BY <1>3, NoRunIs DEF ProcType, ProcOthers
<1>5. Threads(e)' = {}
  BY <1>4, NoRunIs, ThreadsAre
<1>6. PipeInv(e)'
  <2>1. \A s \in Reader : /\ pipe'[e][s] = 0 /\ Cap[s] \in Nat /\ child'[e][s] \in Nat
                          /\ child'[e][s] =< Planned(e)'[s]
    <3>1. CASE c = child[e]
      BY <1>4, <3>1, NoRunIs, CapIs, PlannedIs DEF ProcInv, PipeInv, Planned, Reader
    <3>2. CASE c = NoChild \/ c = o
      <4>1. c.stdout = 0 /\ c.stderr = 0 /\ c.plan = NoPlan
        BY <1>1, <3>2, NoRunIs
      <4> QED
        BY <1>4, <4>1, NoRunIs, CapIs, PlanIs DEF Planned, Reader
    <3> QED
      BY <1>2, <3>1, <3>2
  <2>2. ~Running(e)' /\ child'[e].code = 0 => child'[e].stdout = Planned(e)'.stdout
    <3>1. CASE c = child[e]
      BY <1>4, <3>1 DEF ProcInv, PipeInv, Planned, Running
    <3>2. CASE c = NoChild
      BY <1>4, <3>2, NoRunIs DEF Planned
    <3>3. CASE c = o
      BY <1>1, <1>4, <3>3 DEF Running
    <3> QED
      BY <1>2, <3>1, <3>2, <3>3
  <2>3. pipe'[e].thread["stdout"] = "none"
    BY <1>4, NoRunIs DEF Thread
  <2> QED
    BY <2>1, <2>2, <2>3 DEF PipeInv
<1>7. RunInv(e)'
  BY <1>4, NoRunIs, NoneAssumption DEF RunInv, RunFits, CleanUp
<1> QED
  BY <1>4, <1>5, <1>6, <1>7, NoRunIs DEF ProcInv

CallRecord(code) ==
  [pc : CallPc, seen : [code : {code}, started : BOOLEAN, remnant : BOOLEAN],
   persisted : {"completed", "failed", None}]

LEMMA CallSet ==
  ASSUME CallsTyped, NEW e \in Execution, NEW code, NEW r \in CallRecord(code),
         call' = [call EXCEPT ![e] = r]
  PROVE  /\ CallsTyped' /\ call'[e] = r
         /\ \A d \in Execution : d # e => call'[d] = call[d]
<1>1. call = [d \in Execution |-> call[d]]
  BY DEF CallsTyped
<1>2. /\ call'[e] = r /\ call' = [d \in Execution |-> call'[d]]
      /\ \A d \in Execution : d # e => call'[d] = call[d]
  BY <1>1
<1>3. r \in CallRecord(r.seen.code)
  BY DEF CallRecord
<1>4. \A d \in Execution : CallTyped(d)'
  BY <1>2, <1>3 DEF CallsTyped, CallTyped, CallRecord
<1> QED
  BY <1>2, <1>4 DEF CallsTyped

LEMMA CallToFacts ==
  ASSUME CallsTyped, NEW e \in Execution, NEW pc \in CallPc, To(e, pc)
  PROVE  /\ CallsTyped' /\ call'[e].pc = pc /\ call'[e].seen = call[e].seen
         /\ call'[e].persisted = call[e].persisted
         /\ \A d \in Execution : d # e => call'[d] = call[d]
<1> DEFINE r == [call[e] EXCEPT !.pc = pc]
<1>1. call[e] \in CallRecord(call[e].seen.code)
  BY DEF CallsTyped, CallTyped, CallRecord
<1>2. /\ r \in CallRecord(call[e].seen.code) /\ r.pc = pc /\ r.seen = call[e].seen
      /\ r.persisted = call[e].persisted
  BY <1>1 DEF CallRecord
<1>3. call' = [call EXCEPT ![e] = r]
  BY DEF To, CallsTyped
<1> HIDE DEF r
<1> QED
  BY <1>2, <1>3, CallSet

LEMMA CallSeesFacts ==
  ASSUME CallsTyped, NEW e \in Execution, NEW pc \in CallPc, NEW code,
         NEW started \in BOOLEAN, NEW remnant \in BOOLEAN,
         call' = [call EXCEPT ![e].pc = pc,
                    ![e].seen = [code |-> code, started |-> started, remnant |-> remnant]]
  PROVE  /\ CallsTyped' /\ call'[e].pc = pc /\ call'[e].persisted = call[e].persisted
         /\ call'[e].seen.code = code /\ call'[e].seen.remnant = remnant
         /\ \A d \in Execution : d # e => call'[d] = call[d]
<1> DEFINE seen == [code |-> code, started |-> started, remnant |-> remnant]
           r == [call[e] EXCEPT !.pc = pc, !.seen = seen]
<1>1. call[e] \in CallRecord(call[e].seen.code)
  BY DEF CallsTyped, CallTyped, CallRecord
<1>2. /\ seen \in [code : {code}, started : BOOLEAN, remnant : BOOLEAN]
      /\ seen.code = code /\ seen.remnant = remnant
  OBVIOUS
<1> HIDE DEF seen
<1>3. /\ r \in CallRecord(code) /\ r.pc = pc /\ r.seen = seen
      /\ r.persisted = call[e].persisted
  BY <1>1, <1>2 DEF CallRecord
<1>4. call' = [call EXCEPT ![e] = r]
  BY DEF CallsTyped, seen
<1> HIDE DEF r
<1>5. /\ CallsTyped' /\ call'[e] = r
      /\ \A d \in Execution : d # e => call'[d] = call[d]
  BY <1>3, <1>4, CallSet
<1> QED
  BY <1>2, <1>3, <1>5

LEMMA IdleIs ==
  /\ Idle \in CallRecord(None) /\ Idle.pc = "idle" /\ Idle.seen.code = None
  /\ Idle.seen.remnant = FALSE /\ Idle.persisted = None
  /\ Untold \in ToldType /\ Untold.how = "nothing" /\ Untold.persisted = None
BY DEF Idle, NoObservation, CallRecord, CallPc, Untold, Told, ToldType

-----------------------------------------------------------------------------
(* A step of one execution leaves the others alone: the lock is not taken    *)
(* from another, and what is forgotten of a call that is over is not kept.   *)
Others(e) ==
  \A d \in Execution : d # e =>
    /\ call'[d] = call[d] /\ attempt'[d] = attempt[d] /\ tasks'[d] = tasks[d]
    /\ lock = d => lock' = d
    /\ d \in orphan' <=> d \in orphan
    /\ \/ told'[d] = told[d] /\ space'[d] = space[d]
       \/ told'[d] = Untold /\ space'[d] = IF At(d, "idle") THEN "none" ELSE space[d]

LEMMA TakenKept ==
  ASSUME NEW e, Taken(e), child'[e] = child[e], Threads(e)' = Threads(e) \/ Threads(e)' = {},
         space'[e] # "present"
  PROVE  Taken(e)'
BY DEF Taken, Stopped, Running, Planned

LEMMA StepKeeps ==
  ASSUME ExecutionInv, NEW e \in Execution, TypeInv', ProcInv(e)', CallOf(e)',
         ProcOthers(e), Others(e)
  PROVE  ExecutionInv'
<1>1. ASSUME NEW d \in Execution, d # e
      PROVE  ProcInv(d)' /\ CallOf(d)'
  <2>1. /\ ProcInv(d) /\ CallOf(d)
        /\ child'[d] = child[d] /\ pipe'[d] = pipe[d] /\ run'[d] = run[d]
        /\ call'[d] = call[d] /\ attempt'[d] = attempt[d] /\ tasks'[d] = tasks[d]
        /\ lock = d => lock' = d
        /\ d \in orphan' <=> d \in orphan
        /\ \/ told'[d] = told[d] /\ space'[d] = space[d]
           \/ told'[d] = Untold /\ space'[d] = IF At(d, "idle") THEN "none" ELSE space[d]
    BY <1>1 DEF ExecutionInv, ProcOthers, Others
  <2>2. (Stopped(d) <=> Stopped(d)') /\ Threads(d)' = Threads(d)
    BY <2>1 DEF Stopped, Running, Threads
  <2>3. ProcInv(d)'
    BY <2>1, <2>2 DEF ProcInv, PipeInv, RunInv, RunFits, Planned, EndOfStream, Running
  <2>4. LockInv(d)' /\ TaskInv(d)'
    BY <2>1, <2>2 DEF CallOf, LockInv, TaskInv, At
  <2>5. SpaceInv(d)' /\ ToldInv(d)'
    BY <2>1, IdleIs DEF CallOf, SpaceInv, ToldInv, At, Clear
  <2>6. AnswerInv(d)'
    BY <2>1, <2>2, TakenKept DEF CallOf, AnswerInv, At, Taken
  <2> QED
    BY <2>3, <2>4, <2>5, <2>6 DEF CallOf
<1> QED
  BY <1>1 DEF ExecutionInv

LEMMA OwnedKeeps ==
  ASSUME ExecutionInv, NEW e \in Execution, Owned(e)
  PROVE  ExecutionInv'
<1>1. /\ TypeInv /\ ProcType /\ ProcInv(e) /\ CallOf(e)
      /\ UNCHANGED <<ledgerVars, call>> /\ ProcStep(e)
  BY DEF ExecutionInv, TypeInv, Owned
<1>2. ProcMove(e)
  BY <1>1, ProcMoves
<1>3. TypeInv'
  BY <1>1, <1>2 DEF ProcMove, TypeInv, ledgerVars, CallsTyped, CallTyped
<1>4. ProcOthers(e) /\ Others(e)
  BY <1>1, <1>2 DEF ProcMove, ProcOthers, Others, ledgerVars
<1>5. CallOf(e)'
  <2>1. LockInv(e)'
    BY <1>1, <1>2 DEF ProcMove, CallOf, LockInv, ledgerVars, At
  <2>2. TaskInv(e)' /\ SpaceInv(e)' /\ ToldInv(e)'
    BY <1>1 DEF CallOf, TaskInv, SpaceInv, ToldInv, ledgerVars, At
  <2>3. AnswerInv(e)'
    <3> SUFFICES ASSUME attempt[e] = "completed" \/ (At(e, "recording") /\ call[e].seen.code = "completed")
                 PROVE  Taken(e)'
      BY <1>1, <1>2 DEF ProcMove, CallOf, AnswerInv, ledgerVars, At
    <3>1. Taken(e) /\ run[e].pc = "none"
      BY <1>1 DEF CallOf, AnswerInv, LockInv, TaskInv, At, Calling
    <3> QED
      BY <1>1, <1>2, <3>1 DEF ProcMove, Taken, Planned, ledgerVars
  <2> QED
    BY <2>1, <2>2, <2>3 DEF CallOf
<1> QED
  BY <1>1, <1>2, <1>3, <1>4, <1>5, StepKeeps DEF ProcMove
-----------------------------------------------------------------------------
(* Every step of a call: admission and its evidence. *)

LEMMA AcquireKeeps ==
  ASSUME ExecutionInv, NEW e \in Execution, Acquire(e)
  PROVE  ExecutionInv'
<1>1. /\ TypeInv /\ ProcType /\ ProcInv(e) /\ CallOf(e) /\ At(e, "idle") /\ e \notin orphan
      /\ UNCHANGED <<child, pipe, run, attempt, orphan, tasks, kills>>
  BY DEF ExecutionInv, TypeInv, Acquire, procVars
<1>2. PICK pc \in {"attempting", "rejecting"} :
        To(e, pc) /\ (IF pc = "attempting" THEN lock = None /\ lock' = e ELSE lock' = lock)
  BY DEF Acquire
<1>3. /\ CallsTyped' /\ call'[e].pc = pc /\ call'[e].seen = call[e].seen
      /\ call'[e].persisted = call[e].persisted
      /\ \A d \in Execution : d # e => call'[d] = call[d]
  BY <1>1, <1>2, CallToFacts DEF TypeInv, CallPc, Clear
<1>4. /\ told' = [f \in Execution |-> Untold]
      /\ space' = [f \in Execution |-> IF At(f, "idle") THEN "none" ELSE space[f]]
      /\ retries' = [retries EXCEPT ![e] = IF attempt[e] = None THEN @ ELSE @ + 1]
      /\ attempt[e] # None => retries[e] < MaxRetries[e]
  BY DEF Acquire
<1>5. retries' \in [Execution -> Nat] /\ \A d \in Execution : retries'[d] =< MaxRetries[d]
  <2>1. MaxRetries[e] \in Nat
    BY ExecutionAssumption
  <2> QED
    BY <1>4, <2>1 DEF ExecutionInv, TypeInv
<1>6. TypeInv'
  <2>1. told' \in [Execution -> ToldType] /\ space' \in [Execution -> {"none", "present", "removed"}]
    BY <1>1, <1>4, IdleIs DEF TypeInv
  <2>2. ProcType'
    BY <1>1 DEF ProcType
  <2> QED
    BY <1>1, <1>2, <1>3, <1>5, <2>1, <2>2 DEF TypeInv
<1>7. ProcOthers(e) /\ Others(e) /\ ProcInv(e)'
  <2>1. ProcOthers(e) /\ ProcInv(e)'
    BY <1>1 DEF ProcOthers, ProcInv, PipeInv, RunInv, RunFits, Planned, EndOfStream, Running, Stopped, Threads
  <2>2. Others(e)
    BY <1>1, <1>2, <1>3, <1>4, ExecutionAssumption DEF Others
  <2> QED
    BY <2>1, <2>2
<1>8. CallOf(e)'
  <2>1. Stopped(e)' /\ Stopped(e) /\ Threads(e)' = Threads(e)
    BY <1>1 DEF CallOf, LockInv, At, Calling, Stopped, Running, Threads
  <2>2. LockInv(e)' /\ TaskInv(e)'
    BY <1>1, <1>2, <1>3, <2>1 DEF CallOf, LockInv, TaskInv, At, Calling
  <2>3. space'[e] = "none" /\ told'[e] = Untold
    BY <1>1, <1>4
  <2>4. SpaceInv(e)' /\ ToldInv(e)'
    BY <1>1, <1>3, <2>3, IdleIs DEF CallOf, SpaceInv, ToldInv, At, Clear
  <2>5. AnswerInv(e)'
    BY <1>1, <1>3, <2>1, <2>3, TakenKept DEF CallOf, AnswerInv, At
  <2> QED
    BY <2>2, <2>4, <2>5 DEF CallOf
<1> QED
  BY <1>6, <1>7, <1>8, StepKeeps

(* A step of a call that moves nothing but the call, the ref of its attempt, *)
(* the count of its tasks and its workspace.                                 *)
Ledgers ==
  /\ attempt \in [Execution -> Evidence \union {None}] /\ tasks \in [Execution -> Nat]
  /\ space \in [Execution -> {"none", "present", "removed"}]

LEMMA LedgerStep ==
  ASSUME ExecutionInv, NEW e \in Execution,
         UNCHANGED <<lock, told, orphan, retries, kills>>,
         ProcType', ProcOthers(e), ProcInv(e)', CallsTyped', Ledgers',
         \A d \in Execution : d # e => /\ call'[d] = call[d] /\ attempt'[d] = attempt[d]
                                       /\ tasks'[d] = tasks[d] /\ space'[d] = space[d],
         CallOf(e)'
  PROVE  ExecutionInv'
<1>1. TypeInv'
  BY DEF ExecutionInv, TypeInv, Ledgers
<1>2. Others(e)
  BY DEF Others
<1> QED
  BY <1>1, <1>2, StepKeeps

LEMMA EvidenceIs ==
  ASSUME TypeInv, NEW e \in Execution, NEW expected, NEW value \in Evidence, NEW outcome \in Outcomes,
         UpdateRef(e, expected, value, outcome)
  PROVE  /\ attempt' \in [Execution -> Evidence \union {None}]
         /\ \A d \in Execution : d # e => attempt'[d] = attempt[d]
         /\ \/ attempt[e] = expected /\ attempt'[e] = value
            \/ outcome = "failed" /\ attempt'[e] = attempt[e]
BY DEF UpdateRef, TypeInv, Outcomes

(* What the invariant says of the caller, for the steps that follow. *)
LEMMA Here ==
  ASSUME ExecutionInv, NEW e \in Execution
  PROVE  /\ TypeInv /\ ProcType /\ ProcInv(e) /\ CallOf(e) /\ CallsTyped /\ Ledgers
         /\ call[e].seen.remnant \in BOOLEAN /\ call[e].persisted \in {"completed", "failed", None}
         /\ call[e].pc \in CallPc
BY DEF ExecutionInv, TypeInv, Ledgers, CallsTyped, CallTyped

(* A process that does not move keeps what holds of it. *)
LEMMA ProcStill ==
  ASSUME ProcType, NEW e \in Execution, ProcInv(e), UNCHANGED procVars
  PROVE  ProcType' /\ ProcOthers(e) /\ ProcInv(e)' /\ run'[e] = run[e]
         /\ (Stopped(e) <=> Stopped(e)') /\ child'[e] = child[e] /\ Threads(e)' = Threads(e)
BY DEF procVars, ProcType, ProcOthers, ProcInv, PipeInv, RunInv, RunFits, Planned, EndOfStream,
       Running, Stopped, Threads

LEMMA PersistKeeps ==
  ASSUME ExecutionInv, NEW e \in Execution, PersistRejection(e) \/ PersistStart(e)
  PROVE  ExecutionInv'
<1>1. /\ TypeInv /\ ProcType /\ ProcInv(e) /\ CallOf(e) /\ CallsTyped /\ Ledgers
      /\ UNCHANGED <<child, pipe, run, lock, space, told, orphan, retries, kills>>
  BY Here DEF PersistRejection, PersistStart, procVars
<1>2. /\ ProcType' /\ ProcOthers(e) /\ ProcInv(e)' /\ run'[e] = run[e]
      /\ (Stopped(e) <=> Stopped(e)') /\ child'[e] = child[e] /\ Threads(e)' = Threads(e)
  BY <1>1, ProcStill DEF procVars
<1>3. CASE PersistRejection(e)
  <2>1. /\ At(e, "rejecting") /\ To(e, "idle") /\ tasks' = tasks
        /\ attempt' \in [Execution -> Evidence \union {None}]
        /\ \A d \in Execution : d # e => attempt'[d] = attempt[d]
        /\ (attempt[e] = None /\ attempt'[e] = "rejected") \/ attempt'[e] = attempt[e]
    BY <1>1, <1>3, EvidenceIs DEF PersistRejection, PersistAttempt, Evidence
  <2>2. /\ CallsTyped' /\ call'[e].pc = "idle" /\ call'[e].seen = call[e].seen
        /\ call'[e].persisted = call[e].persisted
        /\ \A d \in Execution : d # e => call'[d] = call[d]
    BY <1>1, <2>1, CallToFacts DEF CallPc
  <2>3. Ledgers'
    BY <1>1, <2>1 DEF Ledgers
  <2>4. LockInv(e)' /\ TaskInv(e)'
    BY <1>1, <1>2, <2>1, <2>2, ExecutionAssumption DEF CallOf, LockInv, TaskInv, At, Calling
  <2>5. SpaceInv(e)' /\ ToldInv(e)'
    BY <1>1, <2>1, <2>2, IdleIs, ExecutionAssumption DEF CallOf, SpaceInv, ToldInv, At, Clear
  <2>6. AnswerInv(e)'
    BY <1>1, <1>2, <2>1, <2>2, TakenKept DEF CallOf, AnswerInv, At, Taken
  <2> QED
    BY <1>1, <1>2, <2>1, <2>2, <2>3, <2>4, <2>5, <2>6, LedgerStep DEF CallOf
<1>4. CASE PersistStart(e)
  <2>1. PICK outcome \in Outcomes :
          /\ PersistAttempt(e, "start", outcome)
          /\ To(e, IF outcome = "done" THEN "prompting" ELSE "releasing")
          /\ tasks' = [tasks EXCEPT ![e] = IF outcome = "done" THEN @ + 1 ELSE @]
    BY <1>4 DEF PersistStart
  <2> DEFINE pc == IF outcome = "done" THEN "prompting" ELSE "releasing"
  <2>2. /\ At(e, "attempting") /\ attempt' \in [Execution -> Evidence \union {None}]
        /\ \A d \in Execution : d # e => attempt'[d] = attempt[d]
        /\ \/ attempt[e] = None /\ attempt'[e] = "start"
           \/ outcome = "failed" /\ attempt'[e] = attempt[e]
    BY <1>1, <1>4, <2>1, EvidenceIs DEF PersistStart, PersistAttempt, Evidence
  <2>3. To(e, pc) /\ pc \in CallPc
    BY <2>1 DEF CallPc, Clear
  <2>4. /\ CallsTyped' /\ call'[e].pc = pc /\ call'[e].seen = call[e].seen
        /\ call'[e].persisted = call[e].persisted
        /\ \A d \in Execution : d # e => call'[d] = call[d]
    BY <1>1, <2>3, CallToFacts
  <2>5. /\ tasks' \in [Execution -> Nat] /\ \A d \in Execution : d # e => tasks'[d] = tasks[d]
        /\ tasks'[e] = IF outcome = "done" THEN tasks[e] + 1 ELSE tasks[e]
    BY <1>1, <2>1 DEF Ledgers
  <2>6. Ledgers'
    BY <1>1, <2>2, <2>5 DEF Ledgers
  <2>7. LockInv(e)'
    BY <1>1, <1>2, <2>2, <2>4 DEF CallOf, LockInv, At, Calling
  <2>8. TaskInv(e)'
    BY <1>1, <2>2, <2>4, <2>5, ExecutionAssumption DEF CallOf, TaskInv, At, Calling
  <2>9. SpaceInv(e)' /\ ToldInv(e)'
    BY <1>1, <2>2, <2>4, IdleIs, ExecutionAssumption DEF CallOf, SpaceInv, ToldInv, At, Clear
  <2>10. AnswerInv(e)'
    BY <1>1, <1>2, <2>2, <2>4, TakenKept DEF CallOf, AnswerInv, At, Taken
  <2> QED
    BY <1>1, <1>2, <2>2, <2>4, <2>5, <2>6, <2>7, <2>8, <2>9, <2>10, LedgerStep DEF CallOf
<1> QED
  BY <1>3, <1>4

-----------------------------------------------------------------------------
(* Every step of a call: the task. *)

(* A task goes on, or comes to an end without an answer, and no workspace is *)
(* made or removed.                                                          *)
LEMMA OnwardStep ==
  ASSUME ExecutionInv, NEW e \in Execution, UNCHANGED ledgerVars,
         call[e].pc \in {"prompting", "version", "preparing", "launching", "answering"},
         ProcType', ProcOthers(e), ProcInv(e)', CallsTyped',
         \A d \in Execution : d # e => call'[d] = call[d],
         NEW pc \in {"version", "preparing", "launching", "answering", "recording", "releasing", "unresolved"},
         call'[e].pc = pc, call'[e].persisted = call[e].persisted, ~call'[e].seen.remnant,
         call'[e].seen.code = None \/ (pc = "recording" /\ call'[e].seen.code # "completed"),
         run'[e].pc = "none" <=> pc \notin Calling, run'[e].why # "recovery",
         pc \notin Calling => Stopped(e)',
         pc \in {"launching", "answering"} => space[e] = "present",
         pc = "answering" => run'[e].res = "not_launched" \/ child'[e].plan \in AnswerPlans[e],
         pc \in {"version", "preparing", "recording", "releasing"} => space[e] # "present"
  PROVE  ExecutionInv'
<1>1. CallOf(e) /\ Ledgers /\ UNCHANGED <<lock, attempt, space, told, orphan, retries, tasks, kills>>
  BY Here DEF ledgerVars
<1>2. LockInv(e)' /\ TaskInv(e)'
  BY <1>1 DEF CallOf, LockInv, TaskInv, At, Calling
<1>3. SpaceInv(e)'
  BY <1>1, IdleIs DEF CallOf, SpaceInv, ToldInv, At, Clear
<1>4. ToldInv(e)'
  BY <1>1 DEF CallOf, ToldInv, At
<1>5. AnswerInv(e)'
  BY <1>1, ExecutionAssumption DEF CallOf, AnswerInv, TaskInv, At, Calling
<1>6. Ledgers'
  BY <1>1 DEF Ledgers
<1> QED
  BY <1>1, <1>2, <1>3, <1>4, <1>5, <1>6, LedgerStep DEF CallOf

(* To another place of the call. *)
LEMMA OnwardTo ==
  ASSUME ExecutionInv, NEW e \in Execution, UNCHANGED ledgerVars,
         call[e].pc \in {"prompting", "version", "preparing", "launching", "answering"},
         ProcType', ProcOthers(e), ProcInv(e)',
         NEW pc \in {"version", "preparing", "launching", "answering", "recording", "releasing", "unresolved"},
         To(e, pc),
         run'[e].pc = "none" <=> pc \notin Calling, run'[e].why # "recovery",
         pc \notin Calling => Stopped(e)',
         pc \in {"launching", "answering"} => space[e] = "present",
         pc = "answering" => run'[e].res = "not_launched" \/ child'[e].plan \in AnswerPlans[e],
         pc \in {"version", "preparing", "recording", "releasing"} => space[e] # "present"
  PROVE  ExecutionInv'
<1>1. CallsTyped /\ CallOf(e) /\ pc \in CallPc
  BY Here DEF CallPc, Clear
<1>2. /\ CallsTyped' /\ call'[e].pc = pc /\ call'[e].seen = call[e].seen
      /\ call'[e].persisted = call[e].persisted
      /\ \A d \in Execution : d # e => call'[d] = call[d]
  BY <1>1, CallToFacts
<1>3. ~call'[e].seen.remnant /\ call'[e].seen.code = None
  BY <1>1, <1>2 DEF CallOf, SpaceInv, AnswerInv, At, Clear
<1> QED
  BY <1>2, <1>3, OnwardStep

(* To the evidence of an observation that is not of success. *)
LEMMA OnwardSees ==
  ASSUME ExecutionInv, NEW e \in Execution, UNCHANGED ledgerVars,
         call[e].pc \in {"prompting", "version"}, ProcType', ProcOthers(e), ProcInv(e)',
         NEW code, code # "completed", Observes(e, code, FALSE, "recording"),
         run'[e].pc = "none", run'[e].why # "recovery", Stopped(e)'
  PROVE  ExecutionInv'
<1>1. CallsTyped /\ CallOf(e) /\ "recording" \in CallPc
  BY Here DEF CallPc
<1>2. /\ CallsTyped' /\ call'[e].pc = "recording" /\ call'[e].persisted = call[e].persisted
      /\ call'[e].seen.code = code /\ call'[e].seen.remnant = FALSE
      /\ \A d \in Execution : d # e => call'[d] = call[d]
  BY <1>1, CallSeesFacts DEF Observes
<1>3. space[e] # "present"
  BY <1>1 DEF CallOf, SpaceInv, Clear
<1> QED
  BY <1>2, <1>3, OnwardStep DEF Calling

LEMMA CheckPromptKeeps ==
  ASSUME ExecutionInv, NEW e \in Execution, CheckPrompt(e)
  PROVE  ExecutionInv'
<1>1. /\ ProcType /\ ProcInv(e) /\ CallOf(e) /\ call[e].pc = "prompting" /\ UNCHANGED ledgerVars
  BY Here DEF CheckPrompt, At
<1>2. Stopped(e) /\ run[e].pc = "none" /\ run[e].why # "recovery" /\ space[e] # "present"
  BY <1>1 DEF CallOf, LockInv, SpaceInv, At, Calling, Clear
<1>3. CASE Observes(e, "input_limit_exceeded", FALSE, "recording") /\ UNCHANGED procVars
  <2>1. /\ ProcType' /\ ProcOthers(e) /\ ProcInv(e)' /\ run'[e].pc = "none" /\ Stopped(e)'
          /\ run'[e].why # "recovery"
    BY <1>1, <1>2, <1>3, ProcStill
  <2> QED
    BY <1>1, <1>3, <2>1, OnwardSees
<1>4. ASSUME To(e, "version"), NEW plan \in VersionPlans[e], Launch(e, plan)
      PROVE  ExecutionInv'
  <2>1. plan \in Plan
    BY DEF Plan
  <2>2. ProcType' /\ ProcOthers(e) /\ ProcInv(e)' /\ run'[e].pc # "none" /\ run'[e].why # "recovery"
    BY <1>1, <1>2, <1>4, <2>1, LaunchFacts
  <2> QED
    BY <1>1, <1>2, <1>4, <2>2, OnwardTo DEF Calling
<1> QED
  BY <1>3, <1>4 DEF CheckPrompt

LEMMA CheckVersionKeeps ==
  ASSUME ExecutionInv, NEW e \in Execution, CheckVersion(e)
  PROVE  ExecutionInv'
<1>1. /\ ProcType /\ ProcInv(e) /\ CallOf(e) /\ call[e].pc = "version" /\ UNCHANGED ledgerVars
      /\ UNCHANGED <<child, pipe>> /\ run[e].pc = "returned"
  BY Here DEF CheckVersion, At, RunAt
<1>2. space[e] # "present" /\ run[e].why # "recovery"
  BY <1>1 DEF CallOf, SpaceInv, LockInv, At, Clear
<1>3. CASE To(e, "unresolved") /\ UNCHANGED run
  <2>1. /\ ProcType' /\ ProcOthers(e) /\ ProcInv(e)' /\ run'[e].pc # "none" /\ run'[e].why # "recovery"
    BY <1>1, <1>2, <1>3, ProcStill DEF procVars
  <2> QED
    BY <1>1, <1>3, <2>1, OnwardTo DEF Calling
<1>4. CASE NoResult(e) /\ run[e].res # "unresolved"
  <2>1. /\ ProcType' /\ ProcOthers(e) /\ ProcInv(e)' /\ run'[e].pc = "none" /\ run'[e].why # "recovery"
    BY <1>1, <1>4, NoResultFacts
  <2>2. Stopped(e)'
    BY <1>1, <1>4 DEF ProcInv, RunInv, RunFits, Stopped, Running, Threads
  <2>3. CASE \E pc \in {"recording", "releasing", "preparing"} : To(e, pc)
    BY <1>1, <1>2, <2>1, <2>2, <2>3, OnwardTo DEF Calling
  <2>4. CASE \E code \in {"runtime_unavailable", "runtime_mismatch"} : Observes(e, code, FALSE, "recording")
    BY <1>1, <2>1, <2>2, <2>4, OnwardSees
  <2> QED
    BY <1>4, <2>3, <2>4 DEF CheckVersion, TaskRaises
<1> QED
  BY <1>3, <1>4 DEF CheckVersion

LEMMA AnswerKeeps ==
  ASSUME ExecutionInv, NEW e \in Execution, LaunchAnswer(e) \/ AnswerUnresolved(e)
  PROVE  ExecutionInv'
<1>1. ProcType /\ ProcInv(e) /\ CallOf(e) /\ UNCHANGED ledgerVars
  BY Here DEF LaunchAnswer, AnswerUnresolved
<1>2. CASE LaunchAnswer(e)
  <2>1. /\ call[e].pc = "launching" /\ Stopped(e) /\ space[e] = "present"
    BY <1>1, <1>2 DEF LaunchAnswer, CallOf, LockInv, SpaceInv, At, Calling
  <2>2. PICK plan \in AnswerPlans[e] : Launch(e, plan) /\ To(e, "answering")
    BY <1>2 DEF LaunchAnswer
  <2>3. plan \in Plan
    BY DEF Plan
  <2>4. /\ ProcType' /\ ProcOthers(e) /\ ProcInv(e)' /\ run'[e].pc # "none" /\ run'[e].why # "recovery"
        /\ run'[e].res = "not_launched" \/ child'[e].plan = plan
    BY <1>1, <2>1, <2>2, <2>3, LaunchFacts
  <2> QED
    BY <1>1, <2>1, <2>2, <2>4, OnwardTo DEF Calling
<1>3. CASE AnswerUnresolved(e)
  <2>1. /\ call[e].pc = "answering" /\ run[e].pc = "returned" /\ To(e, "unresolved")
        /\ UNCHANGED procVars /\ run[e].why # "recovery"
    BY <1>1, <1>3 DEF AnswerUnresolved, CallOf, LockInv, At, RunAt
  <2>2. /\ ProcType' /\ ProcOthers(e) /\ ProcInv(e)' /\ run'[e].pc # "none" /\ run'[e].why # "recovery"
    BY <1>1, <2>1, ProcStill
  <2> QED
    BY <1>1, <2>1, <2>2, OnwardTo DEF Calling
<1> QED
  BY <1>2, <1>3

LEMMA MakeWorkspaceKeeps ==
  ASSUME ExecutionInv, NEW e \in Execution, MakeWorkspace(e)
  PROVE  ExecutionInv'
<1>1. /\ ProcType /\ ProcInv(e) /\ CallOf(e) /\ CallsTyped /\ Ledgers /\ call[e].pc = "preparing"
      /\ UNCHANGED <<procVars, lock, attempt, told, orphan, retries, tasks, kills>>
  BY Here DEF MakeWorkspace, At
<1>2. /\ ProcType' /\ ProcOthers(e) /\ ProcInv(e)' /\ run'[e] = run[e]
      /\ (Stopped(e) <=> Stopped(e)') /\ run[e].pc = "none" /\ Stopped(e) /\ space[e] # "present"
      /\ run[e].why # "recovery"
  BY <1>1, ProcStill DEF CallOf, LockInv, SpaceInv, At, Calling, Clear
<1>3. CASE UNCHANGED space /\ TaskRaises(e)
  BY <1>1, <1>2, <1>3, OnwardTo DEF Calling, TaskRaises, ledgerVars
<1>4. CASE space' = [space EXCEPT ![e] = "present"] /\ To(e, "launching")
  <2>1. /\ CallsTyped' /\ call'[e].pc = "launching" /\ call'[e].seen = call[e].seen
        /\ call'[e].persisted = call[e].persisted
        /\ \A d \in Execution : d # e => call'[d] = call[d]
    BY <1>1, <1>4, CallToFacts DEF CallPc
  <2>2. /\ space'[e] = "present" /\ Ledgers'
        /\ \A d \in Execution : d # e => space'[d] = space[d]
    BY <1>1, <1>4 DEF Ledgers
  <2>3. LockInv(e)' /\ TaskInv(e)'
    BY <1>1, <1>2, <2>1 DEF CallOf, LockInv, TaskInv, At, Calling
  <2>4. SpaceInv(e)' /\ ToldInv(e)'
    BY <1>1, <2>1, <2>2, IdleIs DEF CallOf, SpaceInv, ToldInv, At, Clear
  <2>5. AnswerInv(e)'
    BY <1>1, <2>1 DEF CallOf, AnswerInv, TaskInv, At, Calling
  <2> QED
    BY <1>1, <1>2, <2>1, <2>2, <2>3, <2>4, <2>5, LedgerStep DEF CallOf
<1> QED
  BY <1>3, <1>4 DEF MakeWorkspace


-----------------------------------------------------------------------------
(* Every step of a call: the answer and the end of it. *)

(* A child whose answer is taken ended well, and all it wrote was read and   *)
(* judged.                                                                   *)
LEMMA AnswerWorth ==
  ASSUME ProcType, NEW e \in Execution, ProcInv(e), run[e].pc = "returned",
         run[e].res \notin {"unresolved", "interrupt"}, run[e].why # "recovery",
         At(e, "answering"), AnswerInv(e), NEW removed \in BOOLEAN, TransportCode(e, removed) = "completed"
  PROVE  /\ Stopped(e) /\ child[e].code = 0 /\ child[e].stdout = Planned(e).stdout
         /\ Verdict(child[e].plan.stdout) = "completed"
         /\ AnswerVerdict(e, Answer(child[e].plan.stdout)) = "completed"
         /\ removed /\ child[e].plan \in AnswerPlans[e]
<1> DEFINE out == Completed(e)
<1>1. run[e].res = "completed"
  BY NoneAssumption DEF TransportCode, ProcType, RunType, Result, ProcInv, RunInv, RunFits
<1>2. Judgement(e, out, removed) = "completed"
  BY <1>1 DEF TransportCode
<1> HIDE DEF out
<1>3. /\ ~OverLimit(out) /\ out.code = 0 /\ Verdict(out.stdout) = "completed" /\ removed
      /\ AnswerVerdict(e, Answer(out.stdout)) = "completed"
  BY <1>2 DEF Judgement
<1>4. /\ out.over = pipe[e].over /\ out.code = child[e].code
      /\ out.stdout = SubSeq(child[e].plan.stdout, 1, pipe[e].stdout)
  BY DEF out, Completed
<1>5. ~pipe[e].over
  BY <1>3, <1>4 DEF OverLimit
<1>6. Stopped(e) /\ run[e].why = None
  BY <1>1, <1>5, NoneAssumption DEF ProcInv, RunInv, RunFits
<1>7. ~pipe[e].failed /\ pipe[e].thread["stdout"] = "done"
  BY <1>1, <1>6, NoneAssumption DEF ProcInv, RunInv, RunFits, Thread
<1>8. pipe[e].stdout = child[e].stdout /\ child[e].stdout = Planned(e).stdout
  BY <1>3, <1>4, <1>5, <1>6, <1>7 DEF ProcInv, PipeInv, Stopped
<1>9. child[e].plan \in Plan /\ child[e].plan \in AnswerPlans[e]
  BY <1>1 DEF ProcType, ChildType, AnswerInv
<1>10. out.stdout = child[e].plan.stdout
  BY <1>4, <1>8, <1>9, PlanIs DEF Planned
<1> QED
  BY <1>3, <1>4, <1>6, <1>8, <1>9, <1>10

LEMMA CleanWorkspaceKeeps ==
  ASSUME ExecutionInv, NEW e \in Execution, CleanWorkspace(e)
  PROVE  ExecutionInv'
<1>1. /\ ProcType /\ ProcInv(e) /\ CallOf(e) /\ CallsTyped /\ Ledgers
      /\ call[e].pc = "answering" /\ run[e].pc = "returned" /\ run[e].res # "unresolved"
      /\ UNCHANGED <<child, pipe, lock, attempt, told, orphan, retries, tasks, kills>> /\ NoResult(e)
  BY Here DEF CleanWorkspace, At, RunAt
<1>2. /\ ProcType' /\ ProcOthers(e) /\ ProcInv(e)' /\ run'[e].pc = "none" /\ run'[e].why # "recovery"
  BY <1>1, NoResultFacts
<1>3. Stopped(e)' /\ Stopped(e) /\ run[e].why # "recovery"
  BY <1>1 DEF ProcInv, RunInv, RunFits, CallOf, LockInv, At, Stopped, Running, Threads
<1>4. PICK removed \in BOOLEAN :
       /\ space' = [space EXCEPT ![e] = IF removed THEN "removed" ELSE "present"]
       /\ IF run[e].res = "interrupt"
          THEN call' = [call EXCEPT ![e].pc = "releasing", ![e].seen.remnant = ~removed]
          ELSE call' = [call EXCEPT ![e].pc = "recording",
                 ![e].seen = [code |-> TransportCode(e, removed), started |-> run[e].res # "not_launched",
                              remnant |-> ~removed]]
  BY DEF CleanWorkspace
<1>5. /\ space'[e] = (IF removed THEN "removed" ELSE "present") /\ Ledgers'
      /\ \A d \in Execution : d # e => space'[d] = space[d]
  BY <1>1, <1>4 DEF Ledgers
<1>6. PICK pc \in {"recording", "releasing"} :
        /\ CallsTyped' /\ call'[e].pc = pc /\ call'[e].persisted = call[e].persisted
        /\ call'[e].seen.remnant = ~removed
        /\ \A d \in Execution : d # e => call'[d] = call[d]
        /\ pc = "releasing" => call'[e].seen.code = None
        /\ pc = "recording" => run[e].res # "interrupt" /\ call'[e].seen.code = TransportCode(e, removed)
  <2>1. CASE run[e].res = "interrupt"
    <3> DEFINE r == [call[e] EXCEPT !.pc = "releasing", !.seen.remnant = ~removed]
    <3>1. call[e] \in CallRecord(call[e].seen.code) /\ call[e].seen.code = None
      BY <1>1 DEF CallsTyped, CallTyped, CallRecord, CallOf, AnswerInv, At
    <3>2. /\ r \in CallRecord(None) /\ r.pc = "releasing" /\ r.seen.remnant = ~removed
          /\ r.persisted = call[e].persisted /\ r.seen.code = None
      BY <3>1 DEF CallRecord, CallPc
    <3>3. call' = [call EXCEPT ![e] = r]
      BY <1>1, <1>4, <2>1 DEF CallsTyped
    <3> HIDE DEF r
    <3>4. CallsTyped' /\ call'[e] = r /\ \A d \in Execution : d # e => call'[d] = call[d]
      BY <1>1, <3>2, <3>3, CallSet
    <3> QED
      BY <3>2, <3>4
  <2>2. CASE run[e].res # "interrupt"
    <3> DEFINE code == TransportCode(e, removed)
               started == run[e].res # "not_launched"
               remnant == ~removed
    <3>1. "recording" \in CallPc /\ started \in BOOLEAN /\ remnant \in BOOLEAN
      BY DEF CallPc
    <3>2. call' = [call EXCEPT ![e].pc = "recording",
                     ![e].seen = [code |-> code, started |-> started, remnant |-> remnant]]
      BY <1>4, <2>2
    <3> HIDE DEF code, started, remnant
    <3>3. /\ CallsTyped' /\ call'[e].pc = "recording" /\ call'[e].persisted = call[e].persisted
          /\ call'[e].seen.code = code /\ call'[e].seen.remnant = remnant
          /\ \A d \in Execution : d # e => call'[d] = call[d]
      BY <1>1, <3>1, <3>2, CallSeesFacts
    <3> QED
      BY <2>2, <3>3 DEF code, remnant
  <2> QED
    BY <2>1, <2>2
<1>7. LockInv(e)' /\ TaskInv(e)'
  BY <1>1, <1>2, <1>3, <1>6 DEF CallOf, LockInv, TaskInv, At, Calling
<1>8. SpaceInv(e)' /\ ToldInv(e)'
  BY <1>1, <1>5, <1>6, IdleIs DEF CallOf, SpaceInv, ToldInv, At, Clear
<1>9. AnswerInv(e)'
  <2>1. attempt'[e] = "start"
    BY <1>1 DEF CallOf, TaskInv, Calling
  <2>2. ASSUME pc = "recording", TransportCode(e, removed) = "completed"
        PROVE  Taken(e)'
    <3>1. /\ child[e].code = 0 /\ child[e].stdout = Planned(e).stdout /\ removed
          /\ Verdict(child[e].plan.stdout) = "completed"
          /\ AnswerVerdict(e, Answer(child[e].plan.stdout)) = "completed"
          /\ child[e].plan \in AnswerPlans[e]
      BY <1>1, <1>3, <1>6, <2>2, AnswerWorth DEF CallOf, At
    <3> QED
      BY <1>1, <1>3, <1>5, <3>1 DEF Taken, Planned
  <2> QED
    BY <1>6, <2>1, <2>2 DEF AnswerInv, At
<1> QED
  BY <1>1, <1>2, <1>5, <1>6, <1>7, <1>8, <1>9, LedgerStep DEF CallOf


LEMMA PersistTerminalKeeps ==
  ASSUME ExecutionInv, NEW e \in Execution, PersistTerminal(e)
  PROVE  ExecutionInv'
<1>1. /\ TypeInv /\ ProcType /\ ProcInv(e) /\ CallOf(e) /\ CallsTyped /\ Ledgers
      /\ call[e].pc = "recording" /\ call[e].seen.remnant \in BOOLEAN /\ attempt[e] = "start"
      /\ UNCHANGED <<procVars, lock, space, told, orphan, retries, tasks, kills>>
  BY Here DEF PersistTerminal, At, CallOf, TaskInv
<1>2. /\ ProcType' /\ ProcOthers(e) /\ ProcInv(e)' /\ run'[e] = run[e]
      /\ (Stopped(e) <=> Stopped(e)') /\ child'[e] = child[e] /\ Threads(e)' = Threads(e)
      /\ Stopped(e) /\ run[e].pc = "none"
  BY <1>1, ProcStill DEF CallOf, LockInv, At, Calling
<1> DEFINE code == call[e].seen.code
<1>3. ASSUME CallsTyped', call'[e].pc = "releasing", call'[e].seen.code = None,
             call'[e].seen.remnant = call[e].seen.remnant,
             \A d \in Execution : d # e => call'[d] = call[d],
             attempt' \in [Execution -> Evidence \union {None}],
             \A d \in Execution : d # e => attempt'[d] = attempt[d],
             attempt'[e] \in {"start", Terminal(code)},
             call'[e].persisted \in {None, attempt'[e]}
      PROVE  ExecutionInv'
  <2>1. Ledgers'
    BY <1>1, <1>3 DEF Ledgers
  <2>2. Terminal(code) \in {"completed", "failed"} /\ (Terminal(code) = "completed" => code = "completed")
    BY DEF Terminal
  <2>3. LockInv(e)' /\ TaskInv(e)'
    BY <1>1, <1>2, <1>3, <2>2, ExecutionAssumption DEF CallOf, LockInv, TaskInv, At, Calling
  <2>4. SpaceInv(e)' /\ ToldInv(e)'
    BY <1>1, <1>3, IdleIs DEF CallOf, SpaceInv, ToldInv, At, Clear
  <2>5. attempt'[e] = "completed" => Taken(e)
    BY <1>1, <1>3, <2>2 DEF CallOf, AnswerInv, At
  <2>6. AnswerInv(e)'
    BY <1>1, <1>2, <1>3, <2>5, TakenKept DEF AnswerInv, At, Taken
  <2> QED
    BY <1>1, <1>2, <1>3, <2>1, <2>3, <2>4, <2>6, LedgerStep DEF CallOf
<1>4. CASE code = None
  <2>1. To(e, "releasing") /\ attempt' = attempt
    BY <1>4 DEF PersistTerminal
  <2>2. /\ CallsTyped' /\ call'[e].pc = "releasing" /\ call'[e].seen = call[e].seen
        /\ call'[e].persisted = call[e].persisted
        /\ \A d \in Execution : d # e => call'[d] = call[d]
    BY <1>1, <2>1, CallToFacts DEF CallPc
  <2>3. call[e].persisted = None
    BY <1>1 DEF CallOf, ToldInv, At
  <2> QED
    BY <1>1, <1>3, <1>4, <2>1, <2>2, <2>3 DEF Ledgers
<1>5. CASE code # None
  <2> DEFINE persisted(outcome) == IF outcome = "done" THEN Terminal(code) ELSE None
             r(outcome) == [Idle EXCEPT !.pc = "releasing", !.seen.remnant = call[e].seen.remnant,
                                        !.persisted = persisted(outcome)]
  <2>1. PICK outcome \in Outcomes :
          PersistRecord(e, Terminal(code), outcome) /\ call' = [call EXCEPT ![e] = r(outcome)]
    BY <1>5 DEF PersistTerminal
  <2>2. Terminal(code) \in Evidence /\ Terminal(code) \in {"completed", "failed"}
    BY DEF Terminal, Evidence
  <2>3. /\ attempt' \in [Execution -> Evidence \union {None}]
        /\ \A d \in Execution : d # e => attempt'[d] = attempt[d]
        /\ \/ attempt'[e] = Terminal(code)
           \/ outcome = "failed" /\ attempt'[e] = "start"
    <3> DEFINE status == Terminal(code)
    <3>1. UpdateRef(e, "start", status, outcome) /\ status \in Evidence
      BY <2>1, <2>2 DEF PersistRecord
    <3> HIDE DEF status
    <3>2. /\ attempt' \in [Execution -> Evidence \union {None}]
          /\ \A d \in Execution : d # e => attempt'[d] = attempt[d]
          /\ \/ attempt[e] = "start" /\ attempt'[e] = status
             \/ outcome = "failed" /\ attempt'[e] = attempt[e]
      BY <1>1, <3>1, EvidenceIs, ZenonT(30)
    <3> QED
      BY <1>1, <3>2 DEF status
  <2>4. persisted(outcome) \in {"completed", "failed", None} /\ persisted(outcome) \in {None, attempt'[e]}
    BY <2>2, <2>3
  <2> HIDE DEF persisted
  <2>5. /\ r(outcome) \in CallRecord(None) /\ r(outcome).pc = "releasing"
        /\ r(outcome).seen.code = None /\ r(outcome).seen.remnant = call[e].seen.remnant
        /\ r(outcome).persisted = persisted(outcome)
    BY <1>1, <2>4 DEF Idle, NoObservation, CallRecord, CallPc
  <2> HIDE DEF r, code
  <2>6. CallsTyped' /\ call'[e] = r(outcome) /\ \A d \in Execution : d # e => call'[d] = call[d]
    BY <1>1, <2>1, <2>5, CallSet
  <2> QED
    BY <1>3, <2>3, <2>4, <2>5, <2>6
<1> QED
  BY <1>4, <1>5

(* What a call leaves when it is over: the lock is given up only by the      *)
(* process that holds it.                                                    *)
LEMMA OverKeeps ==
  ASSUME ExecutionInv, NEW e \in Execution, Forget(e), call[e].pc \in {"releasing", "unresolved"},
         lock' \in {lock, None}, Stopped(e),
         NEW t \in ToldType, told' = [told EXCEPT ![e] = t],
         t.persisted # None => attempt[e] = t.persisted,
         t.how # "nothing", space[e] = "present" <=> t.remnant,
         UNCHANGED <<attempt, space, orphan, retries, tasks, kills>>
  PROVE  ExecutionInv'
<1>1. /\ TypeInv /\ ProcType /\ ProcInv(e) /\ CallOf(e) /\ CallsTyped /\ Ledgers
  BY Here
<1>2. PICK c \in {child[e], NoChild, [NoChild EXCEPT !.st = "running"]} :
        /\ child' = [child EXCEPT ![e] = c]
        /\ attempt[e] = "completed" \/ ~Stopped(e) => c = child[e]
        /\ c \in {child[e], NoChild}
  <2>1. child = [child EXCEPT ![e] = child[e]]
    BY <1>1 DEF ProcType
  <2> QED
    BY <2>1 DEF Forget
<1>3. /\ ProcType' /\ ProcOthers(e) /\ ProcInv(e)' /\ run'[e].pc = "none" /\ run'[e].why # "recovery"
      /\ child'[e] = c /\ Threads(e)' = {}
  BY <1>1, <1>2, EndsProc DEF Forget
<1>4. /\ CallsTyped' /\ call'[e] = Idle
      /\ \A d \in Execution : d # e => call'[d] = call[d]
  BY <1>1, IdleIs, CallSet DEF Forget
<1>5. told' \in [Execution -> ToldType] /\ told'[e] = t /\ \A d \in Execution : d # e => told'[d] = told[d]
  BY <1>1 DEF TypeInv
<1>6. TypeInv'
  BY <1>1, <1>3, <1>4, <1>5 DEF TypeInv
<1>7. lock = e /\ Others(e)
  BY <1>1, <1>4, <1>5, ExecutionAssumption DEF Others, CallOf, LockInv, At
<1>8. Stopped(e)'
  BY <1>2, <1>3, NoRunIs DEF Stopped, Running
<1>9. LockInv(e)' /\ TaskInv(e)'
  BY <1>1, <1>3, <1>4, <1>8, IdleIs DEF CallOf, LockInv, TaskInv, At, Calling
<1>10. SpaceInv(e)' /\ ToldInv(e)'
  BY <1>4, <1>5, IdleIs, ExecutionAssumption DEF SpaceInv, ToldInv, At, Clear
<1>11. AnswerInv(e)'
  <2>1. attempt[e] = "completed" => Taken(e)
    BY <1>1 DEF CallOf, AnswerInv
  <2> QED
    BY <1>2, <1>3, <1>4, <2>1, IdleIs, TakenKept DEF AnswerInv, At, Taken
<1> QED
  BY <1>3, <1>6, <1>7, <1>9, <1>10, <1>11, StepKeeps DEF CallOf


LEMMA ReleaseKeeps ==
  ASSUME ExecutionInv, NEW e \in Execution, Release(e) \/ ReleaseRecovered(e)
  PROVE  ExecutionInv'
<1>1. CallOf(e) /\ call[e].seen.remnant \in BOOLEAN /\ call[e].persisted \in {"completed", "failed", None}
  BY Here
<1>2. CASE Release(e)
  <2> DEFINE t == Told("returned", call[e].seen.remnant, call[e].persisted)
  <2>1. /\ t \in ToldType /\ t.how # "nothing" /\ t.remnant = call[e].seen.remnant
        /\ t.persisted = call[e].persisted
    BY <1>1 DEF Told, ToldType
  <2>2. told' = [told EXCEPT ![e] = t]
    BY <1>2 DEF Release
  <2> HIDE DEF t
  <2>3. /\ call[e].pc = "releasing" /\ Stopped(e)
        /\ (space[e] = "present" <=> t.remnant) /\ (t.persisted # None => attempt[e] = t.persisted)
    BY <1>1, <1>2, <2>1 DEF Release, At, CallOf, LockInv, SpaceInv, ToldInv, Calling
  <2> QED
    BY <1>2, <2>1, <2>2, <2>3, OverKeeps DEF Release
<1>3. CASE ReleaseRecovered(e)
  <2> DEFINE t == Told("recovered", space[e] = "present", None)
  <2>1. /\ t \in ToldType /\ t.how # "nothing" /\ (t.remnant <=> space[e] = "present")
        /\ t.persisted = None
    BY DEF Told, ToldType
  <2>2. told' = [told EXCEPT ![e] = t]
    BY <1>3 DEF ReleaseRecovered
  <2> HIDE DEF t
  <2> QED
    BY <1>3, <2>1, <2>2, OverKeeps DEF ReleaseRecovered, At
<1> QED
  BY <1>2, <1>3

-----------------------------------------------------------------------------
(* The steps of a caller after its call, and a killed process. *)

LEMMA ReleaseRetainedKeeps ==
  ASSUME ExecutionInv, NEW e \in Execution, ReleaseRetained(e)
  PROVE  ExecutionInv'
<1>1. /\ TypeInv /\ ProcType /\ ProcInv(e) /\ CallOf(e) /\ At(e, "idle") /\ lock = e /\ lock' = None
      /\ UNCHANGED <<procVars, attempt, space, call, told, orphan, retries, tasks, kills>>
  BY Here DEF ReleaseRetained
<1>2. /\ ProcType' /\ ProcOthers(e) /\ ProcInv(e)' /\ run'[e] = run[e]
      /\ (Stopped(e) <=> Stopped(e)') /\ child'[e] = child[e] /\ Threads(e)' = Threads(e)
  BY <1>1, ProcStill
<1>3. TypeInv' /\ Others(e)
  BY <1>1, <1>2 DEF TypeInv, Others, CallsTyped, CallTyped
<1>4. CallOf(e)'
  <2>1. LockInv(e)' /\ TaskInv(e)'
    BY <1>1, <1>2 DEF CallOf, LockInv, TaskInv, At, Calling
  <2>2. SpaceInv(e)' /\ ToldInv(e)'
    BY <1>1 DEF CallOf, SpaceInv, ToldInv, At, Clear
  <2>3. AnswerInv(e)'
    BY <1>1, <1>2, TakenKept DEF CallOf, AnswerInv, At, Taken
  <2> QED
    BY <2>1, <2>2, <2>3 DEF CallOf
<1> QED
  BY <1>2, <1>3, <1>4, StepKeeps

LEMMA RecoverKeeps ==
  ASSUME ExecutionInv, NEW e \in Execution, Recover(e)
  PROVE  ExecutionInv'
<1>1. /\ TypeInv /\ ProcType /\ ProcInv(e) /\ CallOf(e) /\ CallsTyped /\ Ledgers
      /\ call[e].pc = "unresolved" /\ UNCHANGED <<ledgerVars, call, child, pipe>>
  BY Here DEF Recover, At, RecoverChild
<1> DEFINE r == [run[e] EXCEPT !.pc = "terminating", !.why = "recovery", !.late = FALSE, !.res = None]
<1>2. run[e] \in RunType /\ run' = [run EXCEPT ![e] = r]
  BY <1>1 DEF Recover, RecoverChild, ProcType
<1>3. r \in RunType /\ r.pc = "terminating" /\ r.why = "recovery" /\ r.res = None
  BY <1>2 DEF RunType, CleanUp, Cause
<1> HIDE DEF r
<1>4. run'[e] = r /\ ProcType' /\ ProcOthers(e)
  BY <1>1, <1>2, <1>3 DEF ProcType, ProcOthers
<1>5. ProcInv(e)'
  BY <1>1, <1>3, <1>4, NoneAssumption
  DEF ProcInv, PipeInv, RunInv, RunFits, Planned, EndOfStream, Running
<1>6. CallOf(e)'
  <2>1. LockInv(e)' /\ TaskInv(e)'
    BY <1>1, <1>3, <1>4 DEF CallOf, LockInv, TaskInv, At, Calling, ledgerVars
  <2>2. SpaceInv(e)' /\ ToldInv(e)'
    BY <1>1 DEF CallOf, SpaceInv, ToldInv, At, Clear, ledgerVars
  <2>3. AnswerInv(e)'
    BY <1>1 DEF CallOf, AnswerInv, TaskInv, At, Calling, ledgerVars
  <2> QED
    BY <2>1, <2>2, <2>3 DEF CallOf
<1>7. CallsTyped' /\ Ledgers'
  BY <1>1 DEF ledgerVars, CallsTyped, CallTyped, Ledgers
<1> QED
  BY <1>1, <1>4, <1>5, <1>6, <1>7, LedgerStep DEF ledgerVars

LEMMA RecoverWorkspaceKeeps ==
  ASSUME ExecutionInv, NEW e \in Execution, RecoverWorkspace(e)
  PROVE  ExecutionInv'
<1>1. /\ TypeInv /\ ProcType /\ ProcInv(e) /\ CallOf(e) /\ CallsTyped /\ Ledgers
      /\ call[e].pc = "unresolved"
      /\ UNCHANGED <<procVars, lock, attempt, told, orphan, retries, tasks, kills>>
  BY Here DEF RecoverWorkspace, At
<1>2. /\ ProcType' /\ ProcOthers(e) /\ ProcInv(e)' /\ run'[e] = run[e]
  BY <1>1, ProcStill
<1>3. ASSUME CallsTyped', call'[e].pc = "unresolved", call'[e].seen.code = call[e].seen.code,
             call'[e].persisted = call[e].persisted,
             \A d \in Execution : d # e => call'[d] = call[d],
             space' \in [Execution -> {"none", "present", "removed"}],
             \A d \in Execution : d # e => space'[d] = space[d]
      PROVE  ExecutionInv'
  <2>1. Ledgers'
    BY <1>1, <1>3 DEF Ledgers
  <2>2. LockInv(e)' /\ TaskInv(e)'
    BY <1>1, <1>2, <1>3 DEF CallOf, LockInv, TaskInv, At, Calling
  <2>3. SpaceInv(e)' /\ ToldInv(e)'
    BY <1>1, <1>3, IdleIs DEF CallOf, SpaceInv, ToldInv, At, Clear
  <2>4. AnswerInv(e)'
    BY <1>1, <1>3 DEF CallOf, AnswerInv, TaskInv, At, Calling
  <2> QED
    BY <1>1, <1>2, <1>3, <2>1, <2>2, <2>3, <2>4, LedgerStep DEF CallOf
<1>4. CASE space' = [space EXCEPT ![e] = IF @ = "present" THEN "removed" ELSE @] /\ UNCHANGED call
  BY <1>1, <1>3, <1>4 DEF Ledgers, CallsTyped, CallTyped
<1>5. CASE call' = [call EXCEPT ![e].seen.remnant = TRUE] /\ UNCHANGED space
  <2> DEFINE r == [call[e] EXCEPT !.seen.remnant = TRUE]
  <2>1. call[e] \in CallRecord(call[e].seen.code)
    BY <1>1 DEF CallsTyped, CallTyped, CallRecord
  <2>2. /\ r \in CallRecord(call[e].seen.code) /\ r.pc = call[e].pc
        /\ r.persisted = call[e].persisted /\ r.seen.code = call[e].seen.code
    BY <2>1 DEF CallRecord
  <2>3. call' = [call EXCEPT ![e] = r]
    BY <1>1, <1>5 DEF CallsTyped
  <2> HIDE DEF r
  <2>4. CallsTyped' /\ call'[e] = r /\ \A d \in Execution : d # e => call'[d] = call[d]
    BY <1>1, <2>2, <2>3, CallSet
  <2> QED
    BY <1>1, <1>3, <1>5, <2>2, <2>4 DEF Ledgers
<1> QED
  BY <1>4, <1>5 DEF RecoverWorkspace

(* A killed process leaves what it has persisted, and a child that runs.     *)
LEMMA DieKeeps ==
  ASSUME ExecutionInv, NEW e \in Execution, Die(e)
  PROVE  ExecutionInv'
<1>1. /\ TypeInv /\ ProcType /\ ProcInv(e) /\ CallOf(e) /\ CallsTyped /\ Ledgers
      /\ UNCHANGED <<attempt, retries, tasks>>
      /\ kills' = [kills EXCEPT ![e] = @ + 1]
      /\ lock' = IF lock = e THEN None ELSE lock
      /\ orphan' = IF Running(e) THEN orphan \union {e} ELSE orphan
      /\ pipe' = [pipe EXCEPT ![e] = NoPipe] /\ run' = [run EXCEPT ![e] = NoRun]
      /\ call' = [call EXCEPT ![e] = Idle] /\ told' = [told EXCEPT ![e] = Untold]
      /\ space' = [space EXCEPT ![e] = "none"]
  BY Here DEF Die
<1>2. PICK c \in {child[e], NoChild, [NoChild EXCEPT !.st = "running"]} :
        /\ child' = [child EXCEPT ![e] = c]
        /\ ~Running(e) /\ attempt[e] = "completed" => c = child[e]
        /\ ~Running(e) => c \in {child[e], NoChild}
  BY DEF Die
<1>3. /\ ProcType' /\ ProcOthers(e) /\ ProcInv(e)' /\ run'[e].pc = "none" /\ run'[e].why # "recovery"
      /\ child'[e] = c /\ Threads(e)' = {}
  BY <1>1, <1>2, EndsProc
<1>4. /\ CallsTyped' /\ call'[e] = Idle
      /\ \A d \in Execution : d # e => call'[d] = call[d]
  BY <1>1, IdleIs, CallSet
<1>5. /\ told' \in [Execution -> ToldType] /\ told'[e] = Untold
      /\ \A d \in Execution : d # e => told'[d] = told[d]
      /\ space' \in [Execution -> {"none", "present", "removed"}] /\ space'[e] = "none"
      /\ \A d \in Execution : d # e => space'[d] = space[d]
  BY <1>1, IdleIs DEF TypeInv
<1>6. TypeInv'
  BY <1>1, <1>3, <1>4, <1>5 DEF TypeInv
<1>7. Others(e)
  BY <1>1, <1>4, <1>5 DEF Others
<1>8. e \notin orphan' => Stopped(e)'
  BY <1>1, <1>2, <1>3, NoRunIs DEF Stopped, Running
<1>9. LockInv(e)' /\ TaskInv(e)'
  BY <1>1, <1>3, <1>4, <1>8, IdleIs DEF CallOf, LockInv, TaskInv, At, Calling
<1>10. SpaceInv(e)' /\ ToldInv(e)'
  BY <1>4, <1>5, IdleIs DEF SpaceInv, ToldInv, At, Clear
<1>11. AnswerInv(e)'
  <2>1. attempt[e] = "completed" => Taken(e) /\ ~Running(e)
    BY <1>1 DEF CallOf, AnswerInv, Taken, Stopped
  <2> QED
    BY <1>1, <1>2, <1>3, <1>4, <1>5, <2>1, IdleIs, TakenKept DEF AnswerInv, At
<1> QED
  BY <1>3, <1>6, <1>7, <1>9, <1>10, <1>11, StepKeeps DEF CallOf


-----------------------------------------------------------------------------
LEMMA ExecutionInit == Init => ExecutionInv
<1> SUFFICES ASSUME Init
             PROVE  ExecutionInv
  OBVIOUS
<1>1. /\ child = [e \in Execution |-> NoChild] /\ pipe = [e \in Execution |-> NoPipe]
      /\ run = [e \in Execution |-> NoRun] /\ lock = None /\ attempt = [e \in Execution |-> None]
      /\ space = [e \in Execution |-> "none"] /\ call = [e \in Execution |-> Idle]
      /\ told = [e \in Execution |-> Untold] /\ orphan = {} /\ tasks = [e \in Execution |-> 0]
  BY DEF Init, ProcInit
<1>2. TypeInv
  <2>1. ProcType
    BY <1>1, NoRunIs DEF ProcType
  <2>2. CallsTyped
    BY <1>1, IdleIs DEF CallsTyped, CallTyped, CallRecord
  <2>3. \A e \in Execution : retries[e] =< MaxRetries[e]
    BY ExecutionAssumption DEF Init
  <2> QED
    BY <1>1, <2>1, <2>2, <2>3, IdleIs DEF TypeInv, Init
<1>3. ASSUME NEW e \in Execution
      PROVE  ProcInv(e) /\ CallOf(e)
  <2>1. /\ child[e] = NoChild /\ pipe[e] = NoPipe /\ run[e] = NoRun /\ attempt[e] = None
        /\ space[e] = "none" /\ call[e] = Idle /\ told[e] = Untold /\ tasks[e] = 0
    BY <1>1
  <2>2. Stopped(e)
    BY <2>1, NoRunIs, ThreadsAre DEF Stopped, Running
  <2>3. PipeInv(e)
    <3>1. \A s \in Reader : /\ pipe[e][s] = 0 /\ child[e][s] = 0 /\ Planned(e)[s] = 0 /\ Cap[s] \in Nat
      BY <2>1, NoRunIs, CapIs DEF Reader, Planned, NoPlan
    <3>2. Planned(e).stdout = child[e].stdout /\ pipe[e].thread["stdout"] = "none"
      BY <2>1, NoRunIs DEF Planned, Thread
    <3> QED
      BY <3>1, <3>2 DEF PipeInv
  <2>4. RunInv(e)
    BY <2>1, NoRunIs, NoneAssumption DEF RunInv, RunFits, CleanUp
  <2>5. LockInv(e) /\ TaskInv(e)
    BY <1>1, <2>1, <2>2, IdleIs, NoRunIs DEF LockInv, TaskInv, At, Calling
  <2>6. SpaceInv(e) /\ ToldInv(e) /\ AnswerInv(e)
    BY <1>1, <2>1, IdleIs, ExecutionAssumption DEF SpaceInv, ToldInv, AnswerInv, At, Clear
  <2> QED
    BY <2>3, <2>4, <2>5, <2>6 DEF ProcInv, CallOf
<1> QED
  BY <1>2, <1>3 DEF ExecutionInv

LEMMA ExecutionStep == ExecutionInv /\ [Next]_vars => ExecutionInv'
<1> SUFFICES ASSUME ExecutionInv, [Next]_vars
             PROVE  ExecutionInv'
  OBVIOUS
<1>1. ASSUME NEW e \in Execution, CallStep(e)
      PROVE  ExecutionInv'
  BY <1>1, PersistKeeps, CheckPromptKeeps, CheckVersionKeeps, MakeWorkspaceKeeps, AnswerKeeps,
     CleanWorkspaceKeeps, PersistTerminalKeeps, ReleaseKeeps DEF CallStep
<1>2. CASE Next
  BY <1>1, <1>2, AcquireKeeps, OwnedKeeps, ReleaseRetainedKeeps, RecoverKeeps, RecoverWorkspaceKeeps,
     ReleaseKeeps, DieKeeps DEF Next
<1>3. CASE UNCHANGED vars
  <2>1. /\ child' = child /\ pipe' = pipe /\ run' = run /\ lock' = lock /\ attempt' = attempt
        /\ space' = space /\ call' = call /\ told' = told /\ orphan' = orphan
        /\ retries' = retries /\ tasks' = tasks /\ kills' = kills
    BY <1>3 DEF vars, procVars
  <2>2. TypeInv'
    BY <2>1 DEF ExecutionInv, TypeInv, ProcType, CallsTyped, CallTyped
  <2>3. ASSUME NEW e \in Execution
        PROVE  ProcInv(e)' /\ CallOf(e)'
    <3>1. ProcInv(e)'
      BY <2>1 DEF ExecutionInv, ProcInv, PipeInv, RunInv, RunFits, Planned, EndOfStream, Running,
                  Stopped, Threads
    <3>2. LockInv(e)' /\ TaskInv(e)'
      BY <2>1 DEF ExecutionInv, CallOf, LockInv, TaskInv, At, Stopped, Running, Threads
    <3>3. SpaceInv(e)' /\ ToldInv(e)'
      BY <2>1 DEF ExecutionInv, CallOf, SpaceInv, ToldInv, At
    <3>4. AnswerInv(e)'
      BY <2>1, TakenKept DEF ExecutionInv, CallOf, AnswerInv, At, Threads, Taken
    <3> QED
      BY <3>1, <3>2, <3>3, <3>4 DEF CallOf
  <2> QED
    BY <2>2, <2>3 DEF ExecutionInv
<1> QED
  BY <1>2, <1>3

(* The process, its threads, the call, its lock, its workspace and its       *)
(* evidence fit together in every reachable state.                           *)
THEOREM ExecutionConsistent == Spec => []ExecutionInv
BY ExecutionInit, ExecutionStep, PTL DEF Spec

(* While a child of an execution runs, or a thread serves its pipes, its     *)
(* process holds the Instance's lock, unless it was killed.                  *)
THEOREM LockKept == Spec => []LockCoversChild
<1>1. ExecutionInv => LockCoversChild
  BY DEF ExecutionInv, CallOf, LockInv, Calling, LockCoversChild
<1> QED
  BY <1>1, ExecutionConsistent, PTL

(* The task of an execution begins at most once, whatever is called again,   *)
(* fails or is killed.                                                       *)
THEOREM TaskOnce == Spec => []OneTask
<1>1. ExecutionInv => OneTask
  BY DEF ExecutionInv, CallOf, TaskInv, OneTask
<1> QED
  BY <1>1, ExecutionConsistent, PTL

(* What a call has told of its workspace and of its evidence is so until the *)
(* next call.                                                                *)
THEOREM CallsConsistent == Spec => []CallInv
<1>1. ASSUME ExecutionInv
      PROVE  CallInv
  <2>1. ASSUME NEW e \in Execution
        PROVE  /\ child[e].st \in {"none", "running", "ended"} /\ child[e].held \in BOOLEAN
               /\ child[e].stdout \in 0 .. Planned(e).stdout /\ child[e].stderr \in 0 .. Planned(e).stderr
               /\ \A s \in Reader : pipe[e][s] \in 0 .. Cap[s] + 1
               /\ run[e].late \in BOOLEAN
               /\ space[e] \in {"none", "present", "removed"}
               /\ call[e].seen.remnant \in BOOLEAN /\ told[e].remnant \in BOOLEAN
               /\ retries[e] \in 0 .. MaxRetries[e]
    <3>1. TypeInv /\ ProcType /\ PipeInv(e) /\ child[e] \in ChildType /\ run[e] \in RunType
          /\ told[e] \in ToldType /\ call[e].seen.remnant \in BOOLEAN
      BY <1>1, Here DEF ExecutionInv, ProcInv, TypeInv, ProcType
    <3>2. \A s \in Reader : /\ Planned(e)[s] \in Nat /\ child[e][s] \in Nat /\ pipe[e][s] \in Nat
                            /\ pipe[e][s] =< Cap[s] + 1 /\ child[e][s] =< Planned(e)[s] /\ Cap[s] \in Nat
      BY <3>1, PlannedIs, CapIs DEF PipeInv
    <3>3. child[e].stdout \in 0 .. Planned(e).stdout /\ child[e].stderr \in 0 .. Planned(e).stderr
      BY <3>2 DEF Reader
    <3>4. retries[e] \in 0 .. MaxRetries[e]
      BY <3>1, ExecutionAssumption DEF TypeInv
    <3> QED
      BY <3>1, <3>2, <3>3, <3>4 DEF TypeInv, ChildType, RunType, ToldType
  <2>2. TypeOK
    BY <1>1, <2>1 DEF ExecutionInv, TypeInv, TypeOK
  <2>3. SpaceAccounted /\ EvidenceTold
    BY <1>1 DEF ExecutionInv, CallOf, SpaceInv, ToldInv, SpaceAccounted, EvidenceTold
  <2> QED
    BY <2>2, <2>3 DEF CallInv
<1> QED
  BY <1>1, ExecutionConsistent, PTL

(* Every attempt recorded as completed is one whose child had ended with     *)
(* status 0 and whose whole output was read and passed every check, and that *)
(* left no workspace.                                                        *)
AnswersTaken == \A e \in Execution : attempt[e] = "completed" => Taken(e)
THEOREM TakenOnly == Spec => []AnswersTaken
<1>1. ExecutionInv => AnswersTaken
  BY DEF ExecutionInv, CallOf, AnswerInv, AnswersTaken
<1> QED
  BY <1>1, ExecutionConsistent, PTL

-----------------------------------------------------------------------------
(* What the verdicts on a stream and on its answer say. *)

LEMMA Smallest ==
  ASSUME NEW S \in SUBSET Nat, S # {}
  PROVE  Min(S) \in S
<1> DEFINE R == OpToRel(<, Nat)
<1> HIDE DEF R
<1>1. PICK n \in S : \A m \in S : ~ (<<m, n>> \in R)
  <2>1. IsWellFoundedOn(R, Nat)
    BY NatLessThanWellFounded DEF R
  <2> QED BY <2>1, WFMin
<1>2. ASSUME NEW m \in S PROVE n =< m
  <2>1. m \in Nat /\ n \in Nat
    OBVIOUS
  <2>2. ~ (m < n)
    BY <1>1, <2>1 DEF R, OpToRel
  <2> QED BY <2>1, <2>2
<1> QED BY <1>1, <1>2 DEF Min

(* A stream whose verdict is "completed" is whole, and has the one message   *)
(* that is its answer.                                                       *)
LEMMA VerdictWorth ==
  ASSUME NEW lines, lines \in Seq(ToSet(lines)), Verdict(lines) = "completed"
  PROVE  /\ WholeStream(lines)
         /\ \A i \in DOMAIN lines : IsMessage(lines[i]) => Messages(lines) = {i} /\ lines[i].answer = Answer(lines)
<1> DEFINE undecoded == {i \in Processed(lines) : DecodeFailure(lines[i]) # "none"}
           refused == {i \in Decoded(lines) : EventFailure(lines[i]) # "none"}
<1>1. DOMAIN lines = 1 .. Len(lines) /\ Len(lines) \in Nat
  OBVIOUS
<1>2. ~Restricted(lines) /\ Failure(lines) \in {"none", "completed"}
  BY DEF Verdict
<1>3. \A l : DecodeFailure(l) # "completed" /\ EventFailure(l) # "completed"
  BY DEF DecodeFailure, EventFailure, ItemFailure
<1>4. Failure(lines) = "none"
  BY <1>2, <1>3 DEF Failure
<1>5. OneOf(Messages(lines)) /\ OneOf(CompletedTurns(lines))
  BY <1>2, <1>4 DEF Verdict
<1>6. undecoded \in SUBSET Nat /\ refused \in SUBSET Nat
  BY <1>1 DEF Processed, Decoded
<1>7. ~(Len(lines) > MaxEvents)
  BY <1>4 DEF Failure
<1>8. Len(lines) =< MaxEvents /\ Processed(lines) = DOMAIN lines
  BY <1>1, <1>7, EventsAssumption DEF Processed
<1>9. undecoded = {}
  <2> SUFFICES ASSUME undecoded # {} PROVE FALSE
    OBVIOUS
  <2>1. Min(undecoded) \in undecoded
    BY <1>6, Smallest
  <2>2. Failure(lines) = DecodeFailure(lines[Min(undecoded)])
    BY <1>7 DEF Failure
  <2> QED
    BY <1>4, <2>1, <2>2
<1>10. Decoded(lines) = DOMAIN lines
  BY <1>8, <1>9 DEF Decoded, DecodeFailure
<1>11. refused = {}
  <2> SUFFICES ASSUME refused # {} PROVE FALSE
    OBVIOUS
  <2>1. Min(refused) \in refused
    BY <1>6, Smallest
  <2>2. Failure(lines) = EventFailure(lines[Min(refused)])
    BY <1>7, <1>9 DEF Failure
  <2> QED
    BY <1>4, <2>1, <2>2
<1>12. ASSUME NEW i \in DOMAIN lines
       PROVE  /\ lines[i].json = "object"
              /\ lines[i].type \in SupportedTypes \ {"error", "turn.failed"}
              /\ lines[i].type \in ItemEvents => lines[i].item \in NonToolItems
  <2>1. lines[i].json = "object"
    BY <1>10 DEF Decoded
  <2>2. EventFailure(lines[i]) = "none"
    BY <1>10, <1>11
  <2>3. lines[i].type \in ItemEvents => lines[i].item \notin RestrictedItems
    BY <1>2, <1>10 DEF Restricted
  <2>4. CASE lines[i].type \in ItemEvents
    <3>1. ItemFailure(lines[i]) = "none"
      BY <2>2, <2>4 DEF EventFailure
    <3>2. lines[i].item \in NonToolItems
      BY <2>3, <2>4, <3>1 DEF ItemFailure
    <3> QED
      BY <2>1, <2>4, <3>2 DEF SupportedTypes, ItemEvents
  <2>5. CASE lines[i].type \notin ItemEvents
    BY <2>1, <2>2, <2>5 DEF EventFailure
  <2> QED
    BY <2>4, <2>5
<1>13. /\ Messages(lines) = {j \in DOMAIN lines : IsMessage(lines[j])}
       /\ CompletedTurns(lines) = {j \in DOMAIN lines : lines[j].type = "turn.completed"}
  BY <1>10 DEF Messages, CompletedTurns, IsMessage
<1>14. WholeStream(lines)
  BY <1>5, <1>8, <1>12, <1>13 DEF WholeStream, OneOf
<1>15. ASSUME NEW i \in DOMAIN lines, IsMessage(lines[i])
       PROVE  Messages(lines) = {i} /\ lines[i].answer = Answer(lines)
  <2>1. Messages(lines) = {i}
    BY <1>5, <1>13, <1>15 DEF OneOf
  <2>2. Min({i}) = i
    BY <1>1, Smallest
  <2> QED
    BY <2>1, <2>2 DEF Answer
<1> QED
  BY <1>14, <1>15

(* Where no check fails, each is passed. *)
LEMMA ChecksHold ==
  ASSUME NEW codes, DOMAIN codes \in SUBSET Nat, FirstFailure(codes) = "completed"
  PROVE  \A i \in DOMAIN codes : codes[i] = "completed"
<1> DEFINE failed == {i \in DOMAIN codes : codes[i] # "completed"}
<1> SUFFICES ASSUME failed # {} PROVE FALSE
  OBVIOUS
<1>1. Min(failed) \in failed
  BY Smallest
<1>2. FirstFailure(codes) = codes[Min(failed)]
  BY DEF FirstFailure
<1> QED
  BY <1>1, <1>2

LEMMA CheckHolds ==
  ASSUME NEW holds \in BOOLEAN, NEW code, code # "completed", Check(holds, code) = "completed"
  PROVE  holds
BY DEF Check

LEMMA LicensingWorth ==
  ASSUME NEW answer, NEW documents, LicensingVerdict(answer, documents) = "completed"
  PROVE  answer.citation = <<documents[1]>>
<1> DEFINE codes == <<
      Check(answer.size = "within", "response_limit_exceeded"),
      Check(answer.json, "response_invalid_json"),
      Check(answer.fields, "response_field_invalid"),
      Check(answer.citation = <<documents[1]>>, "response_citation_mismatch"),
      Check(answer.rendered = "within", "response_limit_exceeded")>>
<1>1. FirstFailure(codes) = "completed"
  BY DEF LicensingVerdict
<1>2. /\ DOMAIN codes = 1 .. 5
      /\ codes[4] = Check(answer.citation = <<documents[1]>>, "response_citation_mismatch")
  OBVIOUS
<1> HIDE DEF codes
<1>3. codes[4] = "completed"
  BY <1>1, <1>2, ChecksHold
<1> QED
  BY <1>2, <1>3, CheckHolds

(* A citation that is not refused is of a supplied document, a finding that  *)
(* is not refused has only such, and so have those of a review that is taken.*)
LEMMA CitationWorth ==
  ASSUME NEW citations, NEW i, NEW documents, CitationVerdict(citations, i, documents) = "completed"
  PROVE  citations[i] \in ToSet(documents)
<1> DEFINE formed == citations[i] # "malformed"
           supplied == citations[i] \in ToSet(documents)
           fresh == \A j \in 1 .. i - 1 : citations[j] # citations[i]
           codes == <<Check(formed, "response_field_invalid"),
                      Check(supplied, "response_citation_mismatch"),
                      Check(fresh, "response_field_invalid")>>
<1>1. FirstFailure(codes) = "completed"
  BY Zenon DEF CitationVerdict
<1>2. supplied \in BOOLEAN
  OBVIOUS
<1> HIDE DEF formed, supplied, fresh
<1>3. DOMAIN codes = 1 .. 3 /\ codes[2] = Check(supplied, "response_citation_mismatch")
  OBVIOUS
<1> HIDE DEF codes
<1>4. codes[2] = "completed"
  BY <1>1, <1>3, ChecksHold
<1>5. supplied
  BY <1>2, <1>3, <1>4, CheckHolds
<1> QED
  BY <1>5 DEF supplied

LEMMA FindingWorth ==
  ASSUME NEW finding, NEW documents, finding.citations \in Seq(ToSet(finding.citations)),
         FindingVerdict(finding, documents) = "completed"
  PROVE  ToSet(finding.citations) \subseteq ToSet(documents)
<1> DEFINE cited == [i \in DOMAIN finding.citations |-> CitationVerdict(finding.citations, i, documents)]
           codes == <<
      Check(finding.fields, "response_field_invalid"),
      Check(Len(finding.citations) \in 1 .. MaxCitations, "response_limit_exceeded"),
      FirstFailure(cited),
      FirstFailure([i \in DOMAIN finding.texts |-> TextVerdict(finding.texts[i])])>>
<1>1. FirstFailure(codes) = "completed"
  BY DEF FindingVerdict
<1>2. DOMAIN codes = 1 .. 4 /\ codes[3] = FirstFailure(cited)
  OBVIOUS
<1> HIDE DEF codes
<1>3. FirstFailure(cited) = "completed"
  BY <1>1, <1>2, ChecksHold
<1>4. DOMAIN cited = DOMAIN finding.citations /\ DOMAIN cited \in SUBSET Nat
  OBVIOUS
<1>5. \A i \in DOMAIN finding.citations : cited[i] = CitationVerdict(finding.citations, i, documents)
  OBVIOUS
<1> HIDE DEF cited
<1>6. \A i \in DOMAIN finding.citations : CitationVerdict(finding.citations, i, documents) = "completed"
  BY <1>3, <1>4, <1>5, ChecksHold
<1>7. \A i \in DOMAIN finding.citations : finding.citations[i] \in ToSet(documents)
  BY <1>6, CitationWorth
<1> QED
  BY <1>7 DEF ToSet

LEMMA ReviewWorth ==
  ASSUME NEW answer, NEW documents, answer.findings \in Seq(ToSet(answer.findings)),
         \A n \in DOMAIN answer.findings :
           answer.findings[n].citations \in Seq(ToSet(answer.findings[n].citations)),
         ReviewVerdict(answer, documents) = "completed"
  PROVE  \A n \in DOMAIN answer.findings : ToSet(answer.findings[n].citations) \subseteq ToSet(documents)
<1> DEFINE found == [i \in DOMAIN answer.findings |-> FindingVerdict(answer.findings[i], documents)]
           codes == <<
      Check(answer.unicode, "response_invalid_unicode"),
      Check(answer.size = "within", "response_limit_exceeded"),
      Check(answer.json, "response_invalid_json"),
      Check(answer.strings, "response_invalid_unicode"),
      Check(answer.fields /\ answer.outcome \in ReviewOutcomes, "response_field_invalid"),
      Check(Len(answer.findings) <= MaxFindings, "response_limit_exceeded"),
      Check(OutcomeFits(answer), "response_field_invalid"),
      TextVerdict(answer.insufficient),
      FirstFailure(found)>>
<1>1. FirstFailure(codes) = "completed"
  BY DEF ReviewVerdict
<1>2. DOMAIN codes = 1 .. 9 /\ codes[9] = FirstFailure(found)
  OBVIOUS
<1> HIDE DEF codes
<1>3. FirstFailure(found) = "completed"
  BY <1>1, <1>2, ChecksHold
<1>4. DOMAIN found = DOMAIN answer.findings /\ DOMAIN found \in SUBSET Nat
  OBVIOUS
<1>5. \A n \in DOMAIN answer.findings : found[n] = FindingVerdict(answer.findings[n], documents)
  OBVIOUS
<1> HIDE DEF found
<1>6. \A n \in DOMAIN answer.findings : FindingVerdict(answer.findings[n], documents) = "completed"
  BY <1>3, <1>4, <1>5, ChecksHold
<1> QED
  BY <1>6, FindingWorth

(* An answer that is taken cites nothing but the context.                    *)
LEMMA AnswerCites ==
  ASSUME NEW e \in Execution, NEW plan \in AnswerPlans[e], Verdict(plan.stdout) = "completed",
         AnswerVerdict(e, Answer(plan.stdout)) = "completed", NEW i \in DOMAIN plan.stdout, IsMessage(plan.stdout[i])
  PROVE  CitesContext(e, plan.stdout[i].answer)
<1> DEFINE answer == plan.stdout[i].answer
<1>1. plan.stdout \in Seq(ToSet(plan.stdout))
  BY PlanAssumption
<1>2. Messages(plan.stdout) = {i} /\ AnswerVerdict(e, answer) = "completed"
  BY <1>1, VerdictWorth
<1>3. CASE Adapter[e] = "licensing"
  <2>1. answer.citation = <<Documents[1]>>
    BY <1>2, <1>3, LicensingWorth DEF AnswerVerdict
  <2>2. 1 \in DOMAIN Documents
    BY <1>3, AnswerAssumption
  <2> QED
    BY <1>3, <2>1, <2>2 DEF CitesContext, ToSet
<1>4. CASE Adapter[e] # "licensing"
  <2>1. /\ answer.findings \in Seq(ToSet(answer.findings))
        /\ \A n \in DOMAIN answer.findings :
             answer.findings[n].citations \in Seq(ToSet(answer.findings[n].citations))
    BY <1>2, <1>4, AnswerAssumption
  <2>2. ReviewVerdict(answer, Documents) = "completed"
    BY <1>2, <1>4 DEF AnswerVerdict
  <2> HIDE DEF answer
  <2>3. \A n \in DOMAIN answer.findings : ToSet(answer.findings[n].citations) \subseteq ToSet(Documents)
    BY <2>1, <2>2, ReviewWorth
  <2> QED
    BY <1>4, <2>3 DEF CitesContext, answer
<1> QED
  BY <1>3, <1>4

(* An attempt recorded as completed stands for the whole of what its child   *)
(* wrote, and for an answer that cites nothing but its context.              *)
THEOREM AnswersWhole == Spec => []WholeAnswer
<1>1. ExecutionInv => WholeAnswer
  <2> SUFFICES ASSUME ExecutionInv, NEW e \in Execution, attempt[e] = "completed"
               PROVE  /\ Stopped(e) /\ child[e].code = 0
                      /\ child[e].stdout = Len(child[e].plan.stdout)
                      /\ WholeStream(child[e].plan.stdout)
                      /\ \A i \in DOMAIN child[e].plan.stdout :
                           IsMessage(child[e].plan.stdout[i]) => CitesContext(e, child[e].plan.stdout[i].answer)
                      /\ space[e] # "present"
    BY DEF WholeAnswer
  <2>1. Taken(e)
    BY DEF ExecutionInv, CallOf, AnswerInv
  <2>2. child[e].plan.stdout \in Seq(ToSet(child[e].plan.stdout))
    BY <2>1, PlanAssumption DEF Taken
  <2>3. WholeStream(child[e].plan.stdout)
    BY <2>1, <2>2, VerdictWorth DEF Taken
  <2>4. \A i \in DOMAIN child[e].plan.stdout :
          IsMessage(child[e].plan.stdout[i]) => CitesContext(e, child[e].plan.stdout[i].answer)
    BY <2>1, AnswerCites DEF Taken
  <2> QED
    BY <2>1, <2>3, <2>4 DEF Taken, Planned
<1> QED
  BY <1>1, ExecutionConsistent, PTL
=============================================================================
