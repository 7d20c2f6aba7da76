---------------------------- MODULE OwnedProcess ----------------------------
(***************************************************************************)
(* One owned child process at a time for each execution                    *)
(* (src/peoplebot/adapters/codex_read_only.py, _run_process and            *)
(* _OwnedProcess): the child, the pipes it writes, the three threads that  *)
(* serve them, and the thread that waits for all of these.  The child and  *)
(* the threads promise nothing; the deadlines come.                        *)
(***************************************************************************)
EXTENDS Naturals, FiniteSets, SequencesExt

CONSTANTS
  Execution,               \* the executions: each has one calling thread
  StdoutCap, StderrCap,    \* _ABSOLUTE_STDOUT_BYTES, in lines, and _ABSOLUTE_STDERR_BYTES
  Chunk,                   \* what one read asks for
  None

ASSUME ProcessAssumption == StdoutCap \in Nat /\ StderrCap \in Nat /\ Chunk \in Nat \ {0}

(* None is neither a cause of a clean-up nor the result of a call.          *)
ASSUME NoneAssumption ==
  None \notin {"overflow", "io", "timeout", "setup", "interrupt", "recovery", "recovered",
               "not_launched", "unresolved", "completed"}

Worker == <<"stdout", "stderr", "stdin">>   \* the threads, in the order in which they start
Reader == {"stdout", "stderr"}

VARIABLES
  child,   \* child[e]: the direct child, what it will write and has written
  pipe,    \* pipe[e]: what the threads have read, and what they tell the caller
  run      \* run[e]: where the calling thread is, and the result of the call

procVars == <<child, pipe, run>>

-----------------------------------------------------------------------------
NoPlan == [stdout |-> <<>>, stderr |-> 0, code |-> 0]
NoChild == [st |-> "none", plan |-> NoPlan, stdout |-> 0, stderr |-> 0, code |-> 0, held |-> FALSE]
NoPipe == [stdout |-> 0, stderr |-> 0, over |-> FALSE, failed |-> FALSE,
           thread |-> [w \in ToSet(Worker) |-> "none"]]
NoRun == [pc |-> "none", late |-> FALSE, why |-> None, res |-> None]

ProcInit ==
  /\ child = [e \in Execution |-> NoChild]
  /\ pipe = [e \in Execution |-> NoPipe]
  /\ run = [e \in Execution |-> NoRun]

Running(e) == child[e].st = "running"
Threads(e) == {w \in ToSet(Worker) : pipe[e].thread[w] = "alive"}
Stopped(e) == ~Running(e) /\ Threads(e) = {}
Planned(e) == [stdout |-> Len(child[e].plan.stdout), stderr |-> child[e].plan.stderr]
Cap == [stdout |-> StdoutCap, stderr |-> StderrCap]

(* The bytes that were read, in whole lines: up to one more than the cap.    *)
Completed(e) == [stdout |-> SubSeq(child[e].plan.stdout, 1, pipe[e].stdout), stderr |-> pipe[e].stderr,
                 over |-> pipe[e].over, code |-> child[e].code]

RunAt(e, pc) == run[e].pc = pc
RunTo(e, pc) == run' = [run EXCEPT ![e].pc = pc]
Ends(e, result) == run' = [run EXCEPT ![e].pc = "returned", ![e].res = result]

(* Popen starts the child, or fails and leaves nothing.                      *)
Launch(e, plan) ==
  \/ /\ child' = [child EXCEPT ![e] = [NoChild EXCEPT !.st = "running", !.plan = plan]]
     /\ pipe' = [pipe EXCEPT ![e] = NoPipe]
     /\ run' = [run EXCEPT ![e] = [NoRun EXCEPT !.pc = "starting"]]
  \/ /\ run' = [run EXCEPT ![e] = [NoRun EXCEPT !.pc = "returned", !.res = "not_launched"]]
     /\ UNCHANGED <<child, pipe>>

-----------------------------------------------------------------------------
(* The child: it writes, ends when it likes (with a descendant that keeps    *)
(* its pipes open, or without), and the descendant ends.                     *)
ChildWrites(e, s) ==
  /\ Running(e) /\ child[e][s] < Planned(e)[s]
  /\ child' = [child EXCEPT ![e][s] = @ + 1]
  /\ UNCHANGED <<pipe, run>>

ChildEnds(e) ==
  /\ Running(e)
  /\ \E held \in BOOLEAN :
       child' = [child EXCEPT ![e].st = "ended", ![e].held = held,
                              ![e].code = IF child[e].stdout = Planned(e).stdout THEN child[e].plan.code ELSE 1]
  /\ UNCHANGED <<pipe, run>>

HolderEnds(e) ==
  /\ child[e].held
  /\ child' = [child EXCEPT ![e].held = FALSE]
  /\ UNCHANGED <<pipe, run>>

-----------------------------------------------------------------------------
(* The threads.  A read returns a full chunk, or what is left at the end of   *)
(* the stream.  A reader keeps one line more than the cap, and stops there;  *)
(* its read may fail.                                                        *)
Alive(e, w) == pipe[e].thread[w] = "alive"
EndOfStream(e) == ~Running(e) /\ ~child[e].held
Least(m, n) == IF m < n THEN m ELSE n

Drain(e, s) ==
  LET unread == child[e][s] - pipe[e][s]
      kept == Least(pipe[e][s] + Least(unread, Chunk), Cap[s] + 1)
  IN /\ Alive(e, s) /\ (unread >= Chunk \/ EndOfStream(e))
     /\ pipe' = [pipe EXCEPT ![e][s] = kept,
                             ![e].over = @ \/ kept > Cap[s],
                             ![e].thread[s] = IF kept > Cap[s] \/ unread < Chunk THEN "done" ELSE @]
     /\ UNCHANGED <<child, run>>

DrainFails(e, s) ==
  /\ Alive(e, s)
  /\ pipe' = [pipe EXCEPT ![e].thread[s] = "done", ![e].failed = TRUE]
  /\ UNCHANGED <<child, run>>

(* The prompt is written, or its pipe is broken: a failure only where the    *)
(* child has not ended.                                                      *)
WriteInput(e) ==
  /\ Alive(e, "stdin")
  /\ \E broken \in BOOLEAN :
       pipe' = [pipe EXCEPT ![e].thread["stdin"] = "done", ![e].failed = @ \/ (broken /\ Running(e))]
  /\ UNCHANGED <<child, run>>

-----------------------------------------------------------------------------
(* The calling thread.  Raise(e, why): the body of the call raises, and the  *)
(* clean-up begins with a deadline of its own.                               *)
Raise(e, why) ==
  run' = [run EXCEPT ![e].pc = "terminating", ![e].why = why, ![e].late = FALSE]

Started(e) == Cardinality({w \in ToSet(Worker) : pipe[e].thread[w] # "none"})

StartWorker(e) ==
  /\ RunAt(e, "starting")
  /\ IF Started(e) = Len(Worker)
     THEN RunTo(e, "waiting") /\ UNCHANGED pipe
     ELSE \/ pipe' = [pipe EXCEPT ![e].thread[Worker[Started(e) + 1]] = "alive"] /\ UNCHANGED run
          \/ Raise(e, "setup") /\ UNCHANGED pipe
  /\ UNCHANGED child

Poll(e) ==
  /\ RunAt(e, "waiting")
  /\ RunTo(e, IF Running(e) THEN "checking" ELSE "joining")
  /\ UNCHANGED <<child, pipe>>

(* While the child runs: too much output, a failed thread, the deadline.     *)
CheckRunning(e) ==
  /\ RunAt(e, "checking")
  /\ IF pipe[e].over THEN Raise(e, "overflow")
     ELSE IF pipe[e].failed THEN Raise(e, "io")
     ELSE IF run[e].late THEN Raise(e, "timeout")
     ELSE RunTo(e, "waiting")
  /\ UNCHANGED <<child, pipe>>

(* After it has ended, the threads are joined until the same deadline.       *)
AfterTheEnd(e) == IF pipe[e].failed THEN "io" ELSE IF pipe[e].over THEN "overflow" ELSE None
JoinWorkers_NoDeadline(e) ==
  /\ RunAt(e, "joining") /\ Threads(e) = {}
  /\ Raise(e, AfterTheEnd(e))
  /\ UNCHANGED <<child, pipe>>
JoinWorkers(e) ==
  /\ RunAt(e, "joining") /\ (Threads(e) = {} \/ run[e].late)
  /\ Raise(e, IF Threads(e) # {} THEN "timeout" ELSE AfterTheEnd(e))
  /\ UNCHANGED <<child, pipe>>

Interrupted(e) ==
  /\ run[e].pc \in {"starting", "waiting", "checking", "joining"}
  /\ Raise(e, "interrupt")
  /\ UNCHANGED <<child, pipe>>

(* Clean-up: the child is terminated and waited for, then killed and waited  *)
(* for, and the threads are joined, all until one deadline: a child that is  *)
(* killed because the deadline has come is not waited for any longer.  (A    *)
(* child that is told to end may end, or not: that is ChildEnds.)            *)
Terminate(e) ==
  /\ RunAt(e, "terminating")
  /\ RunTo(e, IF Running(e) THEN "reaping" ELSE "rejoining")
  /\ UNCHANGED <<child, pipe>>

Reap(e) ==
  /\ RunAt(e, "reaping")
  /\ \/ ~Running(e) /\ RunTo(e, "rejoining")
     \/ Running(e) /\ run[e].late /\ RunTo(e, "killing")
  /\ UNCHANGED <<child, pipe>>

Kill(e) ==
  /\ RunAt(e, "killing")
  /\ RunTo(e, "rejoining")
  /\ UNCHANGED <<child, pipe>>

(* What the call ends with once clean-up has told whether the child and its  *)
(* threads have stopped.  Closing a stream may fail: it matters only where   *)
(* nothing else has.                                                         *)
Resolution(e, closed) ==
  CASE run[e].why \in {"timeout", "io", "setup", "interrupt"} -> run[e].why
    [] run[e].why = "recovery" -> "recovered"
    [] run[e].why = None /\ ~closed -> "io"
    [] OTHER -> "completed"

Rejoin_Unasked(e) ==
  /\ RunAt(e, "rejoining") /\ (Threads(e) = {} \/ run[e].late)
  /\ \E closed \in BOOLEAN : Ends(e, Resolution(e, closed))
  /\ UNCHANGED <<child, pipe>>
Rejoin(e) ==
  /\ RunAt(e, "rejoining") /\ (Threads(e) = {} \/ run[e].late)
  /\ IF Stopped(e) THEN \E closed \in BOOLEAN : Ends(e, Resolution(e, closed)) ELSE Ends(e, "unresolved")
  /\ UNCHANGED <<child, pipe>>

(* A deadline passes: that of the call, or of the clean-up.                  *)
TimePasses(e) ==
  /\ run[e].pc \in {"waiting", "checking", "joining", "reaping", "rejoining"} /\ ~run[e].late
  /\ run' = [run EXCEPT ![e].late = TRUE]
  /\ UNCHANGED <<child, pipe>>

(* The owner of an unresolved child is asked to clean up once more.          *)
RecoverChild(e) ==
  /\ RunAt(e, "returned") /\ run[e].res \in {"unresolved", "recovered"}
  /\ run' = [run EXCEPT ![e].pc = "terminating", ![e].why = "recovery", ![e].late = FALSE, ![e].res = None]
  /\ UNCHANGED <<child, pipe>>

MainStep(e) == StartWorker(e) \/ Poll(e) \/ CheckRunning(e) \/ JoinWorkers(e)
               \/ Terminate(e) \/ Reap(e) \/ Kill(e) \/ Rejoin(e)
ChildStep(e) == (\E s \in Reader : ChildWrites(e, s)) \/ ChildEnds(e) \/ HolderEnds(e)
ThreadStep(e) == (\E s \in Reader : Drain(e, s) \/ DrainFails(e, s)) \/ WriteInput(e)
ProcStep(e) == MainStep(e) \/ Interrupted(e) \/ TimePasses(e) \/ ChildStep(e) \/ ThreadStep(e)
=============================================================================
