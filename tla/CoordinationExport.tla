------------------------- MODULE CoordinationExport -------------------------
(***************************************************************************)
(* The development cycle command (run_development_cycle_command in         *)
(* src/peoplebot/development.py): it imports its request into the owner's  *)
(* messages, runs a tick, and exports the reply the tick published as a    *)
(* file of a coordination checkout, which it commits and pushes.           *)
(*                                                                         *)
(* Commands share the message history, the reader's ledger, and the        *)
(* checkout.  The tick and each publication of a message are single steps  *)
(* here, with the outcomes WorkCycle and Messaging give them; the export   *)
(* holds no lock and is modelled step by step, among operators who work in *)
(* the checkout and others who push to its remote.                         *)
(***************************************************************************)
EXTENDS Naturals, Sequences, SequencesExt, FiniteSets

CONSTANTS
  Command,        \* processes that run the command, again and again
  Request,        \* the development tasks they may select
  MaxCalls,       \* bound on executions of the command
  MaxFaults,      \* bound on deaths in a tick or publication, and lost answers
  MaxIntrusions,  \* bound on what operators and others do
  None

Other == "other work"
Files == Request \union {Other}
Messages == {"request", "reply"} \X Request

VARIABLES
  mlocal, mremote,   \* the owner's messages: the local ref, the destination
  flying,            \* a push of mlocal that was given up on may still land
  task,              \* the reader's ledger: disposition, reply and memory State
  progress,          \* the development progress of each request
  checkout,          \* the coordination checkout: head, files and index
  remote, inflight,  \* its remote, and the pushes that may still land there
  pc, call,          \* each command's
  calls, faults, intrusions, made,
  done, verified, mixed   \* history

messages == <<mlocal, mremote, flying>>
stores   == <<messages, task, progress>>
places   == <<checkout, remote, inflight, made>>
others   == <<calls, intrusions>>
history  == <<done, verified, mixed>>
vars     == <<stores, places, pc, call, faults, others, history>>

(* A call's record: the request it selected, what the tick returned, what it *)
(* read, and (history) what was waiting in the checkout when it looked.      *)
NoCall ==
  [want |-> None, d |-> "none", memory |-> FALSE, tip |-> {}, local |-> None,
   base |-> None, commit |-> None, seen |-> None, waiting |-> {}]

(* A commit of the coordination repository is the sequence of the changes up *)
(* to it: the files each adds, told apart by a number.                       *)
Entries(h) == UNION {h[i].files : i \in DOMAIN h}

(* git status --porcelain prints nothing; _Unread does not ask.              *)
Pending == checkout.index \union {r \in Request : checkout.file[r] # "absent"
                                                   /\ r \notin Entries(checkout.head)}
Clean_Unread == TRUE
Clean == Pending = {}

Exporting(c) ==
  pc[c] \in {"status", "local", "base", "exists", "create", "write", "add", "commit",
             "head", "push", "observe", "load", "persist"}
Phase ==
  {"ready", "inspect", "compare", "import", "tick", "refresh", "status", "local",
   "base", "exists", "create", "write", "add", "commit", "head", "push", "observe",
   "load", "persist"}

Histories == Seq([files : SUBSET Files, n : Nat])
ASSUME NoneAssumption == None \notin Request \union Histories

TypeOK ==
  /\ mlocal \subseteq Messages /\ mremote \subseteq mlocal /\ flying \in BOOLEAN
  /\ task \in [Request -> [d : {"unseen", "claimed", "unresolved", "completed", "failed"},
                           reply : BOOLEAN, memory : BOOLEAN]]
  /\ progress \in [Request -> [stage : {"none", "accepted", "stopped", "exported"},
                               as : Histories \union {None}]]
  /\ checkout \in [head : Histories, index : SUBSET Files,
                   file : [Request -> {"absent", "torn", "whole"}]]
  /\ remote \in Histories /\ inflight \subseteq [from : Histories, to : Histories]
  /\ pc \in [Command -> Phase]
  /\ \A c \in Command : pc[c] = "ready" <=> call[c] = NoCall
  /\ done \subseteq Request /\ verified \subseteq Request /\ mixed \subseteq Request

Init ==
  /\ mlocal = {} /\ mremote = {} /\ flying = FALSE
  /\ task = [r \in Request |-> [d |-> "unseen", reply |-> FALSE, memory |-> FALSE]]
  /\ progress = [r \in Request |-> [stage |-> "none", as |-> None]]
  /\ checkout = [head |-> <<>>, index |-> {}, file |-> [r \in Request |-> "absent"]]
  /\ remote = <<>> /\ inflight = {}
  /\ pc = [c \in Command |-> "ready"] /\ call = [c \in Command |-> NoCall]
  /\ calls = 0 /\ faults = 0 /\ intrusions = 0 /\ made = 0
  /\ done = {} /\ verified = {} /\ mixed = {}

-----------------------------------------------------------------------------
(* Building blocks *)

Fault == faults < MaxFaults /\ faults' = faults + 1

Go(c, phase) == pc' = [pc EXCEPT ![c] = phase]

(* The command returns a result or raises; its process may as well die.      *)
End(c) == Go(c, "ready") /\ call' = [call EXCEPT ![c] = NoCall]

(* append_and_publish_owned_message of m, as Messaging has it: verified;     *)
(* appended, whatever becomes of the push; or nothing (the publisher is      *)
(* busy, the local history is ahead, Git fails).                             *)
PublishedAs(m, outcome) ==
  CASE outcome = "verified" ->
         /\ mlocal = mremote
         /\ mlocal' = mlocal \union {m} /\ mremote' = mlocal'
         /\ UNCHANGED <<flying, faults>>
    [] outcome = "appended" ->
         /\ mlocal = mremote
         /\ mlocal' = mlocal \union {m}
         /\ Fault
         /\ \/ mremote' = mremote /\ flying' \in {flying, m \notin mlocal}
            \/ mremote' = mlocal' /\ UNCHANGED flying
    [] OTHER -> UNCHANGED <<messages, faults>>

-----------------------------------------------------------------------------
(* The import *)

Begin(c, r) ==
  /\ pc[c] = "ready"
  /\ calls < MaxCalls /\ calls' = calls + 1
  /\ call' = [call EXCEPT ![c].want = r]
  /\ Go(c, "inspect")
  /\ UNCHANGED <<stores, places, faults, intrusions, history>>

InspectTip(c) ==
  /\ pc[c] = "inspect"
  /\ call' = [call EXCEPT ![c].tip = mremote]
  /\ Go(c, "compare")
  /\ UNCHANGED <<stores, places, faults, others, history>>

(* An import found in the history is not appended again; _Local looks for it *)
(* without comparing the tips.                                               *)
CompareTips_Local(c) ==
  /\ pc[c] = "compare"
  /\ Go(c, IF <<"request", call[c].want>> \in mlocal THEN "tick" ELSE "import")
  /\ UNCHANGED <<stores, places, call, faults, others, history>>
CompareTips(c) ==
  /\ pc[c] = "compare"
  /\ IF mlocal # call[c].tip THEN End(c)
     ELSE /\ Go(c, IF <<"request", call[c].want>> \in mlocal THEN "tick" ELSE "import")
          /\ call' = [call EXCEPT ![c].tip = {}]
  /\ UNCHANGED <<stores, places, faults, others, history>>

Import(c) ==
  /\ pc[c] = "import"
  /\ \E outcome \in {"verified", "appended", "none"} :
       /\ PublishedAs(<<"request", call[c].want>>, outcome)
       /\ IF outcome = "verified" THEN Go(c, "tick") /\ UNCHANGED call ELSE End(c)
  /\ UNCHANGED <<task, progress, places, others, history>>

-----------------------------------------------------------------------------
(* The tick.  What it returns is followed by an export only for the          *)
(* command's own request, and only if there is a reply State.                *)

Route(c, r, d, reply, memory) ==
  IF r # call[c].want \/ ~reply THEN End(c)
  ELSE Go(c, "refresh") /\ call' = [call EXCEPT ![c].d = d, ![c].memory = memory]

Barriers == {r \in Request : task[r].d \in {"claimed", "unresolved"}}

(* Busy, stopped, exhausted, idle, or a peer cannot be read: no message.     *)
TickQuiet(c) ==
  /\ pc[c] = "tick"
  /\ End(c)
  /\ UNCHANGED <<stores, places, faults, others, history>>

(* The tick halts at the unresolved task, and returns its reply State.       *)
TickHalts(c) ==
  /\ pc[c] = "tick"
  /\ \E r \in Barriers :
       Route(c, r, "unresolved", task[r].reply, task[r].memory)
  /\ UNCHANGED <<stores, places, faults, others, history>>

(* The development handler runs only what the command selected; any other    *)
(* request is answered as failed, without progress or memory.                *)
Handled(c, r) ==
  IF r # call[c].want
    THEN {[d |-> "failed", stage |-> progress[r].stage, memory |-> FALSE]}
    ELSE {[d |-> "completed", stage |-> "accepted", memory |-> TRUE],
          [d |-> "failed", stage |-> "stopped", memory |-> TRUE],
          [d |-> "unresolved", stage |-> "stopped", memory |-> TRUE]}
         \union [d : {"unresolved"}, stage : {"none", "accepted", "stopped"},
                 memory : {FALSE}]

(* Claim, handler, memory checkpoint, reply and terminal save.  The save may *)
(* fail, and may have moved the ref all the same.  The memory State is kept  *)
(* here of closed tasks only: it changes nothing in an unresolved result.    *)
TickHandles(c) ==
  /\ pc[c] = "tick" /\ Barriers = {}
  /\ \E r \in {q \in Request : task[q].d = "unseen" /\ <<"request", q>> \in mremote} :
     \E h \in Handled(c, r), outcome \in {"verified", "appended", "none"} :
       LET d == IF outcome = "verified" THEN h.d ELSE "unresolved"
           memory == h.memory /\ d # "unresolved"
           closed == [d |-> d, reply |-> outcome # "none", memory |-> memory]
           claimed == [d |-> "claimed", reply |-> FALSE, memory |-> FALSE]
       IN  /\ PublishedAs(<<"reply", r>>, outcome)
           /\ progress' = [progress EXCEPT ![r].stage = h.stage]
           /\ \/ /\ task' = [task EXCEPT ![r] = closed]
                 /\ Route(c, r, d, outcome # "none", memory)
              \/ /\ task' \in {[task EXCEPT ![r] = closed], [task EXCEPT ![r] = claimed]}
                 /\ Route(c, r, "unresolved", outcome # "none", FALSE)
  /\ UNCHANGED <<places, others, history>>

(* The process dies after the claim, before or after the handler. *)
TickDies(c) ==
  /\ pc[c] = "tick" /\ Barriers = {} /\ Fault
  /\ \E r \in {q \in Request : task[q].d = "unseen" /\ <<"request", q>> \in mremote} :
       /\ task' = [task EXCEPT ![r].d = "claimed"]
       /\ progress' \in {progress} \union
            {[progress EXCEPT ![r].stage = h.stage] : h \in Handled(c, r)}
  /\ End(c)
  /\ UNCHANGED <<messages, places, others, history>>

(* The reply is looked for at the destination. *)
Refresh(c) ==
  /\ pc[c] = "refresh"
  /\ IF <<"reply", call[c].want>> \in mremote
       THEN Go(c, "status") /\ UNCHANGED call ELSE End(c)
  /\ mixed' = IF \E o \in Command \ {c} : Exporting(o) /\ call[o].want = call[c].want
                THEN mixed \union {call[c].want} ELSE mixed
  /\ UNCHANGED <<stores, places, faults, others, done, verified>>

-----------------------------------------------------------------------------
(* publish_coordination_reply_file: what is read first *)

Read(c, phase, field, value) ==
  /\ Go(c, phase)
  /\ call' = [call EXCEPT ![c][field] = value]
  /\ UNCHANGED <<stores, places, faults, others, history>>

ReadStatus(c) ==
  /\ pc[c] = "status"
  /\ IF Clean THEN Read(c, "local", "waiting", Pending)
     ELSE End(c) /\ UNCHANGED <<stores, places, faults, others, history>>

ReadLocal(c) ==
  /\ pc[c] = "local"
  /\ Go(c, "base")
  /\ call' = [call EXCEPT ![c].local = checkout.head,
                          ![c].waiting = @ \union (Entries(checkout.head) \ Entries(remote))]
  /\ UNCHANGED <<stores, places, faults, others, history>>

ReadBase(c) == pc[c] = "base" /\ Read(c, "exists", "base", remote)

(* The publication is verified: its State names this commit. *)
Verified(c, commit) ==
  /\ Go(c, "load")
  /\ call' = [call EXCEPT ![c].commit = commit, ![c].local = None, ![c].base = None,
                          ![c].waiting = {}]
  /\ verified' = verified \union {call[c].want}
  /\ UNCHANGED <<stores, places, faults, others, done, mixed>>

(* A reply that is there already is never pushed again: at the verified tip  *)
(* it is reconciled, otherwise it stays unresolved.  Nor does it go on in a  *)
(* checkout that is not at the remote's tip.                                 *)
FindFile(c) ==
  /\ pc[c] = "exists"
  /\ IF checkout.file[call[c].want] = "whole" /\ call[c].local = call[c].base
       THEN Verified(c, call[c].local)
       ELSE /\ IF checkout.file[call[c].want] # "absent" \/ call[c].local # call[c].base
                 THEN End(c) ELSE Go(c, "create") /\ UNCHANGED call
            /\ UNCHANGED <<stores, places, faults, others, history>>

-----------------------------------------------------------------------------
(* The file, the commit and the push *)

(* Opened for exclusive creation; an equal file that has appeared meanwhile  *)
(* is taken.                                                                 *)
CreateFile(c) ==
  /\ pc[c] = "create"
  /\ CASE checkout.file[call[c].want] = "absent" ->
            /\ checkout' = [checkout EXCEPT !.file[call[c].want] = "torn"]
            /\ Go(c, "write") /\ UNCHANGED call
       [] checkout.file[call[c].want] = "whole" ->
            Go(c, "add") /\ UNCHANGED <<call, checkout>>
       [] OTHER -> End(c) /\ UNCHANGED checkout
  /\ UNCHANGED <<stores, remote, inflight, made, faults, others, history>>

WriteFile(c) ==
  /\ pc[c] = "write"
  /\ checkout' = [checkout EXCEPT !.file[call[c].want] = "whole"]
  /\ Go(c, "add")
  /\ UNCHANGED <<stores, remote, inflight, made, call, faults, others, history>>

AddFile(c) ==
  /\ pc[c] = "add"
  /\ checkout' = [checkout EXCEPT
                    !.index = @ \union ({call[c].want} \ Entries(checkout.head))]
  /\ Go(c, "commit")
  /\ UNCHANGED <<stores, remote, inflight, made, call, faults, others, history>>

(* git commit takes the whole index; with nothing in it, it fails.           *)
Committed ==
  /\ checkout' = [checkout EXCEPT
       !.head = Append(@, [files |-> checkout.index, n |-> made]), !.index = {}]
  /\ made' = made + 1

Commit(c) ==
  /\ pc[c] = "commit"
  /\ IF checkout.index = {}
       THEN End(c) /\ UNCHANGED <<checkout, made>>
       ELSE Committed /\ Go(c, "head") /\ UNCHANGED call
  /\ UNCHANGED <<stores, remote, inflight, faults, others, history>>

ReadHead(c) == pc[c] = "head" /\ Read(c, "push", "commit", checkout.head)

(* Only forward, or not at all; after a time out it may land later.  What    *)
(* was read before is of no more use.                                        *)
Push(c) ==
  /\ pc[c] = "push"
  /\ \/ /\ IsPrefix(remote, call[c].commit)
        /\ remote' = call[c].commit
        /\ UNCHANGED <<inflight, faults>>
     \/ UNCHANGED <<remote, inflight, faults>>
     \/ /\ Fault /\ IsPrefix(remote, call[c].commit)
        /\ inflight' = inflight \union {[from |-> remote, to |-> call[c].commit]}
        /\ UNCHANGED remote
  /\ call' = [call EXCEPT ![c].local = None, ![c].base = None, ![c].waiting = {}]
  /\ Go(c, "observe")
  /\ UNCHANGED <<stores, checkout, made, others, history>>

(* Verified if the remote is seen at the commit, otherwise failed or         *)
(* uncertain, and over; _Unread takes a remote that cannot be read for       *)
(* unchanged since the push.                                                 *)
SeenThere_Unread(c, observed) == observed \in {call[c].commit, None}
SeenThere(c, observed) == observed = call[c].commit

Observe(c) ==
  /\ pc[c] = "observe"
  /\ \E observed \in {remote, None} :
       IF SeenThere(c, observed) THEN Verified(c, call[c].commit)
       ELSE End(c) /\ UNCHANGED <<stores, places, faults, others, history>>

-----------------------------------------------------------------------------
(* The development progress and the result *)

(* The code is development.completed or development.failed only if the       *)
(* export is complete; otherwise it is development.unresolved.               *)
CompleteExport_AnyProgress(c, recorded) == call[c].memory
CompleteExport(c, recorded) == call[c].memory /\ recorded
Result(c, recorded) ==
  /\ done' = IF CompleteExport(c, recorded) /\ call[c].d \in {"completed", "failed"}
               THEN done \union {call[c].want} ELSE done
  /\ End(c)

(* An accepted task's progress is closed as exported; another's keeps its    *)
(* stage.                                                                    *)
Exported(p, commit) ==
  [stage |-> IF p.stage = "accepted" THEN "exported" ELSE p.stage, as |-> commit]

LoadProgress(c) ==
  /\ pc[c] = "load"
  /\ LET p == progress[call[c].want]
     IN  IF p.stage = "none" THEN Result(c, FALSE)
         ELSE IF p.stage = "exported" /\ p.as = call[c].commit THEN Result(c, TRUE)
         ELSE /\ Go(c, "persist")
              /\ call' = [call EXCEPT ![c].seen = p]
              /\ UNCHANGED done
  /\ UNCHANGED <<stores, places, faults, others, verified, mixed>>

(* Compared and swapped; whatever goes wrong is taken for "not recorded".    *)
PersistProgress(c) ==
  /\ pc[c] = "persist"
  /\ LET r == call[c].want
         moved == [progress EXCEPT ![r] = Exported(call[c].seen, call[c].commit)]
     IN  \/ /\ progress[r] = call[c].seen
            /\ progress' = moved
            /\ UNCHANGED faults
            /\ Result(c, TRUE)
         \/ /\ UNCHANGED <<progress, faults>>
            /\ Result(c, FALSE)
         \/ /\ progress[r] = call[c].seen /\ Fault
            /\ progress' = moved
            /\ Result(c, FALSE)
  /\ UNCHANGED <<messages, task, places, others, verified, mixed>>

(* A failure of Git or of the file system, or the end of the process. *)
Interrupted(c) ==
  /\ pc[c] # "ready"
  /\ End(c)
  /\ UNCHANGED <<stores, places, faults, others, history>>

-----------------------------------------------------------------------------
(* What others do *)

Intrude == intrusions < MaxIntrusions /\ intrusions' = intrusions + 1 /\ UNCHANGED calls

(* An operator stages work, or commits what is staged. *)
OperatorStages ==
  /\ Intrude
  /\ checkout' = [checkout EXCEPT !.index = @ \union {Other}]
  /\ UNCHANGED <<stores, remote, inflight, made, pc, call, faults, history>>
OperatorCommits ==
  /\ Intrude /\ checkout.index # {}
  /\ Committed
  /\ UNCHANGED <<stores, remote, inflight, pc, call, faults, history>>

(* An operator brings the checkout to the remote's tip, whatever was left    *)
(* there, while nobody exports.                                              *)
OperatorTidies ==
  /\ Intrude /\ \A c \in Command : ~Exporting(c)
  /\ checkout' = [head |-> remote, index |-> {},
                  file |-> [r \in Request |->
                              IF r \in Entries(remote) THEN "whole" ELSE "absent"]]
  /\ UNCHANGED <<stores, remote, inflight, made, pc, call, faults, history>>

(* Another checkout pushes. *)
OthersPush ==
  /\ Intrude
  /\ remote' = Append(remote, [files |-> {Other}, n |-> made])
  /\ made' = made + 1
  /\ UNCHANGED <<stores, checkout, inflight, pc, call, faults, history>>

(* Pushes that were given up on land, or never do. *)
MessagesLand ==
  /\ flying
  /\ flying' = FALSE
  /\ mremote' \in {mremote, mlocal}
  /\ UNCHANGED <<mlocal, task, progress, places, pc, call, faults, others, history>>
PushLands ==
  /\ \E i \in inflight :
       /\ inflight' = inflight \ {i}
       /\ remote' \in {remote} \union (IF remote = i.from THEN {i.to} ELSE {})
  /\ UNCHANGED <<stores, checkout, made, pc, call, faults, others, history>>

-----------------------------------------------------------------------------
Tick(c) == TickQuiet(c) \/ TickHalts(c) \/ TickHandles(c) \/ TickDies(c)
Export(c) ==
  \/ ReadStatus(c) \/ ReadLocal(c) \/ ReadBase(c) \/ FindFile(c)
  \/ CreateFile(c) \/ WriteFile(c) \/ AddFile(c) \/ Commit(c) \/ ReadHead(c)
  \/ Push(c) \/ Observe(c) \/ LoadProgress(c) \/ PersistProgress(c)
CommandStep(c) ==
  \/ \E r \in Request : Begin(c, r)
  \/ InspectTip(c) \/ CompareTips(c) \/ Import(c)
  \/ Tick(c) \/ Refresh(c) \/ Export(c) \/ Interrupted(c)

Next ==
  \/ \E c \in Command : CommandStep(c)
  \/ OperatorStages \/ OperatorCommits \/ OperatorTidies \/ OthersPush
  \/ MessagesLand \/ PushLands

Spec == Init /\ [][Next]_vars

-----------------------------------------------------------------------------
(* Safety *)

(* A tick is run only for an import that is at the destination, where the    *)
(* cycle's source reads it, however publications and late pushes interleave. *)
ImportPublished ==
  \A c \in Command : pc[c] = "tick" => <<"request", call[c].want>> \in mremote

(* development.completed and development.failed are never said too early:    *)
(* the reader has closed the task with its memory and reply, the reply is at *)
(* both destinations, and the progress says under which commit.              *)
ResultTruthful ==
  \A r \in done :
    /\ task[r].d \in {"completed", "failed"} /\ task[r].memory
    /\ <<"reply", r>> \in mremote
    /\ r \in Entries(remote)
    /\ progress[r].as # None

(* What the progress and the ledger say of a task never contradict each      *)
(* other: completed is accepted, failed is not, and what is recorded as      *)
(* exported was verified.                                                    *)
StoresAgree ==
  \A r \in Request :
    /\ task[r].d = "completed" => progress[r].stage \in {"accepted", "exported"}
    /\ task[r].d = "failed" => progress[r].stage \in {"none", "stopped"}
    /\ progress[r].as # None => r \in verified

(* What the commands rely on, in the messages, the ledger and the progress.  *)
CommandInv == TypeOK /\ ImportPublished /\ StoresAgree

(* A reply that was verified is at the coordination remote, in the commit    *)
(* the progress names, and stays there.  A reply that two commands were      *)
(* exporting at once is excepted: of these the second may find the file      *)
(* before it is committed, see equal tips, and take it for verified.         *)
ExportedThere ==
  \A r \in verified \ mixed :
    /\ r \in Entries(remote)
    /\ progress[r].as # None =>
         r \in Entries(progress[r].as) /\ IsPrefix(progress[r].as, remote)

(* The push carries nothing that was waiting in the checkout, staged or      *)
(* committed by whomever, when the command looked.                           *)
OwnWork ==
  \A c \in Command :
    pc[c] = "push" => call[c].waiting \intersect Entries(call[c].commit)
                        \subseteq Entries(call[c].base)
=============================================================================
