----------------------------- MODULE StatusFile -----------------------------
(***************************************************************************)
(* persist_cycle_status under concurrent ticks (src/peoplebot/             *)
(* work_cycle.py).  A tick that finds the owner lock held writes its "busy" *)
(* status without any lock, while the owner may be writing its own; both   *)
(* use one temporary name next to the status file.                         *)
(*                                                                         *)
(* Execution admission needs Windows, so the file operations are those of  *)
(* Windows: a second process may open and truncate a file that another one *)
(* has open, but nobody can rename or delete a file that is open.          *)
(***************************************************************************)
EXTENDS Naturals

CONSTANTS
  Tick,         \* executions of run_work_cycle_tick
  Nobody

ASSUME StatusFileAssumption == Nobody \notin Tick

VARIABLES
  holder,     \* the tick that holds the owner lock
  temporary,  \* the temporary file
  target,     \* the status file
  stage,
  long,       \* long[w]: the status of w is a long one
  installed,  \* installed[w]: os.replace of w succeeded
  overlapped, \* a tick has been started while another one ran
  killed      \* a tick has been killed

files == <<temporary, target>>
past == <<overlapped, killed>>
statusVars == <<holder, files, stage, long, installed, past>>

(* A file shows whose text it begins with, and whose text it ends with where *)
(* that is a long one; Nobody where there is no file.                      *)
Content == [head : Tick \union {Nobody}, tail : Tick \union {Nobody}]
Empty == [head |-> Nobody, tail |-> Nobody]

Stage == {"ready", "open", "write", "close", "replace", "clean", "unlink"}

StatusTypeOK ==
  /\ holder \in Tick \union {Nobody}
  /\ temporary \in Content \union {Nobody} /\ target \in Content \union {Nobody}
  /\ stage \in [Tick -> Stage]
  /\ long \in [Tick -> BOOLEAN] /\ installed \in [Tick -> BOOLEAN]
  /\ overlapped \in BOOLEAN /\ killed \in BOOLEAN

StatusInit ==
  /\ holder = Nobody
  /\ temporary = Nobody /\ target = Nobody
  /\ stage = [w \in Tick |-> "ready"]
  /\ long = [w \in Tick |-> FALSE] /\ installed = [w \in Tick |-> FALSE]
  /\ overlapped = FALSE /\ killed = FALSE

StageTo(w, phase) == stage' = [stage EXCEPT ![w] = phase]

IsOpen == \E w \in Tick : stage[w] \in {"write", "close"}

(* The status of w, and what becomes of a file when w writes it from the     *)
(* start: a short text leaves the end of a longer one behind.                *)
Whole(w) == [head |-> w, tail |-> IF long[w] THEN w ELSE Nobody]
Overwritten(file, w) ==
  [head |-> w, tail |-> IF long[w] THEN w ELSE file.tail]

-----------------------------------------------------------------------------
(* The owner of the lock writes the one status of its tick, a busy tick a    *)
(* short one.                                                                *)
Start(w) ==
  /\ stage[w] = "ready"
  /\ \/ holder = Nobody /\ holder' = w /\ \E l \in BOOLEAN : long' = [long EXCEPT ![w] = l]
     \/ holder # Nobody /\ UNCHANGED holder /\ long' = [long EXCEPT ![w] = FALSE]
  /\ installed' = [installed EXCEPT ![w] = FALSE]
  /\ overlapped' = (overlapped \/ \E v \in Tick : stage[v] # "ready")
  /\ StageTo(w, "open")
  /\ UNCHANGED <<files, killed>>

(* Opening creates or truncates the temporary file; _Keeping does not        *)
(* truncate.                                                                 *)
Open_Keeping(w) ==
  /\ stage[w] = "open"
  /\ temporary' = IF temporary = Nobody THEN Empty ELSE temporary
  /\ StageTo(w, "write")
  /\ UNCHANGED <<holder, target, long, installed, past>>
Open(w) ==
  /\ stage[w] = "open"
  /\ temporary' = Empty
  /\ StageTo(w, "write")
  /\ UNCHANGED <<holder, target, long, installed, past>>

Write(w) ==
  /\ stage[w] = "write"
  /\ temporary' = Overwritten(temporary, w)
  /\ StageTo(w, "close")
  /\ UNCHANGED <<holder, target, long, installed, past>>

Close(w) ==
  /\ stage[w] = "close"
  /\ StageTo(w, "replace")
  /\ UNCHANGED <<holder, files, long, installed, past>>

(* os.replace; it raises when the temporary file is gone or open, or the     *)
(* status file is in use.                                                    *)
Replace(w) ==
  /\ stage[w] = "replace" /\ temporary # Nobody /\ ~IsOpen
  /\ target' = temporary /\ temporary' = Nobody
  /\ installed' = [installed EXCEPT ![w] = TRUE]
  /\ StageTo(w, "clean")
  /\ UNCHANGED <<holder, long, past>>

(* A failure to open, write or close, or of os.replace, leads to "finally". *)
Fails(w) ==
  /\ stage[w] \in {"open", "write", "close", "replace"}
  /\ StageTo(w, "clean")
  /\ UNCHANGED <<holder, files, long, installed, past>>

(* The tick ends, whether or not its status was written. *)
End(w) ==
  /\ StageTo(w, "ready")
  /\ holder' = IF holder = w THEN Nobody ELSE holder
  /\ UNCHANGED <<target, long, installed, overlapped>>

(* The "finally" block; _Skipped does without it. *)
Clean_Skipped(w) ==
  /\ stage[w] = "clean"
  /\ End(w)
  /\ UNCHANGED <<temporary, killed>>
Clean(w) ==
  /\ stage[w] = "clean"
  /\ \/ temporary = Nobody /\ End(w)
     \/ /\ temporary # Nobody /\ StageTo(w, "unlink")
        /\ UNCHANGED <<holder, target, long, installed, overlapped>>
  /\ UNCHANGED <<temporary, killed>>

Unlink(w) ==
  /\ stage[w] = "unlink" /\ temporary # Nobody /\ ~IsOpen
  /\ temporary' = Nobody
  /\ End(w)
  /\ UNCHANGED killed

(* It is open, or another tick has moved it since; the status is reported as *)
(* not persisted.                                                            *)
UnlinkRaises(w) ==
  /\ stage[w] = "unlink" /\ (temporary = Nobody \/ IsOpen)
  /\ End(w)
  /\ UNCHANGED <<temporary, killed>>

Die(w) ==
  /\ stage[w] # "ready"
  /\ End(w)
  /\ killed' = TRUE
  /\ UNCHANGED temporary

StatusNext ==
  \E w \in Tick :
    \/ Start(w) \/ Open(w) \/ Write(w) \/ Close(w) \/ Replace(w) \/ Fails(w)
    \/ Clean(w) \/ Unlink(w) \/ UnlinkRaises(w) \/ Die(w)

StatusSpec == StatusInit /\ [][StatusNext]_statusVars

-----------------------------------------------------------------------------
(* What os.replace installs is the status of the tick that calls it, which   *)
(* goes on to return status_persisted.                                       *)
InstallsOwn(w) == ~installed[w] /\ installed'[w] => target' = Whole(w)

(* It is so as long as no two ticks overlapped (a busy tick writes without a *)
(* lock).                                                                    *)
OwnStatus == [][~overlapped => \A w \in Tick : InstallsOwn(w)]_statusVars

(* When no tick is running and none was killed, no temporary file is left,   *)
(* however the ticks got in each other's way.                                *)
NoLeftover ==
  ~killed /\ (\A w \in Tick : stage[w] = "ready") => temporary = Nobody
=============================================================================
