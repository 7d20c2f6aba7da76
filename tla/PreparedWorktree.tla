-------------------------- MODULE PreparedWorktree --------------------------
(***************************************************************************)
(* Preparation and clean-up of a detached, unmaterialized worktree at one  *)
(* destination (src/peoplebot/preparation.py): Git registers it, the       *)
(* preparer writes a marker with its token into the administrative         *)
(* directory and keeps token and digest in a handle; clean-up removes the  *)
(* worktree if everything is still as the handle says.  Nothing is locked: *)
(* other preparers want the same destination, and users and other Git      *)
(* commands work there, add work, remove it or put something in its place. *)
(*                                                                         *)
(* A token is named for its preparer, whose earlier handles and marks are  *)
(* gone when it prepares again.                                            *)
(***************************************************************************)
EXTENDS Naturals

CONSTANTS
  Preparer,         \* callers of prepare_detached_worktree
  Torn,             \* a marker that was not written to its end
  MaxIntrusions,    \* bound on what users and other commands do
  MaxFaults,        \* bound on deaths, timeouts and failed writes
  None

ASSUME PreparedAssumption ==
  /\ MaxIntrusions \in Nat /\ MaxFaults \in Nat
  /\ None \notin Preparer /\ Torn \notin Preparer /\ Torn # None

VARIABLES
  reg,          \* Git's registration of the destination, or None
  dest,         \* what is at the destination
  maker,        \* (history) whose "git worktree add" made the registration
  pc,           \* what each preparer does
  handle,       \* handle[p]: the digest in p's PreparedWorktree, or None
  answer,       \* answer[p]: how p's last call ended
  since,        \* (history) since[p]: what changed after p last looked at it
  intrusions, faults

site   == <<reg, dest, maker>>
calls  == <<pc, handle, answer>>
bounds == <<intrusions, faults>>
vars   == <<site, calls, since, bounds>>

Mark == Preparer \union {Torn, None}

(* whole: the add was not interrupted; moved: HEAD is not the detached       *)
(* pinned commit; staged: the index differs from it.                         *)
Registration ==
  [marker : Mark, whole : BOOLEAN, moved : BOOLEAN, staged : BOOLEAN]
Fresh(complete) ==
  [marker |-> None, whole |-> complete, moved |-> FALSE, staged |-> FALSE]
ASSUME NoneAssumption == None \notin Registration

Preparing == {"add", "record", "baseline", "mark", "proof", "digest"}
Phase == {"ready", "contents", "unchanged", "remove", "gone"} \union Preparing
Answer == {"none", "handle", "kept", "bare", "refused", "removed", "incomplete"}
Kind == {"files", "admin", "registration", "baseline"}

TypeOK ==
  /\ reg \in Registration \union {None}
  /\ dest \in {"absent", "linked", "work", "other"}
  /\ maker \in Preparer \union {None}
  /\ pc \in [Preparer -> Phase]
  /\ handle \in [Preparer -> Registration \union {None}]
  /\ \A p \in Preparer : handle[p] # None => pc[p] \notin Preparing
  /\ answer \in [Preparer -> Answer]
  /\ since \in [Preparer -> SUBSET Kind]
  /\ intrusions \in 0..MaxIntrusions /\ faults \in 0..MaxFaults

Init ==
  /\ reg = None /\ dest = "absent" /\ maker = None
  /\ pc = [p \in Preparer |-> "ready"]
  /\ handle = [p \in Preparer |-> None]
  /\ answer = [p \in Preparer |-> "none"]
  /\ since = [p \in Preparer |-> {}]
  /\ intrusions = 0 /\ faults = 0

-----------------------------------------------------------------------------
(* Building blocks *)

Fault == faults < MaxFaults /\ faults' = faults + 1

Go(p, phase) == pc' = [pc EXCEPT ![p] = phase] /\ UNCHANGED <<handle, answer>>
End(p, h, a) ==
  /\ pc' = [pc EXCEPT ![p] = "ready"]
  /\ handle' = [handle EXCEPT ![p] = h]
  /\ answer' = [answer EXCEPT ![p] = a]

(* A look that changes nothing, ending a call or letting it go on. *)
Look(p, good, phase, bad) ==
  /\ IF good THEN Go(p, phase) ELSE End(p, handle[p], bad)
  /\ UNCHANGED <<site, since, bounds>>

(* The destination's .git file and the administrative directory name each    *)
(* other; and nothing but that file is there.                                *)
Linked == dest \in {"linked", "work"} /\ reg # None
Unmaterialized == dest = "linked"

(* Whether an error names the destination as recoverable: it does if         *)
(* anything is there or registered; _PathOnly does not ask Git.              *)
Observed_PathOnly(d, r) == IF d # "absent" THEN "kept" ELSE "bare"
Observed(d, r) == IF d # "absent" \/ r # None THEN "kept" ELSE "bare"

(* _require_disposable_initial_state.                                        *)
Disposable(marked) ==
  /\ reg # None
  /\ reg.whole /\ ~reg.moved /\ ~reg.staged /\ (reg.marker # None) = marked

(* _administrative_digest: everything in the administrative directory.       *)
Digest(r) == r

(* What the handle keeps.                                                    *)
Recorded == Digest(reg)

(* _registration_marker_matches; _Any takes whatever marker is there.        *)
MarkerMatches_Any(p) == reg.marker # None
MarkerMatches(p) == reg.marker = p

(* What p has looked at for the last time in its call: a change of kind k    *)
(* now comes too late for it to notice.                                      *)
Late(k) ==
  [p \in Preparer |-> since[p] \union
     (IF pc[p] = "remove" \/ (pc[p] = "unchanged" /\ k = "files") THEN {k}
      ELSE IF pc[p] = "digest" /\ k = "admin" THEN {"baseline"} ELSE {})]

-----------------------------------------------------------------------------
(* prepare_detached_worktree *)

(* A destination that exists or is registered is refused.  A new call has    *)
(* its own token.                                                            *)
PrepareStart(p) ==
  /\ pc[p] = "ready" /\ dest = "absent" /\ reg = None
  /\ pc' = [pc EXCEPT ![p] = "add"]
  /\ handle' = [handle EXCEPT ![p] = None]
  /\ answer' = [answer EXCEPT ![p] = "none"]
  /\ since' = [since EXCEPT ![p] = {}]
  /\ UNCHANGED <<site, bounds>>

(* Preparation fails: nothing is removed.  _RollsBack removes what it finds. *)
Fail_RollsBack(p) ==
  /\ End(p, None, Observed(dest, reg))
  /\ reg' = None /\ maker' = None
  /\ dest' = IF dest = "linked" THEN "absent" ELSE dest
  /\ UNCHANGED <<since, bounds>>
Fail(p) ==
  /\ End(p, None, Observed(dest, reg))
  /\ UNCHANGED <<site, since, bounds>>

Add(p) ==
  /\ pc[p] = "add" /\ dest = "absent" /\ reg = None
  /\ reg' = Fresh(TRUE) /\ dest' = "linked" /\ maker' = p
  /\ Go(p, "record")
  /\ UNCHANGED <<since, bounds>>

AddRefused(p) ==
  /\ pc[p] = "add" /\ (dest # "absent" \/ reg # None)
  /\ Fail(p)

(* The add times out, done or half done, or its caller dies as well. *)
AddGivenUp(p) ==
  /\ pc[p] = "add" /\ dest = "absent" /\ reg = None
  /\ Fault
  /\ \E complete \in BOOLEAN : reg' = Fresh(complete)
  /\ dest' \in {"absent", "linked"} /\ (reg'.whole => dest' = "linked")
  /\ maker' = p
  /\ \E a \in {Observed(dest', reg'), "none"} : End(p, None, a)
  /\ UNCHANGED <<since, intrusions>>

VerifyRecord(p) ==
  /\ pc[p] = "record"
  /\ IF Linked /\ Unmaterialized /\ reg.whole /\ ~reg.moved
       THEN Go(p, "baseline") /\ UNCHANGED <<site, since, bounds>>
       ELSE Fail(p)

VerifyBaseline(p) ==
  /\ pc[p] = "baseline"
  /\ IF Disposable(FALSE)
       THEN Go(p, "mark") /\ UNCHANGED <<site, since, bounds>>
       ELSE Fail(p)

(* The marker is created, never overwritten. *)
WriteMarker(p) ==
  /\ pc[p] = "mark"
  /\ IF reg # None /\ reg.marker = None
       THEN /\ reg' = [reg EXCEPT !.marker = p]
            /\ Go(p, "proof")
            /\ UNCHANGED <<dest, maker, since, bounds>>
       ELSE Fail(p)

(* The write fails half-way, or the process dies in it. *)
MarkerTorn(p) ==
  /\ pc[p] = "mark" /\ reg # None /\ reg.marker = None
  /\ Fault
  /\ reg' = [reg EXCEPT !.marker = Torn]
  /\ \E a \in {Observed(dest, reg), "none"} : End(p, None, a)
  /\ UNCHANGED <<dest, maker, since, intrusions>>

VerifyMarked(p) ==
  /\ pc[p] = "proof"
  /\ IF Disposable(TRUE)
       THEN Go(p, "digest") /\ UNCHANGED <<site, since, bounds>>
       ELSE Fail(p)

TakeDigest(p) ==
  /\ pc[p] = "digest"
  /\ IF reg # None
       THEN End(p, Recorded, "handle") /\ UNCHANGED <<site, since, bounds>>
       ELSE Fail(p)

-----------------------------------------------------------------------------
(* cleanup_prepared_worktree; the caller keeps its handle and may call again *)

(* The links and the marker.  What came too late for an earlier clean-up is  *)
(* looked at again, but for what is in the handle's digest.                  *)
CheckOwnership(p) ==
  /\ pc[p] = "ready" /\ handle[p] # None
  /\ IF Linked /\ MarkerMatches(p)
       THEN Go(p, "contents")
       ELSE End(p, handle[p], "refused")
  /\ since' = [since EXCEPT ![p] = @ \intersect {"baseline"}]
  /\ UNCHANGED <<site, bounds>>

CheckContents(p) ==
  /\ pc[p] = "contents"
  /\ Look(p, reg # None /\ ~reg.moved /\ Unmaterialized, "unchanged", "refused")

CheckDigest(p) ==
  /\ pc[p] = "unchanged"
  /\ Look(p, reg # None /\ Digest(reg) = handle[p], "remove", "refused")

(* git worktree remove --force takes whatever worktree is there now. *)
Removable == reg # None /\ reg.whole /\ dest # "other"

RemoveWorktree(p) ==
  /\ pc[p] = "remove" /\ Removable
  /\ reg' = None /\ dest' = "absent" /\ maker' = None
  /\ since' = Late("registration")
  /\ Go(p, "gone")
  /\ UNCHANGED bounds

RemoveRefused(p) ==
  /\ pc[p] = "remove" /\ ~Removable
  /\ Look(p, FALSE, "gone", "refused")

(* The removal is given up on, undone, half done or done. *)
RemoveGivenUp(p) ==
  /\ pc[p] = "remove" /\ Removable
  /\ Fault
  /\ \/ UNCHANGED <<site, since>>
     \/ dest' = "absent" /\ UNCHANGED <<reg, maker, since>>
     \/ /\ reg' = None /\ dest' = "absent" /\ maker' = None
        /\ since' = Late("registration")
  /\ End(p, handle[p], "refused")
  /\ UNCHANGED intrusions

VerifyGone(p) ==
  /\ pc[p] = "gone"
  /\ End(p, handle[p], IF dest = "absent" THEN "removed" ELSE "incomplete")
  /\ UNCHANGED <<site, since, bounds>>

(* Git or the file system cannot be read. *)
Unreadable(p) ==
  /\ Fault
  /\ \/ pc[p] \in {"record", "baseline", "proof", "digest"}
        /\ End(p, None, Observed(dest, reg))
     \/ pc[p] \in {"contents", "unchanged"} /\ End(p, handle[p], "refused")
  /\ UNCHANGED <<site, since, intrusions>>

(* The process of p ends, and its handle with it. *)
Crash(p) ==
  /\ Fault
  /\ pc[p] # "ready" \/ handle[p] # None
  /\ End(p, None, "none")
  /\ UNCHANGED <<site, since, intrusions>>

-----------------------------------------------------------------------------
(* Users and other Git commands *)

Intrusion ==
  /\ intrusions < MaxIntrusions /\ intrusions' = intrusions + 1
  /\ UNCHANGED <<calls, faults>>

AddFiles ==
  /\ Intrusion /\ dest = "linked"
  /\ dest' = "work" /\ since' = Late("files")
  /\ UNCHANGED <<reg, maker>>

Stage ==
  /\ Intrusion /\ Linked
  /\ reg' = [reg EXCEPT !.staged = TRUE] /\ since' = Late("admin")
  /\ UNCHANGED <<dest, maker>>

MoveHead ==
  /\ Intrusion /\ Linked
  /\ reg' = [reg EXCEPT !.moved = TRUE] /\ since' = Late("admin")
  /\ UNCHANGED <<dest, maker>>

(* git worktree remove, or prune. *)
Deregister ==
  /\ Intrusion /\ reg # None
  /\ reg' = None /\ maker' = None
  /\ dest' = IF dest = "other" THEN dest ELSE "absent"
  /\ since' = Late("registration")

DeleteDestination ==
  /\ Intrusion /\ dest # "absent"
  /\ dest' = "absent"
  /\ UNCHANGED <<reg, maker, since>>

Occupy ==
  /\ Intrusion /\ dest = "absent"
  /\ dest' = "other"
  /\ UNCHANGED <<reg, maker, since>>

Prepare(p) ==
  \/ PrepareStart(p) \/ Add(p) \/ AddRefused(p) \/ AddGivenUp(p)
  \/ VerifyRecord(p) \/ VerifyBaseline(p) \/ WriteMarker(p) \/ MarkerTorn(p)
  \/ VerifyMarked(p) \/ TakeDigest(p)

Cleanup(p) ==
  \/ CheckOwnership(p) \/ CheckContents(p) \/ CheckDigest(p)
  \/ RemoveWorktree(p) \/ RemoveRefused(p) \/ RemoveGivenUp(p) \/ VerifyGone(p)

Next ==
  \/ \E p \in Preparer : Prepare(p) \/ Cleanup(p) \/ Unreadable(p) \/ Crash(p)
  \/ AddFiles \/ Stage \/ MoveHead
  \/ Deregister \/ DeleteDestination \/ Occupy

Spec == Init /\ [][Next]_vars

-----------------------------------------------------------------------------

(* context-preparation-v0.md: clean-up removes an operation-owned            *)
(* registration that contains no visible or metadata-only work.  Nothing     *)
(* else is removed except what came in after the final validation of its     *)
(* kind, or was staged as the handle's digest was taken.                     *)
Harm(p) ==
  (IF dest = "work" THEN {"files"} ELSE {})
  \union (IF reg.staged \/ reg.moved THEN {"admin"} ELSE {})
  \union (IF reg.marker # p THEN {"registration"} ELSE {})
Unnoticed(p) ==
  since[p] \union (IF "baseline" \in since[p] THEN {"admin"} ELSE {})
NothingLost ==
  [][\A p \in Preparer :
       pc[p] = "remove" /\ pc'[p] # "remove" /\ <<reg, dest>>' # <<reg, dest>> =>
         Harm(p) \subseteq Unnoticed(p)]_vars

(* A preparation that failed names the destination if it left anything of    *)
(* its own there, however little Git had done.                               *)
Accounted ==
  \A p \in Preparer : answer[p] = "bare" => maker # p

(* The destination is in one of its states, and its failures are told.       *)
PreparedInv == TypeOK /\ Accounted

(* While only preparers and clean-ups work at the destination, and none is   *)
(* killed, a handle stays good until it is used: who loses the race for the  *)
(* destination, or fails in it, leaves the winner's worktree alone.          *)
HandleGood ==
  \A p \in Preparer :
    intrusions = 0 /\ faults = 0 /\ answer[p] = "handle" /\ pc[p] # "gone" =>
      /\ reg # None /\ dest = "linked"
      /\ reg.marker = p /\ Digest(reg) = handle[p]
=============================================================================
