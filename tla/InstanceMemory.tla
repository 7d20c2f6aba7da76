--------------------------- MODULE InstanceMemory ---------------------------
(***************************************************************************)
(* The memory of one Instance in the checkouts of its environment and at   *)
(* their remote: checkpoints (src/peoplebot/memory.py), publication,        *)
(* reconciliation of a push that was given up, and recovery of a checkout  *)
(* through the refs of an operation (src/peoplebot/synchronization.py).     *)
(* Each checkout runs one admitted operation at a time, in a process that  *)
(* may be killed at any step; a push that was given up may land later; and *)
(* an outsider may push to the remote, or replace a recovery ref.           *)
(*                                                                         *)
(* A memory commit is the sequence of those who wrote it and its           *)
(* predecessors above the authorized baseline, which is the empty sequence *)
(* and stands for the absence of a ref, too.                               *)
(***************************************************************************)
EXTENDS Naturals, SequencesExt

CONSTANTS
  Checkout, Outsider, Operation, None,
  Calls,                            \* Calls[c]: the kinds of operation that are called on c
  MaxCommits,                       \* MaxCommits[c]: how long a memory checkout c makes
  MaxIntrusions, MaxReplaced        \* what outsiders may do

ASSUME MemoryAssumption ==
  /\ Checkout # {} /\ Outsider \notin Checkout
  /\ MaxCommits \in [Checkout -> Nat] /\ MaxIntrusions \in Nat /\ MaxReplaced \in Nat

(* None is nothing else: no operation, no answer, no value of a ref.         *)
ASSUME NoneAssumption ==
  /\ None \notin Operation /\ None \notin BOOLEAN
  /\ None \notin {"marker", "state", "foreign", "remote_verified"}

VARIABLES
  local,     \* local[c]: the canonical local ref of the Instance's memory
  remote,    \* the same ref at the remote
  owner,     \* owner[c][k]: the owner ref of recovery k: None, "marker" or "foreign"
  quarantine,\* quarantine[c][k]: its quarantine ref: None, "state" (its commit) or "foreign"
  flying,    \* pushes that have been sent and not been decided
  call,      \* call[c]: the operation in hand
  told,      \* what the last operation that ended returned
  intruded, replaced  \* what outsiders have done so far

vars == <<local, remote, owner, quarantine, flying, call, told, intruded, replaced>>
refVars == <<local, remote, owner, quarantine, flying>>
outside == <<intruded, replaced>>

-----------------------------------------------------------------------------
Absent == <<>>
Memory == UNION {BoundedSeq(Checkout, MaxCommits[c]) : c \in Checkout}
Commit ==                      \* an outsider continues what the Instance has published
  {m \o [i \in 1 .. n |-> Outsider] : m \in Memory, n \in 0 .. MaxIntrusions}
Key == Operation \X Commit     \* _recovery_refs: one pair of refs per operation and State
Ancestors(m) == {SubSeq(m, 1, n) : n \in 0 .. Len(m)}

Idle == [pc |-> "idle", target |-> Absent, expected |-> Absent, id |-> None,
         sent |-> None, answer |-> None, how |-> None]
Untold == [by |-> None, how |-> None, target |-> Absent, id |-> None, retained |-> None, record |-> None]

Init ==
  /\ local = [c \in Checkout |-> Absent]
  /\ remote = Absent
  /\ owner = [c \in Checkout |-> [k \in Key |-> None]]
  /\ quarantine = [c \in Checkout |-> [k \in Key |-> None]]
  /\ flying = {}
  /\ call = [c \in Checkout |-> Idle]
  /\ told = Untold
  /\ intruded = 0 /\ replaced = 0

At(c, pc) == call[c].pc = pc
To(c, pc) == call' = [call EXCEPT ![c].pc = pc] /\ UNCHANGED told
Target(c) == call[c].target
KeyOf(c) == <<call[c].id, call[c].target>>

(* A call, admitted where no other is in hand, up to the first step that      *)
(* others can see.  (What a call has told is compared until the next.)       *)
Begins(c, kind) ==
  /\ At(c, "idle") /\ kind \in Calls[c]
Goes(c, request, pc) ==
  /\ call' = [call EXCEPT ![c] = [request EXCEPT !.pc = pc]]
  /\ told' = Untold
Request(target, expected) == [Idle EXCEPT !.target = target, !.expected = expected]

(* The observation is returned, whatever becomes of the record of the         *)
(* execution: it is one of success where the State was verified, one of      *)
(* failure, or there is none.  A result that verifies nothing and does not    *)
(* say that refs are gone is not compared with anything.                     *)
Tells(c, request, how, retained) ==
  /\ IF how = "remote_verified" \/ retained = FALSE
     THEN \E record \in {IF how = "remote_verified" THEN "succeeded" ELSE "failed", "failed", None} :
            told' = [by |-> c, how |-> how, target |-> request.target, id |-> request.id,
                     retained |-> retained, record |-> record]
     ELSE told' = Untold
  /\ call' = [call EXCEPT ![c] = Idle]
Concludes(c, how) == Tells(c, call[c], how, None)

(* The lineage above the baseline: a chain of commits that are this          *)
(* Instance's memory and nothing else, with the expected State on it.       *)
Bound(author) == author \in Checkout
Lineage(m) == m # Absent /\ \A i \in DOMAIN m : Bound(m[i])

-----------------------------------------------------------------------------
(* A checkpoint of the memory the request expects, or of none: the ref is    *)
(* moved in one prepared transaction, which may take effect and not be       *)
(* confirmed; the same memory again only verifies the ref.                   *)
Outcome == {"done", "unconfirmed", "failed"}
Took(outcome) == outcome # "failed"

Checkpoint_Anywhere(c) ==
  /\ Begins(c, "checkpoint")
  /\ \E m \in Ancestors(local[c]), outcome \in Outcome :
       /\ Len(m) < MaxCommits[c]
       /\ local' = [local EXCEPT ![c] = IF Took(outcome) THEN Append(m, c) ELSE @]
       /\ Tells(c, Request(Append(m, c), m), IF outcome = "done" THEN "saved" ELSE "failed", None)
  /\ UNCHANGED <<remote, owner, quarantine, flying, outside>>
Checkpoint(c) ==
  /\ Begins(c, "checkpoint")
  /\ \E m \in Ancestors(local[c]), outcome \in Outcome :
       \/ /\ Len(m) < MaxCommits[c] /\ (Took(outcome) => local[c] = m)
          /\ local' = [local EXCEPT ![c] = IF Took(outcome) THEN Append(m, c) ELSE @]
          /\ Tells(c, Request(Append(m, c), m), IF outcome = "done" THEN "saved" ELSE "failed", None)
       \/ /\ local[c] = m /\ m # Absent
          /\ Tells(c, Request(m, m), "saved", None)
          /\ UNCHANGED local
  /\ UNCHANGED <<remote, owner, quarantine, flying, outside>>

-----------------------------------------------------------------------------
(* Publication: the local ref is the State that was named, the remote is     *)
(* where it is expected, and that State is pushed, without force.  A State    *)
(* that is no ancestor of the local ref fails as one that is not its end.    *)
Requests(c) == UNION {{Request(m, x) : x \in Ancestors(m)} : m \in Ancestors(local[c])}

Synchronize(c) ==
  /\ Begins(c, "synchronize")
  /\ \E r \in Requests(c) :
       IF Lineage(r.target) /\ local[c] = r.target /\ remote = r.expected
       THEN Goes(c, r, "pushing") \/ Tells(c, r, "failed", None)   \* where the remote cannot be inspected
       ELSE Tells(c, r, "failed", None)
  /\ UNCHANGED <<refVars, outside>>

(* git push reads the remote's ref, refuses what is no fast-forward, and      *)
(* asks for the ref to be moved from what it has read.                       *)
Push(c) ==
  LET sent == [from |-> c, old |-> remote, new |-> Target(c)]
  IN /\ At(c, "pushing")
     /\ IF remote = Target(c) THEN To(c, "verifying") /\ UNCHANGED flying
        ELSE IF ~IsPrefix(remote, Target(c)) THEN Concludes(c, "uncertain") /\ UNCHANGED flying
        ELSE /\ call' = [call EXCEPT ![c].pc = "awaiting", ![c].sent = sent]
             /\ flying' = flying \union {sent} /\ UNCHANGED told
     /\ UNCHANGED <<local, remote, owner, quarantine, outside>>

(* The remote decides on a push, even on one that nobody waits for, or never. *)
Land(p) ==
  /\ p \in flying
  /\ flying' = flying \ {p}
  /\ remote' = IF remote = p.old THEN p.new ELSE remote
  /\ call' = [call EXCEPT ![p.from].answer =
       IF call[p.from].sent = p THEN (IF remote = p.old THEN "landed" ELSE "rejected") ELSE @]
  /\ UNCHANGED <<local, owner, quarantine, told, outside>>

(* The answer, or a timeout, a failure of the child or a broken connection.  *)
Await(c) ==
  /\ At(c, "awaiting")
  /\ \/ call[c].answer = "landed" /\ To(c, "verifying")
     \/ Concludes(c, "uncertain")
  /\ UNCHANGED <<refVars, outside>>

Verify(c) ==
  /\ At(c, "verifying")
  /\ \/ remote = Target(c) /\ Concludes(c, "remote_verified")
     \/ Concludes(c, "uncertain")   \* unavailable, or another State
  /\ UNCHANGED <<refVars, outside>>

(* Reconciliation only looks: the prior State does not prove that the push    *)
(* will not land.  Any State may be named, wherever the local ref is; one     *)
(* whose objects are not there, as well as one that is not this Instance's    *)
(* or is too long, is refused.                                               *)
Named == UNION {{Request(m, x) : x \in Ancestors(m)} : m \in Commit}

Reconcile_PriorSettles(c) ==
  /\ Begins(c, "reconcile")
  /\ \E r \in Named :
       \/ Tells(c, r, "failed", None)
       \/ Lineage(r.target) /\ remote \in {r.target, r.expected} /\ Tells(c, r, "remote_verified", None)
  /\ UNCHANGED <<refVars, outside>>
Reconcile(c) ==
  /\ Begins(c, "reconcile")
  /\ \E r \in Named :
       \/ Tells(c, r, "failed", None)                              \* refused, or an intervening State
       \/ /\ Lineage(r.target)
          /\ \/ Tells(c, r, "uncertain", None)                    \* not inspected, or the prior State
             \/ remote = r.target /\ Tells(c, r, "remote_verified", None)
  /\ UNCHANGED <<refVars, outside>>

-----------------------------------------------------------------------------
(* Recovery of a State of the remote, through the refs of the operation.     *)
Owner(c) == owner[c][KeyOf(c)]
Quarantine(c) == quarantine[c][KeyOf(c)]
SetRefs(c, own, quar) ==
  /\ owner' = [owner EXCEPT ![c][KeyOf(c)] = own]
  /\ quarantine' = [quarantine EXCEPT ![c][KeyOf(c)] = quar]

(* The remote and the two refs are read.  Whatever goes wrong from here on is *)
(* reported with whether the refs are still there.                           *)
Reports(c, how) == call' = [call EXCEPT ![c].pc = "reporting", ![c].how = how] /\ UNCHANGED told

Recover(c) ==
  /\ Begins(c, "recover")
  /\ \E m \in Ancestors(remote) \ {Absent}, x \in Ancestors(local[c]), id \in Operation, resume \in BOOLEAN :
       LET r == [Request(m, x) EXCEPT !.id = id]
           own == owner[c][<<id, m>>]
           quar == quarantine[c][<<id, m>>]
       IN \/ Goes(c, [r EXCEPT !.how = "failed"], "reporting")
          \/ /\ remote = m
             /\ IF resume
                THEN own = "marker" /\ quar \in {None, "state"} /\ Goes(c, r, IF quar = None THEN "fetching" ELSE "attaching")
                ELSE quar = None /\ Goes(c, r, "claiming")
  /\ UNCHANGED <<refVars, outside>>

(* The owner ref is created where neither ref exists.                        *)
Claim(c) ==
  /\ At(c, "claiming")
  /\ \E outcome \in Outcome :
       /\ Took(outcome) => Owner(c) = None /\ Quarantine(c) = None
       /\ IF Took(outcome) THEN SetRefs(c, "marker", None) ELSE UNCHANGED <<owner, quarantine>>
       /\ IF outcome = "done" THEN To(c, "rereading") ELSE Reports(c, "failed")
  /\ UNCHANGED <<local, remote, flying, outside>>

Reread(c) ==
  /\ At(c, "rereading")
  /\ \/ Quarantine(c) = None /\ To(c, "fetching")
     \/ Quarantine(c) # None /\ Tells(c, call[c], "failed", TRUE)
     \/ Reports(c, "failed")
  /\ UNCHANGED <<refVars, outside>>

(* The objects are fetched, to no ref. *)
Fetch(c) ==
  /\ At(c, "fetching")
  /\ To(c, "quarantining") \/ Reports(c, "uncertain")
  /\ UNCHANGED <<refVars, outside>>

(* The quarantine ref is created while the owner ref is this operation's.    *)
Quarantined(c) ==
  /\ At(c, "quarantining")
  /\ \E outcome \in Outcome :
       /\ Took(outcome) => Owner(c) = "marker" /\ Quarantine(c) = None
       /\ IF Took(outcome) THEN SetRefs(c, "marker", "state") ELSE UNCHANGED <<owner, quarantine>>
       /\ IF outcome = "done" THEN To(c, "attaching") ELSE Reports(c, "failed")
  /\ UNCHANGED <<local, remote, flying, outside>>

(* The lineage is this Instance's and continues the local memory that is      *)
(* expected; the local ref is moved while both refs are this operation's.    *)
(* (Validation also refuses a branch that is checked out.)                   *)
Attachable(c) == Lineage(Target(c)) /\ IsPrefix(call[c].expected, Target(c))
Attached(c) ==
  /\ At(c, "attaching")
  /\ \E outcome \in Outcome :
       /\ Took(outcome) =>
            /\ Quarantine(c) = "state" /\ Owner(c) = "marker"
            /\ Attachable(c) /\ local[c] = call[c].expected
       /\ local' = [local EXCEPT ![c] = IF Took(outcome) THEN Target(c) ELSE @]
       /\ IF outcome = "done" THEN To(c, "cleaning") ELSE Reports(c, "failed")
  /\ UNCHANGED <<remote, owner, quarantine, flying, outside>>

(* Both refs are removed together, or neither is.  The recovery stands even   *)
(* so, unless git itself could not be asked: then the call raises.           *)
Clean_Unverified(c) ==
  /\ At(c, "cleaning")
  /\ SetRefs(c, None, None) /\ Tells(c, call[c], "remote_verified", FALSE)
  /\ UNCHANGED <<local, remote, flying, outside>>
Clean_OwnerFirst(c) ==
  /\ At(c, "cleaning")
  /\ \E outcome \in Outcome :
       /\ Took(outcome) => Owner(c) = "marker" /\ Quarantine(c) = "state" /\ local[c] = Target(c)
       /\ IF outcome = "done" THEN SetRefs(c, None, None)
          ELSE IF outcome = "unconfirmed" THEN SetRefs(c, None, Quarantine(c)) ELSE UNCHANGED <<owner, quarantine>>
       /\ IF outcome = "done" THEN Tells(c, call[c], "remote_verified", FALSE) ELSE Reports(c, "remote_verified")
  /\ UNCHANGED <<local, remote, flying, outside>>
Clean(c) ==
  /\ At(c, "cleaning")
  /\ \E outcome \in Outcome :
       /\ Took(outcome) => Owner(c) = "marker" /\ Quarantine(c) = "state" /\ local[c] = Target(c)
       /\ IF Took(outcome) THEN SetRefs(c, None, None) ELSE UNCHANGED <<owner, quarantine>>
       /\ IF outcome = "done" THEN Tells(c, call[c], "remote_verified", FALSE) ELSE \E how \in {"remote_verified", "failed"} : Reports(c, how)
  /\ UNCHANGED <<local, remote, flying, outside>>

Report(c) ==
  /\ At(c, "reporting")
  /\ \E retained \in {Owner(c) # None \/ Quarantine(c) # None, None} : Tells(c, call[c], call[c].how, retained)
  /\ UNCHANGED <<refVars, outside>>

Die(c) ==
  /\ ~At(c, "idle")
  /\ call' = [call EXCEPT ![c] = Idle]
  /\ UNCHANGED <<refVars, told, outside>>

(* Outsiders: one pushes to the remote, one replaces a recovery ref.         *)
Intrude ==
  /\ intruded < MaxIntrusions /\ remote # Absent
  /\ remote' = Append(remote, Outsider) /\ intruded' = intruded + 1
  /\ UNCHANGED <<local, owner, quarantine, flying, call, told, replaced>>

Replace(c, k) ==
  /\ replaced < MaxReplaced /\ replaced' = replaced + 1
  /\ "recover" \in Calls[c] /\ (owner[c][k] # None \/ KeyOf(c) = k)
  /\ \/ owner' = [owner EXCEPT ![c][k] = "foreign"] /\ UNCHANGED quarantine
     \/ quarantine' = [quarantine EXCEPT ![c][k] = "foreign"] /\ UNCHANGED owner
  /\ UNCHANGED <<local, remote, flying, call, told, intruded>>

CallStep(c) ==
  \/ Push(c) \/ Await(c) \/ Verify(c)
  \/ Claim(c) \/ Reread(c) \/ Fetch(c) \/ Quarantined(c) \/ Attached(c) \/ Clean(c) \/ Report(c)

Next ==
  \/ \E c \in Checkout :
       \/ Checkpoint(c) \/ Synchronize(c) \/ Reconcile(c) \/ Recover(c)
       \/ CallStep(c) \/ Die(c) \/ \E k \in Key : Replace(c, k)
  \/ \E p \in flying : Land(p)
  \/ Intrude

Spec == Init /\ [][Next]_vars

-----------------------------------------------------------------------------
(* The type of each variable. *)
TypeOK ==
  /\ local \in [Checkout -> Memory] /\ remote \in Commit
  /\ \A c \in Checkout : \A k \in Key : owner[c][k] \in {None, "marker", "foreign"}
  /\ \A c \in Checkout : \A k \in Key : quarantine[c][k] \in {None, "state", "foreign"}
  /\ \A p \in flying : p.from \in Checkout /\ {p.old, p.new} \subseteq Commit
  /\ \A c \in Checkout : {call[c].target, call[c].expected, told.target} \subseteq Commit
  /\ intruded \in 0 .. MaxIntrusions /\ replaced \in 0 .. MaxReplaced

(* A State that was told to be verified at the remote has been there: the     *)
(* remote holds it or a successor; and where a recovery was told (it alone    *)
(* has an operation), the checkout holds it or a successor, too (docs:        *)
(* "Outcomes and reconciliation").                                           *)
VerifiedStands ==
  told.how = "remote_verified" =>
    /\ IsPrefix(told.target, remote)
    /\ told.id # None => IsPrefix(told.target, local[told.by])

(* What an interrupted recovery leaves, in whatever step it was cut off or    *)
(* lost its confirmation, can be continued: the quarantine ref is never there *)
(* without the owner ref that a continuation has to find.                     *)
Resumable ==
  \A c \in Checkout : \A k \in Key :
    quarantine[c][k] = "state" => owner[c][k] # None

(* A result that tells the refs of the recovery to be gone tells the truth.   *)
RetainedTold ==
  told.retained = FALSE => LET k == <<told.id, told.target>>
                           IN owner[told.by][k] = None /\ quarantine[told.by][k] = None

(* The recovery refs can be taken up again, and what was told of them holds.  *)
RecoveryInv == TypeOK /\ Resumable /\ RetainedTold

(* A ref that an outsider has replaced is never taken, moved or removed.      *)
ForeignKept ==
  [][<<owner, quarantine>>' # <<owner, quarantine>> => \A c \in Checkout : \A k \in Key :
       /\ owner[c][k] = "foreign" => owner'[c][k] = "foreign"
       /\ quarantine[c][k] = "foreign" => quarantine'[c][k] = "foreign"]_vars

(* The memory only grows, in each checkout and at the remote, from what the   *)
(* checkouts have written.                                                   *)
Lineages == INSTANCE MemoryLineage
LineageKept == Lineages!Spec
=============================================================================
