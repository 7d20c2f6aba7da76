----------------------------- MODULE Messaging -----------------------------
(***************************************************************************)
(* The outbound messages of one environment (src/peoplebot/messaging.py):  *)
(* commits appended to one local ref, pushed to one destination, and read  *)
(* there by peers.  Publishers are separate processes over the same        *)
(* checkout; the non-blocking publisher lock of a runtime root keeps apart *)
(* those that name the same root.                                          *)
(*                                                                         *)
(* A commit is fixed by its message and its parents (its dates are the     *)
(* message's), so a commit is the sequence of messages of its history.     *)
(***************************************************************************)
EXTENDS Naturals, Sequences, SequencesExt

CONSTANTS
  Publisher,      \* executions that append and publish
  Peer,           \* executions of read_peer_messages
  Message,        \* contents of message.json
  Id,             \* Id[m]: the message_id of m
  Root,           \* Root[p]: the runtime root p names
  Approved,       \* messages whose sender the peers' sources allow
  MaxMessages,    \* _MAX_MESSAGES
  MaxFaults,      \* bound on faults
  None

Roots == {Root[p] : p \in Publisher}
History == Seq(Message)

ASSUME MessagingAssumption ==
  /\ MaxMessages \in Nat /\ MaxFaults \in Nat
  /\ Approved \subseteq Message
  /\ None \notin Publisher /\ None \notin Message

VARIABLES
  local,        \* the local outbound ref
  orphans,      \* commits a git child that outlived its parent may attach
  remote,       \* the outbound ref at the destination
  inflight,     \* pushes that were given up on and may still land
  lock,         \* lock[r]: holder of the publisher lock in root r
  told,         \* messages some caller was told are remote_verified
  faults,       \* faults so far
  pc, op, msg, mine, base, expected, answer, verdict,   \* each publisher's
  tip, read     \* the commit a peer is fetching, and the messages it has

refs  == <<local, orphans>>
net   == <<remote, inflight>>
calls == <<op, msg, expected>>
held  == <<calls, mine, base, answer, verdict>>
peers == <<tip, read>>
vars  == <<refs, net, lock, told, faults, pc, held, peers>>

Phase ==
  {"ready", "inspect", "compare", "append", "attach",
   "preflight", "push", "observe"}
Operation == {"append and publish", "append", "publish"}
Disposition == {"remote_verified", "failed", "uncertain"}

TypeOK ==
  /\ local \in History /\ remote \in History
  /\ orphans \subseteq History /\ inflight \subseteq [from : History, to : History]
  /\ lock \in [Roots -> Publisher \union {None}]
  /\ told \subseteq Message /\ faults \in Nat
  /\ pc \in [Publisher -> Phase] /\ op \in [Publisher -> Operation]
  /\ msg \in [Publisher -> Message \union {None}]
  /\ mine \in [Publisher -> History] /\ base \in [Publisher -> History]
  /\ expected \in [Publisher -> History]
  /\ answer \in [Publisher -> {"done", "refused"}]
  /\ verdict \in [Publisher -> Disposition \union {None}]
  /\ tip \in [Peer -> History] /\ read \in [Peer -> History]

Init ==
  /\ local = <<>> /\ orphans = {}
  /\ remote = <<>> /\ inflight = {}
  /\ lock = [r \in Roots |-> None]
  /\ told = {} /\ faults = 0
  /\ pc = [p \in Publisher |-> "ready"]
  /\ op = [p \in Publisher |-> "append"]
  /\ msg = [p \in Publisher |-> None]
  /\ mine = [p \in Publisher |-> <<>>] /\ base = [p \in Publisher |-> <<>>]
  /\ expected = [p \in Publisher |-> <<>>]
  /\ answer = [p \in Publisher |-> "refused"]
  /\ verdict = [p \in Publisher |-> None]
  /\ tip = [r \in Peer |-> <<>>] /\ read = [r \in Peer |-> <<>>]

-----------------------------------------------------------------------------
(* Building blocks *)

Fault == faults < MaxFaults /\ faults' = faults + 1

Go(p, phase) == pc' = [pc EXCEPT ![p] = phase]

(* The publisher lock is released in a "finally", or by the operating system.*)
Unlock(p) == lock' = [lock EXCEPT ![Root[p]] = IF @ = p THEN None ELSE @]

NoRepeats(h) == \A i, j \in DOMAIN h : Id[h[i]] = Id[h[j]] => i = j

(* OutboundMessageStore.messages of a tip: it raises beyond the limit and    *)
(* for a repeated ID; _OneLess counts wrong.                                 *)
Listable_OneLess(h) == Len(h) < MaxMessages /\ NoRepeats(h)
Listable(h) == Len(h) =< MaxMessages /\ NoRepeats(h)

(* The entries of a history that bear m's ID.                                *)
SameId(h, m) == {i \in DOMAIN h : Id[h[i]] = Id[m]}

(* A receiving repository takes a push that is not forced only if it moves   *)
(* its ref forward; _Forced takes any.                                       *)
FastForward_Forced(h, c) == TRUE
FastForward(h, c) == IsPrefix(h, c)

(* publish_message's verdict after the push, from what is observed.          *)
Judged(p, observed) ==
  IF observed = mine[p] THEN "remote_verified"
  ELSE IF answer[p] = "refused" /\ observed = expected[p] THEN "failed"
  ELSE "uncertain"

(* The call of p ends with a publication of verdict v, which names the       *)
(* commit and the tip it expected.                                           *)
Return(p, v) ==
  /\ Go(p, "ready") /\ Unlock(p)
  /\ verdict' = [verdict EXCEPT ![p] = v]
  /\ told' = IF v = "remote_verified" THEN told \union {msg[p]} ELSE told
  /\ answer' = [answer EXCEPT ![p] = "refused"]
  /\ UNCHANGED <<calls, mine, base>>

(* The call of p raises, or its process dies: there is no publication, and   *)
(* of a commit only a caller of publish_message still knows.                 *)
Raise(p) ==
  /\ Go(p, "ready") /\ Unlock(p)
  /\ verdict' = [verdict EXCEPT ![p] = None]
  /\ mine' = IF op[p] = "publish" THEN mine ELSE [mine EXCEPT ![p] = <<>>]
  /\ msg' = IF op[p] = "publish" THEN msg ELSE [msg EXCEPT ![p] = None]
  /\ expected' = [expected EXCEPT ![p] = <<>>]
  /\ base' = [base EXCEPT ![p] = <<>>]
  /\ answer' = [answer EXCEPT ![p] = "refused"]
  /\ UNCHANGED <<op, told>>

-----------------------------------------------------------------------------
(* The lock is free; a caller that finds it held raises and changes nothing. *)

Begin(p, o, m, phase) ==
  /\ pc[p] = "ready" /\ lock[Root[p]] = None
  /\ lock' = [lock EXCEPT ![Root[p]] = p]
  /\ op' = [op EXCEPT ![p] = o]
  /\ msg' = [msg EXCEPT ![p] = m]
  /\ mine' = [mine EXCEPT ![p] = <<>>]
  /\ expected' = [expected EXCEPT ![p] = <<>>]
  /\ verdict' = [verdict EXCEPT ![p] = None]
  /\ Go(p, phase)
  /\ UNCHANGED <<refs, net, told, faults, base, answer, peers>>

StartPublication(p, m) == Begin(p, "append and publish", m, "inspect")
StartAppend(p, m)      == Begin(p, "append", m, "append")

(* publish_message of a commit appended earlier, with a tip the caller has   *)
(* seen at the destination; it takes no lock.                                *)
StartPush(p) ==
  /\ pc[p] = "ready" /\ mine[p] # <<>>
  /\ op' = [op EXCEPT ![p] = "publish"]
  /\ \E n \in 0..Len(remote) :
       expected' = [expected EXCEPT ![p] = SubSeq(remote, 1, n)]
  /\ verdict' = [verdict EXCEPT ![p] = None]
  /\ Go(p, "preflight")
  /\ UNCHANGED <<refs, net, lock, told, faults, msg, mine, base, answer, peers>>

-----------------------------------------------------------------------------
(* append_and_publish_owned_message up to the append *)

InspectRemote(p) ==
  /\ pc[p] = "inspect"
  /\ expected' = [expected EXCEPT ![p] = remote]
  /\ Go(p, "compare")
  /\ UNCHANGED <<refs, net, lock, told, faults, op, msg, mine, base, answer,
                 verdict, peers>>

(* _Skipped appends to a local history that is ahead as well. *)
CompareLocal_Skipped(p) ==
  /\ pc[p] = "compare"
  /\ Go(p, "append")
  /\ UNCHANGED <<refs, net, lock, told, faults, held, peers>>
CompareLocal(p) ==
  /\ pc[p] = "compare"
  /\ IF local = expected[p]
       THEN Go(p, "append") /\ UNCHANGED <<lock, told, held>>
       ELSE Raise(p)
  /\ UNCHANGED <<refs, net, faults, peers>>

(* The commit c is p's; an append on its own ends here. *)
Appended(p, c) ==
  /\ mine' = [mine EXCEPT ![p] = c]
  /\ base' = [base EXCEPT ![p] = <<>>]
  /\ IF op[p] = "append"
       THEN Go(p, "ready") /\ Unlock(p)
       ELSE Go(p, "preflight") /\ UNCHANGED lock

(* OutboundMessageStore.append up to the new commit; _Uncapped looks for the *)
(* ID without listing.                                                       *)

AppendRefused(p) ==
  /\ pc[p] = "append"
  /\ \/ ~Listable(local)
     \/ \E i \in SameId(local, msg[p]) : local[i] # msg[p]
  /\ Raise(p)
  /\ UNCHANGED <<refs, net, faults, peers>>

AppendKnown(p) ==
  /\ pc[p] = "append" /\ Listable(local)
  /\ \E i \in SameId(local, msg[p]) :
       /\ local[i] = msg[p]
       /\ Appended(p, SubSeq(local, 1, i))
  /\ UNCHANGED <<refs, net, told, faults, calls, answer, verdict, peers>>

AppendNew_Uncapped(p) ==
  /\ pc[p] = "append" /\ SameId(local, msg[p]) = {}
  /\ base' = [base EXCEPT ![p] = local]
  /\ Go(p, "attach")
  /\ UNCHANGED <<refs, net, lock, told, faults, calls, mine, answer, verdict, peers>>
AppendNew(p) ==
  /\ pc[p] = "append" /\ Listable(local)
  /\ SameId(local, msg[p]) = {}
  /\ base' = [base EXCEPT ![p] = local]
  /\ Go(p, "attach")
  /\ UNCHANGED <<refs, net, lock, told, faults, calls, mine, answer, verdict, peers>>

(* The commit is attached if the ref is still where it was read;             *)
(* _Unconditionally does not compare.                                        *)
Commit(p) == Append(base[p], msg[p])
Attach_Unconditionally(p) ==
  /\ pc[p] = "attach"
  /\ local' = Commit(p)
  /\ Appended(p, Commit(p))
  /\ UNCHANGED <<orphans, net, told, faults, calls, answer, verdict, peers>>
Attach(p) ==
  /\ pc[p] = "attach" /\ local = base[p]
  /\ local' = Commit(p)
  /\ Appended(p, Commit(p))
  /\ UNCHANGED <<orphans, net, told, faults, calls, answer, verdict, peers>>

(* The ref had moved; or it was attached and the confirmation was lost; or   *)
(* the git child is still at it when its parent has given up.                *)
AttachRaises(p) ==
  /\ pc[p] = "attach"
  /\ \/ local # base[p] /\ UNCHANGED <<refs, faults>>
     \/ Fault /\ local = base[p] /\ local' = Commit(p) /\ UNCHANGED orphans
     \/ Fault /\ orphans' = orphans \union {Commit(p)} /\ UNCHANGED local
  /\ Raise(p)
  /\ UNCHANGED <<net, peers>>

-----------------------------------------------------------------------------
(* publish_message *)

Preflight(p) ==
  /\ pc[p] = "preflight"
  /\ IF remote = expected[p]
       THEN Go(p, "push") /\ UNCHANGED <<lock, told, held>>
       ELSE Return(p, "failed")
  /\ UNCHANGED <<refs, net, faults, peers>>

PushLands(p) ==
  /\ pc[p] = "push" /\ FastForward(remote, mine[p])
  /\ remote' = mine[p]
  /\ answer' = [answer EXCEPT ![p] = "done"]
  /\ Go(p, "observe")
  /\ UNCHANGED <<refs, inflight, lock, told, faults, calls, mine, base, verdict, peers>>

(* git push fails; the destination may still finish what it was sent. *)
PushRefused(p) ==
  /\ pc[p] = "push"
  /\ \/ UNCHANGED <<inflight, faults>>
     \/ Fault /\ FastForward(remote, mine[p])
        /\ inflight' = inflight \union {[from |-> remote, to |-> mine[p]]}
  /\ answer' = [answer EXCEPT ![p] = "refused"]
  /\ Go(p, "observe")
  /\ UNCHANGED <<refs, remote, lock, told, calls, mine, base, verdict, peers>>

(* The push times out or its process dies, and may land later. *)
PushGivenUp(p) ==
  /\ pc[p] = "push"
  /\ Fault
  /\ inflight' =
       IF FastForward(remote, mine[p])
         THEN inflight \union {[from |-> remote, to |-> mine[p]]} ELSE inflight
  /\ Return(p, "uncertain") \/ Raise(p)
  /\ UNCHANGED <<refs, remote, peers>>

Observe(p) ==
  /\ pc[p] = "observe"
  /\ Return(p, Judged(p, remote)) \/ Return(p, "uncertain")
  /\ UNCHANGED <<refs, net, faults, peers>>

(* A network or Git failure, or the end of the process, at any step. *)
Interrupted(p) ==
  /\ pc[p] # "ready"
  /\ Raise(p)
  /\ UNCHANGED <<refs, net, faults, peers>>

(* reconcile_message_publication looks at the destination again. *)
Reconcile(p) ==
  /\ pc[p] = "ready" /\ verdict[p] # None
  /\ Return(p, IF remote = mine[p] THEN "remote_verified"
               ELSE IF remote = expected[p] THEN "failed" ELSE "uncertain")
  /\ UNCHANGED <<refs, net, faults, peers>>

-----------------------------------------------------------------------------
(* What outlives a publisher; either may also come to nothing. *)

OrphanEnds ==
  \E c \in orphans :
    /\ orphans' = orphans \ {c}
    /\ local' = local \/ (local = Front(c) /\ local' = c)
    /\ UNCHANGED <<net, lock, told, faults, pc, held, peers>>

PushEnds ==
  \E i \in inflight :
    /\ inflight' = inflight \ {i}
    /\ remote' = remote \/ (remote = i.from /\ remote' = i.to)
    /\ UNCHANGED <<refs, lock, told, faults, pc, held, peers>>

(* read_peer_messages *)

Readable(h) == Listable(h) /\ ToSet(h) \subseteq Approved

PeerInspects(r) ==
  /\ tip[r] = <<>> /\ remote # <<>>
  /\ tip' = [tip EXCEPT ![r] = remote]
  /\ UNCHANGED <<refs, net, lock, told, faults, pc, held, read>>

PeerReads(r) ==
  /\ tip[r] # <<>> /\ Readable(tip[r])
  /\ read' = [read EXCEPT ![r] = tip[r]]
  /\ tip' = [tip EXCEPT ![r] = <<>>]
  /\ UNCHANGED <<refs, net, lock, told, faults, pc, held>>

PeerFails(r) ==
  /\ tip[r] # <<>>
  /\ tip' = [tip EXCEPT ![r] = <<>>]
  /\ UNCHANGED <<refs, net, lock, told, faults, pc, held, read>>

PublisherStep(p) ==
  \/ \E m \in Message : StartPublication(p, m) \/ StartAppend(p, m)
  \/ StartPush(p)
  \/ InspectRemote(p) \/ CompareLocal(p)
  \/ AppendRefused(p) \/ AppendKnown(p) \/ AppendNew(p)
  \/ Attach(p) \/ AttachRaises(p)
  \/ Preflight(p) \/ PushLands(p) \/ PushRefused(p) \/ PushGivenUp(p)
  \/ Observe(p) \/ Interrupted(p) \/ Reconcile(p)

PeerStep(r) == PeerInspects(r) \/ PeerReads(r) \/ PeerFails(r)

Next ==
  \/ \E p \in Publisher : PublisherStep(p)
  \/ \E r \in Peer : PeerStep(r)
  \/ OrphanEnds \/ PushEnds

Spec == Init /\ [][Next]_vars

(* A peer keeps reading, and not every one of its reads fails. *)
FairSpec ==
  Spec /\ \A r \in Peer : WF_vars(PeerStep(r)) /\ SF_vars(PeerReads(r))

-----------------------------------------------------------------------------
(* Safety *)

(* There is one history: the destination has a beginning of the local one,   *)
(* whoever pushed what and when it landed.                                   *)
OneHistory == IsPrefix(remote, local)

(* No message ID is appended twice, whatever root its publisher names.       *)
UniqueIds == NoRepeats(local)

(* Who was told remote_verified, or learnt it by reconciliation, can rely on *)
(* it: the message is at the destination, and stays there.                   *)
ToldTruthfully == told \subseteq ToSet(remote)

(* What the history, the destination and the callers' results say goes       *)
(* together.                                                                 *)
HistorySafe == OneHistory /\ UniqueIds /\ ToldTruthfully

(* What a peer has read only ever grows at its end. *)
PeerMonotone == [][\A r \in Peer : IsPrefix(read[r], read'[r])]_read

(* messaging-v0.md caps the history at 256.  The cap is checked on what an   *)
(* append finds, so the history can go one over it, and from then on no      *)
(* append adds anything, whoever appends and whatever lands late.            *)
HistoryCapped == Len(local) =< MaxMessages + 1

(* The abstract log is what is at the destination. *)
Log == INSTANCE OutboundLog WITH log <- remote, acknowledged <- told
LogKept == Log!Spec

-----------------------------------------------------------------------------
(* Liveness *)

(* A message somebody was told is published reaches every peer, unless the   *)
(* history has become one that no peer accepts.                              *)
EventuallyRead ==
  \A r \in Peer :
    []<>(\/ told \subseteq ToSet(read[r])
         \/ Len(remote) > MaxMessages
         \/ ~(ToSet(remote) \subseteq Approved))
=============================================================================
