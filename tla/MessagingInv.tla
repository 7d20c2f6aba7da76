---------------------------- MODULE MessagingInv ----------------------------
(***************************************************************************)
(* The inductive invariant of Messaging behind OneHistory, UniqueIds and   *)
(* ToldTruthfully.  Everything that can still become a ref value is        *)
(* already in order: what publishers hold and what is under way to the     *)
(* destination is a beginning of the local history, and what may yet be    *)
(* attached repeats no ID.                                                 *)
(***************************************************************************)
EXTENDS Messaging

(* A publisher's commit is in the local history and ends with its message. *)
CommitOf(p) ==
  /\ IsPrefix(mine[p], local)
  /\ mine[p] # <<>> => mine[p][Len(mine[p])] = msg[p]
  /\ pc[p] \in {"preflight", "push", "observe"} => mine[p] # <<>>
  /\ verdict[p] # None => mine[p] # <<>>
CommitsAttached == \A p \in Publisher : CommitOf(p)

(* Type correctness, with the message every call has. *)
MessageOf(p) ==
  pc[p] # "ready" \/ mine[p] # <<>> \/ verdict[p] # None => msg[p] \in Message
TypeInv == TypeOK /\ \A p \in Publisher : MessageOf(p)

(* A late push moves the destination forward, to a part of the local history.*)
PushesForward ==
  \A i \in inflight : IsPrefix(i.from, i.to) /\ IsPrefix(i.to, local)

(* Where the ID was not found, the commit about to be attached repeats none. *)
FreshOf(p) == pc[p] = "attach" => NoRepeats(Commit(p))
AppendsFresh ==
  /\ \A p \in Publisher : FreshOf(p)
  /\ \A c \in orphans : c # <<>> /\ NoRepeats(c)

(* The inductive invariant. *)
MsgInv ==
  /\ TypeInv
  /\ OneHistory
  /\ UniqueIds
  /\ ToldTruthfully
  /\ CommitsAttached
  /\ PushesForward
  /\ AppendsFresh

-----------------------------------------------------------------------------
(* Behind HistoryCapped: an append goes on only from a listable history, and *)
(* what it attaches is one message longer, now or later.                     *)
CapInv ==
  /\ HistoryCapped
  /\ \A p \in Publisher : pc[p] = "attach" => Len(base[p]) =< MaxMessages
  /\ \A c \in orphans : Len(c) =< MaxMessages + 1

(* Behind PeerMonotone: the tip a peer fetches continues what it has read,   *)
(* and both are beginnings of the destination.                               *)
ReadsFollow ==
  \A r \in Peer :
    /\ IsPrefix(read[r], remote) /\ IsPrefix(tip[r], remote)
    /\ tip[r] # <<>> => IsPrefix(read[r], tip[r])
=============================================================================
