-------------------------- MODULE MessagingProofs --------------------------
(***************************************************************************)
(* The theorems of Messaging for all values of its constants: the local    *)
(* history and the destination in step, the refinement of OutboundLog, the *)
(* limit, what peers read and what a publication carries.  Every history   *)
(* anybody holds is a beginning of the local one.                          *)
(***************************************************************************)
EXTENDS MessagingCalls, SequenceTheorems, TLAPS

(* A prefix, element by element. *)
LEMMA PrefixDef ==
  ASSUME NEW S, NEW s \in Seq(S), NEW t \in Seq(S)
  PROVE  IsPrefix(s, t) <=> /\ Len(s) =< Len(t)
                            /\ \A i \in 1..Len(s) : s[i] = t[i]
<1>1. CASE Len(s) =< Len(t)
  <2>. DEFINE u == SubSeq(s, 1, Len(s))
              v == SubSeq(t, 1, Len(s))
  <2>1. u \in Seq(S) /\ Len(u) = Len(s) /\ \A i \in 1..Len(s) : u[i] = s[i]
    BY <1>1
  <2>2. v \in Seq(S) /\ Len(v) = Len(s) /\ \A i \in 1..Len(s) : v[i] = t[i]
    BY <1>1
  <2>. HIDE DEF u, v
  <2>3. u = v <=> \A i \in 1..Len(s) : u[i] = v[i]
    BY <2>1, <2>2, SeqEqual
  <2>. QED BY <1>1, <2>1, <2>2, <2>3 DEF IsPrefix, u, v
<1>2. CASE ~(Len(s) =< Len(t))
  BY <1>2 DEF IsPrefix
<1>. QED BY <1>1, <1>2

LEMMA PrefixTrans ==
  ASSUME NEW S, NEW s \in Seq(S), NEW t \in Seq(S), NEW u \in Seq(S),
         IsPrefix(s, t), IsPrefix(t, u)
  PROVE  IsPrefix(s, u)
<1>1. Len(s) \in Nat /\ Len(t) \in Nat /\ Len(u) \in Nat
  OBVIOUS
<1>. QED BY <1>1, PrefixDef

LEMMA PrefixRefl ==
  ASSUME NEW S, NEW s \in Seq(S) PROVE IsPrefix(s, s)
BY PrefixDef

LEMMA PrefixEmpty ==
  ASSUME NEW S, NEW s \in Seq(S) PROVE IsPrefix(<<>>, s)
<1>1. <<>> \in Seq(S) /\ Len(<<>>) = 0 /\ Len(s) \in Nat
  OBVIOUS
<1>2. Len(<<>>) =< Len(s) /\ \A i \in 1..Len(<<>>) : <<>>[i] = s[i]
  BY <1>1
<1>. QED BY <1>1, <1>2, PrefixDef

LEMMA PrefixAppend ==
  ASSUME NEW S, NEW s \in Seq(S), NEW e \in S PROVE IsPrefix(s, Append(s, e))
<1>. DEFINE t == Append(s, e)
<1>1. /\ t \in Seq(S) /\ Len(t) = Len(s) + 1 /\ Len(s) \in Nat
      /\ \A i \in 1..Len(s) : t[i] = s[i]
  OBVIOUS
<1>. HIDE DEF t
<1>2. IsPrefix(s, t)
  BY <1>1, PrefixDef
<1>. QED BY <1>2 DEF t

LEMMA AppendLast ==
  ASSUME NEW S, NEW s \in Seq(S), NEW e \in S
  PROVE  /\ Append(s, e) \in Seq(S) /\ Append(s, e) # <<>>
         /\ Append(s, e)[Len(Append(s, e))] = e
<1>. DEFINE t == Append(s, e)
<1>1. t \in Seq(S) /\ Len(t) = Len(s) + 1 /\ t[Len(s) + 1] = e /\ Len(s) \in Nat
  OBVIOUS
<1>2. Len(t) # 0 /\ Len(<<>>) = 0
  BY <1>1
<1>. QED BY <1>1, <1>2

LEMMA PrefixSubSeq ==
  ASSUME NEW S, NEW s \in Seq(S), NEW n \in 0..Len(s)
  PROVE  SubSeq(s, 1, n) \in Seq(S) /\ IsPrefix(SubSeq(s, 1, n), s)
<1>1. /\ SubSeq(s, 1, n) \in Seq(S) /\ Len(SubSeq(s, 1, n)) = n
      /\ n =< Len(s)
  OBVIOUS
<1>2. \A i \in 1..n : SubSeq(s, 1, n)[i] = s[i]
  OBVIOUS
<1>. QED BY <1>1, <1>2, PrefixDef

LEMMA SubSeqLast ==
  ASSUME NEW S, NEW s \in Seq(S), NEW n \in 1..Len(s)
  PROVE  /\ SubSeq(s, 1, n) \in Seq(S) /\ Len(SubSeq(s, 1, n)) = n
         /\ SubSeq(s, 1, n)[n] = s[n] /\ SubSeq(s, 1, n) # <<>>
<1>1. /\ SubSeq(s, 1, n) \in Seq(S) /\ Len(SubSeq(s, 1, n)) = n
      /\ n \in Nat /\ n # 0
  OBVIOUS
<1>2. SubSeq(s, 1, n)[n] = s[n]
  OBVIOUS
<1>3. Len(<<>>) = 0
  OBVIOUS
<1>. QED BY <1>1, <1>2, <1>3

LEMMA PrefixElements ==
  ASSUME NEW S, NEW s \in Seq(S), NEW t \in Seq(S), IsPrefix(s, t)
  PROVE  ToSet(s) \subseteq ToSet(t)
<1>1. Len(s) =< Len(t) /\ \A i \in 1..Len(s) : s[i] = t[i]
  BY PrefixDef
<1>2. DOMAIN s = 1..Len(s) /\ DOMAIN t = 1..Len(t)
  OBVIOUS
<1>. QED BY <1>1, <1>2 DEF ToSet

(* A nonempty history that is attached where its front is extends it. *)
LEMMA PrefixFront ==
  ASSUME NEW S, NEW c \in Seq(S), c # <<>>
  PROVE  Front(c) \in Seq(S) /\ IsPrefix(Front(c), c)
BY PrefixSubSeq DEF Front

LEMMA NoRepeatsPrefix ==
  ASSUME NEW s \in History, NEW t \in History, IsPrefix(s, t), NoRepeats(t)
  PROVE  NoRepeats(s)
<1>1. Len(s) =< Len(t) /\ \A i \in 1..Len(s) : s[i] = t[i]
  BY PrefixDef DEF History
<1>2. DOMAIN s = 1..Len(s) /\ DOMAIN t = 1..Len(t)
  BY DEF History
<1>. QED BY <1>1, <1>2 DEF NoRepeats, History

LEMMA NoRepeatsAppend ==
  ASSUME NEW h \in History, NEW m \in Message, NoRepeats(h), SameId(h, m) = {}
  PROVE  NoRepeats(Append(h, m))
<1>1. \A i \in 1..Len(h) : Id[h[i]] # Id[m]
  BY DEF SameId, History
<1>2. /\ DOMAIN h = 1..Len(h) /\ DOMAIN Append(h, m) = 1..(Len(h) + 1)
      /\ \A i \in 1..Len(h) : Append(h, m)[i] = h[i]
      /\ Append(h, m)[Len(h) + 1] = m
  BY DEF History
<1>. QED BY <1>1, <1>2 DEF NoRepeats, History

-----------------------------------------------------------------------------
(* Types *)

LEMMA HistoryFacts ==
  /\ <<>> \in History
  /\ \A h \in History, m \in Message : Append(h, m) \in History
  /\ \A h \in History : \A n \in 0..Len(h) : SubSeq(h, 1, n) \in History
  /\ \A h \in History : Len(h) \in Nat /\ DOMAIN h = 1..Len(h)
BY PrefixSubSeq DEF History

LEMMA TypeInit == Init => TypeInv
BY MessagingAssumption, HistoryFacts
   DEF Init, TypeInv, TypeOK, MessageOf, Roots, Phase, Operation, Disposition

(* The changes common to the steps of a call, with the message of it known.  *)
LEMMA RaiseTypes ==
  ASSUME TypeInv, NEW p \in Publisher, Raise(p)
  PROVE  /\ lock' \in [Roots -> Publisher \union {None}]
         /\ told' \subseteq Message
         /\ pc' \in [Publisher -> Phase] /\ op' \in [Publisher -> Operation]
         /\ msg' \in [Publisher -> Message \union {None}]
         /\ mine' \in [Publisher -> History] /\ base' \in [Publisher -> History]
         /\ expected' \in [Publisher -> History]
         /\ answer' \in [Publisher -> {"done", "refused"}]
         /\ verdict' \in [Publisher -> Disposition \union {None}]
         /\ \A q \in Publisher : MessageOf(q)'
BY HistoryFacts
   DEF TypeInv, TypeOK, MessageOf, Raise, Go, Unlock, Phase, Disposition

LEMMA ReturnTypes ==
  ASSUME TypeInv, NEW p \in Publisher, NEW v \in Disposition, Return(p, v),
         msg[p] \in Message
  PROVE  /\ lock' \in [Roots -> Publisher \union {None}]
         /\ told' \subseteq Message
         /\ pc' \in [Publisher -> Phase] /\ op' \in [Publisher -> Operation]
         /\ msg' \in [Publisher -> Message \union {None}]
         /\ mine' \in [Publisher -> History] /\ base' \in [Publisher -> History]
         /\ expected' \in [Publisher -> History]
         /\ answer' \in [Publisher -> {"done", "refused"}]
         /\ verdict' \in [Publisher -> Disposition \union {None}]
         /\ \A q \in Publisher : MessageOf(q)'
BY DEF TypeInv, TypeOK, MessageOf, Return, Go, Unlock, calls, Phase

LEMMA AppendedTypes ==
  ASSUME TypeInv, NEW p \in Publisher, NEW c \in History, Appended(p, c),
         msg[p] \in Message, UNCHANGED <<msg, verdict>>
  PROVE  /\ lock' \in [Roots -> Publisher \union {None}]
         /\ pc' \in [Publisher -> Phase]
         /\ mine' \in [Publisher -> History] /\ base' \in [Publisher -> History]
         /\ \A q \in Publisher : MessageOf(q)'
<1>1. <<>> \in History
  BY HistoryFacts
<1>. QED BY <1>1
     DEF TypeInv, TypeOK, MessageOf, Appended, Go, Unlock, Phase

LEMMA TypeStep == TypeInv /\ [Next]_vars => TypeInv'
<1>. SUFFICES ASSUME TypeInv, [Next]_vars PROVE TypeInv'
  OBVIOUS
<1>. USE DEF TypeInv, TypeOK, MessageOf
<1>1. ASSUME NEW p \in Publisher, NEW m \in Message,
             StartPublication(p, m) \/ StartAppend(p, m)
      PROVE  TypeInv'
  <2>1. PICK o \in Operation, phase \in Phase \ {"ready"} : Begin(p, o, m, phase)
    BY <1>1 DEF StartPublication, StartAppend, Phase, Operation
  <2>. QED BY <2>1, HistoryFacts DEF Begin, Go, refs, net, peers
<1>2. ASSUME NEW p \in Publisher, StartPush(p) PROVE TypeInv'
  <2>1. PICK n \in 0..Len(remote) :
               expected' = [expected EXCEPT ![p] = SubSeq(remote, 1, n)]
    BY <1>2 DEF StartPush
  <2>2. SubSeq(remote, 1, n) \in History
    BY HistoryFacts
  <2>. QED BY <1>2, <2>1, <2>2 DEF StartPush, Go, refs, net, peers, Phase, Operation
<1>3. ASSUME NEW p \in Publisher, InspectRemote(p) PROVE TypeInv'
  BY <1>3 DEF InspectRemote, Go, refs, net, peers, Phase
<1>4. ASSUME NEW p \in Publisher, CompareLocal(p) PROVE TypeInv'
  <2>1. CASE local = expected[p]
    BY <1>4, <2>1 DEF CompareLocal, Go, refs, net, peers, held, calls, Phase
  <2>2. CASE Raise(p)
    BY <1>4, <2>2, RaiseTypes DEF CompareLocal, refs, net, peers
  <2>. QED BY <1>4, <2>1, <2>2 DEF CompareLocal
<1>5. ASSUME NEW p \in Publisher, AppendRefused(p) PROVE TypeInv'
  BY <1>5, RaiseTypes DEF AppendRefused, refs, net, peers
<1>6. ASSUME NEW p \in Publisher, AppendKnown(p) PROVE TypeInv'
  <2>1. PICK i \in SameId(local, msg[p]) : Appended(p, SubSeq(local, 1, i))
    BY <1>6 DEF AppendKnown
  <2>2. SubSeq(local, 1, i) \in History
    <3>1. i \in 1..Len(local) /\ Len(local) \in Nat
      BY HistoryFacts DEF SameId
    <3>2. i \in 0..Len(local)
      BY <3>1
    <3>. QED BY <3>2, HistoryFacts
  <2>. QED BY <1>6, <2>1, <2>2, AppendedTypes DEF AppendKnown, refs, net, peers, calls
<1>7. ASSUME NEW p \in Publisher, AppendNew(p) PROVE TypeInv'
  BY <1>7 DEF AppendNew, Go, refs, net, peers, calls, Phase
<1>8. ASSUME NEW p \in Publisher, Attach(p) PROVE TypeInv'
  <2>1. Commit(p) \in History
    <3>1. base[p] \in History /\ msg[p] \in Message
      BY <1>8 DEF Attach
    <3>. QED BY <3>1, HistoryFacts DEF Commit
  <2>. QED BY <1>8, <2>1, AppendedTypes DEF Attach, net, peers, calls
<1>9. ASSUME NEW p \in Publisher, AttachRaises(p) PROVE TypeInv'
  <2>1. local' \in History /\ orphans' \subseteq History /\ faults' \in Nat
    <3>1. Commit(p) \in History
      BY <1>9, HistoryFacts DEF AttachRaises, Commit
    <3>. QED BY <1>9, <3>1 DEF AttachRaises, Fault, refs
  <2>. QED BY <1>9, <2>1, RaiseTypes DEF AttachRaises, net, peers
<1>10. ASSUME NEW p \in Publisher, Preflight(p) PROVE TypeInv'
  <2>1. CASE remote = expected[p]
    BY <1>10, <2>1 DEF Preflight, Go, refs, net, peers, held, calls, Phase
  <2>2. CASE Return(p, "failed")
    BY <1>10, <2>2, ReturnTypes DEF Preflight, refs, net, peers, Disposition
  <2>. QED BY <1>10, <2>1, <2>2 DEF Preflight
<1>11. ASSUME NEW p \in Publisher, PushLands(p) PROVE TypeInv'
  BY <1>11 DEF PushLands, Go, refs, peers, calls, Phase
<1>12. ASSUME NEW p \in Publisher, PushRefused(p) PROVE TypeInv'
  <2>1. inflight' \subseteq [from : History, to : History] /\ faults' \in Nat
    <3>1. [from |-> remote, to |-> mine[p]] \in [from : History, to : History]
      OBVIOUS
    <3>. QED BY <1>12, <3>1 DEF PushRefused, Fault
  <2>. QED BY <1>12, <2>1 DEF PushRefused, Go, refs, peers, calls, Phase
<1>13. ASSUME NEW p \in Publisher, PushGivenUp(p) PROVE TypeInv'
  <2>1. inflight' \subseteq [from : History, to : History] /\ faults' \in Nat
    <3>1. [from |-> remote, to |-> mine[p]] \in [from : History, to : History]
      OBVIOUS
    <3>. QED BY <1>13, <3>1 DEF PushGivenUp, Fault
  <2>2. CASE Return(p, "uncertain")
    BY <1>13, <2>1, <2>2, ReturnTypes DEF PushGivenUp, refs, peers, Disposition
  <2>3. CASE Raise(p)
    BY <1>13, <2>1, <2>3, RaiseTypes DEF PushGivenUp, refs, peers
  <2>. QED BY <1>13, <2>2, <2>3 DEF PushGivenUp
<1>14. ASSUME NEW p \in Publisher, Observe(p) PROVE TypeInv'
  <2>1. PICK v \in Disposition : Return(p, v)
    BY <1>14 DEF Observe, Judged, Disposition
  <2>. QED BY <1>14, <2>1, ReturnTypes DEF Observe, refs, net, peers
<1>15. ASSUME NEW p \in Publisher, Interrupted(p) PROVE TypeInv'
  BY <1>15, RaiseTypes DEF Interrupted, refs, net, peers
<1>16. ASSUME NEW p \in Publisher, Reconcile(p) PROVE TypeInv'
  <2>1. PICK v \in Disposition : Return(p, v)
    BY <1>16 DEF Reconcile, Disposition
  <2>. QED BY <1>16, <2>1, ReturnTypes DEF Reconcile, refs, net, peers
<1>17. CASE OrphanEnds
  BY <1>17 DEF OrphanEnds, net, held, calls, peers
<1>18. CASE PushEnds
  BY <1>18 DEF PushEnds, refs, held, calls, peers
<1>19. ASSUME NEW r \in Peer, PeerStep(r) PROVE TypeInv'
  <2>1. CASE PeerInspects(r)
    BY <2>1 DEF PeerInspects, refs, net, held, calls
  <2>2. CASE PeerReads(r)
    BY <2>2, HistoryFacts DEF PeerReads, refs, net, held, calls
  <2>3. CASE PeerFails(r)
    BY <2>3, HistoryFacts DEF PeerFails, refs, net, held, calls
  <2>. QED BY <1>19, <2>1, <2>2, <2>3 DEF PeerStep
<1>20. CASE UNCHANGED vars
  BY <1>20 DEF vars, refs, net, held, calls, peers
<1>. QED
  BY <1>1, <1>2, <1>3, <1>4, <1>5, <1>6, <1>7, <1>8, <1>9, <1>10, <1>11, <1>12,
     <1>13, <1>14, <1>15, <1>16, <1>17, <1>18, <1>19, <1>20
     DEF Next, PublisherStep

-----------------------------------------------------------------------------
(* The inductive invariant *)

LEMMA MsgInit == Init => MsgInv
<1>. SUFFICES ASSUME Init PROVE MsgInv
  OBVIOUS
<1>1. TypeInv
  BY TypeInit
<1>2. IsPrefix(<<>>, <<>>)
  BY HistoryFacts, PrefixEmpty DEF History
<1>3. NoRepeats(<<>>)
  BY HistoryFacts DEF NoRepeats
<1>. QED BY <1>1, <1>2, <1>3
     DEF Init, MsgInv, OneHistory, UniqueIds, ToldTruthfully, CommitsAttached,
         CommitOf, PushesForward, AppendsFresh, FreshOf

(* A step of p leaves alone what the other publishers hold. *)
OthersKeep(p) ==
  \A q \in Publisher \ {p} :
    /\ pc'[q] = pc[q] /\ msg'[q] = msg[q] /\ mine'[q] = mine[q]
    /\ base'[q] = base[q] /\ verdict'[q] = verdict[q]

LEMMA HolderKeeps ==
  ASSUME TypeInv, TypeInv', IsPrefix(local, local'), NEW q \in Publisher,
         CommitOf(q), FreshOf(q),
         pc'[q] = pc[q], msg'[q] = msg[q], mine'[q] = mine[q],
         base'[q] = base[q], verdict'[q] = verdict[q]
  PROVE  CommitOf(q)' /\ FreshOf(q)'
<1>1. IsPrefix(mine[q], local')
  <2>1. mine[q] \in Seq(Message) /\ local \in Seq(Message) /\ local' \in Seq(Message)
    BY DEF TypeInv, TypeOK, History
  <2>. QED BY <2>1, PrefixTrans DEF CommitOf
<1>. QED BY <1>1 DEF CommitOf, FreshOf, Commit

(* What is left to show of a step of p. *)
LEMMA PublisherKeeps ==
  ASSUME MsgInv, TypeInv', NEW p \in Publisher, OthersKeep(p),
         CommitOf(p)', FreshOf(p)',
         IsPrefix(local, local'), OneHistory', UniqueIds', ToldTruthfully',
         PushesForward', \A c \in orphans' : c # <<>> /\ NoRepeats(c)
  PROVE  MsgInv'
<1>1. ASSUME NEW q \in Publisher PROVE CommitOf(q)' /\ FreshOf(q)'
  <2>1. CASE q = p
    BY <2>1
  <2>2. CASE q # p
    BY <2>2, HolderKeeps DEF MsgInv, CommitsAttached, AppendsFresh, OthersKeep
  <2>. QED BY <2>1, <2>2
<1>. QED BY <1>1 DEF MsgInv, CommitsAttached, AppendsFresh

(* A step that moves no ref, sends nothing and tells nobody. *)
LEMMA QuietKeeps ==
  ASSUME MsgInv, TypeInv', NEW p \in Publisher, OthersKeep(p),
         CommitOf(p)', FreshOf(p)', UNCHANGED <<refs, net, told>>
  PROVE  MsgInv'
<1>1. IsPrefix(local, local')
  BY PrefixRefl DEF MsgInv, TypeInv, TypeOK, History, refs
<1>2. OneHistory' /\ UniqueIds' /\ ToldTruthfully' /\ PushesForward'
  BY DEF MsgInv, OneHistory, UniqueIds, ToldTruthfully, PushesForward, refs, net
<1>3. \A c \in orphans' : c # <<>> /\ NoRepeats(c)
  BY DEF MsgInv, AppendsFresh, refs
<1>. QED BY <1>1, <1>2, <1>3, PublisherKeeps

LEMMA RaiseKeeps ==
  ASSUME MsgInv, TypeInv', NEW p \in Publisher, Raise(p), IsPrefix(local, local')
  PROVE  OthersKeep(p) /\ CommitOf(p)' /\ FreshOf(p)'
<1>. USE DEF MsgInv, TypeInv, TypeOK
<1>1. OthersKeep(p)
  BY DEF OthersKeep, Raise, Go
<1>2. pc'[p] = "ready" /\ verdict'[p] = None
  BY DEF Raise, Go
<1>3. CASE op[p] = "publish"
  <2>1. mine'[p] = mine[p] /\ msg'[p] = msg[p]
    BY <1>3 DEF Raise
  <2>2. IsPrefix(mine[p], local')
    BY PrefixTrans DEF CommitsAttached, CommitOf, History
  <2>. QED BY <1>1, <1>2, <2>1, <2>2 DEF CommitsAttached, CommitOf, FreshOf
<1>4. CASE op[p] # "publish"
  <2>1. mine'[p] = <<>>
    BY <1>4 DEF Raise
  <2>2. IsPrefix(<<>>, local')
    BY PrefixEmpty DEF History
  <2>. QED BY <1>1, <1>2, <2>1, <2>2 DEF CommitOf, FreshOf
<1>. QED BY <1>3, <1>4

LEMMA ReturnKeeps ==
  ASSUME MsgInv, TypeInv', NEW p \in Publisher, NEW v, Return(p, v),
         mine[p] # <<>>, UNCHANGED local
  PROVE  OthersKeep(p) /\ CommitOf(p)' /\ FreshOf(p)'
<1>. USE DEF MsgInv, TypeInv, TypeOK
<1>1. OthersKeep(p)
  BY DEF OthersKeep, Return, Go, calls
<1>2. pc'[p] = "ready" /\ mine'[p] = mine[p] /\ msg'[p] = msg[p]
  BY DEF Return, Go, calls
<1>. QED BY <1>1, <1>2 DEF CommitsAttached, CommitOf, FreshOf

(* Where verdicts come from: a message told to be published is the last one *)
(* of a commit that is at the destination.                                  *)
LEMMA ToldKeeps ==
  ASSUME MsgInv, NEW p \in Publisher, NEW v, Return(p, v), UNCHANGED remote,
         v = "remote_verified" => remote = mine[p] /\ mine[p] # <<>>
  PROVE  ToldTruthfully'
<1>. USE DEF MsgInv
<1>1. CASE v = "remote_verified"
  <2>1. Len(remote) \in Nat /\ Len(remote) # 0 /\ DOMAIN remote = 1..Len(remote)
    BY <1>1 DEF TypeInv, TypeOK, History
  <2>2. remote[Len(remote)] = msg[p]
    BY <1>1 DEF CommitsAttached, CommitOf
  <2>3. msg[p] \in ToSet(remote)
    BY <2>1, <2>2 DEF ToSet
  <2>. QED BY <1>1, <2>3 DEF ToldTruthfully, Return
<1>2. CASE v # "remote_verified"
  BY <1>2 DEF ToldTruthfully, Return
<1>. QED BY <1>1, <1>2

(* The local ref takes a commit on its own tip. *)
LEMMA LocalGrows ==
  ASSUME MsgInv, local' \in History, IsPrefix(local, local'), NoRepeats(local'),
         UNCHANGED <<net, told>>
  PROVE  OneHistory' /\ UniqueIds' /\ ToldTruthfully' /\ PushesForward'
<1>. USE DEF MsgInv, TypeInv, TypeOK
<1>1. OneHistory'
  BY PrefixTrans DEF OneHistory, net, History
<1>2. ASSUME NEW i \in inflight PROVE IsPrefix(i.to, local')
  BY PrefixTrans DEF PushesForward, History
<1>3. PushesForward'
  BY <1>2 DEF PushesForward, net
<1>. QED BY <1>1, <1>3 DEF UniqueIds, ToldTruthfully, net

(* The destination takes a commit of the local history that is ahead of it. *)
LEMMA RemoteGrows ==
  ASSUME MsgInv, NEW c \in History, remote' = c, IsPrefix(remote, c),
         IsPrefix(c, local), UNCHANGED <<refs, told>>, inflight' \subseteq inflight
  PROVE  OneHistory' /\ UniqueIds' /\ ToldTruthfully' /\ PushesForward'
<1>. USE DEF MsgInv, TypeInv, TypeOK
<1>1. ToSet(remote) \subseteq ToSet(c)
  BY PrefixElements DEF History
<1>. QED BY <1>1
     DEF OneHistory, UniqueIds, ToldTruthfully, PushesForward, refs

(* A push under way starts at the destination and ends in the local history. *)
LEMMA PushSent ==
  ASSUME MsgInv, NEW p \in Publisher, FastForward(remote, mine[p]),
         inflight' = inflight \union {[from |-> remote, to |-> mine[p]]},
         UNCHANGED local
  PROVE  PushesForward'
BY DEF MsgInv, FastForward, PushesForward, CommitsAttached, CommitOf

LEMMA AttachKeeps ==
  ASSUME MsgInv, TypeInv', NEW p \in Publisher, pc[p] = "attach",
         local = base[p], local' = Commit(p)
  PROVE  /\ Commit(p) \in History /\ Commit(p) # <<>>
         /\ Commit(p)[Len(Commit(p))] = msg[p]
         /\ IsPrefix(local, local') /\ NoRepeats(local')
<1>. USE DEF MsgInv, TypeInv, TypeOK
<1>1. base[p] \in Seq(Message) /\ msg[p] \in Message
  BY DEF MessageOf, History
<1>2. IsPrefix(base[p], Commit(p))
  BY <1>1, PrefixAppend DEF Commit
<1>3. Commit(p) \in History /\ Commit(p) # <<>> /\ Commit(p)[Len(Commit(p))] = msg[p]
  <2>. DEFINE b == base[p]
              m == msg[p]
  <2>1. b \in Seq(Message) /\ m \in Message
    BY <1>1
  <2>. HIDE DEF b, m
  <2>2. /\ Append(b, m) \in Seq(Message) /\ Append(b, m) # <<>>
        /\ Append(b, m)[Len(Append(b, m))] = m
    BY ONLY <2>1, AppendLast
  <2>. QED BY <2>2 DEF Commit, History, b, m
<1>. QED BY <1>2, <1>3 DEF AppendsFresh, FreshOf

LEMMA AppendSteps ==
  ASSUME MsgInv, TypeInv', NEW p \in Publisher,
         AppendKnown(p) \/ AppendNew(p) \/ Attach(p) \/ AttachRaises(p)
  PROVE  MsgInv'
<1>. USE DEF MsgInv, TypeInv, TypeOK
<1>1. CASE AppendKnown(p)
  <2>1. PICK i \in SameId(local, msg[p]) :
               local[i] = msg[p] /\ Appended(p, SubSeq(local, 1, i))
    BY <1>1 DEF AppendKnown
  <2>. DEFINE c == SubSeq(local, 1, i)
  <2>2. i \in 1..Len(local) /\ Len(local) \in Nat
    BY DEF SameId, History
  <2>3. c \in Seq(Message) /\ Len(c) = i /\ c[i] = local[i] /\ c # <<>>
    <3>1. local \in Seq(Message)
      BY DEF History
    <3>. QED BY ONLY <2>2, <3>1, SubSeqLast
  <2>4. i \in 0..Len(local)
    BY <2>2
  <2>5. IsPrefix(c, local)
    BY <2>4, PrefixSubSeq DEF History
  <2>. HIDE DEF c
  <2>6. OthersKeep(p) /\ mine'[p] = c /\ pc'[p] # "attach"
    <3>1. Appended(p, c)
      BY <2>1 DEF c
    <3>2. UNCHANGED <<msg, verdict>>
      BY <1>1 DEF AppendKnown, calls
    <3>. QED BY <3>1, <3>2 DEF OthersKeep, Appended, Go
  <2>7. UNCHANGED <<refs, net, told, msg>>
    BY <1>1 DEF AppendKnown, calls
  <2>8. CommitOf(p)' /\ FreshOf(p)'
    BY <2>1, <2>3, <2>5, <2>6, <2>7 DEF CommitOf, FreshOf, refs
  <2>. QED BY <2>6, <2>7, <2>8, QuietKeeps
<1>2. CASE AppendNew(p)
  <2>1. msg[p] \in Message /\ SameId(local, msg[p]) = {} /\ pc[p] = "append"
    BY <1>2 DEF AppendNew, MessageOf
  <2>2. NoRepeats(Append(local, msg[p]))
    BY <2>1, NoRepeatsAppend DEF UniqueIds
  <2>3. /\ OthersKeep(p) /\ base'[p] = local /\ pc'[p] = "attach"
        /\ UNCHANGED <<refs, net, told, msg, mine, verdict>>
    BY <1>2 DEF OthersKeep, AppendNew, Go, calls
  <2>4. CommitOf(p)' /\ FreshOf(p)'
    BY <2>1, <2>2, <2>3 DEF CommitsAttached, CommitOf, FreshOf, Commit, refs
  <2>. QED BY <2>3, <2>4, QuietKeeps
<1>3. CASE Attach(p)
  <2>1. /\ Commit(p) \in History /\ Commit(p) # <<>>
        /\ Commit(p)[Len(Commit(p))] = msg[p]
        /\ IsPrefix(local, local') /\ NoRepeats(local')
    BY <1>3, AttachKeeps DEF Attach
  <2>2. /\ OthersKeep(p) /\ mine'[p] = Commit(p) /\ pc'[p] # "attach"
        /\ UNCHANGED <<orphans, net, told, msg>> /\ local' = Commit(p)
    BY <1>3 DEF OthersKeep, Attach, Appended, Go, calls
  <2>3. IsPrefix(Commit(p), local')
    BY <2>1, <2>2, PrefixRefl DEF History
  <2>4. CommitOf(p)' /\ FreshOf(p)'
    BY <2>1, <2>2, <2>3 DEF CommitOf, FreshOf
  <2>5. OneHistory' /\ UniqueIds' /\ ToldTruthfully' /\ PushesForward'
    BY <2>1, <2>2, LocalGrows
  <2>6. \A c \in orphans' : c # <<>> /\ NoRepeats(c)
    BY <2>2 DEF AppendsFresh
  <2>. QED BY <2>1, <2>2, <2>4, <2>5, <2>6, PublisherKeeps
<1>4. CASE AttachRaises(p)
  <2>1. UNCHANGED <<net, told>> /\ Raise(p) /\ pc[p] = "attach"
    BY <1>4 DEF AttachRaises, Raise
  <2>2. local' \in History /\ IsPrefix(local, local') /\ NoRepeats(local')
    <3>1. CASE UNCHANGED local
      BY <3>1, PrefixRefl DEF UniqueIds, History
    <3>2. CASE local = base[p] /\ local' = Commit(p)
      BY <2>1, <3>2, AttachKeeps
    <3>. QED BY <1>4, <3>1, <3>2 DEF AttachRaises, refs
  <2>3. \A c \in orphans' : c # <<>> /\ NoRepeats(c)
    <3>1. base[p] \in Seq(Message) /\ msg[p] \in Message
      BY <2>1 DEF MessageOf, History
    <3>2. Commit(p) # <<>>
      BY ONLY <3>1, AppendLast DEF Commit
    <3>3. NoRepeats(Commit(p))
      BY <2>1 DEF AppendsFresh, FreshOf
    <3>. QED BY <1>4, <3>2, <3>3 DEF AttachRaises, AppendsFresh, refs
  <2>4. OthersKeep(p) /\ CommitOf(p)' /\ FreshOf(p)'
    BY <2>1, <2>2, RaiseKeeps
  <2>5. OneHistory' /\ UniqueIds' /\ ToldTruthfully' /\ PushesForward'
    BY <2>1, <2>2, LocalGrows
  <2>. QED BY <2>2, <2>3, <2>4, <2>5, PublisherKeeps
<1>. QED BY <1>1, <1>2, <1>3, <1>4

LEMMA CallSteps ==
  ASSUME MsgInv, TypeInv', NEW p \in Publisher,
         \/ \E m \in Message : StartPublication(p, m) \/ StartAppend(p, m)
         \/ StartPush(p) \/ InspectRemote(p) \/ CompareLocal(p)
         \/ AppendRefused(p) \/ Interrupted(p)
  PROVE  MsgInv'
<1>. USE DEF MsgInv, TypeInv, TypeOK
<1>1. CASE \E m \in Message : StartPublication(p, m) \/ StartAppend(p, m)
  <2>1. PICK m \in Message, o \in Operation, phase \in {"inspect", "append"} :
               Begin(p, o, m, phase)
    BY <1>1 DEF StartPublication, StartAppend, Operation
  <2>2. /\ OthersKeep(p) /\ UNCHANGED <<refs, net, told>>
        /\ mine'[p] = <<>> /\ pc'[p] = phase /\ verdict'[p] = None
    BY <2>1 DEF Begin, OthersKeep, Go
  <2>3. IsPrefix(<<>>, local')
    BY PrefixEmpty DEF History
  <2>4. CommitOf(p)' /\ FreshOf(p)'
    BY <2>2, <2>3 DEF CommitOf, FreshOf
  <2>. QED BY <2>2, <2>4, QuietKeeps
<1>2. CASE StartPush(p) \/ InspectRemote(p)
  <2>1. /\ OthersKeep(p) /\ UNCHANGED <<refs, net, told, mine, msg>>
        /\ pc'[p] \in {"preflight", "compare"}
        /\ pc'[p] = "preflight" => mine[p] # <<>>
        /\ verdict'[p] \in {verdict[p], None}
    BY <1>2 DEF StartPush, InspectRemote, OthersKeep, Go
  <2>2. CommitOf(p)' /\ FreshOf(p)'
    BY <2>1 DEF CommitsAttached, CommitOf, FreshOf, refs
  <2>. QED BY <2>1, <2>2, QuietKeeps
<1>3. CASE CompareLocal(p) /\ local = expected[p]
  <2>1. /\ OthersKeep(p) /\ UNCHANGED <<refs, net, told, mine, msg, verdict>>
        /\ pc'[p] = "append"
    BY <1>3 DEF CompareLocal, OthersKeep, Go, held, calls
  <2>2. CommitOf(p)' /\ FreshOf(p)'
    BY <2>1 DEF CommitsAttached, CommitOf, FreshOf, refs
  <2>. QED BY <2>1, <2>2, QuietKeeps
<1>4. CASE Raise(p) /\ UNCHANGED <<refs, net>>
  <2>1. IsPrefix(local, local') /\ UNCHANGED told
    BY <1>4, PrefixRefl DEF Raise, refs, History
  <2>2. OthersKeep(p) /\ CommitOf(p)' /\ FreshOf(p)'
    BY <1>4, <2>1, RaiseKeeps
  <2>. QED BY <1>4, <2>1, <2>2, QuietKeeps
<1>. QED BY <1>1, <1>2, <1>3, <1>4 DEF CompareLocal, AppendRefused, Interrupted

LEMMA PublishSteps ==
  ASSUME MsgInv, TypeInv', NEW p \in Publisher,
         \/ Preflight(p) \/ PushLands(p) \/ PushRefused(p) \/ PushGivenUp(p)
         \/ Observe(p) \/ Reconcile(p)
  PROVE  MsgInv'
<1>. USE DEF MsgInv, TypeInv, TypeOK
<1>1. IsPrefix(local, local') /\ UNCHANGED refs
  BY PrefixRefl DEF Preflight, PushLands, PushRefused, PushGivenUp, Observe,
                    Reconcile, refs, History
<1>2. UniqueIds' /\ \A c \in orphans' : c # <<>> /\ NoRepeats(c)
  BY <1>1 DEF UniqueIds, AppendsFresh, refs
<1>3. mine[p] # <<>>
  BY DEF Preflight, PushLands, PushRefused, PushGivenUp, Observe, Reconcile,
         CommitsAttached, CommitOf
<1>4. CASE Preflight(p) /\ remote = expected[p]
  <2>1. /\ OthersKeep(p) /\ UNCHANGED <<net, told, mine, msg, verdict>>
        /\ pc'[p] = "push"
    BY <1>4 DEF Preflight, OthersKeep, Go, held, calls
  <2>2. CommitOf(p)' /\ FreshOf(p)'
    BY <1>1, <1>3, <2>1 DEF CommitsAttached, CommitOf, FreshOf, refs
  <2>. QED BY <1>1, <2>1, <2>2, QuietKeeps
<1>5. CASE \E v : /\ Return(p, v) /\ UNCHANGED net
                  /\ v = "remote_verified" => remote = mine[p]
  <2>1. PICK v : Return(p, v) /\ (v = "remote_verified" => remote = mine[p])
    BY <1>5
  <2>2. OthersKeep(p) /\ CommitOf(p)' /\ FreshOf(p)'
    BY <1>1, <1>3, <2>1, ReturnKeeps DEF refs
  <2>3. ToldTruthfully'
    BY <1>3, <1>5, <2>1, ToldKeeps DEF net
  <2>4. OneHistory' /\ PushesForward'
    BY <1>1, <1>5 DEF OneHistory, PushesForward, refs, net
  <2>. QED BY <1>1, <1>2, <2>2, <2>3, <2>4, PublisherKeeps
<1>6. CASE PushLands(p)
  <2>1. /\ OthersKeep(p) /\ UNCHANGED <<inflight, told, mine, msg, verdict>>
        /\ pc'[p] = "observe" /\ remote' = mine[p]
        /\ IsPrefix(remote, mine[p])
    BY <1>6 DEF PushLands, OthersKeep, Go, calls, FastForward
  <2>2. IsPrefix(mine[p], local) /\ mine[p] \in History
    BY DEF CommitsAttached, CommitOf
  <2>3. OneHistory' /\ ToldTruthfully' /\ PushesForward'
    BY <1>1, <2>1, <2>2, RemoteGrows
  <2>4. CommitOf(p)' /\ FreshOf(p)'
    BY <1>1, <1>3, <2>1 DEF CommitsAttached, CommitOf, FreshOf, refs
  <2>. QED BY <1>1, <1>2, <2>1, <2>3, <2>4, PublisherKeeps
<1>7. CASE PushRefused(p) \/ PushGivenUp(p)
  <2>1. UNCHANGED remote
    BY <1>7 DEF PushRefused, PushGivenUp
  <2>2. PushesForward'
    <3>1. CASE UNCHANGED inflight
      BY <1>1, <3>1 DEF PushesForward, refs
    <3>. QED BY <1>1, <1>7, <3>1, PushSent DEF PushRefused, PushGivenUp, refs
  <2>3. OneHistory'
    BY <1>1, <2>1 DEF OneHistory, refs
  <2>4. CASE PushRefused(p)
    <3>1. /\ OthersKeep(p) /\ UNCHANGED <<told, mine, msg, verdict>>
          /\ pc'[p] = "observe"
      BY <2>4 DEF PushRefused, OthersKeep, Go, calls
    <3>2. CommitOf(p)' /\ FreshOf(p)' /\ ToldTruthfully'
      BY <1>1, <1>3, <2>1, <3>1
         DEF CommitsAttached, CommitOf, FreshOf, ToldTruthfully, refs
    <3>. QED BY <1>1, <1>2, <2>2, <2>3, <3>1, <3>2, PublisherKeeps
  <2>5. CASE Return(p, "uncertain")
    <3>1. OthersKeep(p) /\ CommitOf(p)' /\ FreshOf(p)'
      BY <1>1, <1>3, <2>5, ReturnKeeps DEF refs
    <3>2. ToldTruthfully'
      BY <2>1, <2>5, ToldKeeps
    <3>. QED BY <1>1, <1>2, <2>2, <2>3, <3>1, <3>2, PublisherKeeps
  <2>6. CASE Raise(p)
    <3>1. OthersKeep(p) /\ CommitOf(p)' /\ FreshOf(p)'
      BY <1>1, <2>6, RaiseKeeps
    <3>2. ToldTruthfully'
      BY <2>1, <2>6 DEF ToldTruthfully, Raise
    <3>. QED BY <1>1, <1>2, <2>2, <2>3, <3>1, <3>2, PublisherKeeps
  <2>. QED BY <1>7, <2>4, <2>5, <2>6 DEF PushGivenUp
<1>8. CASE Observe(p)
  <2>1. \E v : Return(p, v) /\ (v = "remote_verified" => remote = mine[p])
    BY <1>8 DEF Observe, Judged
  <2>. QED BY <1>5, <1>8, <2>1 DEF Observe
<1>9. CASE Reconcile(p)
  <2>1. \E v : Return(p, v) /\ (v = "remote_verified" => remote = mine[p])
    BY <1>9 DEF Reconcile
  <2>. QED BY <1>5, <1>9, <2>1 DEF Reconcile
<1>10. CASE Preflight(p) /\ remote # expected[p]
  BY <1>5, <1>10 DEF Preflight
<1>. QED BY <1>4, <1>6, <1>7, <1>8, <1>9, <1>10

LEMMA OutsideSteps ==
  ASSUME MsgInv, TypeInv',
         OrphanEnds \/ PushEnds \/ (\E r \in Peer : PeerStep(r)) \/ UNCHANGED vars
  PROVE  MsgInv'
<1>. USE DEF MsgInv, TypeInv, TypeOK
<1>1. UNCHANGED <<pc, held, told>>
  BY DEF OrphanEnds, PushEnds, PeerStep, PeerInspects, PeerReads, PeerFails, vars
<1>2. ASSUME IsPrefix(local, local') PROVE CommitsAttached' /\ \A q \in Publisher : FreshOf(q)'
  BY <1>1, <1>2, HolderKeeps DEF CommitsAttached, AppendsFresh, held, calls
<1>3. IsPrefix(local, local)
  BY PrefixRefl DEF History
<1>4. CASE OrphanEnds
  <2>1. PICK c \in orphans :
               /\ orphans' = orphans \ {c} /\ UNCHANGED net
               /\ local' = local \/ (local = Front(c) /\ local' = c)
    BY <1>4 DEF OrphanEnds
  <2>2. c \in History /\ c # <<>> /\ NoRepeats(c)
    BY DEF AppendsFresh
  <2>3. IsPrefix(Front(c), c)
    BY <2>2, PrefixFront DEF History
  <2>4. IsPrefix(local, local') /\ NoRepeats(local')
    BY <1>3, <2>1, <2>2, <2>3 DEF UniqueIds
  <2>5. OneHistory' /\ UniqueIds' /\ ToldTruthfully' /\ PushesForward'
    BY <1>1, <2>1, <2>4, LocalGrows
  <2>. QED BY <1>2, <2>1, <2>4, <2>5 DEF AppendsFresh
<1>5. CASE PushEnds
  <2>1. PICK i \in inflight :
               /\ inflight' = inflight \ {i} /\ UNCHANGED refs
               /\ remote' = remote \/ (remote = i.from /\ remote' = i.to)
    BY <1>5 DEF PushEnds
  <2>2. i.to \in History /\ IsPrefix(i.from, i.to) /\ IsPrefix(i.to, local)
    BY DEF PushesForward
  <2>3. IsPrefix(remote, remote') /\ IsPrefix(remote', local)
    BY <2>1, <2>2, PrefixRefl DEF OneHistory, History
  <2>4. OneHistory' /\ UniqueIds' /\ ToldTruthfully' /\ PushesForward'
    BY <1>1, <2>1, <2>3, RemoteGrows
  <2>. QED BY <1>2, <1>3, <2>1, <2>4 DEF AppendsFresh, refs
<1>6. CASE (\E r \in Peer : PeerStep(r)) \/ UNCHANGED vars
  <2>1. UNCHANGED <<refs, net>>
    BY <1>6 DEF PeerStep, PeerInspects, PeerReads, PeerFails, vars
  <2>. QED BY <1>1, <1>2, <1>3, <2>1
           DEF OneHistory, UniqueIds, ToldTruthfully, PushesForward, AppendsFresh,
               refs, net
<1>. QED BY <1>4, <1>5, <1>6

LEMMA MsgStep == MsgInv /\ [Next]_vars => MsgInv'
<1>. SUFFICES ASSUME MsgInv, [Next]_vars PROVE MsgInv'
  OBVIOUS
<1>1. TypeInv'
  BY TypeStep DEF MsgInv
<1>2. ASSUME NEW p \in Publisher, PublisherStep(p) PROVE MsgInv'
  BY <1>1, <1>2, CallSteps, AppendSteps, PublishSteps DEF PublisherStep
<1>. QED BY <1>1, <1>2, OutsideSteps DEF Next

(* Publishers, git children and late pushes never take the local ref, the    *)
(* destination, and what callers were told out of step with one another,     *)
(* whatever the number of publishers, roots, messages and faults.            *)
THEOREM HistoriesInStep == Spec => []HistorySafe
<1>1. MsgInv => HistorySafe
  BY DEF MsgInv, HistorySafe
<1>. QED BY <1>1, MsgInit, MsgStep, PTL DEF Spec

-----------------------------------------------------------------------------
(* Refinement *)

LEMMA LogInit == Init => Log!Init
BY DEF Init, Log!Init

(* A longer beginning of the local history, at the destination, is a step of *)
(* the log.                                                                  *)
LEMMA GrowthPublishes ==
  ASSUME MsgInv, MsgInv', IsPrefix(remote, remote'), UNCHANGED told
  PROVE  [Log!Next]_(Log!vars)
<1>1. remote' \in History /\ local' \in History
  BY DEF MsgInv, TypeInv, TypeOK
<1>2. NoRepeats(remote')
  BY <1>1, NoRepeatsPrefix DEF MsgInv, OneHistory, UniqueIds
<1>3. CASE remote' = remote
  BY <1>3 DEF Log!vars
<1>4. CASE remote' # remote
  BY <1>1, <1>2, <1>4
     DEF Log!Next, Log!Publish, Log!NoRepeats, Log!IsStrictPrefix, Log!IsPrefix,
         NoRepeats, IsPrefix, History
<1>. QED BY <1>3, <1>4

(* What is told anew is at the destination. *)
LEMMA TellingAcknowledges ==
  ASSUME MsgInv, MsgInv', NEW p \in Publisher, NEW v, Return(p, v),
         msg[p] \in Message, UNCHANGED remote
  PROVE  [Log!Next]_(Log!vars)
<1>1. CASE told' = told
  BY <1>1 DEF Log!vars
<1>2. CASE told' = told \union {msg[p]}
  <2>1. msg[p] \in ToSet(remote)
    BY <1>2 DEF MsgInv, ToldTruthfully
  <2>. QED BY <1>2, <2>1 DEF Log!Next, Log!Acknowledge, Log!ToSet, ToSet
<1>. QED BY <1>1, <1>2 DEF Return

LEMMA LogStep ==
  ASSUME MsgInv, MsgInv', [Next]_vars
  PROVE  [Log!Next]_(Log!vars)
<1>1. IsPrefix(remote, remote)
  BY PrefixRefl DEF MsgInv, TypeInv, TypeOK, History
<1>2. CASE UNCHANGED <<remote, told>>
  BY <1>2 DEF Log!vars
<1>3. ASSUME NEW p \in Publisher, PublisherStep(p) PROVE [Log!Next]_(Log!vars)
  <2>1. CASE \/ \E m \in Message : StartPublication(p, m) \/ StartAppend(p, m)
             \/ StartPush(p) \/ InspectRemote(p) \/ CompareLocal(p)
             \/ AppendRefused(p) \/ Interrupted(p)
    <3>1. UNCHANGED <<remote, told>>
      BY <2>1 DEF StartPublication, StartAppend, Begin, StartPush, InspectRemote,
                  CompareLocal, AppendRefused, Interrupted, Raise, net
    <3>. QED BY <1>2, <3>1
  <2>2. CASE AppendKnown(p) \/ AppendNew(p) \/ Attach(p) \/ AttachRaises(p)
    <3>1. UNCHANGED <<remote, told>>
      BY <2>2 DEF AppendKnown, AppendNew, Attach, AttachRaises, Raise, net
    <3>. QED BY <1>2, <3>1
  <2>3. CASE PushLands(p)
    BY <2>3, GrowthPublishes DEF PushLands, FastForward
  <2>4. CASE PushRefused(p)
    BY <1>2, <2>4 DEF PushRefused
  <2>5. CASE Preflight(p) \/ PushGivenUp(p) \/ Observe(p) \/ Reconcile(p)
    <3>1. UNCHANGED remote
      BY <2>5 DEF Preflight, PushGivenUp, Observe, Reconcile, net
    <3>2. msg[p] \in Message
      BY <2>5 DEF Preflight, PushGivenUp, Observe, Reconcile, MsgInv, TypeInv,
                  MessageOf
    <3>3. UNCHANGED told \/ \E v : Return(p, v)
      BY <2>5 DEF Preflight, PushGivenUp, Observe, Reconcile, Raise
    <3>. QED BY <1>2, <3>1, <3>2, <3>3, TellingAcknowledges
  <2>. QED BY <1>3, <2>1, <2>2, <2>3, <2>4, <2>5 DEF PublisherStep
<1>4. CASE OrphanEnds \/ (\E r \in Peer : PeerStep(r)) \/ UNCHANGED vars
  BY <1>2, <1>4 DEF OrphanEnds, PeerStep, PeerInspects, PeerReads, PeerFails, net, vars
<1>5. CASE PushEnds
  <2>1. IsPrefix(remote, remote') /\ UNCHANGED told
    BY <1>1, <1>5 DEF PushEnds, MsgInv, PushesForward
  <2>. QED BY <2>1, GrowthPublishes
<1>. QED BY <1>3, <1>4, <1>5 DEF Next

(* Messaging implements OutboundLog: peers find a log that only grows at its *)
(* end, repeats no ID, and has in it everything a publisher was told is      *)
(* published.                                                                *)
THEOREM LogImplemented == Spec => LogKept
<1>. QED BY LogInit, LogStep, MsgInit, MsgStep, PTL DEF Spec, LogKept, Log!Spec

-----------------------------------------------------------------------------
(* The limit *)

LEMMA CapInit == Init => CapInv
BY MessagingAssumption DEF Init, CapInv, HistoryCapped

(* A step that attaches nothing and does not enter the attachment.           *)
LEMMA CapKept ==
  ASSUME MsgInv, CapInv, NEW p \in Publisher, UNCHANGED refs,
         \A q \in Publisher \ {p} : pc'[q] = pc[q] /\ base'[q] = base[q],
         pc'[p] # "attach"
  PROVE  CapInv'
BY DEF CapInv, HistoryCapped, refs

(* What one more message makes of a history that was listable.               *)
LEMMA OneOver ==
  ASSUME MsgInv, CapInv, NEW p \in Publisher, pc[p] = "attach"
  PROVE  Commit(p) \in History /\ Len(Commit(p)) =< MaxMessages + 1
<1>1. base[p] \in History /\ msg[p] \in Message /\ Len(base[p]) =< MaxMessages
  BY DEF MsgInv, TypeInv, TypeOK, MessageOf, CapInv
<1>2. Len(Append(base[p], msg[p])) = Len(base[p]) + 1 /\ Len(base[p]) \in Nat
  BY <1>1 DEF History
<1>3. Commit(p) \in History
  BY <1>1, HistoryFacts DEF Commit
<1>4. Len(Commit(p)) =< MaxMessages + 1
  BY <1>1, <1>2, MessagingAssumption DEF Commit
<1>. QED BY <1>3, <1>4

LEMMA CapStep == MsgInv /\ CapInv /\ [Next]_vars => CapInv'
<1>. SUFFICES ASSUME MsgInv, CapInv, [Next]_vars PROVE CapInv'
  OBVIOUS
<1>0. pc \in [Publisher -> Phase] /\ base \in [Publisher -> History]
  BY DEF MsgInv, TypeInv, TypeOK
<1>1. ASSUME NEW p \in Publisher, PublisherStep(p) PROVE CapInv'
  <2>1. CASE \E m \in Message : StartPublication(p, m) \/ StartAppend(p, m)
    BY <1>0, <2>1, CapKept DEF StartPublication, StartAppend, Begin, Go
  <2>2. CASE StartPush(p) \/ InspectRemote(p)
    BY <1>0, <2>2, CapKept DEF StartPush, InspectRemote, Go
  <2>3. CASE CompareLocal(p) \/ AppendRefused(p) \/ Interrupted(p)
    BY <1>0, <2>3, CapKept
       DEF CompareLocal, AppendRefused, Interrupted, Raise, Go, held
  <2>4. CASE AppendKnown(p)
    BY <1>0, <2>4, CapKept DEF AppendKnown, Appended, Go
  <2>5. CASE AppendNew(p)
    <3>1. /\ UNCHANGED refs /\ base' = [base EXCEPT ![p] = local]
          /\ pc' = [pc EXCEPT ![p] = "attach"] /\ Len(local) =< MaxMessages
      BY <2>5 DEF AppendNew, Listable, Go
    <3>. QED BY <1>0, <3>1 DEF CapInv, HistoryCapped, refs
  <2>6. CASE Attach(p)
    <3>1. /\ pc[p] = "attach" /\ local' = Commit(p) /\ UNCHANGED orphans
          /\ base' = [base EXCEPT ![p] = <<>>]
          /\ pc' = [pc EXCEPT ![p] = "ready"] \/ pc' = [pc EXCEPT ![p] = "preflight"]
      BY <2>6 DEF Attach, Appended, Go
    <3>2. \A q \in Publisher : pc'[q] = "attach" => pc[q] = "attach" /\ base'[q] = base[q]
      BY <1>0, <3>1
    <3>. QED BY <3>1, <3>2, OneOver DEF CapInv, HistoryCapped
  <2>7. CASE AttachRaises(p)
    <3>1. /\ pc[p] = "attach"
          /\ local' \in {local, Commit(p)} /\ orphans' \subseteq orphans \union {Commit(p)}
          /\ base' = [base EXCEPT ![p] = <<>>] /\ pc' = [pc EXCEPT ![p] = "ready"]
      BY <2>7 DEF AttachRaises, Raise, Go, refs
    <3>2. \A q \in Publisher : pc'[q] = "attach" => pc[q] = "attach" /\ base'[q] = base[q]
      BY <1>0, <3>1
    <3>. QED BY <3>1, <3>2, OneOver DEF CapInv, HistoryCapped
  <2>8. CASE Preflight(p) \/ PushLands(p) \/ PushRefused(p) \/ PushGivenUp(p)
    BY <1>0, <2>8, CapKept
       DEF Preflight, PushLands, PushRefused, PushGivenUp, Return, Raise, Go, held
  <2>9. CASE Observe(p) \/ Reconcile(p)
    BY <1>0, <2>9, CapKept DEF Observe, Reconcile, Return, Go
  <2>. QED BY <1>1, <2>1, <2>2, <2>3, <2>4, <2>5, <2>6, <2>7, <2>8, <2>9
           DEF PublisherStep
<1>2. CASE OrphanEnds
  <2>1. /\ orphans' \subseteq orphans /\ UNCHANGED <<pc, base>>
        /\ local' = local \/ local' \in orphans
    BY <1>2 DEF OrphanEnds, held
  <2>. QED BY <2>1 DEF CapInv, HistoryCapped
<1>3. CASE PushEnds \/ (\E r \in Peer : PeerStep(r)) \/ UNCHANGED vars
  <2>1. UNCHANGED <<local, orphans, pc, base>>
    BY <1>3 DEF PushEnds, PeerStep, PeerInspects, PeerReads, PeerFails, vars, refs, held
  <2>. QED BY <2>1 DEF CapInv, HistoryCapped
<1>. QED BY <1>1, <1>2, <1>3 DEF Next

(* The history never exceeds its limit by more than the message that went    *)
(* over it, whoever appends in which roots and whatever is attached late.    *)
THEOREM LimitHolds == Spec => []HistoryCapped
<1>1. CapInv => HistoryCapped
  BY DEF CapInv
<1>. QED BY <1>1, MsgInit, MsgStep, CapInit, CapStep, PTL DEF Spec

-----------------------------------------------------------------------------
(* Peers *)

LEMMA ReadsInit == Init => ReadsFollow
<1>1. IsPrefix(<<>>, <<>>)
  BY HistoryFacts, PrefixRefl DEF History
<1>. QED BY <1>1 DEF Init, ReadsFollow

(* The destination only grows at its end. *)
LEMMA RemoteOnlyGrows == MsgInv /\ [Next]_vars => IsPrefix(remote, remote')
<1>. SUFFICES ASSUME MsgInv, [Next]_vars PROVE IsPrefix(remote, remote')
  OBVIOUS
<1>1. IsPrefix(remote, remote)
  BY PrefixRefl DEF MsgInv, TypeInv, TypeOK, History
<1>2. ASSUME NEW p \in Publisher, PublisherStep(p) PROVE IsPrefix(remote, remote')
  <2>1. CASE PushLands(p)
    BY <2>1 DEF PushLands, FastForward
  <2>2. CASE ~PushLands(p)
    <3>1. UNCHANGED remote
      BY <1>2, <2>2 DEF PublisherStep, StartPublication, StartAppend, Begin, StartPush,
         InspectRemote, CompareLocal, AppendRefused, AppendKnown, AppendNew, Attach,
         AttachRaises, Preflight, PushRefused, PushGivenUp, Observe, Interrupted,
         Reconcile, net
    <3>. QED BY <1>1, <3>1
  <2>. QED BY <2>1, <2>2
<1>3. CASE PushEnds
  BY <1>1, <1>3 DEF PushEnds, MsgInv, PushesForward
<1>4. CASE OrphanEnds \/ (\E r \in Peer : PeerStep(r)) \/ UNCHANGED vars
  BY <1>1, <1>4 DEF OrphanEnds, PeerStep, PeerInspects, PeerReads, PeerFails, net, vars
<1>. QED BY <1>2, <1>3, <1>4 DEF Next

LEMMA PeersKept ==
  ASSUME [Next]_vars, \A r \in Peer : ~PeerStep(r)
  PROVE  UNCHANGED <<tip, read>>
<1>1. ASSUME NEW p \in Publisher, PublisherStep(p) PROVE UNCHANGED <<tip, read>>
  BY <1>1 DEF PublisherStep, StartPublication, StartAppend, Begin, StartPush,
     InspectRemote, CompareLocal, AppendRefused, AppendKnown, AppendNew, Attach,
     AttachRaises, Preflight, PushLands, PushRefused, PushGivenUp, Observe, Interrupted,
     Reconcile, peers
<1>. QED BY <1>1 DEF Next, OrphanEnds, PushEnds, vars, peers

LEMMA ReadsStep ==
  ASSUME MsgInv, MsgInv', ReadsFollow, [Next]_vars
  PROVE  ReadsFollow' /\ \A r \in Peer : IsPrefix(read[r], read'[r])
<1>. USE DEF MsgInv, TypeInv, TypeOK
<1>1. /\ remote \in Seq(Message) /\ remote' \in Seq(Message) /\ <<>> \in Seq(Message)
      /\ \A r \in Peer : tip[r] \in Seq(Message) /\ read[r] \in Seq(Message)
  BY HistoryFacts DEF History
<1>2. \A h \in Seq(Message) : IsPrefix(h, remote) => IsPrefix(h, remote')
  BY <1>1, RemoteOnlyGrows, PrefixTrans
<1>3. CASE UNCHANGED <<tip, read>>
  BY <1>1, <1>2, <1>3, PrefixRefl DEF ReadsFollow
<1>4. ASSUME NEW r \in Peer, PeerStep(r)
      PROVE  ReadsFollow' /\ \A q \in Peer : IsPrefix(read[q], read'[q])
  <2>1. remote' = remote /\ IsPrefix(<<>>, remote) /\ IsPrefix(remote, remote)
    BY <1>1, <1>4, PrefixEmpty, PrefixRefl
       DEF PeerStep, PeerInspects, PeerReads, PeerFails, net
  <2>2. CASE PeerInspects(r)
    BY <1>1, <2>1, <2>2, PrefixRefl DEF PeerInspects, ReadsFollow
  <2>3. CASE PeerReads(r)
    BY <1>1, <2>1, <2>3, PrefixRefl DEF PeerReads, ReadsFollow
  <2>4. CASE PeerFails(r)
    BY <1>1, <2>1, <2>4, PrefixRefl DEF PeerFails, ReadsFollow
  <2>. QED BY <1>4, <2>2, <2>3, <2>4 DEF PeerStep
<1>. QED BY <1>3, <1>4, PeersKept

(* What a peer has read only grows at its end, whatever it fetches when.     *)
THEOREM ReadsGrow == Spec => PeerMonotone
<1>1. ReadsFollow /\ MsgInv /\ MsgInv' /\ [Next]_vars =>
        ReadsFollow' /\ [\A r \in Peer : IsPrefix(read[r], read'[r])]_read
  BY ReadsStep
<1>. QED BY <1>1, MsgInit, MsgStep, ReadsInit, PTL DEF Spec, PeerMonotone


-----------------------------------------------------------------------------
(* What a publication carries                                                *)

(* The local history only grows at its end. *)
LEMMA LocalOnlyGrows == MsgInv /\ [Next]_vars => IsPrefix(local, local')
<1>. SUFFICES ASSUME MsgInv, [Next]_vars PROVE IsPrefix(local, local')
  OBVIOUS
<1>. USE DEF MsgInv, TypeInv, TypeOK
<1>1. IsPrefix(local, local) /\ local \in Seq(Message)
  BY PrefixRefl DEF History
<1>2. ASSUME NEW p \in Publisher, pc[p] = "attach", local = base[p]
      PROVE  IsPrefix(local, Commit(p))
  <2>1. msg[p] \in Message
    BY <1>2 DEF MessageOf
  <2>. QED BY <1>1, <1>2, <2>1, PrefixAppend DEF Commit
<1>3. ASSUME NEW p \in Publisher, PublisherStep(p) PROVE IsPrefix(local, local')
  <2>1. CASE Attach(p) \/ AttachRaises(p)
    BY <2>1, <1>1, <1>2 DEF Attach, AttachRaises, refs
  <2>2. CASE ~(Attach(p) \/ AttachRaises(p))
    <3>1. UNCHANGED local
      BY <1>3, <2>2 DEF PublisherStep, StartPublication, StartAppend, Begin, StartPush,
         InspectRemote, CompareLocal, AppendRefused, AppendKnown, AppendNew,
         Preflight, PushLands, PushRefused, PushGivenUp, Observe, Interrupted,
         Reconcile, refs
    <3>. QED BY <1>1, <3>1
  <2>. QED BY <2>1, <2>2
<1>4. CASE OrphanEnds
  <2>1. PICK c \in orphans : local' = local \/ (local = Front(c) /\ local' = c)
    BY <1>4 DEF OrphanEnds
  <2>2. c \in Seq(Message) /\ c # <<>>
    BY DEF AppendsFresh, History
  <2>. QED BY <1>1, <2>1, <2>2, PrefixFront
<1>5. CASE PushEnds \/ (\E r \in Peer : PeerStep(r)) \/ UNCHANGED vars
  BY <1>1, <1>5 DEF PushEnds, PeerStep, PeerInspects, PeerReads, PeerFails, refs, vars
<1>. QED BY <1>3, <1>4, <1>5 DEF Next

(* How a call gets to its comparison, and how past it. *)
Compared(p) ==
  /\ pc'[p] = "compare" =>
       \/ pc[p] = "inspect" /\ expected'[p] = remote /\ UNCHANGED local
       \/ pc[p] = "compare" /\ expected'[p] = expected[p]
  /\ pc[p] = "compare" /\ pc'[p] \notin {"compare", "ready"} => local = expected[p]

LEMMA ComparedStep ==
  ASSUME TypeInv, [Next]_vars, NEW p \in Publisher
  PROVE  Compared(p)
<1>. USE DEF TypeInv, TypeOK, Go
<1>1. CASE UNCHANGED <<pc, expected>>
  BY <1>1 DEF Compared
<1>2. ASSUME NEW q \in Publisher, PublisherStep(q) PROVE Compared(p)
  <2>1. CASE InspectRemote(q)
    BY <2>1 DEF InspectRemote, Compared, refs
  <2>2. CASE CompareLocal(q)
    BY <2>2 DEF CompareLocal, Raise, Compared, held, calls
  <2>3. ASSUME pc[q] # "compare", NEW phase, phase # "compare", Go(q, phase),
               \A r \in Publisher : r # q => expected'[r] = expected[r]
        PROVE  Compared(p)
    BY <2>3 DEF Compared
  <2>4. CASE (\E m \in Message : StartPublication(q, m) \/ StartAppend(q, m))
             \/ StartPush(q)
    <3>1. /\ pc[q] = "ready" /\ \A r \in Publisher : r # q => expected'[r] = expected[r]
          /\ \E phase \in {"inspect", "append", "preflight"} : Go(q, phase)
      BY <2>4 DEF StartPublication, StartAppend, Begin, StartPush
    <3>. QED BY <3>1, <2>3
  <2>5. CASE Interrupted(q)
    BY <2>5 DEF Interrupted, Raise, Compared
  <2>6. CASE AppendRefused(q) \/ AppendKnown(q) \/ AppendNew(q) \/ Attach(q)
             \/ AttachRaises(q)
    <3>1. /\ pc[q] \in {"append", "attach"}
          /\ \A r \in Publisher : r # q => expected'[r] = expected[r]
          /\ \E phase \in {"ready", "preflight", "attach"} : Go(q, phase)
      BY <2>6 DEF AppendRefused, AppendKnown, AppendNew, Attach, AttachRaises, Raise,
         Appended, calls
    <3>. QED BY <3>1, <2>3
  <2>7. CASE Preflight(q) \/ PushLands(q) \/ PushRefused(q) \/ PushGivenUp(q)
             \/ Observe(q) \/ Reconcile(q)
    <3>1. /\ pc[q] \in {"preflight", "push", "observe", "ready"}
          /\ \A r \in Publisher : r # q => expected'[r] = expected[r]
          /\ \E phase \in {"ready", "push", "observe"} : Go(q, phase)
      BY <2>7 DEF Preflight, PushLands, PushRefused, PushGivenUp, Observe, Reconcile,
         Return, Raise, calls, held
    <3>. QED BY <3>1, <2>3
  <2>. QED BY <1>2, <2>1, <2>2, <2>4, <2>5, <2>6, <2>7 DEF PublisherStep
<1>3. CASE OrphanEnds \/ PushEnds \/ (\E r \in Peer : PeerStep(r)) \/ UNCHANGED vars
  BY <1>1, <1>3 DEF OrphanEnds, PushEnds, PeerStep, PeerInspects, PeerReads, PeerFails,
     held, calls, vars
<1>. QED BY <1>2, <1>3 DEF Next

LEMMA WaitStep ==
  ASSUME MsgInv, WaitInv, [CallsNext]_<<vars, waiting>>
  PROVE  WaitInv'
<1>1. CASE UNCHANGED <<vars, waiting>>
  BY <1>1 DEF WaitInv, vars, refs, held, calls
<1>2. CASE CallsNext
  <2>1. ToSet(local) \subseteq ToSet(local')
    <3>1. IsPrefix(local, local') /\ local \in Seq(Message) /\ local' \in Seq(Message)
      BY <1>2, LocalOnlyGrows, MsgStep DEF CallsNext, MsgInv, TypeInv, TypeOK, History
    <3>. QED BY <3>1, PrefixElements
  <2>2. ASSUME NEW p \in Publisher
        PROVE  /\ pc'[p] = "compare" =>
                    waiting'[p] \subseteq ToSet(local') \ ToSet(expected'[p])
               /\ pc'[p] # "compare" => waiting'[p] = {}
    <3>1. Compared(p)
      BY <1>2, ComparedStep DEF CallsNext, MsgInv
    <3>2. waiting'[p] =
            CASE pc[p] = "inspect" /\ pc'[p] = "compare" -> ToSet(local) \ ToSet(remote)
              [] pc'[p] \notin {"compare", "append", "attach", "preflight", "push"} -> {}
              [] OTHER -> waiting[p]
      BY <1>2 DEF CallsNext, Waiting
    <3>3. CASE pc'[p] = "compare" /\ pc[p] = "inspect"
      BY <2>1, <3>1, <3>2, <3>3 DEF Compared
    <3>4. CASE pc'[p] = "compare" /\ pc[p] # "inspect"
      BY <2>1, <3>1, <3>2, <3>4 DEF Compared, WaitInv
    <3>5. CASE pc'[p] # "compare"
      BY <3>1, <3>2, <3>5 DEF Compared, WaitInv
    <3>. QED BY <3>3, <3>4, <3>5
  <2>. QED BY <2>2 DEF WaitInv
<1>. QED BY <1>1, <1>2

(* A publication carries along nothing that was waiting when it inspected    *)
(* the destination, in any root and whatever is attached meanwhile.          *)
THEOREM CarriesOwn == CallsSpec => []OwnPublication
<1>1. CallsInit => MsgInv /\ WaitInv
  BY MsgInit DEF CallsInit, Init, WaitInv
<1>2. [CallsNext]_<<vars, waiting>> => [Next]_vars
  BY DEF CallsNext
<1>3. MsgInv /\ WaitInv /\ [CallsNext]_<<vars, waiting>> => MsgInv' /\ WaitInv'
  BY <1>2, MsgStep, WaitStep
<1>4. WaitInv => OwnPublication
  BY DEF WaitInv, OwnPublication
<1>. QED BY <1>1, <1>3, <1>4, PTL DEF CallsSpec
=============================================================================
