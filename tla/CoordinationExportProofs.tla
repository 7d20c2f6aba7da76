---------------------- MODULE CoordinationExportProofs ----------------------
(***************************************************************************)
(* The invariants of CoordinationExport for any number of commands,        *)
(* requests, faults and intrusions.                                        *)
(*                                                                         *)
(* Histories only grow, so what a command has seen stays.  A task that is  *)
(* closed was closed by one tick, and only that tick's command ever        *)
(* exports its reply (ApartInv): this is why a result is truthful although *)
(* the export holds no lock.  Where several commands export one unresolved *)
(* task in turn, what a command found in the checkout when it looked still *)
(* tells a reply that is committed from one that was left behind           *)
(* (ExportInv).                                                            *)
(***************************************************************************)
EXTENDS CoordinationExport, SequenceTheorems, TLAPS

Change == [files : SUBSET Files, n : Nat]
Progress == [stage : {"none", "accepted", "stopped", "exported"}, as : Histories \union {None}]
Ledger == [d : {"unseen", "claimed", "unresolved", "completed", "failed"},
           reply : BOOLEAN, memory : BOOLEAN]
Checkout == [head : Histories, index : SUBSET Files, file : [Request -> {"absent", "torn", "whole"}]]
CallType ==
  [want : Request \union {None}, d : {"none", "unresolved", "completed", "failed"},
   memory : BOOLEAN, tip : SUBSET Messages, local : Histories \union {None},
   base : Histories \union {None}, commit : Histories \union {None},
   seen : Progress \union {None}, waiting : SUBSET Files]

StoresOK ==
  /\ mlocal \subseteq Messages /\ mremote \subseteq mlocal /\ flying \in BOOLEAN
  /\ task \in [Request -> Ledger] /\ progress \in [Request -> Progress]
  /\ checkout \in Checkout /\ made \in Nat
  /\ remote \in Histories /\ inflight \subseteq [from : Histories, to : Histories]
  /\ done \subseteq Request /\ verified \subseteq Request /\ mixed \subseteq Request
CallsOK ==
  /\ pc \in [Command -> Phase] /\ call \in [Command -> CallType]
  /\ \A c \in Command : /\ pc[c] = "ready" <=> call[c] = NoCall
                        /\ pc[c] # "ready" => call[c].want \in Request

InExport(c) == Exporting(c) \/ pc[c] = "refresh"
Closed == {"completed", "failed"}

(* What is on record of a task that nobody handled; who may have met at its  *)
(* export; and what was told.                                                *)
LedgerInv ==
  /\ \A i \in inflight : IsPrefix(i.from, i.to)
  /\ \A r \in Request :
       /\ task[r].d = "unseen" => progress[r].stage = "none"
       /\ task[r].d \in Closed \union {"unseen"} => r \notin mixed
  /\ \A r \in done :
       /\ task[r].d \in Closed /\ task[r].memory /\ <<"reply", r>> \in mremote
       /\ progress[r].as # None
BoardInv == StoresAgree /\ ExportedThere /\ LedgerInv

(* Two commands that are to export one reply have its task unresolved; and   *)
(* where both are at it, that is recorded.                                   *)
ApartInv ==
  \A c, o \in Command : c # o /\ InExport(c) /\ InExport(o) /\ call[c].want = call[o].want =>
    /\ task[call[c].want].d \in {"claimed", "unresolved"}
    /\ Exporting(c) /\ Exporting(o) => call[c].want \in mixed

(* What a command has seen of the messages and the ledger.                   *)
TickInv(c) ==
  /\ call[c].tip \subseteq mremote
  /\ pc[c] = "tick" => <<"request", call[c].want>> \in mremote
  /\ InExport(c) =>
       /\ task[call[c].want].d # "unseen"
       /\ call[c].d \in Closed =>
            task[call[c].want].d = call[c].d /\ (call[c].memory => task[call[c].want].memory)
  /\ Exporting(c) => <<"reply", call[c].want>> \in mremote

(* What it has seen of the checkout and its remote, phase by phase.          *)
Found(c, h) ==
  call[c].want \notin mixed /\ checkout.file[call[c].want] # "absent" => call[c].want \in Entries(h)
ExportInv(c) ==
  /\ pc[c] = "local" => call[c].waiting = {} /\ Found(c, checkout.head)
  /\ pc[c] \in {"base", "exists"} =>
       /\ call[c].local # None /\ call[c].waiting \subseteq Entries(call[c].local)
       /\ Found(c, call[c].local)
  /\ pc[c] = "exists" => call[c].base # None /\ IsPrefix(call[c].base, remote)
  /\ pc[c] \in {"create", "write", "add", "commit", "head", "push"} =>
       call[c].base # None /\ call[c].waiting \subseteq Entries(call[c].base)
  /\ pc[c] = "commit" => call[c].want \in checkout.index \union Entries(checkout.head)
  /\ pc[c] = "head" => call[c].want \in Entries(checkout.head)
  /\ pc[c] \in {"push", "observe"} =>
       call[c].commit # None /\ call[c].want \in Entries(call[c].commit)
  /\ pc[c] \in {"load", "persist"} =>
       /\ call[c].commit # None /\ IsPrefix(call[c].commit, remote)
       /\ call[c].want \in verified
       /\ call[c].want \notin mixed => call[c].want \in Entries(call[c].commit)

StateInv ==
  /\ StoresOK /\ CallsOK /\ BoardInv /\ ApartInv
  /\ \A c \in Command : TickInv(c) /\ ExportInv(c)


-----------------------------------------------------------------------------
(* Histories *)

(* A prefix, element by element. *)
LEMMA PrefixIs ==
  ASSUME NEW S, NEW g \in Seq(S), NEW h \in Seq(S)
  PROVE  IsPrefix(g, h) <=> Len(g) <= Len(h) /\ \A i \in 1 .. Len(g) : g[i] = h[i]
<1>1. CASE Len(g) <= Len(h)
  <2> DEFINE u == SubSeq(g, 1, Len(g))
             v == SubSeq(h, 1, Len(g))
  <2>1. /\ u \in Seq(S) /\ Len(u) = Len(g) /\ \A i \in 1 .. Len(g) : u[i] = g[i]
        /\ v \in Seq(S) /\ Len(v) = Len(g) /\ \A i \in 1 .. Len(g) : v[i] = h[i]
    BY <1>1
  <2> HIDE DEF u, v
  <2>2. u = v <=> \A i \in 1 .. Len(g) : u[i] = v[i]
    BY <2>1, SeqEqual
  <2> QED
    BY <1>1, <2>1, <2>2 DEF IsPrefix, u, v
<1> QED
  BY <1>1 DEF IsPrefix

LEMMA PrefixFacts ==
  /\ \A g \in Histories : IsPrefix(g, g)
  /\ \A g, h, k \in Histories : IsPrefix(g, h) /\ IsPrefix(h, k) => IsPrefix(g, k)
  /\ \A g, h \in Histories : IsPrefix(g, h) => Entries(g) \subseteq Entries(h)
<1>1. ASSUME NEW g \in Histories
      PROVE  g \in Seq(Change) /\ Len(g) \in Nat /\ DOMAIN g = 1 .. Len(g)
  BY DEF Histories, Change
<1>2. \A g \in Histories : IsPrefix(g, g)
  BY <1>1, PrefixIs
<1>3. ASSUME NEW g \in Histories, NEW h \in Histories, NEW k \in Histories,
             IsPrefix(g, h), IsPrefix(h, k)
      PROVE  IsPrefix(g, k)
  <2>1. /\ Len(g) <= Len(h) /\ \A i \in 1 .. Len(g) : g[i] = h[i]
        /\ Len(h) <= Len(k) /\ \A i \in 1 .. Len(h) : h[i] = k[i]
    BY <1>1, <1>3, PrefixIs
  <2>2. Len(g) <= Len(k) /\ \A i \in 1 .. Len(g) : g[i] = k[i]
    BY <1>1, <2>1
  <2> QED
    BY <1>1, <2>2, PrefixIs
<1>4. ASSUME NEW g \in Histories, NEW h \in Histories, IsPrefix(g, h)
      PROVE  Entries(g) \subseteq Entries(h)
  <2>1. Len(g) <= Len(h) /\ \A i \in 1 .. Len(g) : g[i] = h[i]
    BY <1>1, <1>4, PrefixIs
  <2>2. \A i \in DOMAIN g : i \in DOMAIN h /\ g[i].files = h[i].files
    BY <1>1, <2>1
  <2> QED
    BY <2>2 DEF Entries
<1> QED
  BY <1>2, <1>3, <1>4

LEMMA AppendFacts ==
  ASSUME NEW g \in Histories, NEW fs \in SUBSET Files, NEW n \in Nat
  PROVE  /\ Append(g, [files |-> fs, n |-> n]) \in Histories
         /\ IsPrefix(g, Append(g, [files |-> fs, n |-> n]))
         /\ Entries(Append(g, [files |-> fs, n |-> n])) = Entries(g) \union fs
<1> DEFINE e == [files |-> fs, n |-> n]
           h == Append(g, e)
<1>1. g \in Seq(Change) /\ e \in Change /\ e.files = fs
  BY DEF Histories, Change
<1> HIDE DEF e
<1>2. /\ h \in Seq(Change) /\ Len(h) = Len(g) + 1 /\ Len(g) \in Nat
      /\ DOMAIN h = 1 .. Len(g) + 1 /\ DOMAIN g = 1 .. Len(g)
      /\ h[Len(g) + 1] = e /\ \A i \in 1 .. Len(g) : h[i] = g[i]
  BY <1>1
<1> HIDE DEF h
<1>3. IsPrefix(g, h)
  BY <1>1, <1>2, PrefixIs
<1>4. Entries(h) = Entries(g) \union fs
  <2>1. \A x : x \in Entries(h) <=> \E i \in 1 .. Len(g) + 1 : x \in h[i].files
    BY <1>2 DEF Entries
  <2>2. \A x : x \in Entries(g) <=> \E i \in 1 .. Len(g) : x \in g[i].files
    BY <1>2 DEF Entries
  <2>3. \A i \in 1 .. Len(g) + 1 : i \in 1 .. Len(g) \/ i = Len(g) + 1
    BY <1>2
  <2>4. \A i \in 1 .. Len(g) : i \in 1 .. Len(g) + 1
    BY <1>2
  <2>5. Len(g) + 1 \in 1 .. Len(g) + 1
    BY <1>2
  <2>6. ASSUME NEW x
        PROVE  x \in Entries(h) <=> x \in Entries(g) \/ x \in fs
    BY <1>1, <1>2, <2>1, <2>2, <2>3, <2>4, <2>5
  <2> QED
    BY <2>6
<1> QED
  BY <1>2, <1>3, <1>4 DEF h, e, Histories, Change

(* An empty history; and what None is not. *)
LEMMA NoneFacts ==
  /\ None \notin Request /\ None \notin Histories /\ <<>> \in Histories /\ Entries(<<>>) = {}
  /\ NoCall \in CallType /\ NoCall.want = None /\ NoCall.tip = {}
BY NoneAssumption DEF Histories, Entries, NoCall, CallType



-----------------------------------------------------------------------------
(* What a step leaves as it was *)

(* Messages, results and histories only grow. *)
Forward ==
  /\ mremote \subseteq mremote' /\ verified \subseteq verified' /\ mixed \subseteq mixed'
  /\ \A r \in Request : task[r].d # "unseen" => task'[r] = task[r]
  /\ IsPrefix(remote, remote')
  /\ Entries(checkout.head) \subseteq Entries(checkout'.head)
  /\ checkout.index \subseteq checkout'.index \union Entries(checkout'.head)

LEMMA TickStays ==
  ASSUME StateInv, NEW o \in Command, pc'[o] = pc[o], call'[o] = call[o],
         mremote \subseteq mremote', \A r \in Request : task[r].d # "unseen" => task'[r] = task[r]
  PROVE  TickInv(o)'
<1>1. /\ TickInv(o) /\ (InExport(o)' <=> InExport(o)) /\ (Exporting(o)' <=> Exporting(o))
      /\ pc[o] # "ready" => call[o].want \in Request
  BY DEF StateInv, CallsOK, InExport, Exporting
<1>2. InExport(o) => pc[o] # "ready"
  BY DEF InExport, Exporting
<1> QED
  BY <1>1, <1>2 DEF TickInv

LEMMA ExportStays ==
  ASSUME StateInv, StoresOK', NEW o \in Command, pc'[o] = pc[o], call'[o] = call[o], Forward,
         Exporting(o) => \/ checkout'.file[call[o].want] = checkout.file[call[o].want]
                         \/ call[o].want \in mixed
  PROVE  ExportInv(o)'
<1>1. /\ ExportInv(o) /\ call[o] \in CallType /\ remote \in Histories /\ remote' \in Histories
      /\ IsPrefix(remote, remote')
  BY DEF StateInv, CallsOK, StoresOK, Forward
<1>2. ASSUME NEW h \in Histories, IsPrefix(h, remote)
      PROVE  IsPrefix(h, remote')
  BY <1>1, <1>2, PrefixFacts
<1>3. /\ call[o].base \in Histories \union {None} /\ call[o].commit \in Histories \union {None}
      /\ call[o].local \in Histories \union {None}
  BY <1>1 DEF CallType
<1>4. ASSUME NEW h, NEW k, Exporting(o), Found(o, h), Entries(h) \subseteq Entries(k)
      PROVE  call[o].want \notin mixed' /\ checkout'.file[call[o].want] # "absent" => call[o].want \in Entries(k)
  BY <1>4 DEF Found, Forward
<1>5. ASSUME pc[o] = "local"
      PROVE  call[o].waiting = {} /\ Found(o, checkout.head)'
  <2>1. call[o].waiting = {} /\ Found(o, checkout.head) /\ Exporting(o)
    BY <1>1, <1>5 DEF ExportInv, Exporting
  <2> QED
    BY <1>4, <2>1 DEF Forward, Found
<1>6. ASSUME pc[o] \in {"base", "exists"}
      PROVE  /\ call[o].local # None /\ call[o].waiting \subseteq Entries(call[o].local)
             /\ Found(o, call[o].local)'
  <2>1. /\ call[o].local # None /\ call[o].waiting \subseteq Entries(call[o].local)
        /\ Found(o, call[o].local) /\ Exporting(o)
    BY <1>1, <1>6 DEF ExportInv, Exporting
  <2>2. call[o].want \notin mixed' /\ checkout'.file[call[o].want] # "absent" => call[o].want \in Entries(call[o].local)
    BY <1>4, <2>1
  <2> QED
    BY <2>1, <2>2 DEF Found
<1>7. Entries(call[o].base)' = Entries(call[o].base)
      /\ Entries(call[o].commit)' = Entries(call[o].commit) /\ Entries(call[o].local)' = Entries(call[o].local)
  BY DEF Entries
<1> QED
  BY <1>1, <1>2, <1>3, <1>5, <1>6, <1>7 DEF ExportInv, Forward

(* A step that leaves the stores, the checkout and its remote alone. *)
LEMMA Quiet ==
  ASSUME StateInv, UNCHANGED <<stores, places, history>>
  PROVE  /\ StoresOK' /\ BoardInv' /\ Forward
         /\ \A r \in Request : checkout'.file[r] = checkout.file[r]
<1>1. /\ mlocal' = mlocal /\ mremote' = mremote /\ flying' = flying /\ task' = task
      /\ progress' = progress /\ checkout' = checkout /\ remote' = remote /\ inflight' = inflight
      /\ made' = made /\ done' = done /\ verified' = verified /\ mixed' = mixed
  BY DEF stores, messages, places, history
<1>2. StoresOK' /\ StoresOK
  BY <1>1 DEF StateInv, StoresOK
<1>3. BoardInv'
  BY <1>1 DEF StateInv, BoardInv, StoresAgree, ExportedThere, LedgerInv
<1>4. Forward
  BY <1>1, <1>2, PrefixFacts DEF Forward, StoresOK
<1> QED
  BY <1>1, <1>2, <1>3, <1>4


LEMMA StaysApart ==
  ASSUME StateInv, mixed \subseteq mixed',
         \A r \in Request : task[r].d # "unseen" => task'[r] = task[r],
         \A o \in Command : /\ InExport(o)' => InExport(o) /\ call'[o].want = call[o].want
                            /\ Exporting(o)' => Exporting(o)
  PROVE  ApartInv'
<1>1. \A o \in Command : InExport(o) => /\ call[o].want \in Request
                                        /\ task'[call[o].want] = task[call[o].want]
  BY DEF StateInv, CallsOK, TickInv, InExport, Exporting
<1> QED
  BY <1>1 DEF StateInv, ApartInv

(* A command ends, whatever else the step has done. *)
LEMMA Ends ==
  ASSUME StateInv, NEW c \in Command, End(c), StoresOK', BoardInv', Forward,
         \A r \in Request : checkout'.file[r] = checkout.file[r]
  PROVE  StateInv'
<1>1. /\ pc \in [Command -> Phase] /\ call \in [Command -> CallType] /\ "ready" \in Phase
      /\ pc' = [pc EXCEPT ![c] = "ready"] /\ call' = [call EXCEPT ![c] = NoCall]
  BY DEF StateInv, CallsOK, End, Go, Phase
<1>2. /\ pc' \in [Command -> Phase] /\ call' \in [Command -> CallType]
      /\ pc'[c] = "ready" /\ call'[c] = NoCall
      /\ \A o \in Command : o # c => pc'[o] = pc[o] /\ call'[o] = call[o]
  BY <1>1, NoneFacts
<1>3. CallsOK'
  BY <1>2 DEF StateInv, CallsOK
<1>4. ~InExport(c)' /\ ~Exporting(c)'
  BY <1>2 DEF InExport, Exporting
<1>5. ASSUME NEW o \in Command
      PROVE  TickInv(o)' /\ ExportInv(o)'
  <2>1. CASE o # c
    <3>1. Exporting(o) => checkout'.file[call[o].want] = checkout.file[call[o].want]
      BY DEF StateInv, CallsOK, Exporting
    <3> QED
      BY <1>2, <2>1, <3>1, TickStays, ExportStays DEF Forward
  <2>2. CASE o = c
    BY <1>2, <1>4, <2>2, NoneFacts DEF TickInv, ExportInv
  <2> QED
    BY <2>1, <2>2
<1>6. ApartInv'
  <2>1. ASSUME NEW o \in Command
        PROVE  /\ InExport(o)' => InExport(o) /\ call'[o].want = call[o].want
               /\ Exporting(o)' => Exporting(o)
    BY <1>2, <1>4 DEF InExport, Exporting
  <2> QED
    BY <2>1, StaysApart DEF Forward
<1> QED
  BY <1>3, <1>5, <1>6 DEF StateInv

(* A command goes on with its export. *)
ExportPhase ==
  {"status", "local", "base", "exists", "create", "write", "add", "commit", "head",
   "push", "observe", "load", "persist"}
LEMMA GoesOn ==
  ASSUME StateInv, NEW c \in Command, pc[c] \in ExportPhase, NEW phase \in ExportPhase,
         NEW r \in CallType, Go(c, phase), call' = [call EXCEPT ![c] = r],
         r.want = call[c].want, r.d = call[c].d, r.memory = call[c].memory, r.tip = call[c].tip,
         StoresOK', BoardInv', Forward,
         \A q \in Request : q # call[c].want => checkout'.file[q] = checkout.file[q],
         ExportInv(c)'
  PROVE  StateInv'
<1>1. /\ pc \in [Command -> Phase] /\ call \in [Command -> CallType] /\ phase \in Phase /\ phase # "ready"
      /\ pc' = [pc EXCEPT ![c] = phase] /\ r.want \in Request /\ r # NoCall
      /\ Exporting(c) /\ InExport(c) /\ pc[c] # "tick"
  BY NoneFacts DEF StateInv, CallsOK, Go, Phase, ExportPhase, Exporting, InExport
<1>2. /\ pc' \in [Command -> Phase] /\ call' \in [Command -> CallType]
      /\ pc'[c] = phase /\ call'[c] = r
      /\ \A o \in Command : o # c => pc'[o] = pc[o] /\ call'[o] = call[o]
  BY <1>1
<1>3. CallsOK'
  BY <1>1, <1>2 DEF StateInv, CallsOK
<1>4. ASSUME NEW o \in Command
      PROVE  TickInv(o)' /\ ExportInv(o)'
  <2>1. CASE o # c
    <3>1. Exporting(o) => \/ checkout'.file[call[o].want] = checkout.file[call[o].want]
                          \/ call[o].want \in mixed
      BY <1>1, <2>1 DEF StateInv, CallsOK, ApartInv, InExport, Exporting
    <3> QED
      BY <1>2, <2>1, <3>1, TickStays, ExportStays DEF Forward
  <2>2. CASE o = c
    <3>1. TickInv(c) /\ task[r.want].d # "unseen" /\ task'[r.want] = task[r.want]
          /\ mremote \subseteq mremote' /\ phase # "tick"
      BY <1>1 DEF StateInv, TickInv, Forward, ExportPhase
    <3>2. TickInv(c)'
      BY <1>1, <1>2, <3>1 DEF TickInv
    <3> QED
      BY <2>2, <3>2
  <2> QED
    BY <2>1, <2>2
<1>5. ApartInv'
  <2>1. ASSUME NEW o \in Command
        PROVE  /\ InExport(o)' => InExport(o) /\ call'[o].want = call[o].want
               /\ Exporting(o)' => Exporting(o)
    <3>1. CASE o # c
      BY <1>2, <3>1 DEF InExport, Exporting
    <3> QED
      BY <1>1, <1>2, <3>1
  <2> QED
    BY <2>1, StaysApart DEF Forward
<1> QED
  BY <1>3, <1>4, <1>5 DEF StateInv



-----------------------------------------------------------------------------
(* The import and the tick *)

LEMMA BoardStays ==
  ASSUME StateInv, StoresOK', mremote \subseteq mremote', IsPrefix(remote, remote'),
         UNCHANGED <<task, progress, history>>, \A i \in inflight' : IsPrefix(i.from, i.to)
  PROVE  BoardInv'
<1>1. /\ task' = task /\ progress' = progress /\ done' = done /\ verified' = verified /\ mixed' = mixed
      /\ StoresOK
  BY DEF history, StateInv
<1>2. StoresAgree' /\ LedgerInv'
  BY <1>1 DEF StateInv, BoardInv, StoresAgree, LedgerInv
<1>3. ExportedThere'
  <2>1. ASSUME NEW h \in Histories, IsPrefix(h, remote)
        PROVE  IsPrefix(h, remote')
    BY <1>1, <2>1, PrefixFacts DEF StoresOK
  <2>2. Entries(remote) \subseteq Entries(remote')
    BY <1>1, PrefixFacts DEF StoresOK
  <2>3. \A r \in Request : progress[r].as \in Histories \union {None}
    BY <1>1 DEF StoresOK, Progress
  <2>4. ASSUME NEW r \in Request, r \in verified \ mixed
        PROVE  /\ r \in Entries(remote')
               /\ progress[r].as # None => r \in Entries(progress[r].as) /\ IsPrefix(progress[r].as, remote')
    BY <2>1, <2>2, <2>3, <2>4 DEF StateInv, BoardInv, ExportedThere
  <2>5. verified \subseteq Request
    BY <1>1 DEF StoresOK
  <2>6. \A r \in Request : Entries(progress[r].as)' = Entries(progress'[r].as)
    BY DEF Entries
  <2> QED
    BY <1>1, <2>4, <2>5, <2>6 DEF ExportedThere
<1> QED
  BY <1>2, <1>3 DEF BoardInv

LEMMA Publishes ==
  ASSUME StateInv, NEW m \in Messages, NEW outcome, PublishedAs(m, outcome)
  PROVE  /\ mlocal' \subseteq Messages /\ mremote' \subseteq mlocal' /\ flying' \in BOOLEAN
         /\ mremote \subseteq mremote' /\ (outcome = "verified" => m \in mremote')
<1>1. mlocal \subseteq Messages /\ mremote \subseteq mlocal /\ flying \in BOOLEAN
  BY DEF StateInv, StoresOK
<1>2. CASE outcome = "verified"
  BY <1>1, <1>2 DEF PublishedAs
<1>3. CASE outcome = "appended"
  BY <1>1, <1>3 DEF PublishedAs
<1>4. CASE outcome \notin {"verified", "appended"}
  BY <1>1, <1>4 DEF PublishedAs, messages
<1> QED
  BY <1>2, <1>3, <1>4

(* A command goes on before its export. *)
LEMMA Proceeds ==
  ASSUME StateInv, NEW c \in Command, NEW phase \in {"inspect", "compare", "import", "tick"},
         NEW r \in CallType, Go(c, phase), call' = [call EXCEPT ![c] = r],
         r.want \in Request, r.tip \subseteq mremote',
         phase = "tick" => <<"request", r.want>> \in mremote',
         StoresOK', BoardInv', Forward, \A q \in Request : checkout'.file[q] = checkout.file[q]
  PROVE  StateInv'
<1>1. /\ pc \in [Command -> Phase] /\ call \in [Command -> CallType] /\ phase \in Phase /\ phase # "ready"
      /\ pc' = [pc EXCEPT ![c] = phase] /\ r # NoCall
  BY NoneFacts DEF StateInv, CallsOK, Go, Phase
<1>2. /\ pc' \in [Command -> Phase] /\ call' \in [Command -> CallType]
      /\ pc'[c] = phase /\ call'[c] = r
      /\ \A o \in Command : o # c => pc'[o] = pc[o] /\ call'[o] = call[o]
  BY <1>1
<1>3. CallsOK'
  BY <1>1, <1>2 DEF StateInv, CallsOK
<1>4. ~InExport(c)' /\ ~Exporting(c)'
  BY <1>2 DEF InExport, Exporting
<1>5. ASSUME NEW o \in Command
      PROVE  TickInv(o)' /\ ExportInv(o)'
  <2>1. CASE o # c
    <3>1. Exporting(o) => checkout'.file[call[o].want] = checkout.file[call[o].want]
      BY DEF StateInv, CallsOK, Exporting
    <3> QED
      BY <1>2, <2>1, <3>1, TickStays, ExportStays DEF Forward
  <2>2. CASE o = c
    BY <1>2, <1>4, <2>2 DEF TickInv, ExportInv
  <2> QED
    BY <2>1, <2>2
<1>6. ApartInv'
  <2>1. ASSUME NEW o \in Command
        PROVE  /\ InExport(o)' => InExport(o) /\ call'[o].want = call[o].want
               /\ Exporting(o)' => Exporting(o)
    BY <1>2, <1>4 DEF InExport, Exporting
  <2> QED
    BY <2>1, StaysApart DEF Forward
<1> QED
  BY <1>3, <1>5, <1>6 DEF StateInv

LEMMA ImportKeeps ==
  ASSUME StateInv, NEW c \in Command,
         \/ \E r \in Request : Begin(c, r)
         \/ InspectTip(c) \/ CompareTips(c) \/ Import(c) \/ TickQuiet(c) \/ Interrupted(c)
  PROVE  StateInv'
<1>1. /\ pc \in [Command -> Phase] /\ call \in [Command -> CallType] /\ call[c] \in CallType
      /\ pc[c] # "ready" => call[c].want \in Request
      /\ call[c].tip \subseteq mremote /\ mremote \subseteq mlocal /\ mlocal \subseteq Messages
  BY DEF StateInv, CallsOK, TickInv, StoresOK
<1>2. ASSUME NEW r \in Request, Begin(c, r)
      PROVE  StateInv'
  <2> DEFINE x == [NoCall EXCEPT !.want = r]
  <2>1. UNCHANGED <<stores, places, history>> /\ Go(c, "inspect") /\ call[c] = NoCall
        /\ call' = [call EXCEPT ![c] = x]
    BY <1>2 DEF Begin, StateInv, CallsOK
  <2>2. x \in CallType /\ x.want = r /\ x.tip = {}
    BY NoneFacts DEF CallType, NoCall
  <2> HIDE DEF x
  <2> QED
    BY <2>1, <2>2, Quiet, Proceeds
<1>3. CASE InspectTip(c)
  <2> DEFINE x == [call[c] EXCEPT !.tip = mremote]
  <2>1. UNCHANGED <<stores, places, history>> /\ Go(c, "compare") /\ pc[c] = "inspect"
        /\ call' = [call EXCEPT ![c] = x]
    BY <1>3 DEF InspectTip
  <2>2. x \in CallType /\ x.want = call[c].want /\ x.tip = mremote
    BY <1>1 DEF CallType
  <2>3. mremote' = mremote
    BY <2>1 DEF stores, messages
  <2> HIDE DEF x
  <2> QED
    BY <1>1, <2>1, <2>2, <2>3, Quiet, Proceeds
<1>4. CASE CompareTips(c)
  <2>1. UNCHANGED <<stores, places, history>> /\ pc[c] = "compare" /\ mremote' = mremote
    BY <1>4 DEF CompareTips, stores, messages
  <2>2. CASE End(c)
    BY <2>1, <2>2, Quiet, Ends
  <2>3. CASE ~End(c)
    <3> DEFINE x == [call[c] EXCEPT !.tip = {}]
               phase == IF <<"request", call[c].want>> \in mlocal THEN "tick" ELSE "import"
    <3>1. Go(c, phase) /\ mlocal = call[c].tip /\ call' = [call EXCEPT ![c] = x]
      BY <1>4, <2>3 DEF CompareTips
    <3>2. x \in CallType /\ x.want = call[c].want /\ x.tip = {}
      BY <1>1 DEF CallType
    <3>3. phase \in {"inspect", "compare", "import", "tick"}
          /\ (phase = "tick" => <<"request", call[c].want>> \in mremote)
      BY <1>1, <3>1
    <3> HIDE DEF x, phase
    <3> QED
      BY <1>1, <2>1, <3>1, <3>2, <3>3, Quiet, Proceeds
  <2> QED
    BY <2>2, <2>3
<1>5. CASE Import(c)
  <2>1. PICK outcome \in {"verified", "appended", "none"} :
          /\ PublishedAs(<<"request", call[c].want>>, outcome)
          /\ IF outcome = "verified" THEN Go(c, "tick") /\ UNCHANGED call ELSE End(c)
    BY <1>5 DEF Import
  <2>2. /\ task' = task /\ progress' = progress /\ UNCHANGED history /\ pc[c] = "import"
        /\ checkout' = checkout /\ remote' = remote /\ inflight' = inflight /\ made' = made
        /\ done' = done /\ verified' = verified /\ mixed' = mixed
        /\ <<"request", call[c].want>> \in Messages
    BY <1>1, <1>5 DEF Import, places, history, Messages
  <2>3. /\ mlocal' \subseteq Messages /\ mremote' \subseteq mlocal' /\ flying' \in BOOLEAN
        /\ mremote \subseteq mremote'
        /\ outcome = "verified" => <<"request", call[c].want>> \in mremote'
    BY <2>1, <2>2, Publishes
  <2>4. StoresOK' /\ StoresOK
    BY <2>2, <2>3 DEF StateInv, StoresOK
  <2>5. IsPrefix(remote, remote') /\ \A i \in inflight' : IsPrefix(i.from, i.to)
    BY <2>2, <2>4, PrefixFacts DEF StateInv, BoardInv, LedgerInv, StoresOK
  <2>6. BoardInv' /\ Forward
    BY <2>2, <2>3, <2>4, <2>5, BoardStays DEF Forward
  <2>7. CASE outcome = "verified"
    <3>1. call' = [call EXCEPT ![c] = call[c]] /\ Go(c, "tick") /\ call[c].tip \subseteq mremote'
      BY <1>1, <2>1, <2>3, <2>7
    <3> QED
      BY <1>1, <2>2, <2>3, <2>4, <2>6, <2>7, <3>1, Proceeds
  <2>8. CASE outcome # "verified"
    BY <2>1, <2>2, <2>4, <2>6, <2>8, Ends
  <2> QED
    BY <2>7, <2>8
<1>6. CASE TickQuiet(c) \/ Interrupted(c)
  <2>1. UNCHANGED <<stores, places, history>> /\ End(c)
    BY <1>6 DEF TickQuiet, Interrupted
  <2> QED
    BY <2>1, Quiet, Ends
<1> QED
  BY <1>2, <1>3, <1>4, <1>5, <1>6


(* A tick has returned the command's own reply State. *)
LEMMA Returns ==
  ASSUME StateInv, NEW c \in Command, pc[c] = "tick", NEW x \in CallType,
         Go(c, "refresh"), call' = [call EXCEPT ![c] = x],
         x.want = call[c].want, x.tip = call[c].tip,
         StoresOK', BoardInv', Forward, \A q \in Request : checkout'.file[q] = checkout.file[q],
         task'[x.want].d # "unseen",
         x.d \in Closed => task'[x.want].d = x.d /\ (x.memory => task'[x.want].memory),
         \A o \in Command : o # c /\ InExport(o) /\ call[o].want = x.want =>
           task'[x.want].d \in {"claimed", "unresolved"}
  PROVE  StateInv'
<1>1. /\ pc \in [Command -> Phase] /\ call \in [Command -> CallType] /\ "refresh" \in Phase
      /\ pc' = [pc EXCEPT ![c] = "refresh"] /\ x.want \in Request /\ x # NoCall
      /\ ~InExport(c) /\ x.tip \subseteq mremote
  BY NoneFacts DEF StateInv, CallsOK, Go, Phase, TickInv, InExport, Exporting
<1>2. /\ pc' \in [Command -> Phase] /\ call' \in [Command -> CallType]
      /\ pc'[c] = "refresh" /\ call'[c] = x
      /\ \A o \in Command : o # c => pc'[o] = pc[o] /\ call'[o] = call[o]
  BY <1>1
<1>3. CallsOK'
  BY <1>1, <1>2 DEF StateInv, CallsOK
<1>4. /\ ~Exporting(c)'
      /\ \A o \in Command : o # c => (InExport(o)' <=> InExport(o)) /\ (Exporting(o)' <=> Exporting(o))
  BY <1>2 DEF InExport, Exporting
<1>5. ASSUME NEW o \in Command
      PROVE  TickInv(o)' /\ ExportInv(o)'
  <2>1. CASE o # c
    <3>1. Exporting(o) => checkout'.file[call[o].want] = checkout.file[call[o].want]
      BY DEF StateInv, CallsOK, Exporting
    <3> QED
      BY <1>2, <2>1, <3>1, TickStays, ExportStays DEF Forward
  <2>2. CASE o = c
    <3>1. TickInv(c)'
      BY <1>1, <1>2, <1>4 DEF TickInv, Forward
    <3> QED
      BY <1>2, <2>2, <3>1 DEF ExportInv
  <2> QED
    BY <2>1, <2>2
<1>6. ApartInv'
  <2>1. ASSUME NEW a \in Command, NEW o \in Command, a # o, a # c, o # c,
               InExport(a)', InExport(o)', call'[a].want = call'[o].want
        PROVE  /\ task'[call'[a].want].d \in {"claimed", "unresolved"}
               /\ Exporting(a)' /\ Exporting(o)' => call'[a].want \in mixed'
    <3>1. /\ InExport(a) /\ InExport(o) /\ call'[a] = call[a] /\ call'[o] = call[o]
          /\ pc[a] # "ready" /\ call[a].want \in Request
      BY <1>2, <1>4, <2>1 DEF InExport, Exporting, StateInv, CallsOK
    <3>2. /\ task[call[a].want].d \in {"claimed", "unresolved"}
          /\ Exporting(a) /\ Exporting(o) => call[a].want \in mixed
      BY <2>1, <3>1 DEF StateInv, ApartInv
    <3> QED
      BY <1>4, <2>1, <3>1, <3>2 DEF Forward
  <2>2. ASSUME NEW o \in Command, o # c, InExport(o)', call'[o].want = x.want
        PROVE  task'[x.want].d \in {"claimed", "unresolved"}
    BY <1>2, <1>4, <2>2
  <2> QED
    BY <1>2, <1>4, <2>1, <2>2 DEF ApartInv
<1> QED
  BY <1>3, <1>5, <1>6 DEF StateInv

(* What follows the result of a tick for the task r. *)
LEMMA Routed ==
  ASSUME StateInv, NEW c \in Command, pc[c] = "tick", NEW r \in Request,
         NEW d \in {"none", "unresolved", "completed", "failed"}, NEW reply, NEW memory \in BOOLEAN,
         Route(c, r, d, reply, memory),
         StoresOK', BoardInv', Forward, \A q \in Request : checkout'.file[q] = checkout.file[q],
         task'[r].d # "unseen",
         d \in Closed => task'[r].d = d /\ (memory => task'[r].memory),
         \/ task[r].d = "unseen"
         \/ task'[r].d \in {"claimed", "unresolved"}
  PROVE  StateInv'
<1>1. CASE End(c)
  BY <1>1, Ends
<1>2. CASE ~End(c)
  <2> DEFINE x == [call[c] EXCEPT !.d = d, !.memory = memory]
  <2>1. Go(c, "refresh") /\ call' = [call EXCEPT ![c] = x] /\ r = call[c].want
    BY <1>2 DEF Route, StateInv, CallsOK
  <2>2. call[c] \in CallType
    BY DEF StateInv, CallsOK
  <2>3. x \in CallType /\ x.want = r /\ x.tip = call[c].tip /\ x.d = d /\ x.memory = memory
    BY <2>1, <2>2 DEF CallType
  <2>4. \A o \in Command : o # c /\ InExport(o) /\ call[o].want = r => task[r].d # "unseen"
    BY DEF StateInv, TickInv
  <2> HIDE DEF x
  <2> QED
    BY <2>1, <2>3, <2>4, Returns
<1> QED
  BY <1>1, <1>2

(* A task that nobody handled is. *)
LEMMA Handles ==
  ASSUME StateInv, StoresOK', NEW r \in Request, task[r].d = "unseen",
         NEW t \in Ledger, NEW s \in {"none", "accepted", "stopped", "exported"},
         task' = [task EXCEPT ![r] = t], progress' = [progress EXCEPT ![r].stage = s],
         t.d # "unseen", t.d = "completed" => s \in {"accepted", "exported"},
         t.d = "failed" => s \in {"none", "stopped"},
         mremote \subseteq mremote', UNCHANGED <<places, history>>
  PROVE  /\ BoardInv' /\ Forward /\ \A q \in Request : checkout'.file[q] = checkout.file[q]
         /\ task'[r] = t
<1>1. /\ checkout' = checkout /\ remote' = remote /\ inflight' = inflight
      /\ done' = done /\ verified' = verified /\ mixed' = mixed
      /\ StoresOK /\ BoardInv
  BY DEF places, history, StateInv
<1>2. /\ task'[r] = t /\ \A q \in Request : q # r => task'[q] = task[q]
      /\ progress'[r].stage = s /\ progress'[r].as = progress[r].as
      /\ \A q \in Request : q # r => progress'[q] = progress[q]
  BY <1>1 DEF StoresOK, Progress
<1>3. StoresAgree'
  BY <1>1, <1>2 DEF BoardInv, StoresAgree
<1>4. LedgerInv'
  BY <1>1, <1>2 DEF BoardInv, LedgerInv, Closed, StoresOK
<1>5. ExportedThere'
  BY <1>1, <1>2 DEF BoardInv, ExportedThere, StoresOK
<1>6. Forward
  BY <1>1, <1>2, PrefixFacts DEF Forward, StoresOK
<1> QED
  BY <1>1, <1>2, <1>3, <1>4, <1>5, <1>6 DEF BoardInv

LEMMA TickKeeps ==
  ASSUME StateInv, NEW c \in Command, TickHalts(c) \/ TickHandles(c) \/ TickDies(c)
  PROVE  StateInv'
<1>1. StoresOK /\ BoardInv /\ (pc[c] # "ready" => call[c].want \in Request)
  BY DEF StateInv, CallsOK
<1>2. CASE TickHalts(c)
  <2>1. UNCHANGED <<stores, places, history>> /\ pc[c] = "tick" /\ task' = task
    BY <1>2 DEF TickHalts, stores
  <2>2. PICK r \in Barriers : Route(c, r, "unresolved", task[r].reply, task[r].memory)
    BY <1>2 DEF TickHalts
  <2>3. r \in Request /\ task[r].d \in {"claimed", "unresolved"} /\ task[r].memory \in BOOLEAN
    BY <1>1 DEF Barriers, StoresOK, Ledger
  <2> QED
    BY <2>1, <2>2, <2>3, Quiet, Routed DEF Closed
<1>3. ASSUME NEW r \in Request, NEW h \in Handled(c, r), task[r].d = "unseen", pc[c] = "tick"
      PROVE  /\ h.d \in {"completed", "failed", "unresolved"} /\ h.memory \in BOOLEAN
             /\ h.stage \in {"none", "accepted", "stopped"}
             /\ h.d = "completed" => h.stage = "accepted"
             /\ h.d = "failed" => h.stage \in {"none", "stopped"}
  <2>1. progress[r].stage = "none"
    BY <1>1, <1>3 DEF BoardInv, LedgerInv
  <2>2. \/ h = [d |-> "failed", stage |-> progress[r].stage, memory |-> FALSE]
        \/ h = [d |-> "completed", stage |-> "accepted", memory |-> TRUE]
        \/ h = [d |-> "failed", stage |-> "stopped", memory |-> TRUE]
        \/ h = [d |-> "unresolved", stage |-> "stopped", memory |-> TRUE]
        \/ \E s \in {"none", "accepted", "stopped"} :
             h = [d |-> "unresolved", stage |-> s, memory |-> FALSE]
    <3>1. ASSUME NEW x \in [d : {"unresolved"}, stage : {"none", "accepted", "stopped"}, memory : {FALSE}]
          PROVE  \E s \in {"none", "accepted", "stopped"} : x = [d |-> "unresolved", stage |-> s, memory |-> FALSE]
      <4>1. /\ x = [d |-> x.d, stage |-> x.stage, memory |-> x.memory]
            /\ x.d = "unresolved" /\ x.stage \in {"none", "accepted", "stopped"} /\ x.memory = FALSE
        BY <3>1
      <4> QED
        BY <4>1
    <3> QED
      BY <1>3, <3>1 DEF Handled
  <2>3. h.memory \in BOOLEAN
    <3>1. h.memory = TRUE \/ h.memory = FALSE
      BY <2>2
    <3> QED
      BY <3>1
  <2>4. h.stage \in {"none", "accepted", "stopped"} /\ h.d \in {"completed", "failed", "unresolved"}
    BY <2>1, <2>2
  <2>5. h.d = "completed" => h.stage = "accepted"
    BY <2>2
  <2>6. h.d = "failed" => h.stage \in {"none", "stopped"}
    BY <2>1, <2>2
  <2> QED
    BY <2>3, <2>4, <2>5, <2>6
<1>4. CASE TickHandles(c)
  <2>1. PICK r \in {q \in Request : task[q].d = "unseen" /\ <<"request", q>> \in mremote} :
        \E h \in Handled(c, r), outcome \in {"verified", "appended", "none"} :
          LET d == IF outcome = "verified" THEN h.d ELSE "unresolved"
              memory == h.memory /\ d # "unresolved"
              closed == [d |-> d, reply |-> outcome # "none", memory |-> memory]
              claimed == [d |-> "claimed", reply |-> FALSE, memory |-> FALSE]
          IN  /\ PublishedAs(<<"reply", r>>, outcome)
              /\ progress' = [progress EXCEPT ![r].stage = h.stage]
              /\ \/ /\ task' = [task EXCEPT ![r] = closed]
                    /\ Route(c, r, d, outcome # "none", memory)
                 \/ /\ task' \in {[task EXCEPT ![r] = closed], [task EXCEPT ![r] = claimed]}
                    /\ Route(c, r, "unresolved", outcome # "none", FALSE)
    BY <1>4 DEF TickHandles
  <2>2. PICK h \in Handled(c, r), outcome \in {"verified", "appended", "none"} :
          LET d == IF outcome = "verified" THEN h.d ELSE "unresolved"
              memory == h.memory /\ d # "unresolved"
              closed == [d |-> d, reply |-> outcome # "none", memory |-> memory]
              claimed == [d |-> "claimed", reply |-> FALSE, memory |-> FALSE]
          IN  /\ PublishedAs(<<"reply", r>>, outcome)
              /\ progress' = [progress EXCEPT ![r].stage = h.stage]
              /\ \/ /\ task' = [task EXCEPT ![r] = closed]
                    /\ Route(c, r, d, outcome # "none", memory)
                 \/ /\ task' \in {[task EXCEPT ![r] = closed], [task EXCEPT ![r] = claimed]}
                    /\ Route(c, r, "unresolved", outcome # "none", FALSE)
    BY <2>1
  <2> DEFINE d == IF outcome = "verified" THEN h.d ELSE "unresolved"
             memory == h.memory /\ d # "unresolved"
             closed == [d |-> d, reply |-> outcome # "none", memory |-> memory]
             claimed == [d |-> "claimed", reply |-> FALSE, memory |-> FALSE]
  <2>3. /\ r \in Request /\ task[r].d = "unseen" /\ pc[c] = "tick" /\ UNCHANGED <<places, history>>
        /\ <<"reply", r>> \in Messages
    BY <1>4 DEF TickHandles, Messages
  <2>4. /\ h.d \in {"completed", "failed", "unresolved"} /\ h.memory \in BOOLEAN
        /\ h.stage \in {"none", "accepted", "stopped", "exported"}
        /\ h.d = "completed" => h.stage \in {"accepted", "exported"}
        /\ h.d = "failed" => h.stage \in {"none", "stopped"}
    BY <1>3, <2>3
  <2>5. /\ closed \in Ledger /\ claimed \in Ledger /\ memory \in BOOLEAN
        /\ d \in {"none", "unresolved", "completed", "failed"}
        /\ closed.d = d /\ (closed.memory <=> memory) /\ claimed.d = "claimed"
        /\ d # "unseen" /\ (d = "completed" => h.stage \in {"accepted", "exported"})
        /\ d = "failed" => h.stage \in {"none", "stopped"}
    BY <2>4 DEF Ledger
  <2>6. /\ mlocal' \subseteq Messages /\ mremote' \subseteq mlocal' /\ flying' \in BOOLEAN
        /\ mremote \subseteq mremote'
    BY <2>2, <2>3, Publishes
  <2>7. /\ progress' = [progress EXCEPT ![r].stage = h.stage]
        /\ \/ /\ task' = [task EXCEPT ![r] = closed]
              /\ Route(c, r, d, outcome # "none", memory)
           \/ /\ task' \in {[task EXCEPT ![r] = closed], [task EXCEPT ![r] = claimed]}
              /\ Route(c, r, "unresolved", outcome # "none", FALSE)
    BY <2>2
  <2> HIDE DEF d, memory, closed, claimed
  <2>8. PICK t \in {closed, claimed} :
        /\ task' = [task EXCEPT ![r] = t]
        /\ \/ t = closed /\ Route(c, r, d, outcome # "none", memory)
           \/ Route(c, r, "unresolved", outcome # "none", FALSE)
    BY <2>7
  <2>9. /\ t \in Ledger /\ t.d # "unseen" /\ (t.d = "completed" => h.stage \in {"accepted", "exported"})
        /\ t.d = "failed" => h.stage \in {"none", "stopped"}
    BY <2>5, <2>8
  <2>10. StoresOK'
    BY <1>1, <2>3, <2>4, <2>6, <2>7, <2>8, <2>9 DEF StoresOK, Progress, places, history
  <2>11. /\ BoardInv' /\ Forward /\ \A q \in Request : checkout'.file[q] = checkout.file[q]
         /\ task'[r] = t
    BY <2>3, <2>4, <2>6, <2>7, <2>8, <2>9, <2>10, Handles
  <2>12. CASE t = closed /\ Route(c, r, d, outcome # "none", memory)
    BY <2>3, <2>5, <2>9, <2>10, <2>11, <2>12, Routed
  <2>13. CASE Route(c, r, "unresolved", outcome # "none", FALSE)
    BY <2>3, <2>9, <2>10, <2>11, <2>13, Routed DEF Closed
  <2> QED
    BY <2>8, <2>12, <2>13
<1>5. CASE TickDies(c)
  <2>1. PICK r \in {q \in Request : task[q].d = "unseen" /\ <<"request", q>> \in mremote} :
          /\ task' = [task EXCEPT ![r].d = "claimed"]
          /\ progress' \in {progress} \union
               {[progress EXCEPT ![r].stage = h.stage] : h \in Handled(c, r)}
    BY <1>5 DEF TickDies
  <2>2. /\ r \in Request /\ task[r].d = "unseen" /\ pc[c] = "tick" /\ End(c)
        /\ UNCHANGED <<places, history>> /\ UNCHANGED messages
    BY <1>5 DEF TickDies
  <2> DEFINE t == [task[r] EXCEPT !.d = "claimed"]
  <2>3. t \in Ledger /\ t.d = "claimed" /\ task' = [task EXCEPT ![r] = t]
    BY <1>1, <2>1, <2>2 DEF StoresOK, Ledger
  <2> HIDE DEF t
  <2>4. PICK s \in {"none", "accepted", "stopped", "exported"} : progress' = [progress EXCEPT ![r].stage = s]
    <3>1. CASE progress' = progress
      <4>1. progress' = [progress EXCEPT ![r].stage = progress[r].stage]
            /\ progress[r].stage \in {"none", "accepted", "stopped", "exported"}
        BY <1>1, <2>2, <3>1 DEF StoresOK, Progress
      <4> QED
        BY <4>1
    <3>2. ASSUME NEW h \in Handled(c, r), progress' = [progress EXCEPT ![r].stage = h.stage]
          PROVE  \E s \in {"none", "accepted", "stopped", "exported"} : progress' = [progress EXCEPT ![r].stage = s]
      BY <1>3, <2>2, <3>2
    <3> QED
      BY <2>1, <3>1, <3>2
  <2>5. StoresOK'
    BY <1>1, <2>2, <2>3, <2>4 DEF StoresOK, Progress, messages, places, history
  <2>6. BoardInv' /\ Forward /\ \A q \in Request : checkout'.file[q] = checkout.file[q]
    <3>1. mremote' = mremote
      BY <2>2 DEF messages
    <3> QED
      BY <2>2, <2>3, <2>4, <2>5, <3>1, Handles
  <2> QED
    BY <2>2, <2>5, <2>6, Ends
<1> QED
  BY <1>2, <1>4, <1>5



-----------------------------------------------------------------------------
(* The export *)

LEMMA RefreshKeeps ==
  ASSUME StateInv, NEW c \in Command, Refresh(c)
  PROVE  StateInv'
<1> DEFINE r == call[c].want
           met == \E o \in Command \ {c} : Exporting(o) /\ call[o].want = r
<1>1. /\ StoresOK /\ BoardInv /\ ApartInv /\ TickInv(c) /\ CallsOK
      /\ pc[c] = "refresh" /\ r \in Request /\ InExport(c) /\ ~Exporting(c)
  BY DEF StateInv, CallsOK, Refresh, InExport, Exporting
<1>2. /\ UNCHANGED <<stores, places, done, verified>> /\ mixed' = IF met THEN mixed \union {r} ELSE mixed
      /\ mlocal' = mlocal /\ mremote' = mremote /\ flying' = flying /\ task' = task
      /\ progress' = progress /\ checkout' = checkout /\ remote' = remote /\ inflight' = inflight
      /\ made' = made /\ done' = done /\ verified' = verified
  BY DEF Refresh, stores, messages, places, history
<1>3. met => task[r].d \in {"claimed", "unresolved"}
  BY <1>1 DEF ApartInv, InExport
<1> HIDE DEF r, met
<1>4. StoresOK'
  BY <1>1, <1>2 DEF StoresOK
<1>5. BoardInv'
  <2>1. StoresAgree'
    BY <1>1, <1>2 DEF BoardInv, StoresAgree
  <2>2. LedgerInv'
    BY <1>1, <1>2, <1>3 DEF BoardInv, LedgerInv, Closed
  <2>3. ExportedThere'
    BY <1>1, <1>2 DEF BoardInv, ExportedThere
  <2> QED
    BY <2>1, <2>2, <2>3 DEF BoardInv
<1>6. Forward
  BY <1>1, <1>2, PrefixFacts DEF Forward, StoresOK
<1>7. CASE End(c)
  BY <1>2, <1>4, <1>5, <1>6, <1>7, Ends
<1>8. CASE ~End(c)
  <2>1. /\ <<"reply", r>> \in mremote /\ pc' = [pc EXCEPT ![c] = "status"] /\ call' = call
        /\ "status" \in Phase
    BY <1>8 DEF Refresh, Go, r, Phase
  <2>2. /\ pc' \in [Command -> Phase] /\ pc'[c] = "status"
        /\ \A o \in Command : o # c => pc'[o] = pc[o]
    BY <1>1, <2>1 DEF CallsOK
  <2>3. CallsOK'
    BY <1>1, <2>1, <2>2 DEF CallsOK
  <2>4. /\ InExport(c)' /\ Exporting(c)'
        /\ \A o \in Command : o # c => (InExport(o)' <=> InExport(o)) /\ (Exporting(o)' <=> Exporting(o))
    BY <2>1, <2>2 DEF InExport, Exporting
  <2>5. ASSUME NEW o \in Command
        PROVE  TickInv(o)' /\ ExportInv(o)'
    <3>1. CASE o # c
      BY <1>2, <1>4, <1>6, <2>1, <2>2, <3>1, TickStays, ExportStays DEF Forward
    <3>2. CASE o = c
      <4>1. TickInv(c)'
        BY <1>1, <1>2, <2>1, <2>2 DEF TickInv, r
      <4> QED
        BY <2>2, <3>2, <4>1 DEF ExportInv
    <3> QED
      BY <3>1, <3>2
  <2>6. ApartInv'
    <3>1. ASSUME NEW a \in Command, NEW o \in Command, a # o, a # c, o # c,
                 InExport(a)', InExport(o)', call'[a].want = call'[o].want
          PROVE  /\ task'[call'[a].want].d \in {"claimed", "unresolved"}
                 /\ Exporting(a)' /\ Exporting(o)' => call'[a].want \in mixed'
      BY <1>1, <1>2, <2>1, <2>4, <3>1 DEF ApartInv
    <3>2. ASSUME NEW o \in Command, o # c, InExport(o)', call'[o].want = r
          PROVE  /\ task'[r].d \in {"claimed", "unresolved"}
                 /\ Exporting(o)' => r \in mixed'
      <4>1. InExport(o) /\ call[o].want = r /\ (Exporting(o)' => Exporting(o))
        BY <2>1, <2>4, <3>2
      <4>2. task[r].d \in {"claimed", "unresolved"}
        BY <1>1, <3>2, <4>1 DEF ApartInv, r
      <4>3. Exporting(o) => met
        BY <3>2, <4>1 DEF met
      <4> QED
        BY <1>2, <4>1, <4>2, <4>3
    <3>3. call'[c].want = r
      BY <2>1 DEF r
    <3> QED
      BY <3>1, <3>2, <3>3 DEF ApartInv
  <2> QED
    BY <1>4, <1>5, <2>3, <2>5, <2>6 DEF StateInv
<1> QED
  BY <1>7, <1>8

(* What Found and the others say after a quiet step of c, by what c holds.   *)
LEMMA Exports ==
  ASSUME StateInv, NEW c \in Command, pc[c] \in ExportPhase
  PROVE  /\ Exporting(c) /\ InExport(c) /\ StoresOK /\ BoardInv /\ TickInv(c) /\ ExportInv(c)
         /\ pc \in [Command -> Phase] /\ call \in [Command -> CallType]
         /\ call[c] \in CallType /\ call[c].want \in Request
         /\ checkout.head \in Histories /\ remote \in Histories
         /\ checkout.head # None /\ remote # None
         /\ Pending \subseteq Files /\ Entries(checkout.head) \subseteq Files
<1>1. StoresOK /\ call[c].want \in Request /\ checkout \in Checkout
  BY DEF StateInv, CallsOK, ExportPhase, StoresOK
<1>2. Entries(checkout.head) \subseteq Files
  <2>1. checkout.head \in Seq(Change) /\ DOMAIN checkout.head = 1 .. Len(checkout.head)
    BY <1>1 DEF Checkout, Histories, Change
  <2>2. \A i \in DOMAIN checkout.head : checkout.head[i] \in Change
    BY <2>1
  <2> QED
    BY <2>2 DEF Entries, Change
<1>3. Pending \subseteq Files
  BY <1>1 DEF Pending, Checkout, Files
<1> QED
  BY <1>1, <1>2, <1>3, NoneFacts DEF StateInv, CallsOK, ExportPhase, Exporting, InExport, StoresOK, Checkout

LEMMA ReadsKeep ==
  ASSUME StateInv, NEW c \in Command, ReadStatus(c) \/ ReadLocal(c) \/ ReadBase(c) \/ ReadHead(c)
  PROVE  StateInv'
<1>1. /\ UNCHANGED <<stores, places, history>> /\ pc[c] \in ExportPhase
  BY DEF ReadStatus, ReadLocal, ReadBase, ReadHead, Read, ExportPhase
<1>2. /\ Exporting(c) /\ StoresOK /\ ExportInv(c)
      /\ pc \in [Command -> Phase] /\ call \in [Command -> CallType]
      /\ call[c] \in CallType /\ call[c].want \in Request
      /\ checkout.head \in Histories /\ remote \in Histories
      /\ checkout.head # None /\ remote # None
      /\ Pending \subseteq Files /\ Entries(checkout.head) \subseteq Files
      /\ IsPrefix(remote, remote)
  BY <1>1, Exports, PrefixFacts
<1>3. /\ checkout' = checkout /\ remote' = remote /\ mixed' = mixed /\ verified' = verified
  BY <1>1 DEF places, history
<1>4. CASE ReadStatus(c)
  <2>1. CASE ~Clean
    BY <1>1, <1>4, <2>1, Quiet, Ends DEF ReadStatus
  <2>2. CASE Clean
    <3> DEFINE x == [call[c] EXCEPT !.waiting = Pending]
    <3>1. Go(c, "local") /\ call' = [call EXCEPT ![c] = x]
      BY <1>4, <2>2 DEF ReadStatus, Read
    <3>2. /\ x \in CallType /\ x.want = call[c].want /\ x.d = call[c].d /\ x.memory = call[c].memory
          /\ x.tip = call[c].tip /\ x.waiting = {}
      BY <1>2, <2>2 DEF CallType, Clean
    <3> HIDE DEF x
    <3>3. pc'[c] = "local" /\ call'[c] = x
      BY <1>2, <3>1 DEF Go
    <3>4. checkout.file[call[c].want] # "absent" => call[c].want \in Entries(checkout.head)
      BY <1>2, <2>2 DEF Clean, Pending
    <3>5. ExportInv(c)'
      BY <1>3, <3>2, <3>3, <3>4 DEF ExportInv, Found
    <3> QED
      BY <1>1, <3>1, <3>2, <3>5, Quiet, GoesOn DEF ExportPhase
  <2> QED
    BY <2>1, <2>2
<1>5. CASE ReadLocal(c)
  <2> DEFINE x == [call[c] EXCEPT !.local = checkout.head,
                                  !.waiting = @ \union (Entries(checkout.head) \ Entries(remote))]
  <2>1. Go(c, "base") /\ call' = [call EXCEPT ![c] = x] /\ pc[c] = "local"
    BY <1>5 DEF ReadLocal
  <2>2. call[c].waiting = {} /\ Found(c, checkout.head)
    BY <1>2, <2>1 DEF ExportInv
  <2>3. /\ x \in CallType /\ x.want = call[c].want /\ x.d = call[c].d /\ x.memory = call[c].memory
        /\ x.tip = call[c].tip /\ x.waiting \subseteq Entries(checkout.head) /\ x.local = checkout.head
    BY <1>2, <2>2 DEF CallType
  <2> HIDE DEF x
  <2>4. pc'[c] = "base" /\ call'[c] = x
    BY <1>2, <2>1 DEF Go
  <2>5. Entries(call'[c].local) = Entries(checkout.head)
    BY <2>3, <2>4
  <2>6. ExportInv(c)'
    BY <1>2, <1>3, <2>2, <2>3, <2>4, <2>5 DEF ExportInv, Found
  <2> QED
    BY <1>1, <2>1, <2>3, <2>6, Quiet, GoesOn DEF ExportPhase
<1>6. CASE ReadBase(c)
  <2> DEFINE x == [call[c] EXCEPT !.base = remote]
  <2>1. Go(c, "exists") /\ call' = [call EXCEPT ![c] = x] /\ pc[c] = "base"
    BY <1>6 DEF ReadBase, Read
  <2>2. /\ x \in CallType /\ x.want = call[c].want /\ x.d = call[c].d /\ x.memory = call[c].memory
        /\ x.tip = call[c].tip /\ x.waiting = call[c].waiting /\ x.local = call[c].local /\ x.base = remote
    BY <1>2 DEF CallType
  <2> HIDE DEF x
  <2>3. pc'[c] = "exists" /\ call'[c] = x
    BY <1>2, <2>1 DEF Go
  <2>4. ExportInv(c)'
    BY <1>2, <1>3, <2>1, <2>2, <2>3 DEF ExportInv, Found
  <2> QED
    BY <1>1, <2>1, <2>2, <2>4, Quiet, GoesOn DEF ExportPhase
<1>7. CASE ReadHead(c)
  <2> DEFINE x == [call[c] EXCEPT !.commit = checkout.head]
  <2>1. Go(c, "push") /\ call' = [call EXCEPT ![c] = x] /\ pc[c] = "head"
    BY <1>7 DEF ReadHead, Read
  <2>2. /\ x \in CallType /\ x.want = call[c].want /\ x.d = call[c].d /\ x.memory = call[c].memory
        /\ x.tip = call[c].tip /\ x.waiting = call[c].waiting /\ x.base = call[c].base /\ x.commit = checkout.head
    BY <1>2 DEF CallType
  <2> HIDE DEF x
  <2>3. pc'[c] = "push" /\ call'[c] = x
    BY <1>2, <2>1 DEF Go
  <2>4. ExportInv(c)'
    BY <1>2, <1>3, <2>1, <2>2, <2>3 DEF ExportInv, Found
  <2> QED
    BY <1>1, <2>1, <2>2, <2>4, Quiet, GoesOn DEF ExportPhase
<1> QED
  BY <1>4, <1>5, <1>6, <1>7


(* A publication is verified: its reply is in the commit, unless somebody    *)
(* else has exported it at the same time.                                    *)
LEMMA VerifiedKeeps ==
  ASSUME StateInv, NEW c \in Command, pc[c] \in ExportPhase, NEW commit \in Histories,
         IsPrefix(commit, remote), call[c].want \notin mixed => call[c].want \in Entries(commit),
         Verified(c, commit), UNCHANGED <<stores, places>>
  PROVE  StateInv'
<1> DEFINE r == call[c].want
           x == [call[c] EXCEPT !.commit = commit, !.local = None, !.base = None, !.waiting = {}]
<1>1. /\ StoresOK /\ BoardInv /\ call \in [Command -> CallType] /\ call[c] \in CallType
      /\ pc \in [Command -> Phase] /\ r \in Request /\ commit # None
  BY Exports, NoneFacts
<1>2. /\ mlocal' = mlocal /\ mremote' = mremote /\ flying' = flying /\ task' = task
      /\ progress' = progress /\ checkout' = checkout /\ remote' = remote /\ inflight' = inflight
      /\ made' = made /\ done' = done /\ verified' = verified \union {r} /\ mixed' = mixed
      /\ Go(c, "load") /\ call' = [call EXCEPT ![c] = x]
  BY DEF Verified, stores, messages, places
<1>3. /\ x \in CallType /\ x.want = r /\ x.d = call[c].d /\ x.memory = call[c].memory
      /\ x.tip = call[c].tip /\ x.commit = commit
  BY <1>1 DEF CallType
<1> HIDE DEF x
<1>4. pc'[c] = "load" /\ call'[c] = x
  BY <1>1, <1>2 DEF Go
<1>5. StoresOK'
  BY <1>1, <1>2 DEF StoresOK
<1>6. Forward
  BY <1>1, <1>2, PrefixFacts DEF Forward, StoresOK
<1>7. BoardInv'
  <2>1. StoresAgree' /\ LedgerInv'
    BY <1>1, <1>2 DEF BoardInv, StoresAgree, LedgerInv
  <2>2. r \notin mixed => r \in Entries(remote)
    BY <1>1, PrefixFacts DEF StoresOK
  <2>3. progress[r].as # None => r \in verified
    BY <1>1 DEF BoardInv, StoresAgree
  <2>4. ExportedThere'
    BY <1>1, <1>2, <2>2, <2>3 DEF BoardInv, ExportedThere
  <2> QED
    BY <2>1, <2>4 DEF BoardInv
<1>8. ExportInv(c)'
  BY <1>1, <1>2, <1>3, <1>4 DEF ExportInv
<1> QED
  BY <1>2, <1>3, <1>5, <1>6, <1>7, <1>8, GoesOn DEF ExportPhase

LEMMA FindFileKeeps ==
  ASSUME StateInv, NEW c \in Command, FindFile(c)
  PROVE  StateInv'
<1>1. pc[c] = "exists" /\ pc[c] \in ExportPhase
  BY DEF FindFile, ExportPhase
<1>2. /\ StoresOK /\ ExportInv(c) /\ pc \in [Command -> Phase] /\ call \in [Command -> CallType]
      /\ call[c] \in CallType /\ call[c].want \in Request
  BY <1>1, Exports
<1>3. /\ call[c].local # None /\ call[c].waiting \subseteq Entries(call[c].local)
      /\ Found(c, call[c].local) /\ call[c].base # None /\ IsPrefix(call[c].base, remote)
      /\ call[c].local \in Histories
  BY <1>1, <1>2 DEF ExportInv, CallType
<1>4. CASE checkout.file[call[c].want] = "whole" /\ call[c].local = call[c].base
  <2>1. Verified(c, call[c].local) /\ UNCHANGED <<stores, places>>
    BY <1>4 DEF FindFile, Verified
  <2>2. call[c].want \notin mixed => call[c].want \in Entries(call[c].local)
    BY <1>3, <1>4 DEF Found
  <2> QED
    BY <1>1, <1>3, <1>4, <2>1, <2>2, VerifiedKeeps
<1>5. CASE ~(checkout.file[call[c].want] = "whole" /\ call[c].local = call[c].base)
  <2>1. UNCHANGED <<stores, places, history>>
    BY <1>5 DEF FindFile
  <2>2. CASE End(c)
    BY <2>1, <2>2, Quiet, Ends
  <2>3. CASE ~End(c)
    <3>1. /\ Go(c, "create") /\ call' = [call EXCEPT ![c] = call[c]] /\ call' = call
          /\ call[c].local = call[c].base
      BY <1>2, <1>5, <2>3 DEF FindFile
    <3>2. pc'[c] = "create"
      BY <1>2, <3>1 DEF Go
    <3>3. ExportInv(c)'
      BY <1>3, <3>1, <3>2 DEF ExportInv
    <3> QED
      BY <1>1, <1>2, <2>1, <3>1, <3>3, Quiet, GoesOn DEF ExportPhase
  <2> QED
    BY <2>2, <2>3
<1> QED
  BY <1>4, <1>5

LEMMA ObserveKeeps ==
  ASSUME StateInv, NEW c \in Command, Observe(c)
  PROVE  StateInv'
<1>1. pc[c] = "observe" /\ pc[c] \in ExportPhase
  BY DEF Observe, ExportPhase
<1>2. ExportInv(c) /\ remote \in Histories /\ call[c].commit # None
      /\ call[c].want \in Entries(call[c].commit)
  BY <1>1, Exports DEF ExportInv
<1>3. CASE Verified(c, call[c].commit) /\ call[c].commit = remote
  <2>1. UNCHANGED <<stores, places>> /\ IsPrefix(remote, remote)
    BY <1>1, <1>2, <1>3, PrefixFacts DEF Observe, Verified
  <2> QED
    BY <1>1, <1>2, <1>3, <2>1, VerifiedKeeps
<1>4. CASE End(c) /\ UNCHANGED <<stores, places, history>>
  BY <1>4, Quiet, Ends
<1> QED
  BY <1>2, <1>3, <1>4 DEF Observe, SeenThere

(* The checkout changes, by a command or an operator. *)
LEMMA CheckoutMoves ==
  ASSUME StateInv, checkout' \in Checkout, made' \in Nat,
         UNCHANGED <<stores, remote, inflight, history>>,
         IsPrefix(checkout.head, checkout'.head),
         checkout.index \subseteq checkout'.index \union Entries(checkout'.head)
  PROVE  StoresOK' /\ BoardInv' /\ Forward
<1>1. /\ mlocal' = mlocal /\ mremote' = mremote /\ flying' = flying /\ task' = task
      /\ progress' = progress /\ remote' = remote /\ inflight' = inflight
      /\ done' = done /\ verified' = verified /\ mixed' = mixed /\ StoresOK
  BY DEF stores, messages, history, StateInv
<1>2. StoresOK'
  BY <1>1 DEF StoresOK
<1>3. /\ IsPrefix(remote, remote') /\ Entries(checkout.head) \subseteq Entries(checkout'.head)
  BY <1>1, PrefixFacts DEF StoresOK, Checkout
<1>4. \A i \in inflight' : IsPrefix(i.from, i.to)
  BY <1>1 DEF StateInv, BoardInv, LedgerInv
<1>5. BoardInv'
  BY <1>1, <1>2, <1>3, <1>4, BoardStays
<1> QED
  BY <1>1, <1>2, <1>3, <1>5 DEF Forward

LEMMA CommittedFacts ==
  ASSUME StateInv, Committed
  PROVE  /\ checkout' \in Checkout /\ made' \in Nat /\ checkout'.file = checkout.file
         /\ IsPrefix(checkout.head, checkout'.head)
         /\ Entries(checkout'.head) = Entries(checkout.head) \union checkout.index
<1> DEFINE h == Append(checkout.head, [files |-> checkout.index, n |-> made])
<1>1. checkout \in Checkout /\ made \in Nat /\ checkout.head \in Histories /\ checkout.index \in SUBSET Files
  BY DEF StateInv, StoresOK, Checkout
<1>2. /\ h \in Histories /\ IsPrefix(checkout.head, h)
      /\ Entries(h) = Entries(checkout.head) \union checkout.index
  BY <1>1, AppendFacts
<1>3. checkout' = [checkout EXCEPT !.head = h, !.index = {}] /\ made' = made + 1
  BY DEF Committed
<1> HIDE DEF h
<1>4. /\ checkout' \in Checkout /\ checkout'.head = h /\ checkout'.file = checkout.file
  BY <1>1, <1>2, <1>3 DEF Checkout
<1> QED
  BY <1>1, <1>2, <1>3, <1>4


LEMMA FilesKeep ==
  ASSUME StateInv, NEW c \in Command, CreateFile(c) \/ WriteFile(c) \/ AddFile(c) \/ Commit(c)
  PROVE  StateInv'
<1> DEFINE r == call[c].want
<1>1. pc[c] \in {"create", "write", "add", "commit"} /\ pc[c] \in ExportPhase
  BY DEF CreateFile, WriteFile, AddFile, Commit, ExportPhase
<1>2. /\ StoresOK /\ ExportInv(c) /\ pc \in [Command -> Phase] /\ call \in [Command -> CallType]
      /\ call[c] \in CallType /\ r \in Request /\ checkout \in Checkout /\ made \in Nat
      /\ IsPrefix(checkout.head, checkout.head)
  BY <1>1, Exports, PrefixFacts DEF StoresOK
<1>3. call[c].base # None /\ call[c].waiting \subseteq Entries(call[c].base)
  BY <1>1, <1>2 DEF ExportInv
<1>4. /\ UNCHANGED <<stores, remote, inflight, history>> /\ mixed' = mixed
      /\ verified' = verified
  BY DEF CreateFile, WriteFile, AddFile, Commit, history
<1>5. ASSUME NEW phase \in {"write", "add", "commit", "head"}, Go(c, phase), call' = call,
             checkout' \in Checkout, made' \in Nat, IsPrefix(checkout.head, checkout'.head),
             checkout.index \subseteq checkout'.index \union Entries(checkout'.head),
             \A q \in Request : q # r => checkout'.file[q] = checkout.file[q],
             phase = "commit" => r \in checkout'.index \union Entries(checkout'.head),
             phase = "head" => r \in Entries(checkout'.head)
      PROVE  StateInv'
  <2>1. StoresOK' /\ BoardInv' /\ Forward
    BY <1>4, <1>5, CheckoutMoves
  <2>2. pc'[c] = phase /\ call' = [call EXCEPT ![c] = call[c]]
    BY <1>2, <1>5 DEF Go
  <2>3. ExportInv(c)'
    BY <1>3, <1>5, <2>2 DEF ExportInv
  <2> QED
    <3>1. phase \in ExportPhase /\ pc[c] \in ExportPhase /\ call[c] \in CallType
      BY <1>1, <1>2, <1>5 DEF ExportPhase
    <3>2. \A q \in Request : q # call[c].want => checkout'.file[q] = checkout.file[q]
      BY <1>5
    <3> QED
      BY <1>5, <2>1, <2>2, <2>3, <3>1, <3>2, GoesOn
<1>6. ASSUME End(c), checkout' = checkout, made' = made
      PROVE  StateInv'
  <2>1. UNCHANGED <<stores, places, history>>
    BY <1>4, <1>6 DEF places
  <2> QED
    BY <1>6, <2>1, Quiet, Ends
<1>7. CASE CreateFile(c)
  <2>1. made' = made
    BY <1>7 DEF CreateFile
  <2>2. CASE checkout.file[r] = "absent"
    <3>1. checkout' = [checkout EXCEPT !.file[r] = "torn"] /\ Go(c, "write") /\ call' = call
      BY <1>7, <2>2 DEF CreateFile
    <3>2. /\ checkout' \in Checkout /\ checkout'.head = checkout.head /\ checkout'.index = checkout.index
          /\ \A q \in Request : q # r => checkout'.file[q] = checkout.file[q]
      BY <1>2, <3>1 DEF Checkout
    <3> QED
      BY <1>2, <1>5, <2>1, <3>1, <3>2
  <2>3. CASE checkout.file[r] = "whole"
    <3>1. checkout' = checkout /\ Go(c, "add") /\ call' = call
      BY <1>7, <2>3 DEF CreateFile
    <3> QED
      BY <1>2, <1>5, <2>1, <3>1
  <2>4. CASE checkout.file[r] \notin {"absent", "whole"}
    BY <1>6, <1>7, <2>1, <2>4 DEF CreateFile
  <2> QED
    BY <2>2, <2>3, <2>4
<1>8. CASE WriteFile(c)
  <2>1. checkout' = [checkout EXCEPT !.file[r] = "whole"] /\ Go(c, "add") /\ call' = call /\ made' = made
    BY <1>8 DEF WriteFile
  <2>2. /\ checkout' \in Checkout /\ checkout'.head = checkout.head /\ checkout'.index = checkout.index
        /\ \A q \in Request : q # r => checkout'.file[q] = checkout.file[q]
    BY <1>2, <2>1 DEF Checkout
  <2> QED
    BY <1>2, <1>5, <2>1, <2>2
<1>9. CASE AddFile(c)
  <2> DEFINE staged == checkout.index \union ({r} \ Entries(checkout.head))
  <2>1. checkout' = [checkout EXCEPT !.index = staged] /\ Go(c, "commit") /\ call' = call /\ made' = made
    BY <1>9 DEF AddFile
  <2>2. staged \subseteq Files /\ checkout.index \subseteq staged /\ r \in staged \union Entries(checkout.head)
    BY <1>2 DEF Checkout, Files
  <2> HIDE DEF staged
  <2>3. /\ checkout' \in Checkout /\ checkout'.head = checkout.head /\ checkout'.index = staged
        /\ checkout'.file = checkout.file
    BY <1>2, <2>1, <2>2 DEF Checkout
  <2> QED
    BY <1>2, <1>5, <2>1, <2>2, <2>3
<1>10. CASE Commit(c)
  <2>1. CASE checkout.index = {}
    BY <1>6, <1>10, <2>1 DEF Commit
  <2>2. CASE checkout.index # {}
    <3>1. Committed /\ Go(c, "head") /\ call' = call /\ pc[c] = "commit"
      BY <1>10, <2>2 DEF Commit
    <3>2. /\ checkout' \in Checkout /\ made' \in Nat /\ checkout'.file = checkout.file
          /\ IsPrefix(checkout.head, checkout'.head)
          /\ Entries(checkout'.head) = Entries(checkout.head) \union checkout.index
      BY <3>1, CommittedFacts
    <3>3. r \in checkout.index \union Entries(checkout.head)
      BY <1>2, <3>1 DEF ExportInv
    <3>4. /\ r \in Entries(checkout'.head) /\ checkout.index \subseteq checkout'.index \union Entries(checkout'.head)
          /\ \A q \in Request : q # r => checkout'.file[q] = checkout.file[q]
      BY <3>2, <3>3
    <3> QED
      BY <1>5, <3>1, <3>2, <3>4
  <2> QED
    BY <2>1, <2>2
<1> QED
  BY <1>7, <1>8, <1>9, <1>10

(* The coordination remote moves forward, or a push is on its way to it. *)
LEMMA RemoteMoves ==
  ASSUME StateInv, remote' \in Histories, IsPrefix(remote, remote'), made' \in Nat,
         inflight' \subseteq [from : Histories, to : Histories], \A i \in inflight' : IsPrefix(i.from, i.to),
         UNCHANGED <<stores, checkout, history>>
  PROVE  /\ StoresOK' /\ BoardInv' /\ Forward /\ \A q \in Request : checkout'.file[q] = checkout.file[q]
<1>1. /\ mlocal' = mlocal /\ mremote' = mremote /\ flying' = flying /\ task' = task
      /\ progress' = progress /\ checkout' = checkout
      /\ done' = done /\ verified' = verified /\ mixed' = mixed /\ StoresOK
  BY DEF stores, messages, history, StateInv
<1>2. StoresOK'
  BY <1>1 DEF StoresOK
<1>3. BoardInv'
  BY <1>1, <1>2, BoardStays
<1> QED
  BY <1>1, <1>2, <1>3, PrefixFacts DEF Forward, StoresOK, Checkout

LEMMA PushKeeps ==
  ASSUME StateInv, NEW c \in Command, Push(c)
  PROVE  StateInv'
<1> DEFINE x == [call[c] EXCEPT !.local = None, !.base = None, !.waiting = {}]
<1>1. pc[c] = "push" /\ pc[c] \in ExportPhase
  BY DEF Push, ExportPhase
<1>2. /\ StoresOK /\ ExportInv(c) /\ pc \in [Command -> Phase] /\ call \in [Command -> CallType]
      /\ call[c] \in CallType /\ remote \in Histories /\ IsPrefix(remote, remote)
      /\ inflight \subseteq [from : Histories, to : Histories] /\ made \in Nat
      /\ \A i \in inflight : IsPrefix(i.from, i.to)
  BY <1>1, Exports, PrefixFacts DEF StoresOK, BoardInv, LedgerInv
<1>3. /\ call[c].commit # None /\ call[c].want \in Entries(call[c].commit) /\ call[c].commit \in Histories
  BY <1>1, <1>2 DEF ExportInv, CallType
<1>4. /\ UNCHANGED <<stores, checkout, history>> /\ made' = made
      /\ Go(c, "observe") /\ call' = [call EXCEPT ![c] = x]
  BY DEF Push
<1>5. /\ x \in CallType /\ x.want = call[c].want /\ x.d = call[c].d /\ x.memory = call[c].memory
      /\ x.tip = call[c].tip /\ x.commit = call[c].commit
  BY <1>2 DEF CallType
<1> HIDE DEF x
<1>6. /\ remote' \in Histories /\ IsPrefix(remote, remote')
      /\ inflight' \subseteq [from : Histories, to : Histories] /\ \A i \in inflight' : IsPrefix(i.from, i.to)
  <2>1. CASE remote' = call[c].commit /\ IsPrefix(remote, call[c].commit) /\ inflight' = inflight
    BY <1>2, <1>3, <2>1
  <2>2. CASE remote' = remote /\ inflight' = inflight
    BY <1>2, <2>2
  <2>3. CASE /\ IsPrefix(remote, call[c].commit) /\ remote' = remote
             /\ inflight' = inflight \union {[from |-> remote, to |-> call[c].commit]}
    BY <1>2, <1>3, <2>3
  <2> QED
    BY <2>1, <2>2, <2>3 DEF Push
<1>7. /\ StoresOK' /\ BoardInv' /\ Forward /\ \A q \in Request : checkout'.file[q] = checkout.file[q]
  BY <1>2, <1>4, <1>6, RemoteMoves
<1>8. pc'[c] = "observe" /\ call'[c] = x
  BY <1>2, <1>4 DEF Go
<1>9. ExportInv(c)'
  BY <1>3, <1>5, <1>8 DEF ExportInv
<1> QED
  BY <1>1, <1>4, <1>5, <1>7, <1>9, GoesOn DEF ExportPhase


(* A call ends with its result; its task's progress may have been closed.    *)
LEMMA ResultKeeps ==
  ASSUME StateInv, NEW c \in Command, pc[c] \in {"load", "persist"}, NEW recorded,
         Result(c, recorded), NEW p \in Progress, progress' = [progress EXCEPT ![call[c].want] = p],
         p = progress[call[c].want] \/ p = Exported(progress[call[c].want], call[c].commit),
         recorded => p.as # None,
         UNCHANGED <<messages, task, places, verified, mixed>>
  PROVE  StateInv'
<1> DEFINE r == call[c].want
<1>1. /\ pc[c] \in ExportPhase /\ call[c] \in CallType /\ r \in Request
      /\ StoresOK /\ BoardInv /\ TickInv(c) /\ ExportInv(c) /\ InExport(c) /\ Exporting(c)
  BY Exports DEF ExportPhase
<1>2. /\ call[c].commit # None /\ call[c].commit \in Histories /\ IsPrefix(call[c].commit, remote)
      /\ r \in verified /\ (r \notin mixed => r \in Entries(call[c].commit))
  BY <1>1 DEF ExportInv, CallType
<1>3. /\ mlocal' = mlocal /\ mremote' = mremote /\ flying' = flying /\ task' = task
      /\ checkout' = checkout /\ remote' = remote /\ inflight' = inflight
      /\ made' = made /\ verified' = verified /\ mixed' = mixed /\ End(c)
      /\ done' = IF CompleteExport(c, recorded) /\ call[c].d \in Closed THEN done \union {r} ELSE done
  BY DEF Result, messages, places, Closed
<1>4. /\ progress'[r] = p /\ \A q \in Request : q # r => progress'[q] = progress[q]
      /\ progress' \in [Request -> Progress]
  BY <1>1 DEF StoresOK
<1>5. /\ p.as = progress[r].as \/ p.as = call[c].commit
      /\ p.stage = progress[r].stage \/ (progress[r].stage = "accepted" /\ p.stage = "exported")
      /\ progress[r].as # None => p.as # None
  BY <1>2 DEF Exported
<1>6. StoresOK'
  BY <1>1, <1>3, <1>4 DEF StoresOK
<1>7. Forward /\ \A q \in Request : checkout'.file[q] = checkout.file[q]
  BY <1>1, <1>3, PrefixFacts DEF Forward, StoresOK
<1>8. task[r].d # "unseen"
  BY <1>1 DEF TickInv
<1>9. done' # done => task[r].d \in Closed /\ task[r].memory /\ <<"reply", r>> \in mremote /\ p.as # None
  BY <1>1, <1>3 DEF TickInv, CompleteExport
<1> HIDE DEF r
<1>10. StoresAgree'
  BY <1>1, <1>2, <1>3, <1>4, <1>5 DEF BoardInv, StoresAgree
<1>11. LedgerInv'
  BY <1>1, <1>3, <1>4, <1>5, <1>8, <1>9 DEF BoardInv, LedgerInv, StoresOK
<1>12. ExportedThere'
  <2>1. ASSUME NEW q \in verified \ mixed, q # r
        PROVE  /\ q \in Entries(remote)
               /\ progress'[q].as # None => q \in Entries(progress'[q].as) /\ IsPrefix(progress'[q].as, remote)
    BY <1>1, <1>4, <2>1 DEF BoardInv, ExportedThere, StoresOK
  <2>2. r \notin mixed => /\ r \in Entries(remote)
                          /\ p.as # None => r \in Entries(p.as) /\ IsPrefix(p.as, remote)
    BY <1>1, <1>2, <1>5 DEF BoardInv, ExportedThere
  <2> QED
    BY <1>3, <1>4, <2>1, <2>2 DEF ExportedThere
<1> QED
  BY <1>3, <1>6, <1>7, <1>10, <1>11, <1>12, Ends DEF BoardInv

LEMMA ProgressKeeps ==
  ASSUME StateInv, NEW c \in Command, LoadProgress(c) \/ PersistProgress(c)
  PROVE  StateInv'
<1> DEFINE r == call[c].want
<1>1. /\ pc[c] \in {"load", "persist"} /\ pc[c] \in ExportPhase
  BY DEF LoadProgress, PersistProgress, ExportPhase
<1>2. /\ StoresOK /\ BoardInv /\ ExportInv(c) /\ pc \in [Command -> Phase] /\ call \in [Command -> CallType]
      /\ call[c] \in CallType /\ r \in Request /\ progress \in [Request -> Progress] /\ progress[r] \in Progress
      /\ progress = [progress EXCEPT ![r] = progress[r]]
  BY <1>1, Exports DEF StoresOK
<1>3. /\ call[c].commit # None /\ call[c].commit \in Histories /\ IsPrefix(call[c].commit, remote)
      /\ r \in verified /\ (r \notin mixed => r \in Entries(call[c].commit))
  BY <1>1, <1>2 DEF ExportInv, CallType
<1>4. CASE LoadProgress(c)
  <2>1. /\ UNCHANGED <<stores, places, verified, mixed>> /\ UNCHANGED <<messages, task>> /\ progress' = progress
    BY <1>4 DEF LoadProgress, stores
  <2>2. CASE progress[r].stage = "none"
    <3>1. Result(c, FALSE)
      BY <1>4, <2>2 DEF LoadProgress
    <3> QED
      BY <1>1, <1>2, <2>1, <3>1, ResultKeeps
  <2>3. CASE progress[r].stage # "none" /\ progress[r].stage = "exported" /\ progress[r].as = call[c].commit
    <3>1. Result(c, TRUE)
      BY <1>4, <2>3 DEF LoadProgress
    <3> QED
      BY <1>1, <1>2, <1>3, <2>1, <2>3, <3>1, ResultKeeps
  <2>4. CASE progress[r].stage # "none" /\ ~(progress[r].stage = "exported" /\ progress[r].as = call[c].commit)
    <3> DEFINE x == [call[c] EXCEPT !.seen = progress[r]]
    <3>1. Go(c, "persist") /\ call' = [call EXCEPT ![c] = x] /\ UNCHANGED <<stores, places, history>>
          /\ pc[c] = "load"
      BY <1>4, <2>4 DEF LoadProgress, history
    <3>2. /\ x \in CallType /\ x.want = r /\ x.d = call[c].d /\ x.memory = call[c].memory
          /\ x.tip = call[c].tip /\ x.commit = call[c].commit /\ x.seen = progress[r]
      BY <1>2 DEF CallType
    <3> HIDE DEF x
    <3>3. pc'[c] = "persist" /\ call'[c] = x
      BY <1>2, <3>1 DEF Go
    <3>4. /\ verified' = verified /\ mixed' = mixed /\ remote' = remote
      BY <3>1 DEF history, places
    <3>5. ExportInv(c)'
      BY <1>3, <3>2, <3>3, <3>4 DEF ExportInv
    <3> QED
      BY <1>1, <3>1, <3>2, <3>5, Quiet, GoesOn DEF ExportPhase
  <2> QED
    BY <2>2, <2>3, <2>4
<1>5. CASE PersistProgress(c)
  <2>1. UNCHANGED <<messages, task, places, verified, mixed>>
    BY <1>5 DEF PersistProgress
  <2> DEFINE p == Exported(progress[r], call[c].commit)
  <2>2. p \in Progress /\ p.as # None
    BY <1>2, <1>3 DEF Exported, Progress
  <2> HIDE DEF p
  <2>3. \/ progress' = [progress EXCEPT ![r] = p] /\ Result(c, TRUE)
        \/ progress' = progress /\ Result(c, FALSE)
        \/ progress' = [progress EXCEPT ![r] = p] /\ Result(c, FALSE)
    BY <1>5 DEF PersistProgress, p
  <2>4. CASE progress' = [progress EXCEPT ![r] = p] /\ (Result(c, TRUE) \/ Result(c, FALSE))
    BY <1>1, <1>2, <2>1, <2>2, <2>4, ResultKeeps DEF p
  <2>5. CASE progress' = progress /\ Result(c, FALSE)
    BY <1>1, <1>2, <2>1, <2>5, ResultKeeps
  <2> QED
    BY <2>3, <2>4, <2>5
<1> QED
  BY <1>4, <1>5


-----------------------------------------------------------------------------
(* Operators and others *)

LEMMA Outside ==
  ASSUME StateInv, UNCHANGED <<pc, call>>, StoresOK', BoardInv', Forward,
         \/ \A r \in Request : checkout'.file[r] = checkout.file[r]
         \/ \A c \in Command : ~Exporting(c)
  PROVE  StateInv'
<1>1. pc' = pc /\ call' = call
  OBVIOUS
<1>2. CallsOK'
  BY <1>1 DEF StateInv, CallsOK
<1>3. ASSUME NEW o \in Command
      PROVE  TickInv(o)' /\ ExportInv(o)'
  <2>1. Exporting(o) => checkout'.file[call[o].want] = checkout.file[call[o].want]
    BY DEF StateInv, CallsOK, Exporting
  <2> QED
    BY <1>1, <2>1, TickStays, ExportStays DEF Forward
<1>4. \A o \in Command : /\ InExport(o)' => InExport(o) /\ call'[o].want = call[o].want
                         /\ Exporting(o)' => Exporting(o)
  BY <1>1 DEF InExport, Exporting
<1>5. ApartInv'
  BY <1>4, StaysApart DEF Forward
<1> QED
  BY <1>2, <1>3, <1>5 DEF StateInv

LEMMA OperatorsKeep ==
  ASSUME StateInv, OperatorStages \/ OperatorCommits \/ OthersPush \/ MessagesLand \/ PushLands
  PROVE  StateInv'
<1>1. /\ StoresOK /\ checkout \in Checkout /\ made \in Nat /\ remote \in Histories
      /\ inflight \subseteq [from : Histories, to : Histories]
      /\ \A i \in inflight : IsPrefix(i.from, i.to)
      /\ IsPrefix(checkout.head, checkout.head) /\ IsPrefix(remote, remote)
  BY PrefixFacts DEF StateInv, StoresOK, Checkout, BoardInv, LedgerInv
<1>2. CASE OperatorStages
  <2>1. /\ UNCHANGED <<stores, remote, inflight, history>> /\ UNCHANGED <<pc, call>> /\ made' = made
        /\ checkout' = [checkout EXCEPT !.index = @ \union {Other}]
    BY <1>2 DEF OperatorStages
  <2>2. /\ checkout' \in Checkout /\ checkout'.head = checkout.head /\ checkout'.file = checkout.file
        /\ checkout.index \subseteq checkout'.index
    BY <1>1, <2>1 DEF Checkout, Files
  <2>3. StoresOK' /\ BoardInv' /\ Forward
    BY <1>1, <2>1, <2>2, CheckoutMoves
  <2> QED
    BY <2>1, <2>2, <2>3, Outside
<1>3. CASE OperatorCommits
  <2>1. /\ UNCHANGED <<stores, remote, inflight, history>> /\ UNCHANGED <<pc, call>> /\ Committed
    BY <1>3 DEF OperatorCommits
  <2>2. /\ checkout' \in Checkout /\ made' \in Nat /\ checkout'.file = checkout.file
        /\ IsPrefix(checkout.head, checkout'.head)
        /\ checkout.index \subseteq checkout'.index \union Entries(checkout'.head)
    BY <2>1, CommittedFacts
  <2>3. StoresOK' /\ BoardInv' /\ Forward
    BY <2>1, <2>2, CheckoutMoves
  <2> QED
    BY <2>1, <2>2, <2>3, Outside
<1>4. CASE OthersPush
  <2>1. /\ UNCHANGED <<stores, checkout, history>> /\ UNCHANGED <<pc, call>>
        /\ remote' = Append(remote, [files |-> {Other}, n |-> made]) /\ made' = made + 1 /\ inflight' = inflight
        /\ {Other} \in SUBSET Files
    BY <1>4 DEF OthersPush, Files
  <2>2. remote' \in Histories /\ IsPrefix(remote, remote')
    BY <1>1, <2>1, AppendFacts
  <2>3. /\ StoresOK' /\ BoardInv' /\ Forward /\ \A q \in Request : checkout'.file[q] = checkout.file[q]
    BY <1>1, <2>1, <2>2, RemoteMoves
  <2> QED
    BY <2>1, <2>3, Outside
<1>5. CASE PushLands
  <2>1. PICK i \in inflight : /\ inflight' = inflight \ {i}
                              /\ remote' \in {remote} \union (IF remote = i.from THEN {i.to} ELSE {})
    BY <1>5 DEF PushLands
  <2>2. UNCHANGED <<stores, checkout, history>> /\ UNCHANGED <<pc, call>> /\ made' = made
    BY <1>5 DEF PushLands
  <2>3. remote' \in Histories /\ IsPrefix(remote, remote')
    BY <1>1, <2>1
  <2>4. /\ StoresOK' /\ BoardInv' /\ Forward /\ \A q \in Request : checkout'.file[q] = checkout.file[q]
    BY <1>1, <2>1, <2>2, <2>3, RemoteMoves
  <2> QED
    BY <2>2, <2>4, Outside
<1>6. CASE MessagesLand
  <2>1. /\ flying' = FALSE /\ mremote' \in {mremote, mlocal} /\ mlocal' = mlocal
        /\ UNCHANGED <<task, progress, history>> /\ UNCHANGED <<pc, call>>
        /\ task' = task /\ progress' = progress /\ done' = done /\ verified' = verified /\ mixed' = mixed
        /\ checkout' = checkout /\ remote' = remote /\ inflight' = inflight /\ made' = made
    BY <1>6 DEF MessagesLand, places, history
  <2>2. mremote \subseteq mremote' /\ StoresOK'
    BY <1>1, <2>1 DEF StoresOK
  <2>3. BoardInv'
    BY <1>1, <2>1, <2>2, BoardStays
  <2>4. Forward
    BY <1>1, <2>1, <2>2 DEF Forward
  <2> QED
    BY <2>1, <2>2, <2>3, <2>4, Outside
<1> QED
  BY <1>2, <1>3, <1>4, <1>5, <1>6

(* The checkout is tidied while nobody exports. *)
LEMMA TidyKeeps ==
  ASSUME StateInv, OperatorTidies
  PROVE  StateInv'
<1>1. /\ UNCHANGED <<stores, remote, inflight, made, history>> /\ pc' = pc /\ call' = call
      /\ mlocal' = mlocal /\ mremote' = mremote /\ flying' = flying /\ task' = task
      /\ progress' = progress /\ remote' = remote /\ inflight' = inflight /\ made' = made
      /\ done' = done /\ verified' = verified /\ mixed' = mixed
      /\ \A c \in Command : ~Exporting(c)
  BY DEF OperatorTidies, stores, messages, history
<1>2. /\ StoresOK /\ IsPrefix(remote, remote)
      /\ \A i \in inflight' : IsPrefix(i.from, i.to)
  BY <1>1, PrefixFacts DEF StateInv, StoresOK, BoardInv, LedgerInv
<1>3. checkout' \in Checkout
  BY <1>2 DEF OperatorTidies, Checkout, StoresOK
<1>4. StoresOK'
  BY <1>1, <1>2, <1>3 DEF StoresOK
<1>5. BoardInv'
  BY <1>1, <1>2, <1>4, BoardStays
<1>6. \A o \in Command : ~Exporting(o)' /\ (InExport(o)' <=> InExport(o))
  BY <1>1 DEF Exporting, InExport
<1>7. ApartInv'
  BY <1>1, <1>6, StaysApart
<1>8. ASSUME NEW o \in Command
      PROVE  TickInv(o)' /\ ExportInv(o)'
  <2>1. pc'[o] \notin ExportPhase
    BY <1>6 DEF Exporting, ExportPhase
  <2>2. ExportInv(o)'
    BY <2>1 DEF ExportInv, ExportPhase
  <2> QED
    BY <1>1, <2>2, TickStays
<1>9. CallsOK'
  BY <1>1 DEF StateInv, CallsOK
<1> QED
  BY <1>4, <1>5, <1>7, <1>8, <1>9 DEF StateInv



-----------------------------------------------------------------------------
(* The theorems *)

LEMMA CommandInit == Init => StateInv
<1> SUFFICES ASSUME Init
             PROVE  StateInv
  OBVIOUS
<1>1. /\ \A c \in Command : pc[c] = "ready" /\ call[c] = NoCall
      /\ \A c \in Command : ~Exporting(c) /\ ~InExport(c)
  BY DEF Init, Exporting, InExport
<1>2. CallsOK
  BY <1>1, NoneFacts DEF Init, CallsOK, Phase
<1>3. StoresOK
  BY NoneFacts DEF Init, StoresOK, Ledger, Progress, Checkout
<1>4. BoardInv
  BY DEF Init, BoardInv, StoresAgree, ExportedThere, LedgerInv, Closed
<1>5. ApartInv /\ \A c \in Command : TickInv(c) /\ ExportInv(c)
  BY <1>1, NoneFacts DEF ApartInv, TickInv, ExportInv
<1> QED
  BY <1>2, <1>3, <1>4, <1>5 DEF StateInv

LEMMA CommandStepKeeps == StateInv /\ [Next]_vars => StateInv'
<1> SUFFICES ASSUME StateInv, [Next]_vars
             PROVE  StateInv'
  OBVIOUS
<1>1. ASSUME NEW c \in Command, Tick(c)
      PROVE  StateInv'
  BY <1>1, ImportKeeps, TickKeeps DEF Tick
<1>2. ASSUME NEW c \in Command, Export(c)
      PROVE  StateInv'
  BY <1>2, ReadsKeep, FindFileKeeps, FilesKeep, PushKeeps, ObserveKeeps, ProgressKeeps DEF Export
<1>3. ASSUME NEW c \in Command, CommandStep(c)
      PROVE  StateInv'
  BY <1>1, <1>2, <1>3, ImportKeeps, RefreshKeeps DEF CommandStep
<1>4. CASE UNCHANGED vars
  <2>1. UNCHANGED <<stores, places, history>> /\ UNCHANGED <<pc, call>>
    BY <1>4 DEF vars
  <2> QED
    BY <2>1, Quiet, Outside
<1> QED
  BY <1>3, <1>4, OperatorsKeep, TidyKeeps DEF Next

(* Every reachable state of the command, its stores and its checkout.        *)
THEOREM CommandConsistent == Spec => []StateInv
BY CommandInit, CommandStepKeeps, PTL DEF Spec

(* Types; a tick runs only for an import that is at the destination; and the *)
(* ledger of the reader and the development progress never contradict each   *)
(* other.                                                                    *)
THEOREM CommandsAgree == Spec => []CommandInv
<1>1. ASSUME StateInv
      PROVE  CommandInv
  <2>1. TypeOK
    BY <1>1 DEF StateInv, StoresOK, CallsOK, TypeOK, Ledger, Progress, Checkout
  <2>2. ImportPublished
    BY <1>1 DEF StateInv, TickInv, ImportPublished
  <2> QED
    BY <1>1, <2>1, <2>2 DEF StateInv, BoardInv, CommandInv
<1> QED
  BY <1>1, CommandConsistent, PTL

(* A reply that was verified is at the coordination remote and stays there,  *)
(* in the commit that the progress names.  Nothing is said of a reply that   *)
(* two commands were exporting at once (mixed): the second may have found    *)
(* the file before its commit was pushed (development.py:2999).              *)
THEOREM ExportStands == Spec => []ExportedThere
<1>1. StateInv => ExportedThere
  BY DEF StateInv, BoardInv
<1> QED
  BY <1>1, CommandConsistent, PTL

(* development.completed and development.failed are told only of a task that *)
(* the reader has closed with its memory, whose reply is at both             *)
(* destinations and whose progress says so.                                  *)
THEOREM ResultsTruthful == Spec => []ResultTruthful
<1>1. ASSUME StateInv
      PROVE  ResultTruthful
  <2> SUFFICES ASSUME NEW r \in done
               PROVE  /\ task[r].d \in {"completed", "failed"} /\ task[r].memory
                      /\ <<"reply", r>> \in mremote
                      /\ r \in Entries(remote)
                      /\ progress[r].as # None
    BY DEF ResultTruthful
  <2>1. /\ r \in Request /\ task[r].d \in Closed /\ task[r].memory
        /\ <<"reply", r>> \in mremote /\ progress[r].as # None /\ r \notin mixed
    BY <1>1 DEF StateInv, StoresOK, BoardInv, LedgerInv
  <2>2. r \in verified
    BY <1>1, <2>1 DEF StateInv, BoardInv, StoresAgree
  <2>3. r \in Entries(remote)
    BY <1>1, <2>1, <2>2 DEF StateInv, BoardInv, ExportedThere
  <2> QED
    BY <2>1, <2>3 DEF Closed
<1> QED
  BY <1>1, CommandConsistent, PTL

(* A push carries nothing that waited in the checkout when the command       *)
(* looked, staged or committed by whomever.                                  *)
THEOREM PushesOwnWork == Spec => []OwnWork
<1>1. StateInv => OwnWork
  BY DEF StateInv, ExportInv, OwnWork
<1> QED
  BY <1>1, CommandConsistent, PTL
=============================================================================
