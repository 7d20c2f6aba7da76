------------------------ MODULE InstanceMemoryProofs ------------------------
(***************************************************************************)
(* The invariants of InstanceMemory and its refinement of MemoryLineage,   *)
(* for all values of the constants: any number of checkouts, of operations *)
(* and of pushes in flight.  They rest on one fact: every ref of the       *)
(* memory only ever grows, so what was an ancestor of it stays one.        *)
(***************************************************************************)
EXTENDS InstanceMemory, SequenceTheorems, TLAPS

(* What a commit looks like: at most MaxCommits of the Instance's own, and   *)
(* at most n of outsiders after them.                                        *)
Author == Checkout \union {Outsider}
Own(s, k) ==
  /\ \A i \in 1 .. k : s[i] \in Checkout
  /\ \E c \in Checkout : k =< MaxCommits[c]
Shape(s, n) ==
  /\ s \in Seq(Author)
  /\ \E k \in 0 .. Len(s) :
       /\ Own(s, k) /\ Len(s) - k =< n
       /\ \A i \in (k + 1) .. Len(s) : s[i] = Outsider

PushRequest == [from : Checkout, old : Commit, new : Commit]
Publishing == {"pushing", "awaiting", "verifying"}
Recovering == {"claiming", "rereading", "fetching", "quarantining", "attaching",
               "cleaning", "reporting"}
CallType ==
  [pc : {"idle"} \union Publishing \union Recovering, target : Commit, expected : Commit,
   id : Operation \union {None}, sent : PushRequest \union {None},
   answer : {"landed", "rejected", None},
   how : {"failed", "remote_verified", "uncertain", None}]
ToldType ==
  [by : Checkout \union {None}, how : {"saved", "failed", "remote_verified", "uncertain", None},
   target : Commit, id : Operation \union {None}, retained : BOOLEAN \union {None},
   record : {"succeeded", "failed", None}]

TypeInv ==
  /\ local \in [Checkout -> Memory] /\ Shape(remote, intruded)
  /\ owner \in [Checkout -> [Key -> {None, "marker", "foreign"}]]
  /\ quarantine \in [Checkout -> [Key -> {None, "state", "foreign"}]]
  /\ flying \subseteq PushRequest
  /\ call \in [Checkout -> CallType] /\ told \in ToldType
  /\ intruded \in 0 .. MaxIntrusions /\ replaced \in 0 .. MaxReplaced

(* A push that is under way takes the remote on to what its checkout has.    *)
FlyingInv ==
  \A p \in flying : /\ Lineage(p.new) /\ IsStrictPrefix(p.old, p.new)
                    /\ IsPrefix(p.new, local[p.from])

(* What a call has found out stays so while it is in hand.                   *)
CallOf(c) ==
  /\ call[c].pc \in Publishing => Lineage(Target(c)) /\ IsPrefix(Target(c), local[c])
  /\ call[c].pc \in Recovering =>
       call[c].id \in Operation /\ Target(c) # Absent /\ IsPrefix(Target(c), remote)
  /\ At(c, "cleaning") \/ (At(c, "reporting") /\ call[c].how = "remote_verified") =>
       IsPrefix(Target(c), local[c])
  /\ At(c, "idle") => call[c].id = None
CallInv == \A c \in Checkout : CallOf(c)

(* What was told is of a checkout where no call is in hand since.            *)
ToldInv ==
  /\ told.how = "remote_verified" \/ told.retained = FALSE =>
       told.by \in Checkout /\ At(told.by, "idle")
  /\ told.retained = FALSE => told.id \in Operation

MemoryInv ==
  /\ TypeInv /\ FlyingInv /\ CallInv /\ ToldInv
  /\ VerifiedStands /\ Resumable /\ RetainedTold
-----------------------------------------------------------------------------
(* Prefixes *)

(* A prefix, element by element. *)
LEMMA PrefixIs ==
  ASSUME NEW S, NEW s \in Seq(S), NEW t \in Seq(S)
  PROVE  IsPrefix(s, t) <=> Len(s) =< Len(t) /\ \A i \in 1 .. Len(s) : s[i] = t[i]
<1>1. CASE Len(s) =< Len(t)
  <2> DEFINE u == SubSeq(s, 1, Len(s))
             v == SubSeq(t, 1, Len(s))
  <2>1. u \in Seq(S) /\ Len(u) = Len(s) /\ \A i \in 1 .. Len(s) : u[i] = s[i]
    BY <1>1
  <2>2. v \in Seq(S) /\ Len(v) = Len(s) /\ \A i \in 1 .. Len(s) : v[i] = t[i]
    BY <1>1
  <2> HIDE DEF u, v
  <2>3. u = v <=> \A i \in 1 .. Len(s) : u[i] = v[i]
    BY <2>1, <2>2, SeqEqual
  <2> QED
    BY <1>1, <2>1, <2>2, <2>3 DEF IsPrefix, u, v
<1> QED
  BY <1>1 DEF IsPrefix

LEMMA PrefixReflexive ==
  ASSUME NEW S, NEW s \in Seq(S)
  PROVE  IsPrefix(s, s)
BY PrefixIs

LEMMA PrefixTransitive ==
  ASSUME NEW S, NEW s \in Seq(S), NEW t \in Seq(S), NEW u \in Seq(S),
         IsPrefix(s, t), IsPrefix(t, u)
  PROVE  IsPrefix(s, u)
<1>1. Len(s) \in Nat /\ Len(t) \in Nat /\ Len(u) \in Nat
  OBVIOUS
<1> QED
  BY <1>1, PrefixIs

LEMMA PrefixOfAppend ==
  ASSUME NEW S, NEW s \in Seq(S), NEW e \in S
  PROVE  Append(s, e) \in Seq(S) /\ IsStrictPrefix(s, Append(s, e))
<1> DEFINE t == Append(s, e)
<1>1. /\ t \in Seq(S) /\ Len(t) = Len(s) + 1 /\ Len(s) \in Nat
      /\ \A i \in 1 .. Len(s) : t[i] = s[i]
  OBVIOUS
<1> HIDE DEF t
<1>2. IsPrefix(s, t) /\ s # t
  BY <1>1, PrefixIs
<1> QED
  BY <1>1, <1>2 DEF t, IsStrictPrefix

(* The ancestors of a commit are its prefixes. *)
LEMMA AncestorIs ==
  ASSUME NEW S, NEW s \in Seq(S), NEW a
  PROVE  a \in Ancestors(s) <=> a \in Seq(S) /\ IsPrefix(a, s)
<1>1. ASSUME NEW n \in 0 .. Len(s), a = SubSeq(s, 1, n)
      PROVE  a \in Seq(S) /\ IsPrefix(a, s)
  <2>1. a \in Seq(S) /\ Len(a) = n /\ \A i \in 1 .. n : a[i] = s[i]
    BY <1>1
  <2> QED
    BY <2>1, PrefixIs
<1>2. ASSUME a \in Seq(S), IsPrefix(a, s)
      PROVE  Len(a) \in 0 .. Len(s) /\ a = SubSeq(s, 1, Len(a))
  <2>1. Len(a) \in 0 .. Len(s) /\ \A i \in 1 .. Len(a) : a[i] = s[i]
    BY <1>2, PrefixIs
  <2> DEFINE u == SubSeq(s, 1, Len(a))
  <2>2. u \in Seq(S) /\ Len(u) = Len(a) /\ \A i \in 1 .. Len(a) : u[i] = s[i]
    BY <2>1
  <2> HIDE DEF u
  <2>3. a = u
    BY <1>2, <2>1, <2>2, SeqEqual
  <2> QED
    BY <2>1, <2>3 DEF u
<1> QED
  BY <1>1, <1>2 DEF Ancestors

-----------------------------------------------------------------------------
(* Commits *)

LEMMA MemoryIs ==
  ASSUME NEW m
  PROVE  m \in Memory <=> m \in Seq(Checkout) /\ \E c \in Checkout : Len(m) =< MaxCommits[c]
<1>1. ASSUME NEW c \in Checkout, m \in BoundedSeq(Checkout, MaxCommits[c])
      PROVE  m \in Seq(Checkout) /\ Len(m) =< MaxCommits[c]
  <2>1. MaxCommits[c] \in Nat
    BY MemoryAssumption
  <2>2. PICK n \in 0 .. MaxCommits[c] : m \in [1 .. n -> Checkout]
    BY <1>1 DEF BoundedSeq, SeqOf
  <2> QED
    BY <2>1, <2>2
<1>2. ASSUME NEW c \in Checkout, m \in Seq(Checkout), Len(m) =< MaxCommits[c]
      PROVE  m \in BoundedSeq(Checkout, MaxCommits[c])
  <2>1. MaxCommits[c] \in Nat
    BY MemoryAssumption
  <2>2. m \in [1 .. Len(m) -> Checkout] /\ Len(m) \in 0 .. MaxCommits[c]
    BY <1>2, <2>1
  <2> QED
    BY <2>2 DEF BoundedSeq, SeqOf
<1> QED
  BY <1>1, <1>2 DEF Memory

LEMMA CommitIs ==
  ASSUME NEW s
  PROVE  s \in Commit <=> Shape(s, MaxIntrusions)
<1> MaxIntrusions \in Nat
  BY MemoryAssumption
<1>1. ASSUME NEW m \in Memory, NEW n \in 0 .. MaxIntrusions,
             s = m \o [i \in 1 .. n |-> Outsider]
      PROVE  Shape(s, MaxIntrusions)
  <2> DEFINE w == [i \in 1 .. n |-> Outsider]
  <2>1. m \in Seq(Checkout) /\ \E c \in Checkout : Len(m) =< MaxCommits[c]
    BY MemoryIs
  <2>2. m \in Seq(Author)
    BY <2>1 DEF Author
  <2>3. w \in Seq(Author) /\ Len(w) = n /\ \A i \in 1 .. n : w[i] = Outsider
    BY DEF Author
  <2> HIDE DEF w
  <2>4. /\ s \in Seq(Author) /\ Len(s) = Len(m) + n
        /\ \A i \in 1 .. Len(m) : s[i] = m[i]
        /\ \A i \in (Len(m) + 1) .. Len(s) : s[i] = w[i - Len(m)]
    BY <1>1, <2>2, <2>3 DEF w
  <2>5. Own(s, Len(m))
    BY <2>1, <2>4 DEF Own
  <2>6. /\ Len(m) \in 0 .. Len(s) /\ Len(s) - Len(m) =< MaxIntrusions
        /\ \A i \in (Len(m) + 1) .. Len(s) : s[i] = Outsider
    <3>1. Len(m) \in Nat /\ Len(s) = Len(m) + n
      BY <2>2, <2>4
    <3>2. ASSUME NEW i \in (Len(m) + 1) .. Len(s)
          PROVE  s[i] = Outsider
      <4>1. i - Len(m) \in 1 .. n
        BY <3>1
      <4> QED
        BY <2>3, <2>4, <4>1
    <3> QED
      BY <3>1, <3>2
  <2> QED
    BY <2>4, <2>5, <2>6 DEF Shape
<1>2. ASSUME Shape(s, MaxIntrusions)
      PROVE  \E m \in Memory, n \in 0 .. MaxIntrusions : s = m \o [i \in 1 .. n |-> Outsider]
  <2>1. s \in Seq(Author)
    BY <1>2 DEF Shape
  <2>2. PICK k \in 0 .. Len(s) : /\ Own(s, k) /\ Len(s) - k =< MaxIntrusions
                                 /\ \A i \in (k + 1) .. Len(s) : s[i] = Outsider
    BY <1>2 DEF Shape
  <2> DEFINE m == SubSeq(s, 1, k)
             n == Len(s) - k
             w == [i \in 1 .. n |-> Outsider]
  <2>3. m \in Seq(Author) /\ Len(m) = k /\ \A i \in 1 .. k : m[i] = s[i]
    BY <2>1
  <2>4. n \in 0 .. MaxIntrusions
    BY <2>1, <2>2
  <2>5. w \in Seq(Author) /\ Len(w) = n /\ \A i \in 1 .. n : w[i] = Outsider
    BY <2>4 DEF Author
  <2> HIDE DEF m, n, w
  <2>6. m \in Memory
    <3>1. m \in Seq(Checkout)
      BY <2>2, <2>3 DEF Own
    <3> QED
      BY <2>2, <2>3, <3>1, MemoryIs DEF Own
  <2>7. /\ m \o w \in Seq(Author) /\ Len(m \o w) = Len(s)
        /\ \A i \in 1 .. Len(s) : (m \o w)[i] = s[i]
    <3>1. n \in Nat /\ k \in Nat /\ Len(s) = k + n
      BY <2>1, <2>4 DEF n
    <3>2. /\ m \o w \in Seq(Author) /\ Len(m \o w) = Len(s)
          /\ \A i \in 1 .. Len(s) : (m \o w)[i] = IF i =< k THEN m[i] ELSE w[i - k]
      BY <2>3, <2>5, <3>1, ConcatProperties
    <3>3. ASSUME NEW i \in 1 .. Len(s)
          PROVE  (m \o w)[i] = s[i]
      <4>1. CASE i =< k
        BY <2>3, <3>2, <4>1
      <4>2. CASE ~(i =< k)
        <5>1. i - k \in 1 .. n /\ i \in (k + 1) .. Len(s)
          BY <3>1, <4>2
        <5> QED
          BY <2>2, <2>5, <3>2, <4>2, <5>1
      <4> QED
        BY <4>1, <4>2
    <3> QED
      BY <3>2, <3>3
  <2>8. s = m \o w
    BY <2>1, <2>7, SeqEqual
  <2> QED
    BY <2>4, <2>6, <2>8 DEF w
<1>3. s \in Commit <=>
        \E m \in Memory, n \in 0 .. MaxIntrusions : s = m \o [i \in 1 .. n |-> Outsider]
  BY SMT DEF Commit
<1> QED
  BY <1>1, <1>2, <1>3

(* What an outsider may add to a commit, and what is in one already.         *)
LEMMA ShapeFacts ==
  ASSUME NEW n \in Nat, NEW s, Shape(s, n)
  PROVE  /\ s \in Seq(Author)
         /\ \A l \in Nat : n =< l => Shape(s, l)
         /\ Shape(Append(s, Outsider), n + 1)
         /\ \A a \in Ancestors(s) : Shape(a, n)
         /\ Lineage(s) => s \in Memory
<1>1. s \in Seq(Author) /\ Len(s) \in Nat
  BY DEF Shape
<1>2. PICK k \in 0 .. Len(s) : /\ Own(s, k) /\ Len(s) - k =< n
                               /\ \A i \in (k + 1) .. Len(s) : s[i] = Outsider
  BY DEF Shape
<1>3. \A l \in Nat : n =< l => Shape(s, l)
  BY <1>1, <1>2 DEF Shape
<1>4. Shape(Append(s, Outsider), n + 1)
  <2> DEFINE t == Append(s, Outsider)
  <2>1. /\ t \in Seq(Author) /\ Len(t) = Len(s) + 1 /\ t[Len(s) + 1] = Outsider
        /\ \A i \in 1 .. Len(s) : t[i] = s[i]
    BY <1>1 DEF Author
  <2> HIDE DEF t
  <2>2. Own(t, k)
    BY <1>1, <1>2, <2>1 DEF Own
  <2>3. k \in 0 .. Len(t) /\ Len(t) - k =< n + 1 /\ \A i \in (k + 1) .. Len(t) : t[i] = Outsider
    BY <1>1, <1>2, <2>1
  <2> QED
    BY <2>1, <2>2, <2>3 DEF Shape, t
<1>5. ASSUME NEW a \in Ancestors(s)
      PROVE  Shape(a, n)
  <2>1. a \in Seq(Author) /\ Len(a) \in Nat /\ Len(a) =< Len(s)
        /\ \A i \in 1 .. Len(a) : a[i] = s[i]
    BY <1>1, AncestorIs, PrefixIs
  <2> DEFINE j == IF Len(a) < k THEN Len(a) ELSE k
  <2>2. Own(a, j)
    <3>1. PICK c \in Checkout : k =< MaxCommits[c] /\ MaxCommits[c] \in Nat
      BY <1>2, MemoryAssumption DEF Own
    <3>2. j \in Nat /\ j =< k /\ j =< Len(a)
      BY <2>1
    <3>3. \A i \in 1 .. j : a[i] \in Checkout
      BY <1>2, <2>1, <3>2 DEF Own
    <3> QED
      BY <3>1, <3>2, <3>3 DEF Own
  <2>3. j \in 0 .. Len(a) /\ Len(a) - j =< n
    BY <1>1, <1>2, <2>1
  <2>4. \A i \in (j + 1) .. Len(a) : a[i] = Outsider
    BY <1>1, <1>2, <2>1
  <2> HIDE DEF j
  <2> QED
    BY <2>1, <2>2, <2>3, <2>4 DEF Shape
<1>6. Lineage(s) => s \in Memory
  <2> SUFFICES ASSUME Lineage(s) PROVE s \in Memory
    OBVIOUS
  <2>1. DOMAIN s = 1 .. Len(s) /\ \A i \in 1 .. Len(s) : s[i] \in Checkout
    BY <1>1 DEF Lineage, Bound
  <2>2. s \in Seq(Checkout)
    BY <1>1, <2>1
  <2>3. k = Len(s)
    <3>1. ASSUME k < Len(s)
          PROVE  FALSE
      <4>1. k + 1 \in 1 .. Len(s) /\ k + 1 \in (k + 1) .. Len(s)
        BY <1>1, <3>1
      <4> QED
        BY <1>2, <2>1, <4>1, MemoryAssumption
    <3> QED
      BY <1>1, <3>1
  <2> QED
    BY <1>2, <2>2, <2>3, MemoryIs DEF Own
<1> QED
  BY <1>1, <1>3, <1>4, <1>5, <1>6

LEMMA MemoryFacts ==
  ASSUME NEW m \in Memory
  PROVE  /\ m \in Commit /\ Shape(m, 0) /\ m \in Seq(Checkout) /\ m \in Seq(Author)
         /\ Ancestors(m) \subseteq Memory
         /\ \A c \in Checkout : Len(m) < MaxCommits[c] => Append(m, c) \in Memory
         /\ m # Absent => Lineage(m)
<1>1. m \in Seq(Checkout) /\ \E c \in Checkout : Len(m) =< MaxCommits[c]
  BY MemoryIs
<1>2. Own(m, Len(m)) /\ m \in Seq(Author)
  BY <1>1 DEF Own, Author
<1>3. Shape(m, 0)
  BY <1>1, <1>2 DEF Shape
<1>4. m \in Commit
  BY <1>3, ShapeFacts, CommitIs, MemoryAssumption
<1>5. ASSUME NEW a \in Ancestors(m)
      PROVE  a \in Memory
  <2>1. a \in Seq(Checkout) /\ Len(a) =< Len(m)
    BY <1>1, AncestorIs, PrefixIs
  <2>2. PICK c \in Checkout : Len(m) =< MaxCommits[c] /\ MaxCommits[c] \in Nat
    BY <1>1, MemoryAssumption
  <2>3. Len(a) =< MaxCommits[c]
    BY <1>1, <2>1, <2>2
  <2> QED
    BY <2>1, <2>3, MemoryIs
<1>6. ASSUME NEW c \in Checkout, Len(m) < MaxCommits[c]
      PROVE  Append(m, c) \in Memory
  <2>1. Append(m, c) \in Seq(Checkout) /\ Len(Append(m, c)) = Len(m) + 1
    BY <1>1
  <2>2. MaxCommits[c] \in Nat /\ Len(m) \in Nat
    BY <1>1, MemoryAssumption
  <2>3. Len(Append(m, c)) =< MaxCommits[c]
    BY <1>6, <2>1, <2>2
  <2> QED
    BY <2>1, <2>3, MemoryIs
<1>7. m # Absent => Lineage(m)
  BY <1>1 DEF Lineage, Bound
<1> QED
  BY <1>1, <1>2, <1>3, <1>4, <1>5, <1>6, <1>7
-----------------------------------------------------------------------------
(* The refs and the calls of a state of the right types. *)

LEMMA AbsentFacts == Absent \in Memory /\ Absent \in Commit /\ Idle \in CallType
<1>1. Absent \in Memory
  <2>1. <<>> \in Seq(Checkout) /\ Len(<<>>) = 0
    OBVIOUS
  <2>2. PICK c \in Checkout : MaxCommits[c] \in Nat
    BY MemoryAssumption
  <2>3. \E d \in Checkout : Len(<<>>) =< MaxCommits[d]
    BY <2>1, <2>2
  <2>4. <<>> \in Memory
    BY <2>1, <2>3, MemoryIs
  <2> QED
    BY <2>4 DEF Absent
<1>2. Absent \in Commit
  BY <1>1, MemoryFacts
<1> QED
  BY <1>1, <1>2 DEF Idle, CallType

LEMMA Commits ==
  /\ \A s \in Commit : /\ s \in Seq(Author) /\ Ancestors(s) \subseteq Commit
                       /\ Lineage(s) => s \in Memory
  /\ Memory \subseteq Commit
<1> MaxIntrusions \in Nat
  BY MemoryAssumption
<1>1. ASSUME NEW s \in Commit
      PROVE  /\ s \in Seq(Author) /\ Ancestors(s) \subseteq Commit
             /\ Lineage(s) => s \in Memory
  BY CommitIs, ShapeFacts
<1> QED
  BY <1>1, MemoryFacts

LEMMA Typed ==
  ASSUME TypeInv
  PROVE  /\ remote \in Commit /\ remote \in Seq(Author)
         /\ \A c \in Checkout :
              /\ local[c] \in Memory /\ local[c] \in Commit /\ local[c] \in Seq(Author)
              /\ call[c] \in CallType
              /\ Target(c) \in Commit /\ Target(c) \in Seq(Author)
              /\ call[c].expected \in Commit /\ call[c].expected \in Seq(Author)
         /\ \A p \in flying : /\ p.from \in Checkout /\ p.new \in Commit /\ p.new \in Seq(Author)
                              /\ p.old \in Commit /\ p.old \in Seq(Author)
         /\ told.target \in Commit /\ told.target \in Seq(Author)
<1>1. remote \in Commit
  <2>1. Shape(remote, intruded) /\ intruded \in Nat /\ MaxIntrusions \in Nat
        /\ intruded =< MaxIntrusions
    BY MemoryAssumption DEF TypeInv
  <2> QED
    BY <2>1, ShapeFacts, CommitIs
<1>2. ASSUME NEW c \in Checkout
      PROVE  /\ local[c] \in Memory /\ call[c] \in CallType
             /\ Target(c) \in Commit /\ call[c].expected \in Commit
  BY DEF TypeInv, CallType, Target
<1>3. ASSUME NEW p \in flying
      PROVE  p.from \in Checkout /\ p.new \in Commit /\ p.old \in Commit
  BY DEF TypeInv, PushRequest
<1>4. told.target \in Commit
  BY DEF TypeInv, ToldType
<1> QED
  BY <1>1, <1>2, <1>3, <1>4, Commits

(* The refs only grow; then what was an ancestor of one of them still is.    *)
Grows ==
  /\ \A c \in Checkout : IsPrefix(local[c], local'[c])
  /\ IsPrefix(remote, remote')

SameCall(c) ==
  /\ call'[c].pc = call[c].pc /\ call'[c].target = call[c].target
  /\ call'[c].id = call[c].id /\ call'[c].how = call[c].how

LEMMA GrowthKeeps ==
  ASSUME MemoryInv, TypeInv', Grows
  PROVE  /\ \A p \in flying : /\ Lineage(p.new) /\ IsStrictPrefix(p.old, p.new)
                              /\ IsPrefix(p.new, local'[p.from])
         /\ \A c \in Checkout : SameCall(c) => CallOf(c)'
         /\ told' = told => VerifiedStands'
<1>1. TypeInv /\ TypeInv'
  BY DEF MemoryInv
<1>2. /\ remote \in Seq(Author) /\ remote' \in Seq(Author)
      /\ \A c \in Checkout : local[c] \in Seq(Author) /\ local'[c] \in Seq(Author)
      /\ \A c \in Checkout : Target(c) \in Seq(Author)
      /\ \A p \in flying : p.from \in Checkout /\ p.new \in Seq(Author)
      /\ told.target \in Seq(Author)
  <2>1. remote' \in Seq(Author)
    BY <1>1 DEF TypeInv, Shape
  <2>2. \A c \in Checkout : local'[c] \in Memory
    BY <1>1 DEF TypeInv
  <2> QED
    BY <1>1, <2>1, <2>2, Typed, Commits
<1>3. ASSUME NEW s \in Seq(Author)
      PROVE  /\ IsPrefix(s, remote) => IsPrefix(s, remote')
             /\ \A c \in Checkout : IsPrefix(s, local[c]) => IsPrefix(s, local'[c])
  BY <1>2, PrefixTransitive DEF Grows
<1>4. \A p \in flying : /\ Lineage(p.new) /\ IsStrictPrefix(p.old, p.new)
                        /\ IsPrefix(p.new, local'[p.from])
  BY <1>2, <1>3 DEF MemoryInv, FlyingInv
<1>5. ASSUME NEW c \in Checkout, SameCall(c)
      PROVE  CallOf(c)'
  BY <1>2, <1>3, <1>5 DEF MemoryInv, CallInv, CallOf, SameCall, Target, At
<1>6. ASSUME told' = told
      PROVE  VerifiedStands'
  BY <1>2, <1>3, <1>6 DEF MemoryInv, VerifiedStands, ToldInv
<1> QED
  BY <1>4, <1>5, <1>6

(* What is told in a step of a call of c is of that call, and true.          *)
TellsTruth(c) ==
  /\ told'.how = "remote_verified" \/ told'.retained = FALSE =>
       told'.by = c /\ call'[c] = Idle
  /\ told'.how = "remote_verified" =>
       /\ IsPrefix(told'.target, remote')
       /\ told'.id # None => IsPrefix(told'.target, local'[c])
  /\ told'.retained = FALSE =>
       /\ told'.id \in Operation
       /\ owner'[c][<<told'.id, told'.target>>] = None
       /\ quarantine'[c][<<told'.id, told'.target>>] = None

LEMMA ToldStep ==
  ASSUME MemoryInv, TypeInv', Grows, NEW c \in Checkout,
         \A d \in Checkout : d # c =>
           call'[d] = call[d] /\ owner'[d] = owner[d] /\ quarantine'[d] = quarantine[d],
         TellsTruth(c) \/ (told' = told /\ ~At(c, "idle"))
  PROVE  ToldInv' /\ VerifiedStands' /\ RetainedTold'
<1>1. CASE TellsTruth(c)
  <2>1. ToldInv'
    BY <1>1 DEF TellsTruth, ToldInv, At, Idle
  <2>2. VerifiedStands' /\ RetainedTold'
    BY <1>1 DEF TellsTruth, VerifiedStands, RetainedTold
  <2> QED
    BY <2>1, <2>2
<1>2. CASE told' = told /\ ~At(c, "idle")
  <2>1. told.how = "remote_verified" \/ told.retained = FALSE =>
          told.by \in Checkout /\ told.by # c /\ At(told.by, "idle")
    BY <1>2 DEF MemoryInv, ToldInv
  <2>2. ToldInv'
    BY <1>2, <2>1 DEF MemoryInv, ToldInv, At
  <2>3. VerifiedStands'
    BY <1>2, GrowthKeeps
  <2>4. RetainedTold'
    BY <1>2, <2>1 DEF MemoryInv, RetainedTold
  <2> QED
    BY <2>2, <2>3, <2>4
<1> QED
  BY <1>1, <1>2

(* A step of a call of c has to be looked at where c is. *)
LEMMA CallerStep ==
  ASSUME MemoryInv, TypeInv', Grows, NEW c \in Checkout,
         \A d \in Checkout : d # c =>
           call'[d] = call[d] /\ owner'[d] = owner[d] /\ quarantine'[d] = quarantine[d],
         TellsTruth(c) \/ (told' = told /\ ~At(c, "idle")),
         flying' \subseteq flying \/ FlyingInv', CallOf(c)', Resumable'
  PROVE  MemoryInv'
<1>1. ToldInv' /\ VerifiedStands' /\ RetainedTold'
  BY ToldStep
<1>2. FlyingInv'
  BY GrowthKeeps DEF FlyingInv
<1>3. CallInv'
  <2>1. \A d \in Checkout : d # c => SameCall(d)
    BY DEF SameCall
  <2> QED
    BY <2>1, GrowthKeeps DEF CallInv
<1> QED
  BY <1>1, <1>2, <1>3 DEF MemoryInv

LEMMA NothingMoves ==
  ASSUME TypeInv, UNCHANGED <<local, remote>>
  PROVE  Grows
BY Typed, PrefixReflexive DEF Grows
-----------------------------------------------------------------------------
(* How a step changes the call in hand, and what it tells. *)

LEMMA RequestFacts ==
  ASSUME NEW m \in Commit, NEW x \in Commit
  PROVE  /\ Request(m, x) \in CallType
         /\ Request(m, x).target = m /\ Request(m, x).id = None
BY AbsentFacts DEF Request, Idle, CallType

LEMMA GoesFacts ==
  ASSUME TypeInv, NEW c \in Checkout, NEW r \in CallType,
         NEW pc \in Publishing \union Recovering, Goes(c, r, pc)
  PROVE  /\ call' \in [Checkout -> CallType] /\ told' \in ToldType
         /\ call'[c].pc = pc /\ call'[c].target = r.target /\ call'[c].id = r.id
         /\ call'[c].how = r.how
         /\ \A d \in Checkout : d # c => call'[d] = call[d]
         /\ TellsTruth(c)
<1>1. /\ call' \in [Checkout -> CallType]
      /\ call'[c].pc = pc /\ call'[c].target = r.target /\ call'[c].id = r.id
      /\ call'[c].how = r.how
      /\ \A d \in Checkout : d # c => call'[d] = call[d]
  BY DEF Goes, TypeInv, CallType
<1>2. told' \in ToldType
  BY AbsentFacts DEF Goes, Untold, ToldType
<1>3. TellsTruth(c)
  BY NoneAssumption DEF Goes, Untold, TellsTruth
<1> QED
  BY <1>1, <1>2, <1>3

LEMMA ToFacts ==
  ASSUME TypeInv, NEW c \in Checkout, NEW pc \in Publishing \union Recovering, To(c, pc)
  PROVE  /\ call' \in [Checkout -> CallType] /\ told' = told
         /\ call'[c].pc = pc /\ call'[c].target = call[c].target /\ call'[c].id = call[c].id
         /\ call'[c].how = call[c].how
         /\ \A d \in Checkout : d # c => call'[d] = call[d]
BY DEF To, TypeInv, CallType

LEMMA ReportsFacts ==
  ASSUME TypeInv, NEW c \in Checkout, NEW how \in {"failed", "remote_verified", "uncertain"},
         Reports(c, how)
  PROVE  /\ call' \in [Checkout -> CallType] /\ told' = told
         /\ call'[c].pc = "reporting" /\ call'[c].target = call[c].target
         /\ call'[c].id = call[c].id /\ call'[c].how = how
         /\ \A d \in Checkout : d # c => call'[d] = call[d]
<1> DEFINE r == [call[c] EXCEPT !.pc = "reporting", !.how = how]
<1>1. /\ call[c] \in CallType /\ call \in [Checkout -> CallType]
      /\ told' = told
  BY DEF Reports, TypeInv
<1>2. /\ r \in CallType /\ r.pc = "reporting" /\ r.target = call[c].target
      /\ r.id = call[c].id /\ r.how = how
  BY <1>1 DEF CallType, Recovering
<1>3. call' = [call EXCEPT ![c] = r]
  BY <1>1 DEF Reports
<1> HIDE DEF r
<1> QED
  BY <1>1, <1>2, <1>3

(* What a call may tell of its end, and of the refs of a recovery. *)
Ending == {"saved", "failed", "remote_verified", "uncertain", None}
Keeping == BOOLEAN \union {None}

LEMMA EndingFacts ==
  /\ \A how \in {"saved", "failed", "remote_verified", "uncertain", None} : how \in Ending
  /\ None \in Keeping /\ TRUE \in Keeping /\ FALSE \in Keeping
BY DEF Ending, Keeping

LEMMA TellsFacts ==
  ASSUME TypeInv, NEW c \in Checkout, NEW r \in CallType,
         NEW how \in Ending,
         NEW retained \in Keeping, Tells(c, r, how, retained)
  PROVE  /\ call' \in [Checkout -> CallType] /\ told' \in ToldType
         /\ call'[c] = Idle /\ CallOf(c)'
         /\ \A d \in Checkout : d # c => call'[d] = call[d]
         /\ told'.how = "remote_verified" \/ told'.retained = FALSE => told'.by = c
         /\ told'.how = "remote_verified" =>
              how = "remote_verified" /\ told'.target = r.target /\ told'.id = r.id
         /\ told'.retained = FALSE =>
              retained = FALSE /\ told'.target = r.target /\ told'.id = r.id
<1>1. /\ call' \in [Checkout -> CallType] /\ call'[c] = Idle
      /\ \A d \in Checkout : d # c => call'[d] = call[d]
  BY AbsentFacts DEF Tells, TypeInv
<1>2. CallOf(c)'
  BY <1>1 DEF CallOf, At, Idle, Publishing, Recovering
<1>3. CASE told' = Untold
  <2>1. told' \in ToldType /\ told'.how # "remote_verified" /\ told'.retained # FALSE
    BY <1>3, AbsentFacts, NoneAssumption DEF Untold, ToldType
  <2> QED
    BY <1>1, <1>2, <2>1
<1>4. ASSUME NEW record \in {"succeeded", "failed", None},
             told' = [by |-> c, how |-> how, target |-> r.target, id |-> r.id,
                      retained |-> retained, record |-> record]
      PROVE  /\ told' \in ToldType /\ told'.by = c /\ told'.how = how
             /\ told'.target = r.target /\ told'.id = r.id /\ told'.retained = retained
  BY <1>4 DEF ToldType, CallType, Ending, Keeping
<1> QED
  BY <1>1, <1>2, <1>3, <1>4 DEF Tells

(* What is told is true if the State is verified where the refs still have   *)
(* it, and the refs of the recovery are gone where that is told.             *)
LEMMA TellsTrue ==
  ASSUME TypeInv, NEW c \in Checkout, NEW r \in CallType,
         NEW how \in Ending,
         NEW retained \in Keeping, Tells(c, r, how, retained),
         how = "remote_verified" =>
           IsPrefix(r.target, remote') /\ (r.id # None => IsPrefix(r.target, local'[c])),
         retained = FALSE => /\ r.id \in Operation
                             /\ owner'[c][<<r.id, r.target>>] = None
                             /\ quarantine'[c][<<r.id, r.target>>] = None
  PROVE  TellsTruth(c)
<1>1. /\ call'[c] = Idle
      /\ told'.how = "remote_verified" \/ told'.retained = FALSE => told'.by = c
      /\ told'.how = "remote_verified" =>
           how = "remote_verified" /\ told'.target = r.target /\ told'.id = r.id
      /\ told'.retained = FALSE =>
           retained = FALSE /\ told'.target = r.target /\ told'.id = r.id
  BY TellsFacts
<1>2. told'.retained = FALSE =>
        /\ told'.id \in Operation
        /\ owner'[c][<<told'.id, told'.target>>] = None
        /\ quarantine'[c][<<told'.id, told'.target>>] = None
  BY <1>1
<1> QED
  BY <1>1, <1>2 DEF TellsTruth

-----------------------------------------------------------------------------
(* Every step: checkpoints and publication. *)

LEMMA CheckpointKeeps ==
  ASSUME MemoryInv, NEW c \in Checkout, Checkpoint(c)
  PROVE  MemoryInv'
<1> TypeInv
  BY DEF MemoryInv
<1>1. /\ local[c] \in Memory /\ local[c] \in Seq(Author)
      /\ UNCHANGED <<remote, owner, quarantine, flying, intruded, replaced>>
  BY Typed DEF Checkpoint, outside
<1>2. ASSUME NEW m \in Ancestors(local[c]), NEW outcome \in Outcome,
             Len(m) < MaxCommits[c], Took(outcome) => local[c] = m,
             local' = [local EXCEPT ![c] = IF Took(outcome) THEN Append(m, c) ELSE @],
             Tells(c, Request(Append(m, c), m), IF outcome = "done" THEN "saved" ELSE "failed", None)
      PROVE  MemoryInv'
  <2>1. m \in Memory /\ Append(m, c) \in Memory /\ Request(Append(m, c), m) \in CallType
    BY <1>1, <1>2, MemoryFacts, RequestFacts, Commits
  <2>2. local' \in [Checkout -> Memory]
    BY <1>2, <2>1 DEF TypeInv
  <2> DEFINE how == IF outcome = "done" THEN "saved" ELSE "failed"
             r == Request(Append(m, c), m)
  <2>3. /\ how \in Ending
        /\ how # "remote_verified" /\ Tells(c, r, how, None)
    BY <1>2 DEF Ending
  <2> HIDE DEF how, r
  <2>4. r \in CallType
    BY <2>1 DEF r
  <2>5. /\ call' \in [Checkout -> CallType] /\ told' \in ToldType /\ CallOf(c)'
        /\ \A d \in Checkout : d # c => call'[d] = call[d]
    BY <2>3, <2>4, TellsFacts, EndingFacts
  <2>6. TellsTruth(c)
    BY <2>3, <2>4, TellsTrue, EndingFacts, NoneAssumption
  <2>7. TypeInv'
    BY <1>1, <2>2, <2>5 DEF TypeInv
  <2>8. Grows
    <3>1. IsPrefix(local[c], local'[c])
      <4>1. CASE Took(outcome)
        <5>1. local'[c] = Append(local[c], c) /\ c \in Author
          BY <1>2, <4>1 DEF TypeInv, Author
        <5> QED
          BY <1>1, <5>1, PrefixOfAppend DEF IsStrictPrefix
      <4>2. CASE ~Took(outcome)
        BY <1>1, <1>2, <4>2, PrefixReflexive DEF TypeInv
      <4> QED
        BY <4>1, <4>2
    <3>2. \A d \in Checkout : d # c => local'[d] = local[d]
      BY <1>2 DEF TypeInv
    <3> QED
      BY <1>1, <3>1, <3>2, Typed, PrefixReflexive DEF Grows
  <2>9. Resumable'
    BY <1>1 DEF MemoryInv, Resumable
  <2> QED
    BY <1>1, <2>5, <2>6, <2>7, <2>8, <2>9, CallerStep
<1>3. ASSUME NEW m \in Ancestors(local[c]), local[c] = m, Tells(c, Request(m, m), "saved", None),
             UNCHANGED local
      PROVE  MemoryInv'
  <2>1. Request(m, m) \in CallType
    BY <1>1, <1>3, RequestFacts, Commits
  <2>2. /\ call' \in [Checkout -> CallType] /\ told' \in ToldType /\ CallOf(c)'
        /\ \A d \in Checkout : d # c => call'[d] = call[d]
    BY <1>3, <2>1, TellsFacts, EndingFacts
  <2>3. TellsTruth(c)
    BY <1>3, <2>1, TellsTrue, EndingFacts, NoneAssumption
  <2>4. TypeInv'
    BY <1>1, <1>3, <2>2 DEF TypeInv
  <2>5. Grows /\ Resumable'
    BY <1>1, <1>3, NothingMoves DEF MemoryInv, Resumable
  <2> QED
    BY <1>1, <2>2, <2>3, <2>4, <2>5, CallerStep
<1> QED
  BY <1>2, <1>3 DEF Checkpoint

(* A call that goes on, or ends, without moving a ref. *)
LEMMA StillStep ==
  ASSUME MemoryInv, NEW c \in Checkout, UNCHANGED <<local, remote, owner, quarantine, outside>>,
         flying' \subseteq flying \/ (flying' \subseteq PushRequest /\ FlyingInv'),
         call' \in [Checkout -> CallType], told' \in ToldType,
         \A d \in Checkout : d # c => call'[d] = call[d],
         TellsTruth(c) \/ (told' = told /\ ~At(c, "idle")),
         CallOf(c)'
  PROVE  MemoryInv'
<1>1. TypeInv /\ TypeInv'
  BY DEF MemoryInv, TypeInv, outside
<1>2. Grows /\ Resumable'
  BY <1>1, NothingMoves DEF MemoryInv, Resumable
<1> QED
  BY <1>1, <1>2, CallerStep

LEMMA RequestsFacts ==
  ASSUME TypeInv, NEW c \in Checkout, NEW r \in Requests(c)
  PROVE  /\ r \in CallType /\ r.id = None
         /\ r.target \in Commit /\ IsPrefix(r.target, local[c])
<1>0. PICK m \in Ancestors(local[c]) : \E x \in Ancestors(m) : r = Request(m, x)
  BY DEF Requests
<1>1. PICK x \in Ancestors(m) : r = Request(m, x)
  BY <1>0
<1>2. local[c] \in Commit /\ local[c] \in Seq(Author)
  BY Typed
<1>3. m \in Commit /\ x \in Commit /\ IsPrefix(m, local[c])
  BY <1>2, Commits, AncestorIs
<1> QED
  BY <1>1, <1>3, RequestFacts

(* A reconciliation may name any State, and no operation.                    *)
LEMMA NamedFacts ==
  ASSUME NEW r \in Named
  PROVE  r \in CallType /\ r.id = None
<1>1. PICK m \in Commit : \E x \in Ancestors(m) : r = Request(m, x)
  BY DEF Named
<1>2. PICK x \in Ancestors(m) : r = Request(m, x)
  BY <1>1
<1>3. x \in Commit
  BY Commits
<1> QED
  BY <1>2, <1>3, RequestFacts

LEMMA SynchronizeKeeps ==
  ASSUME MemoryInv, NEW c \in Checkout, Synchronize(c)
  PROVE  MemoryInv'
<1> TypeInv
  BY DEF MemoryInv
<1>1. UNCHANGED <<local, remote, owner, quarantine, flying, outside>>
  BY DEF Synchronize, refVars
<1>2. PICK r \in Requests(c) :
        \/ Lineage(r.target) /\ Goes(c, r, "pushing")
        \/ Tells(c, r, "failed", None)
  BY DEF Synchronize
<1>3. r \in CallType /\ IsPrefix(r.target, local[c])
  BY RequestsFacts
<1>4. CASE Lineage(r.target) /\ Goes(c, r, "pushing")
  <2>1. /\ call' \in [Checkout -> CallType] /\ told' \in ToldType
        /\ call'[c].pc = "pushing" /\ call'[c].target = r.target
        /\ \A d \in Checkout : d # c => call'[d] = call[d]
        /\ TellsTruth(c)
    BY <1>3, <1>4, GoesFacts DEF Publishing
  <2>2. CallOf(c)'
    BY <1>1, <1>3, <1>4, <2>1 DEF CallOf, At, Target, Recovering
  <2> QED
    BY <1>1, <2>1, <2>2, StillStep
<1>5. CASE Tells(c, r, "failed", None)
  <2>1. /\ call' \in [Checkout -> CallType] /\ told' \in ToldType /\ CallOf(c)'
        /\ \A d \in Checkout : d # c => call'[d] = call[d]
    BY <1>3, <1>5, TellsFacts, EndingFacts
  <2>2. TellsTruth(c)
    BY <1>3, <1>5, TellsTrue, EndingFacts, NoneAssumption
  <2> QED
    BY <1>1, <2>1, <2>2, StillStep
<1> QED
  BY <1>2, <1>4, <1>5
(* A call that ends without moving a ref, and tells what holds. *)
LEMMA EndStep ==
  ASSUME MemoryInv, NEW c \in Checkout, UNCHANGED <<refVars, outside>>,
         NEW r \in CallType,
         NEW how \in Ending,
         NEW retained \in Keeping, Tells(c, r, how, retained),
         how = "remote_verified" =>
           IsPrefix(r.target, remote) /\ (r.id # None => IsPrefix(r.target, local[c])),
         retained = FALSE => /\ r.id \in Operation
                             /\ owner[c][<<r.id, r.target>>] = None
                             /\ quarantine[c][<<r.id, r.target>>] = None
  PROVE  MemoryInv'
<1> TypeInv
  BY DEF MemoryInv
<1>1. UNCHANGED <<local, remote, owner, quarantine, flying, outside>>
  BY DEF refVars
<1>2. /\ call' \in [Checkout -> CallType] /\ told' \in ToldType /\ CallOf(c)'
      /\ \A d \in Checkout : d # c => call'[d] = call[d]
  BY TellsFacts
<1>3. /\ how = "remote_verified" =>
           IsPrefix(r.target, remote') /\ (r.id # None => IsPrefix(r.target, local'[c]))
      /\ retained = FALSE => /\ r.id \in Operation
                             /\ owner'[c][<<r.id, r.target>>] = None
                             /\ quarantine'[c][<<r.id, r.target>>] = None
  BY <1>1
<1>4. TellsTruth(c)
  BY <1>3, TellsTrue
<1> QED
  BY <1>1, <1>2, <1>4, StillStep

(* A call that goes on without moving a ref. *)
LEMMA GoOnStep ==
  ASSUME MemoryInv, NEW c \in Checkout, ~At(c, "idle"), UNCHANGED <<refVars, outside>>,
         NEW pc \in Publishing \union Recovering, To(c, pc),
         pc \in Publishing => call[c].pc \in Publishing,
         pc \in Recovering => call[c].pc \in Recovering,
         pc \notin {"cleaning", "reporting"}
  PROVE  MemoryInv'
<1> TypeInv
  BY DEF MemoryInv
<1>1. UNCHANGED <<local, remote, owner, quarantine, flying, outside>>
  BY DEF refVars
<1>2. /\ call' \in [Checkout -> CallType] /\ told' = told
      /\ call'[c].pc = pc /\ call'[c].target = call[c].target /\ call'[c].id = call[c].id
      /\ \A d \in Checkout : d # c => call'[d] = call[d]
  BY ToFacts
<1>3. CallOf(c)'
  BY <1>1, <1>2 DEF MemoryInv, CallInv, CallOf, At, Target, Publishing, Recovering
<1>4. told' \in ToldType
  BY <1>2 DEF TypeInv
<1> QED
  BY <1>1, <1>2, <1>3, <1>4, StillStep

(* A recovery that stops to find out what has become of its refs. *)
LEMMA ReportsStep ==
  ASSUME MemoryInv, NEW c \in Checkout, call[c].pc \in Recovering,
         UNCHANGED <<refVars, outside>>,
         NEW how \in {"failed", "remote_verified", "uncertain"}, Reports(c, how),
         how = "remote_verified" => At(c, "cleaning")
  PROVE  MemoryInv'
<1> TypeInv
  BY DEF MemoryInv
<1>1. UNCHANGED <<local, remote, owner, quarantine, flying, outside>>
  BY DEF refVars
<1>2. /\ call' \in [Checkout -> CallType] /\ told' = told
      /\ call'[c].pc = "reporting" /\ call'[c].target = call[c].target
      /\ call'[c].id = call[c].id /\ call'[c].how = how
      /\ \A d \in Checkout : d # c => call'[d] = call[d]
  BY ReportsFacts
<1>3. CallOf(c)'
  BY <1>1, <1>2 DEF MemoryInv, CallInv, CallOf, At, Target, Publishing, Recovering
<1>4. told' \in ToldType /\ ~At(c, "idle")
  BY <1>2 DEF TypeInv, Recovering, At
<1> QED
  BY <1>1, <1>2, <1>3, <1>4, StillStep

LEMMA PushKeeps ==
  ASSUME MemoryInv, NEW c \in Checkout, Push(c)
  PROVE  MemoryInv'
<1> TypeInv
  BY DEF MemoryInv
<1> DEFINE sent == [from |-> c, old |-> remote, new |-> Target(c)]
<1>1. /\ UNCHANGED <<local, remote, owner, quarantine, outside>>
      /\ At(c, "pushing") /\ ~At(c, "idle") /\ call[c].pc \in Publishing
  BY DEF Push, At, Publishing
<1>2. CASE To(c, "verifying") /\ UNCHANGED flying
  BY <1>1, <1>2, GoOnStep DEF refVars, Publishing, Recovering
<1>3. CASE Concludes(c, "uncertain") /\ UNCHANGED flying
  <2>1. call[c] \in CallType /\ Tells(c, call[c], "uncertain", None)
    BY <1>3, Typed DEF Concludes
  <2> QED
    BY <1>1, <1>3, <2>1, EndStep, EndingFacts, NoneAssumption DEF refVars
<1>4. ASSUME remote # Target(c), IsPrefix(remote, Target(c)),
             call' = [call EXCEPT ![c].pc = "awaiting", ![c].sent = sent],
             flying' = flying \union {sent}, UNCHANGED told
      PROVE  MemoryInv'
  <2>1. Lineage(Target(c)) /\ IsPrefix(Target(c), local[c])
    BY <1>1 DEF MemoryInv, CallInv, CallOf
  <2>2. sent \in PushRequest
    BY Typed DEF PushRequest
  <2>3. FlyingInv'
    BY <1>1, <1>4, <2>1 DEF MemoryInv, FlyingInv, IsStrictPrefix
  <2>4. flying' \subseteq PushRequest
    BY <1>4, <2>2 DEF TypeInv
  <2> HIDE DEF sent
  <2> DEFINE r == [call[c] EXCEPT !.pc = "awaiting", !.sent = sent]
  <2>5. /\ r \in CallType /\ r.pc = "awaiting" /\ r.target = Target(c)
    BY <2>2, Typed DEF CallType, Publishing, Target
  <2>6. call' = [call EXCEPT ![c] = r]
    BY <1>4 DEF TypeInv
  <2> HIDE DEF r
  <2>7. /\ call' \in [Checkout -> CallType] /\ call'[c] = r
        /\ \A d \in Checkout : d # c => call'[d] = call[d]
    BY <2>5, <2>6 DEF TypeInv
  <2>8. CallOf(c)'
    BY <1>1, <2>1, <2>5, <2>7 DEF CallOf, At, Target, Recovering
  <2>9. told' = told /\ told' \in ToldType
    BY <1>4 DEF TypeInv
  <2> QED
    BY <1>1, <2>3, <2>4, <2>7, <2>8, <2>9, StillStep
<1> QED
  BY <1>2, <1>3, <1>4 DEF Push

LEMMA AnswerKeeps ==
  ASSUME MemoryInv, NEW c \in Checkout, Await(c) \/ Verify(c) \/ Reconcile(c)
  PROVE  MemoryInv'
<1> TypeInv
  BY DEF MemoryInv
<1> USE NoneAssumption
<1>1. UNCHANGED <<refVars, outside>> /\ call[c] \in CallType
  BY Typed DEF Await, Verify, Reconcile
<1>2. CASE To(c, "verifying") /\ At(c, "awaiting")
  BY <1>1, <1>2, GoOnStep DEF Publishing, Recovering, At
<1>3. CASE Concludes(c, "uncertain")
  BY <1>1, <1>3, EndStep, EndingFacts DEF Concludes
<1>4. CASE Verify(c) /\ remote = Target(c) /\ Concludes(c, "remote_verified")
  <2>1. Tells(c, call[c], "remote_verified", None) /\ call[c].target = Target(c)
    BY <1>4 DEF Concludes, Target
  <2>2. IsPrefix(Target(c), local[c]) /\ IsPrefix(Target(c), remote)
    BY <1>4, Typed, PrefixReflexive
    DEF Verify, At, Publishing, MemoryInv, CallInv, CallOf
  <2> QED
    BY <1>1, <2>1, <2>2, EndStep, EndingFacts
<1>5. CASE Reconcile(c)
  <2>1. PICK r \in Named :
          \/ \E how \in {"failed", "uncertain"} : Tells(c, r, how, None)
          \/ remote = r.target /\ Tells(c, r, "remote_verified", None)
    BY <1>5 DEF Reconcile
  <2>2. r \in CallType /\ r.id = None
    BY NamedFacts
  <2>3. CASE \E how \in {"failed", "uncertain"} : Tells(c, r, how, None)
    BY <1>1, <2>2, <2>3, EndStep, EndingFacts
  <2>4. CASE remote = r.target /\ Tells(c, r, "remote_verified", None)
    <3>1. IsPrefix(r.target, remote)
      BY <2>4, Typed, PrefixReflexive
    <3> QED
      BY <1>1, <2>2, <2>4, <3>1, EndStep, EndingFacts
  <2> QED
    BY <2>1, <2>3, <2>4
<1> QED
  BY <1>2, <1>3, <1>4, <1>5 DEF Await, Verify
-----------------------------------------------------------------------------
(* Every step: recovery. *)

LEMMA RecoverKeeps ==
  ASSUME MemoryInv, NEW c \in Checkout, Recover(c)
  PROVE  MemoryInv'
<1> TypeInv
  BY DEF MemoryInv
<1>1. UNCHANGED <<local, remote, owner, quarantine, flying, outside>>
  BY DEF Recover, refVars
<1>2. PICK m \in Ancestors(remote) \ {Absent}, x \in Ancestors(local[c]), id \in Operation :
        LET r == [Request(m, x) EXCEPT !.id = id]
        IN  \/ Goes(c, [r EXCEPT !.how = "failed"], "reporting")
            \/ Goes(c, r, "fetching") \/ Goes(c, r, "attaching") \/ Goes(c, r, "claiming")
  BY DEF Recover
<1>3. m \in Commit /\ x \in Commit /\ IsPrefix(m, remote)
  BY Typed, AncestorIs, Commits
<1>4. ASSUME NEW r \in CallType, NEW pc \in {"reporting", "fetching", "attaching", "claiming"},
             Goes(c, r, pc), r.target = m, r.id = id,
             pc = "reporting" => r.how = "failed"
      PROVE  MemoryInv'
  <2>1. /\ call' \in [Checkout -> CallType] /\ told' \in ToldType
        /\ call'[c].pc = pc /\ call'[c].target = m /\ call'[c].id = id
        /\ call'[c].how = r.how
        /\ \A d \in Checkout : d # c => call'[d] = call[d]
        /\ TellsTruth(c)
    BY <1>4, GoesFacts DEF Recovering
  <2>2. CallOf(c)'
    BY <1>1, <1>2, <1>3, <1>4, <2>1 DEF CallOf, At, Target, Publishing
  <2> QED
    BY <1>1, <2>1, <2>2, StillStep
<1> DEFINE r == [Request(m, x) EXCEPT !.id = id]
           q == [r EXCEPT !.how = "failed"]
<1>5. Request(m, x) \in CallType /\ Request(m, x).target = m
  BY <1>3, RequestFacts
<1>6. /\ r \in CallType /\ r.target = m /\ r.id = id
      /\ q \in CallType /\ q.target = m /\ q.id = id /\ q.how = "failed"
  BY <1>5 DEF CallType
<1>7. \/ Goes(c, q, "reporting") \/ Goes(c, r, "fetching")
      \/ Goes(c, r, "attaching") \/ Goes(c, r, "claiming")
  BY <1>2
<1> HIDE DEF r, q
<1> QED
  BY <1>4, <1>6, <1>7

(* A transaction on the two refs of the operation of c.                      *)
LEMMA RefsStep ==
  ASSUME MemoryInv, NEW c \in Checkout, call[c].pc \in Recovering,
         NEW own \in {None, "marker"}, NEW quar \in {None, "state"}, SetRefs(c, own, quar),
         quar = "state" => own = "marker"
  PROVE  /\ owner' \in [Checkout -> [Key -> {None, "marker", "foreign"}]]
         /\ quarantine' \in [Checkout -> [Key -> {None, "state", "foreign"}]]
         /\ \A d \in Checkout : d # c => owner'[d] = owner[d] /\ quarantine'[d] = quarantine[d]
         /\ Resumable'
         /\ KeyOf(c) = <<call[c].id, Target(c)>> /\ KeyOf(c) \in Key
         /\ owner'[c][KeyOf(c)] = own /\ quarantine'[c][KeyOf(c)] = quar
<1> TypeInv
  BY DEF MemoryInv
<1>1. KeyOf(c) = <<call[c].id, Target(c)>> /\ KeyOf(c) \in Key
  BY Typed DEF MemoryInv, CallInv, CallOf, KeyOf, Key, Target
<1>2. /\ owner' \in [Checkout -> [Key -> {None, "marker", "foreign"}]]
      /\ quarantine' \in [Checkout -> [Key -> {None, "state", "foreign"}]]
      /\ \A d \in Checkout : d # c => owner'[d] = owner[d] /\ quarantine'[d] = quarantine[d]
      /\ owner'[c][KeyOf(c)] = own /\ quarantine'[c][KeyOf(c)] = quar
      /\ \A k \in Key : k # KeyOf(c) =>
           owner'[c][k] = owner[c][k] /\ quarantine'[c][k] = quarantine[c][k]
  BY <1>1 DEF SetRefs, TypeInv
<1>3. Resumable'
  BY <1>2, NoneAssumption DEF MemoryInv, Resumable
<1> QED
  BY <1>1, <1>2, <1>3

(* The transaction and then the next step of the call, or its end. *)
LEMMA RefsCallStep ==
  ASSUME MemoryInv, NEW c \in Checkout, call[c].pc \in Recovering,
         NEW own \in {None, "marker"}, NEW quar \in {None, "state"}, SetRefs(c, own, quar),
         quar = "state" => own = "marker",
         UNCHANGED <<local, remote, flying, outside>>,
         \/ \E pc \in {"rereading", "attaching"} : To(c, pc)
         \/ \E how \in {"failed", "remote_verified"} :
              Reports(c, how) /\ (how = "remote_verified" => At(c, "cleaning"))
         \/ /\ At(c, "cleaning") /\ own = None /\ quar = None
            /\ Tells(c, call[c], "remote_verified", FALSE)
  PROVE  MemoryInv'
<1> TypeInv
  BY DEF MemoryInv
<1>1. /\ owner' \in [Checkout -> [Key -> {None, "marker", "foreign"}]]
      /\ quarantine' \in [Checkout -> [Key -> {None, "state", "foreign"}]]
      /\ \A d \in Checkout : d # c => owner'[d] = owner[d] /\ quarantine'[d] = quarantine[d]
      /\ Resumable'
      /\ KeyOf(c) = <<call[c].id, Target(c)>>
      /\ owner'[c][KeyOf(c)] = own /\ quarantine'[c][KeyOf(c)] = quar
  BY RefsStep
<1>2. /\ call[c].id \in Operation /\ Target(c) # Absent /\ IsPrefix(Target(c), remote)
      /\ At(c, "cleaning") => IsPrefix(Target(c), local[c])
      /\ ~At(c, "idle") /\ call[c] \in CallType
  BY Typed DEF MemoryInv, CallInv, CallOf, Recovering, At
<1>3. ASSUME call' \in [Checkout -> CallType], told' \in ToldType,
             \A d \in Checkout : d # c => call'[d] = call[d],
             CallOf(c)', TellsTruth(c) \/ told' = told
      PROVE  MemoryInv'
  <2>1. TypeInv'
    BY <1>1, <1>3 DEF TypeInv, outside
  <2>2. Grows
    BY NothingMoves
  <2> QED
    BY <1>1, <1>2, <1>3, <2>1, <2>2, CallerStep
<1>4. ASSUME NEW pc \in {"rereading", "attaching"}, To(c, pc)
      PROVE  MemoryInv'
  <2>1. /\ call' \in [Checkout -> CallType] /\ told' = told
        /\ call'[c].pc = pc /\ call'[c].target = call[c].target /\ call'[c].id = call[c].id
        /\ \A d \in Checkout : d # c => call'[d] = call[d]
    BY <1>4, ToFacts DEF Recovering
  <2>2. CallOf(c)'
    BY <1>2, <2>1 DEF CallOf, At, Target, Publishing
  <2> QED
    BY <1>3, <2>1, <2>2 DEF TypeInv
<1>5. ASSUME NEW how \in {"failed", "remote_verified"}, Reports(c, how),
             how = "remote_verified" => At(c, "cleaning")
      PROVE  MemoryInv'
  <2>1. /\ call' \in [Checkout -> CallType] /\ told' = told
        /\ call'[c].pc = "reporting" /\ call'[c].target = call[c].target
        /\ call'[c].id = call[c].id /\ call'[c].how = how
        /\ \A d \in Checkout : d # c => call'[d] = call[d]
    BY <1>5, ReportsFacts
  <2>2. CallOf(c)'
    BY <1>2, <1>5, <2>1 DEF CallOf, At, Target, Publishing
  <2> QED
    BY <1>3, <2>1, <2>2 DEF TypeInv
<1>6. CASE /\ At(c, "cleaning") /\ own = None /\ quar = None
           /\ Tells(c, call[c], "remote_verified", FALSE)
  <2>1. Tells(c, call[c], "remote_verified", FALSE)
    BY <1>6
  <2>2. /\ call' \in [Checkout -> CallType] /\ told' \in ToldType /\ CallOf(c)'
        /\ \A d \in Checkout : d # c => call'[d] = call[d]
    BY <1>2, <2>1, TellsFacts, EndingFacts
  <2>3. /\ IsPrefix(call[c].target, remote') /\ IsPrefix(call[c].target, local'[c])
        /\ call[c].id \in Operation
        /\ owner'[c][<<call[c].id, call[c].target>>] = None
        /\ quarantine'[c][<<call[c].id, call[c].target>>] = None
    BY <1>1, <1>2, <1>6 DEF Target
  <2>4. TellsTruth(c)
    BY <1>2, <2>1, <2>3, TellsTrue, EndingFacts
  <2> QED
    BY <1>3, <2>2, <2>4
<1> QED
  BY <1>4, <1>5, <1>6
LEMMA TransactionKeeps ==
  ASSUME MemoryInv, NEW c \in Checkout, Claim(c) \/ Quarantined(c) \/ Clean(c)
  PROVE  MemoryInv'
<1>1. /\ call[c].pc \in Recovering /\ UNCHANGED <<local, remote, flying, outside>>
      /\ Clean(c) => At(c, "cleaning")
  BY DEF Claim, Quarantined, Clean, At, Recovering
<1>2. CASE Claim(c)
  <2>1. PICK outcome \in Outcome :
          /\ IF Took(outcome) THEN SetRefs(c, "marker", None) ELSE UNCHANGED <<owner, quarantine>>
          /\ IF outcome = "done" THEN To(c, "rereading") ELSE Reports(c, "failed")
    BY <1>2 DEF Claim
  <2>2. CASE SetRefs(c, "marker", None)
    BY <1>1, <2>1, <2>2, RefsCallStep, NoneAssumption
  <2>3. CASE UNCHANGED <<owner, quarantine>> /\ Reports(c, "failed")
    BY <1>1, <2>3, ReportsStep DEF refVars
  <2> QED
    BY <2>1, <2>2, <2>3 DEF Took
<1>3. CASE Quarantined(c)
  <2>1. PICK outcome \in Outcome :
          /\ IF Took(outcome) THEN SetRefs(c, "marker", "state") ELSE UNCHANGED <<owner, quarantine>>
          /\ IF outcome = "done" THEN To(c, "attaching") ELSE Reports(c, "failed")
    BY <1>3 DEF Quarantined
  <2>2. CASE SetRefs(c, "marker", "state")
    BY <1>1, <2>1, <2>2, RefsCallStep
  <2>3. CASE UNCHANGED <<owner, quarantine>> /\ Reports(c, "failed")
    BY <1>1, <2>3, ReportsStep DEF refVars
  <2> QED
    BY <2>1, <2>2, <2>3 DEF Took
<1>4. CASE Clean(c)
  <2>1. PICK outcome \in Outcome :
          /\ IF Took(outcome) THEN SetRefs(c, None, None) ELSE UNCHANGED <<owner, quarantine>>
          /\ IF outcome = "done" THEN Tells(c, call[c], "remote_verified", FALSE)
             ELSE \E how \in {"remote_verified", "failed"} : Reports(c, how)
    BY <1>4 DEF Clean
  <2>2. CASE SetRefs(c, None, None)
    BY <1>1, <1>4, <2>1, <2>2, RefsCallStep, NoneAssumption
  <2>3. CASE /\ UNCHANGED <<owner, quarantine>>
             /\ \E how \in {"remote_verified", "failed"} : Reports(c, how)
    BY <1>1, <1>4, <2>3, ReportsStep DEF refVars
  <2> QED
    BY <2>1, <2>2, <2>3 DEF Took
<1> QED
  BY <1>2, <1>3, <1>4

LEMMA WaitingKeeps ==
  ASSUME MemoryInv, NEW c \in Checkout, Reread(c) \/ Fetch(c) \/ Report(c)
  PROVE  MemoryInv'
<1> TypeInv
  BY DEF MemoryInv
<1>1. /\ call[c].pc \in Recovering /\ ~At(c, "idle") /\ UNCHANGED <<refVars, outside>>
      /\ call[c] \in CallType
  BY Typed DEF Reread, Fetch, Report, At, Recovering
<1>2. CASE \E pc \in {"fetching", "quarantining"} : To(c, pc)
  BY <1>1, <1>2, GoOnStep DEF Publishing, Recovering
<1>3. CASE \E how \in {"failed", "uncertain"} : Reports(c, how)
  BY <1>1, <1>3, ReportsStep
<1>4. CASE Tells(c, call[c], "failed", TRUE)
  BY <1>1, <1>4, EndStep, EndingFacts
<1>5. CASE Report(c)
  <2>1. PICK retained \in {Owner(c) # None \/ Quarantine(c) # None, None} :
          Tells(c, call[c], call[c].how, retained)
    BY <1>5 DEF Report
  <2> DEFINE how == call[c].how
  <2>2. /\ how \in Ending
        /\ retained \in Keeping
    BY <1>1, <2>1 DEF CallType, Ending, Keeping
  <2>3. how = "remote_verified" =>
          IsPrefix(call[c].target, remote) /\ IsPrefix(call[c].target, local[c])
    BY <1>1, <1>5 DEF Report, MemoryInv, CallInv, CallOf, Target
  <2>4. retained = FALSE =>
          /\ call[c].id \in Operation
          /\ owner[c][<<call[c].id, call[c].target>>] = None
          /\ quarantine[c][<<call[c].id, call[c].target>>] = None
    BY <1>1, <2>1, NoneAssumption
    DEF MemoryInv, CallInv, CallOf, Owner, Quarantine, KeyOf
  <2>5. Tells(c, call[c], how, retained)
    BY <2>1
  <2> HIDE DEF how
  <2> QED
    BY <1>1, <2>2, <2>3, <2>4, <2>5, EndStep, EndingFacts
<1> QED
  BY <1>2, <1>3, <1>4, <1>5 DEF Reread, Fetch

LEMMA AttachedKeeps ==
  ASSUME MemoryInv, NEW c \in Checkout, Attached(c)
  PROVE  MemoryInv'
<1> TypeInv
  BY DEF MemoryInv
<1>1. /\ UNCHANGED <<remote, owner, quarantine, flying, outside>>
      /\ At(c, "attaching") /\ call[c].pc \in Recovering /\ ~At(c, "idle")
  BY DEF Attached, At, Recovering
<1>2. PICK outcome \in Outcome :
        /\ Took(outcome) => Attachable(c) /\ local[c] = call[c].expected
        /\ local' = [local EXCEPT ![c] = IF Took(outcome) THEN Target(c) ELSE @]
        /\ IF outcome = "done" THEN To(c, "cleaning") ELSE Reports(c, "failed")
  BY DEF Attached
<1>3. /\ local[c] \in Memory /\ Target(c) \in Commit
      /\ local[c] \in Seq(Author) /\ Target(c) \in Seq(Author)
      /\ remote \in Seq(Author) /\ local \in [Checkout -> Memory]
  BY Typed DEF TypeInv
<1>4. /\ local'[c] \in Memory /\ IsPrefix(local[c], local'[c])
      /\ Took(outcome) => local'[c] = Target(c)
  BY <1>2, <1>3, Commits, PrefixReflexive DEF Attachable
<1>5. /\ local' \in [Checkout -> Memory]
      /\ \A d \in Checkout : d # c => local'[d] = local[d]
  BY <1>2, <1>3, <1>4
<1>6. Grows
  BY <1>1, <1>4, <1>5, Typed, PrefixReflexive DEF Grows
<1>7. /\ call[c].id \in Operation /\ Target(c) # Absent /\ IsPrefix(Target(c), remote)
  BY <1>1 DEF MemoryInv, CallInv, CallOf
<1>8. /\ call' \in [Checkout -> CallType] /\ told' = told
      /\ \A d \in Checkout : d # c => call'[d] = call[d]
      /\ CallOf(c)'
  <2>1. CASE outcome = "done" /\ To(c, "cleaning")
    <3>1. /\ call' \in [Checkout -> CallType] /\ told' = told
          /\ call'[c].pc = "cleaning" /\ call'[c].target = call[c].target
          /\ call'[c].id = call[c].id
          /\ \A d \in Checkout : d # c => call'[d] = call[d]
      BY <2>1, ToFacts DEF Recovering
    <3>2. IsPrefix(Target(c), local'[c])
      BY <1>3, <1>4, <2>1, PrefixReflexive DEF Took
    <3> QED
      BY <1>1, <1>7, <3>1, <3>2 DEF CallOf, At, Target, Publishing
  <2>2. CASE Reports(c, "failed")
    <3>1. /\ call' \in [Checkout -> CallType] /\ told' = told
          /\ call'[c].pc = "reporting" /\ call'[c].target = call[c].target
          /\ call'[c].id = call[c].id /\ call'[c].how = "failed"
          /\ \A d \in Checkout : d # c => call'[d] = call[d]
      BY <2>2, ReportsFacts
    <3> QED
      BY <1>1, <1>7, <3>1 DEF CallOf, At, Target, Publishing
  <2> QED
    BY <1>2, <2>1, <2>2
<1>9. TypeInv'
  BY <1>1, <1>5, <1>8 DEF TypeInv, outside
<1>10. Resumable'
  BY <1>1 DEF MemoryInv, Resumable
<1> QED
  BY <1>1, <1>6, <1>8, <1>9, <1>10, CallerStep

-----------------------------------------------------------------------------
(* Every step: deaths, late pushes and outsiders. *)

LEMMA DieKeeps ==
  ASSUME MemoryInv, NEW c \in Checkout, Die(c)
  PROVE  MemoryInv'
<1> TypeInv
  BY DEF MemoryInv
<1>1. /\ UNCHANGED <<local, remote, owner, quarantine, flying, outside>>
      /\ ~At(c, "idle") /\ told' = told /\ told' \in ToldType
  BY DEF Die, refVars, TypeInv
<1>2. /\ call' \in [Checkout -> CallType] /\ call'[c] = Idle
      /\ \A d \in Checkout : d # c => call'[d] = call[d]
  BY AbsentFacts DEF Die, TypeInv
<1>3. CallOf(c)'
  BY <1>2 DEF CallOf, At, Idle, Publishing, Recovering
<1> QED
  BY <1>1, <1>2, <1>3, StillStep

(* The remote moves, or not; the calls stay where they are. *)
LEMMA RemoteStep ==
  ASSUME MemoryInv, TypeInv', Grows, UNCHANGED <<owner, quarantine, told>>,
         flying' \subseteq flying, \A c \in Checkout : SameCall(c)
  PROVE  MemoryInv'
<1>1. FlyingInv' /\ CallInv' /\ VerifiedStands'
  BY GrowthKeeps DEF FlyingInv, CallInv
<1>2. ToldInv'
  BY DEF MemoryInv, ToldInv, SameCall, At
<1>3. Resumable' /\ RetainedTold'
  BY DEF MemoryInv, Resumable, RetainedTold
<1> QED
  BY <1>1, <1>2, <1>3 DEF MemoryInv

LEMMA LandKeeps ==
  ASSUME MemoryInv, NEW p \in flying, Land(p)
  PROVE  MemoryInv'
<1> TypeInv
  BY DEF MemoryInv
<1>1. /\ p.from \in Checkout /\ p.new \in Commit /\ p.new \in Seq(Author)
      /\ remote \in Seq(Author)
      /\ Lineage(p.new) /\ IsPrefix(p.old, p.new)
  BY Typed DEF MemoryInv, FlyingInv, IsStrictPrefix
<1>2. /\ UNCHANGED <<local, owner, quarantine, told, outside>> /\ flying' \subseteq flying
      /\ remote' = IF remote = p.old THEN p.new ELSE remote
  BY DEF Land
<1>3. PICK answer \in {"landed", "rejected", call[p.from].answer} :
        call' = [call EXCEPT ![p.from].answer = answer]
  BY DEF Land
<1>4. call' \in [Checkout -> CallType] /\ \A c \in Checkout : SameCall(c)
  <2> DEFINE r == [call[p.from] EXCEPT !.answer = answer]
  <2>1. call[p.from] \in CallType
    BY <1>1, Typed
  <2>2. answer \in {"landed", "rejected", None}
    BY <2>1 DEF CallType
  <2>3. /\ r \in CallType /\ r.pc = call[p.from].pc /\ r.target = call[p.from].target
        /\ r.id = call[p.from].id /\ r.how = call[p.from].how
    BY <2>1, <2>2 DEF CallType
  <2>4. call' = [call EXCEPT ![p.from] = r]
    BY <1>3
  <2> HIDE DEF r
  <2> QED
    BY <1>1, <2>3, <2>4 DEF TypeInv, SameCall
<1>5. Shape(remote', intruded)
  <2>1. p.new \in Memory
    BY <1>1, Commits
  <2>2. Shape(p.new, intruded)
    BY <2>1, MemoryFacts, ShapeFacts DEF TypeInv
  <2> QED
    BY <1>2, <2>2 DEF TypeInv
<1>6. TypeInv'
  BY <1>2, <1>4, <1>5 DEF TypeInv, outside
<1>7. Grows
  BY <1>1, <1>2, Typed, PrefixReflexive DEF Grows
<1> QED
  BY <1>2, <1>4, <1>6, <1>7, RemoteStep

LEMMA IntrudeKeeps ==
  ASSUME MemoryInv, Intrude
  PROVE  MemoryInv'
<1> TypeInv
  BY DEF MemoryInv
<1>1. /\ UNCHANGED <<local, owner, quarantine, flying, call, told, replaced>>
      /\ intruded < MaxIntrusions /\ intruded' = intruded + 1
      /\ remote' = Append(remote, Outsider)
  BY DEF Intrude
<1>2. intruded \in Nat /\ MaxIntrusions \in Nat /\ Outsider \in Author
  BY MemoryAssumption DEF TypeInv, Author
<1>3. Shape(remote', intruded')
  BY <1>1, <1>2, ShapeFacts DEF TypeInv
<1>4. TypeInv'
  BY <1>1, <1>2, <1>3 DEF TypeInv
<1>5. Grows
  BY <1>1, <1>2, Typed, PrefixReflexive, PrefixOfAppend DEF Grows, IsStrictPrefix
<1> QED
  BY <1>1, <1>4, <1>5, RemoteStep DEF SameCall

LEMMA ReplaceKeeps ==
  ASSUME MemoryInv, NEW c \in Checkout, NEW k \in Key, Replace(c, k)
  PROVE  MemoryInv'
<1> TypeInv
  BY DEF MemoryInv
<1>1. /\ UNCHANGED <<local, remote, flying, call, told, intruded>>
      /\ replaced < MaxReplaced /\ replaced' = replaced + 1
      /\ owner[c][k] # None \/ KeyOf(c) = k
      /\ \/ owner' = [owner EXCEPT ![c][k] = "foreign"] /\ UNCHANGED quarantine
         \/ quarantine' = [quarantine EXCEPT ![c][k] = "foreign"] /\ UNCHANGED owner
  BY DEF Replace
<1>2. /\ owner' \in [Checkout -> [Key -> {None, "marker", "foreign"}]]
      /\ quarantine' \in [Checkout -> [Key -> {None, "state", "foreign"}]]
      /\ \A d \in Checkout : \A j \in Key :
           \/ owner'[d][j] = owner[d][j] /\ quarantine'[d][j] = quarantine[d][j]
           \/ /\ d = c /\ j = k
              /\ \/ owner'[d][j] = "foreign" /\ quarantine'[d][j] = quarantine[d][j]
                 \/ owner'[d][j] = owner[d][j] /\ quarantine'[d][j] = "foreign"
  <2>1. /\ owner \in [Checkout -> [Key -> {None, "marker", "foreign"}]]
        /\ quarantine \in [Checkout -> [Key -> {None, "state", "foreign"}]]
    BY DEF TypeInv
  <2>2. CASE owner' = [owner EXCEPT ![c][k] = "foreign"] /\ UNCHANGED quarantine
    <3>1. owner' \in [Checkout -> [Key -> {None, "marker", "foreign"}]]
      BY <2>1, <2>2
    <3>2. \A d \in Checkout : \A j \in Key :
            owner'[d][j] = owner[d][j] \/ (d = c /\ j = k /\ owner'[d][j] = "foreign")
      BY <2>1, <2>2
    <3> QED
      BY <2>1, <2>2, <3>1, <3>2
  <2>3. CASE quarantine' = [quarantine EXCEPT ![c][k] = "foreign"] /\ UNCHANGED owner
    <3>1. quarantine' \in [Checkout -> [Key -> {None, "state", "foreign"}]]
      BY <2>1, <2>3
    <3>2. \A d \in Checkout : \A j \in Key :
            quarantine'[d][j] = quarantine[d][j] \/ (d = c /\ j = k /\ quarantine'[d][j] = "foreign")
      BY <2>1, <2>3
    <3> QED
      BY <2>1, <2>3, <3>1, <3>2
  <2> QED
    BY <1>1, <2>2, <2>3
<1>3. TypeInv'
  <2>1. replaced' \in 0 .. MaxReplaced
    BY <1>1, MemoryAssumption DEF TypeInv
  <2> QED
    BY <1>1, <1>2, <2>1 DEF TypeInv
<1>4. Grows
  BY <1>1, NothingMoves
<1>5. FlyingInv' /\ CallInv' /\ VerifiedStands' /\ ToldInv'
  <2>1. FlyingInv' /\ VerifiedStands'
    BY <1>1, <1>3, <1>4, GrowthKeeps DEF FlyingInv
  <2>2. CallInv'
    BY <1>1, <1>3, <1>4, GrowthKeeps DEF CallInv, SameCall
  <2>3. ToldInv'
    BY <1>1 DEF MemoryInv, ToldInv, At
  <2> QED
    BY <2>1, <2>2, <2>3
<1>6. Resumable'
  BY <1>2, NoneAssumption DEF MemoryInv, Resumable
<1>7. RetainedTold'
  <2> SUFFICES ASSUME told.retained = FALSE
               PROVE  /\ owner'[told.by][<<told.id, told.target>>] = None
                      /\ quarantine'[told.by][<<told.id, told.target>>] = None
    BY <1>1 DEF RetainedTold
  <2>1. /\ told.by \in Checkout /\ call[told.by].pc = "idle" /\ told.id \in Operation
        /\ owner[told.by][<<told.id, told.target>>] = None
        /\ quarantine[told.by][<<told.id, told.target>>] = None
    BY DEF MemoryInv, ToldInv, RetainedTold, At
  <2>2. <<told.id, told.target>> \in Key
    BY <2>1, Typed DEF Key
  <2>3. ~(told.by = c /\ <<told.id, told.target>> = k)
    <3>1. ASSUME told.by = c, <<told.id, told.target>> = k
          PROVE  FALSE
      <4>1. KeyOf(c) = k
        BY <1>1, <2>1, <3>1
      <4>2. call[c].id \in Operation
        BY <2>1, <3>1, <4>1 DEF KeyOf
      <4>3. call[c].id = None
        BY <2>1, <3>1 DEF MemoryInv, CallInv, CallOf, At
      <4> QED
        BY <4>2, <4>3, NoneAssumption
    <3> QED
      BY <3>1
  <2> QED
    BY <1>2, <2>1, <2>2, <2>3
<1> QED
  BY <1>3, <1>5, <1>6, <1>7 DEF MemoryInv

-----------------------------------------------------------------------------
(* The invariant, for all steps. *)

LEMMA MemoryInit ==
  ASSUME Init
  PROVE  MemoryInv
<1>1. /\ local \in [Checkout -> Memory] /\ Shape(remote, intruded)
      /\ call \in [Checkout -> CallType] /\ told \in ToldType
  <2>1. Absent \in Memory /\ Absent \in Commit /\ Shape(Absent, 0)
    BY AbsentFacts, MemoryFacts
  <2>2. told \in ToldType
    BY <2>1 DEF Init, Untold, ToldType
  <2> QED
    BY <2>1, <2>2, AbsentFacts DEF Init
<1>2. TypeInv
  BY <1>1, MemoryAssumption DEF Init, TypeInv
<1>3. FlyingInv
  BY DEF Init, FlyingInv
<1>4. CallInv
  BY DEF Init, CallInv, CallOf, At, Idle, Publishing, Recovering
<1>5. ToldInv /\ VerifiedStands /\ RetainedTold
  BY NoneAssumption DEF Init, ToldInv, VerifiedStands, RetainedTold, Untold
<1>6. Resumable
  BY NoneAssumption DEF Init, Resumable
<1> QED
  BY <1>2, <1>3, <1>4, <1>5, <1>6 DEF MemoryInv

LEMMA MemoryStep ==
  ASSUME MemoryInv, [Next]_vars
  PROVE  MemoryInv'
<1>1. ASSUME NEW c \in Checkout,
             Checkpoint(c) \/ Synchronize(c) \/ Reconcile(c) \/ Recover(c) \/ Die(c)
      PROVE  MemoryInv'
  BY <1>1, CheckpointKeeps, SynchronizeKeeps, AnswerKeeps, RecoverKeeps, DieKeeps, Zenon
<1>2. ASSUME NEW c \in Checkout, CallStep(c)
      PROVE  MemoryInv'
  BY <1>2, PushKeeps, AnswerKeeps, TransactionKeeps, WaitingKeeps, AttachedKeeps, Zenon
  DEF CallStep
<1>3. ASSUME NEW c \in Checkout, NEW k \in Key, Replace(c, k)
      PROVE  MemoryInv'
  BY <1>3, ReplaceKeeps, Zenon
<1>4. ASSUME NEW p \in flying, Land(p)
      PROVE  MemoryInv'
  BY <1>4, LandKeeps, Zenon
<1>5. CASE Intrude
  BY <1>5, IntrudeKeeps, Zenon
<1>6. CASE UNCHANGED vars
  <2>1. TypeInv /\ UNCHANGED <<local, remote, owner, quarantine, flying, call, told>>
    BY <1>6 DEF MemoryInv, vars
  <2>2. TypeInv'
    BY <1>6 DEF MemoryInv, TypeInv, vars
  <2>3. \A c \in Checkout : SameCall(c)
    BY <2>1 DEF SameCall
  <2> QED
    BY <2>1, <2>2, <2>3, NothingMoves, RemoteStep
<1> QED
  BY <1>1, <1>2, <1>3, <1>4, <1>5, <1>6 DEF Next

(* The inductive invariant holds in every reachable state of a memory, its   *)
(* checkouts and its remote (memory.py, synchronization.py).                 *)
THEOREM MemoryConsistent == Spec => []MemoryInv
BY MemoryInit, MemoryStep, PTL DEF Spec

(* A State that was told to be verified at the remote stands there, and one  *)
(* that was recovered also in the checkout of the recovery, until the next   *)
(* call tells something else: whatever State a reconciliation names, and     *)
(* whatever late pushes and outsiders do (synchronization.py:872, 948, 1124).*)
THEOREM VerifiedStays == Spec => []VerifiedStands
<1>1. MemoryInv => VerifiedStands
  BY DEF MemoryInv
<1> QED
  BY <1>1, MemoryConsistent, PTL

(* What an interrupted recovery has left can be taken up again, and a result *)
(* that tells its refs to be gone is true (synchronization.py:1042, 1075).   *)
THEOREM RecoveryStands == Spec => []RecoveryInv
<1>1. MemoryInv => RecoveryInv
  <2> SUFFICES ASSUME MemoryInv PROVE TypeOK
    BY DEF MemoryInv, RecoveryInv
  <2>1. TypeInv
    BY DEF MemoryInv
  <2>2. /\ \A c \in Checkout : \A k \in Key : owner[c][k] \in {None, "marker", "foreign"}
        /\ \A c \in Checkout : \A k \in Key : quarantine[c][k] \in {None, "state", "foreign"}
    BY <2>1 DEF TypeInv
  <2>3. /\ local \in [Checkout -> Memory]
        /\ intruded \in 0 .. MaxIntrusions /\ replaced \in 0 .. MaxReplaced
    BY <2>1 DEF TypeInv
  <2>4. \A c \in Checkout : {call[c].target, call[c].expected, told.target} \subseteq Commit
    BY <2>1, Typed DEF Target
  <2>5. /\ remote \in Commit
        /\ \A p \in flying : p.from \in Checkout /\ {p.old, p.new} \subseteq Commit
    BY <2>1, Typed
  <2> QED
    BY <2>2, <2>3, <2>4, <2>5 DEF TypeOK
<1> QED
  BY <1>1, MemoryConsistent, PTL

-----------------------------------------------------------------------------
(* What a step may never do. *)

(* A transaction of the code on the two refs starts from its own or none. *)
LEMMA OwnRefsOnly ==
  ASSUME MemoryInv, NEW c \in Checkout, Claim(c) \/ Quarantined(c) \/ Clean(c),
         NEW d \in Checkout, NEW k \in Key
  PROVE  /\ owner[d][k] = "foreign" => owner'[d][k] = "foreign"
         /\ quarantine[d][k] = "foreign" => quarantine'[d][k] = "foreign"
<1>1. CASE UNCHANGED <<owner, quarantine>>
  BY <1>1
<1>2. ASSUME NEW own, NEW quar, SetRefs(c, own, quar),
             Owner(c) \in {None, "marker"}, Quarantine(c) \in {None, "state"}
      PROVE  /\ owner[d][k] = "foreign" => owner'[d][k] = "foreign"
             /\ quarantine[d][k] = "foreign" => quarantine'[d][k] = "foreign"
  <2>1. /\ owner \in [Checkout -> [Key -> {None, "marker", "foreign"}]]
        /\ quarantine \in [Checkout -> [Key -> {None, "state", "foreign"}]]
    BY DEF MemoryInv, TypeInv
  <2>2. CASE d = c /\ k = KeyOf(c)
    BY <1>2, <2>2, NoneAssumption DEF Owner, Quarantine
  <2>3. CASE ~(d = c /\ k = KeyOf(c))
    BY <1>2, <2>1, <2>3 DEF SetRefs
  <2> QED
    BY <2>2, <2>3
<1>3. CASE Claim(c)
  BY <1>1, <1>2, <1>3 DEF Claim
<1>4. CASE Quarantined(c)
  BY <1>1, <1>2, <1>4 DEF Quarantined
<1>5. CASE Clean(c)
  BY <1>1, <1>2, <1>5 DEF Clean
<1> QED
  BY <1>3, <1>4, <1>5

(* A ref that an outsider has replaced is never taken, moved or removed by a *)
(* recovery, whatever it believes of its refs (synchronization.py:1124).     *)
THEOREM ForeignRefsKept == Spec => ForeignKept
<1> DEFINE Kept == \A c \in Checkout : \A k \in Key :
              /\ owner[c][k] = "foreign" => owner'[c][k] = "foreign"
              /\ quarantine[c][k] = "foreign" => quarantine'[c][k] = "foreign"
<1>1. MemoryInv /\ [Next]_vars => Kept
  <2> SUFFICES ASSUME MemoryInv, [Next]_vars PROVE Kept
    OBVIOUS
  <2>1. CASE UNCHANGED <<owner, quarantine>>
    BY <2>1
  <2>2. ASSUME NEW c \in Checkout, Claim(c) \/ Quarantined(c) \/ Clean(c)
        PROVE  Kept
    BY <2>2, OwnRefsOnly
  <2>3. ASSUME NEW c \in Checkout, NEW k \in Key, Replace(c, k)
        PROVE  Kept
    <3>1. /\ owner \in [Checkout -> [Key -> {None, "marker", "foreign"}]]
          /\ quarantine \in [Checkout -> [Key -> {None, "state", "foreign"}]]
      BY DEF MemoryInv, TypeInv
    <3>2. CASE owner' = [owner EXCEPT ![c][k] = "foreign"] /\ UNCHANGED quarantine
      BY <3>1, <3>2
    <3>3. CASE quarantine' = [quarantine EXCEPT ![c][k] = "foreign"] /\ UNCHANGED owner
      BY <3>1, <3>3
    <3> QED
      BY <2>3, <3>2, <3>3 DEF Replace
  <2>4. ASSUME NEW c \in Checkout,
               \/ Checkpoint(c) \/ Synchronize(c) \/ Reconcile(c) \/ Recover(c) \/ Die(c)
               \/ Push(c) \/ Await(c) \/ Verify(c)
               \/ Reread(c) \/ Fetch(c) \/ Attached(c) \/ Report(c)
        PROVE  UNCHANGED <<owner, quarantine>>
    BY <2>4 DEF Checkpoint, Synchronize, Reconcile, Recover, Die, Push, Await, Verify,
                Reread, Fetch, Attached, Report, refVars
  <2>5. ASSUME (\E p \in flying : Land(p)) \/ Intrude \/ UNCHANGED vars
        PROVE  UNCHANGED <<owner, quarantine>>
    BY <2>5 DEF Land, Intrude, vars
  <2> HIDE DEF Kept
  <2> QED
    BY <2>1, <2>2, <2>3, <2>4, <2>5 DEF Next, CallStep
<1>2. MemoryInv /\ [Next]_vars =>
        [<<owner, quarantine>>' # <<owner, quarantine>> => Kept]_vars
  BY <1>1
<1> QED
  BY <1>2, MemoryConsistent, PTL DEF Spec, ForeignKept

-----------------------------------------------------------------------------
(* The refinement of MemoryLineage. *)

(* Steps that move no memory. *)
LEMMA LineageStill ==
  ASSUME NEW c \in Checkout,
         \/ Synchronize(c) \/ Reconcile(c) \/ Recover(c) \/ Die(c) \/ Push(c) \/ Await(c)
         \/ Verify(c) \/ Claim(c) \/ Reread(c) \/ Fetch(c) \/ Quarantined(c) \/ Clean(c)
         \/ Report(c) \/ \E k \in Key : Replace(c, k)
  PROVE  UNCHANGED <<local, remote>>
BY DEF Synchronize, Reconcile, Recover, Die, Push, Await, Verify, Claim, Reread, Fetch,
       Quarantined, Clean, Report, Replace, refVars

LEMMA CheckpointLineage ==
  ASSUME MemoryInv, NEW c \in Checkout, Checkpoint(c)
  PROVE  Lineages!Checkpoint(c) \/ UNCHANGED <<local, remote>>
<1>1. local \in [Checkout -> Memory] /\ remote' = remote
  BY DEF MemoryInv, TypeInv, Checkpoint
<1>2. ASSUME NEW m, NEW outcome, Took(outcome) => local[c] = m,
             local' = [local EXCEPT ![c] = IF Took(outcome) THEN Append(m, c) ELSE @]
      PROVE  Lineages!Checkpoint(c) \/ UNCHANGED <<local, remote>>
  <2>1. CASE Took(outcome)
    <3>1. local' = [local EXCEPT ![c] = Append(@, c)]
      BY <1>2, <2>1
    <3> QED
      BY <1>1, <3>1 DEF Lineages!Checkpoint
  <2>2. CASE ~Took(outcome)
    <3>1. local' = local
      BY <1>1, <1>2, <2>2
    <3> QED
      BY <1>1, <3>1
  <2> QED
    BY <2>1, <2>2
<1> QED
  BY <1>1, <1>2 DEF Checkpoint

LEMMA LandLineage ==
  ASSUME MemoryInv, NEW p \in flying, Land(p)
  PROVE  Lineages!Publish \/ UNCHANGED <<local, remote>>
<1>1. /\ local' = local /\ remote' = IF remote = p.old THEN p.new ELSE remote
  BY DEF Land
<1>2. CASE remote = p.old
  <2>1. /\ p.from \in Checkout /\ p.new \in Seq(Author) /\ local[p.from] \in Seq(Author)
        /\ Lineage(p.new) /\ IsStrictPrefix(p.old, p.new) /\ IsPrefix(p.new, local[p.from])
    BY Typed DEF MemoryInv, FlyingInv
  <2>2. p.new \in Ancestors(local[p.from]) /\ Len(p.new) # 0
    BY <2>1, AncestorIs DEF Lineage, Absent
  <2>3. PICK n \in 0 .. Len(local[p.from]) : p.new = SubSeq(local[p.from], 1, n)
    BY <2>2 DEF Ancestors
  <2>4. n \in 1 .. Len(local[p.from])
    <3>1. Len(p.new) = n
      BY <2>1, <2>3
    <3> QED
      BY <2>1, <2>2, <3>1
  <2>5. remote' \in {SubSeq(local[p.from], 1, i) : i \in 1 .. Len(local[p.from])}
    BY <1>1, <1>2, <2>3, <2>4
  <2>6. IsStrictPrefix(remote, remote')
    BY <1>1, <1>2, <2>1
  <2> QED
    BY <1>1, <2>1, <2>5, <2>6
    DEF Lineages!Publish, Lineages!IsStrictPrefix, Lineages!IsPrefix, IsStrictPrefix, IsPrefix
<1> QED
  BY <1>1, <1>2

LEMMA AttachedLineage ==
  ASSUME MemoryInv, NEW c \in Checkout, Attached(c)
  PROVE  Lineages!Recover(c) \/ UNCHANGED <<local, remote>>
<1>1. /\ remote' = remote /\ At(c, "attaching") /\ local \in [Checkout -> Memory]
  BY DEF Attached, MemoryInv, TypeInv
<1>2. PICK outcome \in Outcome :
        /\ Took(outcome) => Attachable(c) /\ local[c] = call[c].expected
        /\ local' = [local EXCEPT ![c] = IF Took(outcome) THEN Target(c) ELSE @]
  BY DEF Attached
<1>3. CASE ~Took(outcome) \/ local[c] = Target(c)
  <2>1. local' = local
    BY <1>1, <1>2, <1>3
  <2> QED
    BY <1>1, <2>1
<1>4. CASE Took(outcome) /\ local[c] # Target(c)
  <2>1. /\ local' = [local EXCEPT ![c] = Target(c)] /\ local'[c] = Target(c)
        /\ Lineage(Target(c)) /\ IsStrictPrefix(local[c], Target(c))
    BY <1>1, <1>2, <1>4 DEF Attachable, IsStrictPrefix
  <2>2. /\ Target(c) # Absent /\ IsPrefix(Target(c), remote)
        /\ Target(c) \in Seq(Author) /\ remote \in Seq(Author)
    BY <1>1, Typed DEF At, Recovering, MemoryInv, CallInv, CallOf
  <2>3. PICK n \in 0 .. Len(remote) : Target(c) = SubSeq(remote, 1, n)
    BY <2>2, AncestorIs DEF Ancestors
  <2>4. n \in 1 .. Len(remote)
    <3>1. Len(Target(c)) = n /\ Len(Target(c)) # 0
      BY <2>2, <2>3 DEF Absent
    <3> QED
      BY <2>2, <3>1
  <2>5. Outsider \notin ToSet(Target(c))
    BY <2>1, MemoryAssumption DEF Lineage, Bound, ToSet
  <2>6. \E i \in 1 .. Len(remote) : local' = [local EXCEPT ![c] = SubSeq(remote, 1, i)]
    BY <2>1, <2>3, <2>4
  <2> QED
    BY <1>1, <2>1, <2>5, <2>6
    DEF Lineages!Recover, Lineages!IsStrictPrefix, Lineages!IsPrefix, Lineages!ToSet,
        IsStrictPrefix, IsPrefix, ToSet
<1> QED
  BY <1>3, <1>4

(* Whatever is checkpointed, pushed, given up, recovered or cut off, the     *)
(* memory of the checkouts and of the remote is a run of MemoryLineage:      *)
(* every step of it is one of that specification's or moves no memory.       *)
THEOREM LineageRefined == Spec => LineageKept
<1>1. Init => Lineages!Init
  BY DEF Init, Lineages!Init, Absent
<1>2. MemoryInv /\ [Next]_vars => [Lineages!Next]_(Lineages!lineageVars)
  <2> SUFFICES ASSUME MemoryInv, [Next]_vars PROVE [Lineages!Next]_(Lineages!lineageVars)
    OBVIOUS
  <2>1. CASE UNCHANGED <<local, remote>>
    BY <2>1 DEF Lineages!lineageVars
  <2>2. ASSUME NEW c \in Checkout, Checkpoint(c)
        PROVE  Lineages!Next \/ UNCHANGED <<local, remote>>
    BY <2>2, CheckpointLineage DEF Lineages!Next
  <2>3. ASSUME NEW c \in Checkout, Attached(c)
        PROVE  Lineages!Next \/ UNCHANGED <<local, remote>>
    BY <2>3, AttachedLineage DEF Lineages!Next
  <2>4. ASSUME NEW p \in flying, Land(p)
        PROVE  Lineages!Next \/ UNCHANGED <<local, remote>>
    BY <2>4, LandLineage DEF Lineages!Next
  <2>5. CASE Intrude
    BY <2>5 DEF Intrude, Lineages!Intrude, Lineages!Next
  <2>6. CASE UNCHANGED vars
    BY <2>1, <2>6 DEF vars
  <2> QED
    BY <2>1, <2>2, <2>3, <2>4, <2>5, <2>6, LineageStill DEF Next, CallStep
<1> QED
  BY <1>1, <1>2, MemoryConsistent, PTL DEF Spec, LineageKept, Lineages!Spec
=============================================================================
