----------------------- MODULE UsageCollectionProofs -----------------------
(***************************************************************************)
(* The theorems of UsageCollection for all values of its constants.        *)
(*                                                                         *)
(* First what the operators on sequences do, for sequences of any length:  *)
(* Only and FlattenSeq are recursive functions, and what they compute is   *)
(* proved by induction, which follows from the well-foundedness of "less   *)
(* than".                                                                  *)
(*                                                                         *)
(* Then SharedInv, which no overlap and no kill breaks: a cursor, and a    *)
(* process that is past its append, answers for lines whose events are all *)
(* in the ledger, and of one file the ledger holds never a line without    *)
(* the lines before it.  Then SoloInv, while no two processes overlapped:  *)
(* what is appended comes after what is there, each record is exact, and   *)
(* the record a report replaces is the one it has read.                    *)
(***************************************************************************)
EXTENDS UsageCollectionInv, WellFoundedInduction, SequenceTheorems, TLAPS

-----------------------------------------------------------------------------

(* A set of numbers that is not empty has a smallest one: what the library *)
(* says of well-founded relations, for "less than".                        *)
LEMMA Smallest ==
  ASSUME NEW S \in SUBSET Nat, S # {}
  PROVE  \E n \in S : \A m \in S : n <= m
<1> DEFINE R == OpToRel(<, Nat)
<1> HIDE DEF R
<1>1. PICK n \in S : \A m \in S : ~ (<<m, n>> \in R)
  <2>1. IsWellFoundedOn(R, Nat)
    BY NatLessThanWellFounded DEF R
  <2> QED BY <2>1, WFMin
<1>2. SUFFICES ASSUME NEW m \in S PROVE n <= m
  BY <1>1
<1>3. m \in Nat /\ n \in Nat
  OBVIOUS
<1>4. ~ (m < n)
  BY <1>1, <1>3 DEF R, OpToRel
<1> QED BY <1>3, <1>4

(* Induction, over a set in place of a predicate.                          *)
LEMMA Induction ==
  ASSUME NEW S, 0 \in S, \A n \in Nat : n \in S => n + 1 \in S
  PROVE  Nat \subseteq S
<1> DEFINE T == {n \in Nat : n \notin S}
<1> SUFFICES ASSUME T # {} PROVE FALSE
  OBVIOUS
<1>1. PICK n \in T : \A m \in T : n <= m
  BY Smallest
<1>2. n # 0 /\ n - 1 \in Nat /\ n - 1 \notin T
  BY <1>1
<1> QED BY <1>1, <1>2

(* A value for every number up to n, each from the one before it.          *)
Steps(V, n) == [V \X (1 .. n) -> V]
Iterates(g, V, n, first, step) ==
  g \in [0 .. n -> V] /\ g[0] = first /\ \A i \in 1 .. n : g[i] = step[<<g[i - 1], i>>]

(* A function can be defined by a first value and a step.                  *)
LEMMA Recursion ==
  ASSUME NEW V, NEW n \in Nat, NEW first \in V, NEW step, step \in Steps(V, n)
  PROVE  \E g : Iterates(g, V, n, first, step)
<1> DEFINE S == {m \in Nat : m <= n =>
                  \E g \in [0 .. m -> V] : g[0] = first /\ \A i \in 1 .. m : g[i] = step[<<g[i - 1], i>>]}
<1>0. step \in [V \X (1 .. n) -> V]
  BY DEF Steps
<1>1. 0 \in S
  <2> DEFINE g == [i \in 0 .. 0 |-> first]
  <2>1. g \in [0 .. 0 -> V] /\ g[0] = first
    OBVIOUS
  <2> HIDE DEF g
  <2>2. \A i \in 1 .. 0 : g[i] = step[<<g[i - 1], i>>]
    OBVIOUS
  <2> QED BY <2>1, <2>2
<1>2. ASSUME NEW m \in Nat, m \in S, m + 1 <= n
      PROVE  \E g \in [0 .. m + 1 -> V] : g[0] = first /\ \A i \in 1 .. m + 1 : g[i] = step[<<g[i - 1], i>>]
  <2>0. m <= n
    BY <1>2
  <2>1. PICK g \in [0 .. m -> V] : g[0] = first /\ \A i \in 1 .. m : g[i] = step[<<g[i - 1], i>>]
    BY <1>2, <2>0
  <2> DEFINE h == [i \in 0 .. m + 1 |-> IF i = m + 1 THEN step[<<g[m], m + 1>>] ELSE g[i]]
  <2>2. step[<<g[m], m + 1>>] \in V
    <3>1. g[m] \in V
      OBVIOUS
    <3>2. m + 1 \in 1 .. n
      BY <1>2
    <3>3. <<g[m], m + 1>> \in V \X (1 .. n)
      BY <3>1, <3>2
    <3> QED BY <1>0, <3>3
  <2>3. ASSUME NEW i \in 0 .. m + 1 PROVE h[i] \in V
    <3>1. i = m + 1 \/ i \in 0 .. m
      OBVIOUS
    <3> QED BY <2>2, <3>1
  <2>4. h \in [0 .. m + 1 -> V]
    BY <2>3
  <2>5. \A i \in 0 .. m : h[i] = g[i]
    OBVIOUS
  <2>6. h[m + 1] = step[<<h[m], m + 1>>]
    <3>1. h[m + 1] = step[<<g[m], m + 1>>]
      OBVIOUS
    <3>2. h[m] = g[m]
      BY <2>5
    <3> QED BY <3>1, <3>2
  <2> HIDE DEF h
  <2>7. h[0] = first
    BY <2>1, <2>5
  <2>8. ASSUME NEW i \in 1 .. m + 1 PROVE h[i] = step[<<h[i - 1], i>>]
    <3>1. CASE i = m + 1
      BY <2>6, <3>1
    <3>2. CASE i # m + 1
      <4>1. i \in 1 .. m /\ i - 1 \in 0 .. m /\ i \in 0 .. m
        BY <3>2
      <4> QED BY <2>1, <2>5, <4>1
    <3> QED BY <3>1, <3>2
  <2> QED BY <2>4, <2>7, <2>8
<1>3. \A m \in Nat : m \in S => m + 1 \in S
  <2> SUFFICES ASSUME NEW m \in Nat, m \in S PROVE m + 1 \in S
    OBVIOUS
  <2>1. m + 1 <= n => \E g \in [0 .. m + 1 -> V] : g[0] = first /\ \A i \in 1 .. m + 1 : g[i] = step[<<g[i - 1], i>>]
    BY <1>2
  <2> QED BY <2>1
<1>4. n \in S
  <2> HIDE DEF S
  <2> QED BY <1>1, <1>3, Induction
<1> QED BY <1>4 DEF Iterates

(* A set that holds the empty sequence, and with a sequence each one that  *)
(* is longer by one, holds all.                                            *)
LEMMA SequenceInduction ==
  ASSUME NEW E, NEW P, <<>> \in P, \A s \in Seq(E), e \in E : s \in P => Append(s, e) \in P
  PROVE  Seq(E) \subseteq P
<1> DEFINE S == {n \in Nat : \A s \in Seq(E) : Len(s) = n => s \in P}
<1>1. 0 \in S
  <2> SUFFICES ASSUME NEW s \in Seq(E), Len(s) = 0 PROVE s \in P
    OBVIOUS
  <2>1. s = <<>>
    OBVIOUS
  <2> QED BY <2>1
<1>2. ASSUME NEW n \in Nat, n \in S, NEW s \in Seq(E), Len(s) = n + 1 PROVE s \in P
  <2>1. PICK t \in Seq(E), e \in E : s = Append(t, e)
    BY <1>2, SequenceEmptyOrAppend
  <2>2. Len(t) = n
    BY <1>2, <2>1
  <2>3. t \in P
    BY <1>2, <2>2
  <2> QED BY <2>1, <2>3
<1>3. \A n \in Nat : n \in S => n + 1 \in S
  BY <1>2
<1>4. Nat \subseteq S
  <2> HIDE DEF S
  <2> QED BY <1>1, <1>3, Induction
<1> SUFFICES ASSUME NEW s \in Seq(E) PROVE s \in P
  OBVIOUS
<1>5. Len(s) \in S
  BY <1>4
<1> QED BY <1>5

-----------------------------------------------------------------------------
(* A function that lists the elements of s that are in T, up to each       *)
(* place.                                                                  *)
Filters(g, s, T) ==
  g = [n \in 0 .. Len(s) |->
         IF n = 0 THEN <<>> ELSE IF s[n] \in T THEN Append(g[n - 1], s[n]) ELSE g[n - 1]]

(* There is such a function,                                               *)
LEMMA FilterExists ==
  ASSUME NEW E, NEW s \in Seq(E), NEW T
  PROVE  \E g : Filters(g, s, T)
<1> DEFINE step == [p \in Seq(E) \X (1 .. Len(s)) |-> IF s[p[2]] \in T THEN Append(p[1], s[p[2]]) ELSE p[1]]
<1>0. Len(s) \in Nat /\ <<>> \in Seq(E)
  OBVIOUS
<1>1. step \in [Seq(E) \X (1 .. Len(s)) -> Seq(E)]
  <2> SUFFICES ASSUME NEW p \in Seq(E) \X (1 .. Len(s)) PROVE step[p] \in Seq(E)
    OBVIOUS
  <2>1. p[1] \in Seq(E) /\ s[p[2]] \in E
    OBVIOUS
  <2>2. Append(p[1], s[p[2]]) \in Seq(E)
    BY <2>1
  <2> QED BY <2>1, <2>2
<1>2. \A v \in Seq(E), i \in 1 .. Len(s) : step[<<v, i>>] = IF s[i] \in T THEN Append(v, s[i]) ELSE v
  OBVIOUS
<1> HIDE DEF step
<1>3. PICK g : Iterates(g, Seq(E), Len(s), <<>>, step)
  <2>1. step \in Steps(Seq(E), Len(s))
    BY <1>1 DEF Steps
  <2> QED BY <1>0, <2>1, Recursion
<1> USE <1>3 DEF Iterates
<1>4. ASSUME NEW n \in 0 .. Len(s)
      PROVE  g[n] = IF n = 0 THEN <<>> ELSE IF s[n] \in T THEN Append(g[n - 1], s[n]) ELSE g[n - 1]
  <2>1. CASE n = 0
    BY <1>3, <2>1
  <2>2. CASE n # 0
    <3>1. n \in 1 .. Len(s) /\ n - 1 \in 0 .. Len(s)
      BY <2>2
    <3>2. g[n - 1] \in Seq(E)
      BY <3>1
    <3>3. g[n] = step[<<g[n - 1], n>>]
      BY <1>3, <3>1
    <3>4. step[<<g[n - 1], n>>] = IF s[n] \in T THEN Append(g[n - 1], s[n]) ELSE g[n - 1]
      BY <1>2, <3>1, <3>2
    <3> QED BY <2>2, <3>3, <3>4
  <2> QED BY <2>1, <2>2
<1>5. g = [n \in 0 .. Len(s) |->
             IF n = 0 THEN <<>> ELSE IF s[n] \in T THEN Append(g[n - 1], s[n]) ELSE g[n - 1]]
  BY <1>4
<1> QED BY <1>5 DEF Filters

(* and what it lists depends on nothing but the elements it has passed.    *)
LEMMA FilterAgrees ==
  ASSUME NEW E, NEW s \in Seq(E), NEW t \in Seq(E), NEW T, NEW g, NEW h, Filters(g, s, T), Filters(h, t, T),
         NEW m \in Nat, m =< Len(s), m =< Len(t), \A i \in 1 .. m : s[i] = t[i]
  PROVE  g[m] = h[m]
<1> DEFINE S == {n \in Nat : n =< m => g[n] = h[n]}
<1>0. /\ \A n \in 0 .. Len(s) : g[n] = IF n = 0 THEN <<>> ELSE IF s[n] \in T THEN Append(g[n - 1], s[n]) ELSE g[n - 1]
      /\ \A n \in 0 .. Len(t) : h[n] = IF n = 0 THEN <<>> ELSE IF t[n] \in T THEN Append(h[n - 1], t[n]) ELSE h[n - 1]
  BY DEF Filters
<1>1. 0 \in S
  BY <1>0
<1>2. ASSUME NEW n \in Nat, n \in S, n + 1 =< m PROVE g[n + 1] = h[n + 1]
  <2>1. n + 1 \in 0 .. Len(s) /\ n + 1 \in 0 .. Len(t) /\ n + 1 # 0 /\ (n + 1) - 1 = n /\ s[n + 1] = t[n + 1]
    BY <1>2
  <2>2. g[n] = h[n]
    BY <1>2
  <2> QED BY <1>0, <2>1, <2>2
<1>3. \A n \in Nat : n \in S => n + 1 \in S
  BY <1>2
<1>4. m \in S
  <2> HIDE DEF S
  <2> QED BY <1>1, <1>3, Induction
<1> QED BY <1>4

(* So Among(s, T), which Only defines by a recursive function, is its last *)
(* value.                                                                  *)
LEMMA AmongIs ==
  ASSUME NEW E, NEW s \in Seq(E), NEW T
  PROVE  \E g : Filters(g, s, T) /\ Among(s, T) = g[Len(s)]
<1>1. \A g : Filters(g, s, T) <=>
        g = [n \in 0 .. Len(s) |->
               IF n = 0 THEN <<>> ELSE IF s[n] \in T THEN Append(g[n - 1], s[n]) ELSE g[n - 1]]
  BY DEF Filters
<1>2. \E g : Filters(g, s, T)
  BY FilterExists
<1> QED BY <1>1, <1>2 DEF Among, Only

(* The other uses of Only in the model are of this form, too.              *)
LEMMA UnseenIs ==
  ASSUME NEW E, NEW s \in Seq(E), NEW ids
  PROVE  Unseen(s, ids) = Among(s, E \ ids)
<1>1. \A g : Filters(g, s, E \ ids) <=>
        g = [n \in 0 .. Len(s) |->
               IF n = 0 THEN <<>> ELSE IF s[n] \notin ids THEN Append(g[n - 1], s[n]) ELSE g[n - 1]]
  BY DEF Filters
<1>2. \E g : Filters(g, s, E \ ids) /\ Unseen(s, ids) = g[Len(s)]
  BY <1>1, FilterExists DEF Unseen, Only
<1> QED BY <1>2, AmongIs, FilterAgrees

(* The readings of the ledger.                                             *)
LEMMA ReadingsIs ==
  ASSUME NEW E, NEW s \in Seq(E)
  PROVE  Readings(s) = Among(s, {e \in E : e.type = "allowance"})
<1> DEFINE T == {e \in E : e.type = "allowance"}
<1>1. \A g : Filters(g, s, T) <=>
        g = [n \in 0 .. Len(s) |->
               IF n = 0 THEN <<>> ELSE IF s[n].type = "allowance" THEN Append(g[n - 1], s[n]) ELSE g[n - 1]]
  BY DEF Filters
<1> HIDE DEF T
<1>2. \E g : Filters(g, s, T) /\ Readings(s) = g[Len(s)]
  BY <1>1, FilterExists DEF Readings, Only
<1>3. Readings(s) = Among(s, T)
  BY <1>2, AmongIs, FilterAgrees
<1> QED BY <1>3 DEF T

(* The calls of some turns.                                                *)
LEMMA AggregateIs ==
  ASSUME NEW E, NEW s \in Seq(E), NEW turns
  PROVE  AggregateTurns(s, turns) = Among(s, {e \in E : e.type = "tokens" /\ e.gen = 1 /\ e.line \in turns})
<1> DEFINE T == {e \in E : e.type = "tokens" /\ e.gen = 1 /\ e.line \in turns}
<1>1. \A g : Filters(g, s, T) <=>
        g = [n \in 0 .. Len(s) |->
               IF n = 0 THEN <<>>
               ELSE IF s[n].type = "tokens" /\ s[n].gen = 1 /\ s[n].line \in turns THEN Append(g[n - 1], s[n])
                    ELSE g[n - 1]]
  BY DEF Filters
<1> HIDE DEF T
<1>2. \E g : Filters(g, s, T) /\ AggregateTurns(s, turns) = g[Len(s)]
  BY <1>1, FilterExists DEF AggregateTurns, Only
<1>3. AggregateTurns(s, turns) = Among(s, T)
  BY <1>2, AmongIs, FilterAgrees
<1> QED BY <1>3 DEF T

(* The last observation.                                                   *)
LEMMA LatestIs ==
  ASSUME NEW E, NEW s \in Seq(E)
  PROVE  \E calls : /\ calls = Among(s, {e \in E : e.type = "tokens"})
                    /\ LatestObservation(s) = IF calls = <<>> THEN None ELSE Last(calls)
<1> DEFINE T == {e \in E : e.type = "tokens"}
<1>1. \A g : Filters(g, s, T) <=>
        g = [n \in 0 .. Len(s) |->
               IF n = 0 THEN <<>> ELSE IF s[n].type = "tokens" THEN Append(g[n - 1], s[n]) ELSE g[n - 1]]
  BY DEF Filters
<1> HIDE DEF T
<1>2. \E g : Filters(g, s, T) /\ Only(s, LAMBDA e : e.type = "tokens") = g[Len(s)]
  BY <1>1, FilterExists DEF Only
<1>3. Only(s, LAMBDA e : e.type = "tokens") = Among(s, T)
  BY <1>2, AmongIs, FilterAgrees
<1> QED BY <1>3 DEF T, LatestObservation

-----------------------------------------------------------------------------
(* A sequence and one more element.                                        *)
LEMMA AppendFacts ==
  ASSUME NEW E, NEW s \in Seq(E), NEW e \in E
  PROVE  /\ Append(s, e) \in Seq(E)
         /\ Len(Append(s, e)) = Len(s) + 1
         /\ DOMAIN Append(s, e) = 1 .. Len(s) + 1
         /\ \A i \in 1 .. Len(s) : Append(s, e)[i] = s[i]
         /\ Append(s, e)[Len(s) + 1] = e
         /\ Range(Append(s, e)) = Range(s) \union {e}
<1>1. /\ Append(s, e) \in Seq(E)
      /\ Len(Append(s, e)) = Len(s) + 1
      /\ \A i \in 1 .. Len(s) : Append(s, e)[i] = s[i]
      /\ Append(s, e)[Len(s) + 1] = e
  BY AppendProperties
<1>2. DOMAIN Append(s, e) = 1 .. Len(s) + 1 /\ DOMAIN s = 1 .. Len(s) /\ Len(s) \in Nat
  BY <1>1, LenProperties
<1> HIDE DEF Append
<1>3. Range(Append(s, e)) \subseteq Range(s) \union {e}
  <2> SUFFICES ASSUME NEW i \in 1 .. Len(s) + 1 PROVE Append(s, e)[i] \in Range(s) \union {e}
    BY <1>2 DEF Range
  <2>1. i \in 1 .. Len(s) \/ i = Len(s) + 1
    BY <1>2
  <2> QED BY <1>1, <1>2, <2>1 DEF Range
<1>4. Range(s) \subseteq Range(Append(s, e))
  <2> SUFFICES ASSUME NEW i \in 1 .. Len(s) PROVE s[i] \in Range(Append(s, e))
    BY <1>2 DEF Range
  <2> QED BY <1>1, <1>2 DEF Range
<1>5. e \in Range(Append(s, e))
  BY <1>1, <1>2 DEF Range
<1> QED BY <1>1, <1>2, <1>3, <1>4, <1>5

(* What Among does to the empty sequence,                                  *)
LEMMA AmongEmpty == \A T : Among(<<>>, T) = <<>>
<1> SUFFICES ASSUME NEW T PROVE Among(<<>>, T) = <<>>
  OBVIOUS
<1>1. PICK g : Filters(g, <<>>, T) /\ Among(<<>>, T) = g[0]
  <2>1. <<>> \in Seq({}) /\ Len(<<>>) = 0
    OBVIOUS
  <2> QED BY <2>1, AmongIs
<1> QED BY <1>1 DEF Filters

(* one more element,                                                       *)
LEMMA AmongAppend ==
  ASSUME NEW E, NEW s \in Seq(E), NEW e \in E, NEW T
  PROVE  Among(Append(s, e), T) = IF e \in T THEN Append(Among(s, T), e) ELSE Among(s, T)
<1> DEFINE t == Append(s, e)
<1>1. /\ t \in Seq(E) /\ Len(t) = Len(s) + 1 /\ Len(s) \in Nat
      /\ \A i \in 1 .. Len(s) : s[i] = t[i]
      /\ t[Len(s) + 1] = e
  BY AppendFacts, LenProperties
<1> HIDE DEF t
<1>2. PICK g : Filters(g, s, T) /\ Among(s, T) = g[Len(s)]
  BY AmongIs
<1>3. PICK h : Filters(h, t, T) /\ Among(t, T) = h[Len(t)]
  BY <1>1, AmongIs
<1>4. g[Len(s)] = h[Len(s)]
  <2>1. Len(s) =< Len(s) /\ Len(s) =< Len(t)
    BY <1>1
  <2> QED BY <1>1, <1>2, <1>3, <2>1, FilterAgrees
<1>5. h[Len(t)] = IF e \in T THEN Append(h[Len(s)], e) ELSE h[Len(s)]
  <2>1. Len(t) \in 0 .. Len(t) /\ Len(t) # 0 /\ Len(t) - 1 = Len(s) /\ t[Len(t)] = e
    BY <1>1
  <2>2. h[Len(t)] = IF Len(t) = 0 THEN <<>> ELSE IF t[Len(t)] \in T THEN Append(h[Len(t) - 1], t[Len(t)])
                                                ELSE h[Len(t) - 1]
    BY <1>3, <2>1 DEF Filters
  <2> QED BY <2>1, <2>2
<1> QED BY <1>2, <1>3, <1>4, <1>5 DEF t

(* what the result contains,                                               *)
LEMMA AmongType ==
  ASSUME NEW E, NEW T
  PROVE  \A s \in Seq(E) : Among(s, T) \in Seq(E) /\ Range(Among(s, T)) = Range(s) \intersect T
<1> DEFINE P == {s \in Seq(E) : Among(s, T) \in Seq(E) /\ Range(Among(s, T)) = Range(s) \intersect T}
<1>1. <<>> \in P
  <2>1. <<>> \in Seq(E) /\ Range(<<>>) = {}
    BY DEF Range
  <2> QED BY <2>1, AmongEmpty
<1>2. ASSUME NEW s \in Seq(E), NEW e \in E, s \in P PROVE Append(s, e) \in P
  <2>1. Among(s, T) \in Seq(E) /\ Range(Among(s, T)) = Range(s) \intersect T
    BY <1>2
  <2>2. /\ Append(s, e) \in Seq(E)
        /\ Range(Append(s, e)) = Range(s) \union {e}
        /\ Append(Among(s, T), e) \in Seq(E)
        /\ Range(Append(Among(s, T), e)) = Range(Among(s, T)) \union {e}
    BY <2>1, AppendFacts
  <2>3. Among(Append(s, e), T) = IF e \in T THEN Append(Among(s, T), e) ELSE Among(s, T)
    BY AmongAppend
  <2>4. CASE e \in T
    BY <2>1, <2>2, <2>3, <2>4
  <2>5. CASE e \notin T
    BY <2>1, <2>2, <2>3, <2>5
  <2> QED BY <2>4, <2>5
<1>3. Seq(E) \subseteq P
  <2> HIDE DEF P
  <2> QED BY <1>1, <1>2, SequenceInduction
<1> QED BY <1>3

(* two sequences in turn,                                                  *)
LEMMA AmongConcat ==
  ASSUME NEW E, NEW s \in Seq(E), NEW T
  PROVE  \A t \in Seq(E) : Among(s \o t, T) = Among(s, T) \o Among(t, T)
<1> DEFINE P == {t \in Seq(E) : Among(s \o t, T) = Among(s, T) \o Among(t, T)}
<1>1. <<>> \in P
  <2>1. s \o <<>> = s /\ Among(s, T) \o <<>> = Among(s, T) /\ <<>> \in Seq(E)
    BY AmongType, ConcatEmptySeq
  <2> QED BY <2>1, AmongEmpty
<1>2. ASSUME NEW t \in Seq(E), NEW e \in E, t \in P PROVE Append(t, e) \in P
  <2>1. /\ <<e>> \in Seq(E)
        /\ s \o t \in Seq(E) /\ Append(t, e) = t \o <<e>> /\ Append(t, e) \in Seq(E)
        /\ Append(s \o t, e) = (s \o t) \o <<e>>
    BY AppendIsConcat, ConcatProperties, AppendProperties
  <2>2. s \o Append(t, e) = Append(s \o t, e)
    BY <2>1, ConcatAssociative
  <2>3. Among(s, T) \in Seq(E) /\ Among(t, T) \in Seq(E)
    BY AmongType
  <2>4. Append(Among(s, T) \o Among(t, T), e) = Among(s, T) \o Append(Among(t, T), e)
    <3>1. PICK a \in Seq(E), b \in Seq(E) : a = Among(s, T) /\ b = Among(t, T)
      BY <2>3
    <3>2. Append(b, e) = b \o <<e>> /\ Append(a \o b, e) = (a \o b) \o <<e>>
      BY AppendIsConcat, ConcatProperties
    <3>3. (a \o b) \o <<e>> = a \o (b \o <<e>>)
      <4>1. <<e>> \in Seq(E)
        BY <2>1
      <4> QED BY ONLY <4>1, a \in Seq(E), b \in Seq(E), ConcatAssociative
    <3>4. Append(a \o b, e) = a \o Append(b, e)
      BY ONLY <3>2, <3>3
    <3> QED BY <3>1, <3>4
  <2>5. Among(s \o t, T) = Among(s, T) \o Among(t, T)
    BY <1>2
  <2>6. Among(Append(s \o t, e), T) = IF e \in T THEN Append(Among(s \o t, T), e) ELSE Among(s \o t, T)
    <3> DEFINE w == s \o t
    <3>1. w \in Seq(E)
      BY <2>1
    <3> HIDE DEF w
    <3>2. Among(Append(w, e), T) = IF e \in T THEN Append(Among(w, T), e) ELSE Among(w, T)
      BY <3>1, AmongAppend
    <3> QED BY <3>2 DEF w
  <2>7. Among(Append(t, e), T) = IF e \in T THEN Append(Among(t, T), e) ELSE Among(t, T)
    BY AmongAppend
  <2> QED BY <2>1, <2>2, <2>4, <2>5, <2>6, <2>7
<1>3. Seq(E) \subseteq P
  <2> HIDE DEF P
  <2> QED BY <1>1, <1>2, SequenceInduction
<1> QED BY <1>3

(* and on what the result depends.                                         *)
LEMMA AmongSame ==
  ASSUME NEW E, NEW T, NEW U
  PROVE  \A s \in Seq(E) : Range(s) \intersect T = Range(s) \intersect U => Among(s, T) = Among(s, U)
<1> DEFINE P == {s \in Seq(E) : Range(s) \intersect T = Range(s) \intersect U => Among(s, T) = Among(s, U)}
<1>1. <<>> \in P
  BY AmongEmpty
<1>2. ASSUME NEW s \in Seq(E), NEW e \in E, s \in P PROVE Append(s, e) \in P
  <2>1. Append(s, e) \in Seq(E) /\ Range(Append(s, e)) = Range(s) \union {e}
    BY AppendFacts
  <2>2. SUFFICES ASSUME Range(Append(s, e)) \intersect T = Range(Append(s, e)) \intersect U
                 PROVE  Among(Append(s, e), T) = Among(Append(s, e), U)
    BY <2>1
  <2>3. Range(s) \intersect T = Range(s) \intersect U /\ (e \in T <=> e \in U)
    BY <2>1, <2>2
  <2>4. Among(s, T) = Among(s, U)
    BY <1>2, <2>3
  <2>5. Among(Append(s, e), T) = IF e \in T THEN Append(Among(s, T), e) ELSE Among(s, T)
    BY AmongAppend
  <2>6. Among(Append(s, e), U) = IF e \in U THEN Append(Among(s, U), e) ELSE Among(s, U)
    BY AmongAppend
  <2> QED BY <2>3, <2>4, <2>5, <2>6
<1>3. Seq(E) \subseteq P
  <2> HIDE DEF P
  <2> QED BY <1>1, <1>2, SequenceInduction
<1> QED BY <1>3

(* Nothing in, nothing out.                                                *)
LEMMA AmongNone ==
  ASSUME NEW E, NEW s \in Seq(E), NEW T, Range(s) \intersect T = {}
  PROVE  Among(s, T) = <<>>
<1>1. Among(s, T) \in Seq(E) /\ Range(Among(s, T)) = {}
  BY AmongType
<1>2. DOMAIN Among(s, T) = 1 .. Len(Among(s, T)) /\ Len(Among(s, T)) \in Nat
  BY <1>1, LenProperties
<1>3. Len(Among(s, T)) = 0
  <2> SUFFICES ASSUME Len(Among(s, T)) # 0 PROVE FALSE
    OBVIOUS
  <2>1. 1 \in DOMAIN Among(s, T)
    BY <1>2
  <2>2. Among(s, T)[1] \in Range(Among(s, T))
    BY <2>1 DEF Range
  <2> QED BY <1>1, <2>2
<1> QED BY <1>1, <1>3, EmptySeq

-----------------------------------------------------------------------------

(* Two sequences in turn: where the elements of each are.                  *)
LEMMA ConcatFacts ==
  ASSUME NEW E, NEW s \in Seq(E), NEW t \in Seq(E)
  PROVE  /\ s \o t \in Seq(E)
         /\ DOMAIN s = 1 .. Len(s) /\ DOMAIN t = 1 .. Len(t) /\ DOMAIN (s \o t) = 1 .. Len(s) + Len(t)
         /\ Len(s) \in Nat /\ Len(t) \in Nat
         /\ \A i \in DOMAIN s : (s \o t)[i] = s[i]
         /\ \A i \in DOMAIN t : Len(s) + i \in DOMAIN (s \o t) /\ (s \o t)[Len(s) + i] = t[i]
         /\ \A i \in DOMAIN (s \o t) : i \in DOMAIN s \/ \E j \in DOMAIN t : i = Len(s) + j
         /\ Range(s \o t) = Range(s) \union Range(t)
<1>1. /\ s \o t \in Seq(E) /\ Len(s \o t) = Len(s) + Len(t)
      /\ \A i \in 1 .. Len(s) + Len(t) : (s \o t)[i] = IF i <= Len(s) THEN s[i] ELSE t[i - Len(s)]
  BY ConcatProperties
<1>2. /\ Len(s) \in Nat /\ Len(t) \in Nat
      /\ DOMAIN s = 1 .. Len(s) /\ DOMAIN t = 1 .. Len(t) /\ DOMAIN (s \o t) = 1 .. Len(s) + Len(t)
  BY <1>1, LenProperties
<1> DEFINE w == s \o t
<1> HIDE DEF w
<1>3. \A i \in DOMAIN s : w[i] = s[i]
  <2> SUFFICES ASSUME NEW i \in DOMAIN s PROVE w[i] = s[i]
    OBVIOUS
  <2>1. i \in 1 .. Len(s) + Len(t) /\ i <= Len(s)
    BY <1>2
  <2> QED BY <1>1, <2>1 DEF w
<1>4. \A i \in DOMAIN t : Len(s) + i \in DOMAIN w /\ w[Len(s) + i] = t[i]
  <2> SUFFICES ASSUME NEW i \in DOMAIN t PROVE Len(s) + i \in DOMAIN w /\ w[Len(s) + i] = t[i]
    OBVIOUS
  <2>1. Len(s) + i \in 1 .. Len(s) + Len(t) /\ ~(Len(s) + i <= Len(s)) /\ (Len(s) + i) - Len(s) = i
    BY <1>2
  <2> QED BY <1>1, <1>2, <2>1 DEF w
<1>5. \A i \in DOMAIN w : i \in DOMAIN s \/ \E j \in DOMAIN t : i = Len(s) + j
  <2> SUFFICES ASSUME NEW i \in 1 .. Len(s) + Len(t), i \notin 1 .. Len(s) PROVE \E j \in 1 .. Len(t) : i = Len(s) + j
    BY <1>2 DEF w
  <2>1. i - Len(s) \in 1 .. Len(t) /\ i = Len(s) + (i - Len(s))
    BY <1>2
  <2> QED BY <2>1
<1>6. Range(w) = Range(s) \union Range(t)
  BY RangeConcatenation DEF w
<1> QED BY <1>1, <1>2, <1>3, <1>4, <1>5, <1>6 DEF w

(* When the whole has no element twice,                                    *)
LEMMA InjectiveConcat ==
  ASSUME NEW E, NEW s \in Seq(E), NEW t \in Seq(E)
  PROVE  IsInjective(s \o t) <=> IsInjective(s) /\ IsInjective(t) /\ Range(s) \intersect Range(t) = {}
<1> DEFINE w == s \o t
<1>1. /\ DOMAIN s = 1 .. Len(s) /\ DOMAIN t = 1 .. Len(t) /\ DOMAIN w = 1 .. Len(s) + Len(t)
      /\ Len(s) \in Nat /\ Len(t) \in Nat
      /\ \A i \in DOMAIN s : w[i] = s[i]
      /\ \A i \in DOMAIN t : Len(s) + i \in DOMAIN w /\ w[Len(s) + i] = t[i]
      /\ \A i \in DOMAIN w : i \in DOMAIN s \/ \E j \in DOMAIN t : i = Len(s) + j
  BY ConcatFacts
<1> HIDE DEF w
<1>2. ASSUME IsInjective(w) PROVE IsInjective(s)
  BY <1>1, <1>2 DEF IsInjective
<1>3. ASSUME IsInjective(w) PROVE IsInjective(t)
  <2> SUFFICES ASSUME NEW i \in DOMAIN t, NEW j \in DOMAIN t, t[i] = t[j] PROVE i = j
    BY DEF IsInjective
  <2>1. Len(s) + i = Len(s) + j
    BY <1>1, <1>3 DEF IsInjective
  <2> QED BY <1>1, <2>1
<1>4. ASSUME IsInjective(w) PROVE Range(s) \intersect Range(t) = {}
  <2> SUFFICES ASSUME NEW i \in DOMAIN s, NEW j \in DOMAIN t, s[i] = t[j] PROVE FALSE
    BY DEF Range
  <2>1. i = Len(s) + j
    BY <1>1, <1>4 DEF IsInjective
  <2> QED BY <1>1, <2>1
<1>5. ASSUME IsInjective(s), IsInjective(t), Range(s) \intersect Range(t) = {} PROVE IsInjective(w)
  <2>0. \A i \in DOMAIN s, j \in DOMAIN t : s[i] # t[j]
    BY <1>5 DEF Range
  <2> SUFFICES ASSUME NEW i \in DOMAIN w, NEW j \in DOMAIN w, w[i] = w[j] PROVE i = j
    BY DEF IsInjective
  <2>1. CASE i \in DOMAIN s /\ j \in DOMAIN s
    BY <1>1, <1>5, <2>1 DEF IsInjective
  <2>2. ASSUME NEW k \in DOMAIN t, i = Len(s) + k, j \in DOMAIN s PROVE i = j
    BY <1>1, <2>0, <2>2
  <2>3. ASSUME NEW k \in DOMAIN t, j = Len(s) + k, i \in DOMAIN s PROVE i = j
    BY <1>1, <2>0, <2>3
  <2>4. ASSUME NEW k \in DOMAIN t, i = Len(s) + k, NEW l \in DOMAIN t, j = Len(s) + l PROVE i = j
    <3>1. t[k] = t[l]
      BY <1>1, <2>4
    <3> QED BY <1>5, <2>4, <3>1 DEF IsInjective
  <2> QED BY <1>1, <2>1, <2>2, <2>3, <2>4
<1> QED BY <1>2, <1>3, <1>4, <1>5 DEF w

(* and when it is in the order of the lines.                               *)
LEMMA OrderedConcat ==
  ASSUME NEW E, NEW s \in Seq(E), NEW t \in Seq(E)
  PROVE  Ordered(s \o t) <=> Ordered(s) /\ Ordered(t) /\ Precede(s, t)
<1> DEFINE w == s \o t
<1>1. /\ DOMAIN s = 1 .. Len(s) /\ DOMAIN t = 1 .. Len(t) /\ DOMAIN w = 1 .. Len(s) + Len(t)
      /\ Len(s) \in Nat /\ Len(t) \in Nat
      /\ \A i \in DOMAIN s : w[i] = s[i] /\ i \in DOMAIN w
      /\ \A i \in DOMAIN t : Len(s) + i \in DOMAIN w /\ w[Len(s) + i] = t[i]
      /\ \A i \in DOMAIN w : i \in DOMAIN s \/ \E j \in DOMAIN t : i = Len(s) + j
  BY ConcatFacts
<1> HIDE DEF w
<1>2. ASSUME Ordered(w) PROVE Ordered(s)
  BY <1>1, <1>2 DEF Ordered
<1>3. ASSUME Ordered(w) PROVE Ordered(t)
  <2> SUFFICES ASSUME NEW i \in DOMAIN t, NEW j \in DOMAIN t, i < j, t[i].gen = t[j].gen PROVE t[i].line =< t[j].line
    BY DEF Ordered
  <2>1. Len(s) + i < Len(s) + j /\ Len(s) + i \in DOMAIN w /\ Len(s) + j \in DOMAIN w
    BY <1>1
  <2>2. w[Len(s) + i] = t[i] /\ w[Len(s) + j] = t[j]
    BY <1>1
  <2> QED BY <1>3, <2>1, <2>2 DEF Ordered
<1>4. ASSUME Ordered(w) PROVE Precede(s, t)
  <2> SUFFICES ASSUME NEW i \in DOMAIN s, NEW j \in DOMAIN t, s[i].gen = t[j].gen PROVE s[i].line =< t[j].line
    BY DEF Precede, Range
  <2>1. i < Len(s) + j /\ i \in DOMAIN w /\ Len(s) + j \in DOMAIN w
    BY <1>1
  <2>2. w[i] = s[i] /\ w[Len(s) + j] = t[j]
    BY <1>1
  <2> QED BY <1>4, <2>1, <2>2 DEF Ordered
<1>5. ASSUME Ordered(s), Ordered(t), Precede(s, t) PROVE Ordered(w)
  <2>0. \A i \in DOMAIN s, j \in DOMAIN t : s[i].gen = t[j].gen => s[i].line =< t[j].line
    BY <1>5 DEF Precede, Range
  <2> SUFFICES ASSUME NEW i \in DOMAIN w, NEW j \in DOMAIN w, i < j, w[i].gen = w[j].gen PROVE w[i].line =< w[j].line
    BY DEF Ordered
  <2>1. CASE i \in DOMAIN s /\ j \in DOMAIN s
    BY <1>1, <1>5, <2>1 DEF Ordered
  <2>2. ASSUME NEW k \in DOMAIN t, i = Len(s) + k, j \in DOMAIN s PROVE FALSE
    BY <1>1, <2>2
  <2>3. ASSUME NEW k \in DOMAIN t, j = Len(s) + k, i \in DOMAIN s PROVE w[i].line =< w[j].line
    BY <1>1, <2>0, <2>3
  <2>4. ASSUME NEW k \in DOMAIN t, i = Len(s) + k, NEW l \in DOMAIN t, j = Len(s) + l PROVE w[i].line =< w[j].line
    <3>1. w[i] = t[k] /\ w[j] = t[l] /\ k < l
      BY <1>1, <2>4
    <3> QED BY <1>5, <3>1 DEF Ordered
  <2> QED BY <1>1, <2>1, <2>2, <2>3, <2>4
<1> QED BY <1>2, <1>3, <1>4, <1>5 DEF w

(* A part of a sequence keeps what the sequence is known for.              *)
LEMMA SubSeqFacts ==
  ASSUME NEW E, NEW s \in Seq(E), NEW m \in 1 .. Len(s) + 1, NEW n \in 0 .. Len(s)
  PROVE  /\ SubSeq(s, m, n) \in Seq(E)
         /\ Range(SubSeq(s, m, n)) \subseteq Range(s)
         /\ IsInjective(s) => IsInjective(SubSeq(s, m, n))
         /\ Ordered(s) => Ordered(SubSeq(s, m, n))
<1> DEFINE t == SubSeq(s, m, n)
<1>0. Len(s) \in Nat /\ DOMAIN s = 1 .. Len(s)
  BY LenProperties
<1>1. /\ t \in Seq(E)
      /\ Len(t) = IF m <= n THEN n - m + 1 ELSE 0
      /\ \A i \in 1 .. n - m + 1 : t[i] = s[m + i - 1]
  <2>1. m \in Int /\ n \in Int /\ \A i \in m .. n : s[i] \in E
    BY <1>0
  <2> QED BY <2>1, SubSeqProperties
<1>2. DOMAIN t = 1 .. n - m + 1
  <2>1. DOMAIN t = 1 .. Len(t)
    BY <1>1, LenProperties
  <2> QED BY <1>0, <1>1, <2>1
<1> HIDE DEF t
<1>3. \A i \in DOMAIN t : m + i - 1 \in DOMAIN s /\ t[i] = s[m + i - 1]
  BY <1>0, <1>1, <1>2
<1>4. \A i, j \in DOMAIN t : (m + i - 1 = m + j - 1 => i = j) /\ (i < j => m + i - 1 < m + j - 1)
  BY <1>0, <1>2
<1>5. Range(t) \subseteq Range(s)
  BY <1>3 DEF Range
<1>6. ASSUME IsInjective(s) PROVE IsInjective(t)
  <2> SUFFICES ASSUME NEW i \in DOMAIN t, NEW j \in DOMAIN t, t[i] = t[j] PROVE i = j
    BY DEF IsInjective
  <2>1. m + i - 1 \in DOMAIN s /\ m + j - 1 \in DOMAIN s /\ s[m + i - 1] = s[m + j - 1]
    BY <1>3
  <2> QED BY <1>4, <1>6, <2>1 DEF IsInjective
<1>7. ASSUME Ordered(s) PROVE Ordered(t)
  <2> SUFFICES ASSUME NEW i \in DOMAIN t, NEW j \in DOMAIN t, i < j, t[i].gen = t[j].gen PROVE t[i].line =< t[j].line
    BY DEF Ordered
  <2>1. m + i - 1 \in DOMAIN s /\ m + j - 1 \in DOMAIN s /\ t[i] = s[m + i - 1] /\ t[j] = s[m + j - 1]
    BY <1>3
  <2>2. m + i - 1 < m + j - 1
    BY <1>4
  <2> QED BY <1>7, <2>1, <2>2 DEF Ordered
<1> QED BY <1>1, <1>5, <1>6, <1>7 DEF t

(* One event.                                                              *)
LEMMA SingleFacts ==
  ASSUME NEW E, NEW e \in E
  PROVE  /\ <<e>> \in Seq(E) /\ Len(<<e>>) = 1 /\ Range(<<e>>) = {e}
         /\ IsInjective(<<e>>) /\ Ordered(<<e>>)
<1>1. <<e>> \in Seq(E) /\ Len(<<e>>) = 1 /\ DOMAIN <<e>> = {1} /\ <<e>>[1] = e
  OBVIOUS
<1> QED BY <1>1 DEF Range, IsInjective, Ordered

(* Leaving out elements repeats none and keeps their order.                *)
LEMMA AmongKeeps ==
  ASSUME NEW E, NEW T
  PROVE  \A s \in Seq(E) : /\ IsInjective(s) => IsInjective(Among(s, T))
                           /\ Ordered(s) => Ordered(Among(s, T))
<1> DEFINE P == {s \in Seq(E) : /\ IsInjective(s) => IsInjective(Among(s, T))
                                /\ Ordered(s) => Ordered(Among(s, T))}
<1>1. <<>> \in P
  <2>1. <<>> \in Seq(E) /\ IsInjective(<<>>) /\ Ordered(<<>>)
    BY DEF IsInjective, Ordered
  <2> QED BY <2>1, AmongEmpty
<1>2. ASSUME NEW s \in Seq(E), NEW e \in E, s \in P PROVE Append(s, e) \in P
  <2> DEFINE f == Among(s, T)
             w == Append(s, e)
  <2>1. f \in Seq(E) /\ Range(f) = Range(s) \intersect T
    BY AmongType
  <2>2. IsInjective(s) => IsInjective(f)
    BY <1>2
  <2>3. Ordered(s) => Ordered(f)
    BY <1>2
  <2>4. w \in Seq(E) /\ w = s \o <<e>> /\ <<e>> \in Seq(E) /\ Range(<<e>>) = {e}
    BY AppendIsConcat, AppendProperties, SingleFacts
  <2>5. Among(w, T) = IF e \in T THEN Append(f, e) ELSE f
    BY AmongAppend
  <2> HIDE DEF f, w
  <2>6. Append(f, e) = f \o <<e>>
    BY <2>1, AppendIsConcat
  <2>7. ASSUME IsInjective(w) PROVE IsInjective(Among(w, T))
    <3>1. IsInjective(s) /\ Range(s) \intersect {e} = {}
      BY <2>4, <2>7, InjectiveConcat
    <3>2. IsInjective(f) /\ Range(f) \intersect {e} = {}
      BY <2>1, <2>2, <3>1
    <3>3. IsInjective(f \o <<e>>)
      BY <2>1, <2>4, <3>2, InjectiveConcat, SingleFacts
    <3> QED BY <2>5, <2>6, <3>2, <3>3
  <2>8. ASSUME Ordered(w) PROVE Ordered(Among(w, T))
    <3>1. Ordered(s) /\ Precede(s, <<e>>)
      BY <2>4, <2>8, OrderedConcat
    <3>2. Ordered(f) /\ Precede(f, <<e>>)
      BY <2>1, <2>3, <3>1 DEF Precede
    <3>3. Ordered(f \o <<e>>)
      BY <2>1, <2>4, <3>2, OrderedConcat, SingleFacts
    <3> QED BY <2>5, <2>6, <3>2, <3>3
  <2> QED BY <2>4, <2>7, <2>8 DEF w
<1>3. Seq(E) \subseteq P
  <2> HIDE DEF P
  <2> QED BY <1>1, <1>2, SequenceInduction
<1> QED BY <1>3

-----------------------------------------------------------------------------
(* The sequences up to each place, joined.                                 *)
Joins(f, ss) == f = [i \in 1 .. Len(ss) |-> IF i = 1 THEN ss[i] ELSE f[i - 1] \o ss[i]]

(* There is such a function,                                               *)
LEMMA JoinExists ==
  ASSUME NEW E, NEW ss \in Seq(Seq(E)), Len(ss) # 0
  PROVE  \E f : Joins(f, ss) /\ f \in [1 .. Len(ss) -> Seq(E)]
<1> DEFINE V == Seq(E)
           n == Len(ss) - 1
           step == [p \in V \X (1 .. n) |-> p[1] \o ss[p[2] + 1]]
<1>0. n \in Nat /\ Len(ss) \in Nat /\ ss[1] \in V /\ Len(ss) = n + 1
  BY LenProperties
<1>1. \A v \in V, i \in 1 .. n : step[<<v, i>>] = v \o ss[i + 1]
  OBVIOUS
<1>2. step \in Steps(V, n)
  <2> SUFFICES ASSUME NEW v \in V, NEW i \in 1 .. n PROVE v \o ss[i + 1] \in V
    BY DEF Steps
  <2>1. ss[i + 1] \in V
    BY <1>0
  <2> QED BY <2>1, ConcatProperties
<1> HIDE DEF step
<1>3. PICK g : Iterates(g, V, n, ss[1], step)
  <2> HIDE DEF V, n
  <2> QED BY <1>0, <1>2, Recursion
<1>4. g \in [0 .. n -> V] /\ g[0] = ss[1] /\ \A i \in 1 .. n : g[i] = step[<<g[i - 1], i>>]
  BY <1>3 DEF Iterates
<1> DEFINE f == [i \in 1 .. Len(ss) |-> g[i - 1]]
<1>5. f \in [1 .. Len(ss) -> V]
  BY <1>0, <1>4
<1>6. ASSUME NEW i \in 1 .. Len(ss) PROVE f[i] = IF i = 1 THEN ss[i] ELSE f[i - 1] \o ss[i]
  <2>1. CASE i = 1
    BY <1>4, <2>1
  <2>2. CASE i # 1
    <3>1. i - 1 \in 1 .. n /\ (i - 1) - 1 \in 0 .. n /\ i - 1 \in 1 .. Len(ss) /\ (i - 1) + 1 = i
      BY <1>0, <2>2
    <3>2. g[i - 1] = step[<<g[(i - 1) - 1], i - 1>>]
      BY <1>4, <3>1
    <3>3. g[(i - 1) - 1] \in V
      BY <1>4, <3>1
    <3>4. step[<<g[(i - 1) - 1], i - 1>>] = g[(i - 1) - 1] \o ss[i]
      BY <1>1, <3>1, <3>3
    <3>5. f[i] = g[i - 1] /\ f[i - 1] = g[(i - 1) - 1]
      BY <3>1
    <3> QED BY <2>2, <3>2, <3>4, <3>5
  <2> QED BY <2>1, <2>2
<1>7. Joins(f, ss)
  <2>1. f = [i \in 1 .. Len(ss) |-> IF i = 1 THEN ss[i] ELSE f[i - 1] \o ss[i]]
    <3> DEFINE h == [i \in 1 .. Len(ss) |-> IF i = 1 THEN ss[i] ELSE f[i - 1] \o ss[i]]
    <3>1. DOMAIN f = 1 .. Len(ss) /\ DOMAIN h = 1 .. Len(ss)
      OBVIOUS
    <3>2. \A i \in 1 .. Len(ss) : h[i] = IF i = 1 THEN ss[i] ELSE f[i - 1] \o ss[i]
      OBVIOUS
    <3>3. \A i \in 1 .. Len(ss) : f[i] = h[i]
      <4> HIDE DEF h, f
      <4> QED BY <1>6, <3>2
    <3>4. f = [i \in 1 .. Len(ss) |-> f[i]] /\ h = [i \in 1 .. Len(ss) |-> h[i]]
      OBVIOUS
    <3>5. f = h
      <4> HIDE DEF h, f
      <4> QED BY <3>3, <3>4
    <3> QED BY <3>5
  <2> HIDE DEF f
  <2> QED BY <2>1 DEF Joins
<1> QED BY <1>5, <1>7

(* one only,                                                               *)
LEMMA JoinAgrees ==
  ASSUME NEW ss, NEW ts, Len(ss) \in Nat, Len(ts) \in Nat, NEW f, NEW g, Joins(f, ss), Joins(g, ts),
         NEW m \in Nat, m # 0, m =< Len(ss), m =< Len(ts), \A i \in 1 .. m : ss[i] = ts[i]
  PROVE  f[m] = g[m]
<1> DEFINE S == {n \in Nat : n + 1 =< m => f[n + 1] = g[n + 1]}
<1>0. /\ \A i \in 1 .. Len(ss) : f[i] = IF i = 1 THEN ss[i] ELSE f[i - 1] \o ss[i]
      /\ \A i \in 1 .. Len(ts) : g[i] = IF i = 1 THEN ts[i] ELSE g[i - 1] \o ts[i]
  BY DEF Joins
<1>1. 0 \in S
  BY <1>0
<1>2. ASSUME NEW n \in Nat, n \in S, (n + 1) + 1 =< m PROVE f[(n + 1) + 1] = g[(n + 1) + 1]
  <2> DEFINE i == (n + 1) + 1
  <2>1. i \in 1 .. Len(ss) /\ i \in 1 .. Len(ts) /\ i # 1 /\ i - 1 = n + 1 /\ ss[i] = ts[i]
    BY <1>2
  <2>2. f[n + 1] = g[n + 1]
    BY <1>2
  <2> HIDE DEF i
  <2>3. f[i] = g[i]
    BY <1>0, <2>1, <2>2
  <2> QED BY <2>3 DEF i
<1>3. \A n \in Nat : n \in S => n + 1 \in S
  BY <1>2
<1>4. m - 1 \in S
  <2>1. m - 1 \in Nat
    OBVIOUS
  <2> HIDE DEF S
  <2> QED BY <2>1, <1>1, <1>3, Induction
<1>5. (m - 1) + 1 = m
  OBVIOUS
<1> QED BY <1>4, <1>5

(* FlattenSeq is its last value,                                           *)
LEMMA FlattenIs ==
  ASSUME NEW E, NEW ss \in Seq(Seq(E)), Len(ss) # 0
  PROVE  \E f : Joins(f, ss) /\ FlattenSeq(ss) = f[Len(ss)]
<1>1. \A f : Joins(f, ss) <=> f = [i \in 1 .. Len(ss) |-> IF i = 1 THEN ss[i] ELSE f[i - 1] \o ss[i]]
  BY DEF Joins
<1>2. \E f : Joins(f, ss)
  BY JoinExists
<1> QED BY <1>1, <1>2 DEF FlattenSeq

(* and adds one sequence after the others.                                 *)
LEMMA FlattenAppend ==
  ASSUME NEW E, NEW ss \in Seq(Seq(E)), NEW s \in Seq(E)
  PROVE  /\ FlattenSeq(<<>>) = <<>>
         /\ FlattenSeq(ss) \in Seq(E)
         /\ FlattenSeq(Append(ss, s)) = FlattenSeq(ss) \o s
<1> DEFINE ts == Append(ss, s)
<1>1. /\ ts \in Seq(Seq(E)) /\ Len(ss) \in Nat /\ Len(ts) = Len(ss) + 1
      /\ \A i \in 1 .. Len(ss) : ts[i] = ss[i]
      /\ ts[Len(ss) + 1] = s
  BY AppendProperties, LenProperties
<1> HIDE DEF ts
<1>2. FlattenSeq(<<>>) = <<>>
  BY DEF FlattenSeq
<1>3. PICK g : Joins(g, ts) /\ FlattenSeq(ts) = g[Len(ts)]
  <2>1. Len(ts) # 0
    BY <1>1
  <2> QED BY <1>1, <2>1, FlattenIs
<1>4. CASE Len(ss) = 0
  <2>1. ss = <<>> /\ FlattenSeq(ss) = <<>>
    BY <1>2, <1>4, EmptySeq
  <2>2. FlattenSeq(ts) = s
    BY <1>1, <1>3, <1>4 DEF Joins
  <2>3. <<>> \in Seq(E) /\ <<>> \o s = s
    BY ConcatEmptySeq
  <2> QED BY <1>2, <2>1, <2>2, <2>3 DEF ts
<1>5. CASE Len(ss) # 0
  <2> DEFINE m == Len(ss)
  <2>0. m \in Nat /\ m # 0 /\ m =< Len(ss) /\ m =< Len(ts) /\ Len(ts) \in Nat /\ m \in 1 .. Len(ss)
    BY <1>1, <1>5
  <2>1. PICK f : Joins(f, ss) /\ FlattenSeq(ss) = f[Len(ss)]
    BY <1>5, FlattenIs
  <2>2. PICK h : Joins(h, ss) /\ h \in [1 .. Len(ss) -> Seq(E)]
    BY <1>5, JoinExists
  <2>3. f[m] = h[m]
    <3> HIDE DEF m
    <3> QED BY <1>1, <2>0, <2>1, <2>2, JoinAgrees
  <2>4. h[m] \in Seq(E)
    BY <2>0, <2>2
  <2>5. f[m] = g[m]
    <3>1. \A i \in 1 .. m : ss[i] = ts[i]
      BY <1>1
    <3>2. Len(ss) \in Nat /\ Len(ts) \in Nat /\ Joins(f, ss) /\ Joins(g, ts)
      BY <1>1, <1>3, <2>1
    <3> HIDE DEF m
    <3> QED BY ONLY <2>0, <3>1, <3>2, JoinAgrees
  <2>6. g[Len(ts)] = g[Len(ss)] \o s
    <3>1. Len(ts) \in 1 .. Len(ts) /\ Len(ts) # 1 /\ Len(ts) - 1 = Len(ss) /\ ts[Len(ts)] = s
      BY <1>1, <1>5
    <3>2. g[Len(ts)] = IF Len(ts) = 1 THEN ts[Len(ts)] ELSE g[Len(ts) - 1] \o ts[Len(ts)]
      BY <1>3, <3>1 DEF Joins
    <3> QED BY <3>1, <3>2
  <2> QED BY <1>2, <1>3, <2>1, <2>3, <2>4, <2>5, <2>6 DEF ts
<1> QED BY <1>1, <1>4, <1>5

(* What one line can yield (_read_record, _read_codex_token_counts).       *)
LEMMA ParsedFacts ==
  ASSUME NEW i \in 1 .. Len(Line)
  PROVE  Parsed(i) \in {<<>>, <<"tokens">>, <<"allowance">>, <<"tokens", "allowance">>}
<1>1. UsageRecord(Line[i]) \in {<<>>, <<"tokens">>}
  BY DEF UsageRecord
<1>2. TokenCounts(Line[i]) \in {<<>>, <<"tokens">>, <<"allowance">>, <<"tokens", "allowance">>}
  <2> DEFINE first == IF Line[i].tokens THEN <<"tokens">> ELSE <<>>
             second == IF Line[i].windows # "none" THEN <<"allowance">> ELSE <<>>
  <2>1. TokenCounts(Line[i]) = <<>> \/ TokenCounts(Line[i]) = first \o second
    BY DEF TokenCounts
  <2>2. first \in {<<>>, <<"tokens">>} /\ second \in {<<>>, <<"allowance">>}
    OBVIOUS
  <2>3. /\ <<>> \o <<>> = <<>> /\ <<"tokens">> \o <<>> = <<"tokens">>
        /\ <<>> \o <<"allowance">> = <<"allowance">>
        /\ <<"tokens">> \o <<"allowance">> = <<"tokens", "allowance">>
    <3> DEFINE E == {"tokens", "allowance"}
    <3>1. <<>> \in Seq(E) /\ <<"tokens">> \in Seq(E) /\ <<"allowance">> \in Seq(E)
      OBVIOUS
    <3>2. Append(<<"tokens">>, "allowance") = <<"tokens">> \o <<"allowance">>
      BY <3>1, AppendIsConcat
    <3>3. Append(<<"tokens">>, "allowance") = <<"tokens", "allowance">>
      <4>1. /\ <<"tokens", "allowance">> \in Seq(E) /\ Len(<<"tokens", "allowance">>) = 2
            /\ <<"tokens", "allowance">>[1] = "tokens" /\ <<"tokens", "allowance">>[2] = "allowance"
        OBVIOUS
      <4> DEFINE w == Append(<<"tokens">>, "allowance")
      <4>2. w \in Seq(E) /\ Len(w) = 2 /\ w[1] = "tokens" /\ w[2] = "allowance"
        <5>1. Len(<<"tokens">>) = 1 /\ <<"tokens">>[1] = "tokens" /\ "allowance" \in E
          OBVIOUS
        <5> HIDE DEF E
        <5> QED BY <3>1, <5>1, AppendProperties
      <4> HIDE DEF E, w
      <4>3. w = <<"tokens", "allowance">>
        BY <4>1, <4>2, SeqEqual
      <4> QED BY <4>3 DEF w
    <3>4. /\ <<>> \o <<>> = <<>> /\ <<"tokens">> \o <<>> = <<"tokens">>
          /\ <<>> \o <<"allowance">> = <<"allowance">>
      BY <3>1, ConcatEmptySeq
    <3> QED BY <3>2, <3>3, <3>4
  <2> HIDE DEF first, second
  <2> QED BY <2>1, <2>2, <2>3
<1> QED BY <1>1, <1>2 DEF Parsed

(* The events of one line.                                                 *)
LEMMA EventsOfFacts ==
  ASSUME NEW g \in Gen, NEW i \in 1 .. Len(Line)
  PROVE  /\ EventsOf(g, i) \in Seq(EventSet)
         /\ IsInjective(EventsOf(g, i)) /\ Ordered(EventsOf(g, i))
         /\ Range(EventsOf(g, i)) = Measured(g, i - 1, i)
<1> DEFINE p == Parsed(i)
           s == EventsOf(g, i)
<1>0. Len(Line) \in Nat /\ DOMAIN Line = 1 .. Len(Line) /\ i \in Nat
  BY UsageAssumption
<1>1. p \in {<<>>, <<"tokens">>, <<"allowance">>, <<"tokens", "allowance">>}
  BY ParsedFacts
<1> HIDE DEF p
<1>2. /\ p \in Seq({"tokens", "allowance"}) /\ IsInjective(p)
      /\ DOMAIN p = 1 .. Len(p) /\ Len(p) \in Nat
  <2>1. CASE p = <<>>
    BY <2>1 DEF IsInjective
  <2>2. CASE p = <<"tokens">>
    BY <2>2 DEF IsInjective
  <2>3. CASE p = <<"allowance">>
    BY <2>3 DEF IsInjective
  <2>4. CASE p = <<"tokens", "allowance">>
    <3>1. DOMAIN p = 1 .. 2 /\ p[1] = "tokens" /\ p[2] = "allowance" /\ Len(p) = 2 /\ p \in Seq({"tokens", "allowance"})
      BY <2>4
    <3> QED BY <3>1 DEF IsInjective
  <2> QED BY <1>1, <2>1, <2>2, <2>3, <2>4
<1>3. s = [k \in 1 .. Len(p) |-> Event(g, i, p[k])]
  BY <1>2 DEF EventsOf, p
<1> HIDE DEF s
<1>4. \A k \in 1 .. Len(p) : /\ p[k] \in {"tokens", "allowance"}
                             /\ Event(g, i, p[k]) \in EventSet
                             /\ Event(g, i, p[k]).gen = g /\ Event(g, i, p[k]).line = i
                             /\ Event(g, i, p[k]).type = p[k]
  <2> SUFFICES ASSUME NEW k \in 1 .. Len(p)
               PROVE  /\ p[k] \in {"tokens", "allowance"}
                      /\ Event(g, i, p[k]) \in EventSet
                      /\ Event(g, i, p[k]).gen = g /\ Event(g, i, p[k]).line = i
                      /\ Event(g, i, p[k]).type = p[k]
    OBVIOUS
  <2>1. p[k] \in {"tokens", "allowance"}
    BY <1>2, ElementOfSeq
  <2> QED BY <1>0, <2>1 DEF Event, EventSet
<1>5. s \in [1 .. Len(p) -> EventSet]
  BY <1>3, <1>4
<1>6. s \in Seq(EventSet) /\ DOMAIN s = 1 .. Len(p)
  BY <1>2, <1>5, SeqDef
<1>7. IsInjective(s)
  <2> SUFFICES ASSUME NEW k \in 1 .. Len(p), NEW l \in 1 .. Len(p), s[k] = s[l] PROVE k = l
    BY <1>6 DEF IsInjective
  <2>1. p[k] = p[l]
    BY <1>3, <1>4
  <2> QED BY <1>2, <2>1 DEF IsInjective
<1>8. Ordered(s)
  BY <1>0, <1>3, <1>4, <1>6 DEF Ordered
<1>9. ASSUME NEW e \in Range(s) PROVE e \in Measured(g, i - 1, i)
  <2>1. PICK k \in 1 .. Len(p) : e = s[k]
    BY <1>6 DEF Range
  <2>2. e \in EventSet /\ e.gen = g /\ e.line = i /\ e.type = p[k]
    BY <1>3, <1>4, <2>1
  <2>3. p[k] \in Range(p)
    BY <1>2 DEF Range
  <2> QED BY <1>0, <2>2, <2>3 DEF Measured, p
<1>10. ASSUME NEW e \in Measured(g, i - 1, i) PROVE e \in Range(s)
  <2>1. e \in EventSet /\ e.gen = g /\ e.line = i /\ e.type \in Range(p)
    BY <1>0 DEF Measured, p
  <2>2. PICK k \in 1 .. Len(p) : e.type = p[k]
    BY <1>2, <2>1 DEF Range
  <2>3. e = Event(g, i, p[k])
    BY <2>1, <2>2 DEF EventSet, Event
  <2>4. e = s[k]
    BY <1>3, <2>3
  <2> QED BY <1>6, <2>4 DEF Range
<1> QED BY <1>6, <1>7, <1>8, <1>9, <1>10 DEF s

(* No lines, no events.                                                    *)
LEMMA EventsNone ==
  \A g, n : n \in Nat => Events(g, n, n) = <<>>
<1> SUFFICES ASSUME NEW g, NEW n \in Nat PROVE Events(g, n, n) = <<>>
  OBVIOUS
<1>1. [k \in 1 .. (n - n) |-> EventsOf(g, n + k)] = <<>>
  OBVIOUS
<1>2. FlattenSeq(<<>>) = <<>>
  BY DEF FlattenSeq
<1> QED BY <1>1, <1>2 DEF Events

(* What lines from + 1 to to measure: in their order, each event once.     *)
LEMMA EventsFacts ==
  ASSUME NEW g \in Gen, NEW from \in 0 .. Len(Line), NEW to \in from .. Len(Line)
  PROVE  /\ Events(g, from, to) \in Seq(EventSet)
         /\ IsInjective(Events(g, from, to)) /\ Ordered(Events(g, from, to))
         /\ Range(Events(g, from, to)) = Measured(g, from, to)
<1>0. Len(Line) \in Nat /\ DOMAIN Line = 1 .. Len(Line) /\ from \in Nat /\ to \in Nat
  BY UsageAssumption
<1> DEFINE Lists(n) == [k \in 1 .. n |-> EventsOf(g, from + k)]
           Good(s, n) == /\ s \in Seq(EventSet) /\ IsInjective(s) /\ Ordered(s)
                         /\ Range(s) = Measured(g, from, from + n)
           S == {n \in Nat : from + n =< Len(Line) => Good(FlattenSeq(Lists(n)), n)}
<1>1. \A n \in Nat : from + n =< Len(Line) => Lists(n) \in Seq(Seq(EventSet)) /\ Len(Lists(n)) = n
  <2> SUFFICES ASSUME NEW n \in Nat, from + n =< Len(Line)
               PROVE  Lists(n) \in Seq(Seq(EventSet)) /\ Len(Lists(n)) = n
    OBVIOUS
  <2>1. \A k \in 1 .. n : EventsOf(g, from + k) \in Seq(EventSet)
    <3> SUFFICES ASSUME NEW k \in 1 .. n PROVE EventsOf(g, from + k) \in Seq(EventSet)
      OBVIOUS
    <3>1. from + k \in 1 .. Len(Line)
      BY <1>0
    <3> QED BY <3>1, EventsOfFacts
  <2>2. Lists(n) \in [1 .. n -> Seq(EventSet)]
    BY <2>1
  <2> HIDE DEF Lists
  <2>3. Lists(n) \in Seq(Seq(EventSet))
    BY <2>2, SeqDef
  <2>4. DOMAIN Lists(n) = 1 .. n /\ DOMAIN Lists(n) = 1 .. Len(Lists(n)) /\ Len(Lists(n)) \in Nat
    BY <2>2, <2>3, LenProperties
  <2> QED BY <2>3, <2>4
<1>2. 0 \in S
  <2>1. Lists(0) = <<>>
    OBVIOUS
  <2>2. FlattenSeq(<<>>) = <<>>
    BY DEF FlattenSeq
  <2>3. Good(<<>>, 0)
    <3>1. <<>> \in Seq(EventSet) /\ IsInjective(<<>>) /\ Ordered(<<>>) /\ Range(<<>>) = {}
      BY DEF IsInjective, Ordered, Range
    <3>2. Measured(g, from, from + 0) = {}
      BY <1>0 DEF Measured, EventSet
    <3> QED BY <3>1, <3>2
  <2> HIDE DEF Lists, Good
  <2> QED BY <2>1, <2>2, <2>3
<1>3. ASSUME NEW n \in Nat, n \in S, from + (n + 1) =< Len(Line) PROVE Good(FlattenSeq(Lists(n + 1)), n + 1)
  <2> DEFINE i == from + (n + 1)
             s == FlattenSeq(Lists(n))
             t == EventsOf(g, i)
  <2>1. Good(s, n)
    BY <1>0, <1>3
  <2>2. i \in 1 .. Len(Line) /\ from + n =< Len(Line) /\ i = (from + n) + 1
    BY <1>0, <1>3
  <2>3. /\ t \in Seq(EventSet) /\ IsInjective(t) /\ Ordered(t)
        /\ Range(t) = Measured(g, i - 1, i)
    BY <2>2, EventsOfFacts
  <2>4. Lists(n) \in Seq(Seq(EventSet)) /\ Len(Lists(n)) = n
    BY <1>1, <2>2
  <2>5. Lists(n + 1) = Append(Lists(n), t)
    <3>1. Append(Lists(n), t) \in [1 .. n + 1 -> Seq(EventSet)]
      <4>1. Append(Lists(n), t) \in Seq(Seq(EventSet)) /\ Len(Append(Lists(n), t)) = n + 1
        BY <2>3, <2>4, AppendProperties
      <4> QED BY <4>1, LenProperties
    <3>2. Lists(n + 1) \in [1 .. n + 1 -> Seq(EventSet)]
      <4>1. Lists(n + 1) \in Seq(Seq(EventSet)) /\ Len(Lists(n + 1)) = n + 1
        <5>1. n + 1 \in Nat
          OBVIOUS
        <5> HIDE DEF Lists
        <5> QED BY <1>1, <1>3, <5>1
      <4> QED BY <4>1, LenProperties
    <3>3. ASSUME NEW k \in 1 .. n + 1 PROVE Append(Lists(n), t)[k] = Lists(n + 1)[k]
      <4>1. CASE k = n + 1
        <5>1. Append(Lists(n), t)[k] = t
          BY <2>3, <2>4, <4>1, AppendProperties
        <5> QED BY <4>1, <5>1
      <4>2. CASE k # n + 1
        <5>1. k \in 1 .. n
          BY <4>2
        <5>2. Append(Lists(n), t)[k] = Lists(n)[k]
          BY <2>3, <2>4, <5>1, AppendProperties
        <5> QED BY <5>1, <5>2
      <4> QED BY <4>1, <4>2
    <3> HIDE DEF Lists, t
    <3> QED BY <3>1, <3>2, <3>3
  <2>6. FlattenSeq(Lists(n + 1)) = s \o t
    <3> HIDE DEF Lists, t
    <3> QED BY <2>3, <2>4, <2>5, FlattenAppend
  <2> HIDE DEF s, t
  <2>7. /\ s \in Seq(EventSet) /\ IsInjective(s) /\ Ordered(s)
        /\ Range(s) = Measured(g, from, from + n)
    BY <2>1
  <2>8. Range(s) \intersect Range(t) = {} /\ Precede(s, t)
    BY <1>0, <2>2, <2>3, <2>7 DEF Precede, Measured, EventSet
  <2>9. Range(s) \union Range(t) = Measured(g, from, from + (n + 1))
    <3>1. \A k \in Nat : k \in from + 1 .. from + (n + 1) <=> k \in from + 1 .. from + n \/ k \in (i - 1) + 1 .. i
      BY <1>0, <2>2
    <3>2. \A e \in EventSet : e.line \in Nat
      BY <1>0 DEF EventSet
    <3>3. \A e \in EventSet : e.line \in from + 1 .. from + (n + 1)
                               <=> e.line \in from + 1 .. from + n \/ e.line \in (i - 1) + 1 .. i
      BY <3>1, <3>2
    <3> HIDE DEF i
    <3> QED BY <2>3, <2>7, <3>3 DEF Measured
  <2>10. s \o t \in Seq(EventSet) /\ Range(s \o t) = Range(s) \union Range(t)
    BY <2>3, <2>7, ConcatFacts
  <2>11. IsInjective(s \o t) /\ Ordered(s \o t)
    BY <2>3, <2>7, <2>8, InjectiveConcat, OrderedConcat
  <2> HIDE DEF Lists
  <2> QED BY <2>6, <2>9, <2>10, <2>11
<1>4. \A n \in Nat : n \in S => n + 1 \in S
  <2> HIDE DEF Lists, Good
  <2> QED BY <1>3
<1>5. to - from \in S
  <2>1. to - from \in Nat
    BY <1>0
  <2> HIDE DEF S
  <2> QED BY <1>2, <1>4, <2>1, Induction
<1>6. from + (to - from) = to /\ to =< Len(Line)
  BY <1>0
<1>7. Events(g, from, to) = FlattenSeq(Lists(to - from))
  BY DEF Events
<1> QED BY <1>5, <1>6, <1>7

-----------------------------------------------------------------------------

(* What is assumed of the constants, and what None is not.                 *)
LEMMA LineFacts == Len(Line) \in Nat /\ DOMAIN Line = 1 .. Len(Line) /\ MaxReplaced \in Nat /\ MaxKills \in Nat
BY UsageAssumption

(* None is nothing else.                                                   *)
LEMMA NoneFacts ==
  /\ None \notin Run /\ None \notin Gen /\ None \notin EventSet
  /\ None \notin CursorValue /\ None \notin RecordValue
BY NoneAssumption

(* The fields of an event are numbers.                                     *)
LEMMA EventTypes ==
  \A e \in EventSet : e.gen \in Gen /\ e.gen \in Nat /\ e.line \in 1 .. Len(Line) /\ e.line \in Nat
BY LineFacts DEF EventSet, Gen

(* What lines measure, split at any line.                                  *)
LEMMA MeasuredFacts ==
  ASSUME NEW gen, NEW from \in Nat, NEW to \in Nat
  PROVE  /\ Measured(gen, from, to) \subseteq EventSet
         /\ to =< from => Measured(gen, from, to) = {}
         /\ gen \notin Gen => Measured(gen, from, to) = {}
         /\ \A n \in Nat : from =< n /\ n =< to => Measured(gen, from, to) = Measured(gen, from, n) \union Measured(gen, n, to)
         /\ \A n \in Nat : n =< to => Measured(gen, from, n) \subseteq Measured(gen, from, to)
<1>1. Measured(gen, from, to) \subseteq EventSet
  BY DEF Measured
<1>2. to =< from => Measured(gen, from, to) = {}
  BY EventTypes DEF Measured
<1>3. gen \notin Gen => Measured(gen, from, to) = {}
  BY EventTypes DEF Measured
<1>4. ASSUME NEW n \in Nat, from =< n, n =< to
      PROVE  Measured(gen, from, to) = Measured(gen, from, n) \union Measured(gen, n, to)
  <2>1. \A e \in EventSet : e.line \in from + 1 .. to <=> e.line \in from + 1 .. n \/ e.line \in n + 1 .. to
    BY <1>4, EventTypes
  <2> QED BY <2>1 DEF Measured
<1>5. ASSUME NEW n \in Nat, n =< to PROVE Measured(gen, from, n) \subseteq Measured(gen, from, to)
  <2>1. \A e \in EventSet : e.line \in from + 1 .. n => e.line \in from + 1 .. to
    BY <1>5, EventTypes
  <2> QED BY <2>1 DEF Measured
<1> QED BY <1>1, <1>2, <1>3, <1>4, <1>5

(* A part of a sequence, or nothing.                                       *)
LEMMA PartFacts ==
  ASSUME NEW E, NEW s \in Seq(E), NEW m \in Nat, m # 0, NEW n \in Int, n =< Len(s)
  PROVE  /\ SubSeq(s, m, n) \in Seq(E)
         /\ Range(SubSeq(s, m, n)) \subseteq Range(s)
         /\ IsInjective(s) => IsInjective(SubSeq(s, m, n))
         /\ Ordered(s) => Ordered(SubSeq(s, m, n))
<1>1. CASE n < m
  <2>1. SubSeq(s, m, n) = <<>>
    BY <1>1, SubSeqEmpty
  <2>2. <<>> \in Seq(E) /\ Range(<<>>) = {} /\ IsInjective(<<>>) /\ Ordered(<<>>)
    BY DEF Range, IsInjective, Ordered
  <2> QED BY <2>1, <2>2
<1>2. CASE ~ (n < m)
  <2>1. Len(s) \in Nat
    BY LenProperties
  <2>2. m \in 1 .. Len(s) + 1 /\ n \in 0 .. Len(s)
    BY <1>2, <2>1
  <2> QED BY <2>2, SubSeqFacts
<1> QED BY <1>1, <1>2

(* What an append makes of the ledger: after a text that ends with a       *)
(* newline, both in turn; otherwise some of it is lost in a malformed      *)
(* line.                                                                   *)
LEMMA AppendedFacts ==
  ASSUME ledger \in Seq(EventSet), tail \in {"whole", "torn", "bare", "glued"}, NEW new \in Seq(EventSet)
  PROVE  /\ AppendedTo(new) \in Seq(EventSet)
         /\ Range(AppendedTo(new)) \subseteq Range(ledger) \union Range(new)
         /\ tail = "whole" => /\ AppendedTo(new) = ledger \o new
                              /\ Range(AppendedTo(new)) = Range(ledger) \union Range(new)
         /\ IsInjective(ledger) /\ IsInjective(new) /\ Range(ledger) \intersect Range(new) = {} => IsInjective(AppendedTo(new))
         /\ Ordered(ledger) /\ Ordered(new) /\ Precede(ledger, new) => Ordered(AppendedTo(new))
<1> DEFINE old == IF tail = "bare" THEN Front(ledger) ELSE ledger
           more == IF tail \in {"torn", "bare"} THEN SubSeq(new, 2, Len(new)) ELSE new
<1>0. Len(ledger) \in Nat /\ Len(new) \in Nat
  BY LenProperties
<1>1. /\ old \in Seq(EventSet) /\ Range(old) \subseteq Range(ledger)
      /\ IsInjective(ledger) => IsInjective(old)
      /\ Ordered(ledger) => Ordered(old)
  <2>1. /\ Front(ledger) \in Seq(EventSet) /\ Range(Front(ledger)) \subseteq Range(ledger)
        /\ IsInjective(ledger) => IsInjective(Front(ledger))
        /\ Ordered(ledger) => Ordered(Front(ledger))
    <3>1. Len(ledger) - 1 \in Int /\ Len(ledger) - 1 =< Len(ledger) /\ 1 \in Nat /\ 1 # 0
      BY <1>0
    <3> QED BY <3>1, PartFacts DEF Front
  <2> HIDE DEF Front
  <2> QED BY <2>1
<1>2. /\ more \in Seq(EventSet) /\ Range(more) \subseteq Range(new)
      /\ IsInjective(new) => IsInjective(more)
      /\ Ordered(new) => Ordered(more)
  <2> DEFINE rest == SubSeq(new, 2, Len(new))
  <2>1. /\ rest \in Seq(EventSet) /\ Range(rest) \subseteq Range(new)
        /\ IsInjective(new) => IsInjective(rest)
        /\ Ordered(new) => Ordered(rest)
    <3>1. Len(new) \in Int /\ Len(new) =< Len(new) /\ 2 \in Nat /\ 2 # 0
      BY <1>0
    <3> QED BY <3>1, PartFacts
  <2> HIDE DEF rest
  <2>2. more = rest \/ more = new
    BY DEF rest
  <2> QED BY <2>1, <2>2
<1>3. AppendedTo(new) = old \o more
  BY DEF AppendedTo
<1>4. tail = "whole" => old = ledger /\ more = new
  OBVIOUS
<1> HIDE DEF old, more
<1>5. old \o more \in Seq(EventSet) /\ Range(old \o more) = Range(old) \union Range(more)
  BY <1>1, <1>2, ConcatFacts
<1>6. IsInjective(ledger) /\ IsInjective(new) /\ Range(ledger) \intersect Range(new) = {} => IsInjective(old \o more)
  BY <1>1, <1>2, InjectiveConcat
<1>7. Ordered(ledger) /\ Ordered(new) /\ Precede(ledger, new) => Ordered(old \o more)
  <2>1. Precede(ledger, new) => Precede(old, more)
    BY <1>1, <1>2 DEF Precede
  <2> QED BY <1>1, <1>2, <2>1, OrderedConcat
<1> QED BY <1>1, <1>2, <1>3, <1>4, <1>5, <1>6, <1>7

(* An admission is based on the last reading of an ordered ledger.         *)
LEMMA AdmissionFacts ==
  ASSUME NEW s \in Seq(EventSet), NEW stale \in BOOLEAN
  PROVE  /\ Admission(s, stale) \in AdmissionValue
         /\ Ordered(s) => \A e \in Range(s) : e.type = "allowance" =>
              /\ Admission(s, stale).reading # None
              /\ Admission(s, stale).reading.gen = e.gen => Admission(s, stale).reading.line >= e.line
<1> DEFINE T == {e \in EventSet : e.type = "allowance"}
           f == Readings(s)
           reading == IF f = <<>> THEN None ELSE Last(f)
<1>1. /\ f \in Seq(EventSet) /\ Range(f) = Range(s) \intersect T
      /\ Ordered(s) => Ordered(f)
  <2>1. f = Among(s, T)
    BY ReadingsIs
  <2> HIDE DEF T
  <2> QED BY <2>1, AmongType, AmongKeeps
<1>2. DOMAIN f = 1 .. Len(f) /\ Len(f) \in Nat
  BY <1>1, LenProperties
<1> HIDE DEF f
<1>3. f # <<>> => Len(f) \in DOMAIN f /\ f[Len(f)] \in EventSet
  BY <1>1, <1>2, EmptySeq
<1>4. reading \in EventSet \union {None}
  BY <1>3 DEF Last
<1>5. Admission(s, stale).reading = reading
  BY DEF Admission, f
<1>6. Admission(s, stale) \in AdmissionValue
  BY <1>4 DEF Admission, AdmissionValue, f
<1>7. ASSUME Ordered(s), NEW e \in Range(s), e.type = "allowance"
      PROVE  reading # None /\ (reading.gen = e.gen => reading.line >= e.line)
  <2>1. e \in Range(f) /\ e \in EventSet
    BY <1>1, <1>7, RangeOfSeq
  <2>2. PICK i \in DOMAIN f : e = f[i]
    BY <2>1 DEF Range
  <2>3. f # <<>>
    BY <1>2, <2>2
  <2>4. reading = f[Len(f)] /\ reading \in EventSet
    BY <1>3, <2>3 DEF Last
  <2>5. CASE i = Len(f)
    BY <2>2, <2>4, <2>5, NoneFacts, EventTypes
  <2>6. CASE i # Len(f)
    <3>1. i < Len(f) /\ Len(f) \in DOMAIN f
      BY <1>2, <1>3, <2>3, <2>6
    <3>2. reading.gen = e.gen => e.line =< reading.line
      BY <1>1, <1>7, <2>2, <2>4, <3>1 DEF Ordered
    <3> QED BY <2>1, <2>4, <3>2, NoneFacts, EventTypes
  <2> QED BY <2>5, <2>6
<1> QED BY <1>5, <1>6, <1>7

-----------------------------------------------------------------------------
USE DEF At, Reports

(* What a step of process c does to the others: nothing.                   *)
OnlyOf(c) == col' = [col EXCEPT ![c] = col'[c]]

(* The types of what processes hold, when only c has moved.                *)
LEMMA OnlyFacts ==
  ASSUME TypeInv, NEW c \in Collector, OnlyOf(c), col'[c] \in ColValue,
         Reports(c)' => col'[c].phase # "manual",
         At(c, "record")' => Reports(c)'
  PROVE  /\ col' \in [Collector -> ColValue]
         /\ \A d \in Collector : d # c => col'[d] = col[d]
         /\ \A d \in Collector : At(d, "record")' => Reports(d)' /\ col'[d].phase # "manual"
         /\ \A d \in Collector : Reports(d)' => col'[d].phase # "manual"
<1> DEFINE v == col'[c]
<1>1. col' = [col EXCEPT ![c] = v] /\ v \in ColValue
  BY DEF OnlyOf
<1>2. v.run # None => v.phase # "manual"
  OBVIOUS
<1>3. v.pc = "record" => v.run # None
  OBVIOUS
<1> HIDE DEF v
<1>4. col' \in [Collector -> ColValue] /\ col'[c] = v /\ \A d \in Collector : d # c => col'[d] = col[d]
  BY <1>1 DEF TypeInv
<1> QED BY <1>2, <1>3, <1>4 DEF TypeInv

(* An idle process is well-typed.                                          *)
LEMMA IdleTypes == Idle \in ColValue /\ NoCursor \in CursorValue /\ Idle.run = None /\ Idle.pc = "idle" /\ Idle.read = NoCursor
<1>1. NoCursor \in CursorValue
  BY LineFacts DEF NoCursor, CursorValue
<1>2. 0 \in 0 .. Len(Line) /\ <<>> \in Seq(EventSet)
  BY LineFacts
<1> QED BY <1>1, <1>2 DEF Idle, ColValue

(* The fields of what a process holds.                                     *)
LEMMA ColTypes ==
  ASSUME TypeInv, NEW c \in Collector
  PROVE  /\ col[c] \in ColValue /\ col[c].end \in 0 .. Len(Line) /\ col[c].end \in Nat
         /\ col[c].new \in Seq(EventSet) /\ col[c].gen \in Gen \union {None}
         /\ col[c].read \in CursorValue /\ col[c].read.offset \in 0 .. Len(Line) /\ col[c].read.offset \in Nat
         /\ col[c].read.prefix \in Gen \union {None}
         /\ col[c].run \in Run \union {None} /\ col[c].prior \in RecordValue \union {None}
<1>1. col[c] \in ColValue
  BY DEF TypeInv
<1> QED BY <1>1, LineFacts DEF ColValue, CursorValue

(* What is said of the source and of the ledger stays true.                *)
SourceGrows ==
  \/ source'.gen > source.gen
  \/ source'.gen = source.gen /\ source'.lines >= source.lines
LedgerKept == tail' # "glued" => tail # "glued" /\ Range(ledger) \subseteq Range(ledger')

(* The fields of the source are numbers.                                   *)
LEMMA SourceTypes ==
  ASSUME TypeInv
  PROVE  source.gen \in Gen /\ source.gen \in Nat /\ source.lines \in 0 .. Len(Line) /\ source.lines \in Nat
BY LineFacts DEF TypeInv, Gen

(* The files of the source are numbered from 1.                            *)
LEMMA GenTypes == \A g \in Gen : g \in Nat /\ g >= 1
BY LineFacts DEF Gen

(* A position that was read stays one,                                     *)
LEMMA WithinKeeps ==
  ASSUME TypeInv, TypeInv', SourceGrows, NEW g \in Gen \union {None}, NEW to \in Nat, Within(g, to)
  PROVE  Within(g, to)'
<1>1. /\ source.gen \in Nat /\ source.lines \in Nat /\ source'.gen \in Gen /\ source'.gen \in Nat /\ source'.lines \in Nat
      /\ source.gen \in Gen
  BY LineFacts DEF TypeInv, Gen
<1>2. CASE g = None
  BY <1>1, <1>2, NoneFacts DEF Within
<1>3. CASE g \in Gen /\ g # None
  <2>1. g \in Nat
    BY <1>3, GenTypes
  <2> QED BY <1>1, <1>3, <2>1 DEF Within, SourceGrows
<1> QED BY <1>2, <1>3

(* and what is kept stays kept, while the ledger is readable.              *)
LEMMA KeptKeeps ==
  ASSUME LedgerKept, NEW g, NEW to, Kept(g, to)
  PROVE  Kept(g, to)'
BY DEF LedgerKept, Kept

(* The fields of a cursor.                                                 *)
LEMMA CursorTypes == \A v \in CursorValue : v.prefix \in Gen \union {None} /\ v.offset \in Nat /\ v.offset \in 0 .. Len(Line)
BY LineFacts DEF CursorValue

(* So what a cursor answers for stays true.                                *)
LEMMA CursorKeeps ==
  ASSUME TypeInv, TypeInv', SourceGrows, LedgerKept, NEW v \in CursorValue, CursorInv(v)
  PROVE  CursorInv(v)'
<1>1. v.prefix \in Gen \union {None} /\ v.offset \in Nat
  BY CursorTypes
<1> QED BY <1>1, WithinKeeps, KeptKeeps DEF CursorInv

(* Without a cursor there is nothing to answer for.                        *)
LEMMA NoCursorInv ==
  ASSUME TypeInv' PROVE CursorInv(NoCursor)'
<1>1. Measured(None, 0, 0) = {}
  BY MeasuredFacts
<1>2. NoCursor.prefix = None /\ NoCursor.offset = 0
  BY DEF NoCursor
<1>3. source'.gen \in Gen /\ source'.lines \in Nat
  BY LineFacts DEF TypeInv
<1>4. Within(None, 0)'
  BY <1>3 DEF Within
<1>5. Kept(None, 0)'
  BY <1>1 DEF Kept
<1> QED BY <1>2, <1>4, <1>5 DEF CursorInv

(* The cursor that a process holds.                                        *)
LEMMA ReadKeeps ==
  ASSUME TypeInv, TypeInv', SourceGrows, LedgerKept, NEW c \in Collector,
         CursorInv(col[c].read), col'[c].read = col[c].read
  PROVE  CursorInv(col[c].read)'
<1>1. PICK v \in CursorValue : v = col[c].read /\ v = col'[c].read
  BY ColTypes
<1>2. CursorInv(v)
  BY <1>1
<1>3. CursorInv(v)'
  BY <1>2, CursorKeeps
<1> QED BY <1>1, <1>3 DEF CursorInv, Within, Kept

(* What a process answers for stays true while others move.                *)
LEMMA ProcessKeeps ==
  ASSUME SharedInv, TypeInv', SourceGrows, LedgerKept, source'.gen = 1 => source.gen = 1,
         NEW d \in Collector, col'[d] = col[d]
  PROVE  ProcessInv(d)'
<1>0. TypeInv /\ ProcessInv(d)
  BY DEF SharedInv
<1>1. CursorInv(col[d].read)'
  BY <1>0, ReadKeeps DEF ProcessInv
<1>2. HeldInv(d)'
  <2>1. /\ Holding(d)' => Holding(d)
        /\ col[d].gen \in Gen \union {None} /\ col[d].end \in Nat
    BY <1>0, ColTypes DEF Holding
  <2> QED BY <1>0, <2>1, WithinKeeps DEF ProcessInv, HeldInv
<1>3. AppendInv(d)'
  BY <1>0 DEF ProcessInv, AppendInv, LedgerKept
<1>4. PastInv(d)'
  BY <1>0, KeptKeeps DEF ProcessInv, PastInv, Past
<1> QED BY <1>1, <1>2, <1>3, <1>4 DEF ProcessInv

(* What a process is about to append (_known_event_ids): the events it has *)
(* read that the ledger does not hold, in their order.                     *)
LEMMA ReadTypes ==
  ASSUME SharedInv, NEW c \in Collector, At(c, "ids")
  PROVE  LET lines == Events(col[c].gen, col[c].read.offset, col[c].end)
             new == Unseen(lines, Range(ledger))
         IN /\ new \in Seq(EventSet) /\ IsInjective(new) /\ Ordered(new)
            /\ Range(new) = Measured(col[c].gen, col[c].read.offset, col[c].end) \ Range(ledger)
<1> DEFINE g == col[c].gen
           from == col[c].read.offset
           to == col[c].end
           lines == Events(g, from, to)
           new == Unseen(lines, Range(ledger))
<1>0. TypeInv /\ HeldInv(c)
  BY DEF SharedInv, ProcessInv
<1>1. /\ from \in 0 .. Len(Line) /\ to \in 0 .. Len(Line) /\ from \in Nat /\ to \in Nat
      /\ g \in Gen \union {None} /\ Len(Line) \in Nat
  BY <1>0, ColTypes, LineFacts
<1>2. from =< to /\ (g = None => to = 0)
  BY <1>0 DEF HeldInv, Holding, Within
<1> HIDE DEF g, from, to
<1>3. /\ lines \in Seq(EventSet) /\ IsInjective(lines) /\ Ordered(lines)
      /\ Range(lines) = Measured(g, from, to)
  <2>1. CASE g \in Gen
    <3>1. to \in from .. Len(Line)
      BY <1>1, <1>2
    <3> QED BY <1>1, <2>1, <3>1, EventsFacts
  <2>2. CASE g = None
    <3>1. from = 0 /\ to = 0
      BY <1>1, <1>2, <2>2
    <3>2. lines = <<>>
      BY <3>1, EventsNone
    <3>3. <<>> \in Seq(EventSet) /\ IsInjective(<<>>) /\ Ordered(<<>>) /\ Range(<<>>) = {}
      BY DEF IsInjective, Ordered, Range
    <3>4. Measured(g, 0, 0) = {}
      BY MeasuredFacts
    <3> QED BY <3>1, <3>2, <3>3, <3>4
  <2> QED BY <1>1, <2>1, <2>2
<1> HIDE DEF lines
<1>4. new = Among(lines, EventSet \ Range(ledger))
  BY <1>3, UnseenIs
<1>5. /\ new \in Seq(EventSet) /\ IsInjective(new) /\ Ordered(new)
      /\ Range(new) = Range(lines) \intersect (EventSet \ Range(ledger))
  BY <1>3, <1>4, AmongType, AmongKeeps
<1>6. Measured(g, from, to) \subseteq EventSet
  BY <1>1, MeasuredFacts
<1>7. Range(new) = Measured(g, from, to) \ Range(ledger)
  BY <1>3, <1>5, <1>6
<1> HIDE DEF new
<1>8. new \in Seq(EventSet) /\ IsInjective(new) /\ Ordered(new)
  BY <1>5
<1> QED BY <1>7, <1>8 DEF new, lines, g, from, to

(* The record that a process is about to write.                            *)
Linked(c) == col[c].given \/ (col[c].prior # None /\ col[c].prior.linked)
NewRecord(c) ==
  [phase |-> col[c].phase, linked |-> Linked(c), boundary |-> col[c].end,
   calls |-> AggregateTurns(ledger, IF Linked(c) THEN Turns[col[c].run] ELSE {}),
   latest |-> LatestObservation(ledger),
   finality |-> Finality(col[c].phase, col[c].prior, col[c].end)]

(* report_run_usage writes this record and ends.                           *)
LEMMA WriteRecordIs ==
  ASSUME NEW c \in Collector, WriteRecord(c)
  PROVE  /\ At(c, "record") /\ ~Malformed
         /\ records' = [records EXCEPT ![col[c].run] = NewRecord(c)]
         /\ col' = [col EXCEPT ![c] = Idle]
         /\ UNCHANGED <<source, ledger, tail, cursor, temp, solo, kills, reports>>
BY DEF WriteRecord, NewRecord, Linked

(* The record is well-typed.                                               *)
LEMMA RecordTypes ==
  ASSUME TypeInv, NEW c \in Collector, At(c, "record")
  PROVE  NewRecord(c) \in RecordValue
<1>1. /\ col[c] \in ColValue /\ col[c].end \in 0 .. Len(Line)
      /\ col[c].phase \in {"start", "completion", "recovery"}
      /\ ledger \in Seq(EventSet)
  BY ColTypes DEF TypeInv, ColValue
<1>2. \A turns : AggregateTurns(ledger, turns) \in Seq(EventSet)
  <2> SUFFICES ASSUME NEW turns PROVE AggregateTurns(ledger, turns) \in Seq(EventSet)
    OBVIOUS
  <2> DEFINE T == {e \in EventSet : e.type = "tokens" /\ e.gen = 1 /\ e.line \in turns}
  <2>1. AggregateTurns(ledger, turns) = Among(ledger, T)
    BY <1>1, AggregateIs
  <2> HIDE DEF T
  <2> QED BY <1>1, <2>1, AmongType
<1>3. Linked(c) \in BOOLEAN
  BY DEF Linked
<1>4. LatestObservation(ledger) \in EventSet \union {None}
  <2>1. PICK calls : /\ calls = Among(ledger, {e \in EventSet : e.type = "tokens"})
                     /\ LatestObservation(ledger) = IF calls = <<>> THEN None ELSE Last(calls)
    BY <1>1, LatestIs
  <2>2. calls \in Seq(EventSet)
    BY <1>1, <2>1, AmongType
  <2>3. calls # <<>> => calls[Len(calls)] \in EventSet
    BY <2>2
  <2> QED BY <2>1, <2>3 DEF Last
<1>5. Finality(col[c].phase, col[c].prior, col[c].end) \in {"open", "provisional", "provisional_after_reconciliation"}
  BY DEF Finality
<1> QED BY <1>1, <1>2, <1>3, <1>4, <1>5 DEF NewRecord, RecordValue

(* A step of a process keeps the types, moves that process only, and       *)
(* leaves the source alone.                                                *)
LEMMA StepTypes ==
  ASSUME SharedInv, NEW c \in Collector, Step(c) \/ Kill(c) \/ KillAppending(c)
  PROVE  /\ TypeInv'
         /\ OnlyOf(c) /\ solo' = solo /\ source' = source
<1>0. TypeInv /\ col[c] \in ColValue
  BY ColTypes DEF SharedInv
<1> DEFINE F == /\ source' = source /\ solo' = solo
                /\ OnlyOf(c) /\ col'[c] \in ColValue
                /\ Reports(c)' => col'[c].phase # "manual"
                /\ At(c, "record")' => Reports(c)'
           G == /\ ledger' \in Seq(EventSet) /\ tail' \in {"whole", "torn", "bare", "glued"}
                /\ cursor' \in CursorValue \union {None} /\ temp' \in CursorValue \union {None}
                /\ records' \in [Run -> RecordValue \union {None}]
                /\ kills' \in 0 .. MaxKills
<1>1. ASSUME F, G PROVE TypeInv' /\ OnlyOf(c) /\ solo' = solo /\ source' = source
  <2>1. /\ col' \in [Collector -> ColValue]
        /\ \A d \in Collector : At(d, "record")' => Reports(d)' /\ col'[d].phase # "manual"
        /\ \A d \in Collector : Reports(d)' => col'[d].phase # "manual"
    BY <1>0, <1>1, OnlyFacts
  <2> QED BY <1>0, <1>1, <2>1 DEF TypeInv
<1>2. ASSUME UNCHANGED <<files, kills>> PROVE G
  BY <1>0, <1>2 DEF TypeInv, files
<1>3. ASSUME col' = [col EXCEPT ![c] = Idle], UNCHANGED <<source, solo>> PROVE F
  BY <1>0, <1>3, IdleTypes DEF OnlyOf, TypeInv
<1>4. /\ DOMAIN col = Collector
      /\ (Reports(c) => col[c].phase # "manual") /\ (At(c, "record") => Reports(c))
  BY <1>0 DEF TypeInv, ColValue
<1>4a. ASSUME NEW v \in ColValue, col' = [col EXCEPT ![c] = v], UNCHANGED <<source, solo>>,
              v.run = col[c].run, v.phase = col[c].phase, v.pc = "record" => Reports(c)
       PROVE  F
  <2>1. col'[c] = v
    BY <1>4, <1>4a
  <2> QED BY <1>4, <1>4a, <2>1 DEF OnlyOf
<1> HIDE DEF F, G
<1>5. CASE LoadCursor(c)
  <2>1. LoadedCursor \in CursorValue
    BY <1>0, IdleTypes DEF LoadedCursor, TypeInv
  <2>2. F
    <3>1. PICK v : v = [col[c] EXCEPT !.read = LoadedCursor, !.pc = "source"]
      OBVIOUS
    <3>2. col' = [col EXCEPT ![c] = v] /\ UNCHANGED <<source, solo>>
      BY <1>4, <3>1, <1>5 DEF LoadCursor
    <3>3. v \in ColValue /\ v.run = col[c].run /\ v.phase = col[c].phase /\ v.pc # "record"
      BY <1>0, <3>1, <2>1 DEF ColValue
    <3> QED BY <1>4a, <3>2, <3>3
  <2> QED BY <1>1, <1>2, <1>5, <2>2 DEF LoadCursor
<1>6. CASE SourceMissing(c)
  <2>1. col[c].read.offset \in 0 .. Len(Line)
    BY <1>0, ColTypes
  <2>2. F
    <3>1. PICK v : v = [col[c] EXCEPT !.end = col[c].read.offset, !.pc = "ledger"]
      OBVIOUS
    <3>2. col' = [col EXCEPT ![c] = v] /\ UNCHANGED <<source, solo>>
      BY <1>4, <3>1, <1>6 DEF SourceMissing
    <3>3. v \in ColValue /\ v.run = col[c].run /\ v.phase = col[c].phase /\ v.pc # "record"
      BY <1>0, <3>1, <2>1 DEF ColValue
    <3> QED BY <1>4a, <3>2, <3>3
  <2> QED BY <1>1, <1>2, <1>6, <2>2 DEF SourceMissing
<1>7. CASE SourceChanged(c) \/ LedgerMalformed(c) \/ RenameFails(c)
  BY <1>1, <1>2, <1>3, <1>7 DEF SourceChanged, LedgerMalformed, RenameFails
<1>8. CASE ReadSource(c)
  <2>1. source.gen \in Gen /\ source.lines \in 0 .. Len(Line)
    BY <1>0, SourceTypes
  <2>2. F
    <3>1. PICK v : v = [col[c] EXCEPT !.end = source.lines, !.pc = "ids",
                                     !.gen = IF source.lines > 0 \/ source.begun THEN source.gen ELSE None]
      OBVIOUS
    <3>2. col' = [col EXCEPT ![c] = v] /\ UNCHANGED <<source, solo>>
      BY <1>4, <3>1, <1>8 DEF ReadSource
    <3>3. v \in ColValue /\ v.run = col[c].run /\ v.phase = col[c].phase /\ v.pc # "record"
      BY <1>0, <3>1, <2>1 DEF ColValue
    <3> QED BY <1>4a, <3>2, <3>3
  <2> QED BY <1>1, <1>2, <1>8, <2>2 DEF ReadSource
<1>9. CASE ReadIds(c)
  <2> DEFINE new == Unseen(Events(col[c].gen, col[c].read.offset, col[c].end), Range(ledger))
  <2>1. new \in Seq(EventSet)
    BY <1>9, ReadTypes DEF ReadIds
  <2>2. /\ col' = [col EXCEPT ![c].pc = "append", ![c].new = new]
        /\ UNCHANGED <<source, files, solo, kills, reports>>
    BY <1>9 DEF ReadIds
  <2> HIDE DEF new
  <2>3. F
    <3>1. PICK v : v = [col[c] EXCEPT !.pc = "append", !.new = new]
      OBVIOUS
    <3>2. col' = [col EXCEPT ![c] = v] /\ UNCHANGED <<source, solo>>
      BY <1>4, <3>1, <2>2
    <3>3. v \in ColValue /\ v.run = col[c].run /\ v.phase = col[c].phase /\ v.pc # "record"
      BY <1>0, <3>1, <2>1 DEF ColValue
    <3> QED BY <1>4a, <3>2, <3>3
  <2> QED BY <1>1, <1>2, <2>2, <2>3
<1>10. CASE AppendEvents(c)
  <2>1. col[c].new \in Seq(EventSet) /\ <<>> \in Seq(EventSet)
    BY <1>0, ColTypes
  <2>2. F
    <3>1. PICK v : v = [col[c] EXCEPT !.pc = "cursor", !.new = <<>>]
      OBVIOUS
    <3>2. col' = [col EXCEPT ![c] = v] /\ UNCHANGED <<source, solo>>
      BY <1>4, <3>1, <1>10 DEF AppendEvents
    <3>3. v \in ColValue /\ v.run = col[c].run /\ v.phase = col[c].phase /\ v.pc # "record"
      BY <1>0, <3>1, <2>1 DEF ColValue
    <3> QED BY <1>4a, <3>2, <3>3
  <2>3. AppendedTo(col[c].new) \in Seq(EventSet)
    BY <1>0, <2>1, AppendedFacts DEF TypeInv
  <2>4. G
    BY <1>0, <1>10, <2>3 DEF AppendEvents, G, TypeInv, TailAfter
  <2> QED BY <1>1, <2>2, <2>4
<1>11. CASE WriteCursor(c)
  <2>1. /\ col[c].end \in 0 .. Len(Line) /\ col[c].gen \in Gen \union {None}
        /\ col[c].read.prefix \in Gen \union {None}
    BY <1>0, ColTypes
  <2>2. temp' \in CursorValue
    BY <1>11, <2>1 DEF WriteCursor, CursorValue
  <2>3. G
    BY <1>0, <1>11, <2>2 DEF WriteCursor, G, TypeInv
  <2>4. /\ col' = [col EXCEPT ![c].pc = "rename", ![c].read = NoCursor, ![c].gen = None]
        /\ source' = source /\ solo' = solo
    BY <1>11 DEF WriteCursor
  <2>5. F
    <3>1. PICK fresh \in CursorValue : fresh = NoCursor
      BY IdleTypes
    <3>2. PICK v : v = [col[c] EXCEPT !.pc = "rename", !.read = fresh, !.gen = None]
      OBVIOUS
    <3>3. v \in ColValue /\ v.run = col[c].run /\ v.phase = col[c].phase /\ v.pc # "record"
      BY <1>0, <3>2 DEF ColValue
    <3>4. col' = [col EXCEPT ![c] = v] /\ UNCHANGED <<source, solo>>
      BY <1>4, <2>4, <3>1, <3>2
    <3> QED BY <1>4a, <3>3, <3>4
  <2> QED BY <1>1, <2>3, <2>5
<1>12. CASE RenameCursor(c)
  <2>1. G
    BY <1>0, <1>12 DEF RenameCursor, G, TypeInv
  <2>2. F
    <3>1. PICK v : v = [col[c] EXCEPT !.pc = "ledger"]
      OBVIOUS
    <3>2. col' = [col EXCEPT ![c] = v] /\ UNCHANGED <<source, solo>>
      BY <1>4, <3>1, <1>12 DEF RenameCursor, Go
    <3>3. v \in ColValue /\ v.run = col[c].run /\ v.phase = col[c].phase /\ v.pc # "record"
      BY <1>0, <3>1 DEF ColValue
    <3> QED BY <1>4a, <3>2, <3>3
  <2> QED BY <1>1, <2>1, <2>2
<1>13. CASE ReadLedger(c)
  <2>1. PICK stale \in BOOLEAN : col' = [col EXCEPT ![c].value = Admission(ledger, stale), ![c].pc = "admission"]
    BY <1>13 DEF ReadLedger
  <2>2. Admission(ledger, stale) \in AdmissionValue
    BY <1>0, AdmissionFacts DEF TypeInv
  <2>3. F
    <3>1. PICK v : v = [col[c] EXCEPT !.value = Admission(ledger, stale), !.pc = "admission"]
      OBVIOUS
    <3>2. col' = [col EXCEPT ![c] = v] /\ UNCHANGED <<source, solo>>
      BY <1>4, <3>1, <1>13, <2>1 DEF ReadLedger
    <3>3. v \in ColValue /\ v.run = col[c].run /\ v.phase = col[c].phase /\ v.pc # "record"
      BY <1>0, <3>1, <2>2 DEF ColValue
    <3> QED BY <1>4a, <3>2, <3>3
  <2> QED BY <1>1, <1>2, <1>13, <2>3 DEF ReadLedger
<1>14. CASE WriteAdmission(c)
  <2>1. CASE Reports(c)
    <3>1. col' = [col EXCEPT ![c] = [col[c] EXCEPT !.pc = "record", !.value = None]]
      BY <1>14, <2>1 DEF WriteAdmission
    <3>2. source' = source /\ solo' = solo
      BY <1>14 DEF WriteAdmission
    <3>3. col'[c] = [col[c] EXCEPT !.pc = "record", !.value = None] /\ col' = [col EXCEPT ![c] = col'[c]]
      BY <1>4, <3>1
    <3>4. col'[c] \in ColValue /\ col'[c].run = col[c].run /\ col'[c].phase = col[c].phase
      BY <1>0, <3>3 DEF ColValue
    <3>5. F
      BY <1>4, <2>1, <3>2, <3>3, <3>4 DEF F, OnlyOf
    <3> QED BY <1>1, <1>2, <1>14, <3>5 DEF WriteAdmission
  <2>2. CASE ~Reports(c)
    <3>1. col' = [col EXCEPT ![c] = Idle]
      BY <1>14, <2>2 DEF WriteAdmission
    <3> QED BY <1>1, <1>2, <1>3, <1>14, <3>1 DEF WriteAdmission
  <2> QED BY <2>1, <2>2
<1>15. CASE WriteRecord(c)
  <2>1. /\ At(c, "record")
        /\ records' = [records EXCEPT ![col[c].run] = NewRecord(c)]
        /\ col' = [col EXCEPT ![c] = Idle]
        /\ UNCHANGED <<source, ledger, tail, cursor, temp, solo, kills, reports>>
    BY <1>15, WriteRecordIs
  <2>2. NewRecord(c) \in RecordValue
    BY <1>0, <2>1, RecordTypes
  <2>3. G
    BY <1>0, <2>1, <2>2 DEF G, TypeInv
  <2> QED BY <1>1, <1>3, <2>1, <2>3
<1>16. CASE Kill(c)
  <2>1. G
    BY <1>0, <1>16, LineFacts DEF Kill, G, TypeInv, files
  <2> QED BY <1>1, <1>3, <1>16, <2>1 DEF Kill
<1>17. CASE KillAppending(c)
  <2>1. PICK n \in 1 .. Len(col[c].new), end \in {"whole", "torn", "bare"} :
          /\ ledger' = AppendedTo(SubSeq(col[c].new, 1, IF end = "torn" THEN n - 1 ELSE n))
          /\ tail' = TailAfter(end)
    BY <1>17 DEF KillAppending
  <2> DEFINE m == IF end = "torn" THEN n - 1 ELSE n
  <2>2. col[c].new \in Seq(EventSet) /\ Len(col[c].new) \in Nat
    BY <1>0, ColTypes, LenProperties
  <2>3. m \in Int /\ m =< Len(col[c].new) /\ 1 \in Nat /\ 1 # 0
    BY <2>2
  <2>4. SubSeq(col[c].new, 1, m) \in Seq(EventSet)
    BY <2>2, <2>3, PartFacts
  <2>5. AppendedTo(SubSeq(col[c].new, 1, m)) \in Seq(EventSet)
    BY <1>0, <2>4, AppendedFacts DEF TypeInv
  <2>6. tail' \in {"whole", "torn", "bare", "glued"}
    BY <2>1 DEF TailAfter
  <2>7. G
    BY <1>0, <1>17, <2>1, <2>5, <2>6, LineFacts DEF KillAppending, G, TypeInv
  <2> QED BY <1>1, <1>3, <1>17, <2>7 DEF KillAppending
<1> QED BY <1>5, <1>6, <1>7, <1>8, <1>9, <1>10, <1>11, <1>12, <1>13, <1>14, <1>15, <1>16, <1>17 DEF Step

(* What the provider does to the source keeps the invariant: positions     *)
(* that were read stay, and a replaced file has another number.            *)
LEMMA SourceSteps ==
  ASSUME SharedInv, Grow \/ BeginLine \/ ReplaceSource
  PROVE  /\ TypeInv' /\ SharedInv'
         /\ UNCHANGED <<files, col, solo>>
         /\ source'.gen = 1 => source.gen = 1
<1>0. TypeInv /\ SourceInv
  BY DEF SharedInv
<1>1. /\ source' \in [present : BOOLEAN, gen : Gen, lines : 0 .. Len(Line), begun : BOOLEAN]
      /\ SourceGrows /\ (source'.gen = 1 => source.gen = 1) /\ SourceInv'
  <2>1. CASE Grow
    <3>1. /\ source' = [source EXCEPT !.present = TRUE, !.lines = @ + 1, !.begun = FALSE]
          /\ source.lines < Len(Line)
      BY <2>1 DEF Grow
    <3>2. source.lines + 1 \in 0 .. Len(Line)
      BY <1>0, <3>1, SourceTypes, LineFacts
    <3>3. /\ source' \in [present : BOOLEAN, gen : Gen, lines : 0 .. Len(Line), begun : BOOLEAN]
          /\ source'.present = TRUE /\ source'.gen = source.gen /\ source'.lines = source.lines + 1
      BY <1>0, <3>1, <3>2 DEF TypeInv
    <3> QED BY <1>0, <3>3, SourceTypes DEF SourceGrows, SourceInv
  <2>2. CASE BeginLine
    <3>1. source' = [source EXCEPT !.present = TRUE, !.begun = TRUE]
      BY <2>2 DEF BeginLine
    <3>2. /\ source' \in [present : BOOLEAN, gen : Gen, lines : 0 .. Len(Line), begun : BOOLEAN]
          /\ source'.present = TRUE /\ source'.gen = source.gen /\ source'.lines = source.lines
      BY <1>0, <3>1 DEF TypeInv
    <3> QED BY <1>0, <3>2, SourceTypes DEF SourceGrows, SourceInv
  <2>3. CASE ReplaceSource
    <3>1. source.gen + 1 \in Gen
      BY <1>0, <2>3, SourceTypes, LineFacts DEF ReplaceSource, Gen
    <3>2. PICK n \in {0, Len(Line)} : source' = [source EXCEPT !.gen = @ + 1, !.lines = n, !.begun = FALSE]
      BY <2>3 DEF ReplaceSource
    <3>3. n \in 0 .. Len(Line) /\ source.present
      BY <2>3, LineFacts DEF ReplaceSource
    <3>4. source'.present = source.present /\ source'.gen = source.gen + 1
      BY <1>0, <3>2 DEF TypeInv
    <3>5. source' \in [present : BOOLEAN, gen : Gen, lines : 0 .. Len(Line), begun : BOOLEAN]
      BY <1>0, <3>1, <3>2, <3>3 DEF TypeInv
    <3> QED BY <1>0, <3>3, <3>4, <3>5, SourceTypes, GenTypes DEF SourceGrows, SourceInv
  <2> QED BY <2>1, <2>2, <2>3
<1>2. UNCHANGED <<files, col, solo, kills, reports>>
  BY DEF Grow, BeginLine, ReplaceSource
<1>3. TypeInv'
  BY <1>0, <1>1, <1>2 DEF TypeInv, files
<1>4. LedgerKept
  BY <1>2 DEF LedgerKept, files
<1>5. \A d \in Collector : ProcessInv(d)'
  BY <1>1, <1>2, <1>3, <1>4, ProcessKeeps
<1>6. (cursor # None => CursorInv(cursor))'
  <2>1. SUFFICES ASSUME cursor # None PROVE CursorInv(cursor)'
    BY <1>2 DEF files
  <2>2. PICK v \in CursorValue : v = cursor /\ v = cursor'
    BY <1>0, <1>2, <2>1 DEF TypeInv, files
  <2>3. CursorInv(v)'
    BY <1>0, <1>1, <1>3, <1>4, <2>1, <2>2, CursorKeeps DEF SharedInv
  <2> QED BY <2>2, <2>3 DEF CursorInv, Within, Kept
<1>7. (temp # None => CursorInv(temp))'
  <2>1. SUFFICES ASSUME temp # None PROVE CursorInv(temp)'
    BY <1>2 DEF files
  <2>2. PICK v \in CursorValue : v = temp /\ v = temp'
    BY <1>0, <1>2, <2>1 DEF TypeInv, files
  <2>3. CursorInv(v)'
    BY <1>0, <1>1, <1>3, <1>4, <2>1, <2>2, CursorKeeps DEF SharedInv
  <2> QED BY <2>2, <2>3 DEF CursorInv, Within, Kept
<1>8. LedgerInv'
  <2>1. ASSUME NEW e \in Range(ledger)
        PROVE  e \in Measured(e.gen, 0, Len(Line)) /\ Within(e.gen, e.line)' /\ Kept(e.gen, e.line - 1)'
    <3>1. e \in EventSet
      BY <1>0, <2>1, RangeOfSeq DEF TypeInv
    <3>2. e \in Measured(e.gen, 0, Len(Line)) /\ Within(e.gen, e.line) /\ Kept(e.gen, e.line - 1)
      BY <2>1 DEF SharedInv, LedgerInv
    <3>3. Within(e.gen, e.line)'
      BY <1>0, <1>1, <1>3, <3>1, <3>2, EventTypes, WithinKeeps
    <3> QED BY <1>4, <3>2, <3>3, KeptKeeps
  <2> QED BY <1>2, <2>1 DEF LedgerInv, files
<1> QED BY <1>1, <1>2, <1>3, <1>5, <1>6, <1>7, <1>8 DEF SharedInv

(* A ledger that is left as it is.                                         *)
LEMMA LedgerSame ==
  ASSUME SharedInv, source' = source, ledger' = ledger, tail' = tail
  PROVE  LedgerKept /\ LedgerInv'
<1>1. LedgerInv
  BY DEF SharedInv
<1> QED BY <1>1 DEF LedgerKept, LedgerInv, Within, Kept

(* One process has moved; what the cursor files hold is what one of them   *)
(* held, or what it has written.                                           *)
LEMMA FilesKeep ==
  ASSUME SharedInv, TypeInv', source' = source, LedgerKept, LedgerInv', NEW c \in Collector,
         \A d \in Collector : d # c => col'[d] = col[d], ProcessInv(c)',
         cursor' # cursor => cursor' = temp /\ temp # None,
         temp' # temp /\ temp' # None => CursorInv(temp)'
  PROVE  SharedInv'
<1>0. TypeInv
  BY DEF SharedInv
<1>1. SourceGrows
  BY <1>0, SourceTypes DEF SourceGrows
<1>2. \A d \in Collector : ProcessInv(d)'
  BY <1>0, <1>1, ProcessKeeps
<1>3. (cursor # None => CursorInv(cursor))'
  <2>1. SUFFICES ASSUME cursor' # None PROVE CursorInv(cursor)'
    OBVIOUS
  <2>2. PICK v \in CursorValue : v = cursor' /\ CursorInv(v)
    BY <1>0, <2>1 DEF TypeInv, SharedInv
  <2>3. CursorInv(v)'
    BY <1>0, <1>1, <2>2, CursorKeeps
  <2> QED BY <2>2, <2>3 DEF CursorInv, Within, Kept
<1>4. (temp # None => CursorInv(temp))'
  <2>1. SUFFICES ASSUME temp' # None, temp' = temp PROVE CursorInv(temp)'
    OBVIOUS
  <2>2. PICK v \in CursorValue : v = temp' /\ CursorInv(v)
    BY <1>0, <2>1 DEF TypeInv, SharedInv
  <2>3. CursorInv(v)'
    BY <1>0, <1>1, <2>2, CursorKeeps
  <2> QED BY <2>2, <2>3 DEF CursorInv, Within, Kept
<1>5. SourceInv'
  BY DEF SharedInv, SourceInv
<1> QED BY <1>2, <1>3, <1>4, <1>5 DEF SharedInv

(* A process that begins, or that has ended.                               *)
LEMMA FreshProcess ==
  ASSUME TypeInv', NEW c \in Collector, col'[c].read = NoCursor, col'[c].pc \in {"idle", "load"}
  PROVE  ProcessInv(c)'
<1>1. CursorInv(NoCursor)'
  BY NoCursorInv
<1>2. CursorInv(col[c].read)'
  BY <1>1 DEF CursorInv, Within, Kept
<1> QED BY <1>2 DEF ProcessInv, HeldInv, AppendInv, PastInv, Holding, Past

(* usage-collect or usage-report-run begins.                               *)
LEMMA BeginSteps ==
  ASSUME SharedInv, NEW c \in Collector, NEW phase, NEW r \in Run \union {None}, NEW given \in BOOLEAN,
         phase \in {"manual", "start", "completion", "recovery"}, r # None => phase # "manual",
         Begin(c, phase, r, given)
  PROVE  TypeInv' /\ SharedInv'
<1>0. TypeInv
  BY DEF SharedInv
<1>1. /\ OnlyOf(c) /\ col'[c] \in ColValue
      /\ col'[c].pc = "load" /\ col'[c].run = r /\ col'[c].phase = phase /\ col'[c].read = NoCursor
  <2> DEFINE prior == IF r = None THEN None ELSE records[r]
             v == [Idle EXCEPT !.pc = "load", !.phase = phase, !.run = r, !.given = given, !.prior = prior]
  <2>1. col' = [col EXCEPT ![c] = v] /\ DOMAIN col = Collector
    BY <1>0 DEF Begin, TypeInv
  <2>2. prior \in RecordValue \union {None}
    BY <1>0 DEF TypeInv
  <2> HIDE DEF prior
  <2>3. v \in ColValue /\ v.pc = "load" /\ v.run = r /\ v.phase = phase /\ v.read = NoCursor
    BY <2>2, IdleTypes DEF ColValue, Idle
  <2> QED BY <2>1, <2>3 DEF OnlyOf
<1>2. /\ col' \in [Collector -> ColValue]
      /\ \A d \in Collector : d # c => col'[d] = col[d]
      /\ \A d \in Collector : At(d, "record")' => Reports(d)' /\ col'[d].phase # "manual"
      /\ \A d \in Collector : Reports(d)' => col'[d].phase # "manual"
  BY <1>0, <1>1, OnlyFacts
<1>3. source' = source /\ ledger' = ledger /\ tail' = tail /\ cursor' = cursor /\ temp' = temp
      /\ records' = records /\ kills' = kills /\ solo' \in BOOLEAN
  BY <1>0 DEF Begin, TypeInv, files
<1>4. TypeInv'
  BY <1>0, <1>2, <1>3 DEF TypeInv
<1>5. ProcessInv(c)'
  BY <1>1, <1>4, FreshProcess
<1>6. LedgerKept /\ LedgerInv'
  BY <1>3, LedgerSame
<1> QED BY <1>2, <1>3, <1>4, <1>5, <1>6, FilesKeep

(* A step that leaves the ledger as it is.                                 *)
LEMMA QuietStep ==
  ASSUME SharedInv, TypeInv', NEW c \in Collector, OnlyOf(c), source' = source, ledger' = ledger, tail' = tail,
         ProcessInv(c)', cursor' # cursor => cursor' = temp /\ temp # None,
         temp' # temp /\ temp' # None => CursorInv(temp)'
  PROVE  SharedInv'
<1>1. \A d \in Collector : d # c => col'[d] = col[d]
  BY DEF SharedInv, TypeInv, OnlyOf
<1>2. LedgerKept /\ LedgerInv'
  BY LedgerSame
<1> QED BY <1>1, <1>2, FilesKeep

(* A process that goes on, with the cursor it holds and the end it has     *)
(* read to.                                                                *)
LEMMA OnwardProcess ==
  ASSUME SharedInv, TypeInv', NEW c \in Collector, source' = source, LedgerKept,
         col'[c].read = col[c].read, col'[c].end = col[c].end, Past(c),
         col'[c].pc \in {"rename", "ledger", "admission", "record"}
  PROVE  ProcessInv(c)'
<1>0. TypeInv /\ SourceGrows /\ ProcessInv(c)
  BY SourceTypes DEF SharedInv, SourceGrows
<1>1. CursorInv(col[c].read)'
  BY <1>0, ReadKeeps DEF ProcessInv
<1>2. PastInv(c)'
  <2>1. source.gen = 1 => Kept(1, col[c].end)
    BY <1>0 DEF ProcessInv, PastInv
  <2>2. PICK k : k = col[c].end /\ k = col'[c].end
    OBVIOUS
  <2>3. source.gen = 1 => Kept(1, k)'
    BY <2>1, <2>2, KeptKeeps
  <2> QED BY <2>2, <2>3 DEF PastInv, Kept
<1> QED BY <1>1, <1>2 DEF ProcessInv, HeldInv, AppendInv, Holding

(* One step after the other: the cursor is loaded,                         *)
LEMMA LoadStep ==
  ASSUME SharedInv, TypeInv', NEW c \in Collector, LoadCursor(c), OnlyOf(c)
  PROVE  SharedInv'
<1>0. TypeInv /\ SourceGrows /\ LedgerKept
  BY SourceTypes DEF SharedInv, SourceGrows, LedgerKept, LoadCursor, files
<1>1. /\ col'[c].read = LoadedCursor /\ col'[c].pc = "source"
      /\ UNCHANGED <<source, files>>
  BY <1>0 DEF LoadCursor, TypeInv, ColValue
<1>2. CursorInv(col[c].read)'
  <2>1. CASE cursor = None
    <3>1. col'[c].read = NoCursor
      BY <1>1, <2>1 DEF LoadedCursor
    <3> QED BY <3>1, NoCursorInv DEF CursorInv, Within, Kept
  <2>2. CASE cursor # None
    <3>1. PICK v \in CursorValue : v = cursor /\ CursorInv(v) /\ col'[c].read = v
      BY <1>0, <1>1, <2>2 DEF LoadedCursor, TypeInv, SharedInv
    <3>2. CursorInv(v)'
      BY <1>0, <3>1, CursorKeeps
    <3> QED BY <3>1, <3>2 DEF CursorInv, Within, Kept
  <2> QED BY <2>1, <2>2
<1>3. ProcessInv(c)'
  BY <1>1, <1>2 DEF ProcessInv, HeldInv, AppendInv, PastInv, Holding, Past
<1> QED BY <1>1, <1>3, QuietStep DEF files

(* there is no source,                                                     *)
LEMMA MissingStep ==
  ASSUME SharedInv, TypeInv', NEW c \in Collector, SourceMissing(c), OnlyOf(c)
  PROVE  SharedInv'
<1>0. TypeInv /\ SourceGrows /\ LedgerKept /\ ProcessInv(c) /\ SourceInv
  BY SourceTypes DEF SharedInv, SourceGrows, LedgerKept, SourceMissing, files
<1>1. /\ col'[c].read = col[c].read /\ col'[c].pc = "ledger" /\ col'[c].end = col[c].read.offset
      /\ ~source.present /\ UNCHANGED <<source, files>>
  BY <1>0 DEF SourceMissing, TypeInv, ColValue
<1>2. CursorInv(col[c].read)'
  BY <1>0, <1>1, ReadKeeps DEF ProcessInv
<1>3. col[c].read.offset = 0
  BY <1>0, <1>1, ColTypes, SourceTypes, GenTypes DEF SourceInv, ProcessInv, CursorInv, Within
<1>4. Kept(1, col[c].end)'
  <2>1. Measured(1, 0, 0) = {}
    BY MeasuredFacts
  <2> QED BY <1>1, <1>3, <2>1 DEF Kept
<1>5. ProcessInv(c)'
  BY <1>1, <1>2, <1>4 DEF ProcessInv, HeldInv, AppendInv, PastInv, Holding, Past
<1> QED BY <1>1, <1>5, QuietStep DEF files

(* or its lines are read,                                                  *)
LEMMA ReadSourceStep ==
  ASSUME SharedInv, TypeInv', NEW c \in Collector, ReadSource(c), OnlyOf(c)
  PROVE  SharedInv'
<1>0. TypeInv /\ SourceGrows /\ LedgerKept /\ ProcessInv(c)
  BY SourceTypes DEF SharedInv, SourceGrows, LedgerKept, ReadSource, files
<1>1. /\ col'[c].read = col[c].read /\ col'[c].pc = "ids" /\ col'[c].end = source.lines
      /\ col'[c].gen = IF source.lines > 0 \/ source.begun THEN source.gen ELSE None
      /\ ~(source.lines < col[c].read.offset) /\ col[c].read.prefix \in {None, source.gen}
      /\ UNCHANGED <<source, files>>
  BY <1>0 DEF ReadSource, Raises, TypeInv, ColValue
<1>2. CursorInv(col[c].read)'
  BY <1>0, <1>1, ReadKeeps DEF ProcessInv
<1>3. HeldInv(c)'
  <2>1. source.gen \in Gen /\ source.gen \in Nat /\ source.lines \in Nat /\ col[c].read.offset \in Nat
    BY <1>0, SourceTypes, ColTypes
  <2>2. Within(col[c].gen, col[c].end)'
    BY <1>1, <2>1, NoneFacts DEF Within
  <2>3. col'[c].read.offset =< col'[c].end
    BY <1>1, <2>1
  <2>4. col'[c].read.prefix # None /\ col'[c].gen # None => col'[c].read.prefix = col'[c].gen
    BY <1>1
  <2> QED BY <2>2, <2>3, <2>4 DEF HeldInv
<1>4. ProcessInv(c)'
  BY <1>1, <1>2, <1>3 DEF ProcessInv, AppendInv, PastInv, Past
<1> QED BY <1>1, <1>4, QuietStep DEF files

(* and the ledger is searched for what they measure.                       *)
LEMMA ReadIdsStep ==
  ASSUME SharedInv, TypeInv', NEW c \in Collector, ReadIds(c), OnlyOf(c)
  PROVE  SharedInv'
<1> DEFINE new == Unseen(Events(col[c].gen, col[c].read.offset, col[c].end), Range(ledger))
<1>0. TypeInv /\ SourceGrows /\ LedgerKept /\ ProcessInv(c)
  BY SourceTypes DEF SharedInv, SourceGrows, LedgerKept, ReadIds, files
<1>1. /\ new \in Seq(EventSet) /\ IsInjective(new) /\ Ordered(new)
      /\ Range(new) = Measured(col[c].gen, col[c].read.offset, col[c].end) \ Range(ledger)
  BY ReadTypes DEF ReadIds
<1>2. /\ col' = [col EXCEPT ![c].pc = "append", ![c].new = new]
      /\ At(c, "ids") /\ UNCHANGED <<source, files>>
  BY DEF ReadIds
<1> HIDE DEF new
<1>3. /\ col'[c].read = col[c].read /\ col'[c].pc = "append" /\ col'[c].end = col[c].end
      /\ col'[c].gen = col[c].gen /\ col'[c].new = new
  BY <1>0, <1>2 DEF TypeInv, ColValue
<1>4. CursorInv(col[c].read)'
  BY <1>0, <1>3, ReadKeeps DEF ProcessInv
<1>5. HeldInv(c)'
  BY <1>0, <1>2, <1>3 DEF ProcessInv, HeldInv, Holding, Within
<1>6. /\ col[c].read.offset \in Nat /\ col[c].end \in Nat /\ col[c].read.offset =< col[c].end
      /\ col[c].gen \in Gen \union {None} /\ col[c].read.prefix \in Gen \union {None}
  BY <1>0, <1>2, ColTypes DEF ProcessInv, HeldInv, Holding
<1>7. Measured(col[c].gen, 0, col[c].end) =
        Measured(col[c].gen, 0, col[c].read.offset) \union Measured(col[c].gen, col[c].read.offset, col[c].end)
  BY <1>6, MeasuredFacts
<1>8. ASSUME tail # "glued" PROVE Measured(col[c].gen, 0, col[c].read.offset) \subseteq Range(ledger)
  <2>1. CASE col[c].gen = None
    <3>1. None \notin Gen
      BY NoneFacts
    <3>2. Measured(None, 0, col[c].read.offset) = {}
      BY <1>6, <3>1, MeasuredFacts
    <3> QED BY <2>1, <3>2
  <2>2. CASE col[c].read.prefix = None
    <3>1. col[c].read.offset = 0
      BY <1>0, <2>2 DEF ProcessInv, CursorInv, Within
    <3>2. Measured(col[c].gen, 0, 0) = {}
      BY MeasuredFacts
    <3> QED BY <3>1, <3>2
  <2>3. CASE col[c].gen # None /\ col[c].read.prefix # None
    <3>1. col[c].read.prefix = col[c].gen
      BY <1>0, <1>2, <2>3 DEF ProcessInv, HeldInv, Holding
    <3> QED BY <1>0, <1>8, <3>1 DEF ProcessInv, CursorInv, Kept
  <2> QED BY <2>1, <2>2, <2>3
<1>9. AppendInv(c)'
  <2>1. Range(new) \subseteq Measured(col[c].gen, 0, col[c].end)
    BY <1>1, <1>7
  <2>2. tail # "glued" => Measured(col[c].gen, 0, col[c].end) \subseteq Range(ledger) \union Range(new)
    BY <1>1, <1>7, <1>8
  <2> QED BY <1>1, <1>2, <1>3, <2>1, <2>2 DEF AppendInv, files
<1>10. ProcessInv(c)'
  BY <1>3, <1>4, <1>5, <1>9 DEF ProcessInv, PastInv, Past
<1> QED BY <1>2, <1>10, QuietStep DEF files

(* The cursor is written after the append, so that it answers for what is  *)
(* kept.                                                                   *)
LEMMA WriteCursorStep ==
  ASSUME SharedInv, TypeInv', NEW c \in Collector, WriteCursor(c), OnlyOf(c)
  PROVE  SharedInv'
<1> DEFINE prefix == IF col[c].read.prefix = None THEN col[c].gen ELSE col[c].read.prefix
<1>0. TypeInv /\ SourceGrows /\ LedgerKept /\ ProcessInv(c)
  BY SourceTypes DEF SharedInv, SourceGrows, LedgerKept, WriteCursor
<1>1. /\ temp' = [offset |-> col[c].end, prefix |-> prefix] /\ At(c, "cursor")
      /\ col' = [col EXCEPT ![c].pc = "rename", ![c].read = NoCursor, ![c].gen = None]
      /\ UNCHANGED <<source, ledger, tail, cursor>>
  BY DEF WriteCursor
<1>2. /\ col'[c].read = NoCursor /\ col'[c].pc = "rename" /\ col'[c].end = col[c].end
  BY <1>0, <1>1 DEF TypeInv, ColValue
<1>3. /\ col[c].end \in Nat /\ col[c].gen \in Gen \union {None} /\ col[c].read.prefix \in Gen \union {None}
      /\ source.gen \in Gen /\ source.gen \in Nat /\ source.lines \in Nat
  BY <1>0, ColTypes, SourceTypes
<1>4. Within(col[c].gen, col[c].end) /\ Kept(col[c].gen, col[c].end)
      /\ (col[c].read.prefix # None /\ col[c].gen # None => col[c].read.prefix = col[c].gen)
      /\ Within(col[c].read.prefix, col[c].read.offset)
  BY <1>0, <1>1 DEF ProcessInv, HeldInv, Holding, PastInv, CursorInv
<1>5. Within(prefix, col[c].end) /\ Kept(prefix, col[c].end)
  <2>1. CASE prefix = col[c].gen
    BY <1>4, <2>1
  <2>2. CASE prefix # col[c].gen
    <3>1. prefix = col[c].read.prefix /\ col[c].gen = None /\ prefix # None
      BY <1>4, <2>2
    <3>2. col[c].end = 0
      BY <1>4, <3>1 DEF Within
    <3>3. Within(prefix, 0)
      BY <1>3, <1>4, <3>1 DEF Within
    <3>4. Measured(prefix, 0, 0) = {}
      BY MeasuredFacts
    <3> QED BY <3>2, <3>3, <3>4 DEF Kept
  <2> QED BY <2>1, <2>2
<1> HIDE DEF prefix
<1>6. CursorInv(temp)'
  BY <1>1, <1>5 DEF CursorInv, Within, Kept
<1>7. CursorInv(col[c].read)'
  BY <1>2, NoCursorInv DEF CursorInv, Within, Kept
<1>8. PastInv(c)'
  <2>1. source.gen = 1 => Kept(1, col[c].end)
    BY <1>0, <1>1 DEF ProcessInv, PastInv, Past
  <2> QED BY <1>1, <1>2, <2>1 DEF PastInv, Kept
<1>9. ProcessInv(c)'
  BY <1>2, <1>7, <1>8 DEF ProcessInv, HeldInv, AppendInv, Holding
<1> QED BY <1>1, <1>6, <1>9, QuietStep

(* The steps after it,                                                     *)
LEMMA OnwardSteps ==
  ASSUME SharedInv, TypeInv', NEW c \in Collector, OnlyOf(c),
         RenameCursor(c) \/ ReadLedger(c) \/ (WriteAdmission(c) /\ Reports(c))
  PROVE  SharedInv'
<1>0. TypeInv /\ col[c] \in ColValue
  BY ColTypes DEF SharedInv
<1>1. /\ col'[c].read = col[c].read /\ col'[c].end = col[c].end /\ Past(c)
      /\ col'[c].pc \in {"ledger", "admission", "record"}
  <2>1. CASE RenameCursor(c)
    BY <1>0, <2>1 DEF RenameCursor, Go, Past, TypeInv, ColValue
  <2>2. CASE ReadLedger(c)
    <3>1. PICK stale \in BOOLEAN : col' = [col EXCEPT ![c].value = Admission(ledger, stale), ![c].pc = "admission"]
      BY <2>2 DEF ReadLedger
    <3>2. At(c, "ledger")
      BY <2>2 DEF ReadLedger
    <3> HIDE DEF Admission
    <3> QED BY <1>0, <3>1, <3>2 DEF Past, TypeInv, ColValue
  <2>3. CASE WriteAdmission(c) /\ Reports(c)
    <3>1. col' = [col EXCEPT ![c] = [col[c] EXCEPT !.pc = "record", !.value = None]] /\ At(c, "admission")
      BY <2>3 DEF WriteAdmission
    <3> QED BY <1>0, <3>1 DEF Past, TypeInv, ColValue
  <2> QED BY <2>1, <2>2, <2>3
<1>2. /\ UNCHANGED <<source, ledger, tail>>
      /\ cursor' # cursor => cursor' = temp /\ temp # None
      /\ temp' # temp => temp' = None
  BY DEF RenameCursor, ReadLedger, WriteAdmission, files
<1>3. ProcessInv(c)'
  <2>1. LedgerKept
    BY <1>2 DEF LedgerKept
  <2> QED BY <1>1, <1>2, <2>1, OnwardProcess
<1> QED BY <1>2, <1>3, QuietStep

(* and those that end a process.                                           *)
LEMMA EndingSteps ==
  ASSUME SharedInv, TypeInv', NEW c \in Collector, OnlyOf(c), col'[c] = Idle,
         UNCHANGED <<source, ledger, tail, cursor, temp>>
  PROVE  SharedInv'
<1>1. ProcessInv(c)'
  BY IdleTypes, FreshProcess
<1> QED BY <1>1, QuietStep

-----------------------------------------------------------------------------
(* The events of one file that a process appends: all of them, or the      *)
(* first of them.                                                          *)
Part(new, part) ==
  /\ part \in Seq(EventSet) /\ Range(part) \subseteq Range(new)
  /\ IsInjective(new) => IsInjective(part)
  /\ Ordered(new) => Ordered(part)
  /\ \A d \in Range(new), e \in Range(part) : d.gen = e.gen /\ d.line < e.line => d \in Range(part)

(* The first events of an ordered sequence are such a part.                *)
LEMMA PrefixPart ==
  ASSUME NEW new \in Seq(EventSet), Ordered(new), NEW m \in Int, 0 =< m, m =< Len(new)
  PROVE  Part(new, SubSeq(new, 1, m))
<1> DEFINE part == SubSeq(new, 1, m)
<1>0. Len(new) \in Nat /\ DOMAIN new = 1 .. Len(new) /\ m \in Nat
  BY LenProperties
<1>1. /\ part \in Seq(EventSet) /\ Range(part) \subseteq Range(new)
      /\ IsInjective(new) => IsInjective(part)
      /\ Ordered(new) => Ordered(part)
  BY PartFacts
<1>2. DOMAIN part = 1 .. m /\ \A i \in 1 .. m : part[i] = new[i]
  <2>1. \A i \in 1 .. m : new[i] \in EventSet
    BY <1>0
  <2>2. Len(part) = m /\ \A i \in 1 .. m : part[i] = new[i]
    BY <1>0, <2>1, SubSeqProperties
  <2>3. DOMAIN part = 1 .. Len(part)
    BY <1>1, LenProperties
  <2> QED BY <2>2, <2>3
<1> HIDE DEF part
<1>3. ASSUME NEW d \in Range(new), NEW e \in Range(part), d.gen = e.gen, d.line < e.line PROVE d \in Range(part)
  <2>1. PICK i \in 1 .. Len(new) : d = new[i]
    BY <1>0 DEF Range
  <2>2. PICK j \in 1 .. m : e = new[j]
    BY <1>2 DEF Range
  <2>3. d \in EventSet /\ e \in EventSet
    BY <1>0, <2>1, <2>2
  <2>4. CASE i =< m
    <3>1. i \in 1 .. m
      BY <2>4
    <3> QED BY <1>2, <2>1, <3>1 DEF Range
  <2>5. CASE ~ (i =< m)
    <3>1. j < i /\ j \in DOMAIN new /\ i \in DOMAIN new
      BY <1>0, <2>5
    <3>2. e.line =< d.line
      BY <1>3, <2>1, <2>2, <3>1 DEF Ordered
    <3> QED BY <1>3, <2>3, <3>2, EventTypes
  <2> QED BY <2>4, <2>5
<1> QED BY <1>1, <1>3 DEF Part, part

(* After the append the ledger still holds of one file never a line        *)
(* without the lines before it.                                            *)
LEMMA AppendedLedger ==
  ASSUME SharedInv, TypeInv', source' = source, NEW c \in Collector, At(c, "append"),
         NEW part, Part(col[c].new, part), ledger' = AppendedTo(part), tail' # "glued" => tail = "whole"
  PROVE  LedgerKept /\ LedgerInv'
<1>0. TypeInv /\ ProcessInv(c) /\ LedgerInv
  BY DEF SharedInv
<1>1. /\ part \in Seq(EventSet) /\ Range(part) \subseteq Range(col[c].new)
      /\ ledger \in Seq(EventSet) /\ tail \in {"whole", "torn", "bare", "glued"}
      /\ col[c].end \in Nat /\ col[c].gen \in Gen \union {None} /\ col[c].end \in 0 .. Len(Line)
  BY <1>0, ColTypes DEF Part, TypeInv
<1>2. /\ Range(ledger') \subseteq Range(ledger) \union Range(part)
      /\ tail = "whole" => Range(ledger') = Range(ledger) \union Range(part)
  BY <1>1, AppendedFacts
<1>3. LedgerKept
  BY <1>2 DEF LedgerKept
<1>4. /\ Range(part) \subseteq Measured(col[c].gen, 0, col[c].end)
      /\ tail # "glued" => Measured(col[c].gen, 0, col[c].end) \subseteq Range(ledger) \union Range(col[c].new)
      /\ Within(col[c].gen, col[c].end)
  BY <1>0, <1>1 DEF ProcessInv, AppendInv, HeldInv, Holding
<1>5. ASSUME NEW e \in Range(ledger)
      PROVE  e \in Measured(e.gen, 0, Len(Line)) /\ Within(e.gen, e.line)' /\ Kept(e.gen, e.line - 1)'
  <2>1. e \in Measured(e.gen, 0, Len(Line)) /\ Within(e.gen, e.line) /\ Kept(e.gen, e.line - 1)
    BY <1>0, <1>5 DEF LedgerInv
  <2> QED BY <1>3, <2>1, KeptKeeps DEF Within
<1>6. ASSUME NEW e \in Range(part)
      PROVE  e \in Measured(e.gen, 0, Len(Line)) /\ Within(e.gen, e.line)' /\ Kept(e.gen, e.line - 1)'
  <2>1. e \in Measured(col[c].gen, 0, col[c].end)
    BY <1>4
  <2>2. e \in EventSet /\ e.gen = col[c].gen /\ e.line =< col[c].end /\ e.gen \in Gen
    BY <1>1, <2>1, EventTypes DEF Measured
  <2>3. e.gen \in Nat /\ e.line \in Nat /\ e.line \in 1 .. Len(Line) /\ Len(Line) \in Nat
    BY <2>2, EventTypes, LineFacts
  <2>4. e \in Measured(e.gen, 0, Len(Line))
    BY <1>1, <2>1, <2>2, <2>3, MeasuredFacts
  <2>5. Within(e.gen, e.line)'
    BY <1>0, <1>1, <1>4, <2>2, <2>3, NoneFacts, SourceTypes DEF Within
  <2>6. Kept(e.gen, e.line - 1)'
    <3> SUFFICES ASSUME tail' # "glued", NEW d \in Measured(e.gen, 0, e.line - 1) PROVE d \in Range(ledger')
      BY DEF Kept
    <3>1. d \in EventSet /\ d.gen = e.gen /\ d.line < e.line /\ d \in Measured(col[c].gen, 0, col[c].end)
      <4>1. d \in EventSet /\ d.gen = e.gen /\ d.line \in 1 .. e.line - 1 /\ d.type \in Range(Parsed(d.line))
        BY DEF Measured
      <4>2. d.line < e.line /\ d.line \in 0 + 1 .. col[c].end
        BY <1>1, <2>2, <2>3, <4>1
      <4> QED BY <2>2, <4>1, <4>2 DEF Measured
    <3>2. d \in Range(ledger) \/ d \in Range(col[c].new)
      BY <1>4, <3>1
    <3>3. d \in Range(col[c].new) => d \in Range(part)
      BY <1>6, <3>1 DEF Part
    <3> QED BY <1>2, <3>2, <3>3
  <2> QED BY <2>4, <2>5, <2>6
<1>7. LedgerInv'
  BY <1>2, <1>5, <1>6 DEF LedgerInv
<1> QED BY <1>3, <1>7

(* What an append that is not killed, or one that is, does to the ledger.  *)
LEMMA AppendIs ==
  ASSUME SharedInv, NEW c \in Collector, AppendEvents(c), col[c].new # <<>>
  PROVE  /\ Part(col[c].new, col[c].new) /\ ledger' = AppendedTo(col[c].new)
         /\ tail' # "glued" => tail = "whole"
BY ColTypes DEF SharedInv, Part, AppendEvents, TailAfter

(* A killed append leaves the first of the events.                         *)
LEMMA KillAppendIs ==
  ASSUME SharedInv, NEW c \in Collector, KillAppending(c)
  PROVE  \E part : /\ Part(col[c].new, part) /\ ledger' = AppendedTo(part)
                   /\ tail' # "glued" => tail = "whole"
<1>0. TypeInv /\ AppendInv(c)
  BY DEF SharedInv, ProcessInv
<1>1. PICK n \in 1 .. Len(col[c].new), end \in {"whole", "torn", "bare"} :
        /\ ledger' = AppendedTo(SubSeq(col[c].new, 1, IF end = "torn" THEN n - 1 ELSE n))
        /\ tail' = TailAfter(end)
  BY DEF KillAppending
<1> DEFINE m == IF end = "torn" THEN n - 1 ELSE n
           part == SubSeq(col[c].new, 1, m)
<1>2. col[c].new \in Seq(EventSet) /\ Ordered(col[c].new) /\ Len(col[c].new) \in Nat
  BY <1>0, ColTypes, LenProperties DEF KillAppending, AppendInv
<1>3. m \in Int /\ 0 =< m /\ m =< Len(col[c].new)
  BY <1>2
<1>4. ledger' = AppendedTo(part) /\ (tail' # "glued" => tail = "whole")
  BY <1>1 DEF TailAfter
<1> HIDE DEF m
<1>5. Part(col[c].new, part)
  BY <1>2, <1>3, PrefixPart
<1> QED BY <1>4, <1>5

(* An append keeps the invariant,                                          *)
LEMMA AppendStep ==
  ASSUME SharedInv, TypeInv', NEW c \in Collector, AppendEvents(c), OnlyOf(c)
  PROVE  SharedInv'
<1>0. TypeInv /\ SourceGrows /\ ProcessInv(c)
  BY SourceTypes DEF SharedInv, SourceGrows, AppendEvents
<1>1. /\ At(c, "append") /\ source' = source
      /\ col' = [col EXCEPT ![c].pc = "cursor", ![c].new = <<>>]
      /\ UNCHANGED <<cursor, temp>>
      /\ col[c].new = <<>> => UNCHANGED <<ledger, tail>>
  BY DEF AppendEvents
<1>2. /\ col'[c].read = col[c].read /\ col'[c].pc = "cursor" /\ col'[c].end = col[c].end
      /\ col'[c].gen = col[c].gen
  BY <1>0, <1>1 DEF TypeInv, ColValue
<1>3. /\ LedgerKept /\ LedgerInv'
      /\ tail' # "glued" => Measured(col[c].gen, 0, col[c].end) \subseteq Range(ledger')
  <2>0. tail # "glued" => Measured(col[c].gen, 0, col[c].end) \subseteq Range(ledger) \union Range(col[c].new)
    BY <1>0, <1>1 DEF ProcessInv, AppendInv
  <2>1. CASE col[c].new = <<>>
    <3>1. Range(<<>>) = {}
      BY DEF Range
    <3> QED BY <1>1, <2>0, <2>1, <3>1, LedgerSame
  <2>2. CASE col[c].new # <<>>
    <3>1. /\ Part(col[c].new, col[c].new) /\ ledger' = AppendedTo(col[c].new)
          /\ tail' # "glued" => tail = "whole"
      BY <2>2, AppendIs
    <3>2. LedgerKept /\ LedgerInv'
      BY <1>1, <3>1, AppendedLedger
    <3>3. tail = "whole" => Range(ledger') = Range(ledger) \union Range(col[c].new)
      BY <1>0, <3>1, AppendedFacts DEF TypeInv, Part
    <3> QED BY <2>0, <3>1, <3>2, <3>3
  <2> QED BY <2>1, <2>2
<1>4. CursorInv(col[c].read)'
  BY <1>0, <1>2, <1>3, ReadKeeps DEF ProcessInv
<1>5. HeldInv(c)'
  BY <1>0, <1>1, <1>2 DEF ProcessInv, HeldInv, Holding, Within
<1>6. PastInv(c)'
  <2>1. col[c].end \in Nat /\ col[c].gen \in Gen \union {None} /\ source.gen \in Nat
        /\ Within(col[c].gen, col[c].end)
    BY <1>0, <1>1, ColTypes, SourceTypes DEF ProcessInv, HeldInv, Holding
  <2>2. ASSUME source.gen = 1, tail' # "glued" PROVE Measured(1, 0, col[c].end) \subseteq Range(ledger')
    <3>1. CASE col[c].gen = None
      <4>1. col[c].end = 0
        BY <2>1, <3>1 DEF Within
      <4>2. Measured(1, 0, 0) = {}
        BY MeasuredFacts
      <4> QED BY <4>1, <4>2
    <3>2. CASE col[c].gen # None
      <4>1. col[c].gen = 1
        BY <2>1, <2>2, <3>2, GenTypes DEF Within
      <4> QED BY <1>3, <2>2, <4>1
    <3> QED BY <3>1, <3>2
  <2> QED BY <1>1, <1>2, <1>3, <2>2 DEF PastInv, Kept
<1>7. ProcessInv(c)'
  BY <1>2, <1>4, <1>5, <1>6 DEF ProcessInv, AppendInv
<1>8. \A d \in Collector : d # c => col'[d] = col[d]
  BY <1>0 DEF TypeInv, OnlyOf
<1> QED BY <1>1, <1>3, <1>7, <1>8, FilesKeep

(* and so does one that is killed.                                         *)
LEMMA KillAppendStep ==
  ASSUME SharedInv, TypeInv', NEW c \in Collector, KillAppending(c), OnlyOf(c)
  PROVE  SharedInv'
<1>0. TypeInv
  BY DEF SharedInv
<1>1. /\ At(c, "append") /\ UNCHANGED <<source, cursor, temp>> /\ col' = [col EXCEPT ![c] = Idle]
  BY DEF KillAppending
<1>2. LedgerKept /\ LedgerInv'
  BY <1>1, KillAppendIs, AppendedLedger
<1>3. col'[c] = Idle /\ \A d \in Collector : d # c => col'[d] = col[d]
  BY <1>0, <1>1 DEF TypeInv
<1>4. ProcessInv(c)'
  BY <1>3, IdleTypes, FreshProcess
<1> QED BY <1>1, <1>2, <1>3, <1>4, FilesKeep

(* So every step of a process does.                                        *)
LEMMA SharedStep ==
  ASSUME SharedInv, NEW c \in Collector, Step(c) \/ Kill(c) \/ KillAppending(c)
  PROVE  SharedInv'
<1>0. TypeInv /\ TypeInv' /\ OnlyOf(c)
  BY StepTypes DEF SharedInv
<1>1. ASSUME col' = [col EXCEPT ![c] = Idle], UNCHANGED <<source, ledger, tail, cursor, temp>> PROVE SharedInv'
  <2>1. col'[c] = Idle
    BY <1>0, <1>1 DEF TypeInv
  <2> QED BY <1>0, <1>1, <2>1, EndingSteps
<1>2. CASE LoadCursor(c)
  BY <1>0, <1>2, LoadStep
<1>3. CASE SourceMissing(c)
  BY <1>0, <1>3, MissingStep
<1>4. CASE SourceChanged(c) \/ LedgerMalformed(c) \/ RenameFails(c)
  BY <1>1, <1>4 DEF SourceChanged, LedgerMalformed, RenameFails, files
<1>5. CASE ReadSource(c)
  BY <1>0, <1>5, ReadSourceStep
<1>6. CASE ReadIds(c)
  BY <1>0, <1>6, ReadIdsStep
<1>7. CASE AppendEvents(c)
  BY <1>0, <1>7, AppendStep
<1>8. CASE WriteCursor(c)
  BY <1>0, <1>8, WriteCursorStep
<1>9. CASE RenameCursor(c) \/ ReadLedger(c)
  BY <1>0, <1>9, OnwardSteps
<1>10. CASE WriteAdmission(c)
  <2>1. CASE Reports(c)
    BY <1>0, <1>10, <2>1, OnwardSteps
  <2>2. CASE ~Reports(c)
    BY <1>1, <1>10, <2>2 DEF WriteAdmission, files
  <2> QED BY <2>1, <2>2
<1>11. CASE WriteRecord(c)
  BY <1>1, <1>11, WriteRecordIs
<1>12. CASE Kill(c)
  BY <1>1, <1>12 DEF Kill, files
<1>13. CASE KillAppending(c)
  BY <1>0, <1>13, KillAppendStep
<1> QED BY <1>2, <1>3, <1>4, <1>5, <1>6, <1>7, <1>8, <1>9, <1>10, <1>11, <1>12, <1>13 DEF Step

-----------------------------------------------------------------------------
(* As long as no two processes overlap.                                    *)
ProcessSolo(c) == SoloAppend(c) /\ SoloRead(c) /\ SoloReading(c) /\ SoloPrior(c)

(* No other process runs.                                                  *)
LEMMA OthersIdle ==
  ASSUME SoloInv, solo, NEW c \in Collector, ~At(c, "idle")
  PROVE  \A d \in Collector : d # c => At(d, "idle")
BY DEF SoloInv, OneAtATime

(* An idle process answers for nothing.                                    *)
LEMMA IdleSolo ==
  ASSUME NEW d \in Collector, At(d, "idle")'
  PROVE  ProcessSolo(d)'
BY DEF ProcessSolo, SoloAppend, SoloRead, SoloReading, SoloPrior, Holding, Past

(* A record speaks of lines that are in the ledger: what is added comes    *)
(* after them.                                                             *)
LEMMA RecordKeeps ==
  ASSUME TypeInv, NEW r \in Run, records[r] # None, RecordInv(r), records'[r] = records[r],
         source'.gen = 1 => source.gen = 1, LedgerKept,
         ledger' = ledger \/ tail' = "glued" \/
           \E part \in Seq(EventSet) : /\ ledger' = ledger \o part
                                       /\ Range(ledger) \intersect Range(part) = {}
                                       /\ \A e \in Range(part) : e \in Measured(e.gen, 0, e.line)
  PROVE  RecordInv(r)'
<1>0. /\ records[r] \in RecordValue /\ records[r].calls \in Seq(EventSet) /\ records[r].boundary \in 0 .. Len(Line)
      /\ records[r].boundary \in Nat /\ ledger \in Seq(EventSet)
  BY LineFacts DEF TypeInv, RecordValue
<1>1. CASE tail' = "glued"
  BY <1>1 DEF RecordInv
<1>2. CASE tail' # "glued"
  <2>1. tail # "glued" /\ Range(ledger) \subseteq Range(ledger')
    BY <1>2 DEF LedgerKept
  <2>2. Kept(1, records[r].boundary) => Kept(1, records[r].boundary)'
    BY <2>1 DEF Kept
  <2>3. ASSUME Kept(1, records[r].boundary) PROVE
          Among(ledger', CallsOf(r, records[r].boundary)) = Among(ledger, CallsOf(r, records[r].boundary))
    <3> DEFINE T == CallsOf(r, records[r].boundary)
    <3>1. CASE ledger' = ledger
      BY <3>1
    <3>2. CASE ledger' # ledger
      <4>1. PICK part \in Seq(EventSet) : /\ ledger' = ledger \o part
                                          /\ Range(ledger) \intersect Range(part) = {}
                                          /\ \A e \in Range(part) : e \in Measured(e.gen, 0, e.line)
        BY <1>2, <3>2
      <4>2. Range(part) \intersect T = {}
        <5> SUFFICES ASSUME NEW e \in Range(part), e \in T PROVE FALSE
          OBVIOUS
        <5>1. e \in EventSet /\ e.gen = 1 /\ e.line =< records[r].boundary /\ e.line \in Nat
          BY EventTypes DEF CallsOf
        <5>2. e \in Measured(1, 0, e.line)
          BY <4>1, <5>1
        <5>3. e \in Measured(1, 0, records[r].boundary)
          BY <1>0, <5>1, <5>2, MeasuredFacts
        <5> QED BY <2>1, <2>3, <4>1, <5>3 DEF Kept
      <4> HIDE DEF T
      <4>3. Among(part, T) = <<>> /\ Among(ledger, T) \in Seq(EventSet)
        BY <1>0, <4>2, AmongNone, AmongType
      <4>4. Among(ledger', T) = Among(ledger, T) \o Among(part, T)
        BY <1>0, <4>1, AmongConcat
      <4>5. Among(ledger', T) = Among(ledger, T)
        BY <4>3, <4>4, ConcatEmptySeq
      <4> QED BY <4>5 DEF T
    <3> QED BY <3>1, <3>2
  <2> QED BY <2>1, <2>2, <2>3 DEF RecordInv, Kept, CallsOf
<1> QED BY <1>1, <1>2

(* The steps of one process while no other runs.                           *)
LEMMA SoloKeeps ==
  ASSUME SharedInv, SoloInv, TypeInv', NEW c \in Collector, ~At(c, "idle"), OnlyOf(c), solo' = solo, source' = source,
         LedgerKept, records' = records,
         solo => IsInjective(ledger') /\ Ordered(ledger)' /\ ProcessSolo(c)',
         ledger' = ledger \/ tail' = "glued" \/
           \E part \in Seq(EventSet) : /\ ledger' = ledger \o part
                                       /\ solo => Range(ledger) \intersect Range(part) = {}
                                       /\ \A e \in Range(part) : e \in Measured(e.gen, 0, e.line)
  PROVE  SoloInv'
<1> SUFFICES ASSUME solo
             PROVE  /\ OneAtATime' /\ IsInjective(ledger)' /\ Ordered(ledger)'
                    /\ \A d \in Collector : ProcessSolo(d)'
                    /\ \A r \in Run : records'[r] # None => RecordInv(r)'
  BY DEF SoloInv, ProcessSolo
<1>0. TypeInv /\ \A d \in Collector : d # c => At(d, "idle") /\ col'[d] = col[d]
  BY OthersIdle DEF SharedInv, TypeInv, OnlyOf
<1>1. OneAtATime'
  BY <1>0 DEF OneAtATime
<1>2. \A d \in Collector : ProcessSolo(d)'
  <2> SUFFICES ASSUME NEW d \in Collector, d # c PROVE ProcessSolo(d)'
    OBVIOUS
  <2> QED BY <1>0, IdleSolo
<1>3. ASSUME NEW r \in Run, records'[r] # None PROVE RecordInv(r)'
  <2>1. RecordInv(r)
    BY <1>3 DEF SoloInv
  <2> QED BY <1>0, <1>3, <2>1, RecordKeeps
<1>4. IsInjective(ledger)'
  BY DEF IsInjective
<1> QED BY <1>1, <1>2, <1>3, <1>4

(* A step that leaves the ledger and the records as they are.              *)
LEMMA QuietSolo ==
  ASSUME SharedInv, SoloInv, TypeInv', NEW c \in Collector, ~At(c, "idle"), OnlyOf(c), solo' = solo, source' = source,
         UNCHANGED <<ledger, tail, records>>, solo => ProcessSolo(c)'
  PROVE  SoloInv'
<1>1. LedgerKept
  BY DEF LedgerKept
<1>2. solo => IsInjective(ledger') /\ Ordered(ledger)'
  BY DEF SoloInv, Ordered
<1> QED BY <1>1, <1>2, SoloKeeps

(* A process that has ended.                                               *)
LEMMA EndedSolo ==
  ASSUME NEW c \in Collector, col'[c] = Idle
  PROVE  ProcessSolo(c)'
<1>1. At(c, "idle")'
  BY IdleTypes
<1> QED BY <1>1, IdleSolo

(* A process that goes on with what it has read.                           *)
LEMMA OnwardSolo ==
  ASSUME SoloInv, solo, NEW c \in Collector, source' = source, UNCHANGED <<ledger, records>>,
         Holding(c) \/ Past(c), col'[c].end = col[c].end, col'[c].run = col[c].run, col'[c].prior = col[c].prior,
         col'[c].pc \in {"cursor", "rename", "ledger", "record"}
  PROVE  ProcessSolo(c)'
<1>1. SoloRead(c) /\ SoloPrior(c)
  BY DEF SoloInv
<1>2. ~At(c, "idle")
  BY DEF Holding, Past
<1>3. SoloRead(c)'
  BY <1>1 DEF SoloRead
<1>4. SoloPrior(c)'
  BY <1>1, <1>2 DEF SoloPrior
<1>5. SoloAppend(c)' /\ SoloReading(c)'
  BY DEF SoloAppend, SoloReading
<1> QED BY <1>3, <1>4, <1>5 DEF ProcessSolo

(* The steps up to the append: what is read last is all that the ledger    *)
(* can speak of.                                                           *)
LEMMA LoadSolo ==
  ASSUME SharedInv, SoloInv, TypeInv', NEW c \in Collector, LoadCursor(c), OnlyOf(c)
  PROVE  SoloInv'
<1>1. /\ col'[c].pc = "source" /\ col'[c].run = col[c].run /\ col'[c].prior = col[c].prior
      /\ ~At(c, "idle") /\ UNCHANGED <<source, files, solo>>
  BY DEF LoadCursor, SharedInv, TypeInv, ColValue
<1>2. ASSUME solo PROVE ProcessSolo(c)'
  <2>1. SoloPrior(c)
    BY <1>2 DEF SoloInv
  <2> QED BY <1>1, <2>1 DEF ProcessSolo, SoloAppend, SoloRead, SoloReading, SoloPrior, Holding, Past, files
<1> QED BY <1>1, <1>2, QuietSolo DEF files

(* The ledger speaks of no line of the first file that was not complete.   *)
LEMMA LedgerLines ==
  ASSUME SharedInv, source.gen = 1, NEW e \in Range(ledger)
  PROVE  e.line =< source.lines /\ e.line \in Nat /\ e.line >= 1 /\ e.gen = 1
<1>1. e \in EventSet /\ Within(e.gen, e.line)
  BY RangeOfSeq DEF SharedInv, TypeInv, LedgerInv
<1>2. e.gen \in Gen /\ e.gen \in Nat /\ e.gen >= 1 /\ e.line \in Nat /\ e.line >= 1
  BY <1>1, EventTypes, GenTypes
<1>3. e.gen # None
  BY <1>2, NoneFacts
<1>4. e.gen = 1
  BY <1>1, <1>2, <1>3 DEF Within
<1> QED BY <1>1, <1>2, <1>4 DEF Within

(* Without a source there is no line the ledger could speak of.            *)
LEMMA MissingSolo ==
  ASSUME SharedInv, SoloInv, TypeInv', NEW c \in Collector, SourceMissing(c), OnlyOf(c)
  PROVE  SoloInv'
<1>1. /\ col'[c].pc = "ledger" /\ col'[c].run = col[c].run /\ col'[c].prior = col[c].prior
      /\ ~At(c, "idle") /\ UNCHANGED <<source, files, solo>> /\ ~source.present
  BY DEF SourceMissing, SharedInv, TypeInv, ColValue
<1>2. ASSUME solo PROVE ProcessSolo(c)'
  <2>1. SoloPrior(c)
    BY <1>2 DEF SoloInv
  <2>2. source.lines = 0
    BY <1>1 DEF SharedInv, SourceInv
  <2>3. source.gen = 1 => Range(ledger) = {}
    BY <2>2, LedgerLines
  <2> QED BY <1>1, <2>1, <2>3 DEF ProcessSolo, SoloAppend, SoloRead, SoloReading, SoloPrior, files
<1> QED BY <1>1, <1>2, QuietSolo DEF files

(* The lines of the source are read to their end.                          *)
LEMMA ReadSourceSolo ==
  ASSUME SharedInv, SoloInv, TypeInv', NEW c \in Collector, ReadSource(c), OnlyOf(c)
  PROVE  SoloInv'
<1>1. /\ col'[c].pc = "ids" /\ col'[c].run = col[c].run /\ col'[c].prior = col[c].prior /\ col'[c].end = source.lines
      /\ ~At(c, "idle") /\ UNCHANGED <<source, files, solo>>
  BY DEF ReadSource, SharedInv, TypeInv, ColValue
<1>2. ASSUME solo PROVE ProcessSolo(c)'
  <2>1. SoloPrior(c)
    BY <1>2 DEF SoloInv
  <2>2. source.gen = 1 => \A e \in Range(ledger) : e.line =< source.lines
    BY LedgerLines
  <2> QED BY <1>1, <2>1, <2>2 DEF ProcessSolo, SoloAppend, SoloRead, SoloReading, SoloPrior, files
<1> QED BY <1>1, <1>2, QuietSolo DEF files

(* What the ledger does not hold comes after all that it holds: of one     *)
(* file it holds no line without the lines before it.                      *)
LEMMA ReadIdsSolo ==
  ASSUME SharedInv, SoloInv, TypeInv', NEW c \in Collector, ReadIds(c), OnlyOf(c)
  PROVE  SoloInv'
<1> DEFINE new == Unseen(Events(col[c].gen, col[c].read.offset, col[c].end), Range(ledger))
<1>0. TypeInv
  BY DEF SharedInv
<1>1. /\ new \in Seq(EventSet)
      /\ Range(new) = Measured(col[c].gen, col[c].read.offset, col[c].end) \ Range(ledger)
  BY ReadTypes DEF ReadIds
<1>2. /\ col' = [col EXCEPT ![c].pc = "append", ![c].new = new]
      /\ At(c, "ids") /\ UNCHANGED <<source, files, solo>> /\ tail # "glued"
  BY DEF ReadIds, Malformed
<1> HIDE DEF new
<1>3. /\ col'[c].pc = "append" /\ col'[c].end = col[c].end /\ col'[c].new = new
      /\ col'[c].run = col[c].run /\ col'[c].prior = col[c].prior
  BY <1>0, <1>2 DEF TypeInv, ColValue
<1>4. Range(ledger) \intersect Range(new) = {}
  BY <1>1
<1>5. Precede(ledger, new)
  <2> SUFFICES ASSUME NEW d \in Range(ledger), NEW e \in Range(new), d.gen = e.gen PROVE d.line =< e.line
    BY DEF Precede
  <2>1. d \in EventSet /\ e \in EventSet
    BY <1>0, <1>1, RangeOfSeq DEF TypeInv
  <2>2. SUFFICES ASSUME ~ (d.line =< e.line) PROVE FALSE
    OBVIOUS
  <2>3. e \in Measured(col[c].gen, col[c].read.offset, col[c].end)
    BY <1>1
  <2>4. e \in Measured(d.gen, 0, d.line - 1)
    <3>1. e.line \in 0 + 1 .. d.line - 1
      BY <2>1, <2>2, EventTypes
    <3> QED BY <2>1, <2>3, <3>1 DEF Measured
  <2>5. Measured(d.gen, 0, d.line - 1) \subseteq Range(ledger)
    BY <1>2 DEF SharedInv, LedgerInv, Kept
  <2> QED BY <1>4, <2>4, <2>5
<1>6. ASSUME solo PROVE ProcessSolo(c)'
  <2>1. SoloPrior(c) /\ SoloRead(c)
    BY <1>6 DEF SoloInv
  <2> QED BY <1>2, <1>3, <1>4, <1>5, <2>1 DEF ProcessSolo, SoloAppend, SoloRead, SoloReading, SoloPrior, Holding, files, Precede
<1> QED BY <1>2, <1>6, QuietSolo DEF files

(* An append, whole or cut short by a kill.                                *)
LEMMA AppendedSolo ==
  ASSUME SharedInv, SoloInv, TypeInv', NEW c \in Collector, At(c, "append"), OnlyOf(c), UNCHANGED <<source, solo, records>>,
         NEW part, Part(col[c].new, part), ledger' = AppendedTo(part), tail' # "glued" => tail = "whole",
         solo /\ Range(ledger') \subseteq Range(ledger) \union Range(part) => ProcessSolo(c)'
  PROVE  SoloInv'
<1>0. TypeInv /\ AppendInv(c)
  BY DEF SharedInv, ProcessInv
<1>1. /\ ledger \in Seq(EventSet) /\ tail \in {"whole", "torn", "bare", "glued"}
      /\ part \in Seq(EventSet) /\ Range(part) \subseteq Range(col[c].new)
      /\ IsInjective(part) /\ Ordered(part)
      /\ Range(col[c].new) \subseteq Measured(col[c].gen, 0, col[c].end)
  BY <1>0 DEF TypeInv, Part, AppendInv
<1>2. /\ Range(AppendedTo(part)) \subseteq Range(ledger) \union Range(part)
      /\ tail = "whole" => AppendedTo(part) = ledger \o part
      /\ IsInjective(ledger) /\ IsInjective(part) /\ Range(ledger) \intersect Range(part) = {}
           => IsInjective(AppendedTo(part))
      /\ Ordered(ledger) /\ Ordered(part) /\ Precede(ledger, part) => Ordered(AppendedTo(part))
  BY <1>1, AppendedFacts
<1>3. LedgerKept
  BY AppendedLedger
<1>4. solo => Range(ledger) \intersect Range(part) = {} /\ Precede(ledger, part)
  BY <1>1 DEF SoloInv, SoloAppend, Precede
<1>5. solo => IsInjective(ledger') /\ Ordered(ledger')
  BY <1>1, <1>2, <1>4 DEF SoloInv
<1>6. ASSUME NEW e \in Range(part) PROVE e \in Measured(e.gen, 0, e.line)
  <2>1. e \in Measured(col[c].gen, 0, col[c].end)
    BY <1>1
  <2>2. e \in EventSet /\ e.gen = col[c].gen /\ e.type \in Range(Parsed(e.line))
    BY <2>1 DEF Measured
  <2>3. e.line \in 0 + 1 .. e.line
    BY <2>2, EventTypes
  <2> QED BY <2>2, <2>3 DEF Measured
<1>7. ledger' = ledger \o part \/ tail' = "glued"
  BY <1>2
<1>8. solo => IsInjective(ledger') /\ Ordered(ledger)' /\ ProcessSolo(c)'
  BY <1>2, <1>5 DEF Ordered
<1>9. ~At(c, "idle")
  OBVIOUS
<1> QED BY <1>1, <1>3, <1>4, <1>6, <1>7, <1>8, <1>9, SoloKeeps

(* The append, and one that is killed.                                     *)
LEMMA AppendSolo ==
  ASSUME SharedInv, SoloInv, TypeInv', NEW c \in Collector, AppendEvents(c), OnlyOf(c)
  PROVE  SoloInv'
<1>0. TypeInv /\ AppendInv(c)
  BY DEF SharedInv, ProcessInv
<1>1. /\ At(c, "append") /\ UNCHANGED <<source, solo, records>>
      /\ col' = [col EXCEPT ![c].pc = "cursor", ![c].new = <<>>]
      /\ col[c].new = <<>> => UNCHANGED <<ledger, tail>>
  BY DEF AppendEvents
<1>2. /\ col'[c].pc = "cursor" /\ col'[c].end = col[c].end
      /\ col'[c].run = col[c].run /\ col'[c].prior = col[c].prior
  BY <1>0, <1>1 DEF TypeInv, ColValue
<1>3. CASE col[c].new = <<>>
  <2>1. solo => ProcessSolo(c)'
    BY <1>1, <1>2, <1>3, OnwardSolo DEF Holding
  <2> QED BY <1>1, <1>3, <2>1, QuietSolo
<1>4. CASE col[c].new # <<>>
  <2>1. /\ Part(col[c].new, col[c].new) /\ ledger' = AppendedTo(col[c].new)
        /\ tail' # "glued" => tail = "whole"
    BY <1>4, AppendIs
  <2>2. ASSUME solo, Range(ledger') \subseteq Range(ledger) \union Range(col[c].new) PROVE ProcessSolo(c)'
    <3>1. SoloRead(c) /\ SoloPrior(c)
      BY <2>2 DEF SoloInv
    <3>2. \A e \in Range(col[c].new) : e.line =< col[c].end
      <4>1. Range(col[c].new) \subseteq Measured(col[c].gen, 0, col[c].end) /\ col[c].end \in Nat
        BY <1>0, <1>1, ColTypes DEF AppendInv
      <4> QED BY <4>1, EventTypes DEF Measured
    <3>3. SoloRead(c)'
      BY <1>1, <1>2, <2>2, <3>1, <3>2 DEF SoloRead, Holding
    <3> QED BY <1>1, <1>2, <3>1, <3>3 DEF ProcessSolo, SoloAppend, SoloReading, SoloPrior
  <2> QED BY <1>1, <2>1, <2>2, AppendedSolo
<1> QED BY <1>3, <1>4

(* What a killed append leaves comes after what was there, too.            *)
LEMMA KillAppendSolo ==
  ASSUME SharedInv, SoloInv, TypeInv', NEW c \in Collector, KillAppending(c), OnlyOf(c)
  PROVE  SoloInv'
<1>1. /\ At(c, "append") /\ UNCHANGED <<source, solo, records>> /\ col'[c] = Idle
  BY DEF KillAppending, SharedInv, TypeInv
<1>2. PICK part : /\ Part(col[c].new, part) /\ ledger' = AppendedTo(part)
                  /\ tail' # "glued" => tail = "whole"
  BY KillAppendIs
<1>3. ProcessSolo(c)'
  BY <1>1, EndedSolo
<1> QED BY <1>1, <1>2, <1>3, AppendedSolo

(* The steps after it: an admission is of the ledger as it is.             *)
LEMMA OnwardStepsSolo ==
  ASSUME SharedInv, SoloInv, TypeInv', NEW c \in Collector, OnlyOf(c), solo' = solo, source' = source,
         WriteCursor(c) \/ RenameCursor(c) \/ ReadLedger(c) \/ (WriteAdmission(c) /\ Reports(c))
  PROVE  SoloInv'
<1>0. TypeInv /\ col[c] \in ColValue
  BY ColTypes DEF SharedInv
<1>1. UNCHANGED <<ledger, tail, records>> /\ ~At(c, "idle") /\ Past(c)
  BY DEF WriteCursor, RenameCursor, ReadLedger, WriteAdmission, files, Past
<1>2. CASE WriteCursor(c)
  <2>1. col' = [col EXCEPT ![c].pc = "rename", ![c].read = NoCursor, ![c].gen = None]
    BY <1>2 DEF WriteCursor
  <2>2. /\ col'[c].end = col[c].end /\ col'[c].run = col[c].run /\ col'[c].prior = col[c].prior
        /\ col'[c].pc = "rename"
    BY <1>0, <2>1 DEF TypeInv, ColValue
  <2> QED BY <1>1, <2>2, OnwardSolo, QuietSolo
<1>3. CASE RenameCursor(c)
  <2>1. /\ col'[c].end = col[c].end /\ col'[c].run = col[c].run /\ col'[c].prior = col[c].prior
        /\ col'[c].pc = "ledger"
    BY <1>0, <1>3 DEF RenameCursor, Go, TypeInv, ColValue
  <2> QED BY <1>1, <2>1, OnwardSolo, QuietSolo
<1>4. CASE ReadLedger(c)
  <2>1. PICK stale \in BOOLEAN : col' = [col EXCEPT ![c].value = Admission(ledger, stale), ![c].pc = "admission"]
    BY <1>4 DEF ReadLedger
  <2> DEFINE value == Admission(ledger, stale)
  <2>2. Ordered(ledger) => \A e \in Range(ledger) : e.type = "allowance" =>
          value.reading # None /\ (value.reading.gen = e.gen => value.reading.line >= e.line)
    BY <1>0, AdmissionFacts DEF TypeInv
  <2>3. col' = [col EXCEPT ![c].value = value, ![c].pc = "admission"]
    BY <2>1
  <2> HIDE DEF value
  <2>4. /\ col'[c].end = col[c].end /\ col'[c].run = col[c].run /\ col'[c].prior = col[c].prior
        /\ col'[c].pc = "admission" /\ col'[c].value = value
    BY <1>0, <2>3 DEF TypeInv, ColValue
  <2>5. ASSUME solo PROVE ProcessSolo(c)'
    <3>1. Ordered(ledger) /\ SoloRead(c) /\ SoloPrior(c)
      BY <2>5 DEF SoloInv
    <3>2. SoloReading(c)'
      BY <1>1, <2>2, <2>4, <3>1 DEF SoloReading
    <3>3. SoloRead(c)'
      BY <1>1, <2>4, <3>1 DEF SoloRead
    <3>4. SoloPrior(c)'
      BY <1>1, <2>4, <3>1 DEF SoloPrior
    <3>5. SoloAppend(c)'
      BY <2>4 DEF SoloAppend
    <3> QED BY <3>2, <3>3, <3>4, <3>5 DEF ProcessSolo
  <2> QED BY <1>1, <2>5, QuietSolo
<1>5. CASE WriteAdmission(c) /\ Reports(c)
  <2>1. col' = [col EXCEPT ![c] = [col[c] EXCEPT !.pc = "record", !.value = None]]
    BY <1>5 DEF WriteAdmission
  <2>2. col'[c] = [col[c] EXCEPT !.pc = "record", !.value = None]
    BY <1>0, <2>1 DEF TypeInv
  <2>3. /\ col'[c].end = col[c].end /\ col'[c].run = col[c].run /\ col'[c].prior = col[c].prior
        /\ col'[c].pc = "record"
    BY <1>0, <2>2 DEF ColValue
  <2> QED BY <1>1, <2>3, OnwardSolo, QuietSolo
<1> QED BY <1>2, <1>3, <1>4, <1>5

(* The steps that end a process.                                           *)
LEMMA EndingSolo ==
  ASSUME SharedInv, SoloInv, TypeInv', NEW c \in Collector, ~At(c, "idle"), OnlyOf(c), col'[c] = Idle,
         UNCHANGED <<source, ledger, tail, records, solo>>
  PROVE  SoloInv'
BY EndedSolo, QuietSolo

-----------------------------------------------------------------------------
(* The calls of the record that is written, and of the one it replaces.    *)
CallSet(turns) == {e \in EventSet : e.type = "tokens" /\ e.gen = 1 /\ e.line \in turns}

(* The record that is written counts the calls of the turns that the       *)
(* ledger holds, and these are all that lie within any boundary at or      *)
(* after its own.                                                          *)
LEMMA NewCalls ==
  ASSUME SharedInv, SoloInv, solo, NEW c \in Collector, At(c, "record"), ~Malformed
  PROVE  LET r == col[c].run
             new == NewRecord(c)
         IN /\ r \in Run /\ new \in RecordValue /\ new.linked = Linked(c) /\ new.boundary = col[c].end
            /\ new.phase = col[c].phase
            /\ new.finality = Finality(col[c].phase, col[c].prior, col[c].end)
            /\ IsInjective(new.calls)
            /\ Linked(c) => Range(new.calls) = Range(ledger) \intersect CallSet(Turns[r])
            /\ ~Linked(c) => new.calls = <<>>
            /\ Linked(c) /\ source.gen = 1 =>
                 \A n \in Nat : n >= col[c].end => new.calls = Among(ledger, CallsOf(r, n))
            /\ source.gen = 1 => Kept(1, col[c].end)
<1> DEFINE r == col[c].run
           new == NewRecord(c)
           turns == IF Linked(c) THEN Turns[r] ELSE {}
<1>0. TypeInv /\ PastInv(c) /\ SoloRead(c) /\ IsInjective(ledger) /\ tail # "glued"
  BY DEF SharedInv, ProcessInv, SoloInv, Malformed
<1>1. r \in Run /\ ledger \in Seq(EventSet) /\ col[c].end \in Nat
  BY <1>0, ColTypes DEF TypeInv
<1>2. new \in RecordValue
  BY <1>0, RecordTypes
<1>3. /\ new.linked = Linked(c) /\ new.boundary = col[c].end /\ new.phase = col[c].phase
      /\ new.finality = Finality(col[c].phase, col[c].prior, col[c].end)
      /\ new.calls = AggregateTurns(ledger, turns)
  BY DEF NewRecord
<1> HIDE DEF new
<1>4. new.calls = Among(ledger, CallSet(turns))
  BY <1>1, <1>3, AggregateIs DEF CallSet
<1>5. IsInjective(new.calls) /\ Range(new.calls) = Range(ledger) \intersect CallSet(turns)
  BY <1>0, <1>1, <1>4, AmongType, AmongKeeps
<1>6. ASSUME ~Linked(c) PROVE new.calls = <<>>
  <2>1. CallSet(turns) = {}
    BY <1>6 DEF CallSet
  <2> QED BY <1>1, <1>4, <2>1, AmongNone
<1>7. ASSUME Linked(c), source.gen = 1, NEW n \in Nat, n >= col[c].end PROVE new.calls = Among(ledger, CallsOf(r, n))
  <2>1. \A e \in Range(ledger) : e \in EventSet /\ e.line =< n
    <3>1. \A e \in Range(ledger) : e.line =< col[c].end
      BY <1>0, <1>7 DEF SoloRead, Past
    <3> QED BY <1>1, <1>7, <3>1, EventTypes, RangeOfSeq
  <2>2. Range(ledger) \intersect CallSet(turns) = Range(ledger) \intersect CallsOf(r, n)
    BY <1>7, <2>1 DEF CallSet, CallsOf
  <2> QED BY <1>1, <1>4, <2>2, AmongSame
<1>8. source.gen = 1 => Kept(1, col[c].end)
  BY <1>0 DEF PastInv, Past
<1>9. Linked(c) => turns = Turns[r]
  OBVIOUS
<1> HIDE DEF turns
<1>10. Linked(c) => Range(new.calls) = Range(ledger) \intersect CallSet(Turns[r])
  BY <1>5, <1>9
<1> QED BY <1>1, <1>2, <1>3, <1>5, <1>6, <1>7, <1>8, <1>10 DEF new

(* The same set of calls, by the last line there will be.                  *)
LEMMA CallSetIs ==
  ASSUME NEW r \in Run
  PROVE  CallSet(Turns[r]) = CallsOf(r, Len(Line))
BY EventTypes DEF CallSet, CallsOf

(* The record that report_run_usage writes is exact; it counts all that    *)
(* the one it replaces did, and where it counts more, its boundary is a    *)
(* later one.                                                              *)
LEMMA RecordWritten ==
  ASSUME SharedInv, SoloInv, solo, NEW c \in Collector, WriteRecord(c), NEW r0 \in Run, r0 = col[c].run
  PROVE  /\ RecordInv(r0)'
         /\ CallsKept /\ LateUsageTold
<1>0. TypeInv /\ ~Malformed /\ tail # "glued" /\ At(c, "record") /\ records' = [records EXCEPT ![r0] = NewRecord(c)]
      /\ UNCHANGED <<source, ledger, tail, solo>>
  BY WriteRecordIs DEF SharedInv, Malformed
<1>1. PICK new : new = NewRecord(c)
  OBVIOUS
<1>2. /\ new \in RecordValue /\ new.linked = Linked(c) /\ new.boundary = col[c].end
      /\ new.phase = col[c].phase
      /\ new.finality = Finality(col[c].phase, col[c].prior, col[c].end)
      /\ IsInjective(new.calls)
      /\ Linked(c) => Range(new.calls) = Range(ledger) \intersect CallSet(Turns[r0])
      /\ ~Linked(c) => new.calls = <<>>
      /\ Linked(c) /\ source.gen = 1 =>
           \A n \in Nat : n >= col[c].end => new.calls = Among(ledger, CallsOf(r0, n))
      /\ source.gen = 1 => Kept(1, col[c].end)
  BY <1>0, <1>1, NewCalls
<1>3. records'[r0] = new /\ \A r \in Run : r # r0 => records'[r] = records[r]
  BY <1>0, <1>1 DEF TypeInv
<1>4. Range(<<>>) = {}
  BY DEF Range
<1>5. RecordInv(r0)'
  <2>1. Range(new.calls) \subseteq Range(ledger) \intersect CallsOf(r0, Len(Line))
    BY <1>2, <1>4, CallSetIs
  <2>2. new.calls # <<>> => new.linked
    BY <1>2
  <2>3. col[c].end \in Nat
    BY <1>0, ColTypes
  <2>4. new.linked /\ source.gen = 1 =>
          Kept(1, new.boundary) /\ new.calls = Among(ledger, CallsOf(r0, new.boundary))
    BY <1>2, <2>3
  <2>5. new.linked /\ source'.gen = 1 =>
          Kept(1, new.boundary)' /\ new.calls = Among(ledger', CallsOf(r0, new.boundary))
    BY <1>0, <2>4 DEF Kept
  <2>6. IsInjective(new.calls) /\ Range(new.calls) \subseteq Range(ledger') \intersect CallsOf(r0, Len(Line))
    BY <1>0, <1>2, <2>1
  <2> QED BY <1>3, <2>2, <2>5, <2>6 DEF RecordInv, CallsOf, Kept
<1>6. col[c].prior = records[r0]
  <2>1. Reports(c) /\ ~At(c, "idle") /\ SoloPrior(c)
    BY <1>0 DEF TypeInv, SoloInv
  <2> QED BY <2>1 DEF SoloPrior
<1>7. records[r0] # None => RecordInv(r0) /\ records[r0] \in RecordValue /\ records[r0].boundary \in Nat
  <2>1. \A v \in RecordValue : v.boundary \in Nat
    BY LineFacts DEF RecordValue
  <2> QED BY <1>0, <2>1 DEF SoloInv, TypeInv
<1>8. records[r0] # None => Range(records[r0].calls) \subseteq Range(new.calls)
  <2> SUFFICES ASSUME records[r0] # None PROVE Range(records[r0].calls) \subseteq Range(new.calls)
    OBVIOUS
  <2>1. CASE records[r0].calls = <<>>
    BY <1>4, <2>1
  <2>2. CASE records[r0].calls # <<>>
    <3>1. records[r0].linked /\ Range(records[r0].calls) \subseteq Range(ledger) \intersect CallsOf(r0, Len(Line))
      BY <1>0, <1>7, <2>2 DEF RecordInv
    <3>2. Linked(c)
      BY <1>6, <3>1 DEF Linked
    <3> QED BY <1>2, <3>1, <3>2, CallSetIs
  <2> QED BY <2>1, <2>2
<1>9. CallsKept
  BY <1>3, <1>8 DEF CallsKept
<1>10. ASSUME source.gen = 1, records[r0] # None, records[r0].phase = "completion", records[r0].linked,
              new.calls # records[r0].calls, new.phase # "start"
       PROVE  new.finality = "provisional_after_reconciliation"
  <2>1. Linked(c)
    BY <1>6, <1>10 DEF Linked
  <2>2. records[r0].calls = Among(ledger, CallsOf(r0, records[r0].boundary))
    BY <1>0, <1>7, <1>10 DEF RecordInv
  <2>3. col[c].end > records[r0].boundary
    <3>1. SUFFICES ASSUME ~ (col[c].end > records[r0].boundary) PROVE FALSE
      OBVIOUS
    <3>2. col[c].end \in Nat /\ records[r0].boundary \in Nat
      BY <1>0, <1>7, <1>10, ColTypes
    <3>3. records[r0].boundary >= col[c].end
      BY <3>1, <3>2
    <3> QED BY <1>2, <1>10, <2>1, <2>2, <3>2, <3>3
  <2> QED BY <1>2, <1>6, <1>10, <2>3 DEF Finality
<1>11. LateUsageTold
  BY <1>3, <1>10 DEF LateUsageTold
<1> QED BY <1>5, <1>9, <1>11

(* So the invariant is kept when a record is written,                      *)
LEMMA WriteRecordSolo ==
  ASSUME SharedInv, SoloInv, NEW c \in Collector, WriteRecord(c)
  PROVE  SoloInv'
<1>0. TypeInv /\ At(c, "record") /\ records' = [records EXCEPT ![col[c].run] = NewRecord(c)]
      /\ col' = [col EXCEPT ![c] = Idle] /\ UNCHANGED <<source, ledger, tail, solo>>
  BY WriteRecordIs DEF SharedInv
<1> SUFFICES ASSUME solo
             PROVE  /\ OneAtATime' /\ IsInjective(ledger)' /\ Ordered(ledger)'
                    /\ \A d \in Collector : ProcessSolo(d)'
                    /\ \A r \in Run : records'[r] # None => RecordInv(r)'
  BY <1>0 DEF SoloInv, ProcessSolo
<1>1. \A d \in Collector : At(d, "idle")'
  <2>1. \A d \in Collector : d # c => At(d, "idle")
    BY <1>0, OthersIdle
  <2> QED BY <1>0, <2>1, IdleTypes DEF TypeInv
<1>2. OneAtATime' /\ \A d \in Collector : ProcessSolo(d)'
  BY <1>1, IdleSolo DEF OneAtATime
<1>3. IsInjective(ledger)' /\ Ordered(ledger)'
  BY <1>0 DEF SoloInv, IsInjective, Ordered
<1>4. ASSUME NEW r \in Run, records'[r] # None PROVE RecordInv(r)'
  <2>1. CASE r = col[c].run
    BY <2>1, RecordWritten
  <2>2. CASE r # col[c].run
    <3>1. records'[r] = records[r]
      BY <1>0, <2>2 DEF TypeInv
    <3>2. RecordInv(r)
      BY <1>4, <3>1 DEF SoloInv
    <3>3. LedgerKept
      BY <1>0 DEF LedgerKept
    <3> QED BY <1>0, <1>4, <3>1, <3>2, <3>3, RecordKeeps
  <2> QED BY <2>1, <2>2
<1> QED BY <1>2, <1>3, <1>4

(* when a process begins while no other runs,                              *)
LEMMA BeginSolo ==
  ASSUME SharedInv, SoloInv, NEW c \in Collector, NEW phase, NEW r, NEW given, Begin(c, phase, r, given)
  PROVE  SoloInv'
<1>0. TypeInv /\ UNCHANGED <<source, ledger, tail, records>>
      /\ (solo' => solo /\ \A d \in Collector : At(d, "idle"))
  BY DEF SharedInv, Begin, files
<1> SUFFICES ASSUME solo'
             PROVE  /\ OneAtATime' /\ IsInjective(ledger)' /\ Ordered(ledger)'
                    /\ \A d \in Collector : ProcessSolo(d)'
                    /\ \A q \in Run : records'[q] # None => RecordInv(q)'
  BY DEF SoloInv, ProcessSolo
<1>1. solo /\ \A d \in Collector : At(d, "idle")
  BY <1>0
<1>2. \A d \in Collector : d # c => At(d, "idle")'
  BY <1>0, <1>1 DEF Begin, TypeInv
<1>3. /\ col'[c].pc = "load" /\ col'[c].run = r
      /\ col'[c].prior = IF r = None THEN None ELSE records[r]
  <2> DEFINE prior == IF r = None THEN None ELSE records[r]
  <2>1. col'[c] = [Idle EXCEPT !.pc = "load", !.phase = phase, !.run = r, !.given = given, !.prior = prior]
    BY <1>0 DEF Begin, TypeInv
  <2> HIDE DEF prior
  <2>2. col'[c].pc = "load" /\ col'[c].run = r /\ col'[c].prior = prior
    BY <2>1 DEF Idle
  <2> QED BY <2>2 DEF prior
<1>4. OneAtATime'
  BY <1>2 DEF OneAtATime
<1>5. IsInjective(ledger)' /\ Ordered(ledger)'
  BY <1>0, <1>1 DEF SoloInv, IsInjective, Ordered
<1>6. ProcessSolo(c)'
  BY <1>0, <1>3 DEF ProcessSolo, SoloAppend, SoloRead, SoloReading, SoloPrior, Holding, Past
<1>7. ASSUME NEW d \in Collector PROVE ProcessSolo(d)'
  BY <1>2, <1>6, IdleSolo
<1>8. ASSUME NEW q \in Run, records'[q] # None PROVE RecordInv(q)'
  <2>1. RecordInv(q) /\ records'[q] = records[q]
    BY <1>0, <1>1, <1>8 DEF SoloInv
  <2>2. LedgerKept
    BY <1>0 DEF LedgerKept
  <2> QED BY <1>0, <1>8, <2>1, <2>2, RecordKeeps
<1> QED BY <1>4, <1>5, <1>7, <1>8

(* when the source changes,                                                *)
LEMMA SourceSolo ==
  ASSUME SharedInv, SoloInv, Grow \/ BeginLine \/ ReplaceSource
  PROVE  SoloInv'
<1>0. /\ TypeInv /\ UNCHANGED <<ledger, tail, records, col, solo>>
      /\ source'.gen = 1 => source.gen = 1
  BY SourceSteps DEF SharedInv, files
<1> SUFFICES ASSUME solo
             PROVE  /\ OneAtATime' /\ IsInjective(ledger)' /\ Ordered(ledger)'
                    /\ \A d \in Collector : ProcessSolo(d)'
                    /\ \A q \in Run : records'[q] # None => RecordInv(q)'
  BY <1>0 DEF SoloInv, ProcessSolo
<1>1. OneAtATime' /\ IsInjective(ledger)' /\ Ordered(ledger)'
  BY <1>0 DEF SoloInv, OneAtATime, IsInjective, Ordered
<1>2. ASSUME NEW d \in Collector PROVE ProcessSolo(d)'
  <2>1. SoloAppend(d) /\ SoloRead(d) /\ SoloReading(d) /\ SoloPrior(d)
    BY DEF SoloInv
  <2> QED BY <1>0, <2>1 DEF ProcessSolo, SoloAppend, SoloRead, SoloReading, SoloPrior, Holding, Past, Precede
<1>3. ASSUME NEW q \in Run, records'[q] # None PROVE RecordInv(q)'
  <2>1. RecordInv(q) /\ records'[q] = records[q]
    BY <1>0, <1>3 DEF SoloInv
  <2>2. LedgerKept
    BY <1>0 DEF LedgerKept
  <2> QED BY <1>0, <1>3, <2>1, <2>2, RecordKeeps
<1> QED BY <1>1, <1>2, <1>3

(* and at every step of a process; and no step but a report touches a      *)
(* record.                                                                 *)
LEMMA SoloStep ==
  ASSUME SharedInv, SoloInv, NEW c \in Collector, Step(c) \/ Kill(c) \/ KillAppending(c)
  PROVE  SoloInv' /\ CallsKept /\ LateUsageTold
<1>0. TypeInv /\ TypeInv' /\ OnlyOf(c) /\ solo' = solo /\ source' = source
  BY StepTypes DEF SharedInv
<1>1. ASSUME col' = [col EXCEPT ![c] = Idle], ~At(c, "idle"), UNCHANGED <<ledger, tail, records>> PROVE SoloInv'
  <2>1. col'[c] = Idle
    BY <1>0, <1>1 DEF TypeInv
  <2> QED BY <1>0, <1>1, <2>1, EndingSolo
<1>2. CASE WriteRecord(c)
  <2>1. SoloInv'
    BY <1>2, WriteRecordSolo
  <2>2. ASSUME solo PROVE CallsKept /\ LateUsageTold
    <3>1. col[c].run \in Run
      BY <1>0, <1>2, ColTypes DEF TypeInv, WriteRecord
    <3> QED BY <1>2, <2>2, <3>1, RecordWritten
  <2>3. ~solo => CallsKept /\ LateUsageTold
    BY <1>0 DEF CallsKept, LateUsageTold
  <2> QED BY <2>1, <2>2, <2>3
<1>3. CASE ~WriteRecord(c)
  <2>1. UNCHANGED records
    BY <1>3 DEF Step, LoadCursor, SourceMissing, SourceChanged, ReadSource, ReadIds, LedgerMalformed, AppendEvents,
                WriteCursor, RenameCursor, RenameFails, ReadLedger, WriteAdmission, Kill, KillAppending, files
  <2>2. CallsKept /\ LateUsageTold
    BY <2>1 DEF CallsKept, LateUsageTold
  <2> SUFFICES SoloInv'
    BY <2>2
  <2>3. CASE LoadCursor(c)
    BY <1>0, <2>3, LoadSolo
  <2>4. CASE SourceMissing(c)
    BY <1>0, <2>4, MissingSolo
  <2>5. CASE SourceChanged(c) \/ LedgerMalformed(c) \/ RenameFails(c)
    BY <1>1, <2>5 DEF SourceChanged, LedgerMalformed, RenameFails, files
  <2>6. CASE ReadSource(c)
    BY <1>0, <2>6, ReadSourceSolo
  <2>7. CASE ReadIds(c)
    BY <1>0, <2>7, ReadIdsSolo
  <2>8. CASE AppendEvents(c)
    BY <1>0, <2>8, AppendSolo
  <2>9. CASE WriteCursor(c) \/ RenameCursor(c) \/ ReadLedger(c)
    BY <1>0, <2>9, OnwardStepsSolo
  <2>10. CASE WriteAdmission(c)
    <3>1. CASE Reports(c)
      BY <1>0, <2>10, <3>1, OnwardStepsSolo
    <3>2. CASE ~Reports(c)
      BY <1>1, <2>10, <3>2 DEF WriteAdmission, files
    <3> QED BY <3>1, <3>2
  <2>11. CASE Kill(c)
    BY <1>1, <2>11 DEF Kill, files
  <2>12. CASE KillAppending(c)
    BY <1>0, <2>12, KillAppendSolo
  <2> QED BY <1>3, <2>3, <2>4, <2>5, <2>6, <2>7, <2>8, <2>9, <2>10, <2>11, <2>12 DEF Step
<1> QED BY <1>2, <1>3

-----------------------------------------------------------------------------
(* The invariant is inductive.                                             *)
LEMMA UsageInit == Init => UsageInv
<1> SUFFICES ASSUME Init PROVE UsageInv
  OBVIOUS
<1>1. 1 \in Gen /\ source = [present |-> FALSE, gen |-> 1, lines |-> 0, begun |-> FALSE] /\ ledger = <<>>
      /\ Range(ledger) = {} /\ tail = "whole" /\ solo = TRUE
  BY LineFacts DEF Init, Gen, Range
<1>2. \A c \in Collector : col[c] = Idle
  BY DEF Init
<1>3. TypeInv
  <2>1. col \in [Collector -> ColValue] /\ \A c \in Collector : col[c].run = None /\ col[c].pc = "idle"
    BY <1>2, IdleTypes DEF Init
  <2>2. source \in [present : BOOLEAN, gen : Gen, lines : 0 .. Len(Line), begun : BOOLEAN]
    BY <1>1, LineFacts
  <2>3. /\ ledger \in Seq(EventSet) /\ tail \in {"whole", "torn", "bare", "glued"}
        /\ cursor \in CursorValue \union {None} /\ temp \in CursorValue \union {None}
        /\ records \in [Run -> RecordValue \union {None}]
        /\ solo \in BOOLEAN /\ kills \in 0 .. MaxKills
    BY LineFacts DEF Init
  <2> QED BY <2>1, <2>2, <2>3 DEF TypeInv
<1>4. CursorInv(NoCursor)
  <2>1. NoCursor.prefix = None /\ NoCursor.offset = 0 /\ None \notin Gen
    BY NoneFacts DEF NoCursor
  <2>2. Measured(None, 0, 0) = {}
    BY MeasuredFacts
  <2> QED BY <1>1, <2>1, <2>2 DEF CursorInv, Within, Kept
<1>5. \A c \in Collector : ProcessInv(c) /\ SoloAppend(c) /\ SoloRead(c) /\ SoloReading(c) /\ SoloPrior(c)
  BY <1>2, <1>4, IdleTypes DEF ProcessInv, HeldInv, AppendInv, PastInv, Holding, Past,
                               SoloAppend, SoloRead, SoloReading, SoloPrior
<1>6. SourceInv /\ LedgerInv /\ cursor = None /\ temp = None
  BY <1>1 DEF SourceInv, LedgerInv, Init
<1>7. IsInjective(ledger) /\ Ordered(ledger) /\ OneAtATime /\ \A r \in Run : records[r] = None
  BY <1>1, <1>2, IdleTypes DEF IsInjective, Ordered, OneAtATime, Init
<1> QED BY <1>3, <1>5, <1>6, <1>7 DEF UsageInv, SharedInv, SoloInv

(* Every step keeps the invariant, and what records keep.                  *)
LEMMA UsageStep == UsageInv /\ [Next]_vars => UsageInv' /\ (UNCHANGED vars \/ (CallsKept /\ LateUsageTold))
<1> SUFFICES ASSUME UsageInv, [Next]_vars PROVE UsageInv' /\ (UNCHANGED vars \/ (CallsKept /\ LateUsageTold))
  OBVIOUS
<1>0. SharedInv /\ SoloInv
  BY DEF UsageInv
<1>1. CASE Grow \/ BeginLine \/ ReplaceSource
  <2>1. CallsKept /\ LateUsageTold
    BY <1>0, <1>1, SourceSteps DEF files, CallsKept, LateUsageTold
  <2> QED BY <1>0, <1>1, <2>1, SourceSteps, SourceSolo DEF UsageInv
<1>2. ASSUME NEW c \in Collector, NEW phase \in {"manual", "start", "completion", "recovery"},
             NEW r \in Run \union {None}, NEW given \in BOOLEAN, r # None => phase # "manual",
             Begin(c, phase, r, given)
      PROVE  UsageInv' /\ CallsKept /\ LateUsageTold
  <2>1. SharedInv' /\ SoloInv'
    BY <1>0, <1>2, BeginSteps, BeginSolo
  <2>2. CallsKept /\ LateUsageTold
    BY <1>2 DEF Begin, files, CallsKept, LateUsageTold
  <2> QED BY <2>1, <2>2 DEF UsageInv
<1>3. CASE \E c \in Collecting : Collect(c)
  BY <1>2, <1>3 DEF Collect, Collector
<1>4. CASE \E c \in Reporting : Report(c)
  <2>1. PICK c \in Reporting : Report(c)
    BY <1>4
  <2>2. PICK r \in Run, given \in BOOLEAN :
           \/ ~given /\ Begin(c, "start", r, given)
           \/ \E phase \in {"completion", "recovery"} : Begin(c, phase, r, given)
    BY <2>1 DEF Report
  <2>3. c \in Collector /\ r # None
    BY NoneFacts DEF Collector
  <2> QED BY <1>2, <2>2, <2>3
<1>5. CASE \E c \in Collector : Step(c) \/ Kill(c) \/ KillAppending(c)
  BY <1>0, <1>5, SharedStep, SoloStep DEF UsageInv
<1>6. CASE UNCHANGED vars
  <2>1. UNCHANGED <<source, ledger, tail, cursor, temp, records, col, solo, kills, reports>>
    BY <1>6 DEF vars
  <2>2. SharedInv'
    <3>1. TypeInv /\ TypeInv' /\ SourceInv'
      BY <1>0, <2>1 DEF SharedInv, TypeInv, SourceInv
    <3>2. LedgerKept /\ LedgerInv' /\ SourceGrows
      BY <1>0, <2>1, <3>1, LedgerSame, SourceTypes DEF SourceGrows
    <3>3. \A c \in Collector : ProcessInv(c)'
      BY <1>0, <2>1, <3>1, <3>2, ProcessKeeps
    <3>4. (cursor # None => CursorInv(cursor))' /\ (temp # None => CursorInv(temp))'
      BY <1>0, <2>1 DEF SharedInv, CursorInv, Within, Kept
    <3> QED BY <3>1, <3>2, <3>3, <3>4 DEF SharedInv
  <2>3. SoloInv'
    BY <1>0, <2>1 DEF SoloInv, OneAtATime, SoloAppend, SoloRead, SoloReading, SoloPrior, Holding, Past, RecordInv, Kept
  <2> QED BY <1>6, <2>2, <2>3 DEF UsageInv
<1> QED BY <1>1, <1>3, <1>4, <1>5, <1>6 DEF Next

-----------------------------------------------------------------------------
(* What was collected of a file, as a set.                                 *)
LEMMA CollectedIs ==
  ASSUME NEW gen \in Gen \union {None}, NEW offset \in 0 .. Len(Line), gen = None => offset = 0
  PROVE  Collected(gen, offset) = Measured(gen, 0, offset)
<1>1. CASE gen \in Gen
  BY <1>1, EventsFacts, LineFacts DEF Collected
<1>2. CASE gen = None
  <2>1. Events(gen, 0, 0) = <<>>
    BY EventsNone
  <2>2. Measured(gen, 0, 0) = {}
    BY MeasuredFacts
  <2> QED BY <1>2, <2>1, <2>2 DEF Collected, Range
<1> QED BY <1>1, <1>2

(* What the runs check follows from the invariant.                         *)
LEMMA CollectionFollows == UsageInv => CollectionInv
<1> SUFFICES ASSUME UsageInv PROVE CollectionInv
  OBVIOUS
<1>0. SharedInv /\ SoloInv /\ TypeInv
  BY DEF UsageInv, SharedInv
<1>1. TypeOK
  <2>1. Range(ledger) \subseteq EventSet
    BY <1>0, RangeOfSeq DEF TypeInv
  <2>2. \A c \in Collector : col[c].end \in 0 .. Len(Line) /\ Range(col[c].new) \subseteq EventSet
    BY <1>0, ColTypes, RangeOfSeq
  <2>3. \A v \in RecordValue : Range(v.calls) \subseteq EventSet /\ v.boundary \in 0 .. Len(Line)
    BY RangeOfSeq DEF RecordValue
  <2> QED BY <1>0, <2>1, <2>2, <2>3 DEF TypeInv, TypeOK
<1>2. NothingSkipped
  <2> SUFFICES ASSUME cursor # None, tail # "glued" PROVE Collected(cursor.prefix, cursor.offset) \subseteq Range(ledger)
    BY DEF NothingSkipped
  <2>1. cursor \in CursorValue /\ CursorInv(cursor)
    BY <1>0 DEF TypeInv, SharedInv
  <2>2. Collected(cursor.prefix, cursor.offset) = Measured(cursor.prefix, 0, cursor.offset)
    BY <2>1, CursorTypes, CollectedIs DEF CursorInv, Within
  <2> QED BY <2>1, <2>2 DEF CursorInv, Kept
<1>3. LatestReading
  BY <1>0 DEF LatestReading, SoloInv, SoloReading
<1> QED BY <1>1, <1>2, <1>3 DEF CollectionInv

(* The records and the ledger, as the properties speak of them.            *)
LEMMA RecordsFollow == UsageInv => OncePerEvent /\ RecordExact
<1> SUFFICES ASSUME UsageInv PROVE OncePerEvent /\ RecordExact
  OBVIOUS
<1>0. SharedInv /\ SoloInv /\ TypeInv
  BY DEF UsageInv, SharedInv
<1>1. OncePerEvent
  BY <1>0 DEF OncePerEvent, SoloInv
<1>2. ASSUME NEW r \in Run, solo, records[r] # None, records[r].linked, tail # "glued"
      PROVE  /\ IsInjective(records[r].calls)
             /\ source.gen = 1 => Range(records[r].calls) =
                  {e \in Collected(1, records[r].boundary) : e.type = "tokens" /\ e.line \in Turns[r]}
  <2>1. RecordInv(r)
    BY <1>0, <1>2 DEF SoloInv
  <2>2. ASSUME source.gen = 1
        PROVE  Range(records[r].calls) = {e \in Collected(1, records[r].boundary) : e.type = "tokens" /\ e.line \in Turns[r]}
    <3>1. PICK b : b = records[r].boundary
      OBVIOUS
    <3>2. b \in 0 .. Len(Line) /\ b \in Nat
      <4>1. \A v \in RecordValue : v.boundary \in 0 .. Len(Line) /\ v.boundary \in Nat
        BY LineFacts DEF RecordValue
      <4> QED BY <1>0, <1>2, <3>1, <4>1 DEF TypeInv
    <3>3. Kept(1, b) /\ records[r].calls = Among(ledger, CallsOf(r, b))
      BY <1>2, <2>1, <2>2, <3>1 DEF RecordInv
    <3>4. Range(records[r].calls) = Range(ledger) \intersect CallsOf(r, b)
      BY <1>0, <3>3, AmongType DEF TypeInv
    <3>5. Collected(1, b) = Measured(1, 0, b)
      <4>1. 1 \in Gen /\ 1 # None
        BY LineFacts, NoneFacts DEF Gen
      <4> QED BY <3>2, <4>1, CollectedIs
    <3>6. Measured(1, 0, b) \subseteq Range(ledger)
      BY <1>2, <3>3 DEF Kept
    <3>7. ASSUME NEW e \in Range(ledger), e \in CallsOf(r, b) PROVE e \in Measured(1, 0, b)
      <4>1. e \in Measured(e.gen, 0, Len(Line)) /\ e.gen = 1 /\ e.line =< b /\ e \in EventSet
        BY <1>0, <3>7 DEF SharedInv, LedgerInv, CallsOf
      <4>2. e.line \in 0 + 1 .. b
        BY <3>2, <4>1, EventTypes
      <4> QED BY <4>1, <4>2 DEF Measured
    <3>8. ASSUME NEW e \in Measured(1, 0, b), e.type = "tokens", e.line \in Turns[r] PROVE e \in CallsOf(r, b)
      <4>1. e \in EventSet /\ e.gen = 1 /\ e.line \in 0 + 1 .. b
        BY DEF Measured
      <4> QED BY <3>2, <3>8, <4>1, EventTypes DEF CallsOf
    <3>9. \A e \in CallsOf(r, b) : e.type = "tokens" /\ e.line \in Turns[r]
      BY DEF CallsOf
    <3> QED BY <3>1, <3>4, <3>5, <3>6, <3>7, <3>8, <3>9
  <2> QED BY <2>1, <2>2 DEF RecordInv
<1> QED BY <1>1, <1>2 DEF RecordExact

-----------------------------------------------------------------------------
(* The invariant holds of all that the processes and the source do.        *)
THEOREM UsageAlways == Spec => []UsageInv
<1>1. UsageInv /\ [Next]_vars => UsageInv'
  BY UsageStep
<1> QED BY <1>1, UsageInit, PTL DEF Spec

(* However collections and reports overlap and are killed, the cursor that *)
(* usage-collect leaves never passes an event that is not in a readable    *)
(* ledger; and an admission that was computed while no two overlapped is   *)
(* based on the latest reading.                                            *)
THEOREM CollectionHolds == Spec => []CollectionInv
BY UsageAlways, CollectionFollows, PTL

(* While no two processes overlapped, the ledger holds each event once,    *)
(* although a killed collection leaves events behind its cursor that the   *)
(* next one reads again.                                                   *)
THEOREM EntersOnce == Spec => []OncePerEvent
<1>1. UsageInv => OncePerEvent
  BY RecordsFollow
<1> QED BY <1>1, UsageAlways, PTL

(* While no two processes overlapped, the record of a linked run counts    *)
(* each call of its turns within its boundary, once.                       *)
THEOREM RecordsExact == Spec => []RecordExact
<1>1. UsageInv => RecordExact
  BY RecordsFollow
<1> QED BY <1>1, UsageAlways, PTL

(* While no two processes overlapped, no report takes back a call that was *)
(* counted, and one that counts more than the completion did says that it  *)
(* was reconciled.                                                         *)
THEOREM RecordsStay == Spec => RecordsKept
<1>1. UsageInv /\ [Next]_vars => [CallsKept /\ LateUsageTold]_vars
  BY UsageStep
<1> QED BY <1>1, UsageAlways, PTL DEF Spec, RecordsKept
=============================================================================
