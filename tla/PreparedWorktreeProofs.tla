----------------------- MODULE PreparedWorktreeProofs -----------------------
(***************************************************************************)
(* The invariants of PreparedWorktree for any number of preparers and any  *)
(* bounds.  A removal loses nothing it could have noticed because of what  *)
(* clean-up has looked at in each of its phases (SinceInv); a handle stays *)
(* good among preparers because whose registration it is can be told from  *)
(* what every preparer does (CalmInv).  And at the end, the selection and  *)
(* assembly of a context for any tree, policy and requests.                *)
(***************************************************************************)
EXTENDS PreparedWorktree, ContextSelection, FiniteSetTheorems, WellFoundedInduction, TLAPS

Made == {"record", "baseline", "mark", "proof", "digest"}   \* p's add has been done
Unmarked == {"record", "baseline", "mark"}
Cleaning == {"contents", "unchanged", "remove"}             \* p's marker was found

(* What is made is somebody's, who was told of it; a preparation in progress *)
(* has not answered; and a clean-up has a handle.                            *)
MakerInv ==
  /\ reg = None <=> maker = None
  /\ \A p \in Preparer :
       /\ pc[p] \in Preparing => answer[p] = "none"
       /\ answer[p] = "bare" => maker # p
       /\ pc[p] \in Cleaning \union {"gone"} => handle[p] # None

(* What p has looked at is so, or its change was noted in since[p]; and a    *)
(* handle of another's marker never meets one of p's own again.              *)
Dirty(r) == r # None /\ (r.staged \/ r.moved)
Marks(r, p) == r # None /\ r.marker = p
SinceInv(p) ==
  /\ pc[p] \in {"unchanged", "remove"} /\ dest = "work" => "files" \in since[p]
  /\ pc[p] = "digest" /\ Dirty(reg) => "baseline" \in since[p]
  /\ Dirty(handle[p]) => "baseline" \in since[p]
  /\ handle[p] # None /\ Marks(reg, p) => Marks(handle[p], p)
  /\ pc[p] \in Cleaning => Marks(handle[p], p)
  /\ pc[p] = "remove" =>
       /\ ~Marks(reg, p) => "registration" \in since[p]
       /\ Dirty(reg) => "admin" \in since[p] \/ "baseline" \in since[p]

(* While nobody intrudes and nothing fails: the registration is that of the  *)
(* one preparer who is at work on it or has a handle that is unused, and is  *)
(* as that preparer left it.                                                 *)
Calm == intrusions = 0 /\ faults = 0
Holds(p) == pc[p] \in Made \/ (answer[p] = "handle" /\ pc[p] # "gone")
CalmSite ==
  /\ dest = IF reg = None THEN "absent" ELSE "linked"
  /\ reg # None => reg.whole /\ ~reg.moved /\ ~reg.staged
CalmFor(p) ==
  /\ maker = p <=> Holds(p)
  /\ maker = p => reg.marker = IF pc[p] \in Unmarked THEN None ELSE p
  /\ pc[p] \in Cleaning => answer[p] = "handle"
  /\ answer[p] = "handle" /\ pc[p] # "gone" => handle[p] = reg
CalmInv == CalmSite /\ \A p \in Preparer : CalmFor(p)

StateInv ==
  /\ TypeOK /\ MakerInv
  /\ \A p \in Preparer : SinceInv(p)
  /\ Calm => CalmInv


-----------------------------------------------------------------------------
(* Registrations, and the answers of a call. *)

LEMMA RegistrationIs ==
  /\ None \notin Registration /\ None \in Mark /\ Torn \in Mark
  /\ \A p \in Preparer : p \in Mark /\ p # None /\ p # Torn
  /\ \A c \in BOOLEAN : Fresh(c) \in Registration /\ Fresh(c).marker = None /\ Fresh(c).whole = c
                        /\ ~Fresh(c).moved /\ ~Fresh(c).staged
BY NoneAssumption, PreparedAssumption DEF Registration, Mark, Fresh

LEMMA GoFacts ==
  ASSUME TypeOK, NEW p \in Preparer, NEW phase \in Phase, Go(p, phase),
         phase \in Preparing => pc[p] \in Preparing
  PROVE  /\ pc' \in [Preparer -> Phase] /\ handle' = handle /\ answer' = answer
         /\ pc'[p] = phase /\ \A q \in Preparer : q # p => pc'[q] = pc[q]
         /\ \A q \in Preparer : handle'[q] # None => pc'[q] \notin Preparing
BY DEF TypeOK, Go

LEMMA EndFacts ==
  ASSUME TypeOK, NEW p \in Preparer, NEW h \in Registration \union {None}, NEW a \in Answer, End(p, h, a)
  PROVE  /\ pc' \in [Preparer -> Phase] /\ handle' \in [Preparer -> Registration \union {None}]
         /\ answer' \in [Preparer -> Answer]
         /\ pc'[p] = "ready" /\ handle'[p] = h /\ answer'[p] = a
         /\ \A q \in Preparer : q # p => pc'[q] = pc[q] /\ handle'[q] = handle[q] /\ answer'[q] = answer[q]
         /\ \A q \in Preparer : handle'[q] # None => pc'[q] \notin Preparing
BY DEF TypeOK, End, Phase, Preparing

(* In calm, who has marked the registration is who made it. *)
LEMMA MarkIsMaker ==
  ASSUME TypeOK, MakerInv, CalmInv, NEW p \in Preparer, Marks(reg, p)
  PROVE  maker = p
<1>1. maker \in Preparer
  BY DEF TypeOK, MakerInv, Marks
<1>2. CalmFor(maker)
  BY <1>1 DEF CalmInv
<1> QED
  BY <1>2, RegistrationIs DEF CalmFor, Marks

LEMMA PrepareStartKeeps ==
  ASSUME StateInv, NEW p \in Preparer, PrepareStart(p)
  PROVE  StateInv'
<1>1. TypeOK'
  BY DEF StateInv, PrepareStart, TypeOK, Phase, Preparing, Answer, site, bounds
<1>2. MakerInv'
  BY DEF StateInv, TypeOK, PrepareStart, MakerInv, Preparing, Cleaning, site
<1>3. \A q \in Preparer : SinceInv(q)'
  BY DEF StateInv, TypeOK, PrepareStart, SinceInv, Dirty, Marks, Cleaning, site
<1>4. Calm' => CalmInv'
  <2> SUFFICES ASSUME Calm'
               PROVE  CalmInv'
    OBVIOUS
  <2>1. CalmInv /\ CalmSite'
    BY DEF StateInv, PrepareStart, Calm, CalmInv, CalmSite, site, bounds
  <2>2. ASSUME NEW q \in Preparer
        PROVE  CalmFor(q)'
    <3>1. CalmFor(q)
      BY <2>1 DEF CalmInv
    <3> QED
      BY <3>1, RegistrationIs DEF StateInv, TypeOK, MakerInv, PrepareStart, CalmFor, Holds, Made, Unmarked, Cleaning, site
  <2> QED
    BY <2>1, <2>2 DEF CalmInv
<1> QED
  BY <1>1, <1>2, <1>3, <1>4 DEF StateInv

LEMMA AddKeeps ==
  ASSUME StateInv, NEW p \in Preparer, Add(p)
  PROVE  StateInv'
<1>1. TypeOK'
  BY GoFacts, RegistrationIs DEF StateInv, Add, TypeOK, Phase, Preparing, bounds
<1>2. MakerInv'
  BY RegistrationIs DEF StateInv, TypeOK, Add, Go, MakerInv, Preparing, Cleaning
<1>3. \A q \in Preparer : SinceInv(q)'
  BY RegistrationIs DEF StateInv, TypeOK, Add, Go, SinceInv, Dirty, Marks, Cleaning
<1>4. Calm' => CalmInv'
  <2> SUFFICES ASSUME Calm'
               PROVE  CalmInv'
    OBVIOUS
  <2>1. CalmInv /\ CalmSite'
    BY RegistrationIs DEF StateInv, Add, Calm, CalmInv, CalmSite, bounds
  <2>2. ASSUME NEW q \in Preparer
        PROVE  CalmFor(q)'
    <3>1. CalmFor(q)
      BY <2>1 DEF CalmInv
    <3> QED
      BY <3>1, RegistrationIs DEF StateInv, TypeOK, MakerInv, Add, Go, CalmFor, Holds, Made, Unmarked, Cleaning, Preparing
  <2> QED
    BY <2>1, <2>2 DEF CalmInv
<1> QED
  BY <1>1, <1>2, <1>3, <1>4 DEF StateInv


-----------------------------------------------------------------------------
(* Steps that only move a call. *)

(* A call ends without a handle: a preparation that failed, or a process     *)
(* that is gone.                                                             *)
LEMMA GivesUp ==
  ASSUME StateInv, NEW p \in Preparer, NEW a \in {"kept", "bare", "none"}, End(p, None, a),
         UNCHANGED <<site, since>>, a = "bare" => maker # p,
         intrusions' \in 0 .. MaxIntrusions, faults' \in 0 .. MaxFaults,
         Calm' => Calm /\ maker # p
  PROVE  StateInv'
<1>1. /\ TypeOK /\ MakerInv /\ a \in Answer
      /\ reg' = reg /\ dest' = dest /\ maker' = maker /\ since' = since
  BY DEF StateInv, Answer, site
<1>2. /\ pc' \in [Preparer -> Phase] /\ handle' \in [Preparer -> Registration \union {None}]
      /\ answer' \in [Preparer -> Answer]
      /\ pc'[p] = "ready" /\ handle'[p] = None /\ answer'[p] = a
      /\ \A q \in Preparer : q # p => pc'[q] = pc[q] /\ handle'[q] = handle[q] /\ answer'[q] = answer[q]
      /\ \A q \in Preparer : handle'[q] # None => pc'[q] \notin Preparing
  BY <1>1, EndFacts
<1>3. TypeOK'
  BY <1>1, <1>2 DEF TypeOK
<1>4. MakerInv'
  BY <1>1, <1>2 DEF MakerInv, Preparing, Cleaning
<1>5. \A q \in Preparer : SinceInv(q)'
  BY <1>1, <1>2 DEF StateInv, SinceInv, Dirty, Marks, Cleaning
<1>6. ASSUME Calm'
      PROVE  CalmInv'
  <2>1. CalmInv /\ CalmSite' /\ maker # p
    BY <1>1, <1>6 DEF StateInv, CalmInv, CalmSite
  <2>2. ASSUME NEW q \in Preparer
        PROVE  CalmFor(q)'
    BY <1>1, <1>2, <2>1 DEF CalmInv, CalmFor, Holds, Made, Unmarked, Cleaning
  <2> QED
    BY <2>1, <2>2 DEF CalmInv
<1> QED
  BY <1>3, <1>4, <1>5, <1>6 DEF StateInv

(* A clean-up ends, and its caller keeps the handle. *)
LEMMA KeepsHandle ==
  ASSUME StateInv, NEW p \in Preparer, NEW a \in {"refused", "removed", "incomplete"}, End(p, handle[p], a),
         UNCHANGED site, since' \in [Preparer -> SUBSET Kind],
         \A q \in Preparer : q # p => since'[q] = since[q],
         "baseline" \in since[p] => "baseline" \in since'[p],
         intrusions' \in 0 .. MaxIntrusions, faults' \in 0 .. MaxFaults,
         Calm' => Calm /\ maker # p
  PROVE  StateInv'
<1>1. /\ TypeOK /\ MakerInv /\ a \in Answer /\ handle[p] \in Registration \union {None}
      /\ reg' = reg /\ dest' = dest /\ maker' = maker
  BY DEF StateInv, TypeOK, Answer, site
<1>2. /\ pc' \in [Preparer -> Phase] /\ handle' \in [Preparer -> Registration \union {None}]
      /\ answer' \in [Preparer -> Answer]
      /\ pc'[p] = "ready" /\ handle'[p] = handle[p] /\ answer'[p] = a
      /\ \A q \in Preparer : q # p => pc'[q] = pc[q] /\ handle'[q] = handle[q] /\ answer'[q] = answer[q]
      /\ \A q \in Preparer : handle'[q] # None => pc'[q] \notin Preparing
  BY <1>1, EndFacts
<1>3. TypeOK'
  BY <1>1, <1>2 DEF TypeOK
<1>4. MakerInv'
  BY <1>1, <1>2 DEF MakerInv, Preparing, Cleaning
<1>5. \A q \in Preparer : SinceInv(q)'
  BY <1>1, <1>2 DEF StateInv, SinceInv, Dirty, Marks, Cleaning
<1>6. ASSUME Calm'
      PROVE  CalmInv'
  <2>1. CalmInv /\ CalmSite' /\ maker # p
    BY <1>1, <1>6 DEF StateInv, CalmInv, CalmSite
  <2>2. ASSUME NEW q \in Preparer
        PROVE  CalmFor(q)'
    BY <1>1, <1>2, <2>1 DEF CalmInv, CalmFor, Holds, Made, Unmarked, Cleaning
  <2> QED
    BY <2>1, <2>2 DEF CalmInv
<1> QED
  BY <1>3, <1>4, <1>5, <1>6 DEF StateInv

(* A call goes on after a look at the site that found what it needs. *)
LEMMA GoesOn ==
  ASSUME StateInv, NEW p \in Preparer, NEW phase \in Phase, Go(p, phase),
         UNCHANGED <<site, bounds>>, since' \in [Preparer -> SUBSET Kind],
         \A q \in Preparer : q # p => since'[q] = since[q],
         "baseline" \in since[p] => "baseline" \in since'[p],
         \/ /\ pc[p] \in Unmarked /\ phase \in Unmarked
         \/ /\ pc[p] = "proof" /\ phase = "digest" /\ ~Dirty(reg)
         \/ /\ pc[p] = "ready" /\ phase = "contents" /\ handle[p] # None /\ Marks(reg, p)
         \/ /\ pc[p] = "contents" /\ phase = "unchanged" /\ dest # "work"
         \/ /\ pc[p] = "unchanged" /\ phase = "remove" /\ reg = handle[p] /\ since' = since
  PROVE  StateInv'
<1>1. /\ TypeOK /\ MakerInv
      /\ reg' = reg /\ dest' = dest /\ maker' = maker /\ intrusions' = intrusions /\ faults' = faults
      /\ phase \in Preparing => pc[p] \in Preparing
  BY DEF StateInv, site, bounds, Unmarked, Preparing
<1>2. /\ pc' \in [Preparer -> Phase] /\ handle' = handle /\ answer' = answer
      /\ pc'[p] = phase /\ \A q \in Preparer : q # p => pc'[q] = pc[q]
      /\ \A q \in Preparer : handle'[q] # None => pc'[q] \notin Preparing
  BY <1>1, GoFacts
<1>3. TypeOK'
  BY <1>1, <1>2 DEF TypeOK
<1>4. MakerInv'
  BY <1>1, <1>2 DEF MakerInv, Preparing, Cleaning, Unmarked
<1>5. ASSUME NEW q \in Preparer
      PROVE  SinceInv(q)'
  <2>1. SinceInv(q)
    BY DEF StateInv
  <2>2. CASE q # p
    BY <1>1, <1>2, <2>1, <2>2 DEF SinceInv, Dirty, Marks, Cleaning
  <2>3. CASE q = p
    BY <1>1, <1>2, <2>1, <2>3 DEF SinceInv, Dirty, Marks, Cleaning, Unmarked, MakerInv
  <2> QED
    BY <2>2, <2>3
<1>6. ASSUME Calm'
      PROVE  CalmInv'
  <2>1. CalmInv /\ CalmSite'
    BY <1>1, <1>6 DEF StateInv, CalmInv, CalmSite, Calm
  <2>2. ASSUME NEW q \in Preparer
        PROVE  CalmFor(q)'
    <3>1. /\ CalmFor(q) /\ CalmFor(p) /\ (reg = None <=> maker = None)
          /\ Marks(reg, p) => maker = p
      BY <1>1, <2>1, MarkIsMaker DEF CalmInv, MakerInv
    <3>2. CASE q # p
      BY <1>1, <1>2, <3>1, <3>2 DEF CalmFor, Holds, Made, Unmarked, Cleaning
    <3>3. CASE q = p
      BY <1>1, <1>2, <3>1, <3>3 DEF CalmFor, Holds, Made, Unmarked, Cleaning, Marks
    <3> QED
      BY <3>2, <3>3
  <2> QED
    BY <2>1, <2>2 DEF CalmInv
<1> QED
  BY <1>3, <1>4, <1>5, <1>6 DEF StateInv


(* Each step of a preparation that fails finds the site not calm. *)
LEMMA FailKeeps ==
  ASSUME StateInv, NEW p \in Preparer, Fail(p), Calm => maker # p
  PROVE  StateInv'
<1> DEFINE a == Observed(dest, reg)
<1>1. a \in {"kept", "bare", "none"} /\ (a = "bare" => maker # p)
  BY RegistrationIs, PreparedAssumption DEF Observed, StateInv, MakerInv
<1>2. /\ End(p, None, a) /\ UNCHANGED <<site, since>> /\ UNCHANGED <<intrusions, faults>>
      /\ intrusions' \in 0 .. MaxIntrusions /\ faults' \in 0 .. MaxFaults
  BY DEF Fail, bounds, StateInv, TypeOK
<1>3. Calm' => Calm /\ maker # p
  BY <1>2 DEF Calm
<1> HIDE DEF a
<1> QED
  BY <1>1, <1>2, <1>3, GivesUp

(* What holds of one preparer in calm. *)
LEMMA InCalm ==
  ASSUME StateInv, Calm, NEW p \in Preparer
  PROVE  CalmSite /\ CalmFor(p) /\ CalmInv /\ MakerInv /\ TypeOK
BY DEF StateInv, CalmInv

LEMMA VerifiesKeep ==
  ASSUME StateInv, NEW p \in Preparer,
         AddRefused(p) \/ VerifyRecord(p) \/ VerifyBaseline(p) \/ VerifyMarked(p)
  PROVE  StateInv'
<1>1. since \in [Preparer -> SUBSET Kind] /\ TypeOK
  BY DEF StateInv, TypeOK
<1>2. CASE AddRefused(p)
  <2>1. Calm => maker # p
    BY <1>2, InCalm DEF AddRefused, CalmFor, Holds, Made, MakerInv, Preparing
  <2> QED
    BY <1>2, <2>1, FailKeeps DEF AddRefused
<1>3. CASE VerifyRecord(p)
  <2>1. CASE Fail(p) /\ ~(Linked /\ Unmaterialized /\ reg.whole /\ ~reg.moved)
    <3>1. Calm => maker # p
      BY <1>3, <2>1, InCalm, RegistrationIs, PreparedAssumption
      DEF CalmFor, CalmSite, MakerInv, Linked, Unmaterialized
    <3> QED
      BY <2>1, <3>1, FailKeeps
  <2>2. CASE Go(p, "baseline") /\ UNCHANGED <<site, since, bounds>>
    BY <1>1, <1>3, <2>2, GoesOn DEF VerifyRecord, Phase, Preparing, Unmarked
  <2> QED
    BY <1>3, <2>1, <2>2 DEF VerifyRecord
<1>4. CASE VerifyBaseline(p)
  <2>1. CASE Fail(p) /\ ~Disposable(FALSE)
    <3>1. Calm => maker # p
      BY <1>4, <2>1, InCalm, RegistrationIs, PreparedAssumption
      DEF VerifyBaseline, CalmFor, CalmSite, MakerInv, Disposable, Unmarked
    <3> QED
      BY <2>1, <3>1, FailKeeps
  <2>2. CASE Go(p, "mark") /\ UNCHANGED <<site, since, bounds>>
    BY <1>1, <1>4, <2>2, GoesOn DEF VerifyBaseline, Phase, Preparing, Unmarked
  <2> QED
    BY <1>4, <2>1, <2>2 DEF VerifyBaseline
<1>5. CASE VerifyMarked(p)
  <2>1. CASE Fail(p) /\ ~Disposable(TRUE)
    <3>1. Calm => maker # p
      BY <1>5, <2>1, InCalm, RegistrationIs, PreparedAssumption
      DEF VerifyMarked, CalmFor, CalmSite, MakerInv, Disposable, Unmarked
    <3> QED
      BY <2>1, <3>1, FailKeeps
  <2>2. CASE Go(p, "digest") /\ UNCHANGED <<site, since, bounds>> /\ Disposable(TRUE)
    <3>1. ~Dirty(reg)
      BY <2>2 DEF Disposable, Dirty
    <3> QED
      BY <1>1, <1>5, <2>2, <3>1, GoesOn DEF VerifyMarked, Phase, Preparing, Unmarked
  <2> QED
    BY <1>5, <2>1, <2>2 DEF VerifyMarked
<1> QED
  BY <1>2, <1>3, <1>4, <1>5

(* The looks of a clean-up. *)
LEMMA RefusedKeeps ==
  ASSUME StateInv, NEW p \in Preparer, NEW a \in {"refused", "removed", "incomplete"}, End(p, handle[p], a),
         UNCHANGED <<site, since, bounds>>, Calm => maker # p
  PROVE  StateInv'
<1>1. /\ UNCHANGED <<intrusions, faults>> /\ since' = since /\ UNCHANGED site
      /\ intrusions' \in 0 .. MaxIntrusions /\ faults' \in 0 .. MaxFaults
      /\ since' \in [Preparer -> SUBSET Kind]
  BY DEF bounds, StateInv, TypeOK
<1>2. Calm' => Calm /\ maker # p
  BY <1>1 DEF Calm
<1> QED
  BY <1>1, <1>2, KeepsHandle

LEMMA ChecksKeep ==
  ASSUME StateInv, NEW p \in Preparer,
         CheckOwnership(p) \/ CheckContents(p) \/ CheckDigest(p) \/ RemoveRefused(p) \/ VerifyGone(p)
  PROVE  StateInv'
<1>1. since \in [Preparer -> SUBSET Kind] /\ TypeOK
  BY DEF StateInv, TypeOK
<1>2. CASE CheckOwnership(p)
  <2> DEFINE old == since[p] \intersect {"baseline"}
  <2>1. /\ since' = [since EXCEPT ![p] = old] /\ old \in SUBSET Kind
        /\ "baseline" \in since[p] => "baseline" \in old
    BY <1>1, <1>2 DEF CheckOwnership
  <2> HIDE DEF old
  <2>2. /\ since' \in [Preparer -> SUBSET Kind] /\ \A q \in Preparer : q # p => since'[q] = since[q]
        /\ "baseline" \in since[p] => "baseline" \in since'[p]
    BY <1>1, <2>1
  <2>3. CASE Go(p, "contents") /\ Linked /\ MarkerMatches(p)
    <3>1. /\ pc[p] = "ready" /\ handle[p] # None /\ UNCHANGED <<site, bounds>> /\ Marks(reg, p)
          /\ "contents" \in Phase
      BY <1>2, <2>3 DEF CheckOwnership, Linked, MarkerMatches, Marks, Phase
    <3> QED
      BY <2>2, <2>3, <3>1, GoesOn
  <2>4. CASE End(p, handle[p], "refused") /\ ~(Linked /\ MarkerMatches(p))
    <3>1. /\ UNCHANGED site /\ UNCHANGED <<intrusions, faults>>
          /\ intrusions' \in 0 .. MaxIntrusions /\ faults' \in 0 .. MaxFaults
      BY <1>1, <1>2 DEF CheckOwnership, bounds, TypeOK
    <3>2. Calm => maker # p
      <4> SUFFICES ASSUME Calm, maker = p
                   PROVE  FALSE
        OBVIOUS
      <4>1. CalmSite /\ CalmFor(p) /\ MakerInv /\ reg # None
        BY InCalm, PreparedAssumption DEF MakerInv
      <4>2. Linked /\ MarkerMatches(p)
        BY <1>2, <4>1 DEF CheckOwnership, CalmFor, CalmSite, Linked, MarkerMatches, Unmarked
      <4> QED
        BY <2>4, <4>2
    <3>3. Calm' => Calm /\ maker # p
      BY <3>1, <3>2 DEF Calm
    <3> QED
      BY <2>2, <2>4, <3>1, <3>3, KeepsHandle
  <2> QED
    BY <1>2, <2>3, <2>4 DEF CheckOwnership
<1>3. CASE CheckContents(p)
  <2>1. CASE Go(p, "unchanged") /\ Unmaterialized
    BY <1>1, <1>3, <2>1, GoesOn DEF CheckContents, Look, Unmaterialized, Phase
  <2>2. CASE End(p, handle[p], "refused") /\ ~(reg # None /\ ~reg.moved /\ Unmaterialized)
    <3>1. Calm => maker # p
      BY <1>3, <2>2, InCalm, PreparedAssumption DEF MakerInv, CalmFor, CalmSite, Unmaterialized
    <3> QED
      BY <1>3, <2>2, <3>1, RefusedKeeps DEF CheckContents, Look
  <2> QED
    BY <1>3, <2>1, <2>2 DEF CheckContents, Look
<1>4. CASE CheckDigest(p)
  <2>1. CASE Go(p, "remove") /\ reg # None /\ Digest(reg) = handle[p]
    BY <1>1, <1>4, <2>1, GoesOn DEF CheckDigest, Look, Digest, Phase
  <2>2. CASE End(p, handle[p], "refused") /\ ~(reg # None /\ Digest(reg) = handle[p])
    <3>1. Calm => maker # p
      BY <1>4, <2>2, InCalm, PreparedAssumption
      DEF CheckDigest, MakerInv, CalmFor, Digest, Cleaning
    <3> QED
      BY <1>4, <2>2, <3>1, RefusedKeeps DEF CheckDigest, Look
  <2> QED
    BY <1>4, <2>1, <2>2 DEF CheckDigest, Look
<1>5. CASE RemoveRefused(p)
  <2>1. Calm => maker # p
    BY <1>5, InCalm, PreparedAssumption DEF RemoveRefused, Removable, MakerInv, CalmFor, CalmSite
  <2> QED
    BY <1>5, <2>1, RefusedKeeps DEF RemoveRefused, Look
<1>6. CASE VerifyGone(p)
  <2>1. Calm => maker # p
    BY <1>6, InCalm DEF VerifyGone, CalmFor, Holds, Made
  <2> QED
    BY <1>6, <2>1, RefusedKeeps DEF VerifyGone
<1> QED
  BY <1>2, <1>3, <1>4, <1>5, <1>6

(* A failure of Git, and the end of a process: the run is not calm any more. *)
LEMMA FaultIs ==
  ASSUME StateInv, Fault, UNCHANGED intrusions
  PROVE  /\ ~Calm' /\ intrusions' \in 0 .. MaxIntrusions /\ faults' \in 0 .. MaxFaults
BY PreparedAssumption DEF StateInv, TypeOK, Fault, Calm

LEMMA UnreadableKeeps ==
  ASSUME StateInv, NEW p \in Preparer, Unreadable(p) \/ Crash(p)
  PROVE  StateInv'
<1>1. /\ UNCHANGED site /\ since' = since /\ since \in [Preparer -> SUBSET Kind]
      /\ ~Calm' /\ intrusions' \in 0 .. MaxIntrusions /\ faults' \in 0 .. MaxFaults
  BY FaultIs DEF Unreadable, Crash, StateInv, TypeOK
<1>2. CASE End(p, None, Observed(dest, reg))
  <2> DEFINE a == Observed(dest, reg)
  <2>1. a \in {"kept", "bare", "none"} /\ (a = "bare" => maker # p)
    BY RegistrationIs, PreparedAssumption DEF Observed, StateInv, MakerInv
  <2>2. End(p, None, a)
    BY <1>2
  <2> HIDE DEF a
  <2> QED
    BY <1>1, <2>1, <2>2, GivesUp
<1>3. CASE End(p, handle[p], "refused")
  BY <1>1, <1>3, KeepsHandle
<1>4. CASE End(p, None, "none")
  BY <1>1, <1>4, GivesUp
<1> QED
  BY <1>2, <1>3, <1>4 DEF Unreadable, Crash


-----------------------------------------------------------------------------
(* Steps that change the site. *)

LEMMA LateIs ==
  ASSUME TypeOK, NEW k \in Kind, since' = Late(k)
  PROVE  /\ since' \in [Preparer -> SUBSET Kind]
         /\ \A q \in Preparer :
              /\ since[q] \subseteq since'[q]
              /\ pc[q] = "remove" \/ (pc[q] = "unchanged" /\ k = "files") => k \in since'[q]
              /\ pc[q] = "digest" /\ k = "admin" => "baseline" \in since'[q]
BY DEF TypeOK, Late, Kind

(* Users and other commands touch no call. *)
LEMMA Intruded ==
  ASSUME StateInv, Intrusion, reg' \in Registration \union {None},
         dest' \in {"absent", "linked", "work", "other"}, maker' \in {maker, None},
         reg' = None <=> maker' = None,
         since' \in [Preparer -> SUBSET Kind], \A q \in Preparer : since[q] \subseteq since'[q],
         \A q \in Preparer :
           /\ dest' = "work" => dest = "work" \/ (pc[q] \in {"unchanged", "remove"} => "files" \in since'[q])
           /\ Dirty(reg') => Dirty(reg) \/ /\ pc[q] = "digest" => "baseline" \in since'[q]
                                           /\ pc[q] = "remove" => "admin" \in since'[q]
           /\ Marks(reg', q) => Marks(reg, q)
           /\ pc[q] = "remove" /\ Marks(reg, q) => Marks(reg', q) \/ "registration" \in since'[q]
  PROVE  StateInv'
<1>1. /\ TypeOK /\ MakerInv
      /\ pc' = pc /\ handle' = handle /\ answer' = answer /\ faults' = faults
      /\ intrusions' \in 0 .. MaxIntrusions /\ ~Calm'
  BY PreparedAssumption DEF StateInv, Intrusion, calls, TypeOK, Calm
<1>2. TypeOK'
  BY <1>1 DEF TypeOK
<1>3. MakerInv'
  BY <1>1, PreparedAssumption DEF MakerInv
<1>4. ASSUME NEW q \in Preparer
      PROVE  SinceInv(q)'
  <2>1. SinceInv(q) /\ since[q] \subseteq since'[q]
    BY DEF StateInv
  <2> QED
    BY <1>1, <2>1 DEF SinceInv, Dirty, Marks
<1> QED
  BY <1>1, <1>2, <1>3, <1>4 DEF StateInv

LEMMA IntrusionsKeep ==
  ASSUME StateInv,
         AddFiles \/ Stage \/ MoveHead \/ Deregister \/ DeleteDestination \/ Occupy
  PROVE  StateInv'
<1>1. /\ TypeOK /\ MakerInv /\ reg \in Registration \union {None} /\ maker \in {maker, None}
      /\ dest \in {"absent", "linked", "work", "other"} /\ (reg = None <=> maker = None)
      /\ since \in [Preparer -> SUBSET Kind]
      /\ "files" \in Kind /\ "admin" \in Kind /\ "registration" \in Kind
  BY DEF StateInv, TypeOK, MakerInv, Kind
<1>2. CASE AddFiles
  <2>1. /\ since' = Late("files") /\ Intrusion /\ reg' = reg /\ maker' = maker /\ dest' = "work"
    BY <1>2 DEF AddFiles
  <2>2. /\ since' \in [Preparer -> SUBSET Kind]
        /\ \A q \in Preparer : /\ since[q] \subseteq since'[q]
                               /\ pc[q] \in {"unchanged", "remove"} => "files" \in since'[q]
    BY <1>1, <2>1, LateIs
  <2> QED
    BY <1>1, <2>1, <2>2, Intruded
<1>3. CASE Stage \/ MoveHead
  <2>1. /\ since' = Late("admin") /\ Intrusion /\ maker' = maker /\ dest' = dest /\ reg # None
        /\ \/ reg' = [reg EXCEPT !.staged = TRUE]
           \/ reg' = [reg EXCEPT !.moved = TRUE]
    BY <1>3 DEF Stage, MoveHead, Linked
  <2>2. reg' \in Registration /\ reg' # None /\ reg'.marker = reg.marker
    BY <1>1, <2>1, RegistrationIs DEF Registration
  <2>3. /\ since' \in [Preparer -> SUBSET Kind]
        /\ \A q \in Preparer : /\ since[q] \subseteq since'[q]
                               /\ pc[q] = "digest" => "baseline" \in since'[q]
                               /\ pc[q] = "remove" => "admin" \in since'[q]
    BY <1>1, <2>1, LateIs
  <2>4. \A q \in Preparer : Marks(reg', q) <=> Marks(reg, q)
    BY <2>1, <2>2 DEF Marks
  <2> QED
    BY <1>1, <2>1, <2>2, <2>3, <2>4, Intruded
<1>4. CASE Deregister
  <2>1. /\ since' = Late("registration") /\ Intrusion /\ reg' = None /\ maker' = None
        /\ dest' \in {"absent", "linked", "work", "other"} /\ (dest' = "work" => dest = "work")
    BY <1>1, <1>4 DEF Deregister
  <2>2. /\ since' \in [Preparer -> SUBSET Kind]
        /\ \A q \in Preparer : /\ since[q] \subseteq since'[q]
                               /\ pc[q] = "remove" => "registration" \in since'[q]
    BY <1>1, <2>1, LateIs
  <2>3. ~Dirty(reg') /\ \A q \in Preparer : ~Marks(reg', q)
    BY <2>1 DEF Dirty, Marks
  <2> QED
    BY <1>1, <2>1, <2>2, <2>3, Intruded
<1>5. CASE DeleteDestination \/ Occupy
  <2>1. /\ since' = since /\ Intrusion /\ reg' = reg /\ maker' = maker /\ dest' \in {"absent", "other"}
    BY <1>5 DEF DeleteDestination, Occupy
  <2> QED
    BY <1>1, <2>1, Intruded
<1> QED
  BY <1>2, <1>3, <1>4, <1>5

(* A preparer leaves its mark, or a part of it. *)
LEMMA MarksKeep ==
  ASSUME StateInv, NEW p \in Preparer, WriteMarker(p) \/ MarkerTorn(p)
  PROVE  StateInv'
<1>1. /\ TypeOK /\ MakerInv /\ pc[p] = "mark" /\ since' = since
      /\ since \in [Preparer -> SUBSET Kind]
  BY DEF StateInv, WriteMarker, MarkerTorn, TypeOK, Fail
<1>2. CASE Fail(p) /\ ~(reg # None /\ reg.marker = None)
  <2>1. Calm => maker # p
    BY <1>1, <1>2, InCalm, PreparedAssumption DEF CalmFor, MakerInv, Unmarked
  <2> QED
    BY <1>2, <2>1, FailKeeps
<1>3. ASSUME NEW m \in {p, Torn}, reg # None, reg.marker = None, reg' = [reg EXCEPT !.marker = m],
             UNCHANGED <<dest, maker>>
      PROVE  /\ reg' \in Registration /\ reg' # None /\ reg'.marker = m
             /\ reg'.whole = reg.whole /\ reg'.moved = reg.moved /\ reg'.staged = reg.staged
             /\ Dirty(reg') <=> Dirty(reg)
             /\ \A q \in Preparer : ~Marks(reg, q) /\ (Marks(reg', q) <=> q = m)
             /\ handle[p] = None /\ answer[p] = "none"
  <2>1. /\ reg' \in Registration /\ reg'.marker = m
        /\ reg'.whole = reg.whole /\ reg'.moved = reg.moved /\ reg'.staged = reg.staged
    BY <1>1, <1>3, RegistrationIs DEF TypeOK, Registration
  <2>2. handle[p] = None /\ answer[p] = "none"
    BY <1>1 DEF TypeOK, MakerInv, Preparing
  <2> QED
    BY <1>3, <2>1, <2>2, RegistrationIs DEF Dirty, Marks
<1>4. CASE WriteMarker(p) /\ ~Fail(p)
  <2>1. /\ reg # None /\ reg.marker = None /\ reg' = [reg EXCEPT !.marker = p]
        /\ Go(p, "proof") /\ "proof" \in Phase /\ dest' = dest /\ maker' = maker
        /\ intrusions' = intrusions /\ faults' = faults
    BY <1>4 DEF WriteMarker, Phase, Preparing, bounds
  <2>2. /\ reg' \in Registration /\ reg' # None /\ reg'.marker = p
        /\ reg'.whole = reg.whole /\ reg'.moved = reg.moved /\ reg'.staged = reg.staged
        /\ Dirty(reg') <=> Dirty(reg)
        /\ \A q \in Preparer : ~Marks(reg, q) /\ (Marks(reg', q) <=> q = p)
        /\ handle[p] = None /\ answer[p] = "none"
    BY <1>3, <2>1
  <2>3. /\ pc' \in [Preparer -> Phase] /\ handle' = handle /\ answer' = answer
        /\ pc'[p] = "proof" /\ \A q \in Preparer : q # p => pc'[q] = pc[q]
        /\ \A q \in Preparer : handle'[q] # None => pc'[q] \notin Preparing
    BY <1>1, <2>1, GoFacts DEF Preparing
  <2>4. TypeOK'
    BY <1>1, <2>1, <2>2, <2>3 DEF TypeOK
  <2>5. MakerInv'
    BY <1>1, <2>1, <2>2, <2>3 DEF MakerInv, Preparing, Cleaning
  <2>6. \A q \in Preparer : SinceInv(q)'
    BY <1>1, <2>1, <2>2, <2>3 DEF StateInv, SinceInv, Cleaning, Dirty
  <2>7. ASSUME Calm'
        PROVE  CalmInv'
    <3>1. CalmInv /\ CalmSite'
      BY <2>1, <2>2, <2>7 DEF StateInv, CalmInv, CalmSite, Calm
    <3>2. CalmFor(p) /\ maker = p
      BY <1>1, <3>1 DEF CalmInv, CalmFor, Holds, Made
    <3>3. ASSUME NEW q \in Preparer
          PROVE  CalmFor(q)'
      <4>1. CalmFor(q) /\ (maker = q <=> q = p)
        BY <3>1, <3>2 DEF CalmInv
      <4> QED
        BY <1>1, <2>1, <2>2, <2>3, <3>2, <4>1 DEF CalmFor, Holds, Made, Unmarked, Cleaning
    <3> QED
      BY <3>1, <3>3 DEF CalmInv
  <2> QED
    BY <2>4, <2>5, <2>6, <2>7 DEF StateInv
<1>5. CASE MarkerTorn(p)
  <2>1. /\ reg # None /\ reg.marker = None /\ reg' = [reg EXCEPT !.marker = Torn]
        /\ dest' = dest /\ maker' = maker /\ Fault /\ UNCHANGED intrusions
    BY <1>5 DEF MarkerTorn
  <2>2. PICK a \in {"kept", "none"} : End(p, None, a) /\ a \in Answer
    BY <1>5, <2>1 DEF MarkerTorn, Observed, Answer
  <2>3. /\ reg' \in Registration /\ reg' # None /\ (Dirty(reg') <=> Dirty(reg))
        /\ \A q \in Preparer : ~Marks(reg, q) /\ ~Marks(reg', q)
    BY <1>3, <2>1, RegistrationIs
  <2>4. /\ pc' \in [Preparer -> Phase] /\ handle' \in [Preparer -> Registration \union {None}]
        /\ answer' \in [Preparer -> Answer]
        /\ pc'[p] = "ready" /\ handle'[p] = None /\ answer'[p] = a
        /\ \A q \in Preparer : q # p => pc'[q] = pc[q] /\ handle'[q] = handle[q] /\ answer'[q] = answer[q]
        /\ \A q \in Preparer : handle'[q] # None => pc'[q] \notin Preparing
    BY <1>1, <2>2, EndFacts
  <2>5. ~Calm' /\ intrusions' \in 0 .. MaxIntrusions /\ faults' \in 0 .. MaxFaults
    BY <2>1, FaultIs
  <2>6. TypeOK'
    BY <1>1, <2>1, <2>3, <2>4, <2>5 DEF TypeOK
  <2>7. MakerInv'
    BY <1>1, <2>1, <2>2, <2>3, <2>4 DEF MakerInv, Preparing, Cleaning
  <2>8. ASSUME NEW q \in Preparer
        PROVE  SinceInv(q)'
    <3>1. SinceInv(q)
      BY DEF StateInv
    <3>2. CASE q # p
      BY <1>1, <2>1, <2>3, <2>4, <3>1, <3>2 DEF SinceInv, Cleaning
    <3>3. CASE q = p
      BY <2>3, <2>4, <3>3 DEF SinceInv, Cleaning, Dirty
    <3> QED
      BY <3>2, <3>3
  <2> QED
    BY <2>5, <2>6, <2>7, <2>8 DEF StateInv
<1>6. CASE WriteMarker(p) /\ Fail(p)
  <2>1. \/ ~(reg # None /\ reg.marker = None)
        \/ reg # None /\ reg.marker = None /\ Go(p, "proof")
    BY <1>6 DEF WriteMarker
  <2>2. ~Go(p, "proof")
    BY <1>1, <1>6 DEF Fail, Go, End, TypeOK
  <2> QED
    BY <1>2, <1>6, <2>1, <2>2
<1> QED
  BY <1>4, <1>5, <1>6


(* The add is given up on: what it made is its preparer's, and told.         *)
LEMMA AddGivenUpKeeps ==
  ASSUME StateInv, NEW p \in Preparer, AddGivenUp(p)
  PROVE  StateInv'
<1>1. /\ TypeOK /\ MakerInv /\ pc[p] = "add" /\ reg = None /\ dest = "absent"
      /\ dest' \in {"absent", "linked"} /\ maker' = p /\ since' = since
      /\ since \in [Preparer -> SUBSET Kind]
      /\ ~Calm' /\ intrusions' \in 0 .. MaxIntrusions /\ faults' \in 0 .. MaxFaults
  BY FaultIs DEF StateInv, AddGivenUp, TypeOK
<1>2. /\ reg' \in Registration /\ reg' # None /\ ~Dirty(reg')
      /\ \A q \in Preparer : ~Marks(reg', q) /\ ~Marks(reg, q)
  BY <1>1, RegistrationIs DEF AddGivenUp, Dirty, Marks
<1>3. PICK a \in {"kept", "none"} : End(p, None, a) /\ a \in Answer
  BY <1>2 DEF AddGivenUp, Observed, Answer
<1>4. /\ pc' \in [Preparer -> Phase] /\ handle' \in [Preparer -> Registration \union {None}]
      /\ answer' \in [Preparer -> Answer]
      /\ pc'[p] = "ready" /\ handle'[p] = None /\ answer'[p] = a
      /\ \A q \in Preparer : q # p => pc'[q] = pc[q] /\ handle'[q] = handle[q] /\ answer'[q] = answer[q]
      /\ \A q \in Preparer : handle'[q] # None => pc'[q] \notin Preparing
  BY <1>1, <1>3, EndFacts
<1>5. TypeOK'
  BY <1>1, <1>2, <1>4 DEF TypeOK
<1>6. MakerInv'
  BY <1>1, <1>2, <1>4, PreparedAssumption DEF MakerInv, Preparing, Cleaning
<1>7. ASSUME NEW q \in Preparer
      PROVE  SinceInv(q)'
  <2>1. SinceInv(q)
    BY DEF StateInv
  <2>2. CASE q # p
    BY <1>1, <1>2, <1>4, <2>1, <2>2 DEF SinceInv, Cleaning
  <2>3. CASE q = p
    BY <1>2, <1>4, <2>3 DEF SinceInv, Cleaning, Dirty
  <2> QED
    BY <2>2, <2>3
<1> QED
  BY <1>1, <1>5, <1>6, <1>7 DEF StateInv

(* A preparation succeeds: what is in the handle is what is there.           *)
LEMMA TakeDigestKeeps ==
  ASSUME StateInv, NEW p \in Preparer, TakeDigest(p)
  PROVE  StateInv'
<1>1. /\ TypeOK /\ MakerInv /\ pc[p] = "digest" /\ reg \in Registration \union {None}
      /\ since \in [Preparer -> SUBSET Kind]
  BY DEF StateInv, TypeOK, TakeDigest
<1>2. CASE reg = None
  <2>1. Fail(p)
    BY <1>2 DEF TakeDigest
  <2>2. Calm => maker # p
    BY <1>1, <1>2, PreparedAssumption DEF MakerInv
  <2> QED
    BY <2>1, <2>2, FailKeeps
<1>3. CASE reg # None
  <2>1. /\ End(p, reg, "handle") /\ "handle" \in Answer
        /\ reg' = reg /\ dest' = dest /\ maker' = maker /\ since' = since
        /\ intrusions' = intrusions /\ faults' = faults
    BY <1>3 DEF TakeDigest, Recorded, Digest, site, bounds, Answer
  <2>2. /\ pc' \in [Preparer -> Phase] /\ handle' \in [Preparer -> Registration \union {None}]
        /\ answer' \in [Preparer -> Answer]
        /\ pc'[p] = "ready" /\ handle'[p] = reg /\ answer'[p] = "handle"
        /\ \A q \in Preparer : q # p => pc'[q] = pc[q] /\ handle'[q] = handle[q] /\ answer'[q] = answer[q]
        /\ \A q \in Preparer : handle'[q] # None => pc'[q] \notin Preparing
    BY <1>1, <2>1, EndFacts
  <2>3. TypeOK'
    BY <1>1, <2>1, <2>2 DEF TypeOK
  <2>4. MakerInv'
    BY <1>1, <2>1, <2>2 DEF MakerInv, Preparing, Cleaning
  <2>5. ASSUME NEW q \in Preparer
        PROVE  SinceInv(q)'
    <3>1. SinceInv(q)
      BY DEF StateInv
    <3>2. CASE q # p
      BY <2>1, <2>2, <3>1, <3>2 DEF SinceInv, Cleaning
    <3>3. CASE q = p
      BY <1>1, <2>1, <2>2, <3>1, <3>3 DEF SinceInv, Cleaning
    <3> QED
      BY <3>2, <3>3
  <2>6. ASSUME Calm'
        PROVE  CalmInv'
    <3>1. CalmInv /\ CalmSite'
      BY <2>1, <2>6 DEF StateInv, CalmInv, CalmSite, Calm
    <3>2. ASSUME NEW q \in Preparer
          PROVE  CalmFor(q)'
      <4>1. CalmFor(q)
        BY <3>1 DEF CalmInv
      <4>2. CASE q # p
        BY <2>1, <2>2, <4>1, <4>2 DEF CalmFor, Holds
      <4>3. CASE q = p
        BY <1>1, <2>1, <2>2, <4>1, <4>3 DEF CalmFor, Holds, Made, Unmarked, Cleaning
      <4> QED
        BY <4>2, <4>3
    <3> QED
      BY <3>1, <3>2 DEF CalmInv
  <2> QED
    BY <2>3, <2>4, <2>5, <2>6 DEF StateInv
<1> QED
  BY <1>2, <1>3

(* The worktree is removed by a clean-up. *)
LEMMA RemoveKeeps ==
  ASSUME StateInv, NEW p \in Preparer, RemoveWorktree(p)
  PROVE  StateInv'
<1>1. /\ TypeOK /\ MakerInv /\ pc[p] = "remove" /\ "gone" \in Phase /\ "registration" \in Kind
      /\ reg' = None /\ dest' = "absent" /\ maker' = None /\ since' = Late("registration")
      /\ Go(p, "gone") /\ intrusions' = intrusions /\ faults' = faults
  BY DEF StateInv, RemoveWorktree, Phase, Kind, bounds
<1>2. /\ pc' \in [Preparer -> Phase] /\ handle' = handle /\ answer' = answer
      /\ pc'[p] = "gone" /\ \A q \in Preparer : q # p => pc'[q] = pc[q]
      /\ \A q \in Preparer : handle'[q] # None => pc'[q] \notin Preparing
  BY <1>1, GoFacts DEF Preparing
<1>3. /\ since' \in [Preparer -> SUBSET Kind]
      /\ \A q \in Preparer : /\ since[q] \subseteq since'[q]
                             /\ pc[q] = "remove" => "registration" \in since'[q]
  BY <1>1, LateIs
<1>4. TypeOK'
  BY <1>1, <1>2, <1>3 DEF TypeOK
<1>5. MakerInv'
  BY <1>1, <1>2, PreparedAssumption DEF MakerInv, Preparing, Cleaning
<1>6. ASSUME NEW q \in Preparer
      PROVE  SinceInv(q)'
  <2>1. SinceInv(q) /\ since[q] \subseteq since'[q]
    BY <1>3 DEF StateInv
  <2>2. CASE q # p
    BY <1>1, <1>2, <1>3, <2>1, <2>2 DEF SinceInv, Cleaning, Dirty, Marks
  <2>3. CASE q = p
    BY <1>1, <1>2, <2>1, <2>3 DEF SinceInv, Cleaning, Dirty, Marks
  <2> QED
    BY <2>2, <2>3
<1>7. ASSUME Calm'
      PROVE  CalmInv'
  <2>1. CalmInv /\ CalmSite'
    BY <1>1, <1>7 DEF StateInv, CalmInv, CalmSite, Calm
  <2>2. maker = p
    BY <1>1, <2>1 DEF CalmInv, CalmFor, Holds, Cleaning
  <2>3. ASSUME NEW q \in Preparer
        PROVE  CalmFor(q)'
    <3>1. CalmFor(q)
      BY <2>1 DEF CalmInv
    <3>2. CASE q # p
      BY <1>1, <1>2, <2>2, <3>1, <3>2, PreparedAssumption DEF CalmFor, Holds
    <3>3. CASE q = p
      BY <1>1, <1>2, <3>3, PreparedAssumption DEF CalmFor, Holds, Made, Cleaning
    <3> QED
      BY <3>2, <3>3
  <2> QED
    BY <2>1, <2>3 DEF CalmInv
<1> QED
  BY <1>4, <1>5, <1>6, <1>7 DEF StateInv

LEMMA RemoveGivenUpKeeps ==
  ASSUME StateInv, NEW p \in Preparer, RemoveGivenUp(p)
  PROVE  StateInv'
<1>1. /\ TypeOK /\ MakerInv /\ pc[p] = "remove" /\ "registration" \in Kind /\ "refused" \in Answer
      /\ End(p, handle[p], "refused") /\ handle[p] \in Registration \union {None}
      /\ ~Calm' /\ intrusions' \in 0 .. MaxIntrusions /\ faults' \in 0 .. MaxFaults
  BY FaultIs DEF StateInv, RemoveGivenUp, Kind, Answer, TypeOK
<1>2. /\ pc' \in [Preparer -> Phase] /\ handle' \in [Preparer -> Registration \union {None}]
      /\ answer' \in [Preparer -> Answer]
      /\ pc'[p] = "ready" /\ handle'[p] = handle[p] /\ answer'[p] = "refused"
      /\ \A q \in Preparer : q # p => pc'[q] = pc[q] /\ handle'[q] = handle[q] /\ answer'[q] = answer[q]
      /\ \A q \in Preparer : handle'[q] # None => pc'[q] \notin Preparing
  BY <1>1, EndFacts
<1>3. \/ reg' = reg /\ maker' = maker /\ since' = since /\ dest' \in {dest, "absent"}
      \/ reg' = None /\ maker' = None /\ since' = Late("registration") /\ dest' = "absent"
  BY DEF RemoveGivenUp, site
<1>4. /\ since' \in [Preparer -> SUBSET Kind]
      /\ \A q \in Preparer : /\ since[q] \subseteq since'[q]
                             /\ reg' = None /\ pc[q] = "remove" => reg = None \/ "registration" \in since'[q]
  <2>1. CASE since' = since
    BY <1>1, <1>3, <2>1, LateIs DEF TypeOK
  <2>2. CASE since' = Late("registration")
    BY <1>1, <2>2, LateIs
  <2> QED
    BY <1>3, <2>1, <2>2
<1>5. TypeOK'
  BY <1>1, <1>2, <1>3, <1>4 DEF TypeOK
<1>6. MakerInv'
  BY <1>1, <1>2, <1>3, PreparedAssumption DEF MakerInv, Preparing, Cleaning
<1>7. ASSUME NEW q \in Preparer
      PROVE  SinceInv(q)'
  <2>1. SinceInv(q) /\ since[q] \subseteq since'[q]
    BY <1>4 DEF StateInv
  <2>2. CASE q # p
    BY <1>2, <1>3, <1>4, <2>1, <2>2 DEF SinceInv, Cleaning, Dirty, Marks
  <2>3. CASE q = p
    BY <1>1, <1>2, <1>3, <2>1, <2>3 DEF SinceInv, Cleaning, Dirty, Marks
  <2> QED
    BY <2>2, <2>3
<1> QED
  BY <1>1, <1>5, <1>6, <1>7 DEF StateInv


-----------------------------------------------------------------------------
(* The theorems *)

LEMMA PreparedInit == Init => StateInv
<1> SUFFICES ASSUME Init
             PROVE  StateInv
  OBVIOUS
<1>1. TypeOK
  BY PreparedAssumption DEF Init, TypeOK, Phase, Preparing, Answer
<1>2. MakerInv /\ \A p \in Preparer : SinceInv(p)
  BY DEF Init, MakerInv, SinceInv, Preparing, Cleaning, Dirty, Marks
<1>3. CalmInv
  BY PreparedAssumption DEF Init, CalmInv, CalmSite, CalmFor, Holds, Made, Cleaning
<1> QED
  BY <1>1, <1>2, <1>3 DEF StateInv

LEMMA PreparedStep == StateInv /\ [Next]_vars => StateInv'
<1> SUFFICES ASSUME StateInv, [Next]_vars
             PROVE  StateInv'
  OBVIOUS
<1>1. ASSUME NEW p \in Preparer, Prepare(p)
      PROVE  StateInv'
  BY <1>1, PrepareStartKeeps, AddKeeps, AddGivenUpKeeps, VerifiesKeep, MarksKeep, TakeDigestKeeps
  DEF Prepare
<1>2. ASSUME NEW p \in Preparer, Cleanup(p)
      PROVE  StateInv'
  BY <1>2, ChecksKeep, RemoveKeeps, RemoveGivenUpKeeps DEF Cleanup
<1>3. CASE UNCHANGED vars
  BY <1>3 DEF vars, site, calls, bounds, StateInv, TypeOK, MakerInv, SinceInv,
              Calm, CalmInv, CalmSite, CalmFor, Holds
<1> QED
  BY <1>1, <1>2, <1>3, UnreadableKeeps, IntrusionsKeep DEF Next

(* Every reachable state keeps the books of preparation and clean-up.        *)
THEOREM PreparedConsistent == Spec => []StateInv
BY PreparedInit, PreparedStep, PTL DEF Spec

(* A preparation that failed and does not name the destination left nothing  *)
(* of its own there, for any number of preparers, intrusions and faults.     *)
THEOREM PreparedAccounted == Spec => []PreparedInv
<1>1. StateInv => PreparedInv
  BY DEF StateInv, MakerInv, PreparedInv, Accounted
<1> QED
  BY <1>1, PreparedConsistent, PTL

(* While only preparers and clean-ups work at the destination and none is    *)
(* killed, a handle stays good until it is used.                             *)
THEOREM HandleStaysGood == Spec => []HandleGood
<1>1. ASSUME StateInv
      PROVE  HandleGood
  <2> SUFFICES ASSUME NEW p \in Preparer, Calm, answer[p] = "handle", pc[p] # "gone"
               PROVE  reg # None /\ dest = "linked" /\ reg.marker = p /\ Digest(reg) = handle[p]
    BY DEF HandleGood, Calm
  <2>1. CalmSite /\ CalmFor(p) /\ MakerInv /\ TypeOK
    BY <1>1, InCalm
  <2>2. maker = p /\ handle[p] = reg /\ reg # None
    BY <2>1, PreparedAssumption DEF CalmFor, Holds, MakerInv
  <2>3. pc[p] \notin Unmarked
    BY <2>1 DEF MakerInv, Unmarked, Preparing
  <2> QED
    BY <2>1, <2>2, <2>3 DEF CalmFor, CalmSite, Digest
<1> QED
  BY <1>1, PreparedConsistent, PTL

(* Clean-up removes nothing but what its handle records, except for what     *)
(* came in after its last look at it: files, changes of the worktree's       *)
(* administrative state, or another's registration.                          *)
THEOREM CleanupLosesNothing == Spec => NothingLost
<1>1. ASSUME StateInv, [Next]_vars, NEW p \in Preparer,
             pc[p] = "remove", pc'[p] # "remove", <<reg, dest>>' # <<reg, dest>>
      PROVE  Harm(p) \subseteq Unnoticed(p)
  <2>1. SinceInv(p) /\ TypeOK
    BY <1>1 DEF StateInv
  <2>2. RemoveWorktree(p) \/ RemoveGivenUp(p)
    <3>1. ASSUME NEW q \in Preparer, q # p, Prepare(q) \/ Cleanup(q) \/ Unreadable(q) \/ Crash(q)
          PROVE  pc'[p] = pc[p]
      BY <2>1, <3>1 DEF TypeOK, Prepare, Cleanup, Unreadable, Crash, PrepareStart, Add, AddRefused, AddGivenUp,
         VerifyRecord, VerifyBaseline, WriteMarker, MarkerTorn, VerifyMarked, TakeDigest, CheckOwnership,
         CheckContents, CheckDigest, RemoveWorktree, RemoveRefused, RemoveGivenUp, VerifyGone,
         Look, Go, End, Fail
    <3>2. ~Prepare(p)
      BY <1>1 DEF Prepare, PrepareStart, Add, AddRefused, AddGivenUp, VerifyRecord, VerifyBaseline,
         WriteMarker, MarkerTorn, VerifyMarked, TakeDigest
    <3>3. ~Unreadable(p) /\ ~Crash(p)
      BY <1>1 DEF Unreadable, Crash, site
    <3>4. Cleanup(p) => RemoveWorktree(p) \/ RemoveGivenUp(p)
      BY <1>1 DEF Cleanup, CheckOwnership, CheckContents, CheckDigest, RemoveRefused, VerifyGone, Look, site
    <3>5. ~(AddFiles \/ Stage \/ MoveHead \/ Deregister \/ DeleteDestination \/ Occupy \/ UNCHANGED vars)
      BY <1>1 DEF AddFiles, Stage, MoveHead, Deregister, DeleteDestination, Occupy, Intrusion, calls, vars, site
    <3> QED
      BY <1>1, <3>1, <3>2, <3>3, <3>4, <3>5 DEF Next
  <2>3. reg # None
    BY <2>2 DEF RemoveWorktree, RemoveGivenUp, Removable
  <2> QED
    BY <1>1, <2>1, <2>3 DEF SinceInv, Harm, Unnoticed, Marks, Dirty
<1>2. StateInv /\ [Next]_vars =>
        [\A p \in Preparer :
           pc[p] = "remove" /\ pc'[p] # "remove" /\ <<reg, dest>>' # <<reg, dest>> =>
             Harm(p) \subseteq Unnoticed(p)]_vars
  BY <1>1
<1> QED
  BY <1>2, PreparedConsistent, PTL DEF Spec, NothingLost

-----------------------------------------------------------------------------
(* The selection of a context.  A function on the leaves of any tree is      *)
(* defined by recursion over their positions; that there is such a function, *)
(* and what it counts, follows by induction, which is derived from the       *)
(* well-foundedness of "less than".                                          *)

(* The least of a non-empty set of naturals.                                 *)
LEMMA Smallest ==
  ASSUME NEW S \in SUBSET Nat, S # {}
  PROVE  Min(S) \in S /\ \A m \in S : Min(S) =< m
<1> DEFINE R == OpToRel(<, Nat)
<1> HIDE DEF R
<1>1. PICK n \in S : \A m \in S : ~ (<<m, n>> \in R)
  <2>1. IsWellFoundedOn(R, Nat)
    BY NatLessThanWellFounded DEF R
  <2> QED BY <2>1, WFMin
<1>2. ASSUME NEW m \in S PROVE n =< m
  <2>1. m \in Nat /\ n \in Nat
    OBVIOUS
  <2>2. ~ (m < n)
    BY <1>1, <2>1 DEF R, OpToRel
  <2> QED BY <2>1, <2>2
<1> QED BY <1>1, <1>2 DEF Min

(* What holds of 0, and of each position if of the one before, holds of all  *)
(* of them.                                                                  *)
LEMMA Induction ==
  ASSUME NEW N \in Nat, NEW S, 0 \in S, \A n \in 1 .. N : n - 1 \in S => n \in S
  PROVE  0 .. N \subseteq S
<1> DEFINE T == {n \in 0 .. N : n \notin S}
<1> SUFFICES ASSUME T # {} PROVE FALSE
  OBVIOUS
<1>1. T \in SUBSET Nat
  OBVIOUS
<1>2. PICK n \in T : \A m \in T : n =< m
  BY <1>1, Smallest
<1>3. n \in 1 .. N /\ n - 1 \in 0 .. N /\ n - 1 \notin T
  BY <1>2
<1> QED BY <1>2, <1>3

(* A sum of steps that may depend on the sum before them.                    *)
Sums(f, N, step) ==
  f \in [0 .. N -> Nat] /\ f[0] = 0 /\ \A n \in 1 .. N : f[n] = f[n - 1] + step[<<f[n - 1], n>>]

(* Such a sum exists whatever its steps.                                     *)
LEMMA SumExists ==
  ASSUME NEW N \in Nat, NEW step, step \in [Nat \X (1 .. N) -> Nat]
  PROVE  \E f : Sums(f, N, step)
<1> DEFINE S == {m \in 0 .. N : \E f \in [0 .. m -> Nat] :
                   f[0] = 0 /\ \A n \in 1 .. m : f[n] = f[n - 1] + step[<<f[n - 1], n>>]}
<1>1. 0 \in S
  <2> DEFINE f == [i \in 0 .. 0 |-> 0]
  <2>1. f \in [0 .. 0 -> Nat] /\ f[0] = 0
    OBVIOUS
  <2> HIDE DEF f
  <2>2. \A n \in 1 .. 0 : f[n] = f[n - 1] + step[<<f[n - 1], n>>]
    OBVIOUS
  <2> QED BY <2>1, <2>2
<1>2. ASSUME NEW m \in 1 .. N, m - 1 \in S
      PROVE  m \in S
  <2> DEFINE k == m - 1
  <2>1. k \in Nat /\ m = k + 1 /\ m \in 0 .. N
    OBVIOUS
  <2>2. PICK f \in [0 .. k -> Nat] : f[0] = 0 /\ \A n \in 1 .. k : f[n] = f[n - 1] + step[<<f[n - 1], n>>]
    BY <1>2
  <2> HIDE DEF k
  <2> DEFINE new == f[k] + step[<<f[k], m>>]
  <2>3. new \in Nat
    <3>1. f[k] \in Nat
      BY <2>1
    <3>2. <<f[k], m>> \in Nat \X (1 .. N)
      BY <3>1
    <3>3. step[<<f[k], m>>] \in Nat
      BY <3>2
    <3> QED BY <3>1, <3>3
  <2> HIDE DEF new
  <2> DEFINE g == [i \in 0 .. m |-> IF i = m THEN new ELSE f[i]]
  <2>4. g \in [0 .. m -> Nat]
    <3> SUFFICES ASSUME NEW i \in 0 .. m PROVE g[i] \in Nat
      OBVIOUS
    <3>1. i = m \/ i \in 0 .. k
      BY <2>1
    <3> QED BY <2>3, <3>1
  <2>5. g[m] = new /\ \A i \in 0 .. k : g[i] = f[i]
    BY <2>1
  <2> HIDE DEF g
  <2>6. g[0] = 0
    BY <2>1, <2>2, <2>5
  <2>7. ASSUME NEW n \in 1 .. m PROVE g[n] = g[n - 1] + step[<<g[n - 1], n>>]
    <3>1. CASE n = m
      <4>1. n - 1 = k /\ k \in 0 .. k
        BY <2>1, <3>1
      <4>2. g[k] = f[k]
        BY <2>5, <4>1
      <4> QED BY <2>5, <3>1, <4>1, <4>2 DEF new
    <3>2. CASE n # m
      <4>1. n \in 1 .. k /\ n \in 0 .. k /\ n - 1 \in 0 .. k
        BY <2>1, <3>2
      <4> QED BY <2>2, <2>5, <4>1
    <3> QED BY <3>1, <3>2
  <2> QED BY <2>1, <2>4, <2>6, <2>7
<1>3. N \in S
  <2> HIDE DEF S
  <2>1. \A n \in 1 .. N : n - 1 \in S => n \in S
    BY <1>2
  <2>2. 0 .. N \subseteq S
    BY <1>1, <2>1, Induction
  <2> QED BY <2>2
<1> QED BY <1>3 DEF Sums

(* What a leaf, a policy and a request are.                                  *)
LeafTyped(leaf) ==
  /\ leaf.path \in Seq(ToSet(leaf.path))
  /\ leaf.size \in Nat \union {NoSize}
  /\ leaf.content \in {"text", "nul", "binary"}
PolicyTyped(policy) ==
  /\ policy.maxBlobBytes \in Nat /\ policy.maxTotalBytes \in Nat /\ policy.maxEntries \in Nat
  /\ \A rule \in policy.exclusions : rule \in Seq(ToSet(rule))
TreeTyped(leaves) == leaves \in Seq(ToSet(leaves)) /\ \A i \in DOMAIN leaves : LeafTyped(leaves[i])

(* Positions and weights of a tree.                                          *)
LEMMA TreeFacts ==
  ASSUME NEW leaves, TreeTyped(leaves)
  PROVE  /\ Len(leaves) \in Nat /\ DOMAIN leaves = 1 .. Len(leaves)
         /\ \A i \in 1 .. Len(leaves) : Weight(leaves[i]) \in Nat
BY DEF TreeTyped, LeafTyped, Weight

(* The bytes selected among the first leaves: each position adds the weight  *)
(* of its leaf or nothing.                                                   *)
Taken(leaves, asked, policy, bytes, n) ==
  n \in asked /\ Decision(leaves[n], bytes, policy) = "selected"
BytesFrom(f, leaves, asked, policy) ==
  f = [n \in 0 .. Len(leaves) |->
         IF n = 0 THEN 0
         ELSE IF n \in asked /\ Decision(leaves[n], f[n - 1], policy) = "selected"
           THEN f[n - 1] + Weight(leaves[n])
         ELSE f[n - 1]]
Counts(f, leaves, asked, policy) ==
  /\ f \in [0 .. Len(leaves) -> Nat] /\ f[0] = 0
  /\ \A n \in 1 .. Len(leaves) :
       f[n] = f[n - 1] + (IF Taken(leaves, asked, policy, f[n - 1], n) THEN Weight(leaves[n]) ELSE 0)

(* The recursion of SelectedBytes has a solution.                            *)
LEMMA CountExists ==
  ASSUME NEW leaves, TreeTyped(leaves), NEW asked, NEW policy
  PROVE  \E f : BytesFrom(f, leaves, asked, policy)
<1> DEFINE N == Len(leaves)
           step == [p \in Nat \X (1 .. N) |->
                      IF Taken(leaves, asked, policy, p[1], p[2]) THEN Weight(leaves[p[2]]) ELSE 0]
<1>1. N \in Nat /\ \A i \in 1 .. N : Weight(leaves[i]) \in Nat
  BY TreeFacts
<1>2. step \in [Nat \X (1 .. N) -> Nat]
  BY <1>1
<1>3. \A v \in Nat, n \in 1 .. N :
        step[<<v, n>>] = IF Taken(leaves, asked, policy, v, n) THEN Weight(leaves[n]) ELSE 0
  OBVIOUS
<1> HIDE DEF step
<1>4. PICK f : Sums(f, N, step)
  BY <1>1, <1>2, SumExists
<1>5. f \in [0 .. N -> Nat] /\ f[0] = 0 /\ \A n \in 1 .. N : f[n] = f[n - 1] + step[<<f[n - 1], n>>]
  BY <1>4 DEF Sums
<1>6. ASSUME NEW n \in 0 .. N
      PROVE  f[n] = IF n = 0 THEN 0
                    ELSE IF n \in asked /\ Decision(leaves[n], f[n - 1], policy) = "selected"
                      THEN f[n - 1] + Weight(leaves[n])
                    ELSE f[n - 1]
  <2>1. CASE n = 0
    BY <1>5, <2>1
  <2>2. CASE n # 0
    <3>1. n \in 1 .. N /\ n - 1 \in 0 .. N
      BY <1>1, <2>2
    <3>2. f[n - 1] \in Nat /\ f[n] = f[n - 1] + step[<<f[n - 1], n>>]
      BY <1>5, <3>1
    <3>3. step[<<f[n - 1], n>>] = IF Taken(leaves, asked, policy, f[n - 1], n) THEN Weight(leaves[n]) ELSE 0
      BY <1>3, <3>1, <3>2
    <3>4. CASE Taken(leaves, asked, policy, f[n - 1], n)
      BY <2>2, <3>2, <3>3, <3>4 DEF Taken
    <3>5. CASE ~Taken(leaves, asked, policy, f[n - 1], n)
      BY <2>2, <3>2, <3>3, <3>5 DEF Taken
    <3> QED BY <3>4, <3>5
  <2> QED BY <2>1, <2>2
<1>7. f = [n \in 0 .. N |->
         IF n = 0 THEN 0
         ELSE IF n \in asked /\ Decision(leaves[n], f[n - 1], policy) = "selected"
           THEN f[n - 1] + Weight(leaves[n])
         ELSE f[n - 1]]
  BY <1>5, <1>6
<1> QED BY <1>7 DEF BytesFrom

(* A function with these values is such a sum.                               *)
LEMMA CountFrom ==
  ASSUME NEW leaves, TreeTyped(leaves), NEW asked, NEW policy, NEW f, BytesFrom(f, leaves, asked, policy)
  PROVE  Counts(f, leaves, asked, policy)
<1> DEFINE N == Len(leaves)
<1>1. N \in Nat /\ \A i \in 1 .. N : Weight(leaves[i]) \in Nat
  BY TreeFacts
<1>2. /\ DOMAIN f = 0 .. N
      /\ \A n \in 0 .. N : f[n] = IF n = 0 THEN 0
                    ELSE IF n \in asked /\ Decision(leaves[n], f[n - 1], policy) = "selected"
                      THEN f[n - 1] + Weight(leaves[n])
                    ELSE f[n - 1]
  BY DEF BytesFrom
<1>3. f[0] = 0
  BY <1>1, <1>2
<1> DEFINE S == {n \in 0 .. N : f[n] \in Nat}
<1>4. 0 \in S
  BY <1>1, <1>3
<1>5. ASSUME NEW n \in 1 .. N PROVE n \in 0 .. N /\ n # 0 /\ n - 1 \in 0 .. N
  BY <1>1
<1>6. ASSUME NEW n \in 1 .. N, n - 1 \in S PROVE n \in S
  BY <1>1, <1>2, <1>5, <1>6
<1>7. 0 .. N \subseteq S
  <2> HIDE DEF S
  <2> QED BY <1>1, <1>4, <1>6, Induction
<1>8. f \in [0 .. N -> Nat]
  <2>1. f = [n \in 0 .. N |-> f[n]]
    BY DEF BytesFrom
  <2> QED BY <1>7, <2>1
<1>9. ASSUME NEW n \in 1 .. N
      PROVE  f[n] = f[n - 1] + (IF Taken(leaves, asked, policy, f[n - 1], n) THEN Weight(leaves[n]) ELSE 0)
  <2>1. f[n - 1] \in Nat
    BY <1>5, <1>7
  <2>2. CASE Taken(leaves, asked, policy, f[n - 1], n)
    BY <1>2, <1>5, <2>2 DEF Taken
  <2>3. CASE ~Taken(leaves, asked, policy, f[n - 1], n)
    BY <1>2, <1>5, <2>1, <2>3 DEF Taken
  <2> QED BY <2>2, <2>3
<1> QED BY <1>3, <1>8, <1>9 DEF Counts

(* SelectedBytes counts what is taken, leaf by leaf.                         *)
LEMMA BytesCount ==
  ASSUME NEW leaves, TreeTyped(leaves), NEW asked, NEW policy
  PROVE  Counts(SelectedBytes(leaves, asked, policy), leaves, asked, policy)
<1>1. \A f : BytesFrom(f, leaves, asked, policy) <=>
       f = [n \in 0 .. Len(leaves) |->
              IF n = 0 THEN 0
              ELSE IF n \in asked /\ Decision(leaves[n], f[n - 1], policy) = "selected"
                THEN f[n - 1] + Weight(leaves[n])
              ELSE f[n - 1]]
  BY DEF BytesFrom
<1>2. BytesFrom(SelectedBytes(leaves, asked, policy), leaves, asked, policy)
  BY <1>1, CountExists DEF SelectedBytes
<1> QED BY <1>2, CountFrom

(* The bytes of a set of leaves as a sum of their weights.                   *)
Adds(f, leaves, set) ==
  /\ f \in [0 .. Len(leaves) -> Nat] /\ f[0] = 0
  /\ \A n \in 1 .. Len(leaves) : f[n] = f[n - 1] + (IF n \in set THEN Weight(leaves[n]) ELSE 0)
TotalFrom(f, leaves, set) ==
  f = [n \in 0 .. Len(leaves) |->
         IF n = 0 THEN 0 ELSE f[n - 1] + (IF n \in set THEN Weight(leaves[n]) ELSE 0)]

(* TotalBytes is the last value of any such sum.                             *)
LEMMA TotalIs ==
  ASSUME NEW leaves, TreeTyped(leaves), NEW set, NEW f, Adds(f, leaves, set)
  PROVE  TotalBytes(leaves, set) = f[Len(leaves)]
<1> DEFINE N == Len(leaves)
           weight == [n \in 1 .. N |-> IF n \in set THEN Weight(leaves[n]) ELSE 0]
<1>1. N \in Nat /\ \A i \in 1 .. N : Weight(leaves[i]) \in Nat
  BY TreeFacts
<1>2. \A n \in 1 .. N : weight[n] \in Nat /\ weight[n] = IF n \in set THEN Weight(leaves[n]) ELSE 0
  BY <1>1
<1> HIDE DEF weight
<1>3. f \in [0 .. N -> Nat] /\ f[0] = 0 /\ \A n \in 1 .. N : f[n] = f[n - 1] + weight[n]
  BY <1>2 DEF Adds
<1>4. ASSUME NEW n \in 1 .. N PROVE n \in 0 .. N /\ n # 0 /\ n - 1 \in 0 .. N
  BY <1>1
<1>5. TotalFrom(f, leaves, set)
  <2>1. f = [n \in 0 .. N |-> f[n]]
    BY <1>3
  <2>2. ASSUME NEW n \in 0 .. N
        PROVE  f[n] = IF n = 0 THEN 0 ELSE f[n - 1] + (IF n \in set THEN Weight(leaves[n]) ELSE 0)
    <3>1. CASE n = 0
      BY <1>3, <3>1
    <3>2. CASE n # 0
      <4>1. n \in 1 .. N
        BY <1>1, <3>2
      <4> QED BY <1>2, <1>3, <3>2, <4>1
    <3> QED BY <3>1, <3>2
  <2> QED BY <2>1, <2>2 DEF TotalFrom
<1>6. ASSUME NEW g, TotalFrom(g, leaves, set)
      PROVE  g[N] = f[N]
  <2>1. /\ g = [n \in 0 .. N |-> g[n]]
        /\ \A n \in 0 .. N : g[n] = IF n = 0 THEN 0 ELSE g[n - 1] + (IF n \in set THEN Weight(leaves[n]) ELSE 0)
    BY <1>6 DEF TotalFrom
  <2>2. g[0] = 0 /\ \A n \in 1 .. N : g[n] = g[n - 1] + weight[n]
    BY <1>1, <1>2, <1>4, <2>1
  <2> DEFINE Same == {n \in 0 .. N : g[n] = f[n]}
  <2>3. 0 \in Same
    BY <1>1, <1>3, <2>2
  <2>4. ASSUME NEW n \in 1 .. N, n - 1 \in Same PROVE n \in Same
    BY <1>3, <1>4, <2>2, <2>4
  <2>5. 0 .. N \subseteq Same
    <3> HIDE DEF Same
    <3> QED BY <1>1, <2>3, <2>4, Induction
  <2>6. N \in 0 .. N
    BY <1>1
  <2> QED BY <2>5, <2>6
<1>7. \A g : TotalFrom(g, leaves, set) <=>
       g = [n \in 0 .. Len(leaves) |->
              IF n = 0 THEN 0 ELSE g[n - 1] + (IF n \in set THEN Weight(leaves[n]) ELSE 0)]
  BY DEF TotalFrom
<1>8. PICK g : TotalFrom(g, leaves, set) /\ TotalBytes(leaves, set) = g[N]
  BY <1>5, <1>7 DEF TotalBytes
<1> QED BY <1>6, <1>8

(* A sequence is the whole of itself. *)
LEMMA Whole ==
  ASSUME NEW s, s \in Seq(ToSet(s))
  PROVE  SubSeq(s, 1, Len(s)) = s
OBVIOUS

(* Of the rules that match a path the nearest is the longest.                *)
LEMMA NearestIs ==
  ASSUME NEW path, path \in Seq(ToSet(path)), NEW exclusions, \A rule \in exclusions : rule \in Seq(ToSet(rule)),
         Matching(path, exclusions) # {}
  PROVE  /\ Nearest(path, exclusions) \in exclusions /\ Under(path, Nearest(path, exclusions))
         /\ \A other \in exclusions :
              Under(path, other) /\ Under(other, Nearest(path, exclusions)) => other = Nearest(path, exclusions)
<1> DEFINE matching == Matching(path, exclusions)
           short == {Len(path) - Len(rule) : rule \in matching}
           near == Nearest(path, exclusions)
<1>1. /\ Len(path) \in Nat
      /\ \A rule \in matching : rule \in exclusions /\ Under(path, rule) /\ Len(rule) \in Nat /\ Len(rule) =< Len(path)
  BY DEF Matching, Under, IsPrefix
<1>2. short \in SUBSET Nat /\ short # {}
  BY <1>1
<1>3. Min(short) \in short /\ \A n \in short : Min(short) =< n
  BY <1>2, Smallest
<1>4. PICK rule \in matching : Min(short) = Len(path) - Len(rule)
  BY <1>3
<1>5. ASSUME NEW other \in matching PROVE Len(other) =< Len(rule)
  <2>1. Len(path) - Len(other) \in short
    OBVIOUS
  <2>2. Len(path) - Len(rule) =< Len(path) - Len(other)
    BY <1>3, <1>4, <2>1
  <2> QED BY <1>1, <2>2
<1>6. near \in matching /\ \A other \in matching : Len(other) =< Len(near)
  BY <1>5 DEF Nearest
<1>7. ASSUME NEW other \in exclusions, Under(path, other), Under(other, near) PROVE other = near
  <2>1. other \in matching
    BY <1>7 DEF Matching
  <2>2. other \in Seq(ToSet(other)) /\ near \in Seq(ToSet(near))
    BY <1>1, <1>6
  <2>3. Len(other) = Len(near) /\ SubSeq(near, 1, Len(near)) = SubSeq(other, 1, Len(near))
    BY <1>1, <1>6, <1>7, <2>1 DEF Under, IsPrefix
  <2>4. SubSeq(near, 1, Len(near)) = near
    BY <2>2, Whole
  <2>5. SubSeq(other, 1, Len(other)) = other
    BY <2>2, Whole
  <2> QED BY <2>3, <2>4, <2>5
<1> QED BY <1>1, <1>6, <1>7

(* What is selected of the leaves of any tree.                               *)
LEMMA SelectedCounts ==
  ASSUME NEW leaves, TreeTyped(leaves), NEW asked, NEW policy, PolicyTyped(policy),
         NEW f, Counts(f, leaves, asked, policy), NEW selected,
         selected = {i \in asked : Decision(leaves[i], f[i - 1], policy) = "selected"}
  PROVE  /\ f[Len(leaves)] = TotalBytes(leaves, selected)
         /\ \A i \in 1 .. Len(leaves) : i \notin selected => f[i - 1] = TotalBytes(leaves, {j \in selected : j < i})
         /\ \A n \in 0 .. Len(leaves) : f[n] =< policy.maxTotalBytes
<1> DEFINE N == Len(leaves)
<1>1. N \in Nat /\ \A i \in 1 .. N : Weight(leaves[i]) \in Nat
  BY TreeFacts
<1>2. /\ f \in [0 .. N -> Nat] /\ f[0] = 0
      /\ \A n \in 1 .. N :
           f[n] = f[n - 1] + (IF Taken(leaves, asked, policy, f[n - 1], n) THEN Weight(leaves[n]) ELSE 0)
  BY DEF Counts
<1>3. \A n \in 1 .. N : Taken(leaves, asked, policy, f[n - 1], n) <=> n \in selected
  BY DEF Taken
<1>4. \A n \in 1 .. N : f[n] = f[n - 1] + (IF n \in selected THEN Weight(leaves[n]) ELSE 0)
  BY <1>2, <1>3
<1>5. f[N] = TotalBytes(leaves, selected)
  <2>1. Adds(f, leaves, selected)
    BY <1>2, <1>4 DEF Adds
  <2> QED BY <2>1, TotalIs
<1>6. ASSUME NEW i \in 1 .. N, i \notin selected
      PROVE  f[i - 1] = TotalBytes(leaves, {j \in selected : j < i})
  <2> DEFINE before == {j \in selected : j < i}
             g == [n \in 0 .. N |-> IF n < i THEN f[n] ELSE f[i - 1]]
  <2>1. i - 1 \in 0 .. N /\ f[i - 1] \in Nat
    BY <1>1, <1>2
  <2>2. g \in [0 .. N -> Nat] /\ \A n \in 0 .. N : g[n] = IF n < i THEN f[n] ELSE f[i - 1]
    BY <1>2, <2>1
  <2> HIDE DEF g
  <2>3. g[0] = 0 /\ g[N] = f[i - 1]
    <3>1. 0 \in 0 .. N /\ N \in 0 .. N /\ 0 < i /\ ~(N < i - 1)
      BY <1>1
    <3>2. CASE N < i
      BY <1>1, <1>2, <2>2, <3>1, <3>2
    <3>3. CASE ~(N < i)
      BY <1>2, <2>2, <3>1, <3>3
    <3> QED BY <3>2, <3>3
  <2>4. ASSUME NEW n \in 1 .. N
        PROVE  g[n] = g[n - 1] + (IF n \in before THEN Weight(leaves[n]) ELSE 0)
    <3>1. n \in 0 .. N /\ n - 1 \in 0 .. N /\ n \in Nat /\ i \in Nat
      BY <1>1
    <3>2. CASE n < i
      <4>1. g[n] = f[n] /\ g[n - 1] = f[n - 1] /\ (n \in before <=> n \in selected)
        BY <2>2, <3>1, <3>2
      <4> QED BY <1>4, <4>1
    <3>3. CASE ~(n < i)
      <4>1. n \notin before
        BY <3>3
      <4>2. g[n] = f[i - 1]
        BY <2>2, <3>1, <3>3
      <4>3. g[n - 1] = f[i - 1]
        <5>1. CASE n = i
          BY <2>2, <3>1, <5>1
        <5>2. CASE n # i
          <6>1. ~(n - 1 < i)
            BY <3>1, <3>3, <5>2
          <6> QED BY <2>2, <3>1, <6>1
        <5> QED BY <5>1, <5>2
      <4> QED BY <2>1, <4>1, <4>2, <4>3
    <3> QED BY <3>2, <3>3
  <2>5. Adds(g, leaves, before)
    BY <2>2, <2>3, <2>4 DEF Adds
  <2>6. TotalBytes(leaves, before) = g[N]
    BY <2>5, TotalIs
  <2> QED BY <2>3, <2>6
<1>7. 0 .. N \subseteq {n \in 0 .. N : f[n] =< policy.maxTotalBytes}
  <2> DEFINE S == {n \in 0 .. N : f[n] =< policy.maxTotalBytes}
  <2>1. 0 \in S
    BY <1>1, <1>2 DEF PolicyTyped
  <2>2. ASSUME NEW n \in 1 .. N, n - 1 \in S PROVE n \in S
    <3>1. n \in 0 .. N /\ n - 1 \in 0 .. N /\ f[n - 1] \in Nat
      BY <1>1, <1>2
    <3>2. policy.maxTotalBytes \in Nat /\ leaves[n].size \in Nat \union {NoSize}
      BY <1>1, TreeFacts DEF PolicyTyped, TreeTyped, LeafTyped
    <3>3. CASE n \in selected
      <4>1. leaves[n].size = NoSize \/ ~(f[n - 1] + leaves[n].size > policy.maxTotalBytes)
        BY <3>3 DEF Decision
      <4>2. f[n] = f[n - 1] + Weight(leaves[n])
        BY <1>4, <3>3
      <4>3. CASE leaves[n].size = NoSize
        BY <2>2, <3>1, <4>2, <4>3 DEF Weight
      <4>4. CASE leaves[n].size # NoSize
        BY <3>1, <3>2, <4>1, <4>2, <4>4 DEF Weight
      <4> QED BY <4>3, <4>4
    <3>4. CASE n \notin selected
      BY <1>4, <2>2, <3>1, <3>4
    <3> QED BY <3>3, <3>4
  <2> HIDE DEF S
  <2>3. 0 .. N \subseteq S
    BY <1>1, <2>1, <2>2, Induction
  <2> QED BY <2>3 DEF S
<1> QED BY <1>5, <1>6, <1>7

(* Whatever the tree, the policy and the requests: the limits hold, nothing  *)
(* excluded is selected, and what is excluded is so for the reason given.    *)
THEOREM SelectionHolds ==
  ASSUME NEW leaves, TreeTyped(leaves), NEW requests, NEW policy, PolicyTyped(policy)
  PROVE  SelectionSound(leaves, requests, policy)
<1> DEFINE N == Len(leaves)
           asked == Requested(leaves, ToSet(requests))
           f == SelectedBytes(leaves, asked, policy)
           decision == [i \in asked |-> Decision(leaves[i], f[i - 1], policy)]
           selected == {i \in asked : Decision(leaves[i], f[i - 1], policy) = "selected"}
           manifest == Manifest(leaves, requests, policy)
<1>1. /\ N \in Nat /\ asked \subseteq 1 .. N
      /\ \A i \in 1 .. N : LeafTyped(leaves[i]) /\ Weight(leaves[i]) \in Nat
  BY TreeFacts DEF Requested, TreeTyped
<1>2. Counts(f, leaves, asked, policy)
  BY BytesCount
<1>3. /\ manifest.selected = selected /\ manifest.bytes = f[N]
      /\ DOMAIN manifest.excluded = asked \ selected
      /\ \A i \in asked \ selected :
           /\ manifest.excluded[i].code = Decision(leaves[i], f[i - 1], policy)
           /\ manifest.excluded[i].rule = IF Decision(leaves[i], f[i - 1], policy) = "path_excluded"
                                          THEN Nearest(leaves[i].path, policy.exclusions) ELSE <<>>
  <2>1. {i \in asked : decision[i] = "selected"} = selected
    OBVIOUS
  <2>2. manifest = [selected |-> {i \in asked : decision[i] = "selected"}, bytes |-> f[N],
          excluded |-> [i \in asked \ {j \in asked : decision[j] = "selected"} |->
            [code |-> decision[i],
             rule |-> IF decision[i] = "path_excluded" THEN Nearest(leaves[i].path, policy.exclusions) ELSE <<>>]]]
    BY DEF Manifest
  <2>3. \A i \in asked : decision[i] = Decision(leaves[i], f[i - 1], policy)
    OBVIOUS
  <2> HIDE DEF decision, f, asked, manifest
  <2> QED BY <2>1, <2>2, <2>3
<1>4. f \in [0 .. N -> Nat]
  BY <1>2 DEF Counts
<1> HIDE DEF f, manifest, decision
<1>5. /\ f[N] = TotalBytes(leaves, selected)
      /\ \A i \in 1 .. N : i \notin selected => f[i - 1] = TotalBytes(leaves, {j \in selected : j < i})
      /\ \A n \in 0 .. N : f[n] =< policy.maxTotalBytes
  BY <1>2, SelectedCounts
<1>6. manifest.bytes = TotalBytes(leaves, manifest.selected) /\ manifest.bytes =< policy.maxTotalBytes
  BY <1>1, <1>3, <1>5
<1>7. ASSUME NEW i \in selected
      PROVE  leaves[i].size =< policy.maxBlobBytes /\ Matching(leaves[i].path, policy.exclusions) = {}
  <2>1. leaves[i].size \in Nat \union {NoSize} /\ policy.maxBlobBytes \in Nat
    BY <1>1 DEF LeafTyped, PolicyTyped
  <2>2. Matching(leaves[i].path, policy.exclusions) = {} /\ ~(leaves[i].size > policy.maxBlobBytes)
    BY DEF Decision
  <2> QED BY <2>1, <2>2 DEF NoSize
<1>8. ASSUME NEW i \in asked \ selected
      PROVE  LET code == manifest.excluded[i].code  rule == manifest.excluded[i].rule
             IN  \/ /\ code = "path_excluded" /\ rule \in policy.exclusions /\ Under(leaves[i].path, rule)
                    /\ \A other \in policy.exclusions :
                         Under(leaves[i].path, other) /\ Under(other, rule) => other = rule
                 \/ code = "max_blob_bytes" /\ leaves[i].size > policy.maxBlobBytes
                 \/ /\ code = "max_total_blob_bytes" /\ leaves[i].size # NoSize
                    /\ TotalBytes(leaves, {j \in selected : j < i}) + leaves[i].size > policy.maxTotalBytes
  <2> DEFINE verdict == Decision(leaves[i], f[i - 1], policy)
  <2>1. /\ manifest.excluded[i].code = verdict /\ verdict # "selected"
        /\ verdict = "path_excluded" => manifest.excluded[i].rule = Nearest(leaves[i].path, policy.exclusions)
    BY <1>3
  <2>2. f[i - 1] = TotalBytes(leaves, {j \in selected : j < i})
    BY <1>1, <1>5
  <2>3. CASE verdict = "path_excluded"
    <3>1. Matching(leaves[i].path, policy.exclusions) # {}
      BY <2>3 DEF Decision
    <3>2. leaves[i].path \in Seq(ToSet(leaves[i].path)) /\ \A rule \in policy.exclusions : rule \in Seq(ToSet(rule))
      BY <1>1 DEF LeafTyped, PolicyTyped
    <3> QED BY <2>1, <2>3, <3>1, <3>2, NearestIs
  <2>4. CASE verdict = "max_blob_bytes"
    BY <2>1, <2>4 DEF Decision
  <2>5. CASE verdict \notin {"path_excluded", "max_blob_bytes"}
    <3>1. verdict = "max_total_blob_bytes" /\ leaves[i].size # NoSize /\ f[i - 1] + leaves[i].size > policy.maxTotalBytes
      BY <2>1, <2>5 DEF Decision
    <3> QED BY <2>1, <2>2, <3>1
  <2> QED BY <2>3, <2>4, <2>5
<1> HIDE DEF selected, asked
<1> QED BY <1>3, <1>6, <1>7, <1>8 DEF SelectionSound, manifest

(* The failures there are. *)
LEMMA CodesAre ==
  /\ \A leaf : KindFailure(leaf) \in {"symlink_unsupported", "gitlink_unsupported", "none"}
  /\ \A leaf : ContentFailure(leaf) \in {"nul_unsupported", "encoding_unsupported", "none"}
  /\ \A leaves, requests, i, policy :
       RequestFailure(leaves, requests, i, policy)
         \in {"path_unavailable", "entry_unsupported", "entry_limit_exceeded", "none"}
BY DEF KindFailure, ContentFailure, RequestFailure

(* An assembly has no failure just where no selected leaf has one, and no    *)
(* failure reads as success.                                                 *)
LEMMA AssemblyFailureIs ==
  ASSUME NEW leaves, TreeTyped(leaves), NEW selected, selected \subseteq DOMAIN leaves
  PROVE  /\ AssemblyFailure(leaves, selected) # "assembled"
         /\ AssemblyFailure(leaves, selected) = "none" <=>
              \A i \in selected : KindFailure(leaves[i]) = "none" /\ ContentFailure(leaves[i]) = "none"
<1> DEFINE kinds == {i \in selected : KindFailure(leaves[i]) # "none"}
           contents == {i \in selected : ContentFailure(leaves[i]) # "none"}
<1>1. kinds \in SUBSET Nat /\ contents \in SUBSET Nat
  BY TreeFacts
<1>2. CASE kinds # {}
  <2>1. Min(kinds) \in kinds
    BY <1>1, <1>2, Smallest
  <2>2. AssemblyFailure(leaves, selected) = KindFailure(leaves[Min(kinds)])
    BY <1>2 DEF AssemblyFailure
  <2> QED BY <2>1, <2>2, CodesAre
<1>3. CASE kinds = {} /\ contents # {}
  <2>1. Min(contents) \in contents
    BY <1>1, <1>3, Smallest
  <2>2. AssemblyFailure(leaves, selected) = ContentFailure(leaves[Min(contents)])
    BY <1>3 DEF AssemblyFailure
  <2> QED BY <2>1, <2>2, CodesAre
<1>4. CASE kinds = {} /\ contents = {}
  BY <1>4 DEF AssemblyFailure
<1> QED BY <1>2, <1>3, <1>4

(* The same of an expansion and its requests.                                *)
LEMMA ExpansionFailureIs ==
  ASSUME NEW leaves, NEW requests, requests \in Seq(ToSet(requests)), NEW policy
  PROVE  /\ ExpansionFailure(leaves, requests, policy) # "assembled"
         /\ ExpansionFailure(leaves, requests, policy) = "none" <=>
              \A i \in DOMAIN requests : RequestFailure(leaves, requests, i, policy) = "none"
<1> DEFINE failing == {i \in DOMAIN requests : RequestFailure(leaves, requests, i, policy) # "none"}
<1>1. failing \in SUBSET Nat
  OBVIOUS
<1>2. CASE failing # {}
  <2>1. Min(failing) \in failing
    BY <1>1, <1>2, Smallest
  <2>2. ExpansionFailure(leaves, requests, policy) = RequestFailure(leaves, requests, Min(failing), policy)
    BY <1>2 DEF ExpansionFailure
  <2> QED BY <2>1, <2>2, CodesAre
<1>3. CASE failing = {}
  BY <1>3 DEF ExpansionFailure
<1> QED BY <1>2, <1>3

(* The requests are within the limit one after the other just where all of   *)
(* them are.                                                                 *)
LEMMA WithinLimit ==
  ASSUME NEW leaves, TreeTyped(leaves), NEW requests, requests \in Seq(ToSet(requests)), requests # <<>>, NEW limit \in Nat
  PROVE  (\A i \in DOMAIN requests : ~(Cardinality(Requested(leaves, {requests[j] : j \in 1..i})) > limit))
         <=> Cardinality(Requested(leaves, ToSet(requests))) =< limit
<1> DEFINE upTo(i) == Requested(leaves, {requests[j] : j \in 1..i})
           all == Requested(leaves, ToSet(requests))
           last == Len(requests)
<1>1. /\ Len(leaves) \in Nat /\ DOMAIN leaves = 1 .. Len(leaves)
      /\ last \in Nat \ {0} /\ DOMAIN requests = 1 .. last /\ ToSet(requests) = {requests[j] : j \in 1 .. last}
  BY TreeFacts DEF ToSet
<1>2. IsFiniteSet(DOMAIN leaves)
  BY <1>1, FS_Interval
<1>3. \A S : Requested(leaves, S) \subseteq DOMAIN leaves
  BY DEF Requested
<1>4. \A S : IsFiniteSet(Requested(leaves, S)) /\ Cardinality(Requested(leaves, S)) \in Nat
  BY <1>2, <1>3, FS_Subset, FS_CardinalityType
<1>5. ASSUME NEW i \in DOMAIN requests PROVE Cardinality(upTo(i)) =< Cardinality(all)
  <2>1. {requests[j] : j \in 1 .. i} \subseteq ToSet(requests)
    BY <1>1
  <2>2. upTo(i) \subseteq all
    BY <2>1 DEF Requested
  <2> QED BY <1>4, <2>2, FS_Subset
<1>6. last \in DOMAIN requests /\ upTo(last) = all
  BY <1>1
<1>7. \A i \in DOMAIN requests : Cardinality(upTo(i)) \in Nat
  BY <1>4
<1>8. Cardinality(all) \in Nat
  BY <1>4
<1> HIDE DEF upTo, all, last
<1>9. (\A i \in DOMAIN requests : ~(Cardinality(upTo(i)) > limit)) <=> Cardinality(all) =< limit
  BY <1>5, <1>6, <1>7, <1>8
<1> QED BY <1>9 DEF upTo, all

(* A context is assembled just where all that was asked for is there, within *)
(* the limit and of a known kind, and all that was selected is text.         *)
THEOREM AssemblyHolds ==
  ASSUME NEW leaves, TreeTyped(leaves), NEW requests, requests \in Seq(ToSet(requests)), requests # <<>>,
         NEW policy, PolicyTyped(policy)
  PROVE  AssemblySound(leaves, requests, policy)
<1> DEFINE asked == Requested(leaves, ToSet(requests))
           readable == {i \in asked : leaves[i].kind \in {"file", "executable"} /\ leaves[i].content = "text"}
           selected == Manifest(leaves, requests, policy).selected
           available == \A i \in DOMAIN requests : Available(leaves, requests[i])
           known == \A i \in asked : leaves[i].kind \in LeafKinds
           limited == Cardinality(asked) =< policy.maxEntries
<1>1. selected \subseteq asked /\ asked \subseteq DOMAIN leaves
  BY DEF Manifest, Requested
<1>2. Assembled(leaves, requests, policy) = "assembled" <=>
        ExpansionFailure(leaves, requests, policy) = "none" /\ AssemblyFailure(leaves, selected) = "none"
  BY <1>1, AssemblyFailureIs, ExpansionFailureIs DEF Assembled
<1>3. ExpansionFailure(leaves, requests, policy) = "none" <=> available /\ known /\ limited
  <2>1. \A i \in DOMAIN requests :
          RequestFailure(leaves, requests, i, policy) = "none" <=>
            /\ Available(leaves, requests[i])
            /\ \A j \in Requested(leaves, {requests[i]}) : leaves[j].kind \in LeafKinds
            /\ ~(Cardinality(Requested(leaves, {requests[j] : j \in 1..i})) > policy.maxEntries)
    BY DEF RequestFailure
  <2>2. known <=> \A i \in DOMAIN requests : \A j \in Requested(leaves, {requests[i]}) : leaves[j].kind \in LeafKinds
    <3>1. \A j : j \in asked <=> \E i \in DOMAIN requests : j \in Requested(leaves, {requests[i]})
      BY DEF Requested, ToSet
    <3> QED BY <3>1
  <2>3. limited <=>
          \A i \in DOMAIN requests : ~(Cardinality(Requested(leaves, {requests[j] : j \in 1..i})) > policy.maxEntries)
    BY WithinLimit DEF PolicyTyped
  <2> HIDE DEF known, limited
  <2> QED BY <2>1, <2>2, <2>3, ExpansionFailureIs
<1>4. ASSUME known
      PROVE  AssemblyFailure(leaves, selected) = "none" <=> selected \subseteq readable
  <2>1. ASSUME NEW i \in selected
        PROVE  KindFailure(leaves[i]) = "none" /\ ContentFailure(leaves[i]) = "none" <=> i \in readable
    <3>1. i \in asked /\ i \in DOMAIN leaves /\ leaves[i].kind \in LeafKinds
      BY <1>1, <1>4
    <3>2. leaves[i].content \in {"text", "nul", "binary"}
      BY <3>1 DEF TreeTyped, LeafTyped
    <3> QED BY <3>1, <3>2 DEF KindFailure, ContentFailure, LeafKinds
  <2> HIDE DEF selected, readable
  <2>2. selected \subseteq DOMAIN leaves
    BY <1>1 DEF selected
  <2> QED BY <2>1, <2>2, AssemblyFailureIs
<1>5. AssemblySound(leaves, requests, policy) <=>
        (Assembled(leaves, requests, policy) = "assembled" <=> available /\ limited /\ known /\ selected \subseteq readable)
  BY DEF AssemblySound
<1> HIDE DEF asked, readable, selected, available, known, limited
<1> QED BY <1>2, <1>3, <1>4, <1>5
=============================================================================
