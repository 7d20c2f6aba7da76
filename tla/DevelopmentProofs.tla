------------------------- MODULE DevelopmentProofs -------------------------
(***************************************************************************)
(* DevInv is inductive, and what follows from it: every provider call is   *)
(* reserved, made once and accounted for, and what was answered or         *)
(* accepted stands, however many handlers share the progress ref.          *)
(***************************************************************************)
EXTENDS DevelopmentInv, TLAPS

(* The commit a handler saves, field by field. *)
LEMMA SavedFields ==
  ASSUME TypeOK, NEW h \in Handler
  PROVE  /\ mine[h] \in Progress /\ Saved(h) \in Progress
         /\ Saved(h).depth = mine[h].depth + 1
         /\ Saved(h).stage = mine[h].stage /\ Saved(h).reserved = mine[h].reserved
         /\ Saved(h).corrections = mine[h].corrections
         /\ Saved(h).candidate = mine[h].candidate
<1>1. mine[h] \in Progress
  BY DEF TypeOK
<1>. QED BY <1>1 DEF Saved, Progress

(* A stage is of one kind. *)
LEMMA Kinds ==
  ASSUME NEW s \in Stage
  PROVE  /\ s \in Open \/ s \in Reserved \/ s \in Terminal
         /\ ~(s \in Open /\ s \in Reserved) /\ ~(s \in Open /\ s \in Terminal)
         /\ ~(s \in Reserved /\ s \in Terminal)
BY DEF Stage, Open, Reserved, Terminal

(* Nothing follows a closed task. *)
LEMMA ClosedLast ==
  ASSUME TypeOK, NEW p, Continues(p)
  PROVE  progress.stage \notin Terminal
BY Kinds DEF TypeOK, Progress, Continues

-----------------------------------------------------------------------------
(* Types *)

LEMMA ContinueTypes ==
  ASSUME TypeOK, NEW h \in Handler, NEW p \in Progress, NEW phase \in Phase,
         Continue(h, p, phase)
  PROVE  /\ mine' \in [Handler -> Progress] /\ pc' \in [Handler -> Phase]
         /\ answers' = answers /\ expected' = expected
         /\ mine'[h] = p /\ pc'[h] = phase
         /\ \A k \in Handler : k # h => mine'[k] = mine[k] /\ pc'[k] = pc[k]
BY DEF TypeOK, Continue, Go

LEMMA GoTypes ==
  ASSUME TypeOK, NEW h \in Handler, NEW phase \in Phase, Go(h, phase)
  PROVE  /\ pc' \in [Handler -> Phase] /\ pc'[h] = phase
         /\ \A k \in Handler : k # h => pc'[k] = pc[k]
BY DEF TypeOK, Go

LEMMA ReturnTypes ==
  ASSUME TypeOK, NEW h \in Handler, NEW stage \in Stage, Return(h, stage)
  PROVE  /\ pc' \in [Handler -> Phase] /\ pc'[h] = "idle"
         /\ \A k \in Handler : k # h => pc'[k] = pc[k]
         /\ answers' \subseteq {"completed", "failed"}
         /\ answers \subseteq answers'
         /\ "completed" \in answers' \ answers => stage = "accepted"
         /\ "failed" \in answers' \ answers => stage \in {"findings", "failed"}
         /\ stage \in Open \union Reserved \union {"unresolved"} => answers' = answers
<1>1. pc' \in [Handler -> Phase] /\ pc'[h] = "idle"
      /\ \A k \in Handler : k # h => pc'[k] = pc[k]
  BY DEF TypeOK, Return, Go, Phase
<1>2. Disposition(stage) =
        IF stage = "accepted" THEN "completed"
        ELSE IF stage \in {"findings", "failed"} THEN "failed" ELSE "unresolved"
  BY DEF Disposition
<1>. QED BY <1>1, <1>2 DEF TypeOK, Return, Open, Reserved

LEMMA AtStageTypes ==
  ASSUME TypeOK, NEW h \in Handler, NEW s \in Stage
  PROVE  /\ AtStage(h, s) \in Progress
         /\ AtStage(h, s).depth = mine[h].depth /\ AtStage(h, s).stage = s
         /\ AtStage(h, s).reserved = mine[h].reserved
         /\ AtStage(h, s).corrections = mine[h].corrections
         /\ AtStage(h, s).candidate = mine[h].candidate
<1>1. mine[h] \in Progress
  BY DEF TypeOK
<1>. QED BY <1>1 DEF AtStage, Progress

-----------------------------------------------------------------------------
(* Steps that leave the progress ref alone *)

(* A handler that stays where it was is as engaged as before. *)
LEMMA StaysEngaged ==
  ASSUME NEW k \in Handler, pc'[k] = pc[k], mine'[k] = mine[k]
  PROVE  /\ Engaged(k)' <=> Engaged(k)
         /\ Saves(k)' <=> Saves(k)
         /\ Saved(k)' = Saved(k)
BY DEF Engaged, Saves, Saved

(* What may follow the ref still may: reviews are not forgotten, and who     *)
(* moves the candidate branch is engaged, or leaves it to others.            *)
LEMMA StillPlaced ==
  ASSUME TypeOK, NEW p \in Progress, Placed(p), cleared \subseteq cleared',
         candidateRef' \in {candidateRef, Foreign}
  PROVE  Placed(p)'
BY DEF Placed

LEMMA OwnStep ==
  ASSUME DevInv, TypeOK', NEW H \in SUBSET Handler,
         UNCHANGED <<progress, answers>>, orphans' \subseteq orphans,
         cleared \subseteq cleared',
         \/ candidateRef' \in {candidateRef, Foreign}
         \/ progress.stage = "implementer_reserved" /\ \E k \in H : Engaged(k),
         \A n \in Call : launched'[n] # launched[n] =>
             n = progress.reserved /\ \E k \in H : Engaged(k),
         \A k \in Handler \ H : pc'[k] = pc[k] /\ mine'[k] = mine[k],
         \A k \in H : /\ Engaged(k)' => (Engaged(k) /\ mine'[k].depth = mine[k].depth)
                      /\ SavingOf(k)' /\ DecidingOf(k)' /\ CallingOf(k)'
  PROVE  DevInv'
<1>0. /\ progress' = progress /\ orphans' \subseteq orphans /\ answers' = answers
      /\ progress \in Progress
  BY DEF DevInv, TypeOK
<1>1. \A k \in Handler : Engaged(k)' => Engaged(k)
  BY StaysEngaged
<1>2. ProgressInv' /\ OrphanInv' /\ \A k \in Handler \ H : SavingOf(k)'
  <2>1. CASE candidateRef' \in {candidateRef, Foreign}
    <3>1. \A p \in Progress : Follows(p) => Follows(p)'
      BY <1>0, <2>1, StillPlaced DEF DevInv, Follows, Continues
    <3>2. ProgressInv'
      BY <1>0, <2>1, StillPlaced DEF DevInv, ProgressInv
    <3>3. OrphanInv'
      BY <1>0, <3>1 DEF DevInv, TypeOK, OrphanInv, OrphanOf, Fits
    <3>4. \A k \in Handler \ H : SavingOf(k)'
      <4>. TAKE k \in Handler \ H
      <4>1. SavingOf(k) /\ pc'[k] = pc[k] /\ mine'[k] = mine[k] /\ Saved(k) \in Progress
        BY SavedFields DEF DevInv, HandlerInv
      <4>. QED BY <1>0, <3>1, <4>1, StaysEngaged DEF SavingOf, Fits
    <3>. QED BY <3>2, <3>3, <3>4
  <2>2. CASE progress.stage = "implementer_reserved" /\ \E k \in H : Engaged(k)
    <3>1. ProgressInv'
      BY <1>0, <2>2 DEF DevInv, ProgressInv, Placed
    <3>2. \A p \in orphans : ~Fits(p)
      BY <2>2 DEF DevInv, HandlerInv, EngagedOf
    <3>3. OrphanInv'
      BY <1>0, <3>2 DEF DevInv, OrphanInv, OrphanOf, Fits
    <3>4. \A k \in Handler \ H : SavingOf(k)'
      <4>. TAKE k \in Handler \ H
      <4>1. SavingOf(k) /\ pc'[k] = pc[k] /\ mine'[k] = mine[k] /\ ~Engaged(k)
        BY <2>2 DEF DevInv, HandlerInv, EngagedOf
      <4>2. ~(progress.stage \in Open)
        BY <2>2 DEF Open
      <4>. QED BY <1>0, <4>1, <4>2, StaysEngaged DEF SavingOf, Fits
    <3>. QED BY <3>1, <3>3, <3>4
  <2>. QED BY <2>1, <2>2
<1>4. \A k \in Handler \ H : DecidingOf(k)'
  BY <1>0 DEF DevInv, HandlerInv, DecidingOf
<1>5. \A k \in Handler \ H : EngagedOf(k)'
  BY <1>0, <1>1 DEF DevInv, HandlerInv, EngagedOf, Fits
<1>6. \A k \in H : EngagedOf(k)'
  BY <1>0, <1>1 DEF DevInv, HandlerInv, EngagedOf, Fits
<1>7. \A k \in Handler \ H : CallingOf(k)'
  <2>. TAKE k \in Handler \ H
  <2>1. CallingOf(k) /\ EngagedOf(k) /\ pc'[k] = pc[k] /\ mine'[k] = mine[k]
    BY DEF DevInv, HandlerInv
  <2>2. CASE ~Engaged(k)
    BY <2>1, <2>2 DEF CallingOf, Engaged, Implementing, Reviewing
  <2>3. CASE Engaged(k)
    <3>1. \A j \in H : ~Engaged(j)
      BY <2>1, <2>3 DEF EngagedOf
    <3>2. candidateRef' \in {candidateRef, Foreign} /\ \A n \in Call : launched'[n] = launched[n]
      BY <3>1
    <3>3. pc[k] \in {"implement", "review"} => mine[k].reserved \in Call
      <4>1. pc[k] \in {"implement", "review"} => mine[k] = progress /\ progress.stage \in Reserved
        BY <2>1 DEF CallingOf, Implementing, Reviewing, Reserved
      <4>2. progress.stage \in Reserved => progress.reserved > 0
        BY <1>0 DEF DevInv, ProgressInv, Counted, Reserved, Progress
      <4>. QED BY <1>0, <4>1, <4>2 DEF Progress, Call
    <3>. QED BY <1>0, <2>1, <3>2, <3>3 DEF CallingOf
  <2>. QED BY <2>2, <2>3
<1>8. HandlerInv'
  BY <1>2, <1>4, <1>5, <1>6, <1>7 DEF HandlerInv
<1>9. LaunchInv'
  BY <1>0 DEF DevInv, LaunchInv, Call, Progress
<1>10. AnswerInv' /\ AnswersStand'
  BY <1>0, <1>1 DEF DevInv, AnswerInv, AnswersStand, Fits
<1>. QED BY <1>2, <1>8, <1>9, <1>10 DEF DevInv

(* A handler comes to its end without moving the ref, and may leave a late   *)
(* git child behind.                                                         *)
LEMMA QuitStep ==
  ASSUME DevInv, TypeOK', NEW h \in Handler,
         UNCHANGED <<progress, candidateRef, cleared, launched, mine>>,
         pc'[h] = "idle", \A k \in Handler : k # h => pc'[k] = pc[k],
         \A p \in orphans' : p \in orphans \/ (Saves(h) /\ p = Saved(h) /\ Fits(p)),
         answers \subseteq answers',
         "completed" \in answers' \ answers => progress.stage = "accepted",
         "failed" \in answers' \ answers =>
           progress.stage \in {"findings", "failed"} \/ pc[h] = "record"
  PROVE  DevInv'
<1>0. SavingOf(h) /\ EngagedOf(h) /\ progress \in Progress /\ progress.stage \in Stage
  BY DEF DevInv, HandlerInv, TypeOK, Progress
<1>1. ~Engaged(h)' /\ \A k \in Handler : k # h => (Engaged(k)' <=> Engaged(k))
  BY StaysEngaged DEF Engaged, Implementing, Reviewing
<1>2. \A p \in orphans' : Fits(p) => Follows(p)
  BY <1>0 DEF DevInv, OrphanInv, OrphanOf, SavingOf
<1>3. ProgressInv' /\ LaunchInv'
  BY DEF DevInv, ProgressInv, Placed, LaunchInv
<1>4. OrphanInv'
  <2>. SUFFICES ASSUME NEW p \in orphans' PROVE OrphanOf(p)'
    BY DEF OrphanInv
  <2>1. p.depth =< progress.depth + 1
    BY <1>0 DEF DevInv, OrphanInv, OrphanOf, Fits, Progress
  <2>. QED BY <1>2, <2>1 DEF OrphanOf, Fits, Follows, Continues, Placed
<1>5. HandlerInv'
  <2>. SUFFICES ASSUME NEW k \in Handler
                PROVE  SavingOf(k)' /\ DecidingOf(k)' /\ EngagedOf(k)' /\ CallingOf(k)'
    BY DEF HandlerInv
  <2>1. CASE k = h
    BY <1>1, <2>1 DEF SavingOf, Saves, DecidingOf, EngagedOf, CallingOf, Implementing, Reviewing
  <2>2. CASE k # h
    <3>1. SavingOf(k) /\ DecidingOf(k) /\ EngagedOf(k) /\ CallingOf(k)
      BY DEF DevInv, HandlerInv
    <3>2. pc'[k] = pc[k] /\ mine'[k] = mine[k]
      BY <2>2
    <3>3. SavingOf(k)' /\ DecidingOf(k)' /\ CallingOf(k)'
      BY <3>1, <3>2, StaysEngaged
         DEF SavingOf, DecidingOf, CallingOf, Fits, Follows, Continues, Placed
    <3>4. EngagedOf(k)'
      <4>. SUFFICES ASSUME Engaged(k) PROVE EngagedOf(k)'
        BY <1>1, <2>2 DEF EngagedOf
      <4>1. ~Engaged(h) /\ progress.stage \in Reserved
        BY <2>2, <3>1 DEF EngagedOf
      <4>2. ~(progress.stage \in Open)
        BY <1>0, <4>1, Kinds
      <4>3. \A p \in orphans' : ~Fits(p)
        BY <1>0, <3>1, <4>1, <4>2 DEF EngagedOf, SavingOf
      <4>. QED BY <1>1, <3>1, <3>2, <4>1, <4>3 DEF EngagedOf, Fits
    <3>. QED BY <3>3, <3>4
  <2>. QED BY <2>1, <2>2
<1>6. AnswerInv'
  <2>. SUFFICES ASSUME answers' # {} PROVE AnswerInv'
    BY DEF AnswerInv
  <2>1. CASE answers # {}
    <3>1. /\ progress.stage \in Reserved \union Terminal /\ \A k \in Handler : ~Engaged(k)
          /\ \A p \in orphans : Fits(p) => p.stage \in {"failed", "unresolved"}
      BY <2>1 DEF DevInv, AnswerInv
    <3>2. ~(progress.stage \in Open)
      BY <1>0, <3>1, Kinds
    <3>3. \A p \in orphans' : Fits(p) => p \in orphans
      BY <1>0, <3>1, <3>2 DEF SavingOf
    <3>. QED BY <1>1, <3>1, <3>3 DEF AnswerInv, Fits
  <2>2. CASE progress.stage \in Terminal
    <3>1. \A p \in orphans' : ~Fits(p)
      BY <1>2, <2>2, ClosedLast DEF DevInv, Follows
    <3>2. \A k \in Handler : ~Engaged(k)
      BY <1>0, <2>2, Kinds DEF DevInv, HandlerInv, EngagedOf
    <3>. QED BY <1>1, <2>2, <3>1, <3>2 DEF AnswerInv, Fits
  <2>3. CASE pc[h] = "record"
    <3>1. Engaged(h) /\ Saves(h)
      BY <2>3 DEF Engaged, Saves
    <3>2. /\ progress.stage \in Reserved /\ \A k \in Handler : Engaged(k) => k = h
          /\ \A p \in orphans : ~Fits(p)
      BY <1>0, <3>1 DEF EngagedOf
    <3>3. \A p \in orphans' : Fits(p) => p.stage \in {"failed", "unresolved"}
      BY <1>0, <2>3, <3>1, <3>2, SavedFields DEF DevInv, SavingOf
    <3>. QED BY <1>1, <3>2, <3>3 DEF AnswerInv, Fits
  <2>4. answers # {} \/ progress.stage \in {"accepted", "findings", "failed"} \/ pc[h] = "record"
    BY DEF TypeOK
  <2>. QED BY <2>1, <2>2, <2>3, <2>4 DEF Terminal
<1>7. AnswersStand'
  <2>1. pc[h] = "record" => progress.stage \in Reserved
    BY <1>0 DEF EngagedOf, Engaged
  <2>. QED BY <2>1 DEF DevInv, AnswersStand, Terminal
<1>. QED BY <1>3, <1>4, <1>5, <1>6, <1>7 DEF DevInv

-----------------------------------------------------------------------------
(* Steps that move the progress ref *)

(* A commit that fits and follows is attached, by a handler that goes on     *)
(* from it or ends (the one in H), or by a late git child (H is empty).      *)
LEMMA CommitStep ==
  ASSUME DevInv, TypeOK', NEW H \in SUBSET Handler, NEW p \in Progress,
         Fits(p), Follows(p), progress' = p, orphans' \subseteq orphans,
         UNCHANGED <<candidateRef, cleared, launched>>,
         \A k \in Handler \ H : pc'[k] = pc[k] /\ mine'[k] = mine[k] /\ ~Engaged(k),
         \A k, j \in H : k = j,
         \A k \in H : \/ pc'[k] = "idle"
                      \/ /\ mine'[k] = p
                         /\ \/ pc'[k] = "decide" /\ p.stage \in Open
                            \/ pc'[k] = "implement" /\ p.stage = "implementer_reserved"
                            \/ pc'[k] = "review" /\ p.stage = "reviewer_reserved",
         answers # {} => p.stage \in {"failed", "unresolved"},
         answers \subseteq answers',
         "completed" \in answers' \ answers => p.stage = "accepted",
         "failed" \in answers' \ answers => p.stage \in {"findings", "failed"}
  PROVE  DevInv'
<1>0. /\ progress \in Progress /\ p.depth = progress.depth + 1
      /\ p.stage \in Stage /\ progress.depth \in Nat /\ p.depth \in Nat
      /\ p.reserved \in 0..MaxInvocations /\ progress.reserved \in 0..MaxInvocations
  BY DEF DevInv, TypeOK, Progress, Fits
<1>1. Counted(p) /\ Continues(p) /\ Placed(p)'
  BY DEF Follows, Placed
<1>2. \A k \in Handler \ H : ~Engaged(k)'
  BY StaysEngaged
<1>3. ProgressInv'
  BY <1>0, <1>1 DEF ProgressInv
<1>4. \A q \in orphans' : q.depth =< p.depth /\ ~Fits(q)'
  <2>1. \A q \in orphans : q \in Progress /\ q.depth \in Nat /\ q.depth =< progress.depth + 1
    BY DEF DevInv, TypeOK, OrphanInv, OrphanOf, Progress
  <2>. QED BY <1>0, <2>1 DEF Fits
<1>5. OrphanInv'
  <2>. SUFFICES ASSUME NEW q \in orphans' PROVE q.depth =< progress'.depth + 1
    BY <1>4 DEF OrphanInv, OrphanOf
  <2>1. q \in Progress /\ q.depth \in Nat
    BY DEF DevInv, TypeOK, Progress
  <2>. QED BY <1>0, <1>4, <2>1
<1>6. ASSUME NEW k \in Handler \ H
      PROVE  SavingOf(k)' /\ DecidingOf(k)' /\ EngagedOf(k)' /\ CallingOf(k)'
  <2>1. /\ SavingOf(k) /\ DecidingOf(k) /\ pc'[k] = pc[k] /\ mine'[k] = mine[k]
        /\ mine[k].depth \in Nat
    BY DEF DevInv, HandlerInv, TypeOK, Progress
  <2>2. Saves(k)' => ~Fits(Saved(k))' /\ mine'[k].depth =< progress'.depth
    <3>1. Saved(k).depth = mine[k].depth + 1
      BY SavedFields DEF DevInv
    <3>. QED BY <1>0, <2>1, <3>1, StaysEngaged DEF SavingOf, Fits
  <2>3. SavingOf(k)'
    BY <2>1, <2>2, StaysEngaged DEF SavingOf
  <2>4. DecidingOf(k)'
    BY <1>0, <2>1 DEF DecidingOf
  <2>5. EngagedOf(k)' /\ CallingOf(k)'
    BY <1>2 DEF EngagedOf, CallingOf, Engaged, Implementing, Reviewing
  <2>. QED BY <2>3, <2>4, <2>5
<1>7. p.stage \in Reserved => p.reserved \in Call /\ launched[p.reserved] = 0
  <2>. SUFFICES ASSUME p.stage \in Reserved PROVE p.reserved \in Call /\ launched[p.reserved] = 0
    OBVIOUS
  <2>1. p.reserved = progress.reserved + 1
    BY <1>1 DEF Continues, Reserved
  <2>. QED BY <1>0, <2>1 DEF Call, DevInv, LaunchInv
<1>8. ASSUME NEW k \in H
      PROVE  SavingOf(k)' /\ DecidingOf(k)' /\ EngagedOf(k)' /\ CallingOf(k)'
  <2>1. CASE pc'[k] = "idle"
    BY <2>1 DEF SavingOf, Saves, DecidingOf, EngagedOf, CallingOf, Engaged, Implementing, Reviewing
  <2>2. CASE pc'[k] = "decide" /\ mine'[k] = p /\ p.stage \in Open
    BY <1>0, <1>1, <2>2
       DEF SavingOf, Saves, DecidingOf, EngagedOf, CallingOf, Engaged, Implementing, Reviewing
  <2>3. CASE /\ mine'[k] = p
             /\ \/ pc'[k] = "implement" /\ p.stage = "implementer_reserved"
                \/ pc'[k] = "review" /\ p.stage = "reviewer_reserved"
    <3>1. SavingOf(k)' /\ DecidingOf(k)'
      BY <2>3 DEF SavingOf, Saves, DecidingOf
    <3>2. EngagedOf(k)'
      BY <1>2, <1>4, <2>3 DEF EngagedOf, Reserved
    <3>3. CallingOf(k)'
      BY <1>7, <2>3 DEF CallingOf, Implementing, Reviewing, Reserved
    <3>. QED BY <3>1, <3>2, <3>3
  <2>. QED BY <2>1, <2>2, <2>3
<1>9. HandlerInv'
  BY <1>6, <1>8 DEF HandlerInv
<1>10. LaunchInv'
  <2>1. p.reserved >= progress.reserved
    BY <1>0, <1>1 DEF Continues
  <2>. QED BY <1>0, <2>1 DEF DevInv, LaunchInv, Call
<1>11. AnswerInv'
  <2>. SUFFICES ASSUME answers' # {} PROVE AnswerInv'
    BY DEF AnswerInv
  <2>1. p.stage \in Terminal
    BY DEF TypeOK, Terminal
  <2>2. \A k \in Handler : ~Engaged(k)'
    <3>1. p.stage \notin {"implementer_reserved", "reviewer_reserved"}
      BY <2>1 DEF Terminal
    <3>2. \A k \in H : pc'[k] \in {"idle", "decide"}
      BY <3>1
    <3>. QED BY <1>2, <3>2 DEF Engaged, Implementing, Reviewing
  <2>. QED BY <1>4, <2>1, <2>2 DEF AnswerInv
<1>12. AnswersStand'
  <2>1. "completed" \notin answers
    <3>1. progress.stage # "accepted"
      BY <1>1, ClosedLast DEF DevInv, Terminal
    <3>. QED BY <3>1 DEF DevInv, AnswersStand
  <2>2. "failed" \in answers' => p.stage \in {"findings", "failed", "unresolved"}
    OBVIOUS
  <2>. QED BY <2>1, <2>2 DEF AnswersStand, Terminal
<1>. QED BY <1>3, <1>5, <1>9, <1>10, <1>11, <1>12 DEF DevInv

-----------------------------------------------------------------------------
(* Every step keeps the types *)

LEMMA ConstantTypes ==
  /\ 0 \in 0..MaxInvocations /\ 0 \in 0..MaxCorrections
  /\ Call \subseteq Commit /\ Base \in Commit /\ Foreign \in Commit /\ None \notin Commit
  /\ MaxInvocations \in Nat /\ MaxCorrections \in Nat /\ MaxInvocations >= 2 + 2 * MaxCorrections
BY DevelopmentAssumption DEF Call, Commit, Base, Foreign

(* The phases that act on a reservation have one. *)
LEMMA CallReserved ==
  ASSUME DevInv, NEW h \in Handler, pc[h] \in Implementing \union Reviewing
  PROVE  /\ mine[h] = progress /\ progress.stage \in Reserved
         /\ mine[h].reserved \in Call /\ Engaged(h)
<1>1. mine[h] = progress /\ progress.stage \in Reserved /\ Engaged(h)
  BY DEF DevInv, HandlerInv, CallingOf, Engaged, Reserved
<1>2. progress.reserved > 0 /\ progress.reserved \in 0..MaxInvocations
  BY <1>1 DEF DevInv, ProgressInv, Counted, Reserved, TypeOK, Progress
<1>. QED BY <1>1, <1>2 DEF Call

(* A call that ends without a candidate. *)
LEMMA FailsTypes ==
  ASSUME TypeOK, NEW h \in Handler, Fails(h)
  PROVE  /\ mine' \in [Handler -> Progress] /\ pc' \in [Handler -> Phase]
         /\ answers' = answers /\ expected' = expected
         /\ \A k \in Handler : k # h => mine'[k] = mine[k] /\ pc'[k] = pc[k]
         /\ pc'[h] = "record"
         /\ \E s \in {"failed", "unresolved"} : mine'[h] = AtStage(h, s)
<1>1. PICK s \in {"failed", "unresolved"} : Continue(h, AtStage(h, s), "record")
  BY DEF Fails
<1>2. s \in Stage /\ "record" \in Phase
  BY DEF Stage, Terminal, Phase
<1>3. AtStage(h, s) \in Progress
  BY <1>2, AtStageTypes
<1>. QED BY <1>1, <1>2, <1>3, ContinueTypes

-----------------------------------------------------------------------------
(* Each step keeps DevInv *)

(* OwnStep, of one handler. *)
LEMMA OwnStepOf ==
  ASSUME DevInv, TypeOK', NEW h \in Handler,
         UNCHANGED <<refs, answers>>, cleared \subseteq cleared',
         \/ candidateRef' \in {candidateRef, Foreign}
         \/ progress.stage = "implementer_reserved" /\ Engaged(h),
         \A n \in Call : launched'[n] # launched[n] => n = progress.reserved /\ Engaged(h),
         \A k \in Handler : k # h => pc'[k] = pc[k] /\ mine'[k] = mine[k],
         Engaged(h)' => (Engaged(h) /\ mine'[h].depth = mine[h].depth),
         SavingOf(h)' /\ DecidingOf(h)' /\ CallingOf(h)'
  PROVE  DevInv'
<1>. DEFINE H == {h}
<1>1. H \in SUBSET Handler /\ \A k \in H : k = h
  OBVIOUS
<1>2. /\ UNCHANGED <<progress, answers>> /\ orphans' \subseteq orphans
      /\ h \in H
      /\ \A k \in Handler \ H : pc'[k] = pc[k] /\ mine'[k] = mine[k]
  BY DEF refs
<1>. HIDE DEF H
<1>3. /\ \A k \in H : /\ Engaged(k)' => (Engaged(k) /\ mine'[k].depth = mine[k].depth)
                      /\ SavingOf(k)' /\ DecidingOf(k)' /\ CallingOf(k)'
      /\ \/ candidateRef' \in {candidateRef, Foreign}
         \/ progress.stage = "implementer_reserved" /\ \E k \in H : Engaged(k)
      /\ \A n \in Call : launched'[n] # launched[n] =>
           n = progress.reserved /\ \E k \in H : Engaged(k)
  BY <1>1, <1>2
<1>. QED BY <1>1, <1>2, <1>3, OwnStep

(* A handler that made a call has the outcome to save or to record. *)
LEMMA OutcomeStep ==
  ASSUME DevInv, TypeOK', NEW h \in Handler, UNCHANGED progress,
         pc[h] \in Implementing \union Reviewing, pc'[h] \in {"save", "record"},
         mine'[h].depth = mine[h].depth, mine'[h].reserved = mine[h].reserved,
         mine'[h].stage \notin Reserved \union {"imported"},
         mine'[h].stage = "failed" => pc'[h] = "record",
         pc'[h] = "record" => mine'[h].stage \in {"failed", "unresolved"},
         Counted(mine[h])', Placed(mine[h])'
  PROVE  SavingOf(h)' /\ DecidingOf(h)' /\ CallingOf(h)' /\ Engaged(h)
<1>1. mine[h] = progress /\ progress.stage \in Reserved /\ Engaged(h) /\ progress.depth \in Nat
  BY CallReserved DEF DevInv, TypeOK, Progress
<1>2. /\ Saved(h)'.depth = mine'[h].depth + 1
      /\ Saved(h)'.stage = mine'[h].stage /\ Saved(h)'.reserved = mine'[h].reserved
      /\ Saved(h)'.corrections = mine'[h].corrections
      /\ Saved(h)'.candidate = mine'[h].candidate
  <2>1. mine'[h] \in Progress
    BY DEF TypeOK
  <2>. QED BY <2>1 DEF Saved, Progress
<1>3. Counted(Saved(h))' /\ Placed(Saved(h))' /\ Continues(Saved(h))'
  <2>1. Counted(Saved(h))'
    BY <1>2 DEF Counted
  <2>2. Placed(Saved(h))'
    BY <1>2 DEF Placed
  <2>3. Continues(Saved(h))'
    BY <1>1, <1>2 DEF Continues
  <2>. QED BY <2>1, <2>2, <2>3
<1>4. Engaged(h)'
  BY DEF Engaged
<1>5. SavingOf(h)'
  BY <1>1, <1>3, <1>4 DEF SavingOf, Follows
<1>6. DecidingOf(h)' /\ CallingOf(h)'
  BY DEF DecidingOf, CallingOf, Implementing, Reviewing
<1>. QED BY <1>1, <1>5, <1>6

LEMMA LoadStep ==
  ASSUME DevInv, NEW h \in Handler, Load(h)
  PROVE  DevInv'
<1>0. /\ TypeOK /\ progress \in Progress /\ progress.stage \in Stage /\ pc[h] = "idle"
      /\ ~Engaged(h) /\ UNCHANGED <<refs, world, faults>>
  BY DEF DevInv, TypeOK, Progress, Load, Engaged, Implementing, Reviewing
<1>1. CASE progress.depth > 0 /\ progress.stage \in Reserved \union Terminal
  <2>1. Return(h, progress.stage) /\ UNCHANGED held
    BY <1>1 DEF Load
  <2>2. TypeOK'
    BY <1>0, <2>1, ReturnTypes DEF TypeOK, refs, world, held
  <2>3. /\ "completed" \in answers' \ answers => progress.stage = "accepted"
        /\ "failed" \in answers' \ answers => progress.stage \in {"findings", "failed"}
        /\ answers \subseteq answers' /\ pc'[h] = "idle"
        /\ \A k \in Handler : k # h => pc'[k] = pc[k]
    BY <1>0, <2>1, ReturnTypes
  <2>. QED BY <1>0, <2>1, <2>2, <2>3, QuitStep DEF refs, world, held
<1>2. CASE ~(progress.depth > 0 /\ progress.stage \in Reserved \union Terminal)
  <2>. DEFINE phase == IF progress.depth = 0 THEN "save" ELSE "decide"
  <2>1. Continue(h, progress, phase) /\ phase \in Phase
    BY <1>2 DEF Load, Phase
  <2>2. progress.depth \in Nat
    BY <1>0 DEF Progress
  <2>3. \/ phase = "save" /\ progress.depth = 0 /\ progress = Imported
        \/ phase = "decide" /\ progress.stage \in Open
    BY <1>0, <1>2, <2>2, Kinds DEF DevInv, ProgressInv
  <2>. HIDE DEF phase
  <2>4. /\ mine' \in [Handler -> Progress] /\ pc' \in [Handler -> Phase]
        /\ answers' = answers /\ expected' = expected
        /\ mine'[h] = progress /\ pc'[h] = phase
        /\ \A k \in Handler : k # h => mine'[k] = mine[k] /\ pc'[k] = pc[k]
    BY <1>0, <2>1, ContinueTypes
  <2>5. TypeOK' /\ progress' = progress
    BY <1>0, <2>4 DEF TypeOK, refs, world
  <2>6. CASE phase = "save" /\ progress = Imported
    <3>1. ~Engaged(h)' /\ DecidingOf(h)' /\ CallingOf(h)'
      BY <2>4, <2>6 DEF Engaged, DecidingOf, CallingOf, Implementing, Reviewing, Imported
    <3>2. /\ Saved(h)'.depth = 1 /\ Saved(h)'.stage = "imported"
          /\ Saved(h)'.reserved = 0 /\ Saved(h)'.corrections = 0
      BY <2>4, <2>6 DEF Saved, Imported
    <3>3. Follows(Saved(h))'
      BY <2>5, <2>6, <3>2 DEF Follows, Continues, Counted, Placed, Imported, Open
    <3>4. SavingOf(h)'
      BY <2>4, <2>5, <2>6, <3>3 DEF SavingOf, Imported, Open
    <3>. QED BY <1>0, <2>4, <2>5, <3>1, <3>4, OwnStepOf DEF world
  <2>7. CASE phase = "decide" /\ progress.stage \in Open
    <3>1. ~Engaged(h)' /\ SavingOf(h)' /\ CallingOf(h)'
      BY <2>4, <2>7 DEF Engaged, SavingOf, Saves, CallingOf, Implementing, Reviewing
    <3>2. DecidingOf(h)'
      BY <2>2, <2>4, <2>5, <2>7 DEF DecidingOf, DevInv, ProgressInv, Counted
    <3>. QED BY <1>0, <2>4, <2>5, <3>1, <3>2, OwnStepOf DEF world
  <2>. QED BY <2>3, <2>6, <2>7
<1>. QED BY <1>1, <1>2

(* What the head of the loop decides on. *)
LEMMA DecideStep ==
  ASSUME DevInv, NEW h \in Handler,
         Stop(h) \/ ReserveImplementer(h) \/ ReserveReviewer(h)
  PROVE  DevInv'
<1>0. /\ TypeOK /\ mine[h] \in Progress /\ pc[h] = "decide" /\ mine[h].stage \in Open
      /\ mine[h].depth =< progress.depth /\ Counted(mine[h])
      /\ mine[h].depth = progress.depth => mine[h] = progress
      /\ UNCHANGED <<refs, world, faults>> /\ progress \in Progress
  BY DEF DevInv, TypeOK, HandlerInv, DecidingOf, Stop, ReserveImplementer, ReserveReviewer
<1>1. \E q \in Progress :
        /\ Continue(h, q, "save") /\ q.depth = mine[h].depth
        /\ q.candidate = mine[h].candidate /\ Counted(q)
        /\ \/ q.stage = "failed" /\ q.reserved = mine[h].reserved
           \/ q.stage = "implementer_reserved" /\ q.reserved = mine[h].reserved + 1
           \/ /\ q.stage = "reviewer_reserved" /\ q.reserved = mine[h].reserved + 1
              /\ mine[h].stage = "candidate_ready"
  <2>1. CASE Stop(h)
    <3>. DEFINE q == AtStage(h, "failed")
    <3>1. /\ q \in Progress /\ q.depth = mine[h].depth /\ q.stage = "failed"
          /\ q.reserved = mine[h].reserved /\ q.corrections = mine[h].corrections
          /\ q.candidate = mine[h].candidate
      BY <1>0, AtStageTypes DEF Stage, Terminal
    <3>2. Continue(h, q, "save")
      BY <2>1 DEF Stop
    <3>. HIDE DEF q
    <3>3. Counted(q)
      BY <1>0, <3>1 DEF Counted
    <3>. QED BY <3>1, <3>2, <3>3
  <2>2. CASE ReserveImplementer(h)
    <3>. DEFINE c == IF mine[h].stage = "correction_pending"
                       THEN mine[h].corrections + 1 ELSE mine[h].corrections
                q == [mine[h] EXCEPT !.stage = "implementer_reserved", !.reserved = @ + 1,
                                     !.corrections = c]
    <3>1. /\ Continue(h, q, "save") /\ mine[h].stage \in {"imported", "correction_pending"}
          /\ ~(mine[h].reserved >= MaxInvocations)
          /\ mine[h].stage = "correction_pending" => c = mine[h].corrections + 1
          /\ mine[h].stage # "correction_pending" => c = mine[h].corrections
      BY <2>2 DEF ReserveImplementer, Exhausted
    <3>. HIDE DEF c
    <3>2. /\ q.depth = mine[h].depth /\ q.stage = "implementer_reserved"
          /\ q.reserved = mine[h].reserved + 1 /\ q.candidate = mine[h].candidate
          /\ q.corrections = c
      BY <1>0 DEF Progress
    <3>3. mine[h].reserved + 1 \in 0..MaxInvocations
      BY <1>0, <3>1, ConstantTypes DEF Progress
    <3>4. c \in 0..MaxCorrections
      BY <1>0, <3>1, ConstantTypes DEF Progress, Counted
    <3>5. q \in Progress
      BY <1>0, <3>3, <3>4 DEF Progress, Stage, Reserved
    <3>. HIDE DEF q
    <3>6. Counted(q)
      <4>1. mine[h].reserved \in Nat /\ mine[h].corrections \in Nat
        BY <1>0 DEF Progress
      <4>2. q.reserved = 1 + 2 * q.corrections
        <5>1. CASE mine[h].stage = "imported"
          BY <1>0, <3>1, <3>2, <5>1 DEF Counted
        <5>2. CASE mine[h].stage = "correction_pending"
          BY <1>0, <3>1, <3>2, <4>1, <5>2 DEF Counted
        <5>. QED BY <3>1, <5>1, <5>2
      <4>. QED BY <3>2, <3>4, <4>2 DEF Counted
    <3>. QED BY <3>1, <3>2, <3>5, <3>6
  <2>3. CASE ReserveReviewer(h)
    <3>. DEFINE q == [mine[h] EXCEPT !.stage = "reviewer_reserved", !.reserved = @ + 1]
    <3>1. /\ Continue(h, q, "save") /\ mine[h].stage = "candidate_ready"
          /\ ~(mine[h].reserved >= MaxInvocations)
      BY <2>3 DEF ReserveReviewer, Exhausted
    <3>2. /\ q.depth = mine[h].depth /\ q.stage = "reviewer_reserved"
          /\ q.reserved = mine[h].reserved + 1 /\ q.candidate = mine[h].candidate
          /\ q.corrections = mine[h].corrections
      BY <1>0 DEF Progress
    <3>3. mine[h].reserved + 1 \in 0..MaxInvocations
      BY <1>0, <3>1, ConstantTypes DEF Progress
    <3>4. q \in Progress
      BY <1>0, <3>3 DEF Progress, Stage, Reserved
    <3>. HIDE DEF q
    <3>5. Counted(q)
      BY <1>0, <3>1, <3>2 DEF Counted, Progress
    <3>. QED BY <3>1, <3>2, <3>4, <3>5
  <2>. QED BY <2>1, <2>2, <2>3
<1>2. PICK q \in Progress :
        /\ Continue(h, q, "save") /\ q.depth = mine[h].depth
        /\ q.candidate = mine[h].candidate /\ Counted(q)
        /\ \/ q.stage = "failed" /\ q.reserved = mine[h].reserved
           \/ q.stage = "implementer_reserved" /\ q.reserved = mine[h].reserved + 1
           \/ /\ q.stage = "reviewer_reserved" /\ q.reserved = mine[h].reserved + 1
              /\ mine[h].stage = "candidate_ready"
  BY <1>1
<1>3. /\ mine' \in [Handler -> Progress] /\ pc' \in [Handler -> Phase]
      /\ answers' = answers /\ expected' = expected
      /\ mine'[h] = q /\ pc'[h] = "save"
      /\ \A k \in Handler : k # h => mine'[k] = mine[k] /\ pc'[k] = pc[k]
  BY <1>0, <1>2, ContinueTypes DEF Phase
<1>4. TypeOK'
  BY <1>0, <1>3 DEF TypeOK, refs, world
<1>5. ~Engaged(h)' /\ DecidingOf(h)' /\ CallingOf(h)'
  BY <1>2, <1>3 DEF Engaged, DecidingOf, CallingOf, Implementing, Reviewing, Reserved
<1>6. SavingOf(h)'
  <2>1. /\ Saved(h)'.depth = q.depth + 1 /\ Saved(h)'.stage = q.stage
        /\ Saved(h)'.reserved = q.reserved /\ Saved(h)'.corrections = q.corrections
        /\ Saved(h)'.candidate = q.candidate
    BY <1>3 DEF Saved, Progress
  <2>2. ASSUME Fits(Saved(h))' PROVE progress' = progress /\ mine[h] = progress /\ progress.stage \in Open
    BY <1>0, <1>2, <2>1, <2>2 DEF Fits, refs, Progress
  <2>3. ASSUME Fits(Saved(h))' PROVE Follows(Saved(h))'
    <3>1. Counted(Saved(h))'
      BY <1>2, <2>1 DEF Counted
    <3>2. Continues(Saved(h))'
      BY <1>2, <2>1, <2>2, <2>3 DEF Continues, Reserved
    <3>3. Placed(Saved(h))'
      <4>1. q.stage = "reviewer_reserved" =>
              progress.stage = "candidate_ready" /\ q.candidate = progress.candidate
        BY <1>2, <2>2, <2>3
      <4>. QED BY <1>0, <1>2, <2>1, <4>1 DEF Placed, DevInv, ProgressInv, world
    <3>. QED BY <3>1, <3>2, <3>3 DEF Follows
  <2>. QED BY <1>0, <1>2, <1>3, <2>2, <2>3 DEF SavingOf, refs
<1>. QED BY <1>0, <1>3, <1>4, <1>5, <1>6, OwnStepOf DEF world

(* CommitStep, of one handler. *)
LEMMA CommitStepOf ==
  ASSUME DevInv, TypeOK', NEW h \in Handler, NEW p \in Progress,
         Fits(p), Follows(p), progress' = p,
         UNCHANGED <<orphans, candidateRef, cleared, launched>>,
         \A k \in Handler : k # h => pc'[k] = pc[k] /\ mine'[k] = mine[k] /\ ~Engaged(k),
         \/ pc'[h] = "idle"
         \/ /\ mine'[h] = p
            /\ \/ pc'[h] = "decide" /\ p.stage \in Open
               \/ pc'[h] = "implement" /\ p.stage = "implementer_reserved"
               \/ pc'[h] = "review" /\ p.stage = "reviewer_reserved",
         answers = {},
         "completed" \in answers' => p.stage = "accepted",
         "failed" \in answers' => p.stage \in {"findings", "failed"}
  PROVE  DevInv'
<1>. DEFINE H == {h}
<1>1. H \in SUBSET Handler /\ (\A k \in H : k = h) /\ h \in H /\ \A k, j \in H : k = j
  OBVIOUS
<1>2. \A k \in Handler \ H : pc'[k] = pc[k] /\ mine'[k] = mine[k] /\ ~Engaged(k)
  OBVIOUS
<1>. HIDE DEF H
<1>3. \A k \in H : \/ pc'[k] = "idle"
                   \/ /\ mine'[k] = p
                      /\ \/ pc'[k] = "decide" /\ p.stage \in Open
                         \/ pc'[k] = "implement" /\ p.stage = "implementer_reserved"
                         \/ pc'[k] = "review" /\ p.stage = "reviewer_reserved"
  BY <1>1
<1>. QED BY <1>1, <1>2, <1>3, CommitStep

(* What a handler saves, if it fits, is lawful, and nobody else is engaged.  *)
LEMMA SavedFollows ==
  ASSUME DevInv, NEW h \in Handler, Saves(h), Fits(Saved(h))
  PROVE  /\ Follows(Saved(h)) /\ Saved(h) \in Progress /\ answers = {}
         /\ \A k \in Handler : k # h => ~Engaged(k)
<1>1. SavingOf(h) /\ EngagedOf(h) /\ progress.stage \in Stage
  BY DEF DevInv, HandlerInv, TypeOK, Progress
<1>2. Follows(Saved(h)) /\ Saved(h) \in Progress
  BY <1>1, SavedFields DEF SavingOf, DevInv
<1>3. ~Engaged(h) => ~(progress.stage \in Reserved \union Terminal)
  BY <1>1, Kinds DEF SavingOf
<1>4. answers = {}
  BY <1>3 DEF DevInv, AnswerInv
<1>5. ASSUME NEW k \in Handler, k # h, Engaged(k) PROVE FALSE
  <2>1. EngagedOf(k)
    BY DEF DevInv, HandlerInv
  <2>. QED BY <1>3, <1>5, <2>1 DEF EngagedOf
<1>. QED BY <1>2, <1>4, <1>5

LEMMA SaveStep ==
  ASSUME DevInv, NEW h \in Handler, Save(h)
  PROVE  DevInv'
<1>. DEFINE p == Saved(h)
<1>0. /\ TypeOK /\ Saves(h) /\ Fits(p) /\ progress' = p
      /\ UNCHANGED <<orphans, world, faults>>
  BY DEF DevInv, Save
<1>1. /\ Follows(p) /\ p \in Progress /\ answers = {}
      /\ \A k \in Handler : k # h => ~Engaged(k)
  BY <1>0, SavedFollows
<1>2. p.stage = mine[h].stage /\ p.stage \in Stage
  BY <1>0, <1>1, SavedFields DEF Progress
<1>3. CASE p.stage \in Terminal
  <2>1. Return(h, p.stage) /\ UNCHANGED held
    BY <1>2, <1>3 DEF Save
  <2>. HIDE DEF p
  <2>2. /\ pc' \in [Handler -> Phase] /\ pc'[h] = "idle"
        /\ \A k \in Handler : k # h => pc'[k] = pc[k]
        /\ answers' \subseteq {"completed", "failed"}
        /\ "completed" \in answers' \ answers => p.stage = "accepted"
        /\ "failed" \in answers' \ answers => p.stage \in {"findings", "failed"}
    BY <1>0, <1>2, <2>1, ReturnTypes
  <2>3. TypeOK'
    BY <1>0, <1>1, <2>1, <2>2 DEF TypeOK, world, held
  <2>. QED BY <1>0, <1>1, <2>1, <2>2, <2>3, CommitStepOf DEF world, held
<1>4. CASE ~(p.stage \in Terminal)
  <2>. DEFINE phase == CASE mine[h].stage = "implementer_reserved" -> "implement"
                         [] mine[h].stage = "reviewer_reserved" -> "review"
                         [] OTHER -> "decide"
  <2>1. Continue(h, p, phase)
    BY <1>2, <1>4 DEF Save
  <2>2. \/ phase = "decide" /\ p.stage \in Open
        \/ phase = "implement" /\ p.stage = "implementer_reserved"
        \/ phase = "review" /\ p.stage = "reviewer_reserved"
    <3>1. p.stage \in Open \/ p.stage \in Reserved
      BY <1>2, <1>4, Kinds
    <3>. QED BY <1>2, <3>1 DEF Open, Reserved
  <2>. HIDE DEF p, phase
  <2>3. phase \in Phase
    BY <2>2 DEF Phase
  <2>4. /\ mine' \in [Handler -> Progress] /\ pc' \in [Handler -> Phase]
        /\ answers' = answers /\ expected' = expected
        /\ mine'[h] = p /\ pc'[h] = phase
        /\ \A k \in Handler : k # h => mine'[k] = mine[k] /\ pc'[k] = pc[k]
    BY <1>0, <1>1, <2>1, <2>3, ContinueTypes
  <2>5. TypeOK'
    BY <1>0, <1>1, <2>4 DEF TypeOK, world
  <2>. QED BY <1>0, <1>1, <2>2, <2>4, <2>5, CommitStepOf DEF world
<1>. QED BY <1>3, <1>4

(* The handler ends at a save it cannot confirm. *)
LEMMA AbandonStep ==
  ASSUME DevInv, NEW h \in Handler, Saves(h), Unconfirmed(h), UNCHANGED <<world, held>>,
         pc' \in [Handler -> Phase], pc'[h] = "idle",
         \A k \in Handler : k # h => pc'[k] = pc[k],
         answers' \subseteq {"completed", "failed"}, answers \subseteq answers',
         "completed" \notin answers' \ answers,
         "failed" \in answers' \ answers => pc[h] = "record" /\ mine[h].stage = "failed"
  PROVE  DevInv'
<1>0. TypeOK /\ Saved(h) \in Progress /\ Saved(h).stage = mine[h].stage
  BY SavedFields DEF DevInv
<1>1. TypeOK'
  BY <1>0 DEF TypeOK, Unconfirmed, Fault, refs, world, held
<1>2. CASE progress' = progress
  <2>1. \A p \in orphans' : p \in orphans \/ (Saves(h) /\ p = Saved(h) /\ Fits(p))
    <3>1. CASE UNCHANGED refs
      BY <3>1 DEF refs
    <3>2. CASE Fits(Saved(h)) /\ orphans' = orphans \union {Saved(h)}
      BY <3>2
    <3>3. CASE UNCHANGED orphans
      BY <3>3
    <3>. QED BY <3>1, <3>2, <3>3 DEF Unconfirmed
  <2>. QED BY <1>1, <1>2, <2>1, QuitStep DEF world, held
<1>3. CASE Fits(Saved(h)) /\ progress' = Saved(h) /\ UNCHANGED orphans
  <2>1. /\ Follows(Saved(h)) /\ answers = {}
        /\ \A k \in Handler : k # h => ~Engaged(k)
    BY <1>3, SavedFollows
  <2>. DEFINE p == Saved(h)
  <2>2. /\ p \in Progress /\ Fits(p) /\ Follows(p) /\ progress' = p
        /\ "completed" \in answers' => p.stage = "accepted"
        /\ "failed" \in answers' => p.stage \in {"findings", "failed"}
    BY <1>0, <1>3, <2>1
  <2>. HIDE DEF p
  <2>. QED BY <1>1, <1>3, <2>1, <2>2, CommitStepOf DEF world, held
<1>. QED BY <1>2, <1>3 DEF Unconfirmed, refs

LEMMA SaveFailsStep ==
  ASSUME DevInv, NEW h \in Handler, SaveFails(h)
  PROVE  DevInv'
<1>. DEFINE s == IF pc[h] = "record" THEN mine[h].stage ELSE "unresolved"
<1>0. /\ TypeOK /\ Saves(h) /\ Unconfirmed(h) /\ Return(h, s) /\ UNCHANGED <<world, held>>
  BY DEF DevInv, SaveFails
<1>1. /\ s \in {"failed", "unresolved"}
      /\ s = "failed" => pc[h] = "record" /\ mine[h].stage = "failed"
  BY <1>0 DEF DevInv, HandlerInv, SavingOf
<1>. HIDE DEF s
<1>2. s \in Stage
  BY <1>1 DEF Stage, Terminal
<1>3. /\ pc' \in [Handler -> Phase] /\ pc'[h] = "idle"
      /\ \A k \in Handler : k # h => pc'[k] = pc[k]
      /\ answers' \subseteq {"completed", "failed"}
      /\ answers \subseteq answers'
      /\ "completed" \in answers' \ answers => s = "accepted"
      /\ "failed" \in answers' \ answers => s \in {"findings", "failed"}
  BY <1>0, <1>2, ReturnTypes
<1>. QED BY <1>0, <1>1, <1>3, AbandonStep

LEMMA DieStep ==
  ASSUME DevInv, NEW h \in Handler, Die(h)
  PROVE  DevInv'
<1>0. /\ TypeOK /\ Go(h, "idle") /\ UNCHANGED <<launched, cleared, expired, answers, held>>
      /\ pc' \in [Handler -> Phase] /\ pc'[h] = "idle"
      /\ \A k \in Handler : k # h => pc'[k] = pc[k]
  BY GoTypes DEF DevInv, Die, Phase
<1>1. CASE UNCHANGED <<refs, candidateRef, faults>>
  <2>1. TypeOK'
    BY <1>0, <1>1 DEF TypeOK, refs, held
  <2>. QED BY <1>0, <1>1, <2>1, QuitStep DEF refs, held
<1>2. CASE Saves(h) /\ Unconfirmed(h) /\ UNCHANGED candidateRef
  <2>1. UNCHANGED <<world, held>> /\ answers' = answers /\ answers \subseteq {"completed", "failed"}
    BY <1>0, <1>2 DEF world, TypeOK
  <2>. QED BY <1>0, <1>2, <2>1, AbandonStep
<1>3. CASE pc[h] = "promote" /\ Fault /\ Promoted(h) /\ UNCHANGED refs
  <2>1. /\ mine[h] = progress /\ mine[h].reserved \in Call /\ Engaged(h)
        /\ progress.stage = "implementer_reserved"
    BY <1>3, CallReserved DEF DevInv, HandlerInv, CallingOf, Implementing
  <2>2. candidateRef' \in Commit /\ faults' \in Nat
    BY <1>0, <1>3, <2>1, ConstantTypes DEF Promoted, Fault, TypeOK
  <2>3. TypeOK'
    BY <1>0, <1>3, <2>2 DEF TypeOK, refs, held
  <2>4. ~Engaged(h)' /\ SavingOf(h)' /\ DecidingOf(h)' /\ CallingOf(h)'
    BY <1>0 DEF Engaged, SavingOf, Saves, DecidingOf, CallingOf, Implementing, Reviewing
  <2>. QED BY <1>0, <1>3, <2>1, <2>3, <2>4, OwnStepOf DEF held
<1>. QED BY <1>1, <1>2, <1>3 DEF Die

LEMMA OrphanStep ==
  ASSUME DevInv, OrphanEnds
  PROVE  DevInv'
<1>1. PICK p \in orphans :
        /\ orphans' = orphans \ {p}
        /\ UNCHANGED progress \/ (Fits(p) /\ progress' = p)
        /\ UNCHANGED <<world, answers, faults, pc, held>>
  BY DEF OrphanEnds
<1>2. TypeOK /\ TypeOK' /\ p \in Progress /\ {} \in SUBSET Handler
  BY <1>1 DEF DevInv, TypeOK, world, held
<1>3. CASE UNCHANGED progress
  BY <1>1, <1>2, <1>3, OwnStep DEF world, held
<1>4. CASE Fits(p) /\ progress' = p
  <2>1. Follows(p)
    BY <1>4 DEF DevInv, OrphanInv, OrphanOf
  <2>2. \A k \in Handler : ~Engaged(k)
    BY <1>4 DEF DevInv, HandlerInv, EngagedOf
  <2>3. answers # {} => p.stage \in {"failed", "unresolved"}
    BY <1>4 DEF DevInv, AnswerInv
  <2>. QED BY <1>1, <1>2, <1>4, <2>1, <2>2, <2>3, CommitStep DEF world, held
<1>. QED BY <1>1, <1>3, <1>4

-----------------------------------------------------------------------------
(* The steps of a call *)

LEMMA FailsStep ==
  ASSUME DevInv, NEW h \in Handler, pc[h] \in Implementing \union Reviewing, Fails(h),
         UNCHANGED <<refs, launched, cleared, expired>>, faults' \in Nat,
         \/ candidateRef' = candidateRef
         \/ pc[h] \in Implementing /\ candidateRef' \in Commit
  PROVE  DevInv'
<1>0. /\ TypeOK /\ mine[h] = progress /\ progress.stage \in Reserved /\ Engaged(h)
      /\ pc[h] \in Implementing => progress.stage = "implementer_reserved"
  BY CallReserved DEF DevInv, HandlerInv, CallingOf
<1>1. /\ mine' \in [Handler -> Progress] /\ pc' \in [Handler -> Phase]
      /\ answers' = answers /\ expected' = expected
      /\ \A k \in Handler : k # h => mine'[k] = mine[k] /\ pc'[k] = pc[k]
      /\ pc'[h] = "record"
  BY <1>0, FailsTypes
<1>2. PICK s \in {"failed", "unresolved"} : mine'[h] = AtStage(h, s)
  BY <1>0, FailsTypes
<1>3. TypeOK'
  BY <1>0, <1>1 DEF TypeOK, refs
<1>4. /\ mine'[h].depth = mine[h].depth /\ mine'[h].stage = s
      /\ mine'[h].reserved = mine[h].reserved /\ mine'[h].corrections = mine[h].corrections
  BY <1>0, <1>2, AtStageTypes DEF Stage, Terminal
<1>5. Counted(mine[h])' /\ Placed(mine[h])'
  BY <1>0, <1>4 DEF Counted, Placed, DevInv, ProgressInv
<1>6. SavingOf(h)' /\ DecidingOf(h)' /\ CallingOf(h)'
  BY <1>1, <1>3, <1>4, <1>5, OutcomeStep DEF refs, Reserved
<1>. QED BY <1>0, <1>1, <1>3, <1>4, <1>6, OwnStepOf DEF refs

LEMMA CallSteps ==
  ASSUME DevInv, NEW h \in Handler,
         ImplementFails(h) \/ MoveFails(h) \/ RemoveRaises(h) \/ ReviewFails(h)
  PROVE  DevInv'
<1>0. TypeOK /\ "unresolved" \in {"failed", "unresolved"}
  BY DEF DevInv
<1>1. /\ pc[h] \in Implementing \union Reviewing /\ Fails(h)
      /\ UNCHANGED <<refs, launched, cleared, expired>>
  <2>1. CASE ImplementFails(h)
    BY <2>1 DEF ImplementFails, Implementing, world
  <2>2. CASE MoveFails(h)
    BY <2>2 DEF MoveFails, Implementing
  <2>3. CASE RemoveRaises(h)
    BY <2>3 DEF RemoveRaises, Implementing, world
  <2>4. CASE ReviewFails(h)
    <3>1. /\ pc[h] \in Reviewing /\ UNCHANGED <<refs, launched, cleared, expired>>
          /\ Fails(h) \/ Continue(h, AtStage(h, "unresolved"), "record")
      BY <2>4 DEF ReviewFails, Reviewing, world
    <3>. QED BY <3>1 DEF Fails
  <2>. QED BY <2>1, <2>2, <2>3, <2>4
<1>2. /\ faults' \in Nat
      /\ \/ candidateRef' = candidateRef
         \/ pc[h] \in Implementing /\ candidateRef' \in Commit
  <2>1. CASE MoveFails(h)
    <3>1. CASE UNCHANGED <<candidateRef, faults>>
      BY <1>0, <3>1 DEF TypeOK
    <3>2. CASE Fault /\ Promoted(h)
      <4>1. pc[h] \in Implementing /\ mine[h].reserved \in Call
        BY <2>1, CallReserved DEF MoveFails, Implementing
      <4>. QED BY <1>0, <3>2, <4>1, ConstantTypes DEF Fault, Promoted, TypeOK
    <3>. QED BY <2>1, <3>1, <3>2 DEF MoveFails
  <2>2. CASE ImplementFails(h) \/ RemoveRaises(h) \/ ReviewFails(h)
    BY <1>0, <2>2 DEF ImplementFails, RemoveRaises, ReviewFails, world, TypeOK
  <2>. QED BY <2>1, <2>2
<1>. QED BY <1>1, <1>2, FailsStep

LEMMA EndStep ==
  ASSUME DevInv, NEW h \in Handler, OutOfTime(h)
  PROVE  DevInv'
<1>1. /\ TypeOK /\ pc' \in [Handler -> Phase] /\ pc'[h] = "idle"
      /\ \A k \in Handler : k # h => pc'[k] = pc[k]
      /\ UNCHANGED <<refs, world, answers, faults, held>>
  BY GoTypes DEF DevInv, OutOfTime, Phase
<1>2. TypeOK'
  BY <1>1 DEF TypeOK, refs, world, held
<1>. QED BY <1>1, <1>2, QuitStep DEF refs, world, held

LEMMA LaunchStep ==
  ASSUME DevInv, NEW h \in Handler, Launch(h) \/ LaunchReview(h)
  PROVE  DevInv'
<1>0. /\ TypeOK /\ Make(h)
      /\ UNCHANGED <<refs, cleared, candidateRef, expired, answers, faults, held>>
      /\ \/ pc[h] = "implement" /\ Go(h, "working")
         \/ pc[h] = "review" /\ Go(h, "reviewing")
  BY DEF DevInv, Launch, LaunchReview
<1>1. /\ pc' \in [Handler -> Phase] /\ \A k \in Handler : k # h => pc'[k] = pc[k]
      /\ \/ pc[h] = "implement" /\ pc'[h] = "working"
         \/ pc[h] = "review" /\ pc'[h] = "reviewing"
  BY <1>0, GoTypes DEF Phase
<1>2. mine[h] = progress /\ mine[h].reserved \in Call /\ Engaged(h)
  BY <1>1, CallReserved DEF Implementing, Reviewing
<1>3. /\ launched' \in [Call -> Nat]
      /\ \A n \in Call : launched'[n] # launched[n] => n = progress.reserved
  BY <1>0, <1>2 DEF Make, TypeOK
<1>4. TypeOK'
  BY <1>0, <1>1, <1>3 DEF TypeOK, refs, held
<1>5. SavingOf(h)' /\ DecidingOf(h)'
  BY <1>1 DEF SavingOf, Saves, DecidingOf
<1>6. CallingOf(h)'
  BY <1>0, <1>1 DEF DevInv, HandlerInv, CallingOf, Implementing, Reviewing, refs, held
<1>. QED BY <1>0, <1>1, <1>2, <1>3, <1>4, <1>5, <1>6, OwnStepOf DEF refs, held

LEMMA PromoteStep ==
  ASSUME DevInv, NEW h \in Handler, Inspect(h) \/ Move(h)
  PROVE  DevInv'
<1>0. TypeOK
  BY DEF DevInv
<1>1. CASE Inspect(h) /\ candidateRef \notin {None, Start(h)}
  <2>1. Fails(h) /\ pc[h] \in Implementing /\ UNCHANGED <<refs, world, faults>>
    BY <1>1 DEF Inspect, Fails, Implementing
  <2>. QED BY <1>0, <2>1, FailsStep DEF world, TypeOK
<1>2. CASE (Inspect(h) /\ candidateRef \in {None, Start(h)}) \/ Move(h)
  <2>1. /\ UNCHANGED <<refs, launched, cleared, expired, answers, faults, mine>>
        /\ \/ pc[h] = "working" /\ Go(h, "promote") /\ UNCHANGED candidateRef
              /\ expected' = [expected EXCEPT ![h] = candidateRef]
           \/ pc[h] = "promote" /\ Go(h, "remove") /\ candidateRef' = mine[h].reserved
              /\ UNCHANGED expected
    BY <1>2 DEF Inspect, Move, Promoted, world, held
  <2>2. /\ pc' \in [Handler -> Phase] /\ \A k \in Handler : k # h => pc'[k] = pc[k]
        /\ \/ pc'[h] = "promote" /\ candidateRef' = candidateRef
           \/ pc'[h] = "remove" /\ candidateRef' = mine[h].reserved
    BY <1>0, <2>1, GoTypes DEF Phase
  <2>3. /\ mine[h] = progress /\ mine[h].reserved \in Call /\ Engaged(h)
        /\ progress.stage = "implementer_reserved"
    BY <2>1, CallReserved DEF DevInv, HandlerInv, CallingOf, Implementing
  <2>4. candidateRef' \in Commit \union {None} /\ expected' \in [Handler -> Commit \union {None}]
    BY <1>0, <2>1, <2>3, ConstantTypes DEF TypeOK
  <2>5. TypeOK'
    BY <1>0, <2>1, <2>2, <2>4 DEF TypeOK, refs
  <2>6. SavingOf(h)' /\ DecidingOf(h)' /\ CallingOf(h)'
    BY <2>1, <2>2, <2>3 DEF SavingOf, Saves, DecidingOf, CallingOf, Implementing, Reviewing, refs
  <2>. QED BY <2>1, <2>2, <2>3, <2>5, <2>6, OwnStepOf
<1>. QED BY <1>1, <1>2

LEMMA FinishStep ==
  ASSUME DevInv, NEW h \in Handler, Finish(h)
  PROVE  DevInv'
<1>0. /\ TypeOK /\ pc[h] = "remove" /\ UNCHANGED <<refs, world, faults>>
      /\ mine[h] \in Progress
  BY DEF DevInv, TypeOK, Finish
<1>1. /\ mine[h] = progress /\ mine[h].reserved \in Call /\ Engaged(h)
      /\ progress.stage = "implementer_reserved"
      /\ candidateRef \in {mine[h].reserved, Foreign}
  BY <1>0, CallReserved DEF DevInv, HandlerInv, CallingOf, Implementing
<1>2. PICK s \in {"candidate_ready", "unresolved"} :
        Continue(h, [[mine[h] EXCEPT !.candidate = mine[h].reserved] EXCEPT !.stage = s],
                 IF s = "unresolved" THEN "record" ELSE "save")
  BY DEF Finish
<1>. DEFINE q == [[mine[h] EXCEPT !.candidate = mine[h].reserved] EXCEPT !.stage = s]
            phase == IF s = "unresolved" THEN "record" ELSE "save"
<1>3. /\ q \in Progress
      /\ q.depth = mine[h].depth /\ q.stage = s /\ q.candidate = mine[h].reserved
      /\ q.reserved = mine[h].reserved /\ q.corrections = mine[h].corrections
  BY <1>0, <1>1, ConstantTypes DEF Progress, Stage, Terminal
<1>4. Continue(h, q, phase) /\ phase \in Phase
  BY <1>2 DEF Phase
<1>. HIDE DEF q
<1>5. /\ mine' \in [Handler -> Progress] /\ pc' \in [Handler -> Phase]
      /\ answers' = answers /\ expected' = expected
      /\ mine'[h] = q /\ pc'[h] = phase
      /\ \A k \in Handler : k # h => mine'[k] = mine[k] /\ pc'[k] = pc[k]
  BY <1>0, <1>3, <1>4, ContinueTypes
<1>6. TypeOK'
  BY <1>0, <1>5 DEF TypeOK, refs, world
<1>7. Counted(mine[h])' /\ Placed(mine[h])'
  <2>1. Counted(progress)
    BY DEF DevInv, ProgressInv
  <2>2. candidateRef' = candidateRef /\ mine[h].reserved # None
    BY <1>0, <1>1, ConstantTypes DEF world
  <2>. QED BY <1>1, <1>3, <1>5, <2>1, <2>2 DEF Counted, Placed
<1>8. SavingOf(h)' /\ DecidingOf(h)' /\ CallingOf(h)'
  BY <1>0, <1>3, <1>5, <1>6, <1>7, OutcomeStep DEF Implementing, refs, Reserved
<1>. QED BY <1>0, <1>1, <1>3, <1>5, <1>6, <1>8, OwnStepOf DEF world

LEMMA ReviewStep ==
  ASSUME DevInv, NEW h \in Handler, Review(h)
  PROVE  DevInv'
<1>0. /\ TypeOK /\ pc[h] = "reviewing"
      /\ UNCHANGED <<refs, launched, candidateRef, expired, faults>>
  BY DEF DevInv, Review
<1>1. /\ mine[h] = progress /\ Engaged(h) /\ progress.stage = "reviewer_reserved"
      /\ mine[h].candidate # None /\ candidateRef \in {mine[h].candidate, Foreign}
      /\ Counted(progress) /\ mine[h] \in Progress
  BY <1>0, CallReserved
     DEF DevInv, HandlerInv, CallingOf, Reviewing, ProgressInv, Placed, TypeOK
<1>2. \E s \in {"accepted", "correction_pending", "findings", "unresolved"} :
        /\ Continue(h, AtStage(h, s), "save")
        /\ s = "correction_pending" => mine[h].corrections < MaxCorrections
        /\ cleared' = cleared \union (IF s = "accepted" THEN {mine[h].candidate} ELSE {})
  <2>1. AfterFindings(mine[h]) = IF mine[h].corrections < MaxCorrections
                                   THEN "correction_pending" ELSE "findings"
    BY DEF AfterFindings
  <2>. QED BY <2>1 DEF Review
<1>3. PICK s \in {"accepted", "correction_pending", "findings", "unresolved"} :
        /\ Continue(h, AtStage(h, s), "save")
        /\ s = "correction_pending" => mine[h].corrections < MaxCorrections
        /\ cleared' = cleared \union (IF s = "accepted" THEN {mine[h].candidate} ELSE {})
  BY <1>2
<1>4. /\ AtStage(h, s) \in Progress
      /\ AtStage(h, s).depth = mine[h].depth /\ AtStage(h, s).stage = s
      /\ AtStage(h, s).reserved = mine[h].reserved
      /\ AtStage(h, s).corrections = mine[h].corrections
      /\ AtStage(h, s).candidate = mine[h].candidate
  BY <1>0, AtStageTypes DEF Stage, Terminal
<1>5. /\ mine' \in [Handler -> Progress] /\ pc' \in [Handler -> Phase]
      /\ answers' = answers /\ expected' = expected
      /\ mine'[h] = AtStage(h, s) /\ pc'[h] = "save"
      /\ \A k \in Handler : k # h => mine'[k] = mine[k] /\ pc'[k] = pc[k]
  BY <1>0, <1>3, <1>4, ContinueTypes DEF Phase
<1>6. /\ cleared \subseteq cleared' /\ cleared' \subseteq Commit
      /\ s = "accepted" => mine[h].candidate \in cleared'
  BY <1>0, <1>1, <1>3 DEF TypeOK, Progress
<1>7. TypeOK'
  BY <1>0, <1>5, <1>6 DEF TypeOK, refs
<1>8. Counted(mine[h])' /\ Placed(mine[h])'
  BY <1>0, <1>1, <1>3, <1>4, <1>5, <1>6 DEF Counted, Placed
<1>9. SavingOf(h)' /\ DecidingOf(h)' /\ CallingOf(h)'
  BY <1>0, <1>4, <1>5, <1>7, <1>8, OutcomeStep DEF Reviewing, refs, Reserved
<1>. QED BY <1>0, <1>1, <1>4, <1>5, <1>6, <1>7, <1>9, OwnStepOf

LEMMA OthersStep ==
  ASSUME DevInv, Expire \/ Outsider \/ UNCHANGED vars
  PROVE  DevInv'
<1>1. /\ UNCHANGED <<progress, answers, orphans, cleared, launched, pc, mine>>
      /\ candidateRef' \in {candidateRef, Foreign}
  BY DEF Expire, Outsider, refs, world, held, vars
<1>2. TypeOK' /\ {} \in SUBSET Handler
  BY <1>1, ConstantTypes DEF DevInv, TypeOK, Expire, Outsider, refs, world, held, vars
<1>. QED BY <1>1, <1>2, OwnStep

LEMMA DevInit ==
  ASSUME Init
  PROVE  DevInv
<1>1. Imported \in Progress
  BY ConstantTypes DEF Imported, Progress, Stage
<1>2. TypeOK
  BY <1>1, ConstantTypes DEF Init, TypeOK, Phase
<1>3. ProgressInv
  BY DEF Init, ProgressInv, Counted, Placed, Imported
<1>4. HandlerInv
  BY DEF Init, HandlerInv, SavingOf, Saves, DecidingOf, EngagedOf, CallingOf, Engaged,
         Implementing, Reviewing
<1>5. OrphanInv /\ LaunchInv /\ AnswerInv /\ AnswersStand
  BY DEF Init, OrphanInv, LaunchInv, AnswerInv, AnswersStand
<1>. QED BY <1>2, <1>3, <1>4, <1>5 DEF DevInv

LEMMA DevNext ==
  ASSUME DevInv, [Next]_vars
  PROVE  DevInv'
<1>1. ASSUME NEW h \in Handler, Step(h) PROVE DevInv'
  BY <1>1, DecideStep, SaveStep, SaveFailsStep, EndStep, LaunchStep, CallSteps, PromoteStep,
     FinishStep, ReviewStep DEF Step
<1>. QED BY <1>1, LoadStep, DieStep, OrphanStep, OthersStep DEF Next

-----------------------------------------------------------------------------

(* Whatever the handlers, the faults and the late git children do, DevInv    *)
(* holds (development.py:2240).                                              *)
THEOREM DevelopmentInductive == Spec => []DevInv
BY DevInit, DevNext, PTL DEF Spec

(* What was accepted was reviewed, what was answered stands, and the calls   *)
(* reserved are those of the corrections counted (development.py:2333, 2405, *)
(* 2510).                                                                    *)
THEOREM OutcomesStand == Spec => []OutcomeInv
<1>1. DevInv => OutcomeInv
  BY DEF DevInv, ProgressInv, Counted, Placed, OutcomeInv, AcceptedAsReviewed,
         BudgetKept
<1>. QED BY <1>1, DevelopmentInductive, PTL

(* Once some handler has answered, no provider is called again, whoever runs *)
(* the handler anew (development.py:2285).                                   *)
THEOREM AnswersEndCalls == Spec => NoCallAfterAnswer
<1>1. ASSUME DevInv, [Next]_vars PROVE answers # {} => UNCHANGED launched
  <2>1. ASSUME NEW h \in Handler, Launch(h) \/ LaunchReview(h) PROVE answers = {}
    <3>1. Engaged(h)
      BY <2>1 DEF Launch, LaunchReview, Engaged, Implementing, Reviewing
    <3>. QED BY <1>1, <3>1 DEF DevInv, AnswerInv
  <2>2. ASSUME NEW h \in Handler, Step(h), ~Launch(h), ~LaunchReview(h)
        PROVE  UNCHANGED launched
    BY <2>2 DEF Step, Stop, ReserveImplementer, ReserveReviewer, Save, SaveFails, OutOfTime,
         ImplementFails, Inspect, Move, MoveFails, Finish, RemoveRaises, ReviewFails, Review, world
  <2>3. ASSUME (\E h \in Handler : Load(h) \/ Die(h)) \/ OrphanEnds \/ Expire \/ Outsider
               \/ UNCHANGED vars
        PROVE  UNCHANGED launched
    BY <2>3 DEF Load, Die, OrphanEnds, Expire, Outsider, world, vars
  <2>. QED BY <1>1, <2>1, <2>2, <2>3 DEF Next
<1>2. DevInv /\ [Next]_vars => [answers # {} => UNCHANGED launched]_vars
  BY <1>1
<1>. QED BY <1>2, DevelopmentInductive, PTL DEF Spec, NoCallAfterAnswer

-----------------------------------------------------------------------------
(* The provider ledger *)

(* The ref moves to lawful successors only. *)
LEMMA MovesLawfully ==
  ASSUME DevInv, [Next]_vars, progress' # progress
  PROVE  Continues(progress') /\ launched' = launched
<1>1. ASSUME NEW h \in Handler, Saves(h), Fits(Saved(h)), progress' = Saved(h)
      PROVE  Continues(progress')
  BY <1>1, SavedFollows DEF Follows
<1>2. ASSUME NEW h \in Handler, Save(h) \/ SaveFails(h) \/ Die(h)
      PROVE  Continues(progress') /\ launched' = launched
  <2>1. launched' = launched
    BY <1>2 DEF Save, SaveFails, Die, world
  <2>2. Saves(h) /\ Fits(Saved(h)) /\ progress' = Saved(h)
    BY <1>2 DEF Save, SaveFails, Die, Unconfirmed, refs
  <2>. QED BY <1>1, <2>1, <2>2
<1>3. CASE OrphanEnds
  <2>1. PICK p \in orphans : /\ UNCHANGED progress \/ (Fits(p) /\ progress' = p)
                             /\ UNCHANGED world
    BY <1>3 DEF OrphanEnds
  <2>. QED BY <2>1 DEF DevInv, OrphanInv, OrphanOf, Follows, world
<1>4. ASSUME NEW h \in Handler, Step(h), ~Save(h), ~SaveFails(h) PROVE FALSE
  BY <1>4 DEF Step, Stop, ReserveImplementer, ReserveReviewer, OutOfTime, Launch, LaunchReview,
       ImplementFails, Inspect, Move, MoveFails, Finish, RemoveRaises, ReviewFails, Review, refs
<1>5. ASSUME (\E h \in Handler : Load(h)) \/ Expire \/ Outsider \/ UNCHANGED vars
      PROVE  FALSE
  BY <1>5 DEF Load, Expire, Outsider, refs, vars
<1>. QED BY <1>2, <1>3, <1>4, <1>5 DEF Next

(* A call is made on the latest reservation, for the first time. *)
LEMMA LaunchesOnce ==
  ASSUME DevInv, [Next]_vars, launched' # launched
  PROVE  /\ progress' = progress /\ progress.stage \in Reserved
         /\ progress.reserved \in Call /\ launched[progress.reserved] = 0
         /\ launched' = [launched EXCEPT ![progress.reserved] = 1]
<1>1. PICK h \in Handler : Launch(h) \/ LaunchReview(h)
  <2>1. ASSUME NEW h \in Handler, Step(h), ~Launch(h), ~LaunchReview(h)
        PROVE  FALSE
    BY <2>1 DEF Step, Stop, ReserveImplementer, ReserveReviewer, Save, SaveFails, OutOfTime,
         ImplementFails, Inspect, Move, MoveFails, Finish, RemoveRaises, ReviewFails, Review, world
  <2>2. ASSUME (\E h \in Handler : Load(h) \/ Die(h)) \/ OrphanEnds \/ Expire \/ Outsider
               \/ UNCHANGED vars
        PROVE  FALSE
    BY <2>2 DEF Load, Die, OrphanEnds, Expire, Outsider, world, vars
  <2>. QED BY <2>1, <2>2 DEF Next
<1>2. /\ pc[h] \in {"implement", "review"} /\ Make(h) /\ progress' = progress
  BY <1>1 DEF Launch, LaunchReview, refs
<1>3. /\ mine[h] = progress /\ progress.stage \in Reserved /\ mine[h].reserved \in Call
      /\ launched[mine[h].reserved] = 0
  BY <1>2, CallReserved DEF DevInv, HandlerInv, CallingOf, Implementing, Reviewing
<1>. QED BY <1>2, <1>3 DEF Make

(* Every provider call is reserved before it is made, made once, within one  *)
(* finite allowance, and not after the task is closed; for any number of     *)
(* handlers and any budgets (development.py:2305).                           *)
THEOREM CallsLedgered == Spec => CallsKept
<1>1. Init => Calls!Init
  BY DEF Init, Calls!Init, Imported, Call, Calls!Call, Terminal
<1>2. DevInv /\ TypeOK' /\ [Next]_vars => [Calls!Next]_(Calls!vars)
  <2>. SUFFICES ASSUME DevInv, TypeOK', [Next]_vars PROVE [Calls!Next]_(Calls!vars)
    OBVIOUS
  <2>0. /\ progress.stage \in Stage /\ progress'.stage \in Stage
        /\ progress.reserved \in 0..MaxInvocations /\ progress'.reserved \in 0..MaxInvocations
    BY DEF DevInv, TypeOK, Progress
  <2>1. CASE launched' # launched
    <3>1. /\ progress' = progress /\ progress.stage \notin Terminal
          /\ progress.reserved > 0 /\ launched[progress.reserved] = 0
          /\ launched' = [launched EXCEPT ![progress.reserved] = 1]
      BY <2>0, <2>1, LaunchesOnce, Kinds DEF Call
    <3>2. Calls!Launch
      BY <3>1 DEF Calls!Launch
    <3>. QED BY <3>2 DEF Calls!Next
  <2>2. CASE progress' # progress
    <3>1. Continues(progress') /\ launched' = launched /\ progress.stage \notin Terminal
      BY <2>2, MovesLawfully, ClosedLast DEF DevInv
    <3>2. CASE progress'.reserved = progress.reserved /\ progress'.stage \in Terminal
      <4>1. Calls!Close
        BY <3>1, <3>2 DEF Calls!Close
      <4>. QED BY <4>1 DEF Calls!Next
    <3>3. CASE progress'.reserved = progress.reserved /\ progress'.stage \notin Terminal
      BY <3>1, <3>3 DEF Calls!vars
    <3>4. CASE progress'.reserved = progress.reserved + 1 /\ progress'.stage \in Reserved
      <4>1. progress'.stage \notin Terminal /\ progress.reserved < MaxInvocations
        BY <2>0, <3>4, Kinds, ConstantTypes
      <4>2. Calls!Reserve
        BY <3>1, <3>4, <4>1 DEF Calls!Reserve
      <4>. QED BY <4>2 DEF Calls!Next
    <3>. QED BY <3>1, <3>2, <3>3, <3>4 DEF Continues
  <2>3. CASE launched' = launched /\ progress' = progress
    BY <2>3 DEF Calls!vars
  <2>. QED BY <2>1, <2>2, <2>3
<1>3. DevInv => TypeOK
  BY DEF DevInv
<1>. QED BY <1>1, <1>2, <1>3, DevelopmentInductive, PTL DEF Spec, CallsKept, Calls!Spec
=============================================================================
