--------------------------- MODULE DevelopmentInv ---------------------------
(***************************************************************************)
(* The inductive invariant of DevelopmentWorkflow behind CallsKept,        *)
(* NoCallAfterAnswer, AnswersStand, AcceptedAsReviewed and BudgetKept:     *)
(* whatever may still be attached to the progress ref, by a handler or a   *)
(* late git child, is a lawful successor of what it names now, and from a  *)
(* reservation only the handler that made it goes on.                      *)
(***************************************************************************)
EXTENDS DevelopmentWorkflow

Open == {"imported", "candidate_ready", "correction_pending"}
Implementing == {"implement", "working", "promote", "remove"}
Reviewing == {"review", "reviewing"}

(* The handler acts on a reservation of its own. *)
Engaged(h) ==
  \/ pc[h] \in Implementing \union Reviewing \union {"record"}
  \/ pc[h] = "save" /\ mine[h].stage \notin {"imported", "failed"} \union Reserved

(* The reservations are those of the corrections counted. *)
Counted(p) ==
  /\ p.reserved <= 2 + 2 * p.corrections
  /\ p.stage = "imported" => p.reserved = 0 /\ p.corrections = 0
  /\ p.stage \in {"implementer_reserved", "candidate_ready"} =>
       p.reserved = 1 + 2 * p.corrections
  /\ p.stage \in {"reviewer_reserved", "correction_pending"} =>
       p.reserved = 2 + 2 * p.corrections
  /\ p.stage = "correction_pending" => p.corrections < MaxCorrections

(* The candidate is on its branch, unless others moved it, and was reviewed. *)
Placed(p) ==
  /\ p.stage \in {"candidate_ready", "reviewer_reserved", "correction_pending", "accepted"} =>
       p.candidate # None /\ candidateRef \in {p.candidate, Foreign}
  /\ p.stage = "accepted" => p.candidate \in cleared

(* p may come after what the ref names. *)
Continues(p) ==
  \/ /\ progress.stage \in Open
     /\ \/ p.stage \in {"imported", "failed"} /\ p.reserved = progress.reserved
        \/ p.stage \in Reserved /\ p.reserved = progress.reserved + 1
  \/ /\ progress.stage \in Reserved
     /\ p.stage \notin Reserved \union {"imported"} /\ p.reserved = progress.reserved
Follows(p) == Continues(p) /\ Counted(p) /\ Placed(p)

ProgressInv ==
  /\ Counted(progress) /\ Placed(progress)
  /\ progress.depth = 0 => progress = Imported

OrphanOf(p) ==
  /\ p.depth =< progress.depth + 1
  /\ Fits(p) => Follows(p)
OrphanInv == \A p \in orphans : OrphanOf(p)

(* What a handler is about to do suits the ref it works on, if that is still *)
(* what it was.                                                              *)
SavingOf(h) ==
  Saves(h) =>
    /\ mine[h].depth =< progress.depth
    /\ Fits(Saved(h)) => Follows(Saved(h))
    /\ Fits(Saved(h)) /\ ~Engaged(h) => progress.stage \in Open
    /\ pc[h] = "record" => mine[h].stage \in {"failed", "unresolved"}
DecidingOf(h) ==
  pc[h] = "decide" =>
    /\ mine[h].stage \in Open /\ mine[h].depth =< progress.depth /\ Counted(mine[h])
    /\ mine[h].depth = progress.depth => mine[h] = progress
EngagedOf(h) ==
  Engaged(h) =>
    /\ progress.stage \in Reserved /\ mine[h].depth = progress.depth
    /\ \A k \in Handler : Engaged(k) => k = h
    /\ \A p \in orphans : ~Fits(p)
CallingOf(h) ==
  /\ pc[h] \in Implementing => mine[h] = progress /\ progress.stage = "implementer_reserved"
  /\ pc[h] \in Reviewing => mine[h] = progress /\ progress.stage = "reviewer_reserved"
  /\ pc[h] \in {"implement", "review"} => launched[mine[h].reserved] = 0
  /\ pc[h] = "remove" => candidateRef \in {mine[h].reserved, Foreign}
HandlerInv == \A h \in Handler : SavingOf(h) /\ DecidingOf(h) /\ EngagedOf(h) /\ CallingOf(h)

(* What is not reserved was not called. *)
LaunchInv == \A n \in Call : n > progress.reserved => launched[n] = 0

(* After an answer nobody is engaged, and nothing new can be reserved.       *)
AnswerInv ==
  answers # {} =>
    /\ progress.stage \in Reserved \union Terminal
    /\ \A h \in Handler : ~Engaged(h)
    /\ \A p \in orphans : Fits(p) => p.stage \in {"failed", "unresolved"}

(* The inductive invariant: what may still be attached follows lawfully, one *)
(* handler at most is past a reservation, and nothing unreserved was called  *)
(* (development.py:2326, 2335).                                              *)
DevInv ==
  /\ TypeOK
  /\ ProgressInv
  /\ OrphanInv
  /\ HandlerInv
  /\ LaunchInv
  /\ AnswerInv
  /\ AnswersStand
=============================================================================
