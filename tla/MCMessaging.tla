---------------------------- MODULE MCMessaging ----------------------------
(* Instances of Messaging for TLC. *)
EXTENDS MessagingInv, TLC

CONSTANTS p1, p2, peer, a, aa, b, c

(* b and c are treated alike: only a and aa have a special place in IdOf. *)
HistorySymmetry == Permutations(Publisher) \union Permutations({b, c})

OwnRoots == [p \in Publisher |-> p]

(* a and aa are different messages with one message_id. *)
IdOf == [m \in Message |-> IF m = aa THEN a ELSE m]
=============================================================================
