---------------------------- MODULE OutboundLog ----------------------------
(***************************************************************************)
(* What the outbound messages of one environment promise to its peers: a   *)
(* log that only grows at its end and repeats no message ID, and a set of  *)
(* messages somebody was told are in it.  Messaging implements this.       *)
(***************************************************************************)
EXTENDS Sequences, SequencesExt

CONSTANTS
  Message,    \* contents of message.json
  Id          \* Id[m]: the message_id of m

VARIABLES log, acknowledged

vars == <<log, acknowledged>>

NoRepeats(h) ==
  \A i, j \in DOMAIN h : Id[h[i]] = Id[h[j]] => i = j

Init == log = <<>> /\ acknowledged = {}

(* One push may publish several messages. *)
Publish ==
  /\ log' \in Seq(Message)
  /\ IsStrictPrefix(log, log') /\ NoRepeats(log')
  /\ UNCHANGED acknowledged

Acknowledge(m) ==
  /\ m \in ToSet(log)
  /\ acknowledged' = acknowledged \union {m}
  /\ UNCHANGED log

Next == Publish \/ \E m \in Message : Acknowledge(m)

Spec == Init /\ [][Next]_vars
=============================================================================
