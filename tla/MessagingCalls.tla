--------------------------- MODULE MessagingCalls ---------------------------
(***************************************************************************)
(* Messaging with a history variable: the messages that were waiting in    *)
(* the local history, not yet at the destination, when an                  *)
(* append_and_publish_owned_message inspected the destination.             *)
(***************************************************************************)
EXTENDS MessagingInv

VARIABLE waiting

Waiting ==
  waiting' = [p \in Publisher |->
    CASE pc[p] = "inspect" /\ pc'[p] = "compare" -> ToSet(local) \ ToSet(remote)
      [] pc'[p] \notin {"compare", "append", "attach", "preflight", "push"} -> {}
      [] OTHER -> waiting[p]]

CallsInit == Init /\ waiting = [p \in Publisher |-> {}]
CallsNext == Next /\ Waiting
CallsSpec == CallsInit /\ [][CallsNext]_<<vars, waiting>>

(* messaging-v0.md: a publication carries this call's message.  Whoever's    *)
(* message was waiting when the call looked (appended and never pushed, or   *)
(* left by a publisher that died), the push does not carry it along, in any  *)
(* root and whatever is attached meanwhile.                                  *)
OwnPublication ==
  \A p \in Publisher :
    pc[p] = "push" =>
      waiting[p] \intersect ToSet(mine[p]) \subseteq ToSet(expected[p]) \union {msg[p]}

(* Behind it: a call that finds something waiting gets no further than the   *)
(* comparison of the two histories.                                          *)
WaitInv ==
  \A p \in Publisher :
    /\ pc[p] = "compare" => waiting[p] \subseteq ToSet(local) \ ToSet(expected[p])
    /\ pc[p] # "compare" => waiting[p] = {}
=============================================================================
