----------------------------- MODULE CodexEvents -----------------------------
(***************************************************************************)
(* What one event stream of the Codex child is worth                       *)
(* (src/peoplebot/adapters/codex_read_only.py, the second half of          *)
(* _invoke_codex_json_transport).  The stream is read in two passes: every *)
(* line is decoded first, then the decoded events are classified in their  *)
(* order.  A line is a record: how it decodes, the type of the event, the  *)
(* type of its item, whether a message carries a text, and what usage a    *)
(* completed turn reports.  The passes are sets of positions in the stream: *)
(* what is reported is the failure at the first position of such a set.    *)
(***************************************************************************)
EXTENDS Naturals, SequencesExt

CONSTANT MaxEvents   \* _MAX_EVENT_COUNT

ASSUME EventsAssumption == MaxEvents \in Nat

ItemEvents == {"item.started", "item.updated", "item.completed"}
SupportedTypes == ItemEvents \union {"thread.started", "turn.started", "turn.completed", "turn.failed", "error"}
RestrictedItems == {"collab_tool_call", "command_execution", "file_change", "mcp_tool_call", "web_search"}
NonToolItems == {"agent_message", "reasoning", "error", "todo_list"}

Processed(lines) == {i \in DOMAIN lines : i <= MaxEvents}

(* The failure of a line or an event, "none" where it has none.  A restricted *)
(* item has none: it is remembered by itself, and outweighs them all.        *)
DecodeFailure(line) ==
  IF line.json = "object" THEN "none"
  ELSE IF line.json = "non_object" THEN "event_malformed" ELSE "response_invalid_json"
Decoded(lines) == {i \in Processed(lines) : lines[i].json = "object"}

ItemFailure(event) ==
  IF event.item \in NonToolItems \union RestrictedItems
  THEN IF event.type = "item.completed" /\ event.item = "agent_message" /\ ~event.text THEN "item_malformed" ELSE "none"
  ELSE IF event.item \in {"missing", "non_object", "untyped", "bad_type"} THEN "item_malformed" ELSE "item_unsupported"
EventFailure(event) ==
  IF event.type \in ItemEvents THEN ItemFailure(event)
  ELSE IF event.type \in {"missing", "bad_type"} THEN "event_malformed"
  ELSE IF event.type \in {"error", "turn.failed"} THEN "process_failed"
  ELSE IF event.type \in SupportedTypes THEN "none" ELSE "event_unsupported"

Messages(lines) ==
  {i \in Decoded(lines) : lines[i].type = "item.completed" /\ lines[i].item = "agent_message" /\ lines[i].text}
CompletedTurns(lines) == {i \in Decoded(lines) : lines[i].type = "turn.completed"}
Restricted(lines) == \E i \in Decoded(lines) : lines[i].type \in ItemEvents /\ lines[i].item \in RestrictedItems
OneOf(S) == \E i \in S : S = {i}

(* The text of the message that a completed stream has.                      *)
Answer(lines) == lines[Min(Messages(lines))].answer

(* The failures in the order in which they are classified: only the first    *)
(* one is kept.  Usage is looked at only where exactly one turn completed.   *)
Failure(lines) ==
  LET undecoded == {i \in Processed(lines) : DecodeFailure(lines[i]) # "none"}
      refused == {i \in Decoded(lines) : EventFailure(lines[i]) # "none"}
  IN IF Len(lines) > MaxEvents THEN "event_unsupported"
     ELSE IF undecoded # {} THEN DecodeFailure(lines[Min(undecoded)])
     ELSE IF refused # {} THEN EventFailure(lines[Min(refused)])
     ELSE IF OneOf(CompletedTurns(lines)) /\ lines[Min(CompletedTurns(lines))].usage = "invalid" THEN "usage_invalid"
     ELSE "none"

Verdict(lines) ==
  IF Restricted(lines) THEN "restriction_violated"
  ELSE IF Failure(lines) # "none" THEN Failure(lines)
  ELSE IF OneOf(Messages(lines)) /\ OneOf(CompletedTurns(lines)) THEN "completed"
  ELSE "response_missing_completion"
=============================================================================
