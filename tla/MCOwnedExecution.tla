-------------------------- MODULE MCOwnedExecution --------------------------
(* Instances of OwnedExecution for TLC. *)
EXTENDS OwnedExecution, TLC

CONSTANTS e1, e2, doc1, doc2, version, other

AdapterOf == (e1 :> "review") @@ (e2 :> "licensing")
RetriesOf == (e1 :> 1) @@ (e2 :> 0)
KillsOf == (e1 :> 1) @@ (e2 :> 0)
OneDocument == <<doc1>>

Quiet == [json |-> "object", type |-> "turn.started", item |-> "none", text |-> FALSE, usage |-> "absent",
          answer |-> None]
Turn == [Quiet EXCEPT !.type = "turn.completed", !.usage = "valid"]
Tool == [Quiet EXCEPT !.type = "item.started", !.item = "command_execution"]
Finding(citations) == [fields |-> TRUE, citations |-> citations, texts |-> <<"fits">>]
Citing(d) == [unicode |-> TRUE, size |-> "within", json |-> TRUE, strings |-> TRUE, fields |-> TRUE,
              outcome |-> "findings", insufficient |-> None, findings |-> <<Finding(<<d>>)>>,
              citation |-> <<d>>, rendered |-> "within"]
Says(d) == [Quiet EXCEPT !.type = "item.completed", !.item = "agent_message", !.text = TRUE, !.answer = Citing(d)]

Plan(lines, err, code) == [stdout |-> lines, stderr |-> err, code |-> code]
Versions == (e1 :> {Plan(<<version>>, 0, 0)}) @@ (e2 :> {Plan(<<other>>, 0, 0)})
(* e1 has an answer that is whole, that cites another State, whose child       *)
(* fails, and that is too long; the runtime of e2 is of another version.      *)
Answers ==
  (e1 :> {Plan(<<Says(doc1), Turn>>, 0, 0), Plan(<<Says(doc2), Turn>>, 0, 0), Plan(<<Says(doc1), Turn>>, 0, 1),
          Plan(<<Says(doc1), Turn, Turn>>, 0, 0)})
  @@ (e2 :> {})

-----------------------------------------------------------------------------
(* The verdict on a stream compared with what a whole stream is, for every     *)
(* stream of at most one line more than is taken, made of these lines.        *)
Lines ==
  {Turn, [Turn EXCEPT !.usage = "invalid"], Tool, Quiet, Says(doc1), [Says(doc1) EXCEPT !.text = FALSE],
   [Says(doc1) EXCEPT !.type = "item.updated"], [Says(doc1) EXCEPT !.item = "unheard_of"],
   [Says(doc1) EXCEPT !.item = "untyped"], [Quiet EXCEPT !.type = "turn.failed"], [Quiet EXCEPT !.type = "unheard_of"],
   [Quiet EXCEPT !.type = "missing"], [Quiet EXCEPT !.json = "invalid"], [Quiet EXCEPT !.json = "non_object"]}
WellFormed(lines) ==
  \A i \in DOMAIN lines :
    /\ lines[i].usage # "invalid"
    /\ lines[i].type = "item.completed" /\ lines[i].item = "agent_message" => lines[i].text
ASSUME VerdictCompleted ==
  \A lines \in BoundedSeq(Lines, MaxEvents + 1) :
    Verdict(lines) = "completed" <=> WholeStream(lines) /\ WellFormed(lines)

(* A tool or command event among the lines that are taken outweighs whatever   *)
(* else is wrong with the stream.                                             *)
ASSUME ToolOutweighs ==
  \A lines \in BoundedSeq(Lines, MaxEvents) : Verdict(lines) = "restriction_violated" <=> Tool \in ToSet(lines)

(* The verdicts on an answer, for small answers: it is taken exactly where     *)
(* everything it holds is in order, whatever the order of the checks.         *)
Licensings ==
  [size : {"within", "over"}, json : BOOLEAN, fields : BOOLEAN, citation : BoundedSeq({doc1, doc2}, 2),
   rendered : {"within", "over"}]
Findings ==
  {Finding(<<doc1>>), Finding(<<>>), Finding(<<doc2>>), Finding(<<doc1, doc1>>), Finding(<<"malformed">>),
   [Finding(<<doc1>>) EXCEPT !.fields = FALSE]} \union {[Finding(<<doc1>>) EXCEPT !.texts = <<t>>] : t \in {"malformed", "over"}}
Reviews ==
  [unicode : BOOLEAN, size : {"within", "over"}, json : BOOLEAN, strings : BOOLEAN, fields : BOOLEAN,
   outcome : ReviewOutcomes \union {"unheard_of"}, insufficient : {None, "fits", "malformed", "over"},
   findings : BoundedSeq(Findings, 2)]
ASSUME AnswerCompleted ==
  /\ \A answer \in Licensings :
       LicensingVerdict(answer, <<doc1>>) = "completed" <=>
         answer = [size |-> "within", json |-> TRUE, fields |-> TRUE, citation |-> <<doc1>>, rendered |-> "within"]
  /\ \A answer \in Reviews :
       ReviewVerdict(answer, <<doc1>>) = "completed" <=>
         /\ answer.unicode /\ answer.size = "within" /\ answer.json /\ answer.strings /\ answer.fields
         /\ \/ answer.outcome = "findings" /\ answer.findings = <<Finding(<<doc1>>)>> /\ answer.insufficient = None
            \/ answer.outcome = "insufficient_evidence" /\ answer.findings = <<>> /\ answer.insufficient = "fits"
            \/ answer.outcome = "no_findings" /\ answer.findings = <<>> /\ answer.insufficient = None
=============================================================================
