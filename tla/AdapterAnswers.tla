--------------------------- MODULE AdapterAnswers ---------------------------
(***************************************************************************)
(* The answers that the two read-only adapters take from the one message   *)
(* of an event stream: a licensing answer                                  *)
(* (src/peoplebot/adapters/codex_read_only.py) and a project review        *)
(* (src/peoplebot/adapters/project_review.py).  An answer is a record of   *)
(* what its text holds; a verdict is the code of the observation.          *)
(***************************************************************************)
EXTENDS Naturals, SequencesExt

CONSTANTS
  MaxFindings, MaxCitations,   \* bounds of the adapter's configuration
  NoReason                     \* a null insufficient_evidence

(* The checks are made in this order: the first that fails names the answer. *)
Check(holds, code) == IF holds THEN "completed" ELSE code
FirstFailure(codes) ==
  LET failed == {i \in DOMAIN codes : codes[i] # "completed"}
  IN IF failed = {} THEN "completed" ELSE codes[Min(failed)]

(* A licensing answer has the required fields and values, cites exactly the  *)
(* one State that was supplied, and can be rendered within its limit.        *)
LicensingVerdict(answer, documents) ==
  FirstFailure(<<
    Check(answer.size = "within", "response_limit_exceeded"),
    Check(answer.json, "response_invalid_json"),
    Check(answer.fields, "response_field_invalid"),
    Check(answer.citation = <<documents[1]>>, "response_citation_mismatch"),
    Check(answer.rendered = "within", "response_limit_exceeded")>>)

(* A review names its outcome, which decides whether it has findings and a   *)
(* reason; each finding cites supplied documents, each of them once.         *)
ReviewOutcomes == {"findings", "insufficient_evidence", "no_findings"}
OutcomeFits(answer) ==
  /\ answer.outcome = "findings" <=> answer.findings # <<>>
  /\ answer.outcome = "insufficient_evidence" <=> answer.insufficient # NoReason

(* A text is "fits", "malformed" (not a text, empty, with blanks around it   *)
(* or control characters) or "over" its limit.                               *)
TextVerdict(text) ==
  FirstFailure(<<
    Check(text # "malformed", "response_field_invalid"),
    Check(text # "over", "response_limit_exceeded")>>)

CitationVerdict(citations, i, documents) ==
  FirstFailure(<<
    Check(citations[i] # "malformed", "response_field_invalid"),
    Check(citations[i] \in ToSet(documents), "response_citation_mismatch"),
    Check(\A j \in 1 .. i - 1 : citations[j] # citations[i], "response_field_invalid")>>)

FindingVerdict(finding, documents) ==
  FirstFailure(<<
    Check(finding.fields, "response_field_invalid"),
    Check(Len(finding.citations) \in 1 .. MaxCitations, "response_limit_exceeded"),
    FirstFailure([i \in DOMAIN finding.citations |-> CitationVerdict(finding.citations, i, documents)]),
    FirstFailure([i \in DOMAIN finding.texts |-> TextVerdict(finding.texts[i])])>>)

ReviewVerdict(answer, documents) ==
  FirstFailure(<<
    Check(answer.unicode, "response_invalid_unicode"),
    Check(answer.size = "within", "response_limit_exceeded"),
    Check(answer.json, "response_invalid_json"),
    Check(answer.strings, "response_invalid_unicode"),
    Check(answer.fields /\ answer.outcome \in ReviewOutcomes, "response_field_invalid"),
    Check(Len(answer.findings) <= MaxFindings, "response_limit_exceeded"),
    Check(OutcomeFits(answer), "response_field_invalid"),
    TextVerdict(answer.insufficient),
    FirstFailure([i \in DOMAIN answer.findings |-> FindingVerdict(answer.findings[i], documents)])>>)
=============================================================================
