-------------------------- MODULE ContextSelection --------------------------
(***************************************************************************)
(* What build_context_manifest selects and what assemble_context makes of  *)
(* it (src/peoplebot/preparation.py).  A path is the sequence of its       *)
(* names.  The leaves of the commit's tree come as a sequence in canonical *)
(* order: path, kind, size and whether the content is UTF-8 text without   *)
(* NUL; a gitlink has no size.  A tree without leaves stands among them as *)
(* a "directory": it can be asked for, and adds nothing.  What is asked    *)
(* for, selected and excluded are sets of positions in that sequence.  A   *)
(* policy has a set of excluded paths and three limits.                    *)
(***************************************************************************)
EXTENDS Integers, SequencesExt

NoSize == -1
LeafKinds == {"file", "executable", "symlink", "gitlink"}

(* A path is under another if it is the same or below it; the rules that     *)
(* match a path are beginnings of it, and the longest one is named.          *)
Under(path, base) == IsPrefix(base, path)
Matching(path, exclusions) == {rule \in exclusions : Under(path, rule)}
Nearest(path, exclusions) ==
  CHOOSE rule \in Matching(path, exclusions) :
    \A other \in Matching(path, exclusions) : Len(other) =< Len(rule)

Available(leaves, path) == \E i \in DOMAIN leaves : Under(leaves[i].path, path)
Requested(leaves, requests) ==
  {i \in DOMAIN leaves : leaves[i].kind # "directory" /\ \E path \in requests : Under(leaves[i].path, path)}

(* The failure of the expansion, in the order of the requests: it stops at   *)
(* the first.                                                                *)
RequestFailure(leaves, requests, i, policy) ==
  LET expanded == Requested(leaves, {requests[i]})
  IN  IF ~Available(leaves, requests[i]) THEN "path_unavailable"
      ELSE IF \E j \in expanded : leaves[j].kind \notin LeafKinds THEN "entry_unsupported"
      ELSE IF Cardinality(Requested(leaves, {requests[j] : j \in 1..i})) > policy.maxEntries
        THEN "entry_limit_exceeded"
      ELSE "none"
ExpansionFailure(leaves, requests, policy) ==
  LET failing == {i \in DOMAIN requests : RequestFailure(leaves, requests, i, policy) # "none"}
  IN  IF failing = {} THEN "none" ELSE RequestFailure(leaves, requests, Min(failing), policy)

(* The policy's verdict on a leaf, after so many bytes have been selected.   *)
Decision(leaf, bytes, policy) ==
  IF Matching(leaf.path, policy.exclusions) # {} THEN "path_excluded"
  ELSE IF leaf.size > policy.maxBlobBytes THEN "max_blob_bytes"
  ELSE IF leaf.size # NoSize /\ bytes + leaf.size > policy.maxTotalBytes THEN "max_total_blob_bytes"
  ELSE "selected"

(* The bytes selected among the first leaves, one after the other.           *)
Weight(leaf) == IF leaf.size = NoSize THEN 0 ELSE leaf.size
SelectedBytes(leaves, asked, policy) ==
  LET bytes[n \in 0 .. Len(leaves)] ==
        IF n = 0 THEN 0
        ELSE IF n \in asked /\ Decision(leaves[n], bytes[n - 1], policy) = "selected"
          THEN bytes[n - 1] + Weight(leaves[n])
        ELSE bytes[n - 1]
  IN  bytes

Manifest(leaves, requests, policy) ==
  LET asked == Requested(leaves, ToSet(requests))
      bytes == SelectedBytes(leaves, asked, policy)
      decision == [i \in asked |-> Decision(leaves[i], bytes[i - 1], policy)]
      selected == {i \in asked : decision[i] = "selected"}
  IN  [selected |-> selected, bytes |-> bytes[Len(leaves)],
       excluded |-> [i \in asked \ selected |->
         [code |-> decision[i],
          rule |-> IF decision[i] = "path_excluded" THEN Nearest(leaves[i].path, policy.exclusions) ELSE <<>>]]]

(* The failure of an assembly: kinds of entries first, contents afterwards,  *)
(* each in canonical order.                                                  *)
KindFailure(leaf) ==
  CASE leaf.kind = "symlink" -> "symlink_unsupported"
    [] leaf.kind = "gitlink" -> "gitlink_unsupported"
    [] OTHER -> "none"
ContentFailure(leaf) ==
  CASE leaf.content = "nul" -> "nul_unsupported"
    [] leaf.content = "binary" -> "encoding_unsupported"
    [] OTHER -> "none"
AssemblyFailure(leaves, selected) ==
  LET kinds == {i \in selected : KindFailure(leaves[i]) # "none"}
      contents == {i \in selected : ContentFailure(leaves[i]) # "none"}
  IN  IF kinds # {} THEN KindFailure(leaves[Min(kinds)])
      ELSE IF contents # {} THEN ContentFailure(leaves[Min(contents)])
      ELSE "none"
Assembled(leaves, requests, policy) ==
  LET failed == ExpansionFailure(leaves, requests, policy)
      failure == AssemblyFailure(leaves, Manifest(leaves, requests, policy).selected)
  IN  IF failed # "none" THEN failed ELSE IF failure # "none" THEN failure ELSE "assembled"

-----------------------------------------------------------------------------
(* The bytes of a set of leaves. *)
TotalBytes(leaves, set) ==
  LET total[n \in 0 .. Len(leaves)] ==
        IF n = 0 THEN 0 ELSE total[n - 1] + (IF n \in set THEN Weight(leaves[n]) ELSE 0)
  IN  total[Len(leaves)]

(* The bytes counted are those of the selected leaves, within the total that *)
(* the policy allows, none of which is too large or matched by a rule.  A    *)
(* leaf is left out for the total only if it does not fit beside the leaves  *)
(* selected before it; and the rule named is the one nearest to it           *)
(* (preparation.py:558-600).                                                 *)
SelectionSound(leaves, requests, policy) ==
  LET manifest == Manifest(leaves, requests, policy)
  IN  /\ manifest.bytes = TotalBytes(leaves, manifest.selected)
      /\ manifest.bytes =< policy.maxTotalBytes
      /\ \A i \in manifest.selected :
           leaves[i].size =< policy.maxBlobBytes /\ Matching(leaves[i].path, policy.exclusions) = {}
      /\ \A i \in DOMAIN manifest.excluded :
           LET code == manifest.excluded[i].code  rule == manifest.excluded[i].rule
           IN  \/ /\ code = "path_excluded" /\ rule \in policy.exclusions /\ Under(leaves[i].path, rule)
                  /\ \A other \in policy.exclusions :
                       Under(leaves[i].path, other) /\ Under(other, rule) => other = rule
               \/ code = "max_blob_bytes" /\ leaves[i].size > policy.maxBlobBytes
               \/ /\ code = "max_total_blob_bytes" /\ leaves[i].size # NoSize
                  /\ TotalBytes(leaves, {j \in manifest.selected : j < i}) + leaves[i].size > policy.maxTotalBytes

(* What is assembled was available, within the limit, and is text all over   *)
(* (preparation.py:526-548, 707-760).                                        *)
AssemblySound(leaves, requests, policy) ==
  LET asked == Requested(leaves, ToSet(requests))
      readable == {i \in asked : leaves[i].kind \in {"file", "executable"} /\ leaves[i].content = "text"}
  IN  Assembled(leaves, requests, policy) = "assembled" <=>
        /\ \A i \in DOMAIN requests : Available(leaves, requests[i])
        /\ Cardinality(asked) =< policy.maxEntries
        /\ \A i \in asked : leaves[i].kind \in LeafKinds
        /\ Manifest(leaves, requests, policy).selected \subseteq readable
=============================================================================
