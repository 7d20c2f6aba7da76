------------------------- MODULE MCPreparedWorktree -------------------------
(***************************************************************************)
(* An instance of PreparedWorktree for TLC, and the selection of context   *)
(* compared with what it is to be, for every small tree, policy and        *)
(* request.                                                                *)
(***************************************************************************)
EXTENDS PreparedWorktree, ContextSelection, FiniteSets, TLC

CONSTANTS p1, p2, p3

PreparerSymmetry == Permutations(Preparer)

-----------------------------------------------------------------------------
(* The leaves docs/a, docs/b, docs/sub/c and src, of sizes up to two, or     *)
(* trees without leaves in their place.                                      *)
Paths == <<<<"docs", "a">>, <<"docs", "b">>, <<"docs", "sub", "c">>, <<"src">>>>
Shapes ==
  {[kind |-> "file", size |-> n, content |-> "text"] : n \in 0..2}
  \union {[kind |-> "directory", size |-> NoSize, content |-> "text"],
          [kind |-> "gitlink", size |-> NoSize, content |-> "text"],
          [kind |-> "symlink", size |-> 1, content |-> "text"],
          [kind |-> "file", size |-> 1, content |-> "nul"]}
Trees ==
  {[i \in 1..4 |-> [path |-> Paths[i]] @@ shape[i]] : shape \in [1..4 -> Shapes]}
Requests == {<<<<"docs">>>>, <<<<"docs", "sub">>, <<"src">>>>, <<<<"docs">>, <<"src">>>>,
             <<<<"docs">>, <<"lost">>>>}
Policies ==
  [maxEntries : {2, 4}, maxBlobBytes : {1, 2}, maxTotalBytes : {2, 3},
   exclusions : {{}, {<<"docs", "sub">>}, {<<"docs">>, <<"docs", "b">>}}]

(* What is selected and what is assembled, for every one of these. *)
ASSUME SelectionChecked ==
  \A leaves \in Trees, requests \in Requests, policy \in Policies : SelectionSound(leaves, requests, policy)
ASSUME AssemblyChecked ==
  \A leaves \in Trees, requests \in Requests, policy \in Policies : AssemblySound(leaves, requests, policy)
=============================================================================
