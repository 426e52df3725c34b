--------------------------- MODULE MCRestoration ---------------------------
(***************************************************************************)
(* Model values and the archives of the run: a good release, one whose     *)
(* capsule was made while the source was changed and changed back, one     *)
(* with an input that was replaced after its check, and one nobody signed. *)
(***************************************************************************)
EXTENDS Restoration
CONSTANTS v1, v2
MCArchive ==
  {[signed |-> TRUE, manifest |-> v1, capsule |-> v1, pinned |-> TRUE],
   [signed |-> TRUE, manifest |-> v1, capsule |-> v2, pinned |-> TRUE],
   [signed |-> TRUE, manifest |-> v1, capsule |-> v1, pinned |-> FALSE],
   [signed |-> FALSE, manifest |-> v2, capsule |-> v2, pinned |-> TRUE]}
MCRoots == <<"lean", "sail">>
Symmetric == {[i \in Run |-> f[i]] : f \in {g \in [Run -> Run] : \A a, b \in Run : g[a] = g[b] => a = b}}
=============================================================================
