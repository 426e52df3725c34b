--------------------------- MODULE MCReleaseAudit ---------------------------
(***************************************************************************)
(* Model values: two sources, which the checkout is changed between, and   *)
(* two runs of the clean room, of either source, which are interchangeable *)
(* until they have run.                                                    *)
(***************************************************************************)
EXTENDS ReleaseAudit
Symmetric ==
  {[i \in Version \cup Room |-> IF i \in Version THEN f[i] ELSE g[i]] :
     f \in {h \in [Version -> Version] : \A a, b \in Version : h[a] = h[b] => a = b},
     g \in {h \in [Room -> Room] : \A a, b \in Room : h[a] = h[b] => a = b}}

\* Nothing is collected or recorded while an audit runs: one that begins without
\* a record of the collector cannot pass, however it goes on.
MayPass == ~At("runtime") /\ cmd'.pc = "runtime" => ci # None
=============================================================================
