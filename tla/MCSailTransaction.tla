------------------------- MODULE MCSailTransaction -------------------------
(* Instances of SailTransaction for TLC: two calls of one backend, the second *)
(* of which meets whatever the first one left, and two configurations; calls  *)
(* and configurations are interchangeable.                                    *)
EXTENDS SailTransaction, TLC

Symmetric == Permutations(Call) \cup Permutations(Config)
=============================================================================
