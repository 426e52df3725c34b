---------------------------- MODULE MCDiiSession ----------------------------
(* Instances of DiiSession for TLC: sessions that are threads of one process, *)
(* and sessions that each run in a process of their own.                      *)
EXTENDS DiiSession, TLC

OneProcess  == [s \in Session |-> CHOOSE q \in Process : TRUE]
OwnProcess  == [s \in Session |-> s]
=============================================================================
