---------------------------- MODULE MCProofGate ----------------------------
(* An instance of ProofGate for TLC: of the stages without an effect of their *)
(* own the first one stands for all.                                          *)
EXTENDS ProofGate

MCStages == << "generate-rust", "generate-sail", "theorem-audit", "public-decoder" >>
=============================================================================
