-------------------------- MODULE MCEvidenceChain --------------------------
(* A small instance of EvidenceChain: two requests and two mandates are      *)
(* enough for every cycle of two waiting transactions.                       *)
EXTENDS EvidenceChain, TLC

=============================================================================
