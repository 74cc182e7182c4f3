----------------------------- MODULE MCX402Rail -----------------------------
(* A small instance of X402Rail.                                            *)
EXTENDS X402Rail, TLC

\* The demo's deployer: every mandate pays from one Safe.
OneSafe == [i \in Instrument |-> CHOOSE s \in Safe : TRUE]

=============================================================================
