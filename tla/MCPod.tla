------------------------------- MODULE MCPod -------------------------------
(***************************************************************************)
(* A small instance of Pod: more payments than slots, so that load is      *)
(* shed, one request without a deadline, and two workers.                  *)
(***************************************************************************)
EXTENDS Pod, TLC

ASSUME LoadIsShed == Cardinality(Payer) > Ceiling
=============================================================================
