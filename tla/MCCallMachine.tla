---------------------------- MODULE MCCallMachine ----------------------------
(* CallMachine with a short pool and a few events from outside.            *)
EXTENDS CallMachine
=============================================================================
